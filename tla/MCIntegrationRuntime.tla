------------------------ MODULE MCIntegrationRuntime ------------------------
(***************************************************************************)
(* IntegrationRuntime with two workers and two records of two schemas.     *)
(***************************************************************************)
EXTENDS IntegrationRuntime, TLC

CONSTANTS w1, w2, r1, r2, q1

\* r1 carries the watermark field; r2 has a column more and lacks what the
\* binding requires.
MCMark == (r1 :> 1) @@ (r2 :> 0)
MCShape == (r1 :> {<<"id", "str">>}) @@ (r2 :> {<<"id", "str">>, <<"col", "int">>})
MCMappable == {r1}
MCRejects == q1 :> {r1}
MCBatches == {{r1}, {r1, r2}}
MCConfigs == {[f \in {"wf"} |-> TRUE]}
WorkerSymmetry == Permutations(Workers)
=============================================================================
