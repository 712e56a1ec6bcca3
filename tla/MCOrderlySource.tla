-------------------------- MODULE MCOrderlySource --------------------------
(***************************************************************************)
(* IntegrationRuntime driven by one orderly client: four requests over a   *)
(* source of three records whose last one has another schema.              *)
(***************************************************************************)
EXTENDS IntegrationRuntime, TLC

CONSTANTS w1, w2, r1, r2, r3, q1

OMark == (r1 :> 1) @@ (r2 :> 2) @@ (r3 :> 3)
OShape == (r1 :> {<<"id", "str">>}) @@ (r2 :> {<<"id", "str">>}) @@ (r3 :> {<<"id", "int">>})
OMappable == {r1, r3}
ORejects == q1 :> {r2}
OBatches == {{r1, r2}, {r3}}
OConfigs == {[f \in {"wf"} |-> TRUE]}

\* The source is one the theorems speak of.
ASSUME OrderlySource == WatermarkLeftAlone /\ ErrorsReported
=============================================================================
