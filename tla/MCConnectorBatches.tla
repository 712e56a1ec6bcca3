------------------------- MODULE MCConnectorBatches -------------------------
(***************************************************************************)
(* ConnectorBatches with two batches of one source, the second of which    *)
(* carries a record that cannot be mapped.                                 *)
(***************************************************************************)
EXTENDS ConnectorBatches, TLC

CONSTANTS w1, w2, r1, r2, b1, b2

BMark == (r1 :> 1) @@ (r2 :> 2)
BShape == (r1 :> {<<"id", "str">>}) @@ (r2 :> {<<"id", "str">>})
BBatches == {{r1}, {r2}}
BPayload == (b1 :> {r1}) @@ (b2 :> {r2})
BConfigs == {[f \in {"wf"} |-> TRUE]}
NoRejects == <<>>

\* The source is one the theorems speak of.
ASSUME OrderlySource == WatermarkLeftAlone /\ ErrorsReported /\ SourceBatched
=============================================================================
