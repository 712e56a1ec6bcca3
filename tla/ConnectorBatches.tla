-------------------------- MODULE ConnectorBatches --------------------------
(***************************************************************************)
(* app/connector_sdk.py and app/edge_agent.py over IntegrationRuntime: one *)
(* connector bound to the binding, one edge agent, and the submissions of  *)
(* batches.  A worker that submits calls runtime.execute in the middle, so *)
(* the steps of IntegrationRuntime are steps of the submission.            *)
(***************************************************************************)
EXTENDS IntegrationRuntime

CONSTANTS
  BatchIds,  \* batch_id values a client uses
  Payload    \* [BatchIds -> Batches] the records of a batch

ASSUME PayloadAssumption == Payload \in [BatchIds -> Batches]

VARIABLES
  connector, \* the connector's document: status and last_cursor (a batch or "none")
  agent,     \* status of the edge agent's document, "none" before registration
  stored,    \* [BatchIds -> "none" or the stored result] of connector_batches
  sub        \* the locals of each worker's submit, approve or retire

cvars == <<connector, agent, stored, sub>>
allvars == <<vars, cvars>>

Results == {"success", "partial"}
Statuses == {"draft", "approved", "retired"}
Connectors == [status : Statuses, cursor : BatchIds \cup {"none"}]
NewConnector == [status |-> "draft", cursor |-> "none"]

Free == [pc |-> "free", id |-> "none", result |-> "success", conn |-> NewConnector]
SubPCs == {"free", "lookup", "connector", "agent", "execute", "record", "fetch", "touch",
           "check", "put"}

CInit ==
  /\ Init
  /\ connector = NewConnector
  /\ agent = "none"
  /\ stored = [b \in BatchIds |-> "none"]
  /\ sub = [w \in Workers |-> Free]

-----------------------------------------------------------------------------
\* ConnectorBatchProcessor.submit

Submit(w, b) ==
  /\ sub[w].pc = "free" /\ loc[w].pc = "idle"
  /\ requests < MaxRequests
  /\ sub' = [sub EXCEPT ![w] = [Free EXCEPT !.pc = "lookup", !.id = b]]
  /\ UNCHANGED <<vars, connector, agent, stored>>

\* Mutant: a partial batch is processed again when it is resent.
LookupSuccessOnly(w) ==
  /\ sub[w].pc = "lookup"
  /\ sub' = [sub EXCEPT ![w] = IF stored[sub[w].id] = "success" THEN Free
                               ELSE [sub[w] EXCEPT !.pc = "connector"]]
  /\ UNCHANGED <<vars, connector, agent, stored>>

\* A stored result answers a duplicate.
Lookup(w) ==
  /\ sub[w].pc = "lookup"
  /\ sub' = [sub EXCEPT ![w] = IF stored[sub[w].id] # "none" THEN Free
                               ELSE [sub[w] EXCEPT !.pc = "connector"]]
  /\ UNCHANGED <<vars, connector, agent, stored>>

CheckConnector(w) ==
  /\ sub[w].pc = "connector"
  /\ sub' = [sub EXCEPT ![w] = IF connector.status # "approved" THEN Free
                               ELSE [sub[w] EXCEPT !.pc = "agent"]]
  /\ UNCHANGED <<vars, connector, agent, stored>>

\* Mutant: the cursor moves on when the agent is offline.
CheckAgentTouches(w) ==
  /\ sub[w].pc = "agent"
  /\ \/ /\ agent \in {"online", "registered"}
        /\ StartRun(w, Payload[sub[w].id])
        /\ sub' = [sub EXCEPT ![w].pc = "execute"]
     \/ /\ agent \notin {"online", "registered"}
        /\ sub' = [sub EXCEPT ![w].pc = "fetch"]
        /\ UNCHANGED vars
  /\ UNCHANGED <<connector, agent, stored>>

\* The last check, and the call of runtime.execute.
CheckAgent(w) ==
  /\ sub[w].pc = "agent"
  /\ \/ /\ agent \in {"online", "registered"}
        /\ StartRun(w, Payload[sub[w].id])
        /\ sub' = [sub EXCEPT ![w].pc = "execute"]
     \/ /\ agent \notin {"online", "registered"}
        /\ sub' = [sub EXCEPT ![w] = Free]
        /\ UNCHANGED vars
  /\ UNCHANGED <<connector, agent, stored>>

\* Mutants: a run that raised is recorded, as failed or as partial.
ExecuteRecording(w, verdict) ==
  /\ sub[w].pc = "execute"
  /\ Step(w)
  /\ sub' = [sub EXCEPT ![w] =
       IF loc'[w].pc # "idle" THEN @
       ELSE [@ EXCEPT !.pc = "record",
                      !.result = IF loc[w].pc = "errs" /\ loc[w].errs = {} THEN "success"
                                 ELSE verdict]]
  /\ UNCHANGED <<connector, agent, stored>>
ExecuteRecordsFailed(w) == ExecuteRecording(w, "failed")
ExecuteRecordsPartial(w) == ExecuteRecording(w, "partial")

\* A step of execute.  It returns when Save has put the row, with failed = 0 when
\* the binding reported no error; any other way out of it is an exception.
Execute(w) ==
  /\ sub[w].pc = "execute"
  /\ Step(w)
  /\ sub' = [sub EXCEPT ![w] =
       IF loc'[w].pc # "idle" THEN @
       ELSE IF loc[w].pc = "errs"
            THEN [@ EXCEPT !.pc = "record",
                           !.result = IF loc[w].errs = {} THEN "success" ELSE "partial"]
            ELSE Free]
  /\ UNCHANGED <<connector, agent, stored>>

-----------------------------------------------------------------------------
\* ConnectorRegistry.record_batch: the batch row, then the connector read and put.

Record(w) ==
  /\ sub[w].pc = "record"
  /\ stored' = [stored EXCEPT ![sub[w].id] = sub[w].result]
  /\ sub' = [sub EXCEPT ![w].pc = "fetch"]
  /\ UNCHANGED <<vars, connector, agent>>

Fetch(w) ==
  /\ sub[w].pc = "fetch"
  /\ sub' = [sub EXCEPT ![w].pc = "touch", ![w].conn = connector]
  /\ UNCHANGED <<vars, connector, agent, stored>>

Touch(w) ==
  /\ sub[w].pc = "touch"
  /\ connector' = [sub[w].conn EXCEPT !.cursor = sub[w].id]
  /\ sub' = [sub EXCEPT ![w] = Free]
  /\ UNCHANGED <<vars, agent, stored>>

-----------------------------------------------------------------------------
\* The connector's lifecycle and the agent's.

\* upsert puts the payload as the row: with its own status and cursor if it is an
\* edited copy of the document, else as a draft without a cursor.
UpsertConnector(status, cursor) ==
  /\ cursor \in {"none", connector.cursor}
  /\ connector' = [status |-> status, cursor |-> cursor]
  /\ UNCHANGED <<vars, agent, stored, sub>>

\* approve reads the row, checks that the binding is approved, puts the row;
\* retire has no check.
Review(w, next) ==
  /\ sub[w].pc = "free" /\ loc[w].pc = "idle"
  /\ next \in {"check", "put"}
  /\ sub' = [sub EXCEPT ![w].pc = next, ![w].conn =
               [connector EXCEPT !.status = IF next = "check" THEN "approved" ELSE "retired"]]
  /\ UNCHANGED <<vars, connector, agent, stored>>

CheckBinding(w) ==
  /\ sub[w].pc = "check"
  /\ sub' = [sub EXCEPT ![w] = IF binding = "approved" THEN [@ EXCEPT !.pc = "put"] ELSE Free]
  /\ UNCHANGED <<vars, connector, agent, stored>>

PutConnector(w) ==
  /\ sub[w].pc = "put"
  /\ connector' = sub[w].conn
  /\ sub' = [sub EXCEPT ![w] = Free]
  /\ UNCHANGED <<vars, agent, stored>>

\* register; heartbeat and set_offline of a registered agent.
SetAgent(status) ==
  /\ status \in {"registered"} \cup (IF agent = "none" THEN {} ELSE {"online", "offline"})
  /\ agent' = status
  /\ UNCHANGED <<vars, connector, stored, sub>>

-----------------------------------------------------------------------------
\* The handler of a submission dies, inside execute or around it.
Die(w) ==
  /\ sub[w].pc # "free"
  /\ IF loc[w].pc # "idle" THEN Crash(w)
     ELSE /\ crashes < MaxCrashes /\ crashes' = crashes + 1
          /\ UNCHANGED <<row, binding, rules, dlq, applied, loc, requests>>
  /\ sub' = [sub EXCEPT ![w] = Free]
  /\ UNCHANGED <<connector, agent, stored>>

Serve(w) ==
  \/ Lookup(w) \/ CheckConnector(w) \/ CheckAgent(w) \/ Execute(w)
  \/ Record(w) \/ Fetch(w) \/ Touch(w)
  \/ CheckBinding(w) \/ PutConnector(w)

\* An operator's request to the runtime beside the submissions: configure, or the
\* retry of a dead letter, which writes the record of a batch once more.
Aside(w) ==
  /\ sub[w].pc = "free"
  /\ \/ \E c \in Configs : Configure(w, c)
     \/ \E d \in DOMAIN dlq : StartRetry(w, d)
     \/ Step(w) \/ Crash(w)
  /\ UNCHANGED cvars

CNext ==
  \/ \E w \in Workers :
       \/ \E b \in BatchIds : Submit(w, b)
       \/ \E next \in {"check", "put"} : Review(w, next)
       \/ Serve(w) \/ Die(w) \/ Aside(w)
  \/ EditBinding /\ UNCHANGED cvars
  \/ \E status \in Statuses, cursor \in BatchIds \cup {"none"} : UpsertConnector(status, cursor)
  \/ \E status \in {"registered", "online", "offline"} : SetAgent(status)

CFairness == \A w \in Workers : WF_allvars(Serve(w))
CSpec == CInit /\ [][CNext]_allvars /\ CFairness

\* One agent that waits for each answer and sends the batches of its source in
\* order, a failed one again before the next.
OneRequest == \A v, w \in Workers :
  (Busy(v) \/ sub[v].pc # "free") /\ (Busy(w) \/ sub[w].pc # "free") => v = w
BatchesInOrder ==
  \A w \in Workers, b \in BatchIds :
    Submit(w, b) => \A c \in BatchIds : (\E r \in Payload[c] : Before(r, Payload[b])) /\ b # c
                                          => stored[c] # "none"
OrderlyCSpec == CInit /\ [][CNext /\ OneRequest' /\ BatchesInOrder]_allvars /\ CFairness
\* What the claims about its batches suppose of the source, beside WatermarkLeftAlone and
\* ErrorsReported: every record carries its watermark field and belongs to a batch.
SourceBatched == \A r \in Records : Mark[r] # 0 /\ \E b \in BatchIds : r \in Payload[b]

-----------------------------------------------------------------------------
CTypeOK ==
  /\ TypeOK
  /\ connector \in Connectors
  /\ agent \in {"none", "registered", "online", "offline"}
  /\ stored \in [BatchIds -> Results \cup {"none"}]
  /\ sub \in [Workers -> [pc : SubPCs, id : BatchIds \cup {"none"}, result : Results,
                          conn : Connectors]]

\* A batch whose result is stored is final: no domain write of its records follows
\* (docs/ARCHITECTURE_V2_4.md:32), unless somebody retries a dead letter of one.
Retried == {dlq[loc[w].id].rec : w \in {v \in Workers : loc[v].pc = "rewrite"}}
ProcessedIsFinal ==
  [][\A b \in BatchIds : stored[b] # "none" =>
       \A r \in Payload[b] : applied'[r] = applied[r] \/ r \in Retried]_allvars

\* Of a batch the platform answers as processed nothing is lost but unmappable records,
\* each of which left an empty letter, whatever failed or died on the way.
ProcessedIsSettled ==
  \A b \in BatchIds : stored[b] # "none" => OnlyUnmappableLost(Payload[b])

\* An agent that resumes after last_cursor skips no record that could be mapped, and the
\* unmappable ones of its source up to that batch left an empty letter each.
UpTo(b) == Payload[b] \cup {r \in Records : Before(r, Payload[b])}
CursorCovers == connector.cursor # "none" => OnlyUnmappableLost(UpTo(connector.cursor))

\* Submission implements the ledger: a batch is running while a worker executes
\* or records it, and a letter that holds a document may be retried.
Parked == {dlq[d].rec : d \in DOMAIN dlq \ EmptyLetters}
BatchStatus ==
  [b \in BatchIds |->
    IF stored[b] # "none" THEN "processed"
    ELSE IF \E w \in Workers : sub[w].id = b /\ sub[w].pc \in {"execute", "record"}
         THEN "running" ELSE "new"]
Ledger == INSTANCE BatchLedger
  WITH domain <- applied, status <- BatchStatus, parked <- Parked, retrying <- Retried
ImplementsLedger == Ledger!Spec
=============================================================================
