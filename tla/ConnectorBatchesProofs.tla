----------------------- MODULE ConnectorBatchesProofs -----------------------
(***************************************************************************)
(* Invariants of ConnectorBatches, and its refinement of BatchLedger, for  *)
(* every number of workers, every source and every set of batches.         *)
(***************************************************************************)
EXTENDS ConnectorBatches, OrderlySourceProofs

-----------------------------------------------------------------------------
\* Types

Subs == [pc : SubPCs, id : BatchIds \cup {"none"}, result : Results, conn : Connectors]

\* The points of a submission, from its first lookup to the connector's new cursor.
Submitting == {"lookup", "connector", "agent", "execute", "record", "fetch", "touch"}

\* A submission knows its batch.
Known(s) == s.pc \in Submitting => s.id \in BatchIds
CTypeInv == CTypeOK /\ \A w \in Workers : Known(sub[w])

\* What the connector side does to the runtime: one of its own steps, or a death
\* outside execute, which is counted.
LEMMA RuntimeSteps ==
  ASSUME CTypeInv, [CNext]_allvars
  PROVE  \/ [Next]_vars
         \/ UNCHANGED <<row, binding, rules, dlq, applied, loc, requests>> /\ crashes' = crashes + 1
<1>1. \A w \in Workers : sub[w].pc = "agent" => Payload[sub[w].id] \in Batches
  BY PayloadAssumption DEF CTypeInv, Known, Submitting
<1>2. ASSUME NEW w \in Workers, CheckAgent(w) PROVE [Next]_vars
  BY <1>1, <1>2 DEF CheckAgent, Next, Request
<1>3. ASSUME NEW w \in Workers, Execute(w) PROVE Next
  BY <1>3 DEF Execute, Next
<1>4. ASSUME NEW w \in Workers, Die(w)
      PROVE  \/ [Next]_vars
             \/ UNCHANGED <<row, binding, rules, dlq, applied, loc, requests>> /\ crashes' = crashes + 1
  BY <1>4 DEF Die, Next
<1>5. ASSUME NEW w \in Workers, Aside(w) PROVE Next
  BY <1>5 DEF Aside, Next, Request
<1>6. CASE EditBinding
  BY <1>6 DEF Next
<1>7. CASE UNCHANGED allvars
  BY <1>7 DEF allvars
<1>8. \/ UNCHANGED allvars \/ UNCHANGED vars \/ EditBinding
      \/ \E w \in Workers : CheckAgent(w) \/ Execute(w) \/ Die(w) \/ Aside(w)
  BY DEF CNext, Serve, Submit, Review, Lookup, CheckConnector, Record, Fetch, Touch, CheckBinding,
         PutConnector, UpsertConnector, SetAgent
<1> QED BY <1>2, <1>3, <1>4, <1>5, <1>6, <1>7, <1>8

\* A worker's submission, a step at a time: its locals stay typed and it knows its batch.
LEMMA SubTyped ==
  ASSUME CTypeInv, NEW w \in Workers, NEW s \in Subs, Known(s), sub' = [sub EXCEPT ![w] = s]
  PROVE  sub' \in [Workers -> Subs] /\ \A v \in Workers : Known(sub'[v])
BY DEF CTypeInv, CTypeOK, Subs

\* What each step of a worker makes of its locals.
LEMMA SubSteps ==
  ASSUME CTypeInv, [CNext]_allvars
  PROVE  \/ UNCHANGED sub
         \/ \E w \in Workers, s \in Subs : Known(s) /\ sub' = [sub EXCEPT ![w] = s]
<1>0. /\ \A w \in Workers : sub[w] \in Subs /\ Known(sub[w])
      /\ connector \in Connectors
  BY DEF CTypeInv, CTypeOK, Subs
<1>1. Free \in Subs /\ Known(Free)
  BY DEF Free, Subs, SubPCs, Results, Connectors, Statuses, NewConnector, Known, Submitting
<1>2. ASSUME NEW w \in Workers, NEW b \in BatchIds, Submit(w, b)
      PROVE  \E s \in Subs : Known(s) /\ sub' = [sub EXCEPT ![w] = s]
  <2>1. PICK s : s = [Free EXCEPT !.pc = "lookup", !.id = b] /\ sub' = [sub EXCEPT ![w] = s]
    BY <1>2 DEF Submit
  <2>2. s \in Subs /\ s.id = b
    BY <1>1, <2>1 DEF Subs, SubPCs
  <2> QED BY <2>1, <2>2 DEF Known
\* A step that only moves on, or ends the submission.
<1>3. ASSUME NEW w \in Workers, NEW pc \in SubPCs,
             pc \in Submitting => sub[w].pc \in Submitting,
             \/ sub' = [sub EXCEPT ![w] = [sub[w] EXCEPT !.pc = pc]]
             \/ sub' = [sub EXCEPT ![w] = Free]
      PROVE  \E s \in Subs : Known(s) /\ sub' = [sub EXCEPT ![w] = s]
  <2>1. PICK s : s = [sub[w] EXCEPT !.pc = pc]
    OBVIOUS
  <2>2. s \in Subs /\ s.pc = pc /\ s.id = sub[w].id
    BY <1>0, <2>1 DEF Subs
  <2>3. Known(s)
    BY <1>0, <1>3, <2>2 DEF Known
  <2> QED BY <1>1, <1>3, <2>1, <2>2, <2>3
<1>4. ASSUME NEW w \in Workers, Lookup(w)
      PROVE  \E s \in Subs : Known(s) /\ sub' = [sub EXCEPT ![w] = s]
  BY <1>3, <1>4 DEF Lookup, SubPCs, Submitting
<1>5. ASSUME NEW w \in Workers, CheckConnector(w)
      PROVE  \E s \in Subs : Known(s) /\ sub' = [sub EXCEPT ![w] = s]
  BY <1>3, <1>5 DEF CheckConnector, SubPCs, Submitting
<1>6. ASSUME NEW w \in Workers, CheckAgent(w)
      PROVE  \E s \in Subs : Known(s) /\ sub' = [sub EXCEPT ![w] = s]
  BY <1>3, <1>6 DEF CheckAgent, SubPCs, Submitting
<1>7. ASSUME NEW w \in Workers, Execute(w)
      PROVE  \E s \in Subs : Known(s) /\ sub' = [sub EXCEPT ![w] = s]
  <2>1. CASE sub' = [sub EXCEPT ![w] = sub[w]]
    BY <1>0, <2>1
  <2>2. CASE sub' = [sub EXCEPT ![w] = Free]
    BY <1>1, <2>2
  <2>3. ASSUME NEW v \in Results, sub' = [sub EXCEPT ![w] = [sub[w] EXCEPT !.pc = "record", !.result = v]]
        PROVE  \E s \in Subs : Known(s) /\ sub' = [sub EXCEPT ![w] = s]
    <3>1. PICK s : s = [sub[w] EXCEPT !.pc = "record", !.result = v]
      OBVIOUS
    <3>2. s \in Subs /\ s.id = sub[w].id /\ sub[w].pc = "execute"
      BY <1>0, <1>7, <3>1 DEF Subs, SubPCs, Execute
    <3>3. Known(s)
      BY <1>0, <3>2 DEF Known, Submitting
    <3> QED BY <2>3, <3>1, <3>2, <3>3
  <2> QED BY <1>7, <2>1, <2>2, <2>3 DEF Execute, Results
<1>8. ASSUME NEW w \in Workers, Record(w)
      PROVE  \E s \in Subs : Known(s) /\ sub' = [sub EXCEPT ![w] = s]
  BY <1>3, <1>8 DEF Record, SubPCs, Submitting
<1>9. ASSUME NEW w \in Workers, Fetch(w)
      PROVE  \E s \in Subs : Known(s) /\ sub' = [sub EXCEPT ![w] = s]
  <2>1. PICK s : /\ s = [sub[w] EXCEPT !.pc = "touch", !.conn = connector]
                 /\ sub' = [sub EXCEPT ![w] = s]
    BY <1>9 DEF Fetch
  <2>2. s \in Subs /\ s.id = sub[w].id /\ sub[w].pc = "fetch"
    BY <1>0, <1>9, <2>1 DEF Subs, SubPCs, Fetch
  <2>3. Known(s)
    BY <1>0, <2>2 DEF Known, Submitting
  <2> QED BY <2>1, <2>2, <2>3
<1>10. ASSUME NEW w \in Workers, Touch(w) \/ PutConnector(w) \/ Die(w)
       PROVE  \E s \in Subs : Known(s) /\ sub' = [sub EXCEPT ![w] = s]
  BY <1>1, <1>10 DEF Touch, PutConnector, Die
<1>11. ASSUME NEW w \in Workers, NEW next \in {"check", "put"}, Review(w, next)
       PROVE  \E s \in Subs : Known(s) /\ sub' = [sub EXCEPT ![w] = s]
  <2>1. PICK c : c = [connector EXCEPT !.status = IF next = "check" THEN "approved" ELSE "retired"]
    OBVIOUS
  <2>2. c \in Connectors
    BY <1>0, <2>1 DEF Connectors, Statuses
  <2>3. PICK s : s = [sub[w] EXCEPT !.pc = next, !.conn = c] /\ sub' = [sub EXCEPT ![w] = s]
    BY <1>11, <2>1 DEF Review
  <2>4. s \in Subs /\ s.pc = next
    BY <1>0, <2>2, <2>3 DEF Subs, SubPCs
  <2>5. Known(s)
    BY <2>4 DEF Known, Submitting
  <2> QED BY <2>3, <2>4, <2>5
<1>12. ASSUME NEW w \in Workers, CheckBinding(w)
       PROVE  \E s \in Subs : Known(s) /\ sub' = [sub EXCEPT ![w] = s]
  BY <1>3, <1>12 DEF CheckBinding, SubPCs, Submitting
<1> QED
  BY <1>2, <1>4, <1>5, <1>6, <1>7, <1>8, <1>9, <1>10, <1>11, <1>12
     DEF CNext, Serve, Aside, UpsertConnector, SetAgent, allvars, cvars

\* The types of the connector side, a step at a time.
THEOREM CTypePreserved == CTypeInv /\ [CNext]_allvars => CTypeInv'
<1> SUFFICES ASSUME CTypeInv, [CNext]_allvars PROVE CTypeInv'
  OBVIOUS
<1>0. /\ TypeOK /\ connector \in Connectors
      /\ agent \in {"none", "registered", "online", "offline"}
      /\ stored \in [BatchIds -> Results \cup {"none"}]
      /\ \A w \in Workers : sub[w] \in Subs
  BY DEF CTypeInv, CTypeOK, Subs
<1>1. TypeOK'
  <2>1. CASE [Next]_vars
    BY <1>0, <2>1, TypePreserved
  <2>2. CASE /\ UNCHANGED <<row, binding, rules, dlq, applied, loc, requests>>
             /\ crashes' = crashes + 1
    BY <1>0, <2>2 DEF TypeOK
  <2> QED BY <2>1, <2>2, RuntimeSteps
<1>2. sub' \in [Workers -> Subs] /\ \A w \in Workers : Known(sub'[w])
  BY SubSteps, SubTyped DEF CTypeInv, CTypeOK, Subs
<1>3. connector' \in Connectors
  <2>1. ASSUME NEW w \in Workers, Touch(w) PROVE connector' \in Connectors
    BY <1>0, <2>1 DEF Touch, Subs, Connectors
  <2>2. ASSUME NEW w \in Workers, PutConnector(w) PROVE connector' \in Connectors
    BY <1>0, <2>2 DEF PutConnector, Subs
  <2>3. ASSUME NEW status \in Statuses, NEW cursor \in BatchIds \cup {"none"},
               UpsertConnector(status, cursor)
        PROVE  connector' \in Connectors
    BY <2>3 DEF UpsertConnector, Connectors
  <2>4. \/ UNCHANGED connector
        \/ \E w \in Workers : Touch(w) \/ PutConnector(w)
        \/ \E status \in Statuses, cursor \in BatchIds \cup {"none"} : UpsertConnector(status, cursor)
    BY DEF CNext, Serve, Submit, Review, Lookup, CheckConnector, CheckAgent, Execute, Record, Fetch,
           CheckBinding, Die, Aside, SetAgent, allvars, cvars
  <2> QED BY <1>0, <2>1, <2>2, <2>3, <2>4
<1>4. agent' \in {"none", "registered", "online", "offline"}
  BY <1>0 DEF CNext, Serve, Submit, Review, Lookup, CheckConnector, CheckAgent, Execute, Record, Fetch,
           Touch, PutConnector, UpsertConnector, CheckBinding, Die, Aside, SetAgent, allvars, cvars
<1>5. stored' \in [BatchIds -> Results \cup {"none"}]
  <2>1. ASSUME NEW w \in Workers, Record(w) PROVE stored' \in [BatchIds -> Results \cup {"none"}]
    BY <1>0, <2>1 DEF Record, Subs
  <2>2. UNCHANGED stored \/ \E w \in Workers : Record(w)
    BY DEF CNext, Serve, Submit, Review, Lookup, CheckConnector, CheckAgent, Execute, Fetch,
           Touch, PutConnector, UpsertConnector, CheckBinding, Die, Aside, SetAgent, allvars, cvars
  <2> QED BY <1>0, <2>1, <2>2
<1> QED BY <1>1, <1>2, <1>3, <1>4, <1>5 DEF CTypeInv, CTypeOK, Subs

LEMMA CTypeStarts == CInit => CTypeInv
BY RowsTyped, EmptySeq DEF CInit, Init, TypeOK, CTypeInv, CTypeOK, Known, Submitting, Free, SubPCs,
   Results, Connectors, Statuses, NewConnector

\* Every reachable state of the connector side is well typed, whatever requests interleave.
THEOREM CTypeCorrect == CSpec => []CTypeOK
<1>1. CInit => CTypeInv
  BY CTypeStarts
<1>2. CTypeInv => CTypeOK
  BY DEF CTypeInv
<1> QED BY <1>1, <1>2, CTypePreserved, PTL DEF CSpec
-----------------------------------------------------------------------------
\* One agent that waits for each answer.

\* How a worker's submission and the run it has called hang together, and that nobody
\* else has stored the batch it is processing.
Linked(s, l) ==
  /\ s.pc = "execute" => l.pc # "idle" /\ l.op = "run" /\ l.batch = Payload[s.id]
  /\ s.pc \notin {"free", "execute"} => l.pc = "idle"
  /\ s.pc = "free" /\ l.pc # "idle" => l.op \in {"configure", "retry"}
  /\ s.pc \in {"connector", "agent", "execute", "record"} => stored[s.id] = "none"
LinkInv == OneRequest /\ \A w \in Workers : Linked(sub[w], loc[w])

\* Everything the source had before a batch, and everything in it, is reported.
EarlierIn(b) == \A r \in Records \ Payload[b] : Before(r, Payload[b]) => Reported(r)
AllOf(b) == \A r \in Payload[b] : Reported(r)
Covered(c) == c.cursor # "none" => EarlierIn(c.cursor) /\ AllOf(c.cursor)

\* What a submission relies on when it stores its batch and moves the cursor to it.
Relies(s) ==
  /\ s.pc \in Submitting => EarlierIn(s.id)
  /\ s.pc \in {"record", "fetch", "touch"} => AllOf(s.id)
  /\ Covered(s.conn)
StoredReported == \A b \in BatchIds : stored[b] # "none" => AllOf(b)
BatchInv == StoredReported /\ Covered(connector) /\ \A w \in Workers : Relies(sub[w])

\* The runtime's invariants, as they hold under the connector side.
RunInv == AccountInv /\ OneInv /\ WithinInv /\ CoverInv /\ LetterInv /\ EmptyUnmapped

\* While one submission is served the other workers have nothing to do.
LEMMA OthersFree ==
  ASSUME OneRequest, OneRequest', NEW w \in Workers,
         Busy(w) \/ sub[w].pc # "free" \/ Busy(w)' \/ sub'[w].pc # "free",
         NEW v \in Workers, v # w,
         sub'[v] = sub[v], loc'[v] = loc[v]
  PROVE  sub[v].pc = "free" /\ loc[v].pc = "idle"
BY DEF OneRequest, Busy

\* A run writes records of its payload, and ends without writing.
LEMMA StepWrites ==
  ASSUME TypeOK, WithinInv, LetterInv, NEW w \in Workers, Step(w), loc[w].op = "run"
  PROVE  /\ \/ UNCHANGED applied
            \/ /\ \E r \in loc[w].batch : applied' = [applied EXCEPT ![r] = @ + 1]
               /\ loc'[w].pc # "idle"
         /\ loc[w].pc = "errs" /\ loc'[w].pc = "idle" => loc[w].todo = {}
<1>0. loc[w] \in Locals /\ Within(loc[w]) /\ InHand(loc[w])
  BY DEF TypeOK, WithinInv, LetterInv
<1>1. ASSUME NEW r \in Records, Write(w, r)
      PROVE  r \in loc[w].batch /\ loc[w].pc = "write" /\ loc'[w].pc # "idle"
  <2>1. PICK l : /\ Becomes(w, l)
                 /\ \/ l = [loc[w] EXCEPT !.todo = loc[w].todo \ {r}]
                    \/ l = [loc[w] EXCEPT !.todo = loc[w].todo \ {r}, !.errs = loc[w].errs \cup {r}]
    BY <1>1 DEF Write
  <2>2. l.pc = loc[w].pc /\ loc[w].pc = "write" /\ r \in loc[w].todo
    BY <1>0, <1>1, <2>1 DEF Locals, Write
  <2>3. loc'[w] = l
    BY <2>1 DEF Becomes, TypeOK
  <2> QED BY <1>0, <2>2, <2>3 DEF Within
<1>2. ~RetryWrite(w)
  BY <1>0 DEF RetryWrite, InHand
<1>3. UNCHANGED applied \/ \E r \in Records : Write(w, r) /\ applied' = [applied EXCEPT ![r] = @ + 1]
  BY <1>2 DEF Step, PutConfig, ReadState, Bootstrap, PutSchema, Inspect, PutBaseline, Rebase, Quality,
             DeadLetter, Write, OpenBinding, Collect, Save, CheckRetries, RetryExecute, PutLetter,
             Reads, Serving
<1>4. ASSUME loc[w].pc = "errs", loc'[w].pc = "idle" PROVE loc[w].todo = {}
  <2>1. ASSUME NEW r \in Records, DeadLetter(w, r) PROVE FALSE
    <3>1. PICK l : Becomes(w, l) /\ l = [loc[w] EXCEPT !.todo = loc[w].todo \ {r}]
      BY <2>1 DEF DeadLetter
    <3>2. l.pc = "errs" /\ loc'[w] = l
      BY <1>0, <1>4, <3>1 DEF Locals, Becomes, TypeOK
    <3> QED BY <1>4, <3>2
  <2>2. Save(w)
    BY <1>1, <1>4, <2>1 DEF Step, PutConfig, ReadState, Bootstrap, PutSchema, Inspect, PutBaseline, Rebase,
             Quality, OpenBinding, Collect, CheckRetries, RetryExecute, RetryWrite, PutLetter
  <2> QED BY <2>2 DEF Save
<1> QED BY <1>1, <1>3, <1>4

\* The link between a submission and its run, a step of one request at a time.
THEOREM LinkPreserved ==
  ASSUME CTypeInv, LinkInv, [CNext]_allvars, OneRequest'
  PROVE  LinkInv'
<1>0. /\ \A w \in Workers : /\ sub[w] \in Subs /\ Known(sub[w]) /\ Linked(sub[w], loc[w])
                            /\ loc[w] \in Locals
      /\ TypeOK /\ OneRequest
      /\ stored \in [BatchIds -> Results \cup {"none"}]
      /\ sub \in [Workers -> Subs] /\ loc \in [Workers -> Locals]
  BY DEF CTypeInv, CTypeOK, LinkInv, Subs, TypeOK
\* A step of one worker: its own locals are linked, the others are free.
<1>1. ASSUME NEW w \in Workers,
             \A v \in Workers : v # w => sub'[v] = sub[v] /\ loc'[v] = loc[v],
             Busy(w) \/ sub[w].pc # "free" \/ Busy(w)' \/ sub'[w].pc # "free",
             Linked(sub[w], loc[w])'
      PROVE  LinkInv'
  <2>1. \A v \in Workers : v # w => sub[v].pc = "free" /\ loc[v].pc = "idle"
    BY <1>0, <1>1, OthersFree
  <2>2. ASSUME NEW v \in Workers PROVE Linked(sub[v], loc[v])'
    <3>1. CASE v = w
      BY <1>1, <3>1 DEF Linked
    <3>2. CASE v # w
      BY <1>1, <2>1, <3>2 DEF Linked
    <3> QED BY <3>1, <3>2
  <2> QED BY <2>2 DEF LinkInv
<1>2. CASE UNCHANGED <<sub, loc, stored>>
  BY <1>0, <1>2 DEF LinkInv, Linked
<1>3. Free.pc = "free" /\ Idle.pc = "idle"
  BY DEF Free, Idle
\* The step leaves the runtime alone.
<1>4. ASSUME NEW w \in Workers, NEW s, sub' = [sub EXCEPT ![w] = s], UNCHANGED <<loc, stored>>,
             sub[w].pc # "free" \/ s.pc # "free",
             s.pc # "execute", loc[w].pc = "idle",
             s.pc \in {"connector", "agent", "record"} => stored[s.id] = "none"
      PROVE  LinkInv'
  <2>1. sub'[w] = s /\ \A v \in Workers : v # w => sub'[v] = sub[v] /\ loc'[v] = loc[v]
    BY <1>0, <1>4
  <2>2. Linked(sub[w], loc[w])'
    BY <1>3, <1>4, <2>1 DEF Linked
  <2> QED BY <1>1, <1>4, <2>1, <2>2
<1>5. ASSUME NEW w \in Workers, NEW b \in BatchIds, Submit(w, b) PROVE LinkInv'
  <2>1. PICK s : s = [Free EXCEPT !.pc = "lookup", !.id = b] /\ sub' = [sub EXCEPT ![w] = s]
    BY <1>5 DEF Submit
  <2>2. s.pc = "lookup"
    BY <2>1 DEF Free
  <2> QED BY <1>4, <1>5, <2>1, <2>2 DEF Submit, vars
<1>6. ASSUME NEW w \in Workers, sub[w].pc \notin {"free", "execute"}, sub' = [sub EXCEPT ![w] = Free],
             UNCHANGED <<loc, stored>>
      PROVE  LinkInv'
  <2>1. loc[w].pc = "idle"
    BY <1>0, <1>6 DEF Linked
  <2> QED BY <1>3, <1>4, <1>6, <2>1
\* A check that was passed.
<1>7. ASSUME NEW w \in Workers, NEW pc \in SubPCs \ {"free", "execute"},
             sub[w].pc \notin {"free", "execute"}, UNCHANGED <<loc, stored>>,
             sub' = [sub EXCEPT ![w] = [sub[w] EXCEPT !.pc = pc]],
             pc \in {"connector", "agent", "record"} => stored[sub[w].id] = "none"
      PROVE  LinkInv'
  <2>1. PICK s : s = [sub[w] EXCEPT !.pc = pc]
    OBVIOUS
  <2>2. s.pc = pc /\ s.id = sub[w].id
    BY <1>0, <2>1 DEF Subs
  <2>3. loc[w].pc = "idle"
    BY <1>0, <1>7 DEF Linked
  <2> QED BY <1>4, <1>7, <2>1, <2>2, <2>3
<1>8. ASSUME NEW w \in Workers, Lookup(w) PROVE LinkInv'
  <2>1. sub[w].pc = "lookup" /\ UNCHANGED <<loc, stored>>
    BY <1>8 DEF Lookup, vars
  <2>2. CASE sub' = [sub EXCEPT ![w] = Free]
    BY <1>6, <2>1, <2>2
  <2>3. CASE /\ sub' = [sub EXCEPT ![w] = [sub[w] EXCEPT !.pc = "connector"]]
             /\ stored[sub[w].id] = "none"
    BY <1>7, <2>1, <2>3 DEF SubPCs
  <2> QED BY <1>8, <2>2, <2>3 DEF Lookup
<1>9. ASSUME NEW w \in Workers, CheckConnector(w) PROVE LinkInv'
  <2>1. stored[sub[w].id] = "none" /\ sub[w].pc = "connector" /\ UNCHANGED <<loc, stored>>
    BY <1>0, <1>9 DEF CheckConnector, Linked, vars
  <2>2. CASE sub' = [sub EXCEPT ![w] = Free]
    BY <1>6, <2>1, <2>2
  <2>3. CASE sub' = [sub EXCEPT ![w] = [sub[w] EXCEPT !.pc = "agent"]]
    BY <1>7, <2>1, <2>3 DEF SubPCs
  <2> QED BY <1>9, <2>2, <2>3 DEF CheckConnector
<1>10. ASSUME NEW w \in Workers, CheckAgent(w) PROVE LinkInv'
  <2>1. stored[sub[w].id] = "none" /\ sub[w].pc = "agent" /\ UNCHANGED stored
    BY <1>0, <1>10 DEF CheckAgent, Linked
  <2>2. CASE sub' = [sub EXCEPT ![w] = Free] /\ UNCHANGED vars
    BY <1>6, <2>1, <2>2 DEF vars
  <2>3. CASE StartRun(w, Payload[sub[w].id]) /\ sub' = [sub EXCEPT ![w].pc = "execute"]
    <3>1. PICK l, s : /\ l = [loc[w] EXCEPT !.pc = "state", !.op = "run", !.batch = Payload[sub[w].id]]
                      /\ s = [sub[w] EXCEPT !.pc = "execute"]
                      /\ Becomes(w, l) /\ sub' = [sub EXCEPT ![w] = s]
      BY <2>3 DEF StartRun
    <3>2. /\ l.pc = "state" /\ l.op = "run" /\ l.batch = Payload[sub[w].id]
          /\ s.pc = "execute" /\ s.id = sub[w].id
      BY <1>0, <3>1 DEF Locals, Subs
    <3>3. /\ sub'[w] = s /\ loc'[w] = l
          /\ \A v \in Workers : v # w => sub'[v] = sub[v] /\ loc'[v] = loc[v]
      BY <1>0, <3>1 DEF Becomes
    <3>4. Linked(sub[w], loc[w])'
      BY <2>1, <3>2, <3>3 DEF Linked
    <3> QED BY <1>1, <2>1, <3>3, <3>4
  <2> QED BY <1>10, <2>2, <2>3 DEF CheckAgent
<1>11. ASSUME NEW w \in Workers, Execute(w) PROVE LinkInv'
  <2>1. /\ sub[w].pc = "execute" /\ loc[w].op = "run" /\ loc[w].batch = Payload[sub[w].id]
        /\ stored[sub[w].id] = "none" /\ UNCHANGED stored /\ Step(w)
    BY <1>0, <1>11 DEF Execute, Linked
  <2>2. PICK l : /\ Becomes(w, l)
                 /\ l = Idle \/ (l.pc # "idle" /\ l.op = loc[w].op /\ l.batch = loc[w].batch)
    BY <1>0, <2>1, StepKeeps
  <2>3. PICK s : sub' = [sub EXCEPT ![w] = s] /\
                 s = IF l.pc # "idle" THEN sub[w]
                     ELSE IF loc[w].pc = "errs"
                          THEN [sub[w] EXCEPT !.pc = "record",
                                              !.result = IF loc[w].errs = {} THEN "success" ELSE "partial"]
                          ELSE Free
    <3>1. loc'[w] = l
      BY <1>0, <2>2 DEF Becomes
    <3> QED BY <1>11, <3>1 DEF Execute
  <2>4. /\ sub'[w] = s /\ loc'[w] = l
        /\ \A v \in Workers : v # w => sub'[v] = sub[v] /\ loc'[v] = loc[v]
    BY <1>0, <2>2, <2>3 DEF Becomes
  <2>5. CASE l.pc # "idle"
    <3>1. Linked(sub[w], loc[w])'
      BY <1>3, <2>1, <2>2, <2>3, <2>4, <2>5 DEF Linked
    <3> QED BY <1>1, <2>1, <2>4, <3>1
  <2>6. CASE l.pc = "idle" /\ loc[w].pc = "errs"
    <3>1. s.pc = "record" /\ s.id = sub[w].id
      BY <1>0, <2>3, <2>6 DEF Subs
    <3>2. Linked(sub[w], loc[w])'
      BY <2>1, <2>4, <2>6, <3>1 DEF Linked
    <3> QED BY <1>1, <2>1, <2>4, <3>2
  <2>7. CASE l.pc = "idle" /\ loc[w].pc # "errs"
    <3>1. Linked(sub[w], loc[w])'
      BY <1>3, <2>3, <2>4, <2>7 DEF Linked
    <3> QED BY <1>1, <2>1, <2>4, <3>1
  <2> QED BY <2>5, <2>6, <2>7
<1>12. ASSUME NEW w \in Workers, Record(w) PROVE LinkInv'
  <2>1. sub[w].pc = "record" /\ loc[w].pc = "idle" /\ UNCHANGED loc
    BY <1>0, <1>12 DEF Record, Linked, vars
  <2>2. PICK s : s = [sub[w] EXCEPT !.pc = "fetch"] /\ sub' = [sub EXCEPT ![w] = s]
    BY <1>12 DEF Record
  <2>3. s.pc = "fetch"
    BY <1>0, <2>2 DEF Subs
  <2>4. sub'[w] = s /\ \A v \in Workers : v # w => sub'[v] = sub[v] /\ loc'[v] = loc[v]
    BY <1>0, <2>1, <2>2
  <2>5. Linked(sub[w], loc[w])'
    BY <2>1, <2>3, <2>4 DEF Linked
  <2> QED BY <1>1, <2>1, <2>4, <2>5
<1>13. ASSUME NEW w \in Workers, Fetch(w) PROVE LinkInv'
  <2>1. sub[w].pc = "fetch" /\ loc[w].pc = "idle" /\ UNCHANGED <<loc, stored>>
    BY <1>0, <1>13 DEF Fetch, Linked, vars
  <2>2. PICK s : s = [sub[w] EXCEPT !.pc = "touch", !.conn = connector] /\ sub' = [sub EXCEPT ![w] = s]
    BY <1>13 DEF Fetch
  <2>3. s.pc = "touch"
    BY <1>0, <2>2 DEF Subs
  <2> QED BY <1>4, <2>1, <2>2, <2>3
<1>14. ASSUME NEW w \in Workers, Touch(w) \/ PutConnector(w) PROVE LinkInv'
  BY <1>6, <1>14 DEF Touch, PutConnector, vars
<1>15. ASSUME NEW w \in Workers, NEW next \in {"check", "put"}, Review(w, next) PROVE LinkInv'
  <2>1. PICK c, s : s = [sub[w] EXCEPT !.pc = next, !.conn = c] /\ sub' = [sub EXCEPT ![w] = s]
    BY <1>15 DEF Review
  <2>2. s.pc = next
    BY <1>0, <2>1 DEF Subs
  <2> QED BY <1>4, <1>15, <2>1, <2>2 DEF Review, vars
<1>16. ASSUME NEW w \in Workers, CheckBinding(w) PROVE LinkInv'
  <2>1. sub[w].pc = "check" /\ UNCHANGED <<loc, stored>>
    BY <1>16 DEF CheckBinding, vars
  <2>2. CASE sub' = [sub EXCEPT ![w] = Free]
    BY <1>6, <2>1, <2>2
  <2>3. CASE sub' = [sub EXCEPT ![w] = [sub[w] EXCEPT !.pc = "put"]]
    BY <1>7, <2>1, <2>3 DEF SubPCs
  <2> QED BY <1>16, <2>2, <2>3 DEF CheckBinding
<1>17. ASSUME NEW w \in Workers, Die(w) PROVE LinkInv'
  <2>1. /\ sub[w].pc # "free" /\ sub' = [sub EXCEPT ![w] = Free] /\ UNCHANGED stored
        /\ (UNCHANGED loc /\ loc[w].pc = "idle") \/ Becomes(w, Idle)
    BY <1>17 DEF Die, Crash
  <2>2. /\ sub'[w] = Free /\ loc'[w].pc = "idle"
        /\ \A v \in Workers : v # w => sub'[v] = sub[v] /\ loc'[v] = loc[v]
    BY <1>0, <1>3, <2>1 DEF Becomes
  <2>3. Linked(sub[w], loc[w])'
    BY <1>3, <2>2 DEF Linked
  <2> QED BY <1>1, <2>1, <2>2, <2>3
\* configure and retry are no submissions.
<1>18. ASSUME NEW w \in Workers, sub[w].pc = "free", UNCHANGED cvars, NEW l, Becomes(w, l),
              loc[w].pc # "idle" \/ l.pc # "idle",
              l.pc # "idle" => l.op \in {"configure", "retry"}
       PROVE  LinkInv'
  <2>1. /\ sub'[w] = sub[w] /\ loc'[w] = l
        /\ \A v \in Workers : v # w => sub'[v] = sub[v] /\ loc'[v] = loc[v]
    BY <1>0, <1>18 DEF Becomes, cvars
  <2>2. Linked(sub[w], loc[w])'
    BY <1>18, <2>1 DEF Linked
  <2> QED BY <1>1, <1>18, <2>1, <2>2 DEF Busy
<1>19. ASSUME NEW w \in Workers, Aside(w) PROVE LinkInv'
  <2>1. sub[w].pc = "free" /\ UNCHANGED cvars
    BY <1>19 DEF Aside
  <2>2. ASSUME NEW c \in Configs, Configure(w, c) PROVE LinkInv'
    <3>1. PICK l : Becomes(w, l) /\ l = [loc[w] EXCEPT !.pc = "put", !.op = "configure",
                                                !.snap = Configured(c, row)]
      BY <2>2 DEF Configure
    <3>2. l.pc = "put" /\ l.op = "configure"
      BY <1>0, <3>1 DEF Locals
    <3> QED BY <1>18, <2>1, <3>1, <3>2
  <2>3. ASSUME NEW d \in DOMAIN dlq, StartRetry(w, d) PROVE LinkInv'
    <3>1. PICK l : Becomes(w, l) /\ l = [loc[w] EXCEPT !.pc = "state", !.op = "retry",
                         !.id = d, !.count = dlq[d].count, !.status = dlq[d].status]
      BY <2>3 DEF StartRetry
    <3>2. l.pc = "state" /\ l.op = "retry"
      BY <1>0, <3>1 DEF Locals
    <3> QED BY <1>18, <2>1, <3>1, <3>2
  <2>4. CASE Step(w)
    <3>1. PICK l : Becomes(w, l) /\ (l = Idle \/ (l.pc # "idle" /\ l.op = loc[w].op /\ l.batch = loc[w].batch))
      BY <1>0, <2>4, StepKeeps
    <3>2. loc[w].pc # "idle"
      BY <2>4 DEF Step, PutConfig, ReadState, Bootstrap, PutSchema, Inspect, PutBaseline, Rebase, Quality,
         DeadLetter, Write, OpenBinding, Collect, Save, CheckRetries, RetryExecute, RetryWrite, PutLetter
    <3>3. loc[w].op \in {"configure", "retry"}
      BY <1>0, <2>1, <3>2 DEF Linked
    <3> QED BY <1>3, <1>18, <2>1, <3>1, <3>2, <3>3
  <2>5. CASE Crash(w)
    BY <1>3, <1>18, <2>1, <2>5 DEF Crash
  <2> QED BY <1>19, <2>2, <2>3, <2>4, <2>5 DEF Aside
<1>20. CASE EditBinding /\ UNCHANGED cvars
  BY <1>2, <1>20 DEF EditBinding, cvars
<1>21. ASSUME NEW status, NEW cursor, UpsertConnector(status, cursor) PROVE LinkInv'
  BY <1>2, <1>21 DEF UpsertConnector, vars
<1>22. ASSUME NEW status, SetAgent(status) PROVE LinkInv'
  BY <1>2, <1>22 DEF SetAgent, vars
<1>23. CASE UNCHANGED allvars
  BY <1>2, <1>23 DEF allvars, vars, cvars
<1> QED
  BY <1>5, <1>8, <1>9, <1>10, <1>11, <1>12, <1>13, <1>14, <1>15, <1>16, <1>17, <1>19, <1>20,
     <1>21, <1>22, <1>23 DEF CNext, Serve

-----------------------------------------------------------------------------
\* What the platform answers as processed is reported, and so is all the cursor passes.

LEMMA ReportedKept ==
  ASSUME CTypeInv, [CNext]_allvars, NEW r \in Records, Reported(r)
  PROVE  Reported(r)'
<1>1. CASE [Next]_vars
  BY <1>1, ReportedStable DEF CTypeInv, CTypeOK
<1>2. CASE UNCHANGED <<row, binding, rules, dlq, applied, loc, requests>>
  BY <1>2 DEF Reported
<1> QED BY <1>1, <1>2, RuntimeSteps

\* Only the call of runtime.execute starts a run.
LEMMA RunStarts ==
  ASSUME CTypeInv, [CNext]_allvars, NEW w \in Workers, NEW b, StartRun(w, b)
  PROVE  sub[w].pc = "agent" /\ b = Payload[sub[w].id]
<1>0. /\ loc[w].pc = "idle" /\ requests' = requests + 1 /\ requests \in Nat
      /\ loc \in [Workers -> Locals]
  BY DEF StartRun, Start, CTypeInv, CTypeOK, TypeOK
<1>1. requests' # requests
  BY <1>0
<1>2. PICK l : Becomes(w, l) /\ l = [loc[w] EXCEPT !.pc = "state", !.op = "run", !.batch = b]
  BY DEF StartRun
<1>3. loc'[w].pc = "state" /\ loc'[w].op = "run" /\ loc'[w].batch = b
  BY <1>0, <1>2 DEF Becomes, Locals
<1>4. ASSUME NEW v \in Workers, NEW c \in Configs, Configure(v, c) PROVE FALSE
  <2>1. PICK k : Becomes(v, k) /\ k = [loc[v] EXCEPT !.pc = "put", !.op = "configure",
                                             !.snap = Configured(c, row)]
    BY <1>4 DEF Configure
  <2>2. k.pc = "put"
    BY <1>0, <2>1 DEF Locals
  <2> QED BY <1>0, <1>3, <2>1, <2>2 DEF Becomes
<1>5. ASSUME NEW v \in Workers, NEW d \in DOMAIN dlq, StartRetry(v, d) PROVE FALSE
  <2>1. PICK k : Becomes(v, k) /\ k = [loc[v] EXCEPT !.pc = "state", !.op = "retry",
                       !.id = d, !.count = dlq[d].count, !.status = dlq[d].status]
    BY <1>5 DEF StartRetry
  <2>2. k.op = "retry"
    BY <1>0, <2>1 DEF Locals
  <2>3. v = w
    BY <1>0, <1>3, <2>1 DEF Becomes
  <2> QED BY <1>0, <1>3, <2>1, <2>2, <2>3 DEF Becomes
<1>6. ASSUME NEW v \in Workers, Step(v) PROVE FALSE
  BY <1>1, <1>6 DEF Step, PutConfig, ReadState, Bootstrap, PutSchema, Inspect, PutBaseline, Rebase, Quality,
     DeadLetter, Write, OpenBinding, Collect, Save, CheckRetries, RetryExecute, RetryWrite, PutLetter, Serving
<1>7. PICK v \in Workers : CheckAgent(v) /\ StartRun(v, Payload[sub[v].id])
  BY <1>1, <1>4, <1>6, <1>5 DEF CNext, Serve, Aside, Submit, Review, Lookup, CheckConnector, CheckAgent, Execute, Record,
     Fetch, Touch, CheckBinding, PutConnector, UpsertConnector, SetAgent, Die, Crash, EditBinding, Step,
     vars, allvars, Reads
<1>8. PICK k : /\ Becomes(v, k)
               /\ k = [loc[v] EXCEPT !.pc = "state", !.op = "run", !.batch = Payload[sub[v].id]]
  BY <1>7 DEF StartRun
<1>9. k.pc = "state" /\ k.batch = Payload[sub[v].id]
  BY <1>0, <1>8 DEF Locals
<1>10. v = w
  BY <1>0, <1>3, <1>8 DEF Becomes
<1> QED BY <1>0, <1>3, <1>7, <1>8, <1>9, <1>10 DEF Becomes, CheckAgent

THEOREM RunInvPreserved ==
  ASSUME CTypeInv, RunInv, BatchInv, [CNext]_allvars, OneRequest', WatermarkLeftAlone, ErrorsReported
  PROVE  RunInv'
<1>0. TypeOK /\ AccountInv /\ OneInv /\ WithinInv /\ CoverInv /\ LetterInv /\ EmptyUnmapped
  BY DEF CTypeInv, CTypeOK, RunInv
<1>1. OneAtATime'
  BY DEF OneRequest, OneAtATime
<1>2. InOrder
  <2> SUFFICES ASSUME NEW w \in Workers, NEW b \in Batches, StartRun(w, b),
                      NEW r \in Records \ b, Before(r, b)
               PROVE  Reported(r)
    BY DEF InOrder
  <2>1. sub[w].pc = "agent" /\ b = Payload[sub[w].id]
    BY RunStarts
  <2> QED BY <2>1 DEF BatchInv, Relies, EarlierIn, Submitting
<1>3. CASE [Next]_vars
  BY <1>0, <1>1, <1>2, <1>3, AccountPreserved, CurrentPreserved, WithinPreserved, CoverPreserved,
     LettersPreserved, EmptyPreserved DEF RunInv
<1>4. CASE UNCHANGED <<row, binding, rules, dlq, applied, loc, requests>>
  <2>1. AccountInv' /\ CoverInv'
    BY <1>0, <1>4 DEF AccountInv, Accounted, CoverInv, MarksReported, EarlierReported, Reported
  <2>2. OneInv' /\ WithinInv'
    BY <1>0, <1>1, <1>4 DEF OneInv, Current, WithinInv, Within
  <2>3. LetterInv' /\ EmptyUnmapped'
    BY <1>0, <1>4 DEF LetterInv, LettersSound, InHand, EmptyUnmapped, EmptyLetters
  <2> QED BY <2>1, <2>2, <2>3 DEF RunInv
<1> QED BY <1>3, <1>4, RuntimeSteps

THEOREM BatchPreserved ==
  ASSUME CTypeInv, LinkInv, RunInv, BatchInv, [CNext]_allvars, BatchesInOrder,
         SourceBatched, ErrorsReported
  PROVE  BatchInv'
<1>0. /\ \A w \in Workers : /\ sub[w] \in Subs /\ Known(sub[w]) /\ Linked(sub[w], loc[w])
                            /\ Relies(sub[w]) /\ loc[w] \in Locals
      /\ TypeOK /\ connector \in Connectors
      /\ stored \in [BatchIds -> Results \cup {"none"}]
      /\ sub \in [Workers -> Subs] /\ loc \in [Workers -> Locals]
      /\ \A b \in BatchIds : Payload[b] \subseteq Records
      /\ StoredReported /\ Covered(connector)
  BY PayloadAssumption, ParametersAssumption DEF CTypeInv, CTypeOK, LinkInv, BatchInv, Subs, TypeOK
\* What was reported stays reported.
<1>1. \A b \in BatchIds : (EarlierIn(b) => EarlierIn(b)') /\ (AllOf(b) => AllOf(b)')
  BY <1>0, ReportedKept DEF EarlierIn, AllOf
<1>2. ASSUME NEW c \in Connectors, Covered(c) PROVE c.cursor # "none" => EarlierIn(c.cursor)' /\ AllOf(c.cursor)'
  BY <1>1, <1>2 DEF Connectors, Covered
<1>3. ASSUME NEW s \in Subs, Known(s), s.pc \in Submitting => EarlierIn(s.id),
             s.pc \in {"record", "fetch", "touch"} => AllOf(s.id), Covered(s.conn),
             NEW w \in Workers, sub'[w] = s
      PROVE  Relies(sub[w])'
  <2>1. s.pc \in {"record", "fetch", "touch"} => s.pc \in Submitting
    BY DEF Submitting
  <2>2. s.conn \in Connectors
    BY DEF Subs
  <2>3. /\ s.pc \in Submitting => EarlierIn(s.id)'
        /\ s.pc \in {"record", "fetch", "touch"} => AllOf(s.id)'
    BY <1>1, <1>3, <2>1 DEF Known
  <2>4. s.conn.cursor # "none" => EarlierIn(s.conn.cursor)' /\ AllOf(s.conn.cursor)'
    BY <1>2, <1>3, <2>2
  <2> QED BY <1>3, <2>3, <2>4 DEF Relies, Covered, EarlierIn, AllOf
<1>4. StoredReported'
  <2> SUFFICES ASSUME NEW b \in BatchIds, stored'[b] # "none" PROVE AllOf(b)'
    BY DEF StoredReported, AllOf
  <2>1. CASE stored[b] # "none"
    BY <1>0, <1>1, <2>1 DEF StoredReported, AllOf
  <2>2. ASSUME NEW w \in Workers, Record(w), sub[w].id = b PROVE AllOf(b)'
    BY <1>0, <1>1, <2>2 DEF Record, Relies
  <2>3. UNCHANGED stored \/ \E w \in Workers : Record(w)
    BY DEF CNext, Serve, Submit, Review, Lookup, CheckConnector, CheckAgent, Execute, Fetch,
           Touch, PutConnector, UpsertConnector, CheckBinding, Die, Aside, SetAgent, allvars, cvars
  <2> QED BY <1>0, <2>1, <2>2, <2>3 DEF Record
<1>5. Covered(connector)'
  <2>1. ASSUME NEW c \in Connectors, Covered(c), connector' = c PROVE Covered(connector)'
    BY <1>2, <2>1 DEF Covered, EarlierIn, AllOf
  <2>2. ASSUME NEW w \in Workers, Touch(w) PROVE Covered(connector)'
    <3>1. PICK c : c = [sub[w].conn EXCEPT !.cursor = sub[w].id] /\ connector' = c
      BY <2>2 DEF Touch
    <3>2. sub[w].pc = "touch" /\ sub[w].id \in BatchIds
      BY <1>0, <2>2 DEF Touch, Known, Submitting
    <3>3. c \in Connectors /\ c.cursor = sub[w].id
      BY <1>0, <3>1, <3>2 DEF Subs, Connectors
    <3>4. Covered(c)
      BY <1>0, <3>2, <3>3 DEF Covered, Relies, Submitting
    <3> QED BY <2>1, <3>1, <3>3, <3>4
  <2>3. ASSUME NEW w \in Workers, PutConnector(w) PROVE Covered(connector)'
    BY <1>0, <2>1, <2>3 DEF PutConnector, Relies, Subs
  <2>4. ASSUME NEW status \in Statuses, NEW cursor \in BatchIds \cup {"none"},
               UpsertConnector(status, cursor)
        PROVE  Covered(connector)'
    <3>1. PICK c : c = [status |-> status, cursor |-> cursor] /\ connector' = c
      BY <2>4 DEF UpsertConnector
    <3>2. c \in Connectors /\ c.cursor = cursor /\ cursor \in {"none", connector.cursor}
      BY <2>4, <3>1 DEF UpsertConnector, Connectors
    <3>3. Covered(c)
      BY <1>0, <3>2 DEF Covered
    <3> QED BY <2>1, <3>1, <3>2, <3>3
  <2>5. \/ UNCHANGED connector
        \/ \E w \in Workers : Touch(w) \/ PutConnector(w)
        \/ \E status \in Statuses, cursor \in BatchIds \cup {"none"} : UpsertConnector(status, cursor)
    BY DEF CNext, Serve, Submit, Review, Lookup, CheckConnector, CheckAgent, Execute, Record, Fetch,
           CheckBinding, Die, Aside, SetAgent, allvars, cvars
  <2> QED BY <1>0, <2>1, <2>2, <2>3, <2>4, <2>5
<1>6. \A w \in Workers : Relies(sub[w])'
  \* The locals of the worker that takes the step.
  <2>1. ASSUME NEW w \in Workers, NEW s \in Subs, Known(s), sub' = [sub EXCEPT ![w] = s],
               s.pc \in Submitting => EarlierIn(s.id),
               s.pc \in {"record", "fetch", "touch"} => AllOf(s.id), Covered(s.conn)
        PROVE  \A v \in Workers : Relies(sub[v])'
    <3> SUFFICES ASSUME NEW v \in Workers PROVE Relies(sub[v])'
      OBVIOUS
    <3>1. CASE v = w
      BY <1>0, <1>3, <2>1, <3>1
    <3>2. CASE v # w
      BY <1>0, <1>3, <2>1, <3>2 DEF Relies
    <3> QED BY <3>1, <3>2
  <2>2. CASE UNCHANGED sub
    <3> SUFFICES ASSUME NEW v \in Workers PROVE Relies(sub[v])'
      OBVIOUS
    <3> QED BY <1>0, <1>3, <2>2 DEF Relies
  <2>3. Free \in Subs /\ Known(Free) /\ Free.pc = "free" /\ Covered(Free.conn)
    BY DEF Free, Subs, SubPCs, Results, Connectors, Statuses, NewConnector, Known, Submitting, Covered
  <2>4. ASSUME NEW w \in Workers, sub' = [sub EXCEPT ![w] = Free] PROVE \A v \in Workers : Relies(sub[v])'
    BY <2>1, <2>3, <2>4 DEF Submitting
  \* A step that moves on without new obligations.
  <2>5. ASSUME NEW w \in Workers, NEW pc \in SubPCs, sub' = [sub EXCEPT ![w] = [sub[w] EXCEPT !.pc = pc]],
               pc \in Submitting => sub[w].pc \in Submitting,
               pc \in {"record", "fetch", "touch"} => AllOf(sub[w].id)
        PROVE  \A v \in Workers : Relies(sub[v])'
    <3>1. PICK s : s = [sub[w] EXCEPT !.pc = pc]
      OBVIOUS
    <3>2. s \in Subs /\ s.pc = pc /\ s.id = sub[w].id /\ s.conn = sub[w].conn
      BY <1>0, <3>1 DEF Subs
    <3>3. Known(s) /\ (s.pc \in Submitting => EarlierIn(s.id)) /\ Covered(s.conn)
      BY <1>0, <2>5, <3>2 DEF Known, Relies
    <3> QED BY <2>1, <2>5, <3>1, <3>2, <3>3
  <2>6. ASSUME NEW w \in Workers, NEW b \in BatchIds, Submit(w, b)
        PROVE  \A v \in Workers : Relies(sub[v])'
    <3>1. PICK s : s = [Free EXCEPT !.pc = "lookup", !.id = b] /\ sub' = [sub EXCEPT ![w] = s]
      BY <2>6 DEF Submit
    <3>2. s \in Subs /\ s.pc = "lookup" /\ s.id = b /\ s.conn = Free.conn
      BY <2>3, <3>1 DEF Subs, SubPCs
    <3>3. EarlierIn(b)
      <4> SUFFICES ASSUME NEW r \in Records \ Payload[b], Before(r, Payload[b]) PROVE Reported(r)
        BY DEF EarlierIn
      <4>1. PICK c \in BatchIds : r \in Payload[c]
        BY DEF SourceBatched
      <4>2. stored[c] # "none"
        BY <2>6, <4>1 DEF BatchesInOrder
      <4> QED BY <1>0, <4>1, <4>2 DEF StoredReported, AllOf
    <3> QED BY <2>1, <2>3, <3>1, <3>2, <3>3 DEF Known
  <2>7. ASSUME NEW w \in Workers, Lookup(w) PROVE \A v \in Workers : Relies(sub[v])'
    BY <2>4, <2>5, <2>7 DEF Lookup, SubPCs, Submitting
  <2>8. ASSUME NEW w \in Workers, CheckConnector(w) PROVE \A v \in Workers : Relies(sub[v])'
    BY <2>4, <2>5, <2>8 DEF CheckConnector, SubPCs, Submitting
  <2>9. ASSUME NEW w \in Workers, CheckAgent(w) PROVE \A v \in Workers : Relies(sub[v])'
    BY <2>4, <2>5, <2>9 DEF CheckAgent, SubPCs, Submitting
  <2>10. ASSUME NEW w \in Workers, Execute(w) PROVE \A v \in Workers : Relies(sub[v])'
    <3>1. CASE sub' = [sub EXCEPT ![w] = sub[w]]
      BY <1>0, <2>2, <3>1
    <3>2. CASE sub' = [sub EXCEPT ![w] = Free]
      BY <2>4, <3>2
    <3>3. ASSUME NEW result \in Results, loc[w].pc = "errs", loc'[w].pc = "idle",
                 sub' = [sub EXCEPT ![w] = [sub[w] EXCEPT !.pc = "record", !.result = result]]
          PROVE  \A v \in Workers : Relies(sub[v])'
      <4>1. sub[w].pc = "execute" /\ Step(w) /\ loc[w].op = "run" /\ loc[w].batch = Payload[sub[w].id]
        BY <1>0, <2>10 DEF Execute, Linked
      <4>2. loc[w].todo = {}
        BY <1>0, <3>3, <4>1, StepWrites DEF RunInv
      <4>3. AllOf(sub[w].id)
        <5> SUFFICES ASSUME NEW r \in Payload[sub[w].id] PROVE Reported(r)
          BY DEF AllOf
        <5>1. r \in Records /\ Mark[r] # 0
          BY <1>0, <4>1 DEF Known, Submitting, SourceBatched
        <5> QED BY <1>0, <3>3, <4>1, <4>2, <5>1, PayloadReported DEF RunInv, CoverInv
      <4>4. PICK s : s = [sub[w] EXCEPT !.pc = "record", !.result = result]
        OBVIOUS
      <4>5. s \in Subs /\ s.pc = "record" /\ s.id = sub[w].id /\ s.conn = sub[w].conn
        BY <1>0, <4>4 DEF Subs, SubPCs
      <4>6. Known(s) /\ EarlierIn(s.id) /\ Covered(s.conn)
        BY <1>0, <4>1, <4>5 DEF Known, Submitting, Relies
      <4> QED BY <2>1, <3>3, <4>3, <4>4, <4>5, <4>6
    <3> QED BY <2>10, <3>1, <3>2, <3>3 DEF Execute, Results
  <2>11. ASSUME NEW w \in Workers, Record(w) PROVE \A v \in Workers : Relies(sub[v])'
    BY <1>0, <2>5, <2>11 DEF Record, SubPCs, Submitting, Relies
  <2>12. ASSUME NEW w \in Workers, Fetch(w) PROVE \A v \in Workers : Relies(sub[v])'
    <3>1. PICK s : /\ s = [sub[w] EXCEPT !.pc = "touch", !.conn = connector]
                   /\ sub' = [sub EXCEPT ![w] = s]
      BY <2>12 DEF Fetch
    <3>2. s \in Subs /\ s.pc = "touch" /\ s.id = sub[w].id /\ s.conn = connector
      BY <1>0, <3>1 DEF Subs, SubPCs
    <3>3. sub[w].pc = "fetch" /\ Known(s) /\ EarlierIn(s.id) /\ AllOf(s.id)
      BY <1>0, <2>12, <3>2 DEF Fetch, Known, Submitting, Relies
    <3> QED BY <1>0, <2>1, <3>1, <3>2, <3>3
  <2>13. ASSUME NEW w \in Workers, Touch(w) \/ PutConnector(w) \/ Die(w)
         PROVE  \A v \in Workers : Relies(sub[v])'
    BY <2>4, <2>13 DEF Touch, PutConnector, Die
  <2>14. ASSUME NEW w \in Workers, NEW next \in {"check", "put"}, Review(w, next)
         PROVE  \A v \in Workers : Relies(sub[v])'
    <3>1. PICK c : c = [connector EXCEPT !.status = IF next = "check" THEN "approved" ELSE "retired"]
      OBVIOUS
    <3>2. c \in Connectors /\ c.cursor = connector.cursor
      BY <1>0, <3>1 DEF Connectors, Statuses
    <3>3. PICK s : s = [sub[w] EXCEPT !.pc = next, !.conn = c] /\ sub' = [sub EXCEPT ![w] = s]
      BY <2>14, <3>1 DEF Review
    <3>4. s \in Subs /\ s.pc = next /\ s.conn = c
      BY <1>0, <3>2, <3>3 DEF Subs, SubPCs
    <3>5. Covered(c)
      BY <1>0, <3>2 DEF Covered
    <3> QED BY <2>1, <3>3, <3>4, <3>5 DEF Known, Submitting
  <2>15. ASSUME NEW w \in Workers, CheckBinding(w) PROVE \A v \in Workers : Relies(sub[v])'
    BY <2>4, <2>5, <2>15 DEF CheckBinding, SubPCs, Submitting
  <2> QED
    BY <2>2, <2>6, <2>7, <2>8, <2>9, <2>10, <2>11, <2>12, <2>13, <2>14, <2>15
       DEF CNext, Serve, Aside, UpsertConnector, SetAgent, allvars, cvars
<1> QED BY <1>4, <1>5, <1>6 DEF BatchInv

\* The steps of an orderly agent, stuttering included.
LEMMA AllowedSteps ==
  ASSUME CTypeInv, LinkInv, [CNext /\ OneRequest' /\ BatchesInOrder]_allvars
  PROVE  [CNext]_allvars /\ OneRequest' /\ BatchesInOrder
<1>1. CASE UNCHANGED allvars
  <2>1. OneRequest'
    BY <1>1 DEF LinkInv, OneRequest, Busy, allvars, vars, cvars
  <2>2. \A w \in Workers, b \in BatchIds : ~Submit(w, b)
    <3> SUFFICES ASSUME NEW w \in Workers, NEW b \in BatchIds, Submit(w, b) PROVE FALSE
      OBVIOUS
    <3>1. PICK s : s = [Free EXCEPT !.pc = "lookup", !.id = b] /\ sub' = [sub EXCEPT ![w] = s]
      BY DEF Submit
    <3>2. s.pc = "lookup" /\ sub[w].pc = "free"
      BY <3>1 DEF Free, Submit
    <3>3. sub'[w] = s
      BY <3>1 DEF CTypeInv, CTypeOK
    <3> QED BY <1>1, <3>2, <3>3 DEF allvars, cvars
  <2> QED BY <1>1, <2>1, <2>2 DEF BatchesInOrder
<1> QED BY <1>1

\* Whatever the sizes of its payloads: one agent's submissions are linked to their runs.
LEMMA OrderlyLinked == OrderlyCSpec => [](CTypeInv /\ LinkInv /\ WithinInv /\ LetterInv)
<1> DEFINE Inv == CTypeInv /\ LinkInv /\ WithinInv /\ LetterInv
<1>1. CInit => Inv
  <2> SUFFICES ASSUME CInit PROVE Inv
    OBVIOUS
  <2>1. CTypeInv
    BY CTypeStarts
  <2>2. LinkInv
    BY DEF CInit, Init, LinkInv, OneRequest, Busy, Linked, Free, Idle
  <2>3. WithinInv
    BY DEF CInit, Init, WithinInv, Within, RunPoints, Idle
  <2>4. LetterInv
    BY DEF CInit, Init, LetterInv, LettersSound, InHand, Idle
  <2> QED BY <2>1, <2>2, <2>3, <2>4
<1>2. Inv /\ [CNext /\ OneRequest' /\ BatchesInOrder]_allvars => Inv'
  <2> SUFFICES ASSUME Inv, [CNext /\ OneRequest' /\ BatchesInOrder]_allvars PROVE Inv'
    OBVIOUS
  <2>1. [CNext]_allvars /\ OneRequest'
    BY AllowedSteps
  <2>2. CTypeInv' /\ LinkInv'
    BY <2>1, CTypePreserved, LinkPreserved
  <2>3. CASE [Next]_vars
    BY <2>2, <2>3, WithinPreserved, LettersPreserved DEF CTypeInv, CTypeOK
  <2>4. CASE UNCHANGED <<row, binding, rules, dlq, applied, loc, requests>>
    <3>1. WithinInv'
      BY <2>4 DEF WithinInv, Within
    <3>2. LetterInv'
      BY <2>4 DEF LetterInv, LettersSound, InHand
    <3> QED BY <2>2, <3>1, <3>2
  <2> QED BY <2>1, <2>3, <2>4, RuntimeSteps
<1> QED BY <1>1, <1>2, PTL DEF OrderlyCSpec

LEMMA OrderlyBatches ==
  ASSUME WatermarkLeftAlone, ErrorsReported, SourceBatched
  PROVE  OrderlyCSpec => [](RunInv /\ BatchInv)
<1>1. CInit => RunInv /\ BatchInv
  <2> SUFFICES ASSUME CInit PROVE RunInv /\ BatchInv
    OBVIOUS
  <2>1. AccountInv /\ CoverInv
    BY DEF CInit, Init, AccountInv, Accounted, CoverInv, MarksReported, EarlierReported, DefaultRow, Idle
  <2>2. OneInv /\ WithinInv
    BY DEF CInit, Init, OneInv, OneAtATime, Busy, Current, WithinInv, Within, RunPoints, DefaultRow, Idle
  <2>3. LetterInv /\ EmptyUnmapped
    BY EmptyStarts DEF CInit, Init, LetterInv, LettersSound, InHand, Idle
  <2>4. BatchInv
    BY DEF CInit, BatchInv, StoredReported, Covered, Relies, NewConnector, Free, Submitting
  <2> QED BY <2>1, <2>2, <2>3, <2>4 DEF RunInv
<1>2. /\ CTypeInv /\ LinkInv /\ RunInv /\ BatchInv
      /\ [CNext /\ OneRequest' /\ BatchesInOrder]_allvars
      => RunInv' /\ BatchInv'
  BY AllowedSteps, RunInvPreserved, BatchPreserved
<1> QED BY <1>1, <1>2, OrderlyLinked, PTL DEF OrderlyCSpec

\* Of a batch the platform answers as processed nothing is lost but unmappable records, each
\* of which left an empty letter.
THEOREM ProcessedBatchesSettled ==
  ASSUME WatermarkLeftAlone, ErrorsReported, SourceBatched
  PROVE  OrderlyCSpec => []ProcessedIsSettled
<1>1. CTypeInv /\ RunInv /\ BatchInv => ProcessedIsSettled
  <2> SUFFICES ASSUME CTypeInv, RunInv, BatchInv, NEW b \in BatchIds, stored[b] # "none"
               PROVE  OnlyUnmappableLost(Payload[b])
    BY DEF ProcessedIsSettled
  <2>1. Payload[b] \subseteq Records
    BY PayloadAssumption, ParametersAssumption
  <2>2. \A r \in Payload[b] : Reported(r)
    BY DEF BatchInv, StoredReported, AllOf
  <2> QED BY <2>1, <2>2, ReportedLosses DEF CTypeInv, CTypeOK, RunInv
<1> QED BY <1>1, OrderlyBatches, OrderlyLinked, PTL

\* An agent that resumes after last_cursor skips no record that could be mapped, and the
\* unmappable ones up to there left an empty letter each.
THEOREM CursorSkipsNothing ==
  ASSUME WatermarkLeftAlone, ErrorsReported, SourceBatched
  PROVE  OrderlyCSpec => []CursorCovers
<1>1. CTypeInv /\ RunInv /\ BatchInv => CursorCovers
  <2> SUFFICES ASSUME CTypeInv, RunInv, BatchInv, connector.cursor # "none"
               PROVE  OnlyUnmappableLost(UpTo(connector.cursor))
    BY DEF CursorCovers
  <2>1. UpTo(connector.cursor) \subseteq Records
    <3>1. connector.cursor \in BatchIds
      BY DEF CTypeInv, CTypeOK, Connectors
    <3> QED BY <3>1, PayloadAssumption, ParametersAssumption DEF UpTo
  <2>2. \A r \in UpTo(connector.cursor) : Reported(r)
    BY DEF BatchInv, Covered, EarlierIn, AllOf, UpTo
  <2> QED BY <2>1, <2>2, ReportedLosses DEF CTypeInv, CTypeOK, RunInv
<1> QED BY <1>1, OrderlyBatches, OrderlyLinked, PTL

-----------------------------------------------------------------------------
\* Submission implements the ledger of batches.

\* A step after which the ledger's view of one batch is another.
LEMMA StatusMoves ==
  ASSUME NEW b \in BatchIds, NEW s, BatchStatus'[b] = s,
         \A c \in BatchIds : c # b => BatchStatus'[c] = BatchStatus[c]
  PROVE  BatchStatus' = [BatchStatus EXCEPT ![b] = s]
<1>1. /\ BatchStatus = [c \in BatchIds |-> BatchStatus[c]]
      /\ BatchStatus' = [c \in BatchIds |-> BatchStatus'[c]]
  BY DEF BatchStatus
<1> QED BY <1>1

LEMMA StatusKept ==
  ASSUME \A c \in BatchIds : BatchStatus'[c] = BatchStatus[c]
  PROVE  UNCHANGED BatchStatus
BY DEF BatchStatus

\* No letter is being written again while the one busy worker does something else.
LEMMA NoneRetried ==
  ASSUME NEW w \in Workers, loc[w].pc # "rewrite", loc'[w].pc # "rewrite",
         \A v \in Workers : v # w => loc[v].pc = "idle" /\ loc'[v] = loc[v]
  PROVE  Retried = {} /\ Retried' = {}
BY DEF Retried

\* What a step of configure or of a retry does to the queue and the domain.
LEMMA AsideStep ==
  ASSUME TypeOK, WithinInv, NEW w \in Workers, Step(w), loc[w].op # "run"
  PROVE  \/ UNCHANGED <<applied, dlq>> /\ loc[w].pc # "rewrite" /\ loc'[w].pc # "rewrite"
         \/ RetryExecute(w) \/ RetryWrite(w) \/ PutLetter(w)
<1>0. loc[w] \in Locals /\ Within(loc[w]) /\ loc \in [Workers -> Locals] /\ Idle.pc = "idle"
  BY DEF TypeOK, WithinInv, Idle
<1>1. CASE PutConfig(w) \/ PutSchema(w)
  BY <1>0, <1>1 DEF PutConfig, PutSchema, Becomes
<1>2. CASE ReadState(w)
  <2>1. PICK l : Becomes(w, l) /\ l = [loc[w] EXCEPT
                    !.snap = [row EXCEPT !.saved = TRUE],
                    !.pc = IF row.saved THEN AfterState(loc[w].op) ELSE "boot"]
    BY <1>2 DEF ReadState
  <2>2. l.pc # "rewrite"
    BY <1>0, <2>1 DEF Locals, AfterState
  <2> QED BY <1>0, <1>2, <2>1, <2>2 DEF ReadState, Reads, Becomes
<1>3. CASE Bootstrap(w)
  <2>1. PICK l : Becomes(w, l) /\ \/ l = [loc[w] EXCEPT !.snap = loc[w].base, !.base = DefaultRow,
                                                 !.pc = AfterState(loc[w].op)]
                                  \/ /\ loc[w].pc = "boot"
                                     /\ l = [loc[w] EXCEPT !.base = [row EXCEPT !.saved = TRUE]]
    BY <1>3 DEF Bootstrap
  <2>2. l.pc # "rewrite"
    BY <1>0, <2>1 DEF Locals, AfterState
  <2> QED BY <1>0, <1>3, <2>1, <2>2 DEF Bootstrap, Becomes
<1>4. CASE CheckRetries(w)
  <2>1. PICK l : Becomes(w, l) /\ \/ l = [loc[w] EXCEPT !.count = loc[w].count + 1, !.pc = "exec"]
                                  \/ l = Idle
    BY <1>4 DEF CheckRetries
  <2>2. l.pc # "rewrite"
    BY <1>0, <2>1 DEF Locals
  <2> QED BY <1>0, <1>4, <2>1, <2>2 DEF CheckRetries, Reads, Becomes
<1>5. loc[w].pc \notin RunPoints
  BY <1>0 DEF Within
<1>6. PutConfig(w) \/ PutSchema(w) \/ ReadState(w) \/ Bootstrap(w) \/ CheckRetries(w)
      \/ RetryExecute(w) \/ RetryWrite(w) \/ PutLetter(w)
  BY <1>5 DEF Step, RunPoints, Inspect, PutBaseline, Rebase, Quality, DeadLetter, Write,
              OpenBinding, Collect, Save
<1> QED BY <1>1, <1>2, <1>3, <1>4, <1>6

\* The ledger sees no letter change that keeps its record and its form.
LEMMA ParkedKept ==
  ASSUME DOMAIN dlq' = DOMAIN dlq,
         \A d \in DOMAIN dlq : dlq'[d].rec = dlq[d].rec /\ dlq'[d].form = dlq[d].form
  PROVE  Parked' = Parked
<1>1. EmptyLetters' = EmptyLetters
  BY DEF EmptyLetters
<1> QED BY <1>1 DEF Parked, EmptyLetters

\* A retry, its write and its failure are steps of the ledger.
LEMMA RetriesInLedger ==
  ASSUME CTypeInv, LinkInv, WithinInv, LetterInv, NEW w \in Workers, Aside(w), [Next]_vars,
         \A v \in Workers : v # w => loc[v].pc = "idle" /\ loc'[v] = loc[v],
         UNCHANGED BatchStatus
  PROVE  [Ledger!Next]_(Ledger!lvars)
<1>0. /\ TypeOK /\ loc[w] \in Locals /\ loc \in [Workers -> Locals] /\ InHand(loc[w])
      /\ Linked(sub[w], loc[w]) /\ Idle.pc = "idle" /\ sub[w].pc = "free"
      /\ dlq \in Seq(Letters) /\ dlq \in [DOMAIN dlq -> Letters]
  BY LenProperties DEF CTypeInv, CTypeOK, TypeOK, LinkInv, LetterInv, Idle, Aside
\* Nothing the ledger sees.
<1>1. ASSUME UNCHANGED applied, Parked' = Parked, loc[w].pc # "rewrite", loc'[w].pc # "rewrite"
      PROVE  UNCHANGED Ledger!lvars
  BY <1>1, NoneRetried DEF Ledger!lvars
<1>2. ASSUME loc[w].pc = "rewrite" PROVE Retried = {dlq[loc[w].id].rec}
  BY <1>2 DEF Retried
<1>3. ASSUME loc'[w].pc # "rewrite" PROVE Retried' = {}
  BY <1>3 DEF Retried
<1>4. ASSUME NEW l, Becomes(w, l), l.pc \in {"put", "state"}, loc[w].pc = "idle", UNCHANGED <<applied, dlq>>
      PROVE  UNCHANGED Ledger!lvars
  BY <1>0, <1>1, <1>4, ParkedKept DEF Becomes
<1>5. ASSUME NEW c \in Configs, Configure(w, c) PROVE UNCHANGED Ledger!lvars
  <2>1. PICK l : Becomes(w, l) /\ l = [loc[w] EXCEPT !.pc = "put", !.op = "configure",
                                              !.snap = Configured(c, row)]
    BY <1>5 DEF Configure
  <2>2. l.pc = "put"
    BY <1>0, <2>1 DEF Locals
  <2> QED BY <1>4, <1>5, <2>1, <2>2 DEF Configure, Start, Reads
<1>6. ASSUME NEW d \in DOMAIN dlq, StartRetry(w, d) PROVE UNCHANGED Ledger!lvars
  <2>1. PICK l : Becomes(w, l) /\ l = [loc[w] EXCEPT !.pc = "state", !.op = "retry",
                       !.id = d, !.count = dlq[d].count, !.status = dlq[d].status]
    BY <1>6 DEF StartRetry
  <2>2. l.pc = "state"
    BY <1>0, <2>1 DEF Locals
  <2> QED BY <1>4, <1>6, <2>1, <2>2 DEF StartRetry, Start, Reads
\* What may end a write of a letter: it failed, or its handler died.
<1>7. ASSUME loc'[w].pc # "rewrite", UNCHANGED applied, Parked' = Parked
      PROVE  [Ledger!Next]_(Ledger!lvars)
  <2>1. CASE loc[w].pc # "rewrite"
    BY <1>1, <1>7, <2>1
  <2>2. CASE loc[w].pc = "rewrite"
    <3>1. PICK r : r = dlq[loc[w].id].rec
      OBVIOUS
    <3>2. r \in Records
      <4>1. loc[w].id \in DOMAIN dlq
        BY <1>0, <2>2 DEF InHand
      <4> QED BY <1>0, <3>1, <4>1 DEF Letters
    <3>3. Retried = {r} /\ Retried' = Retried \ {r}
      BY <1>2, <1>3, <1>7, <2>2, <3>1
    <3>4. Ledger!RetryFails(r)
      BY <1>7, <3>3 DEF Ledger!RetryFails
    <3> QED BY <3>2, <3>4 DEF Ledger!Next
  <2> QED BY <2>1, <2>2
<1>8. CASE Crash(w)
  <2>1. loc'[w].pc # "rewrite" /\ UNCHANGED <<applied, dlq>>
    BY <1>0, <1>8 DEF Crash, Becomes, Reads
  <2> QED BY <1>7, <2>1, ParkedKept
<1>9. CASE RetryExecute(w)
  <2>1. /\ loc[w].pc = "exec" /\ UNCHANGED applied /\ loc[w].id \in DOMAIN dlq
        /\ dlq' = [dlq EXCEPT ![loc[w].id] = Tried(dlq[loc[w].id])]
    BY <1>0, <1>9 DEF RetryExecute, InHand
  <2>2. DOMAIN dlq' = DOMAIN dlq
    BY <2>1
  <2>3. Parked' = Parked
    BY <1>0, <2>2, ReportedStable, ParkedKept
  <2>4. PICK r : r = dlq[loc[w].id].rec
    OBVIOUS
  <2>5. r \in Records
    BY <1>0, <2>1, <2>4 DEF Letters
  <2>6. CASE loc'[w].pc # "rewrite"
    BY <1>7, <2>1, <2>3, <2>6
  <2>7. CASE loc'[w].pc = "rewrite"
    <3>1. Mapped(dlq[loc[w].id])
      <4>1. PICK l : /\ Becomes(w, l)
                     /\ l = [loc[w] EXCEPT !.pc = IF binding = "approved" /\ Mapped(dlq[loc[w].id])
                                                  THEN "rewrite" ELSE "rput"]
        BY <1>9 DEF RetryExecute
      <4>2. l.pc = IF binding = "approved" /\ Mapped(dlq[loc[w].id]) THEN "rewrite" ELSE "rput"
        BY <1>0, <4>1 DEF Locals
      <4>3. loc'[w] = l
        BY <1>0, <4>1 DEF Becomes
      <4> QED BY <2>7, <4>2, <4>3
    <3>2. r \in Parked
      BY <2>1, <2>4, <3>1 DEF Mapped, Parked, EmptyLetters
    <3>3. loc'[w].id = loc[w].id
      <4>1. PICK l, pc : Becomes(w, l) /\ l = [loc[w] EXCEPT !.pc = pc]
        BY <1>9 DEF RetryExecute
      <4> QED BY <1>0, <4>1 DEF Becomes, Locals
    <3>4. Retried = {} /\ Retried' = {dlq'[loc[w].id].rec}
      BY <2>1, <2>7, <3>3 DEF Retried
    <3>5. dlq'[loc[w].id].rec = r
      BY <1>0, <2>1, <2>4, ReportedStable
    <3>6. Retried' = Retried \cup {r}
      BY <3>4, <3>5
    <3>7. Ledger!Retry(r)
      BY <2>1, <2>3, <3>2, <3>6 DEF Ledger!Retry
    <3> QED BY <2>5, <3>7 DEF Ledger!Next
  <2> QED BY <2>6, <2>7
<1>10. CASE RetryWrite(w)
  <2>1. PICK l : /\ Becomes(w, l) /\ loc[w].pc = "rewrite" /\ UNCHANGED dlq
                 /\ l = [loc[w] EXCEPT !.status = "resolved", !.pc = "rput"]
                    \/ l = [loc[w] EXCEPT !.pc = "rput"]
    BY <1>10 DEF RetryWrite
  <2>2. loc'[w].pc # "rewrite" /\ Parked' = Parked
    <3>1. l.pc = "rput"
      BY <1>0, <2>1 DEF Locals
    <3> QED BY <1>0, <2>1, <3>1, ParkedKept DEF Becomes
  <2>3. CASE UNCHANGED applied
    BY <1>7, <2>2, <2>3
  <2>4. CASE applied' = [applied EXCEPT ![dlq[loc[w].id].rec] = @ + 1]
    <3>1. PICK r : r = dlq[loc[w].id].rec
      OBVIOUS
    <3>2. r \in Records
      <4>1. loc[w].id \in DOMAIN dlq
        BY <1>0, <2>1 DEF InHand
      <4> QED BY <1>0, <3>1, <4>1 DEF Letters
    <3>3. Retried = {r} /\ Retried' = Retried \ {r}
      BY <1>2, <1>3, <2>1, <2>2, <3>1
    <3>4. Ledger!Redeliver(r)
      BY <2>2, <2>4, <3>1, <3>3 DEF Ledger!Redeliver
    <3> QED BY <3>2, <3>4 DEF Ledger!Next
  <2> QED BY <1>10, <2>3, <2>4 DEF RetryWrite
<1>11. CASE PutLetter(w)
  <2>1. /\ loc[w].pc = "rput" /\ loc'[w].pc # "rewrite" /\ UNCHANGED applied /\ DOMAIN dlq' = DOMAIN dlq
    BY <1>0, <1>11 DEF PutLetter, Becomes
  <2> QED BY <1>0, <1>1, <2>1, ReportedStable, ParkedKept
<1>12. CASE Step(w)
  <2>1. loc[w].op # "run"
    <3>1. loc[w].pc # "idle"
      BY <1>0, <1>12, StepKeeps
    <3> QED BY <1>0, <3>1 DEF Linked
  <2> QED BY <1>0, <1>1, <1>9, <1>10, <1>11, <1>12, <2>1, AsideStep, ParkedKept
<1> QED BY <1>5, <1>6, <1>8, <1>12 DEF Aside

\* A letter put into the queue parks its record, unless it is empty.
LEMMA ParkedGrows ==
  ASSUME dlq \in Seq(Letters), NEW l \in Letters, dlq' = Append(dlq, l)
  PROVE  Parked' = Parked \/ Parked' = Parked \cup {l.rec}
<1>1. /\ Len(dlq') = Len(dlq) + 1 /\ Len(dlq) \in Nat
      /\ DOMAIN dlq = 1..Len(dlq) /\ DOMAIN dlq' = 1..Len(dlq')
      /\ dlq'[Len(dlq) + 1] = l /\ \A d \in 1..Len(dlq) : dlq'[d] = dlq[d]
  BY AppendProperties, LenProperties
<1>2. DOMAIN dlq' = DOMAIN dlq \cup {Len(dlq) + 1} /\ Len(dlq) + 1 \notin DOMAIN dlq
  BY <1>1
<1>3. \A x : x \in Parked' <=> \E d \in DOMAIN dlq' : dlq'[d].form # "empty" /\ x = dlq'[d].rec
  BY DEF Parked, EmptyLetters
<1>4. \A x : x \in Parked <=> \E d \in DOMAIN dlq : dlq[d].form # "empty" /\ x = dlq[d].rec
  BY DEF Parked, EmptyLetters
<1>5. \A x : x \in Parked' <=> x \in Parked \/ (l.form # "empty" /\ x = l.rec)
  BY <1>1, <1>2, <1>3, <1>4
<1>6. CASE l.form = "empty"
  <2>1. Parked' = Parked
    BY <1>5, <1>6
  <2> QED BY <2>1
<1>7. CASE l.form # "empty"
  <2>1. Parked' = Parked \cup {l.rec}
    BY <1>5, <1>7
  <2> QED BY <2>1
<1> QED BY <1>6, <1>7

\* A run parks records of its payload.
LEMMA StepParks ==
  ASSUME TypeOK, WithinInv, LetterInv, NEW w \in Workers, Step(w), loc[w].op = "run"
  PROVE  \/ UNCHANGED dlq
         \/ /\ UNCHANGED applied /\ loc'[w].pc # "idle"
            /\ \E r \in loc[w].batch, l \in Letters : l.rec = r /\ dlq' = Append(dlq, l)
<1>0. loc[w] \in Locals /\ Within(loc[w]) /\ InHand(loc[w])
  BY DEF TypeOK, WithinInv, LetterInv
<1>1. ASSUME NEW r \in Records, DeadLetter(w, r)
      PROVE  /\ UNCHANGED applied /\ loc'[w].pc # "idle"
             /\ \E q \in loc[w].batch, l \in Letters : l.rec = q /\ dlq' = Append(dlq, l)
  <2>1. r \in loc[w].batch /\ UNCHANGED applied /\ dlq' = Append(dlq, Letter(w, r))
    BY <1>0, <1>1 DEF DeadLetter, Within
  <2>2. Letter(w, r) \in Letters /\ Letter(w, r).rec = r
    BY ParametersAssumption DEF Letter, Letters, Forms
  <2>3. PICK l : Becomes(w, l) /\ l = [loc[w] EXCEPT !.todo = loc[w].todo \ {r}]
    BY <1>1 DEF DeadLetter
  <2>4. l.pc = loc[w].pc /\ loc'[w] = l /\ loc[w].pc \in {"park", "errs"}
    BY <1>0, <1>1, <2>3 DEF Locals, Becomes, TypeOK, DeadLetter
  <2> QED BY <2>1, <2>2, <2>4
<1>2. ~RetryExecute(w) /\ ~PutLetter(w)
  BY <1>0 DEF RetryExecute, PutLetter, InHand
<1>3. UNCHANGED dlq \/ \E r \in Records : DeadLetter(w, r)
  BY <1>2 DEF Step, PutConfig, ReadState, Bootstrap, PutSchema, Inspect, PutBaseline, Rebase, Quality,
             Write, OpenBinding, Collect, Save, CheckRetries, RetryWrite, Reads
<1> QED BY <1>1, <1>3

\* Every step of one agent's submissions is a step of the ledger, or none it sees.
THEOREM LedgerStep ==
  ASSUME CTypeInv, LinkInv, WithinInv, LetterInv, [CNext]_allvars, OneRequest', LetterInv'
  PROVE  [Ledger!Next]_(Ledger!lvars)
<1>0. /\ \A w \in Workers : /\ sub[w] \in Subs /\ Known(sub[w]) /\ Linked(sub[w], loc[w])
                            /\ loc[w] \in Locals
      /\ TypeOK /\ OneRequest
      /\ stored \in [BatchIds -> Results \cup {"none"}]
      /\ sub \in [Workers -> Subs] /\ loc \in [Workers -> Locals]
  BY DEF CTypeInv, CTypeOK, LinkInv, Subs, TypeOK
\* It sees none that writes nothing, stores nothing and keeps the runs running.
<1>1. ASSUME UNCHANGED <<applied, stored>>, Parked' = Parked, Retried' = Retried,
             \A w \in Workers :
               \/ sub'[w] = sub[w]
               \/ /\ sub'[w].id = sub[w].id
                  /\ sub[w].pc \in {"execute", "record"} /\ sub'[w].pc \in {"execute", "record"}
               \/ sub[w].pc \notin {"execute", "record"} /\ sub'[w].pc \notin {"execute", "record"}
      PROVE  UNCHANGED Ledger!lvars
  <2>1. ASSUME NEW b \in BatchIds PROVE BatchStatus'[b] = BatchStatus[b]
    <3>1. \A w \in Workers : (sub'[w].id = b /\ sub'[w].pc \in {"execute", "record"})
                               <=> (sub[w].id = b /\ sub[w].pc \in {"execute", "record"})
      BY <1>1
    <3> QED BY <1>1, <3>1 DEF BatchStatus
  <2> QED BY <1>1, <2>1, StatusKept DEF Ledger!lvars
\* A worker whose submission moves: nobody else is in the way.
<1>2. ASSUME NEW w \in Workers, NEW s, sub' = [sub EXCEPT ![w] = s], sub[w].pc # "free",
             \A v \in Workers : v # w => loc'[v] = loc[v]
      PROVE  /\ sub'[w] = s
             /\ \A v \in Workers : v # w => sub[v].pc = "free" /\ sub'[v].pc = "free"
  <2>1. sub'[w] = s /\ \A v \in Workers : v # w => sub'[v] = sub[v]
    BY <1>0, <1>2
  <2>2. \A v \in Workers : v # w => sub[v].pc = "free"
    BY <1>0, <1>2, <2>1, OthersFree
  <2> QED BY <2>1, <2>2
\* Then the ledger's view of the batches depends on that worker only.
<1>3. ASSUME NEW w \in Workers, NEW s, sub' = [sub EXCEPT ![w] = s], sub[w].pc # "free",
             \A v \in Workers : v # w => loc'[v] = loc[v]
      PROVE  \A c \in BatchIds :
               /\ BatchStatus[c] =
                    IF stored[c] # "none" THEN "processed"
                    ELSE IF sub[w].id = c /\ sub[w].pc \in {"execute", "record"} THEN "running" ELSE "new"
               /\ BatchStatus'[c] =
                    IF stored'[c] # "none" THEN "processed"
                    ELSE IF s.id = c /\ s.pc \in {"execute", "record"} THEN "running" ELSE "new"
  <2>1. \A v \in Workers : v # w => sub[v].pc = "free" /\ sub'[v].pc = "free"
    BY <1>2, <1>3
  <2>2. sub'[w] = s
    BY <1>2, <1>3
  <2> QED BY <2>1, <2>2 DEF BatchStatus
<1>4. Free.pc = "free" /\ Idle.pc = "idle"
  BY DEF Free, Idle
<1>5. ASSUME NEW w \in Workers, NEW s, sub' = [sub EXCEPT ![w] = s], sub[w].pc # "free",
              \A v \in Workers : v # w => loc'[v] = loc[v]
       PROVE  \A v \in Workers : v # w => loc[v].pc = "idle" /\ loc'[v] = loc[v]
  <2>1. \A v \in Workers : v # w => sub'[v] = sub[v]
    BY <1>0, <1>5
  <2> QED BY <1>0, <1>5, <2>1, OthersFree
<1>6. ASSUME UNCHANGED <<dlq, loc>> PROVE Parked' = Parked /\ Retried' = Retried
  BY <1>6, ParkedKept DEF Retried
<1>7. ASSUME NEW w \in Workers, sub' = [sub EXCEPT ![w] = Free], sub[w].pc \in {"execute", "record"},
             UNCHANGED <<applied, stored>>, \A v \in Workers : v # w => loc'[v] = loc[v],
             Parked' = Parked, Retried' = Retried
      PROVE  Ledger!Next
  <2>1. PICK b \in BatchIds : b = sub[w].id /\ stored[b] = "none"
    BY <1>0, <1>7 DEF Known, Submitting, Linked
  <2>2. \A c \in BatchIds :
          /\ BatchStatus[c] =
               IF stored[c] # "none" THEN "processed"
               ELSE IF sub[w].id = c /\ sub[w].pc \in {"execute", "record"} THEN "running" ELSE "new"
          /\ BatchStatus'[c] =
               IF stored'[c] # "none" THEN "processed"
               ELSE IF Free.id = c /\ Free.pc \in {"execute", "record"} THEN "running" ELSE "new"
    BY <1>3, <1>7
  <2>3. BatchStatus[b] = "running" /\ BatchStatus'[b] = "new"
    BY <1>4, <1>7, <2>1, <2>2
  <2>4. \A c \in BatchIds : c # b => BatchStatus'[c] = BatchStatus[c]
    BY <1>4, <1>7, <2>1, <2>2
  <2>5. Ledger!GiveUp(b)
    BY <1>7, <2>3, <2>4, StatusMoves DEF Ledger!GiveUp
  <2> QED BY <2>5 DEF Ledger!Next
<1>8. ASSUME NEW w \in Workers, sub[w].pc = "agent", StartRun(w, Payload[sub[w].id]), UNCHANGED stored,
             sub' = [sub EXCEPT ![w].pc = "execute"]
      PROVE  Ledger!Next
  <2>1. PICK b \in BatchIds : b = sub[w].id /\ stored[b] = "none"
    BY <1>0, <1>8 DEF Known, Submitting, Linked
  <2>2. PICK s : s = [sub[w] EXCEPT !.pc = "execute"] /\ sub' = [sub EXCEPT ![w] = s]
    BY <1>8
  <2>3. s.pc = "execute" /\ s.id = b
    BY <1>0, <2>1, <2>2 DEF Subs
  <2>4. UNCHANGED applied /\ \A v \in Workers : v # w => loc'[v] = loc[v]
    BY <1>0, <1>8 DEF StartRun, Becomes, Reads
  <2>5. \A c \in BatchIds :
          /\ BatchStatus[c] =
               IF stored[c] # "none" THEN "processed"
               ELSE IF sub[w].id = c /\ sub[w].pc \in {"execute", "record"} THEN "running" ELSE "new"
          /\ BatchStatus'[c] =
               IF stored'[c] # "none" THEN "processed"
               ELSE IF s.id = c /\ s.pc \in {"execute", "record"} THEN "running" ELSE "new"
    <3>1. sub' = [sub EXCEPT ![w] = s] /\ sub[w].pc # "free"
      BY <1>8, <2>2
    <3> QED BY <1>3, <2>4, <3>1
  <2>6. BatchStatus[b] = "new" /\ BatchStatus'[b] = "running"
    BY <1>8, <2>1, <2>3, <2>5
  <2>7. \A c \in BatchIds : c # b => BatchStatus'[c] = BatchStatus[c]
    BY <1>8, <2>1, <2>3, <2>5
  <2>8. Parked' = Parked /\ Retried' = Retried
    <3>1. sub' = [sub EXCEPT ![w] = s] /\ sub[w].pc # "free" /\ loc[w].pc = "idle" /\ UNCHANGED dlq
      BY <1>8, <2>2 DEF StartRun, Start, Reads
    <3>2. loc'[w].pc # "rewrite"
      <4>1. PICK l : /\ Becomes(w, l)
                     /\ l = [loc[w] EXCEPT !.pc = "state", !.op = "run", !.batch = Payload[sub[w].id]]
        BY <1>8 DEF StartRun
      <4> QED BY <1>0, <4>1 DEF Becomes, Locals
    <3> QED BY <1>5, <2>4, <3>1, <3>2, NoneRetried, ParkedKept
  <2>9. Ledger!Begin(b)
    BY <2>4, <2>6, <2>7, <2>8, StatusMoves DEF Ledger!Begin
  <2> QED BY <2>9 DEF Ledger!Next
<1>9. ASSUME NEW w \in Workers, Execute(w) PROVE [Ledger!Next]_(Ledger!lvars)
  <2>1. /\ sub[w].pc = "execute" /\ loc[w].op = "run" /\ loc[w].batch = Payload[sub[w].id]
        /\ stored[sub[w].id] = "none" /\ UNCHANGED stored /\ Step(w)
    BY <1>0, <1>9 DEF Execute, Linked
  <2>2. PICK l : Becomes(w, l) /\ (l = Idle \/ l.op = "run")
    BY <1>0, <2>1, StepKeeps
  <2>3. \A v \in Workers : v # w => loc'[v] = loc[v]
    BY <1>0, <2>2 DEF Becomes
  <2>4. /\ UNCHANGED applied
           \/ \E r \in loc[w].batch : applied' = [applied EXCEPT ![r] = @ + 1] /\ loc'[w].pc # "idle"
        /\ \/ UNCHANGED dlq
           \/ /\ UNCHANGED applied /\ loc'[w].pc # "idle"
              /\ \E r \in loc[w].batch, x \in Letters : x.rec = r /\ dlq' = Append(dlq, x)
    BY <1>0, <2>1, StepWrites, StepParks
  <2>5. PICK s : sub' = [sub EXCEPT ![w] = s]
    BY <1>9 DEF Execute
  <2>6. Retried = {} /\ Retried' = {}
    <3>1. loc[w].pc # "rewrite"
      BY <2>1 DEF LetterInv, InHand
    <3>2. loc'[w].pc # "rewrite"
      <4>1. loc'[w] = l
        BY <1>0, <2>2 DEF Becomes
      <4>2. InHand(loc[w])'
        BY DEF LetterInv
      <4> QED BY <1>4, <2>2, <4>1, <4>2 DEF InHand
    <3>3. \A v \in Workers : v # w => loc[v].pc = "idle" /\ loc'[v] = loc[v]
      BY <1>5, <2>1, <2>3, <2>5
    <3> QED BY <3>1, <3>2, <3>3, NoneRetried
  <2>7. UNCHANGED dlq => Parked' = Parked
    BY ParkedKept
  <2>8. CASE loc'[w].pc # "idle"
    <3>1. UNCHANGED sub
      BY <1>0, <1>9, <2>8 DEF Execute
    <3>2. UNCHANGED BatchStatus
      BY <2>1, <3>1 DEF BatchStatus
    <3>3. PICK b \in BatchIds : b = sub[w].id
      BY <1>0, <2>1 DEF Known, Submitting
    <3>4. BatchStatus[b] = "running"
      BY <2>1, <3>3 DEF BatchStatus
    <3>5. CASE UNCHANGED applied /\ Parked' = Parked
      BY <2>6, <3>2, <3>5 DEF Ledger!lvars
    <3>6. ASSUME NEW r \in Payload[b], applied' = [applied EXCEPT ![r] = @ + 1], Parked' = Parked
          PROVE  Ledger!Next
      BY <2>6, <3>2, <3>4, <3>6 DEF Ledger!Write, Ledger!Next
    <3>7. ASSUME NEW r \in Payload[b], Parked' = Parked \cup {r}, UNCHANGED applied
          PROVE  Ledger!Next
      BY <2>6, <3>2, <3>4, <3>7 DEF Ledger!Park, Ledger!Next
    <3>8. CASE UNCHANGED dlq
      BY <2>1, <2>4, <2>7, <3>3, <3>5, <3>6, <3>8
    <3>9. ASSUME NEW r \in loc[w].batch, NEW x \in Letters, x.rec = r, dlq' = Append(dlq, x),
                 UNCHANGED applied
          PROVE  [Ledger!Next]_(Ledger!lvars)
      <4>1. Parked' = Parked \/ Parked' = Parked \cup {r}
        BY <1>0, <3>9, ParkedGrows DEF TypeOK
      <4> QED BY <2>1, <3>3, <3>5, <3>7, <3>9, <4>1
    <3> QED BY <2>4, <3>8, <3>9
  <2>9. CASE loc'[w].pc = "idle" /\ loc[w].pc = "errs"
    <3>1. PICK t : /\ sub' = [sub EXCEPT ![w] = t]
                   /\ t = [sub[w] EXCEPT !.pc = "record",
                                         !.result = IF loc[w].errs = {} THEN "success" ELSE "partial"]
      BY <1>9, <2>9 DEF Execute
    <3>2. t.pc = "record" /\ t.id = sub[w].id
      BY <1>0, <3>1 DEF Subs
    <3>3. Parked' = Parked /\ UNCHANGED applied
      BY <2>4, <2>7, <2>9
    <3> QED BY <1>0, <1>1, <2>1, <2>6, <3>1, <3>2, <3>3
  <2>10. CASE loc'[w].pc = "idle" /\ loc[w].pc # "errs"
    <3>1. sub' = [sub EXCEPT ![w] = Free]
      BY <1>9, <2>10 DEF Execute
    <3>2. Parked' = Parked /\ UNCHANGED applied
      BY <2>4, <2>7, <2>10
    <3> QED BY <1>7, <2>1, <2>3, <2>6, <3>1, <3>2
  <2> QED BY <2>8, <2>9, <2>10
<1>10. ASSUME NEW w \in Workers, Record(w) PROVE Ledger!Next
  <2>1. PICK b \in BatchIds : b = sub[w].id /\ stored[b] = "none"
    BY <1>0, <1>10 DEF Record, Known, Submitting, Linked
  <2>2. PICK s : s = [sub[w] EXCEPT !.pc = "fetch"] /\ sub' = [sub EXCEPT ![w] = s]
    BY <1>10 DEF Record
  <2>3. /\ s.pc = "fetch" /\ sub[w].pc = "record" /\ UNCHANGED <<applied, loc, dlq>>
        /\ stored'[b] # "none" /\ \A c \in BatchIds : c # b => stored'[c] = stored[c]
    BY <1>0, <1>10, <2>1, <2>2 DEF Subs, Record, vars, Results
  <2>4. \A c \in BatchIds :
          /\ BatchStatus[c] =
               IF stored[c] # "none" THEN "processed"
               ELSE IF sub[w].id = c /\ sub[w].pc \in {"execute", "record"} THEN "running" ELSE "new"
          /\ BatchStatus'[c] =
               IF stored'[c] # "none" THEN "processed"
               ELSE IF s.id = c /\ s.pc \in {"execute", "record"} THEN "running" ELSE "new"
    <3>1. sub' = [sub EXCEPT ![w] = s] /\ sub[w].pc # "free" /\ \A v \in Workers : v # w => loc'[v] = loc[v]
      BY <2>2, <2>3
    <3> QED BY <1>3, <3>1
  <2>5. BatchStatus[b] = "running" /\ BatchStatus'[b] = "processed"
    BY <2>1, <2>3, <2>4
  <2>6. \A c \in BatchIds : c # b => BatchStatus'[c] = BatchStatus[c]
    BY <2>1, <2>3, <2>4
  <2>7. Ledger!Store(b)
    BY <1>6, <2>3, <2>5, <2>6, StatusMoves DEF Ledger!Store
  <2> QED BY <2>7 DEF Ledger!Next
<1>11. ASSUME NEW w \in Workers, Die(w) PROVE [Ledger!Next]_(Ledger!lvars)
  <2>1. /\ sub' = [sub EXCEPT ![w] = Free] /\ UNCHANGED <<applied, stored, dlq>> /\ sub[w].pc # "free"
        /\ \A v \in Workers : v # w => loc'[v] = loc[v]
        /\ loc'[w] = loc[w] \/ loc'[w] = Idle
    BY <1>0, <1>11 DEF Die, Crash, Becomes, Reads
  <2>2. Parked' = Parked /\ Retried' = Retried
    <3>1. loc[w].pc # "rewrite"
      BY <1>0, <2>1 DEF Linked, LetterInv, InHand
    <3>2. loc'[w].pc # "rewrite"
      BY <1>4, <2>1, <3>1
    <3> QED BY <1>5, <2>1, <3>1, <3>2, NoneRetried, ParkedKept
  <2>3. CASE sub[w].pc \in {"execute", "record"}
    BY <1>7, <2>1, <2>2, <2>3
  <2>4. CASE sub[w].pc \notin {"execute", "record"}
    BY <1>0, <1>1, <1>4, <2>1, <2>2, <2>4
  <2> QED BY <2>3, <2>4
\* The steps around a run.
<1>12. ASSUME NEW w \in Workers, NEW s, sub' = [sub EXCEPT ![w] = s],
              sub[w].pc \notin {"execute", "record"}, s.pc \notin {"execute", "record"},
              UNCHANGED <<applied, stored, dlq, loc>>
       PROVE  UNCHANGED Ledger!lvars
  BY <1>0, <1>1, <1>12, <1>6
<1>13. ASSUME NEW w \in Workers, sub[w].pc \notin {"execute", "record"},
              UNCHANGED <<applied, stored, dlq, loc>>,
              \/ sub' = [sub EXCEPT ![w] = Free]
              \/ \E pc \in {"connector", "agent", "put"} :
                   sub' = [sub EXCEPT ![w] = [sub[w] EXCEPT !.pc = pc]]
       PROVE  UNCHANGED Ledger!lvars
  <2>1. ASSUME NEW pc \in {"connector", "agent", "put"},
               sub' = [sub EXCEPT ![w] = [sub[w] EXCEPT !.pc = pc]]
        PROVE  UNCHANGED Ledger!lvars
    <3>1. PICK s : s = [sub[w] EXCEPT !.pc = pc]
      OBVIOUS
    <3>2. s.pc = pc
      BY <1>0, <3>1 DEF Subs
    <3> QED BY <1>12, <1>13, <2>1, <3>1, <3>2
  <2> QED BY <1>4, <1>12, <1>13, <2>1
<1>14. ASSUME NEW w \in Workers,
              Lookup(w) \/ CheckConnector(w) \/ CheckBinding(w) \/ Touch(w) \/ PutConnector(w)
       PROVE  UNCHANGED Ledger!lvars
  <2>1. sub[w].pc \notin {"execute", "record"} /\ UNCHANGED <<applied, stored, dlq, loc>>
    BY <1>14 DEF Lookup, CheckConnector, CheckBinding, Touch, PutConnector, vars
  <2>2. \/ sub' = [sub EXCEPT ![w] = Free]
        \/ \E pc \in {"connector", "agent", "put"} :
             sub' = [sub EXCEPT ![w] = [sub[w] EXCEPT !.pc = pc]]
    BY <1>14 DEF Lookup, CheckConnector, CheckBinding, Touch, PutConnector
  <2> QED BY <1>13, <2>1, <2>2
<1>15. ASSUME NEW w \in Workers, CheckAgent(w) PROVE [Ledger!Next]_(Ledger!lvars)
  <2>1. sub[w].pc = "agent" /\ UNCHANGED stored
    BY <1>15 DEF CheckAgent
  <2>2. CASE sub' = [sub EXCEPT ![w] = Free] /\ UNCHANGED vars
    BY <1>13, <2>1, <2>2 DEF vars
  <2> QED BY <1>8, <1>15, <2>1, <2>2 DEF CheckAgent
<1>16. ASSUME NEW w \in Workers, NEW b \in BatchIds, Submit(w, b) PROVE UNCHANGED Ledger!lvars
  <2>1. PICK s : s = [Free EXCEPT !.pc = "lookup", !.id = b] /\ sub' = [sub EXCEPT ![w] = s]
    BY <1>16 DEF Submit
  <2>2. s.pc = "lookup"
    BY <2>1 DEF Free
  <2> QED BY <1>12, <1>16, <2>1, <2>2 DEF Submit, vars
<1>17. ASSUME NEW w \in Workers, Fetch(w) PROVE UNCHANGED Ledger!lvars
  <2>1. PICK s : s = [sub[w] EXCEPT !.pc = "touch", !.conn = connector] /\ sub' = [sub EXCEPT ![w] = s]
    BY <1>17 DEF Fetch
  <2>2. s.pc = "touch"
    BY <1>0, <2>1 DEF Subs
  <2> QED BY <1>12, <1>17, <2>1, <2>2 DEF Fetch, vars
<1>18. ASSUME NEW w \in Workers, NEW next \in {"check", "put"}, Review(w, next) PROVE UNCHANGED Ledger!lvars
  <2>1. PICK c, s : s = [sub[w] EXCEPT !.pc = next, !.conn = c] /\ sub' = [sub EXCEPT ![w] = s]
    BY <1>18 DEF Review
  <2>2. s.pc = next
    BY <1>0, <2>1 DEF Subs
  <2> QED BY <1>12, <1>18, <2>1, <2>2 DEF Review, vars
<1>19. CASE UNCHANGED <<applied, stored, sub, dlq, loc>>
  BY <1>1, <1>19, <1>6
\* The requests beside the submissions.
<1>20. ASSUME NEW w \in Workers, Aside(w) PROVE [Ledger!Next]_(Ledger!lvars)
  <2>1. [Next]_vars /\ UNCHANGED BatchStatus
    <3>1. [Next]_vars
      BY <1>20 DEF Aside, Next, Request
    <3>2. UNCHANGED <<stored, sub>>
      BY <1>20 DEF Aside, cvars
    <3> QED BY <3>1, <3>2 DEF BatchStatus
  <2>2. PICK l : Becomes(w, l)
    <3>1. CASE Step(w)
      BY <1>0, <3>1, StepKeeps
    <3> QED BY <1>20, <3>1 DEF Aside, Configure, StartRetry, Crash
  <2>3. loc'[w] = l /\ \A v \in Workers : v # w => loc'[v] = loc[v] /\ sub'[v] = sub[v]
    BY <1>0, <1>20, <2>2 DEF Becomes, Aside, cvars
  <2>4. Busy(w) \/ Busy(w)'
    <3>1. CASE Step(w)
      BY <1>0, <3>1, StepKeeps DEF Busy
    <3>2. ASSUME NEW c \in Configs, Configure(w, c) PROVE Busy(w)'
      <4>1. PICK k : Becomes(w, k) /\ k = [loc[w] EXCEPT !.pc = "put", !.op = "configure",
                                                         !.snap = Configured(c, row)]
        BY <3>2 DEF Configure
      <4> QED BY <1>0, <4>1 DEF Becomes, Locals, Busy
    <3>3. ASSUME NEW d \in DOMAIN dlq, StartRetry(w, d) PROVE Busy(w)'
      <4>1. PICK k : Becomes(w, k) /\ k = [loc[w] EXCEPT !.pc = "state", !.op = "retry", !.id = d,
                                  !.count = dlq[d].count, !.status = dlq[d].status]
        BY <3>3 DEF StartRetry
      <4> QED BY <1>0, <4>1 DEF Becomes, Locals, Busy
    <3> QED BY <1>20, <3>1, <3>2, <3>3 DEF Aside, Crash, Busy
  <2>5. \A v \in Workers : v # w => loc[v].pc = "idle" /\ loc'[v] = loc[v]
    BY <1>0, <2>3, <2>4, OthersFree
  <2> QED BY <1>20, <2>1, <2>5, RetriesInLedger
<1>21. \/ UNCHANGED <<applied, stored, sub, dlq, loc>>
       \/ \E w \in Workers : \/ \E b \in BatchIds : Submit(w, b)
                             \/ \E next \in {"check", "put"} : Review(w, next)
                             \/ Serve(w) \/ Die(w) \/ Aside(w)
  BY DEF CNext, UpsertConnector, SetAgent, EditBinding, Reads, vars, cvars, allvars
<1> QED
  BY <1>9, <1>10, <1>11, <1>14, <1>15, <1>16, <1>17, <1>18, <1>19, <1>20, <1>21 DEF Serve

\* Driven by one agent, submission implements the ledger of BatchLedger: domain data is written
\* only by the batch that is being processed, and a processed batch is never processed again.
THEOREM SubmissionImplementsLedger == OrderlyCSpec => ImplementsLedger
<1>1. CInit => Ledger!Init
  <2> SUFFICES ASSUME CInit PROVE Ledger!Init
    OBVIOUS
  <2>1. BatchStatus = [b \in BatchIds |-> "new"]
    BY DEF CInit, BatchStatus, Free
  <2>2. Parked = {} /\ Retried = {}
    BY DEF CInit, Init, Parked, EmptyLetters, Retried, Idle
  <2> QED BY <2>1, <2>2 DEF CInit, Init, Ledger!Init
<1> DEFINE Inv == CTypeInv /\ LinkInv /\ WithinInv /\ LetterInv
<1>2. Inv /\ Inv' /\ [CNext /\ OneRequest' /\ BatchesInOrder]_allvars => [Ledger!Next]_(Ledger!lvars)
  BY AllowedSteps, LedgerStep
<1>3. OrderlyCSpec => []Inv
  BY OrderlyLinked
<1> HIDE DEF Inv
<1> QED BY <1>1, <1>2, <1>3, PTL DEF OrderlyCSpec, ImplementsLedger, Ledger!Spec

=============================================================================
