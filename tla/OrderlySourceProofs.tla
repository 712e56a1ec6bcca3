------------------------- MODULE OrderlySourceProofs -------------------------
(***************************************************************************)
(* What IntegrationRuntime promises an orderly client, who sends one       *)
(* request at a time and its payloads in the order of the source, for      *)
(* every source, number of workers, failure and crash.                     *)
(***************************************************************************)
EXTENDS IntegrationRuntimeProofs

\* What a handler read of the row is still the row, but for the baseline it put itself.
Current(l) ==
  /\ l.pc \in {"idle", "state"} => ~l.base.saved
  /\ l.pc = "put" => \E c \in Configs : l.snap = Configured(c, row)
  /\ l.pc = "boot" /\ l.base.saved => l.base.wm = row.wm /\ l.base.fp = row.fp
  /\ l.pc \in {"base", "base2"} => l.base.wm = row.wm
  /\ l.pc \in {"inspect", "accept", "base", "rebase", "base2", "quality", "park", "write", "errs"} =>
       l.snap.wm = row.wm
  /\ l.pc \in {"inspect", "accept", "base", "quality", "park", "write", "errs"} => l.snap.fp = row.fp
  /\ l.pc = "base" => row.fp = NoSchema
  /\ l.pc \in {"rebase", "base2"} => row.fp = SchemaOf(l.batch)

\* The points of execute, and only execute.
RunPoints == {"inspect", "base", "rebase", "base2", "reread", "quality", "park", "write", "errs"}

\* A run treats records of its payload, and writes those past the watermark it read.
Within(l) ==
  /\ l.todo \subseteq l.batch /\ l.errs \subseteq l.batch
  /\ l.pc \in {"park", "write", "errs"} => l.good \subseteq Incoming(l.batch, l.snap)
  /\ l.pc \notin {"park", "write", "errs"} => l.todo = {} /\ l.errs = {}
  /\ l.pc \in RunPoints => l.op = "run"

OneInv == OneAtATime /\ \A w \in Workers : Current(loc[w])
WithinInv == \A w \in Workers : Within(loc[w])

\* The idle workers stay idle while one request is served.
LEMMA OthersIdle ==
  ASSUME TypeOK, OneAtATime, OneAtATime', NEW w \in Workers, NEW l, Becomes(w, l),
         loc[w].pc # "idle" \/ l.pc # "idle"
  PROVE  /\ loc'[w] = l
         /\ \A v \in Workers : v # w => loc'[v] = loc[v] /\ loc[v].pc = "idle"
BY DEF TypeOK, Becomes, OneAtATime, Busy

\* The copies of the row stay current, a step of one request at a time.
THEOREM CurrentPreserved == TypeOK /\ OneInv /\ [Next]_vars /\ OneAtATime' => OneInv'
<1> SUFFICES ASSUME TypeOK, OneInv, [Next]_vars, OneAtATime' PROVE OneInv'
  OBVIOUS
<1>0. /\ \A w \in Workers : loc[w] \in Locals /\ Current(loc[w])
      /\ row \in Rows
      /\ OneAtATime
  BY DEF TypeOK, OneInv
<1>1. ASSUME NEW w \in Workers, NEW l, Becomes(w, l), loc[w].pc # "idle" \/ l.pc # "idle",
             Current(l)'
      PROVE  OneInv'
  <2>1. /\ loc'[w] = l
        /\ \A v \in Workers : v # w => loc'[v] = loc[v] /\ loc[v].pc = "idle"
    BY <1>0, <1>1, OthersIdle
  <2>2. ASSUME NEW v \in Workers PROVE Current(loc[v])'
    <3>1. CASE v = w
      BY <1>1, <2>1, <3>1 DEF Current
    <3>2. CASE v # w
      BY <1>0, <2>1, <3>2 DEF Current
    <3> QED BY <3>1, <3>2
  <2> QED BY <2>2 DEF OneInv
<1>2. CASE UNCHANGED <<row, loc>>
  BY <1>0, <1>2 DEF OneInv, Current
<1>3. Current(Idle)' /\ Idle.pc = "idle"
  BY DEF Current, Idle, DefaultRow
<1>4. ASSUME NEW w \in Workers, loc[w].pc # "idle", Becomes(w, Idle) PROVE OneInv'
  BY <1>1, <1>3, <1>4
<1>5. ASSUME NEW w \in Workers, Request(w) PROVE OneInv'
  <2>1. ASSUME NEW c \in Configs, Configure(w, c) PROVE OneInv'
    <3>1. PICK l : Becomes(w, l) /\ l = [loc[w] EXCEPT !.pc = "put", !.op = "configure",
                                                !.snap = Configured(c, row)]
      BY <2>1 DEF Configure
    <3>2. l.pc = "put" /\ l.snap = Configured(c, row)
      BY <1>0, <3>1 DEF Locals
    <3>3. Current(l)'
      BY <2>1, <3>2 DEF Current, Configure, Reads
    <3> QED BY <1>1, <3>1, <3>2, <3>3
  <2>2. ASSUME NEW l, Becomes(w, l), loc[w].pc = "idle", l.pc = "state", l.base = loc[w].base
        PROVE  OneInv'
    <3>1. Current(l)'
      BY <1>0, <2>2 DEF Current
    <3> QED BY <1>1, <2>2, <3>1
  <2>3. ASSUME NEW b \in Batches, StartRun(w, b) PROVE OneInv'
    <3>1. PICK l : Becomes(w, l) /\ l = [loc[w] EXCEPT !.pc = "state", !.op = "run", !.batch = b]
      BY <2>3 DEF StartRun
    <3>2. l.pc = "state" /\ l.base = loc[w].base
      BY <1>0, <3>1 DEF Locals
    <3> QED BY <2>2, <2>3, <3>1, <3>2 DEF StartRun, Start
  <2>4. ASSUME NEW b \in Batches, NEW op, StartSchema(w, op, b) PROVE OneInv'
    <3>1. PICK l : Becomes(w, l) /\ l = [loc[w] EXCEPT !.pc = "state", !.op = op, !.batch = b]
      BY <2>4 DEF StartSchema
    <3>2. l.pc = "state" /\ l.base = loc[w].base
      BY <1>0, <3>1 DEF Locals
    <3> QED BY <2>2, <2>4, <3>1, <3>2 DEF StartSchema, Start
  <2>5. ASSUME NEW d \in DOMAIN dlq, StartRetry(w, d) PROVE OneInv'
    <3>1. PICK l : Becomes(w, l) /\ l = [loc[w] EXCEPT !.pc = "state", !.op = "retry",
                         !.id = d, !.count = dlq[d].count, !.status = dlq[d].status]
      BY <2>5 DEF StartRetry
    <3>2. l.pc = "state" /\ l.base = loc[w].base
      BY <1>0, <3>1 DEF Locals
    <3> QED BY <2>2, <2>5, <3>1, <3>2 DEF StartRetry, Start
  <2> QED BY <1>5, <2>1, <2>3, <2>4, <2>5 DEF Request
<1>6. ASSUME NEW w \in Workers, ReadState(w) PROVE OneInv'
  <2>1. PICK l : Becomes(w, l) /\ l = [loc[w] EXCEPT
                    !.snap = [row EXCEPT !.saved = TRUE],
                    !.pc = IF row.saved THEN AfterState(loc[w].op) ELSE "boot"]
    BY <1>6 DEF ReadState
  <2>2. /\ l.pc \in {"boot", "inspect", "check", "accept"} /\ loc[w].pc = "state"
        /\ l.base = loc[w].base /\ l.snap = [row EXCEPT !.saved = TRUE]
    BY <1>0, <1>6, <2>1 DEF Locals, AfterState, ReadState
  <2>3. l.snap.wm = row.wm /\ l.snap.fp = row.fp
    BY <1>0, <2>2 DEF Rows
  <2>4. ~l.base.saved
    BY <1>0, <2>2 DEF Current
  <2>5. Current(l)'
    BY <1>6, <2>2, <2>3, <2>4 DEF Current, ReadState, Reads
  <2> QED BY <1>1, <2>1, <2>2, <2>5
<1>7. ASSUME NEW w \in Workers, Bootstrap(w) PROVE OneInv'
  <2>0. loc[w].pc = "boot" /\ loc[w].base \in Rows
    BY <1>0, <1>7 DEF Bootstrap, Locals
  <2>1. ASSUME loc[w].base.saved, row' = loc[w].base,
               Becomes(w, [loc[w] EXCEPT !.snap = loc[w].base, !.base = DefaultRow,
                                         !.pc = AfterState(loc[w].op)])
        PROVE  OneInv'
    <3>1. PICK l : Becomes(w, l) /\ l = [loc[w] EXCEPT !.snap = loc[w].base, !.base = DefaultRow,
                                                       !.pc = AfterState(loc[w].op)]
      BY <2>1
    <3>2. l.pc \in {"inspect", "check", "accept"} /\ l.snap = row'
      BY <1>0, <2>1, <3>1 DEF Locals, AfterState
    <3>3. Current(l)'
      BY <3>2 DEF Current
    <3> QED BY <1>1, <2>0, <3>1, <3>3
  <2>2. ASSUME ~loc[w].base.saved, UNCHANGED row,
               Becomes(w, [loc[w] EXCEPT !.base = [row EXCEPT !.saved = TRUE]])
        PROVE  OneInv'
    <3>1. PICK l : Becomes(w, l) /\ l = [loc[w] EXCEPT !.base = [row EXCEPT !.saved = TRUE]]
      BY <2>2
    <3>2. l.pc = "boot" /\ l.base = [row EXCEPT !.saved = TRUE]
      BY <1>0, <2>0, <3>1 DEF Locals
    <3>3. l.base.wm = row.wm /\ l.base.fp = row.fp
      BY <1>0, <3>2 DEF Rows
    <3>4. Current(l)'
      BY <2>2, <3>2, <3>3 DEF Current
    <3> QED BY <1>1, <2>0, <3>1, <3>4
  <2> QED BY <1>7, <2>1, <2>2 DEF Bootstrap
<1>8. ASSUME NEW w \in Workers, Inspect(w) PROVE OneInv'
  <2>0. /\ loc[w].pc = "inspect" /\ UNCHANGED row
        /\ loc[w].snap.wm = row.wm /\ loc[w].snap.fp = row.fp
    BY <1>0, <1>8 DEF Inspect, Current, Reads
  <2>1. ASSUME row.fp = NoSchema, Becomes(w, [loc[w] EXCEPT !.base = row, !.pc = "base"])
        PROVE  OneInv'
    <3>1. PICK l : Becomes(w, l) /\ l = [loc[w] EXCEPT !.base = row, !.pc = "base"]
      BY <2>1
    <3>2. l.pc = "base" /\ l.base = row /\ l.snap = loc[w].snap
      BY <1>0, <3>1 DEF Locals
    <3>3. Current(l)'
      BY <2>0, <2>1, <3>2 DEF Current
    <3> QED BY <1>1, <2>0, <3>1, <3>3
  <2>2. ASSUME row.fp # NoSchema, Becomes(w, [loc[w] EXCEPT !.pc = PastGate(w)])
        PROVE  OneInv'
    <3>1. PICK l : Becomes(w, l) /\ l = [loc[w] EXCEPT !.pc = PastGate(w)]
      BY <2>2
    <3>2. l.pc = "quality" /\ l.snap = loc[w].snap
      BY <1>0, <2>0, <2>2, <3>1 DEF Locals, PastGate
    <3>3. Current(l)'
      BY <2>0, <3>2 DEF Current
    <3> QED BY <1>1, <2>0, <3>1, <3>3
  <2>3. CASE Becomes(w, Idle)
    BY <1>4, <2>0, <2>3
  <2> QED BY <1>8, <2>1, <2>2, <2>3 DEF Inspect
<1>9. ASSUME NEW w \in Workers, PutBaseline(w) PROVE OneInv'
  <2>0. /\ loc[w].pc \in {"base", "base2"} /\ loc[w].base \in Rows
        /\ loc[w].base.wm = row.wm /\ loc[w].snap.wm = row.wm
        /\ loc[w].pc = "base" => loc[w].snap.fp = NoSchema
    BY <1>0, <1>9 DEF PutBaseline, Current, Locals
  <2>1. row'.wm = row.wm /\ row'.fp = SchemaOf(loc[w].batch)
    BY <1>9, <2>0 DEF PutBaseline, Baselined, Rows
  <2>2. PICK l : Becomes(w, l) /\ l = [loc[w] EXCEPT !.pc = IF loc[w].pc = "base" THEN PastGate(w)
                                                                                  ELSE "reread"]
    BY <1>9 DEF PutBaseline
  <2>3. l.pc \in {"rebase", "reread"} /\ l.snap = loc[w].snap /\ l.batch = loc[w].batch
    BY <1>0, <2>0, <2>2 DEF Locals, PastGate
  <2>4. Current(l)'
    BY <2>0, <2>1, <2>3 DEF Current, SchemaOf
  <2> QED BY <1>1, <2>0, <2>2, <2>4
<1>10. ASSUME NEW w \in Workers, Rebase(w) PROVE OneInv'
  <2>0. UNCHANGED row /\ loc[w].pc \in {"rebase", "reread"}
    BY <1>10 DEF Rebase, Reads
  <2>1. ASSUME loc[w].pc = "rebase", Becomes(w, [loc[w] EXCEPT !.base = row, !.pc = "base2"])
        PROVE  OneInv'
    <3>1. PICK l : Becomes(w, l) /\ l = [loc[w] EXCEPT !.base = row, !.pc = "base2"]
      BY <2>1
    <3>2. l.pc = "base2" /\ l.base = row /\ l.snap = loc[w].snap /\ l.batch = loc[w].batch
      BY <1>0, <3>1 DEF Locals
    <3>3. loc[w].snap.wm = row.wm /\ row.fp = SchemaOf(loc[w].batch)
      BY <1>0, <2>1 DEF Current
    <3>4. Current(l)'
      BY <2>0, <3>2, <3>3 DEF Current, SchemaOf
    <3> QED BY <1>1, <2>0, <3>1, <3>4
  <2>2. ASSUME Becomes(w, [loc[w] EXCEPT !.snap = row, !.pc = "quality"])
        PROVE  OneInv'
    <3>1. PICK l : Becomes(w, l) /\ l = [loc[w] EXCEPT !.snap = row, !.pc = "quality"]
      BY <2>2
    <3>2. l.pc = "quality" /\ l.snap = row
      BY <1>0, <3>1 DEF Locals
    <3>3. Current(l)'
      BY <2>0, <3>2 DEF Current
    <3> QED BY <1>1, <2>0, <3>1, <3>3
  <2> QED BY <1>10, <2>1, <2>2 DEF Rebase
\* A step that goes on with the row it has read.
<1>11. ASSUME NEW w \in Workers, NEW l, Becomes(w, l), UNCHANGED row, l.snap = loc[w].snap,
              loc[w].pc \in {"quality", "park", "write", "errs"},
              l.pc \in {"park", "write", "errs"}
       PROVE  OneInv'
  <2>1. Current(l)'
    BY <1>0, <1>11 DEF Current
  <2> QED BY <1>1, <1>11, <2>1
<1>12. ASSUME NEW w \in Workers, Quality(w) PROVE OneInv'
  <2>1. PICK g, t, l : Becomes(w, l) /\ l = [loc[w] EXCEPT !.pc = "park", !.todo = t, !.good = g]
    BY <1>12 DEF Quality
  <2>2. l.pc = "park" /\ l.snap = loc[w].snap
    BY <1>0, <2>1 DEF Locals
  <2> QED BY <1>11, <1>12, <2>1, <2>2 DEF Quality, Reads
<1>13. ASSUME NEW w \in Workers, NEW r \in Records, DeadLetter(w, r) PROVE OneInv'
  <2>1. PICK t, l : Becomes(w, l) /\ l = [loc[w] EXCEPT !.todo = t]
    BY <1>13 DEF DeadLetter
  <2>2. l.pc = loc[w].pc /\ l.snap = loc[w].snap
    BY <1>0, <2>1 DEF Locals
  <2> QED BY <1>11, <1>13, <2>1, <2>2 DEF DeadLetter
<1>14. ASSUME NEW w \in Workers, OpenBinding(w) PROVE OneInv'
  <2>1. CASE Becomes(w, Idle)
    BY <1>4, <1>14, <2>1 DEF OpenBinding
  <2>2. ASSUME NEW t, NEW e, Becomes(w, [loc[w] EXCEPT !.pc = "write", !.todo = t, !.errs = e])
        PROVE  OneInv'
    <3>1. PICK l : Becomes(w, l) /\ l = [loc[w] EXCEPT !.pc = "write", !.todo = t, !.errs = e]
      BY <2>2
    <3>2. l.pc = "write" /\ l.snap = loc[w].snap
      BY <1>0, <3>1 DEF Locals
    <3> QED BY <1>11, <1>14, <3>1, <3>2 DEF OpenBinding, Reads
  <2> QED BY <1>14, <2>1, <2>2 DEF OpenBinding
<1>15. ASSUME NEW w \in Workers, NEW r \in Records, Write(w, r) PROVE OneInv'
  <2>1. PICK t, e, l : /\ Becomes(w, l)
                       /\ \/ l = [loc[w] EXCEPT !.todo = t]
                          \/ l = [loc[w] EXCEPT !.todo = t, !.errs = e]
    BY <1>15 DEF Write
  <2>2. l.pc = loc[w].pc /\ l.snap = loc[w].snap
    BY <1>0, <2>1 DEF Locals
  <2> QED BY <1>11, <1>15, <2>1, <2>2 DEF Write
<1>16. ASSUME NEW w \in Workers, NEW kept \in SUBSET loc[w].errs, Collect(w, kept) PROVE OneInv'
  <2>1. PICK t, p, l : Becomes(w, l) /\ l = [loc[w] EXCEPT !.pc = "errs", !.todo = t, !.dropped = p]
    BY <1>16 DEF Collect
  <2>2. l.pc = "errs" /\ l.snap = loc[w].snap
    BY <1>0, <2>1 DEF Locals
  <2> QED BY <1>11, <1>16, <2>1, <2>2 DEF Collect, Reads
<1>17. ASSUME NEW w \in Workers, NEW l, Becomes(w, l), loc[w].pc # "idle",
              l.pc \in {"exec", "rewrite", "rput"}
       PROVE  OneInv'
  <2>1. Current(l)'
    BY <1>17 DEF Current
  <2> QED BY <1>1, <1>17, <2>1
<1>18. ASSUME NEW w \in Workers, CheckRetries(w) \/ RetryExecute(w) \/ RetryWrite(w) PROVE OneInv'
  <2>1. CASE Becomes(w, Idle)
    BY <1>4, <1>18, <2>1 DEF CheckRetries, RetryExecute, RetryWrite
  <2>2. ASSUME NEW l, Becomes(w, l),
               \/ l = [loc[w] EXCEPT !.count = loc[w].count + 1, !.pc = "exec"]
               \/ l = [loc[w] EXCEPT !.pc = "rewrite"]
               \/ l = [loc[w] EXCEPT !.pc = "rput"]
               \/ l = [loc[w] EXCEPT !.status = "resolved", !.pc = "rput"]
        PROVE  OneInv'
    <3>1. l.pc \in {"exec", "rewrite", "rput"}
      BY <1>0, <2>2 DEF Locals
    <3> QED BY <1>17, <1>18, <2>2, <3>1 DEF CheckRetries, RetryExecute, RetryWrite
  <2> QED BY <1>18, <2>1, <2>2 DEF CheckRetries, RetryExecute, RetryWrite
<1>19. ASSUME NEW w \in Workers, PutConfig(w) \/ PutSchema(w) \/ Save(w) \/ PutLetter(w) \/ Crash(w)
       PROVE  OneInv'
  BY <1>4, <1>19 DEF PutConfig, PutSchema, Save, PutLetter, Crash
<1>20. CASE UNCHANGED vars \/ EditBinding \/ \E q \in Rules : PutRule(q)
  BY <1>2, <1>20 DEF vars, EditBinding, PutRule, Reads
<1> QED
  BY <1>5, <1>6, <1>7, <1>8, <1>9, <1>10, <1>12, <1>13, <1>14, <1>15, <1>16, <1>18, <1>19, <1>20
     DEF Next, Step
\* The steps outside the loops over the records change nothing that is in hand.
LEMMA OutsideLoops ==
  ASSUME TypeOK, NEW w \in Workers,
         \/ ReadState(w) \/ Bootstrap(w) \/ Inspect(w) \/ PutBaseline(w)
         \/ Rebase(w) \/ CheckRetries(w) \/ RetryExecute(w) \/ RetryWrite(w)
  PROVE  /\ loc[w].pc \notin {"idle", "park", "write", "errs"}
         /\ \E l : /\ Becomes(w, l)
                   /\ \/ l = Idle
                      \/ /\ l.pc \notin {"idle", "park", "write", "errs"}
                         /\ l.op = loc[w].op /\ l.batch = loc[w].batch /\ l.id = loc[w].id
                         /\ l.todo = loc[w].todo /\ l.errs = loc[w].errs
                         /\ l.pc \in RunPoints => l.op = "run" \/ loc[w].pc \in RunPoints
                         /\ loc[w].pc \in RunPoints => l.pc \in RunPoints
<1> DEFINE Same(l) == /\ l.pc \notin {"idle", "park", "write", "errs"}
                      /\ l.op = loc[w].op /\ l.batch = loc[w].batch /\ l.id = loc[w].id
                      /\ l.todo = loc[w].todo /\ l.errs = loc[w].errs
                      /\ l.pc \in RunPoints => l.op = "run" \/ loc[w].pc \in RunPoints
                      /\ loc[w].pc \in RunPoints => l.pc \in RunPoints
<1>0. /\ loc[w] \in Locals
      /\ loc[w].pc \notin {"idle", "park", "write", "errs"}
  BY DEF TypeOK, ReadState, Bootstrap, Inspect, PutBaseline, Rebase, CheckRetries, RetryExecute,
         RetryWrite
<1> SUFFICES \E l : Becomes(w, l) /\ (l = Idle \/ Same(l))
  BY <1>0
<1> HIDE DEF Same
<1>1. CASE ReadState(w)
  <2>1. PICK l : Becomes(w, l) /\ l = [loc[w] EXCEPT
                    !.snap = [row EXCEPT !.saved = TRUE],
                    !.pc = IF row.saved THEN AfterState(loc[w].op) ELSE "boot"]
    BY <1>1 DEF ReadState
  <2>2. Same(l)
    BY <1>0, <1>1, <2>1 DEF Locals, AfterState, Same, RunPoints, ReadState
  <2> QED BY <2>1, <2>2
<1>2. CASE Bootstrap(w)
  <2>1. PICK l : Becomes(w, l) /\ \/ l = [loc[w] EXCEPT !.snap = loc[w].base, !.base = DefaultRow,
                                                 !.pc = AfterState(loc[w].op)]
                                  \/ l = [loc[w] EXCEPT !.base = [row EXCEPT !.saved = TRUE]]
    BY <1>2 DEF Bootstrap
  <2>2. Same(l)
    BY <1>0, <1>2, <2>1 DEF Locals, AfterState, Same, RunPoints, Bootstrap
  <2> QED BY <2>1, <2>2
<1>3. CASE Inspect(w)
  <2>0. loc[w].pc \in RunPoints
    BY <1>3 DEF Inspect, RunPoints
  <2>1. PICK l : Becomes(w, l) /\ \/ l = [loc[w] EXCEPT !.base = row, !.pc = "base"]
                                  \/ l = [loc[w] EXCEPT !.pc = PastGate(w)]
                                  \/ l = Idle
    BY <1>3 DEF Inspect
  <2>2. l = Idle \/ Same(l)
    BY <1>0, <2>0, <2>1 DEF Locals, PastGate, Same, RunPoints
  <2> QED BY <2>1, <2>2
<1>4. CASE PutBaseline(w)
  <2>0. loc[w].pc \in RunPoints
    BY <1>4 DEF PutBaseline, RunPoints
  <2>1. PICK l : Becomes(w, l) /\ l = [loc[w] EXCEPT
                    !.pc = IF loc[w].pc = "base" THEN PastGate(w) ELSE "reread"]
    BY <1>4 DEF PutBaseline
  <2>2. Same(l)
    BY <1>0, <2>0, <2>1 DEF Locals, PastGate, Same, RunPoints
  <2> QED BY <2>1, <2>2
<1>5. CASE Rebase(w)
  <2>0. loc[w].pc \in RunPoints
    BY <1>5 DEF Rebase, RunPoints
  <2>1. PICK l : Becomes(w, l) /\ \/ l = [loc[w] EXCEPT !.base = row, !.pc = "base2"]
                                  \/ l = [loc[w] EXCEPT !.snap = row, !.pc = "quality"]
    BY <1>5 DEF Rebase
  <2>2. Same(l)
    BY <1>0, <2>0, <2>1 DEF Locals, Same, RunPoints
  <2> QED BY <2>1, <2>2
<1>6. CASE CheckRetries(w) \/ RetryExecute(w) \/ RetryWrite(w)
  <2>1. PICK l : Becomes(w, l) /\ \/ l = [loc[w] EXCEPT !.count = loc[w].count + 1, !.pc = "exec"]
                                  \/ l = [loc[w] EXCEPT !.pc = "rewrite"]
                                  \/ l = [loc[w] EXCEPT !.pc = "rput"]
                                  \/ l = [loc[w] EXCEPT !.status = "resolved", !.pc = "rput"]
                                  \/ l = Idle
    BY <1>6 DEF CheckRetries, RetryExecute, RetryWrite
  <2>2. l = Idle \/ Same(l)
    BY <1>0, <1>6, <2>1, ZenonT(40) DEF Locals, Same, RunPoints, CheckRetries, RetryExecute, RetryWrite
  <2> QED BY <2>1, <2>2
<1> QED BY <1>1, <1>2, <1>3, <1>4, <1>5, <1>6

\* What a request starts with: its own payload, and nothing else in hand.
LEMMA FreshRequest ==
  ASSUME TypeOK, NEW w \in Workers, Request(w)
  PROVE  /\ loc[w].pc = "idle"
         /\ \E l : /\ Becomes(w, l) /\ l.pc \in {"put", "state"}
                   /\ l.base = loc[w].base /\ l.todo = loc[w].todo /\ l.errs = loc[w].errs
                   /\ l.op = "run" => \E b \in Batches : StartRun(w, b) /\ l.batch = b
<1> DEFINE New(l) == /\ l.pc \in {"put", "state"}
                     /\ l.base = loc[w].base /\ l.todo = loc[w].todo /\ l.errs = loc[w].errs
                     /\ l.op = "run" => \E b \in Batches : StartRun(w, b) /\ l.batch = b
<1> SUFFICES loc[w].pc = "idle" /\ \E l : Becomes(w, l) /\ New(l)
  OBVIOUS
<1>0. loc[w] \in Locals
  BY DEF TypeOK
<1>1. ASSUME NEW c \in Configs, Configure(w, c)
      PROVE  loc[w].pc = "idle" /\ \E l : Becomes(w, l) /\ New(l)
  <2>1. PICK l : Becomes(w, l) /\ l = [loc[w] EXCEPT !.pc = "put", !.op = "configure",
                                              !.snap = Configured(c, row)]
    BY <1>1 DEF Configure
  <2>2. New(l)
    BY <1>0, <2>1 DEF Locals
  <2> HIDE DEF New
  <2> QED BY <1>1, <2>1, <2>2 DEF Configure, Start
<1>2. ASSUME NEW b \in Batches, StartRun(w, b)
      PROVE  loc[w].pc = "idle" /\ \E l : Becomes(w, l) /\ New(l)
  <2>1. PICK l : Becomes(w, l) /\ l = [loc[w] EXCEPT !.pc = "state", !.op = "run", !.batch = b]
    BY <1>2 DEF StartRun
  <2>2. /\ l.pc = "state" /\ l.base = loc[w].base /\ l.todo = loc[w].todo /\ l.errs = loc[w].errs
        /\ l.batch = b
    BY <1>0, <2>1 DEF Locals
  <2>3. New(l)
    BY <1>2, <2>2
  <2> HIDE DEF New
  <2> QED BY <1>2, <2>1, <2>3 DEF StartRun, Start
<1>3. ASSUME NEW b \in Batches, NEW op, StartSchema(w, op, b)
      PROVE  loc[w].pc = "idle" /\ \E l : Becomes(w, l) /\ New(l)
  <2>1. PICK l : Becomes(w, l) /\ l = [loc[w] EXCEPT !.pc = "state", !.op = op, !.batch = b]
    BY <1>3 DEF StartSchema
  <2>2. op # "run"
    BY <1>3 DEF StartSchema
  <2>3. New(l)
    BY <1>0, <2>1, <2>2 DEF Locals
  <2> HIDE DEF New
  <2> QED BY <1>3, <2>1, <2>3 DEF StartSchema, Start
<1>4. ASSUME NEW d \in DOMAIN dlq, StartRetry(w, d)
      PROVE  loc[w].pc = "idle" /\ \E l : Becomes(w, l) /\ New(l)
  <2>1. PICK l : Becomes(w, l) /\ l = [loc[w] EXCEPT !.pc = "state", !.op = "retry",
                       !.id = d, !.count = dlq[d].count, !.status = dlq[d].status]
    BY <1>4 DEF StartRetry
  <2>2. New(l)
    BY <1>0, <2>1 DEF Locals
  <2> HIDE DEF New
  <2> QED BY <1>4, <2>1, <2>2 DEF StartRetry, Start
<1> QED BY <1>1, <1>2, <1>3, <1>4 DEF Request

\* Records in hand stay within the payload, a step at a time.
THEOREM WithinPreserved == TypeOK /\ WithinInv /\ [Next]_vars => WithinInv'
<1> SUFFICES ASSUME TypeOK, WithinInv, [Next]_vars PROVE WithinInv'
  OBVIOUS
<1>0. \A w \in Workers : loc[w] \in Locals /\ Within(loc[w])
  BY DEF TypeOK, WithinInv
<1>1. ASSUME NEW w \in Workers, NEW l, Becomes(w, l), Within(l) PROVE WithinInv'
  <2>1. \A v \in Workers : loc'[v] = IF v = w THEN l ELSE loc[v]
    BY <1>1 DEF TypeOK, Becomes
  <2> QED BY <1>0, <1>1, <2>1 DEF WithinInv
<1>2. CASE UNCHANGED loc
  BY <1>0, <1>2 DEF WithinInv, Within
<1>3. Within(Idle)
  BY DEF Within, Idle, RunPoints
<1>5. ASSUME NEW w \in Workers, Quality(w) PROVE WithinInv'
  <2>1. PICK in, bad, l : /\ Becomes(w, l)
                          /\ in = Incoming(loc[w].batch, loc[w].snap) /\ bad \subseteq in
                          /\ l = [loc[w] EXCEPT !.pc = "park", !.todo = bad, !.good = in \ bad]
    BY <1>5, ZenonT(40) DEF Quality
  <2>2. /\ l.batch = loc[w].batch /\ l.snap = loc[w].snap /\ l.errs = loc[w].errs
        /\ l.todo = bad /\ l.good = in \ bad /\ l.op = "run"
    BY <1>0, <1>5, <2>1 DEF Locals, Within, RunPoints, Quality
  <2>3. in \subseteq loc[w].batch
    BY <2>1 DEF Incoming
  <2>4. Within(l)
    BY <1>0, <2>1, <2>2, <2>3 DEF Within
  <2> QED BY <1>1, <2>1, <2>4
<1>6. ASSUME NEW w \in Workers, NEW l, Becomes(w, l),
             l.todo \subseteq loc[w].batch, l.errs \subseteq loc[w].batch,
             loc[w].pc \in {"park", "write", "errs"},
             l.batch = loc[w].batch, l.snap = loc[w].snap, l.good = loc[w].good,
             l.pc \in {"park", "write", "errs"}, l.op = loc[w].op
      PROVE  WithinInv'
  <2>1. Within(l)
    BY <1>0, <1>6 DEF Within, RunPoints
  <2> QED BY <1>1, <1>6, <2>1
<1>7. ASSUME NEW w \in Workers, NEW r \in Records, DeadLetter(w, r) PROVE WithinInv'
  <2>1. PICK l : Becomes(w, l) /\ l = [loc[w] EXCEPT !.todo = loc[w].todo \ {r}]
    BY <1>7 DEF DeadLetter
  <2>2. /\ l.batch = loc[w].batch /\ l.snap = loc[w].snap /\ l.errs = loc[w].errs
        /\ l.todo = loc[w].todo \ {r} /\ l.good = loc[w].good
        /\ l.pc = loc[w].pc /\ l.op = loc[w].op
    BY <1>0, <2>1 DEF Locals
  <2>3. l.todo \subseteq loc[w].batch /\ loc[w].errs \subseteq loc[w].batch
    BY <1>0, <2>2 DEF Within
  <2>4. loc[w].pc \in {"park", "write", "errs"}
    BY <1>7 DEF DeadLetter
  <2> QED BY <1>6, <2>1, <2>2, <2>3, <2>4
<1>8. ASSUME NEW w \in Workers, OpenBinding(w) PROVE WithinInv'
  <2>1. PICK l : /\ Becomes(w, l) \/ Becomes(w, Idle)
                 /\ l = [loc[w] EXCEPT !.pc = "write", !.todo = loc[w].good \cap Mappable,
                                       !.errs = loc[w].good \ Mappable]
    BY <1>8 DEF OpenBinding
  <2>2. /\ l.batch = loc[w].batch /\ l.snap = loc[w].snap /\ l.good = loc[w].good
        /\ l.todo = loc[w].good \cap Mappable /\ l.errs = loc[w].good \ Mappable
        /\ l.pc = "write" /\ l.op = loc[w].op
    BY <1>0, <2>1 DEF Locals
  <2>3. loc[w].good \subseteq loc[w].batch /\ loc[w].pc = "park"
    BY <1>0, <1>8 DEF OpenBinding, Within, Incoming
  <2>4. l.todo \subseteq loc[w].batch /\ l.errs \subseteq loc[w].batch
    BY <2>2, <2>3
  <2>5. CASE Becomes(w, l)
    BY <1>6, <2>2, <2>3, <2>4, <2>5
  <2> QED BY <1>1, <1>3, <2>1, <2>5
<1>9. ASSUME NEW w \in Workers, NEW r \in Records, Write(w, r) PROVE WithinInv'
  <2>1. PICK l : /\ Becomes(w, l)
                 /\ \/ l = [loc[w] EXCEPT !.todo = loc[w].todo \ {r}]
                    \/ l = [loc[w] EXCEPT !.todo = loc[w].todo \ {r},
                                          !.errs = loc[w].errs \cup {r}]
    BY <1>9 DEF Write
  <2>2. /\ l.batch = loc[w].batch /\ l.snap = loc[w].snap /\ l.good = loc[w].good
        /\ l.todo = loc[w].todo \ {r} /\ l.errs \subseteq loc[w].errs \cup {r}
        /\ l.pc = loc[w].pc /\ l.op = loc[w].op
    BY <1>0, <2>1 DEF Locals
  <2>3. r \in loc[w].batch /\ loc[w].pc = "write"
    BY <1>0, <1>9 DEF Write, Within
  <2>4. l.todo \subseteq loc[w].batch /\ l.errs \subseteq loc[w].batch
    BY <1>0, <2>2, <2>3 DEF Within
  <2> QED BY <1>6, <2>1, <2>2, <2>3, <2>4
<1>10. ASSUME NEW w \in Workers, NEW kept \in SUBSET loc[w].errs, Collect(w, kept) PROVE WithinInv'
  <2>1. PICK l : /\ Becomes(w, l)
                 /\ l = [loc[w] EXCEPT !.pc = "errs", !.todo = kept, !.dropped = loc[w].errs \ kept]
    BY <1>10 DEF Collect
  <2>2. /\ l.batch = loc[w].batch /\ l.snap = loc[w].snap /\ l.good = loc[w].good
        /\ l.todo = kept /\ l.errs = loc[w].errs
        /\ l.pc = "errs" /\ l.op = loc[w].op
    BY <1>0, <2>1 DEF Locals
  <2>3. l.todo \subseteq loc[w].batch /\ l.errs \subseteq loc[w].batch
    BY <1>0, <2>2 DEF Within
  <2>4. loc[w].pc = "write"
    BY <1>10 DEF Collect
  <2> QED BY <1>6, <2>1, <2>2, <2>3, <2>4
<1>11. ASSUME NEW w \in Workers,
              PutConfig(w) \/ PutSchema(w) \/ Save(w) \/ PutLetter(w) \/ Crash(w)
       PROVE  WithinInv'
  BY <1>1, <1>3, <1>11 DEF PutConfig, PutSchema, Save, PutLetter, Crash
<1>12. ASSUME NEW w \in Workers, Request(w) PROVE WithinInv'
  <2>1. PICK l : /\ Becomes(w, l) /\ l.pc \in {"put", "state"}
                 /\ l.todo = loc[w].todo /\ l.errs = loc[w].errs
    BY <1>12, FreshRequest
  <2>2. l.todo = {} /\ l.errs = {}
    BY <1>0, <1>12, <2>1, FreshRequest DEF Within
  <2>3. Within(l)
    BY <2>1, <2>2 DEF Within, RunPoints
  <2> QED BY <1>1, <2>1, <2>3
<1>13. ASSUME NEW w \in Workers,
              \/ ReadState(w) \/ Bootstrap(w) \/ Inspect(w) \/ PutBaseline(w)
              \/ Rebase(w) \/ CheckRetries(w) \/ RetryExecute(w) \/ RetryWrite(w)
       PROVE  WithinInv'
  <2>1. PICK l : /\ Becomes(w, l)
                 /\ \/ l = Idle
                    \/ /\ l.pc \notin {"park", "write", "errs"}
                       /\ l.batch = loc[w].batch /\ l.op = loc[w].op
                       /\ l.pc \in RunPoints => l.op = "run" \/ loc[w].pc \in RunPoints
                       /\ l.todo = loc[w].todo /\ l.errs = loc[w].errs
    BY <1>13, OutsideLoops
  <2>2. l = Idle \/ Within(l)
    BY <1>0, <1>13, <2>1, OutsideLoops DEF Within
  <2> QED BY <1>1, <1>3, <2>1, <2>2
<1> QED
  BY <1>2, <1>5, <1>7, <1>8, <1>9, <1>10, <1>11, <1>12, <1>13
     DEF Next, Step, vars, EditBinding, PutRule

\* A step of a request ends it, or keeps it with its payload.
LEMMA StepKeeps ==
  ASSUME TypeOK, NEW w \in Workers, Step(w)
  PROVE  /\ loc[w].pc # "idle"
         /\ \E l : /\ Becomes(w, l)
                   /\ l = Idle \/ (l.pc # "idle" /\ l.op = loc[w].op /\ l.batch = loc[w].batch)
<1> DEFINE Same(l) == l.pc # "idle" /\ l.op = loc[w].op /\ l.batch = loc[w].batch
<1> SUFFICES loc[w].pc # "idle" /\ \E l : Becomes(w, l) /\ (l = Idle \/ Same(l))
  OBVIOUS
<1>0. loc[w] \in Locals
  BY DEF TypeOK
<1>1. CASE \/ ReadState(w) \/ Bootstrap(w) \/ Inspect(w) \/ PutBaseline(w)
           \/ Rebase(w) \/ CheckRetries(w) \/ RetryExecute(w) \/ RetryWrite(w)
  BY <1>1, OutsideLoops
<1>2. CASE PutConfig(w) \/ PutSchema(w) \/ Save(w) \/ PutLetter(w)
  BY <1>2 DEF PutConfig, PutSchema, Save, PutLetter
<1>3. CASE Quality(w)
  <2>1. PICK l, g, t : Becomes(w, l) /\ l = [loc[w] EXCEPT !.pc = "park", !.todo = t, !.good = g]
    BY <1>3 DEF Quality
  <2>2. Same(l)
    BY <1>0, <2>1 DEF Locals
  <2> QED BY <1>3, <2>1, <2>2 DEF Quality
<1>4. ASSUME NEW r \in Records, DeadLetter(w, r) \/ Write(w, r)
      PROVE  loc[w].pc # "idle" /\ \E l : Becomes(w, l) /\ (l = Idle \/ Same(l))
  <2>0. loc[w].pc # "idle"
    BY <1>4 DEF DeadLetter, Write
  <2>1. PICK l : /\ Becomes(w, l)
                 /\ \/ l = [loc[w] EXCEPT !.todo = loc[w].todo \ {r}]
                    \/ l = [loc[w] EXCEPT !.todo = loc[w].todo \ {r}, !.errs = loc[w].errs \cup {r}]
    BY <1>4 DEF DeadLetter, Write
  <2>2. Same(l)
    BY <1>0, <2>0, <2>1 DEF Locals
  <2> QED BY <2>0, <2>1, <2>2
<1>5. CASE OpenBinding(w)
  <2>1. PICK l : /\ Becomes(w, l) \/ Becomes(w, Idle)
                 /\ l = [loc[w] EXCEPT !.pc = "write", !.todo = loc[w].good \cap Mappable,
                                       !.errs = loc[w].good \ Mappable]
    BY <1>5 DEF OpenBinding
  <2>2. Same(l)
    BY <1>0, <2>1 DEF Locals
  <2>3. loc[w].pc # "idle"
    BY <1>5 DEF OpenBinding
  <2> QED BY <2>1, <2>2, <2>3
<1>6. ASSUME NEW kept \in SUBSET loc[w].errs, Collect(w, kept)
      PROVE  loc[w].pc # "idle" /\ \E l : Becomes(w, l) /\ (l = Idle \/ Same(l))
  <2>1. PICK l, t, p : Becomes(w, l) /\ l = [loc[w] EXCEPT !.pc = "errs", !.todo = t, !.dropped = p]
    BY <1>6, ZenonT(40) DEF Collect
  <2>2. Same(l)
    BY <1>0, <2>1 DEF Locals
  <2> QED BY <1>6, <2>1, <2>2 DEF Collect
<1> QED BY <1>1, <1>2, <1>3, <1>4, <1>5, <1>6 DEF Step

\* A worker is in a run because it was, with the same payload, or because it starts one.
LEMMA RunsKeepPayload ==
  ASSUME TypeOK, [Next]_vars, NEW w \in Workers, loc'[w].op = "run"
  PROVE  \/ loc[w].op = "run" /\ loc'[w].batch = loc[w].batch
         \/ \E b \in Batches : StartRun(w, b) /\ loc'[w].batch = b
<1> DEFINE Kept(l, v) == \/ l.op # "run"
                         \/ loc[v].op = "run" /\ l.batch = loc[v].batch
                         \/ \E b \in Batches : StartRun(v, b) /\ l.batch = b
<1> SUFFICES Kept(loc'[w], w)
  OBVIOUS
<1>1. CASE UNCHANGED loc
  BY <1>1
<1>2. ASSUME NEW v \in Workers, NEW l, Becomes(v, l), Kept(l, v) PROVE Kept(loc'[w], w)
  BY <1>2 DEF TypeOK, Becomes
<1>3. Idle.op # "run"
  BY DEF Idle
<1>4. ASSUME NEW v \in Workers, Request(v) PROVE Kept(loc'[w], w)
  <2>1. PICK l : Becomes(v, l) /\ Kept(l, v)
    BY <1>4, FreshRequest
  <2> QED BY <1>2, <2>1
<1>5. ASSUME NEW v \in Workers, Step(v) PROVE Kept(loc'[w], w)
  <2>1. PICK l : Becomes(v, l) /\ (l = Idle \/ (l.op = loc[v].op /\ l.batch = loc[v].batch))
    BY <1>5, StepKeeps
  <2>2. Kept(l, v)
    BY <1>3, <2>1
  <2> QED BY <1>2, <2>1, <2>2
<1>6. ASSUME NEW v \in Workers, Crash(v) PROVE Kept(loc'[w], w)
  BY <1>2, <1>3, <1>6 DEF Crash
<1> QED
  BY <1>1, <1>4, <1>5, <1>6 DEF Next, vars, EditBinding, PutRule

\* The steps that put the row.
LEMMA RowWrites ==
  ASSUME [Next]_vars
  PROVE  \/ UNCHANGED row
         \/ \E w \in Workers :
              PutConfig(w) \/ Bootstrap(w) \/ PutSchema(w) \/ PutBaseline(w) \/ Save(w)
BY ZenonT(40) DEF Next, Request, Step, vars, Reads, Serving, Start, Configure, StartRun, StartSchema,
       StartRetry, ReadState, Inspect, Rebase, Quality, DeadLetter, Write, OpenBinding, Collect,
       CheckRetries, RetryExecute, RetryWrite, PutLetter, Crash, EditBinding, PutRule

\* What a configuration may set: neither the baseline nor, if left alone, the watermark.
LEMMA ConfigurationsKeep ==
  ASSUME NEW c \in Configs, row \in Rows
  PROVE  /\ Configured(c, row).fp = row.fp
         /\ WatermarkLeftAlone => Configured(c, row).wm = row.wm
<1>1. "fp" \notin DOMAIN c
  BY ParametersAssumption
<1> QED BY <1>1 DEF Configured, Rows, WatermarkLeftAlone

\* Only a run that ends moves the watermark, and it moves it forward: to the largest mark
\* of the records it handed to the binding, all of them past the stored one.
LEMMA WatermarkStep ==
  ASSUME TypeOK, OneInv, WithinInv, WatermarkLeftAlone, [Next]_vars
  PROVE  /\ row'.wm >= row.wm
         /\ row'.wm # row.wm =>
              \E w \in Workers : /\ Save(w)
                                 /\ \E r \in loc[w].good : row'.wm = Mark[r]
<1>0. /\ \A w \in Workers : loc[w] \in Locals /\ Current(loc[w]) /\ Within(loc[w])
      /\ row \in Rows /\ row.wm \in Nat
  BY DEF TypeOK, OneInv, WithinInv, Rows
<1>1. CASE row'.wm = row.wm
  BY <1>0, <1>1
<1>2. ASSUME NEW w \in Workers, PutConfig(w) PROVE row'.wm = row.wm
  BY <1>0, <1>2, ConfigurationsKeep DEF PutConfig, Current
<1>3. ASSUME NEW w \in Workers, Bootstrap(w) PROVE row'.wm = row.wm
  BY <1>0, <1>3 DEF Bootstrap, Current
<1>4. ASSUME NEW w \in Workers, PutSchema(w) PROVE row'.wm = row.wm
  <2>1. loc[w].snap \in Rows /\ loc[w].snap.wm = row.wm
    BY <1>0, <1>4 DEF PutSchema, Current, Locals
  <2>2. row' = row \/ row' = [loc[w].snap EXCEPT !.fp = SchemaOf(loc[w].batch)]
    BY <1>4 DEF PutSchema
  <2> QED BY <2>1, <2>2 DEF Rows
<1>5. ASSUME NEW w \in Workers, PutBaseline(w) PROVE row'.wm = row.wm
  <2>1. loc[w].base \in Rows /\ loc[w].base.wm = row.wm
    BY <1>0, <1>5 DEF PutBaseline, Current, Locals
  <2>2. row' = [loc[w].base EXCEPT !.fp = SchemaOf(loc[w].batch)]
    BY <1>5 DEF PutBaseline, Baselined
  <2> QED BY <2>1, <2>2 DEF Rows
<1>6. ASSUME NEW w \in Workers, Save(w), row'.wm # row.wm
      PROVE  row'.wm >= row.wm /\ \E r \in loc[w].good : row'.wm = Mark[r]
  <2> DEFINE marks == {Mark[r] : r \in loc[w].good} \ {0}
  <2>1. /\ loc[w].snap \in Rows /\ loc[w].snap.wm = row.wm /\ loc[w].good \subseteq Records
        /\ loc[w].good \subseteq Incoming(loc[w].batch, loc[w].snap)
    BY <1>0, <1>6 DEF Save, Current, Within, Locals
  <2>2. row'.wm = NewMark(loc[w].good, loc[w].snap)
    <3>1. row' = [loc[w].snap EXCEPT !.wm = NewMark(loc[w].good, loc[w].snap)]
      BY <1>6 DEF Save
    <3> QED BY <2>1, <3>1 DEF Rows
  <2>3. loc[w].snap.wf /\ marks # {} /\ row'.wm = Max(marks)
    BY <1>6, <2>1, <2>2 DEF NewMark
  <2>4. marks \subseteq 0..MaxMark /\ MaxMark \in Nat
    BY <2>1, ParametersAssumption
  <2>5. Max(marks) \in marks
    <3> HIDE DEF marks
    <3> QED BY <2>3, <2>4, MaxOfBounded
  <2>6. PICK r \in loc[w].good : row'.wm = Mark[r]
    BY <2>3, <2>5
  <2>7. Mark[r] \in Nat
    BY <2>1, ParametersAssumption
  <2>8. row.wm = 0 \/ Mark[r] > row.wm
    BY <2>1, <2>3, <2>6 DEF Incoming
  <2> QED BY <1>0, <2>6, <2>7, <2>8
<1> QED BY <1>1, <1>2, <1>3, <1>4, <1>5, <1>6, RowWrites

\* Only a request to accept a schema replaces a baseline.
LEMMA BaselineStep ==
  ASSUME TypeOK, OneInv, [Next]_vars, row.fp # NoSchema, row'.fp # row.fp
  PROVE  \E w \in Workers : loc[w].op = "accept"
<1>0. /\ \A w \in Workers : loc[w] \in Locals /\ Current(loc[w])
      /\ row \in Rows
  BY DEF TypeOK, OneInv
<1>1. ASSUME NEW w \in Workers, PutConfig(w) PROVE FALSE
  BY <1>0, <1>1, ConfigurationsKeep DEF PutConfig, Current
<1>2. ASSUME NEW w \in Workers, Bootstrap(w) PROVE FALSE
  BY <1>0, <1>2 DEF Bootstrap, Current
<1>3. ASSUME NEW w \in Workers, PutSchema(w) PROVE loc[w].op = "accept"
  BY <1>0, <1>3 DEF PutSchema, Current
<1>4. ASSUME NEW w \in Workers, PutBaseline(w) PROVE FALSE
  <2>1. /\ loc[w].base \in Rows /\ loc[w].pc = "base2"
        /\ row.fp = SchemaOf(loc[w].batch)
    BY <1>0, <1>4 DEF PutBaseline, Current, Locals
  <2>2. row' = [loc[w].base EXCEPT !.fp = SchemaOf(loc[w].batch)]
    BY <1>4 DEF PutBaseline, Baselined
  <2> QED BY <2>1, <2>2 DEF Rows
<1>5. ASSUME NEW w \in Workers, Save(w) PROVE FALSE
  <2>1. loc[w].snap \in Rows /\ loc[w].snap.fp = row.fp
    BY <1>0, <1>5 DEF Save, Current, Locals
  <2>2. row' = [loc[w].snap EXCEPT !.wm = NewMark(loc[w].good, loc[w].snap)]
    BY <1>5 DEF Save
  <2> QED BY <2>1, <2>2 DEF Rows
<1> QED BY <1>1, <1>2, <1>3, <1>4, <1>5, RowWrites

\* Before a run began, everything its source had earlier was reported.
EarlierReported(l) ==
  l.op = "run" => \A r \in Records \ l.batch : Before(r, l.batch) => Reported(r)
MarksReported == \A r \in Records : Mark[r] \in 1..row.wm => Reported(r)
CoverInv == MarksReported /\ \A w \in Workers : EarlierReported(loc[w])

\* A run that is about to store its watermark has reported its payload, up to the
\* records without a mark that the stored watermark makes it pass over.
LEMMA PayloadReported ==
  ASSUME TypeOK, AccountInv, OneInv, WithinInv, MarksReported, ErrorsReported,
         NEW w \in Workers, loc[w].pc = "errs", loc[w].todo = {},
         NEW r \in loc[w].batch, Mark[r] # 0
  PROVE  Reported(r)
<1>0. /\ loc[w] \in Locals /\ Current(loc[w]) /\ Within(loc[w]) /\ Accounted(loc[w])
      /\ r \in Records /\ Mark[r] \in Nat /\ row.wm \in Nat
  BY ParametersAssumption DEF TypeOK, OneInv, WithinInv, AccountInv, Locals, Rows
<1>1. CASE r \notin Incoming(loc[w].batch, loc[w].snap)
  <2>1. Mark[r] <= row.wm
    BY <1>0, <1>1 DEF Incoming, Current
  <2> QED BY <1>0, <2>1 DEF MarksReported
<1>2. CASE r \in loc[w].dropped
  <2>1. /\ loc[w].errs \subseteq loc[w].batch
        /\ loc[w].batch \in Batches \cup {{}} /\ loc[w].batch \subseteq Records
    BY <1>0, ParametersAssumption DEF Within, Locals
  <2>2. IsFiniteSet(loc[w].batch) /\ IsFiniteSet(loc[w].errs)
    BY <2>1, ParametersAssumption, FS_Subset
  <2>3. /\ Cardinality(loc[w].errs) <= Cardinality(loc[w].batch)
        /\ Cardinality(loc[w].errs) \in Nat /\ Cardinality(loc[w].batch) \in Nat
    BY <2>1, <2>2, FS_Subset, FS_CardinalityType
  <2>4. Cardinality(loc[w].batch) <= ErrorCap
    BY <2>1, FS_EmptySet, ParametersAssumption DEF ErrorsReported
  <2>5. Cardinality(loc[w].errs) > ErrorCap
    BY <1>0, <1>2 DEF Accounted
  <2> QED BY <2>3, <2>4, <2>5, ParametersAssumption
<1> QED BY <1>0, <1>1, <1>2 DEF Accounted

\* The coverage of the watermark, a step of an orderly client at a time.
THEOREM CoverPreserved ==
  ASSUME TypeOK, AccountInv, OneInv, WithinInv, CoverInv, WatermarkLeftAlone, ErrorsReported,
         [Next]_vars, InOrder
  PROVE  CoverInv'
<1>0. /\ \A w \in Workers : loc[w] \in Locals /\ Within(loc[w]) /\ EarlierReported(loc[w])
      /\ row.wm \in Nat /\ MarksReported
      /\ \A r \in Records : Mark[r] \in Nat
      /\ \A r \in Records : Reported(r) => Reported(r)'
  BY ParametersAssumption, ReportedStable DEF TypeOK, WithinInv, CoverInv, Rows
<1>1. ASSUME NEW w \in Workers PROVE EarlierReported(loc[w])'
  <2>1. SUFFICES ASSUME loc'[w].op = "run",
                        NEW r \in Records \ loc'[w].batch, Before(r, loc'[w].batch)
                 PROVE  Reported(r)'
    BY DEF EarlierReported, Before
  <2>2. CASE loc[w].op = "run" /\ loc'[w].batch = loc[w].batch
    BY <1>0, <2>1, <2>2 DEF EarlierReported
  <2>3. CASE \E b \in Batches : StartRun(w, b) /\ loc'[w].batch = b
    BY <1>0, <2>1, <2>3 DEF InOrder
  <2> QED BY <2>1, <2>2, <2>3, RunsKeepPayload
<1>2. ASSUME NEW r \in Records, Mark[r] \in 1..row'.wm PROVE Reported(r)'
  <2>1. CASE row'.wm = row.wm
    BY <1>0, <1>2, <2>1 DEF MarksReported
  <2>2. ASSUME NEW w \in Workers, Save(w), NEW s \in loc[w].good, row'.wm = Mark[s]
        PROVE  Reported(r)'
    <3>1. /\ loc[w].pc = "errs" /\ loc[w].todo = {} /\ loc[w].op = "run"
          /\ s \in loc[w].batch
      BY <1>0, <2>2 DEF Save, Within, RunPoints, Incoming
    <3>2. Mark[r] # 0 /\ Before(r, loc[w].batch)
      BY <1>0, <1>2, <2>2, <3>1 DEF Before
    <3>3. Reported(r)
      BY <1>0, <3>1, <3>2, PayloadReported DEF EarlierReported
    <3> QED BY <1>0, <3>3
  <2> QED BY <2>1, <2>2, WatermarkStep
<1>3. MarksReported'
  BY <1>2 DEF MarksReported
<1> QED BY <1>1, <1>3 DEF CoverInv

\* Under an orderly client the copies of the row are current.
LEMMA OrderlyCurrent == OrderlySpec => [](TypeOK /\ AccountInv /\ OneInv /\ WithinInv)
<1> DEFINE Inv == TypeOK /\ AccountInv /\ OneInv /\ WithinInv
<1>1. Init => Inv
  <2> SUFFICES ASSUME Init PROVE Inv
    OBVIOUS
  <2>1. TypeOK
    BY RowsTyped, EmptySeq DEF Init, TypeOK
  <2>2. \A w \in Workers : loc[w] = Idle
    BY DEF Init
  <2>3. AccountInv /\ OneInv /\ WithinInv
    BY <2>2 DEF AccountInv, Accounted, OneInv, OneAtATime, Busy, Current, WithinInv, Within,
                RunPoints, Idle, DefaultRow
  <2> QED BY <2>1, <2>3
<1>2. Inv /\ [OrderlyNext]_vars => Inv'
  <2> SUFFICES ASSUME Inv, [OrderlyNext]_vars PROVE Inv'
    OBVIOUS
  <2>1. [Next]_vars
    BY DEF OrderlyNext
  <2>2. OneAtATime'
    BY DEF OrderlyNext, OneInv, OneAtATime, Busy, vars
  <2> QED BY <2>1, <2>2, TypePreserved, AccountPreserved, WithinPreserved, CurrentPreserved
<1> QED BY <1>1, <1>2, PTL DEF OrderlySpec

\* Of the records at or below the stored watermark an orderly client loses only unmappable
\* ones, each of which left an empty letter: for every source, every payload that fits
\* errors[:50], every failure and every crash.
THEOREM WatermarkIsCovered ==
  ASSUME WatermarkLeftAlone, ErrorsReported
  PROVE  OrderlySpec => []WatermarkCovers
<1> DEFINE Inv == TypeOK /\ AccountInv /\ OneInv /\ WithinInv
<1>1. Init => CoverInv /\ EmptyUnmapped
  BY EmptyStarts DEF Init, CoverInv, MarksReported, EarlierReported, DefaultRow, Idle
<1>2. Inv /\ CoverInv /\ EmptyUnmapped /\ [OrderlyNext]_vars => CoverInv' /\ EmptyUnmapped'
  <2> SUFFICES ASSUME Inv, CoverInv, EmptyUnmapped, [OrderlyNext]_vars PROVE CoverInv' /\ EmptyUnmapped'
    OBVIOUS
  <2>1. CASE Next /\ InOrder
    BY <2>1, CoverPreserved, EmptyPreserved
  <2>2. CASE UNCHANGED vars
    BY <2>2, EmptyPreserved DEF vars, CoverInv, MarksReported, EarlierReported, Reported
  <2> QED BY <2>1, <2>2 DEF OrderlyNext
<1>3. Inv /\ CoverInv /\ EmptyUnmapped => WatermarkCovers
  <2> SUFFICES ASSUME Inv, CoverInv, EmptyUnmapped PROVE WatermarkCovers
    OBVIOUS
  <2>1. \A r \in {r \in Records : Mark[r] \in 1..row.wm} : Reported(r)
    BY DEF CoverInv, MarksReported
  <2> QED BY <2>1, ReportedLosses DEF WatermarkCovers
<1> QED BY <1>1, <1>2, <1>3, OrderlyCurrent, PTL DEF OrderlySpec

\* The watermark of an orderly client's source never moves back.
THEOREM WatermarkAdvances ==
  ASSUME WatermarkLeftAlone
  PROVE  OrderlySpec => WatermarkMonotone
<1>1. TypeOK /\ OneInv /\ WithinInv /\ [OrderlyNext]_vars => [row'.wm >= row.wm]_vars
  BY WatermarkStep DEF OrderlyNext
<1> QED BY <1>1, OrderlyCurrent, PTL DEF OrderlySpec, WatermarkMonotone

\* With an orderly client only an accepted schema replaces the baseline.
THEOREM BaselineKept == OrderlySpec => BaselineChangesByAccept
<1>1. TypeOK /\ OneInv /\ [OrderlyNext]_vars =>
        [row.fp # NoSchema /\ row'.fp # row.fp => \E w \in Workers : loc[w].op = "accept"]_vars
  BY BaselineStep DEF OrderlyNext
<1> QED BY <1>1, OrderlyCurrent, PTL DEF OrderlySpec, BaselineChangesByAccept

-----------------------------------------------------------------------------
\* An orderly client's retries are charged.

\* The count a retry holds against that of its letter.
Charged(l) ==
  /\ l.pc \in {"state", "boot", "check"} /\ l.op = "retry" => l.count = dlq[l.id].count
  /\ l.pc \in {"exec", "rewrite", "rput"} => l.count = dlq[l.id].count + 1

\* A letter was tried as often as it was charged, but for the retry in progress and
\* the retries that died.
LetterCharged(d) ==
  \/ dlq[d].tries <= dlq[d].count + crashes
  \/ /\ dlq[d].tries <= dlq[d].count + 1 + crashes
     /\ \E w \in Workers : loc[w].pc \in {"rewrite", "rput"} /\ loc[w].id = d

ChargeInv == (\A w \in Workers : Charged(loc[w])) /\ \A d \in DOMAIN dlq : LetterCharged(d)

\* The charges, a step of one request at a time.
THEOREM ChargePreserved ==
  ASSUME TypeOK, LetterInv, OneInv, WithinInv, ChargeInv, [Next]_vars, OneAtATime'
  PROVE  ChargeInv'
<1>0. /\ \A w \in Workers : loc[w] \in Locals /\ Charged(loc[w]) /\ InHand(loc[w]) /\ Within(loc[w])
      /\ \A d \in DOMAIN dlq : LetterCharged(d)
      /\ dlq \in [DOMAIN dlq -> Letters] /\ DOMAIN dlq = 1..Len(dlq) /\ Len(dlq) \in Nat
      /\ \A d \in DOMAIN dlq : dlq[d] \in Letters /\ dlq[d].count \in Nat /\ dlq[d].tries \in Nat
      /\ crashes \in Nat /\ OneAtATime
  <2>1. dlq \in [DOMAIN dlq -> Letters] /\ DOMAIN dlq = 1..Len(dlq) /\ Len(dlq) \in Nat
    BY LenProperties DEF TypeOK
  <2>2. \A d \in DOMAIN dlq : dlq[d] \in Letters /\ dlq[d].count \in Nat /\ dlq[d].tries \in Nat
    BY <2>1, ParametersAssumption DEF Letters
  <2> QED BY <2>1, <2>2 DEF TypeOK, LetterInv, OneInv, WithinInv, ChargeInv
\* A step that leaves the letters alone.
<1>1. ASSUME NEW w \in Workers, NEW l, Becomes(w, l), loc[w].pc # "idle" \/ l.pc # "idle",
             UNCHANGED <<dlq, crashes>>, Charged(l),
             loc[w].pc \in {"rewrite", "rput"} =>
               l.pc \in {"rewrite", "rput"} /\ l.id = loc[w].id
      PROVE  ChargeInv'
  <2>1. /\ loc'[w] = l
        /\ \A v \in Workers : v # w => loc'[v] = loc[v] /\ loc[v].pc = "idle"
    BY <1>0, <1>1, OthersIdle
  <2>2. \A v \in Workers : Charged(loc[v])'
    BY <1>0, <1>1, <2>1 DEF Charged
  <2>3. \A d \in DOMAIN dlq' : LetterCharged(d)'
    BY <1>0, <1>1, <2>1 DEF LetterCharged
  <2> QED BY <2>2, <2>3 DEF ChargeInv
<1>2. Charged(Idle) /\ Idle.pc = "idle"
  BY DEF Charged, Idle
<1>3. ASSUME NEW w \in Workers, loc[w].pc \notin {"idle", "rewrite", "rput"}, Becomes(w, Idle),
             UNCHANGED <<dlq, crashes>>
      PROVE  ChargeInv'
  BY <1>1, <1>2, <1>3
<1>4. CASE UNCHANGED <<loc, dlq, crashes>>
  BY <1>0, <1>4 DEF ChargeInv, Charged, LetterCharged
\* The points where no letter is in hand.
<1>5. ASSUME NEW w \in Workers, NEW l, Becomes(w, l), loc[w].pc # "idle" \/ l.pc # "idle",
             loc[w].pc \notin {"rewrite", "rput"}, UNCHANGED <<dlq, crashes>>,
             \/ l.pc \in {"put", "accept"} \cup RunPoints
             \/ l.op # "retry" /\ l.pc \notin {"exec", "rewrite", "rput"}
      PROVE  ChargeInv'
  <2>1. Charged(l)
    BY <1>5 DEF Charged, RunPoints
  <2> QED BY <1>1, <1>5, <2>1
<1>6. ASSUME NEW w \in Workers, Request(w) PROVE ChargeInv'
  <2>1. ASSUME NEW c \in Configs, Configure(w, c) PROVE ChargeInv'
    <3>1. PICK l : Becomes(w, l) /\ l = [loc[w] EXCEPT !.pc = "put", !.op = "configure",
                                                !.snap = Configured(c, row)]
      BY <2>1 DEF Configure
    <3>2. l.pc = "put"
      BY <1>0, <3>1 DEF Locals
    <3> QED BY <1>5, <2>1, <3>1, <3>2 DEF Configure, Start, Reads
  <2>2. ASSUME NEW b \in Batches, NEW op \in {"run", "accept", "inspect"},
               (op = "run" /\ StartRun(w, b)) \/ StartSchema(w, op, b)
        PROVE  ChargeInv'
    <3>1. PICK l : Becomes(w, l) /\ l = [loc[w] EXCEPT !.pc = "state", !.op = op, !.batch = b]
      BY <2>2 DEF StartRun, StartSchema
    <3>2. l.pc = "state" /\ l.op # "retry"
      BY <1>0, <3>1 DEF Locals
    <3> QED BY <1>5, <2>2, <3>1, <3>2 DEF StartRun, StartSchema, Start, Reads
  <2>3. ASSUME NEW d \in DOMAIN dlq, StartRetry(w, d) PROVE ChargeInv'
    <3>1. PICK l : Becomes(w, l) /\ l = [loc[w] EXCEPT !.pc = "state", !.op = "retry",
                         !.id = d, !.count = dlq[d].count, !.status = dlq[d].status]
      BY <2>3 DEF StartRetry
    <3>2. l.pc = "state" /\ l.count = dlq[l.id].count
      BY <1>0, <3>1 DEF Locals
    <3>3. Charged(l)
      BY <3>2 DEF Charged
    <3> QED BY <1>1, <2>3, <3>1, <3>2, <3>3 DEF StartRetry, Start, Reads
  <2>4. \A b, op : StartSchema(w, op, b) => op \in {"run", "accept", "inspect"}
    BY DEF StartSchema
  <2> QED BY <1>6, <2>1, <2>2, <2>3, <2>4 DEF Request
\* Reading the state keeps the count of a retry.
<1>7. ASSUME NEW w \in Workers, ReadState(w) \/ Bootstrap(w) PROVE ChargeInv'
  <2>1. ASSUME NEW l, Becomes(w, l), l.op = loc[w].op, l.id = loc[w].id, l.count = loc[w].count,
               l.pc \in {"boot", AfterState(loc[w].op)}
        PROVE  ChargeInv'
    <3>1. Charged(l)
      BY <1>0, <1>7, <2>1 DEF Charged, AfterState, ReadState, Bootstrap
    <3> QED BY <1>1, <1>7, <2>1, <3>1 DEF ReadState, Bootstrap, Reads, Serving
  <2>2. CASE ReadState(w)
    <3>1. PICK l : Becomes(w, l) /\ l = [loc[w] EXCEPT
                      !.snap = [row EXCEPT !.saved = TRUE],
                      !.pc = IF row.saved THEN AfterState(loc[w].op) ELSE "boot"]
      BY <2>2 DEF ReadState
    <3>2. /\ l.op = loc[w].op /\ l.id = loc[w].id /\ l.count = loc[w].count
          /\ l.pc \in {"boot", AfterState(loc[w].op)}
      BY <1>0, <3>1 DEF Locals
    <3> QED BY <2>1, <3>1, <3>2
  <2>3. CASE Bootstrap(w)
    <3>1. PICK l : Becomes(w, l) /\ \/ l = [loc[w] EXCEPT !.snap = loc[w].base, !.base = DefaultRow,
                                                   !.pc = AfterState(loc[w].op)]
                                    \/ l = [loc[w] EXCEPT !.base = [row EXCEPT !.saved = TRUE]]
      BY <2>3 DEF Bootstrap
    <3>2. /\ l.op = loc[w].op /\ l.id = loc[w].id /\ l.count = loc[w].count
          /\ l.pc \in {"boot", AfterState(loc[w].op)}
      BY <1>0, <2>3, <3>1 DEF Locals, Bootstrap
    <3> QED BY <2>1, <3>1, <3>2
  <2> QED BY <1>7, <2>2, <2>3
\* The steps of a run.
<1>8. ASSUME NEW w \in Workers, NEW l, Becomes(w, l), loc[w].pc \in RunPoints,
             l = Idle \/ l.pc \in RunPoints, UNCHANGED <<dlq, crashes>>
      PROVE  ChargeInv'
  BY <1>3, <1>5, <1>8 DEF RunPoints
<1>9. ASSUME NEW w \in Workers,
             PutConfig(w) \/ PutSchema(w) \/ Save(w)
      PROVE  ChargeInv'
  BY <1>3, <1>9 DEF PutConfig, PutSchema, Save, Serving
<1>10. ASSUME NEW w \in Workers,
              \/ Inspect(w) \/ PutBaseline(w) \/ Rebase(w) \/ Quality(w) \/ OpenBinding(w)
              \/ \E r \in Records : Write(w, r)
              \/ \E kept \in SUBSET loc[w].errs : Collect(w, kept)
       PROVE  ChargeInv'
  <2>1. loc[w].pc \in RunPoints /\ UNCHANGED <<dlq, crashes>>
    BY <1>10 DEF Inspect, PutBaseline, Rebase, Quality, OpenBinding, Write, Collect, RunPoints,
                 Reads, Serving
  <2>2. CASE Inspect(w) \/ PutBaseline(w) \/ Rebase(w)
    BY <1>8, <2>1, <2>2, OutsideLoops
  <2>3. CASE Quality(w)
    <3>1. PICK l, g, t : Becomes(w, l) /\ l = [loc[w] EXCEPT !.pc = "park", !.todo = t, !.good = g]
      BY <2>3 DEF Quality
    <3>2. l.pc \in RunPoints
      BY <1>0, <3>1 DEF Locals, RunPoints
    <3> QED BY <1>8, <2>1, <3>1, <3>2
  <2>4. CASE OpenBinding(w)
    <3>1. PICK l : /\ Becomes(w, l) \/ Becomes(w, Idle)
                   /\ l = [loc[w] EXCEPT !.pc = "write", !.todo = loc[w].good \cap Mappable,
                                         !.errs = loc[w].good \ Mappable]
      BY <2>4 DEF OpenBinding
    <3>2. l.pc \in RunPoints
      BY <1>0, <3>1 DEF Locals, RunPoints
    <3> QED BY <1>8, <2>1, <3>1, <3>2
  <2>5. ASSUME NEW r \in Records, Write(w, r) PROVE ChargeInv'
    <3>1. PICK l : /\ Becomes(w, l)
                   /\ \/ l = [loc[w] EXCEPT !.todo = loc[w].todo \ {r}]
                      \/ l = [loc[w] EXCEPT !.todo = loc[w].todo \ {r},
                                            !.errs = loc[w].errs \cup {r}]
      BY <2>5 DEF Write
    <3>2. l.pc \in RunPoints
      BY <1>0, <2>1, <3>1 DEF Locals
    <3> QED BY <1>8, <2>1, <3>1, <3>2
  <2>6. ASSUME NEW kept \in SUBSET loc[w].errs, Collect(w, kept) PROVE ChargeInv'
    <3>1. PICK l, t, p : /\ Becomes(w, l)
                         /\ l = [loc[w] EXCEPT !.pc = "errs", !.todo = t, !.dropped = p]
      BY <2>6, ZenonT(40) DEF Collect
    <3>2. l.pc \in RunPoints
      BY <1>0, <3>1 DEF Locals, RunPoints
    <3> QED BY <1>8, <2>1, <3>1, <3>2
  <2> QED BY <1>10, <2>2, <2>3, <2>4, <2>5, <2>6
\* A new letter is uncharged and untried.
<1>11. ASSUME NEW w \in Workers, NEW r \in Records, DeadLetter(w, r) PROVE ChargeInv'
  <2>1. Letter(w, r) \in Letters /\ Letter(w, r).tries = 0 /\ Letter(w, r).count = 0
    BY ParametersAssumption DEF Letter, Letters, Forms
  <2>2. /\ dlq' \in Seq(Letters) /\ Len(dlq') = Len(dlq) + 1
        /\ dlq'[Len(dlq) + 1] = Letter(w, r)
        /\ \A i \in 1..Len(dlq) : dlq'[i] = dlq[i]
    BY <1>11, <2>1, AppendProperties DEF TypeOK, DeadLetter
  <2>3. DOMAIN dlq' = 1..(Len(dlq) + 1)
    BY <2>2, LenProperties
  <2>4. PICK l : Becomes(w, l) /\ l = [loc[w] EXCEPT !.todo = loc[w].todo \ {r}]
    BY <1>11 DEF DeadLetter
  <2>5. /\ l.pc = loc[w].pc /\ loc[w].pc \in {"park", "errs"}
        /\ UNCHANGED crashes
    BY <1>0, <1>11, <2>4 DEF Locals, DeadLetter, Serving
  <2>6. /\ loc'[w] = l
        /\ \A v \in Workers : v # w => loc'[v] = loc[v] /\ loc[v].pc = "idle"
    BY <1>0, <2>4, <2>5, OthersIdle
  <2>7. \A v \in Workers : Charged(loc[v])'
    BY <2>5, <2>6 DEF Charged
  <2>8. ASSUME NEW d \in DOMAIN dlq PROVE LetterCharged(d)'
    <3>1. dlq'[d] = dlq[d]
      BY <1>0, <2>2
    <3>2. dlq[d].tries <= dlq[d].count + crashes
      BY <1>0, <2>5, <2>6 DEF LetterCharged
    <3> QED BY <2>5, <3>1, <3>2 DEF LetterCharged
  <2>9. ASSUME NEW d, d = Len(dlq) + 1 PROVE LetterCharged(d)'
    BY <1>0, <2>1, <2>2, <2>5, <2>9 DEF LetterCharged
  <2>10. \A d \in DOMAIN dlq' : d \in DOMAIN dlq \/ d = Len(dlq) + 1
    BY <1>0, <2>3
  <2> QED BY <2>7, <2>8, <2>9, <2>10 DEF ChargeInv
\* The retry is charged, then tried, then put back with its charge.
<1>12. ASSUME NEW w \in Workers, CheckRetries(w) PROVE ChargeInv'
  <2>1. CASE Becomes(w, Idle)
    BY <1>3, <1>12, <2>1 DEF CheckRetries, Reads, Serving
  <2>2. CASE Becomes(w, [loc[w] EXCEPT !.count = loc[w].count + 1, !.pc = "exec"])
    <3>1. PICK l : Becomes(w, l) /\ l = [loc[w] EXCEPT !.count = loc[w].count + 1, !.pc = "exec"]
      BY <2>2
    <3>2. loc[w].pc = "check" /\ loc[w].op = "retry" /\ UNCHANGED <<dlq, crashes>>
      BY <1>0, <1>12 DEF CheckRetries, InHand, Reads, Serving
    <3>3. l.pc = "exec" /\ l.count = dlq[l.id].count + 1
      BY <1>0, <3>1, <3>2 DEF Locals, Charged
    <3>4. Charged(l)
      BY <3>3 DEF Charged
    <3> QED BY <1>1, <3>1, <3>2, <3>3, <3>4
  <2> QED BY <1>12, <2>1, <2>2 DEF CheckRetries
<1>13. ASSUME NEW w \in Workers, RetryExecute(w) PROVE ChargeInv'
  <2>0. /\ loc[w].pc = "exec" /\ loc[w].id \in DOMAIN dlq /\ UNCHANGED crashes
        /\ loc[w].count = dlq[loc[w].id].count + 1
    BY <1>0, <1>13 DEF RetryExecute, InHand, Charged, Serving
  <2>1. PICK l : Becomes(w, l) /\ \/ l = [loc[w] EXCEPT !.pc = "rewrite"]
                                  \/ l = [loc[w] EXCEPT !.pc = "rput"]
    BY <1>13 DEF RetryExecute
  <2>2. l.pc \in {"rewrite", "rput"} /\ l.id = loc[w].id /\ l.count = loc[w].count
    BY <1>0, <2>1 DEF Locals
  <2>3. /\ loc'[w] = l
        /\ \A v \in Workers : v # w => loc'[v] = loc[v] /\ loc[v].pc = "idle"
    BY <1>0, <2>0, <2>1, OthersIdle
  <2>4. /\ DOMAIN dlq' = DOMAIN dlq
        /\ \A d \in DOMAIN dlq : d # loc[w].id => dlq'[d] = dlq[d]
        /\ dlq'[loc[w].id] = Tried(dlq[loc[w].id])
    BY <1>0, <1>13, <2>0 DEF RetryExecute
  <2>5. /\ dlq'[loc[w].id].count = dlq[loc[w].id].count
        /\ dlq'[loc[w].id].tries = dlq[loc[w].id].tries + 1
    BY <1>0, <2>0, <2>4 DEF Tried, Letters
  <2>6. \A v \in Workers : Charged(loc[v])'
    BY <2>0, <2>2, <2>3, <2>5 DEF Charged
  <2>7. \A d \in DOMAIN dlq : dlq[d].tries <= dlq[d].count + crashes
    BY <1>0, <2>0, <2>3 DEF LetterCharged
  <2>8. ASSUME NEW d \in DOMAIN dlq, d # loc[w].id PROVE LetterCharged(d)'
    BY <2>0, <2>4, <2>7, <2>8 DEF LetterCharged
  <2>9. ASSUME NEW d, d = loc[w].id PROVE LetterCharged(d)'
    <3>3. dlq'[d].tries = dlq[d].tries + 1 /\ dlq'[d].count = dlq[d].count
      BY <2>5, <2>9
    <3>4. /\ dlq[d].tries <= dlq[d].count + crashes
          /\ dlq[d].tries \in Nat /\ dlq[d].count \in Nat /\ crashes \in Nat
      BY <1>0, <2>0, <2>7, <2>9
    <3>1. dlq'[d].tries <= dlq'[d].count + 1 + crashes
      BY <3>3, <3>4
    <3>2. loc'[w].pc \in {"rewrite", "rput"} /\ loc'[w].id = d
      BY <2>2, <2>3, <2>9
    <3> QED BY <2>0, <3>1, <3>2 DEF LetterCharged
  <2> QED BY <2>4, <2>6, <2>8, <2>9 DEF ChargeInv
<1>14. ASSUME NEW w \in Workers, RetryWrite(w) PROVE ChargeInv'
  <2>0. /\ loc[w].pc = "rewrite" /\ UNCHANGED <<dlq, crashes>>
    BY <1>14 DEF RetryWrite, Serving
  <2>1. PICK l : Becomes(w, l) /\ \/ l = [loc[w] EXCEPT !.status = "resolved", !.pc = "rput"]
                                  \/ l = [loc[w] EXCEPT !.pc = "rput"]
    BY <1>14 DEF RetryWrite
  <2>2. l.pc = "rput" /\ l.id = loc[w].id /\ l.count = loc[w].count
    BY <1>0, <2>1 DEF Locals
  <2>3. Charged(l)
    BY <1>0, <2>0, <2>2 DEF Charged
  <2> QED BY <1>1, <2>0, <2>1, <2>2, <2>3
<1>15. ASSUME NEW w \in Workers, PutLetter(w) PROVE ChargeInv'
  <2>0. /\ loc[w].pc = "rput" /\ loc[w].id \in DOMAIN dlq /\ UNCHANGED crashes
        /\ loc[w].count = dlq[loc[w].id].count + 1 /\ Becomes(w, Idle)
    BY <1>0, <1>15 DEF PutLetter, InHand, Charged, Serving
  <2>1. /\ loc'[w] = Idle
        /\ \A v \in Workers : v # w => loc'[v] = loc[v] /\ loc[v].pc = "idle"
    BY <1>0, <2>0, OthersIdle
  <2>2. /\ DOMAIN dlq' = DOMAIN dlq
        /\ \A d \in DOMAIN dlq : d # loc[w].id => dlq'[d] = dlq[d]
        /\ dlq'[loc[w].id] = [dlq[loc[w].id] EXCEPT !.count = loc[w].count, !.status = loc[w].status]
    BY <1>0, <1>15, <2>0 DEF PutLetter
  <2>3. /\ dlq'[loc[w].id].count = loc[w].count
        /\ dlq'[loc[w].id].tries = dlq[loc[w].id].tries
    BY <1>0, <2>0, <2>2 DEF Letters
  <2>4. \A v \in Workers : Charged(loc[v])'
    BY <2>1, <1>2 DEF Charged
  <2>5. ASSUME NEW d \in DOMAIN dlq, d # loc[w].id PROVE LetterCharged(d)'
    <3>1. dlq[d].tries <= dlq[d].count + crashes
      BY <1>0, <2>0, <2>1, <2>5 DEF LetterCharged
    <3> QED BY <2>0, <2>2, <2>5, <3>1 DEF LetterCharged
  <2>6. ASSUME NEW d, d = loc[w].id PROVE LetterCharged(d)'
    <3>1. dlq[d].tries <= dlq[d].count + 1 + crashes
      BY <1>0, <2>0, <2>6 DEF LetterCharged
    <3> QED BY <1>0, <2>0, <2>3, <2>6, <3>1 DEF LetterCharged
  <2> QED BY <2>2, <2>4, <2>5, <2>6 DEF ChargeInv
\* The retry dies with its charge: one more crash.
<1>16. ASSUME NEW w \in Workers, Crash(w) PROVE ChargeInv'
  <2>0. loc[w].pc # "idle" /\ UNCHANGED dlq /\ crashes' = crashes + 1 /\ Becomes(w, Idle)
    BY <1>16 DEF Crash, Reads
  <2>1. /\ loc'[w] = Idle
        /\ \A v \in Workers : v # w => loc'[v] = loc[v] /\ loc[v].pc = "idle"
    BY <1>0, <2>0, OthersIdle
  <2>2. \A v \in Workers : Charged(loc[v])'
    BY <1>2, <2>1 DEF Charged
  <2>3. \A d \in DOMAIN dlq : LetterCharged(d)'
    BY <1>0, <2>0 DEF LetterCharged
  <2> QED BY <2>0, <2>2, <2>3 DEF ChargeInv
<1>17. CASE UNCHANGED vars \/ EditBinding \/ \E q \in Rules : PutRule(q)
  BY <1>4, <1>17 DEF vars, EditBinding, PutRule, Reads
<1> QED
  BY <1>6, <1>7, <1>9, <1>10, <1>11, <1>12, <1>13, <1>14, <1>15, <1>16, <1>17 DEF Next, Step

\* No letter of an orderly client is retried past max_retries, but for the retries that died.
THEOREM RetriesAreCharged == OrderlySpec => []RetriesCharged
<1> DEFINE Inv == TypeOK /\ AccountInv /\ OneInv /\ WithinInv
<1>1. Init => LetterInv /\ ChargeInv
  BY DEF Init, LetterInv, LettersSound, InHand, ChargeInv, Charged, Idle
<1>2. Inv /\ LetterInv /\ ChargeInv /\ [OrderlyNext]_vars => LetterInv' /\ ChargeInv'
  <2> SUFFICES ASSUME Inv, LetterInv, ChargeInv, [OrderlyNext]_vars PROVE LetterInv' /\ ChargeInv'
    OBVIOUS
  <2>1. [Next]_vars /\ OneAtATime'
    BY DEF OrderlyNext, OneInv, OneAtATime, Busy, vars
  <2> QED BY <2>1, LettersPreserved, ChargePreserved
<1>3. Inv /\ LetterInv /\ ChargeInv => RetriesCharged
  <2> SUFFICES ASSUME Inv, LetterInv, ChargeInv, NEW d \in DOMAIN dlq
               PROVE  dlq[d].tries <= RetryLimit + crashes
    BY DEF RetriesCharged
  <2>1. dlq \in [DOMAIN dlq -> Letters]
    BY LenProperties DEF TypeOK
  <2>2. /\ dlq[d].count \in 0..RetryLimit /\ dlq[d].tries \in Nat /\ crashes \in Nat
        /\ RetryLimit \in Nat
    BY <2>1, ParametersAssumption DEF Letters, TypeOK
  <2>3. CASE dlq[d].tries <= dlq[d].count + crashes
    BY <2>2, <2>3
  <2>4. ASSUME NEW w \in Workers, loc[w].pc \in {"rewrite", "rput"}, loc[w].id = d,
               dlq[d].tries <= dlq[d].count + 1 + crashes
        PROVE  dlq[d].tries <= RetryLimit + crashes
    <3>1. dlq[d].count + 1 \in 0..RetryLimit
      BY <2>4 DEF ChargeInv, Charged, TypeOK, Locals
    <3> QED BY <2>2, <2>4, <3>1
  <2> QED BY <2>3, <2>4 DEF ChargeInv, LetterCharged
<1> QED BY <1>1, <1>2, <1>3, OrderlyCurrent, PTL DEF OrderlySpec

=============================================================================
