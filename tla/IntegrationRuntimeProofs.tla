---------------------- MODULE IntegrationRuntimeProofs ----------------------
(***************************************************************************)
(* Invariants of IntegrationRuntime for every number of workers, every     *)
(* source, every set of payloads and every bound.                          *)
(***************************************************************************)
EXTENDS IntegrationRuntime, TLAPS, FiniteSetTheorems, SequenceTheorems, WellFoundedInduction

\* The watermark max(values) of some records is one of their watermarks.
LEMMA MaxOfBounded ==
  ASSUME NEW n \in Nat, NEW S, S \subseteq 0..n, S # {}
  PROVE  Max(S) \in S /\ \A x \in S : x <= Max(S)
<1> DEFINE T == {n - x : x \in S}
<1>1. \A x \in S : x \in Int /\ 0 <= x /\ x <= n
  OBVIOUS
<1>2. T \subseteq Nat
  BY <1>1
<1>3. T # {}
  OBVIOUS
<1>4. PICK t \in T : \A u \in T : ~ (<<u, t>> \in OpToRel(<, Nat))
  <2> HIDE DEF T
  <2> QED BY <1>2, <1>3, NatLessThanWellFounded, WFMin
<1>5. \A u \in T : t <= u
  <2> HIDE DEF T
  <2>1. \A u \in T : ~ (u < t)
    BY <1>2, <1>4 DEF OpToRel
  <2> QED BY <1>2, <2>1
<1>6. PICK m \in S : t = n - m
  BY <1>4
<1>7. \A x \in S : m >= x
  <2> TAKE x \in S
  <2>1. n - x \in T
    OBVIOUS
  <2>2. t <= n - x
    <3> HIDE DEF T
    <3> QED BY <1>5, <2>1
  <2> HIDE DEF T
  <2> QED BY <1>1, <1>6, <2>2
<1> QED
  BY <1>1, <1>7 DEF Max

-----------------------------------------------------------------------------
\* Types

\* What the code computes and stores (rows, fingerprints, watermarks, locals) is typed.
LEMMA RowsTyped ==
  /\ DefaultRow \in Rows
  /\ \A r \in Rows, c \in Configs : Configured(c, r) \in Rows
  /\ \A b \in Batches \cup {{}} : SchemaOf(b) \in Schemas
  /\ \A g \in SUBSET Records : \A s \in Rows : NewMark(g, s) \in Nat
  /\ Idle \in Locals
<1>1. DefaultRow \in Rows
  BY ParametersAssumption DEF DefaultRow, Rows, Policies
<1>2. ASSUME NEW r \in Rows, NEW c \in Configs PROVE Configured(c, r) \in Rows
  <2>1. \A f \in DOMAIN c :
          \/ f = "wf" /\ c[f] \in BOOLEAN
          \/ f = "wm" /\ c[f] \in Nat
          \/ f = "policy" /\ c[f] \in Policies
          \/ f = "retries" /\ c[f] \in 0..RetryLimit
    BY ParametersAssumption
  <2> QED BY <2>1 DEF Configured, Rows
<1>3. \A b \in Batches \cup {{}} : SchemaOf(b) \in Schemas
  BY DEF Schemas
<1>4. ASSUME NEW g \in SUBSET Records, NEW s \in Rows PROVE NewMark(g, s) \in Nat
  <2> DEFINE marks == {Mark[r] : r \in g} \ {0}
  <2>1. marks \subseteq 0..MaxMark /\ MaxMark \in Nat
    BY ParametersAssumption
  <2>2. marks # {} => Max(marks) \in Nat
    <3> HIDE DEF marks
    <3>1. marks # {} => Max(marks) \in marks
      BY <2>1, MaxOfBounded
    <3>2. \A x \in marks : x \in Nat
      BY <2>1
    <3> QED BY <3>1, <3>2
  <2> QED BY <2>2 DEF NewMark, Rows
<1>5. Idle \in Locals
  BY <1>1, ParametersAssumption DEF Idle, Locals, PCs, Ops
<1> QED BY <1>1, <1>2, <1>3, <1>4, <1>5

\* A step that changes one worker's locals keeps the locals typed.
LEMMA LocTyped ==
  ASSUME TypeOK, NEW w \in Workers, NEW l \in Locals, Becomes(w, l)
  PROVE  loc' \in [Workers -> Locals]
BY DEF TypeOK, Becomes

\* A put of one letter keeps the queue a sequence of letters of the same length.
LEMMA LettersUpdated ==
  ASSUME dlq \in Seq(Letters), dlq' \in [DOMAIN dlq -> Letters]
  PROVE  dlq' \in Seq(Letters) /\ DOMAIN dlq' = DOMAIN dlq
<1>1. PICK n \in Nat : dlq \in [1..n -> Letters]
  BY SeqDef
<1>2. dlq' \in [1..n -> Letters]
  BY <1>1
<1> QED BY <1>1, <1>2, SeqDef

\* The type invariant, a step at a time.
THEOREM TypePreserved == TypeOK /\ [Next]_vars => TypeOK'
<1> SUFFICES ASSUME TypeOK, [Next]_vars PROVE TypeOK'
  OBVIOUS
<1>0. row \in Rows /\ \A w \in Workers : loc[w] \in Locals
  BY DEF TypeOK
<1>0a. /\ "park" \in PCs /\ "write" \in PCs /\ "errs" \in PCs
       /\ "exec" \in PCs /\ "rewrite" \in PCs /\ "rput" \in PCs
  BY DEF PCs
<1>1. ASSUME NEW w \in Workers, NEW c \in Configs, Configure(w, c) PROVE TypeOK'
  <2>1. [loc[w] EXCEPT !.pc = "put", !.op = "configure", !.snap = Configured(c, row)] \in Locals
    <3>1. Configured(c, row) \in Rows /\ "put" \in PCs /\ "configure" \in Ops
      BY <1>0, RowsTyped DEF PCs, Ops
    <3> QED BY <1>0, <3>1 DEF Locals
  <2>2. loc' \in [Workers -> Locals]
    BY <1>1, <2>1, LocTyped DEF Configure
  <2> QED BY <1>1, <2>2 DEF TypeOK, Configure, Start, Reads
<1>2. ASSUME NEW w \in Workers, NEW b \in Batches, NEW op \in {"run", "accept", "inspect"},
             (op = "run" /\ StartRun(w, b)) \/ StartSchema(w, op, b)
      PROVE  TypeOK'
  <2>1. [loc[w] EXCEPT !.pc = "state", !.op = op, !.batch = b] \in Locals
    <3>1. op \in Ops /\ b \in Batches \cup {{}} /\ "state" \in PCs
      BY DEF Ops, PCs
    <3> QED BY <1>0, <3>1 DEF Locals
  <2>2. Becomes(w, [loc[w] EXCEPT !.pc = "state", !.op = op, !.batch = b])
    BY <1>2 DEF StartRun, StartSchema
  <2>3. loc' \in [Workers -> Locals]
    BY <2>1, <2>2, LocTyped
  <2> QED BY <1>2, <2>3 DEF TypeOK, StartRun, StartSchema, Start, Reads
<1>3. ASSUME NEW w \in Workers, NEW d \in DOMAIN dlq, StartRetry(w, d) PROVE TypeOK'
  <2>1. dlq[d] \in Letters /\ d \in Nat
    BY LenProperties DEF TypeOK
  <2>4. dlq[d].count \in 0..RetryLimit /\ dlq[d].status \in {"open", "resolved"}
    BY <2>1 DEF Letters
  <2>2. [loc[w] EXCEPT !.pc = "state", !.op = "retry", !.id = d,
                       !.count = dlq[d].count, !.status = dlq[d].status] \in Locals
    <3>1. \A i \in Nat, n \in 0..RetryLimit, st \in {"open", "resolved"} :
            [loc[w] EXCEPT !.pc = "state", !.op = "retry", !.id = i, !.count = n,
                           !.status = st] \in Locals
      <4>1. "state" \in PCs /\ "retry" \in Ops
        BY DEF PCs, Ops
      <4> QED BY <1>0, <4>1 DEF Locals
    <3> QED BY <2>1, <2>4, <3>1
  <2>3. loc' \in [Workers -> Locals]
    BY <1>3, <2>2, LocTyped DEF StartRetry
  <2> QED BY <1>3, <2>3 DEF TypeOK, StartRetry, Start, Reads
<1>4. ASSUME NEW w \in Workers, PutConfig(w) PROVE TypeOK'
  <2>1. loc' \in [Workers -> Locals]
    BY <1>4, RowsTyped, LocTyped DEF PutConfig
  <2> QED BY <1>0, <1>4, <2>1 DEF TypeOK, PutConfig, Serving, Locals
<1>5. ASSUME NEW w \in Workers, ReadState(w) PROVE TypeOK'
  <2> DEFINE l == [loc[w] EXCEPT !.snap = [row EXCEPT !.saved = TRUE],
                                 !.pc = IF row.saved THEN AfterState(loc[w].op) ELSE "boot"]
  <2>1. [row EXCEPT !.saved = TRUE] \in Rows
    BY DEF TypeOK, Rows
  <2>4. l.pc \in PCs /\ AfterState(loc[w].op) \in PCs
    BY <1>0 DEF AfterState, Locals, PCs, Ops
  <2>2. l \in Locals
    BY <1>0, <2>1, <2>4 DEF Locals
  <2>3. loc' \in [Workers -> Locals]
    BY <1>5, <2>2, LocTyped DEF ReadState
  <2> QED BY <1>5, <2>3 DEF TypeOK, ReadState, Reads, Serving
<1>6. ASSUME NEW w \in Workers, Bootstrap(w) PROVE TypeOK'
  <2> DEFINE l == [loc[w] EXCEPT !.snap = loc[w].base, !.base = DefaultRow,
                                 !.pc = AfterState(loc[w].op)]
             m == [loc[w] EXCEPT !.base = [row EXCEPT !.saved = TRUE]]
  <2>1. [row EXCEPT !.saved = TRUE] \in Rows /\ row' \in Rows
    BY <1>0, <1>6 DEF TypeOK, Rows, Bootstrap, Locals
  <2>2. l \in Locals
    BY <1>0, RowsTyped, ZenonT(40) DEF AfterState, Locals, PCs
  <2>3. m \in Locals
    BY <1>0, <2>1 DEF Locals
  <2>4. Becomes(w, l) \/ Becomes(w, m)
    BY <1>6 DEF Bootstrap
  <2>5. loc' \in [Workers -> Locals]
    BY <2>2, <2>3, <2>4, LocTyped
  <2> QED BY <1>6, <2>1, <2>5 DEF TypeOK, Bootstrap, Serving
<1>7. ASSUME NEW w \in Workers, PutSchema(w) PROVE TypeOK'
  <2>1. SchemaOf(loc[w].batch) \in Schemas
    BY <1>0, RowsTyped DEF Locals
  <2>2. row' \in Rows
    BY <1>0, <1>7, <2>1 DEF TypeOK, PutSchema, Locals, Rows
  <2>3. loc' \in [Workers -> Locals]
    BY <1>7, RowsTyped, LocTyped DEF PutSchema
  <2> QED BY <1>7, <2>2, <2>3 DEF TypeOK, PutSchema, Serving
<1>8. ASSUME NEW w \in Workers, Inspect(w) PROVE TypeOK'
  <2>1. [loc[w] EXCEPT !.base = row, !.pc = "base"] \in Locals
    <3>1. "base" \in PCs
      BY DEF PCs
    <3> QED BY <1>0, <3>1 DEF Locals
  <2>2. [loc[w] EXCEPT !.pc = PastGate(w)] \in Locals
    BY <1>0 DEF PastGate, Locals, PCs
  <2>3. \/ Becomes(w, [loc[w] EXCEPT !.base = row, !.pc = "base"])
        \/ Becomes(w, [loc[w] EXCEPT !.pc = PastGate(w)])
        \/ Becomes(w, Idle)
    BY <1>8 DEF Inspect
  <2>4. loc' \in [Workers -> Locals]
    BY <2>1, <2>2, <2>3, LocTyped, RowsTyped
  <2> QED BY <1>8, <2>4 DEF TypeOK, Inspect, Serving, Reads
<1>9. ASSUME NEW w \in Workers, PutBaseline(w) PROVE TypeOK'
  <2>1. SchemaOf(loc[w].batch) \in Schemas
    BY <1>0, RowsTyped DEF Locals
  <2>2. row' \in Rows
    BY <1>0, <1>9, <2>1 DEF TypeOK, PutBaseline, Baselined, Locals, Rows
  <2>3. [loc[w] EXCEPT !.pc = IF loc[w].pc = "base" THEN PastGate(w) ELSE "reread"] \in Locals
    BY <1>0 DEF PastGate, Locals, PCs
  <2>4. loc' \in [Workers -> Locals]
    BY <1>9, <2>3, LocTyped DEF PutBaseline
  <2> QED BY <1>9, <2>2, <2>4 DEF TypeOK, PutBaseline, Serving
<1>10. ASSUME NEW w \in Workers, Rebase(w) PROVE TypeOK'
  <2>1. [loc[w] EXCEPT !.base = row, !.pc = "base2"] \in Locals
        /\ [loc[w] EXCEPT !.snap = row, !.pc = "quality"] \in Locals
    <3>1. "base2" \in PCs /\ "quality" \in PCs
      BY DEF PCs
    <3> QED BY <1>0, <3>1 DEF Locals
  <2>2. loc' \in [Workers -> Locals]
    BY <1>10, <2>1, LocTyped DEF Rebase
  <2> QED BY <1>10, <2>2 DEF TypeOK, Rebase, Serving, Reads
<1>11. ASSUME NEW w \in Workers, Quality(w) PROVE TypeOK'
  <2> DEFINE in  == Incoming(loc[w].batch, loc[w].snap)
             bad == in \cap UNION {Rejects[q] : q \in rules}
  <2>1. in \subseteq Records
    BY <1>0, ParametersAssumption DEF Incoming, Locals
  <2>2. [loc[w] EXCEPT !.pc = "park", !.todo = bad, !.good = in \ bad] \in Locals
    <3> HIDE DEF in
    <3> QED BY <1>0, <1>0a, <2>1 DEF Locals
  <2>3. loc' \in [Workers -> Locals]
    BY <1>11, <2>2, LocTyped DEF Quality
  <2> QED BY <1>11, <2>3 DEF TypeOK, Quality, Serving, Reads
<1>12. ASSUME NEW w \in Workers, NEW r \in Records, DeadLetter(w, r) PROVE TypeOK'
  <2>1. Letter(w, r) \in Letters
    BY ParametersAssumption DEF Letter, Letters, Forms
  <2>2. dlq' \in Seq(Letters)
    BY <1>12, <2>1, AppendProperties DEF TypeOK, DeadLetter
  <2>3. [loc[w] EXCEPT !.todo = @ \ {r}] \in Locals
    BY <1>0 DEF Locals
  <2>4. loc' \in [Workers -> Locals]
    BY <1>12, <2>3, LocTyped DEF DeadLetter
  <2> QED BY <1>12, <2>2, <2>4 DEF TypeOK, DeadLetter, Serving
<1>13. ASSUME NEW w \in Workers, OpenBinding(w) PROVE TypeOK'
  <2>1. [loc[w] EXCEPT !.pc = "write", !.todo = loc[w].good \cap Mappable,
                       !.errs = loc[w].good \ Mappable] \in Locals
    BY <1>0, <1>0a DEF Locals
  <2>2. loc' \in [Workers -> Locals]
    BY <1>13, <2>1, LocTyped, RowsTyped DEF OpenBinding
  <2> QED BY <1>13, <2>2 DEF TypeOK, OpenBinding, Serving, Reads
<1>14. ASSUME NEW w \in Workers, NEW r \in Records, Write(w, r) PROVE TypeOK'
  <2>1. [loc[w] EXCEPT !.todo = @ \ {r}] \in Locals
        /\ [loc[w] EXCEPT !.todo = @ \ {r}, !.errs = @ \cup {r}] \in Locals
    BY <1>0 DEF Locals
  <2>2. loc' \in [Workers -> Locals]
    BY <1>14, <2>1, LocTyped DEF Write
  <2> QED BY <1>14, <2>2, SMTT(30) DEF TypeOK, Write, Serving
<1>15. ASSUME NEW w \in Workers, NEW kept \in SUBSET loc[w].errs, Collect(w, kept)
       PROVE  TypeOK'
  <2>1. [loc[w] EXCEPT !.pc = "errs", !.todo = kept, !.dropped = loc[w].errs \ kept] \in Locals
    BY <1>0, <1>0a DEF Locals
  <2>2. loc' \in [Workers -> Locals]
    BY <1>15, <2>1, LocTyped DEF Collect
  <2> QED BY <1>15, <2>2 DEF TypeOK, Collect, Serving, Reads
<1>16. ASSUME NEW w \in Workers, Save(w) PROVE TypeOK'
  <2>1. NewMark(loc[w].good, loc[w].snap) \in Nat
    BY <1>0, RowsTyped DEF Locals
  <2>2. row' \in Rows
    BY <1>0, <1>16, <2>1 DEF Save, Locals, Rows
  <2>3. loc' \in [Workers -> Locals]
    BY <1>16, RowsTyped, LocTyped DEF Save
  <2> QED BY <1>16, <2>2, <2>3 DEF TypeOK, Save, Serving
<1>17. ASSUME NEW w \in Workers, CheckRetries(w) PROVE TypeOK'
  <2>1. loc[w].count < loc[w].snap.retries => loc[w].count + 1 \in 0..RetryLimit
    BY <1>0, ParametersAssumption DEF Locals, Rows
  <2>2. loc[w].count < loc[w].snap.retries =>
          [loc[w] EXCEPT !.count = @ + 1, !.pc = "exec"] \in Locals
    BY <1>0, <1>0a, <2>1 DEF Locals
  <2>3. loc' \in [Workers -> Locals]
    BY <1>17, <2>2, LocTyped, RowsTyped DEF CheckRetries
  <2> QED BY <1>17, <2>3 DEF TypeOK, CheckRetries, Serving, Reads
<1>18. ASSUME NEW w \in Workers, RetryExecute(w) PROVE TypeOK'
  <2>7. dlq \in [DOMAIN dlq -> Letters]
    BY LenProperties DEF TypeOK
  <2>1. \A x \in Letters : Tried(x) \in Letters
    BY DEF Letters, Tried
  <2>2. dlq' \in [DOMAIN dlq -> Letters]
    BY <1>18, <2>7, <2>1 DEF RetryExecute
  <2>3. dlq' \in Seq(Letters)
    BY <2>2, LettersUpdated DEF TypeOK
  <2>4. [loc[w] EXCEPT !.pc = "rewrite"] \in Locals /\ [loc[w] EXCEPT !.pc = "rput"] \in Locals
    BY <1>0, <1>0a DEF Locals
  <2>5. Becomes(w, [loc[w] EXCEPT !.pc = "rewrite"]) \/ Becomes(w, [loc[w] EXCEPT !.pc = "rput"])
    BY <1>18 DEF RetryExecute
  <2>6. loc' \in [Workers -> Locals]
    BY <2>4, <2>5, LocTyped
  <2> QED BY <1>18, <2>3, <2>6 DEF TypeOK, RetryExecute, Serving
<1>19. ASSUME NEW w \in Workers, RetryWrite(w) PROVE TypeOK'
  <2>1. [loc[w] EXCEPT !.status = "resolved", !.pc = "rput"] \in Locals
        /\ [loc[w] EXCEPT !.pc = "rput"] \in Locals
    BY <1>0, <1>0a DEF Locals
  <2>2. loc' \in [Workers -> Locals]
    BY <1>19, <2>1, LocTyped DEF RetryWrite
  <2> QED BY <1>19, <2>2 DEF TypeOK, RetryWrite, Serving
<1>20. ASSUME NEW w \in Workers, PutLetter(w) PROVE TypeOK'
  <2>5. dlq \in [DOMAIN dlq -> Letters]
    BY LenProperties DEF TypeOK
  <2>1. \A x \in Letters :
          [x EXCEPT !.count = loc[w].count, !.status = loc[w].status] \in Letters
    BY <1>0 DEF Letters, Locals
  <2>2. dlq' \in [DOMAIN dlq -> Letters]
    BY <1>20, <2>5, <2>1 DEF PutLetter
  <2>3. dlq' \in Seq(Letters)
    BY <2>2, LettersUpdated DEF TypeOK
  <2>4. loc' \in [Workers -> Locals]
    BY <1>20, RowsTyped, LocTyped DEF PutLetter
  <2> QED BY <1>20, <2>3, <2>4 DEF TypeOK, PutLetter, Serving
<1>21. ASSUME NEW w \in Workers, Crash(w) PROVE TypeOK'
  <2>1. loc' \in [Workers -> Locals]
    BY <1>21, RowsTyped, LocTyped DEF Crash
  <2> QED BY <1>21, <2>1 DEF TypeOK, Crash, Reads
<1>22. ASSUME EditBinding \/ \E q \in Rules : PutRule(q) PROVE TypeOK'
  BY <1>22 DEF TypeOK, EditBinding, PutRule, Reads
<1>23. CASE UNCHANGED vars
  BY <1>23 DEF TypeOK, vars
<1> QED
  BY <1>1, <1>2, <1>3, <1>4, <1>5, <1>6, <1>7, <1>8, <1>9, <1>10, <1>11, <1>12, <1>13, <1>14,
     <1>15, <1>16, <1>17, <1>18, <1>19, <1>20, <1>21, <1>22, <1>23 DEF Next, Request, Step

\* Every reachable state of the runtime is well typed, for any number of workers.
THEOREM TypeCorrect == Spec => []TypeOK
<1>1. Init => TypeOK
  BY RowsTyped, EmptySeq DEF Init, TypeOK
<1> QED BY <1>1, TypePreserved, PTL DEF Spec

-----------------------------------------------------------------------------
\* No record of a run vanishes.

\* What the handlers have in hand, by the point they have reached: a record of the
\* payload was passed over, is still to be treated, or is reported.
Accounted(l) ==
  /\ \A r \in l.batch :
       /\ l.pc = "park" =>
            r \notin Incoming(l.batch, l.snap) \/ r \in l.good \cup l.todo \/ Reported(r)
       /\ l.pc = "write" =>
            r \notin Incoming(l.batch, l.snap) \/ r \in l.todo \cup l.errs \/ Reported(r)
       /\ l.pc = "errs" =>
            r \notin Incoming(l.batch, l.snap) \/ r \in l.todo \cup l.dropped \/ Reported(r)
  /\ l.pc = "errs" /\ l.dropped # {} => Cardinality(l.errs) > ErrorCap
AccountInv == \A w \in Workers : Accounted(loc[w])

\* Once reported, a record stays reported: a letter keeps its record and its form.
LEMMA ReportedStable ==
  ASSUME TypeOK, [Next]_vars
  PROVE  /\ \A r \in Records : applied[r] <= applied'[r]
         /\ DOMAIN dlq \subseteq DOMAIN dlq'
         /\ \A d \in DOMAIN dlq : dlq'[d].rec = dlq[d].rec /\ dlq'[d].form = dlq[d].form
         /\ \A r \in Records : Reported(r) => Reported(r)'
<1>1. \A r \in Records : applied[r] <= applied'[r]
  <2>1. CASE UNCHANGED applied
    BY <2>1 DEF TypeOK
  <2>2. ASSUME NEW q \in Records, applied' = [applied EXCEPT ![q] = @ + 1]
        PROVE  \A r \in Records : applied[r] <= applied'[r]
    BY <2>2 DEF TypeOK
  <2>3. ASSUME NEW q, applied' = [applied EXCEPT ![q] = @ + 1]
        PROVE  \A r \in Records : applied[r] <= applied'[r]
    BY <2>3 DEF TypeOK
  <2>4. \/ UNCHANGED applied
        \/ \E q : applied' = [applied EXCEPT ![q] = @ + 1]
    BY ZenonT(40) DEF Next, Request, Step, vars, Reads, Serving, Start, Configure, StartRun, StartSchema,
           StartRetry, PutConfig, ReadState, Bootstrap, PutSchema, Inspect, PutBaseline, Rebase,
           Quality, DeadLetter, Write, OpenBinding, Collect, Save, CheckRetries, RetryExecute,
           RetryWrite, PutLetter, Crash, EditBinding, PutRule
  <2> QED BY <2>1, <2>3, <2>4
<1>2. /\ DOMAIN dlq \subseteq DOMAIN dlq'
      /\ \A d \in DOMAIN dlq : dlq'[d].rec = dlq[d].rec /\ dlq'[d].form = dlq[d].form
  <2>0. dlq \in [DOMAIN dlq -> Letters] /\ DOMAIN dlq = 1..Len(dlq) /\ Len(dlq) \in Nat
    BY LenProperties DEF TypeOK
  <2>1. CASE UNCHANGED dlq
    BY <2>1
  <2>2. ASSUME NEW w \in Workers, NEW r \in Records, DeadLetter(w, r)
        PROVE  /\ DOMAIN dlq \subseteq DOMAIN dlq'
               /\ \A d \in DOMAIN dlq : dlq'[d].rec = dlq[d].rec /\ dlq'[d].form = dlq[d].form
    <3>1. Letter(w, r) \in Letters
      BY ParametersAssumption DEF Letter, Letters, Forms
    <3>2. /\ dlq' \in Seq(Letters) /\ Len(dlq') = Len(dlq) + 1
          /\ \A i \in 1..Len(dlq) : dlq'[i] = dlq[i]
      BY <2>2, <3>1, AppendProperties DEF TypeOK, DeadLetter
    <3>3. DOMAIN dlq' = 1..Len(dlq')
      BY <3>2, LenProperties
    <3> QED BY <2>0, <3>2, <3>3
  <2>3. ASSUME NEW w \in Workers, RetryExecute(w) \/ PutLetter(w)
        PROVE  /\ DOMAIN dlq \subseteq DOMAIN dlq'
               /\ \A d \in DOMAIN dlq : dlq'[d].rec = dlq[d].rec /\ dlq'[d].form = dlq[d].form
    <3>1. \A x \in Letters : Tried(x).rec = x.rec /\ Tried(x).form = x.form
      BY DEF Tried, Letters
    <3>3. DOMAIN dlq' = DOMAIN dlq
      BY <2>0, <2>3 DEF RetryExecute, PutLetter
    <3>4. ASSUME NEW d \in DOMAIN dlq, d # loc[w].id PROVE dlq'[d] = dlq[d]
      BY <2>0, <2>3, <3>4 DEF RetryExecute, PutLetter
    <3>5. ASSUME NEW d \in DOMAIN dlq, d = loc[w].id
          PROVE  dlq'[d].rec = dlq[d].rec /\ dlq'[d].form = dlq[d].form
      <4>1. dlq[d] \in Letters
        BY <2>0
      <4>2. \/ dlq'[d] = Tried(dlq[d])
            \/ dlq'[d] = [dlq[d] EXCEPT !.count = loc[w].count, !.status = loc[w].status]
        BY <2>0, <2>3, <3>5 DEF RetryExecute, PutLetter
      <4>3. CASE dlq'[d] = Tried(dlq[d])
        BY <4>1, <4>3, <3>1
      <4>4. CASE dlq'[d] = [dlq[d] EXCEPT !.count = loc[w].count, !.status = loc[w].status]
        BY <4>1, <4>4 DEF Letters
      <4> QED BY <4>2, <4>3, <4>4
    <3> QED BY <3>3, <3>4, <3>5
  <2>4. \/ UNCHANGED dlq
        \/ \E w \in Workers : RetryExecute(w) \/ PutLetter(w) \/ \E r \in Records : DeadLetter(w, r)
    BY ZenonT(40) DEF Next, Request, Step, vars, Reads, Serving, Start, Configure, StartRun, StartSchema,
           StartRetry, PutConfig, ReadState, Bootstrap, PutSchema, Inspect, PutBaseline, Rebase,
           Quality, Write, OpenBinding, Collect, Save, CheckRetries, RetryWrite, Crash,
           EditBinding, PutRule
  <2> QED BY <2>1, <2>2, <2>3, <2>4
<1>3. \A r \in Records : Reported(r) => Reported(r)'
  <2>1. \A r \in Records : applied[r] \in Nat
    BY DEF TypeOK
  <2>2. \A r \in Records : applied'[r] \in Nat
    BY TypePreserved DEF TypeOK
  <2> QED BY <1>1, <1>2, <2>1, <2>2 DEF Reported
<1> QED BY <1>1, <1>2, <1>3

\* The accounting of every run in progress, a step at a time: what the payload holds is
\* still to be written, parked, reported or beyond errors[:50].
THEOREM AccountPreserved == TypeOK /\ AccountInv /\ [Next]_vars => AccountInv'
<1> SUFFICES ASSUME TypeOK, AccountInv, [Next]_vars PROVE AccountInv'
  OBVIOUS
<1>0. \A w \in Workers : loc[w] \in Locals /\ loc[w].batch \subseteq Records
  BY ParametersAssumption DEF TypeOK, Locals
<1>1. \A r \in Records : Reported(r) => Reported(r)'
  BY ReportedStable
\* The locals of the workers that take no step stay accounted for.
<1>2. ASSUME NEW w \in Workers PROVE Accounted(loc[w]) => \A l : l = loc[w] => Accounted(l)'
  BY <1>0, <1>1 DEF Accounted, Incoming
<1>3. ASSUME NEW w \in Workers, NEW l, Becomes(w, l), Accounted(l)' PROVE AccountInv'
  <2>1. \A v \in Workers : loc'[v] = IF v = w THEN l ELSE loc[v]
    BY <1>3 DEF TypeOK, Becomes
  <2> QED BY <1>2, <1>3, <2>1 DEF AccountInv, Accounted
<1>4. ASSUME NEW w \in Workers, NEW l, Becomes(w, l), l.pc \notin {"park", "write", "errs"}
      PROVE  AccountInv'
  BY <1>3, <1>4 DEF Accounted
<1>5. CASE UNCHANGED loc
  BY <1>0, <1>1, <1>5 DEF AccountInv, Accounted, Incoming
<1>6. Idle.pc = "idle"
  BY DEF Idle
<1>7. ASSUME NEW w \in Workers, Quality(w) PROVE AccountInv'
  <2>1. PICK in, bad, l :
          /\ in = Incoming(loc[w].batch, loc[w].snap)
          /\ l = [loc[w] EXCEPT !.pc = "park", !.todo = bad, !.good = in \ bad]
          /\ Becomes(w, l)
    BY <1>7 DEF Quality
  <2>2. /\ l.pc = "park" /\ l.batch = loc[w].batch /\ l.snap = loc[w].snap
        /\ l.todo = bad /\ l.good = in \ bad
    BY <1>0, <2>1 DEF Locals
  <2>3. Accounted(l)'
    BY <2>1, <2>2 DEF Accounted
  <2> QED BY <1>3, <2>1, <2>3
<1>8. ASSUME NEW w \in Workers, NEW r \in Records, DeadLetter(w, r) PROVE AccountInv'
  <2>1. PICK l : l = [loc[w] EXCEPT !.todo = loc[w].todo \ {r}] /\ Becomes(w, l)
    BY <1>8 DEF DeadLetter
  <2>2. /\ l.pc = loc[w].pc /\ l.batch = loc[w].batch /\ l.snap = loc[w].snap
        /\ l.todo = loc[w].todo \ {r} /\ l.good = loc[w].good
        /\ l.errs = loc[w].errs /\ l.dropped = loc[w].dropped
    BY <1>0, <2>1 DEF Locals
  <2>3. Reported(r)'
    <3>1. Letter(w, r) \in Letters /\ Letter(w, r).rec = r
      BY ParametersAssumption DEF Letter, Letters, Forms
    <3>2. dlq' \in Seq(Letters) /\ Len(dlq') = Len(dlq) + 1 /\ dlq'[Len(dlq')] = Letter(w, r)
      BY <1>8, <3>1, AppendProperties DEF TypeOK, DeadLetter
    <3>3. Len(dlq) \in Nat /\ DOMAIN dlq' = 1..Len(dlq')
      BY <3>2, LenProperties DEF TypeOK
    <3>4. Len(dlq') \in DOMAIN dlq' /\ dlq'[Len(dlq')].rec = r
      BY <3>1, <3>2, <3>3
    <3> QED BY <3>4 DEF Reported
  <2>4. Accounted(loc[w]) /\ loc[w].pc \in {"park", "errs"}
    BY <1>8 DEF AccountInv, DeadLetter
  <2>5. Accounted(l)'
    BY <1>0, <1>1, <2>2, <2>3, <2>4 DEF Accounted
  <2> QED BY <1>3, <2>1, <2>5
<1>9. ASSUME NEW w \in Workers, OpenBinding(w) PROVE AccountInv'
  <2>1. PICK l : /\ l = [loc[w] EXCEPT !.pc = "write", !.todo = loc[w].good \cap Mappable,
                                       !.errs = loc[w].good \ Mappable]
                 /\ Becomes(w, l) \/ Becomes(w, Idle)
    BY <1>9 DEF OpenBinding
  <2>2. /\ l.pc = "write" /\ l.batch = loc[w].batch /\ l.snap = loc[w].snap
        /\ l.todo = loc[w].good \cap Mappable /\ l.errs = loc[w].good \ Mappable
    BY <1>0, <2>1 DEF Locals
  <2>3. Accounted(loc[w]) /\ loc[w].pc = "park" /\ loc[w].todo = {}
    BY <1>9 DEF AccountInv, OpenBinding
  <2>4. Accounted(l)'
    BY <1>0, <1>1, <2>2, <2>3 DEF Accounted
  <2> QED BY <1>3, <1>4, <1>6, <2>1, <2>4
<1>10. ASSUME NEW w \in Workers, NEW r \in Records, Write(w, r) PROVE AccountInv'
  <2>1. Accounted(loc[w]) /\ loc[w].pc = "write"
    BY <1>10 DEF AccountInv, Write
  <2>2. ASSUME NEW l, l = [loc[w] EXCEPT !.todo = loc[w].todo \ {r}], Reported(r)'
        PROVE  Accounted(l)'
    <3>1. /\ l.pc = "write" /\ l.batch = loc[w].batch /\ l.snap = loc[w].snap
          /\ l.todo = loc[w].todo \ {r} /\ l.errs = loc[w].errs
      BY <1>0, <2>1, <2>2 DEF Locals
    <3> QED BY <1>0, <1>1, <2>1, <2>2, <3>1 DEF Accounted
  <2>3. ASSUME NEW l, l = [loc[w] EXCEPT !.todo = loc[w].todo \ {r}, !.errs = loc[w].errs \cup {r}]
        PROVE  Accounted(l)'
    <3>1. /\ l.pc = "write" /\ l.batch = loc[w].batch /\ l.snap = loc[w].snap
          /\ l.todo = loc[w].todo \ {r} /\ l.errs = loc[w].errs \cup {r}
      BY <1>0, <2>1, <2>3 DEF Locals
    <3> QED BY <1>0, <1>1, <2>1, <2>3, <3>1 DEF Accounted
  <2>4. applied' = [applied EXCEPT ![r] = @ + 1] => Reported(r)'
    BY DEF Reported, TypeOK
  <2>5. PICK l : /\ Becomes(w, l)
                 /\ \/ /\ applied' = [applied EXCEPT ![r] = @ + 1]
                       /\ l = [loc[w] EXCEPT !.todo = loc[w].todo \ {r}]
                    \/ l = [loc[w] EXCEPT !.todo = loc[w].todo \ {r},
                                          !.errs = loc[w].errs \cup {r}]
    BY <1>10 DEF Write
  <2> QED BY <1>3, <2>2, <2>3, <2>4, <2>5
<1>11. ASSUME NEW w \in Workers, NEW kept \in SUBSET loc[w].errs, Collect(w, kept)
       PROVE  AccountInv'
  <2>1. PICK l : /\ l = [loc[w] EXCEPT !.pc = "errs", !.todo = kept,
                                       !.dropped = loc[w].errs \ kept]
                 /\ Becomes(w, l)
    BY <1>11 DEF Collect
  <2>2. /\ l.pc = "errs" /\ l.batch = loc[w].batch /\ l.snap = loc[w].snap /\ l.errs = loc[w].errs
        /\ l.todo = kept /\ l.dropped = loc[w].errs \ kept
    BY <1>0, <2>1 DEF Locals
  <2>3. Accounted(loc[w]) /\ loc[w].pc = "write" /\ loc[w].todo = {}
    BY <1>11 DEF AccountInv, Collect
  <2>4. Cardinality(loc[w].errs) > ErrorCap \/ kept = loc[w].errs
    <3>1. loc[w].errs \subseteq Records
      BY <1>0 DEF Locals
    <3>2. Cardinality(loc[w].errs) \in Nat
      BY <3>1, ParametersAssumption, FS_Subset, FS_CardinalityType
    <3> QED BY <1>11, <3>2, ParametersAssumption DEF Collect
  <2>5. Accounted(l)'
    BY <1>0, <1>1, <2>2, <2>3, <2>4 DEF Accounted
  <2> QED BY <1>3, <2>1, <2>5
\* No other step leads into the points Accounted speaks of.
<1>12. ASSUME NEW w \in Workers, PutConfig(w) \/ PutSchema(w) \/ Save(w) \/ PutLetter(w) \/ Crash(w)
       PROVE  AccountInv'
  <2>1. Becomes(w, Idle)
    BY <1>12 DEF PutConfig, PutSchema, Save, PutLetter, Crash
  <2> QED BY <1>4, <1>6, <2>1
<1>13. ASSUME NEW w \in Workers, Request(w) PROVE AccountInv'
  <2>1. ASSUME NEW c \in Configs, Configure(w, c) PROVE AccountInv'
    <3>1. PICK l : Becomes(w, l) /\ l = [loc[w] EXCEPT !.pc = "put", !.op = "configure",
                                                !.snap = Configured(c, row)]
      BY <2>1 DEF Configure
    <3>2. l.pc \notin {"park", "write", "errs"}
      BY <1>0, <3>1 DEF Locals
    <3> QED BY <1>4, <3>1, <3>2
  <2>2. ASSUME NEW b \in Batches, StartRun(w, b) PROVE AccountInv'
    <3>1. PICK l : Becomes(w, l) /\ l = [loc[w] EXCEPT !.pc = "state", !.op = "run", !.batch = b]
      BY <2>2 DEF StartRun
    <3>2. l.pc \notin {"park", "write", "errs"}
      BY <1>0, <3>1 DEF Locals
    <3> QED BY <1>4, <3>1, <3>2
  <2>3. ASSUME NEW b \in Batches, NEW op, StartSchema(w, op, b) PROVE AccountInv'
    <3>1. PICK l : Becomes(w, l) /\ l = [loc[w] EXCEPT !.pc = "state", !.op = op, !.batch = b]
      BY <2>3 DEF StartSchema
    <3>2. l.pc \notin {"park", "write", "errs"}
      BY <1>0, <3>1 DEF Locals
    <3> QED BY <1>4, <3>1, <3>2
  <2>4. ASSUME NEW d \in DOMAIN dlq, StartRetry(w, d) PROVE AccountInv'
    <3>1. PICK l : Becomes(w, l) /\ l = [loc[w] EXCEPT !.pc = "state", !.op = "retry",
                         !.id = d, !.count = dlq[d].count, !.status = dlq[d].status]
      BY <2>4 DEF StartRetry
    <3>2. l.pc \notin {"park", "write", "errs"}
      BY <1>0, <3>1 DEF Locals
    <3> QED BY <1>4, <3>1, <3>2
  <2> QED BY <1>13, <2>1, <2>2, <2>3, <2>4 DEF Request
<1>14. ASSUME NEW w \in Workers,
              \/ ReadState(w) \/ Bootstrap(w) \/ Inspect(w) \/ PutBaseline(w)
              \/ Rebase(w) \/ CheckRetries(w) \/ RetryExecute(w) \/ RetryWrite(w)
       PROVE  AccountInv'
  <2>1. ASSUME ReadState(w) PROVE AccountInv'
    <3>1. PICK l : Becomes(w, l) /\ l = [loc[w] EXCEPT
                      !.snap = [row EXCEPT !.saved = TRUE],
                      !.pc = IF row.saved THEN AfterState(loc[w].op) ELSE "boot"]
      BY <2>1 DEF ReadState
    <3>2. l.pc \notin {"park", "write", "errs"}
      BY <1>0, <3>1 DEF Locals, AfterState
    <3> QED BY <1>4, <3>1, <3>2
  <2>2. ASSUME Bootstrap(w) PROVE AccountInv'
    <3>1. PICK l : Becomes(w, l) /\ \/ l = [loc[w] EXCEPT !.snap = loc[w].base, !.base = DefaultRow,
                                                   !.pc = AfterState(loc[w].op)]
                                    \/ /\ loc[w].pc = "boot"
                                       /\ l = [loc[w] EXCEPT !.base = [row EXCEPT !.saved = TRUE]]
      BY <2>2 DEF Bootstrap
    <3>2. l.pc \notin {"park", "write", "errs"}
      BY <1>0, <3>1 DEF Locals, AfterState
    <3> QED BY <1>4, <3>1, <3>2
  <2>3. ASSUME Inspect(w) PROVE AccountInv'
    <3>1. PICK l : Becomes(w, l) /\ \/ l = [loc[w] EXCEPT !.base = row, !.pc = "base"]
                                    \/ l = [loc[w] EXCEPT !.pc = PastGate(w)]
                                    \/ l = Idle
      BY <2>3 DEF Inspect
    <3>2. l.pc \notin {"park", "write", "errs"}
      BY <1>0, <1>6, <3>1 DEF Locals, PastGate
    <3> QED BY <1>4, <3>1, <3>2
  <2>4. ASSUME PutBaseline(w) PROVE AccountInv'
    <3>1. PICK l : Becomes(w, l) /\ l = [loc[w] EXCEPT
                      !.pc = IF loc[w].pc = "base" THEN PastGate(w) ELSE "reread"]
      BY <2>4 DEF PutBaseline
    <3>2. l.pc \notin {"park", "write", "errs"}
      BY <1>0, <3>1 DEF Locals, PastGate
    <3> QED BY <1>4, <3>1, <3>2
  <2>5. ASSUME Rebase(w) PROVE AccountInv'
    <3>1. PICK l : Becomes(w, l) /\ \/ l = [loc[w] EXCEPT !.base = row, !.pc = "base2"]
                                    \/ l = [loc[w] EXCEPT !.snap = row, !.pc = "quality"]
      BY <2>5 DEF Rebase
    <3>2. l.pc \notin {"park", "write", "errs"}
      BY <1>0, <3>1 DEF Locals
    <3> QED BY <1>4, <3>1, <3>2
  <2>6. ASSUME CheckRetries(w) PROVE AccountInv'
    <3>1. PICK l : Becomes(w, l) /\ \/ l = [loc[w] EXCEPT !.count = loc[w].count + 1, !.pc = "exec"]
                                    \/ l = Idle
      BY <2>6 DEF CheckRetries
    <3>2. l.pc \notin {"park", "write", "errs"}
      BY <1>0, <1>6, <3>1 DEF Locals
    <3> QED BY <1>4, <3>1, <3>2
  <2>7. ASSUME RetryExecute(w) PROVE AccountInv'
    <3>1. PICK l : Becomes(w, l) /\ \/ l = [loc[w] EXCEPT !.pc = "rewrite"]
                                    \/ l = [loc[w] EXCEPT !.pc = "rput"]
      BY <2>7 DEF RetryExecute
    <3>2. l.pc \notin {"park", "write", "errs"}
      BY <1>0, <3>1 DEF Locals
    <3> QED BY <1>4, <3>1, <3>2
  <2>8. ASSUME RetryWrite(w) PROVE AccountInv'
    <3>1. PICK l : Becomes(w, l) /\ \/ l = [loc[w] EXCEPT !.status = "resolved", !.pc = "rput"]
                                    \/ l = [loc[w] EXCEPT !.pc = "rput"]
      BY <2>8 DEF RetryWrite
    <3>2. l.pc \notin {"park", "write", "errs"}
      BY <1>0, <3>1 DEF Locals
    <3> QED BY <1>4, <3>1, <3>2
  <2> QED BY <1>14, <2>1, <2>2, <2>3, <2>4, <2>5, <2>6, <2>7, <2>8
<1> QED
  BY <1>5, <1>7, <1>8, <1>9, <1>10, <1>11, <1>12, <1>13, <1>14
     DEF Next, Step, vars, EditBinding, PutRule

\* Only an error of the mapping makes an empty letter.
EmptyUnmapped == \A d \in EmptyLetters : dlq[d].rec \notin Mappable

THEOREM EmptyPreserved == TypeOK /\ EmptyUnmapped /\ [Next]_vars => EmptyUnmapped'
<1> SUFFICES ASSUME TypeOK, EmptyUnmapped, [Next]_vars,
                    NEW d \in DOMAIN dlq', dlq'[d].form = "empty"
             PROVE  dlq'[d].rec \notin Mappable
  BY DEF EmptyUnmapped, EmptyLetters
<1>1. CASE d \in DOMAIN dlq
  BY <1>1, ReportedStable DEF EmptyUnmapped, EmptyLetters
<1>2. ASSUME NEW w \in Workers, NEW r \in Records, DeadLetter(w, r), d \notin DOMAIN dlq
      PROVE  dlq'[d].rec \notin Mappable
  <2>1. Letter(w, r) \in Letters
    BY ParametersAssumption DEF Letter, Letters, Forms
  <2>2. /\ dlq' \in Seq(Letters) /\ Len(dlq') = Len(dlq) + 1 /\ dlq'[Len(dlq) + 1] = Letter(w, r)
        /\ DOMAIN dlq = 1..Len(dlq) /\ DOMAIN dlq' = 1..Len(dlq') /\ Len(dlq) \in Nat
    BY <1>2, <2>1, AppendProperties, LenProperties DEF TypeOK, DeadLetter
  <2>3. dlq'[d] = Letter(w, r)
    BY <1>2, <2>2
  <2> QED BY <2>3 DEF Letter
<1>3. ASSUME NEW w \in Workers, RetryExecute(w) \/ PutLetter(w) PROVE DOMAIN dlq' = DOMAIN dlq
  BY <1>3 DEF RetryExecute, PutLetter
<1>4. \/ UNCHANGED dlq
      \/ \E w \in Workers : RetryExecute(w) \/ PutLetter(w) \/ \E r \in Records : DeadLetter(w, r)
  BY ZenonT(40) DEF Next, Request, Step, vars, Reads, Serving, Start, Configure, StartRun, StartSchema,
         StartRetry, PutConfig, ReadState, Bootstrap, PutSchema, Inspect, PutBaseline, Rebase,
         Quality, Write, OpenBinding, Collect, Save, CheckRetries, RetryWrite, Crash,
         EditBinding, PutRule
<1> QED BY <1>1, <1>2, <1>3, <1>4

LEMMA EmptyStarts == Init => EmptyUnmapped
BY EmptySeq DEF Init, EmptyUnmapped, EmptyLetters

\* Of records that were all reported, only unmappable ones are lost, and no more of them
\* than there are empty letters.
LEMMA ReportedLosses ==
  ASSUME TypeOK, EmptyUnmapped, NEW S, S \subseteq Records, \A r \in S : Reported(r)
  PROVE  OnlyUnmappableLost(S)
<1>1. \A r \in Lost(S) : \E d \in EmptyLetters : dlq[d].rec = r
  BY DEF Lost, Settled, Reported, EmptyLetters
<1>2. Lost(S) \cap Mappable = {}
  BY <1>1 DEF EmptyUnmapped
<1>3. IsFiniteSet(EmptyLetters)
  <2>1. DOMAIN dlq = 1..Len(dlq) /\ Len(dlq) \in Nat
    BY LenProperties DEF TypeOK
  <2>2. IsFiniteSet(DOMAIN dlq)
    BY <2>1, FS_Interval
  <2> QED BY <2>2, FS_Subset DEF EmptyLetters
<1> DEFINE image == {dlq[d].rec : d \in EmptyLetters}
<1>4. IsFiniteSet(image) /\ Cardinality(image) <= Cardinality(EmptyLetters)
  <2>1. PICK f : f = [d \in EmptyLetters |-> dlq[d].rec]
    OBVIOUS
  <2>2. image = {f[d] : d \in EmptyLetters} /\ f \in [EmptyLetters -> image]
    BY <2>1
  <2>3. f \in Surjection(EmptyLetters, image)
    BY <2>1, <2>2 DEF Surjection
  <2> QED BY <1>3, <2>3, FS_Surjection
<1>5. Lost(S) \subseteq image
  BY <1>1
<1> HIDE DEF image
<1>6. /\ Cardinality(Lost(S)) <= Cardinality(image)
      /\ Cardinality(Lost(S)) \in Nat /\ Cardinality(image) \in Nat /\ Cardinality(EmptyLetters) \in Nat
  BY <1>3, <1>4, <1>5, FS_Subset, FS_CardinalityType
<1> QED BY <1>2, <1>4, <1>6 DEF OnlyUnmappableLost

\* When a run is about to store its watermark, the domain or the queue holds its records
\* above the watermark, but for those beyond errors[:50] and unmappable ones, which left
\* empty letters: for any source and any number of workers.
THEOREM RunsAccount == Spec => []RunAccounted
<1>1. Init => AccountInv
  BY DEF Init, AccountInv, Accounted, Idle
<1>2. TypeOK /\ AccountInv /\ EmptyUnmapped => RunAccounted
  <2> SUFFICES ASSUME TypeOK, AccountInv, EmptyUnmapped,
                      NEW w \in Workers, loc[w].pc = "errs", loc[w].todo = {}
               PROVE  /\ OnlyUnmappableLost(Incoming(loc[w].batch, loc[w].snap) \ loc[w].dropped)
                      /\ loc[w].dropped # {} => Cardinality(loc[w].errs) > ErrorCap
    BY DEF RunAccounted
  <2>1. Incoming(loc[w].batch, loc[w].snap) \subseteq loc[w].batch /\ loc[w].batch \subseteq Records
    BY ParametersAssumption DEF Incoming, TypeOK, Locals
  <2>2. \A r \in Incoming(loc[w].batch, loc[w].snap) \ loc[w].dropped : Reported(r)
    BY <2>1 DEF AccountInv, Accounted
  <2> QED BY <2>1, <2>2, ReportedLosses DEF AccountInv, Accounted
<1> QED BY <1>1, <1>2, AccountPreserved, EmptyPreserved, EmptyStarts,
           TypeCorrect, PTL DEF Spec

-----------------------------------------------------------------------------
\* A letter is resolved only when its record reached the domain services.

\* The letter a retry has in hand, and the verdict it is going to put into it.
InHand(l) ==
  /\ l.pc \in {"check", "exec", "rewrite", "rput"} => l.op = "retry"
  /\ l.op = "retry" => /\ l.id \in DOMAIN dlq
                       /\ l.status = "resolved" => applied[dlq[l.id].rec] > 0
LetterInv == LettersSound /\ \A w \in Workers : InHand(loc[w])

\* The part of the invariant about the workers, a step of one worker at a time.
LEMMA HandPreserved ==
  ASSUME TypeOK, LetterInv, [Next]_vars
  PROVE  \A w \in Workers : InHand(loc[w])'
<1>0. \A w \in Workers : loc[w] \in Locals /\ InHand(loc[w])
  BY DEF TypeOK, LetterInv
<1>1. \A d \in DOMAIN dlq : /\ d \in DOMAIN dlq' /\ dlq'[d].rec = dlq[d].rec
                            /\ applied[dlq[d].rec] > 0 => applied'[dlq[d].rec] > 0
  <2>1. \A d \in DOMAIN dlq : dlq[d].rec \in Records
    <3>1. dlq \in [DOMAIN dlq -> Letters]
      BY LenProperties DEF TypeOK
    <3> QED BY <3>1 DEF Letters
  <2>2. \A r \in Records : applied[r] > 0 => applied'[r] > 0
    <3>1. \A r \in Records : applied[r] \in Nat /\ applied'[r] \in Nat
      BY TypePreserved DEF TypeOK
    <3> QED BY <3>1, ReportedStable
  <2> QED BY <2>1, <2>2, ReportedStable
<1>2. ASSUME NEW w \in Workers, NEW l, Becomes(w, l), InHand(l)'
      PROVE  \A v \in Workers : InHand(loc[v])'
  <2>1. \A v \in Workers : loc'[v] = IF v = w THEN l ELSE loc[v]
    BY <1>2 DEF TypeOK, Becomes
  <2>2. ASSUME NEW v \in Workers, v # w PROVE InHand(loc[v])'
    BY <1>0, <1>1, <2>1, <2>2 DEF InHand
  <2> QED BY <1>2, <2>1, <2>2 DEF InHand
<1>3. CASE UNCHANGED loc
  BY <1>0, <1>1, <1>3 DEF InHand
\* A step that keeps the request in hand.
<1>4. ASSUME NEW w \in Workers, NEW l, Becomes(w, l),
             l.op = loc[w].op, l.id = loc[w].id, l.status = loc[w].status,
             l.pc \in {"check", "exec", "rewrite", "rput"} => l.op = "retry"
      PROVE  \A v \in Workers : InHand(loc[v])'
  <2>1. InHand(l)'
    BY <1>0, <1>1, <1>4 DEF InHand
  <2> QED BY <1>2, <1>4, <2>1
\* A step that ends the request, or takes up one that is no retry.
<1>5. ASSUME NEW w \in Workers, NEW l, Becomes(w, l), l.op # "retry",
             l.pc \notin {"check", "exec", "rewrite", "rput"}
      PROVE  \A v \in Workers : InHand(loc[v])'
  <2>1. InHand(l)'
    BY <1>5 DEF InHand
  <2> QED BY <1>2, <1>5, <2>1
<1>6. Idle.pc = "idle" /\ Idle.op = "none"
  BY DEF Idle
<1>7. ASSUME NEW w \in Workers, Becomes(w, Idle) PROVE \A v \in Workers : InHand(loc[v])'
  BY <1>5, <1>6, <1>7
<1>8. ASSUME NEW w \in Workers, NEW c \in Configs, Configure(w, c)
      PROVE  \A v \in Workers : InHand(loc[v])'
  <2>1. PICK l : Becomes(w, l) /\ l = [loc[w] EXCEPT !.pc = "put", !.op = "configure",
                                              !.snap = Configured(c, row)]
    BY <1>8 DEF Configure
  <2>2. l.op # "retry" /\ l.pc \notin {"check", "exec", "rewrite", "rput"}
    BY <1>0, <2>1 DEF Locals
  <2> QED BY <1>5, <1>7, <2>1, <2>2
<1>9. ASSUME NEW w \in Workers, NEW b \in Batches, StartRun(w, b)
      PROVE  \A v \in Workers : InHand(loc[v])'
  <2>1. PICK l : Becomes(w, l) /\ l = [loc[w] EXCEPT !.pc = "state", !.op = "run", !.batch = b]
    BY <1>9 DEF StartRun
  <2>2. l.op # "retry" /\ l.pc \notin {"check", "exec", "rewrite", "rput"}
    BY <1>0, <2>1 DEF Locals
  <2> QED BY <1>5, <1>7, <2>1, <2>2
<1>10. ASSUME NEW w \in Workers, NEW b \in Batches, NEW op, StartSchema(w, op, b)
      PROVE  \A v \in Workers : InHand(loc[v])'
  <2>1. PICK l : Becomes(w, l) /\ /\ l = [loc[w] EXCEPT !.pc = "state", !.op = op, !.batch = b]
                                 /\ op # "retry"
    BY <1>10 DEF StartSchema
  <2>2. l.op # "retry" /\ l.pc \notin {"check", "exec", "rewrite", "rput"}
    BY <1>0, <2>1 DEF Locals
  <2> QED BY <1>5, <1>7, <2>1, <2>2
<1>11. ASSUME NEW w \in Workers, NEW d \in DOMAIN dlq, StartRetry(w, d)
      PROVE  \A v \in Workers : InHand(loc[v])'
  <2>1. PICK l : /\ Becomes(w, l)
                 /\ l = [loc[w] EXCEPT !.pc = "state", !.op = "retry", !.id = d,
                                       !.count = dlq[d].count, !.status = dlq[d].status]
    BY <1>11 DEF StartRetry
  <2>2. l.pc = "state" /\ l.id = d /\ l.status = dlq[d].status
    BY <1>0, <2>1 DEF Locals
  <2>3. dlq[d].status = "resolved" => applied[dlq[d].rec] > 0
    BY DEF LetterInv, LettersSound
  <2>4. InHand(l)'
    BY <1>1, <2>2, <2>3 DEF InHand
  <2> QED BY <1>2, <2>1, <2>4
<1>12. ASSUME NEW w \in Workers, ReadState(w)
      PROVE  \A v \in Workers : InHand(loc[v])'
  <2>1. PICK l : Becomes(w, l) /\ l = [loc[w] EXCEPT
                    !.snap = [row EXCEPT !.saved = TRUE],
                    !.pc = IF row.saved THEN AfterState(loc[w].op) ELSE "boot"]
    BY <1>12 DEF ReadState
  <2>2. /\ l.op = loc[w].op /\ l.id = loc[w].id /\ l.status = loc[w].status
        /\ l.pc \in {"check", "exec", "rewrite", "rput"} => l.op = "retry"
    BY <1>0, <2>1 DEF Locals, AfterState, Ops
  <2> QED BY <1>4, <1>7, <2>1, <2>2
<1>13. ASSUME NEW w \in Workers, Bootstrap(w)
      PROVE  \A v \in Workers : InHand(loc[v])'
  <2>1. PICK l : Becomes(w, l) /\ \/ l = [loc[w] EXCEPT !.snap = loc[w].base, !.base = DefaultRow,
                                                     !.pc = AfterState(loc[w].op)]
                                  \/ /\ loc[w].pc = "boot"
                                     /\ l = [loc[w] EXCEPT !.base = [row EXCEPT !.saved = TRUE]]
    BY <1>13 DEF Bootstrap
  <2>2. /\ l.op = loc[w].op /\ l.id = loc[w].id /\ l.status = loc[w].status
        /\ l.pc \in {"check", "exec", "rewrite", "rput"} => l.op = "retry"
    BY <1>0, <2>1 DEF Locals, AfterState, Ops
  <2> QED BY <1>4, <1>7, <2>1, <2>2
<1>14. ASSUME NEW w \in Workers, Inspect(w) PROVE \A v \in Workers : InHand(loc[v])'
  <2>1. CASE Becomes(w, Idle)
    BY <1>7, <2>1
  <2>2. CASE ~Becomes(w, Idle)
    <3>1. PICK l : Becomes(w, l) /\ \/ l = [loc[w] EXCEPT !.base = row, !.pc = "base"]
                                    \/ l = [loc[w] EXCEPT !.pc = PastGate(w)]
      BY <1>14, <2>2 DEF Inspect
    <3>2. /\ l.op = loc[w].op /\ l.id = loc[w].id /\ l.status = loc[w].status
          /\ l.pc \in {"check", "exec", "rewrite", "rput"} => l.op = "retry"
      BY <1>0, <3>1 DEF Locals, PastGate
    <3> QED BY <1>4, <3>1, <3>2
  <2> QED BY <2>1, <2>2
<1>15. ASSUME NEW w \in Workers, PutBaseline(w)
      PROVE  \A v \in Workers : InHand(loc[v])'
  <2>1. PICK l : Becomes(w, l) /\ l = [loc[w] EXCEPT
                    !.pc = IF loc[w].pc = "base" THEN PastGate(w) ELSE "reread"]
    BY <1>15 DEF PutBaseline
  <2>2. /\ l.op = loc[w].op /\ l.id = loc[w].id /\ l.status = loc[w].status
        /\ l.pc \in {"check", "exec", "rewrite", "rput"} => l.op = "retry"
    BY <1>0, <2>1 DEF Locals, PastGate
  <2> QED BY <1>4, <1>7, <2>1, <2>2
<1>16. ASSUME NEW w \in Workers, Rebase(w)
      PROVE  \A v \in Workers : InHand(loc[v])'
  <2>1. PICK l : Becomes(w, l) /\ \/ l = [loc[w] EXCEPT !.base = row, !.pc = "base2"]
                                  \/ l = [loc[w] EXCEPT !.snap = row, !.pc = "quality"]
    BY <1>16 DEF Rebase
  <2>2. /\ l.op = loc[w].op /\ l.id = loc[w].id /\ l.status = loc[w].status
        /\ l.pc \in {"check", "exec", "rewrite", "rput"} => l.op = "retry"
    BY <1>0, <2>1 DEF Locals
  <2> QED BY <1>4, <1>7, <2>1, <2>2
<1>17. ASSUME NEW w \in Workers, Quality(w) PROVE \A v \in Workers : InHand(loc[v])'
  <2>1. PICK todo, good, l : Becomes(w, l) /\ l = [loc[w] EXCEPT !.pc = "park", !.todo = todo,
                                                                !.good = good]
    BY <1>17 DEF Quality
  <2>2. /\ l.op = loc[w].op /\ l.id = loc[w].id /\ l.status = loc[w].status
        /\ l.pc \in {"check", "exec", "rewrite", "rput"} => l.op = "retry"
    BY <1>0, <2>1 DEF Locals
  <2> QED BY <1>4, <2>1, <2>2
<1>18. ASSUME NEW w \in Workers, NEW r \in Records, DeadLetter(w, r)
      PROVE  \A v \in Workers : InHand(loc[v])'
  <2>1. PICK l : /\ Becomes(w, l)
                 /\ l = [loc[w] EXCEPT !.todo = loc[w].todo \ {r}]
                 /\ loc[w].pc \in {"park", "errs"}
    BY <1>18 DEF DeadLetter
  <2>2. /\ l.op = loc[w].op /\ l.id = loc[w].id /\ l.status = loc[w].status
        /\ l.pc \in {"check", "exec", "rewrite", "rput"} => l.op = "retry"
    BY <1>0, <2>1, <1>0 DEF Locals
  <2> QED BY <1>4, <1>7, <2>1, <2>2
<1>19. ASSUME NEW w \in Workers, NEW r \in Records, Write(w, r)
      PROVE  \A v \in Workers : InHand(loc[v])'
  <2>1. PICK l : /\ Becomes(w, l)
                 /\ \/ l = [loc[w] EXCEPT !.todo = loc[w].todo \ {r}]
                    \/ l = [loc[w] EXCEPT !.todo = loc[w].todo \ {r},
                                          !.errs = loc[w].errs \cup {r}]
                 /\ loc[w].pc = "write"
    BY <1>19 DEF Write
  <2>2. /\ l.op = loc[w].op /\ l.id = loc[w].id /\ l.status = loc[w].status
        /\ l.pc \in {"check", "exec", "rewrite", "rput"} => l.op = "retry"
    BY <1>0, <2>1 DEF Locals
  <2> QED BY <1>4, <1>7, <2>1, <2>2
<1>20. ASSUME NEW w \in Workers, OpenBinding(w) PROVE \A v \in Workers : InHand(loc[v])'
  <2>1. CASE Becomes(w, Idle)
    BY <1>7, <2>1
  <2>2. CASE ~Becomes(w, Idle)
    <3>1. PICK l : Becomes(w, l) /\ l = [loc[w] EXCEPT !.pc = "write",
                                           !.todo = loc[w].good \cap Mappable,
                                           !.errs = loc[w].good \ Mappable]
      BY <1>20, <2>2 DEF OpenBinding
    <3>2. /\ l.op = loc[w].op /\ l.id = loc[w].id /\ l.status = loc[w].status
          /\ l.pc \in {"check", "exec", "rewrite", "rput"} => l.op = "retry"
      BY <1>0, <3>1 DEF Locals
    <3> QED BY <1>4, <3>1, <3>2
  <2> QED BY <2>1, <2>2
<1>21. ASSUME NEW w \in Workers, NEW kept \in SUBSET loc[w].errs, Collect(w, kept)
      PROVE  \A v \in Workers : InHand(loc[v])'
  <2>1. PICK l : Becomes(w, l) /\ l = [loc[w] EXCEPT !.pc = "errs", !.todo = kept,
                                                   !.dropped = loc[w].errs \ kept]
    BY <1>21 DEF Collect
  <2>2. /\ l.op = loc[w].op /\ l.id = loc[w].id /\ l.status = loc[w].status
        /\ l.pc \in {"check", "exec", "rewrite", "rput"} => l.op = "retry"
    BY <1>0, <2>1 DEF Locals
  <2> QED BY <1>4, <1>7, <2>1, <2>2
<1>22. ASSUME NEW w \in Workers, CheckRetries(w) PROVE \A v \in Workers : InHand(loc[v])'
  <2>1. CASE Becomes(w, Idle)
    BY <1>7, <2>1
  <2>2. CASE ~Becomes(w, Idle)
    <3>1. PICK l : Becomes(w, l) /\ l = [loc[w] EXCEPT !.count = loc[w].count + 1, !.pc = "exec"]
      BY <1>22, <2>2 DEF CheckRetries
    <3>2. l.op = loc[w].op /\ l.id = loc[w].id /\ l.status = loc[w].status /\ loc[w].op = "retry"
      BY <1>0, <1>22, <3>1 DEF Locals, CheckRetries, InHand
    <3> QED BY <1>4, <3>1, <3>2
  <2> QED BY <2>1, <2>2
<1>23. ASSUME NEW w \in Workers, RetryExecute(w) PROVE \A v \in Workers : InHand(loc[v])'
  <2>1. PICK l : Becomes(w, l) /\ \/ l = [loc[w] EXCEPT !.pc = "rewrite"]
                                  \/ l = [loc[w] EXCEPT !.pc = "rput"]
    BY <1>23 DEF RetryExecute
  <2>2. l.op = loc[w].op /\ l.id = loc[w].id /\ l.status = loc[w].status /\ loc[w].op = "retry"
    BY <1>0, <1>23, <2>1 DEF Locals, RetryExecute, InHand
  <2> QED BY <1>4, <2>1, <2>2
<1>24. ASSUME NEW w \in Workers, RetryWrite(w) PROVE \A v \in Workers : InHand(loc[v])'
  <2>0. loc[w].op = "retry" /\ loc[w].id \in DOMAIN dlq
    BY <1>0, <1>24 DEF RetryWrite, InHand
  <2>1. CASE Becomes(w, [loc[w] EXCEPT !.pc = "rput"])
    <3>1. PICK l : Becomes(w, l) /\ l = [loc[w] EXCEPT !.pc = "rput"]
      BY <2>1
    <3>2. l.op = loc[w].op /\ l.id = loc[w].id /\ l.status = loc[w].status
      BY <1>0, <3>1 DEF Locals
    <3> QED BY <1>4, <2>0, <3>1, <3>2
  <2>2. CASE applied' = [applied EXCEPT ![dlq[loc[w].id].rec] = @ + 1]
    <3>1. PICK l : Becomes(w, l) /\ l.op = loc[w].op /\ l.id = loc[w].id
      <4>1. PICK l : Becomes(w, l) /\ \/ l = [loc[w] EXCEPT !.status = "resolved", !.pc = "rput"]
                                      \/ l = [loc[w] EXCEPT !.pc = "rput"]
        BY <1>24 DEF RetryWrite
      <4>2. l.op = loc[w].op /\ l.id = loc[w].id
        BY <1>0, <4>1 DEF Locals
      <4> QED BY <4>1, <4>2
    <3>2. dlq[loc[w].id].rec \in Records
      <4>1. dlq \in [DOMAIN dlq -> Letters]
        BY LenProperties DEF TypeOK
      <4> QED BY <2>0, <4>1 DEF Letters
    <3>3. applied'[dlq[loc[w].id].rec] > 0
      BY <2>2, <3>2 DEF TypeOK
    <3>4. InHand(l)'
      BY <1>1, <2>0, <3>1, <3>3 DEF InHand
    <3> QED BY <1>2, <3>1, <3>4
  <2> QED BY <1>24, <2>1, <2>2 DEF RetryWrite
<1>25. ASSUME NEW w \in Workers, PutConfig(w) \/ PutSchema(w) \/ Save(w) \/ PutLetter(w) \/ Crash(w)
      PROVE  \A v \in Workers : InHand(loc[v])'
  BY <1>7, <1>25 DEF PutConfig, PutSchema, Save, PutLetter, Crash
<1> QED
  BY <1>3, <1>8, <1>9, <1>10, <1>11, <1>12, <1>13, <1>14, <1>15, <1>16, <1>17, <1>18, <1>19,
     <1>20, <1>21, <1>22, <1>23, <1>24, <1>25
     DEF Next, Request, Step, vars, EditBinding, PutRule

\* The dead letters and what the retries in progress remember of them, a step at a time.
THEOREM LettersPreserved == TypeOK /\ LetterInv /\ [Next]_vars => LetterInv'
<1> SUFFICES ASSUME TypeOK, LetterInv, [Next]_vars PROVE LetterInv'
  OBVIOUS
<1> DEFINE Sound(d) == dlq[d].status = "resolved" => applied[dlq[d].rec] > 0
<1>0. /\ dlq \in [DOMAIN dlq -> Letters] /\ Len(dlq) \in Nat /\ DOMAIN dlq = 1..Len(dlq)
      /\ \A d \in DOMAIN dlq : Sound(d)
  BY LenProperties DEF TypeOK, LetterInv, LettersSound
<1>1. \A d \in DOMAIN dlq : /\ d \in DOMAIN dlq' /\ dlq'[d].rec = dlq[d].rec
                            /\ applied[dlq[d].rec] > 0 => applied'[dlq[d].rec] > 0
  <2>1. \A r \in Records : applied[r] > 0 => applied'[r] > 0
    <3>1. \A r \in Records : applied[r] \in Nat /\ applied'[r] \in Nat
      BY TypePreserved DEF TypeOK
    <3> QED BY <3>1, ReportedStable
  <2>2. \A d \in DOMAIN dlq : dlq[d].rec \in Records
    BY <1>0 DEF Letters
  <2> QED BY <2>1, <2>2, ReportedStable
<1>2. \A d \in DOMAIN dlq' : Sound(d)'
  <2>1. CASE UNCHANGED dlq
    BY <1>0, <1>1, <2>1
  <2>2. ASSUME NEW w \in Workers, NEW r \in Records, DeadLetter(w, r)
        PROVE  \A d \in DOMAIN dlq' : Sound(d)'
    <3>1. Letter(w, r) \in Letters /\ Letter(w, r).status = "open"
      BY ParametersAssumption DEF Letter, Letters, Forms
    <3>2. /\ dlq' \in Seq(Letters) /\ Len(dlq') = Len(dlq) + 1
          /\ dlq'[Len(dlq) + 1] = Letter(w, r)
          /\ \A i \in 1..Len(dlq) : dlq'[i] = dlq[i]
      BY <2>2, <3>1, AppendProperties DEF TypeOK, DeadLetter
    <3>3. DOMAIN dlq' = 1..(Len(dlq) + 1)
      BY <3>2, LenProperties
    <3>4. ASSUME NEW d, d = Len(dlq) + 1 PROVE Sound(d)'
      BY <3>1, <3>2, <3>4
    <3>5. \A d \in DOMAIN dlq : Sound(d)'
      BY <1>0, <1>1, <3>2
    <3>6. \A d \in DOMAIN dlq' : d \in DOMAIN dlq \/ d = Len(dlq) + 1
      BY <1>0, <3>3
    <3> QED BY <3>4, <3>5, <3>6
  <2>3. ASSUME NEW w \in Workers, RetryExecute(w)
        PROVE  \A d \in DOMAIN dlq' : Sound(d)'
    <3>1. \A x \in Letters : Tried(x).status = x.status
      BY DEF Tried, Letters
    <3>2. DOMAIN dlq' = DOMAIN dlq
      BY <1>0, <2>3 DEF RetryExecute
    <3>3. \A d \in DOMAIN dlq : dlq[d] \in Letters /\ (dlq'[d] = dlq[d] \/ dlq'[d] = Tried(dlq[d]))
      BY <1>0, <2>3 DEF RetryExecute
    <3>4. \A d \in DOMAIN dlq : dlq'[d].status = dlq[d].status
      BY <3>1, <3>3
    <3> QED BY <1>0, <1>1, <3>2, <3>4
  <2>4. ASSUME NEW w \in Workers, PutLetter(w)
        PROVE  \A d \in DOMAIN dlq' : Sound(d)'
    <3>1. loc[w] \in Locals /\ InHand(loc[w]) /\ loc[w].pc = "rput"
      BY <2>4 DEF TypeOK, LetterInv, PutLetter
    <3>2. /\ loc[w].id \in DOMAIN dlq
          /\ loc[w].status = "resolved" => applied[dlq[loc[w].id].rec] > 0
      BY <3>1 DEF InHand
    <3>3. DOMAIN dlq' = DOMAIN dlq
      BY <1>0, <2>4 DEF PutLetter
    <3>4. ASSUME NEW d \in DOMAIN dlq, d # loc[w].id PROVE Sound(d)'
      <4>1. dlq'[d] = dlq[d]
        BY <1>0, <2>4, <3>4 DEF PutLetter
      <4> QED BY <1>0, <1>1, <4>1
    <3>5. ASSUME NEW d, d = loc[w].id PROVE Sound(d)'
      <4>1. dlq[d] \in Letters
        BY <1>0, <3>2, <3>5
      <4>2. dlq'[d] = [dlq[d] EXCEPT !.count = loc[w].count, !.status = loc[w].status]
        BY <1>0, <2>4, <3>2, <3>5 DEF PutLetter
      <4>3. dlq'[d].status = loc[w].status
        BY <4>1, <4>2 DEF Letters
      <4> QED BY <1>1, <3>2, <3>5, <4>3
    <3> QED BY <3>3, <3>4, <3>5
  <2>5. \/ UNCHANGED dlq
        \/ \E w \in Workers : RetryExecute(w) \/ PutLetter(w) \/ \E r \in Records : DeadLetter(w, r)
    BY ZenonT(40) DEF Next, Request, Step, vars, Reads, Serving, Start, Configure, StartRun, StartSchema,
           StartRetry, PutConfig, ReadState, Bootstrap, PutSchema, Inspect, PutBaseline, Rebase,
           Quality, Write, OpenBinding, Collect, Save, CheckRetries, RetryWrite, Crash,
           EditBinding, PutRule
  <2> QED BY <2>1, <2>2, <2>3, <2>4, <2>5
<1>3. \A d \in DOMAIN dlq' : dlq'[d].count <= RetryLimit
  <2>1. dlq' \in Seq(Letters)
    BY TypePreserved DEF TypeOK
  <2>2. dlq' \in [DOMAIN dlq' -> Letters]
    BY <2>1, LenProperties
  <2> QED BY <2>2, ParametersAssumption DEF Letters
<1> QED BY <1>2, <1>3, HandPreserved DEF LetterInv, LettersSound

\* In every reachable state a resolved letter's record is in the domain services and
\* no retry_count passes the configured bound, whatever requests interleave or die.
THEOREM LettersCorrect == Spec => []LettersSound
<1>1. Init => LetterInv
  BY DEF Init, LetterInv, LettersSound, InHand, Idle
<1>2. LetterInv => LettersSound
  BY DEF LetterInv
<1> QED BY <1>1, <1>2, LettersPreserved, TypeCorrect, PTL DEF Spec
=============================================================================
