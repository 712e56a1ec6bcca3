------------------------- MODULE IntegrationRuntime -------------------------
(***************************************************************************)
(* app/integration_runtime.py over app/data_binding.py, for one binding.   *)
(*                                                                         *)
(* Handlers run in a thread pool (and in two replicas), and the repository *)
(* offers single-document get and put only.  A worker is one request being *)
(* served; every repository call of its handler is one action, so a row a  *)
(* handler read earlier (its "snap") can be stale when it writes it back.  *)
(***************************************************************************)
EXTENDS Integers, Sequences, FiniteSets, FiniteSetsExt

CONSTANTS
  Workers,      \* request-serving threads
  Records,      \* source records
  MaxMark,      \* the largest rank of a watermark field
  Mark,         \* [Records -> 0..MaxMark] rank of the record's watermark field in the
                \* order the code compares it by (text); 0: field missing
  Shape,        \* [Records -> set of <<field, type>>]
  Mappable,     \* records that carry every required field of the binding
  RenamesFields,\* TRUE when the binding maps a required field from another name
  Rules,        \* quality rules
  Rejects,      \* [Rules -> SUBSET Records] the records a rule rejects
  Batches,      \* the payloads a client may send, as sets of records
  Configs,      \* the payloads of configure: functions on some fields of a row
  NoSchema,     \* the schema fingerprint before the first baseline
  DefaultRetries, \* max_retries of a row nobody configured (3 in the code)
  RetryLimit,   \* the largest max_retries an operator configures
  ErrorCap,     \* bindings.execute reports at most this many errors (50 in the code)
  MaxRequests,  \* bound: requests started
  MaxCrashes    \* bound: handlers that die half way

\* The schema of a payload: every field with its type, "mixed" if it has several
\* (the code looks at the first 100 records; payloads here are shorter).
SchemaOf(b) ==
  LET seen == UNION {Shape[r] : r \in b}
  IN  {<<p[1], IF \E q \in seen : q[1] = p[1] /\ q[2] # p[2] THEN "mixed" ELSE p[2]>> :
         p \in seen}

Schemas == {SchemaOf(b) : b \in Batches \cup {{}}}
Policies == {"block", "allow"}
Rows == [saved : BOOLEAN, wf : BOOLEAN, wm : Nat, fp : Schemas \cup {NoSchema},
         policy : Policies, retries : 0..RetryLimit]

\* What configure({}) stores for a binding nobody has configured.
DefaultRow == [saved |-> FALSE, wf |-> FALSE, wm |-> 0, fp |-> NoSchema,
               policy |-> "block", retries |-> DefaultRetries]

\* payload.get(field, state.get(field)) for every field configure knows.
Configured(c, r) ==
  [f \in DOMAIN r |-> IF f = "saved" THEN TRUE ELSE IF f \in DOMAIN c THEN c[f] ELSE r[f]]

ASSUME ParametersAssumption ==
  /\ IsFiniteSet(Records)
  /\ MaxMark \in Nat /\ Mark \in [Records -> 0..MaxMark]
  /\ Mappable \subseteq Records
  /\ RenamesFields \in BOOLEAN
  /\ Rejects \in [Rules -> SUBSET Records]
  /\ Batches \subseteq SUBSET Records
  /\ RetryLimit \in Nat /\ DefaultRetries \in 0..RetryLimit /\ ErrorCap \in Nat
  /\ MaxRequests \in Nat /\ MaxCrashes \in Nat
  /\ \A c \in Configs : \A f \in DOMAIN c :
       \/ f = "wf" /\ c[f] \in BOOLEAN
       \/ f = "wm" /\ c[f] \in Nat
       \/ f = "policy" /\ c[f] \in Policies
       \/ f = "retries" /\ c[f] \in 0..RetryLimit

VARIABLES
  row,       \* the binding's document in integration_binding_state
  binding,   \* status of the binding's document in data_bindings
  rules,     \* active documents of integration_quality_rules for the binding
  dlq,       \* integration_dead_letters, in the order of creation
  applied,   \* [Records -> Nat] how often a record reached the domain services
  loc,       \* the locals of each worker's handler
  requests,  \* number of requests started
  crashes    \* number of handlers that died half way

vars == <<row, binding, rules, dlq, applied, loc, requests, crashes>>

\* What a dead letter holds: the source record ("raw"), the mapped target
\* document ("mapped"), or {} ("empty": a mapping error carries no record).
\* rec is history where the letter is empty, and so is tries: how often a retry
\* handed the letter to the binding.
Forms == {"raw", "mapped", "empty"}
Letters == [rec : Records, form : Forms, status : {"open", "resolved"},
            count : 0..RetryLimit, tries : Nat]

Idle == [pc |-> "idle", op |-> "none", batch |-> {}, snap |-> DefaultRow, base |-> DefaultRow,
         good |-> {}, todo |-> {}, errs |-> {}, dropped |-> {},
         id |-> 0, count |-> 0, status |-> "open"]

Ops == {"none", "run", "accept", "inspect", "configure", "retry"}
PCs == {"idle", "state", "boot", "put", "inspect", "base", "rebase", "base2", "reread",
        "quality", "park", "write", "errs", "accept", "check", "exec", "rewrite", "rput"}
Locals == [pc : PCs, op : Ops, batch : Batches \cup {{}}, snap : Rows, base : Rows,
           good : SUBSET Records, todo : SUBSET Records, errs : SUBSET Records,
           dropped : SUBSET Records, id : Nat, count : 0..RetryLimit,
           status : {"open", "resolved"}]

Init ==
  /\ row = DefaultRow
  /\ binding \in {"draft", "approved"}
  /\ rules = {}
  /\ dlq = <<>>
  /\ applied = [r \in Records |-> 0]
  /\ loc = [w \in Workers |-> Idle]
  /\ requests = 0
  /\ crashes = 0

Start(w) ==
  /\ loc[w].pc = "idle"
  /\ requests < MaxRequests
  /\ requests' = requests + 1
  /\ UNCHANGED <<binding, rules, crashes>>

\* The worker goes on with other locals.
Becomes(w, l) == loc' = [loc EXCEPT ![w] = l]

\* The rest of the state, of a step that only reads.
Reads == UNCHANGED <<row, dlq, applied>>
Serving == UNCHANGED <<binding, rules, requests, crashes>>

-----------------------------------------------------------------------------
\* configure: get the row (or {}), merge the payload, put the whole row back.

Configure(w, c) ==
  /\ Start(w)
  /\ Becomes(w, [loc[w] EXCEPT !.pc = "put", !.op = "configure", !.snap = Configured(c, row)])
  /\ Reads

PutConfig(w) ==
  /\ loc[w].pc = "put"
  /\ row' = loc[w].snap
  /\ Becomes(w, Idle)
  /\ Serving /\ UNCHANGED <<dlq, applied>>

-----------------------------------------------------------------------------
\* state(): the row, bootstrapped through configure({}) when there is none.

AfterState(op) == CASE op = "run" -> "inspect" [] op = "retry" -> "check" [] OTHER -> "accept"

ReadState(w) ==
  /\ loc[w].pc = "state"
  /\ Becomes(w, [loc[w] EXCEPT !.snap = [row EXCEPT !.saved = TRUE],
                               !.pc = IF row.saved THEN AfterState(loc[w].op) ELSE "boot"])
  /\ Reads /\ Serving

\* configure reads the row once more before it puts it.
Bootstrap(w) ==
  /\ loc[w].pc = "boot"
  /\ \/ /\ loc[w].base.saved
        /\ row' = loc[w].base
        /\ Becomes(w, [loc[w] EXCEPT !.snap = loc[w].base, !.base = DefaultRow,
                                     !.pc = AfterState(loc[w].op)])
     \/ /\ ~loc[w].base.saved
        /\ Becomes(w, [loc[w] EXCEPT !.base = [row EXCEPT !.saved = TRUE]])
        /\ UNCHANGED row
  /\ Serving /\ UNCHANGED <<dlq, applied>>

-----------------------------------------------------------------------------
\* accept_schema, and POST schema/inspect, which baselines only a row without one.

StartSchema(w, op, b) ==
  /\ op \in {"accept", "inspect"}
  /\ Start(w)
  /\ Becomes(w, [loc[w] EXCEPT !.pc = "state", !.op = op, !.batch = b])
  /\ Reads

\* Mutant: inspection baselines a binding that has a baseline already.
PutSchemaAlways(w) ==
  /\ loc[w].pc = "accept"
  /\ row' = [loc[w].snap EXCEPT !.fp = SchemaOf(loc[w].batch)]
  /\ Becomes(w, Idle)
  /\ Serving /\ UNCHANGED <<dlq, applied>>

PutSchema(w) ==
  /\ loc[w].pc = "accept"
  /\ row' = IF loc[w].op = "accept" \/ loc[w].snap.fp = NoSchema
            THEN [loc[w].snap EXCEPT !.fp = SchemaOf(loc[w].batch)] ELSE row
  /\ Becomes(w, Idle)
  /\ Serving /\ UNCHANGED <<dlq, applied>>

-----------------------------------------------------------------------------
\* execute(binding_id, records): the schema gate.

StartRun(w, b) ==
  /\ Start(w)
  /\ Becomes(w, [loc[w] EXCEPT !.pc = "state", !.op = "run", !.batch = b])
  /\ Reads

\* The row as execute read it first has no baseline: store one, read it again.
PastGate(w) == IF loc[w].snap.fp = NoSchema THEN "rebase" ELSE "quality"

\* inspect_schema reads the row itself; the policy is that of the first read.
Inspect(w) ==
  /\ loc[w].pc = "inspect"
  /\ \/ /\ row.fp = NoSchema
        /\ Becomes(w, [loc[w] EXCEPT !.base = row, !.pc = "base"])
     \/ /\ row.fp # NoSchema
        /\ row.fp = SchemaOf(loc[w].batch) \/ loc[w].snap.policy # "block"
        /\ Becomes(w, [loc[w] EXCEPT !.pc = PastGate(w)])
     \/ /\ row.fp \notin {NoSchema, SchemaOf(loc[w].batch)}
        /\ loc[w].snap.policy = "block"
        /\ Becomes(w, Idle)          \* schema_drift_blocked, raised
  /\ Reads /\ Serving

Baselined(w) == [loc[w].base EXCEPT !.fp = SchemaOf(loc[w].batch)]

PutBaseline(w) ==
  /\ loc[w].pc \in {"base", "base2"}
  /\ row' = Baselined(w)
  /\ Becomes(w, [loc[w] EXCEPT !.pc = IF loc[w].pc = "base" THEN PastGate(w) ELSE "reread"])
  /\ Serving /\ UNCHANGED <<dlq, applied>>

\* Mutant: the row read before the second baseline is used again.
RebaseForgetful(w) ==
  /\ loc[w].pc \in {"rebase", "reread"}
  /\ Becomes(w, IF loc[w].pc = "rebase" THEN [loc[w] EXCEPT !.base = row, !.pc = "base2"]
                                        ELSE [loc[w] EXCEPT !.pc = PastGate(w)])
  /\ Reads /\ Serving

Rebase(w) ==
  /\ \/ /\ loc[w].pc = "rebase"
        /\ Becomes(w, [loc[w] EXCEPT !.base = row, !.pc = "base2"])
     \/ /\ loc[w].pc = "reread"
        /\ Becomes(w, [loc[w] EXCEPT !.snap = row, !.pc = "quality"])
  /\ Reads /\ Serving

-----------------------------------------------------------------------------
\* execute, continued: watermark, quality, binding, dead letters, watermark.

Incoming(b, s) == IF s.wf /\ s.wm # 0 THEN {r \in b : Mark[r] > s.wm} ELSE b

\* Mutant: rejected records are filtered out and not parked.
QualityDropsRejected(w) ==
  /\ loc[w].pc = "quality"
  /\ Becomes(w, [loc[w] EXCEPT !.pc = "park", !.good =
                   Incoming(loc[w].batch, loc[w].snap) \ UNION {Rejects[q] : q \in rules}])
  /\ Reads /\ Serving

Quality(w) ==
  /\ loc[w].pc = "quality"
  /\ LET in  == Incoming(loc[w].batch, loc[w].snap)
         bad == in \cap UNION {Rejects[q] : q \in rules}
     IN  Becomes(w, [loc[w] EXCEPT !.pc = "park", !.todo = bad, !.good = in \ bad])
  /\ Reads /\ Serving

\* The letter of a record that failed: the row itself when quality rejected it.
Letter(w, r) ==
  [rec |-> r, form |-> IF loc[w].pc = "park" THEN "raw"
                       ELSE IF r \in Mappable THEN "mapped" ELSE "empty",
   status |-> "open", count |-> 0, tries |-> 0]

DeadLetter(w, r) ==
  /\ loc[w].pc \in {"park", "errs"}
  /\ r \in loc[w].todo
  /\ dlq' = Append(dlq, Letter(w, r))
  /\ Becomes(w, [loc[w] EXCEPT !.todo = @ \ {r}])
  /\ Serving /\ UNCHANGED <<row, applied>>

\* Mutant: records that do not map are skipped without an error.
OpenBindingSkipsUnmapped(w) ==
  /\ loc[w].pc = "park" /\ loc[w].todo = {}
  /\ Becomes(w, IF binding = "approved"
                THEN [loc[w] EXCEPT !.pc = "write", !.todo = loc[w].good \cap Mappable]
                ELSE Idle)
  /\ Reads /\ Serving

\* bindings.execute: the status check, then the mapping of every good record.
OpenBinding(w) ==
  /\ loc[w].pc = "park" /\ loc[w].todo = {}
  /\ \/ /\ binding = "approved"
        /\ Becomes(w, [loc[w] EXCEPT !.pc = "write", !.todo = loc[w].good \cap Mappable,
                                     !.errs = loc[w].good \ Mappable])
     \/ binding # "approved" /\ Becomes(w, Idle)     \* raised
  /\ Reads /\ Serving

\* One domain write; an exception is recorded and the loop goes on.
Write(w, r) ==
  /\ loc[w].pc = "write" /\ r \in loc[w].todo
  /\ \/ /\ applied' = [applied EXCEPT ![r] = @ + 1]
        /\ Becomes(w, [loc[w] EXCEPT !.todo = @ \ {r}])
     \/ /\ Becomes(w, [loc[w] EXCEPT !.todo = @ \ {r}, !.errs = @ \cup {r}])
        /\ UNCHANGED applied
  /\ Serving /\ UNCHANGED <<row, dlq>>

\* result["errors"] is errors[:ErrorCap]: the others are counted, not reported.
\* The order of the list is abstracted: any ErrorCap of them.
Collect(w, kept) ==
  /\ loc[w].pc = "write" /\ loc[w].todo = {}
  /\ kept \subseteq loc[w].errs
  /\ IF Cardinality(loc[w].errs) <= ErrorCap THEN kept = loc[w].errs
                                             ELSE Cardinality(kept) = ErrorCap
  /\ Becomes(w, [loc[w] EXCEPT !.pc = "errs", !.todo = kept,
                               !.dropped = loc[w].errs \ kept])
  /\ Reads /\ Serving

\* Mutant: a run without new records stores no watermark.
NewMarkOrNone(g, s) ==
  LET marks == {Mark[r] : r \in g} \ {0}
  IN  IF s.wf /\ marks # {} THEN Max(marks) ELSE 0

\* The watermark of the records handed to the binding, failed ones included.
NewMark(g, s) ==
  LET marks == {Mark[r] : r \in g} \ {0}
  IN  IF s.wf /\ marks # {} THEN Max(marks) ELSE s.wm

Save(w) ==
  /\ loc[w].pc = "errs" /\ loc[w].todo = {}
  /\ row' = [loc[w].snap EXCEPT !.wm = NewMark(loc[w].good, loc[w].snap)]
  /\ Becomes(w, Idle)
  /\ Serving /\ UNCHANGED <<dlq, applied>>

-----------------------------------------------------------------------------
\* retry_dead_letter: no status check; the count is read here and put at the end.

StartRetry(w, d) ==
  /\ d \in DOMAIN dlq
  /\ Start(w)
  /\ Becomes(w, [loc[w] EXCEPT !.pc = "state", !.op = "retry", !.id = d,
                               !.count = dlq[d].count, !.status = dlq[d].status])
  /\ Reads

\* Mutants: one retry too many, and a retry that is not charged.
CheckRetriesOffByOne(w) ==
  /\ loc[w].pc = "check"
  /\ Becomes(w, IF loc[w].count <= loc[w].snap.retries
                THEN [loc[w] EXCEPT !.count = @ + 1, !.pc = "exec"] ELSE Idle)
  /\ Reads /\ Serving

CheckRetriesFree(w) ==
  /\ loc[w].pc = "check"
  /\ Becomes(w, IF loc[w].count < loc[w].snap.retries
                THEN [loc[w] EXCEPT !.pc = "exec"] ELSE Idle)
  /\ Reads /\ Serving

CheckRetries(w) ==
  /\ loc[w].pc = "check"
  /\ \/ /\ loc[w].count < loc[w].snap.retries
        /\ Becomes(w, [loc[w] EXCEPT !.count = @ + 1, !.pc = "exec"])
     \/ loc[w].count >= loc[w].snap.retries /\ Becomes(w, Idle)   \* raised
  /\ Reads /\ Serving

\* Whether the mapping finds the required fields in what the letter holds.
Mapped(letter) ==
  /\ letter.rec \in Mappable
  /\ letter.form = "raw" \/ (letter.form = "mapped" /\ ~RenamesFields)

Tried(letter) == [letter EXCEPT !.tries = @ + 1]

\* bindings.execute on the one record; an exception is caught by the retry.
RetryExecute(w) ==
  /\ loc[w].pc = "exec"
  /\ Becomes(w, [loc[w] EXCEPT !.pc = IF binding = "approved" /\ Mapped(dlq[loc[w].id])
                                         THEN "rewrite" ELSE "rput"])
  /\ dlq' = [dlq EXCEPT ![loc[w].id] = Tried(@)]
  /\ Serving /\ UNCHANGED <<row, applied>>

\* Mutant: the letter is resolved whatever became of the write.
RetryWriteHopeful(w) ==
  /\ loc[w].pc = "rewrite"
  /\ Becomes(w, [loc[w] EXCEPT !.status = "resolved", !.pc = "rput"])
  /\ applied' \in {applied, [applied EXCEPT ![dlq[loc[w].id].rec] = @ + 1]}
  /\ Serving /\ UNCHANGED <<row, dlq>>

RetryWrite(w) ==
  /\ loc[w].pc = "rewrite"
  /\ \/ /\ applied' = [applied EXCEPT ![dlq[loc[w].id].rec] = @ + 1]
        /\ Becomes(w, [loc[w] EXCEPT !.status = "resolved", !.pc = "rput"])
     \/ /\ Becomes(w, [loc[w] EXCEPT !.pc = "rput"])
        /\ UNCHANGED applied
  /\ Serving /\ UNCHANGED <<row, dlq>>

PutLetter(w) ==
  /\ loc[w].pc = "rput"
  /\ dlq' = [dlq EXCEPT ![loc[w].id] = [@ EXCEPT !.count = loc[w].count, !.status = loc[w].status]]
  /\ Becomes(w, Idle)
  /\ Serving /\ UNCHANGED <<row, applied>>

-----------------------------------------------------------------------------
\* A handler dies: the process is killed, or a repository call raises.
Crash(w) ==
  /\ loc[w].pc # "idle"
  /\ crashes < MaxCrashes
  /\ crashes' = crashes + 1
  /\ Becomes(w, Idle)
  /\ Reads /\ UNCHANGED <<binding, rules, requests>>

\* data_bindings upsert (an edited binding is a draft again) and approve.
EditBinding ==
  /\ binding' \in {"draft", "approved"} \ {binding}
  /\ Reads /\ UNCHANGED <<rules, loc, requests, crashes>>

\* add_quality_rule stores a rule, active or not, under its rule_id.
PutRule(q) ==
  /\ rules' = IF q \in rules THEN rules \ {q} ELSE rules \cup {q}
  /\ Reads /\ UNCHANGED <<binding, loc, requests, crashes>>

\* The steps of a request that is being served.
Step(w) ==
  \/ PutConfig(w) \/ ReadState(w) \/ Bootstrap(w) \/ PutSchema(w)
  \/ Inspect(w) \/ PutBaseline(w) \/ Rebase(w) \/ Quality(w)
  \/ \E r \in Records : DeadLetter(w, r) \/ Write(w, r)
  \/ OpenBinding(w) \/ \E kept \in SUBSET loc[w].errs : Collect(w, kept)
  \/ Save(w)
  \/ CheckRetries(w) \/ RetryExecute(w) \/ RetryWrite(w) \/ PutLetter(w)

Request(w) ==
  \/ \E c \in Configs : Configure(w, c)
  \/ \E b \in Batches : StartRun(w, b) \/ \E op \in {"accept", "inspect"} : StartSchema(w, op, b)
  \/ \E d \in DOMAIN dlq : StartRetry(w, d)

Next ==
  \/ \E w \in Workers : Request(w) \/ Step(w) \/ Crash(w)
  \/ EditBinding
  \/ \E q \in Rules : PutRule(q)

Spec == Init /\ [][Next]_vars

\* A request a worker has picked up is served; nobody owes the service a request.
Fairness == \A w \in Workers : WF_vars(Step(w))
FairSpec == Spec /\ Fairness

\* What the answers tell a client of a record it sent: it was written, or it failed
\* and a letter was made of the error.  They name the record by its index, so this
\* looks at "rec" whatever the letter holds.
Reported(r) == applied[r] > 0 \/ \E d \in DOMAIN dlq : dlq[d].rec = r

\* What the service still has of a record: it reached the domain services, or a
\* letter of the queue holds it.  The letter {} of a mapping error holds nothing.
Settled(r) == applied[r] > 0 \/ \E d \in DOMAIN dlq : dlq[d].rec = r /\ dlq[d].form # "empty"
Lost(S) == {r \in S : ~Settled(r)}
EmptyLetters == {d \in DOMAIN dlq : dlq[d].form = "empty"}

\* Of the records of S only some that cannot be mapped are lost, and the queue has an
\* empty letter for each of them.
OnlyUnmappableLost(S) ==
  Lost(S) \cap Mappable = {} /\ Cardinality(Lost(S)) <= Cardinality(EmptyLetters)

\* The service as one orderly client drives it.  A request is sent when the one
\* before it has been answered or has died, and a payload only when the answers
\* accounted for all earlier records of the source, by watermark (so a failed payload
\* is sent again).
Busy(w) == loc[w].pc # "idle"
OneAtATime == \A v, w \in Workers : Busy(v) /\ Busy(w) => v = w
Before(r, b) == Mark[r] # 0 /\ \E s \in b : Mark[r] <= Mark[s]
InOrder ==
  \A w \in Workers : \A b \in Batches :
    StartRun(w, b) => \A r \in Records \ b : Before(r, b) => Reported(r)

OrderlyNext == Next /\ OneAtATime' /\ InOrder
\* What the claims about its watermark suppose: nobody configures the watermark, and
\* a payload is no longer than the list of errors bindings.execute reports.
WatermarkLeftAlone == \A c \in Configs : "wm" \notin DOMAIN c
ErrorsReported == \A b \in Batches : Cardinality(b) <= ErrorCap
OrderlySpec == Init /\ [][OrderlyNext]_vars /\ Fairness

-----------------------------------------------------------------------------
TypeOK ==
  /\ row \in Rows
  /\ binding \in {"draft", "approved"}
  /\ rules \subseteq Rules
  /\ dlq \in Seq(Letters)
  /\ applied \in [Records -> Nat]
  /\ loc \in [Workers -> Locals]
  /\ requests \in Nat /\ crashes \in Nat

\* When a run is about to store its watermark, the records of its payload above the
\* watermark it read are in the domain or the queue, but for those beyond the
\* errors[:50] that bindings.execute reports and unmappable ones, each of which left
\* an empty letter: no other way to vanish.
RunAccounted ==
  \A w \in Workers : loc[w].pc = "errs" /\ loc[w].todo = {} =>
    /\ OnlyUnmappableLost(Incoming(loc[w].batch, loc[w].snap) \ loc[w].dropped)
    /\ loc[w].dropped # {} => Cardinality(loc[w].errs) > ErrorCap

\* A letter is resolved only after its record reached the domain services, and its
\* retry_count never passes the largest max_retries, whatever requests interleave.
LettersSound ==
  \A d \in DOMAIN dlq :
    /\ dlq[d].status = "resolved" => applied[dlq[d].rec] > 0
    /\ dlq[d].count <= RetryLimit

-----------------------------------------------------------------------------
\* What an orderly client can count on.

\* No record of the source at or below the stored watermark is lost (what the gate
\* will pass over from now on), but for unmappable ones: those leave an empty letter
\* each while the watermark passes them.
WatermarkCovers == OnlyUnmappableLost({r \in Records : Mark[r] \in 1..row.wm})

\* A stored watermark never moves back.
WatermarkMonotone == [][row'.wm >= row.wm]_vars

\* Once there is a schema baseline, it changes only when somebody accepts a schema.
BaselineChangesByAccept ==
  [][row.fp # NoSchema /\ row'.fp # row.fp => \E w \in Workers : loc[w].op = "accept"]_vars

\* Every retry of a letter is charged to its retry_count, up to max_retries, but
\* for the retries whose handler died before it could put the letter back.
RetriesCharged == \A d \in DOMAIN dlq : dlq[d].tries <= RetryLimit + crashes

\* Every request a worker takes up is answered, or its handler dies.
RequestsEnd == \A w \in Workers : Busy(w) ~> ~Busy(w)
=============================================================================
