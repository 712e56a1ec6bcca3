----------------------------- MODULE GovernedQuery -----------------------------
(***************************************************************************)
(* The chat endpoint: an answer comes from the cache, or is resolved,      *)
(* compiled under the caller's roles and attributes, executed, counted,    *)
(* recorded, audited and then cached.  No lock spans these steps, and the  *)
(* semantic model may be reloaded between any two of them.                 *)
(***************************************************************************)
EXTENDS QueryPlanning

CONSTANTS
  QWorkers,     \* threads that serve questions
  Questions,    \* what a question says, see Resolve
  Contexts,     \* who asks: [roles, attributes]
  SemanticModels, \* the models the registry may hold, with policies
  Ontologies,   \* bound: the models the planning operators are checked on
  MaxCached,    \* the entries the cache keeps, 100
  TTL,          \* how long an entry is fresh
  MaxNow,       \* bound: clock
  MaxQCalls,    \* bound: questions asked in a behaviour
  MaxQFaults    \* bound: steps that fail and threads that die

ASSUME QAssumption == /\ MaxCached \in Nat \ {0} /\ TTL \in Nat /\ MaxNow \in Nat
                      /\ MaxQCalls \in Nat /\ MaxQFaults \in Nat
\* What a JSON document can hold: lists, and finitely many names of metrics.
ASSUME ListsAssumption ==
  \A o \in Ontologies \cup SemanticModels :
    /\ o.rels \in Seq(Range(o.rels))
    /\ IsFiniteSet(Names(o))
    /\ \A m \in DOMAIN o.metrics : o.metrics[m].deps \in Seq(Range(o.metrics[m].deps))

VARIABLES
  model,        \* the semantic model the registry holds, with the policies in force
  job,          \* what each worker is doing
  cache,        \* query_cache.json: <<question, context>> -> [answer, time]
  now,
  asked,        \* the request each number was given to
  counted,      \* query_stats: the number of successes and of failures
  telemetry,    \* runtime_queries: <<request, success>>
  trail,        \* audit_events: <<request, decision>>
  outcome,      \* history: what the caller of each finished request got
  faults

qvars == <<model, job, cache, now, asked, counted, telemetry, trail, outcome, faults>>

Idle == [at |-> "idle"]
Requests == [question : Questions, context : Contexts, preview : BOOLEAN]
\* Mutant: callers share their answers.
KeyOfQuestion(r) == <<r.question, CHOOSE c \in Contexts : TRUE>>

Key(r) == <<r.question, r.context>>
Fresh(entry) == now - entry.time <= TTL
Req(w) == asked[job[w].id]
Hit(r) == Key(r) \in DOMAIN cache /\ Fresh(cache[Key(r)])

QInit ==
  /\ model \in SemanticModels
  /\ job = [w \in QWorkers |-> Idle]
  /\ cache = <<>> /\ now = 0 /\ asked = <<>> /\ counted = [success |-> 0, failed |-> 0]
  /\ telemetry = {} /\ trail = {} /\ outcome = <<>> /\ faults = 0

With(f, key, value) == [k \in DOMAIN f \cup {key} |-> IF k = key THEN value ELSE f[k]]

Moves(w, next) == job' = [job EXCEPT ![w] = next]
Finishes(w, result) ==
  /\ Moves(w, Idle)
  /\ outcome' = With(outcome, job[w].id, result)

Ask(w, r) ==
  /\ job[w] = Idle /\ Len(asked) < MaxQCalls
  /\ asked' = Append(asked, r)
  /\ Moves(w, [at |-> "lookup", id |-> Len(asked) + 1])
  /\ UNCHANGED <<model, cache, now, counted, telemetry, trail, outcome, faults>>

\* A hit leaves no count, no telemetry and no audit event of its own.
ServeCached(w) ==
  /\ job[w].at = "lookup" /\ ~Req(w).preview /\ Hit(Req(w))
  /\ Finishes(w, [kind |-> "cached", answer |-> cache[Key(Req(w))].answer])
  /\ UNCHANGED <<model, cache, now, asked, counted, telemetry, trail, faults>>

\* The cache is read without its lock: while it is written it reads as empty.
Miss(w) ==
  /\ job[w].at = "lookup"
  /\ Hit(Req(w)) => Req(w).preview \/ \E v \in QWorkers : job[v].at = "cache"
  /\ Moves(w, [at |-> "compile", id |-> job[w].id, intent |-> Resolve(model, Req(w).question)])
  /\ UNCHANGED <<model, cache, now, asked, counted, telemetry, trail, outcome, faults>>

\* The model compiled against may be newer than the one resolved against.
CompilePlan(w) ==
  /\ job[w].at = "compile"
  /\ LET plan == Compile(model, job[w].intent, Req(w).context) IN
       IF plan.ok
       THEN Moves(w, [at |-> IF Req(w).preview THEN "preview" ELSE "execute", id |-> job[w].id,
                      answer |-> [by |-> job[w].id, model |-> model, statements |-> plan.statements]])
       ELSE Moves(w, [at |-> "refuse", id |-> job[w].id])
  /\ UNCHANGED <<model, cache, now, asked, counted, telemetry, trail, outcome, faults>>

Preview(w) ==
  /\ job[w].at = "preview"
  /\ Finishes(w, [kind |-> "preview", answer |-> job[w].answer])
  /\ UNCHANGED <<model, cache, now, asked, counted, telemetry, trail, faults>>

Goes(w, from, to) == job[w].at = from /\ Moves(w, [job[w] EXCEPT !.at = to])

\* Mutant: an answer is cached before it is counted and audited.
ExecuteAndCache(w) ==
  /\ Goes(w, "execute", "cache")
  /\ UNCHANGED <<model, cache, now, asked, counted, telemetry, trail, outcome, faults>>

\* The executor runs the statements; the answer joins the conversation.
Execute(w) ==
  /\ Goes(w, "execute", "count")
  /\ UNCHANGED <<model, cache, now, asked, counted, telemetry, trail, outcome, faults>>

CountSuccess(w) ==
  /\ Goes(w, "count", "record")
  /\ counted' = [counted EXCEPT !.success = @ + 1]
  /\ UNCHANGED <<model, cache, now, asked, telemetry, trail, outcome, faults>>

RecordSuccess(w) ==
  /\ Goes(w, "record", "audit")
  /\ telemetry' = telemetry \cup {<<job[w].id, TRUE>>}
  /\ UNCHANGED <<model, cache, now, asked, counted, trail, outcome, faults>>

AuditAllow(w) ==
  /\ Goes(w, "audit", "cache")
  /\ trail' = trail \cup {<<job[w].id, "allow">>}
  /\ UNCHANGED <<model, cache, now, asked, counted, telemetry, outcome, faults>>

\* Mutant: nothing is dropped.
KeptAll(entries) == {DOMAIN entries}

\* Over its limit the cache drops its oldest entry.
Kept(entries) ==
  IF Cardinality(DOMAIN entries) <= MaxCached THEN {DOMAIN entries}
  ELSE {DOMAIN entries \ {k} : k \in {x \in DOMAIN entries :
          \A y \in DOMAIN entries : entries[x].time <= entries[y].time}}

CacheAnswer(w) ==
  /\ job[w].at = "cache"
  /\ LET entries == With(cache, Key(Req(w)), [answer |-> job[w].answer, time |-> now]) IN
       \E keys \in Kept(entries) : cache' = [k \in keys |-> entries[k]]
  /\ Finishes(w, [kind |-> "answer", answer |-> job[w].answer])
  /\ UNCHANGED <<model, now, asked, counted, telemetry, trail, faults>>

-----------------------------------------------------------------------------
(* The except branch: whatever failed, and whatever was already recorded.  *)

\* Mutant: a failure is not recorded with the runtime queries.
CountFailureOnly(w) ==
  /\ Goes(w, "refuse", "audit failure")
  /\ counted' = [counted EXCEPT !.failed = @ + 1]
  /\ UNCHANGED <<model, cache, now, asked, telemetry, trail, outcome, faults>>

CountFailure(w) ==
  /\ Goes(w, "refuse", "record failure")
  /\ counted' = [counted EXCEPT !.failed = @ + 1]
  /\ UNCHANGED <<model, cache, now, asked, telemetry, trail, outcome, faults>>

RecordFailure(w) ==
  /\ Goes(w, "record failure", "audit failure")
  /\ telemetry' = telemetry \cup {<<job[w].id, FALSE>>}
  /\ UNCHANGED <<model, cache, now, asked, counted, trail, outcome, faults>>

AuditDeny(w) ==
  /\ job[w].at = "audit failure"
  /\ trail' = trail \cup {<<job[w].id, "deny">>}
  /\ Finishes(w, [kind |-> "error"])
  /\ UNCHANGED <<model, cache, now, asked, counted, telemetry, faults>>

\* A step of the try block raises.
StepFails(w) ==
  /\ job[w].at \in {"lookup", "compile", "execute", "count", "record", "audit", "cache"}
  /\ faults < MaxQFaults /\ faults' = faults + 1
  /\ Moves(w, [at |-> "refuse", id |-> job[w].id])
  /\ UNCHANGED <<model, cache, now, asked, counted, telemetry, trail, outcome>>

\* The process dies, or the except branch itself raises: the caller gets no answer.
Dies(w) ==
  /\ job[w] # Idle
  /\ faults < MaxQFaults /\ faults' = faults + 1
  /\ Moves(w, Idle)
  /\ UNCHANGED <<model, cache, now, asked, counted, telemetry, trail, outcome>>

\* A semantic write or a template was applied; the cache is not told.
ChangeModel ==
  /\ \E m \in SemanticModels : <<m.roles, m.rows>> = <<model.roles, model.rows>> /\ model' = m
  /\ UNCHANGED <<job, cache, now, asked, counted, telemetry, trail, outcome, faults>>

\* The policy file is read again; the cache is not told of that either.
ReloadPolicies ==
  /\ \E m \in SemanticModels :
       /\ <<m.entities, m.rels, m.metrics>> = <<model.entities, model.rels, model.metrics>>
       /\ model' = m
  /\ UNCHANGED <<job, cache, now, asked, counted, telemetry, trail, outcome, faults>>

ClearCache ==
  /\ cache' = <<>>
  /\ UNCHANGED <<model, job, now, asked, counted, telemetry, trail, outcome, faults>>

QTick ==
  /\ now < MaxNow /\ now' = now + 1
  /\ UNCHANGED <<model, job, cache, asked, counted, telemetry, trail, outcome, faults>>

QNext ==
  \/ \E w \in QWorkers :
       \/ \E r \in Requests : Ask(w, r)
       \/ ServeCached(w) \/ Miss(w) \/ CompilePlan(w) \/ Preview(w) \/ Execute(w)
       \/ CountSuccess(w) \/ RecordSuccess(w) \/ AuditAllow(w) \/ CacheAnswer(w)
       \/ CountFailure(w) \/ RecordFailure(w) \/ AuditDeny(w)
       \/ StepFails(w) \/ Dies(w)
  \/ ChangeModel \/ ReloadPolicies \/ ClearCache \/ QTick

QSpec == QInit /\ [][QNext]_qvars

-----------------------------------------------------------------------------
Phases == {"idle", "lookup", "compile", "preview", "execute", "count", "record", "audit",
           "cache", "refuse", "record failure", "audit failure"}
Ids == 1 .. Len(asked)

QTypeOK ==
  /\ model \in SemanticModels
  /\ \A w \in QWorkers : job[w].at \in Phases /\ (job[w] # Idle => job[w].id \in Ids)
  /\ DOMAIN cache \subseteq Questions \X Contexts /\ Cardinality(DOMAIN cache) <= MaxCached
  /\ \A k \in DOMAIN cache : cache[k].time \in 0 .. now
  /\ counted \in [success : 0 .. MaxQCalls, failed : 0 .. MaxQCalls]
  /\ telemetry \subseteq Ids \X BOOLEAN
  /\ trail \subseteq Ids \X {"allow", "deny"}
  /\ DOMAIN outcome \subseteq Ids
  /\ \A n \in DOMAIN outcome : outcome[n].kind \in {"answer", "cached", "preview", "error"}

\* The join path finder against a reference definition: a path it returns walks
\* along relationships, and no entity on it could be reached sooner; it returns
\* none only when the target is more than four relationships away
\* (join_path.py find_path: "BFS to find shortest path").  Judged before the first
\* question is asked.
Adjacent(o, x, y) == \E r \in Range(o.rels) : {r.from, r.to} = {x, y}
Joined(o) == UNION {{r.from, r.to} : r \in Range(o.rels)}
Near(o, e) ==
  LET ball[n \in 0 .. MaxHops] ==
        IF n = 0 THEN {e}
        ELSE ball[n - 1] \cup {y \in Joined(o) : \E x \in ball[n - 1] : Adjacent(o, x, y)}
  IN ball
PathsAreShortest ==
  asked = <<>> => \A o \in Ontologies : \A x, y \in DOMAIN o.entities :
    LET p == FindPath(o, x, y)
        near == Near(o, x) IN
      IF p = <<>> THEN y \notin near[MaxHops]
      ELSE /\ p[1] = x /\ Last(p) = y
           /\ \A k \in 2 .. Len(p) :
                Adjacent(o, p[k - 1], p[k]) /\ p[k] \in near[k - 1] \ near[k - 2]

\* A metric is computed after everything it depends on and exactly once, and a
\* cycle or an unknown dependency below it is refused however deep it lies
\* (metric_graph.py: "dependencies first and requested metric last").
Closed(o, S) == \A d \in S \cap DOMAIN o.metrics : Range(o.metrics[d].deps) \subseteq S
Below(o, m) ==
  {n \in Names(o) : \A S \in SUBSET Names(o) :
     Range(o.metrics[m].deps) \subseteq S /\ Closed(o, S) => n \in S}
DependenciesFirst ==
  asked = <<>> => \A o \in Ontologies : \A m \in DOMAIN o.metrics :
    LET walk == Ordered(o, m)
        below == Below(o, m)
        sound == below \subseteq DOMAIN o.metrics /\ \A d \in below \cup {m} : d \notin Below(o, d)
    IN /\ walk.failed <=> ~sound
       /\ sound => /\ Range(walk.order) = below \cup {m}
                   /\ Cardinality(below \cup {m}) = Len(walk.order)
                   /\ \A a, b \in DOMAIN walk.order :
                        walk.order[a] \in Range(o.metrics[walk.order[b]].deps) => a < b

\* Whatever is answered, computed or from the cache, reads only tables of entities
\* the caller's roles allow, and its metrics carry the row filters of the caller's
\* roles and attributes, under the policies that were in force when it was computed,
\* although the plan, its decision, the statements and the cache key are made apart
\* (main.py: "never share cached governed results across different role/RLS
\* attribute contexts").
Answered == {n \in DOMAIN outcome : outcome[n].kind # "error"}
AnswersGoverned ==
  \A n \in Answered :
    LET ctx == asked[n].context
        answer == outcome[n].answer IN
      /\ \A s \in answer.statements : \A e \in s.tables : Allowed(e, AllowedEntities(answer.model, EffectiveRoles(ctx)))
      /\ \E s \in answer.statements : s.filters # {} \/ RowFilters(answer.model, ctx) = {}
      /\ \A s \in answer.statements : s.filters # {} => RowFilters(answer.model, ctx) \subseteq s.filters

\* An answer that can be served again was recorded and audited as allowed when it
\* was computed, although serving it again leaves no trace.
CachedWasAudited ==
  /\ \A k \in DOMAIN cache : <<cache[k].answer.by, "allow">> \in trail
  /\ \A n \in DOMAIN outcome : outcome[n].kind = "cached" =>
       LET by == outcome[n].answer.by IN
         /\ <<by, "allow">> \in trail /\ <<by, TRUE>> \in telemetry
         /\ Key(asked[by]) = Key(asked[n])

\* What the caller was told is what the trail, the telemetry and the counts say: an
\* answer is audited as allowed and never as denied, an error as denied, and no
\* outcome is missing from the success rate whatever step failed.
OutcomesAccounted ==
  LET told(kind) == {n \in DOMAIN outcome : outcome[n].kind = kind} IN
    /\ \A n \in told("answer") : /\ <<n, "allow">> \in trail /\ <<n, "deny">> \notin trail
                                 /\ <<n, TRUE>> \in telemetry
    /\ \A n \in told("error") : <<n, "deny">> \in trail /\ <<n, FALSE>> \in telemetry
    /\ Cardinality(told("answer")) <= counted.success
    /\ Cardinality(told("error")) <= counted.failed

\* The tables the statements of a plan read are those of the entities it requires
\* (planner.py build: "every governed intermediate ontology node used by the
\* executable JOIN paths.  This is required for physical-table allowlisting").
IntermediatesRequired ==
  \A w \in QWorkers : job[w].at = "compile" =>
    LET plan == Build(model, ApplyIntent(model, job[w].intent, Req(w).context)) IN
      plan.ok => \A s \in plan.statements : s.tables \subseteq plan.required
=============================================================================
