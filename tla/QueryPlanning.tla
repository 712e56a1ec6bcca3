----------------------------- MODULE QueryPlanning -----------------------------
(***************************************************************************)
(* How a question becomes SQL: resolution against the semantic model, the  *)
(* order of metric dependencies, the discovery of join paths, the plan with *)
(* the tables each of its statements reads, and the policies and the SQL   *)
(* gateway it must pass.                                                   *)
(*                                                                         *)
(* A semantic model o has                                                  *)
(*   o.entities : entity -> [props, default, dated, series, catalog]       *)
(*   o.rels     : sequence of [from, to]                                   *)
(*   o.metrics  : metric -> [entity, deps, timed]                          *)
(* and comes with the policies that are loaded,                            *)
(*   o.roles    : role -> [entities, metrics, denied, days, cost, subject] *)
(*   o.rows     : role -> set of [entity, prop, attr]                      *)
(* A statement is the set of entities whose tables it reads (every entity  *)
(* has a table of its own), whether it bounds time, and its filters.       *)
(* Everything that raises ends in Rejected.                                *)
(***************************************************************************)
EXTENDS Naturals, Sequences, FiniteSets, SequencesExt

CONSTANTS
  Nothing,      \* None: no entity, no property, no catalog
  Star,         \* '*', every entity or metric
  Machine,      \* the subject of a question that names none
  Energy,       \* "energy_consumption", the metric of a question on consumption
  Analyst,      \* the role of a request that names none
  MaxHops       \* the joins of a path at most, 4

ASSUME HopsAssumption == MaxHops \in Nat

Rejected == [ok |-> FALSE]

-----------------------------------------------------------------------------
(* join_path.py: breadth first, over every relationship in both directions *)

\* An edge is taken from the entity the path leads to, to one not met before.
Visit(target, path, search, from, to) ==
  IF from # Last(path) \/ search.found # <<>> \/ to \in search.visited THEN search
  ELSE IF to = target THEN [search EXCEPT !.found = Append(path, to)]
  ELSE [search EXCEPT !.visited = @ \cup {to}, !.queue = Append(@, Append(path, to))]

\* A relationship adds an edge at each of its ends, in the order of the list:
\* the search when the edges of the first k relationships have been tried.
Tried(o, target, path, search) ==
  LET tried[k \in 0 .. Len(o.rels)] ==
        IF k = 0 THEN search
        ELSE LET r == o.rels[k]
             IN Visit(target, path, Visit(target, path, tried[k - 1], r.from, r.to), r.to, r.from)
  IN tried

\* The paths of a hop leave the queue in the order they entered it.
Popped(o, target, search) ==
  LET popped[k \in 0 .. Len(search.queue)] ==
        IF k = 0 THEN [search EXCEPT !.queue = <<>>]
        ELSE Tried(o, target, search.queue[k], popped[k - 1])[Len(o.rels)]
  IN popped

\* The search when every path of n joins has been followed.
Searched(o, source, target) ==
  LET search[n \in 0 .. MaxHops] ==
        IF n = 0 THEN [queue |-> <<<<source>>>>, visited |-> {source}, found |-> <<>>]
        ELSE Popped(o, target, search[n - 1])[Len(search[n - 1].queue)]
  IN search

\* Mutant: the search gives up one join too early.
FindPathShort(o, source, target) ==
  IF source = target THEN <<source>> ELSE Searched(o, source, target)[MaxHops - 1].found

\* The entities on a shortest path with both its ends, <<>> when there is none.
FindPath(o, source, target) ==
  IF source = target THEN <<source>> ELSE Searched(o, source, target)[MaxHops].found

-----------------------------------------------------------------------------
(* metric_graph.py: depth first, dependencies before their dependents.     *)

Names(o) == DOMAIN o.metrics \cup UNION {Range(o.metrics[m].deps) : m \in DOMAIN o.metrics}
Walks(o) == [order : Seq(Names(o)), temporary : SUBSET Names(o), failed : BOOLEAN]
Start == [order |-> <<>>, temporary |-> {}, failed |-> FALSE]

\* The walk when the first k dependencies of n have been visited.
Descended(o, visit, walk, n) ==
  LET down[k \in 0 .. Len(o.metrics[n].deps)] ==
        IF k = 0 THEN [walk EXCEPT !.temporary = @ \cup {n}]
        ELSE visit[<<down[k - 1], o.metrics[n].deps[k]>>]
  IN down

\* Mutant: a metric met twice is ordered twice.
VisitedAgain(o, visit, walk, n) ==
  IF walk.failed THEN walk
  ELSE IF n \in walk.temporary \/ n \notin DOMAIN o.metrics THEN [walk EXCEPT !.failed = TRUE]
  ELSE [Descended(o, visit, walk, n)[Len(o.metrics[n].deps)]
          EXCEPT !.temporary = @ \ {n}, !.order = Append(@, n)]

\* visit: temporary are the metrics being visited, order the permanent ones.
Visited(o, visit, walk, n) ==
  IF walk.failed \/ n \in Range(walk.order) THEN walk
  ELSE IF n \in walk.temporary \/ n \notin DOMAIN o.metrics THEN [walk EXCEPT !.failed = TRUE]
  ELSE [Descended(o, visit, walk, n)[Len(o.metrics[n].deps)]
          EXCEPT !.temporary = @ \ {n}, !.order = Append(@, n)]

Visits(o) == LET visit[p \in Walks(o) \X Names(o)] == Visited(o, visit, p[1], p[2]) IN visit
Ordered(o, m) == IF m \in Names(o) THEN Visits(o)[<<Start, m>>] ELSE [Start EXCEPT !.failed = TRUE]

IsLeaf(o, m) == o.metrics[m].deps = <<>>
MetricsOf(o, i) == UNION {Range(Ordered(o, m).order) : m \in Range(i.metrics)}
Resolvable(o, i) == \A m \in Range(i.metrics) : ~Ordered(o, m).failed
LeavesOf(o, i) == {m \in MetricsOf(o, i) : IsLeaf(o, m)}
MetricEntities(o, i) == {o.metrics[m].entity : m \in MetricsOf(o, i)} \ {Nothing}

-----------------------------------------------------------------------------
(* semantic.py: the rules that resolve a question without a language model.*)
(* q names entities in the order they are looked for, metrics by the length *)
(* of the synonym they match, and says what else its wording asks for.     *)

First(s, default) == IF s = <<>> THEN default ELSE s[1]

Resolve(o, q) ==
  LET known == SelectSeq(q.entities, LAMBDA e : e \in DOMAIN o.entities)
      subject == First(known, Machine)
      matched == SelectSeq(q.metrics, LAMBDA m : m \in DOMAIN o.metrics)
      metrics == IF matched = <<>> /\ q.consumption THEN <<Energy>> ELSE matched
      i == [subject |-> subject, reference |-> q.reference, metrics |-> metrics,
            related |-> {subject}, dims |-> {d \in q.dims : d.entity \in DOMAIN o.entities},
            filters |-> {}, days |-> q.days, compare |-> q.compare, diagnostic |-> q.diagnostic]
      resolved == [i EXCEPT !.metrics = SelectSeq(@, LAMBDA m : ~Ordered(o, m).failed)]
  IN [i EXCEPT !.related = @ \cup MetricEntities(o, resolved)
             \cup IF q.diagnostic THEN q.evidence \cap DOMAIN o.entities ELSE {}]

-----------------------------------------------------------------------------
(* planner.py                                                              *)

Nodes(path) == Range(path)
HasTable(o, e) == e \in DOMAIN o.entities /\ o.entities[e].catalog # Nothing

\* A dimension may be an entity alone: its readable identifier is meant.
Property(o, d) == IF d.prop = Nothing THEN o.entities[d.entity].default ELSE d.prop
DimensionKnown(o, d) ==
  /\ d.entity \in DOMAIN o.entities
  /\ Property(o, d) \in o.entities[d.entity].props

FilterEntity(f, e) == IF f.entity = Nothing THEN e ELSE f.entity
FilterKnown(o, f, e) ==
  /\ FilterEntity(f, e) \in DOMAIN o.entities
  /\ f.prop \in o.entities[FilterEntity(f, e)].props

\* What the common table expression of a leaf metric joins: the subject it is
\* scoped to, the dimensions it is grouped by, the filters that constrain it.
Targets(i, e) ==
  {i.subject} \cup {d.entity : d \in i.dims} \cup {FilterEntity(f, e) : f \in i.filters}

LeafCompiles(o, i, m) ==
  LET e == o.metrics[m].entity IN
    /\ e \in DOMAIN o.entities
    /\ \A f \in i.filters : FilterKnown(o, f, e)
    /\ \A t \in Targets(i, e) : FindPath(o, e, t) # <<>>
LeafTables(o, i, m) ==
  LET e == o.metrics[m].entity IN UNION {Nodes(FindPath(o, e, t)) : t \in Targets(i, e)}

\* The metric statement, twice itself when two periods are compared.
MetricStatement(o, i) ==
  [tables |-> UNION {LeafTables(o, i, m) : m \in LeavesOf(o, i)},
   bounded |-> \E m \in LeavesOf(o, i) : o.metrics[m].timed,
   filters |-> i.filters]

EvidenceStatement(i) == [tables |-> {i.subject}, bounded |-> FALSE, filters |-> {}]

DiagnosticStatement(o, i, e) ==
  [tables |-> Nodes(FindPath(o, e, i.subject)), bounded |-> o.entities[e].dated, filters |-> {}]

Requested(o, i) ==
  {i.subject} \cup {d.entity : d \in i.dims} \cup ({f.entity : f \in i.filters} \ {Nothing})
    \cup ((MetricEntities(o, i) \cup i.related) \cap DOMAIN o.entities)

\* What was asked for, and what lies between the subject and it.
Required(o, i) == Requested(o, i) \cup UNION {Nodes(FindPath(o, i.subject, e)) : e \in Requested(o, i)}

Diagnosed(o, i) ==
  IF ~i.diagnostic THEN {}
  ELSE Required(o, i) \ ({i.subject} \cup MetricEntities(o, i) \cup {d.entity : d \in i.dims})

Statements(o, i) ==
  {EvidenceStatement(i), MetricStatement(o, i)}
    \cup {DiagnosticStatement(o, i, e) : e \in {x \in Diagnosed(o, i) : o.entities[x].props # {}}}

Builds(o, i) ==
  /\ i.subject \in DOMAIN o.entities
  /\ i.metrics # <<>> /\ Resolvable(o, i)
  /\ \A d \in i.dims : DimensionKnown(o, d)
  /\ LeavesOf(o, i) # {} /\ \A m \in LeavesOf(o, i) : LeafCompiles(o, i, m)
  /\ \A e \in Requested(o, i) : FindPath(o, i.subject, e) # <<>>
  /\ Diagnosed(o, i) \subseteq DOMAIN o.entities
  /\ \A s \in Statements(o, i) : \A e \in s.tables : HasTable(o, e)

\* The allowlist of tables is described from what the plan requires.
Plan(o, i) ==
  [ok |-> TRUE, intent |-> i, statements |-> Statements(o, i), required |-> Required(o, i),
   tables |-> {e \in Required(o, i) : HasTable(o, e)}]
Build(o, i) == IF Builds(o, i) THEN Plan(o, i) ELSE Rejected

-----------------------------------------------------------------------------
(* governance.py.  Allows are united, the strongest limit wins, denies add *)
(* up, and a reference is required only when every role requires one.      *)

Known(o, roles) == roles \cap DOMAIN o.roles
Allowed(v, rules) == Star \in rules \/ v \in rules
AllowedEntities(o, roles) == UNION {o.roles[r].entities : r \in Known(o, roles)}
AllowedMetrics(o, roles) == UNION {o.roles[r].metrics : r \in Known(o, roles)}
DeniedProperties(o, roles) == UNION {o.roles[r].denied : r \in Known(o, roles)}
WithinLimit(x, limits) == \E limit \in limits : x <= limit

EffectiveRoles(ctx) == IF ctx.roles = {} THEN {Analyst} ELSE ctx.roles

\* A row policy whose entity, property or attribute is unknown is passed over.
RowFilters(o, ctx) ==
  LET rules == UNION {o.rows[r] : r \in EffectiveRoles(ctx) \cap DOMAIN o.rows} IN
    {[entity |-> p.entity, prop |-> p.prop, value |-> ctx.attributes[p.attr]] :
       p \in {x \in rules : /\ x.entity \in DOMAIN o.entities
                            /\ x.prop \in o.entities[x.entity].props
                            /\ x.attr \in DOMAIN ctx.attributes}}

\* A dimension that names no property is not compared with the denied ones.
IntentAllowed(o, i, roles) ==
  /\ Known(o, roles) # {}
  /\ Allowed(i.subject, AllowedEntities(o, roles))
  /\ \A m \in Range(i.metrics) : Allowed(m, AllowedMetrics(o, roles))
  /\ WithinLimit(i.days, {o.roles[r].days : r \in Known(o, roles)})
  /\ (\A r \in Known(o, roles) : o.roles[r].subject) => i.reference
  /\ \A d \in i.dims : d.prop \notin DeniedProperties(o, roles)
  /\ \A f \in i.filters : f.prop \notin DeniedProperties(o, roles)

ApplyIntent(o, i, ctx) == [i EXCEPT !.filters = @ \cup RowFilters(o, ctx)]

\* In ten thousandths, so that every weight and factor is an integer.
Cost(o, i, plan) ==
  LET catalogs == Cardinality({o.entities[e].catalog : e \in plan.tables})
      base == 800 + 15 * i.days + 1000 * (Cardinality(plan.required) - 1)
              + 700 * (Len(i.metrics) - 1) + 800 * Cardinality(i.dims)
              + 300 * Cardinality(i.filters)
              + IF catalogs > 1 THEN 1800 * (catalogs - 1) ELSE 0
  IN base * (IF i.compare THEN 2 ELSE 1) * (IF catalogs > 1 THEN 115 ELSE 100)

PlanAllowed(o, i, plan, roles) ==
  /\ \A e \in plan.required : Allowed(e, AllowedEntities(o, roles))
  /\ WithinLimit(Cost(o, i, plan), {10000 * o.roles[r].cost : r \in Known(o, roles)})

(* guardrail.py: only tables of the plan, and a bound on time series.      *)
StatementAllowed(o, s, plan) ==
  /\ s.tables \subseteq plan.tables
  /\ (\E e \in s.tables : o.entities[e].series) => s.bounded

\* _compile_governed_plan: intent, plan, decision, statements, in this order.
Compile(o, intent, ctx) ==
  LET roles == EffectiveRoles(ctx)
      i == ApplyIntent(o, intent, ctx)
      plan == Build(o, i)
  IN IF /\ IntentAllowed(o, intent, roles) /\ plan.ok
        /\ PlanAllowed(o, i, plan, roles)
        /\ \A s \in plan.statements : StatementAllowed(o, s, plan)
     THEN plan ELSE Rejected
=============================================================================
