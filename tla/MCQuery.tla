-------------------------------- MODULE MCQuery --------------------------------
(***************************************************************************)
(* A plant, a plant whose observations hang from a meter as well as from   *)
(* the machine, and for the planning operators every small graph and every *)
(* small dependency graph.                                                 *)
(***************************************************************************)
EXTENDS GovernedQuery

Entity(props, dated, series, catalog) ==
  [props |-> props, default |-> "name", dated |-> dated, series |-> series, catalog |-> catalog]
Rel(x, y) == [from |-> x, to |-> y]
Metric(entity, deps) == [entity |-> entity, deps |-> deps, timed |-> entity # "none"]

Plant == [
  entities |-> [Line |-> Entity({"name", "line"}, FALSE, FALSE, "mes"),
                Machine |-> Entity({"name", "line"}, FALSE, FALSE, "mes"),
                Energy |-> Entity({"name"}, TRUE, TRUE, "iot"),
                Alarm |-> Entity({"name"}, TRUE, TRUE, "iot"),
                Order |-> Entity({"name"}, TRUE, FALSE, "mes")],
  rels |-> <<Rel("Line", "Machine"), Rel("Machine", "Energy"), Rel("Machine", "Alarm"), Rel("Machine", "Order")>>,
  metrics |-> [energy |-> Metric("Energy", <<>>), alarms |-> Metric("Alarm", <<>>),
               ratio |-> Metric("none", <<"energy", "alarms">>)]]

\* Machine and Energy are two joins apart in two ways; the order of the
\* relationships decides which one each end prefers.
Metered == [Plant EXCEPT
  !.entities = @ @@ ("Meter" :> Entity({"name"}, FALSE, FALSE, "iot")),
  !.rels = <<Rel("Machine", "Line"), Rel("Energy", "Meter"), Rel("Machine", "Meter"),
             Rel("Line", "Energy"), Rel("Machine", "Alarm"), Rel("Machine", "Order")>>]

Graph(nodes, rels) ==
  [entities |-> [e \in nodes |-> Entity({"name"}, FALSE, FALSE, "mes")], rels |-> rels, metrics |-> <<>>]
Ends == {"a", "b", "c", "d"}
SmallGraphs == {Graph(Ends, <<Rel("a", x), Rel("c", y), Rel("d", z)>>) : x, y, z \in Ends}
Chain == Graph(Ends \cup {"e", "f"},
               <<Rel("a", "b"), Rel("c", "b"), Rel("c", "d"), Rel("e", "d"), Rel("e", "f")>>)
Pair == Graph({"a", "b"}, <<Rel("b", "a")>>)

Lists == {<<>>, <<"m1">>, <<"m2">>, <<"m2", "m3">>, <<"unknown">>}
SmallMetrics == {[Pair EXCEPT !.metrics = [m1 |-> Metric("a", x), m2 |-> Metric("b", y), m3 |-> Metric("none", z)]] :
                   x, y, z \in Lists}

Analyst0 == [entities |-> {"*"}, metrics |-> {"*"}, denied |-> {}, days |-> 365, cost |-> 250, subject |-> FALSE]
Operator0 == [entities |-> {"Machine", "Energy", "Line"}, metrics |-> {"energy"}, denied |-> {"line"},
              days |-> 31, cost |-> 80, subject |-> TRUE]
WithPolicies(o, roles, rows) ==
  [entities |-> o.entities, rels |-> o.rels, metrics |-> o.metrics, roles |-> roles, rows |-> rows]

\* Before and after a reload of the policies: scoped callers get a second row
\* filter, analysts less budget, and operators lose the lines.
Wide(o) == WithPolicies(o, [analyst |-> Analyst0, operator |-> Operator0],
                        [scoped |-> {[entity |-> "Machine", prop |-> "line", attr |-> "line_id"]}])
Tight(o) == WithPolicies(o, [analyst |-> [Analyst0 EXCEPT !.cost = 200],
                             operator |-> [Operator0 EXCEPT !.entities = {"Machine", "Energy"}]],
                         [scoped |-> {[entity |-> "Machine", prop |-> "line", attr |-> "line_id"],
                                      [entity |-> "Line", prop |-> "name", attr |-> "line_id"]}])
\* No definition tells the threads apart.
MCSymmetry == Permutations(QWorkers)

MCModels == {Wide(Plant), Wide(Metered), Tight(Plant)}
MCOntologies == MCModels \cup SmallGraphs \cup {Chain, Pair} \cup SmallMetrics

Question(metrics, dims, diagnostic) ==
  [entities |-> <<>>, reference |-> TRUE, metrics |-> metrics, consumption |-> TRUE,
   dims |-> dims, days |-> 7, compare |-> FALSE, diagnostic |-> diagnostic, evidence |-> {"Order"}]
ByLine == {[entity |-> "Line", prop |-> "name"]}
MCQuestions == {Question(<<"ratio">>, ByLine, TRUE), Question(<<>>, {}, FALSE)}

MCContexts == {[roles |-> {"analyst", "scoped"}, attributes |-> [line_id |-> "L1"]],
               [roles |-> {"operator"}, attributes |-> <<>>]}
=============================================================================
