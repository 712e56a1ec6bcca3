--------------------------- MODULE MCSemanticModel ---------------------------
(***************************************************************************)
(* SemanticModel with one base definition of each kind, two candidates for *)
(* one new entity and a template that overlaps both.                       *)
(***************************************************************************)
EXTENDS SemanticModel, TLC

CONSTANTS e1, e2, r1, r2, m1, m2, a1, c1, c2, base, edit, tmpl, f1, f2

Expr(x) == "expression" :> x
Governed == Expr(base) @@ ("time_field" :> base)
MCMetricDefs == {Governed, Expr(edit), Expr(tmpl), Expr(c1),
                 Expr(edit) @@ ("time_field" :> base), Expr(tmpl) @@ ("time_field" :> base),
                 Expr(c1) @@ ("time_field" :> base)}
MCBase == [ents |-> e1 :> base, rels |-> {r1}, mets |-> m1 :> Governed]
MCCand == (c1 :> [entity |-> e2, rels |-> {r2}, mets |-> m2 :> Expr(c1), conf |-> 1, place |-> 1])
       @@ (c2 :> [entity |-> e2, rels |-> {}, mets |-> Nowhere, conf |-> 2, place |-> 2])
MCTemplates == {[ents |-> (e1 :> tmpl) @@ (e2 :> tmpl), rels |-> {r1, r2},
                 mets |-> (m1 :> Expr(tmpl)) @@ (m2 :> Expr(tmpl)), aliases |-> a1 :> f1]}
MCImports == {("custom" :> [ents |-> e2 :> edit, rels |-> NoRels]) @@ ("approved" :> NoneApproved),
              "candidates" :> [NoReviews EXCEPT ![c1] = "approved"]}
MCEntityEdits == {<<e1, edit>>}
MCRelEdits == {{r1, r2}}
MCMetricEdits == {<<m1, Expr(edit)>>}
MCAliasEdits == {a1 :> f2}
=============================================================================
