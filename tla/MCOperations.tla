------------------------------ MODULE MCOperations ------------------------------
(***************************************************************************)
(* The operational services side by side.  They share the process and the  *)
(* repository but no row, so a behaviour exercises one of them, its focus, *)
(* and the state spaces add up instead of multiplying.                     *)
(***************************************************************************)
EXTENDS KnowledgeLifecycle, ModelGovernance, Collaboration, EnterpriseAccess, Onboarding

VARIABLE focus

Foci == {"cases", "documents", "records", "models", "items", "escalation", "handovers",
         "identity", "audit", "legacy", "bindings", "sources", "templates"}

\* The older version left rows only where they are imported.
MCInit == KInit /\ MInit /\ CoInit /\ EInit /\ OInit /\ focus \in Foci /\ (audits # <<>> <=> focus = "legacy")

Others(f) ==
  /\ f \notin {"cases", "documents", "records"} => UNCHANGED kvars
  /\ f # "models" => UNCHANGED mvars
  /\ f \notin {"items", "escalation", "handovers"} => UNCHANGED covars
  /\ f \notin {"identity", "audit", "legacy"} => UNCHANGED evars
  /\ f \notin {"bindings", "sources", "templates"} => UNCHANGED ovars

On(f) == focus = f /\ Others(f) /\ UNCHANGED focus

\* Bounds of a focus: fewer requests, or a subset of them, where they multiply.
CasesOf ==
  /\ On("cases")
  /\ \E w \in KWorkers : CaseRequest(w) \/ HandlerStep(w) \/ FailHandler(w)
DocumentsOf ==
  /\ On("documents")
  /\ \/ \E w \in KWorkers : (calls < 3 /\ DocRequest(w)) \/ HandlerStep(w) \/ FailHandler(w)
     \/ Restart
RecordsOf ==
  /\ On("records")
  /\ \/ \E w \in KWorkers : (calls < 3 /\ RecordRequest(w)) \/ HandlerStep(w) \/ FailHandler(w)
     \/ Restart
ModelsOf ==
  On("models")
  /\ \E w \in MWorkers : ModelRequest(w) \/ SlotRequest(w) \/ ModelStep(w) \/ FailModelHandler(w)

CoSteps == \E w \in CoWorkers : CoStep(w) \/ FailCoHandler(w)
ItemsOf == On("items") /\ (CoSteps \/ \E w \in CoWorkers : ItemRequest(w))
EscalationOf ==
  /\ On("escalation")
  /\ \/ CoSteps \/ Tick
     \/ \E w \in CoWorkers : EscalationRequest(w)
     \/ \E w \in CoWorkers, i \in Items : SetSla(w, i, now + 1)
HandoversOf ==
  On("handovers") /\ (CoSteps \/ \E w \in CoWorkers : HandoverRequest(w) \/ OrderRequest(w))

ESteps == \E w \in EWorkers : EStep(w) \/ FailEHandler(w)
IdentityOf ==
  On("identity") /\ (ESteps \/ \E w \in EWorkers : ecalls < 2 /\ (IdentityRequest(w) \/ AccessRequest(w)))
AuditOf ==
  /\ On("audit")
  /\ \/ ESteps \/ NextDay
     \/ \E w \in EWorkers : ecalls < 2 /\ (AuditRequest(w) \/ HistoryRequest(w) \/ RejectToken(w))
\* Imported, purged and imported again.
LegacyOf == On("legacy") /\ (ESteps \/ NextDay \/ \E w \in EWorkers : ImportLegacy(w) \/ EnforceRetention(w))

OSteps == \E w \in OWorkers : OStep(w) \/ FailOHandler(w)
\* Two sessions of one name, both confirmed, and a post or an approval besides.
BindingsOf == On("bindings") /\ (OSteps \/ \E w \in OWorkers : WizardRequest(w) \/ BindingRequest(w))
SourcesOf ==
  On("sources") /\ (OSteps \/ \E w \in OWorkers : ocalls < 3 /\ (WizardRequest(w) \/ SourceRequest(w)))
TemplatesOf == On("templates") /\ (OSteps \/ \E w \in OWorkers : ocalls < 3 /\ TemplateRequest(w))

MCNext == \/ CasesOf \/ DocumentsOf \/ RecordsOf \/ ModelsOf \/ ItemsOf \/ EscalationOf \/ HandoversOf
          \/ IdentityOf \/ AuditOf \/ LegacyOf \/ BindingsOf \/ SourcesOf \/ TemplatesOf

MCSpec == MCInit /\ [][MCNext]_<<kvars, mvars, covars, evars, ovars, focus>>

TypesOK == KTypeOK /\ MTypeOK /\ CoTypeOK /\ ETypeOK /\ OTypeOK

\* Scopes of principals: everything, one site, one asset of no particular site.
MCScopes == {[perms |-> {"read"}, sites |-> {"s1"}, assets |-> {}],
             [perms |-> {"read"}, sites |-> {}, assets |-> {"a1"}],
             [perms |-> {}, sites |-> {}, assets |-> {}]}

\* What the older version left: nothing, or one row.
MCLegacyRows == {<<>>} \cup {<<[from |-> Legacy[i], good |-> FALSE, day |-> 0]>> : i \in DOMAIN Legacy}

\* Templates: sound, with a repeated relationship, with one that leads nowhere.
MCContents == {[entities |-> {"a"}, rels |-> <<>>],
               [entities |-> {"a"}, rels |-> <<[from |-> "a", to |-> "a"], [from |-> "a", to |-> "a"]>>],
               [entities |-> {"a"}, rels |-> <<[from |-> "a", to |-> "b"]>>]}
=============================================================================
