---------------------------- MODULE EnterpriseAccess ----------------------------
(***************************************************************************)
(* Who may reach which enterprise resource, and what is recorded of it:    *)
(* tenants, organizations, sites and principals; authentication with       *)
(* auto-provisioning; the scope check and the scope filter; the audit      *)
(* center with its policies, violations, retention and legacy import; and  *)
(* the HTTP middleware that ties them together.                            *)
(***************************************************************************)
EXTENDS Naturals, Sequences, FiniteSets

CONSTANTS
  EWorkers,        \* threads that serve requests
  Tenants, DefaultTenant,
  Orgs, Sites,     \* organizations and sites; both may be missing in a row
  Nowhere,         \* a field a row does not have
  Assets,
  Subjects,        \* subjects of tokens
  Operations,      \* <<resource type, action>> pairs
  Scopes,          \* [perms, sites, assets] a principal may be given; {} is all
  AutoProvision,   \* AUTH_AUTO_PROVISION
  CompliancePolicies,
  LegacyRows,      \* what the older version may have left in the audit collections
  MaxDay,          \* bound: days the clock counts
  MaxECalls,       \* bound: requests served in a behaviour
  MaxEDeaths       \* bound: handlers that die or fail half way

\* The collections an import normalizes, in its order; which of them a row is from,
\* whether what it tells of went well, and the day it was written.
Legacy == <<"authentication", "access", "secret", "query", "batch", "letter">>
AuditRow == [from : {Legacy[i] : i \in DOMAIN Legacy}, good : BOOLEAN, day : Nat]

ASSUME EAssumption == /\ DefaultTenant \in Tenants
                      /\ Nowhere \notin Orgs \cup Sites \cup Assets
                      /\ \A s \in Scopes : /\ s.perms \subseteq Operations
                                           /\ s.sites \subseteq Sites /\ s.assets \subseteq Assets
                      /\ AutoProvision \in BOOLEAN /\ LegacyRows \subseteq Seq(AuditRow)
                      /\ MaxDay \in Nat /\ MaxECalls \in Nat /\ MaxEDeaths \in Nat

VARIABLES
  day,
  tenants,      \* enterprise_tenants
  orgs,         \* enterprise_organizations: org -> tenant
  sites,        \* enterprise_sites: site -> [tenant, org]
  principals,   \* enterprise_principals: id -> row
  audits,       \* the six collections of Legacy, and their rows: id -> [from, good, day]
  spans,        \* observability_spans: how many there are
  auditEvents,  \* enterprise_audit_events: id -> [bad, day]
  watched,      \* compliance_policies that are enabled; they match every event
  violations,   \* compliance_violations: <<event, policy>> -> status
  retention,    \* audit_retention_policy, in days
  fresh,        \* source of uuids
  etodo, ecalls, edeaths

estores == <<tenants, orgs, sites, principals, audits, spans, auditEvents, watched,
             violations, retention>>
evars == <<day, estores, fresh, etodo, ecalls, edeaths>>

\* A principal an administrator made, or the one provisioned for a token.
PrincipalIds == Subjects \cup (Tenants \X Subjects)
PrincipalRow == [tenant : Tenants, status : {"active", "inactive"}, scope : Scopes]
Resource == [tenant : Tenants, site : Sites \cup {Nowhere}, asset : Assets \cup {Nowhere}]

EPut(store, key, row) ==
  [k \in DOMAIN store \cup {key} |-> IF k = key THEN row ELSE store[k]]

EInit ==
  /\ day = 0 /\ tenants = {DefaultTenant} /\ orgs = <<>> /\ sites = <<>> /\ principals = <<>>
  /\ audits \in LegacyRows /\ spans = 0 /\ auditEvents = <<>> /\ watched = {} /\ violations = <<>>
  /\ retention = 1 /\ fresh = Len(audits) + 1
  /\ etodo = [w \in EWorkers |-> <<>>] /\ ecalls = 0 /\ edeaths = 0

Emits(bad) == <<[do |-> "emit", bad |-> bad]>>
Audits(from, good) == <<[do |-> "audit", from |-> from, good |-> good]>>
Puts(kind, key, row) == <<[do |-> "put", kind |-> kind, key |-> key, row |-> row]>>

\* The middleware: a span and an audit event for every answer; 4xx is a failure.
Answered(ok) == <<[do |-> "span"]>> \o Emits(~ok)

EServe(w, steps) ==
  /\ etodo[w] = <<>> /\ ecalls < MaxECalls
  /\ etodo' = [etodo EXCEPT ![w] = steps]
  /\ ecalls' = ecalls + 1
  /\ UNCHANGED <<day, estores, fresh, edeaths>>

NextDay == day < MaxDay /\ day' = day + 1 /\ UNCHANGED <<estores, fresh, etodo, ecalls, edeaths>>

-----------------------------------------------------------------------------
(* The identity store.  An upsert checks what it refers to, reads the row  *)
(* and puts it back merged with the payload.                               *)

UpsertTenant(w, t) == EServe(w, Puts("tenant", t, t) \o Answered(TRUE))
UpsertOrg(w, o, t) == t \in tenants /\ EServe(w, Puts("org", o, t) \o Answered(TRUE))

\* Mutant: the organization is not looked up.
UpsertSiteUnchecked(w, s, t, o) ==
  t \in tenants /\ EServe(w, Puts("site", s, [tenant |-> t, org |-> o]) \o Answered(TRUE))

UpsertSite(w, s, t, o) ==
  /\ t \in tenants
  /\ o # Nowhere => o \in DOMAIN orgs /\ orgs[o] = t
  /\ EServe(w, Puts("site", s, [tenant |-> t, org |-> o]) \o Answered(TRUE))

UpsertPrincipal(w, id, row) ==
  row.tenant \in tenants /\ EServe(w, Puts("principal", id, row) \o Answered(TRUE))

-----------------------------------------------------------------------------
(* Scope: check decides about one resource, filter about a list of them.   *)

\* check goes down a ladder and stops at the first reason to deny.
CheckReason(scope, tenant, op, r) ==
  IF op \notin scope.perms THEN "permission denied"
  ELSE IF r.tenant # tenant THEN "tenant scope mismatch"
  ELSE IF r.site # Nowhere /\ scope.sites # {} /\ r.site \notin scope.sites THEN "site scope mismatch"
  ELSE IF r.asset # Nowhere /\ scope.assets # {} /\ r.asset \notin scope.assets THEN "asset scope mismatch"
  ELSE "allowed"

\* Mutant: a list is not narrowed to the assets.
FilterResourcesOfSites(scope, tenant, op, rows) ==
  IF op \notin scope.perms THEN {}
  ELSE {r \in rows : r.tenant = tenant /\ (r.site = Nowhere \/ scope.sites = {} \/ r.site \in scope.sites)}

\* filter_resources has its own copy of the conditions.
FilterResources(scope, tenant, op, rows) ==
  IF op \notin scope.perms THEN {}
  ELSE {r \in rows : /\ r.tenant = tenant
                     /\ r.site = Nowhere \/ scope.sites = {} \/ r.site \in scope.sites
                     /\ r.asset = Nowhere \/ scope.assets = {} \/ r.asset \in scope.assets}

\* An inactive or unknown principal is refused before anything is recorded.
Check(w, id, op, r) ==
  /\ id \in DOMAIN principals
  /\ LET p == principals[id]
         ok == p.status = "active" /\ CheckReason(p.scope, p.tenant, op, r) = "allowed" IN
       EServe(w, (IF p.status = "active" THEN Audits("access", ok) ELSE <<>>) \o Answered(p.status = "active"))

Filter(w, id, op) ==
  /\ id \in DOMAIN principals
  /\ LET p == principals[id] IN
       EServe(w, (IF p.status = "active" THEN Audits("access", op \in p.scope.perms) ELSE <<>>)
                 \o Answered(p.status = "active"))

-----------------------------------------------------------------------------
(* Authentication.                                                         *)

\* The principal named by the subject itself, or one provisioned for it before.
Existing(s) == {id \in DOMAIN principals : id = s \/ id \in Tenants \X {s}}

Refused == Audits("authentication", FALSE) \o Emits(TRUE) \o Answered(FALSE)

\* A token with a bad signature, an expired one, or none at all.
RejectToken(w) == EServe(w, Refused)

\* A handler that finds its payload wrong or its row missing answers 4xx.
RefuseRequest(w) == EServe(w, Answered(FALSE))

\* What a handler raises beyond that passes through the middleware, which catches only
\* failed authentication: the request leaves neither span nor event.  One that wrote
\* something before it raised is FailEHandler.
RaiseUnhandled(w) == EServe(w, <<>>)

\* The principal is the direct one if there is one.
Login(w, s) ==
  \E id \in Existing(s) :
    /\ s \in DOMAIN principals => id = s
    /\ EServe(w, IF principals[id].status = "active" THEN Audits("authentication", TRUE) \o Answered(TRUE) ELSE Refused)

FirstLogin(w, s, t, scope) ==
  /\ Existing(s) = {}
  /\ EServe(w, IF AutoProvision /\ t \in tenants
               THEN Puts("principal", <<t, s>>, [tenant |-> t, status |-> "active", scope |-> scope])
                    \o Audits("authentication", TRUE) \o Answered(TRUE)
               ELSE Refused)

-----------------------------------------------------------------------------
(* The other histories that are imported.                                  *)

\* A secret that does not resolve is an answer like any other.
CheckSecret(w, good) == EServe(w, Audits("secret", good) \o Answered(TRUE))

\* A question keeps its row and emits its event before it is answered.
RunQuery(w, good) == EServe(w, Audits("query", good) \o Emits(~good) \o Answered(good))

\* A connector's batch: what it could not process is parked, then its row is put.
SubmitBatch(w, good) ==
  EServe(w, (IF good THEN <<>> ELSE Audits("letter", FALSE)) \o Audits("batch", good) \o Answered(TRUE))

-----------------------------------------------------------------------------
(* The audit center.                                                       *)

AddPolicy(w, p) == EServe(w, Puts("policy", p, p) \o Answered(TRUE))
SetRetention(w, d) == EServe(w, Puts("retention", d, d) \o Answered(TRUE))

ResolveViolation(w, v) ==
  v \in DOMAIN violations /\ EServe(w, Puts("violation", v, "resolved") \o Answered(TRUE))

\* The events to delete are listed once, with the retention of that moment.
EnforceRetention(w) ==
  LET old == {e \in DOMAIN auditEvents : auditEvents[e].day + retention < day} IN
    EServe(w, <<[do |-> "purge", left |-> old]>> \o Answered(TRUE))

\* Where an import is: the collection it lists or has listed, and the rows left of it.
Imports(at, left) == <<[do |-> "import", at |-> at, left |-> left]>>
ImportLegacy(w) == EServe(w, Imports(0, {}) \o Answered(TRUE))

\* Every process imports when it starts, and answers nobody.
StartUp(w) == EServe(w, Imports(0, {}))

-----------------------------------------------------------------------------
(* The steps of a handler.                                                 *)

Head1(w, what) == etodo[w] # <<>> /\ Head(etodo[w]).do = what
Continue(w, steps) == etodo' = [etodo EXCEPT ![w] = steps \o Tail(@)]

PutRow(w) ==
  /\ Head1(w, "put")
  /\ LET s == Head(etodo[w]) IN
       /\ tenants' = IF s.kind = "tenant" THEN tenants \cup {s.key} ELSE tenants
       /\ orgs' = IF s.kind = "org" THEN EPut(orgs, s.key, s.row) ELSE orgs
       /\ sites' = IF s.kind = "site" THEN EPut(sites, s.key, s.row) ELSE sites
       /\ principals' = IF s.kind = "principal" THEN EPut(principals, s.key, s.row) ELSE principals
       /\ watched' = IF s.kind = "policy" THEN watched \cup {s.key} ELSE watched
       /\ violations' = IF s.kind = "violation" THEN EPut(violations, s.key, s.row) ELSE violations
       /\ retention' = IF s.kind = "retention" THEN s.row ELSE retention
  /\ Continue(w, <<>>)
  /\ UNCHANGED <<day, audits, spans, auditEvents, fresh, ecalls, edeaths>>

PutAudit(w) ==
  /\ Head1(w, "audit")
  /\ audits' = EPut(audits, fresh, [from |-> Head(etodo[w]).from, good |-> Head(etodo[w]).good, day |-> day])
  /\ fresh' = fresh + 1
  /\ Continue(w, <<>>)
  /\ UNCHANGED <<day, tenants, orgs, sites, principals, spans, auditEvents, watched, violations, retention,
                 ecalls, edeaths>>

RecordSpan(w) ==
  /\ Head1(w, "span")
  /\ spans' = spans + 1
  /\ Continue(w, <<>>)
  /\ UNCHANGED <<day, tenants, orgs, sites, principals, audits, auditEvents, watched, violations, retention,
                 fresh, ecalls, edeaths>>

\* A denied or failed event violates the built-in policy.
Evaluates(e, bad) ==
  (IF bad THEN <<[do |-> "violate", key |-> <<e, "builtin">>]>> ELSE <<>>)
  \o <<[do |-> "policies", key |-> e]>>

StoreEvent(w) ==
  /\ Head1(w, "emit")
  /\ LET e == <<"new", fresh>> IN
       /\ auditEvents' = EPut(auditEvents, e, [bad |-> Head(etodo[w]).bad, day |-> day])
       /\ Continue(w, Evaluates(e, Head(etodo[w]).bad))
  /\ fresh' = fresh + 1
  /\ UNCHANGED <<day, tenants, orgs, sites, principals, audits, spans, watched, violations, retention,
                 ecalls, edeaths>>

\* The policies are listed after the built-in one was applied.
MatchPolicies(w) ==
  /\ Head1(w, "policies")
  /\ \E order \in [1..Cardinality(watched) -> watched] :
       /\ \A p \in watched : \E i \in DOMAIN order : order[i] = p
       /\ Continue(w, [i \in DOMAIN order |-> [do |-> "violate", key |-> <<Head(etodo[w]).key, order[i]>>]])
  /\ UNCHANGED <<day, estores, fresh, ecalls, edeaths>>

\* A violation that exists, resolved or not, stays as it is.
Violate(w) ==
  /\ Head1(w, "violate")
  /\ LET v == Head(etodo[w]).key IN
       Continue(w, IF v \in DOMAIN violations THEN <<>> ELSE Puts("violation", v, "open"))
  /\ UNCHANGED <<day, estores, fresh, ecalls, edeaths>>

RowsOf(from) == {a \in DOMAIN audits : audits[a].from = from}

\* Mutant: a denial, which is told by another field, is not looked for.
CondemnedBySuccess(row) == row.from = "letter" \/ (row.from \notin {"access", "batch"} /\ ~row.good)

\* Access rows say "allowed", the others "success", and only a field that says no makes a
\* failure of a row.  A letter is one; a batch has neither field, whatever became of it.
Condemned(row) == row.from = "letter" \/ (row.from # "batch" /\ ~row.good)

\* Each row becomes an event under an id of its own, with the day of the row if it has one.
LegacyEvent(row) == [bad |-> Condemned(row), day |-> IF row.from = "batch" THEN day ELSE row.day]

\* A collection is listed when the one before it is done.
ImportRow(w) ==
  /\ Head1(w, "import")
  /\ LET at == Head(etodo[w]).at
         left == Head(etodo[w]).left IN
       \/ left = {} /\ at = Len(Legacy) /\ Continue(w, <<>>) /\ UNCHANGED auditEvents
       \/ left = {} /\ at < Len(Legacy) /\ Continue(w, Imports(at + 1, RowsOf(Legacy[at + 1])))
          /\ UNCHANGED auditEvents
       \/ \E a \in left :
            IF <<"legacy", a>> \in DOMAIN auditEvents
            THEN Continue(w, Imports(at, left \ {a})) /\ UNCHANGED auditEvents
            ELSE /\ auditEvents' = EPut(auditEvents, <<"legacy", a>>, LegacyEvent(audits[a]))
                 /\ Continue(w, Evaluates(<<"legacy", a>>, Condemned(audits[a])) \o Imports(at, left \ {a}))
  /\ UNCHANGED <<day, tenants, orgs, sites, principals, audits, spans, watched, violations, retention,
                 fresh, ecalls, edeaths>>

PurgeEvent(w) ==
  /\ Head1(w, "purge")
  /\ LET left == Head(etodo[w]).left IN
       \/ left = {} /\ Continue(w, <<>>) /\ UNCHANGED auditEvents
       \/ \E e \in left :
            /\ auditEvents' = [k \in DOMAIN auditEvents \ {e} |-> auditEvents[k]]
            /\ Continue(w, <<[do |-> "purge", left |-> left \ {e}]>>)
  /\ UNCHANGED <<day, tenants, orgs, sites, principals, audits, spans, watched, violations, retention,
                 fresh, ecalls, edeaths>>

FailEHandler(w) ==
  /\ etodo[w] # <<>> /\ edeaths < MaxEDeaths
  /\ etodo' = [etodo EXCEPT ![w] = <<>>]
  /\ edeaths' = edeaths + 1
  /\ UNCHANGED <<day, estores, fresh, ecalls>>

-----------------------------------------------------------------------------
IdentityRequest(w) ==
  \/ \E t \in Tenants : UpsertTenant(w, t) \/ \E o \in Orgs : UpsertOrg(w, o, t)
  \/ \E t \in Tenants, s \in Sites, o \in Orgs \cup {Nowhere} : UpsertSite(w, s, t, o)
  \/ \E id \in PrincipalIds, row \in PrincipalRow : UpsertPrincipal(w, id, row)

AccessRequest(w) ==
  \/ \E id \in PrincipalIds, op \in Operations : Filter(w, id, op) \/ \E r \in Resource : Check(w, id, op, r)
  \/ RejectToken(w) \/ RefuseRequest(w) \/ RaiseUnhandled(w)
  \/ \E s \in Subjects : Login(w, s) \/ \E t \in Tenants, scope \in Scopes : FirstLogin(w, s, t, scope)

HistoryRequest(w) ==
  \E good \in BOOLEAN : CheckSecret(w, good) \/ RunQuery(w, good) \/ SubmitBatch(w, good)

AuditRequest(w) ==
  \/ \E p \in CompliancePolicies : AddPolicy(w, p)
  \/ \E d \in 1..2 : SetRetention(w, d)
  \/ \E v \in DOMAIN violations : ResolveViolation(w, v)
  \/ EnforceRetention(w) \/ ImportLegacy(w) \/ StartUp(w)

EStep(w) ==
  \/ PutRow(w) \/ PutAudit(w) \/ RecordSpan(w) \/ StoreEvent(w) \/ MatchPolicies(w) \/ Violate(w)
  \/ ImportRow(w) \/ PurgeEvent(w)

ENext ==
  \/ \E w \in EWorkers : \/ IdentityRequest(w) \/ AccessRequest(w) \/ HistoryRequest(w) \/ AuditRequest(w)
                         \/ EStep(w) \/ FailEHandler(w)
  \/ NextDay

ESpec == EInit /\ [][ENext]_evars

-----------------------------------------------------------------------------
ETypeOK ==
  /\ tenants \subseteq Tenants
  /\ DOMAIN orgs \subseteq Orgs /\ \A o \in DOMAIN orgs : orgs[o] \in tenants
  /\ DOMAIN sites \subseteq Sites
  /\ \A s \in DOMAIN sites : sites[s].tenant \in tenants /\ sites[s].org \in DOMAIN orgs \cup {Nowhere}
  /\ DOMAIN principals \subseteq PrincipalIds
  /\ \A id \in DOMAIN principals : principals[id] \in PrincipalRow /\ principals[id].tenant \in tenants
  /\ \A v \in DOMAIN violations : violations[v] \in {"open", "resolved"}

\* A resource is in the filtered list exactly when a check of it would be allowed:
\* the two are separate copies of the same rules (enterprise_identity.py, check and
\* filter_resources).
FilterAgreesWithCheck ==
  \A id \in DOMAIN principals, op \in Operations :
    LET p == principals[id] IN
      FilterResources(p.scope, p.tenant, op, Resource)
        = {r \in Resource : CheckReason(p.scope, p.tenant, op, r) = "allowed"}

\* Nothing that was denied or that failed and has an event goes unnoticed: once the
\* handlers are done and none failed, each such event has its built-in violation, and so
\* has every row of the older audits that tells of a denial or a failure and has its
\* event, imported once or, after a purge, again.  Not so a failed batch, whose row has
\* no field that says so (audit_center.py, import_legacy and _evaluate_native_event;
\* docs/ARCHITECTURE_V2_8.md, audit and compliance center).
DeniedIsViolation ==
  (edeaths = 0 /\ \A w \in EWorkers : etodo[w] = <<>>) =>
    /\ \A e \in DOMAIN auditEvents : auditEvents[e].bad => <<e, "builtin">> \in DOMAIN violations
    /\ \A a \in DOMAIN audits :
         <<"legacy", a>> \in DOMAIN auditEvents /\ ~audits[a].good /\ audits[a].from # "batch"
           => <<<<"legacy", a>>, "builtin">> \in DOMAIN violations
=============================================================================
