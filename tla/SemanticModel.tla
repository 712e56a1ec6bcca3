---------------------------- MODULE SemanticModel ----------------------------
(***************************************************************************)
(* app/semantic.py with review_store.py, template_apply.py, lineage.py,    *)
(* field_aliases.py, import_config and their handlers in main.py, in one   *)
(* API process.                                                            *)
(*                                                                         *)
(* The registry is the merge of four files.  Whoever changes one of them   *)
(* holds semantic_write_lock for the whole handler ("job"), so waiting     *)
(* handlers have no state; candidates alone are saved without it ("scan"). *)
(* A write that replaces its file atomically and fails changes nothing:    *)
(* for an edit that is no step at all.                                     *)
(***************************************************************************)
EXTENDS Integers, Sequences, FiniteSets, Functions

CONSTANTS
  Entities, Rels, Metrics, Aliases,  \* names; a relationship is its key
  Defs,         \* definitions of an entity; a candidate is its own definition
  MetricDefs,   \* definitions of a metric: functions on some of its fields
  Targets,      \* the fields an alias can stand for
  Base,         \* ontology.yaml and metrics.yaml: [ents, rels, mets]
  Candidates,   \* scanned tables
  Cand,         \* [Candidates -> [entity, rels, mets, conf, place in the review file]]
  Posted,       \* statuses of the candidates clients post
  Templates,    \* industry templates: [ents, rels, mets, aliases]
  Imports,      \* payloads of admin/import, as functions on the parts they carry
  EntityEdits, RelEdits, MetricEdits, AliasEdits,  \* what the editors send
  Absent,       \* no custom_ontology.yaml, or an empty one
  NoRels,       \* a custom ontology without the key "relationships"
  VersionKeep,  \* versions the list keeps (200 in the code)
  MaxRequests, MaxFailures, MaxCrashes  \* bounds: requests, failed calls, restarts

PartialFn(S, T) == UNION {[D -> T] : D \in SUBSET S}
Nowhere == [n \in {} |-> n]

\* Definitions of the upper layer win.
Overlay(over, under) ==
  [n \in DOMAIN over \cup DOMAIN under |-> IF n \in DOMAIN over THEN over[n] ELSE under[n]]
Set(f, n, v) == Overlay([x \in {n} |-> v], f)
Without(f, S) == Restrict(f, DOMAIN f \ S)

EntLayers == PartialFn(Entities, Defs)
MetLayers == PartialFn(Metrics, MetricDefs)
Models == [ents : EntLayers, rels : SUBSET Rels, mets : MetLayers]
ApprovedFiles == [ents : EntLayers, rels : SUBSET Rels]
CustomFiles == [ents : EntLayers, rels : (SUBSET Rels) \cup {NoRels}] \cup {Absent}
AliasFiles == PartialFn(Aliases, Targets)
Bundles == [ents : EntLayers, rels : SUBSET Rels, mets : MetLayers, aliases : AliasFiles]
Statuses == {"absent", "pending", "approved", "rejected"}
ReviewFiles == [Candidates -> Statuses]
Parts == <<"custom", "metrics", "approved", "candidates">>  \* in the order of import_config
PartFiles(p) == CASE p = "custom" -> CustomFiles [] p = "metrics" -> MetLayers
                  [] p = "approved" -> ApprovedFiles [] p = "candidates" -> ReviewFiles

ASSUME SemanticAssumption ==
  /\ Base \in Models /\ Candidates \subseteq Defs
  /\ \A c \in Candidates : Cand[c] \in
       [entity : Entities, rels : SUBSET Rels, mets : MetLayers, conf : Nat, place : Nat]
  /\ IsFiniteSet(Candidates) /\ \A c \in Candidates : Cand[c].place <= Cardinality(Candidates)
  /\ \A c, d \in Candidates : c # d => Cand[c].place # Cand[d].place
  /\ Posted \subseteq Statuses \ {"absent"}
  /\ Templates \subseteq Bundles
  /\ \A i \in Imports : \A p \in DOMAIN i : p \in Range(Parts) /\ i[p] \in PartFiles(p)
  /\ EntityEdits \subseteq Entities \X Defs /\ RelEdits \subseteq SUBSET Rels
  /\ MetricEdits \subseteq Metrics \X MetricDefs /\ AliasEdits \subseteq AliasFiles
  /\ \A f, g \in MetricDefs : Overlay(f, g) \in MetricDefs
  /\ \A S \in SUBSET Rels : S # NoRels
  /\ \A E \in EntLayers, R \in (SUBSET Rels) \cup {NoRels} : [ents |-> E, rels |-> R] # Absent
  /\ VersionKeep \in Nat \ {0} /\ {MaxRequests, MaxFailures, MaxCrashes} \subseteq Nat

VARIABLES
  custom, metrics, approved, reviews, aliases,  \* the files
  torn,      \* save_candidates has truncated the review file and not yet written it
  registry,  \* SemanticRegistry.ontology and .metrics
  versions,  \* semantic_versions.json
  job,       \* the handler that holds semantic_write_lock
  scan,      \* the handler inside ReviewStore.save_candidates
  requests, failures, crashes

files == <<custom, metrics, approved, reviews, torn, aliases>>
counters == <<requests, failures, crashes>>
svars == <<files, registry, versions, job, scan, counters>>

NoReviews == [c \in Candidates |-> "absent"]
NoneApproved == [ents |-> Nowhere, rels |-> {}]
Nothing == [ents |-> Nowhere, rels |-> {}, mets |-> Nowhere, aliases |-> Nowhere]
Free == [op |-> "none", pc |-> "free", next |-> "free", template |-> Nothing, todo |-> Nothing,
         left |-> Nowhere, errors |-> 0,
         before |-> [custom |-> Absent, metrics |-> Nowhere, aliases |-> Nowhere]]
\* overtaken is history: an import replaced the review file during the scan.
NoScan == [pc |-> "free", data |-> NoReviews, overtaken |-> FALSE]

-----------------------------------------------------------------------------
\* reload: base, then the overlay of each file, in four assignments.

WithApproved(g, a) == [g EXCEPT !.ents = Overlay(@, a.ents), !.rels = @ \cup a.rels]
WithCustom(g, c) ==
  IF c = Absent THEN g
  ELSE [g EXCEPT !.ents = Overlay(c.ents, @), !.rels = IF c.rels = NoRels THEN @ ELSE c.rels]
\* field by field: what an override does not say stays
WithMetrics(g, m) ==
  [g EXCEPT !.mets = [n \in DOMAIN m \cup DOMAIN @ |->
     IF n \notin DOMAIN m THEN @[n] ELSE IF n \notin DOMAIN @ THEN m[n] ELSE Overlay(m[n], @[n])]]
Merged(a, c, m) == WithMetrics(WithCustom(WithApproved(Base, a), c), m)

\* _load_custom_ontology: without a file, an ontology with an empty list.
Loaded(c) == IF c = Absent THEN [ents |-> Nowhere, rels |-> {}] ELSE c

\* snapshot: nothing new if the last version has the same content; the number is
\* taken from the length of the list, the list is cut afterwards.
SnapshottedUncut(vs, g) ==  \* Mutant: the list is never cut.
  IF vs # <<>> /\ vs[Len(vs)].content = g THEN vs
  ELSE Append(vs, [number |-> Len(vs) + 1, content |-> g])

Snapshotted(vs, g) ==
  IF vs # <<>> /\ vs[Len(vs)].content = g THEN vs
  ELSE LET all == Append(vs, [number |-> Len(vs) + 1, content |-> g])
       IN  IF Len(all) > VersionKeep THEN Tail(all) ELSE all

SInit ==
  /\ custom \in {Absent, [ents |-> Nowhere, rels |-> Base.rels]}  \* none, and as shipped
  /\ metrics = Nowhere /\ approved = NoneApproved /\ aliases = Nowhere
  /\ reviews = NoReviews /\ torn = FALSE
  /\ registry = Merged(approved, custom, metrics)
  /\ versions = Snapshotted(<<>>, registry)
  /\ job = Free /\ scan = NoScan
  /\ requests = 0 /\ failures = 0 /\ crashes = 0

\* A handler gets the lock.
Acquire == job.pc = "free" /\ requests < MaxRequests /\ requests' = requests + 1
Counted == UNCHANGED <<failures, crashes>>
Reload(next) == [job EXCEPT !.pc = "base", !.next = next]

ReloadStep ==
  /\ \/ job.pc = "base"     /\ registry' = Base /\ job' = [job EXCEPT !.pc = "approved"]
     \/ job.pc = "approved" /\ registry' = WithApproved(registry, approved)
                            /\ job' = [job EXCEPT !.pc = "custom"]
     \/ job.pc = "custom"   /\ registry' = WithCustom(registry, custom)
                            /\ job' = [job EXCEPT !.pc = "metrics"]
     \/ job.pc = "metrics"  /\ registry' = WithMetrics(registry, metrics)
                            /\ job' = IF job.next = "free" THEN Free
                                      ELSE [job EXCEPT !.pc = job.next]
  /\ UNCHANGED <<files, versions, scan, counters>>

Snapshot ==
  /\ job.pc = "snapshot"
  /\ versions' = Snapshotted(versions, registry)
  /\ job' = Free
  /\ UNCHANGED <<files, registry, scan, counters>>

-----------------------------------------------------------------------------
\* The editors: one file, reload, snapshot.

\* Mutant: the version is taken without a reload.
EditedTooSoon ==
  /\ Acquire
  /\ job' = [Free EXCEPT !.op = "edit", !.pc = "snapshot"]
  /\ Counted /\ UNCHANGED <<approved, reviews, torn, aliases, registry, versions, scan>>

Edited ==
  /\ Acquire
  /\ job' = [Free EXCEPT !.op = "edit", !.pc = "base", !.next = "snapshot"]
  /\ Counted /\ UNCHANGED <<approved, reviews, torn, aliases, registry, versions, scan>>

SaveEntity(e, d) == /\ Edited /\ UNCHANGED metrics
                    /\ custom' = [Loaded(custom) EXCEPT !.ents = Set(@, e, d)]

DeleteEntity(e) == /\ e \in DOMAIN Loaded(custom).ents
                   /\ Edited /\ UNCHANGED metrics
                   /\ custom' = [custom EXCEPT !.ents = Without(@, {e})]

SaveRelationships(s) == /\ Edited /\ UNCHANGED metrics
                        /\ custom' = [Loaded(custom) EXCEPT !.rels = s]

AddMetric(m, d) == Edited /\ UNCHANGED custom /\ metrics' = Set(metrics, m, d)

\* A rename leaves a base metric under its old name too.
UpdateMetric(old, m, d) == /\ old \in DOMAIN registry.mets
                           /\ Edited /\ UNCHANGED custom
                           /\ metrics' = Set(Without(metrics, {old} \ {m}), m, d)

DeleteMetric(m) == /\ m \in DOMAIN metrics
                   /\ Edited /\ UNCHANGED custom
                   /\ metrics' = Without(metrics, {m})

\* set_aliases and delete_alias: the aliases are read from their file, so there
\* is neither a reload nor a version.
EditAliases(new) ==
  /\ Acquire
  /\ aliases' = new
  /\ Counted
  /\ UNCHANGED <<custom, metrics, approved, reviews, torn, registry, versions, job, scan>>

-----------------------------------------------------------------------------
\* Candidates: saved under the store's own lock, read without it.

Seen == IF torn THEN NoReviews ELSE reviews

StartScan(C, status) ==
  /\ scan.pc = "free" /\ requests < MaxRequests
  /\ requests' = requests + 1
  /\ scan' = [NoScan EXCEPT !.pc = "open", !.data =
       [c \in Candidates |-> IF c \in C /\ reviews[c] \notin {"approved", "rejected"}
                             THEN status ELSE reviews[c]]]
  /\ Counted /\ UNCHANGED <<files, registry, versions, job>>

\* write_text truncates the file and writes it; if an import has written it in
\* between, what is left may not parse.
ScanStep ==
  /\ \/ /\ scan.pc = "open"
        /\ torn' = TRUE /\ scan' = [scan EXCEPT !.pc = "write"]
        /\ UNCHANGED reviews
     \/ /\ scan.pc = "write"
        /\ reviews' \in {scan.data} \cup (IF torn THEN {} ELSE {NoReviews})
        /\ torn' = FALSE /\ scan' = NoScan
  /\ UNCHANGED <<custom, metrics, approved, aliases, registry, versions, job, counters>>

\* Mutant: a review does not wait for the store's lock.
ReviewUnlocked(c, decision) ==
  /\ reviews[c] # "absent"
  /\ Acquire
  /\ reviews' = [reviews EXCEPT ![c] = decision]
  /\ job' = IF decision = "approved" THEN [Free EXCEPT !.op = "review", !.pc = "export"] ELSE Free
  /\ Counted /\ UNCHANGED <<custom, metrics, approved, torn, aliases, registry, versions, scan>>

Review(c, decision) ==
  /\ scan.pc = "free"
  /\ reviews[c] # "absent"
  /\ Acquire
  /\ reviews' = [reviews EXCEPT ![c] = decision]
  /\ job' = IF decision = "approved" THEN [Free EXCEPT !.op = "review", !.pc = "export"] ELSE Free
  /\ Counted /\ UNCHANGED <<custom, metrics, approved, torn, aliases, registry, versions, scan>>

StartMerge ==
  /\ Acquire
  /\ job' = [Free EXCEPT !.op = "merge", !.pc = "export"]
  /\ Counted /\ UNCHANGED <<files, registry, versions, scan>>

\* build_approved_ontology goes through the file in order and keeps a candidate
\* that is surer than all before it on the same entity.
Approved(rs) == {c \in Candidates : rs[c] = "approved"}
Kept(rs) ==
  {c \in Approved(rs) : \A d \in Approved(rs) :
     Cand[d].entity = Cand[c].entity /\ Cand[d].place < Cand[c].place => Cand[d].conf < Cand[c].conf}
Fragment(rs) ==
  [ents |-> [e \in {Cand[c].entity : c \in Kept(rs)} |->
               CHOOSE c \in Kept(rs) : /\ Cand[c].entity = e
                                       /\ \A d \in Kept(rs) : Cand[d].entity = e
                                                                => Cand[d].conf <= Cand[c].conf],
   rels |-> UNION {Cand[c].rels : c \in Kept(rs)}]

\* get_approved_metrics: the first approved candidate that names a metric defines it.
ApprovedMetrics(rs) ==
  [m \in UNION {DOMAIN Cand[c].mets : c \in Approved(rs)} |->
     LET named == {c \in Approved(rs) : m \in DOMAIN Cand[c].mets}
     IN  Cand[CHOOSE c \in named : \A d \in named : Cand[c].place <= Cand[d].place].mets[m]]

Export ==
  /\ job.pc = "export"
  /\ approved' = Fragment(Seen)
  /\ job' = IF job.op = "review" THEN [job EXCEPT !.pc = "collect"] ELSE Reload("snapshot")
  /\ UNCHANGED <<custom, metrics, reviews, torn, aliases, registry, versions, scan, counters>>

Collect ==
  /\ job.pc = "collect"
  /\ job' = [job EXCEPT !.pc = "add", !.todo.mets = ApprovedMetrics(Seen)]
  /\ UNCHANGED <<files, registry, versions, scan, counters>>

Dropped(m) == [job EXCEPT !.todo.mets = Without(@, {m})]

\* Mutant: a metric the registry has is not taken off the list.
AddCandidateMetricStuck(m) ==
  /\ job.pc = "add" /\ m \in DOMAIN job.todo.mets
  /\ metrics' = IF m \in DOMAIN registry.mets THEN metrics ELSE Set(metrics, m, job.todo.mets[m])
  /\ job' = [job EXCEPT !.pc = "base", !.next = "add"]
  /\ UNCHANGED <<custom, approved, reviews, torn, aliases, registry, versions, scan, counters>>

AddCandidateMetric(m) ==
  /\ job.pc = "add" /\ m \in DOMAIN job.todo.mets
  /\ IF m \in DOMAIN registry.mets
     THEN metrics' = metrics /\ job' = Dropped(m)
     ELSE /\ metrics' = Set(metrics, m, job.todo.mets[m])
          /\ job' = [Dropped(m) EXCEPT !.pc = "base", !.next = "add"]
  /\ UNCHANGED <<custom, approved, reviews, torn, aliases, registry, versions, scan, counters>>

\* Mutant: an approval whose metrics exist already ends without a reload.
EndReviewUnloaded ==
  /\ job.pc = "add" /\ DOMAIN job.todo.mets = {}
  /\ job' = Free
  /\ UNCHANGED <<files, registry, versions, scan, counters>>

\* The last reload; there is no snapshot.
EndReview ==
  /\ job.pc = "add" /\ DOMAIN job.todo.mets = {}
  /\ job' = Reload("free")
  /\ UNCHANGED <<files, registry, versions, scan, counters>>

-----------------------------------------------------------------------------
\* admin_import: each part over its file, then a reload and no snapshot.

StartImport(i) ==
  /\ Acquire
  /\ job' = [Free EXCEPT !.op = "import", !.pc = "import", !.left = i]
  /\ Counted /\ UNCHANGED <<files, registry, versions, scan>>

Replace(p, v) ==
  /\ custom'   = IF p = "custom"   THEN v ELSE custom
  /\ metrics'  = IF p = "metrics"  THEN v ELSE metrics
  /\ approved' = IF p = "approved" THEN v ELSE approved
  /\ reviews'  = IF p = "candidates" THEN v ELSE reviews
  /\ torn'     = (p # "candidates" /\ torn)
  /\ scan'     = IF p = "candidates" THEN [scan EXCEPT !.overtaken = @ \/ scan.pc # "free"] ELSE scan
  /\ UNCHANGED aliases

NextPart(p) == \E i \in DOMAIN Parts :
  p = Parts[i] /\ p \in DOMAIN job.left /\ \A j \in 1..(i - 1) : Parts[j] \notin DOMAIN job.left

ImportPart(p) ==
  /\ job.pc = "import" /\ NextPart(p)
  /\ Replace(p, job.left[p])
  /\ job' = [job EXCEPT !.left = Without(@, {p})]
  /\ UNCHANGED <<registry, versions, counters>>

EndImport ==
  /\ job.pc = "import" /\ DOMAIN job.left = {}
  /\ job' = Reload("free")
  /\ UNCHANGED <<files, registry, versions, scan, counters>>

-----------------------------------------------------------------------------
\* TemplateApplier.apply: what the registry lacks, one write and reload at a time.

\* Mutant: the template's definition of an entity replaces the existing one.
PendingOverwrites(t) ==
  [ents |-> t.ents, rels |-> t.rels \ registry.rels,
   mets |-> Without(t.mets, DOMAIN registry.mets), aliases |-> Without(t.aliases, DOMAIN aliases)]

Pending(t) ==
  [ents |-> Without(t.ents, DOMAIN registry.ents), rels |-> t.rels \ registry.rels,
   mets |-> Without(t.mets, DOMAIN registry.mets), aliases |-> Without(t.aliases, DOMAIN aliases)]

StartApply(t) ==
  /\ Acquire
  /\ job' = [Free EXCEPT !.op = "apply", !.pc = "apply", !.template = t, !.todo = Pending(t),
               !.before = [custom |-> custom, metrics |-> metrics, aliases |-> aliases]]
  /\ Counted /\ UNCHANGED <<files, registry, versions, scan>>

\* The kinds of definitions are applied in this order; the order within a kind is free.
Applying(kind) ==
  /\ job.pc = "apply"
  /\ kind \in {"rels", "mets", "aliases", "none"} => DOMAIN job.todo.ents = {}
  /\ kind \in {"mets", "aliases", "none"} => job.todo.rels = {}
  /\ kind \in {"aliases", "none"} => DOMAIN job.todo.mets = {}
  /\ kind = "none" => DOMAIN job.todo.aliases = {}
  /\ UNCHANGED <<approved, reviews, torn, registry, versions, scan, counters>>
Applied(todo) == [Reload("apply") EXCEPT !.todo = todo]

ApplyEntity(e) ==
  /\ e \in DOMAIN job.todo.ents /\ Applying("ents")
  /\ custom' = [Loaded(custom) EXCEPT !.ents = Set(@, e, job.template.ents[e])]
  /\ job' = Applied([job.todo EXCEPT !.ents = Without(@, {e})])
  /\ UNCHANGED <<metrics, aliases>>

ApplyRelationships ==
  /\ job.todo.rels # {} /\ Applying("rels")
  /\ custom' = [Loaded(custom) EXCEPT !.rels = registry.rels \cup job.todo.rels]
  /\ job' = Applied([job.todo EXCEPT !.rels = {}])
  /\ UNCHANGED <<metrics, aliases>>

ApplyMetric(m) ==
  /\ m \in DOMAIN job.todo.mets /\ Applying("mets")
  /\ metrics' = Set(metrics, m, job.template.mets[m])
  /\ job' = Applied([job.todo EXCEPT !.mets = Without(@, {m})])
  /\ UNCHANGED <<custom, aliases>>

ApplyAliases ==
  /\ DOMAIN job.todo.aliases # {} /\ Applying("aliases")
  /\ aliases' = Overlay(job.todo.aliases, aliases)
  /\ job' = [job EXCEPT !.todo.aliases = Nowhere]
  /\ UNCHANGED <<custom, metrics>>

EndApply == Applying("none") /\ job' = Free /\ UNCHANGED <<custom, metrics, aliases>>

\* Mutant: the metrics are left as they are.
UndoOntologyOnly ==
  /\ job.pc \in {"undo", "undo metrics", "undo aliases"}
  /\ custom' = job.before.custom
  /\ aliases' = IF job.pc = "undo aliases" THEN job.before.aliases ELSE aliases
  /\ job' = IF job.pc = "undo aliases" THEN Free ELSE Reload("undo aliases")
  /\ UNCHANGED <<metrics, approved, reviews, torn, registry, versions, scan, counters>>

\* The except branch: ontology, metrics, reload, aliases.
Undo ==
  /\ \/ /\ job.pc = "undo"
        /\ custom' = job.before.custom /\ job' = [job EXCEPT !.pc = "undo metrics"]
        /\ UNCHANGED <<metrics, aliases>>
     \/ /\ job.pc = "undo metrics"
        /\ metrics' = job.before.metrics /\ job' = Reload("undo aliases")
        /\ UNCHANGED <<custom, aliases>>
     \/ /\ job.pc = "undo aliases"
        /\ aliases' = job.before.aliases /\ job' = Free
        /\ UNCHANGED <<custom, metrics>>
  /\ UNCHANGED <<approved, reviews, torn, registry, versions, scan, counters>>

-----------------------------------------------------------------------------
\* A call raises.  A file that is not replaced atomically may be left empty.

Failing == failures < MaxFailures /\ failures' = failures + 1 /\ UNCHANGED <<requests, crashes>>

\* reload reads two base files, and can fail at either.
Unread == IF job.pc = "base" THEN {registry, [Base EXCEPT !.mets = registry.mets]} ELSE {registry}

\* Reading a file in reload, or writing one, in a handler without an except branch
\* of its own: the lock is released and nothing is undone or reloaded.
FailJob ==
  /\ Failing
  /\ job' = Free
  /\ \/ /\ job.pc = "add" \/ (job.pc = "base" /\ job.op # "apply")
        /\ UNCHANGED <<files, versions, scan>>
     \/ /\ job.pc = "export" /\ approved' \in {approved, NoneApproved}
        /\ UNCHANGED <<custom, metrics, reviews, torn, aliases, versions, scan>>
     \/ /\ job.pc = "snapshot" /\ versions' \in {versions, <<>>}
        /\ UNCHANGED <<files, scan>>
     \/ /\ job.pc = "import"
        /\ \E p \in Range(Parts) :
             NextPart(p) /\ Replace(p, CASE p = "custom" -> Absent [] p = "metrics" -> Nowhere
                                         [] p = "approved" -> NoneApproved
                                         [] p = "candidates" -> NoReviews)
        /\ UNCHANGED versions
  /\ registry' \in Unread

\* While a template is applied: roll back; while it is rolled back: go on to the
\* aliases and report the error.
FailApply ==
  /\ Failing /\ job.op = "apply"
  /\ \/ /\ \/ job.pc = "apply" /\ job.todo # Nothing
           \/ job.pc = "base" /\ job.next = "apply"
        /\ job' = [job EXCEPT !.pc = "undo"]
     \/ /\ job.pc \in {"undo", "undo metrics"} \/ (job.pc = "base" /\ job.next = "undo aliases")
        /\ job' = [job EXCEPT !.pc = "undo aliases", !.errors = @ + 1]
     \/ job.pc = "undo aliases" /\ job' = Free
  /\ registry' \in Unread
  /\ UNCHANGED <<files, versions, scan>>

\* review and save_candidates: the review file is lost.
FailReviews ==
  /\ Failing
  /\ \/ job.pc = "free" /\ scan.pc = "free" /\ reviews # NoReviews
     \/ scan.pc = "write"
  /\ reviews' = NoReviews /\ torn' = FALSE /\ scan' = NoScan
  /\ UNCHANGED <<custom, metrics, approved, aliases, registry, versions, job>>

\* The process is restarted: the registry is loaded and snapshot before it serves.
Restart ==
  /\ crashes < MaxCrashes /\ crashes' = crashes + 1
  /\ job' = Free /\ scan' = NoScan
  /\ reviews' = Seen /\ torn' = FALSE
  /\ registry' = Merged(approved, custom, metrics)
  /\ versions' = Snapshotted(versions, registry')
  /\ UNCHANGED <<custom, metrics, approved, aliases, requests, failures>>

-----------------------------------------------------------------------------
JobStep ==
  \/ ReloadStep \/ Snapshot \/ Export \/ Collect \/ EndReview \/ EndImport
  \/ \E p \in Range(Parts) : ImportPart(p)
  \/ \E m \in Metrics : AddCandidateMetric(m) \/ ApplyMetric(m)
  \/ \E e \in Entities : ApplyEntity(e)
  \/ ApplyRelationships \/ ApplyAliases \/ EndApply \/ Undo

SRequest ==
  \/ \E x \in EntityEdits : SaveEntity(x[1], x[2])
  \/ \E e \in Entities : DeleteEntity(e)
  \/ \E s \in RelEdits : SaveRelationships(s)
  \/ \E x \in MetricEdits : AddMetric(x[1], x[2]) \/ \E old \in Metrics : UpdateMetric(old, x[1], x[2])
  \/ \E m \in Metrics : DeleteMetric(m)
  \/ \E new \in AliasEdits : EditAliases(Overlay(new, aliases))
  \/ \E a \in DOMAIN aliases : EditAliases(Without(aliases, {a}))
  \/ \E C \in (SUBSET Candidates) \ {{}}, status \in Posted : StartScan(C, status)
  \/ \E c \in Candidates, decision \in {"approved", "rejected"} : Review(c, decision)
  \/ StartMerge
  \/ \E i \in Imports : StartImport(i)
  \/ \E t \in Templates : StartApply(t)

SNext == SRequest \/ JobStep \/ ScanStep \/ FailJob \/ FailApply \/ FailReviews \/ Restart

\* The thread pool runs a handler that has begun.
SFairness == WF_svars(JobStep) /\ WF_svars(ScanStep)
SSpec == SInit /\ [][SNext]_svars /\ SFairness

-----------------------------------------------------------------------------
JobPCs == {"free", "base", "approved", "custom", "metrics", "snapshot", "export", "collect", "add",
           "import", "apply", "undo", "undo metrics", "undo aliases"}

STypeOK ==
  /\ custom \in CustomFiles /\ metrics \in MetLayers /\ approved \in ApprovedFiles
  /\ reviews \in ReviewFiles /\ torn \in BOOLEAN /\ aliases \in AliasFiles
  /\ registry \in Models
  /\ versions \in Seq([number : 1..(VersionKeep + 1), content : Models]) /\ Len(versions) <= VersionKeep
  /\ job.op \in {"none", "edit", "review", "merge", "import", "apply"}
  /\ job.pc \in JobPCs /\ job.next \in JobPCs /\ job.errors \in Nat
  /\ job.template \in Bundles /\ job.todo \in Bundles
  /\ DOMAIN job.left \subseteq Range(Parts) /\ \A p \in DOMAIN job.left : job.left[p] \in PartFiles(p)
  /\ job.before \in [custom : CustomFiles, metrics : MetLayers, aliases : AliasFiles]
  /\ scan \in [pc : {"free", "open", "write"}, data : ReviewFiles, overtaken : BOOLEAN]
  /\ requests \in Nat /\ failures \in Nat /\ crashes \in Nat

\* When no handler holds the lock, what the API serves is what the files say, as
\* long as no call has failed, whichever handlers and restarts came before.
RegistryIsMerged ==
  job.pc = "free" /\ failures = 0 => registry = Merged(approved, custom, metrics)

\* A version that is taken is the whole model the files define, never a half-loaded
\* registry, and it is the last of the list.
VersionsAreMerged ==
  [][job.pc = "snapshot" /\ job'.pc = "free" /\ failures' = failures /\ crashes' = crashes =>
       versions'[Len(versions')].content = Merged(approved, custom, metrics)]_svars

\* The model when the handler that applies a template got the lock.
Was == Merged(approved, job.before.custom, job.before.metrics)
Ends(pc) == job.op = "apply" /\ job.pc = pc /\ job'.pc = "free" /\ failures' = failures /\ crashes' = crashes

\* A template that is applied is applied in full, and over no definition that was
\* there (template_apply.py:1).  Only where there was no custom ontology may it cost
\* relationships: what the first entity saved writes replaces those of the base.
AppliedInFull ==
  [][Ends("apply") /\ failures = 0 =>
       /\ registry.ents = Overlay(Was.ents, job.template.ents)
       /\ job.template.rels \ Was.rels \subseteq registry.rels
       /\ job.before.custom # Absent => registry.rels = Was.rels \cup job.template.rels
       /\ registry.mets = Overlay(Was.mets, job.template.mets)
       /\ aliases = Overlay(job.before.aliases, job.template.aliases)]_svars

\* A template whose application fails anywhere, and whose roll-back reports no
\* error, has left no trace in the files, the aliases or the registry.
RolledBack ==
  [][Ends("undo aliases") /\ job.errors = 0 =>
       /\ custom = job.before.custom /\ metrics = job.before.metrics
       /\ aliases' = job.before.aliases
       /\ registry = Was]_svars

\* A reviewer's decision is changed by a reviewer, by an import or by a failed write
\* of the file, and never by candidates that are saved at the same time.
DecisionsKept ==
  [][\A c \in Candidates :
       reviews[c] \in {"approved", "rejected"} /\ reviews'[c] # reviews[c] =>
         \/ job.pc = "free" /\ requests' = requests + 1 /\ reviews'[c] \in {"approved", "rejected"}
         \/ job.op = "import" \/ scan.overtaken
         \/ failures' # failures \/ crashes' # crashes]_svars

\* Whoever gets the lock gives it back, and a scan that began ends.
LockReleased == job.pc # "free" ~> job.pc = "free"

-----------------------------------------------------------------------------
\* What the repository's documents, tests and comments say and the code does not do.

\* Ontology and metric mutations create snapshots (docs/ARCHITECTURE_V0_7.md:51).
MutationsVersioned ==
  job.pc = "free" /\ failures = 0 => versions # <<>> /\ versions[Len(versions)].content = registry

\* Applying a template preserves the relationships that are there
\* (tests/test_template_apply.py, template_apply.py:1).
RelationshipsPreserved ==
  [][Ends("apply") /\ failures = 0 => Was.rels \subseteq registry.rels]_svars

\* A merge exports all approved candidates (the docstring of semantic_merge).
MergeExportsApproved ==
  [][job.op = "merge" /\ job.pc = "export" /\ job'.pc = "base" =>
       \A c \in Approved(reviews) : Cand[c].entity \in DOMAIN approved'.ents]_svars
=============================================================================
