------------------------- MODULE SemanticModelProofs -------------------------
(***************************************************************************)
(* What SemanticModel guarantees for every base model, template, import    *)
(* and number of requests, failures and restarts: the registry is the      *)
(* merge of its files whenever the lock is free and no call has failed;    *)
(* candidates that are saved never undo a reviewer's decision; a version   *)
(* is the whole model; a template is applied in full, and one that is      *)
(* rolled back leaves no trace.                                            *)
(***************************************************************************)
EXTENDS SemanticModel, FiniteSetTheorems, WellFoundedInduction, TLAPS

-----------------------------------------------------------------------------
\* What the provers need to know of the locals of the handler with the lock.

Fields == {"op", "pc", "next", "template", "todo", "left", "errors", "before"}
Undoing == {"undo", "undo metrics", "undo aliases"}

Importing(j) ==
  /\ j.pc = "import" => j.op = "import"
  /\ "candidates" \in DOMAIN j.left => j.left["candidates"] \in ReviewFiles

JobOK ==
  /\ DOMAIN job = Fields
  /\ Importing(job)
  /\ job.next \in {"free", "snapshot", "add", "apply", "undo aliases"}
  /\ failures \in Nat /\ crashes \in Nat
  /\ failures = 0 => job.pc \notin Undoing /\ job.next # "undo aliases"

\* How far a reload has come, by the handler's place in it.
Loading ==
  /\ job.pc = "approved" => registry = Base
  /\ job.pc = "custom" => registry = WithApproved(Base, approved)
  /\ job.pc = "metrics" => registry = WithCustom(WithApproved(Base, approved), custom)
  /\ job.pc = "snapshot" => registry = Merged(approved, custom, metrics)
  /\ failures = 0 /\ job.pc \in {"free", "apply"} => registry = Merged(approved, custom, metrics)

LoadInv == JobOK /\ Loading

\* The idle job, before anything else.
LEMMA FreeShape ==
  /\ DOMAIN Free = Fields /\ Free.pc = "free" /\ Free.op = "none" /\ Free.next = "free"
  /\ DOMAIN Free.left = {}
  BY DEF Free, Fields, Nowhere

\* A step that moves the job to another place, and to nothing of a roll-back.
LEMMA Moved ==
  ASSUME JobOK, UNCHANGED <<failures, crashes>>,
         NEW pc, pc # "import", pc \notin Undoing,
         NEW next, next \in {"free", "snapshot", "add", "apply"},
         job' = [job EXCEPT !.pc = pc] \/ job' = [job EXCEPT !.pc = pc, !.next = next]
  PROVE  JobOK' /\ job'.pc = pc
<1>1. DOMAIN job' = Fields /\ job'.pc = pc /\ job'.left = job.left /\ job'.next \in {job.next, next}
  BY DEF Fields, JobOK
<1> QED BY <1>1 DEF JobOK, Importing, Undoing

\* The initial state has a complete registry and no handler.
LEMMA InitLoads == SInit => LoadInv
<1> SUFFICES ASSUME SInit PROVE LoadInv
  OBVIOUS
<1>1. job = Free /\ failures = 0 /\ crashes = 0 /\ registry = Merged(approved, custom, metrics)
  BY DEF SInit
<1>2. JobOK
  BY <1>1, FreeShape DEF JobOK, Importing, Undoing
<1>3. Loading
  BY <1>1, FreeShape DEF Loading
<1> QED BY <1>2, <1>3 DEF LoadInv

\* A reload goes through base, approved, custom and metrics and ends complete.
LEMMA ReloadLoads == LoadInv /\ ReloadStep => LoadInv'
<1> SUFFICES ASSUME LoadInv, ReloadStep PROVE LoadInv'
  OBVIOUS
<1>1. UNCHANGED <<failures, crashes, approved, custom, metrics>> /\ JobOK /\ Loading
  BY DEF ReloadStep, files, counters, LoadInv
<1>2. CASE job.pc = "base"
  <2>1. job' = [job EXCEPT !.pc = "approved"] /\ registry' = Base
    BY <1>2 DEF ReloadStep
  <2>2. JobOK' /\ job'.pc = "approved"
    BY <1>1, <2>1, Moved DEF Undoing
  <2> QED BY <2>1, <2>2 DEF LoadInv, Loading
<1>3. CASE job.pc = "approved"
  <2>1. job' = [job EXCEPT !.pc = "custom"] /\ registry' = WithApproved(Base, approved)
    BY <1>1, <1>3 DEF ReloadStep, Loading
  <2>2. JobOK' /\ job'.pc = "custom"
    BY <1>1, <2>1, Moved DEF Undoing
  <2> QED BY <1>1, <2>1, <2>2 DEF LoadInv, Loading
<1>4. CASE job.pc = "custom"
  <2>1. /\ job' = [job EXCEPT !.pc = "metrics"]
        /\ registry' = WithCustom(WithApproved(Base, approved), custom)
    BY <1>1, <1>4 DEF ReloadStep, Loading
  <2>2. JobOK' /\ job'.pc = "metrics"
    BY <1>1, <2>1, Moved DEF Undoing
  <2> QED BY <1>1, <2>1, <2>2 DEF LoadInv, Loading
<1>5. CASE job.pc = "metrics"
  <2>1. registry' = Merged(approved, custom, metrics)'
    BY <1>1, <1>5 DEF ReloadStep, Loading, Merged
  <2>2. CASE job.next = "free"
    <3>1. job' = Free
      BY <1>5, <2>2 DEF ReloadStep
    <3> QED BY <1>1, <2>1, <3>1, FreeShape DEF LoadInv, JobOK, Loading, Importing, Undoing
  <2>3. CASE job.next # "free"
    <3>1. job' = [job EXCEPT !.pc = job.next]
      BY <1>5, <2>3 DEF ReloadStep
    <3>2. DOMAIN job' = Fields /\ job'.pc = job.next /\ job'.left = job.left /\ job'.next = job.next
      BY <1>1, <3>1 DEF Fields, JobOK
    <3>3. JobOK'
      BY <1>1, <3>2 DEF JobOK, Importing, Undoing
    <3> QED BY <1>1, <2>1, <2>3, <3>2, <3>3 DEF LoadInv, JobOK, Loading
  <2> QED BY <2>2, <2>3
<1> QED BY <1>2, <1>3, <1>4, <1>5 DEF ReloadStep

\* Where a handler is that is not in a reload, nothing is asked of the registry.
LEMMA Elsewhere ==
  ASSUME JobOK', job'.pc \in {"base", "import", "export", "collect", "add"} \cup Undoing
  PROVE  LoadInv'
  BY DEF LoadInv, Loading, Undoing

\* A handler that has just got the lock.
LEMMA Begun ==
  ASSUME JobOK, UNCHANGED <<failures, crashes>>, NEW op, NEW pc, pc # "import", pc \notin Undoing,
         NEW next, next \in {"free", "snapshot"},
         \/ job' = [Free EXCEPT !.op = op, !.pc = pc]
         \/ job' = [Free EXCEPT !.op = op, !.pc = pc, !.next = next]
  PROVE  JobOK' /\ job'.pc = pc
<1>1. DOMAIN job' = Fields /\ job'.pc = pc /\ job'.left = Free.left /\ job'.next \in {"free", next}
  BY FreeShape DEF Fields
<1> QED BY <1>1, FreeShape DEF JobOK, Importing, Undoing

\* The editors leave the registry to the reload that follows.
LEMMA EditLoads == LoadInv /\ Edited => LoadInv'
<1> SUFFICES ASSUME LoadInv, Edited PROVE LoadInv'
  OBVIOUS
<1>1. JobOK /\ UNCHANGED <<failures, crashes>> /\ job' = [Free EXCEPT !.op = "edit", !.pc = "base", !.next = "snapshot"]
  BY DEF Edited, Counted, LoadInv
<1>2. JobOK' /\ job'.pc = "base"
  BY <1>1, Begun DEF Undoing
<1> QED BY <1>2, Elsewhere

\* Requests that change no file the registry is merged from, and leave the lock free.
LEMMA SameModel ==
  ASSUME LoadInv, UNCHANGED <<custom, metrics, approved, registry, job, failures, crashes>>
  PROVE  LoadInv'
  BY DEF LoadInv, JobOK, Loading

\* A handler that takes the lock and starts elsewhere than in a reload.
LEMMA StartLoads ==
  ASSUME LoadInv, NEW op, NEW pc, pc \in {"export"},
         job' = [Free EXCEPT !.op = op, !.pc = pc], UNCHANGED <<failures, crashes>>
  PROVE  LoadInv'
<1>1. JobOK' /\ job'.pc = pc
  BY Begun DEF LoadInv, Undoing
<1> QED BY <1>1, Elsewhere

\* Every request keeps the invariant.
LEMMA RequestLoads == LoadInv /\ SRequest => LoadInv'
<1> SUFFICES ASSUME LoadInv, SRequest PROVE LoadInv'
  OBVIOUS
<1>1. CASE Edited
  BY <1>1, EditLoads
<1>2. ASSUME NEW new, EditAliases(new) PROVE LoadInv'
  BY <1>2, SameModel DEF EditAliases, Counted
<1>3. ASSUME NEW C, NEW status, StartScan(C, status) PROVE LoadInv'
  BY <1>3, SameModel DEF StartScan, Counted, files
<1>4. ASSUME NEW c, NEW decision, Review(c, decision) PROVE LoadInv'
  <2>1. CASE decision = "approved"
    BY <1>4, <2>1, StartLoads DEF Review, Counted
  <2>2. CASE decision # "approved"
    <3>1. /\ job' = Free /\ job.pc = "free"
          /\ UNCHANGED <<custom, metrics, approved, registry, failures, crashes>>
      BY <1>4, <2>2 DEF Review, Counted, Acquire
    <3>2. JobOK'
      BY <3>1, FreeShape DEF LoadInv, JobOK, Importing, Undoing
    <3> QED BY <3>1, <3>2, FreeShape DEF LoadInv, Loading
  <2> QED BY <2>1, <2>2
<1>5. CASE StartMerge
  BY <1>5, StartLoads DEF StartMerge, Counted
<1>6. ASSUME NEW i \in Imports, StartImport(i) PROVE LoadInv'
  <2>1. /\ job' = [Free EXCEPT !.op = "import", !.pc = "import", !.left = i]
        /\ UNCHANGED <<failures, crashes>>
    BY <1>6 DEF StartImport, Counted
  <2>2. DOMAIN job' = Fields /\ job'.pc = "import" /\ job'.op = "import" /\ job'.left = i /\ job'.next = "free"
    BY <2>1, FreeShape DEF Fields
  <2>3. "candidates" \in DOMAIN i => i["candidates"] \in ReviewFiles
    BY SemanticAssumption DEF PartFiles
  <2>4. JobOK'
    BY <2>1, <2>2, <2>3 DEF LoadInv, JobOK, Importing, Undoing
  <2> QED BY <2>2, <2>4, Elsewhere
<1>7. ASSUME NEW t, StartApply(t) PROVE LoadInv'
  <2>1. /\ job' = [Free EXCEPT !.op = "apply", !.pc = "apply", !.template = t, !.todo = Pending(t),
               !.before = [custom |-> custom, metrics |-> metrics, aliases |-> aliases]]
        /\ job.pc = "free"
        /\ UNCHANGED <<failures, crashes, custom, metrics, approved, registry>>
    BY <1>7 DEF StartApply, Counted, Acquire, files
  <2>2. DOMAIN job' = Fields /\ job'.pc = "apply" /\ job'.left = Free.left /\ job'.next = "free"
    BY <2>1, FreeShape DEF Fields
  <2>3. JobOK'
    BY <2>1, <2>2, FreeShape DEF LoadInv, JobOK, Importing, Undoing
  <2> QED BY <2>1, <2>2, <2>3 DEF LoadInv, Loading
<1> QED BY <1>1, <1>2, <1>3, <1>4, <1>5, <1>6, <1>7
        DEF SRequest, SaveEntity, DeleteEntity, SaveRelationships, AddMetric, UpdateMetric, DeleteMetric

\* The job goes on with a shorter list of what is still to be written.
LEMMA Shortened ==
  ASSUME JobOK, UNCHANGED <<failures, crashes>>, NEW todo, NEW next, next \in {"add", "apply"},
         \/ job' = [job EXCEPT !.todo = todo]
         \/ job' = [job EXCEPT !.todo = todo, !.pc = "base", !.next = next]
         \/ job' = [[job EXCEPT !.pc = "base", !.next = next] EXCEPT !.todo = todo]
         \/ job' = [[job EXCEPT !.todo = todo] EXCEPT !.pc = "base", !.next = next]
  PROVE  JobOK' /\ job'.pc \in {job.pc, "base"}
<1>1. /\ DOMAIN job' = Fields /\ job'.left = job.left /\ job'.next \in {job.next, next}
      /\ job'.op = job.op /\ job'.pc \in {job.pc, "base"}
  BY DEF Fields, JobOK
<1> QED BY <1>1 DEF JobOK, Importing, Undoing

\* Exports and approvals.
LEMMA ReviewLoads ==
  LoadInv /\ (Export \/ Collect \/ EndReview \/ \E m \in Metrics : AddCandidateMetric(m)) => LoadInv'
<1> SUFFICES ASSUME LoadInv, Export \/ Collect \/ EndReview \/ \E m \in Metrics : AddCandidateMetric(m)
             PROVE  LoadInv'
  OBVIOUS
<1>1. CASE Export
  <2>1. /\ UNCHANGED <<failures, crashes>>
        /\ \/ job' = [job EXCEPT !.pc = "collect"]
           \/ job' = [job EXCEPT !.pc = "base", !.next = "snapshot"]
    BY <1>1 DEF Export, Reload, counters
  <2>2. JobOK' /\ job'.pc \in {"collect", "base"}
    BY <2>1, Moved DEF LoadInv, Undoing
  <2> QED BY <2>2, Elsewhere
<1>2. CASE Collect
  <2>1. /\ UNCHANGED <<failures, crashes>>
        /\ job' = [job EXCEPT !.pc = "add", !.todo.mets = ApprovedMetrics(Seen)]
    BY <1>2 DEF Collect, counters
  <2>2. DOMAIN job' = Fields /\ job'.pc = "add" /\ job'.left = job.left /\ job'.next = job.next
    BY <2>1 DEF Fields, LoadInv, JobOK
  <2>3. JobOK'
    BY <2>1, <2>2 DEF LoadInv, JobOK, Importing, Undoing
  <2> QED BY <2>2, <2>3, Elsewhere
<1>3. CASE EndReview
  <2>1. UNCHANGED <<failures, crashes>> /\ job' = [job EXCEPT !.pc = "base", !.next = "free"]
    BY <1>3 DEF EndReview, Reload, counters
  <2>2. JobOK' /\ job'.pc = "base"
    BY <2>1, Moved DEF LoadInv, Undoing
  <2> QED BY <2>2, Elsewhere
<1>4. ASSUME NEW m \in Metrics, AddCandidateMetric(m) PROVE LoadInv'
  <2> DEFINE todo == [job.todo EXCEPT !.mets = Without(@, {m})]
  <2>1. /\ UNCHANGED <<failures, crashes>> /\ job.pc = "add"
        /\ \/ job' = [job EXCEPT !.todo = todo]
           \/ job' = [[job EXCEPT !.todo = todo] EXCEPT !.pc = "base", !.next = "add"]
    BY <1>4 DEF AddCandidateMetric, Dropped, counters, LoadInv, JobOK, Fields
  <2>2. JobOK' /\ job'.pc \in {"add", "base"}
    <3> HIDE DEF todo
    <3> QED BY <2>1, Shortened DEF LoadInv
  <2> QED BY <2>2, Elsewhere
<1> QED BY <1>1, <1>2, <1>3, <1>4

\* Imports.
LEMMA ImportLoads ==
  LoadInv /\ (EndImport \/ \E p \in Range(Parts) : ImportPart(p)) => LoadInv'
<1> SUFFICES ASSUME LoadInv, EndImport \/ \E p \in Range(Parts) : ImportPart(p) PROVE LoadInv'
  OBVIOUS
<1>1. CASE EndImport
  <2>1. UNCHANGED <<failures, crashes>> /\ job' = [job EXCEPT !.pc = "base", !.next = "free"]
    BY <1>1 DEF EndImport, Reload, counters
  <2>2. JobOK' /\ job'.pc = "base"
    BY <2>1, Moved DEF LoadInv, Undoing
  <2> QED BY <2>2, Elsewhere
<1>2. ASSUME NEW p \in Range(Parts), ImportPart(p) PROVE LoadInv'
  <2>1. /\ UNCHANGED <<failures, crashes>> /\ job.pc = "import"
        /\ job' = [job EXCEPT !.left = Without(@, {p})]
    BY <1>2 DEF ImportPart, counters
  <2>2. /\ DOMAIN job' = Fields /\ job'.pc = "import" /\ job'.op = job.op /\ job'.next = job.next
        /\ job'.left = Without(job.left, {p})
    BY <2>1 DEF Fields, LoadInv, JobOK
  <2>3. \A q \in DOMAIN Without(job.left, {p}) : q \in DOMAIN job.left /\ Without(job.left, {p})[q] = job.left[q]
    BY DEF Without, Restrict
  <2>4. JobOK'
    BY <2>1, <2>2, <2>3 DEF LoadInv, JobOK, Importing, Undoing
  <2> QED BY <2>2, <2>4, Elsewhere
<1> QED BY <1>1, <1>2

\* The application of a template.
LEMMA ApplyLoads ==
  LoadInv /\ (\/ \E e \in Entities : ApplyEntity(e)
              \/ \E m \in Metrics : ApplyMetric(m)
              \/ ApplyRelationships \/ ApplyAliases \/ EndApply) => LoadInv'
<1> SUFFICES ASSUME LoadInv, \/ \E e \in Entities : ApplyEntity(e)
                             \/ \E m \in Metrics : ApplyMetric(m)
                             \/ ApplyRelationships \/ ApplyAliases \/ EndApply
             PROVE  LoadInv'
  OBVIOUS
<1>1. job.pc = "apply" /\ UNCHANGED <<approved, registry, failures, crashes>>
  BY DEF ApplyEntity, ApplyMetric, ApplyRelationships, ApplyAliases, EndApply, Applying, counters
<1>2. ASSUME NEW todo, job' = Applied(todo) PROVE LoadInv'
  <2>1. JobOK' /\ job'.pc \in {"apply", "base"}
    BY <1>1, <1>2, Shortened DEF Applied, Reload, LoadInv
  <2>2. job'.pc = "base"
    BY <1>2 DEF Applied, Reload, Fields, LoadInv, JobOK
  <2> QED BY <2>1, <2>2, Elsewhere
<1>3. CASE ApplyAliases
  <2> DEFINE todo == [job.todo EXCEPT !.aliases = Nowhere]
  <2>1. job' = [job EXCEPT !.todo = todo] /\ UNCHANGED <<custom, metrics>>
    BY <1>3 DEF ApplyAliases
  <2>2. JobOK' /\ job'.pc = "apply"
    <3>1. job'.pc = job.pc
      BY <2>1 DEF Fields, LoadInv, JobOK
    <3> HIDE DEF todo
    <3> QED BY <1>1, <2>1, <3>1, Shortened DEF LoadInv
  <2> QED BY <1>1, <2>1, <2>2 DEF LoadInv, Loading
<1>4. CASE EndApply
  <2>1. job' = Free /\ UNCHANGED <<custom, metrics>>
    BY <1>4 DEF EndApply
  <2>2. JobOK'
    BY <1>1, <2>1, FreeShape DEF LoadInv, JobOK, Importing, Undoing
  <2> QED BY <1>1, <2>1, <2>2, FreeShape DEF LoadInv, Loading
<1> QED BY <1>2, <1>3, <1>4 DEF ApplyEntity, ApplyMetric, ApplyRelationships

\* A job that was given up because a call failed, or a roll-back that goes on.
LEMMA Failed ==
  ASSUME JobOK, failures' \in Nat \ {0}, UNCHANGED crashes,
         DOMAIN job' = Fields, job'.left = job.left \/ job' = Free,
         job'.pc \in {"free", "base"} \cup Undoing,
         job'.next \in {"free", "snapshot", "add", "apply", "undo aliases"}
  PROVE  LoadInv'
  BY FreeShape DEF LoadInv, JobOK, Loading, Importing, Undoing

\* The steps of a roll-back.
LEMMA UndoLoads == LoadInv /\ Undo => LoadInv'
<1> SUFFICES ASSUME LoadInv, Undo PROVE LoadInv'
  OBVIOUS
<1>1. JobOK /\ job.pc \in Undoing /\ UNCHANGED crashes /\ failures' \in Nat \ {0}
  BY DEF Undo, Undoing, counters, LoadInv, JobOK
<1>2. \/ job' = [job EXCEPT !.pc = "undo metrics"]
      \/ job' = [job EXCEPT !.pc = "base", !.next = "undo aliases"]
      \/ job' = Free
  BY DEF Undo, Reload
<1>3. /\ DOMAIN job' = Fields /\ (job'.left = job.left \/ job' = Free)
      /\ job'.pc \in {"free", "base"} \cup Undoing
      /\ job'.next \in {"free", "snapshot", "add", "apply", "undo aliases"}
  BY <1>1, <1>2, FreeShape DEF JobOK, Fields, Undoing
<1> QED BY <1>1, <1>3, Failed

\* Calls that fail.
LEMMA FailLoads == LoadInv /\ (FailJob \/ FailApply \/ FailReviews) => LoadInv'
<1> SUFFICES ASSUME LoadInv, FailJob \/ FailApply \/ FailReviews PROVE LoadInv'
  OBVIOUS
<1>1. failures' \in Nat \ {0} /\ UNCHANGED crashes /\ JobOK
  <2>1. Failing /\ JobOK
    BY DEF FailJob, FailApply, FailReviews, LoadInv
  <2>2. failures \in Nat /\ failures' = failures + 1 /\ UNCHANGED crashes
    BY <2>1 DEF Failing, JobOK
  <2> QED BY <2>1, <2>2
<1>2. CASE FailJob
  <2>1. job' = Free
    BY <1>2 DEF FailJob
  <2>2. DOMAIN job' = Fields /\ job'.pc = "free" /\ job'.next = "free"
    BY <2>1, FreeShape
  <2> QED BY <1>1, <2>1, <2>2, Failed
<1>3. CASE FailApply
  <2>1. \/ job' = [job EXCEPT !.pc = "undo"]
        \/ job' = [job EXCEPT !.pc = "undo aliases", !.errors = @ + 1]
        \/ job' = Free
    BY <1>3 DEF FailApply
  <2>2. /\ DOMAIN job' = Fields /\ (job'.left = job.left \/ job' = Free)
        /\ job'.pc \in {"free"} \cup Undoing
        /\ job'.next \in {"free", "snapshot", "add", "apply", "undo aliases"}
    BY <1>1, <2>1, FreeShape DEF JobOK, Fields, Undoing
  <2> QED BY <1>1, <2>2, Failed
<1>4. CASE FailReviews
  <2>1. UNCHANGED <<job, registry, approved, custom, metrics>>
    BY <1>4 DEF FailReviews
  <2> QED BY <1>1, <2>1 DEF LoadInv, JobOK, Loading
<1> QED BY <1>2, <1>3, <1>4

\* The invariant is inductive.
LEMMA LoadStep == LoadInv /\ [SNext]_svars => LoadInv'
<1> SUFFICES ASSUME LoadInv, [SNext]_svars PROVE LoadInv'
  OBVIOUS
<1>1. CASE Snapshot
  <2>1. job' = Free /\ UNCHANGED <<custom, metrics, approved, registry, failures, crashes>>
    BY <1>1 DEF Snapshot, files, counters
  <2>2. job.pc = "snapshot"
    BY <1>1 DEF Snapshot
  <2>3. JobOK'
    BY <2>1, FreeShape DEF LoadInv, JobOK, Importing, Undoing
  <2> QED BY <2>1, <2>2, <2>3, FreeShape DEF LoadInv, Loading
<1>2. CASE ScanStep
  BY <1>2, SameModel DEF ScanStep, counters
<1>3. CASE Restart
  <2>1. /\ job' = Free /\ registry' = Merged(approved, custom, metrics)
        /\ UNCHANGED <<custom, metrics, approved, failures>> /\ crashes' = crashes + 1
    BY <1>3 DEF Restart
  <2>2. failures' \in Nat /\ crashes' \in Nat
    <3>1. failures \in Nat /\ crashes \in Nat
      BY DEF LoadInv, JobOK
    <3>2. failures' = failures /\ crashes' = crashes + 1
      BY <2>1
    <3> QED BY <3>1, <3>2
  <2>3. JobOK'
    BY <2>1, <2>2, FreeShape DEF JobOK, Importing, Undoing
  <2>4. registry' = Merged(approved, custom, metrics)'
    BY <2>1
  <2> QED BY <2>1, <2>3, <2>4, FreeShape DEF LoadInv, Loading
<1>4. CASE UNCHANGED svars
  BY <1>4, SameModel DEF svars, files, counters
<1>5. CASE JobStep
  BY <1>5, <1>1, ReloadLoads, ReviewLoads, ImportLoads, ApplyLoads, UndoLoads DEF JobStep
<1> QED BY <1>2, <1>3, <1>4, <1>5, RequestLoads, FailLoads DEF SNext

\* Whatever the constants: a reader of the API is never served another model than the
\* files define once the handler that changed them has finished.
THEOREM RegistryCurrent == SSpec => []RegistryIsMerged
<1>1. LoadInv => RegistryIsMerged
  BY DEF LoadInv, Loading, RegistryIsMerged
<1> QED BY <1>1, InitLoads, LoadStep, PTL DEF SSpec

-----------------------------------------------------------------------------
\* What save_candidates is about to write agrees with every decision in the file,
\* unless an import has replaced the file meanwhile: reviews wait for its lock.

Decided == {"approved", "rejected"}
Scans == [pc : {"free", "open", "write"}, data : ReviewFiles, overtaken : BOOLEAN]

ScanInv ==
  /\ JobOK
  /\ reviews \in ReviewFiles /\ scan \in Scans /\ torn \in BOOLEAN
  /\ torn => scan.pc = "write"
  /\ scan.pc = "write" /\ ~scan.overtaken => torn
  /\ scan.pc # "free" /\ ~scan.overtaken =>
       \A c \in Candidates : reviews[c] \in Decided => scan.data[c] = reviews[c]

\* No scan, and no candidates, are of their types.
LEMMA NoScanType == NoScan \in Scans /\ NoScan.pc = "free" /\ NoReviews \in ReviewFiles
  BY DEF NoScan, Scans, NoReviews, ReviewFiles, Statuses

\* A step that touches neither the file nor the scan.
LEMMA ScanApart ==
  ASSUME ScanInv, JobOK', UNCHANGED <<reviews, torn, scan>>
  PROVE  ScanInv'
  BY DEF ScanInv

\* The file is gone, and nobody is writing it.
LEMMA ScanOver ==
  ASSUME JobOK', reviews' \in ReviewFiles, torn' = FALSE, scan' = NoScan
  PROVE  ScanInv'
  BY NoScanType DEF ScanInv

\* A scan begins from the file as it is, and the statuses it sets are new ones.
LEMMA StartScanKeeps ==
  ASSUME ScanInv, JobOK', NEW C, NEW status \in Posted, StartScan(C, status)
  PROVE  ScanInv'
<1> DEFINE data == [c \in Candidates |-> IF c \in C /\ reviews[c] \notin {"approved", "rejected"}
                                         THEN status ELSE reviews[c]]
<1>1. /\ reviews \in ReviewFiles /\ scan.pc = "free" /\ torn = FALSE
      /\ UNCHANGED <<reviews, torn>> /\ scan' = [NoScan EXCEPT !.pc = "open", !.data = data]
  BY DEF ScanInv, StartScan, files
<1>2. data \in ReviewFiles
  BY <1>1, SemanticAssumption DEF ReviewFiles, Statuses
<1>3. \A c \in Candidates : reviews[c] \in Decided => data[c] = reviews[c]
  BY DEF Decided
<1>4. scan' \in Scans /\ scan'.pc = "open" /\ scan'.data = data
  <2> HIDE DEF data
  <2> QED BY <1>1, <1>2, NoScanType DEF Scans
<1> HIDE DEF data
<1> QED BY <1>1, <1>3, <1>4 DEF ScanInv

\* What a scan writes is what it read and what reviewers have decided since.
LEMMA ScanStepKeeps ==
  ASSUME ScanInv, JobOK', ScanStep
  PROVE  /\ ScanInv'
         /\ \A c \in Candidates : reviews[c] \in Decided => reviews'[c] = reviews[c] \/ scan.overtaken
<1>1. CASE scan.pc = "open"
  <2>1. torn' = TRUE /\ scan' = [scan EXCEPT !.pc = "write"] /\ UNCHANGED reviews
    BY <1>1 DEF ScanStep
  <2>2. /\ scan' \in Scans /\ scan'.pc = "write" /\ scan'.data = scan.data
        /\ scan'.overtaken = scan.overtaken
    BY <2>1 DEF ScanInv, Scans
  <2> QED BY <1>1, <2>1, <2>2 DEF ScanInv
<1>2. CASE scan.pc = "write"
  <2>1. /\ reviews' \in {scan.data} \cup (IF torn THEN {} ELSE {NoReviews})
        /\ torn' = FALSE /\ scan' = NoScan
    BY <1>2 DEF ScanStep
  <2>2. scan.data \in ReviewFiles
    BY DEF ScanInv, Scans
  <2>3. ScanInv'
    BY <2>1, <2>2, NoScanType, ScanOver
  <2>4. ASSUME NEW c \in Candidates, reviews[c] \in Decided, ~scan.overtaken
        PROVE  reviews'[c] = reviews[c]
    BY <1>2, <2>1, <2>4 DEF ScanInv
  <2> QED BY <2>3, <2>4
<1> QED BY <1>1, <1>2 DEF ScanStep

\* The decisions of one step, as DecisionsKept states them.
Keeps ==
  \A c \in Candidates :
    reviews[c] \in {"approved", "rejected"} /\ reviews'[c] # reviews[c] =>
      \/ job.pc = "free" /\ requests' = requests + 1 /\ reviews'[c] \in {"approved", "rejected"}
      \/ job.op = "import" \/ scan.overtaken
      \/ failures' # failures \/ crashes' # crashes

\* A part of an import, or what is left of it when its write fails, over its file.
LEMMA ReplaceKeeps ==
  ASSUME ScanInv, JobOK', NEW p, NEW v, p = "candidates" => v \in ReviewFiles, Replace(p, v)
  PROVE  ScanInv'
<1>1. CASE p # "candidates"
  <2>1. UNCHANGED <<reviews, scan>> /\ torn' = torn
    BY <1>1 DEF Replace, ScanInv
  <2> QED BY <2>1, ScanApart
<1>2. CASE p = "candidates"
  <2>1. /\ reviews' \in ReviewFiles /\ torn' = FALSE
        /\ scan' = [scan EXCEPT !.overtaken = @ \/ scan.pc # "free"]
    BY <1>2 DEF Replace
  <2>2. /\ scan' \in Scans /\ scan'.pc = scan.pc
        /\ scan.pc # "free" => scan'.overtaken
    BY <2>1 DEF ScanInv, Scans
  <2> QED BY <2>1, <2>2 DEF ScanInv
<1> QED BY <1>1, <1>2

\* Requests.
LEMMA RequestKeeps ==
  ASSUME ScanInv, JobOK', SRequest
  PROVE  ScanInv' /\ Keeps
<1>1. CASE UNCHANGED <<reviews, torn, scan>>
  BY <1>1, ScanApart DEF Keeps
<1>2. ASSUME NEW c \in Candidates, NEW decision \in {"approved", "rejected"}, Review(c, decision)
      PROVE  ScanInv' /\ Keeps
  <2>1. /\ job.pc = "free" /\ requests' = requests + 1 /\ scan.pc = "free"
        /\ reviews' = [reviews EXCEPT ![c] = decision] /\ UNCHANGED <<torn, scan>>
    BY <1>2 DEF Review, Acquire
  <2>2. reviews' \in ReviewFiles
    BY <2>1 DEF ScanInv, ReviewFiles, Statuses
  <2>3. ScanInv'
    BY <2>1, <2>2 DEF ScanInv
  <2>4. \A d \in Candidates : reviews'[d] # reviews[d] => reviews'[d] = decision
    BY <2>1 DEF ScanInv, ReviewFiles
  <2> QED BY <2>1, <2>3, <2>4 DEF Keeps
<1>3. ASSUME NEW C, NEW status \in Posted, StartScan(C, status) PROVE ScanInv' /\ Keeps
  BY <1>3, StartScanKeeps DEF Keeps, StartScan, files
<1>4. ASSUME NEW i, StartImport(i) PROVE UNCHANGED <<reviews, torn, scan>>
  BY <1>4 DEF StartImport, files
<1>5. ASSUME NEW t, StartApply(t) PROVE UNCHANGED <<reviews, torn, scan>>
  BY <1>5 DEF StartApply, files
<1>6. StartMerge => UNCHANGED <<reviews, torn, scan>>
  BY DEF StartMerge, files
<1>7. ASSUME NEW new, EditAliases(new) PROVE UNCHANGED <<reviews, torn, scan>>
  BY <1>7 DEF EditAliases
<1>8. Edited => UNCHANGED <<reviews, torn, scan>>
  BY DEF Edited
<1> QED BY <1>1, <1>2, <1>3, <1>4, <1>5, <1>6, <1>7, <1>8
        DEF SRequest, SaveEntity, DeleteEntity, SaveRelationships, AddMetric, UpdateMetric, DeleteMetric

\* The handler with the lock writes the review file in an import alone.
LEMMA JobKeeps ==
  ASSUME ScanInv, JobOK', JobStep
  PROVE  ScanInv' /\ Keeps
<1>1. CASE UNCHANGED <<reviews, torn, scan>>
  BY <1>1, ScanApart DEF Keeps
<1>2. ASSUME NEW p \in Range(Parts), ImportPart(p) PROVE ScanInv' /\ Keeps
  <2>1. /\ job.op = "import" /\ p \in DOMAIN job.left
        /\ p = "candidates" => job.left[p] \in ReviewFiles
    BY <1>2 DEF ImportPart, NextPart, ScanInv, JobOK, Importing
  <2>2. Replace(p, job.left[p])
    BY <1>2 DEF ImportPart
  <2> QED BY <2>1, <2>2, ReplaceKeeps DEF Keeps
<1>3. ReloadStep \/ Snapshot \/ Export \/ Collect \/ EndReview \/ EndImport \/ Undo
        => UNCHANGED <<reviews, torn, scan>>
  BY DEF ReloadStep, Snapshot, Export, Collect, EndReview, EndImport, Undo, files
<1>4. ASSUME NEW m, AddCandidateMetric(m) \/ ApplyMetric(m) PROVE UNCHANGED <<reviews, torn, scan>>
  BY <1>4 DEF AddCandidateMetric, ApplyMetric, Applying
<1>5. ASSUME NEW e, ApplyEntity(e) PROVE UNCHANGED <<reviews, torn, scan>>
  BY <1>5 DEF ApplyEntity, Applying
<1>6. ApplyRelationships \/ ApplyAliases \/ EndApply => UNCHANGED <<reviews, torn, scan>>
  BY DEF ApplyRelationships, ApplyAliases, EndApply, Applying
<1> QED BY <1>1, <1>2, <1>3, <1>4, <1>5, <1>6 DEF JobStep

\* A call that fails is an exception of DecisionsKept.
LEMMA FailKeeps ==
  ASSUME ScanInv, JobOK', FailJob \/ FailApply \/ FailReviews
  PROVE  ScanInv' /\ Keeps
<1>1. failures' # failures
  <2>1. failures \in Nat
    BY DEF ScanInv, JobOK
  <2>2. failures' = failures + 1
    BY DEF FailJob, FailApply, FailReviews, Failing
  <2> QED BY <2>1, <2>2
<1>2. Keeps
  BY <1>1 DEF Keeps
<1>3. CASE UNCHANGED <<reviews, torn, scan>>
  BY <1>2, <1>3, ScanApart
<1>4. CASE FailReviews
  BY <1>2, <1>4, NoScanType, ScanOver DEF FailReviews
<1>5. CASE FailApply
  BY <1>3, <1>5 DEF FailApply, files
<1>6. CASE FailJob
  <2>1. ASSUME NEW p \in Range(Parts), NEW v, p = "candidates" => v = NoReviews, Replace(p, v)
        PROVE  ScanInv'
    BY <2>1, ReplaceKeeps, NoScanType
  <2> QED BY <1>2, <1>3, <1>6, <2>1 DEF FailJob, files
<1> QED BY <1>4, <1>5, <1>6

\* Nobody saves candidates at the start.
LEMMA InitScan == SInit => ScanInv
<1> SUFFICES ASSUME SInit PROVE ScanInv
  OBVIOUS
<1>1. JobOK
  BY InitLoads DEF LoadInv
<1> QED BY <1>1, NoScanType DEF SInit, ScanInv

\* The invariant is inductive, and every step that starts in it keeps decisions.
LEMMA ScanNext == LoadInv /\ ScanInv /\ [SNext]_svars => ScanInv' /\ Keeps
<1> SUFFICES ASSUME LoadInv, ScanInv, [SNext]_svars PROVE ScanInv' /\ Keeps
  OBVIOUS
<1>1. JobOK'
  BY LoadStep DEF LoadInv
<1>2. CASE SRequest
  BY <1>1, <1>2, RequestKeeps
<1>3. CASE JobStep
  BY <1>1, <1>3, JobKeeps
<1>4. CASE ScanStep
  BY <1>1, <1>4, ScanStepKeeps DEF Keeps, Decided
<1>5. CASE FailJob \/ FailApply \/ FailReviews
  BY <1>1, <1>5, FailKeeps
<1>6. CASE Restart
  <2>1. crashes' # crashes
    <3>1. crashes \in Nat /\ crashes' = crashes + 1
      BY <1>6 DEF Restart, ScanInv, JobOK
    <3> QED BY <3>1
  <2>2. reviews' \in ReviewFiles /\ torn' = FALSE /\ scan' = NoScan
    BY <1>6, NoScanType DEF Restart, Seen, ScanInv
  <2> QED BY <1>1, <2>1, <2>2, ScanOver DEF Keeps
<1>7. CASE UNCHANGED svars
  BY <1>1, <1>7, ScanApart DEF svars, files, Keeps
<1> QED BY <1>2, <1>3, <1>4, <1>5, <1>6, <1>7 DEF SNext

\* Whatever the constants: saving candidates never undoes what a reviewer has decided,
\* however the scan and the review interleave.
THEOREM DecisionsSurvive == SSpec => DecisionsKept
<1>1. LoadInv /\ ScanInv /\ [SNext]_svars => LoadInv' /\ ScanInv'
  BY LoadStep, ScanNext
<1>2. LoadInv /\ ScanInv /\ [SNext]_svars => [Keeps]_svars
  BY ScanNext
<1> QED BY <1>1, <1>2, InitLoads, InitScan, PTL DEF SSpec, DecisionsKept, Keeps

-----------------------------------------------------------------------------
\* The operators on definitions stay within the layers they are given.

\* What two layers define together is of their kind.
LEMMA OverlayTyped ==
  ASSUME NEW S, NEW T, NEW f \in PartialFn(S, T), NEW g \in PartialFn(S, T)
  PROVE  Overlay(f, g) \in PartialFn(S, T)
<1>1. PICK D \in SUBSET S : f \in [D -> T]
  BY DEF PartialFn
<1>2. PICK E \in SUBSET S : g \in [E -> T]
  BY DEF PartialFn
<1>3. Overlay(f, g) \in [D \cup E -> T]
  BY <1>1, <1>2 DEF Overlay
<1> QED BY <1>3 DEF PartialFn

\* A layer with one definition more is one too.
LEMMA SetTyped ==
  ASSUME NEW S, NEW T, NEW f \in PartialFn(S, T), NEW n \in S, NEW v \in T
  PROVE  Set(f, n, v) \in PartialFn(S, T)
<1>1. [x \in {n} |-> v] \in PartialFn(S, T)
  <2>1. [x \in {n} |-> v] \in [{n} -> T]
    OBVIOUS
  <2> QED BY <2>1 DEF PartialFn
<1>2. PICK h : h = [x \in {n} |-> v]
  OBVIOUS
<1>3. Overlay(h, f) \in PartialFn(S, T)
  BY <1>1, <1>2, OverlayTyped
<1> QED BY <1>2, <1>3 DEF Set

\* Names that are taken away leave a layer.
LEMMA WithoutTyped ==
  ASSUME NEW S, NEW T, NEW f \in PartialFn(S, T), NEW X
  PROVE  Without(f, X) \in PartialFn(S, T)
<1>1. PICK D \in SUBSET S : f \in [D -> T]
  BY DEF PartialFn
<1>2. Without(f, X) \in [D \ X -> T]
  BY <1>1 DEF Without, Restrict
<1> QED BY <1>2 DEF PartialFn

\* No definitions are a layer of every kind.
LEMMA NowhereTyped ==
  ASSUME NEW S, NEW T
  PROVE  Nowhere \in PartialFn(S, T) /\ DOMAIN Nowhere = {}
<1>1. Nowhere \in [{} -> T]
  BY DEF Nowhere
<1> QED BY <1>1 DEF PartialFn, Nowhere

\* A reload makes models of models and files.
LEMMA LayersTyped ==
  ASSUME NEW g \in Models, NEW a \in ApprovedFiles, NEW c \in CustomFiles, NEW m \in MetLayers
  PROVE  WithApproved(g, a) \in Models /\ WithCustom(g, c) \in Models /\ WithMetrics(g, m) \in Models
<1>1. g.ents \in EntLayers /\ g.rels \in SUBSET Rels /\ g.mets \in MetLayers /\ a.ents \in EntLayers /\ a.rels \in SUBSET Rels
  BY DEF Models, ApprovedFiles
<1>2. WithApproved(g, a) \in Models
  <2>1. Overlay(g.ents, a.ents) \in EntLayers
    BY <1>1, OverlayTyped DEF EntLayers
  <2> QED BY <1>1, <2>1 DEF WithApproved, Models
<1>3. WithCustom(g, c) \in Models
  <2>1. CASE c = Absent
    BY <2>1 DEF WithCustom
  <2>2. CASE c # Absent
    <3>1. c \in [ents : EntLayers, rels : (SUBSET Rels) \cup {NoRels}]
      BY <2>2 DEF CustomFiles
    <3>2. Overlay(c.ents, g.ents) \in EntLayers
      BY <1>1, <3>1, OverlayTyped DEF EntLayers
    <3>3. PICK e, r : e = Overlay(c.ents, g.ents) /\ r = IF c.rels = NoRels THEN g.rels ELSE c.rels
      OBVIOUS
    <3>4. WithCustom(g, c) = [g EXCEPT !.ents = e, !.rels = r]
      BY <2>2, <3>3 DEF WithCustom, Models
    <3> QED BY <1>1, <3>1, <3>2, <3>3, <3>4 DEF Models
  <2> QED BY <2>1, <2>2
<1>4. WithMetrics(g, m) \in Models
  <2> DEFINE merged == [n \in DOMAIN m \cup DOMAIN g.mets |->
               IF n \notin DOMAIN m THEN g.mets[n]
               ELSE IF n \notin DOMAIN g.mets THEN m[n] ELSE Overlay(m[n], g.mets[n])]
  <2>1. PICK D \in SUBSET Metrics : m \in [D -> MetricDefs]
    BY DEF MetLayers, PartialFn
  <2>2. PICK E \in SUBSET Metrics : g.mets \in [E -> MetricDefs]
    BY <1>1 DEF MetLayers, PartialFn
  <2>3. merged \in [D \cup E -> MetricDefs]
    BY <2>1, <2>2, SemanticAssumption
  <2>4. merged \in MetLayers
    BY <2>3 DEF MetLayers, PartialFn
  <2>5. WithMetrics(g, m) = [g EXCEPT !.mets = merged]
    BY DEF WithMetrics
  <2> HIDE DEF merged
  <2> QED BY <1>1, <2>4, <2>5 DEF Models
<1> QED BY <1>2, <1>3, <1>4

\* What the files define is a model.
LEMMA MergedTyped ==
  ASSUME NEW a \in ApprovedFiles, NEW c \in CustomFiles, NEW m \in MetLayers
  PROVE  Merged(a, c, m) \in Models
<1>1. Base \in Models
  BY SemanticAssumption
<1>2. PICK x : x = WithApproved(Base, a) /\ x \in Models
  BY <1>1, LayersTyped
<1>3. PICK y : y = WithCustom(x, c) /\ y \in Models
  BY <1>2, LayersTyped
<1>4. WithMetrics(y, m) \in Models
  BY <1>3, LayersTyped
<1> QED BY <1>2, <1>3, <1>4 DEF Merged

\* The custom ontology as the editors read it.
LEMMA LoadedTyped ==
  ASSUME NEW c \in CustomFiles
  PROVE  /\ Loaded(c) \in [ents : EntLayers, rels : (SUBSET Rels) \cup {NoRels}]
         /\ Loaded(c) \in CustomFiles
<1>1. CASE c = Absent
  BY <1>1, NowhereTyped DEF Loaded, EntLayers, CustomFiles
<1>2. CASE c # Absent
  BY <1>2 DEF Loaded, CustomFiles
<1> QED BY <1>1, <1>2

\* The custom ontology as they write it.
LEMMA CustomTyped ==
  ASSUME NEW c \in CustomFiles, NEW ents \in EntLayers, NEW rels \in SUBSET Rels
  PROVE  /\ [Loaded(c) EXCEPT !.ents = ents] \in CustomFiles
         /\ [Loaded(c) EXCEPT !.rels = rels] \in CustomFiles
<1>1. PICK l : l = Loaded(c) /\ l \in [ents : EntLayers, rels : (SUBSET Rels) \cup {NoRels}]
  BY LoadedTyped
<1> QED BY <1>1 DEF CustomFiles

-----------------------------------------------------------------------------
\* What is exported.  The review file is finite, so of the candidates that are kept
\* for an entity one is last, and that is the surest; of those that name a metric one
\* is first.

\* The order of the numbers as the library's theorem speaks of it.
LEMMA LessIsRelated ==
  ASSUME NEW a \in Nat, NEW b \in Nat, a < b
  PROVE  <<a, b>> \in OpToRel(<, Nat)
BY Zenon DEF OpToRel

\* Some number of every set of numbers is least.
LEMMA LeastNumber ==
  ASSUME NEW T, T \subseteq Nat, T # {}
  PROVE  \E n \in T : \A k \in T : n <= k
<1>1. PICK n \in T : \A k \in T : ~(<<k, n>> \in OpToRel(<, Nat))
  BY NatLessThanWellFounded, WFMin
<1>2. ASSUME NEW k \in T PROVE n <= k
  <2>1. k \in Nat /\ n \in Nat /\ ~(k < n)
    BY <1>1, LessIsRelated
  <2> QED BY <2>1
<1> QED BY <1>2

\* Of some candidates one is first in the review file.
LEMMA FirstInFile ==
  ASSUME NEW S, S \subseteq Candidates, S # {}
  PROVE  \E c \in S : \A d \in S : Cand[c].place <= Cand[d].place
<1> DEFINE T == {Cand[c].place : c \in S}
<1>1. T \subseteq Nat /\ T # {}
  BY SemanticAssumption
<1>2. PICK n \in T : \A k \in T : n <= k
  BY <1>1, LeastNumber
<1> QED BY <1>2

\* Of some candidates one is last in the review file: the file is finite.
LEMMA LastInFile ==
  ASSUME NEW S, S \subseteq Candidates, S # {}
  PROVE  \E c \in S : \A d \in S : Cand[d].place <= Cand[c].place
<1> DEFINE length == Cardinality(Candidates)
           T == {length - Cand[c].place : c \in S}
<1>1. length \in Nat /\ \A c \in Candidates : Cand[c].place \in Nat /\ Cand[c].place <= length
  BY SemanticAssumption, FS_CardinalityType
<1> HIDE DEF length
<1>2. T \subseteq Nat /\ T # {}
  BY <1>1
<1>3. PICK n \in T : \A k \in T : n <= k
  BY <1>2, LeastNumber
<1>4. PICK c \in S : n = length - Cand[c].place
  BY <1>3
<1>5. ASSUME NEW d \in S PROVE Cand[d].place <= Cand[c].place
  <2>1. n <= length - Cand[d].place
    BY <1>3
  <2> QED BY <1>1, <1>4, <2>1
<1> QED BY <1>5

\* The export of every review file is an ontology: each entity that is kept has a surest
\* candidate to define it.
LEMMA FragmentTyped ==
  ASSUME NEW rs
  PROVE  Fragment(rs) \in ApprovedFiles
<1> DEFINE D == {Cand[c].entity : c \in Kept(rs)}
           Surest(e, c) == /\ Cand[c].entity = e
                           /\ \A d \in Kept(rs) : Cand[d].entity = e => Cand[d].conf <= Cand[c].conf
           ents == [e \in D |-> CHOOSE c \in Kept(rs) : Surest(e, c)]
           rels == UNION {Cand[c].rels : c \in Kept(rs)}
<1>1. Kept(rs) \subseteq Candidates /\ Approved(rs) \subseteq Candidates /\ Kept(rs) \subseteq Approved(rs)
  BY DEF Kept, Approved
<1>2. \A c \in Candidates : /\ Cand[c].entity \in Entities /\ Cand[c].rels \subseteq Rels
                            /\ Cand[c].conf \in Nat /\ Cand[c].place \in Nat
  BY SemanticAssumption
<1>3. ASSUME NEW e \in D PROVE \E c \in Kept(rs) : Surest(e, c)
  <2> DEFINE S == {c \in Kept(rs) : Cand[c].entity = e}
  <2>1. S # {} /\ S \subseteq Candidates
    BY <1>1
  <2>2. PICK c \in S : \A d \in S : Cand[d].place <= Cand[c].place
    BY <2>1, LastInFile
  <2>3. c \in Kept(rs) /\ Cand[c].entity = e
    BY <2>2
  <2>4. ASSUME NEW d \in Kept(rs), Cand[d].entity = e PROVE Cand[d].conf <= Cand[c].conf
    <3>1. CASE d = c
      BY <1>1, <1>2, <2>3, <3>1
    <3>2. CASE d # c
      <4>1. Cand[d].place # Cand[c].place /\ Cand[d].place <= Cand[c].place
        BY <1>1, <2>2, <2>3, <2>4, <3>2, SemanticAssumption
      <4>2. Cand[d].place < Cand[c].place
        BY <1>1, <1>2, <2>3, <4>1
      <4>3. Cand[d].conf < Cand[c].conf
        BY <1>1, <2>3, <2>4, <4>2 DEF Kept
      <4> QED BY <1>1, <1>2, <2>3, <4>3
    <3> QED BY <3>1, <3>2
  <2> QED BY <2>3, <2>4
<1>4. \A e \in D : ents[e] \in Candidates
  <2>1. ASSUME NEW e \in D PROVE ents[e] \in Candidates
    <3>1. (CHOOSE c \in Kept(rs) : Surest(e, c)) \in Kept(rs)
      BY <1>3
    <3> QED BY <1>1, <3>1
  <2> QED BY <2>1
<1>5. ents \in EntLayers
  <2>1. D \subseteq Entities
    BY <1>1, <1>2
  <2>2. ents \in [D -> Defs]
    BY <1>4, SemanticAssumption
  <2> QED BY <2>1, <2>2 DEF EntLayers, PartialFn
<1>6. rels \in SUBSET Rels
  BY <1>1, <1>2
<1>7. Fragment(rs) = [ents |-> ents, rels |-> rels]
  BY DEF Fragment
<1> HIDE DEF ents, rels
<1> QED BY <1>5, <1>6, <1>7 DEF ApprovedFiles

\* So has each metric that is collected a candidate that defines it first.
LEMMA ApprovedMetricsTyped ==
  ASSUME NEW rs
  PROVE  ApprovedMetrics(rs) \in MetLayers
<1> DEFINE D == UNION {DOMAIN Cand[c].mets : c \in Approved(rs)}
           Named(m) == {c \in Approved(rs) : m \in DOMAIN Cand[c].mets}
           first(m) == CHOOSE c \in Named(m) : \A d \in Named(m) : Cand[c].place <= Cand[d].place
<1>1. Approved(rs) \subseteq Candidates
  BY DEF Approved
<1>2. ASSUME NEW c \in Candidates, NEW m \in DOMAIN Cand[c].mets
      PROVE  m \in Metrics /\ Cand[c].mets[m] \in MetricDefs
  <2>1. Cand[c].mets \in MetLayers
    BY SemanticAssumption
  <2>2. PICK E \in SUBSET Metrics : Cand[c].mets \in [E -> MetricDefs]
    BY <2>1 DEF MetLayers, PartialFn
  <2> QED BY <2>2
<1>3. ASSUME NEW m \in D PROVE first(m) \in Candidates /\ m \in DOMAIN Cand[first(m)].mets
  <2>1. Named(m) # {} /\ Named(m) \subseteq Candidates
    BY <1>1
  <2>2. \E c \in Named(m) : \A d \in Named(m) : Cand[c].place <= Cand[d].place
    BY <2>1, FirstInFile
  <2>3. first(m) \in Named(m)
    <3> HIDE DEF Named
    <3> QED BY <2>2
  <2> QED BY <2>1, <2>3
<1>4. D \subseteq Metrics
  BY <1>1, <1>2
<1>5. ApprovedMetrics(rs) = [m \in D |-> Cand[first(m)].mets[m]]
  BY DEF ApprovedMetrics
<1> HIDE DEF D, first
<1>6. ApprovedMetrics(rs) \in [D -> MetricDefs]
  BY <1>2, <1>3, <1>5
<1> QED BY <1>4, <1>6 DEF MetLayers, PartialFn

-----------------------------------------------------------------------------
\* The lists of versions there can be.
Versions == Seq([number : 1 .. (VersionKeep + 1), content : Models])

\* A version more, or the same list if nothing is new: it ends in the model it was taken of
\* and is no longer than it may be.
LEMMA SnapshotTyped ==
  ASSUME NEW vs \in Versions, Len(vs) <= VersionKeep, NEW g \in Models
  PROVE  /\ Snapshotted(vs, g) \in Versions /\ Len(Snapshotted(vs, g)) <= VersionKeep
         /\ Snapshotted(vs, g) # <<>> /\ Snapshotted(vs, g)[Len(Snapshotted(vs, g))].content = g
<1>1. VersionKeep \in Nat \ {0} /\ Len(vs) \in Nat
  BY SemanticAssumption DEF Versions
<1>2. CASE vs # <<>> /\ vs[Len(vs)].content = g
  BY <1>2 DEF Snapshotted
<1>3. CASE ~(vs # <<>> /\ vs[Len(vs)].content = g)
  <2>1. PICK v : v = [number |-> Len(vs) + 1, content |-> g]
    OBVIOUS
  <2>2. v \in [number : 1 .. (VersionKeep + 1), content : Models] /\ v.content = g
    BY <1>1, <2>1
  <2>3. PICK all : all = Append(vs, v)
    OBVIOUS
  <2>4. all \in Versions /\ Len(all) = Len(vs) + 1 /\ all[Len(all)] = v
    BY <2>2, <2>3 DEF Versions
  <2>5. Snapshotted(vs, g) = IF Len(all) > VersionKeep THEN Tail(all) ELSE all
    BY <1>3, <2>1, <2>3 DEF Snapshotted
  <2>6. CASE Len(all) > VersionKeep
    <3>1. /\ Tail(all) \in Versions /\ Len(Tail(all)) = Len(all) - 1
          /\ Len(all) > 1 => Tail(all)[Len(all) - 1] = all[Len(all)]
      BY <1>1, <2>4, <2>6 DEF Versions
    <3> QED BY <1>1, <2>2, <2>4, <2>5, <2>6, <3>1
  <2>7. CASE ~(Len(all) > VersionKeep)
    BY <1>1, <2>2, <2>4, <2>5, <2>7
  <2> QED BY <2>6, <2>7
<1> QED BY <1>2, <1>3
-----------------------------------------------------------------------------
\* Types.  The place a handler is at or, in a reload, heads for says whether it applies
\* a template; while it does, what is still to be written is of that template.

Ops == {"none", "edit", "review", "merge", "import", "apply"}
Befores == [custom : CustomFiles, metrics : MetLayers, aliases : AliasFiles]
Reloading == {"base", "approved", "custom", "metrics"}
Heading(j) == IF j.pc \in Reloading THEN j.next ELSE j.pc
Templating == {"apply", "undo", "undo metrics", "undo aliases"}

LeftTyped(l) == DOMAIN l \subseteq Range(Parts) /\ \A p \in DOMAIN l : l[p] \in PartFiles(p)
PartOf(d, t) == DOMAIN d.ents \subseteq DOMAIN t.ents /\ DOMAIN d.mets \subseteq DOMAIN t.mets

JobTyped(j) ==
  /\ DOMAIN j = Fields
  /\ j.op \in Ops /\ j.pc \in JobPCs /\ j.next \in JobPCs \ Reloading /\ j.errors \in Nat
  /\ j.template \in Bundles /\ j.todo \in Bundles /\ LeftTyped(j.left) /\ j.before \in Befores
  /\ j.op = "apply" <=> Heading(j) \in Templating
  /\ j.op = "apply" => PartOf(j.todo, j.template)

FilesTyped ==
  /\ custom \in CustomFiles /\ metrics \in MetLayers /\ approved \in ApprovedFiles
  /\ aliases \in AliasFiles /\ registry \in Models
  /\ versions \in Versions /\ Len(versions) <= VersionKeep
  /\ requests \in Nat

TypeInv == FilesTyped /\ JobTyped(job)

\* No definitions at all are a bundle, a file and a layer.
LEMMA NothingTyped ==
  /\ Nothing \in Bundles /\ NoneApproved \in ApprovedFiles /\ Absent \in CustomFiles
  /\ Nowhere \in EntLayers /\ Nowhere \in MetLayers /\ Nowhere \in AliasFiles /\ DOMAIN Nowhere = {}
<1>1. /\ Nowhere \in EntLayers /\ Nowhere \in MetLayers /\ Nowhere \in AliasFiles
      /\ DOMAIN Nowhere = {}
  BY NowhereTyped DEF EntLayers, MetLayers, AliasFiles
<1> QED BY <1>1 DEF Nothing, Bundles, NoneApproved, ApprovedFiles, CustomFiles

\* The idle handler.
LEMMA FreeTyped == JobTyped(Free) /\ Free.pc = "free"
<1>1. Free.before \in Befores
  BY NothingTyped DEF Free, Befores
<1>2. /\ Free.template = Nothing /\ Free.todo = Nothing /\ Free.errors = 0 /\ Free.op = "none"
      /\ Free.next = "free" /\ Free.pc = "free" /\ DOMAIN Free = Fields /\ DOMAIN Free.left = {}
  BY FreeShape DEF Free
<1>3. LeftTyped(Free.left)
  BY <1>2 DEF LeftTyped
<1> QED BY <1>1, <1>2, <1>3, NothingTyped
        DEF JobTyped, Ops, JobPCs, Reloading, Heading, Templating

\* A handler that goes on in another place with the same locals.
LEMMA GoesOnTyped ==
  ASSUME JobTyped(job), DOMAIN job' = Fields, job'.op = job.op, job'.template = job.template,
         job'.todo = job.todo, job'.left = job.left, job'.before = job.before,
         job'.errors \in Nat, job'.pc \in JobPCs, job'.next \in JobPCs \ Reloading,
         Heading(job') \in Templating <=> Heading(job) \in Templating
  PROVE  JobTyped(job')
  BY DEF JobTyped

\* A reload.
LEMMA ReloadTypes == TypeInv /\ ReloadStep => TypeInv'
<1> SUFFICES ASSUME TypeInv, ReloadStep PROVE TypeInv'
  OBVIOUS
<1>1. FilesTyped /\ JobTyped(job) /\ UNCHANGED <<custom, metrics, approved, aliases, versions, requests>>
  BY DEF TypeInv, ReloadStep, files, counters
<1>2. registry' \in Models
  BY <1>1, LayersTyped, SemanticAssumption DEF ReloadStep, FilesTyped
<1>3. JobTyped(job')
  <2>1. CASE job' = Free
    BY <2>1, FreeTyped
  <2>2. ASSUME NEW pc \in JobPCs, job' = [job EXCEPT !.pc = pc], job.pc \in Reloading,
               pc \in Reloading \/ pc = job.next
        PROVE  JobTyped(job')
    <3>1. /\ DOMAIN job' = Fields /\ job'.op = job.op /\ job'.template = job.template
          /\ job'.todo = job.todo /\ job'.left = job.left /\ job'.before = job.before
          /\ job'.errors = job.errors /\ job'.pc = pc /\ job'.next = job.next
      BY <1>1, <2>2 DEF JobTyped, Fields
    <3>2. job.next \in JobPCs \ Reloading /\ job.errors \in Nat
      BY <1>1 DEF JobTyped
    <3>3. Heading(job') = Heading(job)
      BY <2>2, <3>1, <3>2 DEF Heading
    <3> QED BY <1>1, <2>2, <3>1, <3>2, <3>3, GoesOnTyped
  <2>3. job.next \in JobPCs
    BY <1>1 DEF JobTyped
  <2> QED BY <2>1, <2>2, <2>3 DEF ReloadStep, Reloading, JobPCs
<1> QED BY <1>1, <1>2, <1>3 DEF TypeInv, FilesTyped

\* A version.
LEMMA SnapshotTypes == TypeInv /\ Snapshot => TypeInv'
<1> SUFFICES ASSUME TypeInv, Snapshot PROVE TypeInv'
  OBVIOUS
<1>1. /\ FilesTyped /\ UNCHANGED <<custom, metrics, approved, aliases, registry, requests>>
      /\ job' = Free /\ versions' = Snapshotted(versions, registry)
  BY DEF TypeInv, Snapshot, files, counters
<1>2. versions' \in Versions /\ Len(versions') <= VersionKeep
  BY <1>1, SnapshotTyped DEF FilesTyped
<1> QED BY <1>1, <1>2, FreeTyped DEF TypeInv, FilesTyped

\* A handler that has just got the lock and keeps no locals but these.
LEMMA BegunTyped ==
  ASSUME NEW op \in Ops \ {"apply"}, NEW pc \in JobPCs \ Templating,
         NEW next \in {"free", "snapshot"},
         \/ job' = [Free EXCEPT !.op = op, !.pc = pc]
         \/ job' = [Free EXCEPT !.op = op, !.pc = pc, !.next = next]
  PROVE  JobTyped(job')
<1>1. /\ DOMAIN job' = Fields /\ job'.op = op /\ job'.template = Free.template /\ job'.todo = Free.todo
      /\ job'.left = Free.left /\ job'.before = Free.before /\ job'.errors = Free.errors
      /\ job'.pc = pc /\ job'.next \in {"free", "snapshot"}
  BY FreeShape DEF Fields
<1>2. Heading(job') \notin Templating
  BY <1>1 DEF Heading, Templating
<1>3. job'.next \in JobPCs \ Reloading
  BY <1>1 DEF JobPCs, Reloading
<1> QED BY <1>1, <1>2, <1>3, FreeTyped DEF JobTyped

\* The editors.
LEMMA EditTypes ==
  ASSUME TypeInv, Edited, custom' \in CustomFiles, metrics' \in MetLayers
  PROVE  TypeInv'
<1>1. /\ FilesTyped /\ UNCHANGED <<approved, aliases, registry, versions>> /\ requests' = requests + 1
      /\ job' = [Free EXCEPT !.op = "edit", !.pc = "base", !.next = "snapshot"]
  BY DEF TypeInv, Edited, Acquire
<1>2. JobTyped(job')
  BY <1>1, BegunTyped DEF Ops, JobPCs, Templating
<1>3. requests' \in Nat
  BY <1>1 DEF FilesTyped
<1> QED BY <1>1, <1>2, <1>3 DEF TypeInv, FilesTyped

\* Each editor writes a file of its kind.
LEMMA EditorTypes ==
  TypeInv /\ (\/ \E x \in EntityEdits : SaveEntity(x[1], x[2])
              \/ \E e \in Entities : DeleteEntity(e)
              \/ \E s \in RelEdits : SaveRelationships(s)
              \/ \E x \in MetricEdits :
                   AddMetric(x[1], x[2]) \/ \E old \in Metrics : UpdateMetric(old, x[1], x[2])
              \/ \E m \in Metrics : DeleteMetric(m))
    => TypeInv'
<1> SUFFICES ASSUME TypeInv,
                    \/ \E x \in EntityEdits : SaveEntity(x[1], x[2])
                    \/ \E e \in Entities : DeleteEntity(e)
                    \/ \E s \in RelEdits : SaveRelationships(s)
                    \/ \E x \in MetricEdits :
                         AddMetric(x[1], x[2]) \/ \E old \in Metrics : UpdateMetric(old, x[1], x[2])
                    \/ \E m \in Metrics : DeleteMetric(m)
             PROVE  TypeInv'
  OBVIOUS
<1>1. custom \in CustomFiles /\ metrics \in MetLayers
  BY DEF TypeInv, FilesTyped
<1>2. Loaded(custom).ents \in EntLayers
  BY <1>1, LoadedTyped
<1>3. ASSUME NEW x \in EntityEdits, SaveEntity(x[1], x[2]) PROVE TypeInv'
  <2>1. x[1] \in Entities /\ x[2] \in Defs
    BY SemanticAssumption
  <2>2. Set(Loaded(custom).ents, x[1], x[2]) \in EntLayers
    BY <1>2, <2>1, SetTyped DEF EntLayers
  <2>3. custom' = [Loaded(custom) EXCEPT !.ents = Set(Loaded(custom).ents, x[1], x[2])]
        /\ metrics' = metrics /\ Edited
    BY <1>3 DEF SaveEntity
  <2>4. custom' \in CustomFiles
    BY <1>1, <2>2, <2>3, CustomTyped
  <2> QED BY <1>1, <2>3, <2>4, EditTypes
<1>4. ASSUME NEW e \in Entities, DeleteEntity(e) PROVE TypeInv'
  <2>1. custom # Absent
    BY <1>4 DEF DeleteEntity, Loaded, Nowhere
  <2>2. Loaded(custom) = custom
    BY <2>1 DEF Loaded
  <2>3. Without(custom.ents, {e}) \in EntLayers
    BY <1>2, <2>2, WithoutTyped DEF EntLayers
  <2>4. custom' = [Loaded(custom) EXCEPT !.ents = Without(custom.ents, {e})]
        /\ metrics' = metrics /\ Edited
    BY <1>4, <2>2 DEF DeleteEntity
  <2>5. custom' \in CustomFiles
    BY <1>1, <2>3, <2>4, CustomTyped
  <2> QED BY <1>1, <2>4, <2>5, EditTypes
<1>5. ASSUME NEW s \in RelEdits, SaveRelationships(s) PROVE TypeInv'
  <2>1. s \in SUBSET Rels
    BY SemanticAssumption
  <2>2. custom' = [Loaded(custom) EXCEPT !.rels = s] /\ metrics' = metrics /\ Edited
    BY <1>5 DEF SaveRelationships
  <2>3. custom' \in CustomFiles
    <3>1. Nowhere \in EntLayers
      BY NothingTyped
    <3> QED BY <1>1, <2>1, <2>2, <3>1, CustomTyped
  <2> QED BY <1>1, <2>2, <2>3, EditTypes
<1>6. ASSUME NEW x \in MetricEdits, AddMetric(x[1], x[2]) \/ \E old \in Metrics : UpdateMetric(old, x[1], x[2])
      PROVE  TypeInv'
  <2>1. x[1] \in Metrics /\ x[2] \in MetricDefs
    BY SemanticAssumption
  <2>2. CASE AddMetric(x[1], x[2])
    <3>1. metrics' \in MetLayers
      BY <1>1, <2>1, <2>2, SetTyped DEF AddMetric, MetLayers
    <3> QED BY <1>1, <2>2, <3>1, EditTypes DEF AddMetric
  <2>3. ASSUME NEW old \in Metrics, UpdateMetric(old, x[1], x[2]) PROVE TypeInv'
    <3>1. PICK f : f = Without(metrics, {old} \ {x[1]}) /\ f \in MetLayers
      BY <1>1, WithoutTyped DEF MetLayers
    <3>2. metrics' = Set(f, x[1], x[2])
      BY <2>3, <3>1 DEF UpdateMetric
    <3>3. metrics' \in MetLayers
      BY <2>1, <3>1, <3>2, SetTyped DEF MetLayers
    <3> QED BY <1>1, <2>3, <3>3, EditTypes DEF UpdateMetric
  <2> QED BY <1>6, <2>2, <2>3
<1>7. ASSUME NEW m \in Metrics, DeleteMetric(m) PROVE TypeInv'
  <2>1. metrics' \in MetLayers
    BY <1>1, <1>7, WithoutTyped DEF DeleteMetric, MetLayers
  <2> QED BY <1>1, <1>7, <2>1, EditTypes DEF DeleteMetric
<1> QED BY <1>3, <1>4, <1>5, <1>6, <1>7

\* A step that leaves the handler and the files it may write to as they are.
LEMMA SameTypes ==
  ASSUME TypeInv, UNCHANGED <<custom, metrics, approved, registry, versions, job>>,
         aliases' \in AliasFiles, requests' \in {requests, requests + 1}
  PROVE  TypeInv'
<1>1. requests' \in Nat
  BY DEF TypeInv, FilesTyped
<1> QED BY <1>1 DEF TypeInv, FilesTyped

\* A step of which only the handler is new.
LEMMA JobTypes ==
  ASSUME TypeInv, UNCHANGED <<custom, metrics, approved, aliases, registry, versions>>,
         requests' \in {requests, requests + 1}, JobTyped(job')
  PROVE  TypeInv'
<1>1. requests' \in Nat
  BY DEF TypeInv, FilesTyped
<1> QED BY <1>1 DEF TypeInv, FilesTyped

\* What a template has that the model has not.
LEMMA PendingTyped ==
  ASSUME FilesTyped, NEW t \in Bundles
  PROVE  Pending(t) \in Bundles /\ PartOf(Pending(t), t)
<1>1. PICK e, m, a : /\ e = Without(t.ents, DOMAIN registry.ents)
                     /\ m = Without(t.mets, DOMAIN registry.mets)
                     /\ a = Without(t.aliases, DOMAIN aliases)
  OBVIOUS
<1>2. t.ents \in EntLayers /\ t.mets \in MetLayers /\ t.aliases \in AliasFiles /\ t.rels \in SUBSET Rels
  BY DEF Bundles
<1>3. e \in EntLayers /\ m \in MetLayers /\ a \in AliasFiles
  BY <1>1, <1>2, WithoutTyped DEF EntLayers, MetLayers, AliasFiles
<1>4. Pending(t) = [ents |-> e, rels |-> t.rels \ registry.rels, mets |-> m, aliases |-> a]
  BY <1>1 DEF Pending
<1>5. DOMAIN e \subseteq DOMAIN t.ents /\ DOMAIN m \subseteq DOMAIN t.mets
  BY <1>1 DEF Without, Restrict
<1> QED BY <1>2, <1>3, <1>4, <1>5 DEF Bundles, PartOf

\* Every request keeps the types.
LEMMA RequestTypes == TypeInv /\ SRequest => TypeInv'
<1> SUFFICES ASSUME TypeInv, SRequest PROVE TypeInv'
  OBVIOUS
<1>1. FilesTyped
  BY DEF TypeInv
<1>2. aliases \in AliasFiles
  BY <1>1 DEF FilesTyped
<1>3. ASSUME NEW new \in AliasFiles, EditAliases(new) PROVE TypeInv'
  BY <1>3, SameTypes DEF EditAliases, Acquire
<1>4. ASSUME NEW new \in AliasEdits PROVE Overlay(new, aliases) \in AliasFiles
  BY <1>2, OverlayTyped, SemanticAssumption DEF AliasFiles
<1>5. ASSUME NEW a \in DOMAIN aliases PROVE Without(aliases, {a}) \in AliasFiles
  BY <1>2, WithoutTyped DEF AliasFiles
<1>6. ASSUME NEW C, NEW status, StartScan(C, status) PROVE TypeInv'
  BY <1>2, <1>6, SameTypes DEF StartScan, files
<1>7. ASSUME NEW c, NEW decision, Review(c, decision) PROVE TypeInv'
  <2>1. JobTyped(job')
    <3>1. CASE decision = "approved"
      BY <1>7, <3>1, BegunTyped DEF Review, Ops, JobPCs, Templating
    <3>2. CASE decision # "approved"
      BY <1>7, <3>2, FreeTyped DEF Review
    <3> QED BY <3>1, <3>2
  <2> QED BY <1>7, <2>1, JobTypes DEF Review, Acquire
<1>8. CASE StartMerge
  <2>1. JobTyped(job')
    BY <1>8, BegunTyped DEF StartMerge, Ops, JobPCs, Templating
  <2> QED BY <1>8, <2>1, JobTypes DEF StartMerge, Acquire, files
<1>9. ASSUME NEW i \in Imports, StartImport(i) PROVE TypeInv'
  <2>1. job' = [Free EXCEPT !.op = "import", !.pc = "import", !.left = i]
    BY <1>9 DEF StartImport
  <2>2. /\ DOMAIN job' = Fields /\ job'.op = "import" /\ job'.pc = "import" /\ job'.left = i
        /\ job'.next = Free.next /\ job'.errors = Free.errors /\ job'.template = Free.template
        /\ job'.todo = Free.todo /\ job'.before = Free.before
    BY <2>1, FreeShape DEF Fields
  <2>3. LeftTyped(i)
    BY SemanticAssumption DEF LeftTyped
  <2>4. JobTyped(job')
    BY <2>2, <2>3, FreeTyped DEF JobTyped, Ops, JobPCs, Templating, Heading, Reloading
  <2> QED BY <1>9, <2>4, JobTypes DEF StartImport, Acquire, files
<1>10. ASSUME NEW t \in Templates, StartApply(t) PROVE TypeInv'
  <2>1. PICK b : b = [custom |-> custom, metrics |-> metrics, aliases |-> aliases]
    OBVIOUS
  <2>2. b \in Befores
    BY <1>1, <2>1 DEF Befores, FilesTyped
  <2>3. t \in Bundles
    BY SemanticAssumption
  <2>4. PICK d : d = Pending(t) /\ d \in Bundles /\ PartOf(d, t)
    BY <1>1, <2>3, PendingTyped
  <2>5. job' = [Free EXCEPT !.op = "apply", !.pc = "apply", !.template = t, !.todo = d, !.before = b]
    BY <1>10, <2>1, <2>4 DEF StartApply
  <2>6. /\ DOMAIN job' = Fields /\ job'.op = "apply" /\ job'.pc = "apply" /\ job'.left = Free.left
        /\ job'.next = Free.next /\ job'.errors = Free.errors /\ job'.template = t
        /\ job'.todo = d /\ job'.before = b
    BY <2>5, FreeShape DEF Fields
  <2>7. JobTyped(job')
    BY <2>2, <2>3, <2>4, <2>6, FreeTyped DEF JobTyped, Ops, JobPCs, Templating, Heading, Reloading
  <2> QED BY <1>10, <2>7, JobTypes DEF StartApply, Acquire, files
<1> QED BY <1>3, <1>4, <1>5, <1>6, <1>7, <1>8, <1>9, <1>10, EditorTypes DEF SRequest

\* A handler that goes on with less to be written, here or in a reload that leads back.
LEMMA ShorterTyped ==
  ASSUME JobTyped(job), NEW d \in Bundles, NEW next \in {"add", "apply"}, job.pc = next,
         next = "apply" => PartOf(d, job.todo),
         \/ job' = [job EXCEPT !.todo = d]
         \/ job' = [job EXCEPT !.pc = "base", !.next = next, !.todo = d]
         \/ job' = [[job EXCEPT !.pc = "base", !.next = next] EXCEPT !.todo = d]
         \/ job' = [[job EXCEPT !.todo = d] EXCEPT !.pc = "base", !.next = next]
  PROVE  JobTyped(job')
<1>1. /\ DOMAIN job' = Fields /\ job'.op = job.op /\ job'.left = job.left /\ job'.before = job.before
      /\ job'.template = job.template /\ job'.errors = job.errors /\ job'.todo = d
      /\ \/ job'.pc = job.pc /\ job'.next = job.next
         \/ job'.pc = "base" /\ job'.next = next
  <2>1. DOMAIN job = Fields
    BY DEF JobTyped
  <2>2. CASE job' = [job EXCEPT !.todo = d]
    BY <2>1, <2>2 DEF Fields
  <2>3. CASE job' = [job EXCEPT !.pc = "base", !.next = next, !.todo = d]
    BY <2>1, <2>3 DEF Fields
  <2>4. CASE job' = [[job EXCEPT !.pc = "base", !.next = next] EXCEPT !.todo = d]
    BY <2>1, <2>4 DEF Fields
  <2>5. CASE job' = [[job EXCEPT !.todo = d] EXCEPT !.pc = "base", !.next = next]
    BY <2>1, <2>5 DEF Fields
  <2> QED BY <2>2, <2>3, <2>4, <2>5
<1>2. Heading(job) = next /\ Heading(job') = next
  BY <1>1 DEF Heading, Reloading
<1>3. job.op = "apply" => PartOf(d, job.template)
  BY <1>2 DEF JobTyped, PartOf, Templating
<1>4. job'.pc \in JobPCs /\ job'.next \in JobPCs \ Reloading
  BY <1>1 DEF JobTyped, JobPCs, Reloading
<1> QED BY <1>1, <1>2, <1>3, <1>4 DEF JobTyped

\* Exports and approvals.
LEMMA ReviewTypes ==
  TypeInv /\ (Export \/ Collect \/ EndReview \/ \E m \in Metrics : AddCandidateMetric(m)) => TypeInv'
<1> SUFFICES ASSUME TypeInv, Export \/ Collect \/ EndReview \/ \E m \in Metrics : AddCandidateMetric(m)
             PROVE  TypeInv'
  OBVIOUS
<1>1. FilesTyped /\ JobTyped(job)
  BY DEF TypeInv
<1>2. ASSUME NEW pc \in {"base", "collect"}, NEW next \in {"free", "snapshot"},
             \/ job' = [job EXCEPT !.pc = pc] /\ pc = "collect"
             \/ job' = [job EXCEPT !.pc = pc, !.next = next],
             job.pc \in {"export", "add"}
      PROVE  JobTyped(job')
  <2>1. /\ DOMAIN job' = Fields /\ job'.op = job.op /\ job'.left = job.left /\ job'.before = job.before
        /\ job'.template = job.template /\ job'.errors = job.errors /\ job'.todo = job.todo
        /\ job'.pc = pc /\ job'.next \in {job.next, next}
        /\ pc = "base" => job'.next = next
    BY <1>1, <1>2 DEF JobTyped, Fields
  <2>2. Heading(job) \notin Templating /\ Heading(job') \notin Templating
    BY <1>2, <2>1 DEF Heading, Reloading, Templating
  <2>3. job'.pc \in JobPCs /\ job'.next \in JobPCs \ Reloading /\ job'.errors \in Nat
    BY <1>1, <2>1 DEF JobTyped, JobPCs, Reloading
  <2> QED BY <1>1, <2>1, <2>2, <2>3, GoesOnTyped
<1>3. CASE Export
  <2>1. JobTyped(job')
    BY <1>2, <1>3 DEF Export, Reload
  <2>2. approved' \in ApprovedFiles
    BY <1>3, FragmentTyped DEF Export
  <2> QED BY <1>1, <1>3, <2>1, <2>2 DEF Export, counters, TypeInv, FilesTyped
<1>4. CASE Collect
  <2>1. PICK f : f = ApprovedMetrics(Seen) /\ f \in MetLayers
    BY ApprovedMetricsTyped
  <2>2. job' = [job EXCEPT !.pc = "add", !.todo.mets = f] /\ job.pc = "collect"
    BY <1>4, <2>1 DEF Collect
  <2>3. /\ DOMAIN job' = Fields /\ job'.op = job.op /\ job'.left = job.left /\ job'.before = job.before
        /\ job'.template = job.template /\ job'.errors = job.errors
        /\ job'.todo = [job.todo EXCEPT !.mets = f]
        /\ job'.pc = "add" /\ job'.next = job.next
    BY <1>1, <2>2 DEF JobTyped, Fields
  <2>4. job'.todo \in Bundles
    BY <1>1, <2>1, <2>3 DEF JobTyped, Bundles
  <2>5. Heading(job) \notin Templating /\ Heading(job') \notin Templating
    BY <2>2, <2>3 DEF Heading, Reloading, Templating
  <2>6. JobTyped(job')
    BY <1>1, <2>3, <2>4, <2>5 DEF JobTyped, JobPCs
  <2> QED BY <1>4, <2>6, JobTypes DEF Collect, files, counters
<1>5. CASE EndReview
  <2>1. JobTyped(job')
    BY <1>2, <1>5 DEF EndReview, Reload
  <2> QED BY <1>5, <2>1, JobTypes DEF EndReview, files, counters
<1>6. ASSUME NEW m \in Metrics, AddCandidateMetric(m) PROVE TypeInv'
  <2>1. job.todo \in Bundles /\ job.pc = "add" /\ m \in DOMAIN job.todo.mets
    BY <1>1, <1>6 DEF JobTyped, AddCandidateMetric
  <2>2. PICK f : f = Without(job.todo.mets, {m})
    OBVIOUS
  <2>3. PICK d : d = [job.todo EXCEPT !.mets = f]
    OBVIOUS
  <2>4. f \in MetLayers
    BY <2>1, <2>2, WithoutTyped DEF Bundles, MetLayers
  <2>5. d \in Bundles
    BY <2>1, <2>3, <2>4 DEF Bundles
  <2>6. Dropped(m) = [job EXCEPT !.todo = d]
    BY <1>1, <2>2, <2>3 DEF Dropped, JobTyped, Fields
  <2>7. JobTyped(job')
    <3>1. \/ job' = [job EXCEPT !.todo = d]
          \/ job' = [[job EXCEPT !.todo = d] EXCEPT !.pc = "base", !.next = "add"]
      BY <1>6, <2>6 DEF AddCandidateMetric
    <3> QED BY <1>1, <2>1, <2>5, <3>1, ShorterTyped
  <2>8. job.todo.mets[m] \in MetricDefs
    <3>1. job.todo.mets \in MetLayers
      BY <2>1 DEF Bundles
    <3>2. PICK D \in SUBSET Metrics : job.todo.mets \in [D -> MetricDefs]
      BY <3>1 DEF MetLayers, PartialFn
    <3> QED BY <2>1, <3>2
  <2>9. metrics' \in MetLayers
    <3>1. metrics \in MetLayers
      BY <1>1 DEF FilesTyped
    <3>2. Set(metrics, m, job.todo.mets[m]) \in MetLayers
      BY <2>8, <3>1, SetTyped DEF MetLayers
    <3> QED BY <1>6, <3>1, <3>2 DEF AddCandidateMetric
  <2> QED BY <1>1, <1>6, <2>7, <2>9 DEF AddCandidateMetric, counters, TypeInv, FilesTyped
<1> QED BY <1>3, <1>4, <1>5, <1>6

\* A part of an import over its file.
LEMMA ReplaceTypes ==
  ASSUME FilesTyped, NEW p \in Range(Parts), NEW v, p # "candidates" => v \in PartFiles(p), Replace(p, v)
  PROVE  /\ custom' \in CustomFiles /\ metrics' \in MetLayers /\ approved' \in ApprovedFiles
         /\ aliases' \in AliasFiles
<1>1. /\ p = "custom" => v \in CustomFiles
      /\ p = "metrics" => v \in MetLayers
      /\ p = "approved" => v \in ApprovedFiles
  BY DEF PartFiles
<1>2. custom' \in CustomFiles
  BY <1>1 DEF Replace, FilesTyped
<1>3. metrics' \in MetLayers
  BY <1>1 DEF Replace, FilesTyped
<1>4. approved' \in ApprovedFiles
  BY <1>1 DEF Replace, FilesTyped
<1> QED BY <1>2, <1>3, <1>4 DEF Replace, FilesTyped

\* Imports.
LEMMA ImportTypes == TypeInv /\ (EndImport \/ \E p \in Range(Parts) : ImportPart(p)) => TypeInv'
<1> SUFFICES ASSUME TypeInv, EndImport \/ \E p \in Range(Parts) : ImportPart(p) PROVE TypeInv'
  OBVIOUS
<1>1. FilesTyped /\ JobTyped(job) /\ job.pc = "import"
  BY DEF TypeInv, EndImport, ImportPart
<1>2. Heading(job) \notin Templating
  BY <1>1 DEF Heading, Reloading, Templating
<1>3. CASE EndImport
  <2>1. job' = [job EXCEPT !.pc = "base", !.next = "free"]
    BY <1>3 DEF EndImport, Reload
  <2>2. /\ DOMAIN job' = Fields /\ job'.op = job.op /\ job'.left = job.left /\ job'.before = job.before
        /\ job'.template = job.template /\ job'.errors = job.errors /\ job'.todo = job.todo
        /\ job'.pc = "base" /\ job'.next = "free"
    BY <1>1, <2>1 DEF JobTyped, Fields
  <2>3. Heading(job') \notin Templating
    BY <2>2 DEF Heading, Reloading, Templating
  <2>4. job'.pc \in JobPCs /\ job'.next \in JobPCs \ Reloading /\ job'.errors \in Nat
    BY <1>1, <2>2 DEF JobTyped, JobPCs, Reloading
  <2>5. JobTyped(job')
    BY <1>1, <1>2, <2>2, <2>3, <2>4, GoesOnTyped
  <2> QED BY <1>3, <2>5, JobTypes DEF EndImport, files, counters
<1>4. ASSUME NEW p \in Range(Parts), ImportPart(p) PROVE TypeInv'
  <2>1. PICK l : l = Without(job.left, {p})
    OBVIOUS
  <2>2. job' = [job EXCEPT !.left = l] /\ Replace(p, job.left[p]) /\ p \in DOMAIN job.left
    BY <1>4, <2>1 DEF ImportPart, NextPart
  <2>3. /\ DOMAIN job' = Fields /\ job'.op = job.op /\ job'.left = l /\ job'.before = job.before
        /\ job'.template = job.template /\ job'.errors = job.errors /\ job'.todo = job.todo
        /\ job'.pc = job.pc /\ job'.next = job.next
    BY <1>1, <2>2 DEF JobTyped, Fields
  <2>4. \A q \in DOMAIN l : q \in DOMAIN job.left /\ l[q] = job.left[q]
    BY <2>1 DEF Without, Restrict
  <2>5. LeftTyped(l)
    BY <1>1, <2>4 DEF JobTyped, LeftTyped
  <2>6. JobTyped(job')
    <3>1. Heading(job') = Heading(job)
      BY <2>3 DEF Heading
    <3> QED BY <1>1, <2>3, <2>5, <3>1 DEF JobTyped
  <2>7. job.left[p] \in PartFiles(p)
    BY <1>1, <2>2 DEF JobTyped, LeftTyped
  <2>8. /\ custom' \in CustomFiles /\ metrics' \in MetLayers /\ approved' \in ApprovedFiles
        /\ aliases' \in AliasFiles
    BY <1>1, <2>2, <2>7, ReplaceTypes
  <2> QED BY <1>1, <1>4, <2>6, <2>8 DEF ImportPart, counters, TypeInv, FilesTyped
<1> QED BY <1>3, <1>4

\* The application of a template.
LEMMA ApplyTypes ==
  TypeInv /\ (\/ \E e \in Entities : ApplyEntity(e)
              \/ \E m \in Metrics : ApplyMetric(m)
              \/ ApplyRelationships \/ ApplyAliases \/ EndApply) => TypeInv'
<1> SUFFICES ASSUME TypeInv, \/ \E e \in Entities : ApplyEntity(e)
                             \/ \E m \in Metrics : ApplyMetric(m)
                             \/ ApplyRelationships \/ ApplyAliases \/ EndApply
             PROVE  TypeInv'
  OBVIOUS
<1>1. /\ job.pc = "apply" /\ UNCHANGED <<approved, registry, versions, requests>>
      /\ FilesTyped /\ JobTyped(job)
  BY DEF ApplyEntity, ApplyMetric, ApplyRelationships, ApplyAliases, EndApply, Applying, counters,
         TypeInv
<1>2. job.op = "apply" /\ PartOf(job.todo, job.template)
  BY <1>1 DEF JobTyped, Heading, Reloading, Templating
<1>3. /\ job.template \in Bundles /\ job.todo \in Bundles /\ custom \in CustomFiles
      /\ metrics \in MetLayers /\ aliases \in AliasFiles /\ registry \in Models
  BY <1>1 DEF JobTyped, FilesTyped
<1>4. /\ job.todo.ents \in EntLayers /\ job.todo.mets \in MetLayers /\ job.todo.aliases \in AliasFiles
      /\ job.template.ents \in EntLayers /\ job.template.mets \in MetLayers
      /\ job.todo.rels \in SUBSET Rels /\ registry.rels \in SUBSET Rels
  BY <1>3 DEF Bundles, Models
<1>5. ASSUME NEW d \in Bundles, PartOf(d, job.todo), job' = Applied(d) \/ job' = [job EXCEPT !.todo = d],
             custom' \in CustomFiles, metrics' \in MetLayers, aliases' \in AliasFiles
      PROVE  TypeInv'
  <2>1. JobTyped(job')
    BY <1>1, <1>5, ShorterTyped DEF Applied, Reload
  <2> QED BY <1>1, <1>5, <2>1 DEF TypeInv, FilesTyped
<1>6. ASSUME NEW e \in Entities, ApplyEntity(e) PROVE TypeInv'
  <2>1. PICK f, d : f = Without(job.todo.ents, {e}) /\ d = [job.todo EXCEPT !.ents = f]
    OBVIOUS
  <2>2. f \in EntLayers /\ DOMAIN f \subseteq DOMAIN job.todo.ents
    BY <1>4, <2>1, WithoutTyped DEF EntLayers, Without, Restrict
  <2>3. d \in Bundles /\ PartOf(d, job.todo)
    BY <1>3, <2>1, <2>2 DEF Bundles, PartOf
  <2>4. job' = Applied(d) /\ UNCHANGED <<metrics, aliases>>
    BY <1>6, <2>1 DEF ApplyEntity
  <2>5. job.template.ents[e] \in Defs
    <3>1. PICK D \in SUBSET Entities : job.template.ents \in [D -> Defs]
      BY <1>4 DEF EntLayers, PartialFn
    <3> QED BY <1>2, <1>6, <3>1 DEF ApplyEntity, PartOf
  <2>6. Loaded(custom).ents \in EntLayers
    BY <1>3, LoadedTyped
  <2>7. Set(Loaded(custom).ents, e, job.template.ents[e]) \in EntLayers
    BY <2>5, <2>6, SetTyped DEF EntLayers
  <2>8. custom' = [Loaded(custom) EXCEPT !.ents = Set(Loaded(custom).ents, e, job.template.ents[e])]
    BY <1>6 DEF ApplyEntity
  <2>9. custom' \in CustomFiles
    BY <1>3, <2>7, <2>8, CustomTyped
  <2> QED BY <1>3, <1>5, <2>3, <2>4, <2>9
<1>7. CASE ApplyRelationships
  <2>1. PICK d : d = [job.todo EXCEPT !.rels = {}]
    OBVIOUS
  <2>2. d \in Bundles /\ PartOf(d, job.todo)
    BY <1>3, <2>1 DEF Bundles, PartOf
  <2>3. /\ job' = Applied(d) /\ UNCHANGED <<metrics, aliases>>
        /\ custom' = [Loaded(custom) EXCEPT !.rels = registry.rels \cup job.todo.rels]
    BY <1>7, <2>1 DEF ApplyRelationships
  <2>4. custom' \in CustomFiles
    <3>1. registry.rels \cup job.todo.rels \in SUBSET Rels /\ Nowhere \in EntLayers
      BY <1>4, NothingTyped
    <3> QED BY <1>3, <2>3, <3>1, CustomTyped
  <2> QED BY <1>3, <1>5, <2>2, <2>3, <2>4
<1>8. ASSUME NEW m \in Metrics, ApplyMetric(m) PROVE TypeInv'
  <2>1. PICK f, d : f = Without(job.todo.mets, {m}) /\ d = [job.todo EXCEPT !.mets = f]
    OBVIOUS
  <2>2. f \in MetLayers /\ DOMAIN f \subseteq DOMAIN job.todo.mets
    BY <1>4, <2>1, WithoutTyped DEF MetLayers, Without, Restrict
  <2>3. d \in Bundles /\ PartOf(d, job.todo)
    BY <1>3, <2>1, <2>2 DEF Bundles, PartOf
  <2>4. job' = Applied(d) /\ UNCHANGED <<custom, aliases>>
    BY <1>8, <2>1 DEF ApplyMetric
  <2>5. job.template.mets[m] \in MetricDefs
    <3>1. PICK D \in SUBSET Metrics : job.template.mets \in [D -> MetricDefs]
      BY <1>4 DEF MetLayers, PartialFn
    <3> QED BY <1>2, <1>8, <3>1 DEF ApplyMetric, PartOf
  <2>6. metrics' \in MetLayers
    BY <1>3, <1>8, <2>5, SetTyped DEF ApplyMetric, MetLayers
  <2> QED BY <1>3, <1>5, <2>3, <2>4, <2>6
<1>9. CASE ApplyAliases
  <2>1. PICK d : d = [job.todo EXCEPT !.aliases = Nowhere]
    OBVIOUS
  <2>2. d \in Bundles /\ PartOf(d, job.todo)
    BY <1>3, <2>1, NothingTyped DEF Bundles, PartOf
  <2>3. job' = [job EXCEPT !.todo = d] /\ UNCHANGED <<custom, metrics>>
    BY <1>1, <1>9, <2>1 DEF ApplyAliases, JobTyped, Fields
  <2>4. aliases' \in AliasFiles
    BY <1>3, <1>4, <1>9, OverlayTyped DEF ApplyAliases, AliasFiles
  <2> QED BY <1>3, <1>5, <2>2, <2>3, <2>4
<1>10. CASE EndApply
  BY <1>1, <1>10, FreeTyped DEF EndApply, TypeInv, FilesTyped
<1> QED BY <1>6, <1>7, <1>8, <1>9, <1>10

\* The roll-back.
LEMMA UndoTypes == TypeInv /\ Undo => TypeInv'
<1> SUFFICES ASSUME TypeInv, Undo PROVE TypeInv'
  OBVIOUS
<1>1. FilesTyped /\ JobTyped(job) /\ UNCHANGED <<approved, registry, versions, requests>>
  BY DEF TypeInv, Undo, counters
<1>2. /\ job.before.custom \in CustomFiles /\ job.before.metrics \in MetLayers
      /\ job.before.aliases \in AliasFiles
  BY <1>1 DEF JobTyped, Befores
<1>3. custom' \in CustomFiles /\ metrics' \in MetLayers /\ aliases' \in AliasFiles
  BY <1>1, <1>2 DEF Undo, FilesTyped
<1>4. CASE job' = [job EXCEPT !.pc = "undo metrics"] /\ job.pc = "undo"
  <2>1. /\ DOMAIN job' = Fields /\ job'.op = job.op /\ job'.left = job.left /\ job'.before = job.before
        /\ job'.template = job.template /\ job'.errors = job.errors /\ job'.todo = job.todo
        /\ job'.pc = "undo metrics" /\ job'.next = job.next
    BY <1>1, <1>4 DEF JobTyped, Fields
  <2>2. Heading(job) \in Templating /\ Heading(job') \in Templating
    BY <1>4, <2>1 DEF Heading, Reloading, Templating
  <2>3. job'.pc \in JobPCs /\ job'.next \in JobPCs \ Reloading /\ job'.errors \in Nat
    BY <1>1, <2>1 DEF JobTyped, JobPCs
  <2> QED BY <1>1, <1>3, <2>1, <2>2, <2>3, GoesOnTyped DEF TypeInv, FilesTyped
<1>5. CASE job' = Reload("undo aliases") /\ job.pc = "undo metrics"
  <2>1. /\ DOMAIN job' = Fields /\ job'.op = job.op /\ job'.left = job.left /\ job'.before = job.before
        /\ job'.template = job.template /\ job'.errors = job.errors /\ job'.todo = job.todo
        /\ job'.pc = "base" /\ job'.next = "undo aliases"
    BY <1>1, <1>5 DEF JobTyped, Fields, Reload
  <2>2. Heading(job) \in Templating /\ Heading(job') \in Templating
    BY <1>5, <2>1 DEF Heading, Reloading, Templating
  <2>3. job'.pc \in JobPCs /\ job'.next \in JobPCs \ Reloading /\ job'.errors \in Nat
    BY <1>1, <2>1 DEF JobTyped, JobPCs, Reloading
  <2> QED BY <1>1, <1>3, <2>1, <2>2, <2>3, GoesOnTyped DEF TypeInv, FilesTyped
<1>6. CASE job' = Free
  BY <1>1, <1>3, <1>6, FreeTyped DEF TypeInv, FilesTyped
<1> QED BY <1>4, <1>5, <1>6 DEF Undo

\* Calls that fail.
LEMMA FailTypes == TypeInv /\ (FailJob \/ FailApply \/ FailReviews) => TypeInv'
<1> SUFFICES ASSUME TypeInv, FailJob \/ FailApply \/ FailReviews PROVE TypeInv'
  OBVIOUS
<1>1. FilesTyped /\ JobTyped(job) /\ UNCHANGED requests
  BY DEF TypeInv, FailJob, FailApply, FailReviews, Failing
<1>2. ASSUME registry' \in Unread PROVE registry' \in Models
  BY <1>1, <1>2, SemanticAssumption DEF Unread, FilesTyped, Models
<1>3. CASE FailReviews
  BY <1>1, <1>3, SameTypes DEF FailReviews, FilesTyped
<1>4. CASE FailJob
  <2>1. job' = Free /\ registry' \in Models
    BY <1>2, <1>4 DEF FailJob
  <2>2. CASE UNCHANGED <<custom, metrics, aliases>> /\ approved' \in {approved, NoneApproved}
             /\ versions' \in {versions, <<>>}
    <3>1. approved' \in ApprovedFiles
      BY <1>1, <2>2, NothingTyped DEF FilesTyped
    <3>2. versions' \in Versions /\ Len(versions') <= VersionKeep
      <4>1. <<>> \in Versions /\ Len(<<>>) <= VersionKeep
        BY SemanticAssumption DEF Versions
      <4> QED BY <1>1, <2>2, <4>1 DEF FilesTyped
    <3> QED BY <1>1, <2>1, <2>2, <3>1, <3>2, FreeTyped DEF TypeInv, FilesTyped
  <2>3. ASSUME NEW p \in Range(Parts), NEW v, Replace(p, v), UNCHANGED versions,
               v = CASE p = "custom" -> Absent [] p = "metrics" -> Nowhere
                     [] p = "approved" -> NoneApproved [] p = "candidates" -> NoReviews
        PROVE  TypeInv'
    <3>1. p \in {"custom", "metrics", "approved", "candidates"}
      BY DEF Range, Parts
    <3>2. p # "candidates" => v \in PartFiles(p)
      <4>1. CASE p = "custom"
        BY <2>3, <4>1, NothingTyped DEF PartFiles
      <4>2. CASE p = "metrics"
        BY <2>3, <4>2, NothingTyped DEF PartFiles
      <4>3. CASE p = "approved"
        BY <2>3, <4>3, NothingTyped DEF PartFiles
      <4> QED BY <3>1, <4>1, <4>2, <4>3
    <3>3. /\ custom' \in CustomFiles /\ metrics' \in MetLayers /\ approved' \in ApprovedFiles
          /\ aliases' \in AliasFiles
      BY <1>1, <2>3, <3>2, ReplaceTypes
    <3> QED BY <1>1, <2>1, <2>3, <3>3, FreeTyped DEF TypeInv, FilesTyped
  <2>4. CASE job.pc = "import"
    <3>1. PICK p \in Range(Parts) :
            NextPart(p) /\ Replace(p, CASE p = "custom" -> Absent [] p = "metrics" -> Nowhere
                                        [] p = "approved" -> NoneApproved
                                        [] p = "candidates" -> NoReviews)
      BY <1>4, <2>4 DEF FailJob
    <3> QED BY <1>4, <2>3, <2>4, <3>1 DEF FailJob
  <2>5. CASE job.pc # "import"
    BY <1>4, <2>2, <2>5 DEF FailJob, files
  <2> QED BY <2>4, <2>5
<1>5. CASE FailApply
  <2>1. registry' \in Models /\ job.op = "apply" /\ UNCHANGED <<custom, metrics, approved, aliases, versions>>
    BY <1>2, <1>5 DEF FailApply, files
  <2>2. CASE job' = Free
    BY <1>1, <2>1, <2>2, FreeTyped DEF TypeInv, FilesTyped
  <2>3. CASE job' # Free
    <3>1. \/ job' = [job EXCEPT !.pc = "undo"]
          \/ job' = [job EXCEPT !.pc = "undo aliases", !.errors = job.errors + 1]
      BY <1>5, <2>3 DEF FailApply
    <3>2. job.errors \in Nat /\ job.errors + 1 \in Nat /\ DOMAIN job = Fields
      BY <1>1 DEF JobTyped
    <3>3. /\ DOMAIN job' = Fields /\ job'.op = job.op /\ job'.left = job.left /\ job'.before = job.before
          /\ job'.template = job.template /\ job'.errors \in {job.errors, job.errors + 1}
          /\ job'.todo = job.todo
          /\ job'.pc \in {"undo", "undo aliases"} /\ job'.next = job.next
      <4>1. CASE job' = [job EXCEPT !.pc = "undo"]
        BY <3>2, <4>1 DEF Fields
      <4>2. CASE job' = [job EXCEPT !.pc = "undo aliases", !.errors = job.errors + 1]
        BY <3>2, <4>2 DEF Fields
      <4> QED BY <3>1, <4>1, <4>2
    <3>4. Heading(job) \in Templating /\ Heading(job') \in Templating
      BY <1>1, <2>1, <3>3 DEF JobTyped, Heading, Reloading, Templating
    <3>5. job'.pc \in JobPCs /\ job'.next \in JobPCs \ Reloading /\ job'.errors \in Nat
      BY <1>1, <3>2, <3>3 DEF JobTyped, JobPCs
    <3>6. JobTyped(job')
      BY <1>1, <3>3, <3>4, <3>5, GoesOnTyped
    <3> QED BY <1>1, <2>1, <3>6 DEF TypeInv, FilesTyped
  <2> QED BY <2>2, <2>3
<1> QED BY <1>3, <1>4, <1>5

\* A restart.
LEMMA RestartTypes == TypeInv /\ Restart => TypeInv'
<1> SUFFICES ASSUME TypeInv, Restart PROVE TypeInv'
  OBVIOUS
<1>1. /\ FilesTyped /\ UNCHANGED <<custom, metrics, approved, aliases, requests>>
      /\ job' = Free /\ registry' = Merged(approved, custom, metrics)
      /\ versions' = Snapshotted(versions, registry')
  BY DEF TypeInv, Restart
<1>2. registry' \in Models
  BY <1>1, MergedTyped DEF FilesTyped
<1>3. versions' \in Versions /\ Len(versions') <= VersionKeep
  BY <1>1, <1>2, SnapshotTyped DEF FilesTyped
<1> QED BY <1>1, <1>2, <1>3, FreeTyped DEF TypeInv, FilesTyped

\* The initial state.
LEMMA InitTypes == SInit => TypeInv
<1> SUFFICES ASSUME SInit PROVE TypeInv
  OBVIOUS
<1>1. custom \in CustomFiles
  BY NothingTyped, SemanticAssumption DEF SInit, CustomFiles, Models
<1>2. metrics \in MetLayers /\ approved \in ApprovedFiles /\ aliases \in AliasFiles
  BY NothingTyped DEF SInit
<1>3. registry \in Models
  BY <1>1, <1>2, MergedTyped DEF SInit
<1>4. versions \in Versions /\ Len(versions) <= VersionKeep
  <2>1. <<>> \in Versions /\ Len(<<>>) <= VersionKeep
    BY SemanticAssumption DEF Versions
  <2> QED BY <1>3, <2>1, SnapshotTyped DEF SInit
<1> QED BY <1>1, <1>2, <1>3, <1>4, FreeTyped DEF SInit, TypeInv, FilesTyped

\* The invariant is inductive.
LEMMA TypeStep == TypeInv /\ [SNext]_svars => TypeInv'
<1> SUFFICES ASSUME TypeInv, [SNext]_svars PROVE TypeInv'
  OBVIOUS
<1>1. aliases \in AliasFiles
  BY DEF TypeInv, FilesTyped
<1>2. CASE ScanStep
  BY <1>1, <1>2, SameTypes DEF ScanStep, counters
<1>3. CASE UNCHANGED svars
  BY <1>1, <1>3, SameTypes DEF svars, files, counters
<1>4. CASE JobStep
  BY <1>4, ReloadTypes, SnapshotTypes, ReviewTypes, ImportTypes, ApplyTypes, UndoTypes DEF JobStep
<1> QED BY <1>2, <1>3, <1>4, RequestTypes, FailTypes, RestartTypes DEF SNext

\* Whatever the constants: every file, the registry, every version and every local of
\* the handlers is of its type; no definition comes from outside the layers, and the
\* list of versions is never longer than it may be.
THEOREM STypeCorrect == SSpec => []STypeOK
<1>1. TypeInv /\ LoadInv /\ ScanInv => STypeOK
  <2> SUFFICES ASSUME TypeInv, LoadInv, ScanInv PROVE STypeOK
    OBVIOUS
  <2>1. FilesTyped /\ JobTyped(job) /\ failures \in Nat /\ crashes \in Nat
    BY DEF TypeInv, LoadInv, JobOK
  <2> QED BY <2>1 DEF FilesTyped, JobTyped, ScanInv, STypeOK, Scans, Ops, Befores, LeftTyped, Versions
<1>2. LoadInv /\ ScanInv /\ [SNext]_svars => LoadInv' /\ ScanInv'
  BY LoadStep, ScanNext
<1> QED BY <1>1, <1>2, InitLoads, InitScan, InitTypes, TypeStep, PTL DEF SSpec

\* Whatever the constants: a version that is taken is the model the files define.
THEOREM VersionsComplete == SSpec => VersionsAreMerged
<1> DEFINE Complete == job.pc = "snapshot" /\ job'.pc = "free" /\ failures' = failures /\ crashes' = crashes =>
                         versions'[Len(versions')].content = Merged(approved, custom, metrics)
<1>1. TypeInv /\ LoadInv /\ [SNext]_svars => Complete
  <2> SUFFICES ASSUME TypeInv, LoadInv, [SNext]_svars, job.pc = "snapshot", job'.pc = "free",
                      failures' = failures, crashes' = crashes
               PROVE  versions'[Len(versions')].content = Merged(approved, custom, metrics)
    OBVIOUS
  <2>1. Snapshot
    <3>1. ~ (FailJob \/ FailApply \/ FailReviews)
      <4>1. failures \in Nat
        BY DEF LoadInv, JobOK
      <4>2. failures' # failures + 1
        BY <4>1
      <4> QED BY <4>2 DEF FailJob, FailApply, FailReviews, Failing
    <3>2. ~ Restart
      <4>1. crashes \in Nat
        BY DEF LoadInv, JobOK
      <4>2. crashes' # crashes + 1
        BY <4>1
      <4> QED BY <4>2 DEF Restart
    <3>3. ~ UNCHANGED job
      OBVIOUS
    <3>4. ~ SRequest
      BY <3>3 DEF SRequest, SaveEntity, DeleteEntity, SaveRelationships, AddMetric, UpdateMetric, DeleteMetric,
            Edited, EditAliases, StartScan, Review, StartMerge, StartImport, StartApply, Acquire
    <3> QED BY <3>1, <3>2, <3>3, <3>4 DEF SNext, JobStep, ScanStep, svars, ReloadStep, Export, Collect,
               EndReview, EndImport, ImportPart, AddCandidateMetric, ApplyMetric, ApplyEntity,
               ApplyRelationships, ApplyAliases, EndApply, Applying, Undo
  <2>2. registry = Merged(approved, custom, metrics) /\ versions' = Snapshotted(versions, registry)
    BY <2>1 DEF LoadInv, Loading, Snapshot
  <2> QED BY <2>2, SnapshotTyped DEF TypeInv, FilesTyped
<1>2. TypeInv /\ LoadInv /\ [SNext]_svars => [Complete]_svars
  BY <1>1
<1> HIDE DEF Complete
<1>3. SSpec => [][Complete]_svars
  BY <1>2, InitLoads, LoadStep, InitTypes, TypeStep, PTL DEF SSpec
<1> QED BY <1>3, PTL DEF VersionsAreMerged, Complete

-----------------------------------------------------------------------------
\* The application of a template and its roll-back.

Now == Merged(approved, custom, metrics)

\* Layers that define the same names the same way are the same layer.
LEMMA SameLayer ==
  ASSUME NEW S, NEW T, NEW f \in PartialFn(S, T), NEW g \in PartialFn(S, T),
         DOMAIN f = DOMAIN g, \A x \in DOMAIN f : f[x] = g[x]
  PROVE  f = g
<1>1. PICK D \in SUBSET S : f \in [D -> T]
  BY DEF PartialFn
<1>2. PICK E \in SUBSET S : g \in [E -> T]
  BY DEF PartialFn
<1>3. f = [x \in DOMAIN f |-> f[x]] /\ g = [x \in DOMAIN f |-> g[x]]
  BY <1>1, <1>2
<1>4. [x \in DOMAIN f |-> f[x]] = [x \in DOMAIN f |-> g[x]]
  OBVIOUS
<1> QED BY <1>3, <1>4

\* An upper layer with one more definition.
LEMMA OverlaySet ==
  ASSUME NEW S, NEW T, NEW f \in PartialFn(S, T), NEW g \in PartialFn(S, T), NEW n \in S, NEW v \in T
  PROVE  Overlay(Set(f, n, v), g) = Set(Overlay(f, g), n, v)
<1>1. PICK s : s = Set(f, n, v) /\ s \in PartialFn(S, T)
  BY SetTyped
<1>2. PICK o : o = Overlay(f, g) /\ o \in PartialFn(S, T)
  BY OverlayTyped
<1>3. Overlay(s, g) \in PartialFn(S, T) /\ Set(o, n, v) \in PartialFn(S, T)
  BY <1>1, <1>2, OverlayTyped, SetTyped
<1>4. DOMAIN Overlay(s, g) = DOMAIN Set(o, n, v)
  <2>1. DOMAIN s = DOMAIN f \cup {n} /\ DOMAIN o = DOMAIN f \cup DOMAIN g
    BY <1>1, <1>2 DEF Overlay, Set
  <2>2. DOMAIN Overlay(s, g) = DOMAIN s \cup DOMAIN g /\ DOMAIN Set(o, n, v) = DOMAIN o \cup {n}
    BY DEF Overlay, Set
  <2> QED BY <2>1, <2>2
<1>5. ASSUME NEW x \in DOMAIN Overlay(s, g) PROVE Overlay(s, g)[x] = Set(o, n, v)[x]
  <2>1. x \in DOMAIN s \cup DOMAIN g /\ x \in DOMAIN o \cup {n} /\ DOMAIN s = DOMAIN f \cup {n}
    BY <1>1, <1>4, <1>5 DEF Overlay, Set
  <2>2. CASE x = n
    BY <1>1, <2>1, <2>2 DEF Overlay, Set
  <2>3. CASE x # n /\ x \in DOMAIN f
    <3>1. Overlay(s, g)[x] = s[x] /\ s[x] = f[x] /\ o[x] = f[x] /\ Set(o, n, v)[x] = o[x]
      BY <1>1, <1>2, <2>1, <2>3 DEF Overlay, Set
    <3> QED BY <3>1
  <2>4. CASE x # n /\ x \notin DOMAIN f
    <3>1. x \in (DOMAIN g) \ DOMAIN s /\ x \in (DOMAIN g) \ DOMAIN f /\ x \in DOMAIN o \ {n}
      BY <2>1, <2>4
    <3>2. Overlay(s, g)[x] = g[x] /\ o[x] = g[x] /\ Set(o, n, v)[x] = o[x]
      BY <1>2, <3>1 DEF Overlay, Set
    <3> QED BY <3>2
  <2> QED BY <2>2, <2>3, <2>4
<1>6. Overlay(s, g) = Set(o, n, v)
  BY <1>3, <1>4, <1>5, SameLayer
<1> QED BY <1>1, <1>2, <1>6

\* What is left of a template when only the names of D are still to be written; one
\* more of them is written.
LEMMA OneMoreApplied ==
  ASSUME NEW S, NEW T, NEW w \in PartialFn(S, T), NEW t \in PartialFn(S, T), NEW D,
         D \cap DOMAIN w = {}, NEW n \in D, n \in DOMAIN t
  PROVE  Set(Overlay(w, Without(t, D)), n, t[n]) = Overlay(w, Without(t, D \ {n}))
<1>1. n \in S /\ t[n] \in T
  BY DEF PartialFn
<1>2. PICK d, e : d = Without(t, D) /\ e = Without(t, D \ {n})
  OBVIOUS
<1>3. d \in PartialFn(S, T) /\ e \in PartialFn(S, T)
  BY <1>2, WithoutTyped
<1>4. PICK o : o = Overlay(w, d) /\ o \in PartialFn(S, T)
  BY <1>3, OverlayTyped
<1>5. Set(o, n, t[n]) \in PartialFn(S, T) /\ Overlay(w, e) \in PartialFn(S, T)
  BY <1>1, <1>3, <1>4, SetTyped, OverlayTyped
<1>6. /\ DOMAIN d = DOMAIN t \ D /\ DOMAIN e = DOMAIN t \ (D \ {n})
      /\ \A x \in DOMAIN d : d[x] = t[x]
      /\ \A x \in DOMAIN e : e[x] = t[x]
  BY <1>2 DEF Without, Restrict
<1>7. /\ DOMAIN o = DOMAIN w \cup DOMAIN d
      /\ \A x \in DOMAIN w : o[x] = w[x]
      /\ \A x \in (DOMAIN d) \ DOMAIN w : o[x] = d[x]
  BY <1>4 DEF Overlay
<1>8. /\ DOMAIN Overlay(w, e) = DOMAIN w \cup DOMAIN e
      /\ \A x \in DOMAIN w : Overlay(w, e)[x] = w[x]
      /\ \A x \in (DOMAIN e) \ DOMAIN w : Overlay(w, e)[x] = e[x]
  BY DEF Overlay
<1>9. /\ DOMAIN Set(o, n, t[n]) = DOMAIN o \cup {n} /\ Set(o, n, t[n])[n] = t[n]
      /\ \A x \in DOMAIN o \ {n} : Set(o, n, t[n])[x] = o[x]
  BY DEF Set, Overlay
<1>10. DOMAIN Set(o, n, t[n]) = DOMAIN Overlay(w, e)
  BY <1>6, <1>7, <1>8, <1>9
<1>11. ASSUME NEW x \in DOMAIN Overlay(w, e) PROVE Set(o, n, t[n])[x] = Overlay(w, e)[x]
  <2>1. CASE x = n
    BY <1>6, <1>8, <1>9, <2>1
  <2>2. CASE x # n /\ x \in DOMAIN w
    BY <1>7, <1>8, <1>9, <2>2
  <2>3. CASE x # n /\ x \notin DOMAIN w
    <3>1. x \in DOMAIN e /\ x \in DOMAIN d
      BY <1>6, <1>8, <2>3
    <3> QED BY <1>6, <1>7, <1>8, <1>9, <2>3, <3>1
  <2> QED BY <2>1, <2>2, <2>3
<1>12. Set(o, n, t[n]) = Overlay(w, e)
  BY <1>5, <1>10, <1>11, SameLayer
<1> QED BY <1>2, <1>4, <1>12

\* Before anything is written, and when nothing is left to be written.
LEMMA NothingApplied ==
  ASSUME NEW S, NEW T, NEW w \in PartialFn(S, T), NEW t \in PartialFn(S, T)
  PROVE  /\ Overlay(w, Without(t, DOMAIN Without(t, DOMAIN w))) = w
         /\ Without(t, {}) = t
         /\ DOMAIN Without(t, DOMAIN w) = {} => Overlay(w, t) = w
<1>1. PICK d : d = Without(t, DOMAIN w)
  OBVIOUS
<1>2. PICK e : e = Without(t, DOMAIN d) /\ e \in PartialFn(S, T)
  BY WithoutTyped
<1>3. DOMAIN d = DOMAIN t \ DOMAIN w /\ DOMAIN e = DOMAIN t \ DOMAIN d
  BY <1>1, <1>2 DEF Without, Restrict
<1>4. Overlay(w, e) = w
  <2>1. /\ DOMAIN Overlay(w, e) = DOMAIN w \cup DOMAIN e
        /\ \A x \in DOMAIN w : Overlay(w, e)[x] = w[x]
    BY DEF Overlay
  <2>2. Overlay(w, e) \in PartialFn(S, T)
    BY <1>2, OverlayTyped
  <2>3. DOMAIN Overlay(w, e) = DOMAIN w
    BY <1>3, <2>1
  <2> QED BY <2>1, <2>2, <2>3, SameLayer
<1>5. Without(t, {}) = t
  <2>1. Without(t, {}) \in PartialFn(S, T)
    BY WithoutTyped
  <2>2. DOMAIN Without(t, {}) = DOMAIN t /\ \A x \in DOMAIN t : Without(t, {})[x] = t[x]
    BY DEF Without, Restrict
  <2> QED BY <2>1, <2>2, SameLayer
<1>6. CASE DOMAIN d = {}
  <2>1. DOMAIN t \subseteq DOMAIN w
    BY <1>3, <1>6
  <2>2. /\ DOMAIN Overlay(w, t) = DOMAIN w \cup DOMAIN t
        /\ \A x \in DOMAIN w : Overlay(w, t)[x] = w[x]
    BY DEF Overlay
  <2>3. Overlay(w, t) \in PartialFn(S, T)
    BY OverlayTyped
  <2>4. DOMAIN Overlay(w, t) = DOMAIN w
    BY <2>1, <2>2
  <2>5. Overlay(w, t) = w
    BY <2>2, <2>3, <2>4, SameLayer
  <2> QED BY <1>1, <1>2, <1>4, <1>5, <2>5
<1> QED BY <1>1, <1>2, <1>4, <1>5, <1>6

\* The parts of the merged model.
LEMMA MergedParts ==
  ASSUME NEW a \in ApprovedFiles, NEW c \in CustomFiles, NEW m \in MetLayers
  PROVE  /\ Merged(a, c, m).ents = Overlay(Loaded(c).ents, Overlay(Base.ents, a.ents))
         /\ Merged(a, c, m).rels = IF c = Absent THEN Base.rels \cup a.rels
                                   ELSE IF c.rels = NoRels THEN Base.rels \cup a.rels ELSE c.rels
         /\ Merged(a, c, m).mets = WithMetrics(Base, m).mets
<1>1. Base \in Models /\ Base.ents \in EntLayers /\ a.ents \in EntLayers
  BY SemanticAssumption DEF Models, ApprovedFiles
<1>2. PICK o : o = Overlay(Base.ents, a.ents) /\ o \in EntLayers
  BY <1>1, OverlayTyped DEF EntLayers
<1>3. PICK x : x = WithApproved(Base, a) /\ x \in Models
  BY <1>1, LayersTyped
<1>4. x.ents = o /\ x.rels = Base.rels \cup a.rels /\ x.mets = Base.mets
  BY <1>1, <1>2, <1>3 DEF WithApproved, Models
<1>5. PICK y : y = WithCustom(x, c) /\ y \in Models
  BY <1>3, LayersTyped
<1>6. /\ y.ents = Overlay(Loaded(c).ents, o) /\ y.mets = Base.mets
      /\ y.rels = IF c = Absent THEN Base.rels \cup a.rels
                  ELSE IF c.rels = NoRels THEN Base.rels \cup a.rels ELSE c.rels
  <2>1. CASE c = Absent
    <3>1. y = x /\ Loaded(c).ents = Nowhere
      BY <1>5, <2>1 DEF WithCustom, Loaded
    <3>2. Nowhere \in EntLayers /\ Overlay(Nowhere, o) \in EntLayers
      BY <1>2, NothingTyped, OverlayTyped DEF EntLayers
    <3>3. DOMAIN Overlay(Nowhere, o) = DOMAIN o /\ \A n \in DOMAIN o : Overlay(Nowhere, o)[n] = o[n]
      BY NothingTyped DEF Overlay
    <3>4. Overlay(Nowhere, o) = o
      BY <1>2, <3>2, <3>3, SameLayer DEF EntLayers
    <3> QED BY <1>4, <2>1, <3>1, <3>4
  <2>2. CASE c # Absent
    <3>1. PICK e, r : e = Overlay(c.ents, x.ents) /\ r = IF c.rels = NoRels THEN x.rels ELSE c.rels
      OBVIOUS
    <3>2. y = [x EXCEPT !.ents = e, !.rels = r] /\ Loaded(c) = c
      BY <1>5, <2>2, <3>1 DEF WithCustom, Loaded, Models
    <3>3. y.ents = e /\ y.rels = r /\ y.mets = x.mets
      BY <1>3, <3>2 DEF Models
    <3> QED BY <1>4, <2>2, <3>1, <3>2, <3>3
  <2> QED BY <2>1, <2>2
<1>7. WithMetrics(y, m).mets = WithMetrics(Base, m).mets
  BY <1>1, <1>5, <1>6 DEF WithMetrics, Models
<1>8. WithMetrics(y, m).ents = y.ents /\ WithMetrics(y, m).rels = y.rels
  BY <1>5 DEF WithMetrics, Models
<1>9. Merged(a, c, m) = WithMetrics(y, m)
  BY <1>3, <1>5 DEF Merged
<1> QED BY <1>2, <1>6, <1>7, <1>8, <1>9

\* An override of a metric that the base does not have is its definition.
LEMMA MetricSet ==
  ASSUME NEW m \in MetLayers, NEW n \in Metrics, NEW v \in MetricDefs, n \notin DOMAIN Base.mets
  PROVE  WithMetrics(Base, Set(m, n, v)).mets = Set(WithMetrics(Base, m).mets, n, v)
<1>1. Base \in Models
  BY SemanticAssumption
<1>2. PICK s : s = Set(m, n, v) /\ s \in MetLayers
  BY SetTyped DEF MetLayers
<1>3. PICK o : o = WithMetrics(Base, m).mets /\ o \in MetLayers
  BY <1>1, LayersTyped, NothingTyped DEF Models
<1>4. PICK q : q = WithMetrics(Base, s).mets /\ q \in MetLayers
  BY <1>1, <1>2, LayersTyped, NothingTyped DEF Models
<1>5. /\ DOMAIN s = DOMAIN m \cup {n} /\ s[n] = v /\ \A x \in DOMAIN m \ {n} : s[x] = m[x]
  BY <1>2 DEF Set, Overlay
<1>6. Set(o, n, v) \in MetLayers /\ DOMAIN Set(o, n, v) = DOMAIN o \cup {n} /\ Set(o, n, v)[n] = v
      /\ \A x \in DOMAIN o \ {n} : Set(o, n, v)[x] = o[x]
  <2>1. Set(o, n, v) \in MetLayers
    BY <1>3, SetTyped DEF MetLayers
  <2> QED BY <2>1 DEF Set, Overlay
<1>7. o = [x \in DOMAIN m \cup DOMAIN Base.mets |->
            IF x \notin DOMAIN m THEN Base.mets[x] ELSE IF x \notin DOMAIN Base.mets THEN m[x] ELSE Overlay(m[x], Base.mets[x])]
  BY <1>1, <1>3 DEF WithMetrics, Models
<1>8. q = [x \in DOMAIN s \cup DOMAIN Base.mets |->
            IF x \notin DOMAIN s THEN Base.mets[x] ELSE IF x \notin DOMAIN Base.mets THEN s[x] ELSE Overlay(s[x], Base.mets[x])]
  BY <1>1, <1>4 DEF WithMetrics, Models
<1>9. DOMAIN q = DOMAIN Set(o, n, v)
  BY <1>5, <1>6, <1>7, <1>8
<1>10. ASSUME NEW x \in DOMAIN q PROVE q[x] = Set(o, n, v)[x]
  <2>1. CASE x = n
    BY <1>5, <1>6, <1>8, <2>1
  <2>2. CASE x # n
    <3>1. x \in DOMAIN o \ {n} /\ x \in DOMAIN m \cup DOMAIN Base.mets
      BY <1>6, <1>7, <1>9, <1>10, <2>2
    <3>2. (x \in DOMAIN s) = (x \in DOMAIN m)
      BY <1>5, <2>2
    <3>3. x \in DOMAIN m => s[x] = m[x]
      BY <1>5, <2>2
    <3>4. q[x] = IF x \notin DOMAIN s THEN Base.mets[x]
                 ELSE IF x \notin DOMAIN Base.mets THEN s[x] ELSE Overlay(s[x], Base.mets[x])
      BY <1>8, <1>10
    <3>5. o[x] = IF x \notin DOMAIN m THEN Base.mets[x]
                 ELSE IF x \notin DOMAIN Base.mets THEN m[x] ELSE Overlay(m[x], Base.mets[x])
      BY <1>7, <3>1
    <3>6. q[x] = o[x]
      BY <3>2, <3>3, <3>4, <3>5
    <3> QED BY <1>6, <3>1, <3>6
  <2> QED BY <2>1, <2>2
<1>11. q = Set(o, n, v)
  BY <1>4, <1>6, <1>9, <1>10, SameLayer DEF MetLayers
<1> QED BY <1>2, <1>3, <1>4, <1>11

\* A handler in a reload keeps its locals and where it is heading; what it has loaded at
\* the end is complete.
LEMMA ReloadGoesOn ==
  ASSUME TypeInv, LoadInv, ReloadStep
  PROVE  /\ UNCHANGED <<custom, metrics, approved, aliases, failures>>
         /\ \/ job' = Free
            \/ /\ job'.op = job.op /\ job'.template = job.template /\ job'.todo = job.todo
               /\ job'.before = job.before /\ job'.errors = job.errors
               /\ Heading(job') = Heading(job)
               /\ job'.pc \in Reloading \/ registry' = Now
<1>1. JobTyped(job) /\ Loading /\ UNCHANGED <<custom, metrics, approved, aliases, failures>>
  BY DEF TypeInv, LoadInv, ReloadStep, files, counters
<1>2. ASSUME NEW pc, job' = [job EXCEPT !.pc = pc], job.pc \in Reloading,
             pc \in Reloading \/ pc = job.next
      PROVE  /\ job'.op = job.op /\ job'.template = job.template /\ job'.todo = job.todo
             /\ job'.before = job.before /\ job'.errors = job.errors /\ job'.pc = pc
             /\ Heading(job') = Heading(job)
  <2>1. /\ job'.op = job.op /\ job'.template = job.template /\ job'.todo = job.todo
        /\ job'.before = job.before /\ job'.errors = job.errors /\ job'.pc = pc
        /\ job'.next = job.next
    BY <1>1, <1>2 DEF JobTyped, Fields
  <2>2. job.next \notin Reloading
    BY <1>1 DEF JobTyped
  <2> QED BY <1>2, <2>1, <2>2 DEF Heading
<1>3. CASE job.pc = "metrics"
  <2>1. registry' = Now
    BY <1>1, <1>3 DEF ReloadStep, Loading, Now, Merged
  <2>2. CASE job.next = "free"
    BY <1>1, <1>3, <2>2 DEF ReloadStep
  <2>3. CASE job.next # "free"
    <3>1. job' = [job EXCEPT !.pc = job.next]
      BY <1>3, <2>3 DEF ReloadStep
    <3> QED BY <1>1, <1>2, <1>3, <2>1, <3>1 DEF Reloading
  <2> QED BY <2>2, <2>3
<1>4. CASE job.pc # "metrics"
  <2>1. PICK pc \in {"approved", "custom", "metrics"} : job' = [job EXCEPT !.pc = pc] /\ job.pc \in Reloading
    BY <1>4 DEF ReloadStep, Reloading
  <2>2. pc \in Reloading
    BY <2>1 DEF Reloading
  <2> QED BY <1>1, <1>2, <2>1, <2>2
<1> QED BY <1>3, <1>4

\* Of the steps after which a handler applies a template, all but those of the
\* application leave it, the model and the aliases as they are.
LEMMA TemplateSteps ==
  ASSUME TypeInv, LoadInv, [SNext]_svars
  PROVE  \/ job'.op # "apply"
         \/ /\ UNCHANGED <<job, custom, metrics, approved, aliases, registry>>
            /\ failures' = failures \/ failures' # 0
         \/ ReloadStep \/ Undo \/ FailApply
         \/ \E t \in Templates : StartApply(t)
         \/ \E e \in Entities : ApplyEntity(e)
         \/ \E m \in Metrics : ApplyMetric(m)
         \/ ApplyRelationships \/ ApplyAliases
<1> DEFINE Quiet == /\ UNCHANGED <<job, custom, metrics, approved, aliases, registry>>
                    /\ failures' = failures \/ failures' # 0
<1>1. JobTyped(job) /\ DOMAIN job = Fields /\ failures \in Nat
  BY DEF TypeInv, JobTyped, LoadInv, JobOK
<1>2. Free.op = "none"
  BY FreeShape
<1>3. job.pc \in {"free", "export", "collect", "add", "import"} => job.op # "apply"
  BY <1>1 DEF JobTyped, Heading, Reloading, Templating
<1>4. ASSUME NEW op \in Ops \ {"apply"}, NEW pc,
             \/ job' = [Free EXCEPT !.op = op, !.pc = pc]
             \/ job' = [Free EXCEPT !.op = op, !.pc = pc, !.next = "snapshot"]
      PROVE  job'.op # "apply"
  BY <1>4, FreeShape DEF Fields
<1>5. CASE Edited
  BY <1>4, <1>5 DEF Edited, Ops
<1>6. ASSUME NEW new, EditAliases(new) PROVE job'.op # "apply"
  BY <1>3, <1>6 DEF EditAliases, Acquire
<1>7. ASSUME NEW C, NEW status, StartScan(C, status) PROVE Quiet
  BY <1>7 DEF StartScan, files, Counted
<1>8. ASSUME NEW c, NEW decision, Review(c, decision) PROVE job'.op # "apply"
  BY <1>2, <1>4, <1>8 DEF Review, Ops
<1>9. CASE StartMerge
  BY <1>4, <1>9 DEF StartMerge, Ops
<1>10. ASSUME NEW i, StartImport(i) PROVE job'.op # "apply"
  BY <1>10, FreeShape DEF StartImport, Fields
<1>11. CASE SRequest
  BY <1>5, <1>6, <1>7, <1>8, <1>9, <1>10, <1>11
     DEF SRequest, SaveEntity, DeleteEntity, SaveRelationships, AddMetric, UpdateMetric, DeleteMetric
<1>12. CASE Snapshot \/ EndApply \/ FailJob \/ Restart
  BY <1>2, <1>12 DEF Snapshot, EndApply, FailJob, Restart
<1>13. CASE Export \/ Collect \/ EndReview \/ EndImport
  <2>1. job.op # "apply"
    BY <1>3, <1>13 DEF Export, Collect, EndReview, EndImport
  <2>2. job'.op = job.op
    BY <1>1, <1>13 DEF Export, Collect, EndReview, EndImport, Reload, Fields
  <2> QED BY <2>1, <2>2
<1>14. ASSUME NEW p, ImportPart(p) PROVE job'.op # "apply"
  <2>1. job.op # "apply" /\ job'.op = job.op
    BY <1>1, <1>3, <1>14 DEF ImportPart, Fields
  <2> QED BY <2>1
<1>15. ASSUME NEW m, AddCandidateMetric(m) PROVE job'.op # "apply"
  <2>1. job.op # "apply"
    BY <1>3, <1>15 DEF AddCandidateMetric
  <2>2. Dropped(m).op = job.op /\ DOMAIN Dropped(m) = Fields
    BY <1>1 DEF Dropped, Fields
  <2>3. job'.op = job.op
    BY <1>15, <2>2 DEF AddCandidateMetric, Fields
  <2> QED BY <2>1, <2>3
<1>16. CASE ScanStep
  BY <1>16 DEF ScanStep, counters
<1>17. CASE FailReviews
  <2>1. failures' # 0
    <3>1. failures' = failures + 1
      BY <1>17 DEF FailReviews, Failing
    <3> QED BY <1>1, <3>1
  <2> QED BY <1>17, <2>1 DEF FailReviews
<1>18. CASE UNCHANGED svars
  BY <1>18 DEF svars, files, counters
<1> QED BY <1>11, <1>12, <1>13, <1>14, <1>15, <1>16, <1>17, <1>18 DEF SNext, JobStep

\* The locals of the handler when it moves on in the application of a template.
LEMMA Shorter ==
  ASSUME JobTyped(job), job.pc = "apply", NEW d, job' = Applied(d) \/ job' = [job EXCEPT !.todo = d]
  PROVE  /\ job'.op = job.op /\ job'.template = job.template /\ job'.todo = d
         /\ job'.before = job.before /\ job'.errors = job.errors /\ Heading(job') = "apply"
<1>1. DOMAIN job = Fields
  BY DEF JobTyped
<1>2. CASE job' = Applied(d)
  <2>1. job' = [[job EXCEPT !.pc = "base", !.next = "apply"] EXCEPT !.todo = d]
    BY <1>2 DEF Applied, Reload
  <2> QED BY <1>1, <2>1 DEF Fields, Heading, Reloading
<1>3. CASE job' = [job EXCEPT !.todo = d]
  BY <1>1, <1>3 DEF Fields, Heading, Reloading
<1> QED BY <1>2, <1>3

\* The locals of a handler that has just begun to apply a template.
LEMMA BegunToApply ==
  ASSUME NEW t, StartApply(t)
  PROVE  /\ job'.op = "apply" /\ job'.template = t /\ job'.todo = Pending(t) /\ job'.errors = 0
         /\ job'.before = [custom |-> custom, metrics |-> metrics, aliases |-> aliases]
         /\ job'.pc = "apply" /\ job'.next = "free" /\ Heading(job') = "apply"
<1>1. Free.errors = 0
  BY DEF Free
<1>2. PICK d, b : d = Pending(t) /\ b = [custom |-> custom, metrics |-> metrics, aliases |-> aliases]
  OBVIOUS
<1>3. job' = [Free EXCEPT !.op = "apply", !.pc = "apply", !.template = t, !.todo = d, !.before = b]
  BY <1>2 DEF StartApply
<1> QED BY <1>1, <1>2, <1>3, FreeShape DEF Fields, Heading, Reloading

-----------------------------------------------------------------------------
\* What a roll-back without errors has restored when it gets to its next step.

UndoInv ==
  job.op = "apply" /\ job.errors = 0 =>
    /\ Heading(job) = "undo metrics" => custom = job.before.custom
    /\ Heading(job) = "undo aliases" => custom = job.before.custom /\ metrics = job.before.metrics
    /\ job.pc = "undo aliases" => registry = Now

\* A step that leaves the handler in the application proper.
LEMMA NotUndoing ==
  ASSUME Heading(job') = "apply"
  PROVE  UndoInv'
  BY DEF UndoInv, Heading, Reloading

\* Each step of the roll-back restores one file.
LEMMA UndoKeeps ==
  ASSUME TypeInv, LoadInv, UndoInv, Undo
  PROVE  UndoInv'
<1>1. JobTyped(job) /\ DOMAIN job = Fields
  BY DEF TypeInv, JobTyped
<1>2. CASE job.pc = "undo"
  <2>1. custom' = job.before.custom /\ job' = [job EXCEPT !.pc = "undo metrics"]
    BY <1>2 DEF Undo
  <2>2. job'.pc = "undo metrics" /\ job'.before = job.before
    BY <1>1, <2>1 DEF Fields
  <2> QED BY <2>1, <2>2 DEF UndoInv, Heading, Reloading
<1>3. CASE job.pc = "undo metrics"
  <2>1. metrics' = job.before.metrics /\ job' = Reload("undo aliases") /\ UNCHANGED custom
    BY <1>3 DEF Undo
  <2>2. /\ job'.pc = "base" /\ job'.next = "undo aliases" /\ job'.before = job.before
        /\ job'.op = job.op /\ job'.errors = job.errors
    BY <1>1, <2>1 DEF Fields, Reload
  <2>3. Heading(job) = "undo metrics"
    BY <1>3 DEF Heading, Reloading
  <2> QED BY <2>1, <2>2, <2>3 DEF UndoInv, Heading, Reloading
<1>4. CASE job.pc = "undo aliases"
  BY <1>4, FreeShape DEF Undo, UndoInv
<1> QED BY <1>2, <1>3, <1>4 DEF Undo

\* A failure of the application begins the roll-back; one of the roll-back is an error.
LEMMA FailKeepsUndo ==
  ASSUME TypeInv, UndoInv, FailApply
  PROVE  UndoInv'
<1>1. JobTyped(job) /\ DOMAIN job = Fields /\ job.errors \in Nat
  BY DEF TypeInv, JobTyped
<1>2. CASE job' = Free
  BY <1>2, FreeShape DEF UndoInv
<1>3. CASE job' = [job EXCEPT !.pc = "undo"]
  <2>1. job'.pc = "undo"
    BY <1>1, <1>3 DEF Fields
  <2> QED BY <2>1 DEF UndoInv, Heading, Reloading
<1>4. CASE job' = [job EXCEPT !.pc = "undo aliases", !.errors = @ + 1]
  <2>1. job'.errors = job.errors + 1
    BY <1>1, <1>4 DEF Fields
  <2>2. job'.errors # 0
    BY <1>1, <2>1
  <2> QED BY <2>2 DEF UndoInv
<1> QED BY <1>2, <1>3, <1>4 DEF FailApply

\* The invariant is inductive.
LEMMA UndoStep == TypeInv /\ LoadInv /\ UndoInv /\ [SNext]_svars => UndoInv'
<1> SUFFICES ASSUME TypeInv, LoadInv, UndoInv, [SNext]_svars PROVE UndoInv'
  OBVIOUS
<1>1. JobTyped(job)
  BY DEF TypeInv
<1>2. CASE job'.op # "apply"
  BY <1>2 DEF UndoInv
<1>3. CASE UNCHANGED <<job, custom, metrics, approved, aliases, registry>>
  BY <1>3 DEF UndoInv, Now, Heading
<1>4. CASE ReloadStep
  <2>1. CASE job' = Free
    BY <2>1, FreeShape DEF UndoInv
  <2>2. CASE job' # Free
    <3>1. UNCHANGED <<custom, metrics, approved>> /\ job'.op = job.op /\ job'.errors = job.errors
      BY <1>4, <2>2, ReloadGoesOn
    <3>2. job'.before = job.before /\ Heading(job') = Heading(job)
      BY <1>4, <2>2, ReloadGoesOn
    <3>3. job'.pc \in Reloading \/ registry' = Now
      BY <1>4, <2>2, ReloadGoesOn
    <3>4. Now' = Now
      BY <3>1 DEF Now
    <3>5. job'.pc = "undo aliases" => registry' = Now'
      BY <3>3, <3>4 DEF Reloading
    <3> QED BY <3>1, <3>2, <3>5 DEF UndoInv
  <2> QED BY <2>1, <2>2
<1>5. ASSUME NEW t, StartApply(t) PROVE UndoInv'
  BY <1>5, BegunToApply, NotUndoing
<1>6. ASSUME NEW d, job.pc = "apply", job' = Applied(d) \/ job' = [job EXCEPT !.todo = d]
      PROVE  UndoInv'
  BY <1>1, <1>6, Shorter, NotUndoing
<1>7. CASE \/ \E e \in Entities : ApplyEntity(e)
           \/ \E m \in Metrics : ApplyMetric(m)
           \/ ApplyRelationships
  BY <1>6, <1>7 DEF ApplyEntity, ApplyMetric, ApplyRelationships, Applying
<1>8. CASE ApplyAliases
  <2>1. PICK d : d = [job.todo EXCEPT !.aliases = Nowhere]
    OBVIOUS
  <2>2. job' = [job EXCEPT !.todo = d] /\ job.pc = "apply"
    BY <1>1, <1>8, <2>1 DEF ApplyAliases, Applying, JobTyped, Fields
  <2> QED BY <1>6, <2>2
<1> QED BY <1>2, <1>3, <1>4, <1>5, <1>7, <1>8, TemplateSteps, UndoKeeps, FailKeepsUndo

\* A counter that counts is not the counter it was.
LEMMA OneMoreDiffers == \A n \in Nat : n # n + 1
  OBVIOUS

\* A handler that leaves the lock without a failure or a restart has come to its end.
LEMMA Ended ==
  ASSUME TypeInv, LoadInv, [SNext]_svars,
         job.op = "apply", job.pc \in {"apply", "undo aliases"}, job'.pc = "free",
         failures' = failures, crashes' = crashes
  PROVE  IF job.pc = "apply" THEN EndApply ELSE Undo
<1>1. /\ JobTyped(job) /\ failures \in Nat /\ crashes \in Nat
      /\ failures' # failures + 1 /\ crashes' # crashes + 1
  <2>1. JobTyped(job) /\ failures \in Nat /\ crashes \in Nat
    BY DEF TypeInv, LoadInv, JobOK
  <2>2. failures # failures + 1 /\ crashes # crashes + 1
    BY <2>1, OneMoreDiffers
  <2> QED BY <2>1, <2>2
<1>2. ~ FailJob /\ ~ FailApply /\ ~ FailReviews /\ ~ Restart
  BY <1>1 DEF FailJob, FailApply, FailReviews, Failing, Restart
<1>3. job' # job
  OBVIOUS
<1>4. ~ SRequest /\ ~ ScanStep /\ ~ UNCHANGED svars
  BY <1>3 DEF SRequest, SaveEntity, DeleteEntity, SaveRelationships, AddMetric, UpdateMetric,
     DeleteMetric, Edited, EditAliases, StartScan, Review, StartMerge, StartImport, StartApply, Acquire,
     ScanStep, svars
<1>5. ASSUME NEW d, job' = Applied(d) \/ job' = [job EXCEPT !.todo = d] PROVE job'.pc # "free"
  <2>1. DOMAIN job = Fields
    BY <1>1 DEF JobTyped
  <2> QED BY <1>5, <2>1 DEF Applied, Reload, Fields
<1>6. \A e, m : ~ ApplyEntity(e) /\ ~ ApplyMetric(m)
  BY <1>5 DEF ApplyEntity, ApplyMetric
<1>7. ~ ApplyRelationships
  BY <1>5 DEF ApplyRelationships
<1>8. ~ ApplyAliases
  <2>1. DOMAIN job = Fields
    BY <1>1 DEF JobTyped
  <2> QED BY <2>1 DEF ApplyAliases, Applying, Fields
<1>9. EndApply \/ Undo
  BY <1>2, <1>4, <1>6, <1>7, <1>8 DEF SNext, JobStep, ReloadStep, Snapshot, Export, Collect, EndReview,
     EndImport, ImportPart, AddCandidateMetric
<1> QED BY <1>9 DEF EndApply, Applying, Undo

\* Whatever the constants: an application that failed, at whatever step and before it
\* whatever else, and was rolled back without another error, has left no trace.
THEOREM RollBackIsComplete == SSpec => RolledBack
<1> DEFINE Restored == Ends("undo aliases") /\ job.errors = 0 =>
                         /\ custom = job.before.custom /\ metrics = job.before.metrics
                         /\ aliases' = job.before.aliases
                         /\ registry = Was
<1>1. TypeInv /\ LoadInv /\ UndoInv /\ [SNext]_svars => Restored
  <2> SUFFICES ASSUME TypeInv, LoadInv, UndoInv, [SNext]_svars, Ends("undo aliases"), job.errors = 0
               PROVE  /\ custom = job.before.custom /\ metrics = job.before.metrics
                      /\ aliases' = job.before.aliases
                      /\ registry = Was
    OBVIOUS
  <2>1. Undo /\ job.op = "apply" /\ job.pc = "undo aliases"
    BY Ended DEF Ends
  <2>2. Heading(job) = "undo aliases"
    BY <2>1 DEF Heading, Reloading
  <2>3. custom = job.before.custom /\ metrics = job.before.metrics /\ registry = Now
    BY <2>1, <2>2 DEF UndoInv
  <2>4. aliases' = job.before.aliases
    BY <2>1 DEF Undo
  <2> QED BY <2>3, <2>4 DEF Now, Was
<1>2. SInit => UndoInv
  BY FreeShape DEF SInit, UndoInv
<1>3. TypeInv /\ LoadInv /\ UndoInv /\ [SNext]_svars => [Restored]_svars
  BY <1>1
<1> HIDE DEF Restored
<1>4. SSpec => [][Restored]_svars
  BY <1>2, <1>3, InitLoads, LoadStep, InitTypes, TypeStep, UndoStep, PTL DEF SSpec
<1> QED BY <1>4, PTL DEF RolledBack, Restored

-----------------------------------------------------------------------------
\* What an application has done when it gets to its next step: the names that are still
\* to be written are not in the model there was, and all others are as they will be.

EntsGo ==
  /\ DOMAIN job.todo.ents \cap DOMAIN Was.ents = {}
  /\ Now.ents = Overlay(Was.ents, Without(job.template.ents, DOMAIN job.todo.ents))
MetsGo ==
  /\ DOMAIN job.todo.mets \cap DOMAIN Was.mets = {}
  /\ Now.mets = Overlay(Was.mets, Without(job.template.mets, DOMAIN job.todo.mets))
\* The first entity that is saved over no custom ontology costs the relationships of the
\* base; those of the template come after the entities.
RelsGo ==
  /\ DOMAIN job.todo.ents # {} => job.todo.rels = job.template.rels \ Was.rels
  /\ (job.template.rels \ Was.rels) \ job.todo.rels \subseteq Now.rels
  /\ job.before.custom # Absent =>
       custom # Absent /\ Now.rels \cup job.todo.rels = Was.rels \cup job.template.rels
AliasesGo ==
  \/ /\ job.todo.aliases = Without(job.template.aliases, DOMAIN job.before.aliases)
     /\ aliases = job.before.aliases
  \/ /\ job.todo.aliases = Nowhere
     /\ aliases = Overlay(job.before.aliases, job.template.aliases)

ApplyInv == failures = 0 /\ Heading(job) = "apply" => EntsGo /\ MetsGo /\ RelsGo /\ AliasesGo

\* The models and layers these speak of.
LEMMA ModelsTyped ==
  ASSUME TypeInv
  PROVE  /\ Now \in Models /\ Was \in Models
         /\ Was.ents \in EntLayers /\ Was.mets \in MetLayers
         /\ job.template.ents \in EntLayers /\ job.template.mets \in MetLayers
         /\ job.template.aliases \in AliasFiles /\ job.before.aliases \in AliasFiles
         /\ custom \in CustomFiles /\ metrics \in MetLayers /\ approved \in ApprovedFiles
<1>1. /\ custom \in CustomFiles /\ metrics \in MetLayers /\ approved \in ApprovedFiles
      /\ job.before \in Befores /\ job.template \in Bundles
  BY DEF TypeInv, FilesTyped, JobTyped
<1>2. Now \in Models
  BY <1>1, MergedTyped DEF Now
<1>3. Was \in Models
  BY <1>1, MergedTyped DEF Was, Befores
<1> QED BY <1>1, <1>2, <1>3 DEF Models, Bundles, Befores

\* The handler starts with what the model lacks.
LEMMA StartGoes ==
  ASSUME TypeInv, LoadInv, NEW t \in Templates, StartApply(t)
  PROVE  ApplyInv'
<1> SUFFICES ASSUME failures' = 0 PROVE EntsGo' /\ MetsGo' /\ RelsGo' /\ AliasesGo'
  BY DEF ApplyInv
<1>1. /\ UNCHANGED <<custom, metrics, approved, aliases, registry, failures>> /\ job.pc = "free"
  BY DEF StartApply, Acquire, Counted, files
<1>2. registry = Now
  BY <1>1 DEF LoadInv, Loading, Now
<1>3. /\ job'.template = t /\ job'.todo = Pending(t)
      /\ job'.before = [custom |-> custom, metrics |-> metrics, aliases |-> aliases]
  BY BegunToApply
<1>4. Now' = Now /\ Was' = Now
  BY <1>1, <1>3 DEF Now, Was
<1>5. /\ Now \in Models /\ aliases \in AliasFiles /\ t \in Bundles
  BY ModelsTyped, SemanticAssumption DEF TypeInv, FilesTyped
<1>6. /\ Now.ents \in EntLayers /\ Now.mets \in MetLayers
      /\ t.ents \in EntLayers /\ t.mets \in MetLayers /\ t.aliases \in AliasFiles
  BY <1>5 DEF Models, Bundles
<1>7. /\ job'.todo.ents = Without(t.ents, DOMAIN Now.ents) /\ job'.todo.rels = t.rels \ Now.rels
      /\ job'.todo.mets = Without(t.mets, DOMAIN Now.mets)
      /\ job'.todo.aliases = Without(t.aliases, DOMAIN aliases)
  BY <1>2, <1>3 DEF Pending
<1>8. EntsGo'
  <2>1. DOMAIN job'.todo.ents \cap DOMAIN Now.ents = {}
    BY <1>7 DEF Without, Restrict
  <2>2. Overlay(Now.ents, Without(t.ents, DOMAIN Without(t.ents, DOMAIN Now.ents))) = Now.ents
    BY <1>6, NothingApplied DEF EntLayers
  <2> QED BY <1>3, <1>4, <1>7, <2>1, <2>2 DEF EntsGo
<1>9. MetsGo'
  <2>1. DOMAIN job'.todo.mets \cap DOMAIN Now.mets = {}
    BY <1>7 DEF Without, Restrict
  <2>2. Overlay(Now.mets, Without(t.mets, DOMAIN Without(t.mets, DOMAIN Now.mets))) = Now.mets
    BY <1>6, NothingApplied DEF MetLayers
  <2> QED BY <1>3, <1>4, <1>7, <2>1, <2>2 DEF MetsGo
<1>10. RelsGo'
  BY <1>1, <1>3, <1>4, <1>7 DEF RelsGo
<1>11. AliasesGo'
  BY <1>1, <1>3, <1>7 DEF AliasesGo
<1> QED BY <1>8, <1>9, <1>10, <1>11

\* The state in which a part of a template is written.
Writing ==
  /\ job.pc = "apply" /\ failures = 0 /\ TypeInv /\ LoadInv
  /\ EntsGo /\ MetsGo /\ RelsGo /\ AliasesGo
  /\ registry = Now /\ JobTyped(job) /\ PartOf(job.todo, job.template)
  /\ approved' = approved /\ failures' = failures

\* One entity.
LEMMA EntityGoes ==
  ASSUME Writing, NEW e \in Entities, ApplyEntity(e)
  PROVE  EntsGo' /\ MetsGo' /\ RelsGo' /\ AliasesGo'
<1>1. PICK f, d : f = Without(job.todo.ents, {e}) /\ d = [job.todo EXCEPT !.ents = f]
  OBVIOUS
<1>2. /\ job' = Applied(d) /\ UNCHANGED <<metrics, aliases, approved>>
      /\ e \in DOMAIN job.todo.ents
      /\ custom' = [Loaded(custom) EXCEPT !.ents = Set(@, e, job.template.ents[e])]
  BY <1>1 DEF ApplyEntity, Writing
<1>3. job'.template = job.template /\ job'.todo = d /\ job'.before = job.before
  BY <1>2, Shorter DEF Writing
<1>4. Was' = Was
  BY <1>2, <1>3 DEF Was
<1>5. job.todo \in Bundles
  BY DEF Writing, JobTyped
<1>6. /\ DOMAIN d.ents = DOMAIN job.todo.ents \ {e} /\ d.mets = job.todo.mets
      /\ d.rels = job.todo.rels /\ d.aliases = job.todo.aliases
  BY <1>1, <1>5 DEF Bundles, Without, Restrict
<1>7. /\ Was.ents \in EntLayers /\ job.template.ents \in EntLayers /\ e \in DOMAIN job.template.ents
      /\ custom \in CustomFiles /\ metrics \in MetLayers /\ approved \in ApprovedFiles
  BY <1>2, ModelsTyped DEF Writing, PartOf
<1>8. PICK v : v = job.template.ents[e] /\ v \in Defs
  BY <1>7 DEF EntLayers, PartialFn
<1>9. PICK l : l = Loaded(custom) /\ l \in [ents : EntLayers, rels : (SUBSET Rels) \cup {NoRels}]
  BY <1>7, LoadedTyped
<1>10. PICK x : x = Set(l.ents, e, v) /\ x \in EntLayers
  BY <1>8, <1>9, SetTyped DEF EntLayers
<1>11. custom' = [ents |-> x, rels |-> l.rels]
  BY <1>2, <1>8, <1>9, <1>10
<1>12. custom' # Absent /\ custom' \in CustomFiles /\ Loaded(custom') = custom'
  <2>1. custom' # Absent
    BY <1>9, <1>10, <1>11, SemanticAssumption
  <2>2. custom' \in CustomFiles
    BY <1>9, <1>10, <1>11 DEF CustomFiles
  <2> QED BY <2>1, <2>2 DEF Loaded
<1>13. PICK u : u = Overlay(Base.ents, approved.ents) /\ u \in EntLayers
  BY <1>7, OverlayTyped, SemanticAssumption DEF EntLayers, Models, ApprovedFiles
<1>14. Now.ents = Overlay(l.ents, u) /\ Now.mets = WithMetrics(Base, metrics).mets
  BY <1>7, <1>9, <1>13, MergedParts DEF Now
<1>15. /\ Now'.ents = Overlay(x, u) /\ Now'.mets = WithMetrics(Base, metrics).mets
       /\ Now'.rels = IF l.rels = NoRels THEN Base.rels \cup approved.rels ELSE l.rels
  <2>1. Now' = Merged(approved, custom', metrics)
    BY <1>2 DEF Now
  <2>2. custom'.ents = x /\ custom'.rels = l.rels
    BY <1>11
  <2>3. PICK c : c = custom'
    OBVIOUS
  <2>4. c \in CustomFiles /\ c # Absent /\ Loaded(c).ents = x /\ c.rels = l.rels
    BY <1>12, <2>2, <2>3
  <2>5. Merged(approved, c, metrics).ents = Overlay(Loaded(c).ents, Overlay(Base.ents, approved.ents))
    BY <1>7, <2>4, MergedParts
  <2>6. Merged(approved, c, metrics).mets = WithMetrics(Base, metrics).mets
    BY <1>7, <2>4, MergedParts
  <2>7. Merged(approved, c, metrics).rels = IF c.rels = NoRels THEN Base.rels \cup approved.rels ELSE c.rels
    BY <1>7, <2>4, MergedParts
  <2> QED BY <1>13, <2>1, <2>3, <2>4, <2>5, <2>6, <2>7
<1>16. Now'.ents = Set(Now.ents, e, v)
  BY <1>8, <1>9, <1>10, <1>13, <1>14, <1>15, OverlaySet DEF EntLayers
<1>17. EntsGo'
  <2>1. PICK D : D = DOMAIN job.todo.ents
    OBVIOUS
  <2>2. D \cap DOMAIN Was.ents = {} /\ Now.ents = Overlay(Was.ents, Without(job.template.ents, D)) /\ e \in D
    BY <1>2, <2>1 DEF Writing, EntsGo
  <2>3. Set(Overlay(Was.ents, Without(job.template.ents, D)), e, job.template.ents[e])
          = Overlay(Was.ents, Without(job.template.ents, D \ {e}))
    BY <1>7, <2>2, OneMoreApplied DEF EntLayers
  <2>4. Now'.ents = Overlay(Was.ents, Without(job.template.ents, DOMAIN d.ents))
    BY <1>6, <1>8, <1>16, <2>1, <2>2, <2>3
  <2>5. DOMAIN d.ents \cap DOMAIN Was.ents = {}
    BY <1>6, <2>1, <2>2
  <2> QED BY <1>3, <1>4, <2>4, <2>5 DEF EntsGo
<1>18. MetsGo'
  BY <1>3, <1>4, <1>6, <1>14, <1>15 DEF Writing, MetsGo
<1>19. RelsGo'
  <2>1. job.todo.rels = job.template.rels \ Was.rels
    BY <1>2 DEF Writing, RelsGo
  <2>2. job.before.custom # Absent => Now'.rels = Now.rels /\ Now.rels \cup job.todo.rels = Was.rels \cup job.template.rels
    <3> SUFFICES ASSUME job.before.custom # Absent
                 PROVE  Now'.rels = Now.rels /\ Now.rels \cup job.todo.rels = Was.rels \cup job.template.rels
      OBVIOUS
    <3>1. custom # Absent /\ Now.rels \cup job.todo.rels = Was.rels \cup job.template.rels
      BY DEF Writing, RelsGo
    <3>2. l = custom
      BY <1>9, <3>1 DEF Loaded
    <3>3. Now.rels = IF custom.rels = NoRels THEN Base.rels \cup approved.rels ELSE custom.rels
      BY <1>7, <3>1, MergedParts DEF Now
    <3> QED BY <1>15, <3>1, <3>2, <3>3
  <2>3. (job'.template.rels \ Was'.rels) \ job'.todo.rels = {}
    BY <1>3, <1>4, <1>6, <2>1
  <2>4. job'.todo.rels = job'.template.rels \ Was'.rels
    BY <1>3, <1>4, <1>6, <2>1
  <2>5. job'.before.custom # Absent =>
          custom' # Absent /\ Now'.rels \cup job'.todo.rels = Was'.rels \cup job'.template.rels
    BY <1>3, <1>4, <1>6, <1>12, <2>2
  <2> QED BY <2>3, <2>4, <2>5 DEF RelsGo
<1>20. AliasesGo'
  BY <1>2, <1>3, <1>6 DEF Writing, AliasesGo
<1> QED BY <1>17, <1>18, <1>19, <1>20

\* The relationships, all at once, after the entities.
LEMMA RelationshipsGo ==
  ASSUME Writing, ApplyRelationships
  PROVE  EntsGo' /\ MetsGo' /\ RelsGo' /\ AliasesGo'
<1>1. PICK d : d = [job.todo EXCEPT !.rels = {}]
  OBVIOUS
<1>2. /\ job' = Applied(d) /\ UNCHANGED <<metrics, aliases, approved>>
      /\ DOMAIN job.todo.ents = {}
      /\ custom' = [Loaded(custom) EXCEPT !.rels = Now.rels \cup job.todo.rels]
  BY <1>1 DEF ApplyRelationships, Writing, Applying
<1>3. job'.template = job.template /\ job'.todo = d /\ job'.before = job.before
  BY <1>2, Shorter DEF Writing
<1>4. Was' = Was
  BY <1>2, <1>3 DEF Was
<1>5. job.todo \in Bundles /\ job.todo.rels \in SUBSET Rels
  BY DEF Writing, JobTyped, Bundles
<1>6. /\ d.ents = job.todo.ents /\ d.mets = job.todo.mets
      /\ d.rels = {} /\ d.aliases = job.todo.aliases
  BY <1>1, <1>5 DEF Bundles
<1>7. /\ custom \in CustomFiles /\ metrics \in MetLayers /\ approved \in ApprovedFiles
      /\ Now \in Models /\ Now.rels \in SUBSET Rels
  BY ModelsTyped DEF Writing, Models
<1>8. PICK l : l = Loaded(custom) /\ l \in [ents : EntLayers, rels : (SUBSET Rels) \cup {NoRels}]
  BY <1>7, LoadedTyped
<1>9. PICK r : r = Now.rels \cup job.todo.rels /\ r \in SUBSET Rels /\ r # NoRels
  <2>1. Now.rels \cup job.todo.rels \in SUBSET Rels
    BY <1>5, <1>7
  <2>2. \A S \in SUBSET Rels : S # NoRels
    BY SemanticAssumption
  <2> QED BY <2>1, <2>2
<1>10. custom' = [ents |-> l.ents, rels |-> r]
  BY <1>2, <1>8, <1>9
<1>11. custom' # Absent /\ custom' \in CustomFiles /\ Loaded(custom') = custom'
  <2>1. custom' # Absent
    BY <1>8, <1>9, <1>10, SemanticAssumption
  <2>2. custom' \in CustomFiles
    BY <1>8, <1>9, <1>10 DEF CustomFiles
  <2> QED BY <2>1, <2>2 DEF Loaded
<1>12. Now'.ents = Now.ents /\ Now'.mets = Now.mets /\ Now'.rels = r
  <2>1. Now' = Merged(approved, custom', metrics)
    BY <1>2 DEF Now
  <2>2. custom'.ents = l.ents /\ custom'.rels = r
    BY <1>10
  <2>3. /\ Now'.ents = Overlay(l.ents, Overlay(Base.ents, approved.ents))
        /\ Now'.mets = WithMetrics(Base, metrics).mets /\ Now'.rels = r
    <3>1. PICK c : c = custom'
      OBVIOUS
    <3>2. c \in CustomFiles /\ c # Absent /\ Loaded(c).ents = l.ents /\ c.rels = r
      BY <1>11, <2>2, <3>1
    <3>3. Merged(approved, c, metrics).ents = Overlay(Loaded(c).ents, Overlay(Base.ents, approved.ents))
      BY <1>7, <3>2, MergedParts
    <3>4. Merged(approved, c, metrics).mets = WithMetrics(Base, metrics).mets
      BY <1>7, <3>2, MergedParts
    <3>5. Merged(approved, c, metrics).rels = IF c.rels = NoRels THEN Base.rels \cup approved.rels ELSE c.rels
      BY <1>7, <3>2, MergedParts
    <3> QED BY <1>9, <2>1, <3>1, <3>2, <3>3, <3>4, <3>5
  <2>4. /\ Now.ents = Overlay(l.ents, Overlay(Base.ents, approved.ents))
        /\ Now.mets = WithMetrics(Base, metrics).mets
    BY <1>7, <1>8, MergedParts DEF Now
  <2> QED BY <2>3, <2>4
<1>13. EntsGo' /\ MetsGo'
  BY <1>3, <1>4, <1>6, <1>12 DEF Writing, EntsGo, MetsGo
<1>14. RelsGo'
  <2>1. /\ (job.template.rels \ Was.rels) \ job.todo.rels \subseteq Now.rels
        /\ job.before.custom # Absent => Now.rels \cup job.todo.rels = Was.rels \cup job.template.rels
    BY DEF Writing, RelsGo
  <2>2. job.template.rels \ Was.rels \subseteq r
    BY <1>9, <2>1
  <2> QED BY <1>2, <1>3, <1>4, <1>6, <1>9, <1>11, <1>12, <2>1, <2>2 DEF RelsGo
<1>15. AliasesGo'
  BY <1>2, <1>3, <1>6 DEF Writing, AliasesGo
<1> QED BY <1>13, <1>14, <1>15

\* One metric.
LEMMA MetricGoes ==
  ASSUME Writing, NEW m \in Metrics, ApplyMetric(m)
  PROVE  EntsGo' /\ MetsGo' /\ RelsGo' /\ AliasesGo'
<1>1. PICK f, d : f = Without(job.todo.mets, {m}) /\ d = [job.todo EXCEPT !.mets = f]
  OBVIOUS
<1>2. /\ job' = Applied(d) /\ UNCHANGED <<custom, aliases, approved>>
      /\ m \in DOMAIN job.todo.mets
      /\ metrics' = Set(metrics, m, job.template.mets[m])
  BY <1>1 DEF ApplyMetric, Writing
<1>3. job'.template = job.template /\ job'.todo = d /\ job'.before = job.before
  BY <1>2, Shorter DEF Writing
<1>4. Was' = Was
  BY <1>2, <1>3 DEF Was
<1>5. job.todo \in Bundles
  BY DEF Writing, JobTyped
<1>6. /\ DOMAIN d.mets = DOMAIN job.todo.mets \ {m} /\ d.ents = job.todo.ents
      /\ d.rels = job.todo.rels /\ d.aliases = job.todo.aliases
  BY <1>1, <1>5 DEF Bundles, Without, Restrict
<1>7. /\ Was.mets \in MetLayers /\ job.template.mets \in MetLayers /\ m \in DOMAIN job.template.mets
      /\ custom \in CustomFiles /\ metrics \in MetLayers /\ approved \in ApprovedFiles
  BY <1>2, ModelsTyped DEF Writing, PartOf
<1>8. PICK v : v = job.template.mets[m] /\ v \in MetricDefs
  BY <1>7 DEF MetLayers, PartialFn
<1>9. PICK x : x = Set(metrics, m, v) /\ x \in MetLayers /\ x = metrics'
  BY <1>2, <1>7, <1>8, SetTyped DEF MetLayers
<1>10. m \notin DOMAIN Was.mets /\ m \notin DOMAIN Base.mets
  <2>1. m \notin DOMAIN Was.mets
    BY <1>2 DEF Writing, MetsGo
  <2>2. job.before.custom \in CustomFiles /\ job.before.metrics \in MetLayers
    BY DEF Writing, JobTyped, Befores
  <2>3. Was.mets = WithMetrics(Base, job.before.metrics).mets
    BY <1>7, <2>2, MergedParts DEF Was
  <2>4. DOMAIN Base.mets \subseteq DOMAIN Was.mets
    BY <2>3, SemanticAssumption DEF WithMetrics, Models
  <2> QED BY <2>1, <2>4
<1>11. Now'.ents = Now.ents /\ Now'.rels = Now.rels /\ Now'.mets = Set(Now.mets, m, v)
  <2>1. Now' = Merged(approved, custom, x)
    BY <1>2, <1>9 DEF Now
  <2> DEFINE E == Overlay(Loaded(custom).ents, Overlay(Base.ents, approved.ents))
             R == IF custom = Absent THEN Base.rels \cup approved.rels
                  ELSE IF custom.rels = NoRels THEN Base.rels \cup approved.rels ELSE custom.rels
  <2>2. Merged(approved, custom, x).ents = E /\ Merged(approved, custom, metrics).ents = E
    <3>1. Merged(approved, custom, x).ents = E
      BY <1>7, <1>9, MergedParts
    <3>2. Merged(approved, custom, metrics).ents = E
      BY <1>7, MergedParts
    <3> QED BY <3>1, <3>2
  <2>3. Merged(approved, custom, x).rels = R /\ Merged(approved, custom, metrics).rels = R
    <3>1. Merged(approved, custom, x).rels = R
      BY <1>7, <1>9, MergedParts
    <3>2. Merged(approved, custom, metrics).rels = R
      BY <1>7, MergedParts
    <3> QED BY <3>1, <3>2
  <2> HIDE DEF E, R
  <2>4. Merged(approved, custom, x).mets = WithMetrics(Base, x).mets
    BY <1>7, <1>9, MergedParts
  <2>5. Merged(approved, custom, metrics).mets = WithMetrics(Base, metrics).mets
    BY <1>7, MergedParts
  <2>6. WithMetrics(Base, Set(metrics, m, v)).mets = Set(WithMetrics(Base, metrics).mets, m, v)
    BY <1>7, <1>8, <1>10, MetricSet
  <2> QED BY <1>9, <2>1, <2>2, <2>3, <2>4, <2>5, <2>6 DEF Now
<1>12. MetsGo'
  <2>1. PICK D : D = DOMAIN job.todo.mets
    OBVIOUS
  <2>2. D \cap DOMAIN Was.mets = {} /\ Now.mets = Overlay(Was.mets, Without(job.template.mets, D)) /\ m \in D
    BY <1>2, <2>1 DEF Writing, MetsGo
  <2>3. Set(Overlay(Was.mets, Without(job.template.mets, D)), m, job.template.mets[m])
          = Overlay(Was.mets, Without(job.template.mets, D \ {m}))
    BY <1>7, <2>2, OneMoreApplied DEF MetLayers
  <2>4. Now'.mets = Overlay(Was.mets, Without(job.template.mets, DOMAIN d.mets))
    BY <1>6, <1>8, <1>11, <2>1, <2>2, <2>3
  <2>5. DOMAIN d.mets \cap DOMAIN Was.mets = {}
    BY <1>6, <2>1, <2>2
  <2> QED BY <1>3, <1>4, <2>4, <2>5 DEF MetsGo
<1>13. EntsGo' /\ RelsGo'
  BY <1>2, <1>3, <1>4, <1>6, <1>11 DEF Writing, EntsGo, RelsGo
<1>14. AliasesGo'
  BY <1>2, <1>3, <1>6 DEF Writing, AliasesGo
<1> QED BY <1>12, <1>13, <1>14

\* The aliases, all at once.
LEMMA AliasesAreSet ==
  ASSUME Writing, ApplyAliases
  PROVE  EntsGo' /\ MetsGo' /\ RelsGo' /\ AliasesGo'
<1>1. PICK d : d = [job.todo EXCEPT !.aliases = Nowhere]
  OBVIOUS
<1>2. /\ UNCHANGED <<custom, metrics, approved>> /\ DOMAIN job.todo.aliases # {}
      /\ job' = [job EXCEPT !.todo = d] /\ aliases' = Overlay(job.todo.aliases, aliases)
  BY <1>1 DEF ApplyAliases, Writing, Applying, JobTyped, Fields
<1>3. job'.template = job.template /\ job'.todo = d /\ job'.before = job.before
  BY <1>2, Shorter DEF Writing
<1>4. Was' = Was /\ Now' = Now
  BY <1>2, <1>3 DEF Was, Now
<1>5. job.todo \in Bundles
  BY DEF Writing, JobTyped
<1>6. d.ents = job.todo.ents /\ d.mets = job.todo.mets /\ d.rels = job.todo.rels /\ d.aliases = Nowhere
  BY <1>1, <1>5 DEF Bundles
<1>7. EntsGo' /\ MetsGo' /\ RelsGo'
  BY <1>2, <1>3, <1>4, <1>6 DEF Writing, EntsGo, MetsGo, RelsGo
<1>8. AliasesGo'
  <2>1. PICK b, t : b = job.before.aliases /\ t = job.template.aliases /\ b \in AliasFiles /\ t \in AliasFiles
    BY ModelsTyped DEF Writing
  <2>2. job.todo.aliases = Without(t, DOMAIN b) /\ aliases = b
    BY <1>2, <2>1, NothingTyped DEF Writing, AliasesGo
  <2>3. PICK n : n = Without(t, DOMAIN b) /\ n \in AliasFiles
    BY <2>1, WithoutTyped DEF AliasFiles
  <2>4. Overlay(n, b) \in AliasFiles /\ Overlay(b, t) \in AliasFiles
    BY <2>1, <2>3, OverlayTyped DEF AliasFiles
  <2>5. DOMAIN n = DOMAIN t \ DOMAIN b /\ \A x \in DOMAIN n : n[x] = t[x]
    BY <2>3 DEF Without, Restrict
  <2>6. DOMAIN Overlay(n, b) = DOMAIN Overlay(b, t)
    BY <2>5 DEF Overlay
  <2>7. \A x \in DOMAIN Overlay(n, b) : Overlay(n, b)[x] = Overlay(b, t)[x]
    BY <2>5 DEF Overlay
  <2>8. Overlay(n, b) = Overlay(b, t)
    BY <2>4, <2>6, <2>7, SameLayer DEF AliasFiles
  <2> QED BY <1>2, <1>3, <1>6, <2>1, <2>2, <2>3, <2>8 DEF AliasesGo
<1> QED BY <1>7, <1>8

\* The invariant is inductive.
LEMMA ApplyStep == TypeInv /\ LoadInv /\ ApplyInv /\ [SNext]_svars => ApplyInv'
<1> SUFFICES ASSUME TypeInv, LoadInv, ApplyInv, [SNext]_svars PROVE ApplyInv'
  OBVIOUS
<1>1. JobTyped(job) /\ DOMAIN job = Fields /\ failures \in Nat
  BY DEF TypeInv, JobTyped, LoadInv, JobOK
<1>2. CASE job'.op # "apply"
  <2>1. JobTyped(job')
    BY TypeStep DEF TypeInv
  <2> QED BY <1>2, <2>1 DEF JobTyped, ApplyInv, Templating
<1>3. CASE UNCHANGED <<job, custom, metrics, approved, aliases, registry>> /\ (failures' = failures \/ failures' # 0)
  BY <1>3 DEF ApplyInv, EntsGo, MetsGo, RelsGo, AliasesGo, Now, Was, Heading
<1>4. CASE ReloadStep
  <2>1. CASE job' = Free
    BY <2>1, FreeShape DEF ApplyInv, Heading, Reloading
  <2>2. CASE job' # Free
    <3>1. UNCHANGED <<custom, metrics, approved, aliases, failures>>
      BY <1>4, ReloadGoesOn
    <3>2. /\ job'.template = job.template /\ job'.todo = job.todo /\ job'.before = job.before
          /\ Heading(job') = Heading(job)
      BY <1>4, <2>2, ReloadGoesOn
    <3>3. Now' = Now /\ Was' = Was
      BY <3>1, <3>2 DEF Now, Was
    <3> QED BY <3>1, <3>2, <3>3 DEF ApplyInv, EntsGo, MetsGo, RelsGo, AliasesGo
  <2> QED BY <2>1, <2>2
<1>5. CASE Undo \/ FailApply
  <2>1. Undo => Heading(job') # "apply"
    BY <1>1, FreeShape DEF Undo, Reload, Heading, Reloading, Fields
  <2>2. FailApply => failures' # 0
    <3>1. FailApply => failures' = failures + 1
      BY DEF FailApply, Failing
    <3> QED BY <1>1, <3>1
  <2> QED BY <1>5, <2>1, <2>2 DEF ApplyInv
<1>6. ASSUME \/ \E e \in Entities : ApplyEntity(e)
             \/ \E m \in Metrics : ApplyMetric(m)
             \/ ApplyRelationships \/ ApplyAliases
      PROVE  ApplyInv'
  <2>1. job.pc = "apply" /\ UNCHANGED <<approved, failures>>
    BY <1>6 DEF ApplyEntity, ApplyMetric, ApplyRelationships, ApplyAliases, Applying, counters
  <2>2. Heading(job) = "apply" /\ PartOf(job.todo, job.template)
    BY <1>1, <2>1 DEF JobTyped, Heading, Reloading, Templating
  <2>3. CASE failures = 0
    <3>1. registry = Now
      BY <2>1, <2>3 DEF LoadInv, Loading, Now
    <3>2. Writing
      BY <1>1, <2>1, <2>2, <2>3, <3>1 DEF Writing, ApplyInv
    <3> QED BY <1>6, <3>2, EntityGoes, MetricGoes, RelationshipsGo, AliasesAreSet DEF ApplyInv
  <2>4. CASE failures # 0
    BY <2>1, <2>4 DEF ApplyInv
  <2> QED BY <2>3, <2>4
<1> QED BY <1>2, <1>3, <1>4, <1>5, <1>6, TemplateSteps, StartGoes

\* Whatever the constants: a template that was applied is there in full, over nothing
\* that was there, and if there was a custom ontology without a relationship lost.
THEOREM ApplicationIsComplete == SSpec => AppliedInFull
<1> DEFINE Complete == Ends("apply") /\ failures = 0 =>
              /\ registry.ents = Overlay(Was.ents, job.template.ents)
              /\ job.template.rels \ Was.rels \subseteq registry.rels
              /\ job.before.custom # Absent => registry.rels = Was.rels \cup job.template.rels
              /\ registry.mets = Overlay(Was.mets, job.template.mets)
              /\ aliases = Overlay(job.before.aliases, job.template.aliases)
<1>1. TypeInv /\ LoadInv /\ ApplyInv /\ [SNext]_svars => Complete
  <2> SUFFICES ASSUME TypeInv, LoadInv, ApplyInv, [SNext]_svars, Ends("apply"), failures = 0
               PROVE  /\ registry.ents = Overlay(Was.ents, job.template.ents)
                      /\ job.template.rels \ Was.rels \subseteq registry.rels
                      /\ job.before.custom # Absent => registry.rels = Was.rels \cup job.template.rels
                      /\ registry.mets = Overlay(Was.mets, job.template.mets)
                      /\ aliases = Overlay(job.before.aliases, job.template.aliases)
    OBVIOUS
  <2>1. EndApply /\ job.pc = "apply"
    BY Ended DEF Ends
  <2>2. /\ DOMAIN job.todo.ents = {} /\ job.todo.rels = {} /\ DOMAIN job.todo.mets = {}
        /\ DOMAIN job.todo.aliases = {}
    BY <2>1 DEF EndApply, Applying
  <2>3. registry = Now /\ EntsGo /\ MetsGo /\ RelsGo /\ AliasesGo
    BY <2>1 DEF LoadInv, Loading, Now, ApplyInv, Heading, Reloading
  <2>4. Without(job.template.ents, {}) = job.template.ents /\ Without(job.template.mets, {}) = job.template.mets
    BY ModelsTyped, NothingApplied DEF EntLayers, MetLayers
  <2>5. registry.ents = Overlay(Was.ents, job.template.ents)
    BY <2>2, <2>3, <2>4 DEF EntsGo
  <2>6. registry.mets = Overlay(Was.mets, job.template.mets)
    BY <2>2, <2>3, <2>4 DEF MetsGo
  <2>7. /\ job.template.rels \ Was.rels \subseteq registry.rels
        /\ job.before.custom # Absent => registry.rels = Was.rels \cup job.template.rels
    BY <2>2, <2>3 DEF RelsGo
  <2>8. aliases = Overlay(job.before.aliases, job.template.aliases)
    <3>1. DOMAIN Without(job.template.aliases, DOMAIN job.before.aliases) = {}
            => Overlay(job.before.aliases, job.template.aliases) = job.before.aliases
      BY ModelsTyped, NothingApplied DEF AliasFiles
    <3> QED BY <2>2, <2>3, <3>1 DEF AliasesGo
  <2> QED BY <2>5, <2>6, <2>7, <2>8
<1>2. SInit => ApplyInv
  BY FreeShape DEF SInit, ApplyInv, Heading, Reloading
<1>3. TypeInv /\ LoadInv /\ ApplyInv /\ [SNext]_svars => [Complete]_svars
  BY <1>1
<1> HIDE DEF Complete
<1>4. SSpec => [][Complete]_svars
  BY <1>2, <1>3, InitLoads, LoadStep, InitTypes, TypeStep, ApplyStep, PTL DEF SSpec
<1> QED BY <1>4, PTL DEF AppliedInFull, Complete
=============================================================================
