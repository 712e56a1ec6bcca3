------------------------------ MODULE Onboarding ------------------------------
(***************************************************************************)
(* The wizard that connects a data source in two steps, and the two JSON   *)
(* files beside the repository: the data sources and the industry          *)
(* templates.  Both files are changed under a lock by load, modify, write; *)
(* the source file is truncated and rewritten in place, the template file  *)
(* is replaced by a complete copy.                                         *)
(***************************************************************************)
EXTENDS Naturals, Sequences, FiniteSets

CONSTANTS
  OWorkers,      \* threads that serve requests
  Unlocked,      \* the holder of a free lock
  Sessions,      \* onboarding sessions
  Names,         \* names a confirmation may give; the binding's id is made of it
  Builtins,      \* ids of the built-in templates
  Customs,       \* ids of the templates users make
  Contents,      \* what a template may say: [entities, rels]
  MaxOCalls,     \* bound: requests served in a behaviour
  MaxODeaths     \* bound: handlers that die or fail half way

ASSUME OAssumption == /\ Unlocked \notin OWorkers
                      /\ Builtins \cap Customs = {}
                      /\ MaxOCalls \in Nat /\ MaxODeaths \in Nat

VARIABLES
  sessions,      \* onboarding_sessions: session -> row
  bindings,      \* data_bindings: name -> [status, source]
  posted,        \* history: the names whose row was last put by POST /data-bindings
  sources,       \* data/datasources.json: [whole, rows]
  sourceLock,
  templates,     \* the template file: id -> content, of overrides and customs
  templateLock,
  otodo, ocalls, odeaths,
  saved,         \* history: the sources that were saved and not deleted since
  kept,          \* history: the templates that were saved and not deleted since
  torn           \* history: a writer died while it rewrote the source file

ostores == <<sessions, bindings, posted, sources, templates, saved, kept, torn>>
olocks == <<sourceLock, templateLock>>
ovars == <<ostores, olocks, otodo, ocalls, odeaths>>

\* DS- and a hash of session and name.
SourceIds == Sessions \X Names
\* A binding need not name a source.
BindingRow == [status : {"draft", "approved"}, source : SourceIds \cup {<<>>}]
SessionRow == [status : {"discovered", "connected"}, source : SourceIds \cup {<<>>}, ready : BOOLEAN]

OPut(store, key, row) ==
  [k \in DOMAIN store \cup {key} |-> IF k = key THEN row ELSE store[k]]
ODrop(store, key) == [k \in DOMAIN store \ {key} |-> store[k]]

OInit ==
  /\ sessions = <<>> /\ bindings = <<>> /\ posted = {} /\ sources = [whole |-> TRUE, rows |-> {}]
  /\ templates = <<>> /\ sourceLock = Unlocked /\ templateLock = Unlocked
  /\ otodo = [w \in OWorkers |-> <<>>] /\ ocalls = 0 /\ odeaths = 0
  /\ saved = {} /\ kept = <<>> /\ torn = FALSE

OServe(w, steps) ==
  /\ otodo[w] = <<>> /\ ocalls < MaxOCalls
  /\ otodo' = [otodo EXCEPT ![w] = steps]
  /\ ocalls' = ocalls + 1
  /\ UNCHANGED <<ostores, olocks, odeaths>>

-----------------------------------------------------------------------------
\* Discovery recommends a mapping; ready says whether it has the required fields.
Discover(w, s, ready) ==
  /\ s \notin DOMAIN sessions
  /\ OServe(w, <<[do |-> "session", key |-> s,
                  row |-> [status |-> "discovered", source |-> <<>>, ready |-> ready]]>>)

SavesSource(id) == <<[do |-> "loadSources", id |-> id, add |-> TRUE]>>

\* Mutant: the session is marked before its binding is stored.
ConfirmFirst(w, s, name, mapped) ==
  /\ s \in DOMAIN sessions /\ (mapped \/ sessions[s].ready)
  /\ LET id == <<s, name>> IN
       OServe(w, SavesSource(id)
                 \o <<[do |-> "session", key |-> s,
                       row |-> [sessions[s] EXCEPT !.status = "connected", !.source = id]],
                      [do |-> "binding", key |-> name, row |-> [status |-> "draft", source |-> id]],
                      [do |-> "approve", key |-> name]>>)

\* A session may be confirmed again; its row is put back as it was read.
Confirm(w, s, name, mapped) ==
  /\ s \in DOMAIN sessions /\ (mapped \/ sessions[s].ready)
  /\ LET id == <<s, name>> IN
       OServe(w, SavesSource(id)
                 \o <<[do |-> "binding", key |-> name, row |-> [status |-> "draft", source |-> id]],
                      [do |-> "approve", key |-> name],
                      [do |-> "session", key |-> s,
                       row |-> [sessions[s] EXCEPT !.status = "connected", !.source = id]]>>)

\* Anybody may put the binding of a name: as a draft, or with whatever status he gives it.
PostBinding(w, name, status, source) ==
  OServe(w, <<[do |-> "post", key |-> name, row |-> [status |-> status, source |-> source]]>>)
ApproveBinding(w, name) ==
  /\ name \in DOMAIN bindings
  /\ OServe(w, <<[do |-> "approve", key |-> name]>>)

SaveSource(w, id) == OServe(w, SavesSource(id))
DeleteSource(w, id) == OServe(w, <<[do |-> "loadSources", id |-> id, add |-> FALSE]>>)

-----------------------------------------------------------------------------
(* Templates.                                                              *)

Valid(content) ==
  /\ \A i \in DOMAIN content.rels :
       content.rels[i].from \in content.entities /\ content.rels[i].to \in content.entities
  /\ \A i, j \in DOMAIN content.rels : i # j => content.rels[i] # content.rels[j]

Loads(op, t, content) == <<[do |-> "loadTemplates", op |-> op, id |-> t, content |-> content]>>

\* The template is validated before the lock is taken.
CreateTemplate(w, t, content) == Valid(content) /\ OServe(w, Loads("create", t, content))
UpdateTemplate(w, t, content) == Valid(content) /\ OServe(w, Loads("update", t, content))
DeleteTemplate(w, t) == OServe(w, Loads("delete", t, <<>>))
ResetTemplate(w, t) == OServe(w, Loads("reset", t, <<>>))

\* What an operation may do to the file it loaded.
MayApply(op, t, file) ==
  \/ op = "create" /\ t \notin Builtins /\ t \notin DOMAIN file
  \/ op = "update" /\ (t \in Builtins \/ t \in DOMAIN file)
  \/ op = "delete" /\ t \notin Builtins /\ t \in DOMAIN file
  \/ op = "reset" /\ t \in Builtins

Applied(op, t, content, file) ==
  IF op \in {"create", "update"} THEN OPut(file, t, content) ELSE ODrop(file, t)

-----------------------------------------------------------------------------
(* The steps of a handler.                                                 *)

ODoes(w, what) ==
  /\ otodo[w] # <<>> /\ Head(otodo[w]).do = what
  /\ otodo' = [otodo EXCEPT ![w] = Tail(@)]
  /\ UNCHANGED <<ocalls, odeaths>>

PutSession(w) ==
  /\ ODoes(w, "session")
  /\ sessions' = OPut(sessions, Head(otodo[w]).key, Head(otodo[w]).row)
  /\ UNCHANGED <<bindings, posted, sources, templates, saved, kept, torn, olocks>>

PutBinding(w) ==
  /\ ODoes(w, "binding")
  /\ bindings' = OPut(bindings, Head(otodo[w]).key, Head(otodo[w]).row)
  /\ posted' = posted \ {Head(otodo[w]).key}
  /\ UNCHANGED <<sessions, sources, templates, saved, kept, torn, olocks>>

\* The same put, of a row that somebody posted.
PutPosted(w) ==
  /\ ODoes(w, "post")
  /\ bindings' = OPut(bindings, Head(otodo[w]).key, Head(otodo[w]).row)
  /\ posted' = posted \cup {Head(otodo[w]).key}
  /\ UNCHANGED <<sessions, sources, templates, saved, kept, torn, olocks>>

\* approve reads the binding of that name, whoever wrote it last.
ReadToApprove(w) ==
  /\ otodo[w] # <<>> /\ Head(otodo[w]).do = "approve"
  /\ LET name == Head(otodo[w]).key IN
       otodo' = [otodo EXCEPT ![w] =
         <<[do |-> "binding", key |-> name, row |-> [bindings[name] EXCEPT !.status = "approved"]]>> \o Tail(@)]
  /\ UNCHANGED <<ostores, olocks, ocalls, odeaths>>

\* A file that cannot be parsed loads as an empty one.
LoadSources(w) ==
  /\ otodo[w] # <<>> /\ Head(otodo[w]).do = "loadSources" /\ sourceLock = Unlocked
  /\ LET s == Head(otodo[w])
         loaded == IF sources.whole THEN sources.rows ELSE {}
         rows == IF s.add THEN loaded \cup {s.id} ELSE loaded \ {s.id} IN
       IF s.add \/ s.id \in loaded
       THEN /\ sourceLock' = w
            /\ otodo' = [otodo EXCEPT ![w] = <<[do |-> "truncate"],
                           [do |-> "write", rows |-> rows, id |-> s.id, add |-> s.add]>> \o Tail(@)]
       ELSE otodo' = [otodo EXCEPT ![w] = <<>>] /\ UNCHANGED sourceLock
  /\ UNCHANGED <<ostores, templateLock, ocalls, odeaths>>

TruncateSources(w) ==
  /\ ODoes(w, "truncate")
  /\ sources' = [whole |-> FALSE, rows |-> {}]
  /\ UNCHANGED <<sessions, bindings, posted, templates, saved, kept, torn, olocks>>

WriteSources(w) ==
  /\ ODoes(w, "write")
  /\ LET s == Head(otodo[w]) IN
       /\ sources' = [whole |-> TRUE, rows |-> s.rows]
       /\ saved' = IF s.add THEN saved \cup {s.id} ELSE saved \ {s.id}
  /\ sourceLock' = Unlocked
  /\ UNCHANGED <<sessions, bindings, posted, templates, kept, torn, templateLock>>

\* Mutant: the file is loaded before the lock is taken.
LoadTemplatesUnlocked(w) ==
  /\ otodo[w] # <<>> /\ Head(otodo[w]).do = "loadTemplates"
  /\ LET s == Head(otodo[w]) IN
       /\ templateLock' = w
       /\ otodo' = [otodo EXCEPT ![w] =
            <<[do |-> "replace", file |-> Applied(s.op, s.id, s.content, templates), by |-> s]>> \o Tail(@)]
  /\ UNCHANGED <<ostores, sourceLock, ocalls, odeaths>>

LoadTemplates(w) ==
  /\ otodo[w] # <<>> /\ Head(otodo[w]).do = "loadTemplates" /\ templateLock = Unlocked
  /\ LET s == Head(otodo[w]) IN
       IF MayApply(s.op, s.id, templates)
       THEN /\ templateLock' = w
            /\ otodo' = [otodo EXCEPT ![w] =
                 <<[do |-> "replace", file |-> Applied(s.op, s.id, s.content, templates), by |-> s]>> \o Tail(@)]
       ELSE otodo' = [otodo EXCEPT ![w] = <<>>] /\ UNCHANGED templateLock
  /\ UNCHANGED <<ostores, sourceLock, ocalls, odeaths>>

\* The complete copy takes the file's place in one step.
ReplaceTemplates(w) ==
  /\ ODoes(w, "replace")
  /\ LET s == Head(otodo[w]) IN
       /\ templates' = s.file
       /\ kept' = Applied(s.by.op, s.by.id, s.by.content, kept)
  /\ templateLock' = Unlocked
  /\ UNCHANGED <<sessions, bindings, posted, sources, saved, torn, sourceLock>>

\* The locks are released; a rewrite that was cut short leaves the file torn.
FailOHandler(w) ==
  /\ otodo[w] # <<>> /\ odeaths < MaxODeaths
  /\ torn' = (torn \/ (sourceLock = w /\ ~sources.whole))
  /\ sourceLock' = IF sourceLock = w THEN Unlocked ELSE sourceLock
  /\ templateLock' = IF templateLock = w THEN Unlocked ELSE templateLock
  /\ otodo' = [otodo EXCEPT ![w] = <<>>]
  /\ odeaths' = odeaths + 1
  /\ UNCHANGED <<sessions, bindings, posted, sources, templates, saved, kept, ocalls>>

-----------------------------------------------------------------------------
WizardRequest(w) ==
  \E s \in Sessions :
    \/ \E ready \in BOOLEAN : Discover(w, s, ready)
    \/ \E name \in Names, mapped \in BOOLEAN : Confirm(w, s, name, mapped)

BindingRequest(w) ==
  \E name \in Names :
    \/ ApproveBinding(w, name)
    \/ \E status \in {"draft", "approved"}, source \in SourceIds \cup {<<>>} : PostBinding(w, name, status, source)

SourceRequest(w) == \E id \in SourceIds : SaveSource(w, id) \/ DeleteSource(w, id)

OnboardingRequest(w) == WizardRequest(w) \/ BindingRequest(w) \/ SourceRequest(w)

TemplateRequest(w) ==
  \E t \in Builtins \cup Customs :
    \/ DeleteTemplate(w, t) \/ ResetTemplate(w, t)
    \/ \E content \in Contents : CreateTemplate(w, t, content) \/ UpdateTemplate(w, t, content)

OStep(w) ==
  \/ PutSession(w) \/ PutBinding(w) \/ PutPosted(w) \/ ReadToApprove(w)
  \/ LoadSources(w) \/ TruncateSources(w) \/ WriteSources(w)
  \/ LoadTemplates(w) \/ ReplaceTemplates(w)

ONext == \E w \in OWorkers :
           OnboardingRequest(w) \/ TemplateRequest(w) \/ OStep(w) \/ FailOHandler(w)

OSpec == OInit /\ [][ONext]_ovars

-----------------------------------------------------------------------------
OTypeOK ==
  /\ DOMAIN sessions \subseteq Sessions /\ \A s \in DOMAIN sessions : sessions[s] \in SessionRow
  /\ DOMAIN bindings \subseteq Names /\ \A n \in DOMAIN bindings : bindings[n] \in BindingRow
  /\ posted \subseteq DOMAIN bindings
  /\ sources \in [whole : BOOLEAN, rows : SUBSET SourceIds]
  /\ DOMAIN templates \subseteq Builtins \cup Customs
  /\ sourceLock \in OWorkers \cup {Unlocked} /\ templateLock \in OWorkers \cup {Unlocked}

\* No save is lost to another one: unless a writer died in the middle of it, the
\* source file holds the sources that were saved and not deleted; the template file
\* holds the templates that were, deaths or not, all of them valid
\* (datasource.py and template_store.py, the lock around load, modify, write).
SavedIsKept ==
  /\ (~torn /\ sources.whole) => sources.rows = saved
  /\ templates = kept
  /\ \A t \in DOMAIN templates : Valid(templates[t])

\* A session that says connected is: the binding of the name it was confirmed under
\* exists, and once the handlers are done and none failed it is approved, unless a
\* posted row took its place since.  Sessions of one name share that binding, and two
\* confirmations of it, approvals and posts may overlap (enterprise_onboarding.py,
\* confirm; data_binding.py, upsert and approve).
ConnectedIsBound ==
  \A s \in DOMAIN sessions : sessions[s].status = "connected" =>
    LET name == sessions[s].source[2] IN
      /\ name \in DOMAIN bindings
      /\ (odeaths = 0 /\ \A w \in OWorkers : otodo[w] = <<>>) =>
           bindings[name].status = "approved" \/ name \in posted
=============================================================================
