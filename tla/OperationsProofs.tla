---------------------------- MODULE OperationsProofs ----------------------------
(***************************************************************************)
(* Theorems about three operational services (collaboration, enterprise    *)
(* access and onboarding) and about all five of them side by side.  They   *)
(* share the shape of their handlers, a queue of steps each of which may   *)
(* be the last one, so their invariants share theirs: what a step relies   *)
(* on is stored already, or put by a step before it in the same queue.     *)
(***************************************************************************)
EXTENDS MCOperations, KnowledgeLifecycleProofs, ModelGovernanceProofs, FiniteSetTheorems, TLAPS

-----------------------------------------------------------------------------
(* Sequences.                                                              *)

\* The steps of a handler that does its first step, and puts others in its place.
LEMMA Continued ==
  ASSUME NEW S, NEW q \in Seq(S), q # <<>>, NEW new \in Seq(S), NEW r, r = new \o Tail(q)
  PROVE  /\ r \in Seq(S) /\ Head(q) = q[1] /\ 1 \in 1..Len(q) /\ q[1] \in S
         /\ Len(r) = Len(new) + Len(q) - 1
         /\ \A i \in 1..Len(new) : r[i] = new[i]
         /\ \A i \in 2..Len(q) : r[Len(new) + i - 1] = q[i]
         /\ \A i \in 1..Len(r) : i > Len(new) => i + 1 - Len(new) \in 2..Len(q) /\ r[i] = q[i + 1 - Len(new)]
<1>1. PICK t : t = Tail(q)
  OBVIOUS
<1>2. t \in Seq(S) /\ Len(t) = Len(q) - 1 /\ \A i \in 1..Len(t) : t[i] = q[i + 1]
  BY <1>1
<1>3. Len(q) \in Nat /\ Len(q) > 0 /\ Len(new) \in Nat /\ Head(q) = q[1] /\ q[1] \in S
  OBVIOUS
<1>4. r \in Seq(S) /\ Len(r) = Len(new) + Len(t)
  BY <1>1, <1>2
<1>5. \A i \in 1..Len(r) : r[i] = IF i <= Len(new) THEN new[i] ELSE t[i - Len(new)]
  BY <1>1, <1>2
<1>6. ASSUME NEW i \in 1..Len(r), i > Len(new)
      PROVE  i + 1 - Len(new) \in 2..Len(q) /\ r[i] = q[i + 1 - Len(new)]
  <2>1. i - Len(new) \in 1..Len(t) /\ r[i] = t[i - Len(new)]
    BY <1>2, <1>3, <1>4, <1>5, <1>6
  <2> QED BY <1>2, <1>3, <2>1
<1>7. ASSUME NEW i \in 2..Len(q) PROVE r[Len(new) + i - 1] = q[i]
  <2>1. Len(new) + i - 1 \in 1..Len(r) /\ Len(new) + i - 1 > Len(new)
    BY <1>2, <1>3, <1>4
  <2> QED BY <1>3, <1>6, <2>1
<1>8. \A i \in 1..Len(new) : r[i] = new[i]
  BY <1>2, <1>3, <1>4, <1>5
<1> QED BY <1>2, <1>3, <1>4, <1>6, <1>7, <1>8

\* Two sequences of steps one after the other.
LEMMA Concatenated ==
  ASSUME NEW S, NEW a \in Seq(S), NEW b \in Seq(S), NEW r, r = a \o b
  PROVE  /\ r \in Seq(S) /\ Len(r) = Len(a) + Len(b) /\ Len(a) \in Nat /\ Len(b) \in Nat
         /\ \A i \in 1..Len(a) : i \in 1..Len(r) /\ r[i] = a[i]
         /\ \A i \in 1..Len(b) : Len(a) + i \in 1..Len(r) /\ r[Len(a) + i] = b[i]
<1>1. r \in Seq(S) /\ Len(r) = Len(a) + Len(b) /\ Len(a) \in Nat /\ Len(b) \in Nat
  OBVIOUS
<1>2. \A i \in 1..Len(r) : r[i] = IF i <= Len(a) THEN a[i] ELSE b[i - Len(a)]
  BY <1>1
<1>3. ASSUME NEW i \in 1..Len(b) PROVE Len(a) + i \in 1..Len(r) /\ r[Len(a) + i] = b[i]
  <2>1. Len(a) + i \in 1..Len(r) /\ ~(Len(a) + i <= Len(a)) /\ (Len(a) + i) - Len(a) = i
    BY <1>1
  <2> QED BY <1>2, <2>1
<1> QED BY <1>1, <1>2, <1>3

-----------------------------------------------------------------------------
(* Onboarding: what handlers have to do.                                   *)

Sound == {content \in Contents : Valid(content)}
TemplateIds == Builtins \cup Customs
TemplateFiles == UNION {[ids -> Sound] : ids \in SUBSET TemplateIds}

LoadSteps ==
  [do : {"loadTemplates"}, op : {"create", "update"}, id : TemplateIds, content : Sound]
    \cup [do : {"loadTemplates"}, op : {"delete", "reset"}, id : TemplateIds, content : {<<>>}]

WizardSteps ==
  [do : {"session"}, key : Sessions, row : SessionRow]
    \cup [do : {"binding", "post"}, key : Names, row : BindingRow]
    \cup [do : {"approve"}, key : Names]
    \cup [do : {"loadSources"}, id : SourceIds, add : BOOLEAN]
    \cup [do : {"truncate"}]
    \cup [do : {"write"}, rows : SUBSET SourceIds, id : SourceIds, add : BOOLEAN]
    \cup LoadSteps
    \cup [do : {"replace"}, file : TemplateFiles, by : LoadSteps]

\* Where the steps that hold a lock, and those that may end the handler, can be.
Ordered(q) ==
  \A i \in 1..Len(q) :
    /\ q[i].do = "truncate" => i = 1 /\ Len(q) > 1 /\ q[2].do = "write"
    /\ q[i].do = "write" => i = 1 \/ (i = 2 /\ q[1].do = "truncate")
    /\ q[i].do = "replace" => i = 1
    /\ q[i].do = "loadTemplates" \/ (q[i].do = "loadSources" /\ ~q[i].add) => i = Len(q)

\* The binding of that name is stored, already or by a step before this one.
Bound(q, i, name) ==
  name \in DOMAIN bindings \/ \E j \in 1..(i - 1) : q[j].do = "binding" /\ q[j].key = name
Relies(q) ==
  \A i \in 1..Len(q) :
    /\ q[i].do = "approve" => Bound(q, i, q[i].key)
    /\ q[i].do = "session" /\ q[i].row.status = "connected" => Bound(q, i, q[i].row.source[2])

\* A binding that is put as a draft is approved later on.
Announces(q) ==
  \A i \in 1..Len(q) : q[i].do = "binding" /\ q[i].row.status = "draft" =>
    \E j \in (i + 1)..Len(q) : q[j].do = "approve" /\ q[j].key = q[i].key

Wizards == {q \in Seq(WizardSteps) : Ordered(q) /\ Relies(q) /\ Announces(q)}

Approving(s, name) ==
  \/ s.do = "approve" /\ s.key = name
  \/ s.do = "binding" /\ s.key = name /\ s.row.status = "approved"
Promised ==
  {name \in Names : \E w \in OWorkers : \E i \in 1..Len(otodo[w]) : Approving(otodo[w][i], name)}

First(q, kinds) == Len(q) > 0 /\ q[1].do \in kinds

\* Files: only who holds the lock has changes to write, and they are the ones intended.
Intended(s) == IF s.add THEN saved \cup {s.id} ELSE saved \ {s.id}
FilesSafe ==
  /\ \A w \in OWorkers : sourceLock = w <=> First(otodo[w], {"truncate", "write"})
  /\ \A w \in OWorkers : templateLock = w <=> First(otodo[w], {"replace"})
  /\ \A w \in OWorkers : First(otodo[w], {"write"}) => ~sources.whole
  /\ ~torn => /\ sources.whole => sources.rows = saved
              /\ sources.whole \/ \E w \in OWorkers : First(otodo[w], {"write"})
              /\ \A w \in OWorkers :
                   /\ First(otodo[w], {"truncate"}) => otodo[w][2].rows = Intended(otodo[w][2])
                   /\ First(otodo[w], {"write"}) => otodo[w][1].rows = Intended(otodo[w][1])
  /\ templates = kept
  /\ \A w \in OWorkers : First(otodo[w], {"replace"}) =>
       LET by == otodo[w][1].by IN otodo[w][1].file = Applied(by.op, by.id, by.content, kept)

BindingsSafe ==
  /\ \A s \in DOMAIN sessions : sessions[s].status = "connected" => sessions[s].source[2] \in DOMAIN bindings
  /\ odeaths = 0 =>
       \A name \in DOMAIN bindings : bindings[name].status = "approved" \/ name \in Promised \/ name \in posted

ORowsOK ==
  /\ DOMAIN sessions \subseteq Sessions /\ \A s \in DOMAIN sessions : sessions[s] \in SessionRow
  /\ DOMAIN bindings \subseteq Names /\ \A n \in DOMAIN bindings : bindings[n] \in BindingRow
  /\ posted \subseteq DOMAIN bindings
  /\ sources \in [whole : BOOLEAN, rows : SUBSET SourceIds]
  /\ templates \in TemplateFiles
  /\ sourceLock \in OWorkers \cup {Unlocked} /\ templateLock \in OWorkers \cup {Unlocked}
  /\ odeaths \in Nat /\ torn \in BOOLEAN

OInv ==
  /\ ORowsOK /\ BindingsSafe /\ FilesSafe
  /\ otodo \in [OWorkers -> Wizards]

\* What a step that is done leaves of its handler.
LEMMA WizardContinues ==
  ASSUME NEW q \in Wizards, q # <<>>, NEW new \in Seq(WizardSteps), NEW r, r = new \o Tail(q),
         new = <<>> \/ q[1].do # "truncate", Ordered(new),
         \A i \in 1..Len(new) : /\ new[i].do \in {"truncate", "write", "replace", "binding"}
                                /\ new[i].do = "binding" => new[i].row.status = "approved",
         DOMAIN bindings \subseteq DOMAIN bindings',
         q[1].do = "binding" => q[1].key \in DOMAIN bindings'
  PROVE  /\ r \in Wizards'
         /\ \A name : \A i \in 1..Len(q) : Approving(q[i], name) =>
              i = 1 \/ \E j \in 1..Len(r) : Approving(r[j], name)
<1>1. q \in Seq(WizardSteps) /\ Ordered(q) /\ Relies(q) /\ Announces(q) /\ Len(q) \in Nat /\ Len(new) \in Nat
  BY DEF Wizards
<1>2. /\ r \in Seq(WizardSteps) /\ Len(r) = Len(new) + Len(q) - 1
      /\ \A i \in 1..Len(new) : r[i] = new[i]
      /\ \A i \in 2..Len(q) : r[Len(new) + i - 1] = q[i]
      /\ \A i \in 1..Len(r) : i > Len(new) => i + 1 - Len(new) \in 2..Len(q) /\ r[i] = q[i + 1 - Len(new)]
  BY <1>1, Continued
<1>3. Len(new) = 0 \/ q[1].do # "truncate"
  OBVIOUS
<1>4. ASSUME NEW i \in 1..Len(r)
      PROVE  /\ r[i].do = "truncate" => i = 1 /\ Len(r) > 1 /\ r[2].do = "write"
             /\ r[i].do = "write" => i = 1 \/ (i = 2 /\ r[1].do = "truncate")
             /\ r[i].do = "replace" => i = 1
             /\ r[i].do = "loadTemplates" \/ (r[i].do = "loadSources" /\ ~r[i].add) => i = Len(r)
  <2>1. CASE i <= Len(new)
    <3>1. i \in 1..Len(new) /\ r[i] = new[i] /\ Len(r) >= Len(new)
      BY <1>1, <1>2, <2>1
    <3> QED BY <1>1, <1>2, <3>1 DEF Ordered
  <2>2. CASE i > Len(new)
    <3>1. PICK k \in 2..Len(q) : k = i + 1 - Len(new) /\ r[i] = q[k]
      BY <1>2, <2>2
    <3>2. k \in 1..Len(q)
      OBVIOUS
    <3> QED BY <1>1, <1>2, <1>3, <3>1, <3>2 DEF Ordered
  <2> QED BY <1>1, <1>2, <2>1, <2>2
<1>5. ASSUME NEW i \in 1..Len(r), i > Len(new), NEW name, Bound(q, i + 1 - Len(new), name)
      PROVE  Bound(r, i, name)'
  <2>1. CASE name \in DOMAIN bindings
    BY <2>1 DEF Bound
  <2>2. CASE name \notin DOMAIN bindings
    <3>1. PICK j \in 1..(i - Len(new)) : q[j].do = "binding" /\ q[j].key = name
      BY <1>1, <1>2, <1>5, <2>2 DEF Bound
    <3>2. CASE j = 1
      BY <3>1, <3>2 DEF Bound
    <3>3. CASE j # 1
      <4>1. j \in 2..Len(q)
        BY <1>1, <1>2, <1>5, <3>1, <3>3
      <4>2. Len(new) + j - 1 \in 1..(i - 1)
        BY <1>1, <1>5, <3>1, <3>3
      <4>3. r[Len(new) + j - 1] = q[j]
        BY <1>2, <4>1
      <4> QED BY <3>1, <4>2, <4>3 DEF Bound
    <3> QED BY <3>2, <3>3
  <2> QED BY <2>1, <2>2
<1>6. Relies(r)'
  <2>1. ASSUME NEW i \in 1..Len(r)
        PROVE  /\ r[i].do = "approve" => Bound(r, i, r[i].key)'
               /\ r[i].do = "session" /\ r[i].row.status = "connected" => Bound(r, i, r[i].row.source[2])'
    <3>1. CASE i <= Len(new)
      <4>1. i \in 1..Len(new) /\ r[i] = new[i]
        BY <1>1, <1>2, <3>1
      <4>2. r[i].do \in {"truncate", "write", "replace", "binding"}
        BY <4>1
      <4> QED BY <4>2
    <3>2. CASE i > Len(new)
      <4>1. i + 1 - Len(new) \in 1..Len(q) /\ r[i] = q[i + 1 - Len(new)]
        BY <1>1, <1>2, <3>2
      <4>2. r[i].do = "approve" => Bound(q, i + 1 - Len(new), r[i].key)
        BY <1>1, <4>1 DEF Relies
      <4>3. r[i].do = "session" /\ r[i].row.status = "connected" =>
              Bound(q, i + 1 - Len(new), r[i].row.source[2])
        BY <1>1, <4>1 DEF Relies
      <4>4. r[i].do = "approve" => Bound(r, i, r[i].key)'
        BY <1>5, <3>2, <4>2
      <4>5. r[i].do = "session" /\ r[i].row.status = "connected" => Bound(r, i, r[i].row.source[2])'
        BY <1>5, <3>2, <4>3
      <4> QED BY <4>4, <4>5
    <3> QED BY <1>1, <1>2, <3>1, <3>2
  <2> QED BY <2>1 DEF Relies
<1>7. Announces(r)
  <2>1. ASSUME NEW i \in 1..Len(r), r[i].do = "binding", r[i].row.status = "draft"
        PROVE  \E j \in (i + 1)..Len(r) : r[j].do = "approve" /\ r[j].key = r[i].key
    <3>1. i > Len(new)
      BY <1>1, <1>2, <2>1
    <3>2. PICK k \in 2..Len(q) : k = i + 1 - Len(new) /\ r[i] = q[k]
      BY <1>2, <3>1
    <3>3. PICK j \in (k + 1)..Len(q) : q[j].do = "approve" /\ q[j].key = q[k].key
      BY <1>1, <2>1, <3>2 DEF Announces
    <3>4. Len(new) + j - 1 \in (i + 1)..Len(r) /\ r[Len(new) + j - 1] = q[j]
      BY <1>1, <1>2, <3>2, <3>3
    <3> QED BY <3>2, <3>3, <3>4
  <2> QED BY <2>1 DEF Announces
<1>8. ASSUME NEW name, NEW i \in 1..Len(q), Approving(q[i], name), i # 1
      PROVE  \E j \in 1..Len(r) : Approving(r[j], name)
  <2>1. i \in 2..Len(q) /\ Len(new) + i - 1 \in 1..Len(r) /\ r[Len(new) + i - 1] = q[i]
    BY <1>1, <1>2, <1>8
  <2> QED BY <1>8, <2>1
<1>9. r \in Wizards'
  BY <1>2, <1>4, <1>6, <1>7 DEF Wizards, Ordered, Announces
<1> QED BY <1>8, <1>9

LEMMA WizardsGrow == DOMAIN bindings \subseteq DOMAIN bindings' => Wizards \subseteq Wizards'
<1> SUFFICES ASSUME DOMAIN bindings \subseteq DOMAIN bindings', NEW q \in Wizards PROVE q \in Wizards'
  OBVIOUS
<1>1. q \in Seq(WizardSteps) /\ Ordered(q) /\ Relies(q) /\ Announces(q)
  BY DEF Wizards
<1>2. \A i, name : Bound(q, i, name) => Bound(q, i, name)'
  BY DEF Bound
<1>3. Relies(q)'
  BY <1>1, <1>2 DEF Relies
<1>4. Ordered(q)' /\ Announces(q)'
  BY <1>1 DEF Ordered, Announces
<1> QED BY <1>1, <1>3, <1>4 DEF Wizards

\* The handler of one worker moves from q to r, and nobody else's.
LEMMA OneMoves ==
  ASSUME OInv, NEW w \in OWorkers, NEW r \in Wizards', otodo' = [otodo EXCEPT ![w] = r],
         DOMAIN bindings \subseteq DOMAIN bindings'
  PROVE  /\ otodo' \in [OWorkers -> Wizards'] /\ otodo'[w] = r
         /\ \A v \in OWorkers : v # w => otodo'[v] = otodo[v]
<1>1. otodo \in [OWorkers -> Wizards']
  BY WizardsGrow DEF OInv
<1> QED BY <1>1

\* Promises survive a step that is not the one that keeps them.
LEMMA PromisesKept ==
  ASSUME OInv, NEW w \in OWorkers, NEW r, otodo'[w] = r,
         \A v \in OWorkers : v # w => otodo'[v] = otodo[v], NEW name, name \in Promised,
         \A i \in 1..Len(otodo[w]) : Approving(otodo[w][i], name) =>
           \E j \in 1..Len(r) : Approving(r[j], name)
  PROVE  name \in Promised'
<1>1. PICK v \in OWorkers : \E i \in 1..Len(otodo[v]) : Approving(otodo[v][i], name)
  BY DEF Promised
<1>2. CASE v = w
  <2>1. \E j \in 1..Len(otodo'[w]) : Approving(otodo'[w][j], name)
    BY <1>1, <1>2
  <2> QED BY <2>1 DEF Promised, Approving
<1>3. CASE v # w
  BY <1>1, <1>3 DEF Promised, Approving
<1> QED BY <1>2, <1>3

\* A step that writes neither file nor takes a lock leaves the files as they are.
LEMMA FilesUndisturbed ==
  ASSUME OInv, NEW w \in OWorkers,
         \A v \in OWorkers : v # w => otodo'[v] = otodo[v],
         ~First(otodo[w], {"truncate", "write", "replace"}),
         ~First(otodo'[w], {"truncate", "write", "replace"}),
         UNCHANGED <<sources, templates, saved, kept, torn, sourceLock, templateLock>>
  PROVE  FilesSafe'
<1>1. FilesSafe
  BY DEF OInv
<1>2. \A kinds \in SUBSET {"truncate", "write", "replace"} :
        \A v \in OWorkers : First(otodo'[v], kinds) <=> First(otodo[v], kinds)
  BY DEF First
<1>3. \A v \in OWorkers : First(otodo[v], {"truncate", "write", "replace"}) => otodo'[v] = otodo[v]
  OBVIOUS
<1>4. \A v \in OWorkers :
        /\ First(otodo[v], {"truncate", "write"}) \/ First(otodo[v], {"replace"})
             \/ First(otodo[v], {"write"}) \/ First(otodo[v], {"truncate"}) => otodo'[v] = otodo[v]
  BY <1>3 DEF First
<1> QED BY <1>1, <1>2, <1>4 DEF FilesSafe, Intended

-----------------------------------------------------------------------------
(* Onboarding: requests.                                                   *)

LEMMA WizardServed ==
  ASSUME OInv, NEW w \in OWorkers, NEW steps \in Wizards, OServe(w, steps),
         ~First(steps, {"truncate", "write", "replace"})
  PROVE  OInv'
<1>1. /\ otodo[w] = <<>> /\ otodo' = [otodo EXCEPT ![w] = steps]
      /\ UNCHANGED <<sessions, bindings, posted, sources, templates, saved, kept, torn, sourceLock, templateLock, odeaths>>
  BY DEF OServe, ostores, olocks
<1>2. steps \in Wizards' /\ DOMAIN bindings \subseteq DOMAIN bindings'
  BY <1>1, WizardsGrow
<1>3. /\ otodo' \in [OWorkers -> Wizards'] /\ otodo'[w] = steps
      /\ \A v \in OWorkers : v # w => otodo'[v] = otodo[v]
  BY <1>1, <1>2, OneMoves
<1>4. ORowsOK'
  BY <1>1 DEF OInv, ORowsOK
<1>5. BindingsSafe'
  <2>1. \A name : name \in Promised => name \in Promised'
    <3>1. ASSUME NEW i \in 1..Len(otodo[w]) PROVE FALSE
      BY <1>1, <3>1
    <3> QED BY <1>3, <3>1, PromisesKept
  <2> QED BY <1>1, <2>1 DEF OInv, BindingsSafe
<1>6. ~First(otodo[w], {"truncate", "write", "replace"})
  BY <1>1 DEF First
<1>7. FilesSafe'
  BY <1>1, <1>3, <1>6, FilesUndisturbed
<1> QED BY <1>3, <1>4, <1>5, <1>7 DEF OInv

\* A handler of one step that relies on nothing.
LEMMA LoneWizard ==
  ASSUME NEW s \in WizardSteps, s.do \in {"session", "post", "approve", "loadSources", "loadTemplates"},
         s.do = "session" => s.row.status # "connected",
         s.do = "approve" => s.key \in DOMAIN bindings
  PROVE  <<s>> \in Wizards /\ ~First(<<s>>, {"truncate", "write", "replace"})
<1>1. <<s>> \in Seq(WizardSteps) /\ Len(<<s>>) = 1 /\ <<s>>[1] = s
  OBVIOUS
<1>2. Ordered(<<s>>) /\ Relies(<<s>>) /\ Announces(<<s>>)
  BY <1>1 DEF Ordered, Relies, Announces, Bound
<1> QED BY <1>1, <1>2 DEF Wizards, First

LEMMA OnboardingRequestsKeep ==
  ASSUME OInv, NEW w \in OWorkers, OnboardingRequest(w)
  PROVE  OInv'
<1>1. ASSUME NEW s \in Sessions, NEW ready \in BOOLEAN, Discover(w, s, ready) PROVE OInv'
  <2>1. PICK step : step = [do |-> "session", key |-> s,
                            row |-> [status |-> "discovered", source |-> <<>>, ready |-> ready]]
    OBVIOUS
  <2>2. step \in WizardSteps /\ step.do = "session" /\ step.row.status # "connected"
    BY <2>1 DEF WizardSteps, SessionRow
  <2>3. OServe(w, <<step>>)
    BY <1>1, <2>1 DEF Discover
  <2> QED BY <2>2, <2>3, LoneWizard, WizardServed
<1>2. ASSUME NEW id \in SourceIds, SaveSource(w, id) \/ DeleteSource(w, id) PROVE OInv'
  <2>1. PICK add \in BOOLEAN : OServe(w, <<[do |-> "loadSources", id |-> id, add |-> add]>>)
    BY <1>2 DEF SaveSource, DeleteSource, SavesSource
  <2>2. PICK step : step = [do |-> "loadSources", id |-> id, add |-> add]
    OBVIOUS
  <2>3. step \in WizardSteps /\ step.do = "loadSources"
    BY <2>2 DEF WizardSteps
  <2> QED BY <2>1, <2>2, <2>3, LoneWizard, WizardServed
<1>3. ASSUME NEW s \in Sessions, NEW name \in Names, NEW mapped \in BOOLEAN, Confirm(w, s, name, mapped)
      PROVE  OInv'
  <2>1. PICK load, bind, appr, sess :
          /\ load = [do |-> "loadSources", id |-> <<s, name>>, add |-> TRUE]
          /\ bind = [do |-> "binding", key |-> name, row |-> [status |-> "draft", source |-> <<s, name>>]]
          /\ appr = [do |-> "approve", key |-> name]
          /\ sess = [do |-> "session", key |-> s,
                     row |-> [sessions[s] EXCEPT !.status = "connected", !.source = <<s, name>>]]
    OBVIOUS
  <2>2. PICK q : q = <<load>> \o <<bind, appr, sess>>
    OBVIOUS
  <2>3. OServe(w, q)
    BY <1>3, <2>1, <2>2 DEF Confirm, SavesSource
  <2>4. s \in DOMAIN sessions /\ sessions[s] \in SessionRow
    BY <1>3 DEF Confirm, OInv, ORowsOK
  <2>5. load \in WizardSteps /\ bind \in WizardSteps /\ appr \in WizardSteps /\ sess \in WizardSteps
    BY <2>1, <2>4 DEF WizardSteps, SourceIds, SessionRow, BindingRow
  <2>6. /\ load.do = "loadSources" /\ load.add /\ bind.do = "binding" /\ bind.key = name
        /\ appr.do = "approve" /\ appr.key = name
        /\ sess.do = "session" /\ sess.row.source[2] = name
    BY <2>1, <2>4 DEF SessionRow
  <2>7. q \in Seq(WizardSteps) /\ Len(q) = 4 /\ q[1] = load /\ q[2] = bind /\ q[3] = appr /\ q[4] = sess
    BY <2>2, <2>5
  <2>8. \A i \in 1..Len(q) : i \in {1, 2, 3, 4}
    BY <2>7
  <2>9. Ordered(q)
    BY <2>6, <2>7, <2>8 DEF Ordered
  <2>10. Bound(q, 3, name) /\ Bound(q, 4, name)
    BY <2>6, <2>7 DEF Bound
  <2>11. Relies(q)
    BY <2>6, <2>7, <2>8, <2>10 DEF Relies
  <2>12. Announces(q)
    <3>1. 3 \in (2 + 1)..Len(q) /\ q[3].do = "approve" /\ q[3].key = q[2].key
      BY <2>6, <2>7
    <3> QED BY <2>6, <2>7, <2>8, <3>1 DEF Announces
  <2>13. ~First(q, {"truncate", "write", "replace"})
    BY <2>6, <2>7 DEF First
  <2>14. q \in Wizards
    BY <2>7, <2>9, <2>11, <2>12 DEF Wizards
  <2> QED BY <2>3, <2>13, <2>14, WizardServed
<1>4. ASSUME NEW name \in Names, NEW status \in {"draft", "approved"}, NEW source \in SourceIds \cup {<<>>},
             PostBinding(w, name, status, source)
      PROVE  OInv'
  <2>1. PICK step : step = [do |-> "post", key |-> name, row |-> [status |-> status, source |-> source]]
    OBVIOUS
  <2>2. step \in WizardSteps /\ step.do = "post"
    BY <2>1 DEF WizardSteps, BindingRow
  <2>3. OServe(w, <<step>>)
    BY <1>4, <2>1 DEF PostBinding
  <2> QED BY <2>2, <2>3, LoneWizard, WizardServed
<1>5. ASSUME NEW name \in Names, ApproveBinding(w, name) PROVE OInv'
  <2>1. PICK step : step = [do |-> "approve", key |-> name]
    OBVIOUS
  <2>2. step \in WizardSteps /\ step.do = "approve" /\ step.key \in DOMAIN bindings
    BY <1>5, <2>1 DEF WizardSteps, ApproveBinding
  <2>3. OServe(w, <<step>>)
    BY <1>5, <2>1 DEF ApproveBinding
  <2> QED BY <2>2, <2>3, LoneWizard, WizardServed
<1> QED BY <1>1, <1>2, <1>3, <1>4, <1>5 DEF OnboardingRequest, WizardRequest, BindingRequest, SourceRequest

LEMMA TemplateRequestsKeep ==
  ASSUME OInv, NEW w \in OWorkers, TemplateRequest(w)
  PROVE  OInv'
<1>1. PICK t \in TemplateIds :
        \/ DeleteTemplate(w, t) \/ ResetTemplate(w, t)
        \/ \E content \in Contents : CreateTemplate(w, t, content) \/ UpdateTemplate(w, t, content)
  BY DEF TemplateRequest, TemplateIds
<1>2. PICK step : step \in LoadSteps /\ OServe(w, <<step>>)
  <2>1. CASE DeleteTemplate(w, t) \/ ResetTemplate(w, t)
    BY <1>1, <2>1 DEF DeleteTemplate, ResetTemplate, Loads, LoadSteps
  <2>2. ASSUME NEW content \in Contents, CreateTemplate(w, t, content) \/ UpdateTemplate(w, t, content)
        PROVE  \E step : step \in LoadSteps /\ OServe(w, <<step>>)
    <3>1. content \in Sound
      BY <2>2 DEF CreateTemplate, UpdateTemplate, Sound
    <3> QED BY <1>1, <2>2, <3>1 DEF CreateTemplate, UpdateTemplate, Loads, LoadSteps
  <2> QED BY <1>1, <2>1, <2>2
<1>3. step \in WizardSteps /\ step.do = "loadTemplates"
  BY <1>2 DEF WizardSteps, LoadSteps
<1> QED BY <1>2, <1>3, LoneWizard, WizardServed

-----------------------------------------------------------------------------
(* Onboarding: the steps of a handler.                                     *)

LEMMA WizardHead ==
  ASSUME OInv, NEW w \in OWorkers, otodo[w] # <<>>
  PROVE  /\ otodo[w] \in Wizards /\ otodo[w] \in Seq(WizardSteps)
         /\ Ordered(otodo[w]) /\ Relies(otodo[w]) /\ Announces(otodo[w])
         /\ Len(otodo[w]) \in Nat /\ 1 \in 1..Len(otodo[w]) /\ Len(otodo[w]) > 0
         /\ Head(otodo[w]) = otodo[w][1] /\ otodo[w][1] \in WizardSteps
<1>1. PICK q : q = otodo[w]
  OBVIOUS
<1>2. q \in Wizards /\ q \in Seq(WizardSteps) /\ Ordered(q) /\ Relies(q) /\ Announces(q) /\ q # <<>>
  BY <1>1 DEF OInv, Wizards
<1>3. Len(q) \in Nat /\ 1 \in 1..Len(q) /\ Len(q) > 0 /\ Head(q) = q[1] /\ q[1] \in WizardSteps
  BY <1>2
<1> QED BY <1>1, <1>2, <1>3

\* The handler of w does its first step and puts others in its place.
WizardStep(w, q, new, r) ==
  /\ q = otodo[w] /\ q # <<>> /\ new \in Seq(WizardSteps) /\ r = new \o Tail(q)
  /\ otodo' = [otodo EXCEPT ![w] = r]
  /\ new = <<>> \/ q[1].do # "truncate"
  /\ Ordered(new)
  /\ \A i \in 1..Len(new) : /\ new[i].do \in {"truncate", "write", "replace", "binding"}
                            /\ new[i].do = "binding" => new[i].row.status = "approved"
  /\ DOMAIN bindings \subseteq DOMAIN bindings'
  /\ q[1].do = "binding" => q[1].key \in DOMAIN bindings'

Stepped(w, q, new, r) ==
  /\ otodo' \in [OWorkers -> Wizards'] /\ otodo'[w] = r
  /\ \A v \in OWorkers : v # w => otodo'[v] = otodo[v]
  /\ Len(r) = Len(new) + Len(q) - 1
  /\ \A i \in 1..Len(new) : r[i] = new[i]
  /\ \A i \in 2..Len(q) : r[Len(new) + i - 1] = q[i]
  /\ \A name : name \in Promised /\ ~Approving(q[1], name) => name \in Promised'
  /\ \A name \in Names : \A i \in 1..Len(r) : Approving(r[i], name) => name \in Promised'

LEMMA WizardMoves ==
  ASSUME OInv, NEW w \in OWorkers, NEW q, NEW new, NEW r, WizardStep(w, q, new, r)
  PROVE  Stepped(w, q, new, r)
<1>0. /\ q = otodo[w] /\ q # <<>> /\ new \in Seq(WizardSteps) /\ r = new \o Tail(q)
      /\ otodo' = [otodo EXCEPT ![w] = r]
      /\ new = <<>> \/ q[1].do # "truncate"
      /\ Ordered(new)
      /\ \A i \in 1..Len(new) : /\ new[i].do \in {"truncate", "write", "replace", "binding"}
                                /\ new[i].do = "binding" => new[i].row.status = "approved"
      /\ DOMAIN bindings \subseteq DOMAIN bindings'
      /\ q[1].do = "binding" => q[1].key \in DOMAIN bindings'
  BY DEF WizardStep
<1>1. q \in Wizards /\ q \in Seq(WizardSteps)
  BY <1>0, WizardHead
<1>2. /\ r \in Wizards'
      /\ \A name : \A i \in 1..Len(q) : Approving(q[i], name) =>
           i = 1 \/ \E j \in 1..Len(r) : Approving(r[j], name)
  BY <1>0, <1>1, WizardContinues
<1>3. /\ Len(r) = Len(new) + Len(q) - 1
      /\ \A i \in 1..Len(new) : r[i] = new[i]
      /\ \A i \in 2..Len(q) : r[Len(new) + i - 1] = q[i]
  BY <1>0, <1>1, Continued
<1>4. /\ otodo' \in [OWorkers -> Wizards'] /\ otodo'[w] = r
      /\ \A v \in OWorkers : v # w => otodo'[v] = otodo[v]
  BY <1>0, <1>2, OneMoves
<1>5. ASSUME NEW name, name \in Promised, ~Approving(q[1], name) PROVE name \in Promised'
  <2>1. \A i \in 1..Len(otodo[w]) : Approving(otodo[w][i], name) => \E j \in 1..Len(r) : Approving(r[j], name)
    BY <1>0, <1>2, <1>5
  <2> QED BY <1>4, <1>5, <2>1, PromisesKept
<1>6. ASSUME NEW name \in Names, NEW i \in 1..Len(r), Approving(r[i], name) PROVE name \in Promised'
  BY <1>4, <1>6 DEF Promised, Approving
<1> QED BY <1>3, <1>4, <1>5, <1>6 DEF Stepped

LEMMA WizardPops ==
  ASSUME OInv, NEW w \in OWorkers, NEW q, q = otodo[w], q # <<>>, NEW r,
         r = Tail(q), otodo' = [otodo EXCEPT ![w] = r],
         DOMAIN bindings \subseteq DOMAIN bindings',
         q[1].do = "binding" => q[1].key \in DOMAIN bindings'
  PROVE  Stepped(w, q, <<>>, r)
<1>1. q \in Seq(WizardSteps) /\ Len(q) \in Nat
  BY WizardHead
<1>2. <<>> \in Seq(WizardSteps) /\ Len(<<>>) = 0 /\ r = <<>> \o Tail(q) /\ Ordered(<<>>)
  BY <1>1 DEF Ordered
<1>3. WizardStep(w, q, <<>>, r)
  BY <1>2 DEF WizardStep
<1> QED BY <1>3, WizardMoves

\* A handler that ends.
LEMMA WizardEnds ==
  ASSUME OInv, NEW w \in OWorkers, otodo' = [otodo EXCEPT ![w] = <<>>], UNCHANGED bindings
  PROVE  /\ otodo' \in [OWorkers -> Wizards'] /\ otodo'[w] = <<>>
         /\ \A v \in OWorkers : v # w => otodo'[v] = otodo[v]
<1>1. <<>> \in Wizards
  BY DEF Wizards, Ordered, Relies, Announces
<1>2. <<>> \in Wizards'
  BY <1>1, WizardsGrow
<1> QED BY <1>2, OneMoves

LEMMA TailContinues ==
  ASSUME NEW S, NEW q \in Seq(S), q # <<>>
  PROVE  Tail(q) = <<>> \o Tail(q) /\ <<>> \in Seq(S) /\ Len(<<>>) = 0
OBVIOUS

LEMMA TemplatesApply ==
  ASSUME NEW file \in TemplateFiles, NEW by \in LoadSteps
  PROVE  Applied(by.op, by.id, by.content, file) \in TemplateFiles
<1>1. PICK ids \in SUBSET TemplateIds : file \in [ids -> Sound]
  BY DEF TemplateFiles
<1>2. by.id \in TemplateIds
  BY DEF LoadSteps
<1>3. CASE by.op \in {"create", "update"}
  <2>1. by.content \in Sound
    BY <1>3 DEF LoadSteps
  <2>2. Applied(by.op, by.id, by.content, file) = OPut(file, by.id, by.content)
    BY <1>3 DEF Applied
  <2>3. OPut(file, by.id, by.content) \in [ids \cup {by.id} -> Sound]
    BY <1>1, <2>1 DEF OPut
  <2>4. ids \cup {by.id} \in SUBSET TemplateIds
    BY <1>1, <1>2
  <2> QED BY <2>2, <2>3, <2>4 DEF TemplateFiles
<1>4. CASE by.op \notin {"create", "update"}
  <2>1. Applied(by.op, by.id, by.content, file) = ODrop(file, by.id)
    BY <1>4 DEF Applied
  <2>2. ODrop(file, by.id) \in [ids \ {by.id} -> Sound]
    BY <1>1 DEF ODrop
  <2>3. ids \ {by.id} \in SUBSET TemplateIds
    BY <1>1
  <2> QED BY <2>1, <2>2, <2>3 DEF TemplateFiles
<1> QED BY <1>3, <1>4

LEMMA BindingStepsKeep ==
  ASSUME OInv, NEW w \in OWorkers, PutSession(w) \/ PutBinding(w) \/ PutPosted(w) \/ ReadToApprove(w)
  PROVE  OInv'
<1>0. otodo[w] # <<>>
  BY DEF PutSession, PutBinding, PutPosted, ReadToApprove, ODoes
<1>1. PICK q, s : q = otodo[w] /\ s = q[1]
  OBVIOUS
<1>2. /\ q \in Wizards /\ q \in Seq(WizardSteps) /\ q # <<>> /\ s \in WizardSteps /\ Head(q) = s
      /\ Relies(q) /\ Announces(q) /\ Len(q) \in Nat /\ 1 \in 1..Len(q)
  BY <1>0, <1>1, WizardHead
<1>3. PICK r : r = Tail(q)
  OBVIOUS
<1>4. Len(q) > 1 => r[1] = q[2] /\ 2 \in 1..Len(q)
  BY <1>2, <1>3
<1>5. ORowsOK /\ BindingsSafe
  BY DEF OInv
<1>6. CASE PutSession(w)
  <2>1. /\ s.do = "session" /\ otodo' = [otodo EXCEPT ![w] = r]
        /\ sessions' = OPut(sessions, s.key, s.row)
        /\ UNCHANGED <<bindings, posted, sources, templates, saved, kept, torn, sourceLock, templateLock, odeaths>>
    BY <1>1, <1>2, <1>3, <1>6 DEF PutSession, ODoes, olocks
  <2>2. s.key \in Sessions /\ s.row \in SessionRow
    BY <1>2, <2>1 DEF WizardSteps, LoadSteps
  <2>3. s.row.status = "connected" => s.row.source[2] \in DOMAIN bindings
    BY <1>1, <1>2, <2>1 DEF Relies, Bound
  <2>4. /\ otodo' \in [OWorkers -> Wizards'] /\ otodo'[w] = r
        /\ \A v \in OWorkers : v # w => otodo'[v] = otodo[v]
        /\ Len(r) = Len(q) - 1
        /\ \A name : name \in Promised /\ ~Approving(s, name) => name \in Promised'
    <3>1. Stepped(w, q, <<>>, r)
      BY <1>1, <1>2, <1>3, <2>1, WizardPops
    <3> QED BY <1>1, <1>2, <3>1 DEF Stepped
  <2>5. \A name : name \in Promised => name \in Promised'
    BY <2>1, <2>4 DEF Approving
  <2>6. ORowsOK'
    BY <1>5, <2>1, <2>2 DEF ORowsOK, OPut
  <2>7. BindingsSafe'
    BY <1>5, <2>1, <2>3, <2>5 DEF BindingsSafe, OPut
  <2>8. ~First(otodo[w], {"truncate", "write", "replace"}) /\ ~First(otodo'[w], {"truncate", "write", "replace"})
    <3>1. Len(q) > 1 => r[1].do \notin {"truncate", "write", "replace"}
      BY <1>1, <1>2, <1>4, <2>1 DEF Wizards, Ordered
    <3> QED BY <1>1, <1>2, <2>1, <2>4, <3>1 DEF First
  <2>9. FilesSafe'
    BY <2>1, <2>4, <2>8, FilesUndisturbed
  <2> QED BY <2>4, <2>6, <2>7, <2>9 DEF OInv
<1>7. CASE PutBinding(w) \/ PutPosted(w)
  <2>1. /\ s.do \in {"binding", "post"} /\ otodo' = [otodo EXCEPT ![w] = r]
        /\ bindings' = OPut(bindings, s.key, s.row)
        /\ posted' = IF s.do = "post" THEN posted \cup {s.key} ELSE posted \ {s.key}
        /\ UNCHANGED <<sessions, sources, templates, saved, kept, torn, sourceLock, templateLock, odeaths>>
    BY <1>1, <1>2, <1>3, <1>7 DEF PutBinding, PutPosted, ODoes, olocks
  <2>2. s.key \in Names /\ s.row \in BindingRow
    BY <1>2, <2>1 DEF WizardSteps, LoadSteps
  <2>3. /\ DOMAIN bindings' = DOMAIN bindings \cup {s.key}
        /\ \A n \in DOMAIN bindings' : bindings'[n] = IF n = s.key THEN s.row ELSE bindings[n]
    BY <2>1 DEF OPut
  <2>4. /\ otodo' \in [OWorkers -> Wizards'] /\ otodo'[w] = r
        /\ \A v \in OWorkers : v # w => otodo'[v] = otodo[v]
        /\ Len(r) = Len(q) - 1
        /\ \A i \in 2..Len(q) : r[i - 1] = q[i]
        /\ \A name : name \in Promised /\ ~Approving(s, name) => name \in Promised'
        /\ \A name \in Names : \A i \in 1..Len(r) : Approving(r[i], name) => name \in Promised'
    <3>1. Stepped(w, q, <<>>, r)
      BY <1>1, <1>2, <1>3, <2>1, <2>3, WizardPops
    <3> QED BY <1>1, <1>2, <3>1 DEF Stepped
  <2>5. s.row.status = "draft" => s.key \in Promised' \/ s.key \in posted'
    <3>1. ASSUME s.do = "binding", s.row.status = "draft" PROVE s.key \in Promised'
      <4>1. PICK j \in 2..Len(q) : q[j].do = "approve" /\ q[j].key = s.key
        BY <1>1, <1>2, <2>1, <3>1 DEF Announces
      <4>2. j - 1 \in 1..Len(r) /\ r[j - 1] = q[j]
        BY <1>2, <2>4
      <4> QED BY <2>2, <2>4, <4>1, <4>2 DEF Approving
    <3> QED BY <2>1, <3>1
  <2>6. ORowsOK'
    BY <1>5, <2>1, <2>2, <2>3 DEF ORowsOK
  <2>7. BindingsSafe'
    <3>1. \A name : name # s.key /\ name \in Promised => name \in Promised'
      BY <2>1, <2>4 DEF Approving
    <3>2. s.row.status \in {"draft", "approved"}
      BY <2>2 DEF BindingRow
    <3> QED BY <1>5, <2>1, <2>3, <2>5, <3>1, <3>2 DEF BindingsSafe
  <2>8. ~First(otodo[w], {"truncate", "write", "replace"}) /\ ~First(otodo'[w], {"truncate", "write", "replace"})
    <3>1. Len(q) > 1 => r[1].do \notin {"truncate", "write", "replace"}
      BY <1>1, <1>2, <1>4, <2>1 DEF Wizards, Ordered
    <3> QED BY <1>1, <1>2, <2>1, <2>4, <3>1 DEF First
  <2>9. FilesSafe'
    BY <2>1, <2>4, <2>8, FilesUndisturbed
  <2> QED BY <2>4, <2>6, <2>7, <2>9 DEF OInv
<1>8. CASE ReadToApprove(w)
  <2>1. PICK step : step = [do |-> "binding", key |-> s.key, row |-> [bindings[s.key] EXCEPT !.status = "approved"]]
    OBVIOUS
  <2>2. /\ s.do = "approve" /\ otodo' = [otodo EXCEPT ![w] = <<step>> \o Tail(q)]
        /\ UNCHANGED <<sessions, bindings, posted, sources, templates, saved, kept, torn, sourceLock, templateLock, odeaths>>
    BY <1>1, <1>2, <1>8, <2>1 DEF ReadToApprove, ostores, olocks
  <2>3. s.key \in DOMAIN bindings
    BY <1>1, <1>2, <2>2 DEF Relies, Bound
  <2>4. step \in WizardSteps /\ step.do = "binding" /\ step.key = s.key /\ step.row.status = "approved"
    BY <1>5, <2>1, <2>3 DEF WizardSteps, ORowsOK, BindingRow
  <2>5. /\ <<step>> \in Seq(WizardSteps) /\ Len(<<step>>) = 1 /\ <<step>>[1] = step
        /\ \A i \in 1..Len(<<step>>) : <<step>>[i] = step
    BY <2>4
  <2>6. Ordered(<<step>>)
    BY <2>4, <2>5 DEF Ordered
  <2>7. PICK new, t : new = <<step>> /\ t = new \o Tail(q)
    OBVIOUS
  <2>8. /\ otodo' \in [OWorkers -> Wizards'] /\ otodo'[w] = t
        /\ \A v \in OWorkers : v # w => otodo'[v] = otodo[v]
        /\ Len(t) = Len(new) + Len(q) - 1 /\ \A i \in 1..Len(new) : t[i] = new[i]
        /\ \A name : name \in Promised /\ ~Approving(s, name) => name \in Promised'
        /\ \A name \in Names : \A i \in 1..Len(t) : Approving(t[i], name) => name \in Promised'
    <3>1. /\ new \in Seq(WizardSteps) /\ Ordered(new) /\ (new = <<>> \/ q[1].do # "truncate")
          /\ \A i \in 1..Len(new) : /\ new[i].do \in {"truncate", "write", "replace", "binding"}
                                    /\ new[i].do = "binding" => new[i].row.status = "approved"
      BY <1>1, <2>2, <2>4, <2>5, <2>6, <2>7
    <3>2. otodo' = [otodo EXCEPT ![w] = t] /\ q = otodo[w] /\ q # <<>> /\ s = q[1]
      BY <1>1, <1>2, <2>2, <2>7
    <3>3. DOMAIN bindings \subseteq DOMAIN bindings' /\ (q[1].do = "binding" => q[1].key \in DOMAIN bindings')
      BY <2>2, <3>2
    <3>4. WizardStep(w, q, new, t)
      BY <2>7, <3>1, <3>2, <3>3 DEF WizardStep
    <3>5. Stepped(w, q, new, t)
      BY <3>4, WizardMoves
    <3> QED BY <3>2, <3>5 DEF Stepped
  <2>9. t[1] = step /\ 1 \in 1..Len(t)
    BY <1>2, <2>5, <2>7, <2>8
  <2>10. \A name : name \in Promised => name \in Promised'
    <3>1. s.key \in Promised'
      BY <1>2, <2>2, <2>4, <2>8, <2>9 DEF Approving, WizardSteps, LoadSteps
    <3> QED BY <2>2, <2>8, <3>1 DEF Approving
  <2>11. ORowsOK' /\ BindingsSafe'
    BY <1>5, <2>2, <2>10 DEF ORowsOK, BindingsSafe
  <2>12. ~First(otodo[w], {"truncate", "write", "replace"}) /\ ~First(otodo'[w], {"truncate", "write", "replace"})
    BY <1>1, <2>2, <2>4, <2>8, <2>9 DEF First
  <2>13. FilesSafe'
    BY <2>2, <2>8, <2>12, FilesUndisturbed
  <2> QED BY <2>8, <2>11, <2>13 DEF OInv
<1> QED BY <1>6, <1>7, <1>8

\* Steps on files write no session and no binding.
LEMMA BindingsUndisturbed ==
  ASSUME OInv, UNCHANGED <<sessions, bindings, posted, odeaths>>, \A name : name \in Promised => name \in Promised'
  PROVE  BindingsSafe'
BY DEF OInv, BindingsSafe

LEMMA SourceStepsKeep ==
  ASSUME OInv, NEW w \in OWorkers, LoadSources(w) \/ TruncateSources(w) \/ WriteSources(w)
  PROVE  OInv'
<1>0. otodo[w] # <<>> /\ Unlocked \notin OWorkers
  BY OAssumption DEF LoadSources, TruncateSources, WriteSources, ODoes
<1>1. PICK q, s, r : q = otodo[w] /\ s = q[1] /\ r = Tail(q)
  OBVIOUS
<1>2. /\ q \in Wizards /\ q \in Seq(WizardSteps) /\ q # <<>> /\ s \in WizardSteps /\ Head(q) = s
      /\ Ordered(q) /\ Len(q) \in Nat /\ 1 \in 1..Len(q) /\ Len(q) > 0
  BY <1>0, <1>1, WizardHead
<1>3. ORowsOK /\ FilesSafe
  BY DEF OInv
<1>4. Len(q) > 1 => r[1] = q[2] /\ 2 \in 1..Len(q)
  BY <1>1, <1>2
<1>5. CASE LoadSources(w)
  <2>1. /\ s.do = "loadSources" /\ sourceLock = Unlocked
        /\ UNCHANGED <<sessions, bindings, posted, sources, templates, saved, kept, torn, templateLock, odeaths>>
    BY <1>1, <1>2, <1>5 DEF LoadSources, ostores
  <2>2. s.id \in SourceIds /\ s.add \in BOOLEAN
    BY <1>2, <2>1 DEF WizardSteps, LoadSteps
  <2>3. PICK loaded : loaded = IF sources.whole THEN sources.rows ELSE {}
    OBVIOUS
  <2>4. PICK rows : rows = IF s.add THEN loaded \cup {s.id} ELSE loaded \ {s.id}
    OBVIOUS
  <2>5. rows \in SUBSET SourceIds
    BY <1>3, <2>2, <2>3, <2>4 DEF ORowsOK
  <2>6. \A v \in OWorkers : ~First(otodo[v], {"truncate", "write"}) /\ ~First(otodo[v], {"write"})
                              /\ ~First(otodo[v], {"truncate"})
    BY <1>0, <1>3, <2>1 DEF FilesSafe, First
  <2>7. CASE s.add \/ s.id \in loaded
    <3>1. PICK a, b : a = [do |-> "truncate"] /\ b = [do |-> "write", rows |-> rows, id |-> s.id, add |-> s.add]
      OBVIOUS
    <3>2. PICK new, t : new = <<a, b>> /\ t = new \o Tail(q)
      OBVIOUS
    <3>3. sourceLock' = w /\ otodo' = [otodo EXCEPT ![w] = t]
      BY <1>1, <1>2, <1>5, <2>3, <2>4, <2>7, <3>1, <3>2, ZenonT(40) DEF LoadSources
    <3>4. a \in WizardSteps /\ b \in WizardSteps /\ a.do = "truncate" /\ b.do = "write"
      BY <2>2, <2>5, <3>1 DEF WizardSteps
    <3>5. new \in Seq(WizardSteps) /\ Len(new) = 2 /\ new[1] = a /\ new[2] = b
      BY <3>2, <3>4
    <3>6. \A i \in 1..Len(new) : i \in {1, 2}
      BY <3>5
    <3>7. WizardStep(w, q, new, t)
      <4>1. Ordered(new)
        BY <3>4, <3>5, <3>6 DEF Ordered
      <4>2. \A i \in 1..Len(new) : new[i].do \in {"truncate", "write"}
        BY <3>4, <3>5, <3>6
      <4>3. q[1].do = "loadSources" /\ bindings' = bindings
        BY <1>1, <2>1
      <4> QED BY <1>1, <1>2, <3>2, <3>3, <3>5, <4>1, <4>2, <4>3 DEF WizardStep
    <3>8. Stepped(w, q, new, t)
      BY <3>7, WizardMoves
    <3>9. /\ otodo' \in [OWorkers -> Wizards'] /\ otodo'[w] = t /\ t[1] = a /\ t[2] = b /\ Len(t) > 0
          /\ \A v \in OWorkers : v # w => otodo'[v] = otodo[v]
      BY <1>2, <3>5, <3>8 DEF Stepped
    <3>10. BindingsSafe'
      <4>1. \A name : ~Approving(q[1], name)
        BY <1>1, <2>1 DEF Approving
      <4> QED BY <2>1, <3>8, <4>1, BindingsUndisturbed DEF Stepped
    <3>11. ORowsOK'
      BY <1>3, <2>1, <3>3 DEF ORowsOK
    <3>12. ~torn => sources.whole /\ b.rows = Intended(b)
      BY <1>3, <2>3, <2>4, <2>6, <3>1 DEF FilesSafe, Intended
    <3>13. \A v \in OWorkers : First(otodo'[v], {"truncate", "write"}) <=> v = w
      BY <2>6, <3>4, <3>9 DEF First
    <3>14. \A v \in OWorkers : /\ ~First(otodo'[v], {"write"})
                               /\ First(otodo'[v], {"truncate"}) => v = w
      BY <2>6, <3>4, <3>9 DEF First
    <3>15. \A v \in OWorkers : /\ First(otodo'[v], {"replace"}) <=> First(otodo[v], {"replace"})
                               /\ First(otodo'[v], {"replace"}) => otodo'[v] = otodo[v]
      BY <1>1, <2>1, <3>4, <3>9 DEF First
    <3>16. FilesSafe'
      BY <1>0, <1>3, <2>1, <3>3, <3>9, <3>12, <3>13, <3>14, <3>15 DEF FilesSafe, Intended
    <3> QED BY <3>9, <3>10, <3>11, <3>16 DEF OInv
  <2>8. CASE ~(s.add \/ s.id \in loaded)
    <3>1. otodo' = [otodo EXCEPT ![w] = <<>>] /\ UNCHANGED sourceLock
      BY <1>1, <1>2, <1>5, <2>3, <2>4, <2>8 DEF LoadSources
    <3>2. Len(q) = 1
      BY <1>1, <1>2, <2>1, <2>8 DEF Ordered
    <3>3. /\ otodo' \in [OWorkers -> Wizards'] /\ otodo'[w] = <<>>
          /\ \A v \in OWorkers : v # w => otodo'[v] = otodo[v]
      BY <2>1, <3>1, WizardEnds
    <3>4. \A i \in 1..Len(otodo[w]) : \A name : ~Approving(otodo[w][i], name)
      BY <1>1, <2>1, <3>2 DEF Approving
    <3>5. \A name : name \in Promised => name \in Promised'
      BY <3>3, <3>4, PromisesKept
    <3>6. BindingsSafe'
      BY <2>1, <3>5, BindingsUndisturbed
    <3>7. ~First(otodo[w], {"truncate", "write", "replace"}) /\ ~First(otodo'[w], {"truncate", "write", "replace"})
      BY <1>1, <2>1, <3>3 DEF First
    <3>8. FilesSafe' /\ ORowsOK'
      BY <1>3, <2>1, <3>1, <3>3, <3>7, FilesUndisturbed DEF ORowsOK
    <3> QED BY <3>3, <3>6, <3>8 DEF OInv
  <2> QED BY <2>7, <2>8
<1>6. ASSUME s.do \in {"truncate", "write"}, otodo' = [otodo EXCEPT ![w] = r], UNCHANGED <<sessions, bindings, posted, odeaths>>
      PROVE  /\ otodo' \in [OWorkers -> Wizards'] /\ otodo'[w] = r
             /\ \A v \in OWorkers : v # w => otodo'[v] = otodo[v]
             /\ Len(r) = Len(q) - 1
             /\ BindingsSafe'
             /\ sourceLock = w
             /\ \A v \in OWorkers : v # w => ~First(otodo[v], {"truncate", "write"})
                                               /\ ~First(otodo[v], {"truncate"}) /\ ~First(otodo[v], {"write"})
             /\ \A v \in OWorkers : First(otodo[v], {"replace"}) => v # w
  <2>1. Stepped(w, q, <<>>, r)
    BY <1>1, <1>2, <1>6, WizardPops
  <2>2. \A name : ~Approving(q[1], name)
    BY <1>1, <1>6 DEF Approving
  <2>3. BindingsSafe'
    BY <1>6, <2>1, <2>2, BindingsUndisturbed DEF Stepped
  <2>4. sourceLock = w
    BY <1>1, <1>2, <1>3, <1>6 DEF FilesSafe, First
  <2>5. \A v \in OWorkers : v # w => ~First(otodo[v], {"truncate", "write"})
    BY <1>3, <2>4 DEF FilesSafe
  <2>6. \A v \in OWorkers : v # w => ~First(otodo[v], {"truncate"}) /\ ~First(otodo[v], {"write"})
    BY <2>5 DEF First
  <2>7. \A v \in OWorkers : First(otodo[v], {"replace"}) => v # w
    BY <1>1, <1>6 DEF First
  <2> QED BY <1>2, <2>1, <2>3, <2>4, <2>5, <2>6, <2>7 DEF Stepped
<1>7. CASE TruncateSources(w)
  <2>1. /\ s.do = "truncate" /\ otodo' = [otodo EXCEPT ![w] = r]
        /\ sources' = [whole |-> FALSE, rows |-> {}]
        /\ UNCHANGED <<sessions, bindings, posted, templates, saved, kept, torn, sourceLock, templateLock, odeaths>>
    BY <1>1, <1>2, <1>7 DEF TruncateSources, ODoes, olocks
  <2>2. /\ otodo' \in [OWorkers -> Wizards'] /\ otodo'[w] = r
        /\ \A v \in OWorkers : v # w => otodo'[v] = otodo[v]
        /\ Len(r) = Len(q) - 1
        /\ BindingsSafe'
        /\ sourceLock = w
        /\ \A v \in OWorkers : v # w => ~First(otodo[v], {"truncate", "write"})
                                          /\ ~First(otodo[v], {"truncate"}) /\ ~First(otodo[v], {"write"})
        /\ \A v \in OWorkers : First(otodo[v], {"replace"}) => v # w
    BY <1>6, <2>1
  <2>3. Len(q) > 1 /\ q[2].do = "write"
    BY <1>1, <1>2, <2>1 DEF Ordered
  <2>4. Len(r) > 0 /\ r[1] = q[2] /\ r[1].do = "write"
    BY <1>2, <1>4, <2>2, <2>3
  <2>5. ~torn => q[2].rows = Intended(q[2])
    BY <1>1, <1>2, <1>3, <2>1 DEF FilesSafe, First
  <2>6. ORowsOK'
    BY <1>3, <2>1 DEF ORowsOK
  <2>7. \A v \in OWorkers : /\ First(otodo'[v], {"truncate", "write"}) <=> v = w
                            /\ First(otodo'[v], {"write"}) <=> v = w
                            /\ ~First(otodo'[v], {"truncate"})
    BY <2>2, <2>4 DEF First
  <2>8. \A v \in OWorkers : /\ First(otodo'[v], {"replace"}) <=> First(otodo[v], {"replace"})
                            /\ First(otodo'[v], {"replace"}) => otodo'[v] = otodo[v]
    BY <2>2, <2>4 DEF First
  <2>9. FilesSafe'
    BY <1>3, <2>1, <2>2, <2>4, <2>5, <2>7, <2>8 DEF FilesSafe, Intended
  <2> QED BY <2>2, <2>6, <2>9 DEF OInv
<1>8. CASE WriteSources(w)
  <2>1. /\ s.do = "write" /\ otodo' = [otodo EXCEPT ![w] = r]
        /\ sources' = [whole |-> TRUE, rows |-> s.rows] /\ saved' = Intended(s) /\ sourceLock' = Unlocked
        /\ UNCHANGED <<sessions, bindings, posted, templates, kept, torn, templateLock, odeaths>>
    BY <1>1, <1>2, <1>8 DEF WriteSources, ODoes, Intended
  <2>2. /\ otodo' \in [OWorkers -> Wizards'] /\ otodo'[w] = r
        /\ \A v \in OWorkers : v # w => otodo'[v] = otodo[v]
        /\ Len(r) = Len(q) - 1
        /\ BindingsSafe'
        /\ sourceLock = w
        /\ \A v \in OWorkers : v # w => ~First(otodo[v], {"truncate", "write"})
                                          /\ ~First(otodo[v], {"truncate"}) /\ ~First(otodo[v], {"write"})
        /\ \A v \in OWorkers : First(otodo[v], {"replace"}) => v # w
    BY <1>6, <2>1
  <2>3. Len(r) > 0 => r[1].do \notin {"truncate", "write", "replace"}
    <3>1. ASSUME Len(q) > 1 PROVE q[2].do \notin {"truncate", "write", "replace"}
      BY <1>1, <1>2, <1>4, <2>1, <3>1 DEF Ordered
    <3> QED BY <1>2, <1>4, <2>2, <3>1
  <2>4. s.rows \in SUBSET SourceIds
    BY <1>2, <2>1 DEF WizardSteps, LoadSteps
  <2>5. ~torn => s.rows = Intended(s)
    BY <1>1, <1>2, <1>3, <2>1 DEF FilesSafe, First
  <2>6. ORowsOK'
    BY <1>3, <2>1, <2>4 DEF ORowsOK
  <2>7. \A v \in OWorkers : /\ ~First(otodo'[v], {"truncate", "write"})
                            /\ ~First(otodo'[v], {"write"}) /\ ~First(otodo'[v], {"truncate"})
    BY <2>2, <2>3 DEF First
  <2>8. \A v \in OWorkers : /\ First(otodo'[v], {"replace"}) <=> First(otodo[v], {"replace"})
                            /\ First(otodo'[v], {"replace"}) => otodo'[v] = otodo[v]
    BY <2>2, <2>3 DEF First
  <2>9. FilesSafe'
    BY <1>0, <1>3, <2>1, <2>2, <2>5, <2>7, <2>8 DEF FilesSafe
  <2> QED BY <2>2, <2>6, <2>9 DEF OInv
<1> QED BY <1>5, <1>7, <1>8

LEMMA TemplateStepsKeep ==
  ASSUME OInv, NEW w \in OWorkers, LoadTemplates(w) \/ ReplaceTemplates(w)
  PROVE  OInv'
<1>0. otodo[w] # <<>> /\ Unlocked \notin OWorkers
  BY OAssumption DEF LoadTemplates, ReplaceTemplates, ODoes
<1>1. PICK q, s, r : q = otodo[w] /\ s = q[1] /\ r = Tail(q)
  OBVIOUS
<1>2. /\ q \in Wizards /\ q \in Seq(WizardSteps) /\ q # <<>> /\ s \in WizardSteps /\ Head(q) = s
      /\ Ordered(q) /\ Len(q) \in Nat /\ 1 \in 1..Len(q) /\ Len(q) > 0
  BY <1>0, <1>1, WizardHead
<1>3. ORowsOK /\ FilesSafe
  BY DEF OInv
<1>4. CASE LoadTemplates(w)
  <2>1. /\ s.do = "loadTemplates" /\ templateLock = Unlocked
        /\ UNCHANGED <<sessions, bindings, posted, sources, templates, saved, kept, torn, sourceLock, odeaths>>
    BY <1>1, <1>2, <1>4 DEF LoadTemplates, ostores
  <2>2. s \in LoadSteps /\ Len(q) = 1
    BY <1>1, <1>2, <2>1 DEF WizardSteps, Ordered
  <2>3. \A name : ~Approving(q[1], name)
    BY <1>1, <2>1 DEF Approving
  <2>4. CASE MayApply(s.op, s.id, templates)
    <3>1. PICK a : a = [do |-> "replace", file |-> Applied(s.op, s.id, s.content, templates), by |-> s]
      OBVIOUS
    <3>2. PICK new, t : new = <<a>> /\ t = new \o Tail(q)
      OBVIOUS
    <3>3. templateLock' = w /\ otodo' = [otodo EXCEPT ![w] = t]
      BY <1>1, <1>2, <1>4, <2>4, <3>1, <3>2 DEF LoadTemplates
    <3>4. Applied(s.op, s.id, s.content, templates) \in TemplateFiles
      BY <1>3, <2>2, TemplatesApply DEF ORowsOK
    <3>5. /\ a \in WizardSteps /\ a.do = "replace"
          /\ a.file = Applied(a.by.op, a.by.id, a.by.content, kept)
      BY <1>3, <2>2, <3>1, <3>4 DEF WizardSteps, FilesSafe
    <3>6. new \in Seq(WizardSteps) /\ Len(new) = 1 /\ new[1] = a /\ \A i \in 1..Len(new) : i = 1
      BY <3>2, <3>5
    <3>7. WizardStep(w, q, new, t)
      <4>1. Ordered(new)
        BY <3>5, <3>6 DEF Ordered
      <4> QED BY <1>1, <1>2, <2>1, <3>2, <3>3, <3>5, <3>6, <4>1 DEF WizardStep
    <3>8. Stepped(w, q, new, t)
      BY <3>7, WizardMoves
    <3>9. /\ otodo' \in [OWorkers -> Wizards'] /\ otodo'[w] = t /\ t[1] = a /\ Len(t) > 0
          /\ \A v \in OWorkers : v # w => otodo'[v] = otodo[v]
      BY <1>2, <3>6, <3>8 DEF Stepped
    <3>10. BindingsSafe'
      BY <2>1, <2>3, <3>8, BindingsUndisturbed DEF Stepped
    <3>11. ORowsOK'
      BY <1>3, <2>1, <3>3 DEF ORowsOK
    <3>12. \A v \in OWorkers : ~First(otodo[v], {"replace"})
      BY <1>0, <1>3, <2>1 DEF FilesSafe
    <3>13. \A v \in OWorkers : First(otodo'[v], {"replace"}) <=> v = w
      BY <3>5, <3>9, <3>12 DEF First
    <3>14. ~First(otodo[w], {"truncate", "write"}) /\ ~First(otodo[w], {"truncate"}) /\ ~First(otodo[w], {"write"})
           /\ ~First(otodo'[w], {"truncate", "write"}) /\ ~First(otodo'[w], {"truncate"})
           /\ ~First(otodo'[w], {"write"})
      BY <1>1, <2>1, <3>5, <3>9 DEF First
    <3>15. FilesSafe'
      BY <1>0, <1>3, <2>1, <3>3, <3>5, <3>9, <3>13, <3>14 DEF FilesSafe, Intended
    <3> QED BY <3>9, <3>10, <3>11, <3>15 DEF OInv
  <2>5. CASE ~MayApply(s.op, s.id, templates)
    <3>1. otodo' = [otodo EXCEPT ![w] = <<>>] /\ UNCHANGED templateLock
      BY <1>1, <1>2, <1>4, <2>5 DEF LoadTemplates
    <3>2. /\ otodo' \in [OWorkers -> Wizards'] /\ otodo'[w] = <<>>
          /\ \A v \in OWorkers : v # w => otodo'[v] = otodo[v]
      BY <2>1, <3>1, WizardEnds
    <3>3. \A i \in 1..Len(otodo[w]) : \A name : ~Approving(otodo[w][i], name)
      BY <1>1, <2>2, <2>3
    <3>4. \A name : name \in Promised => name \in Promised'
      BY <3>2, <3>3, PromisesKept
    <3>5. BindingsSafe'
      BY <2>1, <3>4, BindingsUndisturbed
    <3>6. ~First(otodo[w], {"truncate", "write", "replace"}) /\ ~First(otodo'[w], {"truncate", "write", "replace"})
      BY <1>1, <2>1, <3>2 DEF First
    <3>7. FilesSafe' /\ ORowsOK'
      BY <1>3, <2>1, <3>1, <3>2, <3>6, FilesUndisturbed DEF ORowsOK
    <3> QED BY <3>2, <3>5, <3>7 DEF OInv
  <2> QED BY <2>4, <2>5
<1>5. CASE ReplaceTemplates(w)
  <2>1. /\ s.do = "replace" /\ otodo' = [otodo EXCEPT ![w] = r]
        /\ templates' = s.file /\ kept' = Applied(s.by.op, s.by.id, s.by.content, kept) /\ templateLock' = Unlocked
        /\ UNCHANGED <<sessions, bindings, posted, sources, saved, torn, sourceLock, odeaths>>
    BY <1>1, <1>2, <1>5 DEF ReplaceTemplates, ODoes
  <2>2. Stepped(w, q, <<>>, r)
    BY <1>1, <1>2, <2>1, WizardPops
  <2>3. /\ otodo' \in [OWorkers -> Wizards'] /\ otodo'[w] = r /\ Len(r) = Len(q) - 1
        /\ \A v \in OWorkers : v # w => otodo'[v] = otodo[v]
    BY <1>2, <2>2 DEF Stepped
  <2>4. \A name : ~Approving(q[1], name)
    BY <1>1, <2>1 DEF Approving
  <2>5. BindingsSafe'
    BY <2>1, <2>2, <2>4, BindingsUndisturbed DEF Stepped
  <2>6. s.file \in TemplateFiles
    BY <1>2, <2>1 DEF WizardSteps, LoadSteps
  <2>7. ORowsOK'
    BY <1>3, <2>1, <2>6 DEF ORowsOK
  <2>8. templateLock = w /\ s.file = Applied(s.by.op, s.by.id, s.by.content, kept)
    BY <1>1, <1>2, <1>3, <2>1 DEF FilesSafe, First
  <2>9. Len(r) > 0 => r[1].do \notin {"truncate", "write", "replace"}
    <3>1. Len(q) > 1 => r[1] = q[2] /\ 2 \in 1..Len(q)
      BY <1>1, <1>2
    <3>2. ASSUME Len(q) > 1 PROVE q[2].do \notin {"truncate", "write", "replace"}
      BY <1>1, <1>2, <2>1, <3>1, <3>2 DEF Ordered
    <3> QED BY <1>2, <2>3, <3>1, <3>2
  <2>10. \A v \in OWorkers : ~First(otodo'[v], {"replace"})
    BY <1>3, <2>3, <2>8, <2>9 DEF First, FilesSafe
  <2>11. ~First(otodo[w], {"truncate", "write"}) /\ ~First(otodo[w], {"truncate"}) /\ ~First(otodo[w], {"write"})
         /\ ~First(otodo'[w], {"truncate", "write"}) /\ ~First(otodo'[w], {"truncate"})
         /\ ~First(otodo'[w], {"write"})
    BY <1>1, <2>1, <2>3, <2>9 DEF First
  <2>12. FilesSafe'
    BY <1>0, <1>3, <2>1, <2>3, <2>8, <2>10, <2>11 DEF FilesSafe, Intended
  <2> QED BY <2>3, <2>5, <2>7, <2>12 DEF OInv
<1> QED BY <1>4, <1>5

LEMMA OFailureKeeps ==
  ASSUME OInv, NEW w \in OWorkers, FailOHandler(w)
  PROVE  OInv'
<1>1. /\ otodo' = [otodo EXCEPT ![w] = <<>>] /\ odeaths' = odeaths + 1
      /\ torn' = (torn \/ (sourceLock = w /\ ~sources.whole))
      /\ sourceLock' = IF sourceLock = w THEN Unlocked ELSE sourceLock
      /\ templateLock' = IF templateLock = w THEN Unlocked ELSE templateLock
      /\ UNCHANGED <<sessions, bindings, posted, sources, templates, saved, kept>> /\ Unlocked \notin OWorkers
  BY OAssumption DEF FailOHandler
<1>2. ORowsOK /\ FilesSafe /\ BindingsSafe
  BY DEF OInv
<1>3. /\ otodo' \in [OWorkers -> Wizards'] /\ otodo'[w] = <<>>
      /\ \A v \in OWorkers : v # w => otodo'[v] = otodo[v]
  BY <1>1, WizardEnds
<1>4. ORowsOK'
  BY <1>1, <1>2 DEF ORowsOK
<1>5. BindingsSafe'
  BY <1>1, <1>2 DEF BindingsSafe, ORowsOK
<1>6. /\ ~First(otodo'[w], {"truncate", "write"}) /\ ~First(otodo'[w], {"truncate"})
      /\ ~First(otodo'[w], {"write"}) /\ ~First(otodo'[w], {"replace"})
  BY <1>3 DEF First
<1>7. First(otodo[w], {"write"}) => sourceLock = w /\ ~sources.whole
  BY <1>2 DEF FilesSafe, First
<1>8. ASSUME ~torn' PROVE sources.whole \/ \E v \in OWorkers : First(otodo'[v], {"write"})
  BY <1>1, <1>2, <1>3, <1>7, <1>8 DEF FilesSafe
<1>9. FilesSafe'
  BY <1>1, <1>2, <1>3, <1>6, <1>8 DEF FilesSafe, Intended
<1> QED BY <1>3, <1>4, <1>5, <1>9 DEF OInv

LEMMA OInvHolds == OSpec => []OInv
<1>1. OInit => OInv
  <2> SUFFICES ASSUME OInit PROVE OInv
    OBVIOUS
  <2>1. <<>> \in Wizards
    BY DEF Wizards, Ordered, Relies, Announces
  <2>2. templates \in TemplateFiles
    BY DEF OInit, TemplateFiles
  <2>3. ORowsOK
    <3>1. DOMAIN sessions = {} /\ DOMAIN bindings = {}
      BY DEF OInit
    <3>2. sources \in [whole : BOOLEAN, rows : SUBSET SourceIds] /\ odeaths \in Nat /\ torn \in BOOLEAN
      BY DEF OInit
    <3> QED BY <2>2, <3>1, <3>2 DEF OInit, ORowsOK
  <2>4. \A w \in OWorkers : \A kinds : ~First(otodo[w], kinds)
    BY DEF OInit, First
  <2>5. FilesSafe
    BY <2>4, OAssumption DEF OInit, FilesSafe
  <2>6. BindingsSafe
    BY DEF OInit, BindingsSafe
  <2> QED BY <2>1, <2>3, <2>5, <2>6 DEF OInv, OInit
<1>2. OInv /\ [ONext]_ovars => OInv'
  <2> SUFFICES ASSUME OInv, [ONext]_ovars PROVE OInv'
    OBVIOUS
  <2>1. CASE ONext
    BY <2>1, OnboardingRequestsKeep, TemplateRequestsKeep, BindingStepsKeep, SourceStepsKeep, TemplateStepsKeep,
       OFailureKeeps DEF ONext, OStep
  <2>2. CASE UNCHANGED ovars
    <3>1. UNCHANGED <<sessions, bindings, posted, sources, templates, saved, kept, torn, sourceLock, templateLock, otodo,
                      odeaths>>
      BY <2>2 DEF ovars, ostores, olocks
    <3>2. ORowsOK' /\ FilesSafe' /\ BindingsSafe'
      BY <3>1 DEF OInv, ORowsOK, FilesSafe, Intended, BindingsSafe, Promised
    <3>3. otodo' \in [OWorkers -> Wizards']
      BY <3>1, WizardsGrow DEF OInv
    <3> QED BY <3>2, <3>3 DEF OInv
  <2> QED BY <2>1, <2>2
<1> QED BY <1>1, <1>2, PTL DEF OSpec

\* What onboarding, the data sources and the templates store has the form its readers
\* expect: a session, a binding and a source row by name, and at most one holder of each lock.
THEOREM OTypeCorrect == OSpec => []OTypeOK
<1>1. OInv => OTypeOK
  <2>1. templates \in TemplateFiles => DOMAIN templates \subseteq Builtins \cup Customs
    BY DEF TemplateFiles, TemplateIds
  <2> QED BY <2>1 DEF OInv, ORowsOK, BindingRow, OTypeOK
<1> QED BY <1>1, OInvHolds, PTL

\* No save of a source or a template is lost to another, however many requests, threads
\* and deaths: the locks of datasource.py and template_store.py are held from load to
\* write, and only a writer that dies while the source file is truncated leaves it torn.
THEOREM NoSaveIsLost == OSpec => []SavedIsKept
<1>1. ORowsOK => \A t \in DOMAIN templates : Valid(templates[t])
  BY DEF ORowsOK, TemplateFiles, Sound
<1>2. OInv => SavedIsKept
  BY <1>1 DEF OInv, FilesSafe, SavedIsKept
<1> QED BY <1>2, OInvHolds, PTL

\* A session that says connected has its binding, and an approved one once everybody is
\* done and nobody died, unless a row that was posted took its place (confirm puts binding,
\* approval and session in that order; upsert and approve of data_binding.py).
THEOREM ConnectedStaysBound == OSpec => []ConnectedIsBound
<1>1. OInv => ConnectedIsBound
  <2> SUFFICES ASSUME OInv, NEW s \in DOMAIN sessions, sessions[s].status = "connected"
               PROVE  LET name == sessions[s].source[2] IN
                        /\ name \in DOMAIN bindings
                        /\ (odeaths = 0 /\ \A w \in OWorkers : otodo[w] = <<>>) =>
                             bindings[name].status = "approved" \/ name \in posted
    BY DEF ConnectedIsBound
  <2>1. sessions[s].source[2] \in DOMAIN bindings
    BY DEF OInv, BindingsSafe
  <2>2. (\A w \in OWorkers : otodo[w] = <<>>) => Promised = {}
    BY DEF Promised
  <2> QED BY <2>1, <2>2 DEF OInv, BindingsSafe
<1> QED BY <1>1, OInvHolds, PTL

-----------------------------------------------------------------------------
(* Enterprise access: what handlers have to do.                            *)

EventIds == ({"new"} \X Nat) \cup ({"legacy"} \X Nat)
ViolationIds == EventIds \X (CompliancePolicies \cup {"builtin"})

PutSteps ==
  [do : {"put"}, kind : {"tenant"}, key : Tenants, row : Tenants]
    \cup [do : {"put"}, kind : {"org"}, key : Orgs, row : Tenants]
    \cup [do : {"put"}, kind : {"site"}, key : Sites, row : [tenant : Tenants, org : Orgs \cup {Nowhere}]]
    \cup [do : {"put"}, kind : {"principal"}, key : PrincipalIds, row : PrincipalRow]
    \cup [do : {"put"}, kind : {"policy"}, key : CompliancePolicies, row : CompliancePolicies]
    \cup [do : {"put"}, kind : {"retention"}, key : Nat, row : Nat]
    \cup [do : {"put"}, kind : {"violation"}, key : ViolationIds, row : {"open", "resolved"}]

AuditKinds == {"authentication", "access", "secret", "query", "batch", "letter"}
AccessSteps ==
  PutSteps
    \cup [do : {"audit"}, from : AuditKinds, good : BOOLEAN]
    \cup [do : {"span"}]
    \cup [do : {"emit"}, bad : BOOLEAN]
    \cup [do : {"policies"}, key : EventIds]
    \cup [do : {"violate"}, key : ViolationIds]
    \cup [do : {"import"}, at : Nat, left : SUBSET Nat]
    \cup [do : {"purge"}, left : SUBSET EventIds]

\* What a row refers to is stored before the row is put, and nothing deletes it; what is
\* left to import was listed.
Ready ==
  {s \in AccessSteps :
     /\ s.do = "import" => s.left \subseteq DOMAIN audits
     /\ s.do = "put" =>
          /\ s.kind = "org" => s.row \in tenants
          /\ s.kind = "site" => s.row.tenant \in tenants /\ s.row.org \in DOMAIN orgs \cup {Nowhere}
          /\ s.kind = "principal" => s.row.tenant \in tenants}

\* The violations that are stored or that some handler is about to store.
Notices(s, v) == (s.do = "violate" \/ (s.do = "put" /\ s.kind = "violation")) /\ s.key = v
Noticed ==
  DOMAIN violations
    \cup {v \in ViolationIds : \E w \in EWorkers : \E i \in 1..Len(etodo[w]) : Notices(etodo[w][i], v)}

ERowsOK ==
  /\ ETypeOK
  /\ DOMAIN audits \subseteq Nat /\ DOMAIN auditEvents \subseteq EventIds /\ DOMAIN violations \subseteq ViolationIds
  /\ watched \subseteq CompliancePolicies /\ IsFiniteSet(watched)
  /\ fresh \in Nat /\ edeaths \in Nat

EventsNoticed ==
  edeaths = 0 => \A e \in DOMAIN auditEvents : auditEvents[e].bad => <<e, "builtin">> \in Noticed

\* The rows of the audits stay, under ids of their own, and the event of one tells of it.
RowsImported ==
  /\ \A a \in DOMAIN audits : a < fresh
  /\ \A a \in Nat : <<"legacy", a>> \in DOMAIN auditEvents =>
       a \in DOMAIN audits /\ (auditEvents[<<"legacy", a>>].bad <=> Condemned(audits[a]))

EInv == ERowsOK /\ EventsNoticed /\ RowsImported /\ etodo \in [EWorkers -> Seq(Ready)]

LEMMA ReadyGrows ==
  tenants \subseteq tenants' /\ DOMAIN orgs \subseteq DOMAIN orgs' /\ DOMAIN audits \subseteq DOMAIN audits'
    => Seq(Ready) \subseteq Seq(Ready')
<1> SUFFICES ASSUME tenants \subseteq tenants', DOMAIN orgs \subseteq DOMAIN orgs',
                    DOMAIN audits \subseteq DOMAIN audits', NEW q \in Seq(Ready)
             PROVE  q \in Seq(Ready')
  OBVIOUS
<1>1. Ready \subseteq Ready'
  BY DEF Ready
<1> QED BY <1>1

\* The handler of w goes on with r: what was noticed stays so, but for what its first step notices.
AccessStep(w, q, new, r) ==
  /\ q = etodo[w] /\ q # <<>> /\ new \in Seq(Ready') /\ r = new \o Tail(q)
  /\ etodo' = [etodo EXCEPT ![w] = r]
  /\ tenants \subseteq tenants' /\ DOMAIN orgs \subseteq DOMAIN orgs'
  /\ DOMAIN audits \subseteq DOMAIN audits' /\ DOMAIN violations \subseteq DOMAIN violations'

AccessStepped(w, q, new) ==
  /\ etodo' \in [EWorkers -> Seq(Ready')]
  /\ q[1] \in Ready /\ Head(q) = q[1]
  /\ \A v : v \in Noticed /\ ~Notices(q[1], v) => v \in Noticed'
  /\ \A v \in ViolationIds : \A i \in 1..Len(new) : Notices(new[i], v) => v \in Noticed'

LEMMA AccessMoves ==
  ASSUME EInv, NEW w \in EWorkers, NEW q, NEW new, NEW r, AccessStep(w, q, new, r)
  PROVE  AccessStepped(w, q, new)
<1>1. /\ q = etodo[w] /\ q # <<>> /\ new \in Seq(Ready') /\ r = new \o Tail(q)
      /\ etodo' = [etodo EXCEPT ![w] = r]
      /\ DOMAIN violations \subseteq DOMAIN violations'
      /\ Seq(Ready) \subseteq Seq(Ready')
  BY ReadyGrows DEF AccessStep
<1>2. etodo \in [EWorkers -> Seq(Ready)] /\ etodo \in [EWorkers -> Seq(Ready')]
  BY <1>1 DEF EInv
<1>3. q \in Seq(Ready) /\ q \in Seq(Ready')
  BY <1>1, <1>2
<1>4. /\ r \in Seq(Ready') /\ Len(r) = Len(new) + Len(q) - 1
      /\ \A i \in 1..Len(new) : r[i] = new[i]
      /\ \A i \in 2..Len(q) : r[Len(new) + i - 1] = q[i]
  BY <1>1, <1>3, Continued
<1>5. q[1] \in Ready /\ Head(q) = q[1] /\ Len(q) \in Nat /\ Len(new) \in Nat /\ Len(q) > 0
  BY <1>1, <1>3
<1>6. /\ etodo' \in [EWorkers -> Seq(Ready')] /\ etodo'[w] = r
      /\ \A u \in EWorkers : u # w => etodo'[u] = etodo[u]
  BY <1>1, <1>2, <1>4
<1>7. ASSUME NEW v, v \in Noticed, ~Notices(q[1], v) PROVE v \in Noticed'
  <2>1. CASE v \in DOMAIN violations
    BY <1>1, <2>1 DEF Noticed
  <2>2. CASE v \notin DOMAIN violations
    <3>1. PICK u \in EWorkers : v \in ViolationIds /\ \E i \in 1..Len(etodo[u]) : Notices(etodo[u][i], v)
      BY <1>7, <2>2 DEF Noticed
    <3>2. CASE u # w
      BY <1>6, <3>1, <3>2 DEF Noticed
    <3>3. CASE u = w
      <4>1. PICK i \in 1..Len(q) : Notices(q[i], v)
        BY <1>1, <3>1, <3>3
      <4>2. i # 1
        BY <1>7, <4>1
      <4>3. Len(new) + i - 1 \in 1..Len(r) /\ r[Len(new) + i - 1] = q[i]
        BY <1>4, <1>5, <4>2
      <4> QED BY <1>6, <3>1, <4>1, <4>3 DEF Noticed
    <3> QED BY <3>2, <3>3
  <2> QED BY <2>1, <2>2
<1>8. ASSUME NEW v \in ViolationIds, NEW i \in 1..Len(new), Notices(new[i], v) PROVE v \in Noticed'
  <2>1. i \in 1..Len(r) /\ r[i] = new[i]
    BY <1>4, <1>5
  <2> QED BY <1>6, <1>8, <2>1 DEF Noticed
<1> QED BY <1>5, <1>6, <1>7, <1>8 DEF AccessStepped

LEMMA AccessServed ==
  ASSUME EInv, NEW w \in EWorkers, NEW steps \in Seq(Ready), EServe(w, steps)
  PROVE  EInv'
<1>1. /\ etodo[w] = <<>> /\ etodo' = [etodo EXCEPT ![w] = steps]
      /\ UNCHANGED <<tenants, orgs, sites, principals, audits, auditEvents, watched, violations, fresh, edeaths>>
  BY DEF EServe, estores
<1>2. etodo \in [EWorkers -> Seq(Ready')] /\ steps \in Seq(Ready')
  BY <1>1, ReadyGrows DEF EInv
<1>3. etodo' \in [EWorkers -> Seq(Ready')]
  BY <1>1, <1>2
<1>4. ERowsOK'
  BY <1>1 DEF EInv, ERowsOK, ETypeOK
<1>5. Noticed \subseteq Noticed'
  <2> SUFFICES ASSUME NEW v \in Noticed PROVE v \in Noticed'
    OBVIOUS
  <2>1. CASE v \in DOMAIN violations
    BY <1>1, <2>1 DEF Noticed
  <2>2. CASE v \notin DOMAIN violations
    <3>1. PICK u \in EWorkers : v \in ViolationIds /\ \E i \in 1..Len(etodo[u]) : Notices(etodo[u][i], v)
      BY <2>2 DEF Noticed
    <3>2. u # w
      BY <1>1, <3>1
    <3>3. etodo'[u] = etodo[u]
      BY <1>1, <1>2, <3>1, <3>2
    <3> QED BY <3>1, <3>3 DEF Noticed
  <2> QED BY <2>1, <2>2
<1>6. EventsNoticed' /\ RowsImported'
  BY <1>1, <1>5 DEF EInv, EventsNoticed, RowsImported, Condemned
<1> QED BY <1>3, <1>4, <1>6 DEF EInv

-----------------------------------------------------------------------------
(* Enterprise access: requests.                                            *)

LEMMA ReadyJoins == \A a, b \in Seq(Ready) : a \o b \in Seq(Ready)
<1> QED OBVIOUS

LEMMA AuditsReady ==
  ASSUME NEW from \in AuditKinds, NEW good \in BOOLEAN
  PROVE  Audits(from, good) \in Seq(Ready)
<1>1. [do |-> "audit", from |-> from, good |-> good] \in Ready
  BY DEF Ready, AccessSteps
<1> QED BY <1>1 DEF Audits

LEMMA AnswersReady ==
  /\ Answered(TRUE) \in Seq(Ready) /\ Answered(FALSE) \in Seq(Ready)
  /\ Audits("authentication", TRUE) \in Seq(Ready)
  /\ Audits("access", TRUE) \in Seq(Ready) /\ Audits("access", FALSE) \in Seq(Ready)
  /\ Emits(TRUE) \in Seq(Ready) /\ Emits(FALSE) \in Seq(Ready)
  /\ Refused \in Seq(Ready)
<1>1. [do |-> "emit", bad |-> TRUE] \in Ready /\ [do |-> "emit", bad |-> FALSE] \in Ready
  BY DEF Ready, AccessSteps
<1>2. /\ "authentication" \in AuditKinds /\ "access" \in AuditKinds /\ TRUE \in BOOLEAN /\ FALSE \in BOOLEAN
  BY DEF AuditKinds
<1>3. <<[do |-> "span"]>> \in Seq(Ready)
  BY DEF Ready, AccessSteps
<1>4. Emits(TRUE) \in Seq(Ready) /\ Emits(FALSE) \in Seq(Ready)
  BY <1>1 DEF Emits
<1>5. /\ Audits("authentication", TRUE) \in Seq(Ready) /\ Audits("authentication", FALSE) \in Seq(Ready)
      /\ Audits("access", TRUE) \in Seq(Ready) /\ Audits("access", FALSE) \in Seq(Ready)
  BY <1>2, AuditsReady
<1>6. Answered(TRUE) \in Seq(Ready)
  <2>1. Answered(TRUE) = <<[do |-> "span"]>> \o Emits(FALSE)
    BY DEF Answered, Emits
  <2> QED BY <1>3, <1>4, <2>1, ReadyJoins
<1>7. Answered(FALSE) \in Seq(Ready)
  <2>1. Answered(FALSE) = <<[do |-> "span"]>> \o Emits(TRUE)
    BY DEF Answered, Emits
  <2> QED BY <1>3, <1>4, <2>1, ReadyJoins
<1>8. Emits(TRUE) \o Answered(FALSE) \in Seq(Ready)
  BY <1>4, <1>7, ReadyJoins
<1>9. Audits("authentication", FALSE) \o Emits(TRUE) \in Seq(Ready)
  BY <1>4, <1>5, ReadyJoins
<1>10. (Audits("authentication", FALSE) \o Emits(TRUE)) \o Answered(FALSE) \in Seq(Ready)
  BY <1>7, <1>9, ReadyJoins
<1> QED BY <1>4, <1>5, <1>6, <1>7, <1>10 DEF Refused

\* A request that puts one row and answers.
LEMMA RowServed ==
  ASSUME EInv, NEW w \in EWorkers, NEW kind, NEW key, NEW row,
         [do |-> "put", kind |-> kind, key |-> key, row |-> row] \in Ready,
         EServe(w, Puts(kind, key, row) \o Answered(TRUE))
  PROVE  EInv'
<1>1. Puts(kind, key, row) \in Seq(Ready)
  BY DEF Puts
<1>2. Puts(kind, key, row) \o Answered(TRUE) \in Seq(Ready)
  BY <1>1, AnswersReady, ReadyJoins
<1> QED BY <1>2, AccessServed

LEMMA IdentityRequestsKeep ==
  ASSUME EInv, NEW w \in EWorkers, IdentityRequest(w)
  PROVE  EInv'
<1>1. ASSUME NEW t \in Tenants, UpsertTenant(w, t) PROVE EInv'
  <2>1. [do |-> "put", kind |-> "tenant", key |-> t, row |-> t] \in Ready
    BY DEF Ready, AccessSteps, PutSteps
  <2> QED BY <1>1, <2>1, RowServed DEF UpsertTenant
<1>2. ASSUME NEW t \in Tenants, NEW o \in Orgs, UpsertOrg(w, o, t) PROVE EInv'
  <2>1. [do |-> "put", kind |-> "org", key |-> o, row |-> t] \in Ready
    BY <1>2 DEF UpsertOrg, Ready, AccessSteps, PutSteps
  <2> QED BY <1>2, <2>1, RowServed DEF UpsertOrg
<1>3. ASSUME NEW t \in Tenants, NEW s \in Sites, NEW o \in Orgs \cup {Nowhere}, UpsertSite(w, s, t, o) PROVE EInv'
  <2>1. [do |-> "put", kind |-> "site", key |-> s, row |-> [tenant |-> t, org |-> o]] \in Ready
    BY <1>3 DEF UpsertSite, Ready, AccessSteps, PutSteps
  <2> QED BY <1>3, <2>1, RowServed DEF UpsertSite
<1>4. ASSUME NEW id \in PrincipalIds, NEW row \in PrincipalRow, UpsertPrincipal(w, id, row) PROVE EInv'
  <2>1. [do |-> "put", kind |-> "principal", key |-> id, row |-> row] \in Ready
    BY <1>4 DEF UpsertPrincipal, Ready, AccessSteps, PutSteps
  <2> QED BY <1>4, <2>1, RowServed DEF UpsertPrincipal
<1> QED BY <1>1, <1>2, <1>3, <1>4 DEF IdentityRequest

LEMMA AccessRequestsKeep ==
  ASSUME EInv, NEW w \in EWorkers, AccessRequest(w)
  PROVE  EInv'
<1>0. <<>> \in Seq(Ready)
  OBVIOUS
<1>1. /\ Audits("authentication", TRUE) \o Answered(TRUE) \in Seq(Ready)
      /\ Audits("access", TRUE) \o Answered(TRUE) \in Seq(Ready)
      /\ Audits("access", FALSE) \o Answered(TRUE) \in Seq(Ready)
      /\ <<>> \o Answered(FALSE) \in Seq(Ready) /\ Answered(FALSE) \in Seq(Ready) /\ Refused \in Seq(Ready)
  BY <1>0, AnswersReady, ReadyJoins
<1>2. ASSUME NEW id, NEW op, Filter(w, id, op) PROVE EInv'
  <2> DEFINE p == principals[id]
  <2>1. CASE p.status = "active" /\ op \in p.scope.perms
    <3>1. EServe(w, Audits("access", TRUE) \o Answered(TRUE))
      BY <1>2, <2>1 DEF Filter
    <3> QED BY <1>1, <3>1, AccessServed
  <2>2. CASE p.status = "active" /\ op \notin p.scope.perms
    <3>0. (op \in p.scope.perms) = FALSE
      BY <2>2
    <3>1. Audits("access", op \in p.scope.perms) = Audits("access", FALSE)
      BY <3>0
    <3>2. EServe(w, Audits("access", FALSE) \o Answered(TRUE))
      BY <1>2, <2>2, <3>1 DEF Filter
    <3> QED BY <1>1, <3>2, AccessServed
  <2>3. CASE p.status # "active"
    <3>1. EServe(w, <<>> \o Answered(FALSE))
      BY <1>2, <2>3 DEF Filter
    <3> QED BY <1>1, <3>1, AccessServed
  <2> QED BY <2>1, <2>2, <2>3
<1>3. ASSUME NEW id, NEW op, NEW r, Check(w, id, op, r) PROVE EInv'
  <2> DEFINE p == principals[id]
             allowed == CheckReason(p.scope, p.tenant, op, r) = "allowed"
  <2>1. CASE p.status = "active" /\ allowed
    <3>1. EServe(w, Audits("access", TRUE) \o Answered(TRUE))
      BY <1>3, <2>1 DEF Check
    <3> QED BY <1>1, <3>1, AccessServed
  <2>2. CASE p.status = "active" /\ ~allowed
    <3>1. EServe(w, Audits("access", FALSE) \o Answered(TRUE))
      BY <1>3, <2>2 DEF Check
    <3> QED BY <1>1, <3>1, AccessServed
  <2>3. CASE p.status # "active"
    <3>1. EServe(w, <<>> \o Answered(FALSE))
      BY <1>3, <2>3 DEF Check
    <3> QED BY <1>1, <3>1, AccessServed
  <2> QED BY <2>1, <2>2, <2>3
<1>4. CASE RejectToken(w) \/ RefuseRequest(w) \/ RaiseUnhandled(w)
  BY <1>0, <1>1, <1>4, AccessServed DEF RejectToken, RefuseRequest, RaiseUnhandled
<1>5. ASSUME NEW s \in Subjects, Login(w, s) PROVE EInv'
  <2>1. EServe(w, Audits("authentication", TRUE) \o Answered(TRUE)) \/ EServe(w, Refused)
    BY <1>5 DEF Login
  <2> QED BY <1>1, <2>1, AccessServed
<1>6. ASSUME NEW s \in Subjects, NEW t \in Tenants, NEW scope \in Scopes, FirstLogin(w, s, t, scope) PROVE EInv'
  <2> DEFINE row == [tenant |-> t, status |-> "active", scope |-> scope]
             steps == Puts("principal", <<t, s>>, row) \o Audits("authentication", TRUE) \o Answered(TRUE)
  <2>1. CASE AutoProvision /\ t \in tenants
    <3>1. row \in PrincipalRow /\ <<t, s>> \in PrincipalIds
      BY DEF PrincipalRow, PrincipalIds
    <3>2. [do |-> "put", kind |-> "principal", key |-> <<t, s>>, row |-> row] \in Ready
      BY <2>1, <3>1 DEF Ready, AccessSteps, PutSteps
    <3>3. Puts("principal", <<t, s>>, row) \in Seq(Ready)
      BY <3>2 DEF Puts
    <3>4. Puts("principal", <<t, s>>, row) \o Audits("authentication", TRUE) \in Seq(Ready)
      BY <3>3, AnswersReady, ReadyJoins
    <3>5. steps \in Seq(Ready)
      BY <3>4, AnswersReady, ReadyJoins
    <3>6. EServe(w, steps)
      BY <1>6, <2>1 DEF FirstLogin
    <3> HIDE DEF steps
    <3> QED BY <3>5, <3>6, AccessServed
  <2>2. CASE ~(AutoProvision /\ t \in tenants)
    <3>1. EServe(w, Refused)
      BY <1>6, <2>2 DEF FirstLogin
    <3> QED BY <1>1, <3>1, AccessServed
  <2> QED BY <2>1, <2>2
<1> QED BY <1>2, <1>3, <1>4, <1>5, <1>6 DEF AccessRequest

LEMMA HistoryRequestsKeep ==
  ASSUME EInv, NEW w \in EWorkers, HistoryRequest(w)
  PROVE  EInv'
<1>1. PICK good \in BOOLEAN : CheckSecret(w, good) \/ RunQuery(w, good) \/ SubmitBatch(w, good)
  BY DEF HistoryRequest
<1>2. /\ Audits("secret", good) \in Seq(Ready) /\ Audits("query", good) \in Seq(Ready)
      /\ Audits("batch", good) \in Seq(Ready) /\ Audits("letter", FALSE) \in Seq(Ready)
  <2>1. /\ "secret" \in AuditKinds /\ "query" \in AuditKinds /\ "batch" \in AuditKinds /\ "letter" \in AuditKinds
        /\ FALSE \in BOOLEAN
    BY DEF AuditKinds
  <2> QED BY <2>1, AuditsReady
<1>6. /\ <<>> \in Seq(Ready) /\ Emits(~good) \in Seq(Ready)
      /\ Answered(good) \in Seq(Ready) /\ Answered(TRUE) \in Seq(Ready)
  <2>1. <<>> \in Seq(Ready)
    OBVIOUS
  <2>2. CASE good = TRUE
    <3>1. (~good) = FALSE
      BY <2>2
    <3> QED BY <2>1, <2>2, <3>1, AnswersReady
  <2>3. CASE good = FALSE
    <3>1. (~good) = TRUE
      BY <2>3
    <3> QED BY <2>1, <2>3, <3>1, AnswersReady
  <2> QED BY <2>2, <2>3
<1>3. CASE CheckSecret(w, good)
  <2>1. Audits("secret", good) \o Answered(TRUE) \in Seq(Ready)
    BY <1>2, <1>6, ReadyJoins
  <2> QED BY <1>3, <2>1, AccessServed DEF CheckSecret
<1>4. CASE RunQuery(w, good)
  <2>1. Audits("query", good) \o Emits(~good) \in Seq(Ready)
    BY <1>2, <1>6, ReadyJoins
  <2>2. (Audits("query", good) \o Emits(~good)) \o Answered(good) \in Seq(Ready)
    BY <1>2, <1>6, <2>1, ReadyJoins
  <2> QED BY <1>4, <2>2, AccessServed DEF RunQuery
<1>5. CASE SubmitBatch(w, good)
  <2>1. PICK first : first = IF good THEN <<>> ELSE Audits("letter", FALSE)
    OBVIOUS
  <2>2. first \in Seq(Ready)
    BY <1>2, <1>6, <2>1
  <2>3. first \o Audits("batch", good) \in Seq(Ready)
    BY <1>2, <1>6, <2>2, ReadyJoins
  <2>4. (first \o Audits("batch", good)) \o Answered(TRUE) \in Seq(Ready)
    BY <1>2, <1>6, <2>3, ReadyJoins
  <2> QED BY <1>5, <2>1, <2>4, AccessServed DEF SubmitBatch
<1> QED BY <1>1, <1>3, <1>4, <1>5

LEMMA ImportsReady ==
  ASSUME NEW at \in Nat, NEW left \in SUBSET Nat, left \subseteq DOMAIN audits
  PROVE  Imports(at, left) \in Seq(Ready)
<1>1. [do |-> "import", at |-> at, left |-> left] \in Ready
  BY DEF Ready, AccessSteps
<1> QED BY <1>1 DEF Imports

LEMMA AuditRequestsKeep ==
  ASSUME EInv, NEW w \in EWorkers, AuditRequest(w)
  PROVE  EInv'
<1>1. ASSUME NEW p \in CompliancePolicies, AddPolicy(w, p) PROVE EInv'
  <2>1. [do |-> "put", kind |-> "policy", key |-> p, row |-> p] \in Ready
    BY DEF Ready, AccessSteps, PutSteps
  <2> QED BY <1>1, <2>1, RowServed DEF AddPolicy
<1>2. ASSUME NEW d \in 1..2, SetRetention(w, d) PROVE EInv'
  <2>1. [do |-> "put", kind |-> "retention", key |-> d, row |-> d] \in Ready
    BY DEF Ready, AccessSteps, PutSteps
  <2> QED BY <1>2, <2>1, RowServed DEF SetRetention
<1>3. ASSUME NEW v \in DOMAIN violations, ResolveViolation(w, v) PROVE EInv'
  <2>1. [do |-> "put", kind |-> "violation", key |-> v, row |-> "resolved"] \in Ready
    BY DEF EInv, ERowsOK, Ready, AccessSteps, PutSteps
  <2> QED BY <1>3, <2>1, RowServed DEF ResolveViolation
<1>4. ASSUME EnforceRetention(w) PROVE EInv'
  <2> DEFINE old == {e \in DOMAIN auditEvents : auditEvents[e].day + retention < day}
             steps == <<[do |-> "purge", left |-> old]>> \o Answered(TRUE)
  <2>1. old \in SUBSET EventIds
    BY DEF EInv, ERowsOK
  <2> HIDE DEF old
  <2>2. <<[do |-> "purge", left |-> old]>> \in Seq(Ready)
    BY <2>1 DEF Ready, AccessSteps
  <2>3. steps \in Seq(Ready)
    BY <2>2, AnswersReady, ReadyJoins
  <2>4. EServe(w, steps)
    BY <1>4 DEF EnforceRetention, old
  <2> HIDE DEF steps
  <2> QED BY <2>3, <2>4, AccessServed
<1>5. CASE ImportLegacy(w) \/ StartUp(w)
  <2>1. Imports(0, {}) \in Seq(Ready)
    BY ImportsReady
  <2>2. Imports(0, {}) \o Answered(TRUE) \in Seq(Ready)
    BY <2>1, AnswersReady, ReadyJoins
  <2> QED BY <1>5, <2>1, <2>2, AccessServed DEF ImportLegacy, StartUp
<1> QED BY <1>1, <1>2, <1>3, <1>4, <1>5 DEF AuditRequest

-----------------------------------------------------------------------------
(* Enterprise access: steps.                                               *)

LEMMA EvaluatesReady ==
  ASSUME NEW e \in EventIds
  PROVE  /\ Evaluates(e, TRUE) \in Seq(Ready) /\ Evaluates(e, FALSE) \in Seq(Ready)
         /\ 1 \in 1..Len(Evaluates(e, TRUE)) /\ Notices(Evaluates(e, TRUE)[1], <<e, "builtin">>)
<1> DEFINE a == <<[do |-> "violate", key |-> <<e, "builtin">>]>>
           b == <<[do |-> "policies", key |-> e]>>
<1>1. [do |-> "violate", key |-> <<e, "builtin">>] \in Ready
  BY DEF Ready, AccessSteps, ViolationIds
<1>2. [do |-> "policies", key |-> e] \in Ready
  BY DEF Ready, AccessSteps
<1>3. a \in Seq(Ready) /\ Len(a) = 1 /\ Notices(a[1], <<e, "builtin">>)
  BY <1>1 DEF Notices
<1>4. b \in Seq(Ready) /\ <<>> \in Seq(Ready) /\ Len(b) = 1
  BY <1>2
<1>5. Evaluates(e, TRUE) = a \o b /\ Evaluates(e, FALSE) = <<>> \o b
  BY DEF Evaluates
<1> HIDE DEF a, b
<1>6. a \o b \in Seq(Ready) /\ <<>> \o b \in Seq(Ready)
  BY <1>3, <1>4, ReadyJoins
<1>7. PICK r : r = a \o b
  OBVIOUS
<1>8. 1 \in 1..Len(a)
  BY <1>3
<1>9. r[1] = a[1] /\ 1 \in 1..Len(r)
  <2>1. a \in Seq(Ready) /\ b \in Seq(Ready)
    BY <1>3, <1>4
  <2>2. \A i \in 1..Len(a) : i \in 1..Len(r) /\ r[i] = a[i]
    BY <1>7, <2>1, Concatenated
  <2> QED BY <1>8, <2>2
<1>10. Evaluates(e, TRUE) = r /\ Evaluates(e, FALSE) = <<>> \o b
  BY <1>5, <1>7
<1> QED BY <1>3, <1>6, <1>7, <1>9, <1>10

LEMMA AccessHead ==
  ASSUME EInv, NEW w \in EWorkers, NEW what, Head1(w, what)
  PROVE  etodo[w] # <<>> /\ Head(etodo[w]) = etodo[w][1] /\ etodo[w][1] \in Ready /\ etodo[w][1].do = what
<1>1. etodo[w] \in Seq(Ready) /\ etodo[w] # <<>> /\ Head(etodo[w]).do = what
  BY DEF EInv, Head1
<1> QED BY <1>1

\* An action that stores events only, or nothing.
LEMMA EventStep ==
  ASSUME EInv, NEW w \in EWorkers, NEW new \in Seq(Ready), etodo[w] # <<>>, Continue(w, new),
         UNCHANGED <<tenants, orgs, sites, principals, audits, watched, violations, edeaths>>
  PROVE  AccessStepped(w, etodo[w], new)
<1>1. PICK q, r : q = etodo[w] /\ r = new \o Tail(q)
  OBVIOUS
<1>2. etodo' = [etodo EXCEPT ![w] = r]
  BY <1>1 DEF Continue
<1>3. Ready' = Ready
  BY DEF Ready
<1>4. AccessStep(w, q, new, r)
  BY <1>1, <1>2, <1>3 DEF AccessStep
<1> QED BY <1>1, <1>4, AccessMoves

\* What is left to show of such an action.
LEMMA EventsKept ==
  ASSUME EInv, NEW w \in EWorkers, NEW new, AccessStepped(w, etodo[w], new),
         UNCHANGED <<tenants, orgs, sites, principals, watched, violations, edeaths>>,
         DOMAIN audits' \subseteq Nat, DOMAIN auditEvents' \subseteq EventIds, fresh' \in Nat, RowsImported',
         \A e \in DOMAIN auditEvents' : auditEvents'[e].bad =>
           \/ e \in DOMAIN auditEvents /\ auditEvents[e].bad /\ ~Notices(etodo[w][1], <<e, "builtin">>)
           \/ <<e, "builtin">> \in Noticed'
  PROVE  EInv'
<1>1. ERowsOK'
  BY DEF EInv, ERowsOK, ETypeOK
<1>2. EventsNoticed'
  BY DEF EInv, EventsNoticed, AccessStepped
<1> QED BY <1>1, <1>2 DEF EInv, AccessStepped

\* Steps that import nothing and add no row to the audits.
LEMMA ImportedStay ==
  ASSUME EInv, UNCHANGED audits, fresh' \in Nat, fresh <= fresh',
         \A a \in Nat : <<"legacy", a>> \in DOMAIN auditEvents' =>
           <<"legacy", a>> \in DOMAIN auditEvents /\ auditEvents'[<<"legacy", a>>] = auditEvents[<<"legacy", a>>]
  PROVE  RowsImported'
<1>1. /\ fresh \in Nat /\ DOMAIN audits \subseteq Nat /\ RowsImported
  BY DEF EInv, ERowsOK
<1>2. \A a \in DOMAIN audits : Condemned(audits'[a]) <=> Condemned(audits[a])
  OBVIOUS
<1>3. \A a \in DOMAIN audits' : a < fresh'
  BY <1>1 DEF RowsImported
<1>4. \A a \in Nat : <<"legacy", a>> \in DOMAIN auditEvents' =>
        a \in DOMAIN audits' /\ (auditEvents'[<<"legacy", a>>].bad <=> Condemned(audits'[a]))
  BY <1>1, <1>2 DEF RowsImported
<1> QED BY <1>3, <1>4 DEF RowsImported, Condemned

LEMMA SpanKeeps ==
  ASSUME EInv, NEW w \in EWorkers, RecordSpan(w)
  PROVE  EInv'
<1>1. /\ Continue(w, <<>>)
      /\ UNCHANGED <<tenants, orgs, sites, principals, watched, violations, edeaths, audits, auditEvents, fresh>>
      /\ etodo[w] # <<>> /\ etodo[w][1].do = "span"
  BY AccessHead DEF RecordSpan
<1>2. <<>> \in Seq(Ready)
  OBVIOUS
<1>3. AccessStepped(w, etodo[w], <<>>)
  BY <1>1, <1>2, EventStep
<1>4. DOMAIN audits' \subseteq Nat /\ fresh' \in Nat /\ fresh <= fresh' /\ DOMAIN auditEvents' \subseteq EventIds
  BY <1>1 DEF EInv, ERowsOK
<1>5. \A v : ~Notices(etodo[w][1], v)
  BY <1>1 DEF Notices
<1>6. \A e \in DOMAIN auditEvents' : auditEvents'[e].bad => e \in DOMAIN auditEvents /\ auditEvents[e].bad
  BY <1>1
<1>7. RowsImported'
  BY <1>1, <1>4, ImportedStay
<1> QED BY <1>1, <1>3, <1>4, <1>5, <1>6, <1>7, EventsKept

\* A new row is under an id no event was made of.
LEMMA AuditKeeps ==
  ASSUME EInv, NEW w \in EWorkers, PutAudit(w)
  PROVE  EInv'
<1>1. /\ Continue(w, <<>>) /\ fresh' = fresh + 1
      /\ UNCHANGED <<tenants, orgs, sites, principals, watched, violations, edeaths, auditEvents>>
      /\ etodo[w] # <<>> /\ etodo[w][1].do = "audit"
  BY AccessHead DEF PutAudit
<1>2. fresh \in Nat /\ DOMAIN audits \subseteq Nat /\ DOMAIN auditEvents \subseteq EventIds /\ RowsImported
  BY DEF EInv, ERowsOK
<1>3. /\ DOMAIN audits' = DOMAIN audits \cup {fresh}
      /\ \A a \in DOMAIN audits : a # fresh => audits'[a] = audits[a]
  BY DEF PutAudit, EPut
<1>4. fresh \notin DOMAIN audits
  BY <1>2 DEF RowsImported
<1>5. AccessStepped(w, etodo[w], <<>>)
  <2>1. PICK q, r : q = etodo[w] /\ r = <<>> \o Tail(q)
    OBVIOUS
  <2>2. etodo' = [etodo EXCEPT ![w] = r]
    BY <1>1, <2>1 DEF Continue
  <2>3. <<>> \in Seq(Ready')
    OBVIOUS
  <2>4. AccessStep(w, q, <<>>, r)
    BY <1>1, <1>3, <2>1, <2>2, <2>3 DEF AccessStep
  <2> QED BY <2>1, <2>4, AccessMoves
<1>6. \A v : ~Notices(etodo[w][1], v)
  BY <1>1 DEF Notices
<1>7. DOMAIN audits' \subseteq Nat /\ fresh' \in Nat /\ DOMAIN auditEvents' \subseteq EventIds
  BY <1>1, <1>2, <1>3
<1>8. \A e \in DOMAIN auditEvents' : auditEvents'[e].bad => e \in DOMAIN auditEvents /\ auditEvents[e].bad
  BY <1>1
<1>9. RowsImported'
  <2>1. \A a \in DOMAIN audits' : a < fresh'
    BY <1>1, <1>2, <1>3 DEF RowsImported
  <2>2. ASSUME NEW a \in Nat, <<"legacy", a>> \in DOMAIN auditEvents'
        PROVE  a \in DOMAIN audits' /\ (auditEvents'[<<"legacy", a>>].bad <=> Condemned(audits'[a]))
    <3>1. a \in DOMAIN audits /\ (auditEvents[<<"legacy", a>>].bad <=> Condemned(audits[a]))
      BY <1>1, <1>2, <2>2 DEF RowsImported
    <3>2. audits'[a] = audits[a]
      BY <1>3, <1>4, <3>1
    <3> QED BY <1>1, <1>3, <3>1, <3>2
  <2> QED BY <2>1, <2>2 DEF RowsImported
<1> QED BY <1>1, <1>5, <1>6, <1>7, <1>8, <1>9, EventsKept

LEMMA StoreEventKeeps ==
  ASSUME EInv, NEW w \in EWorkers, StoreEvent(w)
  PROVE  EInv'
<1>1. PICK e, bad : e = <<"new", fresh>> /\ bad = etodo[w][1].bad
  OBVIOUS
<1>2. /\ etodo[w] # <<>> /\ Head(etodo[w]) = etodo[w][1] /\ etodo[w][1] \in Ready /\ etodo[w][1].do = "emit"
      /\ UNCHANGED <<tenants, orgs, sites, principals, watched, violations, edeaths, audits>>
  BY AccessHead DEF StoreEvent
<1>3. /\ auditEvents' = EPut(auditEvents, e, [bad |-> bad, day |-> day])
      /\ Continue(w, Evaluates(e, bad)) /\ fresh' = fresh + 1
  BY <1>1, <1>2 DEF StoreEvent
<1>4. e \in EventIds /\ DOMAIN auditEvents \subseteq EventIds /\ DOMAIN audits \subseteq Nat /\ fresh \in Nat
  BY <1>1 DEF EInv, ERowsOK, EventIds
<1>0. RowsImported'
  <2>1. \A a \in Nat : <<"legacy", a>> # e
    BY <1>1
  <2>2. \A a \in Nat : <<"legacy", a>> \in DOMAIN auditEvents' =>
          <<"legacy", a>> \in DOMAIN auditEvents /\ auditEvents'[<<"legacy", a>>] = auditEvents[<<"legacy", a>>]
    BY <1>3, <2>1 DEF EPut
  <2> QED BY <1>2, <1>3, <1>4, <2>2, ImportedStay
<1>5. bad \in BOOLEAN
  BY <1>1, <1>2 DEF Ready, AccessSteps, PutSteps
<1>6. \A v : ~Notices(etodo[w][1], v)
  BY <1>2 DEF Notices
<1>7. DOMAIN auditEvents' \subseteq EventIds /\ DOMAIN audits' \subseteq Nat /\ fresh' \in Nat
  BY <1>2, <1>3, <1>4 DEF EPut
<1>8. \A k \in DOMAIN auditEvents' :
        auditEvents'[k].bad => (k \in DOMAIN auditEvents /\ auditEvents[k].bad) \/ (k = e /\ bad)
  BY <1>3 DEF EPut
<1>9. CASE bad
  <2>1. Continue(w, Evaluates(e, TRUE))
    BY <1>3, <1>9 DEF Evaluates
  <2>2. AccessStepped(w, etodo[w], Evaluates(e, TRUE))
    BY <1>2, <1>4, <2>1, EvaluatesReady, EventStep
  <2>3. <<e, "builtin">> \in ViolationIds
    BY <1>4 DEF ViolationIds
  <2>4. <<e, "builtin">> \in Noticed'
    BY <1>4, <2>2, <2>3, EvaluatesReady DEF AccessStepped
  <2> QED BY <1>0, <1>2, <1>6, <1>7, <1>8, <2>2, <2>4, EventsKept
<1>10. CASE ~bad
  <2>1. Continue(w, Evaluates(e, FALSE))
    BY <1>3, <1>10 DEF Evaluates
  <2>2. AccessStepped(w, etodo[w], Evaluates(e, FALSE))
    BY <1>2, <1>4, <2>1, EvaluatesReady, EventStep
  <2> QED BY <1>0, <1>2, <1>6, <1>7, <1>8, <1>10, <2>2, EventsKept
<1> QED BY <1>9, <1>10

LEMMA PoliciesKeep ==
  ASSUME EInv, NEW w \in EWorkers, MatchPolicies(w)
  PROVE  EInv'
<1>1. /\ etodo[w] # <<>> /\ Head(etodo[w]) = etodo[w][1] /\ etodo[w][1] \in Ready /\ etodo[w][1].do = "policies"
      /\ UNCHANGED <<tenants, orgs, sites, principals, watched, violations, edeaths, audits, auditEvents, fresh>>
  BY AccessHead DEF MatchPolicies, estores
<1>2. PICK key : key = etodo[w][1].key
  OBVIOUS
<1>3. key \in EventIds
  BY <1>1, <1>2 DEF Ready, AccessSteps, PutSteps
<1>4. PICK order \in [1..Cardinality(watched) -> watched] :
        Continue(w, [i \in DOMAIN order |-> [do |-> "violate", key |-> <<key, order[i]>>]])
  BY <1>1, <1>2 DEF MatchPolicies
<1>5. Cardinality(watched) \in Nat /\ watched \subseteq CompliancePolicies
  BY FS_CardinalityType DEF EInv, ERowsOK
<1>6. PICK new : new = [i \in 1..Cardinality(watched) |-> [do |-> "violate", key |-> <<key, order[i]>>]]
  OBVIOUS
<1>7. \A i \in 1..Cardinality(watched) : new[i] \in Ready
  BY <1>3, <1>5, <1>6 DEF Ready, AccessSteps, ViolationIds
<1>8. new \in Seq(Ready)
  BY <1>5, <1>6, <1>7
<1>9. Continue(w, new)
  BY <1>4, <1>6
<1>10. AccessStepped(w, etodo[w], new)
  BY <1>1, <1>8, <1>9, EventStep
<1>11. \A v : ~Notices(etodo[w][1], v)
  BY <1>1 DEF Notices
<1>12. DOMAIN audits' \subseteq Nat /\ DOMAIN auditEvents' \subseteq EventIds /\ fresh' \in Nat /\ fresh <= fresh'
  BY <1>1 DEF EInv, ERowsOK
<1>13. RowsImported'
  BY <1>1, <1>12, ImportedStay
<1> QED BY <1>1, <1>10, <1>11, <1>12, <1>13, EventsKept

LEMMA ViolateKeeps ==
  ASSUME EInv, NEW w \in EWorkers, Violate(w)
  PROVE  EInv'
<1>1. /\ etodo[w] # <<>> /\ Head(etodo[w]) = etodo[w][1] /\ etodo[w][1] \in Ready /\ etodo[w][1].do = "violate"
      /\ UNCHANGED <<tenants, orgs, sites, principals, watched, violations, edeaths, audits, auditEvents, fresh>>
  BY AccessHead DEF Violate, estores
<1>2. PICK v : v = etodo[w][1].key
  OBVIOUS
<1>3. v \in ViolationIds /\ \A k : Notices(etodo[w][1], k) => k = v
  BY <1>1, <1>2 DEF Ready, AccessSteps, PutSteps, Notices
<1>4. DOMAIN audits' \subseteq Nat /\ DOMAIN auditEvents' \subseteq EventIds /\ fresh' \in Nat /\ fresh <= fresh'
  BY <1>1 DEF EInv, ERowsOK
<1>5. PICK new \in Seq(Ready) :
        Continue(w, new) /\ (v \in DOMAIN violations \/ (1 \in 1..Len(new) /\ Notices(new[1], v)))
  <2>1. CASE v \in DOMAIN violations
    <3>1. <<>> \in Seq(Ready)
      OBVIOUS
    <3>2. Continue(w, <<>>)
      BY <1>1, <1>2, <2>1 DEF Violate
    <3> QED BY <2>1, <3>1, <3>2
  <2>2. CASE v \notin DOMAIN violations
    <3>1. Continue(w, Puts("violation", v, "open"))
      BY <1>1, <1>2, <2>2 DEF Violate
    <3>2. [do |-> "put", kind |-> "violation", key |-> v, row |-> "open"] \in Ready
      BY <1>3 DEF Ready, AccessSteps, PutSteps
    <3>3. Puts("violation", v, "open") \in Seq(Ready) /\ 1 \in 1..Len(Puts("violation", v, "open"))
      BY <3>2 DEF Puts
    <3>4. Notices(Puts("violation", v, "open")[1], v)
      BY DEF Puts, Notices
    <3> QED BY <3>1, <3>3, <3>4
  <2> QED BY <2>1, <2>2
<1>6. AccessStepped(w, etodo[w], new)
  BY <1>1, <1>5, EventStep
<1>7. v \in Noticed'
  <2>1. CASE v \in DOMAIN violations
    BY <1>1, <2>1 DEF Noticed
  <2>2. CASE 1 \in 1..Len(new) /\ Notices(new[1], v)
    BY <1>3, <1>6, <2>2 DEF AccessStepped
  <2> QED BY <1>5, <2>1, <2>2
<1>8. \A e \in DOMAIN auditEvents' : auditEvents'[e].bad =>
        \/ e \in DOMAIN auditEvents /\ auditEvents[e].bad /\ ~Notices(etodo[w][1], <<e, "builtin">>)
        \/ <<e, "builtin">> \in Noticed'
  BY <1>1, <1>3, <1>7
<1>9. UNCHANGED <<tenants, orgs, sites, principals, watched, violations, edeaths>> /\ RowsImported'
  BY <1>1, <1>4, ImportedStay
<1> QED BY <1>4, <1>6, <1>8, <1>9, EventsKept

LEMMA ImportKeeps ==
  ASSUME EInv, NEW w \in EWorkers, ImportRow(w)
  PROVE  EInv'
<1>1. /\ etodo[w] # <<>> /\ Head(etodo[w]) = etodo[w][1] /\ etodo[w][1] \in Ready /\ etodo[w][1].do = "import"
      /\ UNCHANGED <<tenants, orgs, sites, principals, watched, violations, edeaths, audits, fresh>>
  BY AccessHead DEF ImportRow
<1>2. PICK at, left : at = etodo[w][1].at /\ left = etodo[w][1].left
  OBVIOUS
<1>3. at \in Nat /\ left \in SUBSET Nat /\ left \subseteq DOMAIN audits
  BY <1>1, <1>2 DEF Ready, AccessSteps, PutSteps
<1>4. \A v : ~Notices(etodo[w][1], v)
  BY <1>1 DEF Notices
<1>5. /\ DOMAIN audits \subseteq Nat /\ DOMAIN audits' \subseteq Nat /\ DOMAIN auditEvents \subseteq EventIds
      /\ fresh' \in Nat /\ fresh <= fresh' /\ RowsImported
  BY <1>1 DEF EInv, ERowsOK
<1>6. ASSUME NEW new \in Seq(Ready), Continue(w, new), UNCHANGED auditEvents
      PROVE  EInv'
  <2>1. AccessStepped(w, etodo[w], new)
    BY <1>1, <1>6, EventStep
  <2>2. RowsImported'
    BY <1>1, <1>5, <1>6, ImportedStay
  <2> QED BY <1>1, <1>4, <1>5, <1>6, <2>1, <2>2, EventsKept
<1>7. CASE left = {} /\ Continue(w, <<>>) /\ UNCHANGED auditEvents
  <2>1. <<>> \in Seq(Ready)
    OBVIOUS
  <2> QED BY <1>6, <1>7, <2>1
<1>8. CASE Continue(w, Imports(at + 1, RowsOf(Legacy[at + 1]))) /\ UNCHANGED auditEvents
  <2>1. RowsOf(Legacy[at + 1]) \subseteq DOMAIN audits
    BY DEF RowsOf
  <2>2. PICK rows \in SUBSET DOMAIN audits : rows = RowsOf(Legacy[at + 1])
    BY <2>1
  <2>3. at + 1 \in Nat /\ rows \in SUBSET Nat
    BY <1>3, <1>5
  <2>4. Imports(at + 1, rows) \in Seq(Ready)
    BY <2>2, <2>3, ImportsReady
  <2> QED BY <1>6, <1>8, <2>2, <2>4
<1>9. ASSUME NEW a \in left,
             IF <<"legacy", a>> \in DOMAIN auditEvents
             THEN Continue(w, Imports(at, left \ {a})) /\ UNCHANGED auditEvents
             ELSE /\ auditEvents' = EPut(auditEvents, <<"legacy", a>>, LegacyEvent(audits[a]))
                  /\ Continue(w, Evaluates(<<"legacy", a>>, Condemned(audits[a])) \o Imports(at, left \ {a}))
      PROVE  EInv'
  <2>1. PICK e, rest : e = <<"legacy", a>> /\ rest = Imports(at, left \ {a})
    OBVIOUS
  <2>2. e \in EventIds /\ a \in DOMAIN audits /\ a \in Nat
    BY <1>3, <2>1 DEF EventIds
  <2>3. rest \in Seq(Ready)
    <3>1. PICK others : others = left \ {a}
      OBVIOUS
    <3>2. others \in SUBSET Nat /\ others \subseteq DOMAIN audits
      BY <1>3, <3>1
    <3> QED BY <1>3, <2>1, <3>1, <3>2, ImportsReady
  <2>4. CASE e \in DOMAIN auditEvents
    BY <1>6, <1>9, <2>1, <2>3, <2>4
  <2>5. CASE e \notin DOMAIN auditEvents
    <3>1. PICK b, row : b \in BOOLEAN /\ b = Condemned(audits[a]) /\ row = LegacyEvent(audits[a])
      BY DEF Condemned
    <3>2. auditEvents' = EPut(auditEvents, e, row) /\ Continue(w, Evaluates(e, b) \o rest)
      BY <1>9, <2>1, <2>5, <3>1
    <3>3. row.bad = b
      BY <3>1 DEF LegacyEvent
    <3>4. DOMAIN auditEvents' \subseteq EventIds
      BY <1>5, <2>2, <3>2 DEF EPut
    <3>5. \A k \in DOMAIN auditEvents' :
            auditEvents'[k].bad => (k \in DOMAIN auditEvents /\ auditEvents[k].bad) \/ (k = e /\ b)
      BY <3>2, <3>3 DEF EPut
    <3>6. PICK first, new : first = Evaluates(e, b) /\ new = first \o rest
      OBVIOUS
    <3>7. first \in Seq(Ready) /\ (b => 1 \in 1..Len(first) /\ Notices(first[1], <<e, "builtin">>))
      BY <2>2, <3>1, <3>6, EvaluatesReady
    <3>8. new \in Seq(Ready) /\ \A i \in 1..Len(first) : i \in 1..Len(new) /\ new[i] = first[i]
      BY <2>3, <3>6, <3>7, Concatenated
    <3>9. b => 1 \in 1..Len(new) /\ new[1] = first[1]
      BY <3>7, <3>8
    <3>10. AccessStepped(w, etodo[w], new)
      BY <1>1, <3>2, <3>6, <3>8, EventStep
    <3>11. <<e, "builtin">> \in ViolationIds
      BY <2>2 DEF ViolationIds
    <3>12. b => <<e, "builtin">> \in Noticed'
      BY <3>7, <3>9, <3>10, <3>11 DEF AccessStepped
    <3>13. RowsImported'
      <4>1. \A x \in DOMAIN audits' : x < fresh'
        BY <1>1, <1>5 DEF RowsImported
      <4>2. ASSUME NEW x \in Nat, <<"legacy", x>> \in DOMAIN auditEvents'
            PROVE  x \in DOMAIN audits' /\ (auditEvents'[<<"legacy", x>>].bad <=> Condemned(audits'[x]))
        <5>1. CASE x = a
          <6>1. auditEvents'[<<"legacy", x>>] = row
            BY <2>1, <3>2, <5>1 DEF EPut
          <6> QED BY <1>1, <2>2, <3>1, <3>3, <5>1, <6>1
        <5>2. CASE x # a
          <6>1. <<"legacy", x>> # e
            BY <2>1, <5>2
          <6>2. <<"legacy", x>> \in DOMAIN auditEvents /\ auditEvents'[<<"legacy", x>>] = auditEvents[<<"legacy", x>>]
            BY <3>2, <4>2, <6>1 DEF EPut
          <6> QED BY <1>1, <1>5, <6>2 DEF RowsImported
        <5> QED BY <5>1, <5>2
      <4> QED BY <4>1, <4>2 DEF RowsImported
    <3> QED BY <1>1, <1>4, <1>5, <3>4, <3>5, <3>10, <3>12, <3>13, EventsKept
  <2> QED BY <2>4, <2>5
<1>10. \/ left = {} /\ Continue(w, <<>>) /\ UNCHANGED auditEvents
       \/ Continue(w, Imports(at + 1, RowsOf(Legacy[at + 1]))) /\ UNCHANGED auditEvents
       \/ \E a \in left :
            IF <<"legacy", a>> \in DOMAIN auditEvents
            THEN Continue(w, Imports(at, left \ {a})) /\ UNCHANGED auditEvents
            ELSE /\ auditEvents' = EPut(auditEvents, <<"legacy", a>>, LegacyEvent(audits[a]))
                 /\ Continue(w, Evaluates(<<"legacy", a>>, Condemned(audits[a])) \o Imports(at, left \ {a}))
  BY <1>1, <1>2 DEF ImportRow
<1> QED BY <1>7, <1>8, <1>9, <1>10

LEMMA PurgeKeeps ==
  ASSUME EInv, NEW w \in EWorkers, PurgeEvent(w)
  PROVE  EInv'
<1>1. /\ etodo[w] # <<>> /\ Head(etodo[w]) = etodo[w][1] /\ etodo[w][1] \in Ready /\ etodo[w][1].do = "purge"
      /\ UNCHANGED <<tenants, orgs, sites, principals, watched, violations, edeaths, audits, fresh>>
  BY AccessHead DEF PurgeEvent
<1>2. PICK left : left = etodo[w][1].left /\ left \in SUBSET EventIds
  BY <1>1 DEF Ready, AccessSteps, PutSteps
<1>3. \A v : ~Notices(etodo[w][1], v)
  BY <1>1 DEF Notices
<1>4. DOMAIN audits' \subseteq Nat /\ DOMAIN auditEvents \subseteq EventIds /\ fresh' \in Nat /\ fresh <= fresh'
  BY <1>1 DEF EInv, ERowsOK
<1>5. ASSUME NEW new \in Seq(Ready), Continue(w, new), DOMAIN auditEvents' \subseteq DOMAIN auditEvents,
             \A e \in DOMAIN auditEvents' : auditEvents'[e] = auditEvents[e]
      PROVE  EInv'
  <2>1. AccessStepped(w, etodo[w], new)
    BY <1>1, <1>5, EventStep
  <2>2. DOMAIN auditEvents' \subseteq EventIds
    BY <1>4, <1>5
  <2>3. \A e \in DOMAIN auditEvents' : auditEvents'[e].bad => e \in DOMAIN auditEvents /\ auditEvents[e].bad
    BY <1>5
  <2>4. RowsImported'
    BY <1>1, <1>4, <1>5, ImportedStay
  <2> QED BY <1>1, <1>3, <1>4, <2>1, <2>2, <2>3, <2>4, EventsKept
<1>6. CASE left = {} /\ Continue(w, <<>>) /\ UNCHANGED auditEvents
  <2>1. <<>> \in Seq(Ready)
    OBVIOUS
  <2> QED BY <1>5, <1>6, <2>1
<1>7. ASSUME NEW e \in left, auditEvents' = [k \in DOMAIN auditEvents \ {e} |-> auditEvents[k]],
             Continue(w, <<[do |-> "purge", left |-> left \ {e}]>>)
      PROVE  EInv'
  <2>1. [do |-> "purge", left |-> left \ {e}] \in Ready
    BY <1>2 DEF Ready, AccessSteps
  <2>2. <<[do |-> "purge", left |-> left \ {e}]>> \in Seq(Ready)
    BY <2>1
  <2>3. DOMAIN auditEvents' \subseteq DOMAIN auditEvents
        /\ \A k \in DOMAIN auditEvents' : auditEvents'[k] = auditEvents[k]
    BY <1>7
  <2> QED BY <1>5, <1>7, <2>2, <2>3
<1> QED BY <1>1, <1>2, <1>6, <1>7 DEF PurgeEvent

LEMMA PutRowKeeps ==
  ASSUME EInv, NEW w \in EWorkers, PutRow(w)
  PROVE  EInv'
<1>1. PICK q, s, r : q = etodo[w] /\ s = q[1] /\ r = <<>> \o Tail(q)
  OBVIOUS
<1>2. q # <<>> /\ Head(q) = s /\ s \in Ready /\ s.do = "put"
  BY <1>1, AccessHead DEF PutRow
<1>3. /\ tenants' = IF s.kind = "tenant" THEN tenants \cup {s.key} ELSE tenants
      /\ orgs' = IF s.kind = "org" THEN EPut(orgs, s.key, s.row) ELSE orgs
      /\ sites' = IF s.kind = "site" THEN EPut(sites, s.key, s.row) ELSE sites
      /\ principals' = IF s.kind = "principal" THEN EPut(principals, s.key, s.row) ELSE principals
      /\ watched' = IF s.kind = "policy" THEN watched \cup {s.key} ELSE watched
      /\ violations' = IF s.kind = "violation" THEN EPut(violations, s.key, s.row) ELSE violations
      /\ etodo' = [etodo EXCEPT ![w] = r]
      /\ UNCHANGED <<audits, auditEvents, fresh, edeaths>>
  BY <1>1, <1>2 DEF PutRow, Continue
<1>4. ERowsOK
  BY DEF EInv
<1>5. s \in PutSteps
  BY <1>2 DEF Ready, AccessSteps
<1>6. /\ s.kind = "tenant" => s.key \in Tenants
      /\ s.kind = "org" => s.key \in Orgs /\ s.row \in tenants
      /\ s.kind = "site" => s.key \in Sites /\ s.row.tenant \in tenants /\ s.row.org \in DOMAIN orgs \cup {Nowhere}
      /\ s.kind = "principal" => s.key \in PrincipalIds /\ s.row \in PrincipalRow /\ s.row.tenant \in tenants
      /\ s.kind = "policy" => s.key \in CompliancePolicies
      /\ s.kind = "violation" => s.key \in ViolationIds /\ s.row \in {"open", "resolved"}
  BY <1>2, <1>5 DEF Ready, PutSteps
<1>7. tenants \subseteq tenants' /\ DOMAIN orgs \subseteq DOMAIN orgs' /\ DOMAIN violations \subseteq DOMAIN violations'
  BY <1>3 DEF EPut
<1>8. <<>> \in Seq(Ready')
  OBVIOUS
<1>9. AccessStepped(w, q, <<>>)
  <2>1. AccessStep(w, q, <<>>, r)
    BY <1>1, <1>2, <1>3, <1>7, <1>8 DEF AccessStep
  <2> QED BY <2>1, AccessMoves
<1>10. ETypeOK'
  <2>1. tenants' \subseteq Tenants
    BY <1>3, <1>4, <1>6 DEF ERowsOK, ETypeOK
  <2>2. DOMAIN orgs' \subseteq Orgs /\ \A o \in DOMAIN orgs' : orgs'[o] \in tenants'
    BY <1>3, <1>4, <1>6, <1>7 DEF ERowsOK, ETypeOK, EPut
  <2>3. /\ DOMAIN sites' \subseteq Sites
        /\ \A k \in DOMAIN sites' : sites'[k].tenant \in tenants' /\ sites'[k].org \in DOMAIN orgs' \cup {Nowhere}
    BY <1>3, <1>4, <1>6, <1>7 DEF ERowsOK, ETypeOK, EPut
  <2>4. /\ DOMAIN principals' \subseteq PrincipalIds
        /\ \A id \in DOMAIN principals' : principals'[id] \in PrincipalRow /\ principals'[id].tenant \in tenants'
    BY <1>3, <1>4, <1>6, <1>7 DEF ERowsOK, ETypeOK, EPut
  <2>5. \A v \in DOMAIN violations' : violations'[v] \in {"open", "resolved"}
    BY <1>3, <1>4, <1>6 DEF ERowsOK, ETypeOK, EPut
  <2> QED BY <2>1, <2>2, <2>3, <2>4, <2>5 DEF ETypeOK
<1>11. watched' \subseteq CompliancePolicies /\ IsFiniteSet(watched')
  <2>1. watched \subseteq CompliancePolicies /\ IsFiniteSet(watched)
    BY <1>4 DEF ERowsOK
  <2>2. IsFiniteSet(watched \cup {s.key})
    BY <2>1, FS_AddElement
  <2> QED BY <1>3, <1>6, <2>1, <2>2
<1>12. DOMAIN violations' \subseteq ViolationIds
  BY <1>3, <1>4, <1>6 DEF ERowsOK, EPut
<1>13. ERowsOK'
  BY <1>3, <1>4, <1>10, <1>11, <1>12 DEF ERowsOK
<1>14. \A v : Notices(s, v) => v \in DOMAIN violations'
  BY <1>2, <1>3 DEF Notices, EPut
<1>15. \A v \in Noticed : v \in Noticed'
  BY <1>1, <1>9, <1>14 DEF AccessStepped, Noticed
<1>16. EventsNoticed' /\ RowsImported'
  <2>1. RowsImported'
    BY <1>3, <1>4, ImportedStay DEF ERowsOK
  <2> QED BY <1>3, <1>15, <2>1 DEF EInv, EventsNoticed
<1> QED BY <1>9, <1>13, <1>16 DEF EInv, AccessStepped

LEMMA AccessFailureKeeps ==
  ASSUME EInv, NEW w \in EWorkers, FailEHandler(w)
  PROVE  EInv'
<1>1. /\ etodo' = [etodo EXCEPT ![w] = <<>>] /\ edeaths' = edeaths + 1
      /\ UNCHANGED <<tenants, orgs, sites, principals, audits, auditEvents, watched, violations, fresh>>
  BY DEF FailEHandler, estores
<1>2. <<>> \in Seq(Ready) /\ Ready' = Ready
  BY <1>1 DEF Ready
<1>3. etodo' \in [EWorkers -> Seq(Ready')]
  BY <1>1, <1>2 DEF EInv
<1>4. ERowsOK' /\ edeaths' # 0
  BY <1>1 DEF EInv, ERowsOK, ETypeOK
<1>5. EventsNoticed' /\ RowsImported'
  <2>1. RowsImported'
    BY <1>1, ImportedStay DEF EInv, ERowsOK
  <2> QED BY <1>4, <2>1 DEF EventsNoticed
<1> QED BY <1>3, <1>4, <1>5 DEF EInv

LEMMA EInvHolds == ESpec => []EInv
<1>1. EInit => EInv
  <2> SUFFICES ASSUME EInit PROVE EInv
    OBVIOUS
  <2>1. <<>> \in Seq(Ready)
    OBVIOUS
  <2>2. IsFiniteSet({})
    BY FS_EmptySet
  <2>3. DOMAIN auditEvents = {} /\ DOMAIN violations = {}
    BY DEF EInit
  <2>0. /\ audits \in Seq(AuditRow) /\ DOMAIN audits \subseteq Nat /\ fresh \in Nat
        /\ \A a \in DOMAIN audits : a < fresh
    <3>1. audits \in Seq(AuditRow) /\ fresh = Len(audits) + 1
      BY EAssumption DEF EInit
    <3>2. Len(audits) \in Nat /\ DOMAIN audits = 1..Len(audits)
      BY <3>1
    <3> QED BY <3>1, <3>2
  <2>4. DOMAIN orgs = {} /\ DOMAIN sites = {} /\ DOMAIN principals = {} /\ tenants \subseteq Tenants
    BY EAssumption DEF EInit
  <2>5. ERowsOK
    BY <2>0, <2>2, <2>3, <2>4 DEF EInit, ERowsOK, ETypeOK
  <2>6. EventsNoticed /\ RowsImported
    BY <2>0, <2>3 DEF EventsNoticed, RowsImported
  <2> QED BY <2>1, <2>5, <2>6 DEF EInit, EInv
<1>2. EInv /\ [ENext]_evars => EInv'
  <2> SUFFICES ASSUME EInv, [ENext]_evars PROVE EInv'
    OBVIOUS
  <2>1. CASE NextDay \/ UNCHANGED evars
    <3>1. UNCHANGED <<tenants, orgs, sites, principals, audits, auditEvents, watched, violations, fresh, etodo, edeaths>>
      BY <2>1 DEF NextDay, evars, estores
    <3>2. Ready' = Ready /\ Noticed' = Noticed
      BY <3>1 DEF Ready, Noticed
    <3>3. ERowsOK' /\ EventsNoticed' /\ RowsImported'
      BY <3>1, <3>2 DEF EInv, ERowsOK, ETypeOK, EventsNoticed, RowsImported, Condemned
    <3> QED BY <3>1, <3>2, <3>3 DEF EInv
  <2>2. ASSUME NEW w \in EWorkers, IdentityRequest(w) \/ AccessRequest(w) \/ HistoryRequest(w) \/ AuditRequest(w) PROVE EInv'
    BY <2>2, IdentityRequestsKeep, AccessRequestsKeep, HistoryRequestsKeep, AuditRequestsKeep
  <2>3. ASSUME NEW w \in EWorkers, EStep(w) \/ FailEHandler(w) PROVE EInv'
    BY <2>3, PutRowKeeps, AuditKeeps, SpanKeeps, StoreEventKeeps, PoliciesKeep, ViolateKeeps, ImportKeeps, PurgeKeeps,
       AccessFailureKeeps DEF EStep
  <2> QED BY <2>1, <2>2, <2>3 DEF ENext
<1> QED BY <1>1, <1>2, PTL DEF ESpec

\* The rows of the identity store refer to rows that are stored: an upsert looks up what
\* it refers to (enterprise_identity.py) and nothing deletes a tenant or an organization.
THEOREM ReferencesHold == ESpec => []ETypeOK
<1>1. EInv => ETypeOK
  BY DEF EInv, ERowsOK
<1> QED BY <1>1, EInvHolds, PTL

\* Whatever was denied or failed and has its event has its violation once the handlers
\* are done and none failed, and so has every row of the older audits that tells of a
\* denial or a failure and was imported, but for those of batches: the event is stored
\* first, its built-in violation by the steps that follow, and the rows stay
\* (audit_center.py, emit, import_legacy and _evaluate_native_event).
THEOREM DenialsAreViolations == ESpec => []DeniedIsViolation
<1>1. EInv => DeniedIsViolation
  <2> SUFFICES ASSUME EInv, edeaths = 0, \A w \in EWorkers : etodo[w] = <<>>
               PROVE  /\ \A e \in DOMAIN auditEvents : auditEvents[e].bad => <<e, "builtin">> \in DOMAIN violations
                      /\ \A a \in DOMAIN audits :
                           <<"legacy", a>> \in DOMAIN auditEvents /\ ~audits[a].good /\ audits[a].from # "batch"
                             => <<<<"legacy", a>>, "builtin">> \in DOMAIN violations
    BY DEF DeniedIsViolation
  <2>1. ASSUME NEW e \in DOMAIN auditEvents, auditEvents[e].bad PROVE <<e, "builtin">> \in DOMAIN violations
    <3>1. <<e, "builtin">> \in Noticed
      BY <2>1 DEF EInv, EventsNoticed
    <3> QED BY <3>1 DEF Noticed
  <2>2. ASSUME NEW a \in DOMAIN audits, <<"legacy", a>> \in DOMAIN auditEvents, ~audits[a].good,
               audits[a].from # "batch"
        PROVE  auditEvents[<<"legacy", a>>].bad
    <3>1. a \in Nat /\ Condemned(audits[a])
      BY <2>2 DEF EInv, ERowsOK, Condemned
    <3> QED BY <2>2, <3>1 DEF EInv, RowsImported
  <2> QED BY <2>1, <2>2
<1> QED BY <1>1, EInvHolds, PTL

\* The filter of a list and the check of one resource decide alike, whatever the scope:
\* two copies of the same conditions (enterprise_identity.py, filter_resources and check).
THEOREM FilterAgrees == ESpec => []FilterAgreesWithCheck
<1>1. FilterAgreesWithCheck
  BY DEF FilterAgreesWithCheck, FilterResources, CheckReason
<1> QED BY <1>1, PTL

-----------------------------------------------------------------------------
(* Collaboration: what handlers have to do.                                *)

Recipients == People \cup {Nobody}
EventRow == [item : Items, kind : {"created", "assigned", "handoff", "watch", "unwatch", "sla_updated", "comment"},
             to : Recipients \cup Dues]
BoardRow == [item : Items, due : Dues \ {NoDue}, state : {"overdue", "due_soon"}, assignee : Recipients]
HandoverRow == [out : People, in : People, status : {"pending_ack", "accepted"}, items : SUBSET Items,
                escs : SUBSET EscalationIds]
AckRow == [handover : Handovers, role : {"outgoing", "incoming"}, by : People]
ReportRow == [items : SUBSET Items, escs : SUBSET EscalationIds, pending : SUBSET Orders]

\* The last entry of the history of an order says how it stands.
Explained(row) ==
  LET last == row.history[Len(row.history)] IN
    /\ row.status = IF last = "created" THEN "draft" ELSE last
    /\ row.status = "dispatched" => row.external
OrderRow ==
  {row \in [status : {"draft", "approved", "dispatched"}, external : BOOLEAN,
            history : Seq({"created", "approved", "dispatched"})] : row.history # <<>> /\ Explained(row)}

ChangeSteps ==
  [do : {"change"}, key : Items, field : {"assignee"}, to : People, kind : {"assigned", "handoff"}]
    \cup [do : {"change"}, key : Items, field : {"watch", "unwatch"}, to : People, kind : {"watch", "unwatch"}]
    \cup [do : {"change"}, key : Items, field : {"due"}, to : Dues, kind : {"sla_updated"}]

CoToDo ==
  ChangeSteps
    \cup [do : {"item"}, key : Items, row : ItemRow]
    \cup [do : {"event"}, row : EventRow]
    \cup [do : {"comment"}, row : [item : Items, author : People]]
    \cup [do : {"policy"}, key : Policies, row : PolicyRows]
    \cup [do : {"oncall"}, row : Seq(People)]
    \cup [do : {"consider"}, left : SUBSET BoardRow]
    \cup [do : {"escalate"}, key : EscalationIds, row : Recipients]
    \cup [do : {"notify"}, esc : EscalationIds, to : Recipients, left : SUBSET Channels]
    \cup [do : {"handover"}, key : Handovers, row : HandoverRow]
    \cup [do : {"ack"}, row : AckRow]
    \cup [do : {"snapshot"}, key : Handovers, out : People, in : People, items : SUBSET Items]
    \cup [do : {"summarise"}, items : SUBSET Items]
    \cup [do : {"report"}, row : ReportRow]
    \cup [do : {"order"}, key : Orders, row : OrderRow]

\* Steps that put other steps in their place: the last of their handlers.
Lasts == {"change", "consider", "snapshot", "summarise"}

\* What a step relies on, and what it sees to.  Nothing of the kind is ever deleted.
Needs(s, fact) ==
  \/ s.do = "comment" /\ fact = <<"item", s.row.item>>
  \/ s.do = "change" /\ fact = <<"item", s.key>>
  \/ s.do = "consider" /\ \E seen \in s.left : fact = <<"item", seen.item>>
  \/ s.do = "escalate" /\ fact = <<"item", s.key[1]>>
  \/ s.do = "notify" /\ fact = <<"escalation", s.esc>>
  \/ s.do \in {"handover", "report"} /\ \E e \in s.row.escs : fact = <<"escalation", e>>
  \/ s.do = "handover" /\ s.row.status = "accepted"
       /\ fact = <<"ack", [handover |-> s.key, role |-> "incoming", by |-> s.row.in]>>

Gives(s, fact) ==
  \/ s.do = "item" /\ fact = <<"item", s.key>>
  \/ s.do = "escalate" /\ fact = <<"escalation", s.key>>
  \/ s.do = "ack" /\ fact = <<"ack", s.row>>

Facts ==
  {<<"item", i>> : i \in DOMAIN items} \cup {<<"escalation", e>> : e \in DOMAIN escalations}
    \cup {<<"ack", a>> : a \in acks}

\* A deadline that is near or over stays so.
Warranted(e) == IF e[3] = "overdue" THEN e[2] < now ELSE e[2] <= now + 1
Timely(s) ==
  /\ s.do = "escalate" => Warranted(s.key)
  /\ s.do = "consider" => \A seen \in s.left : Warranted(<<seen.item, seen.due, seen.state>>)

\* What a step needs is stored, or given by a step before it.
CoQueues ==
  {q \in Seq(CoToDo) : \A i \in 1..Len(q) :
     /\ \A fact : Needs(q[i], fact) => fact \in Facts \/ \E j \in 1..(i - 1) : Gives(q[j], fact)
     /\ Timely(q[i])
     /\ q[i].do \in Lasts => i = Len(q)}

\* What events say, those that are stored and those that are about to be.
Says(e, claim) ==
  \/ e.kind \in {"assigned", "handoff"} /\ claim = <<e.item, "assignee", e.to>>
  \/ e.kind = "sla_updated" /\ claim = <<e.item, "due", e.to>>
Queued == {s \in CoToDo : \E w \in CoWorkers : \E i \in 1..Len(cotodo[w]) : cotodo[w][i] = s}
Said ==
  {claim \in Items \X {"assignee", "due"} \X (Recipients \cup Dues) :
     (\E e \in events : Says(e, claim)) \/ \E s \in Queued : s.do = "event" /\ Says(s.row, claim)}

Accounted(row, i) ==
  /\ row.assignee # Nobody => <<i, "assignee", row.assignee>> \in Said
  /\ row.due # NoDue => <<i, "due", row.due>> \in Said

CoRowsOK ==
  /\ CoTypeOK
  /\ \A id \in DOMAIN policies : policies[id] \in PolicyRows
  /\ oncall \in Seq(People)
  /\ \A h \in DOMAIN handovers : handovers[h] \in HandoverRow
  /\ \A o \in DOMAIN orders : orders[o] \in OrderRow
  /\ codeaths \in Nat

\* What the queues promise each other, of what is stored.
CoRowsBacked ==
  /\ \A c \in comments : c.item \in DOMAIN items
  /\ EscalationWarranted
  /\ AcceptedHasAck

ItemsAccounted ==
  codeaths = 0 =>
    /\ \A i \in DOMAIN items : Accounted(items[i], i)
    /\ \A s \in Queued : s.do = "item" => Accounted(s.row, s.key)

CoInv == CoRowsOK /\ CoRowsBacked /\ ItemsAccounted /\ cotodo \in [CoWorkers -> CoQueues]

LEMMA CoQueuesGrow == now \in Nat /\ now' \in Nat /\ now <= now' /\ Facts \subseteq Facts' => CoQueues \subseteq CoQueues'
<1> SUFFICES ASSUME now \in Nat, now' \in Nat, now <= now', Facts \subseteq Facts', NEW q \in CoQueues
             PROVE  q \in CoQueues'
  OBVIOUS
<1>1. q \in Seq(CoToDo)
  BY DEF CoQueues
<1>2. ASSUME NEW i \in 1..Len(q) PROVE Timely(q[i])'
  <2>1. q[i] \in CoToDo /\ Timely(q[i])
    BY <1>1 DEF CoQueues
  <2>2. ASSUME NEW e \in EscalationIds, Warranted(e) PROVE Warranted(e)'
    <3>1. e[2] \in Int
      BY CoAssumption DEF EscalationIds, Dues, NoDue
    <3> QED BY <2>2, <3>1 DEF Warranted
  <2>3. q[i].do = "escalate" => q[i].key \in EscalationIds
    BY <2>1 DEF CoToDo, ChangeSteps
  <2>4. q[i].do = "consider" => \A seen \in q[i].left : <<seen.item, seen.due, seen.state>> \in EscalationIds
    <3>1. q[i].do = "consider" => q[i].left \subseteq BoardRow
      BY <2>1 DEF CoToDo, ChangeSteps
    <3> QED BY <3>1 DEF BoardRow, EscalationIds
  <2> QED BY <2>1, <2>2, <2>3, <2>4 DEF Timely
<1> QED BY <1>1, <1>2 DEF CoQueues

\* A worker's queue q turns into new followed by what was behind the first step of q.
StepMoved(q, new, r) ==
  /\ r \in Seq(CoToDo) /\ Len(r) = Len(new) + Len(q) - 1
  /\ \A i \in 1..Len(new) : r[i] = new[i]
  /\ \A i \in 2..Len(q) : r[Len(new) + i - 1] = q[i]
  /\ \A i \in 1..Len(r) : i > Len(new) => i + 1 - Len(new) \in 2..Len(q) /\ r[i] = q[i + 1 - Len(new)]

StepsOf(q) == {q[i] : i \in 1..Len(q)}

CoMove(w, q, new, r) ==
  /\ q = cotodo[w] /\ q # <<>> /\ new \in CoQueues' /\ StepMoved(q, new, r)
  /\ Len(q) = 1 \/ \A s \in StepsOf(new) : s.do \notin Lasts
  /\ cotodo' = [cotodo EXCEPT ![w] = r]
  /\ now' \in Nat /\ now <= now' /\ Facts \subseteq Facts'
  /\ \A fact : Gives(q[1], fact) => fact \in Facts'

CoMoved(w, q, new) ==
  /\ cotodo' \in [CoWorkers -> CoQueues']
  /\ Queued' \subseteq Queued \cup StepsOf(new)
  /\ Queued \subseteq Queued' \cup {q[1]}
  /\ StepsOf(new) \subseteq Queued'

LEMMA CoMoves ==
  ASSUME CoInv, NEW w \in CoWorkers, NEW q, NEW new, NEW r, CoMove(w, q, new, r)
  PROVE  CoMoved(w, q, new)
<1>1. now \in Nat
  BY DEF CoInv, CoRowsOK, CoTypeOK
<1>2. /\ q = cotodo[w] /\ q # <<>> /\ new \in CoQueues' /\ StepMoved(q, new, r)
      /\ Len(q) = 1 \/ \A s \in StepsOf(new) : s.do \notin Lasts
      /\ cotodo' = [cotodo EXCEPT ![w] = r]
      /\ CoQueues \subseteq CoQueues' /\ Facts \subseteq Facts'
      /\ \A fact : Gives(q[1], fact) => fact \in Facts'
  BY <1>1, CoQueuesGrow DEF CoMove
<1>3. cotodo \in [CoWorkers -> CoQueues] /\ q \in CoQueues
  BY <1>2 DEF CoInv
<1>4. q \in CoQueues' /\ q \in Seq(CoToDo) /\ new \in Seq(CoToDo)
  BY <1>2, <1>3 DEF CoQueues
<1>5. Len(q) \in Nat /\ Len(q) > 0 /\ Len(new) \in Nat /\ r \in Seq(CoToDo) /\ Len(r) = Len(new) + Len(q) - 1
  BY <1>2, <1>4 DEF StepMoved
<1>6. ASSUME NEW i \in 1..Len(r)
      PROVE  /\ \A fact : Needs(r[i], fact) => fact \in Facts' \/ \E j \in 1..(i - 1) : Gives(r[j], fact)
             /\ Timely(r[i])'
             /\ r[i].do \in Lasts => i = Len(r)
  <2>1. CASE i <= Len(new)
    <3>1. i \in 1..Len(new) /\ r[i] = new[i] /\ \A j \in 1..(i - 1) : j \in 1..Len(new) /\ r[j] = new[j]
      BY <1>2, <1>5, <2>1 DEF StepMoved
    <3>2. /\ \A fact : Needs(new[i], fact) => fact \in Facts' \/ \E j \in 1..(i - 1) : Gives(new[j], fact)
          /\ Timely(new[i])'
          /\ new[i].do \in Lasts => i = Len(new)
      BY <1>2, <3>1 DEF CoQueues
    <3>3. new[i] \in StepsOf(new)
      BY <3>1 DEF StepsOf
    <3>4. r[i].do \in Lasts => i = Len(r)
      <4>1. CASE Len(q) = 1
        <5>1. Len(r) = Len(new)
          BY <1>5, <4>1
        <5> QED BY <3>1, <3>2, <5>1
      <4>2. CASE \A s \in StepsOf(new) : s.do \notin Lasts
        BY <3>1, <3>3, <4>2
      <4> QED BY <1>2, <4>1, <4>2
    <3> QED BY <3>1, <3>2, <3>4
  <2>2. CASE i > Len(new)
    <3>1. PICK k : k = i + 1 - Len(new)
      OBVIOUS
    <3>2. k \in 2..Len(q) /\ r[i] = q[k] /\ k \in 1..Len(q)
      BY <1>2, <1>5, <2>2, <3>1 DEF StepMoved
    <3>3. /\ \A fact : Needs(q[k], fact) => fact \in Facts' \/ \E j \in 1..(k - 1) : Gives(q[j], fact)
          /\ Timely(q[k])'
          /\ q[k].do \in Lasts => k = Len(q)
      BY <1>4, <3>2 DEF CoQueues
    <3>4. ASSUME NEW fact, NEW j \in 1..(k - 1), Gives(q[j], fact)
          PROVE  fact \in Facts' \/ \E m \in 1..(i - 1) : Gives(r[m], fact)
      <4>1. CASE j = 1
        BY <1>2, <3>4, <4>1
      <4>2. CASE j # 1
        <5>1. j \in 2..Len(q)
          BY <1>5, <3>2, <4>2
        <5>2. Len(new) + j - 1 \in 1..(i - 1)
          <6>1. i \in Nat /\ j \in Nat /\ j > 1 /\ j <= k - 1 /\ k - 1 = i - Len(new)
            BY <1>5, <3>1, <3>2, <4>2
          <6> QED BY <1>5, <6>1
        <5>3. r[Len(new) + j - 1] = q[j]
          BY <1>2, <5>1 DEF StepMoved
        <5> QED BY <3>4, <5>2, <5>3
      <4> QED BY <4>1, <4>2
    <3>5. r[i].do \in Lasts => i = Len(r)
      BY <1>5, <3>1, <3>2, <3>3
    <3> QED BY <3>2, <3>3, <3>4, <3>5
  <2> QED BY <1>5, <2>1, <2>2
<1>7. r \in CoQueues'
  BY <1>5, <1>6 DEF CoQueues
<1>8. cotodo' \in [CoWorkers -> CoQueues']
  BY <1>2, <1>3, <1>7
<1>9. cotodo'[w] = r /\ \A u \in CoWorkers : u # w => cotodo'[u] = cotodo[u]
  BY <1>2, <1>3
<1>10. Queued' \subseteq Queued \cup StepsOf(new)
  <2> SUFFICES ASSUME NEW s \in Queued', s \notin Queued PROVE s \in StepsOf(new)
    OBVIOUS
  <2>1. s \in CoToDo /\ \A u \in CoWorkers : \A i \in 1..Len(cotodo[u]) : cotodo[u][i] # s
    BY DEF Queued
  <2>2. PICK u \in CoWorkers, i \in Nat : i \in 1..Len(cotodo'[u]) /\ cotodo'[u][i] = s
    BY DEF Queued
  <2>3. u = w
    BY <1>9, <2>1, <2>2
  <2>4. i \in 1..Len(r) /\ r[i] = s
    BY <1>9, <2>2, <2>3
  <2>5. i <= Len(new)
    <3> SUFFICES ASSUME i > Len(new) PROVE FALSE
      BY <1>5
    <3>1. PICK k : k = i + 1 - Len(new)
      OBVIOUS
    <3>2. k \in 1..Len(q) /\ r[i] = q[k]
      BY <1>2, <1>5, <2>4, <3>1 DEF StepMoved
    <3> QED BY <1>2, <2>1, <2>4, <3>2
  <2>6. i \in 1..Len(new) /\ new[i] = s
    BY <1>2, <1>5, <2>4, <2>5 DEF StepMoved
  <2> QED BY <2>6 DEF StepsOf
<1>11. Queued \subseteq Queued' \cup {q[1]}
  <2> SUFFICES ASSUME NEW s \in Queued, s # q[1] PROVE s \in Queued'
    OBVIOUS
  <2>1. PICK u \in CoWorkers, i \in Nat : i \in 1..Len(cotodo[u]) /\ cotodo[u][i] = s
    BY DEF Queued
  <2>2. s \in CoToDo
    BY DEF Queued
  <2>3. CASE u # w
    BY <1>9, <2>1, <2>2, <2>3 DEF Queued
  <2>4. CASE u = w
    <3>1. i \in 2..Len(q) /\ q[i] = s
      BY <1>2, <1>5, <2>1, <2>4
    <3>2. Len(new) + i - 1 \in 1..Len(r) /\ r[Len(new) + i - 1] = s
      BY <1>2, <1>5, <3>1 DEF StepMoved
    <3> QED BY <1>9, <2>2, <3>2 DEF Queued
  <2> QED BY <2>3, <2>4
<1>12. StepsOf(new) \subseteq Queued'
  <2> SUFFICES ASSUME NEW i \in 1..Len(new) PROVE new[i] \in Queued'
    BY DEF StepsOf
  <2>1. new[i] \in CoToDo /\ i \in 1..Len(r) /\ r[i] = new[i]
    BY <1>2, <1>4, <1>5 DEF StepMoved
  <2> QED BY <1>9, <2>1 DEF Queued
<1> QED BY <1>8, <1>10, <1>11, <1>12 DEF CoMoved

\* The fields of a step, by what it does.
LEMMA CoStepTypes ==
  ASSUME NEW s \in CoToDo
  PROVE  /\ s.do = "item" => s.key \in Items /\ s.row \in ItemRow
         /\ s.do = "event" => s.row \in EventRow
         /\ s.do = "comment" => s.row \in [item : Items, author : People]
         /\ s.do = "policy" => s.key \in Policies /\ s.row \in PolicyRows
         /\ s.do = "oncall" => s.row \in Seq(People)
         /\ s.do = "consider" => s.left \in SUBSET BoardRow
         /\ s.do = "escalate" => s.key \in EscalationIds /\ s.row \in Recipients
         /\ s.do = "notify" => s.esc \in EscalationIds /\ s.to \in Recipients /\ s.left \in SUBSET Channels
         /\ s.do = "handover" => s.key \in Handovers /\ s.row \in HandoverRow
         /\ s.do = "ack" => s.row \in AckRow
         /\ s.do = "snapshot" => s.key \in Handovers /\ s.out \in People /\ s.in \in People /\ s.items \in SUBSET Items
         /\ s.do = "summarise" => s.items \in SUBSET Items
         /\ s.do = "report" => s.row \in ReportRow
         /\ s.do = "order" => s.key \in Orders /\ s.row \in OrderRow
         /\ s.do = "change" => s \in ChangeSteps
  BY DEF CoToDo, ChangeSteps

\* The first step of a queue relies on what is stored.
LEMMA CoHead ==
  ASSUME CoInv, NEW w \in CoWorkers, cotodo[w] # <<>>
  PROVE  /\ cotodo[w] \in CoQueues /\ cotodo[w] \in Seq(CoToDo) /\ Len(cotodo[w]) \in Nat /\ Len(cotodo[w]) > 0
         /\ Head(cotodo[w]) = cotodo[w][1] /\ cotodo[w][1] \in CoToDo
         /\ \A fact : Needs(cotodo[w][1], fact) => fact \in Facts
         /\ Timely(cotodo[w][1])
         /\ cotodo[w][1].do \in Lasts => Len(cotodo[w]) = 1
<1>1. PICK q : q = cotodo[w]
  OBVIOUS
<1>2. q \in CoQueues /\ q # <<>>
  BY <1>1 DEF CoInv
<1>3. q \in Seq(CoToDo)
  BY <1>2 DEF CoQueues
<1>4. Len(q) \in Nat /\ Len(q) > 0 /\ Head(q) = q[1] /\ q[1] \in CoToDo /\ 1 \in 1..Len(q)
  BY <1>2, <1>3
<1>5. \A j \in 1..(1 - 1) : FALSE
  OBVIOUS
<1>6. /\ \A fact : Needs(q[1], fact) => fact \in Facts \/ \E j \in 1..(1 - 1) : Gives(q[j], fact)
      /\ Timely(q[1])
      /\ q[1].do \in Lasts => 1 = Len(q)
  BY <1>2, <1>4 DEF CoQueues
<1> QED BY <1>1, <1>2, <1>3, <1>4, <1>5, <1>6

LEMMA NothingQueued == <<>> \in CoQueues /\ StepsOf(<<>>) = {}
  BY DEF CoQueues, StepsOf

LEMMA MovedOn ==
  ASSUME NEW q \in Seq(CoToDo), q # <<>>, NEW new \in Seq(CoToDo), NEW r, r = new \o Tail(q)
  PROVE  StepMoved(q, new, r)
  BY Continued DEF StepMoved

LEMMA MovedTail ==
  ASSUME NEW q \in Seq(CoToDo), q # <<>>, NEW r, r = Tail(q)
  PROVE  StepMoved(q, <<>>, r)
<1>1. r \in Seq(CoToDo) /\ Len(r) = Len(q) - 1 /\ \A i \in 1..Len(r) : r[i] = q[i + 1]
  OBVIOUS
<1>2. Len(q) \in Nat /\ Len(<<>>) = 0
  OBVIOUS
<1>3. ASSUME NEW i \in 2..Len(q) PROVE r[0 + i - 1] = q[i]
  <2>1. i - 1 \in 1..Len(r) /\ (i - 1) + 1 = i /\ 0 + i - 1 = i - 1
    BY <1>1, <1>2
  <2> QED BY <1>1, <2>1
<1>4. ASSUME NEW i \in 1..Len(r) PROVE i + 1 - 0 \in 2..Len(q) /\ r[i] = q[i + 1 - 0]
  BY <1>1, <1>2
<1> QED BY <1>1, <1>2, <1>3, <1>4 DEF StepMoved

LEMMA MovedWhole ==
  ASSUME NEW q, Len(q) = 1, NEW new \in Seq(CoToDo)
  PROVE  StepMoved(q, new, new)
<1>1. Len(new) \in Nat
  OBVIOUS
<1> QED BY <1>1 DEF StepMoved

\* What is said stays said, but for an event that is put.
LEMMA SaidStays ==
  ASSUME NEW s, Queued \subseteq Queued' \cup {s}, events \subseteq events', s.do = "event" => s.row \in events'
  PROVE  Said \subseteq Said'
<1> SUFFICES ASSUME NEW claim \in Said PROVE claim \in Said'
  OBVIOUS
<1>1. claim \in Items \X {"assignee", "due"} \X (Recipients \cup Dues)
  BY DEF Said
<1>2. CASE \E e \in events : Says(e, claim)
  BY <1>1, <1>2 DEF Said
<1>3. CASE \E t \in Queued : t.do = "event" /\ Says(t.row, claim)
  BY <1>1, <1>3 DEF Said
<1> QED BY <1>2, <1>3 DEF Said

\* A step that puts other steps in its place and stores nothing items depend on.
CoThought(w, new, r) ==
  /\ cotodo[w] # <<>> /\ cotodo[w][1].do \notin {"item", "event", "escalate", "ack"}
  /\ \/ Len(cotodo[w]) = 1 /\ r = new
     \/ r = new \o Tail(cotodo[w]) /\ \A s \in StepsOf(new) : s.do \notin Lasts
  /\ cotodo' = [cotodo EXCEPT ![w] = r]
  /\ UNCHANGED <<now, items, events, escalations, acks, codeaths>>

LEMMA CoThoughtMoves ==
  ASSUME CoInv, NEW w \in CoWorkers, NEW new \in CoQueues, NEW r, CoThought(w, new, r)
  PROVE  CoMoved(w, cotodo[w], new) /\ Said \subseteq Said'
<1>1. PICK q : q = cotodo[w]
  OBVIOUS
<1>2. q \in Seq(CoToDo) /\ q # <<>> /\ now \in Nat
  BY <1>1, CoHead DEF CoThought, CoInv, CoRowsOK, CoTypeOK
<1>3. Facts' = Facts /\ CoQueues' = CoQueues
  <2>1. Facts' = Facts
    BY DEF CoThought, Facts
  <2> QED BY <2>1 DEF CoThought, CoQueues, Timely, Warranted
<1>4. new \in Seq(CoToDo)
  BY DEF CoQueues
<1>5. StepMoved(q, new, r) /\ (Len(q) = 1 \/ \A s \in StepsOf(new) : s.do \notin Lasts)
  BY <1>1, <1>2, <1>4, MovedOn, MovedWhole DEF CoThought
<1>6. \A fact : ~Gives(q[1], fact)
  BY <1>1 DEF CoThought, Gives
<1>7. CoMove(w, q, new, r)
  BY <1>1, <1>2, <1>3, <1>5, <1>6 DEF CoThought, CoMove
<1>8. CoMoved(w, q, new)
  BY <1>7, CoMoves
<1>9. Said \subseteq Said'
  BY <1>1, <1>8, SaidStays DEF CoThought, CoMoved
<1> QED BY <1>1, <1>8, <1>9

LEMMA CoThinks ==
  ASSUME CoInv, NEW w \in CoWorkers, NEW new \in CoQueues, NEW r, CoThought(w, new, r),
         \A s \in StepsOf(new) : s.do = "item" => (codeaths = 0 => Accounted(s.row, s.key)')
  PROVE  cotodo' \in [CoWorkers -> CoQueues'] /\ ItemsAccounted'
<1>1. CoMoved(w, cotodo[w], new) /\ Said \subseteq Said' /\ UNCHANGED <<items, codeaths>>
  BY CoThoughtMoves DEF CoThought
<1>2. ItemsAccounted'
  <2> SUFFICES ASSUME codeaths = 0
               PROVE  /\ \A i \in DOMAIN items : Accounted(items[i], i)'
                      /\ \A s \in Queued' : s.do = "item" => Accounted(s.row, s.key)'
    BY <1>1 DEF ItemsAccounted
  <2>1. /\ \A i \in DOMAIN items : Accounted(items[i], i)
        /\ \A s \in Queued : s.do = "item" => Accounted(s.row, s.key)
    BY DEF CoInv, ItemsAccounted
  <2>2. \A i \in DOMAIN items : Accounted(items[i], i)'
    BY <1>1, <2>1 DEF Accounted
  <2>3. \A s \in Queued : s.do = "item" => Accounted(s.row, s.key)'
    BY <1>1, <2>1 DEF Accounted
  <2> QED BY <1>1, <2>2, <2>3 DEF CoMoved
<1> QED BY <1>1, <1>2 DEF CoMoved

\* A step that puts a row.
LEMMA CoPuts ==
  ASSUME CoInv, NEW w \in CoWorkers, cotodo[w] # <<>>, cotodo' = [cotodo EXCEPT ![w] = Tail(@)],
         UNCHANGED <<now, codeaths>>, Facts \subseteq Facts',
         \A fact : Gives(cotodo[w][1], fact) => fact \in Facts',
         events \subseteq events', cotodo[w][1].do = "event" => cotodo[w][1].row \in events',
         \/ UNCHANGED items
         \/ cotodo[w][1].do = "item" /\ items' = CoPut(items, cotodo[w][1].key, cotodo[w][1].row)
  PROVE  cotodo' \in [CoWorkers -> CoQueues'] /\ ItemsAccounted'
<1>1. PICK q, r : q = cotodo[w] /\ r = Tail(q)
  OBVIOUS
<1>2. q \in Seq(CoToDo) /\ q # <<>> /\ now \in Nat /\ now' = now /\ q[1] \in CoToDo /\ 1 \in 1..Len(q)
  BY <1>1, CoHead DEF CoInv, CoRowsOK, CoTypeOK
<1>3. <<>> \in CoQueues' /\ StepsOf(<<>>) = {}
  BY NothingQueued DEF CoQueues
<1>4. StepMoved(q, <<>>, r)
  BY <1>1, <1>2, MovedTail
<1>5. CoMove(w, q, <<>>, r)
  BY <1>1, <1>2, <1>3, <1>4 DEF CoMove
<1>6. CoMoved(w, q, <<>>)
  BY <1>5, CoMoves
<1>7. Said \subseteq Said'
  BY <1>1, <1>6, SaidStays DEF CoMoved
<1>8. Queued' \subseteq Queued /\ q[1] \in Queued
  BY <1>1, <1>2, <1>3, <1>6 DEF CoMoved, Queued
<1>9. ItemsAccounted'
  <2> SUFFICES ASSUME codeaths = 0
               PROVE  /\ \A i \in DOMAIN items' : Accounted(items[i], i)'
                      /\ \A s \in Queued' : s.do = "item" => Accounted(s.row, s.key)'
    BY DEF ItemsAccounted
  <2>1. /\ \A i \in DOMAIN items : Accounted(items[i], i)
        /\ \A s \in Queued : s.do = "item" => Accounted(s.row, s.key)
    BY DEF CoInv, ItemsAccounted
  <2>2. \A s \in Queued : s.do = "item" => Accounted(s.row, s.key)'
    BY <1>7, <2>1 DEF Accounted
  <2>3. ASSUME NEW i \in DOMAIN items' PROVE Accounted(items[i], i)'
    <3>1. CASE i \in DOMAIN items /\ items'[i] = items[i]
      BY <1>7, <2>1, <3>1 DEF Accounted
    <3>2. CASE q[1].do = "item" /\ i = q[1].key /\ items'[i] = q[1].row
      BY <1>8, <2>2, <3>2 DEF Accounted
    <3> QED BY <1>1, <3>1, <3>2 DEF CoPut
  <2> QED BY <1>8, <2>2, <2>3
<1> QED BY <1>6, <1>9 DEF CoMoved

-----------------------------------------------------------------------------
(* Collaboration: requests.                                                *)

LEMMA LoneQueue ==
  ASSUME NEW s \in CoToDo, Timely(s), \A fact : Needs(s, fact) => fact \in Facts
  PROVE  <<s>> \in CoQueues /\ StepsOf(<<s>>) = {s}
<1>1. <<s>> \in Seq(CoToDo) /\ Len(<<s>>) = 1 /\ <<s>>[1] = s
  OBVIOUS
<1> QED BY <1>1 DEF CoQueues, StepsOf

LEMMA QueueExtends ==
  ASSUME NEW a \in CoQueues, \A p \in StepsOf(a) : p.do \notin Lasts, NEW s \in CoToDo, Timely(s),
         \A fact : Needs(s, fact) => fact \in Facts \/ \E p \in StepsOf(a) : Gives(p, fact),
         NEW r, r = a \o <<s>>
  PROVE  r \in CoQueues /\ StepsOf(r) = StepsOf(a) \cup {s}
<1>1. PICK b : b = <<s>>
  OBVIOUS
<1>2. a \in Seq(CoToDo) /\ b \in Seq(CoToDo) /\ Len(b) = 1 /\ b[1] = s
  BY <1>1 DEF CoQueues
<1>3. /\ r \in Seq(CoToDo) /\ Len(r) = Len(a) + 1 /\ Len(a) \in Nat
      /\ \A i \in 1..Len(a) : i \in 1..Len(r) /\ r[i] = a[i]
      /\ \A i \in 1..Len(b) : Len(a) + i \in 1..Len(r) /\ r[Len(a) + i] = b[i]
  BY <1>1, <1>2, Concatenated
<1>4. 1 \in 1..Len(b)
  BY <1>2
<1>5. r[Len(a) + 1] = s /\ Len(a) + 1 \in 1..Len(r)
  BY <1>2, <1>3, <1>4
<1>6. \A i \in 1..Len(r) : i \in 1..Len(a) \/ i = Len(a) + 1
  BY <1>3
<1>7. StepsOf(r) = StepsOf(a) \cup {s}
  BY <1>3, <1>5, <1>6 DEF StepsOf
<1>8. ASSUME NEW i \in 1..Len(r)
      PROVE  /\ \A fact : Needs(r[i], fact) => fact \in Facts \/ \E j \in 1..(i - 1) : Gives(r[j], fact)
             /\ Timely(r[i])
             /\ r[i].do \in Lasts => i = Len(r)
  <2>1. CASE i \in 1..Len(a)
    <3>1. /\ \A fact : Needs(a[i], fact) => fact \in Facts \/ \E j \in 1..(i - 1) : Gives(a[j], fact)
          /\ Timely(a[i]) /\ a[i] \in StepsOf(a)
      BY <2>1 DEF CoQueues, StepsOf
    <3>2. \A j \in 1..(i - 1) : r[j] = a[j]
      BY <1>3, <2>1
    <3> QED BY <1>3, <2>1, <3>1, <3>2
  <2>2. CASE i = Len(a) + 1
    <3>1. r[i] = s /\ i = Len(r)
      BY <1>3, <1>5, <2>2
    <3>2. ASSUME NEW fact, Needs(s, fact) PROVE fact \in Facts \/ \E j \in 1..(i - 1) : Gives(r[j], fact)
      <4>1. CASE \E p \in StepsOf(a) : Gives(p, fact)
        <5>1. PICK j \in 1..Len(a) : Gives(a[j], fact)
          BY <4>1 DEF StepsOf
        <5>2. j \in 1..(i - 1) /\ r[j] = a[j]
          BY <1>3, <2>2
        <5> QED BY <5>1, <5>2
      <4> QED BY <3>2, <4>1
    <3> QED BY <3>1, <3>2
  <2> QED BY <1>6, <2>1, <2>2
<1> QED BY <1>3, <1>7, <1>8 DEF CoQueues

\* A request finds nothing to do for its worker, and may only touch items as they are.
AsStored(s) == s.row = NewItem \/ (s.key \in DOMAIN items /\ s.row = items[s.key])

LEMMA CoServed ==
  ASSUME CoInv, NEW w \in CoWorkers, NEW steps \in CoQueues, CoServe(w, steps),
         \A s \in StepsOf(steps) : s.do = "item" => AsStored(s)
  PROVE  CoInv'
<1>1. /\ cotodo[w] = <<>> /\ cotodo' = [cotodo EXCEPT ![w] = steps]
      /\ UNCHANGED <<now, items, comments, events, policies, oncall, escalations, notifications, handovers, acks,
                     reports, orders, codeaths>>
  BY DEF CoServe, costores
<1>2. Facts' = Facts
  BY <1>1 DEF Facts
<1>3. CoQueues' = CoQueues
  BY <1>1, <1>2 DEF CoQueues, Timely, Warranted
<1>4. cotodo \in [CoWorkers -> CoQueues] /\ cotodo' \in [CoWorkers -> CoQueues']
  BY <1>1, <1>3 DEF CoInv
<1>5. cotodo'[w] = steps /\ \A u \in CoWorkers : u # w => cotodo'[u] = cotodo[u]
  BY <1>1, <1>4
<1>6. Queued' \subseteq Queued \cup StepsOf(steps)
  BY <1>5 DEF Queued, StepsOf
<1>7. Queued \subseteq Queued'
  BY <1>1, <1>5 DEF Queued
<1>8. Said \subseteq Said'
  BY <1>1, <1>7 DEF Said
<1>9. ItemsAccounted'
  <2> SUFFICES ASSUME codeaths = 0
               PROVE  /\ \A i \in DOMAIN items : Accounted(items[i], i)'
                      /\ \A s \in Queued' : s.do = "item" => Accounted(s.row, s.key)'
    BY <1>1 DEF ItemsAccounted
  <2>1. /\ \A i \in DOMAIN items : Accounted(items[i], i)
        /\ \A s \in Queued : s.do = "item" => Accounted(s.row, s.key)
    BY DEF CoInv, ItemsAccounted
  <2>2. \A i \in DOMAIN items : Accounted(items[i], i)'
    BY <1>1, <1>8, <2>1 DEF Accounted
  <2>3. \A s \in Queued : s.do = "item" => Accounted(s.row, s.key)'
    BY <1>8, <2>1 DEF Accounted
  <2>4. \A i : Accounted(NewItem, i)'
    BY DEF Accounted, NewItem
  <2>5. \A s \in StepsOf(steps) : s.do = "item" => Accounted(s.row, s.key)'
    BY <1>1, <2>2, <2>4 DEF AsStored, Accounted
  <2> QED BY <1>6, <2>2, <2>3, <2>5
<1>10. CoRowsOK' /\ CoRowsBacked'
  BY <1>1 DEF CoInv, CoRowsOK, CoTypeOK, CoRowsBacked, EscalationWarranted, AcceptedHasAck
<1> QED BY <1>4, <1>9, <1>10 DEF CoInv

\* A request of one step.
LEMMA LoneServed ==
  ASSUME CoInv, NEW w \in CoWorkers, NEW s \in CoToDo, Timely(s), s.do # "item",
         \A fact : Needs(s, fact) => fact \in Facts, CoServe(w, <<s>>)
  PROVE  CoInv'
<1>1. <<s>> \in CoQueues /\ StepsOf(<<s>>) = {s}
  BY LoneQueue
<1>2. \A p \in StepsOf(<<s>>) : p.do = "item" => AsStored(p)
  BY <1>1
<1> QED BY <1>1, <1>2, CoServed

LEMMA EnsuresQueue ==
  ASSUME CoInv, NEW i \in Items
  PROVE  /\ Ensures(i) \in CoQueues
         /\ \A p \in StepsOf(Ensures(i)) : p.do \notin Lasts /\ (p.do = "item" => AsStored(p))
         /\ \E p \in StepsOf(Ensures(i)) : Gives(p, <<"item", i>>)
<1>1. ASSUME NEW row \in ItemRow
      PROVE  LET s == [do |-> "item", key |-> i, row |-> row] IN
               /\ s \in CoToDo /\ Timely(s) /\ Gives(s, <<"item", i>>) /\ s.do \notin Lasts
               /\ \A fact : ~Needs(s, fact)
  BY DEF CoToDo, Timely, Gives, Needs, Lasts
<1>2. CASE i \in DOMAIN items
  <2> DEFINE s == [do |-> "item", key |-> i, row |-> items[i]]
  <2>1. items[i] \in ItemRow
    BY <1>2 DEF CoInv, CoRowsOK, CoTypeOK
  <2>2. s \in CoToDo /\ Timely(s) /\ Gives(s, <<"item", i>>) /\ s.do \notin Lasts /\ \A fact : ~Needs(s, fact)
    BY <1>1, <2>1
  <2>3. AsStored(s)
    BY <1>2 DEF AsStored
  <2>4. Ensures(i) = <<s>>
    BY <1>2 DEF Ensures, PutsItem
  <2> HIDE DEF s
  <2> QED BY <2>2, <2>3, <2>4, LoneQueue
<1>3. CASE i \notin DOMAIN items
  <2> DEFINE e == [do |-> "event", row |-> [item |-> i, kind |-> "created", to |-> Nobody]]
             s == [do |-> "item", key |-> i, row |-> NewItem]
  <2>1. NewItem \in ItemRow
    BY DEF NewItem, ItemRow, Dues
  <2>2. s \in CoToDo /\ Timely(s) /\ Gives(s, <<"item", i>>) /\ s.do \notin Lasts /\ \A fact : ~Needs(s, fact)
    BY <1>1, <2>1
  <2>3. e \in CoToDo
    BY DEF CoToDo, EventRow, Recipients
  <2>4. Timely(e) /\ e.do \notin Lasts /\ e.do # "item" /\ \A fact : ~Needs(e, fact)
    BY DEF Timely, Lasts, Needs
  <2>5. AsStored(s)
    BY DEF AsStored
  <2>6. Ensures(i) = <<e>> \o <<s>>
    BY <1>3 DEF Ensures, PutsItem, PutsEvent
  <2> HIDE DEF s, e
  <2>7. <<e>> \in CoQueues /\ StepsOf(<<e>>) = {e}
    BY <2>3, <2>4, LoneQueue
  <2>8. Ensures(i) \in CoQueues /\ StepsOf(Ensures(i)) = StepsOf(<<e>>) \cup {s}
    <3>1. \A p \in StepsOf(<<e>>) : p.do \notin Lasts
      BY <2>4, <2>7
    <3> QED BY <2>2, <2>6, <2>7, <3>1, QueueExtends
  <2> QED BY <2>2, <2>4, <2>5, <2>7, <2>8
<1> QED BY <1>2, <1>3

LEMMA ItemRequestsKeep ==
  ASSUME CoInv, NEW w \in CoWorkers, ItemRequest(w)
  PROVE  CoInv'
<1>1. ASSUME NEW i \in Items, NEW field, NEW to, NEW kind,
             [do |-> "change", key |-> i, field |-> field, to |-> to, kind |-> kind] \in CoToDo,
             CoServe(w, Ensures(i) \o Changes(i, field, to, kind))
      PROVE  CoInv'
  <2>1. PICK s, q : s = [do |-> "change", key |-> i, field |-> field, to |-> to, kind |-> kind] /\ q = Ensures(i) \o <<s>>
    OBVIOUS
  <2>2. s \in CoToDo /\ Timely(s) /\ s.do # "item" /\ \A fact : Needs(s, fact) => fact = <<"item", i>>
    BY <1>1, <2>1 DEF Timely, Needs
  <2>3. q \in CoQueues /\ StepsOf(q) = StepsOf(Ensures(i)) \cup {s}
    <3>1. \A fact : Needs(s, fact) => \E p \in StepsOf(Ensures(i)) : Gives(p, fact)
      BY <2>2, EnsuresQueue
    <3> QED BY <2>1, <2>2, <3>1, EnsuresQueue, QueueExtends
  <2>4. CoServe(w, q)
    BY <1>1, <2>1 DEF Changes
  <2>5. \A p \in StepsOf(q) : p.do = "item" => AsStored(p)
    BY <2>2, <2>3, EnsuresQueue
  <2> QED BY <2>3, <2>4, <2>5, CoServed
<1>2. ASSUME NEW i \in Items, OpenThread(w, i) PROVE CoInv'
  BY <1>2, EnsuresQueue, CoServed DEF OpenThread
<1>3. ASSUME NEW i \in Items, NEW p \in People,
             Assign(w, i, p) \/ Handoff(w, i, p) \/ Watch(w, i, p) \/ Unwatch(w, i, p)
      PROVE  CoInv'
  <2>1. /\ [do |-> "change", key |-> i, field |-> "assignee", to |-> p, kind |-> "assigned"] \in CoToDo
        /\ [do |-> "change", key |-> i, field |-> "assignee", to |-> p, kind |-> "handoff"] \in CoToDo
    BY DEF CoToDo, ChangeSteps
  <2>2. /\ [do |-> "change", key |-> i, field |-> "watch", to |-> p, kind |-> "watch"] \in CoToDo
        /\ [do |-> "change", key |-> i, field |-> "unwatch", to |-> p, kind |-> "unwatch"] \in CoToDo
    BY DEF CoToDo, ChangeSteps
  <2> QED BY <1>1, <1>3, <2>1, <2>2 DEF Assign, Handoff, Watch, Unwatch
<1>4. ASSUME NEW i \in Items, NEW due \in {0, now + 1, now + 2}, SetSla(w, i, due) PROVE CoInv'
  <2>1. now \in 0..MaxNow
    BY DEF CoInv, CoRowsOK, CoTypeOK
  <2>2. due \in Dues
    BY <2>1, CoAssumption DEF Dues
  <2>3. [do |-> "change", key |-> i, field |-> "due", to |-> due, kind |-> "sla_updated"] \in CoToDo
    BY <2>2 DEF CoToDo, ChangeSteps
  <2> QED BY <1>1, <1>4, <2>3 DEF SetSla
<1>5. ASSUME NEW i \in Items, NEW p \in People, AddComment(w, i, p) PROVE CoInv'
  <2>1. PICK c, e, a, q :
          /\ c = [do |-> "comment", row |-> [item |-> i, author |-> p]]
          /\ e = [do |-> "event", row |-> [item |-> i, kind |-> "comment", to |-> p]]
          /\ a = Ensures(i) \o <<c>> /\ q = a \o <<e>>
    OBVIOUS
  <2>2. c \in CoToDo /\ e \in CoToDo
    BY <2>1 DEF CoToDo, EventRow, Recipients
  <2>3. /\ Timely(c) /\ c.do # "item" /\ c.do \notin Lasts /\ \A fact : Needs(c, fact) => fact = <<"item", i>>
        /\ Timely(e) /\ e.do # "item" /\ e.do \notin Lasts /\ \A fact : ~Needs(e, fact)
    BY <2>1 DEF Timely, Needs, Lasts
  <2>4. a \in CoQueues /\ StepsOf(a) = StepsOf(Ensures(i)) \cup {c}
    <3>1. \A fact : Needs(c, fact) => \E s \in StepsOf(Ensures(i)) : Gives(s, fact)
      BY <2>3, EnsuresQueue
    <3> QED BY <2>1, <2>2, <2>3, <3>1, EnsuresQueue, QueueExtends
  <2>5. q \in CoQueues /\ StepsOf(q) = StepsOf(a) \cup {e}
    <3>1. \A s \in StepsOf(a) : s.do \notin Lasts
      BY <2>3, <2>4, EnsuresQueue
    <3> QED BY <2>1, <2>2, <2>3, <2>4, <3>1, QueueExtends
  <2>6. CoServe(w, q)
    BY <1>5, <2>1 DEF AddComment, PutsEvent
  <2>7. \A s \in StepsOf(q) : s.do = "item" => AsStored(s)
    BY <2>3, <2>4, <2>5, EnsuresQueue
  <2> QED BY <2>5, <2>6, <2>7, CoServed
<1> QED BY <1>2, <1>3, <1>4, <1>5 DEF ItemRequest

LEMMA EscalationRequestsKeep ==
  ASSUME CoInv, NEW w \in CoWorkers, EscalationRequest(w)
  PROVE  CoInv'
<1>1. ASSUME NEW id \in Policies, NEW row \in PolicyRows, UpsertPolicy(w, id, row) PROVE CoInv'
  <2> DEFINE s == [do |-> "policy", key |-> id, row |-> row]
  <2>1. s \in CoToDo /\ s.do # "item" /\ Timely(s) /\ \A fact : ~Needs(s, fact)
    BY DEF CoToDo, Timely, Needs
  <2>2. CoServe(w, <<s>>)
    BY <1>1 DEF UpsertPolicy
  <2> HIDE DEF s
  <2> QED BY <2>1, <2>2, LoneServed
<1>2. ASSUME NEW p \in People, NEW q \in People, SetOncall(w, <<p, q>>) PROVE CoInv'
  <2> DEFINE s == [do |-> "oncall", row |-> <<p, q>>]
  <2>1. <<p, q>> \in Seq(People)
    OBVIOUS
  <2>2. s \in CoToDo /\ s.do # "item" /\ Timely(s) /\ \A fact : ~Needs(s, fact)
    BY <2>1 DEF CoToDo, Timely, Needs
  <2>3. CoServe(w, <<s>>)
    BY <1>2 DEF SetOncall
  <2> HIDE DEF s
  <2> QED BY <2>2, <2>3, LoneServed
<1>3. ASSUME EvaluateDue(w) PROVE CoInv'
  <2>1. now \in Nat /\ DOMAIN items \subseteq Items /\ \A i \in DOMAIN items : items[i] \in ItemRow
    BY DEF CoInv, CoRowsOK, CoTypeOK
  <2>2. \A i \in Urgent :
          /\ items[i].due \in Dues \ {NoDue} /\ SlaState(items[i]) \in {"overdue", "due_soon"}
          /\ items[i].assignee \in Recipients
    BY <2>1 DEF Urgent, SlaState, ItemRow, Recipients
  <2>3. \A seen \in Board : \E i \in Urgent :
          seen = [item |-> i, due |-> items[i].due, state |-> SlaState(items[i]), assignee |-> items[i].assignee]
    BY DEF Board
  <2>4. Board \in SUBSET BoardRow
    <3> SUFFICES ASSUME NEW seen \in Board PROVE seen \in BoardRow
      OBVIOUS
    <3>1. PICK i \in Urgent :
            seen = [item |-> i, due |-> items[i].due, state |-> SlaState(items[i]), assignee |-> items[i].assignee]
      BY <2>3
    <3>2. i \in Items
      BY <2>1 DEF Urgent
    <3> QED BY <2>2, <3>1, <3>2 DEF BoardRow
  <2>5. ASSUME NEW seen \in Board PROVE seen.item \in DOMAIN items /\ Warranted(<<seen.item, seen.due, seen.state>>)
    <3>1. PICK i \in Urgent :
            seen = [item |-> i, due |-> items[i].due, state |-> SlaState(items[i]), assignee |-> items[i].assignee]
      BY <2>3
    <3>2. IF SlaState(items[i]) = "overdue" THEN items[i].due < now ELSE items[i].due <= now + 1
      <4>1. items[i].due \in Int
        BY <2>2, CoAssumption DEF Dues, NoDue
      <4>2. items[i].due # NoDue
        BY <2>2
      <4>3. SlaState(items[i]) \in {"overdue", "due_soon"}
        BY <2>2
      <4> QED BY <2>1, <4>1, <4>2, <4>3 DEF SlaState
    <3>3. i \in DOMAIN items
      BY DEF Urgent
    <3>4. seen.item = i /\ seen.due = items[i].due /\ seen.state = SlaState(items[i])
      BY <3>1
    <3> QED BY <3>2, <3>3, <3>4 DEF Warranted
  <2> DEFINE s == [do |-> "consider", left |-> Board]
  <2> HIDE DEF s
  <2>6. s \in CoToDo /\ s.do = "consider" /\ s.left = Board
    BY <2>4 DEF CoToDo, s
  <2>7. Timely(s)
    BY <2>5, <2>6 DEF Timely
  <2>8. \A fact : Needs(s, fact) => fact \in Facts
    BY <2>5, <2>6 DEF Needs, Facts
  <2>9. CoServe(w, <<s>>)
    BY <1>3 DEF EvaluateDue, s
  <2> QED BY <2>6, <2>7, <2>8, <2>9, LoneServed
<1> QED BY <1>1, <1>2, <1>3 DEF EscalationRequest

LEMMA HandoverRequestsKeep ==
  ASSUME CoInv, NEW w \in CoWorkers, HandoverRequest(w)
  PROVE  CoInv'
<1>1. DOMAIN items \in SUBSET Items
  BY DEF CoInv, CoRowsOK, CoTypeOK
<1>2. ASSUME NEW h \in Handovers, NEW p \in People, NEW q \in People, CreateHandover(w, h, p, q) PROVE CoInv'
  <2> DEFINE s == [do |-> "snapshot", key |-> h, out |-> p, in |-> q, items |-> DOMAIN items]
  <2>1. s \in CoToDo /\ s.do # "item" /\ Timely(s) /\ \A fact : ~Needs(s, fact)
    BY <1>1 DEF CoToDo, Timely, Needs
  <2>2. CoServe(w, <<s>>)
    BY <1>2 DEF CreateHandover
  <2> HIDE DEF s
  <2> QED BY <2>1, <2>2, LoneServed
<1>3. ASSUME GenerateReport(w) PROVE CoInv'
  <2> DEFINE s == [do |-> "summarise", items |-> DOMAIN items]
  <2>1. s \in CoToDo /\ s.do # "item" /\ Timely(s) /\ \A fact : ~Needs(s, fact)
    BY <1>1 DEF CoToDo, Timely, Needs
  <2>2. CoServe(w, <<s>>)
    BY <1>3 DEF GenerateReport
  <2> HIDE DEF s
  <2> QED BY <2>1, <2>2, LoneServed
<1>4. ASSUME NEW h \in Handovers, NEW p \in People, Acknowledge(w, h, p) PROVE CoInv'
  <2>1. PICK row : row = [handovers[h] EXCEPT !.status = "accepted"]
    OBVIOUS
  <2>2. handovers[h] \in HandoverRow /\ handovers[h].in = p /\ h \in DOMAIN handovers
    BY <1>4 DEF Acknowledge, CoInv, CoRowsOK
  <2>3. row \in HandoverRow /\ row.in = p /\ row.escs = handovers[h].escs
    BY <2>1, <2>2 DEF HandoverRow
  <2>4. row.escs \subseteq DOMAIN escalations
    BY <2>2, <2>3 DEF CoInv, CoRowsBacked, EscalationWarranted
  <2>5. PICK a, s, q :
          /\ a = [do |-> "ack", row |-> [handover |-> h, role |-> "incoming", by |-> p]]
          /\ s = [do |-> "handover", key |-> h, row |-> row]
          /\ q = <<a>> \o <<s>>
    OBVIOUS
  <2>6. a \in CoToDo /\ s \in CoToDo
    BY <2>3, <2>5 DEF CoToDo, AckRow
  <2>7. /\ Timely(a) /\ a.do # "item" /\ a.do \notin Lasts /\ \A fact : ~Needs(a, fact)
        /\ Timely(s) /\ s.do # "item"
    BY <2>5 DEF Timely, Needs, Lasts
  <2>8. \A fact : Needs(s, fact) => fact \in Facts \/ Gives(a, fact)
    <3> SUFFICES ASSUME NEW fact, Needs(s, fact) PROVE fact \in Facts \/ Gives(a, fact)
      OBVIOUS
    <3>1. \/ \E e \in row.escs : fact = <<"escalation", e>>
          \/ fact = <<"ack", [handover |-> h, role |-> "incoming", by |-> row.in]>>
      BY <2>5 DEF Needs
    <3> QED BY <2>3, <2>4, <2>5, <3>1 DEF Facts, Gives
  <2>9. <<a>> \in CoQueues /\ StepsOf(<<a>>) = {a}
    BY <2>6, <2>7, LoneQueue
  <2>10. q \in CoQueues /\ StepsOf(q) = StepsOf(<<a>>) \cup {s}
    <3>1. \A t \in StepsOf(<<a>>) : t.do \notin Lasts
      BY <2>7, <2>9
    <3>2. \A fact : Needs(s, fact) => fact \in Facts \/ \E t \in StepsOf(<<a>>) : Gives(t, fact)
      BY <2>8, <2>9
    <3> QED BY <2>5, <2>6, <2>7, <2>9, <3>1, <3>2, QueueExtends
  <2>11. CoServe(w, q)
    BY <1>4, <2>1, <2>5 DEF Acknowledge, Acks, PutsHandover
  <2>12. \A t \in StepsOf(q) : t.do = "item" => AsStored(t)
    BY <2>7, <2>9, <2>10
  <2> QED BY <2>10, <2>11, <2>12, CoServed
<1> QED BY <1>2, <1>3, <1>4 DEF HandoverRequest

\* A transition is the last thing its row's history tells.
LEMMA TransitionsExplained ==
  ASSUME NEW row \in OrderRow, NEW status \in {"approved", "dispatched"}, NEW external \in BOOLEAN,
         status = "dispatched" => external
  PROVE  Transitioned(row, status, external) \in OrderRow
<1>1. PICK history : history = Append(row.history, status)
  OBVIOUS
<1>2. row.history \in Seq({"created", "approved", "dispatched"}) /\ row.external \in BOOLEAN
  BY DEF OrderRow
<1>3. /\ history \in Seq({"created", "approved", "dispatched"}) /\ Len(history) = Len(row.history) + 1
      /\ Len(row.history) \in Nat
  BY <1>1, <1>2
<1>4. history[Len(history)] = status /\ history # <<>>
  BY <1>1, <1>2, <1>3
<1>5. PICK told : told = Transitioned(row, status, external)
  OBVIOUS
<1>6. PICK out \in BOOLEAN : out = (row.external \/ external) /\ (status = "dispatched" => out)
  OBVIOUS
<1>7. told = [status |-> status, external |-> out, history |-> history]
  BY <1>1, <1>5, <1>6 DEF Transitioned
<1>8. told.history # <<>> /\ Explained(told)
  BY <1>4, <1>6, <1>7 DEF Explained
<1> QED BY <1>3, <1>5, <1>7, <1>8 DEF OrderRow

LEMMA OrderRequestsKeep ==
  ASSUME CoInv, NEW w \in CoWorkers, OrderRequest(w)
  PROVE  CoInv'
<1>1. ASSUME NEW o \in Orders, NEW row \in OrderRow, CoServe(w, PutsOrder(o, row)) PROVE CoInv'
  <2> DEFINE s == [do |-> "order", key |-> o, row |-> row]
  <2>1. s \in CoToDo /\ s.do # "item" /\ Timely(s) /\ \A fact : ~Needs(s, fact)
    BY DEF CoToDo, Timely, Needs
  <2>2. CoServe(w, <<s>>)
    BY <1>1 DEF PutsOrder
  <2> HIDE DEF s
  <2> QED BY <2>1, <2>2, LoneServed
<1>2. ASSUME NEW o \in Orders, CreateOrder(w, o) PROVE CoInv'
  <2>1. PICK row : row = [status |-> "draft", external |-> FALSE, history |-> <<"created">>]
    OBVIOUS
  <2>2. row.history \in Seq({"created", "approved", "dispatched"}) /\ row.history[Len(row.history)] = "created"
    BY <2>1
  <2>3. row \in OrderRow
    BY <2>1, <2>2 DEF OrderRow, Explained
  <2> QED BY <1>1, <1>2, <2>1, <2>3 DEF CreateOrder
<1>3. ASSUME NEW o \in Orders, ApproveOrder(w, o) \/ DispatchOrder(w, o) PROVE CoInv'
  <2>1. orders[o] \in OrderRow
    BY <1>3 DEF ApproveOrder, DispatchOrder, CoInv, CoRowsOK
  <2>2. /\ Transitioned(orders[o], "approved", FALSE) \in OrderRow
        /\ Transitioned(orders[o], "dispatched", TRUE) \in OrderRow
    BY <2>1, TransitionsExplained
  <2> QED BY <1>1, <1>3, <2>2 DEF ApproveOrder, DispatchOrder
<1> QED BY <1>2, <1>3 DEF OrderRequest

-----------------------------------------------------------------------------
(* Collaboration: steps.                                                   *)

LEMMA FactsMean ==
  /\ \A i : <<"item", i>> \in Facts => i \in DOMAIN items
  /\ \A e : <<"escalation", e>> \in Facts => e \in DOMAIN escalations
  /\ \A a : <<"ack", a>> \in Facts => a \in acks
  BY DEF Facts

LEMMA PairQueue ==
  ASSUME NEW a \in CoToDo, NEW b \in CoToDo, Timely(a), Timely(b), a.do \notin Lasts,
         \A fact : Needs(a, fact) => fact \in Facts,
         \A fact : Needs(b, fact) => fact \in Facts \/ Gives(a, fact)
  PROVE  <<a, b>> \in CoQueues /\ StepsOf(<<a, b>>) = {a, b}
<1>1. PICK q : q = <<a, b>>
  OBVIOUS
<1>2. q \in Seq(CoToDo) /\ Len(q) = 2 /\ q[1] = a /\ q[2] = b
  BY <1>1
<1>3. \A i \in 1..Len(q) : i = 1 \/ i = 2
  BY <1>2
<1>4. 1 \in 1..(2 - 1) /\ 1 \in 1..Len(q) /\ 2 \in 1..Len(q)
  BY <1>2
<1>5. StepsOf(q) = {a, b}
  BY <1>2, <1>3, <1>4 DEF StepsOf
<1>6. ASSUME NEW i \in 1..Len(q)
      PROVE  /\ \A fact : Needs(q[i], fact) => fact \in Facts \/ \E j \in 1..(i - 1) : Gives(q[j], fact)
             /\ Timely(q[i])
             /\ q[i].do \in Lasts => i = Len(q)
  <2>1. CASE i = 1
    BY <1>2, <2>1
  <2>2. CASE i = 2
    BY <1>2, <1>4, <2>2
  <2> QED BY <1>3, <2>1, <2>2
<1> QED BY <1>1, <1>2, <1>5, <1>6 DEF CoQueues

LEMMA NothingAdded == ASSUME NEW S, NEW q \in Seq(S) PROVE q \o <<>> = q /\ <<>> \o q = q
  OBVIOUS

LEMMA CoStoresKept ==
  ASSUME CoInv, UNCHANGED <<now, costores, codeaths>>
  PROVE  CoRowsOK' /\ CoRowsBacked'
  BY DEF costores, CoInv, CoRowsOK, CoTypeOK, CoRowsBacked, EscalationWarranted, AcceptedHasAck

LEMMA ChangesAreRows ==
  ASSUME NEW s \in ChangeSteps, NEW row \in ItemRow
  PROVE  /\ Changed(row, s.field, s.to) \in ItemRow
         /\ \/ Changed(row, s.field, s.to).assignee = row.assignee
            \/ s.kind \in {"assigned", "handoff"} /\ Changed(row, s.field, s.to).assignee = s.to
         /\ \/ Changed(row, s.field, s.to).due = row.due
            \/ s.kind = "sla_updated" /\ Changed(row, s.field, s.to).due = s.to
<1>1. CASE s.field = "assignee" /\ s.to \in People /\ s.kind \in {"assigned", "handoff"}
  <2>1. Changed(row, s.field, s.to) = [row EXCEPT !.assignee = s.to]
    BY <1>1 DEF Changed
  <2> QED BY <1>1, <2>1 DEF ItemRow
<1>2. CASE s.field = "watch" /\ s.to \in People
  <2>1. Changed(row, s.field, s.to) = [row EXCEPT !.watchers = row.watchers \cup {s.to}]
    BY <1>2 DEF Changed
  <2> QED BY <1>2, <2>1 DEF ItemRow
<1>3. CASE s.field = "unwatch"
  <2>1. Changed(row, s.field, s.to) = [row EXCEPT !.watchers = row.watchers \ {s.to}]
    BY <1>3 DEF Changed
  <2> QED BY <2>1 DEF ItemRow
<1>4. CASE s.field = "due" /\ s.to \in Dues /\ s.kind = "sla_updated"
  <2>1. Changed(row, s.field, s.to) = [row EXCEPT !.due = s.to]
    BY <1>4 DEF Changed
  <2> QED BY <1>4, <2>1 DEF ItemRow
<1> QED BY <1>1, <1>2, <1>3, <1>4 DEF ChangeSteps

LEMMA ReadToChangeKeeps ==
  ASSUME CoInv, NEW w \in CoWorkers, ReadToChange(w)
  PROVE  CoInv'
<1>1. PICK s, row, a, e, new :
        /\ s = cotodo[w][1] /\ row = Changed(items[s.key], s.field, s.to)
        /\ a = [do |-> "item", key |-> s.key, row |-> row]
        /\ e = [do |-> "event", row |-> [item |-> s.key, kind |-> s.kind, to |-> s.to]]
        /\ new = <<a>> \o <<e>>
  OBVIOUS
<1>2. cotodo[w] # <<>> /\ Head(cotodo[w]) = s /\ s.do = "change" /\ s \in CoToDo
  BY <1>1, CoHead DEF ReadToChange
<1>3. Len(cotodo[w]) = 1 /\ s.key \in DOMAIN items
  <2>1. s.do \in Lasts /\ Needs(s, <<"item", s.key>>)
    BY <1>2 DEF Lasts, Needs
  <2> QED BY <1>1, <1>2, <2>1, CoHead, FactsMean
<1>4. /\ cotodo' = [cotodo EXCEPT ![w] = new]
      /\ UNCHANGED <<now, costores, codeaths>>
  BY <1>1, <1>2 DEF ReadToChange, PutsItem, PutsEvent
<1>5. s \in ChangeSteps /\ items[s.key] \in ItemRow /\ s.key \in Items
  BY <1>2, <1>3, CoStepTypes DEF CoInv, CoRowsOK, CoTypeOK
<1>6. /\ row \in ItemRow
      /\ row.assignee = items[s.key].assignee \/ (s.kind \in {"assigned", "handoff"} /\ row.assignee = s.to)
      /\ row.due = items[s.key].due \/ (s.kind = "sla_updated" /\ row.due = s.to)
  BY <1>1, <1>5, ChangesAreRows
<1>7. a \in CoToDo
  BY <1>1, <1>5, <1>6 DEF CoToDo
<1>8. e \in CoToDo
  <2>1. s.kind \in {"assigned", "handoff", "watch", "unwatch", "sla_updated"} /\ s.to \in Recipients \cup Dues
    BY <1>5 DEF ChangeSteps, Recipients
  <2> QED BY <1>1, <1>5, <2>1 DEF CoToDo, EventRow
<1>9. /\ Timely(a) /\ a.do \notin Lasts /\ \A fact : ~Needs(a, fact)
      /\ Timely(e) /\ e.do # "item" /\ \A fact : ~Needs(e, fact)
  BY <1>1 DEF Timely, Lasts, Needs
<1>10. <<a>> \in CoQueues /\ StepsOf(<<a>>) = {a}
  BY <1>7, <1>9, LoneQueue
<1>11. new \in CoQueues /\ StepsOf(new) = StepsOf(<<a>>) \cup {e}
  <2>1. \A t \in StepsOf(<<a>>) : t.do \notin Lasts
    BY <1>9, <1>10
  <2>2. \A fact : Needs(e, fact) => fact \in Facts \/ \E t \in StepsOf(<<a>>) : Gives(t, fact)
    BY <1>9
  <2>3. <<a>> \in CoQueues /\ Timely(e) /\ new = <<a>> \o <<e>>
    BY <1>1, <1>9, <1>10
  <2> QED BY <1>8, <2>1, <2>2, <2>3, QueueExtends
<1>12. CoThought(w, new, new)
  BY <1>1, <1>2, <1>3, <1>4 DEF CoThought, costores
<1>13. StepsOf(new) \subseteq Queued' /\ Said \subseteq Said'
  BY <1>11, <1>12, CoThoughtMoves DEF CoMoved
<1>14. ASSUME codeaths = 0 PROVE Accounted(row, s.key)'
  <2>1. Accounted(items[s.key], s.key)
    BY <1>3, <1>14 DEF CoInv, ItemsAccounted
  <2>2. e \in Queued' /\ e.do = "event" /\ e.row = [item |-> s.key, kind |-> s.kind, to |-> s.to]
    BY <1>1, <1>10, <1>11, <1>13
  <2>3. ASSUME s.kind \in {"assigned", "handoff"}, row.assignee = s.to
        PROVE  <<s.key, "assignee", row.assignee>> \in Said'
    <3>1. Says(e.row, <<s.key, "assignee", row.assignee>>)
      BY <2>2, <2>3 DEF Says
    <3>2. <<s.key, "assignee", row.assignee>> \in Items \X {"assignee", "due"} \X (Recipients \cup Dues)
      BY <1>5, <1>6 DEF ItemRow, Recipients
    <3> QED BY <2>2, <3>1, <3>2 DEF Said
  <2>4. ASSUME s.kind = "sla_updated", row.due = s.to
        PROVE  <<s.key, "due", row.due>> \in Said'
    <3>1. Says(e.row, <<s.key, "due", row.due>>)
      BY <2>2, <2>4 DEF Says
    <3>2. <<s.key, "due", row.due>> \in Items \X {"assignee", "due"} \X (Recipients \cup Dues)
      BY <1>5, <1>6 DEF ItemRow
    <3> QED BY <2>2, <3>1, <3>2 DEF Said
  <2> QED BY <1>6, <1>13, <2>1, <2>3, <2>4 DEF Accounted
<1>15. \A t \in StepsOf(new) : t.do = "item" => (codeaths = 0 => Accounted(t.row, t.key)')
  <2>1. a.row = row /\ a.key = s.key
    BY <1>1
  <2> QED BY <1>9, <1>10, <1>11, <1>14, <2>1
<1>16. cotodo' \in [CoWorkers -> CoQueues'] /\ ItemsAccounted'
  BY <1>11, <1>12, <1>15, CoThinks
<1> QED BY <1>4, <1>16, CoStoresKept DEF CoInv

LEMMA SnapshotKeeps ==
  ASSUME CoInv, NEW w \in CoWorkers, SnapshotEscalations(w)
  PROVE  CoInv'
<1>1. PICK s, row, h, a, new :
        /\ s = cotodo[w][1]
        /\ row = [out |-> s.out, in |-> s.in, status |-> "pending_ack", items |-> s.items, escs |-> DOMAIN escalations]
        /\ h = [do |-> "handover", key |-> s.key, row |-> row]
        /\ a = [do |-> "ack", row |-> [handover |-> s.key, role |-> "outgoing", by |-> s.out]]
        /\ new = <<h>> \o <<a>>
  OBVIOUS
<1>2. cotodo[w] # <<>> /\ Head(cotodo[w]) = s /\ s.do = "snapshot" /\ s \in CoToDo /\ Len(cotodo[w]) = 1
  BY <1>1, CoHead DEF SnapshotEscalations, Lasts
<1>3. /\ cotodo' = [cotodo EXCEPT ![w] = new]
      /\ UNCHANGED <<now, costores, codeaths>>
  BY <1>1, <1>2 DEF SnapshotEscalations, PutsHandover, Acks
<1>4. s.key \in Handovers /\ s.out \in People /\ s.in \in People /\ s.items \in SUBSET Items
  BY <1>2, CoStepTypes
<1>5. DOMAIN escalations \in SUBSET EscalationIds
  BY DEF CoInv, CoRowsOK, CoTypeOK
<1>6. h \in CoToDo /\ a \in CoToDo
  BY <1>1, <1>4, <1>5 DEF CoToDo, HandoverRow, AckRow
<1>7. /\ Timely(h) /\ h.do \notin Lasts /\ h.do # "item"
      /\ Timely(a) /\ a.do # "item" /\ a.do \notin Lasts /\ \A fact : ~Needs(a, fact)
  BY <1>1 DEF Timely, Lasts, Needs
<1>8. \A fact : Needs(h, fact) => fact \in Facts
  BY <1>1 DEF Needs, Facts
<1>9. <<h>> \in CoQueues /\ StepsOf(<<h>>) = {h}
  BY <1>6, <1>7, <1>8, LoneQueue
<1>10. new \in CoQueues /\ StepsOf(new) = StepsOf(<<h>>) \cup {a}
  <2>1. \A t \in StepsOf(<<h>>) : t.do \notin Lasts
    BY <1>7, <1>9
  <2>2. \A fact : Needs(a, fact) => fact \in Facts \/ \E t \in StepsOf(<<h>>) : Gives(t, fact)
    BY <1>7
  <2>3. <<h>> \in CoQueues /\ Timely(a) /\ new = <<h>> \o <<a>>
    BY <1>1, <1>7, <1>9
  <2> QED BY <1>6, <2>1, <2>2, <2>3, QueueExtends
<1>11. CoThought(w, new, new)
  BY <1>1, <1>2, <1>3 DEF CoThought, costores
<1>12. \A t \in StepsOf(new) : t.do # "item"
  BY <1>7, <1>9, <1>10
<1>13. cotodo' \in [CoWorkers -> CoQueues'] /\ ItemsAccounted'
  BY <1>10, <1>11, <1>12, CoThinks
<1> QED BY <1>3, <1>13, CoStoresKept DEF CoInv

LEMMA SummariseKeeps ==
  ASSUME CoInv, NEW w \in CoWorkers, Summarise(w)
  PROVE  CoInv'
<1>1. PICK s, row, a :
        /\ s = cotodo[w][1]
        /\ row = [items |-> s.items, escs |-> DOMAIN escalations,
                  pending |-> {o \in DOMAIN orders : orders[o].status \in {"draft", "approved"}}]
        /\ a = [do |-> "report", row |-> row]
  OBVIOUS
<1>2. cotodo[w] # <<>> /\ Head(cotodo[w]) = s /\ s.do = "summarise" /\ s \in CoToDo /\ Len(cotodo[w]) = 1
  BY <1>1, CoHead DEF Summarise, Lasts
<1>3. /\ cotodo' = [cotodo EXCEPT ![w] = <<a>>]
      /\ UNCHANGED <<now, costores, codeaths>>
  BY <1>1, <1>2 DEF Summarise
<1>4. s.items \in SUBSET Items /\ DOMAIN escalations \in SUBSET EscalationIds /\ DOMAIN orders \subseteq Orders
  BY <1>2, CoStepTypes DEF CoInv, CoRowsOK, CoTypeOK
<1>5. a \in CoToDo
  BY <1>1, <1>4 DEF CoToDo, ReportRow
<1>6. Timely(a) /\ a.do # "item" /\ \A fact : Needs(a, fact) => fact \in Facts
  BY <1>1 DEF Timely, Needs, Facts
<1>7. <<a>> \in CoQueues /\ StepsOf(<<a>>) = {a}
  BY <1>5, <1>6, LoneQueue
<1>8. CoThought(w, <<a>>, <<a>>)
  BY <1>1, <1>2, <1>3 DEF CoThought, costores
<1>9. \A t \in StepsOf(<<a>>) : t.do # "item"
  BY <1>6, <1>7
<1>10. cotodo' \in [CoWorkers -> CoQueues'] /\ ItemsAccounted'
  BY <1>7, <1>8, <1>9, CoThinks
<1> QED BY <1>3, <1>10, CoStoresKept DEF CoInv

LEMMA RecipientsAreKnown ==
  ASSUME CoInv, NEW id \in DOMAIN policies, NEW assignee \in Recipients
  PROVE  Recipient(policies[id], assignee) \in Recipients /\ policies[id].channels \subseteq Channels
<1>1. policies[id].to \in Recipients /\ policies[id].channels \subseteq Channels
  BY DEF CoInv, CoRowsOK, PolicyRows, Recipients
<1>2. CurrentOncall \in Recipients
  <2>1. oncall \in Seq(People) /\ now \in Nat
    BY DEF CoInv, CoRowsOK, CoTypeOK
  <2>2. CASE oncall = <<>>
    BY <2>2 DEF CurrentOncall, Recipients
  <2>3. CASE oncall # <<>>
    <3>1. Len(oncall) \in Nat /\ Len(oncall) > 0
      BY <2>1, <2>3
    <3>2. (now % Len(oncall)) + 1 \in 1..Len(oncall)
      BY <2>1, <3>1
    <3> QED BY <2>1, <2>3, <3>2 DEF CurrentOncall, Recipients
  <2> QED BY <2>2, <2>3
<1> QED BY <1>1, <1>2 DEF Recipient

\* What an item adds to the queue, followed by the items that are left.
LEMMA ConsiderContinues ==
  ASSUME CoInv, NEW w \in CoWorkers, UNCHANGED <<now, costores, codeaths>>,
         cotodo[w] # <<>>, cotodo[w][1].do = "consider", NEW rest \in SUBSET cotodo[w][1].left,
         NEW steps \in CoQueues, \A t \in StepsOf(steps) : t.do \notin Lasts /\ t.do # "item",
         NEW back, back = IF rest = {} THEN <<>> ELSE <<[do |-> "consider", left |-> rest]>>,
         cotodo' = [cotodo EXCEPT ![w] = steps \o back]
  PROVE  CoInv'
<1>1. PICK s, c, new : s = cotodo[w][1] /\ c = [do |-> "consider", left |-> rest] /\ new = steps \o back
  OBVIOUS
<1>2. /\ s \in CoToDo /\ s.do = "consider" /\ Len(cotodo[w]) = 1 /\ Timely(s)
      /\ \A fact : Needs(s, fact) => fact \in Facts
  BY <1>1, CoHead DEF Lasts
<1>3. c \in CoToDo
  BY <1>1, <1>2, CoStepTypes DEF CoToDo
<1>4. Timely(c) /\ c.do # "item"
  BY <1>1, <1>2 DEF Timely
<1>5. \A fact : Needs(c, fact) => fact \in Facts
  BY <1>1, <1>2 DEF Needs
<1>6. new \in CoQueues /\ \A t \in StepsOf(new) : t.do # "item"
  <2>1. CASE rest = {}
    <3>1. steps \in Seq(CoToDo) /\ new = steps \o <<>>
      BY <1>1, <2>1 DEF CoQueues
    <3>2. new = steps
      BY <3>1, NothingAdded
    <3> QED BY <3>2
  <2>2. CASE rest # {}
    <3>1. new = steps \o <<c>>
      BY <1>1, <2>2
    <3>2. \A fact : Needs(c, fact) => fact \in Facts \/ \E t \in StepsOf(steps) : Gives(t, fact)
      BY <1>5
    <3>3. \A t \in StepsOf(steps) : t.do \notin Lasts
      OBVIOUS
    <3>4. new \in CoQueues /\ StepsOf(new) = StepsOf(steps) \cup {c}
      BY <1>3, <1>4, <3>1, <3>2, <3>3, QueueExtends
    <3> QED BY <1>4, <3>4
  <2> QED BY <2>1, <2>2
<1>7. CoThought(w, new, new)
  BY <1>1, <1>2 DEF CoThought, costores
<1>8. cotodo' \in [CoWorkers -> CoQueues'] /\ ItemsAccounted'
  BY <1>6, <1>7, CoThinks
<1> QED BY <1>8, CoStoresKept DEF CoInv

LEMMA ConsiderKeeps ==
  ASSUME CoInv, NEW w \in CoWorkers, Consider(w)
  PROVE  CoInv'
<1>1. cotodo[w] # <<>> /\ Head(cotodo[w]) = cotodo[w][1] /\ cotodo[w][1].do = "consider" /\ cotodo[w][1] \in CoToDo
  BY CoHead DEF Consider
<1>2. PICK s : s = cotodo[w][1]
  OBVIOUS
<1>3. UNCHANGED <<now, costores, codeaths>> /\ Head(cotodo[w]) = s
  BY <1>1, <1>2 DEF Consider
<1>4. PICK seen \in s.left :
        LET rest == s.left \ {seen}
            esc == <<seen.item, seen.due, seen.state>>
            Then(steps) ==
              cotodo' = [cotodo EXCEPT ![w] =
                           steps \o IF rest = {} THEN <<>> ELSE <<[do |-> "consider", left |-> rest]>>]
        IN
          \/ /\ esc \in DOMAIN escalations \/ DOMAIN policies = {}
             /\ Then(<<>>)
          \/ /\ esc \notin DOMAIN escalations
             /\ \E id \in DOMAIN policies :
                  LET to == Recipient(policies[id], seen.assignee) IN
                    Then(<<[do |-> "escalate", key |-> esc, row |-> to],
                           [do |-> "notify", esc |-> esc, to |-> to, left |-> policies[id].channels]>>)
  BY <1>1, <1>2 DEF Consider
<1>5. PICK rest, esc, back :
        /\ rest = s.left \ {seen} /\ esc = <<seen.item, seen.due, seen.state>>
        /\ back = IF rest = {} THEN <<>> ELSE <<[do |-> "consider", left |-> rest]>>
  OBVIOUS
<1>6. rest \in SUBSET cotodo[w][1].left
  BY <1>2, <1>5
<1>7. CASE cotodo' = [cotodo EXCEPT ![w] = <<>> \o back]
  <2>1. <<>> \in CoQueues /\ \A t \in StepsOf(<<>>) : t.do \notin Lasts /\ t.do # "item"
    BY NothingQueued
  <2> QED BY <1>1, <1>3, <1>5, <1>6, <1>7, <2>1, ConsiderContinues
<1>8. ASSUME NEW id \in DOMAIN policies,
             cotodo' = [cotodo EXCEPT ![w] =
                          <<[do |-> "escalate", key |-> esc, row |-> Recipient(policies[id], seen.assignee)],
                            [do |-> "notify", esc |-> esc, to |-> Recipient(policies[id], seen.assignee),
                             left |-> policies[id].channels]>> \o back]
      PROVE  CoInv'
  <2>1. PICK to, a, b :
          /\ to = Recipient(policies[id], seen.assignee)
          /\ a = [do |-> "escalate", key |-> esc, row |-> to]
          /\ b = [do |-> "notify", esc |-> esc, to |-> to, left |-> policies[id].channels]
    OBVIOUS
  <2>2. seen \in BoardRow
    BY <1>1, <1>2, CoStepTypes
  <2>3. esc \in EscalationIds /\ esc[1] = seen.item /\ seen.assignee \in Recipients
    BY <1>5, <2>2 DEF BoardRow, EscalationIds
  <2>4. to \in Recipients /\ policies[id].channels \subseteq Channels
    BY <2>1, <2>3, RecipientsAreKnown
  <2>5. a \in CoToDo /\ b \in CoToDo
    BY <2>1, <2>3, <2>4 DEF CoToDo
  <2>6. Timely(s) /\ \A fact : Needs(s, fact) => fact \in Facts
    BY <1>1, <1>2, CoHead
  <2>7. Timely(a) /\ Timely(b)
    BY <1>1, <1>2, <1>5, <2>1, <2>6 DEF Timely
  <2>8. \A fact : Needs(a, fact) => fact \in Facts
    <3>1. Needs(s, <<"item", seen.item>>)
      BY <1>1, <1>2 DEF Needs
    <3>2. \A fact : Needs(a, fact) => fact = <<"item", seen.item>>
      BY <2>1, <2>3 DEF Needs
    <3> QED BY <2>6, <3>1, <3>2
  <2>9. \A fact : Needs(b, fact) => fact \in Facts \/ Gives(a, fact)
    BY <2>1 DEF Needs, Gives
  <2>10. a.do \notin Lasts /\ a.do # "item" /\ b.do \notin Lasts /\ b.do # "item"
    BY <2>1 DEF Lasts
  <2>11. <<a, b>> \in CoQueues /\ StepsOf(<<a, b>>) = {a, b}
    BY <2>5, <2>7, <2>8, <2>9, <2>10, PairQueue
  <2>12. \A t \in StepsOf(<<a, b>>) : t.do \notin Lasts /\ t.do # "item"
    BY <2>10, <2>11
  <2>13. cotodo' = [cotodo EXCEPT ![w] = <<a, b>> \o back]
    BY <1>8, <2>1
  <2> QED BY <1>1, <1>3, <1>5, <1>6, <2>11, <2>12, <2>13, ConsiderContinues
<1> QED BY <1>4, <1>5, <1>7, <1>8

LEMMA NotificationKeeps ==
  ASSUME CoInv, NEW w \in CoWorkers, PutNotification(w)
  PROVE  CoInv'
<1>1. cotodo[w] # <<>> /\ Head(cotodo[w]) = cotodo[w][1] /\ cotodo[w][1].do = "notify" /\ cotodo[w][1] \in CoToDo
  BY CoHead DEF PutNotification
<1>2. PICK s : s = cotodo[w][1]
  OBVIOUS
<1>3. PICK channel \in s.left :
        LET rest == s.left \ {channel} IN
          /\ notifications' = notifications \cup {[esc |-> s.esc, to |-> s.to, channel |-> channel]}
          /\ cotodo' = [cotodo EXCEPT ![w] =
                          (IF rest = {} THEN <<>> ELSE <<[s EXCEPT !.left = rest]>>) \o Tail(cotodo[w])]
  BY <1>1, <1>2 DEF PutNotification
<1>4. /\ UNCHANGED <<now, items, comments, events, policies, oncall, escalations, handovers, acks, reports, orders,
                     codeaths>>
  BY DEF PutNotification
<1>5. PICK rest, t, new :
        /\ rest = s.left \ {channel} /\ t = [s EXCEPT !.left = rest]
        /\ new = IF rest = {} THEN <<>> ELSE <<t>>
  OBVIOUS
<1>6. s \in [do : {"notify"}, esc : EscalationIds, to : Recipients, left : SUBSET Channels]
  BY <1>1, <1>2 DEF CoToDo, ChangeSteps
<1>7. t \in CoToDo /\ t.do = "notify" /\ t.esc = s.esc
  <2>1. t \in [do : {"notify"}, esc : EscalationIds, to : Recipients, left : SUBSET Channels]
    BY <1>5, <1>6
  <2>2. t.esc = s.esc
    BY <1>5, <1>6
  <2> QED BY <2>1, <2>2 DEF CoToDo
<1>8. Needs(s, <<"escalation", s.esc>>)
  BY <1>6 DEF Needs
<1>9. s.esc \in DOMAIN escalations /\ \A fact : Needs(t, fact) => fact \in Facts
  <2>1. <<"escalation", s.esc>> \in Facts
    BY <1>1, <1>2, <1>8, CoHead
  <2>2. \A fact : Needs(t, fact) => fact = <<"escalation", s.esc>>
    BY <1>7 DEF Needs
  <2> QED BY <2>1, <2>2, FactsMean
<1>10. Timely(t) /\ t.do \notin Lasts /\ t.do # "item"
  BY <1>7 DEF Timely, Lasts
<1>11. new \in CoQueues /\ \A p \in StepsOf(new) : p.do \notin Lasts /\ p.do # "item"
  <2>1. CASE rest = {}
    BY <1>5, <2>1, NothingQueued
  <2>2. CASE rest # {}
    <3>1. <<t>> \in CoQueues /\ StepsOf(<<t>>) = {t}
      BY <1>7, <1>9, <1>10, LoneQueue
    <3> QED BY <1>5, <1>10, <2>2, <3>1
  <2> QED BY <2>1, <2>2
<1>12. CoThought(w, new, new \o Tail(cotodo[w]))
  BY <1>1, <1>3, <1>4, <1>5, <1>11 DEF CoThought
<1>13. cotodo' \in [CoWorkers -> CoQueues'] /\ ItemsAccounted'
  BY <1>11, <1>12, CoThinks
<1>14. notifications' = notifications \cup {[esc |-> s.esc, to |-> s.to, channel |-> channel]}
  BY <1>3
<1>15. CoRowsOK'
  <2>1. [esc |-> s.esc, to |-> s.to, channel |-> channel] \in [esc : EscalationIds, to : People \cup {Nobody}, channel : Channels]
    BY <1>6 DEF Recipients
  <2> QED BY <1>4, <1>14, <2>1 DEF CoInv, CoRowsOK, CoTypeOK
<1>16. CoRowsBacked'
  BY <1>4, <1>9, <1>14 DEF CoInv, CoRowsBacked, EscalationWarranted, AcceptedHasAck
<1> QED BY <1>13, <1>15, <1>16 DEF CoInv

\* A step that puts a row neither of an item nor of an event.
LEMMA CoDoesPut ==
  ASSUME CoInv, NEW w \in CoWorkers, NEW what, CoDoes(w, what), what \notin {"item", "event"},
         UNCHANGED <<items, events>>, DOMAIN escalations \subseteq DOMAIN escalations', acks \subseteq acks',
         what = "escalate" => cotodo[w][1].key \in DOMAIN escalations',
         what = "ack" => cotodo[w][1].row \in acks'
  PROVE  cotodo' \in [CoWorkers -> CoQueues'] /\ ItemsAccounted'
<1>1. cotodo[w] # <<>> /\ cotodo[w][1].do = what /\ cotodo' = [cotodo EXCEPT ![w] = Tail(@)]
      /\ UNCHANGED <<now, codeaths>>
  BY CoHead DEF CoDoes
<1>2. Facts \subseteq Facts'
  BY DEF Facts
<1>3. \A fact : Gives(cotodo[w][1], fact) => fact \in Facts'
  BY <1>1 DEF Gives, Facts
<1>4. events \subseteq events' /\ (cotodo[w][1].do = "event" => cotodo[w][1].row \in events')
  BY <1>1
<1> QED BY <1>1, <1>2, <1>3, <1>4, CoPuts

LEMMA CoHeadDoes ==
  ASSUME CoInv, NEW w \in CoWorkers, NEW what, CoDoes(w, what)
  PROVE  /\ cotodo[w] # <<>> /\ Head(cotodo[w]) = cotodo[w][1] /\ cotodo[w][1] \in CoToDo
         /\ cotodo[w][1].do = what /\ UNCHANGED <<now, codeaths>>
  BY CoHead DEF CoDoes

LEMMA PutItemKeeps ==
  ASSUME CoInv, NEW w \in CoWorkers, PutItem(w)
  PROVE  CoInv'
<1>1. PICK s : s = cotodo[w][1]
  OBVIOUS
<1>2. /\ cotodo[w] # <<>> /\ Head(cotodo[w]) = s /\ s \in CoToDo /\ s.do = "item"
      /\ cotodo' = [cotodo EXCEPT ![w] = Tail(@)] /\ items' = CoPut(items, s.key, s.row)
      /\ UNCHANGED <<now, codeaths, comments, events, policies, oncall, escalations, notifications, handovers, acks,
                     reports, orders>>
  BY <1>1, CoHeadDoes DEF PutItem, CoDoes
<1>3. s.key \in Items /\ s.row \in ItemRow
  BY <1>2, CoStepTypes
<1>4. DOMAIN items' = DOMAIN items \cup {s.key}
  BY <1>2 DEF CoPut
<1>5. Facts \subseteq Facts' /\ \A fact : Gives(s, fact) => fact \in Facts'
  BY <1>2, <1>4 DEF Facts, Gives
<1>6. cotodo' \in [CoWorkers -> CoQueues'] /\ ItemsAccounted'
  BY <1>1, <1>2, <1>5, CoPuts
<1>7. CoRowsOK'
  <2>1. DOMAIN items' \subseteq Items /\ \A i \in DOMAIN items' : items'[i] \in ItemRow
    BY <1>2, <1>3 DEF CoPut, CoInv, CoRowsOK, CoTypeOK
  <2> QED BY <1>2, <2>1 DEF CoInv, CoRowsOK, CoTypeOK
<1>8. CoRowsBacked'
  BY <1>2, <1>4 DEF CoInv, CoRowsBacked, EscalationWarranted, AcceptedHasAck
<1> QED BY <1>6, <1>7, <1>8 DEF CoInv

LEMMA PutEventKeeps ==
  ASSUME CoInv, NEW w \in CoWorkers, PutEvent(w)
  PROVE  CoInv'
<1>1. PICK s : s = cotodo[w][1]
  OBVIOUS
<1>2. /\ cotodo[w] # <<>> /\ Head(cotodo[w]) = s /\ s.do = "event"
      /\ cotodo' = [cotodo EXCEPT ![w] = Tail(@)] /\ events' = events \cup {s.row}
      /\ UNCHANGED <<now, codeaths, items, comments, policies, oncall, escalations, notifications, handovers, acks,
                     reports, orders>>
  BY <1>1, CoHeadDoes DEF PutEvent, CoDoes
<1>3. Facts \subseteq Facts' /\ \A fact : Gives(s, fact) => fact \in Facts'
  BY <1>2 DEF Facts, Gives
<1>4. events \subseteq events' /\ s.row \in events'
  BY <1>2
<1>5. cotodo' \in [CoWorkers -> CoQueues'] /\ ItemsAccounted'
  BY <1>1, <1>2, <1>3, <1>4, CoPuts
<1>6. CoRowsOK' /\ CoRowsBacked'
  BY <1>2 DEF CoInv, CoRowsOK, CoTypeOK, CoRowsBacked, EscalationWarranted, AcceptedHasAck
<1> QED BY <1>5, <1>6 DEF CoInv

LEMMA PutCommentKeeps ==
  ASSUME CoInv, NEW w \in CoWorkers, PutComment(w)
  PROVE  CoInv'
<1>1. PICK s : s = cotodo[w][1]
  OBVIOUS
<1>2. CoDoes(w, "comment") /\ comments' = comments \cup {s.row} /\ s \in CoToDo /\ s.do = "comment"
      /\ UNCHANGED <<now, codeaths, items, events, policies, oncall, escalations, notifications, handovers, acks,
                     reports, orders>>
  BY <1>1, CoHeadDoes DEF PutComment
<1>3. cotodo' \in [CoWorkers -> CoQueues'] /\ ItemsAccounted'
  BY <1>1, <1>2, CoDoesPut
<1>4. s.row.item \in DOMAIN items
  <2>1. Needs(s, <<"item", s.row.item>>)
    BY <1>2 DEF Needs
  <2> QED BY <1>1, <1>2, <2>1, CoHeadDoes, CoHead, FactsMean
<1>5. s.row \in [item : Items, author : People]
  BY <1>2, CoStepTypes
<1>6. CoRowsOK'
  BY <1>2, <1>5 DEF CoInv, CoRowsOK, CoTypeOK
<1>7. CoRowsBacked'
  BY <1>2, <1>4 DEF CoInv, CoRowsBacked, EscalationWarranted, AcceptedHasAck
<1> QED BY <1>3, <1>6, <1>7 DEF CoInv

LEMMA PutEscalationKeeps ==
  ASSUME CoInv, NEW w \in CoWorkers, PutEscalation(w)
  PROVE  CoInv'
<1>1. PICK s : s = cotodo[w][1]
  OBVIOUS
<1>2. CoDoes(w, "escalate") /\ escalations' = CoPut(escalations, s.key, s.row) /\ s \in CoToDo /\ s.do = "escalate"
      /\ cotodo[w] # <<>>
      /\ UNCHANGED <<now, codeaths, items, comments, events, policies, oncall, notifications, handovers, acks,
                     reports, orders>>
  BY <1>1, CoHeadDoes DEF PutEscalation
<1>3. DOMAIN escalations' = DOMAIN escalations \cup {s.key}
  BY <1>2 DEF CoPut
<1>4. cotodo' \in [CoWorkers -> CoQueues'] /\ ItemsAccounted'
  BY <1>1, <1>2, <1>3, CoDoesPut
<1>5. s.key[1] \in DOMAIN items /\ Warranted(s.key)
  <2>1. Needs(s, <<"item", s.key[1]>>)
    BY <1>2 DEF Needs
  <2>2. Timely(s) /\ <<"item", s.key[1]>> \in Facts
    BY <1>1, <1>2, <2>1, CoHead
  <2> QED BY <1>2, <2>2, FactsMean DEF Timely
<1>6. s.key \in EscalationIds /\ s.row \in People \cup {Nobody}
  BY <1>2, CoStepTypes DEF Recipients
<1>7. CoRowsOK'
  <2>1. DOMAIN escalations' \subseteq EscalationIds /\ \A e \in DOMAIN escalations' : escalations'[e] \in People \cup {Nobody}
    BY <1>2, <1>6 DEF CoPut, CoInv, CoRowsOK, CoTypeOK
  <2> QED BY <1>2, <2>1 DEF CoInv, CoRowsOK, CoTypeOK
<1>8. EscalationWarranted'
  <2>1. \A e \in DOMAIN escalations : e[1] \in DOMAIN items /\ Warranted(e)
    BY DEF CoInv, CoRowsBacked, EscalationWarranted, Warranted
  <2>2. \A e \in DOMAIN escalations' : e[1] \in DOMAIN items /\ Warranted(e)
    BY <1>3, <1>5, <2>1
  <2>3. /\ \A e \in DOMAIN escalations' :
             /\ e[1] \in DOMAIN items'
             /\ IF e[3] = "overdue" THEN e[2] < now' ELSE e[2] <= now' + 1
        /\ \A n \in notifications' : n.esc \in DOMAIN escalations'
        /\ \A h \in DOMAIN handovers' : handovers'[h].escs \subseteq DOMAIN escalations'
        /\ \A r \in reports' : r.escs \subseteq DOMAIN escalations'
    BY <1>2, <1>3, <2>2 DEF CoInv, CoRowsBacked, EscalationWarranted, Warranted
  <2> QED BY <2>3 DEF EscalationWarranted
<1>9. CoRowsBacked'
  BY <1>2, <1>8 DEF CoInv, CoRowsBacked, AcceptedHasAck
<1> QED BY <1>4, <1>7, <1>9 DEF CoInv

LEMMA PutHandoverKeeps ==
  ASSUME CoInv, NEW w \in CoWorkers, PutHandover(w)
  PROVE  CoInv'
<1>1. PICK s : s = cotodo[w][1]
  OBVIOUS
<1>2. CoDoes(w, "handover") /\ handovers' = CoPut(handovers, s.key, s.row) /\ s \in CoToDo /\ s.do = "handover"
      /\ cotodo[w] # <<>>
      /\ UNCHANGED <<now, codeaths, items, comments, events, policies, oncall, escalations, notifications, acks,
                     reports, orders>>
  BY <1>1, CoHeadDoes DEF PutHandover
<1>3. cotodo' \in [CoWorkers -> CoQueues'] /\ ItemsAccounted'
  BY <1>1, <1>2, CoDoesPut
<1>4. \A fact : Needs(s, fact) => fact \in Facts
  BY <1>1, <1>2, CoHead
<1>5. s.row.escs \subseteq DOMAIN escalations
  <2>1. \A e \in s.row.escs : Needs(s, <<"escalation", e>>)
    BY <1>2 DEF Needs
  <2> QED BY <1>4, <2>1, FactsMean
<1>6. s.row.status = "accepted" => [handover |-> s.key, role |-> "incoming", by |-> s.row.in] \in acks
  <2>1. s.row.status = "accepted" => Needs(s, <<"ack", [handover |-> s.key, role |-> "incoming", by |-> s.row.in]>>)
    BY <1>2 DEF Needs
  <2> QED BY <1>4, <2>1, FactsMean
<1>7. s.key \in Handovers /\ s.row \in HandoverRow
  BY <1>2, CoStepTypes
<1>8. CoRowsOK'
  <2>1. DOMAIN handovers' \subseteq Handovers /\ \A h \in DOMAIN handovers' : handovers'[h] \in HandoverRow
    BY <1>2, <1>7 DEF CoPut, CoInv, CoRowsOK, CoTypeOK
  <2> QED BY <1>2, <2>1 DEF CoInv, CoRowsOK, CoTypeOK
<1>9. CoRowsBacked'
  <2>1. \A h \in DOMAIN handovers' :
          /\ handovers'[h].escs \subseteq DOMAIN escalations
          /\ handovers'[h].status = "accepted" =>
               [handover |-> h, role |-> "incoming", by |-> handovers'[h].in] \in acks
    BY <1>2, <1>5, <1>6 DEF CoPut, CoInv, CoRowsBacked, EscalationWarranted, AcceptedHasAck
  <2> QED BY <1>2, <2>1 DEF CoInv, CoRowsBacked, EscalationWarranted, AcceptedHasAck
<1> QED BY <1>3, <1>8, <1>9 DEF CoInv

LEMMA PutAckKeeps ==
  ASSUME CoInv, NEW w \in CoWorkers, PutAck(w)
  PROVE  CoInv'
<1>1. PICK s : s = cotodo[w][1]
  OBVIOUS
<1>2. CoDoes(w, "ack") /\ acks' = acks \cup {s.row} /\ s \in CoToDo /\ s.do = "ack"
      /\ UNCHANGED <<now, codeaths, items, comments, events, policies, oncall, escalations, notifications, handovers,
                     reports, orders>>
  BY <1>1, CoHeadDoes DEF PutAck
<1>3. cotodo' \in [CoWorkers -> CoQueues'] /\ ItemsAccounted'
  BY <1>1, <1>2, CoDoesPut
<1>4. s.row \in AckRow
  BY <1>2, CoStepTypes
<1>5. CoRowsOK' /\ CoRowsBacked'
  BY <1>2, <1>4 DEF AckRow, CoInv, CoRowsOK, CoTypeOK, CoRowsBacked, EscalationWarranted, AcceptedHasAck
<1> QED BY <1>3, <1>5 DEF CoInv

LEMMA PutReportKeeps ==
  ASSUME CoInv, NEW w \in CoWorkers, PutReport(w)
  PROVE  CoInv'
<1>1. PICK s : s = cotodo[w][1]
  OBVIOUS
<1>2. CoDoes(w, "report") /\ reports' = reports \cup {s.row} /\ s \in CoToDo /\ s.do = "report" /\ cotodo[w] # <<>>
      /\ UNCHANGED <<now, codeaths, items, comments, events, policies, oncall, escalations, notifications, handovers,
                     acks, orders>>
  BY <1>1, CoHeadDoes DEF PutReport
<1>3. cotodo' \in [CoWorkers -> CoQueues'] /\ ItemsAccounted'
  BY <1>1, <1>2, CoDoesPut
<1>4. s.row.escs \subseteq DOMAIN escalations
  <2>1. \A e \in s.row.escs : Needs(s, <<"escalation", e>>)
    BY <1>2 DEF Needs
  <2> QED BY <1>1, <1>2, <2>1, CoHead, FactsMean
<1>5. CoRowsOK' /\ CoRowsBacked'
  BY <1>2, <1>4 DEF CoInv, CoRowsOK, CoTypeOK, CoRowsBacked, EscalationWarranted, AcceptedHasAck
<1> QED BY <1>3, <1>5 DEF CoInv

LEMMA SettingsKeep ==
  ASSUME CoInv, NEW w \in CoWorkers, PutPolicy(w) \/ PutOncall(w)
  PROVE  CoInv'
<1>1. PICK s : s = cotodo[w][1]
  OBVIOUS
<1>2. /\ UNCHANGED <<now, codeaths, items, comments, events, escalations, notifications, handovers, acks, reports, orders>>
      /\ s \in CoToDo
      /\ \/ CoDoes(w, "policy") /\ s.do = "policy" /\ policies' = CoPut(policies, s.key, s.row) /\ UNCHANGED oncall
         \/ CoDoes(w, "oncall") /\ s.do = "oncall" /\ oncall' = s.row /\ UNCHANGED policies
  BY <1>1, CoHeadDoes DEF PutPolicy, PutOncall
<1>3. cotodo' \in [CoWorkers -> CoQueues'] /\ ItemsAccounted'
  BY <1>1, <1>2, CoDoesPut
<1>4. /\ DOMAIN policies' \subseteq Policies /\ \A id \in DOMAIN policies' : policies'[id] \in PolicyRows
      /\ oncall' \in Seq(People)
  <2>1. /\ s.do = "policy" => s.key \in Policies /\ s.row \in PolicyRows
        /\ s.do = "oncall" => s.row \in Seq(People)
    BY <1>2, CoStepTypes
  <2>2. /\ DOMAIN policies \subseteq Policies /\ \A id \in DOMAIN policies : policies[id] \in PolicyRows
        /\ oncall \in Seq(People)
    BY DEF CoInv, CoRowsOK, CoTypeOK
  <2> QED BY <1>2, <2>1, <2>2 DEF CoPut
<1>5. CoRowsOK' /\ CoRowsBacked'
  BY <1>2, <1>4 DEF CoInv, CoRowsOK, CoTypeOK, CoRowsBacked, EscalationWarranted, AcceptedHasAck
<1> QED BY <1>3, <1>5 DEF CoInv

LEMMA PutOrderKeeps ==
  ASSUME CoInv, NEW w \in CoWorkers, PutOrder(w)
  PROVE  CoInv'
<1>1. PICK s : s = cotodo[w][1]
  OBVIOUS
<1>2. CoDoes(w, "order") /\ orders' = CoPut(orders, s.key, s.row) /\ s \in CoToDo /\ s.do = "order"
      /\ UNCHANGED <<now, codeaths, items, comments, events, policies, oncall, escalations, notifications, handovers,
                     acks, reports>>
  BY <1>1, CoHeadDoes DEF PutOrder
<1>3. cotodo' \in [CoWorkers -> CoQueues'] /\ ItemsAccounted'
  BY <1>1, <1>2, CoDoesPut
<1>4. s.key \in Orders /\ s.row \in OrderRow
  BY <1>2, CoStepTypes
<1>5. DOMAIN orders' \subseteq Orders /\ \A o \in DOMAIN orders' : orders'[o] \in OrderRow
  BY <1>2, <1>4 DEF CoPut, CoInv, CoRowsOK, CoTypeOK
<1>6. \A o \in DOMAIN orders' : orders'[o].status \in {"draft", "approved", "dispatched"}
  BY <1>5 DEF OrderRow
<1>7. CoRowsOK' /\ CoRowsBacked'
  BY <1>2, <1>5, <1>6 DEF CoInv, CoRowsOK, CoTypeOK, CoRowsBacked, EscalationWarranted, AcceptedHasAck
<1> QED BY <1>3, <1>7 DEF CoInv

LEMMA CoFailureKeeps ==
  ASSUME CoInv, NEW w \in CoWorkers, FailCoHandler(w)
  PROVE  CoInv'
<1>1. /\ cotodo' = [cotodo EXCEPT ![w] = <<>>] /\ codeaths' = codeaths + 1
      /\ UNCHANGED <<now, items, comments, events, policies, oncall, escalations, notifications, handovers, acks,
                     reports, orders>>
  BY DEF FailCoHandler, costores
<1>2. Facts' = Facts
  BY <1>1 DEF Facts
<1>3. CoQueues' = CoQueues
  BY <1>1, <1>2 DEF CoQueues, Timely, Warranted
<1>4. cotodo' \in [CoWorkers -> CoQueues']
  BY <1>1, <1>3, NothingQueued DEF CoInv
<1>5. codeaths \in Nat /\ codeaths' \in Nat /\ codeaths' # 0
  BY <1>1 DEF CoInv, CoRowsOK
<1>6. CoRowsOK' /\ CoRowsBacked'
  BY <1>1, <1>5 DEF CoInv, CoRowsOK, CoTypeOK, CoRowsBacked, EscalationWarranted, AcceptedHasAck
<1> QED BY <1>4, <1>5, <1>6 DEF CoInv, ItemsAccounted

LEMMA TickKeeps ==
  ASSUME CoInv, now' \in 0..MaxNow, now <= now', UNCHANGED <<costores, cotodo, codeaths>>
  PROVE  CoInv'
<1>1. UNCHANGED <<items, comments, events, policies, oncall, escalations, notifications, handovers, acks,
                  reports, orders, cotodo, codeaths>>
  BY DEF costores
<1>2. now \in Nat /\ now' \in Nat
  BY DEF CoInv, CoRowsOK, CoTypeOK
<1>3. CoQueues \subseteq CoQueues'
  <2>1. Facts' = Facts
    BY <1>1 DEF Facts
  <2> QED BY <1>2, <2>1, CoQueuesGrow
<1>4. cotodo' \in [CoWorkers -> CoQueues']
  BY <1>1, <1>3 DEF CoInv
<1>5. Queued' = Queued
  BY <1>1 DEF Queued
<1>6. Said' = Said
  BY <1>1, <1>5 DEF Said
<1>7. ItemsAccounted'
  BY <1>1, <1>5, <1>6 DEF CoInv, ItemsAccounted, Accounted
<1>8. CoRowsOK'
  BY <1>1 DEF CoInv, CoRowsOK, CoTypeOK
<1>9. CoRowsBacked'
  <2>1. \A e \in DOMAIN escalations : e[2] \in Int
    BY CoAssumption DEF CoInv, CoRowsOK, CoTypeOK, EscalationIds, Dues, NoDue
  <2> QED BY <1>1, <1>2, <2>1 DEF CoInv, CoRowsBacked, EscalationWarranted, AcceptedHasAck
<1> QED BY <1>4, <1>7, <1>8, <1>9 DEF CoInv

LEMMA CoInvHolds == CoSpec => []CoInv
<1>1. CoInit => CoInv
  <2> SUFFICES ASSUME CoInit PROVE CoInv
    OBVIOUS
  <2>1. /\ DOMAIN items = {} /\ DOMAIN policies = {} /\ DOMAIN escalations = {} /\ DOMAIN handovers = {}
        /\ DOMAIN orders = {} /\ oncall \in Seq(People) /\ now \in 0..MaxNow
    BY CoAssumption DEF CoInit
  <2>2. CoRowsOK /\ CoRowsBacked
    BY <2>1 DEF CoInit, CoRowsOK, CoTypeOK, CoRowsBacked, EscalationWarranted, AcceptedHasAck
  <2>3. cotodo \in [CoWorkers -> CoQueues]
    BY NothingQueued DEF CoInit
  <2>4. Queued = {}
    BY DEF Queued, CoInit
  <2>5. ItemsAccounted
    BY <2>1, <2>4 DEF ItemsAccounted
  <2> QED BY <2>2, <2>3, <2>5 DEF CoInv
<1>2. CoInv /\ [CoNext]_covars => CoInv'
  <2> SUFFICES ASSUME CoInv, [CoNext]_covars PROVE CoInv'
    OBVIOUS
  <2>1. CASE Tick \/ UNCHANGED covars
    <3>1. now \in 0..MaxNow /\ MaxNow \in Nat
      BY CoAssumption DEF CoInv, CoRowsOK, CoTypeOK
    <3>2. now' \in 0..MaxNow /\ now <= now' /\ UNCHANGED <<costores, cotodo, codeaths>>
      BY <2>1, <3>1 DEF Tick, covars
    <3> QED BY <3>2, TickKeeps
  <2>2. ASSUME NEW w \in CoWorkers, ItemRequest(w) \/ EscalationRequest(w) \/ HandoverRequest(w) \/ OrderRequest(w)
        PROVE  CoInv'
    BY <2>2, ItemRequestsKeep, EscalationRequestsKeep, HandoverRequestsKeep, OrderRequestsKeep
  <2>3. ASSUME NEW w \in CoWorkers, CoStep(w) PROVE CoInv'
    BY <2>3, ReadToChangeKeeps, ConsiderKeeps, SnapshotKeeps, SummariseKeeps, PutItemKeeps, PutCommentKeeps,
       PutEventKeeps, SettingsKeep, PutEscalationKeeps, NotificationKeeps, PutHandoverKeeps, PutAckKeeps,
       PutReportKeeps, PutOrderKeeps DEF CoStep
  <2>4. ASSUME NEW w \in CoWorkers, FailCoHandler(w) PROVE CoInv'
    BY <2>4, CoFailureKeeps
  <2> QED BY <2>1, <2>2, <2>3, <2>4 DEF CoNext
<1> QED BY <1>1, <1>2, PTL DEF CoSpec

\* A row of any kind, and the clock, have the form the services give them, whatever
\* stale row a handler puts back (team_collaboration.py and its neighbours).
THEOREM CoTypeCorrect == CoSpec => []CoTypeOK
<1>1. CoInv => CoTypeOK
  BY DEF CoInv, CoRowsOK
<1> QED BY <1>1, CoInvHolds, PTL

\* A comment belongs to a stored item, and who is responsible for an item, and by when,
\* was announced, stale rows that are put back included (team_collaboration.py).
THEOREM ResponsibilityHasTrace == CoSpec => []ResponsibilityTraced
<1>1. CoInv => ResponsibilityTraced
  <2> SUFFICES ASSUME CoInv PROVE ResponsibilityTraced
    OBVIOUS
  <2>1. \A c \in comments : c.item \in DOMAIN items
    BY DEF CoInv, CoRowsBacked
  <2>2. ASSUME codeaths = 0, \A w \in CoWorkers : cotodo[w] = <<>>, NEW i \in DOMAIN items
        PROVE  /\ items[i].assignee # Nobody =>
                    \E e \in events : e.item = i /\ e.kind \in {"assigned", "handoff"} /\ e.to = items[i].assignee
               /\ items[i].due # NoDue =>
                    \E e \in events : e.item = i /\ e.kind = "sla_updated" /\ e.to = items[i].due
    <3>1. Queued = {}
      BY <2>2 DEF Queued
    <3>2. Accounted(items[i], i)
      BY <2>2 DEF CoInv, ItemsAccounted
    <3>3. \A claim \in Said : \E e \in events : Says(e, claim)
      BY <3>1 DEF Said
    <3>4. ASSUME items[i].assignee # Nobody
          PROVE  \E e \in events : e.item = i /\ e.kind \in {"assigned", "handoff"} /\ e.to = items[i].assignee
      <4>1. PICK e \in events : Says(e, <<i, "assignee", items[i].assignee>>)
        BY <3>2, <3>3, <3>4 DEF Accounted
      <4> QED BY <4>1 DEF Says
    <3>5. ASSUME items[i].due # NoDue
          PROVE  \E e \in events : e.item = i /\ e.kind = "sla_updated" /\ e.to = items[i].due
      <4>1. PICK e \in events : Says(e, <<i, "due", items[i].due>>)
        BY <3>2, <3>3, <3>5 DEF Accounted
      <4> QED BY <4>1 DEF Says
    <3> QED BY <3>4, <3>5
  <2> QED BY <2>1, <2>2 DEF ResponsibilityTraced
<1> QED BY <1>1, CoInvHolds, PTL

\* An escalation was due when it was made, stands behind each notification, and is there
\* when a handover or a report shows it (collaboration escalation, evaluate).
THEOREM EscalationsAreWarranted == CoSpec => []EscalationWarranted
<1>1. CoInv => EscalationWarranted
  BY DEF CoInv, CoRowsBacked
<1> QED BY <1>1, CoInvHolds, PTL

\* The person an accepted handover names as incoming acknowledged it, whatever was
\* submitted under its id in between (shift handovers, acknowledge).
THEOREM AcceptanceIsAcknowledged == CoSpec => []AcceptedHasAck
<1>1. CoInv => AcceptedHasAck
  BY DEF CoInv, CoRowsBacked
<1> QED BY <1>1, CoInvHolds, PTL

\* The last entry of an order's history says its status, and a dispatched order is known
\* to the CMMS (predictive_maintenance.py, transition).
THEOREM OrdersAreExplained == CoSpec => []HistoryExplainsOrder
<1>1. CoInv => HistoryExplainsOrder
  BY DEF CoInv, CoRowsOK, OrderRow, Explained, HistoryExplainsOrder
<1> QED BY <1>1, CoInvHolds, PTL

-----------------------------------------------------------------------------
(* The services side by side.                                              *)

\* Each step of the composition is a step of the service in focus, and of no other.
LEMMA FocusedSteps ==
  ASSUME [MCNext]_<<kvars, mvars, covars, evars, ovars, focus>>
  PROVE  [KNext]_kvars /\ [MNext]_mvars /\ [CoNext]_covars /\ [ENext]_evars /\ [ONext]_ovars
<1>1. CASE CasesOf \/ DocumentsOf \/ RecordsOf
  <2>1. KNext
    BY <1>1 DEF CasesOf, DocumentsOf, RecordsOf, KNext
  <2>2. focus \in {"cases", "documents", "records"} /\ Others(focus)
    BY <1>1 DEF CasesOf, DocumentsOf, RecordsOf, On
  <2> QED BY <2>1, <2>2 DEF Others
<1>2. CASE ModelsOf
  <2>1. MNext
    BY <1>2 DEF ModelsOf, MNext
  <2>2. focus = "models" /\ Others(focus)
    BY <1>2 DEF ModelsOf, On
  <2> QED BY <2>1, <2>2 DEF Others
<1>3. CASE ItemsOf \/ EscalationOf \/ HandoversOf
  <2>1. ASSUME NEW w \in CoWorkers, NEW i \in Items, SetSla(w, i, now + 1) PROVE ItemRequest(w)
    BY <2>1 DEF ItemRequest
  <2>2. CoNext
    BY <1>3, <2>1 DEF ItemsOf, EscalationOf, HandoversOf, CoSteps, CoNext
  <2>3. focus \in {"items", "escalation", "handovers"} /\ Others(focus)
    BY <1>3 DEF ItemsOf, EscalationOf, HandoversOf, On
  <2> QED BY <2>2, <2>3 DEF Others
<1>4. CASE IdentityOf \/ AuditOf \/ LegacyOf
  <2>0. ASSUME NEW w \in EWorkers,
               \/ IdentityRequest(w) \/ AccessRequest(w) \/ HistoryRequest(w) \/ AuditRequest(w)
               \/ EStep(w) \/ FailEHandler(w)
        PROVE  ENext
    BY <2>0 DEF ENext
  <2>1. ASSUME NEW w \in EWorkers, RejectToken(w) \/ ImportLegacy(w) \/ EnforceRetention(w)
        PROVE  ENext
    BY <2>0, <2>1 DEF AccessRequest, AuditRequest
  <2>4. ASSUME IdentityOf PROVE ENext
    BY <2>0, <2>4 DEF IdentityOf, ESteps
  <2>5. ASSUME AuditOf PROVE ENext
    BY <2>0, <2>1, <2>5 DEF AuditOf, ESteps, ENext
  <2>6. ASSUME LegacyOf PROVE ENext
    BY <2>0, <2>1, <2>6 DEF LegacyOf, ESteps, ENext
  <2>2. ENext
    BY <1>4, <2>4, <2>5, <2>6
  <2>3. focus \in {"identity", "audit", "legacy"} /\ Others(focus)
    BY <1>4 DEF IdentityOf, AuditOf, LegacyOf, On
  <2> QED BY <2>2, <2>3 DEF Others
<1>5. CASE BindingsOf \/ SourcesOf \/ TemplatesOf
  <2>1. ONext
    BY <1>5 DEF BindingsOf, SourcesOf, TemplatesOf, OSteps, ONext, OnboardingRequest
  <2>2. focus \in {"bindings", "sources", "templates"} /\ Others(focus)
    BY <1>5 DEF BindingsOf, SourcesOf, TemplatesOf, On
  <2> QED BY <2>1, <2>2 DEF Others
<1>6. CASE UNCHANGED <<kvars, mvars, covars, evars, ovars, focus>>
  BY <1>6
<1> QED BY <1>1, <1>2, <1>3, <1>4, <1>5, <1>6 DEF MCNext

\* The composition that the run checks implements each of its services, so what is proved
\* of one of them holds beside the others.
THEOREM ServicesSideBySide == MCSpec => KSpec /\ MSpec /\ CoSpec /\ ESpec /\ OSpec
<1>1. MCInit => KInit /\ MInit /\ CoInit /\ EInit /\ OInit
  BY DEF MCInit
<1> QED BY <1>1, FocusedSteps, PTL DEF MCSpec, KSpec, MSpec, CoSpec, ESpec, OSpec

\* The rows of all five services keep their form, with every service running: what they
\* name exists, and no handler puts what another one could not read.
THEOREM OperationsTyped == MCSpec => []TypesOK
<1>1. KTypeOK /\ MTypeOK /\ CoTypeOK /\ ETypeOK /\ OTypeOK => TypesOK
  BY DEF TypesOK
<1> QED
  BY <1>1, ServicesSideBySide, KTypeCorrect, MTypeCorrect, CoTypeCorrect, ReferencesHold, OTypeCorrect, PTL
=============================================================================
