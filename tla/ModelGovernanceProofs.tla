------------------------- MODULE ModelGovernanceProofs -------------------------
(***************************************************************************)
(* Only models that were approved are deployed or answer requests, and a   *)
(* slot's history explains its roles, for any number of models, slots,     *)
(* threads, requests and deaths: the rows that handlers carry from a read  *)
(* to a put are as safe as the stored ones, an approval is never           *)
(* forgotten, and of each role the last move outlives the ones before it.  *)
(***************************************************************************)
EXTENDS ModelGovernance, TLAPS

-----------------------------------------------------------------------------
\* The rows, runs and steps that name only approved models where it matters.
RolesSafe == [champion : wasApproved \cup {NoModel}, challenger : wasApproved \cup {NoModel},
              history : Seq(Entry)]
SafeRows == {row \in RolesSafe : row.history # <<>> /\ Explains(row)}
SafeRuns == [model : wasApproved, by : {"request"}] \cup [model : Models, by : {"offline_evaluation"}]
SafeSteps ==
  [do : {"model"}, key : Models, row : ModelStatus]
    \cup [do : {"slot"}, key : Slots, row : SafeRows]
    \cup [do : {"readslot"}, key : Slots, role : Roles, model : wasApproved]
    \cup [do : {"run"}, row : SafeRuns]
    \cup [do : {"evaluation", "baseline"}, key : Models]
    \cup [do : {"drift"}, row : Models \X {"stable", "watch", "drift"}]

MInv ==
  /\ wasApproved \subseteq Models
  /\ \A m \in DOMAIN models : models[m] = "approved" => m \in wasApproved
  /\ DOMAIN models \subseteq Models /\ \A m \in DOMAIN models : models[m] \in ModelStatus
  /\ DOMAIN slots \subseteq Slots /\ \A s \in DOMAIN slots : slots[s] \in SafeRows
  /\ runs \subseteq SafeRuns
  /\ evaluations \subseteq Models /\ baselines \subseteq Models
  /\ drifts \subseteq Models \X {"stable", "watch", "drift"}
  /\ mtodo \in [MWorkers -> Seq(SafeSteps)]

\* r is what set_role keeps of a history h and its new entry e: the first d entries are gone.
Drops(h, e, r, d) ==
  /\ r \in Seq(Entry) /\ r # <<>> /\ Len(r) \in Nat /\ Len(r) > 0 /\ r[Len(r)] = e
  /\ Len(r) = Len(h) + 1 - d
  /\ \A i \in 1..Len(r) : i < Len(r) => i + d \in 1..Len(h) /\ r[i] = h[i + d]

\* The cut of set_role drops only the first entries, and never the new one.
LEMMA KeptEntries ==
  ASSUME NEW h \in Seq(Entry), NEW e \in Entry, NEW r, r = LastOf(Append(h, e), HistoryKept)
  PROVE  \E d \in 0..Len(h) : Drops(h, e, r, d)
<1>1. PICK k : k = Append(h, e)
  OBVIOUS
<1>2. k \in Seq(Entry) /\ Len(k) = Len(h) + 1 /\ k[Len(h) + 1] = e /\ \A i \in 1..Len(h) : k[i] = h[i]
  BY <1>1
<1>3. HistoryKept \in Nat \ {0} /\ Len(h) \in Nat
  BY MAssumption
<1>4. CASE Len(k) <= HistoryKept
  <2>1. r = k
    BY <1>1, <1>4 DEF LastOf
  <2>2. /\ Len(r) = Len(h) + 1 - 0
        /\ \A i \in 1..Len(r) : i < Len(r) => i + 0 \in 1..Len(h) /\ r[i] = h[i + 0]
    BY <1>2, <1>3, <2>1
  <2>3. r \in Seq(Entry) /\ Len(r) \in Nat /\ Len(r) > 0 /\ r[Len(r)] = e /\ 0 \in 0..Len(h)
    BY <1>2, <1>3, <2>1
  <2>4. r # <<>>
    BY <2>3
  <2> QED BY <2>2, <2>3, <2>4 DEF Drops
<1>5. CASE ~(Len(k) <= HistoryKept)
  <2>1. PICK d : d = Len(h) + 1 - HistoryKept
    OBVIOUS
  <2>2. d \in 0..Len(h) /\ Len(k) - HistoryKept + 1 = d + 1 /\ Len(k) > HistoryKept
    BY <1>2, <1>3, <1>5, <2>1
  <2>3. r = SubSeq(k, d + 1, Len(k))
    BY <1>1, <1>5, <2>2 DEF LastOf
  <2>4. /\ r \in Seq(Entry) /\ Len(r) = Len(k) - d
        /\ \A i \in 1..Len(r) : r[i] = k[i + d]
    BY <1>2, <1>3, <2>2, <2>3
  <2>5. Len(r) = Len(h) + 1 - d /\ Len(r) \in Nat /\ Len(r) > 0 /\ Len(r) + d = Len(h) + 1
    BY <1>2, <1>3, <2>2, <2>4
  <2>6. r[Len(r)] = e
    BY <1>2, <2>4, <2>5
  <2>7. \A i \in 1..Len(r) : i < Len(r) => i + d \in 1..Len(h) /\ r[i] = h[i + d]
    BY <1>2, <1>3, <2>2, <2>4, <2>5
  <2>8. r # <<>>
    BY <2>5
  <2> QED BY <2>2, <2>4, <2>5, <2>6, <2>7, <2>8 DEF Drops
<1> QED BY <1>4, <1>5

\* If the new entry is a move of the one role, it is the last move of that role, and the
\* last of the other role is what it was, unless it has been forgotten.
LEMMA MovesKept ==
  ASSUME NEW h \in Seq(Entry), NEW e \in Entry, NEW r, r = LastOf(Append(h, e), HistoryKept),
         NEW other, NEW i \in DOMAIN r, LastMove(r, i, other)
  PROVE  /\ e.action # other => r[i] = e
         /\ e.action = other => \E j \in DOMAIN h : LastMove(h, j, other) /\ r[i] = h[j]
<1>0. PICK d \in 0..Len(h) : Drops(h, e, r, d)
  BY KeptEntries
<1>2. /\ r \in Seq(Entry) /\ r # <<>> /\ Len(r) \in Nat /\ Len(r) > 0 /\ r[Len(r)] = e
      /\ Len(r) = Len(h) + 1 - d
      /\ \A j \in 1..Len(r) : j < Len(r) => j + d \in 1..Len(h) /\ r[j] = h[j + d]
  BY <1>0 DEF Drops
<1>1. r \in Seq(Entry) /\ Len(r) \in Nat /\ Len(r) > 0 /\ r[Len(r)] = e
  BY <1>2
<1>3. /\ DOMAIN r = 1..Len(r) /\ DOMAIN h = 1..Len(h) /\ Len(h) \in Nat /\ i \in 1..Len(r)
      /\ r[i].action # other /\ \A j \in 1..Len(r) : j > i => r[j].action = other
  BY <1>1 DEF LastMove
<1>4. CASE e.action # other
  <2>1. ~(Len(r) > i)
    BY <1>1, <1>3, <1>4
  <2>2. i = Len(r)
    BY <1>1, <1>3, <2>1
  <2> QED BY <1>1, <1>4, <2>2
<1>5. CASE e.action = other
  <2>1. i # Len(r)
    BY <1>1, <1>3, <1>5
  <2>2. i < Len(r)
    BY <1>1, <1>3, <2>1
  <2>3. i + d \in 1..Len(h) /\ r[i] = h[i + d]
    BY <1>2, <1>3, <2>2
  <2>4. ASSUME NEW j \in 1..Len(h), j > i + d PROVE h[j].action = other
    <3>1. j - d \in 1..Len(r) /\ j - d < Len(r) /\ j - d > i /\ (j - d) + d = j
      BY <1>1, <1>2, <1>3, <2>4
    <3>2. r[j - d] = h[(j - d) + d] /\ r[j - d].action = other
      BY <1>2, <1>3, <3>1
    <3> QED BY <3>1, <3>2
  <2>5. LastMove(h, i + d, other)
    BY <1>3, <2>3, <2>4 DEF LastMove
  <2> QED BY <1>3, <1>5, <2>3, <2>5
<1> QED BY <1>4, <1>5

\* A role that is set, on a stored row or an empty one, and a swap are safe and entered
\* in the history.
LEMMA SafeRoles ==
  ASSUME wasApproved \subseteq Models
  PROVE  /\ \A row \in SafeRows \cup {EmptySlot}, role \in Roles, m \in wasApproved :
              WithRole(row, role, m) \in SafeRows
         /\ \A row \in SafeRows, action \in {"promote", "rollback"} :
              row.challenger # NoModel => Swapped(row, action) \in SafeRows
<1>1. EmptySlot \in RolesSafe /\ Explains(EmptySlot)
  BY DEF EmptySlot, RolesSafe, Explains
<1>2. ASSUME NEW row \in SafeRows \cup {EmptySlot}, NEW role \in Roles, NEW m \in wasApproved
      PROVE  WithRole(row, role, m) \in SafeRows
  <2>1. row \in RolesSafe /\ Explains(row)
    BY <1>1 DEF SafeRows
  <2>2. PICK entry : entry = [action |-> IF role = "champion" THEN "set_champion" ELSE "set_challenger",
                              from |-> row[role], to |-> m]
    OBVIOUS
  <2>3. entry \in Entry
    BY <2>1, <2>2 DEF Entry, RolesSafe, Roles
  <2>4. PICK h : h = LastOf(Append(row.history, entry), HistoryKept)
    OBVIOUS
  <2>5. row.history \in Seq(Entry) /\ h \in Seq(Entry) /\ h # <<>>
    BY <2>1, <2>3, <2>4, KeptEntries DEF RolesSafe, Drops
  <2>6. WithRole(row, role, m) = [row EXCEPT ![role] = m, !.history = h]
    BY <2>1, <2>2, <2>4 DEF WithRole, Roles, RolesSafe
  <2>7. PICK new : new = [row EXCEPT ![role] = m, !.history = h]
    OBVIOUS
  <2>8. new \in RolesSafe /\ new.history = h
    BY <2>1, <2>5, <2>7 DEF RolesSafe, Roles
  <2>9. ASSUME NEW i \in DOMAIN h, LastMove(h, i, "set_challenger") PROVE new.champion = h[i].to
    <3>1. CASE role = "champion"
      <4>1. entry.action # "set_challenger" /\ entry.to = m /\ new.champion = m
        BY <2>1, <2>2, <2>7, <3>1 DEF RolesSafe
      <4>2. h[i] = entry
        BY <2>3, <2>4, <2>5, <2>9, <4>1, MovesKept
      <4> QED BY <4>1, <4>2
    <3>2. CASE role = "challenger"
      <4>1. entry.action = "set_challenger" /\ new.champion = row.champion
        BY <2>1, <2>2, <2>7, <3>2 DEF RolesSafe
      <4>2. PICK j \in DOMAIN row.history : LastMove(row.history, j, "set_challenger") /\ h[i] = row.history[j]
        BY <2>3, <2>4, <2>5, <2>9, <4>1, MovesKept
      <4> QED BY <2>1, <4>1, <4>2 DEF Explains
    <3> QED BY <3>1, <3>2 DEF Roles
  <2>10. ASSUME NEW i \in DOMAIN h, LastMove(h, i, "set_champion")
         PROVE  new.challenger = IF h[i].action = "set_challenger" THEN h[i].to ELSE h[i].from
    <3>1. CASE role = "challenger"
      <4>1. entry.action = "set_challenger" /\ entry.to = m /\ new.challenger = m
        BY <2>1, <2>2, <2>7, <3>1 DEF RolesSafe
      <4>2. h[i] = entry
        BY <2>3, <2>4, <2>5, <2>10, <4>1, MovesKept
      <4> QED BY <4>1, <4>2
    <3>2. CASE role = "champion"
      <4>1. entry.action = "set_champion" /\ new.challenger = row.challenger
        BY <2>1, <2>2, <2>7, <3>2 DEF RolesSafe
      <4>2. PICK j \in DOMAIN row.history : LastMove(row.history, j, "set_champion") /\ h[i] = row.history[j]
        BY <2>3, <2>4, <2>5, <2>10, <4>1, MovesKept
      <4> QED BY <2>1, <4>1, <4>2 DEF Explains
    <3> QED BY <3>1, <3>2 DEF Roles
  <2>11. Explains(new)
    BY <2>8, <2>9, <2>10 DEF Explains
  <2> QED BY <2>5, <2>6, <2>7, <2>8, <2>11 DEF SafeRows
<1>3. ASSUME NEW row \in SafeRows, NEW action \in {"promote", "rollback"}, row.challenger # NoModel
      PROVE  Swapped(row, action) \in SafeRows
  <2>1. PICK e : e = [action |-> action, from |-> row.champion, to |-> row.challenger]
    OBVIOUS
  <2>2. e \in Entry /\ row.history \in Seq(Entry)
    BY <1>3, <2>1 DEF Entry, SafeRows, RolesSafe
  <2>3. PICK h : h = Append(row.history, e)
    OBVIOUS
  <2>4. h \in Seq(Entry) /\ h # <<>>
    BY <2>2, <2>3
  <2>5. PICK new : new = [champion |-> row.challenger, challenger |-> row.champion, history |-> h]
    OBVIOUS
  <2>6. new = Swapped(row, action) /\ new \in RolesSafe
    BY <2>1, <2>3, <2>4, <2>5 DEF Swapped, SafeRows, RolesSafe
  <2>7. /\ e.action # "set_challenger" /\ e.action # "set_champion"
        /\ new.champion = e.to /\ new.challenger = e.from /\ new.history = h
    BY <2>1, <2>5
  <2>8. ASSUME NEW i \in DOMAIN h, NEW other \in {"set_challenger", "set_champion"}, LastMove(h, i, other)
        PROVE  h[i] = e
    <3>1. e.action # other
      BY <2>7, <2>8
    <3>2. /\ Len(h) = Len(row.history) + 1 /\ Len(row.history) \in Nat /\ h[Len(h)] = e
          /\ DOMAIN h = 1..Len(h)
      BY <2>2, <2>3
    <3>3. i \in 1..Len(h) /\ Len(h) \in DOMAIN h /\ Len(h) \in Nat
      BY <3>2, <2>8
    <3>4. Len(h) > i => h[Len(h)].action = other
      BY <2>8, <3>3 DEF LastMove
    <3>5. i = Len(h)
      BY <3>1, <3>2, <3>3, <3>4
    <3> QED BY <3>2, <3>5
  <2>9. Explains(new)
    BY <2>7, <2>8 DEF Explains
  <2> QED BY <2>4, <2>6, <2>7, <2>9 DEF SafeRows
<1> QED BY <1>2, <1>3

\* What a step may put stays safe when more models are approved.
LEMMA ApprovalsLast ==
  ASSUME wasApproved \subseteq wasApproved'
  PROVE  SafeRows \subseteq SafeRows' /\ SafeRuns \subseteq SafeRuns' /\ SafeSteps \subseteq SafeSteps'
<1>1. SafeRows \subseteq SafeRows'
  BY DEF SafeRows, RolesSafe
<1>2. SafeRuns \subseteq SafeRuns'
  BY DEF SafeRuns
<1>3. SafeSteps \subseteq SafeSteps'
  BY <1>1, <1>2 DEF SafeSteps
<1> QED BY <1>1, <1>2, <1>3

\* As long as no model is approved, the same rows, runs and steps are safe.
LEMMA SameSafety ==
  ASSUME wasApproved' = wasApproved
  PROVE  SafeRows' = SafeRows /\ SafeRuns' = SafeRuns /\ SafeSteps' = SafeSteps
<1>1. SafeRows' = SafeRows
  BY DEF SafeRows, RolesSafe
<1>2. SafeRuns' = SafeRuns
  BY DEF SafeRuns
<1> QED BY <1>1, <1>2 DEF SafeSteps

\* Handlers prepare only safe steps, and the steps they take keep the stores safe.
LEMMA DeploymentsStaySafe == MInv /\ [MNext]_mvars => MInv'
<1> SUFFICES ASSUME MInv, [MNext]_mvars PROVE MInv'
  OBVIOUS
<1>1. CASE UNCHANGED mvars
  BY <1>1, SameSafety DEF MInv, mvars, mstores
<1>2. ASSUME NEW w \in MWorkers, NEW steps \in Seq(SafeSteps), MServe(w, steps) PROVE MInv'
  <2>1. mtodo' \in [MWorkers -> Seq(SafeSteps)] /\ UNCHANGED mstores
    BY <1>2 DEF MServe, MInv
  <2> QED BY <2>1, SameSafety DEF MInv, mstores
<1>3. ASSUME NEW w \in MWorkers, ModelRequest(w) PROVE MInv'
  <2>1. PICK m \in Models :
          \/ \E status \in {"candidate", "approved"} : RegisterModel(w, m, status)
          \/ ApproveModel(w, m) \/ RetireModel(w, m) \/ Infer(w, m) \/ EvaluateModel(w, m)
          \/ SetBaseline(w, m)
          \/ \E shift \in {"stable", "watch", "drift"} : Monitor(w, m, shift)
    BY <1>3 DEF ModelRequest
  <2>2. \A status \in ModelStatus : PutsModel(m, status) \in Seq(SafeSteps)
    BY DEF PutsModel, SafeSteps
  <2>3. CASE \/ \E status \in {"candidate", "approved"} : RegisterModel(w, m, status)
             \/ ApproveModel(w, m) \/ RetireModel(w, m)
    BY <1>2, <2>2, <2>3 DEF RegisterModel, ApproveModel, RetireModel, ModelStatus
  <2>4. CASE Infer(w, m)
    <3>1. PICK step : step = [do |-> "run", row |-> [model |-> m, by |-> "request"]] /\ MServe(w, <<step>>)
      BY <2>4 DEF Infer
    <3>2. step \in SafeSteps
      BY <2>4, <3>1 DEF Infer, MInv, SafeSteps, SafeRuns
    <3>3. <<step>> \in Seq(SafeSteps)
      BY <3>2
    <3> QED BY <1>2, <3>1, <3>3
  <2>5. CASE EvaluateModel(w, m)
    <3>1. PICK run, evaluation :
            /\ run = [do |-> "run", row |-> [model |-> m, by |-> "offline_evaluation"]]
            /\ evaluation = [do |-> "evaluation", key |-> m]
            /\ MServe(w, <<run, evaluation>>)
      BY <2>5 DEF EvaluateModel
    <3>2. run \in SafeSteps /\ evaluation \in SafeSteps
      BY <3>1 DEF SafeSteps, SafeRuns
    <3>3. <<run, evaluation>> \in Seq(SafeSteps)
      BY <3>2
    <3> QED BY <1>2, <3>1, <3>3
  <2>6. CASE SetBaseline(w, m)
    <3>1. PICK step : step = [do |-> "baseline", key |-> m] /\ MServe(w, <<step>>)
      BY <2>6 DEF SetBaseline
    <3>2. step \in SafeSteps
      BY <3>1 DEF SafeSteps
    <3>3. <<step>> \in Seq(SafeSteps)
      BY <3>2
    <3> QED BY <1>2, <3>1, <3>3
  <2>7. ASSUME NEW shift \in {"stable", "watch", "drift"}, Monitor(w, m, shift) PROVE MInv'
    <3>1. PICK row : row = <<m, IF m \in baselines THEN shift ELSE "stable">>
      OBVIOUS
    <3>2. [do |-> "drift", row |-> row] \in SafeSteps
      BY <3>1 DEF SafeSteps
    <3> QED BY <1>2, <2>7, <3>1, <3>2 DEF Monitor
  <2> QED BY <2>1, <2>3, <2>4, <2>5, <2>6, <2>7
<1>4. ASSUME NEW s \in Slots, NEW row \in SafeRows PROVE PutsSlot(s, row) \in Seq(SafeSteps)
  <2>1. [do |-> "slot", key |-> s, row |-> row] \in SafeSteps
    BY DEF SafeSteps
  <2> QED BY <2>1 DEF PutsSlot
<1>5. ASSUME NEW w \in MWorkers, SlotRequest(w) PROVE MInv'
  <2>1. PICK s \in Slots : \/ Promote(w, s) \/ Rollback(w, s)
                           \/ \E role \in Roles, m \in Models : SetRole(w, s, role, m)
    BY <1>5 DEF SlotRequest
  <2>2. CASE Promote(w, s) \/ Rollback(w, s)
    <3>1. PICK action \in {"promote", "rollback"} :
            /\ s \in DOMAIN slots /\ slots[s].challenger # NoModel
            /\ MServe(w, PutsSlot(s, Swapped(slots[s], action)))
      BY <2>2 DEF Promote, Rollback
    <3>2. Swapped(slots[s], action) \in SafeRows
      BY <3>1, SafeRoles DEF MInv
    <3> QED BY <1>2, <1>4, <3>1, <3>2
  <2>3. ASSUME NEW role \in Roles, NEW m \in Models, SetRole(w, s, role, m) PROVE MInv'
    <3>1. PICK step : /\ step = [do |-> "readslot", key |-> s, role |-> role, model |-> m]
                      /\ MServe(w, <<step>>)
      BY <2>3 DEF SetRole
    <3>2. step \in SafeSteps
      BY <2>3, <3>1 DEF SetRole, MInv, SafeSteps
    <3>3. <<step>> \in Seq(SafeSteps)
      BY <3>2
    <3> QED BY <1>2, <3>1, <3>3
  <2> QED BY <2>1, <2>2, <2>3
<1>6. ASSUME NEW w \in MWorkers, mtodo[w] # <<>>
      PROVE  Head(mtodo[w]) \in SafeSteps /\ Tail(mtodo[w]) \in Seq(SafeSteps)
  <2>1. mtodo[w] \in Seq(SafeSteps)
    BY DEF MInv
  <2> QED BY <1>6, <2>1
<1>7. ASSUME NEW w \in MWorkers, ReadSlot(w) PROVE MInv'
  <2>1. PICK step : step = Head(mtodo[w])
    OBVIOUS
  <2>2. step \in SafeSteps /\ step.do = "readslot"
    BY <1>6, <1>7, <2>1 DEF ReadSlot
  <2>3. step.key \in Slots /\ step.role \in Roles /\ step.model \in wasApproved
    BY <2>2 DEF SafeSteps
  <2>4. PICK row : row = IF step.key \in DOMAIN slots THEN slots[step.key] ELSE EmptySlot
    OBVIOUS
  <2>5. WithRole(row, step.role, step.model) \in SafeRows
    BY <2>3, <2>4, SafeRoles DEF MInv
  <2>6. PutsSlot(step.key, WithRole(row, step.role, step.model)) \in Seq(SafeSteps)
    BY <1>4, <2>3, <2>5
  <2>7. /\ mtodo' = [mtodo EXCEPT ![w] = PutsSlot(step.key, WithRole(row, step.role, step.model))]
        /\ UNCHANGED mstores
    BY <1>7, <2>1, <2>4 DEF ReadSlot
  <2> QED BY <2>6, <2>7, SameSafety DEF MInv, mstores
<1>8. ASSUME NEW w \in MWorkers, NEW what, MDoes(w, what), wasApproved \subseteq wasApproved'
      PROVE  mtodo' \in [MWorkers -> Seq(SafeSteps)]'
  <2>1. mtodo' \in [MWorkers -> Seq(SafeSteps)]
    BY <1>6, <1>8 DEF MDoes, MInv
  <2>2. SafeSteps \subseteq SafeSteps'
    BY <1>8, ApprovalsLast
  <2> QED BY <2>1, <2>2
<1>9. ASSUME NEW w \in MWorkers, PutModel(w) PROVE MInv'
  <2>1. PICK step : step = Head(mtodo[w]) /\ step \in SafeSteps /\ step.do = "model"
    BY <1>6, <1>9 DEF PutModel, MDoes
  <2>2. /\ models' = MPut(models, step.key, step.row) /\ step.key \in Models
        /\ wasApproved' = wasApproved \cup IF step.row = "approved" THEN {step.key} ELSE {}
        /\ UNCHANGED <<slots, runs, evaluations, baselines, drifts>> /\ step.row \in ModelStatus
    BY <1>9, <2>1 DEF PutModel, SafeSteps
  <2>3. wasApproved \subseteq wasApproved' /\ wasApproved' \subseteq Models
    BY <2>2 DEF MInv
  <2>4. \A m \in DOMAIN models' : models'[m] = "approved" => m \in wasApproved'
    BY <2>2 DEF MPut, MInv
  <2>5. (\A s \in DOMAIN slots' : slots'[s] \in SafeRows') /\ runs' \subseteq SafeRuns'
    BY <2>2, <2>3, ApprovalsLast DEF MInv
  <2>6. mtodo' \in [MWorkers -> Seq(SafeSteps)]'
    BY <1>8, <1>9, <2>3 DEF PutModel
  <2>7. /\ DOMAIN models' \subseteq Models /\ DOMAIN slots' \subseteq Slots
        /\ \A m \in DOMAIN models' : models'[m] \in ModelStatus
    BY <2>2 DEF MPut, MInv
  <2>8. /\ evaluations' \subseteq Models /\ baselines' \subseteq Models
        /\ drifts' \subseteq Models \X {"stable", "watch", "drift"}
    BY <2>2 DEF MInv
  <2> QED BY <2>3, <2>4, <2>5, <2>6, <2>7, <2>8 DEF MInv
<1>10. ASSUME NEW w \in MWorkers, PutSlot(w) PROVE MInv'
  <2>1. PICK step : step = Head(mtodo[w]) /\ step \in SafeSteps /\ step.do = "slot"
    BY <1>6, <1>10 DEF PutSlot, MDoes
  <2>2. /\ slots' = MPut(slots, step.key, step.row) /\ step.row \in SafeRows
        /\ UNCHANGED <<models, runs, evaluations, baselines, drifts, wasApproved>> /\ step.key \in Slots
    BY <1>10, <2>1 DEF PutSlot, SafeSteps
  <2>3. DOMAIN slots' \subseteq Slots /\ \A s \in DOMAIN slots' : slots'[s] \in SafeRows
    BY <2>2 DEF MPut, MInv
  <2>4. mtodo' \in [MWorkers -> Seq(SafeSteps)]'
    BY <1>8, <1>10, <2>2 DEF PutSlot
  <2> QED BY <2>2, <2>3, <2>4, SameSafety DEF MInv
<1>11. ASSUME NEW w \in MWorkers, PutRun(w) PROVE MInv'
  <2>1. PICK step : step = Head(mtodo[w]) /\ step \in SafeSteps /\ step.do = "run"
    BY <1>6, <1>11 DEF PutRun, MDoes
  <2>2. /\ runs' = runs \cup {step.row} /\ step.row \in SafeRuns
        /\ UNCHANGED <<models, slots, evaluations, baselines, drifts, wasApproved>>
    BY <1>11, <2>1 DEF PutRun, SafeSteps
  <2>3. mtodo' \in [MWorkers -> Seq(SafeSteps)]'
    BY <1>8, <1>11, <2>2 DEF PutRun
  <2> QED BY <2>2, <2>3, SameSafety DEF MInv
<1>12. ASSUME NEW w \in MWorkers, PutEvaluation(w) \/ PutBaseline(w) \/ PutDrift(w) PROVE MInv'
  <2>1. UNCHANGED <<models, slots, runs, wasApproved>>
    BY <1>12 DEF PutEvaluation, PutBaseline, PutDrift
  <2>2. mtodo' \in [MWorkers -> Seq(SafeSteps)]'
    BY <1>8, <1>12, <2>1 DEF PutEvaluation, PutBaseline, PutDrift
  <2>3. Head(mtodo[w]) \in SafeSteps
    BY <1>6, <1>12 DEF PutEvaluation, PutBaseline, PutDrift, MDoes
  <2>4. /\ Head(mtodo[w]).do \in {"evaluation", "baseline"} => Head(mtodo[w]).key \in Models
        /\ Head(mtodo[w]).do = "drift" => Head(mtodo[w]).row \in Models \X {"stable", "watch", "drift"}
    BY <2>3 DEF SafeSteps
  <2>5. evaluations' \subseteq Models
    BY <1>12, <2>4 DEF PutEvaluation, PutBaseline, PutDrift, MDoes, MInv
  <2>6. baselines' \subseteq Models
    BY <1>12, <2>4 DEF PutEvaluation, PutBaseline, PutDrift, MDoes, MInv
  <2>7. drifts' \subseteq Models \X {"stable", "watch", "drift"}
    BY <1>12, <2>4 DEF PutEvaluation, PutBaseline, PutDrift, MDoes, MInv
  <2> QED BY <2>1, <2>2, <2>5, <2>6, <2>7, SameSafety DEF MInv
<1>13. ASSUME NEW w \in MWorkers, FailModelHandler(w) PROVE MInv'
  <2>1. mtodo' \in [MWorkers -> Seq(SafeSteps)] /\ UNCHANGED mstores
    BY <1>13 DEF FailModelHandler, MInv
  <2> QED BY <2>1, SameSafety DEF MInv, mstores
<1> QED BY <1>1, <1>3, <1>5, <1>7, <1>9, <1>10, <1>11, <1>12, <1>13 DEF MNext, ModelStep

\* The invariant holds of every behaviour.
LEMMA MInvHolds == MSpec => []MInv
<1>1. MInit => MInv
  <2>1. <<>> \in Seq(SafeSteps)
    OBVIOUS
  <2> QED BY <2>1 DEF MInit, MInv
<1> QED BY <1>1, DeploymentsStaySafe, PTL DEF MSpec

\* The rows, runs, evaluations, baselines and drift events are of their types for every
\* number of models, slots, handlers and deaths.
THEOREM MTypeCorrect == MSpec => []MTypeOK
<1>1. MInv => MTypeOK
  <2> SUFFICES ASSUME MInv PROVE MTypeOK
    OBVIOUS
  <2>1. \A s \in DOMAIN slots : slots[s] \in SlotRow
    BY DEF MInv, SafeRows, RolesSafe, SlotRow
  <2>2. runs \subseteq [model : Models, by : {"request", "offline_evaluation"}]
    BY DEF MInv, SafeRuns
  <2> QED BY <2>1, <2>2 DEF MInv, MTypeOK
<1> QED BY <1>1, MInvHolds, PTL

\* A model in a role of a slot, or that answered a request, was approved at some time,
\* for every number of models, slots, handlers and deaths (model_monitoring.py set_role,
\* promote, rollback; model_registry.py infer).
THEOREM OnlyApprovedDeployed == MSpec => []DeployedWereApproved
<1>1. MInv => DeployedWereApproved
  <2> SUFFICES ASSUME MInv PROVE DeployedWereApproved
    OBVIOUS
  <2>1. \A s \in DOMAIN slots : slots[s] \in RolesSafe
    BY DEF MInv, SafeRows
  <2>2. runs \subseteq SafeRuns
    BY DEF MInv
  <2> QED BY <2>1, <2>2 DEF DeployedWereApproved, RolesSafe, SafeRuns
<1> QED BY <1>1, MInvHolds, PTL

\* A slot's history explains its roles, for every length at which set_role cuts it and
\* however the rows that handlers read and put back overwrite each other
\* (model_monitoring.py set_role, promote, rollback).
THEOREM RolesAreExplained == MSpec => []HistoryExplainsRoles
<1>1. MInv => HistoryExplainsRoles
  BY DEF MInv, SafeRows, HistoryExplainsRoles
<1> QED BY <1>1, MInvHolds, PTL
=============================================================================
