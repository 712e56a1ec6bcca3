---------------------------- MODULE ModelGovernance ----------------------------
(***************************************************************************)
(* Predictive models: the registry with its approval, offline evaluation   *)
(* and inference, the champion and challenger of each deployment slot, and *)
(* the drift events of production monitoring.                              *)
(*                                                                         *)
(* A slot is one row, read, changed and put back whole: its roles and its  *)
(* history travel together, but two handlers overwrite each other's rows.  *)
(***************************************************************************)
EXTENDS Naturals, Sequences, FiniteSets

CONSTANTS
  MWorkers,      \* threads that serve requests
  Models, NoModel,
  Slots,         \* deployment slots
  HistoryKept,   \* entries set_role keeps of a slot's history, 100 in the code
  MaxMCalls,     \* bound: requests served in a behaviour
  MaxMDeaths     \* bound: handlers that die between a read and a put

ASSUME MAssumption == /\ NoModel \notin Models
                      /\ HistoryKept \in Nat \ {0}
                      /\ MaxMCalls \in Nat
                      /\ MaxMDeaths \in Nat

VARIABLES
  models,        \* predictive_models: model -> status
  slots,         \* model_deployments: slot -> [champion, challenger, history]
  runs,          \* model_inference_runs: who inferred with which model
  evaluations,   \* model_evaluations: the models that have one
  baselines,     \* model_monitoring_baselines: the models that have one
  drifts,        \* model_monitoring_events: <<model, status>>
  mtodo,         \* what each worker's handler has still to do
  mcalls, mdeaths,
  wasApproved    \* history: the models ever put as approved

mstores == <<models, slots, runs, evaluations, baselines, drifts, wasApproved>>
mvars == <<mstores, mtodo, mcalls, mdeaths>>

ModelStatus == {"candidate", "approved", "retired"}
Roles == {"champion", "challenger"}
Entry == [action : {"set_champion", "set_challenger", "promote", "rollback"},
          from : Models \cup {NoModel}, to : Models]
SlotRow == [champion : Models \cup {NoModel}, challenger : Models \cup {NoModel},
            history : Seq(Entry)]
EmptySlot == [champion |-> NoModel, challenger |-> NoModel, history |-> <<>>]

MPut(store, key, row) ==
  [k \in DOMAIN store \cup {key} |-> IF k = key THEN row ELSE store[k]]

MInit ==
  /\ models = <<>> /\ slots = <<>> /\ runs = {} /\ evaluations = {} /\ baselines = {}
  /\ drifts = {} /\ wasApproved = {}
  /\ mtodo = [w \in MWorkers |-> <<>>] /\ mcalls = 0 /\ mdeaths = 0

MServe(w, steps) ==
  /\ mtodo[w] = <<>> /\ mcalls < MaxMCalls
  /\ mtodo' = [mtodo EXCEPT ![w] = steps]
  /\ mcalls' = mcalls + 1
  /\ UNCHANGED <<mstores, mdeaths>>

PutsModel(m, status) == <<[do |-> "model", key |-> m, row |-> status]>>
PutsSlot(s, row) == <<[do |-> "slot", key |-> s, row |-> row]>>

-----------------------------------------------------------------------------
\* A registration overwrites the model, and its payload may carry any status.
RegisterModel(w, m, status) == MServe(w, PutsModel(m, status))

ApproveModel(w, m) == m \in DOMAIN models /\ MServe(w, PutsModel(m, "approved"))
RetireModel(w, m) == m \in DOMAIN models /\ MServe(w, PutsModel(m, "retired"))

\* The status is that of the reading; the run is recorded afterwards.
Infer(w, m) ==
  /\ m \in DOMAIN models /\ models[m] = "approved"
  /\ MServe(w, <<[do |-> "run", row |-> [model |-> m, by |-> "request"]]>>)

\* An evaluation infers record by record, with candidates too, and a record
\* that fails is skipped.
EvaluateModel(w, m) ==
  /\ m \in DOMAIN models
  /\ MServe(w, <<[do |-> "run", row |-> [model |-> m, by |-> "offline_evaluation"]],
                 [do |-> "evaluation", key |-> m]>>)

-----------------------------------------------------------------------------
\* Mutant: any registered model may be deployed.
SetRoleUnchecked(w, s, role, m) ==
  /\ m \in DOMAIN models
  /\ MServe(w, <<[do |-> "readslot", key |-> s, role |-> role, model |-> m]>>)

\* set_role asks the registry first and reads the slot afterwards.
SetRole(w, s, role, m) ==
  /\ m \in DOMAIN models /\ models[m] = "approved"
  /\ MServe(w, <<[do |-> "readslot", key |-> s, role |-> role, model |-> m]>>)

LastOf(history, n) ==
  IF Len(history) <= n THEN history ELSE SubSeq(history, Len(history) - n + 1, Len(history))

WithRole(row, role, m) ==
  LET entry == [action |-> IF role = "champion" THEN "set_champion" ELSE "set_challenger",
                from |-> row[role], to |-> m] IN
    [row EXCEPT ![role] = m, !.history = LastOf(Append(@, entry), HistoryKept)]

ReadSlot(w) ==
  /\ mtodo[w] # <<>> /\ Head(mtodo[w]).do = "readslot"
  /\ LET step == Head(mtodo[w])
         row == IF step.key \in DOMAIN slots THEN slots[step.key] ELSE EmptySlot IN
       mtodo' = [mtodo EXCEPT ![w] = PutsSlot(step.key, WithRole(row, step.role, step.model))]
  /\ UNCHANGED <<mstores, mcalls, mdeaths>>

\* Mutant: only a promotion is entered in the history.
SwappedSilently(row, action) ==
  [champion |-> row.challenger, challenger |-> row.champion,
   history |-> IF action = "rollback" THEN row.history
               ELSE Append(row.history, [action |-> action, from |-> row.champion, to |-> row.challenger])]

\* Champion and challenger change places; neither model is looked up again.
Swapped(row, action) ==
  [champion |-> row.challenger, challenger |-> row.champion,
   history |-> Append(row.history, [action |-> action, from |-> row.champion, to |-> row.challenger])]

Promote(w, s) ==
  /\ s \in DOMAIN slots /\ slots[s].challenger # NoModel
  /\ MServe(w, PutsSlot(s, Swapped(slots[s], "promote")))

Rollback(w, s) ==
  /\ s \in DOMAIN slots /\ slots[s].challenger # NoModel
  /\ MServe(w, PutsSlot(s, Swapped(slots[s], "rollback")))

-----------------------------------------------------------------------------
SetBaseline(w, m) == MServe(w, <<[do |-> "baseline", key |-> m]>>)

\* Without a baseline there is nothing to compare with, and nothing drifts.
Monitor(w, m, shift) ==
  MServe(w, <<[do |-> "drift",
               row |-> <<m, IF m \in baselines THEN shift ELSE "stable">>]>>)

-----------------------------------------------------------------------------
MDoes(w, what) ==
  /\ mtodo[w] # <<>> /\ Head(mtodo[w]).do = what
  /\ mtodo' = [mtodo EXCEPT ![w] = Tail(@)]
  /\ UNCHANGED <<mcalls, mdeaths>>

PutModel(w) ==
  /\ MDoes(w, "model")
  /\ LET step == Head(mtodo[w]) IN
       /\ models' = MPut(models, step.key, step.row)
       /\ wasApproved' = wasApproved \cup IF step.row = "approved" THEN {step.key} ELSE {}
  /\ UNCHANGED <<slots, runs, evaluations, baselines, drifts>>

PutSlot(w) ==
  /\ MDoes(w, "slot")
  /\ slots' = MPut(slots, Head(mtodo[w]).key, Head(mtodo[w]).row)
  /\ UNCHANGED <<models, runs, evaluations, baselines, drifts, wasApproved>>

PutRun(w) ==
  /\ MDoes(w, "run")
  /\ runs' = runs \cup {Head(mtodo[w]).row}
  /\ UNCHANGED <<models, slots, evaluations, baselines, drifts, wasApproved>>

PutEvaluation(w) ==
  /\ MDoes(w, "evaluation")
  /\ evaluations' = evaluations \cup {Head(mtodo[w]).key}
  /\ UNCHANGED <<models, slots, runs, baselines, drifts, wasApproved>>

PutBaseline(w) ==
  /\ MDoes(w, "baseline")
  /\ baselines' = baselines \cup {Head(mtodo[w]).key}
  /\ UNCHANGED <<models, slots, runs, evaluations, drifts, wasApproved>>

PutDrift(w) ==
  /\ MDoes(w, "drift")
  /\ drifts' = drifts \cup {Head(mtodo[w]).row}
  /\ UNCHANGED <<models, slots, runs, evaluations, baselines, wasApproved>>

FailModelHandler(w) ==
  /\ mtodo[w] # <<>> /\ mdeaths < MaxMDeaths
  /\ mtodo' = [mtodo EXCEPT ![w] = <<>>]
  /\ mdeaths' = mdeaths + 1
  /\ UNCHANGED <<mstores, mcalls>>

-----------------------------------------------------------------------------
ModelRequest(w) ==
  \E m \in Models :
    \/ \E status \in {"candidate", "approved"} : RegisterModel(w, m, status)
    \/ ApproveModel(w, m) \/ RetireModel(w, m) \/ Infer(w, m) \/ EvaluateModel(w, m)
    \/ SetBaseline(w, m)
    \/ \E shift \in {"stable", "watch", "drift"} : Monitor(w, m, shift)

SlotRequest(w) ==
  \E s \in Slots :
    \/ Promote(w, s) \/ Rollback(w, s)
    \/ \E role \in Roles, m \in Models : SetRole(w, s, role, m)

ModelStep(w) ==
  \/ ReadSlot(w) \/ PutModel(w) \/ PutSlot(w) \/ PutRun(w) \/ PutEvaluation(w)
  \/ PutBaseline(w) \/ PutDrift(w)

MNext == \E w \in MWorkers :
           ModelRequest(w) \/ SlotRequest(w) \/ ModelStep(w) \/ FailModelHandler(w)

MSpec == MInit /\ [][MNext]_mvars

-----------------------------------------------------------------------------
MTypeOK ==
  /\ DOMAIN models \subseteq Models /\ \A m \in DOMAIN models : models[m] \in ModelStatus
  /\ DOMAIN slots \subseteq Slots /\ \A s \in DOMAIN slots : slots[s] \in SlotRow
  /\ runs \subseteq [model : Models, by : {"request", "offline_evaluation"}]
  /\ evaluations \subseteq Models /\ baselines \subseteq Models
  /\ drifts \subseteq Models \X {"stable", "watch", "drift"}
  /\ wasApproved \subseteq Models

\* Approval gates deployment: whatever promotions, rollbacks, retirements and
\* stale rows did since, a model in a role of a slot, or that answered a request,
\* was approved at some time (docs/ARCHITECTURE_V1_8.md, "governed
\* champion/challenger slots").
DeployedWereApproved ==
  /\ \A s \in DOMAIN slots :
       {slots[s].champion, slots[s].challenger} \ {NoModel} \subseteq wasApproved
  /\ \A r \in runs : r.by = "request" => r.model \in wasApproved

\* An entry after which only moves of the other role were kept.
LastMove(history, i, other) ==
  /\ i \in DOMAIN history /\ history[i].action # other
  /\ \A j \in DOMAIN history : j > i => history[j].action = other

\* The roles of a row are those its history leads to.
Explains(row) ==
  \A i \in DOMAIN row.history :
    /\ LastMove(row.history, i, "set_challenger") => row.champion = row.history[i].to
    /\ LastMove(row.history, i, "set_champion") =>
         row.challenger = IF row.history[i].action = "set_challenger" THEN row.history[i].to
                          ELSE row.history[i].from

\* A slot's history explains its roles: the champion is where the last kept move of
\* the champion led, the challenger where the last set_role put it or whom the last
\* swap replaced, although set_role forgets entries and handlers put back old rows
\* (docs/ARCHITECTURE_V1_8.md, "promotion and rollback history").
HistoryExplainsRoles ==
  \A s \in DOMAIN slots : slots[s].history # <<>> /\ Explains(slots[s])
=============================================================================
