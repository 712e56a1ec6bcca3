----------------------------- MODULE Collaboration -----------------------------
(***************************************************************************)
(* Responsibility on the shop floor: collaboration items with assignee,    *)
(* watchers, SLA and comments; the escalations and notification intents    *)
(* that due items cause; shift handovers with their acknowledgements; the  *)
(* reports drawn from all of it; and CMMS work-order candidates.           *)
(*                                                                         *)
(* cotodo[w] is what the handler served by w has still to do.  Every       *)
(* change of an item first ensures the item (get, then put) and then reads *)
(* it again, changes the row and puts it: four calls, nothing in between   *)
(* locked.                                                                 *)
(***************************************************************************)
EXTENDS Integers, Sequences, FiniteSets

CONSTANTS
  CoWorkers,     \* threads that serve requests
  Items,         \* resource_type::resource_id
  People, Nobody,
  Channels,      \* notification channels
  Policies,      \* ids of SLA policies
  Handovers, Orders,
  MaxNow,        \* bound: ticks of the clock; one tick is the due-soon window, 24 h
  MaxCoCalls,    \* bound: requests served in a behaviour
  MaxCoDeaths    \* bound: handlers that die or fail half way

ASSUME CoAssumption == /\ Nobody \notin People
                       /\ MaxNow \in Nat /\ MaxCoCalls \in Nat /\ MaxCoDeaths \in Nat

VARIABLES
  now,
  items,          \* team_collaboration_items: item -> row
  comments,       \* team_collaboration_comments
  events,         \* team_collaboration_events
  policies,       \* collaboration_sla_policies: id -> row
  oncall,         \* collaboration_oncall: the roster, <<>> when there is none
  escalations,    \* collaboration_escalations: <<item, due, state>> -> recipient
  notifications,  \* collaboration_notifications
  handovers,      \* operations_handovers: id -> row
  acks,           \* operations_handover_acknowledgements
  reports,        \* operations_reports
  orders,         \* cmms_work_order_candidates: id -> row
  cotodo, cocalls, codeaths

costores == <<items, comments, events, policies, oncall, escalations, notifications,
              handovers, acks, reports, orders>>
covars == <<now, costores, cotodo, cocalls, codeaths>>

NoDue == -1
Dues == {NoDue} \cup 0..(MaxNow + 2)
ItemRow == [assignee : People \cup {Nobody}, watchers : SUBSET People, due : Dues]
NewItem == [assignee |-> Nobody, watchers |-> {}, due |-> NoDue]

\* Mutant: an item is overdue at its due date.
SlaStateEarly(row) ==
  IF row.due = NoDue THEN "no_sla"
  ELSE IF row.due <= now THEN "overdue"
  ELSE IF row.due - now <= 1 THEN "due_soon" ELSE "on_track"

\* _decorate: computed on every read from the due date and the clock.
SlaState(row) ==
  IF row.due = NoDue THEN "no_sla"
  ELSE IF row.due < now THEN "overdue"
  ELSE IF row.due - now <= 1 THEN "due_soon" ELSE "on_track"

CoPut(store, key, row) ==
  [k \in DOMAIN store \cup {key} |-> IF k = key THEN row ELSE store[k]]

CoInit ==
  /\ now = 0
  /\ items = <<>> /\ comments = {} /\ events = {} /\ policies = <<>> /\ oncall = <<>>
  /\ escalations = <<>> /\ notifications = {} /\ handovers = <<>> /\ acks = {}
  /\ reports = {} /\ orders = <<>>
  /\ cotodo = [w \in CoWorkers |-> <<>>] /\ cocalls = 0 /\ codeaths = 0

CoServe(w, steps) ==
  /\ cotodo[w] = <<>> /\ cocalls < MaxCoCalls
  /\ cotodo' = [cotodo EXCEPT ![w] = steps]
  /\ cocalls' = cocalls + 1
  /\ UNCHANGED <<now, costores, codeaths>>

Tick == now < MaxNow /\ now' = now + 1 /\ UNCHANGED <<costores, cotodo, cocalls, codeaths>>

-----------------------------------------------------------------------------
(* Items.                                                                  *)

PutsItem(i, row) == <<[do |-> "item", key |-> i, row |-> row]>>
PutsEvent(i, kind, to) == <<[do |-> "event", row |-> [item |-> i, kind |-> kind, to |-> to]]>>

\* ensure touches a known item; a new one is announced before it is stored.
Ensures(i) ==
  IF i \in DOMAIN items THEN PutsItem(i, items[i])
  ELSE PutsEvent(i, "created", Nobody) \o PutsItem(i, NewItem)

\* What a change does to the row it reads, and the event that records it.
Changes(i, field, to, kind) ==
  <<[do |-> "change", key |-> i, field |-> field, to |-> to, kind |-> kind]>>

Assign(w, i, p) == CoServe(w, Ensures(i) \o Changes(i, "assignee", p, "assigned"))
Handoff(w, i, p) == CoServe(w, Ensures(i) \o Changes(i, "assignee", p, "handoff"))
Watch(w, i, p) == CoServe(w, Ensures(i) \o Changes(i, "watch", p, "watch"))
Unwatch(w, i, p) == CoServe(w, Ensures(i) \o Changes(i, "unwatch", p, "unwatch"))
\* A due date given as hours counts from now; one given as a date may be any.
SetSla(w, i, due) == CoServe(w, Ensures(i) \o Changes(i, "due", due, "sla_updated"))

AddComment(w, i, p) ==
  CoServe(w, Ensures(i) \o <<[do |-> "comment", row |-> [item |-> i, author |-> p]]>>
             \o PutsEvent(i, "comment", p))

\* Looking at the thread of an item stores it.
OpenThread(w, i) == i \notin DOMAIN items /\ CoServe(w, Ensures(i))

Changed(row, field, to) ==
  CASE field = "watch"   -> [row EXCEPT !.watchers = @ \cup {to}]
    [] field = "unwatch" -> [row EXCEPT !.watchers = @ \ {to}]
    [] OTHER             -> [row EXCEPT ![field] = to]

\* Mutant: a change of the deadline is not announced.
ReadToChangeQuietly(w) ==
  /\ cotodo[w] # <<>> /\ Head(cotodo[w]).do = "change"
  /\ LET s == Head(cotodo[w]) IN
       cotodo' = [cotodo EXCEPT ![w] = PutsItem(s.key, Changed(items[s.key], s.field, s.to))
                    \o IF s.field = "due" THEN <<>> ELSE PutsEvent(s.key, s.kind, s.to)]
  /\ UNCHANGED <<now, costores, cocalls, codeaths>>

ReadToChange(w) ==
  /\ cotodo[w] # <<>> /\ Head(cotodo[w]).do = "change"
  /\ LET s == Head(cotodo[w]) IN
       cotodo' = [cotodo EXCEPT ![w] = PutsItem(s.key, Changed(items[s.key], s.field, s.to))
                                       \o PutsEvent(s.key, s.kind, s.to)]
  /\ UNCHANGED <<now, costores, cocalls, codeaths>>

-----------------------------------------------------------------------------
(* Escalation.                                                             *)

UpsertPolicy(w, id, row) == CoServe(w, <<[do |-> "policy", key |-> id, row |-> row]>>)
SetOncall(w, roster) == CoServe(w, <<[do |-> "oncall", row |-> roster]>>)

\* The roster turns with the clock.
CurrentOncall == IF oncall = <<>> THEN Nobody ELSE oncall[(now % Len(oncall)) + 1]

Recipient(policy, assignee) ==
  IF policy.to # Nobody THEN policy.to
  ELSE IF assignee # Nobody THEN assignee ELSE CurrentOncall

Urgent == {i \in DOMAIN items : SlaState(items[i]) \in {"overdue", "due_soon"}}
Board == {[item |-> i, due |-> items[i].due, state |-> SlaState(items[i]),
           assignee |-> items[i].assignee] : i \in Urgent}

\* One reading of the board, then item by item.
EvaluateDue(w) == Board # {} /\ CoServe(w, <<[do |-> "consider", left |-> Board]>>)

\* Policies, the escalation and the roster are read anew for each item.
Consider(w) ==
  /\ cotodo[w] # <<>> /\ Head(cotodo[w]).do = "consider"
  /\ \E seen \in Head(cotodo[w]).left :
       LET rest == Head(cotodo[w]).left \ {seen}
           esc == <<seen.item, seen.due, seen.state>>
           Then(steps) ==
             cotodo' = [cotodo EXCEPT ![w] =
                          steps \o IF rest = {} THEN <<>> ELSE <<[do |-> "consider", left |-> rest]>>]
       IN
         \/ /\ esc \in DOMAIN escalations \/ DOMAIN policies = {}
            /\ Then(<<>>)
         \/ /\ esc \notin DOMAIN escalations
            /\ \E id \in DOMAIN policies :
                 LET to == Recipient(policies[id], seen.assignee) IN
                   Then(<<[do |-> "escalate", key |-> esc, row |-> to],
                          [do |-> "notify", esc |-> esc, to |-> to, left |-> policies[id].channels]>>)
  /\ UNCHANGED <<now, costores, cocalls, codeaths>>

-----------------------------------------------------------------------------
(* Handovers and reports.                                                  *)

PutsHandover(h, row) == <<[do |-> "handover", key |-> h, row |-> row]>>
Acks(h, role, p) == <<[do |-> "ack", row |-> [handover |-> h, role |-> role, by |-> p]]>>

\* A payload may name the handover, and one of that name is overwritten.
CreateHandover(w, h, out, in) ==
  CoServe(w, <<[do |-> "snapshot", key |-> h, out |-> out, in |-> in, items |-> DOMAIN items]>>)

\* The escalations are read after the items.
SnapshotEscalations(w) ==
  /\ cotodo[w] # <<>> /\ Head(cotodo[w]).do = "snapshot"
  /\ LET s == Head(cotodo[w]) IN
       cotodo' = [cotodo EXCEPT ![w] =
         PutsHandover(s.key, [out |-> s.out, in |-> s.in, status |-> "pending_ack",
                              items |-> s.items, escs |-> DOMAIN escalations])
         \o Acks(s.key, "outgoing", s.out)]
  /\ UNCHANGED <<now, costores, cocalls, codeaths>>

\* Mutant: anybody may acknowledge.
AcknowledgeByAnyone(w, h, p) ==
  /\ h \in DOMAIN handovers
  /\ CoServe(w, Acks(h, "incoming", p) \o PutsHandover(h, [handovers[h] EXCEPT !.status = "accepted"]))

\* Nothing asks whether the handover is still pending.
Acknowledge(w, h, p) ==
  /\ h \in DOMAIN handovers /\ handovers[h].in = p
  /\ CoServe(w, Acks(h, "incoming", p) \o PutsHandover(h, [handovers[h] EXCEPT !.status = "accepted"]))

GenerateReport(w) == CoServe(w, <<[do |-> "summarise", items |-> DOMAIN items]>>)

Summarise(w) ==
  /\ cotodo[w] # <<>> /\ Head(cotodo[w]).do = "summarise"
  /\ cotodo' = [cotodo EXCEPT ![w] =
       <<[do |-> "report",
          row |-> [items |-> Head(@).items, escs |-> DOMAIN escalations,
                   pending |-> {o \in DOMAIN orders : orders[o].status \in {"draft", "approved"}}]]>>]
  /\ UNCHANGED <<now, costores, cocalls, codeaths>>

-----------------------------------------------------------------------------
(* Work-order candidates.                                                  *)

PutsOrder(o, row) == <<[do |-> "order", key |-> o, row |-> row]>>

CreateOrder(w, o) ==
  CoServe(w, PutsOrder(o, [status |-> "draft", external |-> FALSE, history |-> <<"created">>]))

\* Mutant: the history keeps what was there.
TransitionedUntold(row, status, external) ==
  [status |-> status, external |-> row.external \/ external, history |-> row.history]

\* Any status may follow any other.
Transitioned(row, status, external) ==
  [status |-> status, external |-> row.external \/ external, history |-> Append(row.history, status)]

ApproveOrder(w, o) ==
  o \in DOMAIN orders /\ CoServe(w, PutsOrder(o, Transitioned(orders[o], "approved", FALSE)))

\* Dispatch is confirmed with the id the CMMS gave the order.
DispatchOrder(w, o) ==
  o \in DOMAIN orders /\ CoServe(w, PutsOrder(o, Transitioned(orders[o], "dispatched", TRUE)))

-----------------------------------------------------------------------------
(* The steps of a handler.                                                 *)

CoDoes(w, what) ==
  /\ cotodo[w] # <<>> /\ Head(cotodo[w]).do = what
  /\ cotodo' = [cotodo EXCEPT ![w] = Tail(@)]
  /\ UNCHANGED <<now, cocalls, codeaths>>

PutItem(w) ==
  /\ CoDoes(w, "item")
  /\ items' = CoPut(items, Head(cotodo[w]).key, Head(cotodo[w]).row)
  /\ UNCHANGED <<comments, events, policies, oncall, escalations, notifications, handovers, acks, reports, orders>>

PutComment(w) ==
  /\ CoDoes(w, "comment")
  /\ comments' = comments \cup {Head(cotodo[w]).row}
  /\ UNCHANGED <<items, events, policies, oncall, escalations, notifications, handovers, acks, reports, orders>>

PutEvent(w) ==
  /\ CoDoes(w, "event")
  /\ events' = events \cup {Head(cotodo[w]).row}
  /\ UNCHANGED <<items, comments, policies, oncall, escalations, notifications, handovers, acks, reports, orders>>

PutPolicy(w) ==
  /\ CoDoes(w, "policy")
  /\ policies' = CoPut(policies, Head(cotodo[w]).key, Head(cotodo[w]).row)
  /\ UNCHANGED <<items, comments, events, oncall, escalations, notifications, handovers, acks, reports, orders>>

PutOncall(w) ==
  /\ CoDoes(w, "oncall")
  /\ oncall' = Head(cotodo[w]).row
  /\ UNCHANGED <<items, comments, events, policies, escalations, notifications, handovers, acks, reports, orders>>

PutEscalation(w) ==
  /\ CoDoes(w, "escalate")
  /\ escalations' = CoPut(escalations, Head(cotodo[w]).key, Head(cotodo[w]).row)
  /\ UNCHANGED <<items, comments, events, policies, oncall, notifications, handovers, acks, reports, orders>>

\* One notification per channel, one after the other.
PutNotification(w) ==
  /\ cotodo[w] # <<>> /\ Head(cotodo[w]).do = "notify"
  /\ \E channel \in Head(cotodo[w]).left :
       LET step == Head(cotodo[w])
           rest == step.left \ {channel} IN
         /\ notifications' = notifications \cup {[esc |-> step.esc, to |-> step.to, channel |-> channel]}
         /\ cotodo' = [cotodo EXCEPT ![w] =
                         (IF rest = {} THEN <<>> ELSE <<[step EXCEPT !.left = rest]>>) \o Tail(@)]
  /\ UNCHANGED <<now, items, comments, events, policies, oncall, escalations, handovers, acks, reports, orders,
                 cocalls, codeaths>>

PutHandover(w) ==
  /\ CoDoes(w, "handover")
  /\ handovers' = CoPut(handovers, Head(cotodo[w]).key, Head(cotodo[w]).row)
  /\ UNCHANGED <<items, comments, events, policies, oncall, escalations, notifications, acks, reports, orders>>

PutAck(w) ==
  /\ CoDoes(w, "ack")
  /\ acks' = acks \cup {Head(cotodo[w]).row}
  /\ UNCHANGED <<items, comments, events, policies, oncall, escalations, notifications, handovers, reports, orders>>

PutReport(w) ==
  /\ CoDoes(w, "report")
  /\ reports' = reports \cup {Head(cotodo[w]).row}
  /\ UNCHANGED <<items, comments, events, policies, oncall, escalations, notifications, handovers, acks, orders>>

PutOrder(w) ==
  /\ CoDoes(w, "order")
  /\ orders' = CoPut(orders, Head(cotodo[w]).key, Head(cotodo[w]).row)
  /\ UNCHANGED <<items, comments, events, policies, oncall, escalations, notifications, handovers, acks, reports>>

FailCoHandler(w) ==
  /\ cotodo[w] # <<>> /\ codeaths < MaxCoDeaths
  /\ cotodo' = [cotodo EXCEPT ![w] = <<>>]
  /\ codeaths' = codeaths + 1
  /\ UNCHANGED <<now, costores, cocalls>>

-----------------------------------------------------------------------------
ItemRequest(w) ==
  \E i \in Items :
    \/ OpenThread(w, i)
    \/ \E p \in People : \/ Assign(w, i, p) \/ Handoff(w, i, p) \/ AddComment(w, i, p)
                         \/ Watch(w, i, p) \/ Unwatch(w, i, p)
    \/ \E due \in {0, now + 1, now + 2} : SetSla(w, i, due)

PolicyRows == [to : People \cup {Nobody}, channels : {Channels}]

EscalationRequest(w) ==
  \/ EvaluateDue(w)
  \/ \E id \in Policies, row \in PolicyRows : UpsertPolicy(w, id, row)
  \/ \E p, q \in People : SetOncall(w, <<p, q>>)

HandoverRequest(w) ==
  \/ \E h \in Handovers, p, q \in People : CreateHandover(w, h, p, q)
  \/ \E h \in Handovers, p \in People : Acknowledge(w, h, p)
  \/ GenerateReport(w)

OrderRequest(w) ==
  \E o \in Orders : CreateOrder(w, o) \/ ApproveOrder(w, o) \/ DispatchOrder(w, o)

CoStep(w) ==
  \/ ReadToChange(w) \/ Consider(w) \/ SnapshotEscalations(w) \/ Summarise(w)
  \/ PutItem(w) \/ PutComment(w) \/ PutEvent(w) \/ PutPolicy(w) \/ PutOncall(w)
  \/ PutEscalation(w) \/ PutNotification(w) \/ PutHandover(w) \/ PutAck(w) \/ PutReport(w)
  \/ PutOrder(w)

CoNext ==
  \/ \E w \in CoWorkers :
       \/ ItemRequest(w) \/ EscalationRequest(w) \/ HandoverRequest(w) \/ OrderRequest(w)
       \/ CoStep(w) \/ FailCoHandler(w)
  \/ Tick

CoSpec == CoInit /\ [][CoNext]_covars

-----------------------------------------------------------------------------
EscalationIds == Items \X (Dues \ {NoDue}) \X {"overdue", "due_soon"}

CoTypeOK ==
  /\ now \in 0..MaxNow
  /\ DOMAIN items \subseteq Items /\ \A i \in DOMAIN items : items[i] \in ItemRow
  /\ comments \subseteq [item : Items, author : People]
  /\ DOMAIN policies \subseteq Policies
  /\ DOMAIN escalations \subseteq EscalationIds
  /\ \A e \in DOMAIN escalations : escalations[e] \in People \cup {Nobody}
  /\ notifications \subseteq [esc : EscalationIds, to : People \cup {Nobody}, channel : Channels]
  /\ DOMAIN handovers \subseteq Handovers
  /\ acks \subseteq [handover : Handovers, role : {"outgoing", "incoming"}, by : People]
  /\ DOMAIN orders \subseteq Orders
  /\ \A o \in DOMAIN orders : orders[o].status \in {"draft", "approved", "dispatched"}

\* Responsibility leaves a trace: a comment belongs to a stored item, and once every
\* handler is done and none failed, whoever is responsible for an item, or whatever
\* deadline it has, was announced by an event, even when the row is a stale one that
\* another handler put back (team_collaboration.py, _event after every put).
ResponsibilityTraced ==
  /\ \A c \in comments : c.item \in DOMAIN items
  /\ (codeaths = 0 /\ \A w \in CoWorkers : cotodo[w] = <<>>) =>
       \A i \in DOMAIN items :
         /\ items[i].assignee # Nobody =>
              \E e \in events : e.item = i /\ e.kind \in {"assigned", "handoff"} /\ e.to = items[i].assignee
         /\ items[i].due # NoDue =>
              \E e \in events : e.item = i /\ e.kind = "sla_updated" /\ e.to = items[i].due

\* An escalation was due: it names a deadline that was set, says overdue only once
\* that deadline has passed, and stands behind every notification; what a handover
\* or a report shows as escalated exists (docs/ARCHITECTURE_V4_5.md).
EscalationWarranted ==
  /\ \A e \in DOMAIN escalations :
       /\ e[1] \in DOMAIN items
       /\ IF e[3] = "overdue" THEN e[2] < now ELSE e[2] <= now + 1
  /\ \A n \in notifications : n.esc \in DOMAIN escalations
  /\ \A h \in DOMAIN handovers : handovers[h].escs \subseteq DOMAIN escalations
  /\ \A r \in reports : r.escs \subseteq DOMAIN escalations

\* An accepted handover was acknowledged by the very person it names as incoming,
\* although acknowledging reads, records and puts back in three steps and a handover
\* of the same id may be submitted anew in between (docs/ARCHITECTURE_V4_6.md).
AcceptedHasAck ==
  \A h \in DOMAIN handovers : handovers[h].status = "accepted" =>
    [handover |-> h, role |-> "incoming", by |-> handovers[h].in] \in acks

\* A work order's status is the last thing its history records, and one that was
\* dispatched can be found in the CMMS (predictive_maintenance.py, transition).
HistoryExplainsOrder ==
  \A o \in DOMAIN orders :
    LET last == orders[o].history[Len(orders[o].history)] IN
      /\ orders[o].status = IF last = "created" THEN "draft" ELSE last
      /\ orders[o].status = "dispatched" => orders[o].external
=============================================================================
