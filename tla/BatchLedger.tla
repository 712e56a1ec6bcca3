---------------------------- MODULE BatchLedger ----------------------------
(***************************************************************************)
(* What docs/ARCHITECTURE_V2_4.md promises of ConnectorBatch submission:   *)
(* domain data is written only while a batch is being processed for the    *)
(* first time or again after a failure, a processed batch is final, and    *)
(* one submission of a batch is processed at a time.  A record that failed *)
(* may be parked then; outside a batch only a retry of one writes.         *)
(***************************************************************************)
EXTENDS Naturals

CONSTANTS
  BatchIds,  \* batch_id values
  Records,   \* records of the source
  Payload    \* [BatchIds -> SUBSET Records]

VARIABLES
  status,    \* [BatchIds -> {"new", "running", "processed"}]
  domain,    \* [Records -> Nat] writes of a record to the domain services
  parked,    \* records the queue of dead letters holds
  retrying   \* records a retry is about to write

lvars == <<status, domain, parked, retrying>>

Init ==
  /\ status = [b \in BatchIds |-> "new"]
  /\ domain = [r \in Records |-> 0]
  /\ parked = {}
  /\ retrying = {}

Begin(b) ==
  /\ status[b] = "new"
  /\ status' = [status EXCEPT ![b] = "running"]
  /\ UNCHANGED <<domain, parked, retrying>>

Write(b, r) ==
  /\ status[b] = "running"
  /\ domain' = [domain EXCEPT ![r] = @ + 1]
  /\ UNCHANGED <<status, parked, retrying>>

Park(b, r) ==
  /\ status[b] = "running"
  /\ parked' = parked \cup {r}
  /\ UNCHANGED <<status, domain, retrying>>

\* A parked record is delivered again by hand, whatever became of its batch.
Retry(r) ==
  /\ r \in parked
  /\ retrying' = retrying \cup {r}
  /\ UNCHANGED <<status, domain, parked>>

Redeliver(r) ==
  /\ r \in retrying
  /\ domain' = [domain EXCEPT ![r] = @ + 1]
  /\ retrying' = retrying \ {r}
  /\ UNCHANGED <<status, parked>>

RetryFails(r) ==
  /\ retrying' = retrying \ {r}
  /\ UNCHANGED <<status, domain, parked>>

\* The run raised or its handler died: the batch may be submitted again.
GiveUp(b) ==
  /\ status[b] = "running"
  /\ status' = [status EXCEPT ![b] = "new"]
  /\ UNCHANGED <<domain, parked, retrying>>

Store(b) ==
  /\ status[b] = "running"
  /\ status' = [status EXCEPT ![b] = "processed"]
  /\ UNCHANGED <<domain, parked, retrying>>

Next ==
  \/ \E b \in BatchIds : \/ Begin(b) \/ GiveUp(b) \/ Store(b)
                         \/ \E r \in Payload[b] : Write(b, r) \/ Park(b, r)
  \/ \E r \in Records : Retry(r) \/ Redeliver(r) \/ RetryFails(r)

Spec == Init /\ [][Next]_lvars
=============================================================================
