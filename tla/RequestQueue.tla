---------------------------- MODULE RequestQueue ----------------------------
(***************************************************************************)
(* What the streams promise of the requests that are sent, without         *)
(* cursors, consumers, processes or bulkheads: requests are taken in the   *)
(* order of their stream and once only, each is processed at most once and *)
(* put on the dead-letter stream at most once, and it is owed to the       *)
(* customer until one of the two has happened.  StreamPartition implements *)
(* it, with processes that stop gracefully when MayForget is TRUE.         *)
(***************************************************************************)
CONSTANTS
  Message,
  Before,     \* the pairs of requests of which the first is ahead in its stream
  Outcome,    \* what processing comes to, other than "none"
  MayForget   \* pending requests may be dropped

VARIABLES
  posted,     \* requests that were sent
  taken,      \* requests that a worker was given
  pending,    \* those of them that are not settled
  outcome,    \* of each request
  dead        \* requests on the dead-letter stream

queue == <<posted, taken, pending, outcome, dead>>

Init ==
  /\ posted = {} /\ taken = {} /\ pending = {} /\ dead = {}
  /\ outcome = [m \in Message |-> "none"]

Post(m) ==
  /\ m \notin posted /\ \A n \in posted : <<m, n>> \notin Before
  /\ posted' = posted \cup {m}
  /\ UNCHANGED <<taken, pending, outcome, dead>>

\* Some of the oldest requests that nobody was given yet.
Take(S) ==
  /\ S # {} /\ S \subseteq posted \ taken
  /\ \A m \in S, n \in posted \ taken : <<n, m>> \in Before => n \in S
  /\ taken' = taken \cup S /\ pending' = pending \cup S
  /\ UNCHANGED <<posted, outcome, dead>>

Process(m, r) ==
  /\ m \in taken \ dead /\ outcome[m] = "none"
  /\ outcome' = [outcome EXCEPT ![m] = r]
  /\ UNCHANGED <<posted, taken, pending, dead>>

Bury(m) ==
  /\ m \in taken \ dead
  /\ dead' = dead \cup {m}
  /\ UNCHANGED <<posted, taken, pending, outcome>>

Settle(m) ==
  /\ m \in pending /\ (outcome[m] # "none" \/ m \in dead)
  /\ pending' = pending \ {m}
  /\ UNCHANGED <<posted, taken, outcome, dead>>

Forget(S) ==
  /\ MayForget /\ S \subseteq pending
  /\ pending' = pending \ S
  /\ UNCHANGED <<posted, taken, outcome, dead>>

Next ==
  \/ \E m \in Message :
       Post(m) \/ Bury(m) \/ Settle(m) \/ \E r \in Outcome : Process(m, r)
  \/ \E S \in SUBSET Message : Take(S) \/ Forget(S)

Spec == Init /\ [][Next]_queue

\* A request that was sent is waiting, pending, processed or buried.
Owed ==
  \A m \in posted :
    m \notin taken \/ m \in pending \/ outcome[m] # "none" \/ m \in dead
=============================================================================
