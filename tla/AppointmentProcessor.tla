------------------------ MODULE AppointmentProcessor ------------------------
(***************************************************************************)
(* The availability engine of the appointment worker: every execution of   *)
(* AppointmentProcessor.ProcessAsync over the booking requests of ONE      *)
(* tenant, interleaved at each await, over the Redis locks and the         *)
(* appointment table it shares with the status endpoints of the API.       *)
(*                                                                         *)
(* A handler is identified with the request (stream message) it processes, *)
(* because a message is delivered to exactly one handler.  The handlers of *)
(* one tenant really run side by side: five per worker process, messages   *)
(* spread over four partitions and any number of processes.                *)
(*                                                                         *)
(* Abstracted: the other tenants (every key and every query carries the    *)
(* tenant), the fields of a row that no property reads, the audit row      *)
(* written in the same transaction, and the cache keys other than the      *)
(* status of the appointment hash (all of them are written after the       *)
(* insert and nothing in this module reads them).                          *)
(***************************************************************************)
EXTENDS Integers, FiniteSets

CONSTANTS
  Message,     \* the booking requests handed to the processor
  Tech, Bay,   \* technicians and service bays
  None,        \* a null id, and the content of a Redis key that is absent
  AutoAssigned,\* the requests that let the worker choose
  WantTech,    \* [Message -> Tech \cup {None}]: message.TechnicianId
  WantBay,     \* [Message -> Bay \cup {None}]: message.ServiceBayId
  Skilled,     \* [Message -> SUBSET Tech]: who has a skill row for the service
  ListedBay,   \* the bays that have a row in service_bays
  Start, End,  \* [Message -> Int]: startUtc and endUtc
  Token,       \* [Message -> stream entry id]: messageId, the value of a lock
  Editor,      \* status requests of the API that can be in flight at once
  Target,      \* [Editor -> Message]: the appointment a status request names
  Faults       \* the classes of external failure an instance considers

FaultKinds ==
  {"await",      \* a call of the try block throws without having any effect
   "lostReply",  \* ... throws although Redis or PostgreSQL executed it
   "cache",      \* a cache write after the insert throws
   "release",    \* a release in the finally block throws
   "crash",      \* the worker process dies under a handler
   "lease"}      \* a handler outlives the 30 seconds of its locks

ASSUME ProcessorAssumption ==
  /\ Tech \cap Bay = {}
  /\ None \notin Tech \cup Bay
  /\ AutoAssigned \subseteq Message
  /\ WantTech \in [Message -> Tech \cup {None}]
  /\ WantBay \in [Message -> Bay \cup {None}]
  /\ Skilled \in [Message -> SUBSET Tech]
  /\ ListedBay \subseteq Bay
  /\ Start \in [Message -> Int]
  /\ End \in [Message -> Int]
  /\ DOMAIN Token = Message
  /\ \A m \in Message : Token[m] # None
  /\ Target \in [Editor -> Message]
  /\ Faults \subseteq FaultKinds

VARIABLES
  pc,        \* where each handler is
  techTodo,  \* the technicians foreach has not visited yet
  bayTodo,   \* the bays the inner foreach has not visited yet
  tryTech,   \* techId of the outer loop
  techLock,  \* the technician in the lock key kept in the local techLock
  bayLock,   \* the bay in the lock key kept in the local bayLock
  tech,      \* assignedTechId, and technician_id of the row once inserted
  bay,       \* assignedBayId, and service_bay_id of the row once inserted
  lock,      \* the Redis lock keys: the token stored under each, or None
  status,    \* status of the row of each request, "none" when there is none
  told,      \* the final status the handler put in the appointment hash
  edit       \* the status each API status request is about to write

search == <<techTodo, bayTodo, tryTech>>
names  == <<techLock, bayLock>>
chosen == <<tech, bay>>
vars   == <<pc, search, names, chosen, lock, status, told, edit>>

Resource == Tech \cup Bay
Time == {Start[m] : m \in Message}
RowStatus == {"Scheduled", "InProgress", "Completed", "Cancelled"}
Stopped == {"done", "escaped", "crashed"}

-----------------------------------------------------------------------------
(* The lock keys tenant:T:lock:tech:ID:TICKS and tenant:T:lock:bay:ID:TICKS *)
(* are a resource and the exact start of the request.                       *)

Key(r, m) == <<r, Start[m]>>

\* Deliberate fault: SET without NX.
WrongFree(r, m) == TRUE

Free(r, m) == lock[Key(r, m)] = None

\* SET key messageId NX PX 30000 that found no key.
Acquired(r, m) == [lock EXCEPT ![Key(r, m)] = Token[m]]

\* Deliberate fault: a plain DEL instead of the script.
WrongReleased(r, m) ==
  IF r # None THEN [lock EXCEPT ![Key(r, m)] = None] ELSE lock

\* The Lua script of ReleaseLockAsync: delete when the value is messageId.
Released(r, m) ==
  IF r # None /\ lock[Key(r, m)] = Token[m]
  THEN [lock EXCEPT ![Key(r, m)] = None]
  ELSE lock

(* The overlap queries: a Scheduled or InProgress row of the resource whose *)
(* half-open interval meets the one of the request.                         *)

\* Deliberate fault: whatever is not over blocks, also what is not booked.
WrongActive(n) == status[n] \notin {"Completed", "Cancelled"}

Active(n) == status[n] \in {"Scheduled", "InProgress"}

Overlaps(n, m) == Start[n] < End[m] /\ End[n] > Start[m]

TechBusy(t, m) == \E n \in Message : Active(n) /\ tech[n] = t /\ Overlaps(n, m)

BayBusy(b, m) == \E n \in Message : Active(n) /\ bay[n] = b /\ Overlaps(n, m)

GoTo(m, label) == pc' = [pc EXCEPT ![m] = label]

-----------------------------------------------------------------------------
Init ==
  /\ pc = [m \in Message |-> "queued"]
  /\ techTodo = [m \in Message |-> {}]
  /\ bayTodo = [m \in Message |-> {}]
  /\ tryTech = [m \in Message |-> None]
  /\ techLock = [m \in Message |-> None]
  /\ bayLock = [m \in Message |-> None]
  /\ tech = [m \in Message |-> None]
  /\ bay = [m \in Message |-> None]
  /\ lock = [k \in Resource \X Time |-> None]
  /\ status = [m \in Message |-> "none"]
  /\ told = [m \in Message |-> "none"]
  /\ edit = [e \in Editor |-> None]

\* The ids must be present unless the worker assigns them.
IsValid(m) == m \in AutoAssigned \/ (WantTech[m] # None /\ WantBay[m] # None)

\* Deliberate fault: the candidates are all technicians, skilled or not.
WrongBegin(m) ==
  /\ pc[m] = "queued"
  /\ tech' = [tech EXCEPT ![m] = WantTech[m]]
  /\ bay' = [bay EXCEPT ![m] = WantBay[m]]
  /\ IF m \in AutoAssigned
     THEN /\ techTodo' = [techTodo EXCEPT ![m] = Tech]
          /\ GoTo(m, "techs")
          /\ UNCHANGED names
     ELSE /\ techLock' = [techLock EXCEPT ![m] = WantTech[m]]
          /\ bayLock' = [bayLock EXCEPT ![m] = WantBay[m]]
          /\ GoTo(m, IF IsValid(m) THEN "lockTech" ELSE "failing")
          /\ UNCHANGED techTodo
  /\ UNCHANGED <<bayTodo, tryTech, lock, status, told, edit>>

\* assignedTechId and assignedBayId start as the ids of the message; the
\* validator runs; AutoAssigned requests fetch their candidates, the others
\* name the two lock keys.
Begin(m) ==
  /\ pc[m] = "queued"
  /\ tech' = [tech EXCEPT ![m] = WantTech[m]]
  /\ bay' = [bay EXCEPT ![m] = WantBay[m]]
  /\ \/ /\ ~IsValid(m)
        /\ GoTo(m, "failing")
        /\ UNCHANGED <<techTodo, names>>
     \/ /\ m \in AutoAssigned
        /\ techTodo' = [techTodo EXCEPT ![m] = Skilled[m]]
        /\ GoTo(m, "techs")
        /\ UNCHANGED names
     \/ /\ IsValid(m) /\ m \notin AutoAssigned
        /\ techLock' = [techLock EXCEPT ![m] = WantTech[m]]
        /\ bayLock' = [bayLock EXCEPT ![m] = WantBay[m]]
        /\ GoTo(m, "lockTech")
        /\ UNCHANGED techTodo
  /\ UNCHANGED <<bayTodo, tryTech, lock, status, told, edit>>

-----------------------------------------------------------------------------
(* The search of an AutoAssigned request.  The candidate lists come from    *)
(* queries without ORDER BY, so the next candidate is any remaining one.    *)

NextTech(m) ==
  /\ pc[m] = "techs"
  /\ \E t \in techTodo[m] :
       /\ techTodo' = [techTodo EXCEPT ![m] = @ \ {t}]
       /\ IF TechBusy(t, m)
          THEN UNCHANGED <<pc, bayTodo, tryTech>>
          ELSE /\ tryTech' = [tryTech EXCEPT ![m] = t]
               /\ bayTodo' = [bayTodo EXCEPT ![m] = ListedBay]
               /\ GoTo(m, "bays")
  /\ UNCHANGED <<names, chosen, lock, status, told, edit>>

\* Deliberate fault: the enumerator of the bays does not advance.
WrongNextBay(m) ==
  /\ pc[m] = "bays"
  /\ \E b \in bayTodo[m] :
       /\ ~BayBusy(b, m)
       /\ techLock' = [techLock EXCEPT ![m] = tryTech[m]]
       /\ bayLock' = [bayLock EXCEPT ![m] = b]
  /\ GoTo(m, "lockTech")
  /\ UNCHANGED <<search, chosen, lock, status, told, edit>>

NextBay(m) ==
  /\ pc[m] = "bays"
  /\ \E b \in bayTodo[m] :
       /\ bayTodo' = [bayTodo EXCEPT ![m] = @ \ {b}]
       /\ IF BayBusy(b, m)
          THEN UNCHANGED <<pc, names>>
          ELSE /\ techLock' = [techLock EXCEPT ![m] = tryTech[m]]
               /\ bayLock' = [bayLock EXCEPT ![m] = b]
               /\ GoTo(m, "lockTech")
  /\ UNCHANGED <<techTodo, tryTech, chosen, lock, status, told, edit>>

\* The inner foreach is exhausted: no pair with this technician.
BaysExhausted(m) ==
  /\ pc[m] = "bays"
  /\ bayTodo[m] = {}
  /\ GoTo(m, "techs")
  /\ UNCHANGED <<search, names, chosen, lock, status, told, edit>>

\* The outer foreach is exhausted.  Only null ids make the request fail.
TechsExhausted(m) ==
  /\ pc[m] = "techs"
  /\ techTodo[m] = {}
  /\ GoTo(m, IF tech[m] = None \/ bay[m] = None THEN "failing" ELSE "insert")
  /\ UNCHANGED <<search, names, chosen, lock, status, told, edit>>

-----------------------------------------------------------------------------
(* Both kinds of request lock the technician, then the bay, and read the    *)
(* two calendars under the locks.                                           *)

LockTech(m) ==
  /\ pc[m] = "lockTech"
  /\ IF Free(techLock[m], m)
     THEN /\ lock' = Acquired(techLock[m], m)
          /\ GoTo(m, "lockBay")
     ELSE /\ GoTo(m, IF m \in AutoAssigned THEN "bays" ELSE "failing")
          /\ UNCHANGED lock
  /\ UNCHANGED <<search, names, chosen, status, told, edit>>

LockBay(m) ==
  /\ pc[m] = "lockBay"
  /\ IF Free(bayLock[m], m)
     THEN /\ lock' = Acquired(bayLock[m], m)
          /\ GoTo(m, "checkTech")
     ELSE /\ GoTo(m, "dropTech")
          /\ UNCHANGED lock
  /\ UNCHANGED <<search, names, chosen, status, told, edit>>

\* Deliberate fault: the search goes on without releasing the technician.
WrongDropTech(m) ==
  /\ pc[m] = "dropTech"
  /\ GoTo(m, IF m \in AutoAssigned THEN "bays" ELSE "failing")
  /\ UNCHANGED <<search, names, chosen, lock, status, told, edit>>

\* The bay lock was taken: give the technician lock back.
DropTech(m) ==
  /\ pc[m] = "dropTech"
  /\ lock' = Released(techLock[m], m)
  /\ GoTo(m, IF m \in AutoAssigned THEN "bays" ELSE "failing")
  /\ UNCHANGED <<search, names, chosen, status, told, edit>>

\* Deliberate faults: no re-check of the technician's calendar, of the bay's.
WrongTechUsable(m) == m \in AutoAssigned \/ techLock[m] \in Skilled[m]
WrongBayUsable(m) == m \in AutoAssigned \/ bayLock[m] \in ListedBay

\* A re-check of the search tests the overlap alone.  TechnicianService and
\* BayService also want the technician skilled and the bay listed.
TechUsable(m) ==
  /\ ~TechBusy(techLock[m], m)
  /\ m \in AutoAssigned \/ techLock[m] \in Skilled[m]

BayUsable(m) ==
  /\ ~BayBusy(bayLock[m], m)
  /\ m \in AutoAssigned \/ bayLock[m] \in ListedBay

\* A technician found busy by the search still has the bay read, whose
\* answer can change nothing: both locks are given back.
CheckTech(m) ==
  /\ pc[m] = "checkTech"
  /\ GoTo(m, IF TechUsable(m) THEN "checkBay"
             ELSE IF m \in AutoAssigned THEN "dropPair" ELSE "failing")
  /\ UNCHANGED <<search, names, chosen, lock, status, told, edit>>

\* A usable pair is assigned.  The break tests that follow leave the outer
\* loop only when the message named no technician.
CheckBay(m) ==
  /\ pc[m] = "checkBay"
  /\ \/ /\ ~BayUsable(m)
        /\ GoTo(m, IF m \in AutoAssigned THEN "dropPair" ELSE "failing")
        /\ UNCHANGED chosen
     \/ /\ BayUsable(m) /\ m \notin AutoAssigned
        /\ GoTo(m, "insert")
        /\ UNCHANGED chosen
     \/ /\ BayUsable(m) /\ m \in AutoAssigned
        /\ tech' = [tech EXCEPT ![m] = techLock[m]]
        /\ bay' = [bay EXCEPT ![m] = bayLock[m]]
        /\ GoTo(m, IF WantTech[m] = None THEN "insert" ELSE "techs")
  /\ UNCHANGED <<search, names, lock, status, told, edit>>

\* The pair was booked before the locks were taken: give both locks back.
DropPair(m) ==
  /\ pc[m] = "dropPair"
  /\ lock' = Released(techLock[m], m)
  /\ GoTo(m, "dropBay")
  /\ UNCHANGED <<search, names, chosen, status, told, edit>>

DropBay(m) ==
  /\ pc[m] = "dropBay"
  /\ lock' = Released(bayLock[m], m)
  /\ GoTo(m, "bays")
  /\ UNCHANGED <<search, names, chosen, status, told, edit>>

-----------------------------------------------------------------------------
(* The outcome.                                                             *)

\* Deliberate fault: AddAsync without SaveChangesAsync.
WrongInsert(m) ==
  /\ pc[m] = "insert"
  /\ GoTo(m, "publish")
  /\ UNCHANGED <<search, names, chosen, lock, status, told, edit>>

Insert(m) ==
  /\ pc[m] = "insert"
  /\ status' = [status EXCEPT ![m] = "Scheduled"]
  /\ GoTo(m, "publish")
  /\ UNCHANGED <<search, names, chosen, lock, told, edit>>

Publish(m) ==
  /\ pc[m] = "publish"
  /\ told' = [told EXCEPT ![m] = "Scheduled"]
  /\ GoTo(m, "releaseTech")
  /\ UNCHANGED <<search, names, chosen, lock, status, edit>>

\* Deliberate fault: a status word outside the vocabulary of the hash.
WrongMarkFailed(m) ==
  /\ pc[m] = "failing"
  /\ told' = [told EXCEPT ![m] = "Rejected"]
  /\ GoTo(m, "releaseTech")
  /\ UNCHANGED <<search, names, chosen, lock, status, edit>>

\* The catch block.  Its insert of a Failed row cannot succeed (the empty
\* technician id is not a Guid, so SaveChanges throws, and the exception is
\* swallowed); then the hash says Failed, unless that write throws too.
MarkFailed(m) ==
  /\ pc[m] = "failing"
  /\ \/ told' = [told EXCEPT ![m] = "Failed"]
     \/ "cache" \in Faults /\ UNCHANGED told
  /\ GoTo(m, "releaseTech")
  /\ UNCHANGED <<search, names, chosen, lock, status, edit>>

\* The finally block: the two keys the locals name now.
ReleaseTech(m) ==
  /\ pc[m] = "releaseTech"
  /\ lock' = Released(techLock[m], m)
  /\ GoTo(m, "releaseBay")
  /\ UNCHANGED <<search, names, chosen, status, told, edit>>

ReleaseBay(m) ==
  /\ pc[m] = "releaseBay"
  /\ lock' = Released(bayLock[m], m)
  /\ GoTo(m, "done")
  /\ UNCHANGED <<search, names, chosen, status, told, edit>>

Step(m) ==
  \/ Begin(m)
  \/ NextTech(m) \/ NextBay(m) \/ BaysExhausted(m) \/ TechsExhausted(m)
  \/ LockTech(m) \/ LockBay(m) \/ DropTech(m)
  \/ CheckTech(m) \/ CheckBay(m) \/ DropPair(m) \/ DropBay(m)
  \/ Insert(m) \/ Publish(m) \/ MarkFailed(m)
  \/ ReleaseTech(m) \/ ReleaseBay(m)

-----------------------------------------------------------------------------
(* Failures around a handler.                                               *)

Awaiting ==
  {"queued", "techs", "bays", "lockTech", "lockBay", "dropTech", "checkTech",
   "checkBay", "dropPair", "dropBay", "insert"}

\* A validation, query, lock or insert call throws and changed nothing; the
\* start passing while the request waits is one of these (the validator).
AwaitThrows(m) ==
  /\ "await" \in Faults
  /\ pc[m] \in Awaiting
  /\ GoTo(m, "failing")
  /\ UNCHANGED <<search, names, chosen, lock, status, told, edit>>

\* SET NX took the lock and its reply timed out.
LockReplyLost(m) ==
  /\ "lostReply" \in Faults
  /\ \/ /\ pc[m] = "lockTech" /\ Free(techLock[m], m)
        /\ lock' = Acquired(techLock[m], m)
     \/ /\ pc[m] = "lockBay" /\ Free(bayLock[m], m)
        /\ lock' = Acquired(bayLock[m], m)
  /\ GoTo(m, "failing")
  /\ UNCHANGED <<search, names, chosen, status, told, edit>>

\* The transaction committed and its reply was lost.
CommitReplyLost(m) ==
  /\ "lostReply" \in Faults
  /\ pc[m] = "insert"
  /\ status' = [status EXCEPT ![m] = "Scheduled"]
  /\ GoTo(m, "failing")
  /\ UNCHANGED <<search, names, chosen, lock, told, edit>>

\* A cache write after the insert throws: the catch block runs although the
\* row is committed.
PublishThrows(m) ==
  /\ "cache" \in Faults
  /\ pc[m] = "publish"
  /\ \/ UNCHANGED told
     \/ told' = [told EXCEPT ![m] = "Scheduled"]
  /\ GoTo(m, "failing")
  /\ UNCHANGED <<search, names, chosen, lock, status, edit>>

\* A release of the finally block throws: ProcessAsync is left with the
\* exception and the remaining release is skipped.
ReleaseThrows(m) ==
  /\ "release" \in Faults
  /\ pc[m] \in {"releaseTech", "releaseBay"}
  /\ GoTo(m, "escaped")
  /\ UNCHANGED <<search, names, chosen, lock, status, told, edit>>

Crash(m) ==
  /\ "crash" \in Faults
  /\ pc[m] \notin Stopped \cup {"queued"}
  /\ GoTo(m, "crashed")
  /\ UNCHANGED <<search, names, chosen, lock, status, told, edit>>

\* Deliberate fault: lock keys without a time to live.
WrongLeaseExpires(k) == lock[k] # None /\ FALSE /\ UNCHANGED vars

\* Redis drops a lock key 30 seconds after it was set.  Without "lease" in
\* Faults, no handler of the token is still running by then.
LeaseExpires(k) ==
  /\ lock[k] # None
  /\ "lease" \in Faults \/ \A m \in Message : Token[m] = lock[k] => pc[m] \in Stopped
  /\ lock' = [lock EXCEPT ![k] = None]
  /\ UNCHANGED <<pc, search, names, chosen, status, told, edit>>

-----------------------------------------------------------------------------
(* The status endpoints of the API: findById, a check of the status that    *)
(* was read, then an UPDATE by id that does not look at the status again.   *)

\* Deliberate fault: an appointment can be completed before it has begun.
WrongValidTransitions(s) ==
  CASE s = "Scheduled" -> {"InProgress", "Completed", "Cancelled"}
    [] s = "InProgress" -> {"Completed", "Cancelled"}
    [] OTHER -> {}

ValidTransitions(s) ==
  CASE s = "Scheduled" -> {"InProgress", "Cancelled"}
    [] s = "InProgress" -> {"Completed", "Cancelled"}
    [] OTHER -> {}

UpdateStatusReads(e) ==
  /\ edit[e] = None
  /\ \E s \in ValidTransitions(status[Target[e]]) : edit' = [edit EXCEPT ![e] = s]
  /\ UNCHANGED <<pc, search, names, chosen, lock, status, told>>

\* Deliberate fault: completed appointments can be cancelled.
WrongCancelReads(e) ==
  /\ edit[e] = None
  /\ status[Target[e]] # "none"
  /\ edit' = [edit EXCEPT ![e] = "Cancelled"]
  /\ UNCHANGED <<pc, search, names, chosen, lock, status, told>>

CancelReads(e) ==
  /\ edit[e] = None
  /\ status[Target[e]] \notin {"none", "Completed"}
  /\ edit' = [edit EXCEPT ![e] = "Cancelled"]
  /\ UNCHANGED <<pc, search, names, chosen, lock, status, told>>

WriteStatus(e) ==
  /\ edit[e] # None
  /\ status' = [status EXCEPT ![Target[e]] = edit[e]]
  /\ edit' = [edit EXCEPT ![e] = None]
  /\ UNCHANGED <<pc, search, names, chosen, lock, told>>

Fault(m) ==
  \/ AwaitThrows(m) \/ LockReplyLost(m) \/ CommitReplyLost(m)
  \/ PublishThrows(m) \/ ReleaseThrows(m) \/ Crash(m)

Edit(e) == UpdateStatusReads(e) \/ CancelReads(e) \/ WriteStatus(e)

Next ==
  \/ \E m \in Message : Step(m) \/ Fault(m)
  \/ \E k \in Resource \X Time : LeaseExpires(k)
  \/ \E e \in Editor : Edit(e)

Spec == Init /\ [][Next]_vars

\* The task scheduler runs every handler on, and Redis expires its keys.
Fairness ==
  /\ \A m \in Message : WF_vars(Step(m))
  /\ \A k \in Resource \X Time : WF_vars(LeaseExpires(k))

FairSpec == Spec /\ Fairness

-----------------------------------------------------------------------------
(* Invariants.                                                              *)

Label == Awaiting \cup Stopped \cup {"publish", "failing", "releaseTech", "releaseBay"}

LockTable == [Resource \X Time -> {Token[m] : m \in Message} \cup {None}]

\* Every variable stays in its range.
TypeOK ==
  /\ pc \in [Message -> Label]
  /\ techTodo \in [Message -> SUBSET Tech]
  /\ bayTodo \in [Message -> SUBSET Bay]
  /\ tryTech \in [Message -> Tech \cup {None}]
  /\ techLock \in [Message -> Tech \cup {None}]
  /\ bayLock \in [Message -> Bay \cup {None}]
  /\ tech \in [Message -> Tech \cup {None}]
  /\ bay \in [Message -> Bay \cup {None}]
  /\ lock \in LockTable
  /\ status \in [Message -> RowStatus \cup {"none"}]
  /\ told \in [Message -> {"none", "Scheduled", "Failed"}]
  /\ edit \in [Editor -> RowStatus \cup {None}]

\* Two appointments that occupy the calendar at overlapping times share
\* neither their technician nor their bay: the purpose of the locks, of the
\* checks made under them and of the status machine together.
NoDoubleBooking ==
  \A m, n \in Message :
    m # n /\ Active(m) /\ Active(n) /\ Overlaps(m, n) =>
      tech[m] # tech[n] /\ bay[m] # bay[n]

\* Two appointments of one slot that are still to come share neither their
\* technician nor their bay, also while status requests overwrite one another
\* on the rows around them and replies of the inserts are lost.
SlotsAreExclusive ==
  \A m, n \in Message :
    m # n /\ Start[m] = Start[n] /\ Overlaps(m, n)
          /\ status[m] = "Scheduled" /\ status[n] = "Scheduled" =>
      tech[m] # tech[n] /\ bay[m] # bay[n]

\* Whatever way a booking was found, its technician has the skill and its
\* bay is listed.
CapableBooking ==
  \A m \in Message : status[m] # "none" =>
    tech[m] \in Skilled[m] /\ bay[m] \in ListedBay

\* A customer who is told "Failed" at the end has no row in the calendar,
\* and one who is told "Scheduled" has one.
ToldTheTruth ==
  \A m \in Message : pc[m] = "done" =>
    /\ told[m] = "Failed" => status[m] = "none"
    /\ told[m] = "Scheduled" => status[m] # "none"

\* A handler that is about to insert still owns both of its locks: nobody
\* releases the lock of another handler under its feet.
HoldersKeepLocks ==
  \A m \in Message :
    /\ pc[m] \in {"lockBay", "checkTech", "checkBay", "insert"} =>
         lock[Key(techLock[m], m)] = Token[m]
    /\ pc[m] \in {"checkTech", "checkBay", "insert"} =>
         lock[Key(bayLock[m], m)] = Token[m]

\* A lock key never outlives the handler that set it: when a handler has
\* left its finally block, no key carries its token.
NoLeakedLock ==
  \A m \in Message : pc[m] = "done" =>
    \A k \in Resource \X Time : lock[k] # Token[m]

(* What the theorems about the calendar suppose, and the inductive          *)
(* invariant behind NoDoubleBooking.                                        *)

\* Stream ids are distinct.
OwnTokens == \A m, n \in Message : Token[m] = Token[n] => m = n

\* AutoAssigned requests carry no ids.
NothingPreset == \A m \in AutoAssigned : WantTech[m] = None /\ WantBay[m] = None

\* No handler outlives its leases.
LeasesLast == "lease" \notin Faults

\* The race the lock keys leave open: m is about to insert a row at a time
\* that overlaps the one of n but starts elsewhere, on a resource whose
\* calendar n has already read.
Races(m, n) ==
  /\ m # n /\ Overlaps(m, n) /\ Start[m] # Start[n]
  /\ pc[m] = "insert"
  /\ \/ pc[n] \in {"checkBay", "insert"} /\ techLock[n] = techLock[m]
     \/ pc[n] = "insert" /\ bayLock[n] = bayLock[m]

NoRace == \A m, n \in Message : ~Races(m, n)

\* No two status requests on one appointment are between their read and their
\* write at the same moment.
NoCrossedEdits ==
  \A d, e \in Editor :
    Target[d] = Target[e] /\ edit[d] # None /\ edit[e] # None => d = e

\* The labels between the choice of a pair and the end of its trial.
Trying == {"lockTech", "lockBay", "dropTech", "checkTech", "checkBay", "dropPair", "dropBay"}

\* A pair on trial consists of real ids; the search has assigned nothing
\* before the insert, and a manual request tries the ids it was given.
PairOnTrial ==
  \A m \in Message :
    /\ pc[m] \in Trying \cup {"bays"} /\ m \in AutoAssigned => tryTech[m] \in Tech
    /\ pc[m] \in Trying \cup {"insert"} => techLock[m] \in Tech /\ bayLock[m] \in Bay
    /\ pc[m] \in {"techs", "bays", "dropPair", "dropBay"} => m \in AutoAssigned
    /\ pc[m] \in Trying \cup {"techs", "bays"} /\ m \in AutoAssigned =>
         tech[m] = None /\ bay[m] = None
    /\ pc[m] \in Trying \cup {"insert"} /\ (m \notin AutoAssigned \/ pc[m] = "insert") =>
         tech[m] = techLock[m] /\ bay[m] = bayLock[m]

\* The search only tries technicians and bays that qualify, a manual pair is
\* the one the customer named, and it qualifies once it has been checked.
PairQualifies ==
  \A m \in Message :
    /\ techTodo[m] \subseteq Skilled[m] /\ bayTodo[m] \subseteq ListedBay
    /\ pc[m] \in Trying \cup {"bays"} /\ m \in AutoAssigned => tryTech[m] \in Skilled[m]
    /\ pc[m] \in Trying /\ m \in AutoAssigned =>
         techLock[m] \in Skilled[m] /\ bayLock[m] \in ListedBay
    /\ pc[m] \in Trying \cup {"insert"} /\ m \notin AutoAssigned =>
         tech[m] = WantTech[m] /\ bay[m] = WantBay[m]
    /\ pc[m] \in {"checkBay", "insert"} => techLock[m] \in Skilled[m]
    /\ pc[m] = "insert" => bayLock[m] \in ListedBay

\* What a handler has found free under its locks stays free until it inserts:
\* of every row, and of the rows of its own slot that are still to come.
StillFree ==
  \A m \in Message :
    /\ pc[m] \in {"checkBay", "insert"} => ~TechBusy(techLock[m], m)
    /\ pc[m] = "insert" => ~BayBusy(bayLock[m], m)

Reserved(r, m) ==
  \E n \in Message :
    /\ status[n] = "Scheduled" /\ Start[n] = Start[m] /\ Overlaps(n, m)
    /\ r \in {tech[n], bay[n]}

SlotStillFree ==
  \A m \in Message :
    /\ pc[m] \in {"checkBay", "insert"} => ~Reserved(techLock[m], m)
    /\ pc[m] = "insert" => ~Reserved(bayLock[m], m)

\* A row exists only once its handler has passed the insert.
RowsAfterInsert == \A m \in Message : status[m] # "none" => pc[m] \notin Awaiting

\* A status request is about a row there is.
EditsHaveRows == \A e \in Editor : edit[e] # None => status[Target[e]] # "none"

\* A status request that is to complete an appointment has seen it begun, and
\* none puts an appointment back.
EditsGoForward ==
  \A e \in Editor :
    /\ edit[e] \in {None, "InProgress", "Completed", "Cancelled"}
    /\ edit[e] # None /\ edit[e] = "Completed" => status[Target[e]] # "Scheduled"

\* A status request that passed its check is still allowed to write.
EditsStayValid ==
  \A e \in Editor : edit[e] # None =>
    \/ edit[e] \in ValidTransitions(status[Target[e]])
    \/ edit[e] = "Cancelled" /\ status[Target[e]] = "Cancelled"

\* What every step preserves while handlers keep their locks and neither
\* handlers nor status requests race.
IInv ==
  /\ TypeOK /\ PairOnTrial /\ PairQualifies /\ StillFree
  /\ RowsAfterInsert /\ EditsStayValid /\ NoDoubleBooking /\ CapableBooking

Bookable(m) ==
  IF m \in AutoAssigned
  THEN Skilled[m] # {} /\ ListedBay # {}
  ELSE WantTech[m] \in Skilled[m] /\ WantBay[m] \in ListedBay

\* Competing requests do not all refuse one another: when every request could
\* be booked on an empty calendar, at least one of them is.
SomeoneBooks ==
  (\A m \in Message : pc[m] = "done" /\ Bookable(m)) =>
    \E m \in Message : status[m] # "none"

-----------------------------------------------------------------------------
(* Action properties.                                                       *)

\* A lock leaves the hands of a handler only by a step of that handler or by
\* expiry, never because another handler released it.
OnlyTheOwnerReleases ==
  [][\A k \in Resource \X Time :
       lock[k] # None /\ lock'[k] # lock[k] =>
         pc' = pc \/ \E m \in Message : Token[m] = lock[k] /\ pc[m] # pc'[m]
                                        /\ k[1] \in {techLock[m], bayLock[m]}]_vars

\* Although two status requests can pass their checks on one appointment and
\* write one after the other, no work is completed that was never begun, and
\* no appointment goes back to waiting for its beginning or disappears.
NoStepSkipped ==
  [][\A m \in Message : status'[m] # status[m] =>
       /\ status[m] = "none" => status'[m] = "Scheduled"
       /\ status[m] = "Scheduled" => status'[m] \in {"InProgress", "Cancelled"}
       /\ status'[m] \in {"none", "Scheduled"} => status[m] = "none"]_vars

\* What "Validate state machine" promises: the status of a row only ever moves
\* along the transitions of the status machine.
StatusMachine ==
  [][\A m \in Message : status'[m] # status[m] =>
       IF status[m] = "none" THEN status'[m] = "Scheduled"
       ELSE status'[m] \in ValidTransitions(status[m])]_vars

-----------------------------------------------------------------------------
(* Liveness, under FairSpec.                                                *)

\* No request is searched for, or waits for locks, for ever.
EveryRequestEnds == \A m \in Message : <>(pc[m] \in Stopped)

\* All locks are free in the end, also those of handlers that died and those
\* whose key the search overwrote in its locals.
LocksDrain == <>[](\A k \in Resource \X Time : lock[k] = None)

-----------------------------------------------------------------------------
(* The abstract calendar: the row of a request shows its technician and its *)
(* bay from the insert on.                                                  *)

RowTech == [m \in Message |-> IF status[m] = "none" THEN None ELSE tech[m]]
RowBay == [m \in Message |-> IF status[m] = "none" THEN None ELSE bay[m]]

Cal == INSTANCE Calendar WITH state <- status, onTech <- RowTech, inBay <- RowBay

\* Every booking made by the interleaved handlers is one the atomic calendar
\* could have made at the moment of the insert.
ImplementsCalendar == Cal!Spec
=============================================================================
