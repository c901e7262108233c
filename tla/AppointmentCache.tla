-------------------------- MODULE AppointmentCache --------------------------
(***************************************************************************)
(* What Redis shows of ONE appointment, and who writes it: the API when a  *)
(* booking is requested, the worker when it has been decided, the status   *)
(* endpoints of the API, and detail queries that fill the cache on a miss. *)
(* The keys are the appointment hash, the set of active appointments and   *)
(* the occupancy sets; two appointments share none of them but sets, of    *)
(* which each touches its own member.                                      *)
(*                                                                         *)
(* The hash has two layouts under one key: the fields of the row, written  *)
(* by create and by the worker, and the fields of a detail (appointment,   *)
(* user, vehicle, ...) written by the detail query.  Of either, the status *)
(* is kept here.                                                           *)
(*                                                                         *)
(* The variable accidents is auxiliary: it records the races lost and the  *)
(* failures met so far, so that an invariant can say which of them may     *)
(* break which agreement, and that the others do not.                      *)
(***************************************************************************)
EXTENDS Naturals, FiniteSets

CONSTANTS
  Editor,   \* status requests that can be in flight at once
  Reader,   \* detail queries that can be in flight at once
  Faults,   \* the classes of failure an instance considers
  MaxAccidents  \* bound on the kinds of accident in one behaviour

ASSUME CacheAssumption ==
  /\ MaxAccidents \in Nat
  /\ Faults \subseteq {"redis",   \* a Redis command throws
                       "commit",  \* the reply to an insert or update is lost
                       "crash"}   \* the process of an actor dies

VARIABLES
  row,      \* status of the row, "none" while there is none
  flat,     \* field status of the hash, "none" if absent
  detail,   \* status in the detail fields of the hash, "none" if absent
  ttl,      \* the hash expires
  listed,   \* the id is in the active set
  slots,    \* where the occupancy of the appointment is recorded
  api,      \* where the booking request is
  worker,   \* where the worker is
  editing,  \* where each status request is
  intent,   \* the status it wants to write
  reading,  \* where each detail query is, or the status it has fetched
  accidents     \* the accidents so far

hash == <<flat, detail, ttl>>
cache == <<hash, listed, slots>>
actors == <<api, worker, editing, intent, reading>>
vars == <<row, cache, actors, accidents>>

RowStatus == {"Scheduled", "InProgress", "Completed", "Cancelled"}
Closed == {"Completed", "Cancelled"}
Slot == {"tech", "bay", "slot"}

Present == flat # "none" \/ detail # "none"

Init ==
  /\ row = "none" /\ flat = "none" /\ detail = "none" /\ ttl = FALSE
  /\ listed = FALSE /\ slots = {}
  /\ api = "publish" /\ worker = "waiting"
  /\ editing = [e \in Editor |-> "idle"]
  /\ intent = [e \in Editor |-> "none"]
  /\ reading = [r \in Reader |-> "idle"]
  /\ accidents = {}

Happened(S) ==
  /\ accidents' = accidents \cup S
  /\ Cardinality(accidents') <= MaxAccidents

-----------------------------------------------------------------------------
(* The Redis commands.                                                      *)

\* HSET of the row's fields; an expiry that the key has stays.
SetStatus(s) == flat' = s /\ UNCHANGED <<detail, ttl, listed, slots>>

\* EXPIRE, which follows some HSETs in the same batch, but not atomically.
\* It does nothing to a key that is gone by then.
SetExpiry == ttl' = Present /\ UNCHANGED <<flat, detail, listed, slots>>

DelHash ==
  /\ flat' = "none" /\ detail' = "none" /\ ttl' = FALSE
  /\ UNCHANGED <<listed, slots>>

List(b) == listed' = b /\ UNCHANGED <<hash, slots>>

Occupy(s) == slots' = slots \cup {s} /\ UNCHANGED <<hash, listed>>

Vacate(s) == slots' = slots \ {s} /\ UNCHANGED <<hash, listed>>

\* Redis drops the key after its hour, or its six.
Expire ==
  /\ ttl
  /\ DelHash
  /\ UNCHANGED <<row, actors, accidents>>

-----------------------------------------------------------------------------
(* The booking request: publish, then HSET Pending, then SADD.              *)

ApiAfter == [publish |-> "hash", hash |-> "active", active |-> "done"]

ApiCommand ==
  \/ api = "publish" /\ UNCHANGED cache
  \/ api = "hash" /\ SetStatus("Pending")
  \/ api = "active" /\ List(TRUE)

\* The message is out before the hash is written: the worker may be first.
Overtaken == IF worker \in {"waiting", "insert"} THEN {} ELSE {"overtaken"}

Create ==
  /\ api # "done"
  /\ ApiCommand
  /\ api' = ApiAfter[api]
  /\ Happened(Overtaken)
  /\ UNCHANGED <<row, worker, editing, intent, reading>>

\* A command throws, or the process dies; the customer sees an error.
CreateThrows ==
  /\ Faults \cap {"redis", "crash"} # {}
  /\ api # "done"
  /\ ApiCommand \/ UNCHANGED cache
  /\ api' = "done"
  /\ Happened(Overtaken \cup {"createFault"})
  /\ UNCHANGED <<row, worker, editing, intent, reading>>

-----------------------------------------------------------------------------
(* The worker: the decision, then what it publishes of it.                  *)

WorkerAfter ==
  [hash |-> "active", active |-> "tech", tech |-> "bay", bay |-> "slot",
   slot |-> "ack", ack |-> "done",
   failHash |-> "failTtl", failTtl |-> "failActive", failActive |-> "done"]

WorkerCommand ==
  \/ worker = "hash" /\ SetStatus("Scheduled")
  \/ worker \in {"active", "failActive"} /\ List(TRUE)
  \/ worker \in Slot /\ Occupy(worker)
  \/ worker = "ack" /\ UNCHANGED cache
  \/ worker = "failHash" /\ SetStatus("Failed")
  \/ worker = "failTtl" /\ SetExpiry

\* The message was published, with or without the API knowing it.
Receive ==
  /\ worker = "waiting"
  /\ api # "publish"
  /\ worker' = "insert"
  /\ UNCHANGED <<row, cache, api, editing, intent, reading, accidents>>

\* Deliberate fault: the outcome is published before the row is inserted.
WrongDecide ==
  /\ worker = "insert"
  /\ UNCHANGED row
  /\ worker' \in {"hash", "failHash"}
  /\ UNCHANGED <<cache, api, editing, intent, reading, accidents>>

\* The row is inserted, or the request is refused.
Decide ==
  /\ worker = "insert"
  /\ \/ row' = "Scheduled" /\ worker' = "hash"
     \/ row' = row /\ worker' = "failHash"
  /\ UNCHANGED <<cache, api, editing, intent, reading, accidents>>

\* The insert was executed, but to the worker it failed.
CommitReplyLost ==
  /\ "commit" \in Faults
  /\ worker = "insert"
  /\ row' = "Scheduled"
  /\ worker' = "failHash"
  /\ Happened({"workerFault"})
  /\ UNCHANGED <<cache, api, editing, intent, reading>>

Publish ==
  /\ worker \in DOMAIN WorkerAfter
  /\ WorkerCommand
  /\ worker' = WorkerAfter[worker]
  /\ UNCHANGED <<row, api, editing, intent, reading, accidents>>

\* A command that throws inside the try block leads to the catch block, also
\* after the commit; the catch block swallows its own.
PublishThrows ==
  /\ "redis" \in Faults
  /\ worker \in DOMAIN WorkerAfter
  /\ WorkerCommand \/ UNCHANGED cache
  /\ worker' = IF worker \in {"failHash", "failTtl", "failActive"} THEN "done" ELSE "failHash"
  /\ Happened({"workerFault"})
  /\ UNCHANGED <<row, api, editing, intent, reading>>

WorkerDies ==
  /\ "crash" \in Faults
  /\ worker \in DOMAIN WorkerAfter \cup {"insert"}
  /\ worker' = "done"
  /\ Happened({"workerFault"})
  /\ UNCHANGED <<row, cache, api, editing, intent, reading>>

-----------------------------------------------------------------------------
(* The status endpoints, over the cached repository: an UPDATE invalidates  *)
(* the hash, and what is over is taken out of the sets.                     *)

\* Deliberate fault: what is over stays in the active set.
WrongEditAfter ==
  [invalidate |-> "tech", active |-> "tech", tech |-> "bay", bay |-> "slot",
   slot |-> "hash", hash |-> "idle"]

EditAfter ==
  [invalidate |-> "active", active |-> "tech", tech |-> "bay", bay |-> "slot",
   slot |-> "hash", hash |-> "idle"]

ValidTransitions(s) ==
  IF s = "Scheduled" THEN {"InProgress", "Cancelled"}
  ELSE IF s = "InProgress" THEN {"Completed", "Cancelled"} ELSE {}

\* findById and the check; cancel takes whatever is not completed.
EditReads(e) ==
  /\ editing[e] = "idle"
  /\ \E s \in RowStatus :
       /\ \/ s \in ValidTransitions(row)
          \/ s = "Cancelled" /\ row \in RowStatus \ {"Completed"}
       /\ intent' = [intent EXCEPT ![e] = s]
  /\ editing' = [editing EXCEPT ![e] = "write"]
  /\ Happened((IF worker = "done" THEN {} ELSE {"early"})
              \cup (IF \A d \in Editor : editing[d] = "idle" THEN {} ELSE {"crossed"}))
  /\ UNCHANGED <<row, cache, api, worker, reading>>

EditWrites(e) ==
  /\ editing[e] = "write"
  /\ row' = intent[e]
  /\ editing' = [editing EXCEPT ![e] = "invalidate"]
  /\ UNCHANGED <<cache, api, worker, intent, reading, accidents>>

\* The UPDATE throws, executed or not; what should follow it does not.
EditLosesReply(e) ==
  /\ "commit" \in Faults
  /\ editing[e] = "write"
  /\ row' \in {row, intent[e]}
  /\ editing' = [editing EXCEPT ![e] = "idle"]
  /\ intent' = [intent EXCEPT ![e] = "none"]
  /\ Happened({"editFault"})
  /\ UNCHANGED <<cache, api, worker, reading>>

\* Deliberate fault: the bay is not given back.
WrongEditCommand(e) ==
  \/ editing[e] \in {"invalidate", "hash"} /\ DelHash
  \/ editing[e] = "active" /\ List(FALSE)
  \/ editing[e] \in Slot \ {"bay"} /\ Vacate(editing[e])
  \/ editing[e] = "bay" /\ UNCHANGED cache

\* Deliberate fault: the UPDATE does not invalidate the hash.
WrongInvalidation(e) ==
  \/ editing[e] = "invalidate" /\ UNCHANGED cache
  \/ editing[e] = "hash" /\ DelHash
  \/ editing[e] = "active" /\ List(FALSE)
  \/ editing[e] \in Slot /\ Vacate(editing[e])

EditCommand(e) ==
  \/ editing[e] \in {"invalidate", "hash"} /\ DelHash
  \/ editing[e] = "active" /\ List(FALSE)
  \/ editing[e] \in Slot /\ Vacate(editing[e])

Finish(e) == intent' = [intent EXCEPT ![e] = "none"]

EditCleans(e) ==
  /\ editing[e] \in DOMAIN EditAfter
  /\ EditCommand(e)
  /\ \/ /\ editing[e] = "hash" \/ intent[e] \notin Closed
        /\ editing' = [editing EXCEPT ![e] = "idle"]
        /\ Finish(e)
     \/ /\ editing[e] # "hash" /\ intent[e] \in Closed
        /\ editing' = [editing EXCEPT ![e] = EditAfter[editing[e]]]
        /\ UNCHANGED intent
  /\ UNCHANGED <<row, api, worker, reading, accidents>>

\* The request ends where it is, its last command executed or not.
EditThrows(e) ==
  /\ Faults \cap {"redis", "crash"} # {}
  /\ editing[e] \in DOMAIN EditAfter
  /\ EditCommand(e) \/ UNCHANGED cache
  /\ editing' = [editing EXCEPT ![e] = "idle"]
  /\ Finish(e)
  /\ Happened({"editFault"})
  /\ UNCHANGED <<row, api, worker, reading>>

-----------------------------------------------------------------------------
(* The detail query: HGETALL, and on a miss a SELECT and an HSET.  A hash   *)
(* without detail fields is a hit that cannot be parsed.                    *)

ReadTo(r, s) == reading' = [reading EXCEPT ![r] = s]

Miss(r) ==
  /\ reading[r] = "idle"
  /\ ~Present
  /\ ReadTo(r, "missed")
  /\ UNCHANGED <<row, cache, api, worker, editing, intent, accidents>>

\* Deliberate fault: a row that is not there is cached.
WrongFetch(r) ==
  /\ reading[r] = "missed"
  /\ ReadTo(r, row)
  /\ UNCHANGED <<row, cache, api, worker, editing, intent, accidents>>

\* Without a row the query ends and caches nothing.
Fetch(r) ==
  /\ reading[r] = "missed"
  /\ ReadTo(r, IF row = "none" THEN "idle" ELSE row)
  /\ UNCHANGED <<row, cache, api, worker, editing, intent, accidents>>

\* Deliberate fault: what is over is cached without an expiry.
WrongFill(r) ==
  /\ reading[r] \in RowStatus
  /\ detail' = reading[r]
  /\ ReadTo(r, "idle")
  /\ Happened(IF reading[r] = row THEN {} ELSE {"lateFill"})
  /\ UNCHANGED <<row, flat, ttl, listed, slots, api, worker, editing, intent>>

\* What is over gets an expiry; of the rest, a key keeps what it has.
Fill(r) ==
  /\ reading[r] \in RowStatus
  /\ detail' = reading[r]
  /\ ReadTo(r, IF reading[r] \in Closed THEN "expire" ELSE "idle")
  /\ Happened(IF reading[r] = row THEN {} ELSE {"lateFill"})
  /\ UNCHANGED <<row, flat, ttl, listed, slots, api, worker, editing, intent>>

FillExpires(r) ==
  /\ reading[r] = "expire"
  /\ SetExpiry
  /\ ReadTo(r, "idle")
  /\ UNCHANGED <<row, api, worker, editing, intent, accidents>>

\* The query fails with what it has fetched.
ReadThrows(r) ==
  /\ Faults \cap {"redis", "crash"} # {}
  /\ reading[r] # "idle"
  /\ ReadTo(r, "idle")
  /\ Happened(IF reading[r] = "expire" THEN {"readFault"} ELSE {})
  /\ UNCHANGED <<row, cache, api, worker, editing, intent>>

-----------------------------------------------------------------------------
Next ==
  \/ Create \/ CreateThrows
  \/ Receive \/ Decide \/ CommitReplyLost \/ Publish \/ PublishThrows \/ WorkerDies
  \/ \E e \in Editor : EditReads(e) \/ EditWrites(e) \/ EditLosesReply(e) \/ EditCleans(e) \/ EditThrows(e)
  \/ \E r \in Reader : Miss(r) \/ Fetch(r) \/ Fill(r) \/ FillExpires(r) \/ ReadThrows(r)
  \/ Expire

Spec == Init /\ [][Next]_vars

-----------------------------------------------------------------------------
(* Invariants.                                                              *)

Accident ==
  {"overtaken", "early", "crossed", "lateFill",
   "createFault", "workerFault", "editFault", "readFault"}

\* Every variable stays in its range.
TypeOK ==
  /\ row \in RowStatus \cup {"none"}
  /\ flat \in {"none", "Pending", "Scheduled", "Failed"}
  /\ detail \in RowStatus \cup {"none"}
  /\ ttl \in BOOLEAN /\ listed \in BOOLEAN /\ slots \subseteq Slot
  /\ api \in {"publish", "hash", "active", "done"}
  /\ worker \in DOMAIN WorkerAfter \cup {"waiting", "insert", "done"}
  /\ editing \in [Editor -> DOMAIN EditAfter \cup {"idle", "write"}]
  /\ intent \in [Editor -> RowStatus \cup {"none"}]
  /\ reading \in [Reader -> RowStatus \cup {"idle", "missed", "expire"}]
  /\ accidents \subseteq Accident

\* No writer is on its way.
Settled == api = "done" /\ worker = "done" /\ \A e \in Editor : editing[e] = "idle"

Without(S) == \A a \in S : a \notin accidents

\* Only what is committed is published: there is a row from the first moment
\* at which the hash says Scheduled, a slot is occupied or a detail is cached,
\* whatever fails and whoever is late.
PublishedIsCommitted ==
  flat = "Scheduled" \/ slots # {} \/ detail # "none" => row # "none"

\* The occupied slots of technician and bay show exactly the appointments that
\* occupy them, unless a status request came before the worker was through,
\* two status requests crossed, or the worker or a status request failed.  A
\* booking request that fails or is overtaken by the worker, and detail
\* queries that fail or are late, do no harm to them.
OccupancyFollowsRow ==
  Settled /\ Without({"early", "crossed", "workerFault", "editFault"}) =>
    slots = IF row \in {"Scheduled", "InProgress"} THEN Slot ELSE {}

\* The status in the hash is the one the worker decided on until the first
\* change of status deletes it, unless the request was overtaken, a status
\* request came early, or the worker or a status request failed.  Status
\* requests that cross, and all that detail queries do, do no harm to it.
HashFollowsRow ==
  Settled /\ Without({"overtaken", "early", "workerFault", "editFault"}) =>
    flat \in (IF row = "none" THEN {"Failed", "none"}
              ELSE IF row = "Scheduled" THEN {"Scheduled"} ELSE {"none"})

\* The active set holds the appointments that are not over, also those that
\* failed, with the same exceptions and when no two status requests cross.
ActiveSetFollowsRow ==
  Settled /\ Without({"overtaken", "early", "crossed", "workerFault", "editFault"}) =>
    (listed <=> row \notin Closed)

\* A cached detail is that of the row at any moment but between an UPDATE and
\* its invalidation, unless a fill came late or a status request failed.
DetailFollowsRow ==
  (\A e \in Editor : editing[e] # "invalidate") /\ Without({"lateFill", "editFault"}) =>
    detail \in {"none", row}

\* A hash that says Failed, and the detail of what is over, does not stay for
\* ever: once the EXPIRE of its batch is through it has an expiry, however the
\* other actors delete, refill and overwrite the key between the two commands.
OverExpires ==
  /\ worker # "failTtl"
  /\ \A r \in Reader : reading[r] # "expire"
  /\ Without({"workerFault", "readFault"})
  /\ flat = "Failed" \/ detail \in Closed
  => ttl
=============================================================================
