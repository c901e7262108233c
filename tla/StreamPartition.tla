--------------------------- MODULE StreamPartition ---------------------------
(***************************************************************************)
(* How a booking request gets from the partition streams in Redis to       *)
(* AppointmentProcessor: the consumer group, the reading loop of each      *)
(* partition (StreamPartitionWorker), the bulkhead of each tenant          *)
(* (TenantBulkheadRouter), acknowledgement and dead-lettering, and the     *)
(* start, the graceful stop and the death of a worker process              *)
(* (PartitionedStreamHost).                                                *)
(*                                                                         *)
(* A Worker is one RUN of a worker process: each start draws a new         *)
(* consumer id, so a restarted process is another Worker.  What a process  *)
(* holds of a message is its stage there; everything but the stages, the   *)
(* semaphores and the loops lives in Redis and survives the process.       *)
(* ProcessAsync is one step here; AppointmentProcessor opens it up.        *)
(***************************************************************************)
EXTENDS Integers, FiniteSets

CONSTANTS
  Worker,         \* runs of worker processes
  Partition,      \* the streams appointments_stream_0, ..., _3
  Tenant,
  Message,        \* the entries the API adds to the streams
  None,
  PartitionOf,    \* [Message -> Partition]
  TenantOf,       \* [Message -> Tenant]
  Id,             \* [Message -> Nat]: the entry id, increasing in a stream
  Malformed,      \* entries without payload or tenant, or not JSON
  MaxConcurrent,  \* permits of a tenant's semaphore (5)
  Capacity,       \* capacity of a tenant's channel (50)
  ReadCount,      \* entries per read (10)
  Faults          \* the classes of failure an instance considers

FaultKinds ==
  {"redis",   \* a Redis command of a loop or a handler throws
   "db",      \* ProcessAsync meets an unreachable database
   "throw",   \* ProcessAsync, or the scope around it, throws
   "stop",    \* processes are stopped gracefully
   "crash"}   \* processes die

ASSUME StreamAssumption ==
  /\ None \notin Worker
  /\ PartitionOf \in [Message -> Partition]
  /\ TenantOf \in [Message -> Tenant]
  /\ Id \in [Message -> Nat \ {0}]
  /\ \A m, n \in Message : PartitionOf[m] = PartitionOf[n] /\ Id[m] = Id[n] => m = n
  /\ Malformed \subseteq Message
  /\ MaxConcurrent \in Nat \ {0}
  /\ Capacity \in Nat \ {0}
  /\ ReadCount \in Nat \ {0}
  /\ Faults \subseteq FaultKinds

VARIABLES
  sent,      \* messages whose XADD has been executed
  stream,    \* entries that are in their stream
  cursor,    \* last-delivered id of the group, -1 while it does not exist
  pel,       \* the consumer whose pending list has the entry, or None
  dlq,       \* entries copied to the dead-letter stream
  result,    \* what ProcessAsync did for the message
  host,      \* life of each worker process
  loop,      \* life of the loop of each worker and partition
  stage,     \* how far each worker is with each message
  permits    \* the semaphore of each tenant in each worker

redis == <<stream, cursor, pel, dlq>>
process == <<host, loop, stage, permits>>
vars == <<sent, redis, result, process>>

InBulkhead == {"channel", "inHand"}
Settling == {"ack", "del", "dlq", "dlqAck", "dlqDel"}
Running == {"work", "release"} \cup Settling
Stage == {"none", "left", "over", "lost"} \cup {"batch"} \cup InBulkhead \cup Running

At(w, m, s) == stage' = [stage EXCEPT ![w][m] = s]

\* The channel of a tenant, and the handlers its semaphore has let in.
Queued(w, t) == {m \in Message : TenantOf[m] = t /\ stage[w][m] = "channel"}
Admitted(w, t) == {m \in Message \ Malformed : TenantOf[m] = t /\ stage[w][m] \in Running}

\* Entries of the stream behind the cursor of the group.
Backlog(p) == {m \in stream : PartitionOf[m] = p /\ Id[m] > cursor[p]}

\* m is the oldest entry of its partition in S.
Oldest(S, m) == m \in S /\ \A n \in S : PartitionOf[n] = PartitionOf[m] => Id[m] <= Id[n]

Init ==
  /\ sent = {} /\ stream = {} /\ dlq = {}
  /\ cursor = [p \in Partition |-> -1]
  /\ pel = [m \in Message |-> None]
  /\ result = [m \in Message |-> "none"]
  /\ host = [w \in Worker |-> "off"]
  /\ loop = [w \in Worker |-> [p \in Partition |-> "off"]]
  /\ stage = [w \in Worker |-> [m \in Message |-> "none"]]
  /\ permits = [w \in Worker |-> [t \in Tenant |-> MaxConcurrent]]

\* XADD by the API: entry ids grow within a stream.
Publish(m) ==
  /\ m \notin sent
  /\ \A n \in Message \ sent : PartitionOf[n] = PartitionOf[m] => Id[m] <= Id[n]
  /\ sent' = sent \cup {m}
  /\ stream' = stream \cup {m}
  /\ UNCHANGED <<cursor, pel, dlq, result, process>>

-----------------------------------------------------------------------------
(* The life of a worker process.                                            *)

Start(w) ==
  /\ host[w] = "off"
  /\ host' = [host EXCEPT ![w] = "up"]
  /\ loop' = [loop EXCEPT ![w] = [p \in Partition |-> "create"]]
  /\ UNCHANGED <<sent, redis, result, stage, permits>>

\* StopAsync cancels the token; the loops look at it between two reads.
Stop(w) ==
  /\ "stop" \in Faults
  /\ host[w] = "up"
  /\ host' = [host EXCEPT ![w] = "stopping"]
  /\ UNCHANGED <<sent, redis, result, loop, stage, permits>>

\* Everything the process had in memory is gone.
Dies(w) ==
  /\ host' = [host EXCEPT ![w] = "down"]
  /\ stage' = [stage EXCEPT ![w] = [m \in Message |->
                 IF stage[w][m] \in {"none", "left", "over"} THEN stage[w][m] ELSE "lost"]]
  /\ UNCHANGED <<sent, redis, result, loop, permits>>

\* The host exits once StopAsync has seen all loops end.  Nobody waits for
\* the channels or the handlers.
Exit(w) ==
  /\ host[w] = "stopping"
  /\ \A p \in Partition : loop[w][p] \in {"ended", "failed"}
  /\ Dies(w)

Crash(w) ==
  /\ "crash" \in Faults
  /\ host[w] \in {"up", "stopping"}
  /\ Dies(w)

Alive(w) == host[w] \in {"up", "stopping"}

-----------------------------------------------------------------------------
(* The loop of a partition.                                                 *)

LoopTo(w, p, s) == loop' = [loop EXCEPT ![w][p] = s]

\* XGROUP CREATE from id 0; a group that exists is left as it is.
CreateGroup(w, p) ==
  /\ Alive(w) /\ loop[w][p] = "create"
  /\ cursor' = [cursor EXCEPT ![p] = IF @ = -1 THEN 0 ELSE @]
  /\ LoopTo(w, p, "run")
  /\ UNCHANGED <<sent, stream, pel, dlq, result, host, stage, permits>>

\* Any other error leaves RunAsync before its try block: this process never
\* reads the partition.
CreateGroupFails(w, p) ==
  /\ "redis" \in Faults
  /\ Alive(w) /\ loop[w][p] = "create"
  /\ LoopTo(w, p, "failed")
  /\ UNCHANGED <<sent, redis, result, host, stage, permits>>

\* The loop is between two reads: the batch is through.
Idle(w, p) ==
  /\ loop[w][p] = "run"
  /\ \A m \in Message : PartitionOf[m] = p =>
       /\ stage[w][m] # "batch"
       /\ m \in Malformed => stage[w][m] \notin Settling

\* The first ReadCount entries behind the cursor.
NextEntries(p) ==
  {m \in Backlog(p) : Cardinality({n \in Backlog(p) : Id[n] < Id[m]}) < ReadCount}

\* Deliberate fault: the group reads without moving its cursor.
WrongDelivered(w, p) ==
  /\ NextEntries(p) # {}
  /\ UNCHANGED cursor
  /\ pel' = [m \in Message |-> IF m \in NextEntries(p) THEN w ELSE pel[m]]

\* XREADGROUP puts the entries on the pending list of the consumer and moves
\* the cursor of the group past them.
Delivered(w, p) ==
  /\ \E last \in NextEntries(p) :
       /\ \A m \in NextEntries(p) : Id[m] <= Id[last]
       /\ cursor' = [cursor EXCEPT ![p] = Id[last]]
  /\ pel' = [m \in Message |-> IF m \in NextEntries(p) THEN w ELSE pel[m]]

Read(w, p) ==
  /\ host[w] = "up" /\ Idle(w, p)
  /\ Delivered(w, p)
  /\ stage' = [stage EXCEPT ![w] = [m \in Message |->
                 IF m \in NextEntries(p) THEN "batch" ELSE stage[w][m]]]
  /\ UNCHANGED <<sent, stream, dlq, result, host, loop, permits>>

\* The entries are on the pending list, but the reply never arrives.
ReadReplyLost(w, p) ==
  /\ "redis" \in Faults
  /\ host[w] = "up" /\ Idle(w, p)
  /\ Delivered(w, p)
  /\ UNCHANGED <<sent, stream, dlq, result, host, loop, stage, permits>>

\* The token is cancelled: the loop deletes its consumer, and with it the
\* pending list of the consumer.  A task that had not begun never does.
LoopEnds(w, p) ==
  /\ host[w] = "stopping"
  /\ \/ /\ Idle(w, p)
        /\ \/ pel' = [m \in Message |->
                       IF PartitionOf[m] = p /\ pel[m] = w THEN None ELSE pel[m]]
           \/ "redis" \in Faults /\ UNCHANGED pel
     \/ loop[w][p] = "create" /\ UNCHANGED pel
  /\ LoopTo(w, p, "ended")
  /\ UNCHANGED <<sent, stream, cursor, dlq, result, host, stage, permits>>

\* Deliberate fault: WriteAsync, which waits for room, instead of TryWrite.
WrongDispatch(w, m) ==
  /\ Alive(w)
  /\ Oldest({n \in Message : stage[w][n] = "batch"}, m)
  /\ Cardinality(Queued(w, TenantOf[m])) < Capacity
  /\ At(w, m, "channel")
  /\ UNCHANGED <<sent, redis, result, host, loop, permits>>

\* ProcessEntryAsync: the loop itself dead-letters what it cannot read, and
\* offers the rest to the channel of the tenant.  It never waits for room.
Dispatch(w, m) ==
  /\ Alive(w)
  /\ Oldest({n \in Message : stage[w][n] = "batch"}, m)
  /\ \A n \in Malformed : PartitionOf[n] = PartitionOf[m] => stage[w][n] \notin Settling
  /\ At(w, m, IF m \in Malformed THEN "dlq"
              ELSE IF Cardinality(Queued(w, TenantOf[m])) < Capacity THEN "channel"
              ELSE "left")
  /\ UNCHANGED <<sent, redis, result, host, loop, permits>>

-----------------------------------------------------------------------------
(* The bulkhead of a tenant: one drain task per worker and tenant.          *)

\* Deliberate fault: one drain task for the channels of all tenants.
WrongDrainTakes(w, m) ==
  /\ Alive(w)
  /\ Oldest(Queued(w, TenantOf[m]), m)
  /\ \A n \in Message : stage[w][n] # "inHand"
  /\ At(w, m, "inHand")
  /\ UNCHANGED <<sent, redis, result, host, loop, permits>>

\* The drain task takes the next handler from the channel, then waits for the
\* semaphore with the handler in its hand.
DrainTakes(w, m) ==
  /\ Alive(w)
  /\ Oldest(Queued(w, TenantOf[m]), m)
  /\ \A n \in Message : TenantOf[n] = TenantOf[m] => stage[w][n] # "inHand"
  /\ At(w, m, "inHand")
  /\ UNCHANGED <<sent, redis, result, host, loop, permits>>

\* Deliberate fault: the semaphore is not waited for.
WrongDrainStarts(w, m) ==
  /\ Alive(w)
  /\ stage[w][m] = "inHand"
  /\ permits' = [permits EXCEPT ![w][TenantOf[m]] = @ - 1]
  /\ At(w, m, "work")
  /\ UNCHANGED <<sent, redis, result, host, loop>>

DrainStarts(w, m) ==
  /\ Alive(w)
  /\ stage[w][m] = "inHand"
  /\ permits[w][TenantOf[m]] > 0
  /\ permits' = [permits EXCEPT ![w][TenantOf[m]] = @ - 1]
  /\ At(w, m, "work")
  /\ UNCHANGED <<sent, redis, result, host, loop>>

\* Deliberate fault: the semaphore is not released in a finally block, so a
\* handler that ended in the dead-letter stream keeps its permit.
WrongReleases(w, m) ==
  /\ Alive(w)
  /\ stage[w][m] = "release"
  /\ permits' = IF m \in dlq THEN permits ELSE [permits EXCEPT ![w][TenantOf[m]] = @ + 1]
  /\ At(w, m, "over")
  /\ UNCHANGED <<sent, redis, result, host, loop>>

Releases(w, m) ==
  /\ Alive(w)
  /\ stage[w][m] = "release"
  /\ permits' = [permits EXCEPT ![w][TenantOf[m]] = @ + 1]
  /\ At(w, m, "over")
  /\ UNCHANGED <<sent, redis, result, host, loop>>

-----------------------------------------------------------------------------
(* The handler of a message.                                                *)

\* Where a settled message leaves the worker: a handler gives its permit
\* back, the loop goes on to its next entry.
Ended(m) == IF m \in Malformed THEN "over" ELSE "release"

\* ProcessAsync swallows what goes wrong inside it: a refusal and an
\* unreachable database return like a booking.
Work(w, m) ==
  /\ Alive(w)
  /\ stage[w][m] = "work"
  /\ \E r \in {"booked", "refused"} \cup (IF "db" \in Faults THEN {"failed"} ELSE {}) :
       result' = [result EXCEPT ![m] = r]
  /\ At(w, m, "ack")
  /\ UNCHANGED <<sent, redis, host, loop, permits>>

\* The scope cannot be created, or a release in the finally block throws.
WorkThrows(w, m) ==
  /\ "throw" \in Faults
  /\ Alive(w)
  /\ stage[w][m] = "work"
  /\ \E r \in {result[m], "booked", "refused"} : result' = [result EXCEPT ![m] = r]
  /\ At(w, m, "dlq")
  /\ UNCHANGED <<sent, redis, host, loop, permits>>

\* XACK, then XDEL.
Ack(w, m) ==
  /\ Alive(w)
  /\ \/ stage[w][m] = "ack" /\ At(w, m, "del")
     \/ stage[w][m] = "dlqAck" /\ At(w, m, "dlqDel")
  /\ pel' = [pel EXCEPT ![m] = None]
  /\ UNCHANGED <<sent, stream, cursor, dlq, result, host, loop, permits>>

Del(w, m) ==
  /\ Alive(w)
  /\ stage[w][m] \in {"del", "dlqDel"}
  /\ stream' = stream \ {m}
  /\ At(w, m, Ended(m))
  /\ UNCHANGED <<sent, cursor, pel, dlq, result, host, loop, permits>>

\* Deliberate fault: the message is acknowledged before it is copied, so a
\* copy that fails loses it.
WrongToDlq(w, m) ==
  /\ Alive(w)
  /\ stage[w][m] = "dlq"
  /\ pel' = [pel EXCEPT ![m] = None]
  /\ At(w, m, "dlqAck")
  /\ UNCHANGED <<sent, stream, cursor, dlq, result, host, loop, permits>>

\* The copy to the dead-letter stream comes first.
ToDlq(w, m) ==
  /\ Alive(w)
  /\ stage[w][m] = "dlq"
  /\ dlq' = dlq \cup {m}
  /\ At(w, m, "dlqAck")
  /\ UNCHANGED <<sent, stream, cursor, pel, result, host, loop, permits>>

\* A command of the handler throws, with or without having been executed.
\* An acknowledgement or deletion that fails after ProcessAsync returned
\* sends the message to the dead-letter stream; a failure on the way there
\* is logged, and the message stays as it is.
SettlingThrows(w, m) ==
  /\ "redis" \in Faults
  /\ Alive(w)
  /\ stage[w][m] \in Settling
  /\ \/ UNCHANGED redis
     \/ /\ stage[w][m] \in {"ack", "dlqAck"}
        /\ pel' = [pel EXCEPT ![m] = None]
        /\ UNCHANGED <<stream, cursor, dlq>>
     \/ /\ stage[w][m] \in {"del", "dlqDel"}
        /\ stream' = stream \ {m}
        /\ UNCHANGED <<cursor, pel, dlq>>
     \/ /\ stage[w][m] = "dlq"
        /\ dlq' = dlq \cup {m}
        /\ UNCHANGED <<stream, cursor, pel>>
  /\ At(w, m, IF stage[w][m] \in {"ack", "del"} THEN "dlq" ELSE Ended(m))
  /\ UNCHANGED <<sent, result, host, loop, permits>>

-----------------------------------------------------------------------------
Handle(w, m) ==
  \/ Dispatch(w, m)
  \/ DrainTakes(w, m) \/ DrainStarts(w, m) \/ Releases(w, m)
  \/ Ack(w, m) \/ Del(w, m) \/ ToDlq(w, m)

Loop(w, p) == CreateGroup(w, p) \/ Read(w, p) \/ LoopEnds(w, p)

Next ==
  \/ \E m \in Message : Publish(m)
  \/ \E w \in Worker : Start(w) \/ Stop(w) \/ Exit(w) \/ Crash(w)
  \/ \E w \in Worker, p \in Partition :
       Loop(w, p) \/ CreateGroupFails(w, p) \/ ReadReplyLost(w, p)
  \/ \E w \in Worker, m \in Message :
       Handle(w, m) \/ Work(w, m) \/ WorkThrows(w, m) \/ SettlingThrows(w, m)

Spec == Init /\ [][Next]_vars

\* Every worker is started, its loops and drain tasks are scheduled and the
\* Redis commands of its handlers answer; ProcessAsync may take for ever.
Scheduling ==
  /\ \A w \in Worker : WF_vars(Start(w)) /\ WF_vars(Exit(w))
  /\ \A w \in Worker, p \in Partition : WF_vars(Loop(w, p))
  /\ \A w \in Worker, m \in Message : WF_vars(Handle(w, m))

\* ... and for tenant t it returns or throws (EveryRequestEnds of
\* AppointmentProcessor).
HandlersReturn(t) ==
  \A w \in Worker, m \in Message :
    TenantOf[m] = t => WF_vars(Work(w, m) \/ WorkThrows(w, m))

ReaderSpec == Spec /\ Scheduling
FairSpec == ReaderSpec /\ \A t \in Tenant : HandlersReturn(t)

-----------------------------------------------------------------------------
(* Invariants.                                                              *)

\* Every variable stays in its range.
TypeOK ==
  /\ sent \subseteq Message /\ stream \subseteq sent /\ dlq \subseteq sent
  /\ cursor \in [Partition -> {-1, 0} \cup {Id[m] : m \in Message}]
  /\ pel \in [Message -> Worker \cup {None}]
  /\ result \in [Message -> {"none", "booked", "refused", "failed"}]
  /\ host \in [Worker -> {"off", "up", "stopping", "down"}]
  /\ loop \in [Worker -> [Partition -> {"off", "create", "run", "failed", "ended"}]]
  /\ stage \in [Worker -> [Message -> Stage]]
  /\ permits \in [Worker -> [Tenant -> 0..MaxConcurrent]]

\* No two workers ever touch the same message, so that a booking request has
\* one handler only.
OneHandler ==
  \A m \in Message, v, w \in Worker :
    stage[v][m] # "none" /\ stage[w][m] # "none" => v = w

\* A request that was sent has been processed or dead-lettered, or Redis still
\* has it: ahead of the cursor, or on the pending list of a consumer.
StillOwed ==
  \A m \in sent :
    \/ result[m] # "none" \/ m \in dlq
    \/ m \in stream /\ (Id[m] > cursor[PartitionOf[m]] \/ pel[m] # None)

\* The semaphore counts: the permits of a tenant and its running handlers add
\* up to the cap, whatever way the handlers ended.
PermitsAddUp ==
  \A w \in Worker, t \in Tenant : Alive(w) =>
    permits[w][t] + Cardinality(Admitted(w, t)) = MaxConcurrent

\* A tenant has no more handlers in a worker than its semaphore and its
\* channel have room for, and one more that the drain task holds while it
\* waits for the semaphore.
BulkheadBound ==
  \A w \in Worker, t \in Tenant :
    Cardinality({m \in Message \ Malformed :
                   TenantOf[m] = t /\ stage[w][m] \in InBulkhead \cup Running})
      <= MaxConcurrent + Capacity + 1

\* A request that was settled without a booking is in the dead-letter stream.
RefusedIsDeadLettered ==
  \A w \in Worker, m \in Message :
    stage[w][m] = "over" /\ result[m] # "booked" => m \in dlq

-----------------------------------------------------------------------------
(* Refinement: the queue the streams implement.  A request waits while its  *)
(* entry is behind the cursor, and is pending while its entry exists and is *)
(* on the list of a consumer.                                               *)

Ahead == {x \in Message \X Message :
              PartitionOf[x[1]] = PartitionOf[x[2]] /\ Id[x[1]] < Id[x[2]]}

Waiting == {m \in stream : Id[m] > cursor[PartitionOf[m]]}
Pending == {m \in stream : pel[m] # None}

Queue == INSTANCE RequestQueue WITH
  Before <- Ahead, Outcome <- {"booked", "refused", "failed"},
  MayForget <- "stop" \in Faults,
  posted <- sent, taken <- sent \ Waiting, pending <- Pending,
  outcome <- result, dead <- dlq

\* Entries are given out in the order of their stream and once only, a request
\* is processed at most once and never after it was dead-lettered, and no entry
\* is settled before one of the two has happened.
ImplementsQueue == Queue!Spec

-----------------------------------------------------------------------------
(* Liveness.                                                                *)

\* A saturated tenant does not stop a loop: every entry that is sent is read
\* and dispatched while a worker is up, also when the channel is full and no
\* handler ever returns.
ReadersNeverBlock ==
  \A m \in Message :
    m \in sent ~> \/ \E w \in Worker : stage[w][m] \notin {"none", "batch"}
                  \/ \A w \in Worker : host[w] # "up"

\* Tenants are isolated: as long as the handlers of one tenant return, an entry
\* in its channel is dead-lettered or processed, acknowledged and deleted, and
\* its permit comes back, unless the process ends; the handlers of the other
\* tenants may hang for ever.
TenantsAreIsolated ==
  \A t \in Tenant :
    HandlersReturn(t) =>
      \A w \in Worker, m \in Message : TenantOf[m] = t =>
        (stage[w][m] = "channel" ~> stage[w][m] = "over" \/ host[w] = "down")

\* What is pending is retried: an entry leaves the pending lists in the end,
\* also when it found its channel full or its consumer is gone.
PendingIsServed == \A m \in Message : pel[m] # None ~> pel[m] = None
=============================================================================
