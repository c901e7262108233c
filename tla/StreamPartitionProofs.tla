------------------------ MODULE StreamPartitionProofs ------------------------
(***************************************************************************)
(* Theorems about StreamPartition, for any number of worker processes,     *)
(* partitions, tenants and messages, and for any limits; the last part is  *)
(* the refinement of RequestQueue.                                         *)
(***************************************************************************)
EXTENDS StreamPartition, FiniteSetTheorems, TLAPS

(***************************************************************************)
(* The steps: publishing, the life of a process, a loop, and a handler.    *)
(***************************************************************************)
LifeStep(w) == Start(w) \/ Stop(w) \/ Exit(w) \/ Crash(w)
ReadStep(w, p) == Read(w, p) \/ ReadReplyLost(w, p)
LoopStep(w, p) == CreateGroup(w, p) \/ CreateGroupFails(w, p) \/ LoopEnds(w, p)
BulkheadStep(w, m) == Dispatch(w, m) \/ DrainTakes(w, m) \/ DrainStarts(w, m) \/ Releases(w, m)
WorkStep(w, m) == Work(w, m) \/ WorkThrows(w, m)
SettleStep(w, m) == Ack(w, m) \/ Del(w, m) \/ ToDlq(w, m) \/ SettlingThrows(w, m)

LEMMA NextCases ==
  ASSUME [Next]_vars
  PROVE  \/ \E m \in Message : Publish(m)
         \/ \E w \in Worker : LifeStep(w)
         \/ \E w \in Worker, p \in Partition : ReadStep(w, p)
         \/ \E w \in Worker, p \in Partition : LoopStep(w, p)
         \/ \E w \in Worker, m \in Message : BulkheadStep(w, m)
         \/ \E w \in Worker, m \in Message : WorkStep(w, m)
         \/ \E w \in Worker, m \in Message : SettleStep(w, m)
         \/ UNCHANGED vars
  BY DEF Next, LifeStep, ReadStep, LoopStep, BulkheadStep, WorkStep, SettleStep, Handle, Loop

(***************************************************************************)
(* The strengthening.                                                      *)
(***************************************************************************)

\* Entry ids are published in order, the cursor is at an entry, and what a
\* worker has is behind the cursor.
Ordered ==
  /\ IsFiniteSet(sent)
  /\ \A m \in sent, n \in Message \ sent : PartitionOf[m] = PartitionOf[n] => Id[m] < Id[n]
  /\ \A p \in Partition :
       cursor[p] \in {-1, 0} \/ \E m \in sent : PartitionOf[m] = p /\ Id[m] = cursor[p]
  /\ \A w \in Worker, m \in Message :
       stage[w][m] # "none" => m \in sent /\ Id[m] <= cursor[PartitionOf[m]]

\* A process that is not alive holds nothing, and entries that cannot be read
\* never reach a bulkhead.
Placed ==
  \A w \in Worker, m \in Message :
    /\ ~Alive(w) => stage[w][m] \in {"none", "left", "over", "lost"}
    /\ host[w] = "off" => stage[w][m] = "none"
    /\ stage[w][m] \in InBulkhead \cup {"work", "ack", "del", "release"} => m \notin Malformed

\* Settling follows what it settles.
Settled ==
  \A w \in Worker, m \in Message :
    /\ stage[w][m] \in {"ack", "del"} => result[m] # "none"
    /\ stage[w][m] \in {"dlqAck", "dlqDel"} => m \in dlq

\* A process that has not started has all its permits, a channel is never
\* overfull, and the drain task has one handler in its hand.
Balanced ==
  \A w \in Worker, t \in Tenant :
    /\ host[w] = "off" => permits[w][t] = MaxConcurrent
    /\ Cardinality(Queued(w, t)) <= Capacity
    /\ \A m, n \in Message :
         /\ TenantOf[m] = t /\ TenantOf[n] = t
         /\ stage[w][m] = "inHand" /\ stage[w][n] = "inHand"
         => m = n

IInv == TypeOK /\ Ordered /\ OneHandler /\ Placed /\ Settled /\ Balanced /\ PermitsAddUp

(***************************************************************************)
(* Type correctness.                                                       *)
(***************************************************************************)
LEMMA InitInv == Init => IInv
<1> SUFFICES ASSUME Init PROVE IInv
  OBVIOUS
<1>1. TypeOK /\ Ordered /\ OneHandler /\ Placed /\ Settled /\ PermitsAddUp
  BY StreamAssumption, FS_EmptySet
     DEF Init, TypeOK, Ordered, OneHandler, Placed, Settled, PermitsAddUp, Stage, InBulkhead, Alive
<1>2. \A w \in Worker, t \in Tenant : Queued(w, t) = {}
  BY DEF Init, Queued
<1>3. Cardinality({}) <= Capacity
  BY StreamAssumption, FS_EmptySet
<1>4. \A w \in Worker, t \in Tenant : Cardinality(Queued(w, t)) <= Capacity
  BY <1>2, <1>3
<1>5. Balanced
  BY <1>4 DEF Init, Balanced
<1> QED
  BY <1>1, <1>5 DEF IInv

LEMMA AtMoves ==
  ASSUME stage \in [Worker -> [Message -> Stage]],
         NEW w \in Worker, NEW m \in Message, NEW s \in Stage, At(w, m, s)
  PROVE  /\ stage' \in [Worker -> [Message -> Stage]]
         /\ stage'[w][m] = s
         /\ \A v \in Worker, n \in Message : v # w \/ n # m => stage'[v][n] = stage[v][n]
<1>1. stage' = [stage EXCEPT ![w] = [stage[w] EXCEPT ![m] = s]]
  BY DEF At
<1>2. stage[w] \in [Message -> Stage]
  OBVIOUS
<1>3. [stage[w] EXCEPT ![m] = s] \in [Message -> Stage]
  BY <1>2
<1> QED
  BY <1>1, <1>2, <1>3

\* A handler moves one message, in a live process, from one stage to another.
LEMMA HandlerMoves ==
  ASSUME TypeOK, Placed, NEW w \in Worker, NEW m \in Message,
         BulkheadStep(w, m) \/ WorkStep(w, m) \/ SettleStep(w, m)
  PROVE  /\ Alive(w) /\ stage[w][m] # "none"
         /\ stage' \in [Worker -> [Message -> Stage]]
         /\ stage'[w][m] # "none"
         /\ \A v \in Worker, n \in Message : v # w \/ n # m => stage'[v][n] = stage[v][n]
         /\ UNCHANGED <<sent, cursor, host, loop>>
<1>1. Alive(w) /\ stage[w][m] # "none"
  <2>1. CASE BulkheadStep(w, m)
    BY <2>1 DEF BulkheadStep, Dispatch, DrainTakes, DrainStarts, Releases, Oldest, Queued
  <2>2. CASE WorkStep(w, m)
    BY <2>2 DEF WorkStep, Work, WorkThrows
  <2>3. CASE SettleStep(w, m)
    BY <2>3 DEF SettleStep, Ack, Del, ToDlq, SettlingThrows, Settling
  <2> QED
    BY <2>1, <2>2, <2>3
<1>2. \E s \in Stage \ {"none"} : At(w, m, s)
  <2> USE DEF Stage, InBulkhead, Running, Settling
  <2>1. CASE BulkheadStep(w, m)
    BY <2>1 DEF BulkheadStep, Dispatch, DrainTakes, DrainStarts, Releases
  <2>2. CASE WorkStep(w, m)
    BY <2>2 DEF WorkStep, Work, WorkThrows
  <2>3. CASE SettleStep(w, m)
    BY <2>3 DEF SettleStep, Ack, Del, ToDlq, SettlingThrows, Ended
  <2> QED
    BY <2>1, <2>2, <2>3
<1>3. UNCHANGED <<sent, cursor, host, loop>>
  BY DEF BulkheadStep, Dispatch, DrainTakes, DrainStarts, Releases, WorkStep, Work, WorkThrows,
         SettleStep, Ack, Del, ToDlq, SettlingThrows, redis
<1> QED
  BY <1>1, <1>2, <1>3, AtMoves DEF TypeOK

\* What a read delivers.
LEMMA Delivery ==
  ASSUME TypeOK, Ordered, NEW w \in Worker, NEW p \in Partition, Delivered(w, p)
  PROVE  /\ cursor' \in [Partition -> {-1, 0} \cup {Id[m] : m \in Message}]
         /\ pel' \in [Message -> Worker \cup {None}]
         /\ \A q \in Partition : q # p => cursor'[q] = cursor[q]
         /\ cursor[p] < cursor'[p]
         /\ \E m \in sent : PartitionOf[m] = p /\ Id[m] = cursor'[p]
         /\ \A m \in Message : m \in NextEntries(p) =>
              /\ m \in stream /\ PartitionOf[m] = p /\ Id[m] > cursor[p] /\ Id[m] <= cursor'[p]
         /\ \A m \in stream : PartitionOf[m] = p /\ cursor[p] < Id[m] /\ Id[m] <= cursor'[p] =>
              m \in NextEntries(p)
<1> USE StreamAssumption DEF TypeOK
<1>1. PICK last \in NextEntries(p) :
        /\ \A m \in NextEntries(p) : Id[m] <= Id[last]
        /\ cursor' = [cursor EXCEPT ![p] = Id[last]]
  BY DEF Delivered
<1>2. NextEntries(p) \subseteq Backlog(p) /\ Backlog(p) \subseteq stream
  BY DEF NextEntries, Backlog
<1>3. cursor[p] \in Int /\ \A m \in Message : Id[m] \in Int
  <2>1. \A m \in Message : Id[m] \in Nat
    BY StreamAssumption
  <2>2. cursor[p] \in {-1, 0} \cup {Id[m] : m \in Message}
    BY DEF TypeOK
  <2> QED
    BY <2>1, <2>2
<1>4. \A m \in stream : PartitionOf[m] = p /\ cursor[p] < Id[m] /\ Id[m] <= cursor'[p] =>
        m \in NextEntries(p)
  <2> SUFFICES ASSUME NEW m \in stream, PartitionOf[m] = p, cursor[p] < Id[m], Id[m] <= Id[last]
               PROVE  m \in NextEntries(p)
    BY <1>1
  <2> DEFINE Before(n) == {k \in Backlog(p) : Id[k] < Id[n]}
  <2>1. m \in Backlog(p)
    BY DEF Backlog
  <2>2. IsFiniteSet(Before(last))
    BY <1>2, FS_Subset DEF Ordered
  <2>3. Before(m) \subseteq Before(last)
    BY <1>2, <1>3
  <2>4. /\ IsFiniteSet(Before(m)) /\ Cardinality(Before(m)) <= Cardinality(Before(last))
    BY <2>2, <2>3, FS_Subset
  <2>5. Cardinality(Before(last)) < ReadCount
    BY DEF NextEntries
  <2>6. Cardinality(Before(m)) \in Nat /\ Cardinality(Before(last)) \in Nat
    BY <2>2, <2>4, FS_CardinalityType
  <2>7. Cardinality(Before(m)) < ReadCount
    BY <2>4, <2>5, <2>6
  <2> QED
    BY <2>1, <2>7 DEF NextEntries
<1>5. last \in sent /\ PartitionOf[last] = p /\ cursor'[p] = Id[last] /\ cursor[p] < Id[last]
  BY <1>1, <1>2, <1>3 DEF Backlog
<1>6. pel' \in [Message -> Worker \cup {None}]
  BY DEF Delivered
<1>7. cursor' \in [Partition -> {-1, 0} \cup {Id[m] : m \in Message}]
  BY <1>1, <1>5
<1>8. \A m \in Message : m \in NextEntries(p) =>
        m \in stream /\ PartitionOf[m] = p /\ Id[m] > cursor[p] /\ Id[m] <= cursor'[p]
  BY <1>1, <1>2, <1>5 DEF Backlog
<1> QED
  BY <1>1, <1>4, <1>5, <1>6, <1>7, <1>8

\* A process starts, stops or ends; what it held is lost.
LEMMA LifeMoves ==
  ASSUME TypeOK, Placed, NEW w \in Worker, LifeStep(w)
  PROVE  /\ stage' \in [Worker -> [Message -> Stage]]
         /\ \A v \in Worker, m \in Message :
              \/ stage'[v][m] = stage[v][m]
              \/ v = w /\ stage[v][m] # "none" /\ stage'[v][m] = "lost"
         /\ UNCHANGED <<sent, redis, result, permits>>
<1>1. CASE Start(w) \/ Stop(w)
  BY <1>1 DEF Start, Stop, TypeOK
<1>2. CASE Dies(w)
  <2> DEFINE f == [m \in Message |->
               IF stage[w][m] \in {"none", "left", "over"} THEN stage[w][m] ELSE "lost"]
  <2>1. f \in [Message -> Stage] /\ stage' = [stage EXCEPT ![w] = f]
    BY <1>2 DEF Dies, TypeOK, Stage
  <2>2. /\ stage' \in [Worker -> [Message -> Stage]]
        /\ stage'[w] = f
        /\ \A v \in Worker : v # w => stage'[v] = stage[v]
    BY <2>1 DEF TypeOK
  <2> QED
    BY <1>2, <2>2 DEF Dies
<1> QED
  BY <1>1, <1>2 DEF LifeStep, Exit, Crash

\* A read puts entries on the array of the loop, and nothing else.
LEMMA ReadMoves ==
  ASSUME TypeOK, Ordered, NEW w \in Worker, NEW p \in Partition, ReadStep(w, p)
  PROVE  /\ Delivered(w, p) /\ host[w] = "up"
         /\ stage' \in [Worker -> [Message -> Stage]]
         /\ \A v \in Worker, m \in Message :
              \/ stage'[v][m] = stage[v][m]
              \/ v = w /\ m \in NextEntries(p) /\ stage'[v][m] = "batch"
         /\ UNCHANGED <<sent, stream, dlq, result, host, loop, permits>>
<1>1. CASE ReadReplyLost(w, p)
  BY <1>1 DEF ReadReplyLost, TypeOK
<1>2. CASE Read(w, p)
  <2> DEFINE f == [m \in Message |-> IF m \in NextEntries(p) THEN "batch" ELSE stage[w][m]]
  <2>1. f \in [Message -> Stage] /\ stage' = [stage EXCEPT ![w] = f]
    BY <1>2 DEF Read, TypeOK, Stage
  <2>2. /\ stage' \in [Worker -> [Message -> Stage]]
        /\ stage'[w] = f
        /\ \A v \in Worker : v # w => stage'[v] = stage[v]
    BY <2>1 DEF TypeOK
  <2> QED
    BY <1>2, <2>2 DEF Read
<1> QED
  BY <1>1, <1>2 DEF ReadStep

LEMMA LoopMoves ==
  ASSUME TypeOK, NEW w \in Worker, NEW p \in Partition, LoopStep(w, p)
  PROVE  /\ cursor' \in [Partition -> {-1, 0} \cup {Id[m] : m \in Message}]
         /\ pel' \in [Message -> Worker \cup {None}]
         /\ loop' \in [Worker -> [Partition -> {"off", "create", "run", "failed", "ended"}]]
         /\ \A q \in Partition : cursor'[q] = cursor[q] \/ (cursor[q] = -1 /\ cursor'[q] = 0)
         /\ UNCHANGED <<sent, stream, dlq, result, host, stage, permits>>
<1>1. loop' \in [Worker -> [Partition -> {"off", "create", "run", "failed", "ended"}]]
  <2>1. \E s \in {"run", "failed", "ended"} : LoopTo(w, p, s)
    BY DEF LoopStep, CreateGroup, CreateGroupFails, LoopEnds
  <2>2. PICK s \in {"run", "failed", "ended"} : loop' = [loop EXCEPT ![w] = [loop[w] EXCEPT ![p] = s]]
    BY <2>1 DEF LoopTo
  <2>3. [loop[w] EXCEPT ![p] = s] \in [Partition -> {"off", "create", "run", "failed", "ended"}]
    BY DEF TypeOK
  <2> QED
    BY <2>2, <2>3 DEF TypeOK
<1>2. CASE CreateGroup(w, p)
  BY <1>1, <1>2 DEF CreateGroup, TypeOK
<1>3. CASE CreateGroupFails(w, p)
  BY <1>1, <1>3 DEF CreateGroupFails, TypeOK, redis
<1>4. CASE LoopEnds(w, p)
  BY <1>1, <1>4 DEF LoopEnds, TypeOK
<1> QED
  BY <1>2, <1>3, <1>4 DEF LoopStep

(***************************************************************************)
(* The order of the entries, and one handler for each of them.             *)
(***************************************************************************)
LEMMA OrderedStep ==
  ASSUME TypeOK, Placed, Ordered, [Next]_vars
  PROVE  Ordered'
<1>0. /\ \A m \in Message : Id[m] \in Nat \ {0} /\ PartitionOf[m] \in Partition
      /\ \A m, n \in Message : PartitionOf[m] = PartitionOf[n] /\ Id[m] = Id[n] => m = n
      /\ \A p \in Partition : cursor[p] \in Int
      /\ sent \subseteq Message
  <2>1. \A p \in Partition : cursor[p] \in {-1, 0} \cup {Id[m] : m \in Message}
    BY DEF TypeOK
  <2> QED
    BY <2>1, StreamAssumption DEF TypeOK
<1>1. CASE \E m \in Message : Publish(m)
  <2>1. PICK m \in Message : Publish(m)
    BY <1>1
  <2>2. sent' = sent \cup {m} /\ cursor' = cursor /\ stage' = stage
    BY <2>1 DEF Publish, process
  <2>3. IsFiniteSet(sent')
    BY <2>2, FS_AddElement DEF Ordered
  <2>4. \A n \in Message \ sent' : PartitionOf[m] = PartitionOf[n] => Id[m] < Id[n]
    BY <1>0, <2>1, <2>2 DEF Publish
  <2> QED
    BY <2>2, <2>3, <2>4 DEF Ordered
<1>2. CASE \E w \in Worker : LifeStep(w)
  <2>1. PICK w \in Worker : LifeStep(w)
    BY <1>2
  <2>2. /\ sent' = sent /\ cursor' = cursor
        /\ \A v \in Worker, m \in Message : stage'[v][m] # "none" => stage[v][m] # "none"
    BY <2>1, LifeMoves DEF redis
  <2> QED
    BY <2>2 DEF Ordered
<1>3. CASE \E w \in Worker, p \in Partition : ReadStep(w, p)
  <2>1. PICK w \in Worker, p \in Partition : ReadStep(w, p)
    BY <1>3
  <2>2. /\ sent' = sent /\ Delivered(w, p)
        /\ \A v \in Worker, m \in Message :
             stage'[v][m] # "none" => stage[v][m] # "none" \/ m \in NextEntries(p)
    BY <2>1, ReadMoves
  <2>3. /\ \A q \in Partition : q # p => cursor'[q] = cursor[q]
        /\ cursor[p] < cursor'[p]
        /\ \E m \in sent : PartitionOf[m] = p /\ Id[m] = cursor'[p]
        /\ \A m \in Message : m \in NextEntries(p) =>
             m \in stream /\ PartitionOf[m] = p /\ Id[m] <= cursor'[p]
    BY <2>2, Delivery
  <2>4. \A q \in Partition :
          cursor'[q] \in {-1, 0} \/ \E m \in sent : PartitionOf[m] = q /\ Id[m] = cursor'[q]
    BY <2>3 DEF Ordered
  <2>5. \A v \in Worker, m \in Message :
          stage'[v][m] # "none" => m \in sent /\ Id[m] <= cursor'[PartitionOf[m]]
    <3> SUFFICES ASSUME NEW v \in Worker, NEW m \in Message, stage'[v][m] # "none"
                 PROVE  m \in sent /\ Id[m] <= cursor'[PartitionOf[m]]
      OBVIOUS
    <3>1. CASE m \in NextEntries(p)
      BY <2>3, <3>1 DEF TypeOK
    <3>2. CASE stage[v][m] # "none"
      <4>1. m \in sent /\ Id[m] <= cursor[PartitionOf[m]]
        BY <3>2 DEF Ordered
      <4>2. cursor[PartitionOf[m]] <= cursor'[PartitionOf[m]] /\ cursor'[PartitionOf[m]] \in Int
        BY <1>0, <2>3
      <4> QED
        BY <1>0, <4>1, <4>2
    <3> QED
      BY <2>2, <3>1, <3>2
  <2> QED
    BY <2>2, <2>4, <2>5 DEF Ordered
<1>4. CASE \E w \in Worker, p \in Partition : LoopStep(w, p)
  <2>1. PICK w \in Worker, p \in Partition : LoopStep(w, p)
    BY <1>4
  <2>2. /\ sent' = sent /\ stage' = stage
        /\ \A q \in Partition : cursor'[q] = cursor[q] \/ (cursor[q] = -1 /\ cursor'[q] = 0)
    BY <2>1, LoopMoves
  <2>3. \A m \in Message : cursor[PartitionOf[m]] <= cursor'[PartitionOf[m]]
                           /\ cursor'[PartitionOf[m]] \in Int
    BY <1>0, <2>2
  <2>4. \A v \in Worker, m \in Message :
          stage'[v][m] # "none" => m \in sent' /\ Id[m] <= cursor'[PartitionOf[m]]
    BY <1>0, <2>2, <2>3 DEF Ordered
  <2> QED
    BY <2>2, <2>4 DEF Ordered
<1>5. ASSUME NEW w \in Worker, NEW m \in Message,
             BulkheadStep(w, m) \/ WorkStep(w, m) \/ SettleStep(w, m)
      PROVE  Ordered'
  <2>1. /\ sent' = sent /\ cursor' = cursor
        /\ \A v \in Worker, n \in Message : stage'[v][n] # "none" => stage[v][n] # "none"
    BY <1>5, HandlerMoves
  <2> QED
    BY <2>1 DEF Ordered
<1>6. CASE UNCHANGED vars
  BY <1>6 DEF vars, redis, process, Ordered
<1> QED
  BY <1>1, <1>2, <1>3, <1>4, <1>5, <1>6, NextCases

LEMMA OneHandlerStep ==
  ASSUME TypeOK, Placed, Ordered, OneHandler, [Next]_vars
  PROVE  OneHandler'
<1>1. CASE \E m \in Message : Publish(m)
  BY <1>1 DEF Publish, process, OneHandler
<1>2. CASE \E w \in Worker : LifeStep(w)
  <2>1. \A v \in Worker, m \in Message : stage'[v][m] # "none" => stage[v][m] # "none"
    BY <1>2, LifeMoves
  <2> QED
    BY <2>1 DEF OneHandler
<1>3. CASE \E w \in Worker, p \in Partition : ReadStep(w, p)
  <2>1. PICK w \in Worker, p \in Partition : ReadStep(w, p)
    BY <1>3
  <2>2. \A v \in Worker, m \in Message :
          stage'[v][m] # "none" => stage[v][m] # "none" \/ (v = w /\ m \in NextEntries(p))
    BY <2>1, ReadMoves
  <2>3. \A v \in Worker, m \in Message : m \in NextEntries(p) => stage[v][m] = "none"
    <3>1. \A m \in Message : m \in NextEntries(p) => PartitionOf[m] = p /\ Id[m] > cursor[p]
      BY <2>1, ReadMoves, Delivery
    <3>2. cursor[p] \in Int /\ \A m \in Message : Id[m] \in Int
      <4>1. cursor[p] \in {-1, 0} \cup {Id[m] : m \in Message}
        BY DEF TypeOK
      <4> QED
        BY <4>1, StreamAssumption
    <3> QED
      BY <3>1, <3>2 DEF Ordered
  <2> QED
    BY <2>2, <2>3 DEF OneHandler
<1>4. CASE \E w \in Worker, p \in Partition : LoopStep(w, p)
  BY <1>4, LoopMoves DEF OneHandler
<1>5. ASSUME NEW w \in Worker, NEW m \in Message,
             BulkheadStep(w, m) \/ WorkStep(w, m) \/ SettleStep(w, m)
      PROVE  OneHandler'
  <2>1. \A v \in Worker, n \in Message : stage'[v][n] # "none" => stage[v][n] # "none"
    BY <1>5, HandlerMoves
  <2> QED
    BY <2>1 DEF OneHandler
<1>6. CASE UNCHANGED vars
  BY <1>6 DEF vars, process, OneHandler
<1> QED
  BY <1>1, <1>2, <1>3, <1>4, <1>5, <1>6, NextCases


(***************************************************************************)
(* Where a process can be with a message, and what settling leaves behind. *)
(***************************************************************************)
LEMMA PlacedStep ==
  ASSUME TypeOK, Placed, Ordered, [Next]_vars
  PROVE  Placed'
<1>1. CASE \E m \in Message : Publish(m)
  BY <1>1 DEF Publish, process, Placed, Alive
<1>2. ASSUME NEW w \in Worker, LifeStep(w)
      PROVE  Placed'
  <2>1. CASE Start(w) \/ Stop(w)
    BY <2>1 DEF Start, Stop, Placed, Alive, TypeOK
  <2>2. CASE Dies(w) /\ host[w] # "off"
    <3> DEFINE f == [m \in Message |->
                 IF stage[w][m] \in {"none", "left", "over"} THEN stage[w][m] ELSE "lost"]
    <3>1. /\ host'[w] = "down" /\ \A v \in Worker : v # w => host'[v] = host[v]
          /\ stage'[w] = f /\ \A v \in Worker : v # w => stage'[v] = stage[v]
      BY <2>2 DEF Dies, TypeOK
    <3> QED
      BY <3>1 DEF Placed, Alive, InBulkhead
  <2> QED
    BY <1>2, <2>1, <2>2 DEF LifeStep, Exit, Crash
<1>3. CASE \E w \in Worker, p \in Partition : ReadStep(w, p)
  <2>1. PICK w \in Worker, p \in Partition : ReadStep(w, p)
    BY <1>3
  <2>2. /\ host[w] = "up" /\ host' = host
        /\ \A v \in Worker, m \in Message :
             stage'[v][m] = stage[v][m] \/ (v = w /\ stage'[v][m] = "batch")
    BY <2>1, ReadMoves
  <2> QED
    BY <2>2 DEF Placed, Alive, InBulkhead
<1>4. CASE \E w \in Worker, p \in Partition : LoopStep(w, p)
  BY <1>4, LoopMoves DEF Placed, Alive
<1>5. ASSUME NEW w \in Worker, NEW m \in Message,
             BulkheadStep(w, m) \/ WorkStep(w, m) \/ SettleStep(w, m)
      PROVE  Placed'
  <2>1. /\ Alive(w) /\ host' = host
        /\ \A v \in Worker, n \in Message : v # w \/ n # m => stage'[v][n] = stage[v][n]
    BY <1>5, HandlerMoves
  <2>2. stage'[w][m] \in InBulkhead \cup {"work", "ack", "del", "release"} => m \notin Malformed
    <3>1. \A s \in Stage : At(w, m, s) => stage'[w][m] = s
      BY AtMoves DEF TypeOK
    <3> USE DEF Stage, InBulkhead, Running, Settling
    <3>2. CASE BulkheadStep(w, m)
      BY <3>1, <3>2 DEF BulkheadStep, Dispatch, DrainTakes, DrainStarts, Releases, Oldest,
                        Queued, Placed
    <3>3. CASE WorkStep(w, m)
      BY <3>1, <3>3 DEF WorkStep, Work, WorkThrows, Placed
    <3>4. CASE SettleStep(w, m)
      BY <3>1, <3>4 DEF SettleStep, Ack, Del, ToDlq, SettlingThrows, Ended, Placed
    <3> QED
      BY <1>5, <3>2, <3>3, <3>4
  <2> QED
    BY <2>1, <2>2 DEF Placed, Alive
<1>6. CASE UNCHANGED vars
  BY <1>6 DEF vars, process, Placed, Alive
<1> QED
  BY <1>1, <1>2, <1>3, <1>4, <1>5, <1>6, NextCases

\* What a handler does to the result, the pending list, the stream and the
\* dead-letter stream.
LEMMA HandlerWrites ==
  ASSUME TypeOK, Placed, Settled, Ordered, NEW w \in Worker, NEW m \in Message,
         BulkheadStep(w, m) \/ WorkStep(w, m) \/ SettleStep(w, m)
  PROVE  /\ stream' \in SUBSET stream /\ stream \ stream' \subseteq {m}
         /\ dlq \subseteq dlq' /\ dlq' \subseteq dlq \cup {m}
         /\ \A n \in Message : n # m => pel'[n] = pel[n] /\ result'[n] = result[n]
         /\ pel' \in [Message -> Worker \cup {None}]
         /\ result' \in [Message -> {"none", "booked", "refused", "failed"}]
         /\ result[m] # "none" => result'[m] # "none"
         /\ pel'[m] = pel[m] \/ pel'[m] = None
         /\ (pel'[m] # pel[m] \/ stream' # stream) => result[m] # "none" \/ m \in dlq
<1>1. CASE BulkheadStep(w, m)
  BY <1>1 DEF BulkheadStep, Dispatch, DrainTakes, DrainStarts, Releases, redis, TypeOK
<1>2. CASE WorkStep(w, m)
  BY <1>2 DEF WorkStep, Work, WorkThrows, redis, TypeOK
<1>3. CASE SettleStep(w, m)
  BY <1>3 DEF SettleStep, Ack, Del, ToDlq, SettlingThrows, redis, TypeOK, Settled
<1> QED
  BY <1>1, <1>2, <1>3

LEMMA SettledStep ==
  ASSUME TypeOK, Placed, Ordered, Settled, [Next]_vars
  PROVE  Settled'
<1>1. CASE \E m \in Message : Publish(m)
  BY <1>1 DEF Publish, process, Settled
<1>2. CASE \E w \in Worker : LifeStep(w)
  <2>1. /\ result' = result /\ dlq' = dlq
        /\ \A v \in Worker, m \in Message :
             stage'[v][m] = stage[v][m] \/ stage'[v][m] = "lost"
    BY <1>2, LifeMoves DEF redis
  <2> QED
    BY <2>1 DEF Settled
<1>3. CASE \E w \in Worker, p \in Partition : ReadStep(w, p)
  <2>1. /\ result' = result /\ dlq' = dlq
        /\ \A v \in Worker, m \in Message :
             stage'[v][m] = stage[v][m] \/ stage'[v][m] = "batch"
    BY <1>3, ReadMoves
  <2> QED
    BY <2>1 DEF Settled
<1>4. CASE \E w \in Worker, p \in Partition : LoopStep(w, p)
  BY <1>4, LoopMoves DEF Settled
<1>5. ASSUME NEW w \in Worker, NEW m \in Message,
             BulkheadStep(w, m) \/ WorkStep(w, m) \/ SettleStep(w, m)
      PROVE  Settled'
  <2>1. \A v \in Worker, n \in Message : v # w \/ n # m => stage'[v][n] = stage[v][n]
    BY <1>5, HandlerMoves
  <2>2. /\ dlq \subseteq dlq'
        /\ \A n \in Message : result[n] # "none" => result'[n] # "none"
    BY <1>5, HandlerWrites
  <2>3. /\ stage'[w][m] \in {"ack", "del"} => result'[m] # "none"
        /\ stage'[w][m] \in {"dlqAck", "dlqDel"} => m \in dlq'
    <3>1. \A s \in Stage : At(w, m, s) => stage'[w][m] = s
      BY AtMoves DEF TypeOK
    <3> USE DEF Stage, InBulkhead, Running, Settling
    <3>2. CASE BulkheadStep(w, m)
      BY <3>1, <3>2 DEF BulkheadStep, Dispatch, DrainTakes, DrainStarts, Releases
    <3>3. CASE WorkStep(w, m)
      BY <3>1, <3>3 DEF WorkStep, Work, WorkThrows, TypeOK
    <3>4. CASE SettleStep(w, m)
      BY <3>1, <3>4 DEF SettleStep, Ack, Del, ToDlq, SettlingThrows, Ended, Settled
    <3> QED
      BY <1>5, <3>2, <3>3, <3>4
  <2> QED
    BY <2>1, <2>2, <2>3 DEF Settled
<1>6. CASE UNCHANGED vars
  BY <1>6 DEF vars, redis, process, Settled
<1> QED
  BY <1>1, <1>2, <1>3, <1>4, <1>5, <1>6, NextCases


(***************************************************************************)
(* The semaphores and the channels.                                        *)
(***************************************************************************)
LEMMA FiniteBulkheads ==
  ASSUME TypeOK, Ordered, NEW w \in Worker, NEW t \in Tenant
  PROVE  /\ IsFiniteSet(Queued(w, t)) /\ Cardinality(Queued(w, t)) \in Nat
         /\ IsFiniteSet(Admitted(w, t)) /\ Cardinality(Admitted(w, t)) \in Nat
<1>1. Queued(w, t) \subseteq sent /\ Admitted(w, t) \subseteq sent
  BY DEF Queued, Admitted, Ordered, Running, Settling
<1> QED
  BY <1>1, FS_Subset, FS_CardinalityType DEF Ordered

\* A handler that moves changes its own bulkhead only.
LEMMA OtherBulkheads ==
  ASSUME TypeOK, Placed, NEW w \in Worker, NEW m \in Message,
         BulkheadStep(w, m) \/ WorkStep(w, m) \/ SettleStep(w, m)
  PROVE  \A v \in Worker, t \in Tenant : v # w \/ t # TenantOf[m] =>
           /\ Queued(v, t)' = Queued(v, t) /\ Admitted(v, t)' = Admitted(v, t)
           /\ permits'[v][t] = permits[v][t]
<1>1. \A v \in Worker, n \in Message : v # w \/ n # m => stage'[v][n] = stage[v][n]
  BY HandlerMoves
<1>2. \A v \in Worker, t \in Tenant : v # w \/ t # TenantOf[m] => permits'[v][t] = permits[v][t]
  <2>1. \A k \in Int :
          permits' = [permits EXCEPT ![w] = [permits[w] EXCEPT ![TenantOf[m]] = k]] =>
            \A v \in Worker, t \in Tenant :
              v # w \/ t # TenantOf[m] => permits'[v][t] = permits[v][t]
    BY DEF TypeOK
  <2>2. \/ permits' = permits
        \/ permits' = [permits EXCEPT ![w] =
                         [permits[w] EXCEPT ![TenantOf[m]] = permits[w][TenantOf[m]] - 1]]
        \/ permits' = [permits EXCEPT ![w] =
                         [permits[w] EXCEPT ![TenantOf[m]] = permits[w][TenantOf[m]] + 1]]
    BY DEF BulkheadStep, Dispatch, DrainTakes, DrainStarts, Releases, WorkStep, Work, WorkThrows,
           SettleStep, Ack, Del, ToDlq, SettlingThrows
  <2>3. permits[w][TenantOf[m]] \in Int
    BY StreamAssumption DEF TypeOK
  <2>4. permits[w][TenantOf[m]] - 1 \in Int /\ permits[w][TenantOf[m]] + 1 \in Int
    BY <2>3
  <2> QED
    BY <2>1, <2>2, <2>4
<1>3. \A v \in Worker, t \in Tenant : v # w \/ t # TenantOf[m] =>
        Queued(v, t)' = Queued(v, t) /\ Admitted(v, t)' = Admitted(v, t)
  BY <1>1 DEF Queued, Admitted
<1> QED
  BY <1>2, <1>3

\* What it does to its own bulkhead: it comes in, or goes on to the hand of
\* the drain task, takes a permit, gives it back, or leaves all as it is.
LEMMA OwnBulkhead ==
  ASSUME TypeOK, Placed, Ordered, NEW w \in Worker, NEW m \in Message, NEW t \in Tenant,
         t = TenantOf[m],
         BulkheadStep(w, m) \/ WorkStep(w, m) \/ SettleStep(w, m)
  PROVE  /\ \/ /\ Queued(w, t)' = Queued(w, t) \cup {m}
               /\ Cardinality(Queued(w, t)) < Capacity
            \/ Queued(w, t)' \subseteq Queued(w, t)
         /\ \/ /\ Admitted(w, t)' = Admitted(w, t) \cup {m} /\ m \notin Admitted(w, t)
               /\ permits[w][t] > 0 /\ permits' = [permits EXCEPT ![w][t] = @ - 1]
            \/ /\ Admitted(w, t)' = Admitted(w, t) \ {m} /\ m \in Admitted(w, t)
               /\ permits' = [permits EXCEPT ![w][t] = @ + 1]
            \/ Admitted(w, t)' = Admitted(w, t) /\ permits' = permits
         /\ stage'[w][m] = "inHand" =>
              \A n \in Message : TenantOf[n] = t => stage[w][n] # "inHand"
<1>1. \A s \in Stage : At(w, m, s) => stage'[w][m] = s
  BY AtMoves DEF TypeOK
<1>2. \A n \in Message : n # m => stage'[w][n] = stage[w][n]
  BY HandlerMoves
<1>3. stage'[w][m] # "channel" => Queued(w, t)' \subseteq Queued(w, t)
  BY <1>2 DEF Queued
<1>4. stage'[w][m] = "channel" => Queued(w, t)' = Queued(w, t) \cup {m}
  BY <1>2 DEF Queued
<1>5. (stage[w][m] \in Running /\ m \notin Malformed <=> stage'[w][m] \in Running /\ m \notin Malformed)
        => Admitted(w, t)' = Admitted(w, t)
  BY <1>2 DEF Admitted
<1> USE DEF Stage, InBulkhead, Running, Settling
<1>6. CASE Dispatch(w, m)
  <2>1. stage[w][m] = "batch" /\ permits' = permits
    BY <1>6 DEF Dispatch, Oldest
  <2>2. stage'[w][m] = IF m \in Malformed THEN "dlq"
                       ELSE IF Cardinality(Queued(w, t)) < Capacity THEN "channel" ELSE "left"
    BY <1>1, <1>6 DEF Dispatch
  <2> QED
    BY <1>3, <1>4, <1>5, <2>1, <2>2
<1>7. CASE DrainTakes(w, m)
  <2>1. stage[w][m] = "channel" /\ permits' = permits /\ stage'[w][m] = "inHand"
        /\ \A n \in Message : TenantOf[n] = t => stage[w][n] # "inHand"
    BY <1>1, <1>7 DEF DrainTakes, Oldest, Queued
  <2> QED
    BY <1>3, <1>5, <2>1
<1>8. CASE DrainStarts(w, m)
  <2>1. /\ stage[w][m] = "inHand" /\ stage'[w][m] = "work" /\ m \notin Malformed
        /\ permits[w][t] > 0 /\ permits' = [permits EXCEPT ![w][t] = @ - 1]
    BY <1>1, <1>8 DEF DrainStarts, Placed
  <2>2. Admitted(w, t)' = Admitted(w, t) \cup {m} /\ m \notin Admitted(w, t)
    BY <1>2, <2>1 DEF Admitted
  <2> QED
    BY <1>3, <2>1, <2>2
<1>9. CASE Releases(w, m)
  <2>1. /\ stage[w][m] = "release" /\ stage'[w][m] = "over" /\ m \notin Malformed
        /\ permits' = [permits EXCEPT ![w][t] = @ + 1]
    BY <1>1, <1>9 DEF Releases, Placed
  <2>2. Admitted(w, t)' = Admitted(w, t) \ {m} /\ m \in Admitted(w, t)
    BY <1>2, <2>1 DEF Admitted
  <2> QED
    BY <1>3, <2>1, <2>2
<1>10. CASE WorkStep(w, m)
  <2>1. stage[w][m] = "work" /\ stage'[w][m] \in {"ack", "dlq"} /\ permits' = permits
    BY <1>1, <1>10 DEF WorkStep, Work, WorkThrows
  <2> QED
    BY <1>3, <1>5, <2>1
<1>11. CASE SettleStep(w, m)
  <2>1. /\ stage[w][m] \in Settling /\ permits' = permits
        /\ stage'[w][m] \in Settling \cup {"release", "over"}
        /\ stage'[w][m] = "over" => m \in Malformed
    BY <1>1, <1>11 DEF SettleStep, Ack, Del, ToDlq, SettlingThrows, Ended
  <2> QED
    BY <1>3, <1>5, <2>1
<1> QED
  BY <1>6, <1>7, <1>8, <1>9, <1>10, <1>11 DEF BulkheadStep

\* Steps that are not a handler's neither take a permit nor give one back,
\* and put nothing into a channel.
LEMMA QuietBulkheads ==
  ASSUME TypeOK, Placed, Ordered, [Next]_vars,
         ~ \E w \in Worker, m \in Message :
             BulkheadStep(w, m) \/ WorkStep(w, m) \/ SettleStep(w, m)
  PROVE  /\ permits' = permits
         /\ \A w \in Worker, t \in Tenant :
              /\ Queued(w, t)' \subseteq Queued(w, t)
              /\ Alive(w)' => Admitted(w, t)' = Admitted(w, t)
         /\ \A w \in Worker, m \in Message : stage'[w][m] = "inHand" => stage[w][m] = "inHand"
         /\ \A w \in Worker : Alive(w)' => Alive(w) \/ host[w] = "off"
         /\ \A w \in Worker : host'[w] = "off" => host[w] = "off"
<1> USE DEF Stage, InBulkhead, Running, Settling
<1>1. ASSUME permits' = permits, host' = host,
             \A w \in Worker, m \in Message :
               \/ stage'[w][m] = stage[w][m]
               \/ stage[w][m] \notin Running /\ stage'[w][m] = "batch"
      PROVE  /\ permits' = permits
             /\ \A w \in Worker, t \in Tenant :
                  Queued(w, t)' \subseteq Queued(w, t) /\ Admitted(w, t)' = Admitted(w, t)
             /\ \A w \in Worker, m \in Message :
                  stage'[w][m] = "inHand" => stage[w][m] = "inHand"
             /\ host' = host
  <2>1. \A w \in Worker, t \in Tenant :
          Queued(w, t)' \subseteq Queued(w, t) /\ Admitted(w, t)' = Admitted(w, t)
    BY <1>1 DEF Queued, Admitted
  <2> QED
    BY <1>1, <2>1
<1>2. CASE (\E m \in Message : Publish(m)) \/ UNCHANGED vars
  BY <1>1, <1>2 DEF Publish, vars, process, Alive
<1>3. CASE \E w \in Worker, p \in Partition : ReadStep(w, p)
  <2>1. PICK w \in Worker, p \in Partition : ReadStep(w, p)
    BY <1>3
  <2>2. /\ permits' = permits /\ host' = host
        /\ \A v \in Worker, m \in Message :
             \/ stage'[v][m] = stage[v][m]
             \/ m \in NextEntries(p) /\ stage'[v][m] = "batch"
    BY <2>1, ReadMoves
  <2>3. \A m \in Message : m \in NextEntries(p) => PartitionOf[m] = p /\ Id[m] > cursor[p]
    BY <2>1, ReadMoves, Delivery
  <2>4. cursor[p] \in Int /\ \A m \in Message : Id[m] \in Int
    <3>1. cursor[p] \in {-1, 0} \cup {Id[m] : m \in Message}
      BY DEF TypeOK
    <3> QED
      BY <3>1, StreamAssumption
  <2>5. \A v \in Worker, m \in Message : m \in NextEntries(p) => stage[v][m] = "none"
    BY <2>3, <2>4 DEF Ordered
  <2> QED
    BY <1>1, <2>2, <2>5 DEF Alive
<1>4. CASE \E w \in Worker, p \in Partition : LoopStep(w, p)
  BY <1>1, <1>4, LoopMoves DEF Alive
<1>5. ASSUME NEW w \in Worker, LifeStep(w)
      PROVE  /\ permits' = permits
             /\ \A v \in Worker, t \in Tenant :
                  /\ Queued(v, t)' \subseteq Queued(v, t)
                  /\ Alive(v)' => Admitted(v, t)' = Admitted(v, t)
             /\ \A v \in Worker, m \in Message :
                  stage'[v][m] = "inHand" => stage[v][m] = "inHand"
             /\ \A v \in Worker : Alive(v)' => Alive(v) \/ host[v] = "off"
             /\ \A v \in Worker : host'[v] = "off" => host[v] = "off"
  <2>1. CASE Start(w) \/ Stop(w)
    BY <2>1 DEF Start, Stop, Alive, TypeOK, Queued, Admitted
  <2>2. CASE Dies(w)
    <3>1. /\ permits' = permits /\ host'[w] = "down"
          /\ \A v \in Worker : v # w => host'[v] = host[v] /\ stage'[v] = stage[v]
      BY <2>2 DEF Dies, TypeOK
    <3>2. \A v \in Worker, m \in Message :
            stage'[v][m] = stage[v][m] \/ stage'[v][m] = "lost"
      BY <1>5, LifeMoves
    <3>3. \A v \in Worker, t \in Tenant : Queued(v, t)' \subseteq Queued(v, t)
      BY <3>2 DEF Queued
    <3>4. \A v \in Worker, t \in Tenant : Alive(v)' => Admitted(v, t)' = Admitted(v, t)
      BY <3>1 DEF Admitted, Alive
    <3> QED
      BY <3>1, <3>2, <3>3, <3>4 DEF Alive
  <2> QED
    BY <1>5, <2>1, <2>2 DEF LifeStep, Exit, Crash
<1> QED
  BY <1>2, <1>3, <1>4, <1>5, NextCases

LEMMA BalancedStep ==
  ASSUME TypeOK, Placed, Ordered, Balanced, PermitsAddUp, [Next]_vars
  PROVE  Balanced' /\ PermitsAddUp'
<1>1. ASSUME NEW w \in Worker, NEW m \in Message,
             BulkheadStep(w, m) \/ WorkStep(w, m) \/ SettleStep(w, m)
      PROVE  Balanced' /\ PermitsAddUp'
  <2> DEFINE u == TenantOf[m]
  <2>0. u \in Tenant /\ Capacity \in Nat /\ MaxConcurrent \in Nat
    BY StreamAssumption
  <2>1. /\ Alive(w) /\ host' = host
        /\ \A v \in Worker, n \in Message : v # w \/ n # m => stage'[v][n] = stage[v][n]
    BY <1>1, HandlerMoves
  <2>2. \A v \in Worker, t \in Tenant : v # w \/ t # u =>
           /\ Queued(v, t)' = Queued(v, t) /\ Admitted(v, t)' = Admitted(v, t)
           /\ permits'[v][t] = permits[v][t]
    BY <1>1, OtherBulkheads
  <2>3. /\ \/ /\ Queued(w, u)' = Queued(w, u) \cup {m}
              /\ Cardinality(Queued(w, u)) < Capacity
           \/ Queued(w, u)' \subseteq Queued(w, u)
        /\ \/ /\ Admitted(w, u)' = Admitted(w, u) \cup {m} /\ m \notin Admitted(w, u)
              /\ permits[w][u] > 0 /\ permits' = [permits EXCEPT ![w][u] = @ - 1]
           \/ /\ Admitted(w, u)' = Admitted(w, u) \ {m} /\ m \in Admitted(w, u)
              /\ permits' = [permits EXCEPT ![w][u] = @ + 1]
           \/ Admitted(w, u)' = Admitted(w, u) /\ permits' = permits
        /\ stage'[w][m] = "inHand" =>
             \A n \in Message : TenantOf[n] = u => stage[w][n] # "inHand"
    BY <1>1, <2>0, OwnBulkhead
  <2>4. /\ IsFiniteSet(Queued(w, u)) /\ Cardinality(Queued(w, u)) \in Nat
        /\ IsFiniteSet(Admitted(w, u)) /\ Cardinality(Admitted(w, u)) \in Nat
    BY <2>0, FiniteBulkheads
  <2>5. Cardinality(Queued(w, u)') <= Capacity
    <3>0. Cardinality(Queued(w, u)) <= Capacity
      BY <2>0 DEF Balanced
    <3>1. CASE Queued(w, u)' \subseteq Queued(w, u)
      <4>1. IsFiniteSet(Queued(w, u)')
            /\ Cardinality(Queued(w, u)') <= Cardinality(Queued(w, u))
        BY <2>4, <3>1, FS_Subset
      <4>2. Cardinality(Queued(w, u)') \in Nat
        BY <4>1, FS_CardinalityType
      <4> QED
        BY <2>0, <2>4, <3>0, <4>1, <4>2
    <3>2. CASE Queued(w, u)' = Queued(w, u) \cup {m} /\ Cardinality(Queued(w, u)) < Capacity
      <4>1. \/ Cardinality(Queued(w, u)') = Cardinality(Queued(w, u))
            \/ Cardinality(Queued(w, u)') = Cardinality(Queued(w, u)) + 1
        BY <2>4, <3>2, FS_AddElement
      <4> QED
        BY <2>0, <2>4, <3>2, <4>1
    <3> QED
      BY <2>3, <3>1, <3>2
  <2>6. permits'[w][u] + Cardinality(Admitted(w, u)') = MaxConcurrent
    <3>1. permits[w][u] + Cardinality(Admitted(w, u)) = MaxConcurrent /\ permits[w][u] \in Int
      BY <2>0, <2>1 DEF PermitsAddUp, TypeOK
    <3>2. /\ m \notin Admitted(w, u) =>
               Cardinality(Admitted(w, u) \cup {m}) = Cardinality(Admitted(w, u)) + 1
          /\ m \in Admitted(w, u) =>
               Cardinality(Admitted(w, u) \ {m}) = Cardinality(Admitted(w, u)) - 1
      BY <2>4, FS_AddElement, FS_RemoveElement
    <3>3. \A k \in Int :
            permits' = [permits EXCEPT ![w][u] = k] => permits'[w][u] = k
      BY <2>0 DEF TypeOK
    <3>4. permits[w][u] - 1 \in Int /\ permits[w][u] + 1 \in Int
      BY <3>1
    <3>5. /\ permits' = [permits EXCEPT ![w][u] = @ - 1] => permits'[w][u] = permits[w][u] - 1
          /\ permits' = [permits EXCEPT ![w][u] = @ + 1] => permits'[w][u] = permits[w][u] + 1
      BY <3>3, <3>4
    <3>6. \/ /\ Cardinality(Admitted(w, u)') = Cardinality(Admitted(w, u)) + 1
             /\ permits'[w][u] = permits[w][u] - 1
          \/ /\ Cardinality(Admitted(w, u)') = Cardinality(Admitted(w, u)) - 1
             /\ permits'[w][u] = permits[w][u] + 1
          \/ /\ Cardinality(Admitted(w, u)') = Cardinality(Admitted(w, u))
             /\ permits'[w][u] = permits[w][u]
      BY <2>3, <3>2, <3>5, Zenon
    <3> QED
      BY <2>4, <3>1, <3>6
  <2>7. PermitsAddUp'
    BY <2>1, <2>2, <2>6 DEF PermitsAddUp, Alive
  <2>8. \A v \in Worker, t \in Tenant :
          /\ host'[v] = "off" => permits'[v][t] = MaxConcurrent
          /\ Cardinality(Queued(v, t)') <= Capacity
    BY <2>1, <2>2, <2>5 DEF Balanced, Alive
  <2>9. \A v \in Worker, n, k \in Message :
          /\ TenantOf[n] = TenantOf[k]
          /\ stage'[v][n] = "inHand" /\ stage'[v][k] = "inHand"
          => n = k
    <3>1. \A v \in Worker, n, k \in Message :
            TenantOf[n] = TenantOf[k] /\ stage[v][n] = "inHand" /\ stage[v][k] = "inHand" => n = k
      BY StreamAssumption DEF Balanced
    <3> QED
      BY <2>1, <2>3, <3>1
  <2> QED
    BY <2>7, <2>8, <2>9 DEF Balanced
<1>2. CASE ~ \E w \in Worker, m \in Message :
               BulkheadStep(w, m) \/ WorkStep(w, m) \/ SettleStep(w, m)
  <2>1. /\ permits' = permits
        /\ \A w \in Worker, t \in Tenant :
             /\ Queued(w, t)' \subseteq Queued(w, t)
             /\ Alive(w)' => Admitted(w, t)' = Admitted(w, t)
        /\ \A w \in Worker, m \in Message : stage'[w][m] = "inHand" => stage[w][m] = "inHand"
        /\ \A w \in Worker : Alive(w)' => Alive(w) \/ host[w] = "off"
        /\ \A w \in Worker : host'[w] = "off" => host[w] = "off"
    BY <1>2, QuietBulkheads
  <2>2. \A w \in Worker, t \in Tenant : Cardinality(Queued(w, t)') <= Capacity
    <3> SUFFICES ASSUME NEW w \in Worker, NEW t \in Tenant
                 PROVE  Cardinality(Queued(w, t)') <= Capacity
      OBVIOUS
    <3>1. IsFiniteSet(Queued(w, t)) /\ Cardinality(Queued(w, t)) \in Nat
          /\ Cardinality(Queued(w, t)) <= Capacity /\ Capacity \in Nat
      BY FiniteBulkheads, StreamAssumption DEF Balanced
    <3>2. IsFiniteSet(Queued(w, t)') /\ Cardinality(Queued(w, t)') <= Cardinality(Queued(w, t))
      BY <2>1, <3>1, FS_Subset
    <3>3. Cardinality(Queued(w, t)') \in Nat
      BY <3>2, FS_CardinalityType
    <3> QED
      BY <3>1, <3>2, <3>3
  <2>3. Balanced'
    BY <2>1, <2>2 DEF Balanced
  <2>4. PermitsAddUp'
    <3> SUFFICES ASSUME NEW w \in Worker, NEW t \in Tenant, Alive(w)'
                 PROVE  permits'[w][t] + Cardinality(Admitted(w, t)') = MaxConcurrent
      BY DEF PermitsAddUp
    <3>1. CASE Alive(w)
      BY <2>1, <3>1 DEF PermitsAddUp
    <3>2. CASE host[w] = "off"
      <4>1. Admitted(w, t) = {}
        BY <3>2 DEF Placed, Admitted, Running, Settling
      <4>2. permits[w][t] = MaxConcurrent
        BY <3>2 DEF Balanced
      <4>3. Admitted(w, t)' = {} /\ permits'[w][t] = MaxConcurrent
        BY <2>1, <4>1, <4>2
      <4> QED
        BY <4>3, FS_EmptySet, StreamAssumption
    <3> QED
      BY <2>1, <3>1, <3>2
  <2> QED
    BY <2>3, <2>4
<1> QED
  BY <1>1, <1>2


(***************************************************************************)
(* Type correctness.                                                       *)
(***************************************************************************)
LEMMA TypeOKStep ==
  ASSUME IInv, [Next]_vars
  PROVE  TypeOK'
<1> USE DEF IInv
<1>1. permits' \in [Worker -> [Tenant -> 0..MaxConcurrent]]
  <2>0. MaxConcurrent \in Nat
    BY StreamAssumption
  <2>1. permits' \in [Worker -> [Tenant -> Nat]]
    <3>1. CASE permits' = permits
      BY <2>0, <3>1 DEF TypeOK
    <3>2. ASSUME NEW w \in Worker, NEW m \in Message, DrainStarts(w, m) \/ Releases(w, m)
          PROVE  permits' \in [Worker -> [Tenant -> Nat]]
      <4> DEFINE u == TenantOf[m]
      <4>1. u \in Tenant /\ permits[w][u] \in Nat
        BY <2>0, StreamAssumption DEF TypeOK
      <4>2. \A k \in Nat : [permits[w] EXCEPT ![u] = k] \in [Tenant -> Nat]
        BY <2>0, <4>1 DEF TypeOK
      <4>3. permits \in [Worker -> [Tenant -> Nat]]
        BY <2>0 DEF TypeOK
      <4>4. \A f \in [Tenant -> Nat] : [permits EXCEPT ![w] = f] \in [Worker -> [Tenant -> Nat]]
        BY <4>3
      <4>5. \A k \in Nat : [permits EXCEPT ![w] = [permits[w] EXCEPT ![u] = k]]
                             \in [Worker -> [Tenant -> Nat]]
        BY <4>2, <4>4
      <4>6. \/ /\ permits[w][u] > 0
               /\ permits' = [permits EXCEPT ![w] = [permits[w] EXCEPT ![u] = permits[w][u] - 1]]
            \/ permits' = [permits EXCEPT ![w] = [permits[w] EXCEPT ![u] = permits[w][u] + 1]]
        BY <3>2 DEF DrainStarts, Releases
      <4>7. permits[w][u] + 1 \in Nat /\ (permits[w][u] > 0 => permits[w][u] - 1 \in Nat)
        BY <4>1
      <4> QED
        BY <4>5, <4>6, <4>7
    <3>3. CASE ~ \E w \in Worker, m \in Message :
                   BulkheadStep(w, m) \/ WorkStep(w, m) \/ SettleStep(w, m)
      BY <3>1, <3>3, QuietBulkheads
    <3>4. ASSUME NEW w \in Worker, NEW m \in Message,
                 BulkheadStep(w, m) \/ WorkStep(w, m) \/ SettleStep(w, m)
          PROVE  permits' = permits \/ DrainStarts(w, m) \/ Releases(w, m)
      BY <3>4 DEF BulkheadStep, Dispatch, DrainTakes, WorkStep, Work, WorkThrows,
                  SettleStep, Ack, Del, ToDlq, SettlingThrows
    <3> QED
      BY <3>1, <3>2, <3>3, <3>4
  <2>2. \A w \in Worker, t \in Tenant : permits'[w][t] \in 0..MaxConcurrent
    <3> SUFFICES ASSUME NEW w \in Worker, NEW t \in Tenant
                 PROVE  permits'[w][t] \in 0..MaxConcurrent
      OBVIOUS
    <3>1. CASE Alive(w)'
      <4>1. permits'[w][t] + Cardinality(Admitted(w, t)') = MaxConcurrent
        BY <3>1, BalancedStep DEF PermitsAddUp
      <4>2. Admitted(w, t)' \subseteq sent'
        BY OrderedStep DEF Admitted, Ordered, Running, Settling
      <4>3. Cardinality(Admitted(w, t)') \in Nat
        BY <4>2, OrderedStep, FS_Subset, FS_CardinalityType DEF Ordered
      <4>4. permits'[w][t] \in Nat
        BY <2>1
      <4> QED
        BY <2>0, <4>1, <4>3, <4>4
    <3>2. CASE ~Alive(w)'
      <4>1. permits'[w][t] = permits[w][t]
        <5>1. CASE ~ \E v \in Worker, m \in Message :
                       BulkheadStep(v, m) \/ WorkStep(v, m) \/ SettleStep(v, m)
          BY <5>1, QuietBulkheads
        <5>2. ASSUME NEW v \in Worker, NEW m \in Message,
                     BulkheadStep(v, m) \/ WorkStep(v, m) \/ SettleStep(v, m)
              PROVE  permits'[w][t] = permits[w][t]
          <6>1. Alive(v) /\ host' = host
            BY <5>2, HandlerMoves
          <6>2. v # w
            BY <3>2, <6>1 DEF Alive
          <6> QED
            BY <5>2, <6>2, OtherBulkheads
        <5> QED
          BY <5>1, <5>2
      <4> QED
        BY <4>1 DEF TypeOK
    <3> QED
      BY <3>1, <3>2
  <2> QED
    BY <2>1, <2>2
<1>2. CASE \E m \in Message : Publish(m)
  BY <1>1, <1>2 DEF Publish, process, TypeOK
<1>3. ASSUME NEW w \in Worker, LifeStep(w)
      PROVE  TypeOK'
  <2>1. stage' \in [Worker -> [Message -> Stage]] /\ UNCHANGED <<sent, redis, result, permits>>
    BY <1>3, LifeMoves
  <2>2. host' \in [Worker -> {"off", "up", "stopping", "down"}]
    BY <1>3 DEF LifeStep, Start, Stop, Exit, Crash, Dies, TypeOK
  <2>3. loop' \in [Worker -> [Partition -> {"off", "create", "run", "failed", "ended"}]]
    <3> DEFINE f == [p \in Partition |-> "create"]
    <3>1. f \in [Partition -> {"off", "create", "run", "failed", "ended"}]
      OBVIOUS
    <3>2. loop' = loop \/ loop' = [loop EXCEPT ![w] = f]
      BY <1>3 DEF LifeStep, Start, Stop, Exit, Crash, Dies
    <3> HIDE DEF f
    <3> QED
      BY <3>1, <3>2 DEF TypeOK
  <2> QED
    BY <1>1, <2>1, <2>2, <2>3 DEF TypeOK, redis
<1>4. ASSUME NEW w \in Worker, NEW p \in Partition, ReadStep(w, p)
      PROVE  TypeOK'
  <2>1. /\ stage' \in [Worker -> [Message -> Stage]] /\ Delivered(w, p)
        /\ UNCHANGED <<sent, stream, dlq, result, host, loop, permits>>
    BY <1>4, ReadMoves
  <2>2. /\ cursor' \in [Partition -> {-1, 0} \cup {Id[m] : m \in Message}]
        /\ pel' \in [Message -> Worker \cup {None}]
    BY <2>1, Delivery
  <2> QED
    BY <1>1, <2>1, <2>2 DEF TypeOK
<1>5. CASE \E w \in Worker, p \in Partition : LoopStep(w, p)
  BY <1>1, <1>5, LoopMoves DEF TypeOK
<1>6. ASSUME NEW w \in Worker, NEW m \in Message,
             BulkheadStep(w, m) \/ WorkStep(w, m) \/ SettleStep(w, m)
      PROVE  TypeOK'
  <2>1. /\ stage' \in [Worker -> [Message -> Stage]] /\ stage[w][m] # "none"
        /\ UNCHANGED <<sent, cursor, host, loop>>
    BY <1>6, HandlerMoves
  <2>2. /\ stream' \in SUBSET stream /\ dlq' \subseteq dlq \cup {m}
        /\ pel' \in [Message -> Worker \cup {None}]
        /\ result' \in [Message -> {"none", "booked", "refused", "failed"}]
    BY <1>6, HandlerWrites
  <2>3. m \in sent
    BY <2>1 DEF Ordered
  <2> QED
    BY <1>1, <2>1, <2>2, <2>3 DEF TypeOK
<1>7. CASE UNCHANGED vars
  BY <1>7 DEF vars, redis, process, TypeOK
<1> QED
  BY <1>2, <1>3, <1>4, <1>5, <1>6, <1>7, NextCases

LEMMA InvStep == IInv /\ [Next]_vars => IInv'
  BY TypeOKStep, OrderedStep, OneHandlerStep, PlacedStep, SettledStep, BalancedStep DEF IInv

(***************************************************************************)
(* The bound of a bulkhead.                                                *)
(***************************************************************************)
LEMMA BoundHolds == IInv => BulkheadBound
<1> SUFFICES ASSUME IInv, NEW w \in Worker, NEW t \in Tenant
             PROVE  Cardinality({m \in Message \ Malformed :
                       TenantOf[m] = t /\ stage[w][m] \in InBulkhead \cup Running})
                      <= MaxConcurrent + Capacity + 1
  BY DEF BulkheadBound
<1> USE DEF IInv
<1> DEFINE Inside == {m \in Message \ Malformed :
                       TenantOf[m] = t /\ stage[w][m] \in InBulkhead \cup Running}
           InHand == {m \in Message \ Malformed : TenantOf[m] = t /\ stage[w][m] = "inHand"}
<1>0. MaxConcurrent \in Nat /\ Capacity \in Nat
  BY StreamAssumption
<1>1. /\ IsFiniteSet(Queued(w, t)) /\ Cardinality(Queued(w, t)) \in Nat
      /\ IsFiniteSet(Admitted(w, t)) /\ Cardinality(Admitted(w, t)) \in Nat
  BY FiniteBulkheads
<1>2. IsFiniteSet(InHand) /\ Cardinality(InHand) \in 0..1
  <2>1. CASE InHand = {}
    BY <2>1, FS_EmptySet
  <2>2. CASE \E m \in InHand : TRUE
    <3>1. PICK m \in InHand : TRUE
      BY <2>2
    <3>2. InHand = {m}
      BY <3>1 DEF Balanced
    <3>3. IsFiniteSet({m}) /\ Cardinality({m}) = 1
      BY FS_Singleton
    <3> HIDE DEF InHand
    <3>4. IsFiniteSet(InHand) /\ Cardinality(InHand) \in 0..1
      BY <3>2, <3>3
    <3> QED
      BY <3>4
  <2> QED
    BY <2>1, <2>2
<1>3. Inside \subseteq (Queued(w, t) \cup InHand) \cup Admitted(w, t)
  BY DEF InBulkhead, Queued, Admitted
<1>4. Cardinality(Queued(w, t)) <= Capacity
  BY DEF Balanced
<1>5. Cardinality(Admitted(w, t)) <= MaxConcurrent
  <2>1. CASE Alive(w)
    <3>1. permits[w][t] + Cardinality(Admitted(w, t)) = MaxConcurrent
      BY <2>1 DEF PermitsAddUp
    <3>2. permits[w][t] \in Nat
      BY <1>0 DEF TypeOK
    <3> QED
      BY <1>0, <1>1, <3>1, <3>2
  <2>2. CASE ~Alive(w)
    <3>1. Admitted(w, t) = {}
      BY <2>2 DEF Placed, Admitted, Running, Settling
    <3> QED
      BY <1>0, <3>1, FS_EmptySet
  <2> QED
    BY <2>1, <2>2
<1> DEFINE A == Queued(w, t) \cup InHand
<1> HIDE DEF InHand
<1>6. /\ IsFiniteSet(A)
      /\ Cardinality(A) = Cardinality(Queued(w, t)) + Cardinality(InHand)
                          - Cardinality(Queued(w, t) \cap InHand)
  BY <1>1, <1>2, FS_Union
<1>7. Cardinality(Queued(w, t) \cap InHand) \in Nat
  BY <1>1, FS_Intersection, FS_CardinalityType
<1>8. Cardinality(A) <= Capacity + 1 /\ Cardinality(A) \in Nat
  BY <1>0, <1>1, <1>2, <1>4, <1>6, <1>7, FS_CardinalityType
<1> HIDE DEF A
<1>9. /\ IsFiniteSet(A \cup Admitted(w, t))
      /\ Cardinality(A \cup Admitted(w, t)) = Cardinality(A) + Cardinality(Admitted(w, t))
                                              - Cardinality(A \cap Admitted(w, t))
  BY <1>1, <1>6, FS_Union
<1>10. Cardinality(A \cap Admitted(w, t)) \in Nat
  BY <1>1, <1>6, FS_Intersection, FS_CardinalityType
<1>11. Cardinality(A \cup Admitted(w, t)) <= MaxConcurrent + Capacity + 1
  BY <1>0, <1>1, <1>5, <1>8, <1>9, <1>10
<1>12. Inside \subseteq A \cup Admitted(w, t)
  BY <1>3 DEF A
<1>13. IsFiniteSet(Inside) /\ Cardinality(Inside) <= Cardinality(A \cup Admitted(w, t))
  BY <1>9, <1>12, FS_Subset
<1>14. Cardinality(Inside) \in Nat /\ Cardinality(A \cup Admitted(w, t)) \in Nat
  BY <1>9, <1>13, FS_CardinalityType
<1> HIDE DEF Inside
<1>15. Cardinality(Inside) <= MaxConcurrent + Capacity + 1
  BY <1>0, <1>11, <1>13, <1>14
<1> QED
  BY <1>15 DEF Inside

(***************************************************************************)
(* The theorems.                                                           *)
(***************************************************************************)

\* The strengthening is inductive.
THEOREM Inductive == Spec => []IInv
<1>1. IInv /\ [Next]_vars => IInv'
  BY InvStep
<1> QED
  BY InitInv, <1>1, PTL DEF Spec

\* Every variable of the streams and of the worker processes stays in its
\* range; in particular a semaphore never has more permits than its cap.
THEOREM StreamTypeCorrect == Spec => []TypeOK
<1>1. IInv => TypeOK
  BY DEF IInv
<1> QED
  BY Inductive, <1>1, PTL

\* A message is touched by one run of one worker process only, whatever
\* fails, dies or is stopped.
THEOREM OneHandlerOnly == Spec => []OneHandler
<1>1. IInv => OneHandler
  BY DEF IInv
<1> QED
  BY Inductive, <1>1, PTL

\* TenantBulkheadRouter gives every permit back, in whatever way a handler
\* ended: the permits of a tenant and its running handlers add up to the cap.
THEOREM PermitsAreKept == Spec => []PermitsAddUp
<1>1. IInv => PermitsAddUp
  BY DEF IInv
<1> QED
  BY Inductive, <1>1, PTL

\* The memory a tenant can take in a worker is bounded: its semaphore, its
\* channel, and the one handler in the hand of the drain task.
THEOREM BulkheadIsBounded == Spec => []BulkheadBound
  BY Inductive, BoundHolds, PTL

(***************************************************************************)
(* The streams implement the queue.                                        *)
(***************************************************************************)

\* What is pending was sent, and what has an outcome is behind the cursor; what
\* a process has not worked on yet has no outcome, and what it has not copied
\* yet is not dead-lettered.
Fresh ==
  /\ \A m \in Message : pel[m] # None => m \in sent
  /\ \A m \in Message : result[m] # "none" \/ m \in dlq => Id[m] <= cursor[PartitionOf[m]]
  /\ \A w \in Worker, m \in Message :
       /\ stage[w][m] \in InBulkhead \cup {"batch", "work"} => result[m] = "none"
       /\ stage[w][m] \in InBulkhead \cup {"batch", "work", "ack", "del", "dlq"} => m \notin dlq

StopsAllowed == \A w \in Worker : host[w] = "stopping" => "stop" \in Faults

LEMMA Numbers ==
  ASSUME TypeOK
  PROVE  /\ sent \subseteq Message /\ stream \subseteq sent /\ None \notin Worker
         /\ \A m \in Message : Id[m] \in Nat \ {0} /\ Id[m] \in Int /\ PartitionOf[m] \in Partition
         /\ \A p \in Partition : cursor[p] \in Int
<1>1. \A p \in Partition : cursor[p] \in {-1, 0} \cup {Id[m] : m \in Message}
  BY DEF TypeOK
<1> QED
  BY <1>1, StreamAssumption DEF TypeOK

\* A handler of a message that has no outcome works on it, and only one that is
\* not on the dead-letter stream copies it there.
LEMMA HandlerIsFresh ==
  ASSUME TypeOK, Placed, Settled, Ordered, Fresh, NEW w \in Worker, NEW m \in Message,
         BulkheadStep(w, m) \/ WorkStep(w, m) \/ SettleStep(w, m)
  PROVE  /\ stage'[w][m] \in InBulkhead \cup {"batch", "work"} => result'[m] = "none"
         /\ stage'[w][m] \in InBulkhead \cup {"batch", "work", "ack", "del", "dlq"} => m \notin dlq'
         /\ \/ result' = result /\ UNCHANGED <<stream, pel>> /\ dlq' = dlq
            \/ /\ result' = result /\ dlq' = dlq
               /\ result[m] # "none" \/ m \in dlq
            \/ /\ result' = result /\ UNCHANGED <<stream, pel>>
               /\ m \notin dlq /\ dlq' = dlq \cup {m}
            \/ /\ UNCHANGED <<stream, pel>> /\ dlq' = dlq
               /\ m \notin dlq /\ result[m] = "none"
               /\ \E r \in {"booked", "refused", "failed"} : result' = [result EXCEPT ![m] = r]
<1>0. \A s \in Stage : At(w, m, s) => stage'[w][m] = s
  BY AtMoves DEF TypeOK
<1> USE DEF Stage, InBulkhead, Running, Settling
<1>1. CASE BulkheadStep(w, m)
  <2>1. UNCHANGED <<redis, result>>
    BY <1>1 DEF BulkheadStep, Dispatch, DrainTakes, DrainStarts, Releases
  <2>2. CASE Dispatch(w, m)
    BY <1>0, <2>1, <2>2 DEF Dispatch, Oldest, Fresh, redis
  <2>3. CASE DrainTakes(w, m)
    BY <1>0, <2>1, <2>3 DEF DrainTakes, Oldest, Queued, Fresh, redis
  <2>4. CASE DrainStarts(w, m)
    BY <1>0, <2>1, <2>4 DEF DrainStarts, Fresh, redis
  <2>5. CASE Releases(w, m)
    BY <1>0, <2>1, <2>5 DEF Releases, redis
  <2> QED
    BY <1>1, <2>2, <2>3, <2>4, <2>5 DEF BulkheadStep
<1>2. CASE WorkStep(w, m)
  <2>1. /\ stage[w][m] = "work" /\ result[m] = "none" /\ m \notin dlq
        /\ stage'[w][m] \in {"ack", "dlq"} /\ UNCHANGED redis
    BY <1>0, <1>2 DEF WorkStep, Work, WorkThrows, Fresh
  <2>2. \E r \in {"none", "booked", "refused", "failed"} : result' = [result EXCEPT ![m] = r]
    BY <1>2, <2>1 DEF WorkStep, Work, WorkThrows
  <2>3. [result EXCEPT ![m] = "none"] = result
    BY <2>1 DEF TypeOK
  <2> QED
    BY <2>1, <2>2, <2>3 DEF redis
<1>3. CASE SettleStep(w, m)
  <2>1. result' = result
    BY <1>3 DEF SettleStep, Ack, Del, ToDlq, SettlingThrows
  <2>2. CASE Ack(w, m) \/ Del(w, m)
    BY <1>0, <2>1, <2>2 DEF Ack, Del, Ended, Fresh, Settled
  <2>3. CASE ToDlq(w, m)
    BY <1>0, <2>1, <2>3 DEF ToDlq, Fresh
  <2>4. CASE SettlingThrows(w, m)
    <3>1. /\ stage[w][m] \in Settling
          /\ stage'[w][m] = IF stage[w][m] \in {"ack", "del"} THEN "dlq" ELSE Ended(m)
          /\ Ended(m) \in {"over", "release"}
      BY <1>0, <2>4 DEF SettlingThrows, Ended
    <3>2. CASE stage[w][m] = "dlq"
      BY <2>1, <2>4, <3>1, <3>2 DEF SettlingThrows, Fresh, redis
    <3>3. CASE stage[w][m] # "dlq"
      <4>1. dlq' = dlq
        BY <2>4, <3>3 DEF SettlingThrows, redis
      <4>2. result[m] # "none" \/ m \in dlq
        BY <3>1, <3>3 DEF Settled
      <4> QED
        BY <2>1, <3>1, <3>3, <4>1, <4>2 DEF Fresh
    <3> QED
      BY <3>2, <3>3
  <2> QED
    BY <1>3, <2>2, <2>3, <2>4 DEF SettleStep
<1> QED
  BY <1>1, <1>2, <1>3

LEMMA FreshStep ==
  ASSUME IInv, Fresh, StopsAllowed, [Next]_vars
  PROVE  Fresh' /\ StopsAllowed'
<1> USE DEF IInv
<1>1. CASE \E m \in Message : Publish(m)
  BY <1>1 DEF Publish, process, Fresh, StopsAllowed
<1>2. ASSUME NEW w \in Worker, LifeStep(w)
      PROVE  Fresh' /\ StopsAllowed'
  <2>1. /\ UNCHANGED <<sent, redis, result>>
        /\ \A v \in Worker, m \in Message :
             stage'[v][m] = stage[v][m] \/ stage'[v][m] = "lost"
    BY <1>2, LifeMoves
  <2>2. \A v \in Worker : host'[v] = "stopping" => host[v] = "stopping" \/ "stop" \in Faults
    BY <1>2 DEF LifeStep, Start, Stop, Exit, Crash, Dies, TypeOK
  <2> QED
    BY <2>1, <2>2 DEF Fresh, StopsAllowed, redis, InBulkhead
<1>3. ASSUME NEW w \in Worker, NEW p \in Partition, ReadStep(w, p)
      PROVE  Fresh' /\ StopsAllowed'
  <2>1. /\ Delivered(w, p) /\ UNCHANGED <<sent, dlq, result, host>>
        /\ \A v \in Worker, m \in Message :
             stage'[v][m] = stage[v][m] \/ m \in NextEntries(p)
    BY <1>3, ReadMoves
  <2>2. /\ \A q \in Partition : q # p => cursor'[q] = cursor[q]
        /\ cursor[p] < cursor'[p]
        /\ cursor' \in [Partition -> {-1, 0} \cup {Id[m] : m \in Message}]
        /\ \A m \in Message : m \in NextEntries(p) =>
             m \in stream /\ PartitionOf[m] = p /\ Id[m] > cursor[p]
    BY <2>1, Delivery
  <2>3. \A m \in Message : m \in NextEntries(p) => result[m] = "none" /\ m \notin dlq
    BY <2>2, Numbers DEF Fresh
  <2>4. \A q \in Partition : cursor'[q] \in Int /\ cursor[q] <= cursor'[q]
    <3>1. \A q \in Partition : cursor'[q] \in {-1, 0} \cup {Id[m] : m \in Message}
      BY <2>2
    <3>2. \A q \in Partition : cursor'[q] \in Int
      BY <3>1, Numbers
    <3> QED
      BY <2>2, <3>2, Numbers
  <2>5. \A m \in Message : result[m] # "none" \/ m \in dlq => Id[m] <= cursor'[PartitionOf[m]]
    BY <2>4, Numbers DEF Fresh
  <2>6. \A m \in Message : pel'[m] # None => m \in sent
    BY <2>1, <2>2, Numbers DEF Fresh, Delivered
  <2> QED
    BY <2>1, <2>3, <2>5, <2>6 DEF Fresh, StopsAllowed
<1>4. ASSUME NEW w \in Worker, NEW p \in Partition, LoopStep(w, p)
      PROVE  Fresh' /\ StopsAllowed'
  <2>1. /\ \A q \in Partition : cursor'[q] = cursor[q] \/ (cursor[q] = -1 /\ cursor'[q] = 0)
        /\ UNCHANGED <<sent, dlq, result, host, stage>>
    BY <1>4, LoopMoves
  <2>2. \A m \in Message : result[m] # "none" \/ m \in dlq => Id[m] <= cursor'[PartitionOf[m]]
    BY <2>1, Numbers DEF Fresh
  <2>3. \A m \in Message : pel'[m] # None => pel[m] # None
    BY <1>4 DEF LoopStep, CreateGroup, CreateGroupFails, LoopEnds, redis
  <2> QED
    BY <2>1, <2>2, <2>3 DEF Fresh, StopsAllowed
<1>5. ASSUME NEW w \in Worker, NEW m \in Message,
             BulkheadStep(w, m) \/ WorkStep(w, m) \/ SettleStep(w, m)
      PROVE  Fresh' /\ StopsAllowed'
  <2>1. /\ stage[w][m] # "none" /\ UNCHANGED <<sent, cursor, host>>
        /\ stage'[w][m] # "none"
        /\ \A v \in Worker, n \in Message : v # w \/ n # m => stage'[v][n] = stage[v][n]
    BY <1>5, HandlerMoves
  <2>2. /\ dlq' \subseteq dlq \cup {m}
        /\ \A n \in Message : n # m => result'[n] = result[n] /\ pel'[n] = pel[n]
        /\ pel'[m] = pel[m] \/ pel'[m] = None
    BY <1>5, HandlerWrites
  <2>3. Id[m] <= cursor[PartitionOf[m]]
    BY <2>1 DEF Ordered
  <2>4. \A v \in Worker : v # w => stage'[v][m] = "none"
    BY <2>1 DEF OneHandler
  <2>5. /\ stage'[w][m] \in InBulkhead \cup {"batch", "work"} => result'[m] = "none"
        /\ stage'[w][m] \in InBulkhead \cup {"batch", "work", "ack", "del", "dlq"} => m \notin dlq'
    BY <1>5, HandlerIsFresh
  <2>6. \A n \in Message : result'[n] # "none" \/ n \in dlq' => Id[n] <= cursor'[PartitionOf[n]]
    BY <2>1, <2>2, <2>3 DEF Fresh
  <2>7. \A v \in Worker, n \in Message :
          /\ stage'[v][n] \in InBulkhead \cup {"batch", "work"} => result'[n] = "none"
          /\ stage'[v][n] \in InBulkhead \cup {"batch", "work", "ack", "del", "dlq"} => n \notin dlq'
    <3> SUFFICES ASSUME NEW v \in Worker, NEW n \in Message
                 PROVE
          /\ stage'[v][n] \in InBulkhead \cup {"batch", "work"} => result'[n] = "none"
          /\ stage'[v][n] \in InBulkhead \cup {"batch", "work", "ack", "del", "dlq"} => n \notin dlq'
      OBVIOUS
    <3>1. CASE n # m
      BY <2>1, <2>2, <3>1 DEF Fresh
    <3>2. CASE n = m /\ v = w
      BY <2>5, <3>2
    <3>3. CASE n = m /\ v # w
      BY <2>4, <3>3 DEF InBulkhead
    <3> QED
      BY <3>1, <3>2, <3>3
  <2>8. \A n \in Message : pel'[n] # None => n \in sent
    BY <2>2 DEF Fresh
  <2> QED
    BY <2>1, <2>6, <2>7, <2>8 DEF Fresh, StopsAllowed
<1>6. CASE UNCHANGED vars
  BY <1>6 DEF vars, redis, process, Fresh, StopsAllowed
<1> QED
  BY <1>1, <1>2, <1>3, <1>4, <1>5, <1>6, NextCases

LEMMA InitQueue == Init => Queue!Init /\ Fresh /\ StopsAllowed
  BY DEF Init, Queue!Init, Fresh, StopsAllowed, InBulkhead, Waiting, Pending

\* A new entry is behind all others of its stream, and ahead of the cursor.
LEMMA PublishRefines ==
  ASSUME IInv, Fresh, NEW m \in Message, Publish(m)
  PROVE  Queue!Post(m)
<1> USE DEF IInv
<1>1. /\ m \notin sent /\ sent' = sent \cup {m} /\ stream' = stream \cup {m}
      /\ UNCHANGED <<cursor, pel, dlq, result>>
  BY DEF Publish, process
<1>2. Id[m] > cursor[PartitionOf[m]]
  <2>1. CASE cursor[PartitionOf[m]] \in {-1, 0}
    BY <2>1, Numbers
  <2>2. CASE \E n \in sent : PartitionOf[n] = PartitionOf[m] /\ Id[n] = cursor[PartitionOf[m]]
    BY <1>1, <2>2, Numbers DEF Ordered
  <2> QED
    BY <2>1, <2>2, Numbers DEF Ordered
<1>3. \A n \in sent : <<m, n>> \notin Ahead
  BY <1>1, Numbers DEF Ahead, Ordered
<1>4. Waiting' = Waiting \cup {m}
  BY <1>1, <1>2 DEF Waiting
<1>5. sent' \ Waiting' = sent \ Waiting
  BY <1>1, <1>4
<1>6. Pending' = Pending
  <2>1. pel[m] = None
    BY <1>1 DEF Fresh
  <2> QED
    BY <1>1, <2>1 DEF Pending
<1> QED
  BY <1>1, <1>3, <1>5, <1>6 DEF Queue!Post

\* A read takes the entries it delivers, also when the reply is lost.
LEMMA ReadRefines ==
  ASSUME IInv, NEW w \in Worker, NEW p \in Partition, ReadStep(w, p)
  PROVE  \E S \in SUBSET Message : Queue!Take(S)
<1> USE DEF IInv
<1> DEFINE S == NextEntries(p)
<1>1. Delivered(w, p) /\ UNCHANGED <<sent, stream, dlq, result>>
  BY ReadMoves
<1>2. /\ cursor' \in [Partition -> {-1, 0} \cup {Id[m] : m \in Message}]
      /\ \A q \in Partition : q # p => cursor'[q] = cursor[q]
      /\ \A m \in Message : m \in S =>
           m \in stream /\ PartitionOf[m] = p /\ Id[m] > cursor[p] /\ Id[m] <= cursor'[p]
      /\ \A m \in stream : PartitionOf[m] = p /\ cursor[p] < Id[m] /\ Id[m] <= cursor'[p] =>
           m \in S
  BY <1>1, Delivery
<1>3. S # {} /\ S \subseteq stream
  BY <1>1 DEF Delivered, NextEntries, Backlog
<1>4. cursor'[p] \in Int
  <2>1. cursor'[p] \in {-1, 0} \cup {Id[m] : m \in Message}
    BY <1>2
  <2> QED
    BY <2>1, Numbers
<1> HIDE DEF S
<1>5. S \subseteq Waiting
  BY <1>2, <1>3, Numbers DEF Waiting
<1>6. Waiting' = Waiting \ S
  <2>1. \A m \in stream : PartitionOf[m] # p => cursor'[PartitionOf[m]] = cursor[PartitionOf[m]]
    BY <1>2, Numbers
  <2>2. ASSUME NEW m \in stream, PartitionOf[m] # p
        PROVE  m \in Waiting' <=> m \in Waiting \ S
    BY <1>1, <1>2, <2>1, <2>2, Numbers DEF Waiting
  <2>3. ASSUME NEW m \in stream, PartitionOf[m] = p
        PROVE  m \in Waiting' <=> m \in Waiting \ S
    <3>1. /\ Id[m] \in Int /\ cursor[p] \in Int
          /\ m \in Waiting' <=> Id[m] > cursor'[p]
          /\ m \in Waiting <=> Id[m] > cursor[p]
      BY <1>1, <2>3, Numbers DEF Waiting
    <3>2. m \in S => Id[m] > cursor[p] /\ Id[m] <= cursor'[p]
      BY <1>2, Numbers
    <3>3. cursor[p] < Id[m] /\ Id[m] <= cursor'[p] => m \in S
      BY <1>2, <2>3
    <3>4. cursor[p] <= cursor'[p]
      BY <1>1, Delivery, <1>4, <3>1
    <3> QED
      BY <1>4, <3>1, <3>2, <3>3, <3>4
  <2>4. Waiting \subseteq stream /\ Waiting' \subseteq stream
    BY <1>1 DEF Waiting
  <2> QED
    BY <2>2, <2>3, <2>4
<1>7. Pending' = Pending \cup S
  <2>1. \A m \in Message : pel'[m] = IF m \in S THEN w ELSE pel[m]
    BY <1>1 DEF Delivered, S
  <2>2. \A m \in stream : m \in Pending' <=> m \in Pending \cup S
    BY <1>1, <2>1, Numbers DEF Pending
  <2>3. Pending \subseteq stream /\ Pending' \subseteq stream
    BY <1>1 DEF Pending
  <2> QED
    BY <1>3, <2>2, <2>3
<1>8. /\ S \subseteq sent \ (sent \ Waiting)
      /\ sent \ (sent \ Waiting) \subseteq Waiting
      /\ sent' \ Waiting' = (sent \ Waiting) \cup S
  BY <1>1, <1>3, <1>5, <1>6, Numbers
<1>9. \A m \in S, n \in Waiting : <<n, m>> \in Ahead => n \in S
  <2> SUFFICES ASSUME NEW m \in S, NEW n \in Waiting, <<n, m>> \in Ahead
               PROVE  n \in S
    OBVIOUS
  <2>1. m \in Message /\ n \in stream /\ n \in Message /\ Id[n] > cursor[PartitionOf[n]]
    BY <1>3, Numbers DEF Waiting
  <2>2. PartitionOf[n] = PartitionOf[m] /\ Id[n] < Id[m]
    BY DEF Ahead
  <2>3. PartitionOf[m] = p /\ Id[m] <= cursor'[p]
    BY <1>2, <2>1
  <2>4. Id[m] \in Int /\ Id[n] \in Int /\ cursor[p] \in Int
    BY <2>1, Numbers
  <2>5. cursor[p] < Id[n] /\ Id[n] <= cursor'[p]
    BY <1>4, <2>1, <2>2, <2>3, <2>4
  <2> QED
    BY <1>2, <2>1, <2>2, <2>3, <2>5
<1>10. Queue!Take(S)
  BY <1>1, <1>3, <1>7, <1>8, <1>9 DEF Queue!Take
<1>11. S \in SUBSET Message
  BY <1>3, Numbers
<1> QED
  BY <1>10, <1>11

\* A loop only ever empties the pending list of its consumer, when it ends.
LEMMA LoopRefines ==
  ASSUME IInv, StopsAllowed, NEW w \in Worker, NEW p \in Partition, LoopStep(w, p)
  PROVE  UNCHANGED Queue!queue \/ \E S \in SUBSET Message : Queue!Forget(S)
<1> USE DEF IInv
<1>1. /\ \A q \in Partition : cursor'[q] = cursor[q] \/ (cursor[q] = -1 /\ cursor'[q] = 0)
      /\ UNCHANGED <<sent, stream, dlq, result>>
  BY LoopMoves
<1>2. Waiting' = Waiting
  <2>1. \A m \in Message : Id[m] > cursor[PartitionOf[m]] <=> Id[m] > cursor'[PartitionOf[m]]
    BY <1>1, Numbers
  <2> QED
    BY <1>1, <2>1, Numbers DEF Waiting
<1>3. CASE pel' = pel
  BY <1>1, <1>2, <1>3 DEF Queue!queue, Pending
<1>4. CASE pel' # pel
  <2>1. /\ host[w] = "stopping"
        /\ pel' = [m \in Message |-> IF PartitionOf[m] = p /\ pel[m] = w THEN None ELSE pel[m]]
    BY <1>4 DEF LoopStep, CreateGroup, CreateGroupFails, LoopEnds, redis
  <2>2. Pending' = Pending \ {m \in Pending : PartitionOf[m] = p /\ pel[m] = w}
    <3>1. Pending \subseteq Message
      BY Numbers DEF Pending
    <3> QED
      BY <1>1, <2>1, <3>1, Numbers DEF Pending
  <2>3. "stop" \in Faults
    BY <2>1 DEF StopsAllowed
  <2>4. {m \in Pending : PartitionOf[m] = p /\ pel[m] = w} \in SUBSET Message
    BY Numbers DEF Pending
  <2>5. Queue!Forget({m \in Pending : PartitionOf[m] = p /\ pel[m] = w})
    BY <1>1, <1>2, <2>2, <2>3 DEF Queue!Forget
  <2> QED
    BY <2>4, <2>5
<1> QED
  BY <1>3, <1>4

\* A handler processes, buries or settles its own request, or nothing happens
\* to it.
LEMMA HandlerRefines ==
  ASSUME IInv, Fresh, NEW w \in Worker, NEW m \in Message,
         BulkheadStep(w, m) \/ WorkStep(w, m) \/ SettleStep(w, m)
  PROVE  \/ UNCHANGED Queue!queue
         \/ Queue!Bury(m) \/ Queue!Settle(m)
         \/ \E r \in {"booked", "refused", "failed"} : Queue!Process(m, r)
<1> USE DEF IInv
<1>1. /\ stage[w][m] # "none" /\ UNCHANGED <<sent, cursor>>
  BY HandlerMoves
<1>2. /\ stream' \in SUBSET stream /\ stream \ stream' \subseteq {m}
      /\ \A n \in Message : n # m => pel'[n] = pel[n]
      /\ pel'[m] = pel[m] \/ pel'[m] = None
  BY HandlerWrites
<1>3. m \in sent \ Waiting
  BY <1>1, Numbers DEF Ordered, Waiting
<1>4. Waiting' = Waiting
  BY <1>1, <1>2, <1>3 DEF Waiting
<1>5. Pending' = Pending \/ (m \in Pending /\ Pending' = Pending \ {m})
  <2>1. \A n \in Message : n # m => (n \in Pending' <=> n \in Pending)
    BY <1>2 DEF Pending
  <2>2. m \in Pending' => m \in Pending
    BY <1>2 DEF Pending
  <2>3. Pending \subseteq Message /\ Pending' \subseteq Message
    BY <1>2, Numbers DEF Pending
  <2> QED
    BY <2>1, <2>2, <2>3
<1>6. UNCHANGED <<stream, pel>> => Pending' = Pending
  BY DEF Pending
<1>7. \/ result' = result /\ UNCHANGED <<stream, pel>> /\ dlq' = dlq
      \/ /\ result' = result /\ dlq' = dlq
         /\ result[m] # "none" \/ m \in dlq
      \/ /\ result' = result /\ UNCHANGED <<stream, pel>>
         /\ m \notin dlq /\ dlq' = dlq \cup {m}
      \/ /\ UNCHANGED <<stream, pel>> /\ dlq' = dlq
         /\ m \notin dlq /\ result[m] = "none"
         /\ \E r \in {"booked", "refused", "failed"} : result' = [result EXCEPT ![m] = r]
  BY HandlerIsFresh
<1> QED
  BY <1>1, <1>3, <1>4, <1>5, <1>6, <1>7
     DEF Queue!queue, Queue!Bury, Queue!Settle, Queue!Process

LEMMA StepRefines ==
  ASSUME IInv, Fresh, StopsAllowed, [Next]_vars
  PROVE  [Queue!Next]_(Queue!queue)
<1>1. CASE \E m \in Message : Publish(m)
  BY <1>1, PublishRefines DEF Queue!Next
<1>2. CASE \E w \in Worker : LifeStep(w)
  <2>1. UNCHANGED <<sent, redis, result>>
    BY <1>2, LifeMoves DEF IInv
  <2> QED
    BY <2>1 DEF redis, Queue!queue, Waiting, Pending
<1>3. CASE \E w \in Worker, p \in Partition : ReadStep(w, p)
  BY <1>3, ReadRefines DEF Queue!Next
<1>4. CASE \E w \in Worker, p \in Partition : LoopStep(w, p)
  BY <1>4, LoopRefines DEF Queue!Next
<1>5. ASSUME NEW w \in Worker, NEW m \in Message,
             BulkheadStep(w, m) \/ WorkStep(w, m) \/ SettleStep(w, m)
      PROVE  [Queue!Next]_(Queue!queue)
  BY <1>5, HandlerRefines DEF Queue!Next
<1>6. CASE UNCHANGED vars
  BY <1>6 DEF vars, redis, Queue!queue, Waiting, Pending
<1> QED
  BY <1>1, <1>2, <1>3, <1>4, <1>5, <1>6, NextCases

\* PartitionedStreamHost, StreamPartitionWorker and TenantBulkheadRouter
\* together implement the queue, whatever fails, dies or is stopped: entries
\* are given out in order and once, a request is processed once at most and
\* never after it was dead-lettered, and only the pending list of a process
\* that is stopped gracefully is ever dropped.
THEOREM StreamsImplementQueue == Spec => ImplementsQueue
<1>1. IInv /\ (Fresh /\ StopsAllowed) /\ [Next]_vars => (Fresh /\ StopsAllowed)'
  BY FreshStep
<1>2. IInv /\ (Fresh /\ StopsAllowed) /\ [Next]_vars => [Queue!Next]_(Queue!queue)
  BY StepRefines
<1> QED
  BY Inductive, InitQueue, <1>1, <1>2, PTL DEF Spec, ImplementsQueue, Queue!Spec

\* The queue owes every request until it is processed or buried, unless it may
\* forget.
LEMMA QueueOwes ==
  ASSUME "stop" \notin Faults, TypeOK, Queue!Owed, [Queue!Next]_(Queue!queue)
  PROVE  Queue!Owed'
<1> USE DEF Queue!Owed
<1>1. CASE \E m \in Message : Queue!Post(m)
  BY <1>1 DEF Queue!Post
<1>2. CASE \E S \in SUBSET Message : Queue!Take(S)
  BY <1>2 DEF Queue!Take
<1>3. ASSUME NEW m \in Message, NEW r \in {"booked", "refused", "failed"}, Queue!Process(m, r)
      PROVE  Queue!Owed'
  <2>1. \A n \in Message : result'[n] = IF n = m THEN r ELSE result[n]
    BY <1>3 DEF Queue!Process, TypeOK
  <2> QED
    BY <1>3, <2>1 DEF Queue!Process, TypeOK
<1>4. CASE \E m \in Message : Queue!Bury(m) \/ Queue!Settle(m)
  BY <1>4 DEF Queue!Bury, Queue!Settle
<1>5. CASE UNCHANGED Queue!queue
  BY <1>5 DEF Queue!queue
<1> QED
  BY <1>1, <1>2, <1>3, <1>4, <1>5 DEF Queue!Next, Queue!Forget

\* Without a graceful stop, no failure of Redis or of the database, no
\* exception and no crash makes the system forget a request: it is processed,
\* dead-lettered, unread, or on a pending list.
THEOREM NothingForgotten ==
  ASSUME "stop" \notin Faults
  PROVE  Spec => []StillOwed
<1>1. Init => Queue!Owed
  BY DEF Init, Queue!Owed
<1>2. IInv /\ Queue!Owed /\ [Queue!Next]_(Queue!queue) => Queue!Owed'
  BY QueueOwes DEF IInv
<1>3. IInv /\ Queue!Owed => StillOwed
  BY DEF IInv, TypeOK, Queue!Owed, StillOwed, Waiting, Pending
<1>4. ImplementsQueue => [][Queue!Next]_(Queue!queue)
  BY PTL DEF ImplementsQueue, Queue!Spec
<1> QED
  BY Inductive, StreamsImplementQueue, <1>1, <1>2, <1>3, <1>4, PTL DEF Spec
=============================================================================
