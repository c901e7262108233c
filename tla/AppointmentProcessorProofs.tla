--------------------- MODULE AppointmentProcessorProofs ---------------------
(***************************************************************************)
(* Theorems about AppointmentProcessor, for any number of requests,        *)
(* technicians, bays and status requests.                                  *)
(***************************************************************************)
EXTENDS AppointmentProcessor, TLAPS

(***************************************************************************)
(* The step of a handler, of the faults around it, of Redis or of the API: *)
(* one case per action, so that the proofs below can cite it.              *)
(***************************************************************************)
LEMMA NextCases ==
  ASSUME Next
  PROVE  \/ \E m \in Message : Step(m)
         \/ \E m \in Message : Fault(m)
         \/ \E k \in Resource \X Time : LeaseExpires(k)
         \/ \E e \in Editor : Edit(e)
  BY DEF Next

(***************************************************************************)
(* Type correctness.                                                       *)
(***************************************************************************)
LEMMA ReleasedType ==
  ASSUME lock \in LockTable, NEW r, NEW m \in Message
  PROVE  Released(r, m) \in LockTable
  BY DEF LockTable, Released

LEMMA AcquiredType ==
  ASSUME lock \in LockTable, NEW r, NEW m \in Message
  PROVE  Acquired(r, m) \in LockTable
  BY DEF LockTable, Acquired

LEMMA InitTypeOK == Init => TypeOK
  BY ProcessorAssumption DEF Init, TypeOK, Label, Awaiting, LockTable

LEMMA StepTypeOK ==
  ASSUME TypeOK, NEW m \in Message, Step(m)
  PROVE  TypeOK'
<1> USE ProcessorAssumption DEF search, names, chosen, GoTo, TypeOK, Label, Awaiting, Stopped
<1>1. CASE Begin(m)
  <2>1. WantTech[m] \in Tech \cup {None} /\ WantBay[m] \in Bay \cup {None} /\ Skilled[m] \subseteq Tech
    OBVIOUS
  <2>2. tech' \in [Message -> Tech \cup {None}] /\ bay' \in [Message -> Bay \cup {None}]
    BY <1>1, <2>1 DEF Begin
  <2>3. techTodo' \in [Message -> SUBSET Tech]
    BY <1>1, <2>1 DEF Begin
  <2>4. techLock' \in [Message -> Tech \cup {None}] /\ bayLock' \in [Message -> Bay \cup {None}]
    BY <1>1, <2>1 DEF Begin
  <2>5. pc' \in [Message -> Label]
    BY <1>1 DEF Begin
  <2> QED
    BY <1>1, <2>2, <2>3, <2>4, <2>5 DEF Begin
<1>2. CASE NextTech(m)
  BY <1>2 DEF NextTech
<1>3. CASE NextBay(m)
  BY <1>3 DEF NextBay
<1>4. CASE BaysExhausted(m) \/ TechsExhausted(m)
  BY <1>4 DEF BaysExhausted, TechsExhausted
<1>5. CASE LockTech(m)
  BY <1>5, AcquiredType DEF LockTech
<1>6. CASE LockBay(m)
  BY <1>6, AcquiredType DEF LockBay
<1>7. CASE DropTech(m)
  BY <1>7, ReleasedType DEF DropTech
<1>8. CASE CheckTech(m)
  BY <1>8 DEF CheckTech
<1>9. CASE CheckBay(m)
  BY <1>9 DEF CheckBay
<1>10. CASE DropPair(m) \/ DropBay(m)
  BY <1>10, ReleasedType DEF DropPair, DropBay
<1>11. CASE Insert(m)
  BY <1>11 DEF Insert, RowStatus
<1>12. CASE Publish(m) \/ MarkFailed(m)
  BY <1>12 DEF Publish, MarkFailed
<1>13. CASE ReleaseTech(m) \/ ReleaseBay(m)
  BY <1>13, ReleasedType DEF ReleaseTech, ReleaseBay
<1> QED
  BY <1>1, <1>2, <1>3, <1>4, <1>5, <1>6, <1>7, <1>8, <1>9, <1>10, <1>11, <1>12, <1>13
  DEF Step

LEMMA FaultTypeOK ==
  ASSUME TypeOK, NEW m \in Message, Fault(m)
  PROVE  TypeOK'
<1> USE ProcessorAssumption DEF search, names, chosen, GoTo, TypeOK, Label, Awaiting, Stopped
<1>1. CASE AwaitThrows(m) \/ ReleaseThrows(m) \/ Crash(m)
  BY <1>1 DEF AwaitThrows, ReleaseThrows, Crash
<1>2. CASE LockReplyLost(m)
  BY <1>2, AcquiredType DEF LockReplyLost
<1>3. CASE CommitReplyLost(m)
  BY <1>3 DEF CommitReplyLost, RowStatus
<1>4. CASE PublishThrows(m)
  BY <1>4 DEF PublishThrows
<1> QED
  BY <1>1, <1>2, <1>3, <1>4 DEF Fault

LEMMA OtherTypeOK ==
  ASSUME TypeOK,
         \/ \E k \in Resource \X Time : LeaseExpires(k)
         \/ \E e \in Editor : Edit(e)
         \/ UNCHANGED vars
  PROVE  TypeOK'
<1> USE ProcessorAssumption DEF search, names, chosen, TypeOK
<1>1. CASE \E k \in Resource \X Time : LeaseExpires(k)
  BY <1>1 DEF LeaseExpires, LockTable
<1>2. ASSUME NEW e \in Editor, Edit(e)
      PROVE  TypeOK'
  <2>1. CASE UpdateStatusReads(e)
    BY <2>1 DEF UpdateStatusReads, ValidTransitions, RowStatus
  <2>2. CASE CancelReads(e)
    BY <2>2 DEF CancelReads, RowStatus
  <2>3. CASE WriteStatus(e)
    BY <2>3 DEF WriteStatus
  <2> QED
    BY <1>2, <2>1, <2>2, <2>3 DEF Edit
<1>3. CASE UNCHANGED vars
  BY <1>3 DEF vars
<1> QED
  BY <1>1, <1>2, <1>3

(***************************************************************************)
(* Every handler is always at one of its awaits with locals, locks, rows   *)
(* and cached status of the right kind, whatever fails around it.          *)
(***************************************************************************)
THEOREM TypeCorrect == Spec => []TypeOK
<1>1. TypeOK /\ [Next]_vars => TypeOK'
  BY NextCases, StepTypeOK, FaultTypeOK, OtherTypeOK
<1> QED
  BY InitTypeOK, <1>1, PTL DEF Spec

(***************************************************************************)
(* Frames: what a step of one handler leaves alone of another one.         *)
(***************************************************************************)
Acts(m) == Step(m) \/ Fault(m)

LEMMA OthersUntouched ==
  ASSUME TypeOK, NEW m \in Message, Acts(m), NEW n \in Message, n # m
  PROVE  /\ pc'[n] = pc[n] /\ tryTech'[n] = tryTech[n]
         /\ techTodo'[n] = techTodo[n] /\ bayTodo'[n] = bayTodo[n]
         /\ techLock'[n] = techLock[n] /\ bayLock'[n] = bayLock[n]
         /\ tech'[n] = tech[n] /\ bay'[n] = bay[n]
         /\ status'[n] = status[n]
<1> USE DEF TypeOK, search, names, chosen, GoTo
<1>1. CASE Begin(m)
  BY <1>1 DEF Begin
<1>2. CASE NextTech(m)
  BY <1>2 DEF NextTech
<1>3. CASE NextBay(m)
  BY <1>3 DEF NextBay
<1>4. CASE BaysExhausted(m) \/ TechsExhausted(m)
  BY <1>4 DEF BaysExhausted, TechsExhausted
<1>5. CASE LockTech(m) \/ LockBay(m) \/ DropTech(m)
  BY <1>5 DEF LockTech, LockBay, DropTech
<1>6. CASE CheckTech(m) \/ CheckBay(m)
  BY <1>6 DEF CheckTech, CheckBay
<1>7. CASE DropPair(m) \/ DropBay(m) \/ ReleaseTech(m) \/ ReleaseBay(m)
  BY <1>7 DEF DropPair, DropBay, ReleaseTech, ReleaseBay
<1>8. CASE Insert(m) \/ Publish(m) \/ MarkFailed(m)
  BY <1>8 DEF Insert, Publish, MarkFailed
<1>9. CASE Fault(m)
  BY <1>9 DEF Fault, AwaitThrows, LockReplyLost, CommitReplyLost, PublishThrows, ReleaseThrows, Crash
<1> QED
  BY <1>1, <1>2, <1>3, <1>4, <1>5, <1>6, <1>7, <1>8, <1>9 DEF Acts, Step

\* The value compare of the release script keeps the lock of another token.
LEMMA ReleasedOthers ==
  ASSUME lock \in LockTable, NEW m \in Message, NEW r,
         NEW k \in Resource \X Time, lock[k] # Token[m]
  PROVE  Released(r, m)[k] = lock[k]
  BY DEF LockTable, Released

\* SET NX leaves every key that was present.
LEMMA AcquiredOthers ==
  ASSUME lock \in LockTable, NEW m \in Message, NEW r, Free(r, m),
         NEW k \in Resource \X Time, lock[k] # None
  PROVE  Acquired(r, m)[k] = lock[k]
  BY DEF LockTable, Acquired, Free

LEMMA KeyType ==
  ASSUME NEW r \in Resource, NEW m \in Message
  PROVE  Key(r, m) \in Resource \X Time
  BY DEF Key, Time

LEMMA AcquiredOwn ==
  ASSUME lock \in LockTable, NEW m \in Message, NEW r \in Resource
  PROVE  Acquired(r, m)[Key(r, m)] = Token[m]
  BY KeyType DEF LockTable, Acquired

\* A key under the token of one handler survives the steps of all others.
LEMMA OthersKeepTheirLocks ==
  ASSUME TypeOK, OwnTokens, NEW m \in Message, Acts(m),
         NEW n \in Message, n # m,
         NEW k \in Resource \X Time, lock[k] = Token[n]
  PROVE  lock'[k] = Token[n]
<1>1. lock[k] # Token[m] /\ lock[k] # None
  BY ProcessorAssumption DEF OwnTokens
<1>2. lock \in LockTable
  BY DEF TypeOK
<1>3. lock' = lock \/ (\E r : lock' = Released(r, m)) \/ (\E r : Free(r, m) /\ lock' = Acquired(r, m))
  <2>1. CASE Step(m)
    BY <2>1 DEF Step, Begin, NextTech, NextBay, BaysExhausted, TechsExhausted, LockTech, LockBay,
       DropTech, CheckTech, CheckBay, DropPair, DropBay, Insert, Publish, MarkFailed,
       ReleaseTech, ReleaseBay
  <2>2. CASE Fault(m)
    BY <2>2 DEF Fault, AwaitThrows, LockReplyLost, CommitReplyLost, PublishThrows, ReleaseThrows, Crash
  <2> QED
    BY <2>1, <2>2 DEF Acts
<1> QED
  BY <1>1, <1>2, <1>3, ReleasedOthers, AcquiredOthers

(***************************************************************************)
(* The conjuncts of the inductive invariant, one at a time.                *)
(***************************************************************************)
LEMMA InitIInv ==
  Init => /\ IInv /\ HoldersKeepLocks /\ EditsHaveRows
          /\ SlotStillFree /\ SlotsAreExclusive /\ EditsGoForward
<1> SUFFICES ASSUME Init
             PROVE  /\ IInv /\ HoldersKeepLocks /\ EditsHaveRows
                    /\ SlotStillFree /\ SlotsAreExclusive /\ EditsGoForward
  OBVIOUS
<1>1. TypeOK
  BY InitTypeOK
<1>2. \A m \in Message : pc[m] = "queued" /\ status[m] = "none"
  BY DEF Init
<1>3. PairOnTrial /\ PairQualifies /\ HoldersKeepLocks /\ StillFree /\ SlotStillFree
  BY <1>2 DEF Init, PairOnTrial, PairQualifies, HoldersKeepLocks, StillFree, SlotStillFree, Trying
<1>4. RowsAfterInsert /\ NoDoubleBooking /\ CapableBooking /\ SlotsAreExclusive
  BY <1>2 DEF RowsAfterInsert, NoDoubleBooking, CapableBooking, SlotsAreExclusive, Active
<1>5. EditsStayValid /\ EditsHaveRows /\ EditsGoForward
  BY DEF Init, EditsStayValid, EditsHaveRows, EditsGoForward
<1> QED
  BY <1>1, <1>3, <1>4, <1>5 DEF IInv

LEMMA RowsAfterInsertStep ==
  ASSUME TypeOK, RowsAfterInsert, NEW m \in Message, Acts(m)
  PROVE  RowsAfterInsert'
<1> SUFFICES ASSUME NEW n \in Message, status'[n] # "none"
             PROVE  pc'[n] \notin Awaiting
  BY DEF RowsAfterInsert
<1>1. CASE n # m
  BY <1>1, OthersUntouched DEF RowsAfterInsert
<1>2. CASE n = m
  <2> USE <1>2 DEF TypeOK, RowsAfterInsert, Awaiting, GoTo, search, names, chosen
  <2>1. CASE Begin(m)
    BY <2>1 DEF Begin
  <2>2. CASE NextTech(m) \/ NextBay(m) \/ BaysExhausted(m) \/ TechsExhausted(m)
    BY <2>2 DEF NextTech, NextBay, BaysExhausted, TechsExhausted
  <2>3. CASE LockTech(m) \/ LockBay(m) \/ DropTech(m)
    BY <2>3 DEF LockTech, LockBay, DropTech
  <2>4. CASE CheckTech(m) \/ CheckBay(m) \/ DropPair(m) \/ DropBay(m)
    BY <2>4 DEF CheckTech, CheckBay, DropPair, DropBay
  <2>5. CASE Insert(m) \/ Publish(m) \/ MarkFailed(m) \/ ReleaseTech(m) \/ ReleaseBay(m)
    BY <2>5 DEF Insert, Publish, MarkFailed, ReleaseTech, ReleaseBay
  <2>6. CASE Fault(m)
    BY <2>6 DEF Fault, AwaitThrows, LockReplyLost, CommitReplyLost, PublishThrows, ReleaseThrows, Crash
  <2> QED
    BY <2>1, <2>2, <2>3, <2>4, <2>5, <2>6 DEF Acts, Step
<1> QED
  BY <1>1, <1>2

LEMMA PairOnTrialStep ==
  ASSUME TypeOK, NothingPreset, PairOnTrial, NEW m \in Message, Acts(m)
  PROVE  PairOnTrial'
<1> DEFINE P(n) ==
      /\ pc[n] \in Trying \cup {"bays"} /\ n \in AutoAssigned => tryTech[n] \in Tech
      /\ pc[n] \in Trying \cup {"insert"} => techLock[n] \in Tech /\ bayLock[n] \in Bay
      /\ pc[n] \in {"techs", "bays", "dropPair", "dropBay"} => n \in AutoAssigned
      /\ pc[n] \in Trying \cup {"techs", "bays"} /\ n \in AutoAssigned => tech[n] = None /\ bay[n] = None
      /\ pc[n] \in Trying \cup {"insert"} /\ (n \notin AutoAssigned \/ pc[n] = "insert") =>
           tech[n] = techLock[n] /\ bay[n] = bayLock[n]
<1>1. \A n \in Message : P(n)
  BY DEF PairOnTrial
<1>2. ASSUME NEW n \in Message, n # m
      PROVE  P(n)'
  BY <1>1, <1>2, OthersUntouched
<1>3. P(m)'
  <2> USE <1>1, ProcessorAssumption DEF TypeOK, Trying, GoTo, search, names, chosen
  <2>1. CASE Begin(m)
    BY <2>1 DEF Begin, IsValid, NothingPreset
  <2>2. CASE NextTech(m)
    BY <2>2 DEF NextTech
  <2>3. CASE NextBay(m)
    BY <2>3 DEF NextBay
  <2>4. CASE BaysExhausted(m) \/ TechsExhausted(m)
    BY <2>4 DEF BaysExhausted, TechsExhausted
  <2>5. CASE LockTech(m)
    BY <2>5 DEF LockTech
  <2>6. CASE LockBay(m) \/ DropTech(m)
    BY <2>6 DEF LockBay, DropTech
  <2>7. CASE CheckTech(m)
    BY <2>7 DEF CheckTech
  <2>8. CASE CheckBay(m)
    BY <2>8 DEF CheckBay, NothingPreset
  <2>9. CASE DropPair(m) \/ DropBay(m)
    BY <2>9 DEF DropPair, DropBay
  <2>10. CASE Insert(m) \/ Publish(m) \/ MarkFailed(m) \/ ReleaseTech(m) \/ ReleaseBay(m)
    BY <2>10 DEF Insert, Publish, MarkFailed, ReleaseTech, ReleaseBay
  <2>11. CASE Fault(m)
    BY <2>11 DEF Fault, AwaitThrows, LockReplyLost, CommitReplyLost, PublishThrows, ReleaseThrows, Crash
  <2> QED
    BY <2>1, <2>2, <2>3, <2>4, <2>5, <2>6, <2>7, <2>8, <2>9, <2>10, <2>11 DEF Acts, Step
<1> QED
  BY <1>2, <1>3 DEF PairOnTrial

\* The candidates come from the skill query and the list of bays; a manual
\* pair passes the service checks before the insert.
LEMMA PairQualifiesStep ==
  ASSUME TypeOK, PairOnTrial, PairQualifies, NEW m \in Message, Acts(m)
  PROVE  PairQualifies'
<1> DEFINE Q(n) ==
      /\ techTodo[n] \subseteq Skilled[n] /\ bayTodo[n] \subseteq ListedBay
      /\ pc[n] \in Trying \cup {"bays"} /\ n \in AutoAssigned => tryTech[n] \in Skilled[n]
      /\ pc[n] \in Trying /\ n \in AutoAssigned => techLock[n] \in Skilled[n] /\ bayLock[n] \in ListedBay
      /\ pc[n] \in Trying \cup {"insert"} /\ n \notin AutoAssigned => tech[n] = WantTech[n] /\ bay[n] = WantBay[n]
      /\ pc[n] \in {"checkBay", "insert"} => techLock[n] \in Skilled[n]
      /\ pc[n] = "insert" => bayLock[n] \in ListedBay
<1>1. \A n \in Message : Q(n)
  BY DEF PairQualifies
<1>2. ASSUME NEW n \in Message, n # m
      PROVE  Q(n)'
  BY <1>1, <1>2, OthersUntouched
<1>3. Q(m)'
  <2> USE <1>1, ProcessorAssumption DEF TypeOK, Trying, GoTo, search, names, chosen
  <2>1. CASE Begin(m)
    BY <2>1 DEF Begin
  <2>2. CASE NextTech(m)
    BY <2>2 DEF NextTech
  <2>3. CASE NextBay(m)
    BY <2>3 DEF NextBay, PairOnTrial
  <2>4. CASE BaysExhausted(m) \/ TechsExhausted(m)
    BY <2>4 DEF BaysExhausted, TechsExhausted, PairOnTrial
  <2>5. CASE LockTech(m) \/ LockBay(m) \/ DropTech(m)
    BY <2>5 DEF LockTech, LockBay, DropTech
  <2>6. CASE CheckTech(m)
    BY <2>6 DEF CheckTech, TechUsable
  <2>7. CASE CheckBay(m)
    BY <2>7 DEF CheckBay, BayUsable
  <2>8. CASE DropPair(m) \/ DropBay(m)
    BY <2>8 DEF DropPair, DropBay
  <2>9. CASE Insert(m) \/ Publish(m) \/ MarkFailed(m) \/ ReleaseTech(m) \/ ReleaseBay(m)
    BY <2>9 DEF Insert, Publish, MarkFailed, ReleaseTech, ReleaseBay
  <2>10. CASE Fault(m)
    BY <2>10 DEF Fault, AwaitThrows, LockReplyLost, CommitReplyLost, PublishThrows, ReleaseThrows, Crash
  <2> QED
    BY <2>1, <2>2, <2>3, <2>4, <2>5, <2>6, <2>7, <2>8, <2>9, <2>10 DEF Acts, Step
<1> QED
  BY <1>2, <1>3 DEF PairQualifies

\* The two keys of a pair are different keys, both in the lock table.
LEMMA PairKeys ==
  ASSUME NEW m \in Message, NEW t \in Tech, NEW b \in Bay
  PROVE  /\ Key(t, m) \in Resource \X Time /\ Key(b, m) \in Resource \X Time
         /\ Key(t, m) # Key(b, m)
  BY ProcessorAssumption, KeyType DEF Resource, Key

LEMMA HoldersKeepLocksStep ==
  ASSUME TypeOK, OwnTokens, NothingPreset, PairOnTrial, HoldersKeepLocks,
         NEW m \in Message, Acts(m)
  PROVE  HoldersKeepLocks'
<1> DEFINE HoldsTech(n) == pc[n] \in {"lockBay", "checkTech", "checkBay", "insert"} =>
                             lock[Key(techLock[n], n)] = Token[n]
           HoldsBay(n) == pc[n] \in {"checkTech", "checkBay", "insert"} =>
                             lock[Key(bayLock[n], n)] = Token[n]
           Holds(n) == HoldsTech(n) /\ HoldsBay(n)
<1>1. \A n \in Message : Holds(n)
  BY DEF HoldersKeepLocks
<1>2. ASSUME NEW n \in Message, n # m
      PROVE  Holds(n)'
  <2>1. /\ pc'[n] = pc[n] /\ techLock'[n] = techLock[n] /\ bayLock'[n] = bayLock[n]
    BY <1>2, OthersUntouched
  <2>2. CASE pc[n] \in {"lockBay", "checkTech", "checkBay", "insert"}
    <3>1. techLock[n] \in Tech /\ bayLock[n] \in Bay
      BY <2>2 DEF PairOnTrial, Trying
    <3>2. Key(techLock[n], n) \in Resource \X Time /\ Key(bayLock[n], n) \in Resource \X Time
      BY <3>1, PairKeys
    <3>3. HoldsTech(n)'
      BY <1>1, <1>2, <2>1, <3>2, OthersKeepTheirLocks DEF Key
    <3>4. HoldsBay(n)'
      BY <1>1, <1>2, <2>1, <3>2, OthersKeepTheirLocks DEF Key
    <3> QED
      BY <3>3, <3>4
  <2> QED
    BY <2>1, <2>2
<1>3. Holds(m)'
  <2> USE <1>1 DEF TypeOK, GoTo, search, names, chosen
  <2>1. CASE LockTech(m)
    <3>1. techLock[m] \in Tech
      BY <2>1 DEF LockTech, PairOnTrial, Trying
    <3>2. Free(techLock[m], m) => lock'[Key(techLock[m], m)] = Token[m]
      BY <2>1, <3>1, AcquiredOwn DEF LockTech, Resource
    <3> QED
      BY <2>1, <3>2 DEF LockTech, Key
  <2>2. CASE LockBay(m)
    <3>1. techLock[m] \in Tech /\ bayLock[m] \in Bay
      BY <2>2 DEF LockBay, PairOnTrial, Trying
    <3>2. lock[Key(techLock[m], m)] = Token[m]
      BY <2>2 DEF LockBay
    <3>3. Free(bayLock[m], m) => /\ lock'[Key(bayLock[m], m)] = Token[m]
                                 /\ lock'[Key(techLock[m], m)] = Token[m]
      BY <2>2, <3>1, <3>2, AcquiredOwn, AcquiredOthers, PairKeys, ProcessorAssumption
      DEF LockBay, Resource
    <3> QED
      BY <2>2, <3>3 DEF LockBay, Key
  <2>3. CASE CheckTech(m)
    BY <2>3 DEF CheckTech, Key
  <2>4. CASE CheckBay(m)
    BY <2>4, ProcessorAssumption DEF CheckBay, Key, NothingPreset
  <2>5. CASE TechsExhausted(m)
    <3>1. pc'[m] # "insert"
      BY <2>5, ProcessorAssumption DEF TechsExhausted, PairOnTrial
    <3> QED
      BY <2>5, <3>1 DEF TechsExhausted
  <2>6. CASE Begin(m) \/ NextTech(m) \/ NextBay(m) \/ BaysExhausted(m)
    BY <2>6 DEF Begin, NextTech, NextBay, BaysExhausted
  <2>7. CASE DropTech(m) \/ DropPair(m) \/ DropBay(m) \/ ReleaseTech(m) \/ ReleaseBay(m)
    BY <2>7 DEF DropTech, DropPair, DropBay, ReleaseTech, ReleaseBay
  <2>8. CASE Insert(m) \/ Publish(m) \/ MarkFailed(m)
    BY <2>8 DEF Insert, Publish, MarkFailed
  <2>9. CASE Fault(m)
    BY <2>9 DEF Fault, AwaitThrows, LockReplyLost, CommitReplyLost, PublishThrows, ReleaseThrows, Crash, Stopped
  <2> QED
    BY <2>1, <2>2, <2>3, <2>4, <2>5, <2>6, <2>7, <2>8, <2>9 DEF Acts, Step
<1> QED
  BY <1>2, <1>3 DEF HoldersKeepLocks

(***************************************************************************)
(* Only the two steps that insert a row occupy more of the calendar.       *)
(***************************************************************************)
Inserts(m) == Insert(m) \/ CommitReplyLost(m)

NoNewRows ==
  \A j \in Message : Active(j)' => Active(j) /\ tech'[j] = tech[j] /\ bay'[j] = bay[j]

\* Any other step of a handler leaves the status of its row alone, and the
\* technician and the bay of a row that exists.
LEMMA RowKept ==
  ASSUME TypeOK, RowsAfterInsert, NEW m \in Message, Acts(m), ~Inserts(m)
  PROVE  /\ status' = status
         /\ status[m] # "none" => tech' = tech /\ bay' = bay
<1>1. status' = status
  BY DEF Acts, Inserts, Step, Begin, NextTech, NextBay, BaysExhausted, TechsExhausted, LockTech,
     LockBay, DropTech, CheckTech, CheckBay, DropPair, DropBay, Publish, MarkFailed, ReleaseTech,
     ReleaseBay, Fault, AwaitThrows, LockReplyLost, PublishThrows, ReleaseThrows, Crash
<1>2. pc[m] \notin Awaiting => tech' = tech /\ bay' = bay
  BY DEF Awaiting, chosen, Acts, Inserts, Step, Begin, NextTech, NextBay, BaysExhausted,
     TechsExhausted, LockTech, LockBay, DropTech, CheckTech, CheckBay, DropPair, DropBay, Publish,
     MarkFailed, ReleaseTech, ReleaseBay, Fault, AwaitThrows, LockReplyLost, PublishThrows,
     ReleaseThrows, Crash
<1> QED
  BY <1>1, <1>2 DEF RowsAfterInsert

LEMMA StepNoNewRows ==
  ASSUME TypeOK, RowsAfterInsert, NEW m \in Message, Acts(m), ~Inserts(m)
  PROVE  NoNewRows
<1> SUFFICES ASSUME NEW j \in Message, Active(j)'
             PROVE  Active(j) /\ tech'[j] = tech[j] /\ bay'[j] = bay[j]
  BY DEF NoNewRows
<1>1. CASE j # m
  BY <1>1, OthersUntouched DEF Active
<1>2. CASE j = m
  BY <1>2, RowKept DEF Active
<1> QED
  BY <1>1, <1>2

LEMMA NoDoubleBookingKept ==
  ASSUME NoDoubleBooking, NoNewRows
  PROVE  NoDoubleBooking'
  BY DEF NoDoubleBooking, NoNewRows, Overlaps

\* The effect of the two inserting steps on the calendar.
LEMMA InsertEffect ==
  ASSUME TypeOK, NEW m \in Message, Inserts(m)
  PROVE  /\ pc[m] = "insert" /\ pc'[m] \notin {"checkBay", "insert"}
         /\ tech' = tech /\ bay' = bay /\ techLock' = techLock /\ bayLock' = bayLock /\ lock' = lock
         /\ \A j \in Message : j # m => pc'[j] = pc[j] /\ (Active(j)' <=> Active(j))
         /\ \A j \in Message : Active(j)' => Active(j) \/ j = m
  BY DEF TypeOK, Inserts, Insert, CommitReplyLost, chosen, names, search, GoTo, Active

LEMMA InsertNoDoubleBooking ==
  ASSUME TypeOK, PairOnTrial, StillFree, NoDoubleBooking, NEW m \in Message, Inserts(m)
  PROVE  NoDoubleBooking'
<1>1. pc[m] = "insert" /\ tech[m] = techLock[m] /\ bay[m] = bayLock[m]
  BY InsertEffect DEF PairOnTrial
<1>2. ~TechBusy(tech[m], m) /\ ~BayBusy(bay[m], m)
  BY <1>1 DEF StillFree
<1>3. \A n \in Message : n # m /\ Active(n) /\ (Overlaps(n, m) \/ Overlaps(m, n)) =>
        tech[n] # tech[m] /\ bay[n] # bay[m]
  <2> SUFFICES ASSUME NEW n \in Message, Active(n), Overlaps(n, m) \/ Overlaps(m, n)
               PROVE  tech[n] # tech[m] /\ bay[n] # bay[m]
    OBVIOUS
  <2>1. Overlaps(n, m)
    BY ProcessorAssumption DEF Overlaps
  <2> QED
    BY <1>2, <2>1 DEF TechBusy, BayBusy
<1> SUFFICES ASSUME NEW i \in Message, NEW n \in Message, i # n,
                    Active(i)', Active(n)', Overlaps(i, n)
             PROVE  tech[i] # tech[n] /\ bay[i] # bay[n]
  BY InsertEffect DEF NoDoubleBooking, Overlaps
<1>4. CASE i # m /\ n # m
  BY <1>4, InsertEffect DEF NoDoubleBooking
<1>5. CASE i = m \/ n = m
  BY <1>3, <1>5, InsertEffect
<1> QED
  BY <1>4, <1>5

\* Two handlers of one slot cannot both hold the lock of the same resource: their
\* keys would be one key, holding two tokens; and those of different slots do
\* not race.
LEMMA InsertStillFree ==
  ASSUME TypeOK, NoRace, OwnTokens, HoldersKeepLocks, PairOnTrial, StillFree,
         NEW m \in Message, Inserts(m), NEW n \in Message, n # m
  PROVE  /\ pc[n] \in {"checkBay", "insert"} => ~TechBusy(techLock[n], n)'
         /\ pc[n] = "insert" => ~BayBusy(bayLock[n], n)'
<1>1. pc[m] = "insert" /\ tech[m] = techLock[m] /\ bay[m] = bayLock[m]
  BY InsertEffect DEF PairOnTrial
<1>2. lock[Key(techLock[m], m)] = Token[m] /\ lock[Key(bayLock[m], m)] = Token[m]
  BY <1>1 DEF HoldersKeepLocks
<1>3. Overlaps(m, n) /\ Start[m] # Start[n] =>
        /\ pc[n] \in {"checkBay", "insert"} => techLock[n] # techLock[m]
        /\ pc[n] = "insert" => bayLock[n] # bayLock[m]
  BY <1>1 DEF NoRace, Races
<1>4. Token[m] # Token[n]
  BY DEF OwnTokens
<1>5. ASSUME pc[n] \in {"checkBay", "insert"}
      PROVE  ~TechBusy(techLock[n], n)'
  <2>1. lock[Key(techLock[n], n)] = Token[n] /\ ~TechBusy(techLock[n], n)
    BY <1>5 DEF HoldersKeepLocks, StillFree
  <2>2. ~(tech[m] = techLock[n] /\ Overlaps(m, n))
    BY <1>1, <1>2, <1>3, <1>4, <1>5, <2>1 DEF Key
  <2> QED
    BY <2>1, <2>2, InsertEffect DEF TechBusy, Overlaps
<1>6. ASSUME pc[n] = "insert"
      PROVE  ~BayBusy(bayLock[n], n)'
  <2>1. lock[Key(bayLock[n], n)] = Token[n] /\ ~BayBusy(bayLock[n], n)
    BY <1>6 DEF HoldersKeepLocks, StillFree
  <2>2. ~(bay[m] = bayLock[n] /\ Overlaps(m, n))
    BY <1>1, <1>2, <1>3, <1>4, <1>6, <2>1 DEF Key
  <2> QED
    BY <2>1, <2>2, InsertEffect DEF BayBusy, Overlaps
<1> QED
  BY <1>5, <1>6

\* A handler comes to the labels before its insert by a check that succeeded.
LEMMA EntersByCheck ==
  ASSUME TypeOK, PairOnTrial, NEW m \in Message, Acts(m), pc'[m] \in {"checkBay", "insert"}
  PROVE  (CheckTech(m) /\ TechUsable(m)) \/ (CheckBay(m) /\ BayUsable(m))
<1> USE DEF TypeOK, GoTo, search, names, chosen
<1>1. CASE TechsExhausted(m)
  BY <1>1, ProcessorAssumption DEF TechsExhausted, PairOnTrial
<1>2. CASE CheckTech(m)
  BY <1>2 DEF CheckTech
<1>3. CASE CheckBay(m)
  BY <1>3 DEF CheckBay
<1>4. CASE Begin(m) \/ NextTech(m) \/ NextBay(m) \/ BaysExhausted(m)
  BY <1>4 DEF Begin, NextTech, NextBay, BaysExhausted
<1>5. CASE LockTech(m) \/ LockBay(m) \/ DropTech(m) \/ DropPair(m) \/ DropBay(m)
  BY <1>5 DEF LockTech, LockBay, DropTech, DropPair, DropBay
<1>6. CASE Insert(m) \/ Publish(m) \/ MarkFailed(m) \/ ReleaseTech(m) \/ ReleaseBay(m)
  BY <1>6 DEF Insert, Publish, MarkFailed, ReleaseTech, ReleaseBay
<1>7. CASE Fault(m)
  BY <1>7 DEF Fault, AwaitThrows, LockReplyLost, CommitReplyLost, PublishThrows, ReleaseThrows, Crash
<1> QED
  BY <1>1, <1>2, <1>3, <1>4, <1>5, <1>6, <1>7 DEF Acts, Step

LEMMA StillFreeStep ==
  ASSUME TypeOK, NoRace, OwnTokens, HoldersKeepLocks, PairOnTrial, RowsAfterInsert,
         StillFree,
         NEW m \in Message, Acts(m)
  PROVE  StillFree'
<1> DEFINE F(n) ==
      /\ pc[n] \in {"checkBay", "insert"} => ~TechBusy(techLock[n], n)
      /\ pc[n] = "insert" => ~BayBusy(bayLock[n], n)
<1>1. \A n \in Message : F(n)
  BY DEF StillFree
<1>2. ASSUME NEW n \in Message, n # m
      PROVE  F(n)'
  <2>1. pc'[n] = pc[n] /\ techLock'[n] = techLock[n] /\ bayLock'[n] = bayLock[n]
    BY <1>2, OthersUntouched
  <2>2. CASE Inserts(m)
    <3>1. /\ pc[n] \in {"checkBay", "insert"} => ~TechBusy(techLock[n], n)'
          /\ pc[n] = "insert" => ~BayBusy(bayLock[n], n)'
      BY <1>2, <2>2, InsertStillFree
    <3> QED
      BY <2>1, <3>1 DEF TechBusy, BayBusy
  <2>3. CASE ~Inserts(m)
    <3>1. NoNewRows
      BY <2>3, StepNoNewRows
    <3>2. /\ ~TechBusy(techLock[n], n) => ~TechBusy(techLock[n], n)'
          /\ ~BayBusy(bayLock[n], n) => ~BayBusy(bayLock[n], n)'
      BY <2>1, <3>1 DEF NoNewRows, TechBusy, BayBusy, Overlaps
    <3> QED
      BY <1>1, <2>1, <3>2
  <2> QED
    BY <2>2, <2>3
<1>3. F(m)'
  <2>1. CASE pc'[m] \notin {"checkBay", "insert"}
    BY <2>1
  <2>2. CASE CheckTech(m) /\ TechUsable(m)
    <3>1. pc'[m] = "checkBay" /\ UNCHANGED <<techLock, tech, status>> /\ ~TechBusy(techLock[m], m)
      BY <2>2 DEF CheckTech, TechUsable, TypeOK, GoTo, names, chosen
    <3> QED
      BY <3>1 DEF TechBusy, Active, Overlaps
  <2>3. CASE CheckBay(m) /\ BayUsable(m)
    <3>1. pc[m] = "checkBay" /\ ~TechBusy(techLock[m], m) /\ ~BayBusy(bayLock[m], m)
      BY <1>1, <2>3 DEF CheckBay, BayUsable
    <3>2. techLock' = techLock /\ bayLock' = bayLock
      BY <2>3 DEF CheckBay, names
    <3>3. NoNewRows
      BY <2>3, <3>1, StepNoNewRows DEF Inserts, Insert, CommitReplyLost
    <3>4. ~TechBusy(techLock[m], m)' /\ ~BayBusy(bayLock[m], m)'
      BY <3>1, <3>2, <3>3 DEF NoNewRows, TechBusy, BayBusy, Overlaps
    <3> QED
      BY <3>4
  <2>4. pc'[m] \in {"checkBay", "insert"} =>
          (CheckTech(m) /\ TechUsable(m)) \/ (CheckBay(m) /\ BayUsable(m))
    BY EntersByCheck
  <2> QED
    BY <2>1, <2>2, <2>3, <2>4
<1> QED
  BY <1>2, <1>3 DEF StillFree

\* The row of a handler shows the pair it qualified, and keeps showing it.
LEMMA CapableBookingStep ==
  ASSUME TypeOK, PairOnTrial, PairQualifies, RowsAfterInsert, CapableBooking,
         NEW m \in Message, Acts(m)
  PROVE  CapableBooking'
<1> SUFFICES ASSUME NEW n \in Message, status'[n] # "none"
             PROVE  tech'[n] \in Skilled[n] /\ bay'[n] \in ListedBay
  BY DEF CapableBooking
<1>1. CASE n # m
  BY <1>1, OthersUntouched DEF CapableBooking
<1>2. CASE n = m /\ Inserts(m)
  BY <1>2, InsertEffect DEF PairOnTrial, PairQualifies
<1>3. CASE n = m /\ ~Inserts(m)
  BY <1>3, RowKept DEF CapableBooking
<1> QED
  BY <1>1, <1>2, <1>3

\* A handler writes the row of its own request only, and only before any
\* status request can have read it.
LEMMA HandlersLeaveEdits ==
  ASSUME TypeOK, RowsAfterInsert, NEW m \in Message, Acts(m)
  PROVE  /\ edit' = edit
         /\ \A n \in Message : status[n] # "none" => status'[n] = status[n]
<1>1. edit' = edit
  BY DEF Acts, Step, Begin, NextTech, NextBay, BaysExhausted, TechsExhausted, LockTech, LockBay,
     DropTech, CheckTech, CheckBay, DropPair, DropBay, Insert, Publish, MarkFailed, ReleaseTech,
     ReleaseBay, Fault, AwaitThrows, LockReplyLost, CommitReplyLost, PublishThrows, ReleaseThrows, Crash
<1>2. CASE Inserts(m)
  <2>1. pc[m] \in Awaiting
    BY <1>2 DEF Inserts, Insert, CommitReplyLost, Awaiting
  <2> QED
    BY <1>1, <2>1, OthersUntouched DEF RowsAfterInsert
<1>3. CASE ~Inserts(m)
  BY <1>1, <1>3, RowKept
<1> QED
  BY <1>2, <1>3

LEMMA EditsStayValidStep ==
  ASSUME TypeOK, RowsAfterInsert, EditsStayValid, NEW m \in Message, Acts(m)
  PROVE  EditsStayValid'
<1> SUFFICES ASSUME NEW e \in Editor, edit[e] # None
             PROVE  \/ edit[e] \in ValidTransitions(status'[Target[e]])
                    \/ edit[e] = "Cancelled" /\ status'[Target[e]] = "Cancelled"
  BY HandlersLeaveEdits DEF EditsStayValid, ValidTransitions
<1>1. Target[e] \in Message
  BY ProcessorAssumption
<1>2. status[Target[e]] # "none"
  BY DEF EditsStayValid, ValidTransitions
<1>3. status'[Target[e]] = status[Target[e]]
  BY <1>1, <1>2, HandlersLeaveEdits
<1> QED
  BY <1>3 DEF EditsStayValid

(***************************************************************************)
(* The steps of Redis and of the API, and the parts of the invariant: each *)
(* is kept by every step, under the conditions on the deployment it needs. *)
(***************************************************************************)

\* Redis touches nothing but the lock, and a status request nothing but its row.
LEMMA LeaseFrame ==
  ASSUME NEW k \in Resource \X Time, LeaseExpires(k)
  PROVE  UNCHANGED <<pc, techTodo, bayTodo, tryTech, techLock, bayLock, tech, bay, status, told, edit>>
  BY DEF LeaseExpires, search, names, chosen

LEMMA EditFrame ==
  ASSUME NEW e \in Editor, Edit(e)
  PROVE  UNCHANGED <<pc, techTodo, bayTodo, tryTech, techLock, bayLock, tech, bay, lock, told>>
  BY DEF Edit, UpdateStatusReads, CancelReads, WriteStatus, search, names, chosen

\* A status request neither creates a row nor removes one.
LEMMA EditKeepsRows ==
  ASSUME TypeOK, EditsHaveRows, NEW e \in Editor, Edit(e)
  PROVE  \A n \in Message : status'[n] = "none" <=> status[n] = "none"
<1>1. CASE WriteStatus(e)
  <2>1. edit[e] \in RowStatus /\ status[Target[e]] # "none" /\ Target[e] \in Message
    BY <1>1, ProcessorAssumption DEF WriteStatus, EditsHaveRows, TypeOK
  <2>2. edit[e] # "none"
    BY <2>1 DEF RowStatus
  <2> QED
    BY <1>1, <2>1, <2>2 DEF WriteStatus, TypeOK
<1>2. CASE UpdateStatusReads(e) \/ CancelReads(e)
  BY <1>2 DEF UpdateStatusReads, CancelReads
<1> QED
  BY <1>1, <1>2 DEF Edit

LEMMA EditsHaveRowsEdit ==
  ASSUME TypeOK, EditsHaveRows, NEW e \in Editor, Edit(e)
  PROVE  EditsHaveRows'
<1> SUFFICES ASSUME NEW d \in Editor, edit'[d] # None
             PROVE  status[Target[d]] # "none"
  BY EditKeepsRows, ProcessorAssumption DEF EditsHaveRows
<1>1. edit'[d] = edit[d] \/ (d = e /\ status[Target[e]] # "none")
  BY DEF Edit, UpdateStatusReads, CancelReads, WriteStatus, TypeOK, EditsHaveRows, ValidTransitions
<1> QED
  BY <1>1 DEF EditsHaveRows

\* In any deployment: rows come after the insert, and status requests after rows.
Rows == TypeOK /\ RowsAfterInsert /\ EditsHaveRows

LEMMA RowsInductive == Rows /\ [Next]_vars => Rows'
<1> SUFFICES ASSUME Rows, [Next]_vars PROVE Rows'
  OBVIOUS
<1> USE DEF Rows
<1>1. ASSUME NEW m \in Message, Acts(m)
      PROVE  Rows'
  <2>1. TypeOK' /\ RowsAfterInsert'
    BY <1>1, StepTypeOK, FaultTypeOK, RowsAfterInsertStep DEF Acts
  <2>2. EditsHaveRows'
    BY <1>1, HandlersLeaveEdits, ProcessorAssumption DEF EditsHaveRows
  <2> QED
    BY <2>1, <2>2
<1>2. ASSUME NEW k \in Resource \X Time, LeaseExpires(k)
      PROVE  Rows'
  BY <1>2, LeaseFrame, OtherTypeOK DEF RowsAfterInsert, EditsHaveRows
<1>3. ASSUME NEW e \in Editor, Edit(e)
      PROVE  Rows'
  BY <1>3, EditFrame, EditKeepsRows, EditsHaveRowsEdit, OtherTypeOK DEF RowsAfterInsert
<1>4. CASE UNCHANGED vars
  BY <1>4, OtherTypeOK DEF vars, RowsAfterInsert, EditsHaveRows
<1> QED
  BY <1>1, <1>2, <1>3, <1>4, NextCases DEF Acts

\* Where AutoAssigned requests carry no ids: what is tried and booked qualifies.
Qualified == Rows /\ PairOnTrial /\ PairQualifies /\ CapableBooking

LEMMA QualifiedInductive == NothingPreset /\ Qualified /\ [Next]_vars => Qualified'
<1> SUFFICES ASSUME NothingPreset, Qualified, [Next]_vars PROVE Qualified'
  OBVIOUS
<1> USE DEF Qualified
<1>1. Rows'
  BY RowsInductive
<1>2. ASSUME NEW m \in Message, Acts(m)
      PROVE  Qualified'
  BY <1>1, <1>2, PairOnTrialStep, PairQualifiesStep, CapableBookingStep DEF Rows
<1>3. ASSUME NEW k \in Resource \X Time, LeaseExpires(k)
      PROVE  Qualified'
  BY <1>1, <1>3, LeaseFrame DEF PairOnTrial, PairQualifies, CapableBooking
<1>4. ASSUME NEW e \in Editor, Edit(e)
      PROVE  Qualified'
  BY <1>1, <1>4, EditFrame, EditKeepsRows DEF Rows, PairOnTrial, PairQualifies, CapableBooking
<1>5. CASE UNCHANGED vars
  BY <1>1, <1>5 DEF vars, search, names, chosen, PairOnTrial, PairQualifies, CapableBooking
<1> QED
  BY <1>2, <1>3, <1>4, <1>5, NextCases DEF Acts

\* Where also tokens are distinct and leases last: handlers keep their locks.
Owned == TypeOK /\ PairOnTrial /\ HoldersKeepLocks

\* A lease runs out only when no handler of its token is still running.
LEMMA LeaseKeepsLocks ==
  ASSUME Owned, LeasesLast, NEW k \in Resource \X Time, LeaseExpires(k)
  PROVE  HoldersKeepLocks'
<1> USE DEF Owned
<1>1. \A j \in Resource \X Time, n \in Message :
        lock[j] = Token[n] /\ pc[n] \notin Stopped => lock'[j] = Token[n]
  <2> SUFFICES ASSUME NEW j \in Resource \X Time, NEW n \in Message,
                      lock[j] = Token[n], pc[n] \notin Stopped
               PROVE  lock'[j] = Token[n]
    OBVIOUS
  <2>1. j # k
    BY DEF LeaseExpires, LeasesLast
  <2> QED
    BY <2>1 DEF LeaseExpires, TypeOK, LockTable
<1> SUFFICES ASSUME NEW n \in Message, pc[n] \in {"lockBay", "checkTech", "checkBay", "insert"}
             PROVE  /\ lock'[Key(techLock[n], n)] = Token[n]
                    /\ pc[n] # "lockBay" => lock'[Key(bayLock[n], n)] = Token[n]
  BY LeaseFrame DEF HoldersKeepLocks, Key
<1>2. Key(techLock[n], n) \in Resource \X Time /\ Key(bayLock[n], n) \in Resource \X Time
  BY PairKeys DEF PairOnTrial, Trying
<1>3. pc[n] \notin Stopped
  BY DEF Stopped
<1> QED
  BY <1>1, <1>2, <1>3 DEF HoldersKeepLocks

LEMMA OwnedInductive ==
  OwnTokens /\ NothingPreset /\ LeasesLast /\ Owned /\ [Next]_vars => Owned'
<1> SUFFICES ASSUME OwnTokens, NothingPreset, LeasesLast, Owned, [Next]_vars PROVE Owned'
  OBVIOUS
<1> USE DEF Owned
<1>1. ASSUME NEW m \in Message, Acts(m)
      PROVE  Owned'
  BY <1>1, StepTypeOK, FaultTypeOK, PairOnTrialStep, HoldersKeepLocksStep DEF Acts
<1>2. ASSUME NEW k \in Resource \X Time, LeaseExpires(k)
      PROVE  Owned'
  BY <1>2, LeaseFrame, LeaseKeepsLocks, OtherTypeOK DEF PairOnTrial
<1>3. ASSUME NEW e \in Editor, Edit(e)
      PROVE  Owned'
  BY <1>3, EditFrame, OtherTypeOK DEF PairOnTrial, HoldersKeepLocks, Key
<1>4. CASE UNCHANGED vars
  BY <1>4, OtherTypeOK DEF vars, names, search, chosen, PairOnTrial, HoldersKeepLocks, Key
<1> QED
  BY <1>1, <1>2, <1>3, <1>4, NextCases DEF Acts

\* While no two status requests on one appointment cross: they stay valid.
Statuses == Rows /\ EditsStayValid

LEMMA EditsStayValidEdit ==
  ASSUME Statuses, NoCrossedEdits, NEW e \in Editor, Edit(e)
  PROVE  EditsStayValid'
<1> USE DEF Statuses, Rows
<1>1. Target[e] \in Message
  BY ProcessorAssumption
<1> SUFFICES ASSUME NEW d \in Editor, edit'[d] # None
             PROVE  \/ edit'[d] \in ValidTransitions(status'[Target[d]])
                    \/ edit'[d] = "Cancelled" /\ status'[Target[d]] = "Cancelled"
  BY DEF EditsStayValid, ValidTransitions
<1>2. CASE UpdateStatusReads(e)
  BY <1>2 DEF UpdateStatusReads, TypeOK, EditsStayValid
<1>3. CASE CancelReads(e)
  <2>1. status[Target[e]] \in {"Scheduled", "InProgress", "Cancelled"}
    BY <1>3, <1>1 DEF CancelReads, TypeOK, RowStatus
  <2>2. "Cancelled" \in ValidTransitions(status[Target[e]]) \/ status[Target[e]] = "Cancelled"
    BY <2>1 DEF ValidTransitions
  <2> QED
    BY <1>3, <2>2 DEF CancelReads, TypeOK, EditsStayValid
<1>4. CASE WriteStatus(e)
  <2>1. d # e /\ Target[d] # Target[e] /\ edit'[d] = edit[d] /\ Target[d] \in Message
    BY <1>4, ProcessorAssumption DEF WriteStatus, TypeOK, NoCrossedEdits
  <2>2. status'[Target[d]] = status[Target[d]]
    BY <1>4, <2>1 DEF WriteStatus, TypeOK
  <2> QED
    BY <2>1, <2>2 DEF EditsStayValid
<1> QED
  BY <1>2, <1>3, <1>4 DEF Edit

LEMMA StatusesInductive == NoCrossedEdits /\ Statuses /\ [Next]_vars => Statuses'
<1> SUFFICES ASSUME NoCrossedEdits, Statuses, [Next]_vars PROVE Statuses'
  OBVIOUS
<1>1. Rows'
  BY RowsInductive DEF Statuses
<1>2. ASSUME NEW m \in Message, Acts(m)
      PROVE  EditsStayValid'
  BY <1>2, EditsStayValidStep DEF Statuses, Rows
<1>3. ASSUME NEW k \in Resource \X Time, LeaseExpires(k)
      PROVE  EditsStayValid'
  BY <1>3, LeaseFrame DEF Statuses, EditsStayValid
<1>4. ASSUME NEW e \in Editor, Edit(e)
      PROVE  EditsStayValid'
  BY <1>4, EditsStayValidEdit
<1>5. CASE UNCHANGED vars
  BY <1>1, <1>5 DEF vars, Statuses, EditsStayValid
<1> QED
  BY <1>1, <1>2, <1>3, <1>4, <1>5, NextCases DEF Acts, Statuses

\* A status request that is still valid occupies no more of the calendar.
LEMMA EditNoNewRows ==
  ASSUME Statuses, NEW e \in Editor, Edit(e)
  PROVE  NoNewRows
<1>1. WriteStatus(e) /\ edit[e] \in {"Scheduled", "InProgress"} =>
        status[Target[e]] \in {"Scheduled", "InProgress"}
  BY DEF WriteStatus, Statuses, EditsStayValid, ValidTransitions
<1>2. \A n \in Message : status'[n] \in {"Scheduled", "InProgress"} =>
        status[n] \in {"Scheduled", "InProgress"}
  BY <1>1, ProcessorAssumption
  DEF Edit, UpdateStatusReads, CancelReads, WriteStatus, Statuses, Rows, TypeOK
<1> QED
  BY <1>2, EditFrame DEF NoNewRows, Active

LEMMA NoNewRowsKeepsFree ==
  ASSUME StillFree, NoNewRows, UNCHANGED <<pc, techLock, bayLock>>
  PROVE  StillFree'
  BY DEF StillFree, NoNewRows, TechBusy, BayBusy, Overlaps

\* What a step keeps while locks are kept and nothing races.
Undisturbed == HoldersKeepLocks /\ NoRace /\ NoCrossedEdits

LEMMA Inductive ==
  ASSUME OwnTokens, NothingPreset
  PROVE  IInv /\ EditsHaveRows /\ Undisturbed /\ [Next]_vars => IInv' /\ EditsHaveRows'
<1> SUFFICES ASSUME IInv, EditsHaveRows, Undisturbed, [Next]_vars
             PROVE  IInv' /\ EditsHaveRows'
  OBVIOUS
<1>1. Qualified' /\ Statuses'
  BY QualifiedInductive, StatusesInductive DEF Undisturbed, IInv, Qualified, Statuses, Rows
<1>2. StillFree' /\ NoDoubleBooking'
  <2> USE DEF IInv
  <2>1. ASSUME NEW m \in Message, Acts(m), Inserts(m)
        PROVE  StillFree' /\ NoDoubleBooking'
    BY <2>1, StillFreeStep, InsertNoDoubleBooking DEF Undisturbed
  <2>2. ASSUME NEW m \in Message, Acts(m), ~Inserts(m)
        PROVE  StillFree' /\ NoDoubleBooking'
    BY <2>2, StillFreeStep, StepNoNewRows, NoDoubleBookingKept DEF Undisturbed
  <2>3. ASSUME NEW k \in Resource \X Time, LeaseExpires(k)
        PROVE  StillFree' /\ NoDoubleBooking'
    BY <2>3, LeaseFrame, NoNewRowsKeepsFree, NoDoubleBookingKept DEF NoNewRows, Active
  <2>4. ASSUME NEW e \in Editor, Edit(e)
        PROVE  StillFree' /\ NoDoubleBooking'
    <3>1. NoNewRows
      BY <2>4, EditNoNewRows DEF Statuses, Rows
    <3> QED
      BY <2>4, <3>1, EditFrame, NoNewRowsKeepsFree, NoDoubleBookingKept
  <2>5. CASE UNCHANGED vars
    BY <2>5, NoNewRowsKeepsFree, NoDoubleBookingKept DEF vars, names, chosen, NoNewRows, Active
  <2> QED
    BY <2>1, <2>2, <2>3, <2>4, <2>5, NextCases DEF Acts
<1> QED
  BY <1>1, <1>2 DEF IInv, Qualified, Statuses, Rows

(***************************************************************************)
(* In every behaviour in which handlers keep the locks they rely on, no    *)
(* two of them meet in the race that the keys leave open, and no two       *)
(* status requests cross on one appointment, two appointments that occupy  *)
(* the calendar at overlapping times share neither technician nor bay:     *)
(* also when they start at different times, whatever the number of         *)
(* handlers and whatever fails around them.                                *)
(***************************************************************************)
THEOREM DoubleBookingFree ==
  ASSUME OwnTokens, NothingPreset
  PROVE  Spec /\ []HoldersKeepLocks /\ []NoRace /\ []NoCrossedEdits => []NoDoubleBooking
<1>1. IInv /\ EditsHaveRows /\ Undisturbed /\ [Next]_vars => IInv' /\ EditsHaveRows'
  BY Inductive
<1>2. IInv => NoDoubleBooking
  BY DEF IInv
<1>3. Init => IInv /\ EditsHaveRows
  BY InitIInv
<1>4. HoldersKeepLocks /\ NoRace /\ NoCrossedEdits => Undisturbed
  BY DEF Undisturbed
<1> QED
  BY <1>1, <1>2, <1>3, <1>4, PTL DEF Spec

(***************************************************************************)
(* Where tokens are distinct, nothing is preset and leases last, a handler *)
(* that acts on a lock still owns it: the value compare of the release     *)
(* script and the expiry of the leases never take a lock from a handler    *)
(* that relies on it.                                                      *)
(***************************************************************************)
THEOREM LocksAreKept ==
  ASSUME OwnTokens, NothingPreset, LeasesLast
  PROVE  Spec => []HoldersKeepLocks
<1>1. Init => Owned
  BY InitIInv DEF Owned, IInv
<1>2. Owned /\ [Next]_vars => Owned'
  BY OwnedInductive
<1>3. Owned => HoldersKeepLocks
  BY DEF Owned
<1> QED
  BY <1>1, <1>2, <1>3, PTL DEF Spec

(***************************************************************************)
(* Where AutoAssigned requests carry no ids, every booking, however it was *)
(* found, is on a technician who has the skill and in a bay that is        *)
(* listed, whatever else goes wrong.                                       *)
(***************************************************************************)
THEOREM BookingsAreCapable ==
  ASSUME NothingPreset
  PROVE  Spec => []CapableBooking
<1>1. Init => Qualified
  BY InitIInv DEF Qualified, Rows, IInv
<1>2. Qualified /\ [Next]_vars => Qualified'
  BY QualifiedInductive
<1>3. Qualified => CapableBooking
  BY DEF Qualified
<1> QED
  BY <1>1, <1>2, <1>3, PTL DEF Spec

(***************************************************************************)
(* What a step does to the rows: nothing, one new Scheduled row that was   *)
(* found free and qualified, or one transition of the status machine.      *)
(***************************************************************************)
Booked(m) ==
  /\ status[m] = "none" /\ pc[m] = "insert"
  /\ status' = [status EXCEPT ![m] = "Scheduled"]
  /\ tech' = tech /\ bay' = bay

Moved(m) ==
  /\ status'[m] \in ValidTransitions(status[m])
  /\ status' = [status EXCEPT ![m] = status'[m]]
  /\ tech' = tech /\ bay' = bay

RowsKept ==
  /\ status' = status
  /\ \A n \in Message : status[n] # "none" => tech'[n] = tech[n] /\ bay'[n] = bay[n]

LEMMA RowEffect ==
  ASSUME Statuses, [Next]_vars
  PROVE  RowsKept \/ \E m \in Message : Booked(m) \/ Moved(m)
<1> USE DEF Statuses, Rows
<1>1. ASSUME NEW m \in Message, Acts(m)
      PROVE  RowsKept \/ Booked(m)
  <2>1. CASE Inserts(m)
    <3>1. pc[m] = "insert" /\ status' = [status EXCEPT ![m] = "Scheduled"] /\ tech' = tech /\ bay' = bay
      BY <2>1 DEF Inserts, Insert, CommitReplyLost, chosen
    <3>2. status[m] = "none"
      BY <3>1 DEF RowsAfterInsert, Awaiting
    <3> QED
      BY <3>1, <3>2 DEF Booked
  <2>2. CASE ~Inserts(m)
    <3> SUFFICES ASSUME NEW n \in Message, status[n] # "none"
                 PROVE  status' = status /\ tech'[n] = tech[n] /\ bay'[n] = bay[n]
      BY <1>1, <2>2, RowKept DEF RowsKept
    <3>1. CASE n = m
      BY <1>1, <2>2, <3>1, RowKept
    <3>2. CASE n # m
      BY <1>1, <2>2, <3>2, RowKept, OthersUntouched
    <3> QED
      BY <3>1, <3>2
  <2> QED
    BY <2>1, <2>2
<1>2. ASSUME NEW e \in Editor, Edit(e)
      PROVE  RowsKept \/ Moved(Target[e])
  <2>0. Target[e] \in Message
    BY ProcessorAssumption
  <2>1. tech' = tech /\ bay' = bay
    BY <1>2 DEF Edit, UpdateStatusReads, CancelReads, WriteStatus, chosen
  <2>2. CASE ~WriteStatus(e)
    BY <1>2, <2>1, <2>2 DEF Edit, UpdateStatusReads, CancelReads, RowsKept
  <2>3. CASE WriteStatus(e)
    <3>1. /\ status' = [status EXCEPT ![Target[e]] = edit[e]]
          /\ \/ edit[e] \in ValidTransitions(status[Target[e]])
             \/ edit[e] = "Cancelled" /\ status[Target[e]] = "Cancelled"
      BY <2>3 DEF WriteStatus, EditsStayValid
    <3>2. status \in [Message -> RowStatus \cup {"none"}]
      BY DEF TypeOK
    <3>3. status'[Target[e]] = edit[e]
      BY <2>0, <3>1, <3>2
    <3>4. CASE edit[e] \in ValidTransitions(status[Target[e]])
      BY <2>1, <3>1, <3>3, <3>4 DEF Moved
    <3>5. CASE edit[e] = "Cancelled" /\ status[Target[e]] = "Cancelled"
      <4>1. status' = status
        BY <3>1, <3>2, <3>5
      <4> QED
        BY <2>1, <4>1 DEF RowsKept
    <3> QED
      BY <3>1, <3>4, <3>5
  <2> QED
    BY <2>2, <2>3
<1>3. CASE (\E k \in Resource \X Time : LeaseExpires(k)) \/ UNCHANGED vars
  BY <1>3 DEF LeaseExpires, vars, chosen, RowsKept
<1> QED
  BY <1>1, <1>2, <1>3, NextCases, ProcessorAssumption DEF Acts

(***************************************************************************)
(* The status endpoints, whose UPDATE does not look at the status again.   *)
(***************************************************************************)
Forward == Rows /\ EditsGoForward

LEMMA ForwardInductive == Forward /\ [Next]_vars => Forward'
<1> SUFFICES ASSUME Forward, [Next]_vars PROVE Forward'
  OBVIOUS
<1> USE DEF Forward
<1>1. Rows'
  BY RowsInductive
<1>2. ASSUME NEW m \in Message, Acts(m)
      PROVE  EditsGoForward'
  <2>1. edit' = edit /\ \A n \in Message : status[n] # "none" => status'[n] = status[n]
    BY <1>2, HandlersLeaveEdits DEF Rows
  <2>2. \A e \in Editor : edit[e] # None => status'[Target[e]] = status[Target[e]]
    BY <2>1, ProcessorAssumption DEF Rows, EditsHaveRows
  <2> QED
    BY <2>1, <2>2 DEF EditsGoForward
<1>3. ASSUME NEW e \in Editor, Edit(e)
      PROVE  EditsGoForward'
  <2>1. Target[e] \in Message /\ \A d \in Editor : Target[d] \in Message
    BY ProcessorAssumption
  <2>2. CASE UpdateStatusReads(e)
    BY <2>2 DEF UpdateStatusReads, ValidTransitions, EditsGoForward, Rows, TypeOK
  <2>3. CASE CancelReads(e)
    BY <2>3 DEF CancelReads, EditsGoForward, Rows, TypeOK
  <2>4. CASE WriteStatus(e)
    <3>1. status'[Target[e]] # "Scheduled" /\ \A n \in Message : n # Target[e] => status'[n] = status[n]
      BY <2>1, <2>4 DEF WriteStatus, EditsGoForward, Rows, TypeOK
    <3>2. \A d \in Editor : edit'[d] = edit[d] \/ edit'[d] = None
      BY <2>4 DEF WriteStatus, Rows, TypeOK
    <3> QED
      BY <2>1, <3>1, <3>2 DEF EditsGoForward
  <2> QED
    BY <1>3, <2>2, <2>3, <2>4 DEF Edit
<1>4. ASSUME NEW k \in Resource \X Time, LeaseExpires(k)
      PROVE  EditsGoForward'
  BY <1>4, LeaseFrame DEF EditsGoForward
<1>5. CASE UNCHANGED vars
  BY <1>1, <1>5 DEF vars, EditsGoForward
<1> QED
  BY <1>1, <1>2, <1>3, <1>4, <1>5, NextCases DEF Acts

(***************************************************************************)
(* Whatever status requests cross on it and whatever fails, an appointment *)
(* is created Scheduled, is never completed before it has begun, and never *)
(* goes back to Scheduled or disappears.                                   *)
(***************************************************************************)
THEOREM StatusesSkipNoStep == Spec => NoStepSkipped
<1>1. Init => Forward
  BY InitIInv DEF Forward, Rows, IInv
<1>2. Forward /\ [Next]_vars => Forward'
  BY ForwardInductive
<1>3. Forward /\ [Next]_vars =>
        [\A m \in Message : status'[m] # status[m] =>
           /\ status[m] = "none" => status'[m] = "Scheduled"
           /\ status[m] = "Scheduled" => status'[m] \in {"InProgress", "Cancelled"}
           /\ status'[m] \in {"none", "Scheduled"} => status[m] = "none"]_vars
  <2> SUFFICES ASSUME Forward, [Next]_vars, NEW n \in Message, status'[n] # status[n]
               PROVE  /\ status[n] = "none" => status'[n] = "Scheduled"
                      /\ status[n] = "Scheduled" => status'[n] \in {"InProgress", "Cancelled"}
                      /\ status'[n] \in {"none", "Scheduled"} => status[n] = "none"
    OBVIOUS
  <2> USE DEF Forward, Rows
  <2>1. ASSUME NEW m \in Message, Acts(m)
        PROVE  status[n] = "none" /\ status'[n] = "Scheduled"
    <3>1. n = m
      BY <2>1, OthersUntouched
    <3>2. Inserts(m)
      BY <2>1, RowKept
    <3>3. status'[m] = "Scheduled" /\ pc[m] = "insert"
      BY <3>2 DEF Inserts, Insert, CommitReplyLost, TypeOK
    <3> QED
      BY <3>1, <3>3 DEF RowsAfterInsert, Awaiting
  <2>2. ASSUME NEW e \in Editor, Edit(e)
        PROVE  /\ status[n] # "none" /\ status'[n] \in {"InProgress", "Completed", "Cancelled"}
               /\ status[n] = "Scheduled" => status'[n] # "Completed"
    <3>1. WriteStatus(e)
      BY <2>2 DEF Edit, UpdateStatusReads, CancelReads
    <3>2. n = Target[e] /\ status'[n] = edit[e] /\ edit[e] # None
      BY <3>1, ProcessorAssumption DEF WriteStatus, TypeOK
    <3> QED
      BY <3>2 DEF EditsHaveRows, EditsGoForward
  <2>3. (\E k \in Resource \X Time : LeaseExpires(k)) \/ UNCHANGED vars => FALSE
    BY LeaseFrame DEF vars
  <2> QED
    BY <2>1, <2>2, <2>3, NextCases DEF Acts
<1> QED
  BY <1>1, <1>2, <1>3, PTL DEF Spec, NoStepSkipped

(***************************************************************************)
(* The rows of one slot that are still to come, whatever becomes of the    *)
(* others: a status request never makes a row Scheduled again.             *)
(***************************************************************************)
NoneScheduled ==
  \A j \in Message : status'[j] = "Scheduled" =>
    status[j] = "Scheduled" /\ tech'[j] = tech[j] /\ bay'[j] = bay[j]

Slots == Forward /\ PairOnTrial /\ SlotStillFree /\ SlotsAreExclusive

LEMMA StepSchedulesNone ==
  ASSUME Forward, NEW m \in Message, Acts(m), ~Inserts(m)
  PROVE  NoneScheduled
<1> SUFFICES ASSUME NEW j \in Message, status'[j] = "Scheduled"
             PROVE  status[j] = "Scheduled" /\ tech'[j] = tech[j] /\ bay'[j] = bay[j]
  BY DEF NoneScheduled
<1>1. CASE j # m
  BY <1>1, OthersUntouched DEF Forward, Rows
<1>2. CASE j = m
  BY <1>2, RowKept DEF Forward, Rows
<1> QED
  BY <1>1, <1>2

LEMMA EditSchedulesNone ==
  ASSUME Forward, NEW e \in Editor, Edit(e)
  PROVE  NoneScheduled
<1>1. CASE WriteStatus(e)
  BY <1>1, EditFrame, ProcessorAssumption DEF WriteStatus, NoneScheduled, Forward, Rows, TypeOK, EditsGoForward
<1>2. CASE UpdateStatusReads(e) \/ CancelReads(e)
  BY <1>2, EditFrame DEF UpdateStatusReads, CancelReads, NoneScheduled
<1> QED
  BY <1>1, <1>2 DEF Edit

LEMMA NoneScheduledKeeps ==
  ASSUME NoneScheduled
  PROVE  /\ SlotsAreExclusive => SlotsAreExclusive'
         /\ \A r, n : ~Reserved(r, n) => ~(\E j \in Message :
              /\ status'[j] = "Scheduled" /\ Start[j] = Start[n] /\ Overlaps(j, n)
              /\ r \in {tech'[j], bay'[j]})
  BY DEF NoneScheduled, SlotsAreExclusive, Reserved, Overlaps

\* What a check finds free, no appointment has reserved.
LEMMA FreeIsNotReserved ==
  ASSUME TypeOK, NEW m \in Message
  PROVE  /\ \A t \in Tech : ~TechBusy(t, m) => ~Reserved(t, m)
         /\ \A b \in Bay : ~BayBusy(b, m) => ~Reserved(b, m)
  BY ProcessorAssumption DEF TypeOK, TechBusy, BayBusy, Reserved, Active

\* The pair that one handler inserts is none that another one of the slot holds.
LEMMA InsertKeepsSlots ==
  ASSUME OwnTokens, HoldersKeepLocks, Slots, NEW m \in Message, Inserts(m),
         NEW n \in Message, n # m
  PROVE  /\ pc[n] \in {"checkBay", "insert"} => ~Reserved(techLock[n], n)'
         /\ pc[n] = "insert" => ~Reserved(bayLock[n], n)'
<1> USE DEF Slots, Forward, Rows
<1>1. pc[m] = "insert" /\ tech[m] = techLock[m] /\ bay[m] = bayLock[m]
  BY InsertEffect DEF PairOnTrial
<1>2. \A r \in {tech[m], bay[m]} : Start[m] = Start[n] => lock[Key(r, n)] = Token[m]
  BY <1>1 DEF HoldersKeepLocks, Key
<1>3. Token[m] # Token[n]
  BY DEF OwnTokens
<1>4. \A r : lock[Key(r, n)] = Token[n] /\ ~Reserved(r, n) =>
        ~(\E j \in Message :
            /\ status'[j] = "Scheduled" /\ Start[j] = Start[n] /\ Overlaps(j, n)
            /\ r \in {tech'[j], bay'[j]})
  <2>1. \A j \in Message : j # m => status'[j] = status[j]
    BY DEF Inserts, Insert, CommitReplyLost, TypeOK
  <2> QED
    BY <1>2, <1>3, <2>1, InsertEffect DEF Reserved
<1>5. techLock' = techLock /\ bayLock' = bayLock
  BY InsertEffect
<1>6. /\ pc[n] \in {"checkBay", "insert"} =>
           lock[Key(techLock[n], n)] = Token[n] /\ ~Reserved(techLock[n], n)
      /\ pc[n] = "insert" => lock[Key(bayLock[n], n)] = Token[n] /\ ~Reserved(bayLock[n], n)
  BY DEF HoldersKeepLocks, SlotStillFree
<1> QED
  BY <1>4, <1>5, <1>6 DEF Reserved, Overlaps

LEMMA SlotStillFreeStep ==
  ASSUME OwnTokens, HoldersKeepLocks, Slots, NEW m \in Message, Acts(m)
  PROVE  SlotStillFree'
<1> USE DEF Slots, Forward, Rows
<1> SUFFICES ASSUME NEW n \in Message
             PROVE  /\ pc'[n] \in {"checkBay", "insert"} => ~Reserved(techLock[n], n)'
                    /\ pc'[n] = "insert" => ~Reserved(bayLock[n], n)'
  BY DEF SlotStillFree
<1>1. CASE n # m
  <2>1. pc'[n] = pc[n] /\ techLock'[n] = techLock[n] /\ bayLock'[n] = bayLock[n]
    BY <1>1, OthersUntouched
  <2>2. CASE Inserts(m)
    BY <1>1, <2>1, <2>2, InsertKeepsSlots
  <2>3. CASE ~Inserts(m)
    <3>1. NoneScheduled
      BY <2>3, StepSchedulesNone
    <3> QED
      BY <2>1, <3>1, NoneScheduledKeeps DEF SlotStillFree, Reserved, Overlaps
  <2> QED
    BY <2>2, <2>3
<1>2. CASE n = m
  <2>1. CASE CheckTech(m) /\ TechUsable(m)
    <3>1. /\ pc'[m] = "checkBay" /\ UNCHANGED <<techLock, tech, bay, status>>
          /\ ~TechBusy(techLock[m], m) /\ techLock[m] \in Tech
      BY <2>1 DEF CheckTech, TechUsable, TypeOK, GoTo, names, chosen, PairOnTrial, Trying
    <3>2. ~Reserved(techLock[m], m)
      BY <3>1, FreeIsNotReserved
    <3> QED
      BY <1>2, <3>1, <3>2 DEF Reserved, Overlaps
  <2>2. CASE CheckBay(m) /\ BayUsable(m)
    <3>1. /\ pc[m] = "checkBay" /\ techLock' = techLock /\ bayLock' = bayLock
          /\ ~BayBusy(bayLock[m], m) /\ bayLock[m] \in Bay
      BY <2>2 DEF CheckBay, BayUsable, names, PairOnTrial, Trying
    <3>2. ~Reserved(techLock[m], m) /\ ~Reserved(bayLock[m], m)
      BY <3>1, FreeIsNotReserved DEF SlotStillFree
    <3>3. NoneScheduled
      BY <2>2, <3>1, StepSchedulesNone DEF Inserts, Insert, CommitReplyLost
    <3> QED
      BY <1>2, <3>1, <3>2, <3>3, NoneScheduledKeeps DEF Reserved, Overlaps
  <2>3. CASE pc'[m] \notin {"checkBay", "insert"}
    BY <1>2, <2>3
  <2> QED
    BY <2>1, <2>2, <2>3, EntersByCheck
<1> QED
  BY <1>1, <1>2

LEMMA InsertKeepsExclusive ==
  ASSUME Slots, NEW m \in Message, Inserts(m)
  PROVE  SlotsAreExclusive'
<1> USE DEF Slots, Forward, Rows
<1>1. /\ pc[m] = "insert" /\ tech[m] = techLock[m] /\ bay[m] = bayLock[m]
      /\ ~Reserved(tech[m], m) /\ ~Reserved(bay[m], m)
  BY InsertEffect DEF PairOnTrial, SlotStillFree
<1>2. \A n \in Message :
        /\ n # m /\ status[n] = "Scheduled" /\ Start[m] = Start[n]
        /\ Overlaps(n, m) \/ Overlaps(m, n)
        => tech[n] # tech[m] /\ bay[n] # bay[m]
  BY <1>1, ProcessorAssumption DEF Reserved, Overlaps
<1>3. /\ tech' = tech /\ bay' = bay
      /\ \A j \in Message : j # m => status'[j] = status[j]
  BY InsertEffect DEF Inserts, Insert, CommitReplyLost, TypeOK
<1> SUFFICES ASSUME NEW i \in Message, NEW n \in Message, i # n, Start[i] = Start[n],
                    Overlaps(i, n), status'[i] = "Scheduled", status'[n] = "Scheduled"
             PROVE  tech[i] # tech[n] /\ bay[i] # bay[n]
  BY <1>3 DEF SlotsAreExclusive, Overlaps
<1>4. CASE i # m /\ n # m
  BY <1>3, <1>4 DEF SlotsAreExclusive
<1>5. CASE i = m \/ n = m
  BY <1>2, <1>3, <1>5
<1> QED
  BY <1>4, <1>5

LEMMA SlotsInductive ==
  ASSUME OwnTokens, NothingPreset
  PROVE  Slots /\ HoldersKeepLocks /\ [Next]_vars => Slots'
<1> SUFFICES ASSUME Slots, HoldersKeepLocks, [Next]_vars PROVE Slots'
  OBVIOUS
<1>1. Forward'
  BY ForwardInductive DEF Slots
<1>2. ASSUME NEW m \in Message, Acts(m)
      PROVE  PairOnTrial' /\ SlotStillFree' /\ SlotsAreExclusive'
  <2>1. PairOnTrial' /\ SlotStillFree'
    BY <1>2, PairOnTrialStep, SlotStillFreeStep DEF Slots, Forward, Rows
  <2>2. SlotsAreExclusive'
    BY <1>2, InsertKeepsExclusive, StepSchedulesNone, NoneScheduledKeeps DEF Slots
  <2> QED
    BY <2>1, <2>2
<1>3. ASSUME NoneScheduled,
             UNCHANGED <<pc, tryTech, techLock, bayLock, tech, bay>>
      PROVE  PairOnTrial' /\ SlotStillFree' /\ SlotsAreExclusive'
  BY <1>3, NoneScheduledKeeps DEF Slots, PairOnTrial, SlotStillFree, Reserved, Overlaps
<1>4. ASSUME NEW k \in Resource \X Time, LeaseExpires(k)
      PROVE  PairOnTrial' /\ SlotStillFree' /\ SlotsAreExclusive'
  BY <1>4, <1>3, LeaseFrame DEF NoneScheduled
<1>5. ASSUME NEW e \in Editor, Edit(e)
      PROVE  PairOnTrial' /\ SlotStillFree' /\ SlotsAreExclusive'
  BY <1>5, <1>3, EditFrame, EditSchedulesNone DEF Slots
<1>6. CASE UNCHANGED vars
  BY <1>1, <1>6, <1>3 DEF vars, search, names, chosen, NoneScheduled, Slots
<1> QED
  BY <1>1, <1>2, <1>4, <1>5, <1>6, NextCases DEF Acts, Slots

(***************************************************************************)
(* Where tokens are distinct and nothing is preset, and as long as         *)
(* handlers keep the locks they rely on, two appointments of one slot that *)
(* are still to come share neither technician nor bay, however status      *)
(* requests cross, requests overlap and replies of inserts get lost.       *)
(***************************************************************************)
THEOREM SlotsStayExclusive ==
  ASSUME OwnTokens, NothingPreset
  PROVE  Spec /\ []HoldersKeepLocks => []SlotsAreExclusive
<1>1. Init => Slots
  BY InitIInv DEF Slots, Forward, Rows, IInv
<1>2. Slots /\ HoldersKeepLocks /\ [Next]_vars => Slots'
  BY SlotsInductive
<1>3. Slots => SlotsAreExclusive
  BY DEF Slots
<1> QED
  BY <1>1, <1>2, <1>3, PTL DEF Spec

(***************************************************************************)
(* Refinement: the rows behave like the atomic calendar.                   *)
(***************************************************************************)
LEMMA BookedRefines ==
  ASSUME NothingPreset, IInv, NEW m \in Message, Booked(m)
  PROVE  Cal!Book(m, techLock[m], bayLock[m])
<1> USE DEF IInv
<1>1. /\ techLock[m] \in Tech /\ bayLock[m] \in Bay
      /\ tech[m] = techLock[m] /\ bay[m] = bayLock[m]
  BY DEF Booked, PairOnTrial
<1>2. /\ techLock[m] \in Skilled[m] /\ bayLock[m] \in ListedBay
      /\ WantTech[m] \in {None, techLock[m]} /\ WantBay[m] \in {None, bayLock[m]}
  BY <1>1 DEF Booked, PairQualifies, NothingPreset
<1>3. ~TechBusy(techLock[m], m) /\ ~BayBusy(bayLock[m], m)
  BY DEF Booked, StillFree
<1>4. Cal!TechFree(techLock[m], m) /\ Cal!BayFree(bayLock[m], m)
  BY <1>3 DEF Cal!TechFree, Cal!BayFree, Cal!Occupies, Cal!Meets, RowTech, RowBay, TechBusy, BayBusy,
     Active, Overlaps
<1>5. RowTech' = [RowTech EXCEPT ![m] = techLock[m]]
  BY <1>1 DEF Booked, RowTech, TypeOK
<1>6. RowBay' = [RowBay EXCEPT ![m] = bayLock[m]]
  BY <1>1 DEF Booked, RowBay, TypeOK
<1> QED
  BY <1>2, <1>4, <1>5, <1>6 DEF Booked, Cal!Book

LEMMA MovedRefines ==
  ASSUME IInv, NEW m \in Message, Moved(m)
  PROVE  Cal!Begins(m) \/ Cal!Completes(m) \/ Cal!Cancels(m)
<1>1. status[m] # "none" /\ status'[m] # "none"
  BY DEF Moved, ValidTransitions
<1>2. \A n \in Message : status'[n] = "none" <=> status[n] = "none"
  BY <1>1 DEF Moved, IInv, TypeOK
<1>3. UNCHANGED <<RowTech, RowBay>>
  BY <1>2 DEF Moved, RowTech, RowBay
<1> QED
  BY <1>3 DEF Moved, ValidTransitions, Cal!Begins, Cal!Completes, Cal!Cancels, Cal!Occupies

LEMMA KeptRefines ==
  ASSUME RowsKept
  PROVE  UNCHANGED Cal!calendar
  BY DEF RowsKept, RowTech, RowBay, Cal!calendar

(***************************************************************************)
(* In every such behaviour the interleaved handlers implement the calendar *)
(* that books in one atomic step: the locks and the checks under them make *)
(* each insert look as if nothing happened between its checks and itself.  *)
(***************************************************************************)
THEOREM ProcessorImplementsCalendar ==
  ASSUME OwnTokens, NothingPreset
  PROVE  Spec /\ []HoldersKeepLocks /\ []NoRace /\ []NoCrossedEdits => ImplementsCalendar
<1>1. IInv /\ EditsHaveRows /\ Undisturbed /\ [Next]_vars => IInv' /\ EditsHaveRows'
  BY Inductive
<1>2. Init => Cal!Init
  BY DEF Init, Cal!Init, RowTech, RowBay
<1>3. IInv /\ EditsHaveRows /\ [Next]_vars => [Cal!Next]_(Cal!calendar)
  <2> SUFFICES ASSUME IInv, EditsHaveRows, [Next]_vars
               PROVE  Cal!Next \/ UNCHANGED Cal!calendar
    OBVIOUS
  <2>1. ASSUME NEW m \in Message, Booked(m)
        PROVE  Cal!Next
    <3>1. techLock[m] \in Tech /\ bayLock[m] \in Bay
      BY <2>1 DEF IInv, Booked, PairOnTrial
    <3> QED
      BY <2>1, <3>1, BookedRefines DEF Cal!Next
  <2>2. ASSUME NEW m \in Message, Moved(m)
        PROVE  Cal!Next
    BY <2>2, MovedRefines DEF Cal!Next
  <2> QED
    BY <2>1, <2>2, RowEffect, KeptRefines DEF IInv, Statuses, Rows
<1>4. Init => IInv /\ EditsHaveRows
  BY InitIInv
<1>5. HoldersKeepLocks /\ NoRace /\ NoCrossedEdits => Undisturbed
  BY DEF Undisturbed
<1> QED
  BY <1>1, <1>2, <1>3, <1>4, <1>5, PTL DEF Spec, ImplementsCalendar, Cal!Spec
=============================================================================
