---------------------------- MODULE OutcomeProofs ----------------------------
(***************************************************************************)
(* Theorems about how the handlers of AppointmentProcessor end: whose lock *)
(* keys they give back, what is left of them in Redis, what the customer   *)
(* is told, and that competing requests do not all refuse one another.     *)
(***************************************************************************)
EXTENDS AppointmentProcessorProofs

(***************************************************************************)
(* The lock keys.  A handler only ever sets a free key and releases a key  *)
(* of its own token, and in both cases a key that its locals name.         *)
(***************************************************************************)
Takes(m, r) ==
  /\ pc[m] \in {"lockTech", "lockBay"} /\ pc'[m] # pc[m]
  /\ r = IF pc[m] = "lockTech" THEN techLock[m] ELSE bayLock[m]
  /\ Free(r, m) /\ lock' = Acquired(r, m)
  /\ UNCHANGED names

GivesBack(m, r) ==
  /\ pc[m] \in {"dropTech", "dropPair", "dropBay", "releaseTech", "releaseBay"}
  /\ pc'[m] # pc[m]
  /\ r = IF pc[m] \in {"dropBay", "releaseBay"} THEN bayLock[m] ELSE techLock[m]
  /\ lock' = Released(r, m)
  /\ UNCHANGED names

LEMMA LockEffect ==
  ASSUME TypeOK, NEW m \in Message, Acts(m)
  PROVE  \/ lock' = lock
         \/ \E r \in {techLock[m], bayLock[m]} : Takes(m, r) \/ GivesBack(m, r)
<1> USE DEF TypeOK, GoTo, Takes, GivesBack
<1>1. CASE LockTech(m) \/ LockBay(m)
  BY <1>1 DEF LockTech, LockBay
<1>2. CASE DropTech(m) \/ DropPair(m) \/ DropBay(m)
  BY <1>2 DEF DropTech, DropPair, DropBay
<1>3. CASE ReleaseTech(m) \/ ReleaseBay(m)
  BY <1>3 DEF ReleaseTech, ReleaseBay
<1>4. CASE LockReplyLost(m)
  BY <1>4 DEF LockReplyLost
<1>5. CASE Fault(m) /\ ~LockReplyLost(m)
  BY <1>5 DEF Fault, AwaitThrows, CommitReplyLost, PublishThrows, ReleaseThrows, Crash
<1>6. CASE Begin(m) \/ NextTech(m) \/ NextBay(m) \/ BaysExhausted(m) \/ TechsExhausted(m)
  BY <1>6 DEF Begin, NextTech, NextBay, BaysExhausted, TechsExhausted
<1>7. CASE CheckTech(m) \/ CheckBay(m) \/ Insert(m) \/ Publish(m) \/ MarkFailed(m)
  BY <1>7 DEF CheckTech, CheckBay, Insert, Publish, MarkFailed
<1> QED
  BY <1>1, <1>2, <1>3, <1>4, <1>5, <1>6, <1>7 DEF Acts, Step

(***************************************************************************)
(* In any deployment and whatever fails, a lock key changes hands only by  *)
(* a step of a handler whose token it carries and whose locals name it, or *)
(* by expiry: SET NX and the compare of the release script see to that.    *)
(***************************************************************************)
THEOREM NobodyElseReleases == Spec => OnlyTheOwnerReleases
<1> DEFINE A == \A k \in Resource \X Time :
                  lock[k] # None /\ lock'[k] # lock[k] =>
                    pc' = pc \/ \E m \in Message : Token[m] = lock[k] /\ pc[m] # pc'[m]
                                                   /\ k[1] \in {techLock[m], bayLock[m]}
<1>1. TypeOK /\ [Next]_vars => TypeOK'
  BY NextCases, StepTypeOK, FaultTypeOK, OtherTypeOK
<1>2. TypeOK /\ [Next]_vars => [A]_vars
  <2> SUFFICES ASSUME TypeOK, [Next]_vars, NEW k \in Resource \X Time,
                      lock[k] # None, lock'[k] # lock[k], pc' # pc
               PROVE  \E m \in Message : Token[m] = lock[k] /\ pc[m] # pc'[m]
                                         /\ k[1] \in {techLock[m], bayLock[m]}
    OBVIOUS
  <2>1. PICK m \in Message : Acts(m)
    BY NextCases, EditFrame, LeaseFrame DEF Acts, vars
  <2>2. PICK r \in {techLock[m], bayLock[m]} : Takes(m, r) \/ GivesBack(m, r)
    BY <2>1, LockEffect
  <2>3. CASE Takes(m, r)
    BY <2>3, AcquiredOthers DEF Takes, TypeOK
  <2>4. CASE GivesBack(m, r)
    <3>1. k = Key(r, m) /\ lock[k] = Token[m]
      BY <2>4 DEF GivesBack, Released, TypeOK, LockTable
    <3> QED
      BY <2>4, <3>1 DEF GivesBack, Key
  <2> QED
    BY <2>2, <2>3, <2>4
<1> QED
  BY InitTypeOK, <1>1, <1>2, PTL DEF Spec, OnlyTheOwnerReleases

(***************************************************************************)
(* What a handler holds: the keys that its locals name, and at each label  *)
(* no more than what the labels behind it have taken and not given back.   *)
(***************************************************************************)
HoldsNothing == {"queued", "techs", "bays", "lockTech", "done"}
HoldsTechAtMost == {"lockBay", "dropTech"}
HoldsBayAtMost == {"dropBay", "releaseBay"}

NamedKeys ==
  \A m \in Message : \A k \in Resource \X Time : lock[k] = Token[m] =>
    /\ pc[m] \notin HoldsNothing
    /\ k \in {Key(techLock[m], m), Key(bayLock[m], m)}
    /\ pc[m] \in HoldsTechAtMost => k = Key(techLock[m], m)
    /\ pc[m] \in HoldsBayAtMost => k = Key(bayLock[m], m)

\* What a handler gives back it no longer holds.
LEMMA ReleasedOwn ==
  ASSUME lock \in LockTable, NEW m \in Message, NEW r, NEW k \in Resource \X Time,
         Released(r, m)[k] = Token[m]
  PROVE  lock[k] = Token[m] /\ k # Key(r, m)
<1>1. k = Key(r, m) => r # None
  BY ProcessorAssumption DEF Key, Resource
<1> QED
  BY <1>1, ProcessorAssumption DEF LockTable, Released

\* What a handler holds after a SET NX it held before, or it is that key.
LEMMA AcquiredKeys ==
  ASSUME lock \in LockTable, NEW m \in Message, NEW r, NEW k \in Resource \X Time
  PROVE  Acquired(r, m)[k] = lock[k] \/ k = Key(r, m)
  BY DEF LockTable, Acquired

\* What somebody else holds after a step of a handler, he held before it.
LEMMA TokensOfOthers ==
  ASSUME TypeOK, OwnTokens, NEW m \in Message, Acts(m), NEW n \in Message, n # m,
         NEW k \in Resource \X Time, lock'[k] = Token[n]
  PROVE  lock[k] = Token[n]
<1>1. Token[n] # Token[m] /\ Token[n] # None
  BY ProcessorAssumption DEF OwnTokens
<1>2. lock'[k] = lock[k] \/ lock'[k] \in {Token[m], None}
  BY LockEffect DEF Takes, GivesBack, TypeOK, LockTable, Acquired, Released
<1> QED
  BY <1>1, <1>2

LEMMA NamedKeysStep ==
  ASSUME TypeOK, OwnTokens, NothingPreset, NamedKeys, NEW m \in Message, Acts(m)
  PROVE  NamedKeys'
<1> DEFINE N(n, k) ==
      /\ pc[n] \notin HoldsNothing
      /\ k \in {Key(techLock[n], n), Key(bayLock[n], n)}
      /\ pc[n] \in HoldsTechAtMost => k = Key(techLock[n], n)
      /\ pc[n] \in HoldsBayAtMost => k = Key(bayLock[n], n)
<1> SUFFICES ASSUME NEW n \in Message, NEW k \in Resource \X Time, lock'[k] = Token[n]
             PROVE  N(n, k)'
  BY DEF NamedKeys
<1>0. lock \in LockTable
  BY DEF TypeOK
<1>1. lock[k] = Token[n] => N(n, k)
  BY DEF NamedKeys
<1>2. CASE n # m
  <2>1. lock[k] = Token[n]
    BY <1>2, TokensOfOthers
  <2> QED
    BY <1>1, <1>2, <2>1, OthersUntouched DEF Key
<1>3. CASE n = m
  <2> USE <1>3 DEF TypeOK, GoTo, HoldsNothing, HoldsTechAtMost, HoldsBayAtMost
  <2>1. CASE LockTech(m)
    BY <1>0, <1>1, <2>1, AcquiredKeys DEF LockTech, names, Key
  <2>2. CASE LockBay(m)
    BY <1>0, <1>1, <2>2, AcquiredKeys DEF LockBay, names, Key
  <2>3. CASE DropTech(m) \/ DropPair(m) \/ DropBay(m) \/ ReleaseTech(m) \/ ReleaseBay(m)
    <3>1. PICK r \in {techLock[m], bayLock[m]} : GivesBack(m, r)
      BY <2>3 DEF GivesBack, DropTech, DropPair, DropBay, ReleaseTech, ReleaseBay
    <3>2. lock[k] = Token[m] /\ k # Key(r, m)
      BY <1>0, <3>1, ReleasedOwn DEF GivesBack
    <3>3. UNCHANGED <<techLock, bayLock>>
      BY <3>1 DEF GivesBack, names
    <3>4. CASE DropTech(m)
      BY <1>1, <3>1, <3>2, <3>4 DEF DropTech, GivesBack
    <3>5. CASE DropPair(m)
      BY <1>1, <3>1, <3>2, <3>3, <3>5 DEF DropPair, GivesBack, Key
    <3>6. CASE DropBay(m) \/ ReleaseBay(m)
      BY <1>1, <3>1, <3>2, <3>6 DEF DropBay, ReleaseBay, GivesBack
    <3>7. CASE ReleaseTech(m)
      BY <1>1, <3>1, <3>2, <3>3, <3>7 DEF ReleaseTech, GivesBack, Key
    <3> QED
      BY <2>3, <3>4, <3>5, <3>6, <3>7
  <2>4. CASE Begin(m) \/ NextTech(m) \/ NextBay(m) \/ BaysExhausted(m) \/ TechsExhausted(m)
    BY <1>1, <2>4 DEF Begin, NextTech, NextBay, BaysExhausted, TechsExhausted
  <2>5. CASE CheckTech(m)
    BY <1>1, <2>5 DEF CheckTech, names, Key
  <2>6. CASE CheckBay(m)
    BY <1>1, <2>6 DEF CheckBay, names, Key, NothingPreset
  <2>7. CASE Insert(m) \/ Publish(m) \/ MarkFailed(m)
    BY <1>1, <2>7 DEF Insert, Publish, MarkFailed, names, Key
  <2>8. CASE LockReplyLost(m)
    BY <1>0, <1>1, <2>8, AcquiredKeys DEF LockReplyLost, names, Key
  <2>9. CASE Fault(m) /\ ~LockReplyLost(m)
    BY <1>1, <2>9 DEF Fault, AwaitThrows, CommitReplyLost, PublishThrows, ReleaseThrows, Crash, names, Key
  <2> QED
    BY <2>1, <2>2, <2>3, <2>4, <2>5, <2>6, <2>7, <2>8, <2>9 DEF Acts, Step
<1> QED
  BY <1>2, <1>3

LEMMA NamedKeysInductive ==
  OwnTokens /\ NothingPreset /\ TypeOK /\ NamedKeys /\ [Next]_vars => NamedKeys'
<1> SUFFICES ASSUME OwnTokens, NothingPreset, TypeOK, NamedKeys, [Next]_vars PROVE NamedKeys'
  OBVIOUS
<1>1. ASSUME NEW m \in Message, Acts(m)
      PROVE  NamedKeys'
  BY <1>1, NamedKeysStep
<1>2. ASSUME NEW j \in Resource \X Time, LeaseExpires(j)
      PROVE  NamedKeys'
  <2>1. \A m \in Message : \A k \in Resource \X Time : lock'[k] = Token[m] => lock[k] = Token[m]
    BY <1>2, ProcessorAssumption DEF LeaseExpires, TypeOK, LockTable
  <2> QED
    BY <1>2, <2>1, LeaseFrame DEF NamedKeys, Key
<1>3. ASSUME NEW e \in Editor, Edit(e)
      PROVE  NamedKeys'
  BY <1>3, EditFrame DEF NamedKeys, Key
<1>4. CASE UNCHANGED vars
  BY <1>4 DEF vars, names, NamedKeys, Key
<1> QED
  BY <1>1, <1>2, <1>3, <1>4, NextCases DEF Acts

LEMMA InitNamedKeys == Init => NamedKeys
  BY ProcessorAssumption DEF Init, NamedKeys

(***************************************************************************)
(* Where tokens are distinct and AutoAssigned requests carry no ids, a     *)
(* handler that has come to the end of its finally block holds no lock,    *)
(* whatever path it took through the search, the checks and the catch      *)
(* block, and whatever failed on the way.                                  *)
(***************************************************************************)
THEOREM NoLockIsLeaked ==
  ASSUME OwnTokens, NothingPreset
  PROVE  Spec => []NoLeakedLock
<1>1. Init => TypeOK /\ NamedKeys
  BY InitTypeOK, InitNamedKeys
<1>2. TypeOK /\ NamedKeys /\ [Next]_vars => TypeOK' /\ NamedKeys'
  BY NamedKeysInductive, NextCases, StepTypeOK, FaultTypeOK, OtherTypeOK
<1>3. NamedKeys => NoLeakedLock
  BY DEF NamedKeys, NoLeakedLock, HoldsNothing
<1> QED
  BY <1>1, <1>2, <1>3, PTL DEF Spec

(***************************************************************************)
(* What the customer is told.                                              *)
(***************************************************************************)

\* Once written a row stays: no handler, and no status request, removes it.
LEMMA RowsStay ==
  ASSUME Rows, [Next]_vars, NEW n \in Message, status[n] # "none"
  PROVE  status'[n] # "none"
<1>1. ASSUME NEW m \in Message, Acts(m)
      PROVE  status'[n] # "none"
  BY <1>1, HandlersLeaveEdits DEF Rows
<1>2. ASSUME NEW e \in Editor, Edit(e)
      PROVE  status'[n] # "none"
  BY <1>2, EditKeepsRows DEF Rows
<1>3. CASE (\E k \in Resource \X Time : LeaseExpires(k)) \/ UNCHANGED vars
  BY <1>3, LeaseFrame DEF vars
<1> QED
  BY <1>1, <1>2, <1>3, NextCases DEF Acts

Over == {"releaseTech", "releaseBay"} \cup Stopped

\* The word Scheduled is written behind the insert, and only there.
ScheduledHasRow ==
  \A m \in Message :
    /\ pc[m] = "publish" => status[m] # "none"
    /\ told[m] = "Scheduled" => status[m] # "none"

\* Without a lost reply or a failing cache the catch block is never entered
\* behind the insert, and what was told is the last word.
FailedHasNoRow ==
  \A m \in Message :
    /\ pc[m] = "failing" \/ told[m] = "Failed" => status[m] = "none"
    /\ told[m] # "none" => pc[m] \in Over

LEMMA OthersToldNothing ==
  ASSUME TypeOK, NEW m \in Message, Acts(m), NEW n \in Message, n # m
  PROVE  told'[n] = told[n]
<1>1. told' = told \/ \E w : told' = [told EXCEPT ![m] = w]
  BY DEF Acts, Step, Begin, NextTech, NextBay, BaysExhausted, TechsExhausted, LockTech, LockBay,
     DropTech, CheckTech, CheckBay, DropPair, DropBay, Insert, Publish, MarkFailed, ReleaseTech,
     ReleaseBay, Fault, AwaitThrows, LockReplyLost, CommitReplyLost, PublishThrows, ReleaseThrows, Crash
<1> QED
  BY <1>1 DEF TypeOK

\* The steps of a handler from the insert on; before it they tell nothing.
LEMMA ToldEffect ==
  ASSUME TypeOK, NEW m \in Message, Acts(m)
  PROVE  \/ /\ Inserts(m) /\ pc[m] = "insert" /\ status'[m] # "none" /\ told' = told
            /\ pc'[m] = "publish" \/ ("lostReply" \in Faults /\ pc'[m] = "failing")
         \/ /\ pc[m] = "publish" /\ told'[m] \in {told[m], "Scheduled"} /\ ~Inserts(m)
            /\ pc'[m] \in Over \/ ("cache" \in Faults /\ pc'[m] = "failing")
         \/ pc[m] = "failing" /\ told'[m] \in {told[m], "Failed"} /\ pc'[m] \in Over /\ ~Inserts(m)
         \/ pc[m] \in Over /\ told' = told /\ pc'[m] \in Over /\ ~Inserts(m)
         \/ pc[m] \in Awaiting /\ told' = told /\ pc'[m] # "publish" /\ ~Inserts(m)
<1> USE DEF TypeOK, GoTo, Awaiting, Over, Stopped, Inserts
<1>1. CASE Inserts(m)
  BY <1>1 DEF Insert, CommitReplyLost
<1>2. CASE Publish(m) \/ MarkFailed(m)
  BY <1>2 DEF Publish, MarkFailed, Insert, CommitReplyLost
<1>3. CASE PublishThrows(m)
  BY <1>3 DEF PublishThrows, Insert, CommitReplyLost
<1>4. CASE ReleaseTech(m) \/ ReleaseBay(m) \/ ReleaseThrows(m)
  BY <1>4 DEF ReleaseTech, ReleaseBay, ReleaseThrows, Insert, CommitReplyLost
<1>5. CASE Crash(m) /\ ~Inserts(m)
  BY <1>5 DEF Crash, Label
<1>6. CASE Begin(m) \/ NextTech(m) \/ NextBay(m) \/ BaysExhausted(m) \/ TechsExhausted(m)
  BY <1>6 DEF Begin, NextTech, NextBay, BaysExhausted, TechsExhausted, Insert, CommitReplyLost
<1>7. CASE LockTech(m) \/ LockBay(m) \/ DropTech(m) \/ LockReplyLost(m)
  BY <1>7 DEF LockTech, LockBay, DropTech, LockReplyLost, Insert, CommitReplyLost
<1>8. CASE CheckTech(m) \/ CheckBay(m) \/ DropPair(m) \/ DropBay(m)
  BY <1>8 DEF CheckTech, CheckBay, DropPair, DropBay, Insert, CommitReplyLost
<1>9. CASE AwaitThrows(m) /\ ~Inserts(m)
  BY <1>9 DEF AwaitThrows
<1> QED
  BY <1>1, <1>2, <1>3, <1>4, <1>5, <1>6, <1>7, <1>8, <1>9 DEF Acts, Step, Fault

Told == Rows /\ ScheduledHasRow

LEMMA ToldInductive == Told /\ [Next]_vars => Told'
<1> SUFFICES ASSUME Told, [Next]_vars PROVE Told'
  OBVIOUS
<1> USE DEF Told
<1>1. Rows'
  BY RowsInductive
<1>2. \A n \in Message : status[n] # "none" => status'[n] # "none"
  BY RowsStay
<1>3. ASSUME NEW m \in Message, Acts(m), NEW n \in Message
      PROVE  /\ pc'[n] = "publish" => status'[n] # "none"
             /\ told'[n] = "Scheduled" => status'[n] # "none"
  <2>1. CASE n # m
    BY <1>3, <2>1, OthersUntouched, OthersToldNothing DEF Rows, ScheduledHasRow
  <2>2. CASE n = m
    BY <1>2, <1>3, <2>2, ToldEffect DEF Rows, ScheduledHasRow, Over, Stopped
  <2> QED
    BY <2>1, <2>2
<1>4. ASSUME NEW e \in Editor, Edit(e)
      PROVE  ScheduledHasRow'
  BY <1>2, <1>4, EditFrame DEF ScheduledHasRow
<1>5. CASE (\E k \in Resource \X Time : LeaseExpires(k)) \/ UNCHANGED vars
  BY <1>1, <1>5, LeaseFrame DEF vars, ScheduledHasRow
<1>6. (\E m \in Message : Acts(m)) => ScheduledHasRow'
  BY <1>3 DEF ScheduledHasRow
<1> QED
  BY <1>1, <1>4, <1>5, <1>6, NextCases DEF Acts

\* Whatever fails, whoever is told Scheduled has a row.
ScheduledIsBooked == \A m \in Message : told[m] = "Scheduled" => status[m] # "none"

(***************************************************************************)
(* In any deployment, and whatever fails, the status endpoint says         *)
(* Scheduled of a request only when there is an appointment for it: the    *)
(* cache is written after the transaction and rows are never removed.      *)
(***************************************************************************)
THEOREM ScheduledIsNeverInvented == Spec => []ScheduledIsBooked
<1>1. Init => Told
  BY InitIInv DEF Init, Told, Rows, ScheduledHasRow, IInv
<1>2. Told => ScheduledIsBooked
  BY DEF Told, ScheduledHasRow, ScheduledIsBooked
<1> QED
  BY <1>1, <1>2, ToldInductive, PTL DEF Spec

LEMMA FailedHasNoRowInductive ==
  ASSUME Faults \cap {"lostReply", "cache"} = {}, Rows, FailedHasNoRow, [Next]_vars
  PROVE  FailedHasNoRow'
<1>1. ASSUME NEW m \in Message, Acts(m), NEW n \in Message
      PROVE  /\ pc'[n] = "failing" \/ told'[n] = "Failed" => status'[n] = "none"
             /\ told'[n] # "none" => pc'[n] \in Over
  <2>1. CASE n # m
    BY <1>1, <2>1, OthersUntouched, OthersToldNothing DEF Rows, FailedHasNoRow
  <2>2. CASE n = m /\ Inserts(m)
    BY <1>1, <2>2, ToldEffect DEF Rows, FailedHasNoRow, Over, Stopped, Awaiting
  <2>3. CASE n = m /\ ~Inserts(m)
    <3>1. status' = status /\ (pc[m] \in Awaiting => status[m] = "none")
      BY <1>1, <2>3, RowKept DEF Rows, RowsAfterInsert
    <3>2. TypeOK
      BY DEF Rows
    <3>3. /\ pc[m] \in Awaiting \cup {"publish", "failing"} => told[m] = "none"
          /\ told[m] = "Failed" => status[m] = "none"
          /\ pc[m] = "failing" => status[m] = "none"
      BY DEF FailedHasNoRow, Over, Stopped, Awaiting
    <3>4. "cache" \notin Faults /\ "lostReply" \notin Faults
      OBVIOUS
    <3>5. \/ pc[m] = "publish" /\ told'[m] \in {told[m], "Scheduled"} /\ pc'[m] \in Over
          \/ pc[m] = "failing" /\ told'[m] \in {told[m], "Failed"} /\ pc'[m] \in Over
          \/ pc[m] \in Over /\ told' = told /\ pc'[m] \in Over
          \/ pc[m] \in Awaiting /\ told' = told /\ pc'[m] # "publish"
      BY <1>1, <2>3, <3>2, <3>4, ToldEffect
    <3> QED
      BY <2>3, <3>1, <3>3, <3>5 DEF Over, Stopped
  <2> QED
    BY <2>1, <2>2, <2>3
<1>2. ASSUME NEW e \in Editor, Edit(e)
      PROVE  FailedHasNoRow'
  BY <1>2, EditFrame, EditKeepsRows DEF Rows, FailedHasNoRow
<1>3. CASE (\E k \in Resource \X Time : LeaseExpires(k)) \/ UNCHANGED vars
  BY <1>3, LeaseFrame DEF vars, FailedHasNoRow
<1>4. (\E m \in Message : Acts(m)) => FailedHasNoRow'
  BY <1>1 DEF FailedHasNoRow
<1> QED
  BY <1>2, <1>3, <1>4, NextCases DEF Acts

(***************************************************************************)
(* Unless a reply gets lost or the cache fails, the word the customer is   *)
(* left with is the truth: Failed without an appointment, Scheduled with   *)
(* one.  Refused calls, crashes, failing releases and lost leases do not   *)
(* matter; the run FailedButBooked shows that the two exceptions do.       *)
(***************************************************************************)
THEOREM CustomersAreToldTheTruth ==
  ASSUME Faults \cap {"lostReply", "cache"} = {}
  PROVE  Spec => []ToldTheTruth
<1>1. Init => Told /\ FailedHasNoRow
  BY InitIInv DEF Init, Told, Rows, ScheduledHasRow, FailedHasNoRow, IInv
<1>2. Told /\ FailedHasNoRow /\ [Next]_vars => Told' /\ FailedHasNoRow'
  BY ToldInductive, FailedHasNoRowInductive DEF Told
<1>3. Told /\ FailedHasNoRow => ToldTheTruth
  BY DEF Told, ScheduledHasRow, FailedHasNoRow, ToldTheTruth
<1> QED
  BY <1>1, <1>2, <1>3, PTL DEF Spec

(***************************************************************************)
(* Competing requests do not all refuse one another.  As long as there is  *)
(* no row, either nobody holds a lock and every request still has a        *)
(* candidate to try, or some handler holds the lock of its technician and  *)
(* has not been refused: a handler is refused a bay only by one that holds *)
(* it, and that one is refused only by a row.                              *)
(***************************************************************************)
SomeRow == \E m \in Message : status[m] # "none"

Hopeful == {"lockBay", "checkTech", "checkBay", "insert"}

SomeHope == \E m \in Message : pc[m] \in Hopeful

Untried ==
  /\ \A k \in Resource \X Time : lock[k] = None
  /\ \A m \in Message :
       /\ pc[m] \in {"queued", "techs", "bays", "lockTech"}
       /\ pc[m] = "techs" => techTodo[m] # {}
       /\ pc[m] = "bays" => bayTodo[m] # {}

\* Who keeps a lock without hope, other than a technician's on its way back,
\* has met a row.
RefusedByRow ==
  \A m \in Message : \A k \in Resource \X Time :
    lock[k] = Token[m] /\ pc[m] \notin Hopeful \cup {"dropTech"} => SomeRow

Hope == RefusedByRow /\ (SomeRow \/ SomeHope \/ Untried)

AllBookable == \A m \in Message : Bookable(m)

\* A handler that holds the pair of a bookable request is refused by a row.
LEMMA RefusalNeedsRow ==
  ASSUME Qualified, NEW m \in Message, Bookable(m)
  PROVE  /\ pc[m] = "checkTech" /\ ~TechUsable(m) => SomeRow
         /\ pc[m] = "checkBay" /\ ~BayUsable(m) => SomeRow
<1>1. pc[m] \in {"checkTech", "checkBay"} /\ m \notin AutoAssigned =>
        techLock[m] \in Skilled[m] /\ bayLock[m] \in ListedBay
  BY DEF Qualified, PairQualifies, PairOnTrial, Trying, Bookable
<1>2. \A n \in Message : Active(n) => status[n] # "none"
  BY DEF Active
<1> QED
  BY <1>1, <1>2 DEF TechUsable, BayUsable, TechBusy, BayBusy, SomeRow

\* A handler is refused the key of its bay by another one, which is not in
\* the middle of taking or giving back a technician.
LEMMA BayHolder ==
  ASSUME Qualified, NamedKeys, NEW m \in Message, pc[m] = "lockBay", ~Free(bayLock[m], m)
  PROVE  \E n \in Message : /\ n # m /\ lock[Key(bayLock[m], m)] = Token[n]
                            /\ pc[n] \notin {"lockBay", "dropTech"}
<1>1. techLock[m] \in Tech /\ bayLock[m] \in Bay
  BY DEF Qualified, PairOnTrial, Trying
<1>2. /\ Key(bayLock[m], m) \in Resource \X Time
      /\ \A n \in Message : Key(techLock[n], n) = Key(bayLock[m], m) => techLock[n] \notin Tech
  BY <1>1, PairKeys, ProcessorAssumption DEF Key
<1>3. PICK n \in Message : lock[Key(bayLock[m], m)] = Token[n]
  BY <1>2 DEF Free, Qualified, Rows, TypeOK, LockTable
<1>4. pc[n] \in {"lockBay", "dropTech"} => techLock[n] \in Tech
  BY DEF Qualified, PairOnTrial, Trying
<1>5. pc[n] \notin {"lockBay", "dropTech"}
  BY <1>2, <1>3, <1>4 DEF NamedKeys, HoldsTechAtMost
<1> QED
  BY <1>3, <1>5

\* A pair that passed both checks under the locks goes straight to the insert.
LEMMA TriedPairBooked ==
  ASSUME TypeOK, NothingPreset, NEW m \in Message, CheckBay(m), BayUsable(m)
  PROVE  pc'[m] = "insert"
  BY DEF CheckBay, NothingPreset, TypeOK, GoTo

LEMMA RefusedByRowStep ==
  ASSUME Faults = {}, AllBookable, OwnTokens, NothingPreset, Qualified, NamedKeys, RefusedByRow,
         SomeRow => SomeRow', NEW m \in Message, Acts(m)
  PROVE  RefusedByRow'
<1> SUFFICES ASSUME NEW n \in Message, NEW k \in Resource \X Time, lock'[k] = Token[n],
                    pc'[n] \notin Hopeful \cup {"dropTech"}
             PROVE  SomeRow'
  BY DEF RefusedByRow
<1>0. TypeOK /\ lock \in LockTable /\ Step(m)
  BY DEF Qualified, Rows, TypeOK, Acts, Fault, AwaitThrows, LockReplyLost, CommitReplyLost,
     PublishThrows, ReleaseThrows, Crash
<1>1. CASE n # m
  <2>1. lock[k] = Token[n]
    BY <1>0, <1>1, TokensOfOthers
  <2> QED
    BY <1>0, <1>1, <2>1, OthersUntouched DEF RefusedByRow
<1>2. CASE n = m
  <2> USE <1>0, <1>2 DEF TypeOK, GoTo, Hopeful
  <2>1. CASE Begin(m) \/ NextTech(m) \/ NextBay(m) \/ BaysExhausted(m) \/ TechsExhausted(m)
    BY <2>1 DEF Begin, NextTech, NextBay, BaysExhausted, TechsExhausted, NamedKeys, HoldsNothing
  <2>2. CASE LockTech(m)
    BY <2>2 DEF LockTech, NamedKeys, HoldsNothing
  <2>3. CASE LockBay(m)
    BY <2>3 DEF LockBay
  <2>4. CASE DropTech(m)
    BY <2>4, ReleasedOwn DEF DropTech, NamedKeys, HoldsTechAtMost
  <2>5. CASE CheckTech(m)
    BY <2>5, RefusalNeedsRow DEF CheckTech, AllBookable
  <2>6. CASE CheckBay(m) /\ ~BayUsable(m)
    BY <2>6, RefusalNeedsRow DEF CheckBay, AllBookable
  <2>7. CASE CheckBay(m) /\ BayUsable(m)
    BY <2>7, TriedPairBooked
  <2>8. CASE Insert(m)
    BY <2>8 DEF Insert, SomeRow
  <2>9. CASE Publish(m) \/ MarkFailed(m)
    BY <2>9 DEF Publish, MarkFailed, RefusedByRow
  <2>10. CASE DropPair(m) \/ DropBay(m) \/ ReleaseTech(m) \/ ReleaseBay(m)
    <3>1. lock[k] = Token[m] /\ pc[m] \in {"dropPair", "dropBay", "releaseTech", "releaseBay"}
      BY <2>10, ReleasedOwn DEF DropPair, DropBay, ReleaseTech, ReleaseBay
    <3> QED
      BY <3>1 DEF RefusedByRow
  <2> QED
    BY <2>1, <2>2, <2>3, <2>4, <2>5, <2>6, <2>7, <2>8, <2>9, <2>10 DEF Step
<1> QED
  BY <1>1, <1>2

\* Hope is lost to a row only.
LEMMA SomeHopeStep ==
  ASSUME Faults = {}, AllBookable, Qualified, NamedKeys, RefusedByRow, SomeHope,
         SomeRow => SomeRow', NothingPreset, NEW m \in Message, Acts(m)
  PROVE  SomeRow' \/ SomeHope'
<1>0. TypeOK /\ Step(m)
  BY DEF Qualified, Rows, Acts, Fault, AwaitThrows, LockReplyLost, CommitReplyLost,
     PublishThrows, ReleaseThrows, Crash
<1>1. PICK h \in Message : pc[h] \in Hopeful
  BY DEF SomeHope
<1>2. CASE h # m
  BY <1>0, <1>1, <1>2, OthersUntouched DEF SomeHope
<1>3. CASE h = m
  <2> USE <1>0, <1>1, <1>3 DEF TypeOK, GoTo, Hopeful
  <2>1. CASE LockBay(m) /\ Free(bayLock[m], m)
    BY <2>1 DEF LockBay, SomeHope
  <2>2. CASE LockBay(m) /\ ~Free(bayLock[m], m)
    <3>1. PICK n \in Message : /\ n # m /\ lock[Key(bayLock[m], m)] = Token[n]
                               /\ pc[n] \notin {"lockBay", "dropTech"}
      BY <2>2, BayHolder DEF LockBay
    <3>2. CASE pc[n] \in Hopeful
      BY <3>1, <3>2, OthersUntouched DEF SomeHope
    <3>3. CASE pc[n] \notin Hopeful
      <4>1. Key(bayLock[m], m) \in Resource \X Time
        BY <2>2, PairKeys DEF LockBay, Qualified, PairOnTrial, Trying
      <4> QED
        BY <3>1, <3>3, <4>1 DEF RefusedByRow
    <3> QED
      BY <3>2, <3>3
  <2>3. CASE CheckTech(m)
    BY <2>3, RefusalNeedsRow DEF CheckTech, AllBookable, SomeHope
  <2>4. CASE CheckBay(m) /\ ~BayUsable(m)
    BY <2>4, RefusalNeedsRow DEF CheckBay, AllBookable
  <2>5. CASE CheckBay(m) /\ BayUsable(m)
    BY <2>5, TriedPairBooked DEF SomeHope
  <2>6. CASE Insert(m)
    BY <2>6 DEF Insert, SomeRow
  <2> QED
    BY <2>1, <2>2, <2>3, <2>4, <2>5, <2>6 DEF Step, Begin, NextTech, NextBay, BaysExhausted,
       TechsExhausted, LockTech, LockBay, DropTech, CheckTech, CheckBay, DropPair, DropBay,
       Insert, Publish, MarkFailed, ReleaseTech, ReleaseBay
<1> QED
  BY <1>2, <1>3

\* On an empty calendar the search runs into nothing before the first lock.
LEMMA UntriedStep ==
  ASSUME Faults = {}, AllBookable, Qualified, Untried, ~SomeRow, NEW m \in Message, Acts(m)
  PROVE  SomeHope' \/ Untried'
<1>0. TypeOK /\ Step(m)
  BY DEF Qualified, Rows, Acts, Fault, AwaitThrows, LockReplyLost, CommitReplyLost,
     PublishThrows, ReleaseThrows, Crash
<1>1. \A r : ~TechBusy(r, m) /\ ~BayBusy(r, m)
  BY DEF SomeRow, TechBusy, BayBusy, Active
<1>2. Bookable(m) /\ pc[m] \in {"queued", "techs", "bays", "lockTech"}
  BY DEF AllBookable, Untried
<1>3. ASSUME lock' = lock, pc'[m] \in {"queued", "techs", "bays", "lockTech"},
             pc'[m] = "techs" => techTodo'[m] # {}, pc'[m] = "bays" => bayTodo'[m] # {}
      PROVE  Untried'
  BY <1>0, <1>3, OthersUntouched DEF Untried
<1> USE <1>0 DEF TypeOK, GoTo
<1>4. CASE Begin(m)
  <2>1. CASE m \in AutoAssigned
    <3>1. pc'[m] = "techs" /\ techTodo'[m] = Skilled[m] /\ lock' = lock
      BY <1>4, <2>1 DEF Begin, IsValid
    <3> QED
      BY <1>2, <1>3, <2>1, <3>1 DEF Bookable
  <2>2. CASE m \notin AutoAssigned
    <3>1. IsValid(m)
      BY <1>2, <2>2, ProcessorAssumption DEF Bookable, IsValid
    <3>2. pc'[m] = "lockTech" /\ lock' = lock
      BY <1>4, <2>2, <3>1 DEF Begin
    <3> QED
      BY <1>3, <3>2
  <2> QED
    BY <2>1, <2>2
<1>5. CASE NextTech(m)
  <2>1. ListedBay # {}
    BY <1>2, <1>5 DEF NextTech, Qualified, PairOnTrial, Bookable
  <2> QED
    BY <1>1, <1>3, <1>5, <2>1 DEF NextTech
<1>6. CASE NextBay(m)
  BY <1>1, <1>3, <1>6 DEF NextBay
<1>7. CASE BaysExhausted(m) \/ TechsExhausted(m)
  BY <1>7 DEF BaysExhausted, TechsExhausted, Untried
<1>8. CASE LockTech(m)
  <2>1. Free(techLock[m], m)
    BY <1>8, PairKeys DEF LockTech, Qualified, PairOnTrial, Trying, Untried, Free
  <2> QED
    BY <1>8, <2>1 DEF LockTech, SomeHope, Hopeful
<1> QED
  BY <1>2, <1>4, <1>5, <1>6, <1>7, <1>8 DEF Step, LockBay, DropTech, CheckTech, CheckBay,
     DropPair, DropBay, Insert, Publish, MarkFailed, ReleaseTech, ReleaseBay

HopeInv == Qualified /\ NamedKeys /\ Hope

LEMMA HopeInductive ==
  ASSUME Faults = {}, AllBookable, OwnTokens, NothingPreset, HopeInv, [Next]_vars
  PROVE  HopeInv'
<1> USE DEF HopeInv, Hope
<1>0. Qualified' /\ NamedKeys' /\ TypeOK /\ Rows
  BY QualifiedInductive, NamedKeysInductive DEF Qualified, Rows
<1>1. SomeRow => SomeRow'
  BY <1>0, RowsStay DEF SomeRow
<1>2. ASSUME NEW m \in Message, Acts(m)
      PROVE  Hope'
  <2>1. RefusedByRow'
    BY <1>1, <1>2, RefusedByRowStep
  <2>2. SomeRow' \/ SomeHope' \/ Untried'
    BY <1>1, <1>2, SomeHopeStep, UntriedStep
  <2> QED
    BY <2>1, <2>2
<1>3. ASSUME NEW j \in Resource \X Time, LeaseExpires(j)
      PROVE  Hope'
  <2>1. \A k \in Resource \X Time : lock'[k] = lock[k] \/ lock'[k] = None
    BY <1>0, <1>3 DEF LeaseExpires, TypeOK, LockTable
  <2>2. RefusedByRow'
    BY <1>1, <1>3, <2>1, LeaseFrame, ProcessorAssumption DEF RefusedByRow
  <2>3. (SomeHope => SomeHope') /\ (Untried => Untried')
    BY <1>3, <2>1, LeaseFrame DEF SomeHope, Untried
  <2> QED
    BY <1>1, <2>2, <2>3
<1>4. ASSUME NEW e \in Editor, Edit(e)
      PROVE  Hope'
  BY <1>1, <1>4, EditFrame DEF RefusedByRow, SomeHope, Untried
<1>5. CASE UNCHANGED vars
  BY <1>0, <1>1, <1>5 DEF vars, search, names, RefusedByRow, SomeHope, Untried
<1> QED
  BY <1>0, <1>2, <1>3, <1>4, <1>5, NextCases DEF Acts

(***************************************************************************)
(* Where nothing fails, tokens are distinct and AutoAssigned requests      *)
(* carry no ids, requests that could each be booked on an empty calendar   *)
(* do not all end without an appointment, however many there are and       *)
(* however they collide: locking the technician before the bay leaves one  *)
(* handler that nobody but a booking can refuse.                           *)
(***************************************************************************)
THEOREM CompetitionBooksSomeone ==
  ASSUME Message # {}, Faults = {}, OwnTokens, NothingPreset
  PROVE  Spec => []SomeoneBooks
<1>1. CASE AllBookable
  <2>1. Init => HopeInv
    <3> SUFFICES ASSUME Init PROVE Hope
      BY InitIInv, InitNamedKeys DEF HopeInv, Qualified, Rows, IInv
    <3> QED
      BY ProcessorAssumption DEF Init, Hope, RefusedByRow, Untried
  <2>2. HopeInv /\ [Next]_vars => HopeInv'
    BY <1>1, HopeInductive
  <2>3. HopeInv => SomeoneBooks
    BY DEF HopeInv, Hope, SomeoneBooks, SomeRow, SomeHope, Hopeful, Untried
  <2> QED
    BY <2>1, <2>2, <2>3, PTL DEF Spec
<1>2. CASE ~AllBookable
  <2>1. SomeoneBooks
    BY <1>2 DEF SomeoneBooks, AllBookable
  <2> QED
    BY <2>1, PTL
<1> QED
  BY <1>1, <1>2
=============================================================================
