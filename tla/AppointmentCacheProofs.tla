----------------------- MODULE AppointmentCacheProofs -----------------------
(***************************************************************************)
(* Theorems about AppointmentCache, for any number of status requests and  *)
(* detail queries, any failures and any number of accidents.               *)
(***************************************************************************)
EXTENDS AppointmentCache, TLAPS

(***************************************************************************)
(* The strengthening.                                                      *)
(***************************************************************************)
Failing == {"failHash", "failTtl", "failActive"}
Publishing == {"hash", "active", "tech", "bay", "slot", "ack"}

\* There is a row once anybody acts on one, and none before the insert.
Committed ==
  /\ worker \in {"waiting", "insert"} => row = "none"
  /\ worker \in Publishing => row # "none"
  /\ \A e \in Editor : editing[e] # "idle" =>
       row # "none" /\ intent[e] \in {"InProgress", "Completed", "Cancelled"}
  /\ \A r \in Reader : reading[r] \in RowStatus => row # "none"
  /\ PublishedIsCommitted

\* Until the worker is through, nobody has touched what it published; a
\* worker that did not fail refuses only where there is no row.
WorkerAlone ==
  Without({"early", "workerFault"}) =>
    /\ worker # "done" => row \in {"none", "Scheduled"} /\ \A e \in Editor : editing[e] = "idle"
    /\ worker \in Failing => row = "none"

Occupancy(s) == IF s \in {"Scheduled", "InProgress"} THEN Slot ELSE {}

\* One status request at a time finds the slots of its row and empties them
\* one after the other.
OneEditor ==
  Without({"early", "crossed", "workerFault", "editFault"}) =>
    \A e \in Editor : editing[e] # "idle" =>
      /\ \A d \in Editor : editing[d] # "idle" => d = e
      /\ editing[e] = "write" /\ intent[e] \notin Closed => row = "Scheduled"
      /\ editing[e] # "write" => row = intent[e]
      /\ editing[e] \notin {"write", "invalidate"} => intent[e] \in Closed

SlotsInv ==
  Without({"early", "crossed", "workerFault", "editFault"}) =>
    /\ worker \in {"waiting", "insert", "hash", "active", "tech"} \cup Failing => slots = {}
    /\ worker = "bay" => slots = {"tech"}
    /\ worker = "slot" => slots = {"tech", "bay"}
    /\ worker = "ack" => slots = Slot
    /\ worker = "done" /\ (\A e \in Editor : editing[e] = "idle") => slots = Occupancy(row)
    /\ \A e \in Editor :
         /\ editing[e] = "write" => slots = Occupancy(row)
         /\ editing[e] = "invalidate" /\ intent[e] \notin Closed => slots = Slot
         /\ editing[e] = "bay" => "tech" \notin slots
         /\ editing[e] = "slot" => slots \subseteq {"slot"}
         /\ editing[e] = "hash" => slots = {}

ListInv ==
  Without({"overtaken", "early", "crossed", "workerFault", "editFault"}) =>
    /\ worker \in {"tech", "bay", "slot", "ack"} => listed
    /\ worker = "done" /\ (\A e \in Editor : editing[e] = "idle") => (listed <=> row \notin Closed)
    /\ \A e \in Editor :
         /\ editing[e] = "write" => (listed <=> row \notin Closed)
         /\ editing[e] = "invalidate" /\ intent[e] \notin Closed => listed
         /\ editing[e] \in Slot \cup {"hash"} => ~listed

\* While the row is Scheduled nothing gives the hash an expiry or deletes it;
\* once it is not, its status is gone or about to be deleted.
HashInv ==
  Without({"overtaken", "early", "workerFault", "editFault"}) =>
    /\ row = "none" /\ worker \in {"failTtl", "failActive", "done"} => flat \in {"Failed", "none"}
    /\ row = "Scheduled" =>
         /\ worker # "hash" => flat = "Scheduled"
         /\ ttl = FALSE
         /\ \A r \in Reader : reading[r] \in {"idle", "missed", "Scheduled"}
         /\ \A e \in Editor : editing[e] \in {"idle", "write"}
    /\ row = "none" => \A r \in Reader : reading[r] # "expire"
    /\ worker \in {"waiting", "insert"} => ttl = FALSE
    /\ row \notin {"none", "Scheduled"} =>
         flat = "none" \/ \E e \in Editor : editing[e] = "invalidate"

IInv ==
  /\ TypeOK /\ Committed /\ WorkerAlone /\ OneEditor /\ SlotsInv /\ ListInv /\ HashInv
  /\ DetailFollowsRow /\ OverExpires

(***************************************************************************)
(* The steps, by actor.                                                    *)
(***************************************************************************)
ApiStep == Create \/ CreateThrows
WorkerStep == Receive \/ Decide \/ CommitReplyLost \/ Publish \/ PublishThrows \/ WorkerDies
EditStep(e) ==
  EditReads(e) \/ EditWrites(e) \/ EditLosesReply(e) \/ EditCleans(e) \/ EditThrows(e)
ReadStep(r) == Miss(r) \/ Fetch(r) \/ Fill(r) \/ FillExpires(r) \/ ReadThrows(r)

LEMMA NextCases ==
  ASSUME [Next]_vars
  PROVE  \/ ApiStep \/ WorkerStep
         \/ \E e \in Editor : EditStep(e)
         \/ \E r \in Reader : ReadStep(r)
         \/ Expire
         \/ UNCHANGED vars
  BY DEF Next, ApiStep, WorkerStep, EditStep, ReadStep

LEMMA InitIInv == Init => IInv
  BY DEF Init, IInv, TypeOK, Committed, WorkerAlone, OneEditor, SlotsInv, ListInv, HashInv,
         DetailFollowsRow, OverExpires, PublishedIsCommitted, RowStatus, Closed, Slot,
         Publishing, Failing, WorkerAfter, EditAfter, Accident

LEMMA Labels ==
  /\ DOMAIN WorkerAfter = Publishing \cup Failing
  /\ \A l \in Publishing \cup Failing : WorkerAfter[l] \in Publishing \cup Failing \cup {"done"}
  /\ DOMAIN EditAfter = {"invalidate", "active", "hash"} \cup Slot
  /\ \A l \in DOMAIN EditAfter : EditAfter[l] \in DOMAIN EditAfter \cup {"idle"}
  BY DEF WorkerAfter, EditAfter, Publishing, Failing, Slot

\* The Redis keys stay in their ranges.
CacheType ==
  /\ flat \in {"none", "Pending", "Scheduled", "Failed"}
  /\ detail \in RowStatus \cup {"none"}
  /\ ttl \in BOOLEAN /\ listed \in BOOLEAN /\ slots \subseteq Slot

LEMMA CommandsType ==
  ASSUME CacheType
  PROVE  /\ UNCHANGED cache => CacheType'
         /\ ApiCommand => CacheType'
         /\ WorkerCommand => CacheType'
         /\ \A e \in Editor : EditCommand(e) => CacheType'
         /\ SetExpiry => CacheType'
         /\ DelHash => CacheType'
<1> USE DEF CacheType, cache, hash, SetStatus, SetExpiry, DelHash, List, Occupy, Vacate, Present
<1>1. UNCHANGED cache => CacheType'
  OBVIOUS
<1>2. ApiCommand => CacheType'
  BY DEF ApiCommand
<1>3. WorkerCommand => CacheType'
  BY DEF WorkerCommand
<1>4. \A e \in Editor : EditCommand(e) => CacheType'
  BY DEF EditCommand
<1>5. (SetExpiry => CacheType') /\ (DelHash => CacheType')
  OBVIOUS
<1> QED
  BY <1>1, <1>2, <1>3, <1>4, <1>5

LEMMA TypeCorrectStep ==
  ASSUME TypeOK, [Next]_vars
  PROVE  TypeOK'
<1>1. CacheType
  BY DEF TypeOK, CacheType
<1>2. SUFFICES /\ CacheType' /\ row' \in RowStatus \cup {"none"}
               /\ api' \in {"publish", "hash", "active", "done"}
               /\ worker' \in Publishing \cup Failing \cup {"waiting", "insert", "done"}
               /\ editing' \in [Editor -> DOMAIN EditAfter \cup {"idle", "write"}]
               /\ intent' \in [Editor -> RowStatus \cup {"none"}]
               /\ reading' \in [Reader -> RowStatus \cup {"idle", "missed", "expire"}]
               /\ accidents' \subseteq Accident
  BY Labels DEF TypeOK, CacheType
<1> USE DEF TypeOK
<1>3. CASE ApiStep
  <2>1. api' \in {"publish", "hash", "active", "done"} /\ CacheType'
    BY <1>1, <1>3, CommandsType DEF ApiStep, Create, CreateThrows, ApiAfter
  <2>2. accidents' \subseteq Accident
    BY <1>3 DEF ApiStep, Create, CreateThrows, Happened, Overtaken, Accident
  <2> QED
    BY <1>3, <2>1, <2>2, Labels DEF ApiStep, Create, CreateThrows
<1>4. CASE WorkerStep
  <2>1. CASE Receive \/ Decide \/ CommitReplyLost \/ WorkerDies
    BY <1>1, <2>1, Labels, CommandsType
       DEF Receive, Decide, CommitReplyLost, WorkerDies, Happened, Accident, RowStatus, Publishing, Failing
  <2>2. CASE Publish
    BY <1>1, <2>2, Labels, CommandsType DEF Publish
  <2>3. CASE PublishThrows
    BY <1>1, <2>3, Labels, CommandsType DEF PublishThrows, Happened, Accident, Failing
  <2> QED
    BY <1>4, <2>1, <2>2, <2>3 DEF WorkerStep
<1>5. CASE \E e \in Editor : EditStep(e)
  <2>1. PICK e \in Editor : EditStep(e)
    BY <1>5
  <2>2. CASE EditReads(e)
    BY <1>1, <2>2, Labels, CommandsType DEF EditReads, Happened, Accident
  <2>3. CASE EditWrites(e) \/ EditLosesReply(e)
    <3>1. row' \in RowStatus \cup {"none"} /\ editing' \in [Editor -> DOMAIN EditAfter \cup {"idle", "write"}]
      BY <2>3, Labels DEF EditWrites, EditLosesReply
    <3> QED
      BY <1>1, <2>3, <3>1, Labels, CommandsType DEF EditWrites, EditLosesReply, Happened, Accident
  <2>4. CASE EditCleans(e)
    <3>1. editing' \in [Editor -> DOMAIN EditAfter \cup {"idle", "write"}]
      BY <2>4, Labels DEF EditCleans
    <3>2. intent' \in [Editor -> RowStatus \cup {"none"}]
      BY <2>4 DEF EditCleans, Finish
    <3> QED
      BY <1>1, <2>4, <3>1, <3>2, Labels, CommandsType DEF EditCleans
  <2>5. CASE EditThrows(e)
    BY <1>1, <2>5, Labels, CommandsType DEF EditThrows, Finish, Happened, Accident
  <2> QED
    BY <2>1, <2>2, <2>3, <2>4, <2>5 DEF EditStep
<1>6. CASE \E r \in Reader : ReadStep(r)
  <2>1. PICK r \in Reader : ReadStep(r)
    BY <1>6
  <2>2. CASE Miss(r) \/ Fetch(r) \/ FillExpires(r)
    BY <1>1, <2>2, Labels, CommandsType DEF Miss, Fetch, FillExpires, ReadTo
  <2>3. CASE Fill(r)
    BY <1>1, <2>3, Labels DEF Fill, ReadTo, CacheType, Happened, Accident
  <2>4. CASE ReadThrows(r)
    BY <1>1, <2>4, Labels, CommandsType DEF ReadThrows, ReadTo, Happened, Accident
  <2> QED
    BY <2>1, <2>2, <2>3, <2>4 DEF ReadStep
<1>7. CASE Expire
  BY <1>1, <1>7, Labels, CommandsType DEF Expire, actors
<1>8. CASE UNCHANGED vars
  BY <1>1, <1>8, Labels, CommandsType DEF vars, actors
<1> QED
  BY <1>3, <1>4, <1>5, <1>6, <1>7, <1>8, NextCases

(***************************************************************************)
(* Nothing is published before it is committed.                            *)
(***************************************************************************)
LEMMA CommittedStep ==
  ASSUME TypeOK, Committed, [Next]_vars
  PROVE  Committed'
<1> USE DEF TypeOK, Committed, PublishedIsCommitted, cache, hash, RowStatus,
            SetStatus, SetExpiry, DelHash, List, Occupy, Vacate
<1>1. CASE ApiStep
  BY <1>1 DEF ApiStep, Create, CreateThrows, ApiCommand
<1>2. CASE WorkerStep
  <2>1. CASE Receive \/ Decide \/ CommitReplyLost \/ WorkerDies
    BY <2>1 DEF Receive, Decide, CommitReplyLost, WorkerDies, Publishing
  <2>2. CASE Publish \/ PublishThrows
    <3>1. worker # "waiting" /\ worker # "insert" /\ worker' \notin {"waiting", "insert"}
      BY <2>2, Labels DEF Publish, PublishThrows, Publishing, Failing
    <3>2. worker' \in Publishing => worker \in Publishing
      BY <2>2 DEF Publish, PublishThrows, Publishing, Failing, WorkerAfter
    <3>3. flat' = "Scheduled" \/ slots' # {} \/ detail' # "none" => row # "none"
      BY <2>2 DEF Publish, PublishThrows, WorkerCommand, Publishing, Slot
    <3> QED
      BY <2>2, <3>1, <3>2, <3>3 DEF Publish, PublishThrows
  <2> QED
    BY <1>2, <2>1, <2>2 DEF WorkerStep
<1>3. CASE \E e \in Editor : EditStep(e)
  <2>1. PICK e \in Editor : EditStep(e)
    BY <1>3
  <2>2. CASE EditReads(e)
    BY <2>2 DEF EditReads, ValidTransitions, Publishing
  <2>3. CASE EditWrites(e) \/ EditLosesReply(e)
    BY <2>3 DEF EditWrites, EditLosesReply, Publishing
  <2>4. CASE EditCleans(e) \/ EditThrows(e)
    <3>1. flat' = "Scheduled" \/ slots' # {} \/ detail' # "none" => row # "none"
      BY <2>4 DEF EditCleans, EditThrows, EditCommand
    <3>2. editing[e] # "idle"
      BY <2>4, Labels DEF EditCleans, EditThrows, Slot
    <3>3. \A d \in Editor : editing'[d] # "idle" =>
            editing[d] # "idle" /\ intent'[d] = intent[d]
      BY <2>4, <3>2 DEF EditCleans, EditThrows, Finish
    <3> QED
      BY <2>4, <3>1, <3>3 DEF EditCleans, EditThrows
  <2> QED
    BY <2>1, <2>2, <2>3, <2>4 DEF EditStep
<1>4. CASE \E r \in Reader : ReadStep(r)
  BY <1>4 DEF ReadStep, Miss, Fetch, Fill, FillExpires, ReadThrows, ReadTo
<1>5. CASE Expire \/ UNCHANGED vars
  BY <1>5 DEF Expire, actors, vars
<1> QED
  BY <1>1, <1>2, <1>3, <1>4, <1>5, NextCases

(***************************************************************************)
(* A cached detail is that of the row.                                     *)
(***************************************************************************)
LEMMA DetailStep ==
  ASSUME TypeOK, Committed, DetailFollowsRow, [Next]_vars
  PROVE  DetailFollowsRow'
<1> USE DEF TypeOK, DetailFollowsRow, Without, Happened, cache, hash, RowStatus,
            SetStatus, SetExpiry, DelHash, List, Occupy, Vacate
<1>1. CASE ApiStep
  BY <1>1 DEF ApiStep, Create, CreateThrows, ApiCommand
<1>2. CASE WorkerStep
  <2>1. CASE Receive \/ Decide \/ CommitReplyLost \/ WorkerDies
    BY <2>1 DEF Receive, Decide, CommitReplyLost, WorkerDies, Committed, PublishedIsCommitted
  <2>2. CASE Publish \/ PublishThrows
    BY <2>2 DEF Publish, PublishThrows, WorkerCommand
  <2> QED
    BY <1>2, <2>1, <2>2 DEF WorkerStep
<1>3. CASE \E e \in Editor : EditStep(e)
  <2>1. PICK e \in Editor : EditStep(e)
    BY <1>3
  <2>2. CASE EditReads(e) \/ EditWrites(e)
    BY <2>2 DEF EditReads, EditWrites
  <2>3. CASE EditLosesReply(e) \/ EditThrows(e)
    BY <2>3 DEF EditLosesReply, EditThrows
  <2>4. CASE EditCleans(e)
    <3>1. CASE editing[e] = "invalidate"
      BY <2>4, <3>1 DEF EditCleans, EditCommand, Slot
    <3>2. CASE editing[e] # "invalidate"
      <4>1. detail' \in {detail, "none"}
        BY <2>4 DEF EditCleans, EditCommand
      <4>2. \A d \in Editor : editing'[d] # "invalidate" => editing[d] # "invalidate"
        BY <2>4, <3>2 DEF EditCleans
      <4> QED
        BY <2>4, <4>1, <4>2 DEF EditCleans
    <3> QED
      BY <3>1, <3>2
  <2> QED
    BY <2>1, <2>2, <2>3, <2>4 DEF EditStep
<1>4. CASE \E r \in Reader : ReadStep(r)
  BY <1>4 DEF ReadStep, Miss, Fetch, Fill, FillExpires, ReadThrows, ReadTo
<1>5. CASE Expire \/ UNCHANGED vars
  BY <1>5 DEF Expire, actors, vars
<1> QED
  BY <1>1, <1>2, <1>3, <1>4, <1>5, NextCases

(***************************************************************************)
(* What says Failed, or is over, expires.                                  *)
(***************************************************************************)
LEMMA ExpiryStep ==
  ASSUME TypeOK, OverExpires, [Next]_vars
  PROVE  OverExpires'
<1> USE DEF TypeOK, OverExpires, Without, Happened, cache, hash,
            SetStatus, SetExpiry, DelHash, List, Occupy, Vacate, Present
<1>1. CASE ApiStep
  BY <1>1 DEF ApiStep, Create, CreateThrows, ApiCommand
<1>2. CASE WorkerStep
  <2>1. CASE Receive \/ Decide \/ CommitReplyLost \/ WorkerDies
    BY <2>1 DEF Receive, Decide, CommitReplyLost, WorkerDies
  <2>2. CASE Publish
    <3>1. CASE worker = "failHash"
      BY <2>2, <3>1 DEF Publish, WorkerAfter
    <3>2. CASE worker = "failTtl"
      BY <2>2, <3>2 DEF Publish, WorkerCommand, Closed, Slot
    <3>3. CASE worker \notin {"failHash", "failTtl"}
      <4>1. flat' \in {flat, "Scheduled"} /\ detail' = detail /\ ttl' = ttl
        BY <2>2, <3>3 DEF Publish, WorkerCommand
      <4> QED
        BY <2>2, <3>3, <4>1 DEF Publish
    <3> QED
      BY <3>1, <3>2, <3>3
  <2>3. CASE PublishThrows
    BY <2>3 DEF PublishThrows
  <2> QED
    BY <1>2, <2>1, <2>2, <2>3 DEF WorkerStep
<1>3. CASE \E e \in Editor : EditStep(e)
  <2>1. PICK e \in Editor : EditStep(e)
    BY <1>3
  <2>2. CASE EditReads(e) \/ EditWrites(e) \/ EditLosesReply(e)
    BY <2>2 DEF EditReads, EditWrites, EditLosesReply
  <2>3. CASE EditCleans(e) \/ EditThrows(e)
    BY <2>3 DEF EditCleans, EditThrows, EditCommand, Closed
  <2> QED
    BY <2>1, <2>2, <2>3 DEF EditStep
<1>4. CASE \E r \in Reader : ReadStep(r)
  <2>1. PICK r \in Reader : ReadStep(r)
    BY <1>4
  <2>2. CASE Miss(r) \/ Fetch(r) \/ ReadThrows(r)
    BY <2>2 DEF Miss, Fetch, ReadThrows, ReadTo, RowStatus
  <2>3. CASE Fill(r)
    BY <2>3 DEF Fill, ReadTo, RowStatus
  <2>4. CASE FillExpires(r)
    BY <2>4 DEF FillExpires, ReadTo, Closed, RowStatus
  <2> QED
    BY <2>1, <2>2, <2>3, <2>4 DEF ReadStep
<1>5. CASE Expire \/ UNCHANGED vars
  BY <1>5 DEF Expire, actors, vars, Closed
<1> QED
  BY <1>1, <1>2, <1>3, <1>4, <1>5, NextCases

(***************************************************************************)
(* The worker is alone with its row until it is through.                   *)
(***************************************************************************)
LEMMA WorkerAloneStep ==
  ASSUME TypeOK, Committed, WorkerAlone, [Next]_vars
  PROVE  WorkerAlone'
<1> USE DEF TypeOK, WorkerAlone, Without, Happened
<1>1. CASE ApiStep
  BY <1>1 DEF ApiStep, Create, CreateThrows
<1>2. CASE WorkerStep
  <2>1. CASE Receive \/ Decide \/ CommitReplyLost \/ WorkerDies
    BY <2>1 DEF Receive, Decide, CommitReplyLost, WorkerDies, Committed, Failing
  <2>2. CASE Publish
    <3>1. worker # "done" /\ (worker' \in Failing => worker \in Failing)
      BY <2>2 DEF Publish, WorkerAfter, Failing
    <3> QED
      BY <2>2, <3>1 DEF Publish
  <2>3. CASE PublishThrows
    BY <2>3 DEF PublishThrows
  <2> QED
    BY <1>2, <2>1, <2>2, <2>3 DEF WorkerStep
<1>3. CASE \E e \in Editor : EditStep(e)
  <2>1. PICK e \in Editor : EditStep(e)
    BY <1>3
  <2>2. CASE EditReads(e)
    BY <2>2 DEF EditReads, Failing
  <2>3. CASE EditWrites(e) \/ EditLosesReply(e)
    BY <2>3 DEF EditWrites, EditLosesReply, Failing
  <2>4. CASE EditCleans(e) \/ EditThrows(e)
    <3>1. editing[e] # "idle"
      BY <2>4, Labels DEF EditCleans, EditThrows, Slot
    <3> QED
      BY <2>4, <3>1 DEF EditCleans, EditThrows, Failing
  <2> QED
    BY <2>1, <2>2, <2>3, <2>4 DEF EditStep
<1>4. CASE \E r \in Reader : ReadStep(r)
  BY <1>4 DEF ReadStep, Miss, Fetch, Fill, FillExpires, ReadThrows
<1>5. CASE Expire \/ UNCHANGED vars
  BY <1>5 DEF Expire, actors, vars
<1> QED
  BY <1>1, <1>2, <1>3, <1>4, <1>5, NextCases

(***************************************************************************)
(* One status request at a time.                                           *)
(***************************************************************************)
LEMMA OneEditorStep ==
  ASSUME TypeOK, Committed, WorkerAlone, OneEditor, [Next]_vars
  PROVE  OneEditor'
<1> USE DEF TypeOK, OneEditor, Without, Happened
<1>1. CASE ApiStep
  BY <1>1 DEF ApiStep, Create, CreateThrows
<1>2. CASE WorkerStep
  <2>1. CASE Decide \/ CommitReplyLost
    BY <2>1 DEF Decide, CommitReplyLost, WorkerAlone, Committed
  <2>2. CASE Receive \/ Publish \/ PublishThrows \/ WorkerDies
    BY <2>2 DEF Receive, Publish, PublishThrows, WorkerDies
  <2> QED
    BY <1>2, <2>1, <2>2 DEF WorkerStep
<1>3. CASE \E e \in Editor : EditStep(e)
  <2>1. PICK e \in Editor : EditStep(e)
    BY <1>3
  <2>2. CASE EditReads(e)
    BY <2>2 DEF EditReads, ValidTransitions, Closed, RowStatus
  <2>3. CASE EditWrites(e)
    BY <2>3 DEF EditWrites
  <2>4. CASE EditLosesReply(e) \/ EditThrows(e)
    BY <2>4 DEF EditLosesReply, EditThrows
  <2>5. CASE EditCleans(e)
    <3>1. editing[e] # "idle" /\ editing[e] # "write"
      BY <2>5, Labels DEF EditCleans, Slot
    <3>2. EditAfter[editing[e]] \in {"idle", "active", "hash"} \cup Slot
      BY <2>5 DEF EditCleans, EditAfter, Slot
    <3> QED
      BY <2>5, <3>1, <3>2 DEF EditCleans, Finish, Slot
  <2> QED
    BY <2>1, <2>2, <2>3, <2>4, <2>5 DEF EditStep
<1>4. CASE \E r \in Reader : ReadStep(r)
  BY <1>4 DEF ReadStep, Miss, Fetch, Fill, FillExpires, ReadThrows
<1>5. CASE Expire \/ UNCHANGED vars
  BY <1>5 DEF Expire, actors, vars
<1> QED
  BY <1>1, <1>2, <1>3, <1>4, <1>5, NextCases

(***************************************************************************)
(* The slots of the occupancy.                                             *)
(***************************************************************************)
LEMMA SlotsStep ==
  ASSUME TypeOK, Committed, WorkerAlone, OneEditor, SlotsInv, [Next]_vars
  PROVE  SlotsInv'
<1> USE DEF TypeOK, SlotsInv, Without, Happened, cache, hash,
            SetStatus, SetExpiry, DelHash, List, Occupy, Vacate
<1>1. CASE ApiStep
  BY <1>1 DEF ApiStep, Create, CreateThrows, ApiCommand
<1>2. CASE WorkerStep
  <2>1. CASE Receive
    BY <2>1 DEF Receive, Failing
  <2>2. CASE Decide
    BY <2>2 DEF Decide, Committed, Failing
  <2>3. CASE CommitReplyLost \/ WorkerDies \/ PublishThrows
    BY <2>3 DEF CommitReplyLost, WorkerDies, PublishThrows
  <2>4. CASE Publish
    <3> SUFFICES ASSUME Without({"early", "crossed", "workerFault", "editFault"})'
                 PROVE  SlotsInv'
      BY DEF SlotsInv
    <3>1. /\ Without({"early", "crossed", "workerFault", "editFault"})
          /\ worker # "done" /\ \A e \in Editor : editing'[e] = "idle"
      BY <2>4, Labels DEF Publish, WorkerAlone, Publishing, Failing
    <3>2. CASE worker \in {"hash", "active", "failHash", "failTtl"}
      <4>1. slots' = slots /\ worker' \in {"active", "tech", "failTtl", "failActive"}
        BY <2>4, <3>2 DEF Publish, WorkerCommand, WorkerAfter, Slot
      <4> QED
        BY <3>1, <3>2, <4>1 DEF Failing
    <3>3. CASE worker = "failActive"
      <4>1. slots' = slots /\ worker' = "done" /\ row' = "none"
        BY <2>4, <3>1, <3>3 DEF Publish, WorkerCommand, WorkerAfter, Slot, WorkerAlone, Failing
      <4> QED
        BY <3>1, <3>3, <4>1 DEF Failing, Occupancy
    <3>4. CASE worker \in Slot
      <4>1. slots' = slots \cup {worker} /\ worker' = WorkerAfter[worker]
        BY <2>4, <3>4 DEF Publish, WorkerCommand, Slot
      <4>2. /\ worker = "tech" => slots' = {"tech"}
            /\ worker = "bay" => slots' = {"tech", "bay"}
            /\ worker = "slot" => slots' = Slot
        BY <3>1, <4>1 DEF Slot
      <4>3. \/ worker' = "bay" /\ slots' = {"tech"}
            \/ worker' = "slot" /\ slots' = {"tech", "bay"}
            \/ worker' = "ack" /\ slots' = Slot
        BY <3>4, <4>1, <4>2 DEF WorkerAfter, Slot
      <4> QED
        BY <3>1, <4>3 DEF Failing
    <3>5. CASE worker = "ack"
      <4>1. slots' = slots /\ worker' = "done" /\ row' = "Scheduled"
        BY <2>4, <3>1, <3>5
           DEF Publish, WorkerCommand, WorkerAfter, Slot, WorkerAlone, Committed, Publishing
      <4> QED
        BY <3>1, <3>5, <4>1 DEF Occupancy, Failing
    <3> QED
      BY <2>4, <3>2, <3>3, <3>4, <3>5, Labels DEF Publish, Publishing, Failing, Slot
  <2> QED
    BY <1>2, <2>1, <2>2, <2>3, <2>4 DEF WorkerStep
<1>3. CASE \E e \in Editor : EditStep(e)
  <2>1. PICK e \in Editor : EditStep(e)
    BY <1>3
  <2> SUFFICES ASSUME Without({"early", "crossed", "workerFault", "editFault"})'
               PROVE  SlotsInv'
    BY DEF SlotsInv
  <2>2. Without({"early", "crossed", "workerFault", "editFault"}) /\ worker' = worker
    BY <2>1 DEF EditStep, EditReads, EditWrites, EditLosesReply, EditCleans, EditThrows
  <2>3. CASE EditReads(e)
    BY <2>2, <2>3 DEF EditReads, Failing
  <2>4. ASSUME editing[e] # "idle"
        PROVE  /\ worker = "done"
               /\ \A d \in Editor : editing[d] # "idle" => d = e
    BY <2>2, <2>4 DEF WorkerAlone, OneEditor
  <2>5. CASE EditWrites(e)
    <3>1. /\ worker = "done" /\ row' = intent[e] /\ slots' = slots
          /\ \A d \in Editor : editing'[d] = IF d = e THEN "invalidate" ELSE "idle"
      BY <2>4, <2>5 DEF EditWrites
    <3>2. intent'[e] \notin Closed => slots = Slot
      BY <2>2, <2>5 DEF EditWrites, OneEditor, Occupancy
    <3> QED
      BY <2>2, <3>1, <3>2 DEF Failing
  <2>6. CASE EditLosesReply(e) \/ EditThrows(e)
    BY <2>6 DEF EditLosesReply, EditThrows
  <2>7. CASE EditCleans(e)
    <3>1. editing[e] # "idle" /\ editing[e] # "write"
      BY <2>7, Labels DEF EditCleans, Slot
    <3>2. /\ worker = "done" /\ row' = row /\ row = intent[e]
          /\ \A d \in Editor : d # e => editing'[d] = "idle"
          /\ editing[e] # "invalidate" => intent[e] \in Closed
      BY <2>2, <2>4, <2>7, <3>1 DEF EditCleans, OneEditor
    <3>3. slots' = IF editing[e] \in Slot THEN slots \ {editing[e]} ELSE slots
      BY <2>7 DEF EditCleans, EditCommand, Slot
    <3>4. CASE intent[e] \notin Closed
      <4>1. editing[e] = "invalidate" /\ editing'[e] = "idle" /\ slots' = Slot
        BY <2>2, <2>7, <3>2, <3>3, <3>4 DEF EditCleans, Slot
      <4>2. intent[e] = "InProgress"
        BY <3>1, <3>4 DEF Committed, Closed
      <4> QED
        BY <2>2, <3>2, <4>1, <4>2 DEF Occupancy, Failing
    <3>5. CASE intent[e] \in Closed /\ editing[e] = "hash"
      BY <2>2, <2>7, <3>2, <3>3, <3>5 DEF EditCleans, Occupancy, Slot, Closed, Failing
    <3>6. CASE intent[e] \in Closed /\ editing[e] # "hash"
      <4>1. editing'[e] = EditAfter[editing[e]] /\ intent'[e] = intent[e]
        BY <2>7, <3>6 DEF EditCleans
      <4>2. /\ editing[e] = "invalidate" => editing'[e] = "active"
            /\ editing[e] = "active" => editing'[e] = "tech"
            /\ editing[e] = "tech" => editing'[e] = "bay"
            /\ editing[e] = "bay" => editing'[e] = "slot"
            /\ editing[e] = "slot" => editing'[e] = "hash"
        BY <4>1 DEF EditAfter
      <4>3. editing[e] \in {"invalidate", "active", "tech", "bay", "slot"}
        BY <2>7, <3>6, Labels DEF EditCleans, Slot
      <4> QED
        BY <2>2, <3>2, <3>3, <4>2, <4>3 DEF Slot, Failing
    <3> QED
      BY <3>4, <3>5, <3>6
  <2> QED
    BY <2>1, <2>3, <2>5, <2>6, <2>7 DEF EditStep
<1>4. CASE \E r \in Reader : ReadStep(r)
  BY <1>4 DEF ReadStep, Miss, Fetch, Fill, FillExpires, ReadThrows
<1>5. CASE Expire \/ UNCHANGED vars
  BY <1>5 DEF Expire, actors, vars
<1> QED
  BY <1>1, <1>2, <1>3, <1>4, <1>5, NextCases

(***************************************************************************)
(* The set of active appointments.                                         *)
(***************************************************************************)
LEMMA ListStep ==
  ASSUME TypeOK, Committed, WorkerAlone, OneEditor, ListInv, [Next]_vars
  PROVE  ListInv'
<1> USE DEF TypeOK, ListInv, Without, Happened, cache, hash,
            SetStatus, SetExpiry, DelHash, List, Occupy, Vacate
<1> DEFINE Calm == Without({"overtaken", "early", "crossed", "workerFault", "editFault"})
<1>1. CASE ApiStep
  <2> SUFFICES ASSUME Calm'
               PROVE  ListInv'
    BY DEF ListInv
  <2>1. Calm /\ worker \in {"waiting", "insert"} /\ worker' = worker
    BY <1>1 DEF ApiStep, Create, CreateThrows, Overtaken
  <2>2. \A e \in Editor : editing'[e] = "idle"
    BY <1>1, <2>1 DEF ApiStep, Create, CreateThrows, WorkerAlone
  <2> QED
    BY <2>1, <2>2 DEF Slot
<1>2. CASE WorkerStep
  <2>1. CASE Receive \/ Decide
    BY <2>1 DEF Receive, Decide, Committed, WorkerAlone, Slot
  <2>2. CASE CommitReplyLost \/ WorkerDies \/ PublishThrows
    BY <2>2 DEF CommitReplyLost, WorkerDies, PublishThrows
  <2>3. CASE Publish
    <3> SUFFICES ASSUME Calm'
                 PROVE  ListInv'
      BY DEF ListInv
    <3>1. /\ Calm
          /\ worker # "done" /\ \A e \in Editor : editing'[e] = "idle"
      BY <2>3, Labels DEF Publish, WorkerAlone, Publishing, Failing
    <3>2. row' \in {"none", "Scheduled"}
      BY <2>3, <3>1 DEF Publish, WorkerAlone
    <3>3. CASE worker \in {"active", "failActive"}
      BY <2>3, <3>1, <3>2, <3>3 DEF Publish, WorkerCommand, Slot, Closed
    <3>4. CASE worker \in Slot \cup {"ack"}
      <4>1. listed' = listed /\ listed
        BY <2>3, <3>1, <3>4 DEF Publish, WorkerCommand, Slot
      <4> QED
        BY <3>1, <3>2, <4>1 DEF Closed, Slot
    <3>5. CASE worker \in {"hash", "failHash", "failTtl"}
      <4>1. worker' \in {"active", "failTtl", "failActive"}
        BY <2>3, <3>5 DEF Publish, WorkerAfter
      <4> QED
        BY <3>1, <4>1 DEF Slot
    <3> QED
      BY <2>3, <3>3, <3>4, <3>5, Labels DEF Publish, Publishing, Failing, Slot
  <2> QED
    BY <1>2, <2>1, <2>2, <2>3 DEF WorkerStep
<1>3. CASE \E e \in Editor : EditStep(e)
  <2>1. PICK e \in Editor : EditStep(e)
    BY <1>3
  <2> SUFFICES ASSUME Calm'
               PROVE  ListInv'
    BY DEF ListInv
  <2>2. Calm /\ worker' = worker
    BY <2>1 DEF EditStep, EditReads, EditWrites, EditLosesReply, EditCleans, EditThrows
  <2>3. CASE EditReads(e)
    BY <2>2, <2>3 DEF EditReads, Slot
  <2>4. ASSUME editing[e] # "idle"
        PROVE  /\ worker = "done"
               /\ \A d \in Editor : editing[d] # "idle" => d = e
    BY <2>2, <2>4 DEF WorkerAlone, OneEditor
  <2>5. CASE EditWrites(e)
    <3>1. /\ worker = "done" /\ row' = intent[e] /\ listed' = listed
          /\ \A d \in Editor : editing'[d] = IF d = e THEN "invalidate" ELSE "idle"
      BY <2>4, <2>5 DEF EditWrites
    <3>2. intent'[e] \notin Closed => listed
      BY <2>2, <2>5 DEF EditWrites, OneEditor, Closed
    <3> QED
      BY <2>2, <3>1, <3>2 DEF Slot
  <2>6. CASE EditLosesReply(e) \/ EditThrows(e)
    BY <2>6 DEF EditLosesReply, EditThrows
  <2>7. CASE EditCleans(e)
    <3>1. editing[e] # "idle" /\ editing[e] # "write"
      BY <2>7, Labels DEF EditCleans, Slot
    <3>2. /\ worker = "done" /\ row' = row /\ row = intent[e]
          /\ \A d \in Editor : d # e => editing'[d] = "idle"
          /\ editing[e] # "invalidate" => intent[e] \in Closed
      BY <2>2, <2>4, <2>7, <3>1 DEF EditCleans, OneEditor
    <3>3. listed' = IF editing[e] = "active" THEN FALSE ELSE listed
      BY <2>7 DEF EditCleans, EditCommand, Slot
    <3>4. CASE intent[e] \notin Closed
      <4>1. editing[e] = "invalidate" /\ editing'[e] = "idle" /\ listed'
        BY <2>2, <2>7, <3>2, <3>3, <3>4 DEF EditCleans
      <4> QED
        BY <2>2, <3>2, <3>4, <4>1 DEF Slot
    <3>5. CASE intent[e] \in Closed /\ editing[e] = "hash"
      BY <2>2, <2>7, <3>2, <3>3, <3>5 DEF EditCleans, Slot
    <3>6. CASE intent[e] \in Closed /\ editing[e] # "hash"
      <4>1. editing'[e] = EditAfter[editing[e]] /\ intent'[e] = intent[e]
        BY <2>7, <3>6 DEF EditCleans
      <4>2. /\ editing[e] = "invalidate" => editing'[e] = "active"
            /\ editing[e] = "active" => editing'[e] = "tech"
            /\ editing[e] \in Slot => editing'[e] \in {"bay", "slot", "hash"}
        BY <4>1 DEF EditAfter, Slot
      <4>3. editing[e] \in {"invalidate", "active"} \cup Slot
        BY <2>7, <3>6, Labels DEF EditCleans, Slot
      <4> QED
        BY <2>2, <3>2, <3>3, <3>6, <4>1, <4>2, <4>3 DEF Slot
    <3> QED
      BY <3>4, <3>5, <3>6
  <2> QED
    BY <2>1, <2>3, <2>5, <2>6, <2>7 DEF EditStep
<1>4. CASE \E r \in Reader : ReadStep(r)
  BY <1>4 DEF ReadStep, Miss, Fetch, Fill, FillExpires, ReadThrows
<1>5. CASE Expire \/ UNCHANGED vars
  BY <1>5 DEF Expire, actors, vars
<1> QED
  BY <1>1, <1>2, <1>3, <1>4, <1>5, NextCases

(***************************************************************************)
(* The status in the hash.                                                 *)
(***************************************************************************)
LEMMA HashStep ==
  ASSUME TypeOK, Committed, WorkerAlone, HashInv, [Next]_vars
  PROVE  HashInv'
<1> USE DEF TypeOK, HashInv, Without, Happened, cache, hash,
            SetStatus, SetExpiry, DelHash, List, Occupy, Vacate
<1> DEFINE Calm == Without({"overtaken", "early", "workerFault", "editFault"})
<1>1. CASE ApiStep
  <2> SUFFICES ASSUME Calm'
               PROVE  HashInv'
    BY DEF HashInv
  <2>1. Calm /\ worker \in {"waiting", "insert"} /\ worker' = worker
    BY <1>1 DEF ApiStep, Create, CreateThrows, Overtaken
  <2>2. row = "none" /\ row' = row /\ ttl' = ttl /\ reading' = reading
    BY <1>1, <2>1 DEF ApiStep, Create, CreateThrows, ApiCommand, Committed
  <2> QED
    BY <2>1, <2>2
<1>2. CASE WorkerStep
  <2>1. CASE Receive
    BY <2>1 DEF Receive
  <2>2. CASE Decide
    BY <2>2 DEF Decide, Committed, WorkerAlone
  <2>3. CASE CommitReplyLost \/ WorkerDies \/ PublishThrows
    BY <2>3 DEF CommitReplyLost, WorkerDies, PublishThrows
  <2>4. CASE Publish
    <3> SUFFICES ASSUME Calm'
                 PROVE  HashInv'
      BY DEF HashInv
    <3>1. /\ Calm /\ row' = row /\ reading' = reading /\ editing' = editing
          /\ row \in {"none", "Scheduled"} /\ worker # "done"
          /\ worker' \notin {"waiting", "insert"}
      BY <2>4, Labels DEF Publish, WorkerAlone, Publishing, Failing
    <3>2. CASE worker \in Publishing
      <4>1. row = "Scheduled" /\ ttl' = ttl /\ flat' = (IF worker = "hash" THEN "Scheduled" ELSE flat)
        BY <2>4, <3>1, <3>2 DEF Publish, WorkerCommand, Publishing, Committed, Slot
      <4> QED
        BY <3>1, <4>1
    <3>3. CASE worker \in Failing
      <4>1. row = "none"
        BY <3>1, <3>3 DEF WorkerAlone
      <4>2. flat' = IF worker = "failHash" THEN "Failed" ELSE flat
        BY <2>4, <3>3 DEF Publish, WorkerCommand, Failing, Slot
      <4> QED
        BY <3>1, <3>3, <4>1, <4>2 DEF Failing
    <3> QED
      BY <2>4, <3>2, <3>3, Labels DEF Publish
  <2> QED
    BY <1>2, <2>1, <2>2, <2>3, <2>4 DEF WorkerStep
<1>3. CASE \E e \in Editor : EditStep(e)
  <2>1. PICK e \in Editor : EditStep(e)
    BY <1>3
  <2> SUFFICES ASSUME Calm'
               PROVE  HashInv'
    BY DEF HashInv
  <2>2. Calm /\ worker' = worker /\ reading' = reading
    BY <2>1 DEF EditStep, EditReads, EditWrites, EditLosesReply, EditCleans, EditThrows
  <2>3. CASE EditReads(e)
    BY <2>2, <2>3 DEF EditReads
  <2>4. CASE EditWrites(e)
    <3>1. row' \notin {"none", "Scheduled"} /\ editing'[e] = "invalidate"
      BY <2>4 DEF EditWrites, Committed
    <3>2. worker' \notin {"waiting", "insert"}
      BY <2>2, <2>4 DEF EditWrites, WorkerAlone
    <3> QED
      BY <2>2, <3>1, <3>2
  <2>5. CASE EditLosesReply(e) \/ EditThrows(e)
    BY <2>5 DEF EditLosesReply, EditThrows
  <2>6. CASE EditCleans(e)
    <3>1. editing[e] # "idle" /\ editing[e] # "write"
      BY <2>6, Labels DEF EditCleans, Slot
    <3>2. row' = row /\ row \notin {"none", "Scheduled"} /\ worker = "done"
      BY <2>2, <2>6, <3>1 DEF EditCleans, Committed, WorkerAlone
    <3>3. flat' = "none" \/ (editing[e] # "invalidate" /\ flat' = flat)
      BY <2>6 DEF EditCleans, EditCommand, Slot
    <3>4. \A d \in Editor : d # e => editing'[d] = editing[d]
      BY <2>6 DEF EditCleans
    <3> QED
      BY <2>2, <3>2, <3>3, <3>4
  <2> QED
    BY <2>1, <2>3, <2>4, <2>5, <2>6 DEF EditStep
<1>4. CASE \E r \in Reader : ReadStep(r)
  <2>1. PICK r \in Reader : ReadStep(r)
    BY <1>4
  <2>2. CASE Miss(r) \/ ReadThrows(r)
    BY <2>2 DEF Miss, ReadThrows, ReadTo
  <2>3. CASE Fetch(r)
    BY <2>3 DEF Fetch, ReadTo, RowStatus
  <2>4. CASE Fill(r)
    BY <2>4 DEF Fill, ReadTo, RowStatus, Closed, Committed
  <2>5. CASE FillExpires(r)
    <3>1. reading[r] = "expire" /\ flat' = flat /\ row' = row /\ worker' = worker
      BY <2>5 DEF FillExpires
    <3>2. Without({"overtaken", "early", "workerFault", "editFault"}) =>
            row \notin {"none", "Scheduled"}
      BY <3>1
    <3> QED
      BY <2>5, <3>1, <3>2 DEF FillExpires, Committed
  <2> QED
    BY <2>1, <2>2, <2>3, <2>4, <2>5 DEF ReadStep
<1>5. CASE Expire \/ UNCHANGED vars
  BY <1>5 DEF Expire, actors, vars
<1> QED
  BY <1>1, <1>2, <1>3, <1>4, <1>5, NextCases

(***************************************************************************)
(* The theorems.                                                           *)
(***************************************************************************)

\* The strengthening holds of every reachable state.
THEOREM Inductive == Spec => []IInv
<1>1. IInv /\ [Next]_vars => IInv'
  BY TypeCorrectStep, CommittedStep, WorkerAloneStep, OneEditorStep, SlotsStep, ListStep,
     HashStep, DetailStep, ExpiryStep DEF IInv
<1> QED
  BY <1>1, InitIInv, PTL DEF Spec

\* Every variable stays in its range.
THEOREM CacheTypeCorrect == Spec => []TypeOK
  BY Inductive, PTL DEF IInv

\* Nothing is published of an appointment that has no row.
THEOREM NothingUncommitted == Spec => []PublishedIsCommitted
<1>1. IInv => PublishedIsCommitted
  BY DEF IInv, Committed
<1> QED
  BY <1>1, Inductive, PTL

\* The occupancy of an appointment at rest is that of its row, whatever the
\* booking request and the detail queries did.
THEOREM OccupancyIsTrue == Spec => []OccupancyFollowsRow
<1>1. IInv => OccupancyFollowsRow
  BY DEF IInv, SlotsInv, OccupancyFollowsRow, Settled, Without, Occupancy
<1> QED
  BY <1>1, Inductive, PTL

\* The status in the hash of an appointment at rest is that of the decision,
\* also when status requests crossed.
THEOREM HashIsTrue == Spec => []HashFollowsRow
<1>1. IInv => HashFollowsRow
  BY DEF IInv, HashInv, HashFollowsRow, Settled, Without
<1> QED
  BY <1>1, Inductive, PTL

\* An appointment at rest is in the active set if and only if it is not over.
THEOREM ListIsTrue == Spec => []ActiveSetFollowsRow
<1>1. IInv => ActiveSetFollowsRow
  BY DEF IInv, ListInv, ActiveSetFollowsRow, Settled, Without
<1> QED
  BY <1>1, Inductive, PTL

\* A cached detail that did not come late is that of the row.
THEOREM DetailIsTrue == Spec => []DetailFollowsRow
  BY Inductive, PTL DEF IInv

\* What is over, and what failed, leaves the cache in the end.
THEOREM ExpirySet == Spec => []OverExpires
  BY Inductive, PTL DEF IInv
=============================================================================
