---------------------------- MODULE ConsoleProofs ----------------------------
(***************************************************************************)
(* Theorems about Console, for any tenants and rows, any number of reads   *)
(* under way and any interference from other windows: what the table shows *)
(* belongs to the tab and the tenant that the window names.                *)
(***************************************************************************)
EXTENDS Console, TLAPS

Storage == [claim : Tenant \cup {None}, tenant : Tenant \cup {None}]
Session == [in : BOOLEAN, tenant : Tenant \cup {None}]
Writes == {"create", "edit", "delete"}
Stages == {"sent", "served", "refused"}

\* What can be on its way between the window and the server.
Message ==
  [kind : Reads \cup Writes, active : BOOLEAN, claim : Tenant \cup {None},
   tenant : Tenant \cup {None}, tab : Tabs, row : Row \cup {None},
   answer : [Row -> Statuses], stage : Stages]

Types ==
  /\ storage \in Storage /\ session \in Session
  /\ tab \in Tabs /\ loading \in BOOLEAN /\ error \in BOOLEAN
  /\ data \in [Row -> Statuses] /\ status \in [Row -> Statuses]
  /\ net \subseteq Message
  /\ upsets \in 0 .. MaxUpsets /\ scene \in Scenes /\ strayed \in BOOLEAN

OnTab(v) == IF v = "Technicians" THEN Technician ELSE Appointment

\* Of the effects that run now at most one list is under way, and the window is
\* loading while it is.
PresentList(m) == m.kind = "list" /\ m.active

OneList == \A m, n \in net : PresentList(m) /\ PresentList(n) => m = n

Loads == loading <=> \E m \in net : PresentList(m)

\* Only appointments have the statuses of an appointment.
OwnStatuses == \A r \in Row \ Appointment : status[r] \in {"absent", "there"}

\* An answer holds rows of the tenant and of the tab that were asked for.
Fits(m) ==
  m.kind \in Reads =>
    /\ \A r \in Row : m.answer[r] # "absent" => Home[r] = m.tenant /\ r \in OnTab(m.tab)
    /\ m.kind = "poll" => m.tab = "Appointments"

\* What will not be dropped was asked for the tab and the tenant shown now.
Present(m) ==
  m.kind \in Reads /\ m.active =>
    session.in /\ m.tab = tab /\ (m.tenant = session.tenant \/ strayed)

Requests == \A m \in net : Fits(m) /\ Present(m)

WindowInv ==
  Types /\ OneList /\ Loads /\ OwnStatuses /\ Requests /\ ShowsItsOwn

(***************************************************************************)
(* Messages.                                                               *)
(***************************************************************************)
LEMMA BlankType == Blank \in [Row -> Statuses]
  BY DEF Blank, Statuses

\* A message that is dropped, or answered, is the same request.
LEMMA DroppedMessage ==
  ASSUME NEW m \in Message
  PROVE  /\ Dropped(m) \in Message
         /\ Dropped(m).kind = m.kind /\ Dropped(m).tenant = m.tenant /\ Dropped(m).tab = m.tab
         /\ Dropped(m).answer = m.answer
         /\ m.kind \in Reads => Dropped(m).active = FALSE
<1> DEFINE K == Reads \cup Writes
           T == Tenant \cup {None}
           R == Row \cup {None}
           A == [Row -> Statuses]
           B == BOOLEAN
<1>1. Message = [kind : K, active : B, claim : T, tenant : T, tab : Tabs, row : R, answer : A, stage : Stages]
  BY DEF Message
<1>2. FALSE \in B
  OBVIOUS
<1> HIDE DEF K, T, R, A, B
<1> QED
  BY <1>1, <1>2 DEF Dropped

LEMMA AnsweredMessage ==
  ASSUME NEW m \in Message, NEW stage \in Stages, NEW answer \in [Row -> Statuses]
  PROVE  LET a == Answered(m, stage, answer) IN
         /\ a \in Message /\ a.kind = m.kind /\ a.active = m.active
         /\ a.tenant = m.tenant /\ a.tab = m.tab /\ a.answer = answer
<1> DEFINE K == Reads \cup Writes
           T == Tenant \cup {None}
           R == Row \cup {None}
           A == [Row -> Statuses]
           B == BOOLEAN
<1>1. Message = [kind : K, active : B, claim : T, tenant : T, tab : Tabs, row : R, answer : A, stage : Stages]
  BY DEF Message
<1>2. answer \in A
  OBVIOUS
<1> HIDE DEF K, T, R, A, B
<1> QED
  BY <1>1, <1>2 DEF Answered

LEMMA RequestMessage ==
  ASSUME NEW st \in Storage, NEW kind \in Reads \cup Writes, NEW v \in Tabs,
         NEW r \in Row \cup {None}
  PROVE  /\ Request(st, kind, v, r) \in Message
         /\ Request(st, kind, v, r).kind = kind /\ Request(st, kind, v, r).active
         /\ Request(st, kind, v, r).tenant = st.tenant /\ Request(st, kind, v, r).tab = v
         /\ Request(st, kind, v, r).answer = Blank
<1> DEFINE K == Reads \cup Writes
           T == Tenant \cup {None}
           R == Row \cup {None}
           A == [Row -> Statuses]
           B == BOOLEAN
<1>1. Message = [kind : K, active : B, claim : T, tenant : T, tab : Tabs, row : R, answer : A, stage : Stages]
  BY DEF Message
<1>2. st.claim \in T /\ st.tenant \in T
  BY DEF Storage
<1>3. TRUE \in B /\ "sent" \in Stages /\ Blank \in A /\ kind \in K /\ r \in R
  BY BlankType DEF Stages
<1> HIDE DEF K, T, R, A, B
<1> QED
  BY <1>1, <1>2, <1>3 DEF Request

\* What the effects ask for.
LEMMA ReadMessage ==
  ASSUME NEW st \in Storage, NEW kind \in Reads, NEW v \in Tabs
  PROVE  /\ Request(st, kind, v, None) \in Message
         /\ Request(st, kind, v, None).kind = kind
         /\ Request(st, kind, v, None).active
         /\ Request(st, kind, v, None).tenant = st.tenant
         /\ Request(st, kind, v, None).tab = v
         /\ Request(st, kind, v, None).answer = Blank
<1>1. kind \in Reads \cup Writes /\ None \in Row \cup {None}
  OBVIOUS
<1> QED
  BY <1>1, RequestMessage

\* A request that is not answered fits whatever it asked for.
LEMMA BlankFits ==
  ASSUME NEW m, m.answer = Blank, m.kind = "poll" => m.tab = "Appointments"
  PROVE  Fits(m)
  BY DEF Fits, Blank

\* After the clean-up nothing is present.
LEMMA CleanedMessages ==
  ASSUME WindowInv, NEW m \in Cleaned
  PROVE  m \in Message /\ Fits(m) /\ ~(m.kind \in Reads /\ m.active)
<1>1. PICK n \in net : m = Dropped(n)
  BY DEF Cleaned
<1>2. n \in Message /\ Fits(n)
  BY DEF WindowInv, Types, Requests
<1>3. m \in Message /\ m.kind = n.kind /\ m.tenant = n.tenant /\ m.tab = n.tab /\ m.answer = n.answer
  BY <1>1, <1>2, DroppedMessage
<1>4. n.kind \in Reads => m.active = FALSE
  BY <1>1, <1>2, DroppedMessage
<1> QED
  BY <1>2, <1>3, <1>4 DEF Fits

(***************************************************************************)
(* The window is emptied and asks anew: after the effects, after a reload  *)
(* and after a write.  Of the earlier requests, D, none is present.        *)
(***************************************************************************)
Asks(st, s, v, D) ==
  /\ session' = s /\ tab' = v /\ data' = Blank /\ error' = FALSE
  /\ loading' \in BOOLEAN /\ (loading' <=> Mounted(s))
  /\ strayed' \in BOOLEAN /\ (strayed' <=> Mounted(s) /\ st.tenant # s.tenant)
  /\ \A m \in net' :
       m \in D \/ /\ Mounted(s)
                  /\ \/ m = Request(st, "list", v, None)
                     \/ m = Request(st, "poll", v, None) /\ v = "Appointments"
  /\ Mounted(s) => Request(st, "list", v, None) \in net'
  /\ UNCHANGED <<status, upsets, scene>>

LEMMA AskingKeeps ==
  ASSUME WindowInv, NEW st \in Storage, NEW s \in Session, NEW v \in Tabs, NEW D,
         \A m \in D : m \in Message /\ Fits(m) /\ ~(m.kind \in Reads /\ m.active),
         Asks(st, s, v, D), storage' = st
  PROVE  WindowInv'
<1> DEFINE list == Request(st, "list", v, None)
           poll == Request(st, "poll", v, None)
<1>0. "list" \in Reads /\ "poll" \in Reads
  BY DEF Reads
<1>1. /\ list \in Message /\ list.kind = "list" /\ list.active
      /\ list.tenant = st.tenant /\ list.tab = v /\ list.answer = Blank
  BY <1>0, ReadMessage
<1>2. /\ poll \in Message /\ poll.kind = "poll" /\ poll.active
      /\ poll.tenant = st.tenant /\ poll.tab = v /\ poll.answer = Blank
  BY <1>0, ReadMessage
<1> HIDE DEF list, poll
<1>3. \A m \in net' : m \in D \/ (Mounted(s) /\ (m = list \/ (m = poll /\ v = "Appointments")))
  BY DEF Asks, list, poll
<1>4. Mounted(s) => list \in net'
  BY DEF Asks, list
<1>5. \A m \in net' : PresentList(m) => m = list /\ Mounted(s)
  BY <1>2, <1>3 DEF PresentList, Reads
<1>6. net' \subseteq Message
  BY <1>1, <1>2, <1>3
<1>7. OneList'
  BY <1>5 DEF OneList, PresentList
<1>8. Loads'
  BY <1>1, <1>4, <1>5 DEF Asks, Loads, PresentList
<1>9. \A m \in net' : Fits(m)
  BY <1>1, <1>2, <1>3, BlankFits
<1>10. \A m \in net' : Present(m)'
  <2> TAKE m \in net'
  <2> SUFFICES ASSUME m.kind \in Reads, m.active
               PROVE  session.in' /\ m.tab = tab' /\ (m.tenant = session.tenant' \/ strayed')
    BY DEF Present
  <2>1. Mounted(s) /\ m.tab = v /\ m.tenant = st.tenant
    BY <1>1, <1>2, <1>3
  <2> QED
    BY <2>1 DEF Asks, Mounted
<1>11. ShowsItsOwn'
  BY DEF Asks, ShowsItsOwn, Shows, Blank
<1>12. Types'
  BY <1>6, BlankType DEF Asks, WindowInv, Types
<1>13. OwnStatuses'
  BY DEF Asks, WindowInv, OwnStatuses
<1> QED
  BY <1>7, <1>8, <1>9, <1>10, <1>11, <1>12, <1>13 DEF WindowInv, Requests

LEMMA EffectsKeep ==
  ASSUME WindowInv, NEW st \in Storage, NEW s \in Session, NEW v \in Tabs,
         RunsEffects(st, s, v), storage' = st, UNCHANGED <<status, upsets, scene>>
  PROVE  WindowInv'
<1>1. Asks(st, s, v, Cleaned)
  <2>1. CASE Mounted(s)
    BY <2>1 DEF RunsEffects, Asks
  <2>2. CASE ~Mounted(s)
    BY <2>2 DEF RunsEffects, Asks
  <2> QED
    BY <2>1, <2>2
<1> QED
  BY <1>1, AskingKeeps, CleanedMessages

LEMMA SignInStep ==
  ASSUME WindowInv, NEW t \in Tenant, SignIn(t)
  PROVE  WindowInv'
<1> DEFINE st == [claim |-> t, tenant |-> t]
           s == [in |-> TRUE, tenant |-> t]
<1>1. st \in Storage /\ s \in Session /\ "Technicians" \in Tabs
  BY DEF Storage, Session, Tabs
<1>2. storage' = st /\ RunsEffects(st, s, "Technicians") /\ UNCHANGED <<status, upsets, scene>>
  BY DEF SignIn, RunsEffects
<1> QED
  BY <1>1, <1>2, EffectsKeep

LEMMA SignOutStep ==
  ASSUME WindowInv, SignOut
  PROVE  WindowInv'
<1> DEFINE s == [in |-> FALSE, tenant |-> None]
<1>1. NoStorage \in Storage /\ s \in Session /\ "Technicians" \in Tabs
  BY DEF NoStorage, Storage, Session, Tabs
<1>2. storage' = NoStorage /\ RunsEffects(NoStorage, s, "Technicians")
      /\ UNCHANGED <<status, upsets, scene>>
  BY DEF SignOut, RunsEffects
<1> QED
  BY <1>1, <1>2, EffectsKeep

LEMMA SelectTenantStep ==
  ASSUME WindowInv, NEW t \in Tenant, SelectTenant(t)
  PROVE  WindowInv'
<1> DEFINE st == storage'
           s == [session EXCEPT !.tenant = t]
<1>1. storage \in Storage /\ session \in Session /\ tab \in Tabs
  BY DEF WindowInv, Types
<1>2. s \in Session
  BY <1>1 DEF Session
<1>3. PICK u \in Storage : storage' = u
  <2>1. [storage EXCEPT !.tenant = t] \in Storage /\ [claim |-> t, tenant |-> t] \in Storage
    BY <1>1 DEF Storage
  <2> QED
    BY <2>1 DEF SelectTenant
<1>4. RunsEffects(u, s, tab) /\ UNCHANGED <<status, upsets, scene>>
  BY <1>3 DEF SelectTenant, RunsEffects
<1> QED
  BY <1>1, <1>2, <1>3, <1>4, EffectsKeep

LEMMA ShowTabStep ==
  ASSUME WindowInv, NEW v \in Tabs, ShowTab(v)
  PROVE  WindowInv'
<1>1. storage \in Storage /\ session \in Session
  BY DEF WindowInv, Types
<1>2. storage' = storage /\ RunsEffects(storage, session, v) /\ UNCHANGED <<status, upsets, scene>>
  BY DEF ShowTab
<1> QED
  BY <1>1, <1>2, EffectsKeep

\* A page that is loaded anew shows the tenant of the storage.
LEMMA ReloadStep ==
  ASSUME WindowInv, NEW st \in Storage, Reload(st)
  PROVE  WindowInv'
<1> DEFINE s == [in |-> st.claim # None, tenant |-> st.tenant]
<1>1. s \in Session /\ s.tenant = st.tenant /\ "Technicians" \in Tabs
  BY DEF Session, Storage, Tabs
<1>2. Asks(st, s, "Technicians", {})
  <2>1. Mounted(s) \in BOOLEAN
    BY DEF Mounted
  <2>2. CASE Mounted(s)
    BY <1>1, <2>1, <2>2 DEF Reload, Asks
  <2>3. CASE ~Mounted(s)
    BY <1>1, <2>1, <2>3 DEF Reload, Asks
  <2> QED
    BY <2>2, <2>3
<1>3. storage' = st
  BY DEF Reload
<1> QED
  BY <1>1, <1>2, <1>3, AskingKeeps

\* The table is loaded again after a write that the window understood; otherwise
\* the answer is only taken away.
LEMMA WriteReturnsStep ==
  ASSUME WindowInv, NEW m \in net, WriteReturns(m)
  PROVE  WindowInv'
<1>1. storage \in Storage /\ session \in Session /\ tab \in Tabs
  BY DEF WindowInv, Types
<1>2. CASE Readable(m) /\ Mounted(session)
  <2>1. Asks(storage, session, tab, Cleaned)
    BY <1>2 DEF WriteReturns, Asks
  <2>2. storage' = storage
    BY DEF WriteReturns
  <2> QED
    BY <1>1, <2>1, <2>2, AskingKeeps, CleanedMessages
<1>3. CASE ~(Readable(m) /\ Mounted(session))
  <2>1. /\ net' = net \ {m}
        /\ UNCHANGED <<storage, window, strayed, status, upsets, scene>> /\ m.kind \notin Reads
    BY <1>3 DEF WriteReturns
  <2>2. Types' /\ OneList' /\ OwnStatuses' /\ ShowsItsOwn'
    BY <2>1 DEF WindowInv, Types, OneList, OwnStatuses, ShowsItsOwn, Shows, window
  <2>3. Loads'
    BY <2>1 DEF WindowInv, Loads, PresentList, Reads, window
  <2>4. Requests'
    BY <2>1 DEF WindowInv, Requests, Present, window
  <2> QED
    BY <2>2, <2>3, <2>4 DEF WindowInv
<1> QED
  BY <1>2, <1>3

(***************************************************************************)
(* The other steps of the window and of its requests.                      *)
(***************************************************************************)
LEMMA ElsewhereStep ==
  ASSUME WindowInv, Elsewhere
  PROVE  WindowInv'
<1>1. UNCHANGED <<window, net, status, scene, strayed>>
  BY DEF Elsewhere
<1>2. storage' \in Storage
  <2>1. storage \in Storage
    BY DEF WindowInv, Types
  <2>2. NoStorage \in Storage /\ [storage EXCEPT !.tenant = None] \in Storage
    BY <2>1 DEF NoStorage, Storage
  <2>3. ASSUME NEW t \in Tenant
        PROVE  [claim |-> t, tenant |-> t] \in Storage /\ [storage EXCEPT !.tenant = t] \in Storage
    BY <2>1 DEF Storage
  <2> QED
    BY <2>2, <2>3 DEF Elsewhere
<1>3. upsets' \in 0 .. MaxUpsets
  BY ConsoleAssumption DEF WindowInv, Types, Elsewhere
<1>4. Types'
  BY <1>1, <1>2, <1>3 DEF WindowInv, Types, window
<1>5. OneList' /\ Loads' /\ OwnStatuses' /\ Requests' /\ ShowsItsOwn'
  BY <1>1 DEF WindowInv, OneList, Loads, OwnStatuses, Requests, Present, ShowsItsOwn, Shows, window
<1> QED
  BY <1>4, <1>5 DEF WindowInv

\* A request that is no list is sent by the window that is shown.
LEMMA SentStep ==
  ASSUME WindowInv, NEW n \in Message, net' = net \cup {n}, n.kind # "list",
         Fits(n), Present(n)', strayed => strayed', strayed' \in BOOLEAN,
         UNCHANGED <<storage, window, status, upsets, scene>>
  PROVE  WindowInv'
<1>1. Types'
  BY DEF WindowInv, Types, window
<1>2. OneList' /\ Loads'
  BY DEF WindowInv, OneList, Loads, PresentList, window
<1>3. OwnStatuses' /\ ShowsItsOwn'
  BY DEF WindowInv, OwnStatuses, ShowsItsOwn, Shows, window
<1>4. Requests'
  BY DEF WindowInv, Requests, Present, window
<1> QED
  BY <1>1, <1>2, <1>3, <1>4 DEF WindowInv

LEMMA PollStep ==
  ASSUME WindowInv, Poll
  PROVE  WindowInv'
<1>1. storage \in Storage /\ tab \in Tabs /\ strayed \in BOOLEAN /\ "poll" \in Reads
  BY DEF WindowInv, Types, Reads
<1>2. PICK n \in Message :
        /\ n = Request(storage, "poll", tab, None)
        /\ n.kind = "poll" /\ n.tab = tab /\ n.tenant = storage.tenant /\ n.answer = Blank
  BY <1>1, ReadMessage
<1>3. /\ net' = net \cup {n} /\ strayed' = (strayed \/ storage.tenant # session.tenant)
      /\ session.in /\ tab = "Appointments"
      /\ UNCHANGED <<storage, window, status, upsets, scene>>
  BY <1>2 DEF Poll, Mounted
<1>4. Fits(n)
  BY <1>2, <1>3, BlankFits
<1>5. Present(n)'
  BY <1>2, <1>3 DEF Present, window
<1>6. strayed' \in BOOLEAN /\ (strayed => strayed')
  BY <1>1, <1>3
<1> QED
  BY <1>2, <1>3, <1>4, <1>5, <1>6, SentStep

LEMMA WriteStep ==
  ASSUME WindowInv, NEW op \in Writes, NEW r \in Row, Write(op, r)
  PROVE  WindowInv'
<1>1. storage \in Storage /\ tab \in Tabs /\ strayed \in BOOLEAN
      /\ op \in Reads \cup Writes /\ r \in Row \cup {None}
  BY DEF WindowInv, Types
<1>2. PICK n \in Message : n = Request(storage, op, tab, r) /\ n.kind = op
  BY <1>1, RequestMessage
<1>3. net' = net \cup {n} /\ UNCHANGED <<storage, window, status, upsets, scene, strayed>>
  BY <1>2 DEF Write
<1>4. n.kind \notin Reads /\ n.kind # "list"
  BY <1>2 DEF Reads, Writes
<1>5. Fits(n) /\ Present(n)'
  BY <1>4 DEF Fits, Present
<1> QED
  BY <1>1, <1>2, <1>3, <1>4, <1>5, SentStep

\* A message is replaced by the same one with its answer.
LEMMA AnswerStep ==
  ASSUME WindowInv, NEW m \in net, NEW a \in Message,
         a.kind = m.kind, a.active = m.active, a.tenant = m.tenant, a.tab = m.tab, Fits(a),
         net' = (net \ {m}) \cup {a},
         UNCHANGED <<window, strayed>>
  PROVE  OneList' /\ Loads' /\ Requests' /\ ShowsItsOwn' /\ net' \subseteq Message
<1>1. PresentList(a) <=> PresentList(m)
  BY DEF PresentList
<1>2. OneList'
  BY <1>1 DEF WindowInv, OneList
<1>3. Loads'
  BY <1>1 DEF WindowInv, Loads, window
<1>4. Requests'
  <2>1. \A n \in net : Fits(n) /\ Present(n)
    BY DEF WindowInv, Requests
  <2>2. Present(a)
    BY <2>1 DEF Present
  <2>3. \A n \in net' : Fits(n) /\ Present(n)
    BY <2>1, <2>2
  <2>4. \A n \in net' : Present(n)'
    BY <2>3 DEF Present, window
  <2> QED
    BY <2>3, <2>4 DEF Requests
<1>5. ShowsItsOwn'
  BY DEF WindowInv, ShowsItsOwn, Shows, window
<1>6. net' \subseteq Message
  BY DEF WindowInv, Types
<1> QED
  BY <1>2, <1>3, <1>4, <1>5, <1>6

LEMMA AnswersFit ==
  ASSUME WindowInv, NEW t, NEW v \in Tabs
  PROVE  /\ Listed(v, t) \in [Row -> Statuses] /\ ActiveOf(t) \in [Row -> Statuses]
         /\ \A r \in Row : Listed(v, t)[r] # "absent" => Home[r] = t /\ r \in OnTab(v)
         /\ \A r \in Row : ActiveOf(t)[r] # "absent" => Home[r] = t /\ r \in OnTab("Appointments")
<1>1. status \in [Row -> Statuses] /\ "absent" \in Statuses /\ OwnStatuses
  BY DEF WindowInv, Types, Statuses
<1>2. Listed(v, t) \in [Row -> Statuses] /\ ActiveOf(t) \in [Row -> Statuses]
  BY <1>1 DEF Listed, ActiveOf
<1>3. ASSUME NEW r \in Row, status[r] \in Active \cup {"Scheduled", "Ended"}
      PROVE  r \in Appointment
  BY <1>1, <1>3 DEF OwnStatuses, Active
<1>4. \A r \in Row : Listed(v, t)[r] # "absent" => Home[r] = t /\ r \in OnTab(v)
  BY <1>3 DEF Listed, OnTab
<1>5. \A r \in Row : ActiveOf(t)[r] # "absent" => Home[r] = t /\ r \in OnTab("Appointments")
  BY <1>3 DEF ActiveOf, OnTab
<1> QED
  BY <1>2, <1>4, <1>5

LEMMA ServeStep ==
  ASSUME WindowInv, NEW m \in net, Serve(m)
  PROVE  WindowInv'
<1> DEFINE ok == Admitted(m) /\ (m.kind \in Reads \/ Writable(m))
           stage == IF ok THEN "served" ELSE "refused"
           answer == CASE ok /\ m.kind = "list" -> Listed(m.tab, m.tenant)
                       [] ok /\ m.kind = "poll" -> ActiveOf(m.tenant)
                       [] OTHER -> Blank
<1>1. m \in Message /\ m.tab \in Tabs /\ m.kind \in Reads \cup Writes /\ Fits(m)
  BY DEF WindowInv, Types, Message, Requests
<1>2. stage \in Stages
  BY DEF Stages
<1>3. answer \in [Row -> Statuses]
  BY <1>1, AnswersFit, BlankType
<1>4. ASSUME m.kind \in Reads
      PROVE  /\ \A r \in Row : answer[r] # "absent" => Home[r] = m.tenant /\ r \in OnTab(m.tab)
             /\ m.kind = "poll" => m.tab = "Appointments"
  <2>1. m.kind = "poll" => m.tab = "Appointments"
    BY <1>1, <1>4 DEF Fits
  <2>2. CASE answer = Blank
    BY <2>1, <2>2 DEF Blank
  <2>3. CASE answer = Listed(m.tab, m.tenant)
    BY <1>1, <2>1, <2>3, AnswersFit
  <2>4. CASE answer = ActiveOf(m.tenant) /\ m.kind = "poll"
    <3>1. m.tab = "Appointments" /\ answer = ActiveOf(m.tenant)
      BY <2>1, <2>4
    <3> HIDE DEF answer
    <3>2. \A r \in Row : answer[r] # "absent" => Home[r] = m.tenant /\ r \in OnTab("Appointments")
      BY <1>1, <3>1, AnswersFit
    <3> QED
      BY <3>1, <3>2
  <2> QED
    BY <2>2, <2>3, <2>4
<1>5. net' = (net \ {m}) \cup {Answered(m, stage, answer)}
      /\ UNCHANGED <<storage, window, upsets, scene, strayed>>
  BY DEF Serve
<1> HIDE DEF stage, answer
<1>6. PICK a \in Message :
        /\ a = Answered(m, stage, answer)
        /\ a.kind = m.kind /\ a.active = m.active /\ a.tenant = m.tenant /\ a.tab = m.tab
        /\ a.answer = answer
  BY <1>1, <1>2, <1>3, AnsweredMessage
<1>7. Fits(a)
  BY <1>4, <1>6 DEF Fits
<1>8. OneList' /\ Loads' /\ Requests' /\ ShowsItsOwn' /\ net' \subseteq Message
  BY <1>5, <1>6, <1>7, AnswerStep
<1>9. status' \in [Row -> Statuses] /\ OwnStatuses'
  <2>1. status \in [Row -> Statuses] /\ OwnStatuses
    BY DEF WindowInv, Types
  <2>2. CASE status' = status
    BY <2>1, <2>2 DEF OwnStatuses
  <2>3. CASE status' = [status EXCEPT ![m.row] = After(m.kind, m.row)]
    <3>1. m.row \notin Row => status' = status
      BY <2>1, <2>3
    <3>2. ASSUME m.row \in Row
          PROVE  /\ After(m.kind, m.row) \in Statuses
                 /\ m.row \notin Appointment => After(m.kind, m.row) \in {"absent", "there"}
      <4>1. status[m.row] \in Statuses
            /\ (m.row \notin Appointment => status[m.row] \in {"absent", "there"})
            /\ (m.row \notin Appointment => m.row \in Technician)
        BY <2>1, <3>2 DEF OwnStatuses, Row
      <4> QED
        BY <4>1 DEF After, Statuses
    <3>3. ASSUME m.row \in Row
          PROVE  status' \in [Row -> Statuses] /\ OwnStatuses'
      BY <2>1, <2>3, <3>2, <3>3 DEF OwnStatuses
    <3> QED
      BY <2>2, <3>1, <3>3
  <2> QED
    BY <2>2, <2>3 DEF Serve
<1>10. Types'
  BY <1>5, <1>8, <1>9 DEF WindowInv, Types, window
<1> QED
  BY <1>8, <1>9, <1>10 DEF WindowInv

LEMMA LoseStep ==
  ASSUME WindowInv, NEW m \in net, Lose(m)
  PROVE  WindowInv'
<1>1. m \in Message /\ Fits(m)
  BY DEF WindowInv, Types, Requests
<1>2. PICK a \in Message :
        /\ a = Answered(m, "refused", Blank)
        /\ a.kind = m.kind /\ a.active = m.active /\ a.tenant = m.tenant /\ a.tab = m.tab
        /\ a.answer = Blank
  BY <1>1, AnsweredMessage, BlankType DEF Stages
<1>3. Fits(a)
  BY <1>1, <1>2 DEF Fits, Blank
<1>4. net' = (net \ {m}) \cup {a} /\ UNCHANGED <<storage, window, status, scene, strayed>>
  BY <1>2 DEF Lose
<1>5. OneList' /\ Loads' /\ Requests' /\ ShowsItsOwn' /\ net' \subseteq Message
  BY <1>2, <1>3, <1>4, AnswerStep
<1>6. upsets' \in 0 .. MaxUpsets
  BY ConsoleAssumption DEF WindowInv, Types, Lose
<1>7. Types' /\ OwnStatuses'
  BY <1>4, <1>5, <1>6 DEF WindowInv, Types, OwnStatuses, window
<1> QED
  BY <1>5, <1>7 DEF WindowInv

\* An answer that is not dropped holds rows the table may show.
LEMMA ArrivedRows ==
  ASSUME WindowInv, NEW m \in net, m.kind \in Reads, m.active,
         NEW r \in Row, m.answer[r] # "absent"
  PROVE  session.in /\ r \in OnTab(tab) /\ (Home[r] = session.tenant \/ strayed)
<1>1. Fits(m) /\ Present(m)
  BY DEF WindowInv, Requests
<1> QED
  BY <1>1 DEF Fits, Present

LEMMA ListArrivesStep ==
  ASSUME WindowInv, NEW m \in net, ListArrives(m)
  PROVE  WindowInv'
<1>1. /\ m.kind = "list" /\ net' = net \ {m}
      /\ loading' = (IF m.active THEN FALSE ELSE loading)
      /\ data' = (IF m.active /\ m.stage = "served" THEN m.answer ELSE data)
      /\ error' = (error \/ (m.active /\ m.stage = "refused"))
      /\ UNCHANGED <<storage, session, tab, status, upsets, scene, strayed>>
  BY DEF ListArrives
<1>2. m \in Message /\ m.answer \in [Row -> Statuses] /\ m.kind \in Reads
  BY <1>1 DEF WindowInv, Types, Message, Reads
<1>3. data' \in [Row -> Statuses] /\ loading' \in BOOLEAN /\ error' \in BOOLEAN
  BY <1>1, <1>2 DEF WindowInv, Types
<1>4. Types'
  BY <1>1, <1>3 DEF WindowInv, Types
<1>5. OneList' /\ OwnStatuses'
  BY <1>1 DEF WindowInv, OneList, OwnStatuses
<1>6. Requests'
  BY <1>1 DEF WindowInv, Requests, Present
<1>7. Loads'
  <2>1. CASE m.active
    <3>1. \A n \in net' : ~PresentList(n)
      BY <1>1, <2>1 DEF WindowInv, OneList, PresentList
    <3> QED
      BY <1>1, <2>1, <3>1 DEF Loads
  <2>2. CASE ~m.active
    BY <1>1, <2>2 DEF WindowInv, Loads, PresentList
  <2> QED
    BY <2>1, <2>2
<1>8. ShowsItsOwn'
  <2>1. CASE m.active /\ m.stage = "served"
    BY <1>1, <1>2, <2>1, ArrivedRows DEF ShowsItsOwn, Shows, OnTab
  <2>2. CASE ~(m.active /\ m.stage = "served")
    BY <1>1, <2>2 DEF WindowInv, ShowsItsOwn, Shows
  <2> QED
    BY <2>1, <2>2
<1> QED
  BY <1>4, <1>5, <1>6, <1>7, <1>8 DEF WindowInv

LEMMA PollArrivesStep ==
  ASSUME WindowInv, NEW m \in net, PollArrives(m)
  PROVE  WindowInv'
<1>1. /\ m.kind = "poll" /\ net' = net \ {m}
      /\ data' = (IF m.active /\ m.stage = "served"
                  THEN mergeActiveAppointments(data, m.answer) ELSE data)
      /\ error' = (error \/ (m.active /\ m.stage = "refused"))
      /\ UNCHANGED <<storage, session, tab, loading, status, upsets, scene, strayed>>
  BY DEF PollArrives
<1>2. m \in Message /\ m.answer \in [Row -> Statuses] /\ m.kind \in Reads
  BY <1>1 DEF WindowInv, Types, Message, Reads
<1>3. mergeActiveAppointments(data, m.answer) \in [Row -> Statuses]
  BY <1>2 DEF WindowInv, Types, mergeActiveAppointments
<1>4. Types'
  <2>1. data' \in [Row -> Statuses] /\ error' \in BOOLEAN
    BY <1>1, <1>3 DEF WindowInv, Types
  <2> QED
    BY <1>1, <2>1 DEF WindowInv, Types
<1>5. OneList' /\ OwnStatuses'
  BY <1>1 DEF WindowInv, OneList, OwnStatuses
<1>6. Requests'
  BY <1>1 DEF WindowInv, Requests, Present
<1>7. Loads'
  BY <1>1 DEF WindowInv, Loads, PresentList
<1>8. ShowsItsOwn'
  <2>1. CASE m.active /\ m.stage = "served"
    <3>1. \A r \in Row : Shows(r)' => Shows(r) \/ m.answer[r] # "absent"
      BY <1>1, <2>1 DEF Shows, mergeActiveAppointments
    <3> QED
      BY <1>1, <1>2, <2>1, <3>1, ArrivedRows DEF WindowInv, ShowsItsOwn, OnTab
  <2>2. CASE ~(m.active /\ m.stage = "served")
    BY <1>1, <2>2 DEF WindowInv, ShowsItsOwn, Shows
  <2> QED
    BY <2>1, <2>2
<1> QED
  BY <1>4, <1>5, <1>6, <1>7, <1>8 DEF WindowInv

LEMMA ProceedsStep ==
  ASSUME WindowInv, NEW r \in Appointment, Proceeds(r)
  PROVE  WindowInv'
<1>1. UNCHANGED <<storage, window, net, upsets, scene, strayed>>
  BY DEF Proceeds
<1>2. PICK s \in Statuses : status' = [status EXCEPT ![r] = s]
  BY DEF Proceeds, Statuses
<1>3. Types' /\ OwnStatuses'
  BY <1>1, <1>2 DEF WindowInv, Types, OwnStatuses, window
<1>4. OneList' /\ Loads' /\ Requests' /\ ShowsItsOwn'
  BY <1>1 DEF WindowInv, OneList, Loads, Requests, Present, ShowsItsOwn, Shows, window
<1> QED
  BY <1>3, <1>4 DEF WindowInv

(***************************************************************************)
(* The invariant.                                                          *)
(***************************************************************************)
LEMMA WindowInvHolds == Spec => []WindowInv
<1>1. Init => WindowInv
  <2> SUFFICES ASSUME Init
               PROVE  WindowInv
    OBVIOUS
  <2>1. storage \in Storage /\ session \in Session /\ tab \in Tabs
    BY DEF Init, Storage, Session, Tabs, NoStorage
  <2>2. status \in [Row -> Statuses] /\ OwnStatuses
    BY DEF Init, Statuses, OwnStatuses, Row
  <2>3. Types
    <3>1. upsets \in 0 .. MaxUpsets
      BY ConsoleAssumption DEF Init
    <3>2. loading \in BOOLEAN /\ error \in BOOLEAN /\ strayed \in BOOLEAN /\ net \subseteq Message
      BY DEF Init
    <3>3. data \in [Row -> Statuses] /\ scene \in Scenes
      BY BlankType DEF Init
    <3> QED
      BY <2>1, <2>2, <3>1, <3>2, <3>3 DEF Types
  <2>4. OneList /\ Loads /\ Requests
    BY DEF Init, OneList, Loads, Requests
  <2>5. ShowsItsOwn
    BY DEF Init, ShowsItsOwn, Shows, Blank
  <2> QED
    BY <2>2, <2>3, <2>4, <2>5 DEF WindowInv
<1>2. WindowInv /\ [Next]_vars => WindowInv'
  <2> SUFFICES ASSUME WindowInv, [Next]_vars
               PROVE  WindowInv'
    OBVIOUS
  <2>1. ASSUME NEW t \in Tenant, SignIn(t) \/ SelectTenant(t)
        PROVE  WindowInv'
    BY <2>1, SignInStep, SelectTenantStep
  <2>2. CASE SignOut \/ Elsewhere
    BY <2>2, SignOutStep, ElsewhereStep
  <2>3. CASE ChangeTenant \/ PressesReload
    <3>1. storage \in Storage
      BY DEF WindowInv, Types
    <3>2. [storage EXCEPT !.tenant = None] \in Storage
      BY <3>1 DEF Storage
    <3> QED
      BY <2>3, <3>1, <3>2, ReloadStep DEF ChangeTenant, PressesReload
  <2>4. ASSUME NEW v \in Tabs, ShowTab(v)
        PROVE  WindowInv'
    BY <2>4, ShowTabStep
  <2>5. CASE Poll
    BY <2>5, PollStep
  <2>6. ASSUME NEW op \in {"create", "edit", "delete"}, NEW r \in Row, Write(op, r)
        PROVE  WindowInv'
    BY <2>6, WriteStep DEF Writes
  <2>7. ASSUME NEW m \in net, Serve(m) \/ Lose(m)
        PROVE  WindowInv'
    BY <2>7, ServeStep, LoseStep
  <2>8. CASE Arrives
    BY <2>8, ListArrivesStep, PollArrivesStep, WriteReturnsStep DEF Arrives
  <2>9. ASSUME NEW r \in Appointment, Proceeds(r)
        PROVE  WindowInv'
    BY <2>9, ProceedsStep
  <2>10. CASE UNCHANGED vars
    BY <2>10 DEF vars, window, WindowInv, Types, OneList, Loads, OwnStatuses, Requests,
                 Present, ShowsItsOwn, Shows
  <2> QED
    BY <2>1, <2>2, <2>3, <2>4, <2>5, <2>6, <2>7, <2>8, <2>9, <2>10 DEF Next
<1> QED
  BY <1>1, <1>2, PTL DEF Spec

\* The types, and the window of Dashboard.tsx is loading exactly while the list
\* it shows is under way, however many lists of earlier effects there are.
THEOREM ConsoleTypes == Spec => []TypeOK
<1>1. WindowInv => TypeOK
  <2> SUFFICES ASSUME WindowInv
               PROVE  TypeOK
    OBVIOUS
  <2>1. loading = (\E m \in net : m.kind = "list" /\ m.active)
    BY DEF WindowInv, Types, Loads, PresentList
  <2>2. \A m \in net : /\ m.kind \in Reads \cup {"create", "edit", "delete"}
                       /\ m.stage \in {"sent", "served", "refused"}
                       /\ m.answer \in [Row -> Statuses]
    BY DEF WindowInv, Types, Message, Writes, Stages
  <2> QED
    BY <2>1, <2>2 DEF WindowInv, Types, Storage, Session, TypeOK
<1> QED
  BY <1>1, WindowInvHolds, PTL

\* Whatever is asked and answered, and in whatever order, the table of the
\* dashboard holds rows of the tab and the tenant that the window names: unless
\* another window changed the tenant of the storage they were asked from.
THEOREM TableShowsItsOwn == Spec => []ShowsItsOwn
<1>1. WindowInv => ShowsItsOwn
  BY DEF WindowInv
<1> QED
  BY <1>1, WindowInvHolds, PTL
=============================================================================
