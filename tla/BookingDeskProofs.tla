-------------------------- MODULE BookingDeskProofs --------------------------
(***************************************************************************)
(* Theorems about BookingDesk, for any number of technicians, bays, types, *)
(* appointments and customers, any zone and any length of a day.           *)
(***************************************************************************)
EXTENDS BookingDesk, TLAPS

(***************************************************************************)
(* The strengthening.                                                      *)
(***************************************************************************)
Answer == [kind : Kind, start : Times, active : BOOLEAN, waits : SUBSET ({"techs"} \cup Bay),
           tech : SUBSET Tech, bay : SUBSET Bay,
           booked : SUBSET Booking, noted : SUBSET Booking]

Offer == [tech : SUBSET Tech, bay : SUBSET Bay]

Types ==
  /\ book \in [Booking -> {None, "Scheduled", "Completed", "Cancelled"}]
  /\ noted \subseteq Booking
  /\ form \in Form \cup {None} /\ basis \in Ground \cup {None}
  /\ offer \in Offer /\ listed \in BOOLEAN /\ posting \in BOOLEAN
  /\ net \subseteq Answer
  /\ holds \subseteq Customer \X Holdable

\* Technicians T and bays Y are right for type k and start s, as far as the
\* appointments B and N go that were booked and noted when it was asked.
Right(k, s, B, N, T, Y) ==
  /\ T \subseteq Skilled[k]
  /\ \A a \in Booking : slotsOverlap(a, s, s + Duration[k]) =>
       /\ a \in B /\ book[a] = "Scheduled" => Plan[a].tech \notin T
       /\ a \in N /\ a \in noted /\ Plan[a].start \div DayLength = DayOf(s)
            => Plan[a].bay \notin Y

\* B and N are of the past: what was booked then is not booked anew, and what
\* was noted then and is no more belongs to an appointment that has ended.
Past(B, N) ==
  /\ \A a \in B : book[a] # None
  /\ \A a \in N : a \in noted \/ book[a] \in {"Completed", "Cancelled"}

Answered(m) == /\ Right(m.kind, m.start, m.booked, m.noted, m.tech, m.bay)
               /\ Past(m.booked, m.noted)

OfferIsRight ==
  basis # None =>
    /\ Right(basis.kind, basis.start, basis.booked, basis.noted, offer.tech, offer.bay)
    /\ Past(basis.booked, basis.noted)

\* The requests whose answers count are those for the form as it is.
ActiveAreAsked ==
  \A m \in net : m.active => form # None /\ m.kind = form.kind /\ m.start = form.start

SettledMatches ==
  Settled =>
    /\ form.tech \in offer.tech \cup {None} /\ form.bay \in offer.bay \cup {None}
    /\ basis = None => offer = Everything
    /\ basis # None => basis.kind = form.kind /\ basis.start = form.start

\* Before the lists are there, there is nothing to choose.
Unlisted ==
  ~listed => /\ offer = Nothing
             /\ form # None => form.kind = None /\ form.tech = None /\ form.bay = None

IInv ==
  /\ Types
  /\ \A a \in noted : book[a] # None
  /\ \A m \in net : Answered(m)
  /\ OfferIsRight /\ ActiveAreAsked /\ SettledMatches /\ Unlisted
  /\ HoldIsWhole

-----------------------------------------------------------------------------
(* The initial states.                                                      *)

\* At the start there is no form, no request and no hold.
LEMMA InitInv == Init => IInv
<1> SUFFICES ASSUME Init PROVE IInv
  OBVIOUS
<1>1. Types
  BY DEF Init, Types, Nothing, Offer
<1>2. OfferIsRight /\ ActiveAreAsked /\ SettledMatches /\ Unlisted /\ HoldIsWhole
  BY DEF Init, OfferIsRight, ActiveAreAsked, SettledMatches, Settled, Unlisted, HoldIsWhole
<1> QED
  BY <1>1, <1>2 DEF IInv, Init

-----------------------------------------------------------------------------
(* Holds.                                                                   *)

\* The script sets both keys or none, and never one that somebody has.
LEMMA CreateHoldKeeps ==
  ASSUME IInv, NEW c \in Customer, NEW S \in Holdable, CreateHold(c, S)
  PROVE  HoldIsWhole' /\ holds' \subseteq Customer \X Holdable
<1>1. holds \subseteq Customer \X Holdable /\ HoldIsWhole
  BY DEF IInv, Types
<1>2. /\ \A r \in S : held[r] = None
      /\ held' = [r \in Tech \cup Bay |-> IF r \in S THEN <<c, S>> ELSE held[r]]
      /\ holds' = holds \cup {<<c, S>>}
  BY DEF CreateHold, setMultipleIfNotExists
<1>3. \A h \in holds' : h[2] \subseteq Tech \cup Bay
  <2>1. \A H \in Holdable : H \subseteq Tech \cup Bay
    BY DEF Holdable
  <2>2. \A h \in holds' : h[2] \in Holdable
    BY <1>1, <1>2
  <2> QED
    BY <2>1, <2>2
<1>4. \A h \in holds : h # None
  BY <1>1, DeskAssumption DEF Holdable
<1>5. ASSUME NEW h \in holds', NEW r \in h[2] PROVE held'[r] = h
  <2>1. r \in Tech \cup Bay
    BY <1>3, <1>5
  <2>2. CASE h \in holds
    <3>1. held[r] = h /\ h # None
      BY <2>2, <1>1, <1>4, <1>5 DEF HoldIsWhole
    <3>2. r \notin S
      BY <3>1, <1>2
    <3> QED
      BY <2>1, <3>1, <3>2, <1>2
  <2>3. CASE h = <<c, S>>
    BY <2>1, <2>3, <1>2, <1>5
  <2> QED
    BY <2>2, <2>3, <1>2
<1> QED
  BY <1>1, <1>2, <1>5 DEF HoldIsWhole

\* The keys that expire are those of the hold that ends.
LEMMA HoldExpiresKeeps ==
  ASSUME IInv, NEW h \in holds, HoldExpires(h)
  PROVE  HoldIsWhole' /\ holds' \subseteq Customer \X Holdable
<1>1. holds \subseteq Customer \X Holdable /\ HoldIsWhole
  BY DEF IInv, Types
<1>2. \A g \in holds : g[2] \subseteq Tech \cup Bay
  BY <1>1 DEF Holdable
<1> QED
  BY <1>1, <1>2 DEF HoldExpires, HoldIsWhole

\* Where only holds change, the rest of the invariant stays.
LEMMA HoldingStep ==
  ASSUME IInv, UNCHANGED <<scene, world, desk>>,
         HoldIsWhole', holds' \subseteq Customer \X Holdable
  PROVE  IInv'
BY DEF IInv, Types, world, desk, Answered, Right, Past, OfferIsRight, ActiveAreAsked,
       SettledMatches, Settled, Everything, Unlisted, DayOf, slotsOverlap

-----------------------------------------------------------------------------
(* The appointments of others.                                              *)

OthersStep ==
  \E a \in Booking : \/ Booked(a) \/ Noted(a) \/ Forgotten(a)
                     \/ \E s \in {"Completed", "Cancelled"} : Ended(a, s)

\* What is right stays so: an appointment does not come back.
LEMMA RightStays ==
  ASSUME IInv, OthersStep, NEW k, NEW s, NEW B \in SUBSET Booking,
         NEW N \in SUBSET Booking, NEW T, NEW Y, Right(k, s, B, N, T, Y), Past(B, N)
  PROVE  Right(k, s, B, N, T, Y)' /\ Past(B, N)'
<1>1. /\ book \in [Booking -> {None, "Scheduled", "Completed", "Cancelled"}]
      /\ noted \subseteq Booking /\ \A a \in noted : book[a] # None
  BY DEF IInv, Types
<1>2. None \notin {"Scheduled", "Completed", "Cancelled"}
  BY DeskAssumption
<1>3. \A a \in B : book'[a] # None /\ (book'[a] = "Scheduled" => book[a] = "Scheduled")
  BY <1>1, <1>2 DEF OthersStep, Booked, Noted, Forgotten, Ended, Past
<1>4. \A a \in N : /\ a \in noted' => a \in noted
                   /\ a \in noted' \/ book'[a] \in {"Completed", "Cancelled"}
  BY <1>1, <1>2 DEF OthersStep, Booked, Noted, Forgotten, Ended, Past
<1> QED
  BY <1>3, <1>4 DEF Right, Past, slotsOverlap, DayOf

\* Every step of the others keeps the invariant.
LEMMA OthersKeep ==
  ASSUME IInv, OthersStep
  PROVE  IInv'
<1>1. UNCHANGED <<scene, desk, holding>>
  BY DEF OthersStep, Booked, Noted, Forgotten, Ended
<1>2. /\ form' = form /\ listed' = listed /\ offer' = offer /\ basis' = basis
      /\ net' = net /\ posting' = posting /\ held' = held /\ holds' = holds
  BY <1>1 DEF desk, holding
<1>3. Types'
  BY <1>2 DEF IInv, Types, OthersStep, Booked, Noted, Forgotten, Ended
<1>4. \A a \in noted' : book'[a] # None
  BY DeskAssumption DEF IInv, Types, OthersStep, Booked, Noted, Forgotten, Ended
<1>5. \A m \in net' : Answered(m)'
  <2> SUFFICES ASSUME NEW m \in net PROVE Answered(m)'
    BY <1>2
  <2>1. m.booked \in SUBSET Booking /\ m.noted \in SUBSET Booking
    BY DEF IInv, Types, Answer
  <2>2. /\ Right(m.kind, m.start, m.booked, m.noted, m.tech, m.bay)
        /\ Past(m.booked, m.noted)
    BY DEF IInv, Answered
  <2> QED
    BY <2>1, <2>2, RightStays DEF Answered
<1>6. OfferIsRight'
  <2> SUFFICES ASSUME basis # None
               PROVE  /\ Right(basis.kind, basis.start, basis.booked, basis.noted,
                               offer.tech, offer.bay)'
                      /\ Past(basis.booked, basis.noted)'
    BY <1>2 DEF OfferIsRight
  <2>1. basis.booked \in SUBSET Booking /\ basis.noted \in SUBSET Booking
    BY DEF IInv, Types, Ground
  <2>2. /\ Right(basis.kind, basis.start, basis.booked, basis.noted, offer.tech, offer.bay)
        /\ Past(basis.booked, basis.noted)
    BY DEF IInv, OfferIsRight
  <2>3. PICK g \in Ground, o \in Offer : g = basis /\ o = offer
    BY DEF IInv, Types
  <2>4. /\ Right(g.kind, g.start, g.booked, g.noted, o.tech, o.bay)'
        /\ Past(g.booked, g.noted)'
    BY <2>1, <2>2, <2>3, RightStays
  <2>5. g = basis' /\ o = offer'
    BY <1>2, <2>3
  <2> QED
    BY <2>4, <2>5 DEF Right, Past, slotsOverlap, DayOf
<1>7. ActiveAreAsked' /\ SettledMatches' /\ Unlisted' /\ HoldIsWhole'
  BY <1>2 DEF IInv, ActiveAreAsked, SettledMatches, Settled, Everything, Unlisted, HoldIsWhole
<1> QED
  BY <1>3, <1>4, <1>5, <1>6, <1>7 DEF IInv

-----------------------------------------------------------------------------
(* The form.                                                                *)

\* A step of the desk keeps the invariant if what it changes is as it should.
LEMMA DeskStep ==
  ASSUME IInv, UNCHANGED <<scene, world, holding>>,
         form' \in Form \cup {None}, basis' \in Ground \cup {None},
         offer' \in Offer, listed' \in BOOLEAN, posting' \in BOOLEAN, net' \subseteq Answer,
         \A m \in net' : Answered(m), OfferIsRight',
         ActiveAreAsked', SettledMatches', Unlisted'
  PROVE  IInv'
<1>1. book' = book /\ noted' = noted /\ held' = held /\ holds' = holds
  BY DEF world, holding
<1>2. Types'
  BY <1>1 DEF IInv, Types
<1>3. \A m \in net' : Answered(m)'
  BY <1>1 DEF Answered, Right, Past, slotsOverlap, DayOf
<1> QED
  BY <1>1, <1>2, <1>3 DEF IInv, HoldIsWhole

\* Requests that were cleaned up are the same and count no more.
LEMMA CleanedAnswers ==
  ASSUME IInv, NEW S \in SUBSET net
  PROVE  \A m \in Cleaned(S) : m \in Answer /\ Answered(m) /\ ~m.active
<1> SUFFICES ASSUME NEW n \in S
             PROVE  LET m == [n EXCEPT !.active = FALSE]
                    IN  m \in Answer /\ Answered(m) /\ ~m.active
  BY DEF Cleaned
<1> DEFINE m == [n EXCEPT !.active = FALSE]
<1>1. n \in Answer /\ Answered(n)
  BY DEF IInv, Types
<1>2. /\ m \in Answer /\ m.active = FALSE
      /\ m.kind = n.kind /\ m.start = n.start /\ m.booked = n.booked /\ m.noted = n.noted
      /\ m.tech = n.tech /\ m.bay = n.bay
  BY <1>1 DEF Answer
<1> HIDE DEF m
<1>3. Answered(m)
  BY <1>1, <1>2 DEF Answered
<1> QED
  BY <1>2, <1>3 DEF m

\* A request that is just sent offers nothing yet.
LEMMA RequestAnswers ==
  ASSUME IInv, NEW f \in Form, f.kind # None, f.start # None
  PROVE  /\ Request(f) \in Answer /\ Answered(Request(f))
         /\ Request(f).active /\ Request(f).kind = f.kind /\ Request(f).start = f.start
<1>1. f.kind \in Kind /\ f.start \in Times
  BY DEF Form
<1>2. {a \in Booking : book[a] = "Scheduled"} \in SUBSET Booking /\ noted \in SUBSET Booking
  BY DEF IInv, Types
<1>3. Request(f) \in Answer
  BY <1>1, <1>2 DEF Request, Answer
<1>4. Answered(Request(f))
  BY DeskAssumption DEF Request, Answered, Right, Past
<1> QED
  BY <1>3, <1>4 DEF Request

\* The effect asks for form f: the offer stays, or a new one that is right comes.
LEMMA AskedKeeps ==
  ASSUME IInv, NEW f \in Form, NEW S \in SUBSET net,
         f.kind # None, f.start # None, listed,
         form' = f, net' = Cleaned(S) \cup {Request(f)},
         basis' \in Ground \cup {None}, offer' \in Offer, OfferIsRight',
         UNCHANGED <<scene, world, holding, listed, posting>>
  PROVE  IInv'
<1>1. \A m \in net' : m \in Answer /\ Answered(m)
  BY CleanedAnswers, RequestAnswers
<1>2. ActiveAreAsked'
  <2>1. f # None
    BY DeskAssumption
  <2> QED
    BY <2>1, CleanedAnswers, RequestAnswers DEF ActiveAreAsked
<1>3. SettledMatches'
  BY RequestAnswers DEF SettledMatches, Settled
<1>4. Unlisted'
  BY DEF Unlisted
<1> QED
  BY <1>1, <1>2, <1>3, <1>4, DeskStep DEF IInv, Types

\* The effect runs for form f, whatever is chosen in it.
LEMMA AsksKeeps ==
  ASSUME IInv, NEW f \in Form, Asks(f, Cleaned(net)),
         ~listed => f.kind = None /\ f.tech = None /\ f.bay = None,
         UNCHANGED <<scene, world, holding, listed, posting>>
  PROVE  IInv'
<1>1. CASE f.kind = None \/ f.start = None
  <2>1. form' = f /\ net' = Cleaned(net) /\ offer' = Everything /\ basis' = None
    BY <1>1 DEF Asks
  <2>2. Everything \in Offer
    BY DEF Everything, Nothing, Offer
  <2>3. \A m \in net' : m \in Answer /\ Answered(m) /\ ~m.active
    BY <2>1, CleanedAnswers
  <2>4. OfferIsRight' /\ ActiveAreAsked'
    BY <2>1, <2>3 DEF OfferIsRight, ActiveAreAsked
  <2>5. Everything' = Everything
    BY DEF Everything
  <2>6. SettledMatches'
    BY <2>1, <2>5 DEF SettledMatches, Settled, Form, Everything, Nothing
  <2>7. Unlisted'
    BY <2>1 DEF Unlisted, Everything
  <2> QED
    BY <2>1, <2>2, <2>3, <2>4, <2>6, <2>7, DeskStep DEF IInv, Types
<1>2. CASE ~(f.kind = None \/ f.start = None)
  <2>1. form' = f /\ net' = Cleaned(net) \cup {Request(f)} /\ offer' = offer /\ basis' = basis
    BY <1>2 DEF Asks
  <2>2. OfferIsRight'
    BY <2>1 DEF IInv, OfferIsRight, Right, Past, slotsOverlap, DayOf, world
  <2> QED
    BY <1>2, <2>1, <2>2, AskedKeeps DEF IInv, Types
<1> QED
  BY <1>1, <1>2

\* What the user does in the form.
LEMMA EditsKeep ==
  ASSUME IInv,
         \/ TogglesAuto
         \/ \E k \in Kind : ChoosesKind(k)
         \/ \E s \in Times \cup {None} : PicksTime(s)
         \/ \E t \in Tech : ChoosesTech(t)
         \/ \E b \in Bay : ChoosesBay(b)
  PROVE  IInv'
<1>1. /\ form # None /\ form \in Form
      /\ UNCHANGED <<scene, world, holding, listed, posting>>
  BY DEF Edits, TogglesAuto, ChoosesKind, PicksTime, ChoosesTech, ChoosesBay, IInv, Types
<1>2. ~listed => /\ form.kind = None /\ form.tech = None /\ form.bay = None
                 /\ offer.tech = {} /\ offer.bay = {}
  BY <1>1 DEF IInv, Unlisted, Nothing
<1>3. ASSUME NEW f \in Form, Asks(f, Cleaned(net)),
             ~listed => f.kind = None /\ f.tech = None /\ f.bay = None
      PROVE  IInv'
  BY <1>1, <1>3, AsksKeeps
<1>4. ASSUME NEW k \in Kind, ChoosesKind(k) PROVE IInv'
  <2>1. [form EXCEPT !.kind = k] \in Form /\ listed
    BY <1>1, <1>4 DEF Form, ChoosesKind
  <2> QED
    BY <1>3, <1>4, <2>1 DEF ChoosesKind
<1>5. ASSUME NEW s \in Times \cup {None}, PicksTime(s) PROVE IInv'
  <2> DEFINE f == [form EXCEPT !.start = s]
  <2>1. f \in Form /\ f.kind = form.kind /\ f.tech = form.tech /\ f.bay = form.bay
    BY <1>1 DEF Form
  <2>2. Asks(f, Cleaned(net))
    BY <1>5 DEF PicksTime
  <2> HIDE DEF f
  <2> QED
    BY <1>2, <1>3, <2>1, <2>2
<1>6. ASSUME NEW t \in Tech, ChoosesTech(t) PROVE IInv'
  <2> DEFINE f == [form EXCEPT !.tech = t]
  <2>1. f \in Form
    BY <1>1 DEF Form
  <2>2. Asks(f, Cleaned(net)) /\ t \in offer.tech
    BY <1>6 DEF ChoosesTech
  <2> HIDE DEF f
  <2> QED
    BY <1>2, <1>3, <2>1, <2>2
<1>7. ASSUME NEW b \in Bay, ChoosesBay(b) PROVE IInv'
  <2> DEFINE f == [form EXCEPT !.bay = b]
  <2>1. f \in Form
    BY <1>1 DEF Form
  <2>2. Asks(f, Cleaned(net)) /\ b \in offer.bay
    BY <1>7 DEF ChoosesBay
  <2> HIDE DEF f
  <2> QED
    BY <1>2, <1>3, <2>1, <2>2
<1>8. CASE TogglesAuto
  <2> DEFINE f == IF form.auto THEN [form EXCEPT !.auto = FALSE]
                  ELSE [form EXCEPT !.auto = TRUE, !.tech = None, !.bay = None]
  <2>1. f \in Form /\ f.kind = form.kind /\ f.start = form.start
        /\ f.tech \in {form.tech, None} /\ f.bay \in {form.bay, None}
    BY <1>1 DEF Form
  <2>2. \/ Asks(f, Cleaned(net))
        \/ /\ f.tech = form.tech /\ f.bay = form.bay
           /\ form' = f /\ UNCHANGED <<offer, basis, net>>
    BY <1>8 DEF TogglesAuto
  <2> HIDE DEF f
  <2>3. CASE Asks(f, Cleaned(net))
    BY <1>2, <1>3, <2>1, <2>3
  <2>4. CASE /\ f.tech = form.tech /\ f.bay = form.bay
             /\ form' = f /\ UNCHANGED <<offer, basis, net>>
    <3>1. f # None
      BY <2>1, DeskAssumption
    <3>2. OfferIsRight'
      BY <1>1, <2>4 DEF IInv, OfferIsRight, Right, Past, slotsOverlap, DayOf, world
    <3>3. ActiveAreAsked'
      BY <2>1, <2>4, <3>1 DEF IInv, ActiveAreAsked
    <3>4. SettledMatches'
      BY <1>1, <2>1, <2>4, <3>1 DEF IInv, SettledMatches, Settled, Everything
    <3>5. Unlisted'
      BY <1>1, <1>2, <2>1, <2>4, <3>1 DEF IInv, Unlisted
    <3> QED
      BY <1>1, <2>1, <2>4, <3>2, <3>3, <3>4, <3>5, DeskStep DEF IInv, Types
  <2> QED
    BY <2>2, <2>3, <2>4
<1> QED
  BY <1>4, <1>5, <1>6, <1>7, <1>8

\* The form opens, closes, and is sent.
LEMMA OpensKeeps ==
  ASSUME IInv, Opens
  PROVE  IInv'
<1>1. /\ form = None /\ form' = Blank /\ basis' = None /\ net' = net /\ posting' = posting
      /\ listed' \in {TRUE, listed}
      /\ offer' = IF listed' THEN [tech |-> Tech, bay |-> Bay] ELSE Nothing
      /\ UNCHANGED <<scene, world, holding>>
  BY DEF Opens
<1>2. Blank \in Form /\ Blank.kind = None /\ Blank.tech = None /\ Blank.bay = None
  BY DEF Blank, Form
<1>3. offer' \in Offer /\ listed' \in BOOLEAN
  BY <1>1 DEF Nothing, Offer, IInv, Types
<1>4. \A m \in net' : ~m.active
  BY <1>1 DEF IInv, ActiveAreAsked
<1>5. OfferIsRight' /\ ActiveAreAsked' /\ SettledMatches' /\ Unlisted'
  BY <1>1, <1>2, <1>4 DEF OfferIsRight, ActiveAreAsked, SettledMatches, Settled, Everything,
                          Unlisted
<1> QED
  BY <1>1, <1>2, <1>3, <1>5, DeskStep DEF IInv, Types

\* The form is closed, and no request counts any more.
LEMMA ShutsKeeps ==
  ASSUME IInv, Shuts, posting' \in BOOLEAN, UNCHANGED <<scene, world, holding, listed>>
  PROVE  IInv'
<1>1. form' = None /\ offer' = Nothing /\ basis' = None /\ net' = Cleaned(net)
  BY DEF Shuts
<1>2. \A m \in net' : m \in Answer /\ Answered(m) /\ ~m.active
  BY <1>1, CleanedAnswers
<1>3. OfferIsRight' /\ ActiveAreAsked' /\ SettledMatches' /\ Unlisted'
  BY <1>1, <1>2 DEF OfferIsRight, ActiveAreAsked, SettledMatches, Settled, Unlisted
<1>4. Nothing \in Offer
  BY DEF Nothing, Offer
<1> QED
  BY <1>1, <1>2, <1>3, <1>4, DeskStep DEF IInv, Types

\* Whether the form is under way matters to nothing else.
LEMMA PostingKeeps ==
  ASSUME IInv, posting' \in BOOLEAN,
         UNCHANGED <<scene, world, form, listed, offer, basis, net, holding>>
  PROVE  IInv'
BY DEF IInv, Types, world, holding, Answered, Right, Past, OfferIsRight, ActiveAreAsked,
       SettledMatches, Settled, Everything, Unlisted, HoldIsWhole, DayOf, slotsOverlap

\* The form is cancelled, submitted, and accepted or refused.
LEMMA SubmissionKeeps ==
  ASSUME IInv, Cancels \/ Submits \/ \E ok \in BOOLEAN : Posted(ok)
  PROVE  IInv'
<1>1. posting' \in BOOLEAN
  BY DEF Cancels, Submits, Posted, IInv, Types
<1> QED
  BY <1>1, ShutsKeeps, PostingKeeps DEF Cancels, Submits, Posted

-----------------------------------------------------------------------------
(* The answers.                                                             *)

\* One answer of request m comes, which makes it n.
LEMMA ReplaceKeeps ==
  ASSUME IInv, NEW m \in net, NEW n \in Answer, Replace(m, n), Answered(n),
         n.active = m.active, n.kind = m.kind, n.start = m.start,
         UNCHANGED <<scene, world, form, listed, offer, basis, posting, holding>>
  PROVE  IInv'
<1>1. net' = (net \ {m}) \cup {n}
  BY DEF Replace
<1>2. \A p \in net' : p \in Answer /\ Answered(p)
  BY <1>1 DEF IInv, Types
<1>3. OfferIsRight'
  BY DEF IInv, OfferIsRight, Right, Past, slotsOverlap, DayOf, world
<1>4. ActiveAreAsked' /\ SettledMatches' /\ Unlisted'
  BY <1>1 DEF IInv, ActiveAreAsked, SettledMatches, Settled, Everything, Unlisted
<1> QED
  BY <1>1, <1>2, <1>3, <1>4, DeskStep DEF IInv, Types

\* findAvailable offers no technician that an appointment has.
LEMMA ServeTechsKeeps ==
  ASSUME IInv, NEW m \in net, ServeTechs(m)
  PROVE  IInv'
<1> DEFINE T == ListAvailableTechnicians(m.start, m.start + Duration[m.kind], m.kind)
           n == [m EXCEPT !.waits = @ \ {"techs"}, !.tech = T]
<1>1. m \in Answer /\ Answered(m)
  BY DEF IInv, Types
<1>2. T \subseteq Tech /\ T \subseteq Skilled[m.kind]
  BY DEF ListAvailableTechnicians, findAvailable
<1>3. \A a \in Booking : slotsOverlap(a, m.start, m.start + Duration[m.kind])
                         /\ book[a] = "Scheduled" => Plan[a].tech \notin T
  BY DEF ListAvailableTechnicians, findAvailable, slotsOverlap
<1> HIDE DEF T
<1>4. /\ n \in Answer /\ n.tech = T /\ n.bay = m.bay /\ n.kind = m.kind /\ n.start = m.start
      /\ n.booked = m.booked /\ n.noted = m.noted /\ n.active = m.active
  BY <1>1, <1>2 DEF Answer
<1>5. /\ Replace(m, n)
      /\ UNCHANGED <<scene, world, form, listed, offer, basis, posting, holding>>
  BY DEF ServeTechs, T
<1> HIDE DEF n
<1>6. Answered(n)
  BY <1>1, <1>2, <1>3, <1>4 DEF Answered, Right
<1> QED
  BY <1>4, <1>5, <1>6, ReplaceKeeps

\* The range of a day holds every point of it.
LEMMA DayHoldsItsPoints ==
  ASSUME NEW x \in Int, NEW d \in Int, x \div DayLength = d
  PROVE  x >= getDayRange(d).start /\ x <= getDayRange(d).end
<1>1. DayLength \in Nat \ {0}
  BY DeskAssumption
<1> QED
  BY <1>1, SMTT(30) DEF getDayRange

\* The occupied slots of a bay rule it out, if they start on the day asked for.
LEMMA ServeBayKeeps ==
  ASSUME IInv, NEW m \in net, NEW b \in Bay, ServeBay(m, b)
  PROVE  IInv'
<1> DEFINE s == m.start
           e == m.start + Duration[m.kind]
           Y == IF \E a \in GetBayOccupiedSlots(b, DayOf(s)) : slotsOverlap(a, s, e)
                THEN m.bay ELSE m.bay \cup {b}
           n == [m EXCEPT !.waits = @ \ {b}, !.bay = Y]
<1>1. m \in Answer /\ Answered(m) /\ noted \subseteq Booking
  BY DEF IInv, Types
<1>2. Y \subseteq Bay
  BY <1>1 DEF Answer
<1>3. ASSUME NEW a \in Booking, slotsOverlap(a, s, e), a \in m.noted, a \in noted,
             Plan[a].start \div DayLength = DayOf(s)
      PROVE  Plan[a].bay \notin Y
  <2>1. Plan[a].bay \notin m.bay
    BY <1>1, <1>3 DEF Answered, Right
  <2>2. CASE Plan[a].bay = b
    <3>1. Plan[a].start \in Int /\ DayOf(s) \in Int
      <4>1. s \in Int /\ Zone \in Int /\ DayLength \in Nat \ {0} /\ Plan[a].start \in Int
        BY <1>1, DeskAssumption DEF Answer
      <4>2. \A x \in Int : x \div DayLength \in Int
        BY <4>1
      <4> QED
        BY <4>1, <4>2 DEF DayOf
    <3>2. a \in GetBayOccupiedSlots(b, DayOf(s))
      BY <1>3, <2>2, <3>1, DayHoldsItsPoints DEF GetBayOccupiedSlots
    <3> QED
      BY <1>3, <2>1, <3>2
  <2> QED
    BY <2>1, <2>2
<1> HIDE DEF Y
<1>4. /\ n \in Answer /\ n.tech = m.tech /\ n.bay = Y /\ n.kind = m.kind /\ n.start = m.start
      /\ n.booked = m.booked /\ n.noted = m.noted /\ n.active = m.active
  BY <1>1, <1>2 DEF Answer
<1>5. /\ Replace(m, n)
      /\ UNCHANGED <<scene, world, form, listed, offer, basis, posting, holding>>
  BY <1>1 DEF ServeBay, Y, Answer
<1> HIDE DEF n
<1>6. Answered(n)
  BY <1>1, <1>3, <1>4 DEF Answered, Right
<1> QED
  BY <1>4, <1>5, <1>6, ReplaceKeeps

\* All answers are there: they are for the form as it is, if they count.
LEMMA ArrivesKeeps ==
  ASSUME IInv, NEW m \in net, AvailabilityArrives(m)
  PROVE  IInv'
<1> DEFINE f == [form EXCEPT !.tech = Kept(@, m.tech), !.bay = Kept(@, m.bay)]
<1>1. /\ m \in Answer /\ Answered(m)
      /\ UNCHANGED <<scene, world, listed, posting, holding>>
  BY DEF AvailabilityArrives, IInv, Types
<1>2. CASE ~m.active
  <2>1. net' = net \ {m} /\ UNCHANGED <<form, offer, basis>>
    BY <1>2 DEF AvailabilityArrives
  <2>2. OfferIsRight'
    BY <1>1, <2>1 DEF IInv, OfferIsRight, Right, Past, slotsOverlap, DayOf, world
  <2>3. ActiveAreAsked' /\ SettledMatches' /\ Unlisted'
    BY <1>1, <1>2, <2>1 DEF IInv, ActiveAreAsked, SettledMatches, Settled, Everything, Unlisted
  <2>4. \A p \in net' : Answered(p)
    BY <2>1 DEF IInv
  <2> QED
    BY <1>1, <2>1, <2>2, <2>3, <2>4, DeskStep DEF IInv, Types
<1>3. CASE m.active
  <2>1. /\ form # None /\ form \in Form /\ m.kind = form.kind /\ m.start = form.start
        /\ m.kind # None /\ m.start # None
    BY <1>1, <1>3, DeskAssumption DEF IInv, Types, ActiveAreAsked, Answer
  <2>2. listed
    BY <2>1 DEF IInv, Unlisted
  <2>3. /\ f \in Form /\ f.kind = m.kind /\ f.start = m.start
        /\ f.tech \in m.tech \cup {None} /\ f.bay \in m.bay \cup {None}
    BY <2>1 DEF Form, Kept
  <2>4. /\ form' = f /\ offer' = [tech |-> m.tech, bay |-> m.bay] /\ basis' = Basis(m)
        /\ net' = IF form' = form THEN net \ {m}
                  ELSE Cleaned(net \ {m}) \cup {Request(form')}
    BY <1>3 DEF AvailabilityArrives
  <2>5. basis' \in Ground /\ offer' \in Offer
    BY <1>1, <2>4 DEF Basis, Ground, Answer, Offer
  <2>6. OfferIsRight'
    <3>1. /\ basis'.kind = m.kind /\ basis'.start = m.start /\ basis'.booked = m.booked
          /\ basis'.noted = m.noted /\ offer'.tech = m.tech /\ offer'.bay = m.bay
      BY <2>4 DEF Basis
    <3>2. book' = book /\ noted' = noted
      BY <1>1 DEF world
    <3> QED
      BY <1>1, <3>1, <3>2 DEF OfferIsRight, Answered, Right, Past, slotsOverlap, DayOf
  <2> HIDE DEF f
  <2>7. CASE form' = form
    <3>1. net' = net \ {m}
      BY <2>4, <2>7
    <3>2. \A p \in net' : Answered(p)
      BY <3>1 DEF IInv
    <3>3. ActiveAreAsked'
      BY <2>7, <3>1 DEF IInv, ActiveAreAsked
    <3>4. SettledMatches'
      <4>1. basis' # None /\ basis'.kind = m.kind /\ basis'.start = m.start
        BY <2>4, <2>5, DeskAssumption DEF Basis
      <4>2. offer'.tech = m.tech /\ offer'.bay = m.bay
        BY <2>4
      <4> QED
        BY <2>3, <2>4, <4>1, <4>2 DEF SettledMatches
    <3>5. Unlisted'
      BY <1>1, <2>2 DEF Unlisted
    <3> QED
      BY <1>1, <2>3, <2>4, <2>5, <2>6, <3>1, <3>2, <3>3, <3>4, <3>5, DeskStep DEF IInv, Types
  <2>8. CASE form' # form
    <3>1. net \ {m} \in SUBSET net /\ net' = Cleaned(net \ {m}) \cup {Request(f)}
      BY <2>4, <2>8
    <3> QED
      BY <1>1, <2>1, <2>2, <2>3, <2>4, <2>5, <2>6, <3>1, AskedKeeps
  <2> QED
    BY <2>7, <2>8
<1> QED
  BY <1>2, <1>3

\* An answer fails: if it counts, everything there is is offered.
LEMMA FailsKeeps ==
  ASSUME IInv, NEW m \in net, AvailabilityFails(m)
  PROVE  IInv'
<1>1. /\ net' = net \ {m} /\ form' = form
      /\ UNCHANGED <<scene, world, listed, posting, holding>>
      /\ IF m.active THEN offer' = Everything /\ basis' = None ELSE UNCHANGED <<offer, basis>>
  BY DEF AvailabilityFails
<1>2. \A p \in net' : Answered(p)
  BY <1>1 DEF IInv
<1>3. Everything' = Everything /\ Everything \in Offer
  BY <1>1 DEF Everything, Nothing, Offer
<1>4. OfferIsRight'
  BY <1>1 DEF IInv, OfferIsRight, Right, Past, slotsOverlap, DayOf, world
<1>5. ActiveAreAsked'
  BY <1>1 DEF IInv, ActiveAreAsked
<1>6. m.active => listed
  BY DeskAssumption DEF IInv, Types, Answer, ActiveAreAsked, Unlisted
<1>7. SettledMatches'
  BY <1>1, <1>3, <1>6 DEF IInv, Types, Form, SettledMatches, Settled, Everything
<1>8. Unlisted'
  BY <1>1, <1>6 DEF IInv, Unlisted
<1> QED
  BY <1>1, <1>2, <1>3, <1>4, <1>5, <1>7, <1>8, DeskStep DEF IInv, Types

-----------------------------------------------------------------------------
(* The theorems.                                                            *)

\* Every step keeps the invariant.
LEMMA NextInv == IInv /\ [Next]_vars => IInv'
<1> SUFFICES ASSUME IInv, [Next]_vars PROVE IInv'
  OBVIOUS
<1>1. ASSUME NEW c \in Customer, NEW S \in Holdable, CreateHold(c, S) PROVE IInv'
  BY <1>1, CreateHoldKeeps, HoldingStep DEF CreateHold
<1>2. ASSUME NEW h \in holds, HoldExpires(h) PROVE IInv'
  BY <1>2, HoldExpiresKeeps, HoldingStep DEF HoldExpires
<1>3. ASSUME NEW m \in net,
             \/ ServeTechs(m) \/ AvailabilityArrives(m) \/ AvailabilityFails(m)
             \/ \E b \in Bay : ServeBay(m, b)
      PROVE  IInv'
  BY <1>3, ServeTechsKeeps, ServeBayKeeps, ArrivesKeeps, FailsKeeps
<1>4. CASE UNCHANGED vars
  <2>1. scene' = scene /\ UNCHANGED <<world, desk>> /\ HoldIsWhole'
        /\ holds' \subseteq Customer \X Holdable
    BY <1>4 DEF vars, holding, IInv, Types, HoldIsWhole
  <2> QED
    BY <2>1, HoldingStep
<1> QED
  BY <1>1, <1>2, <1>3, <1>4, EditsKeep, OpensKeeps, SubmissionKeeps, OthersKeep
     DEF Next, OthersStep

\* The invariant holds in every state.
LEMMA Invariance == Spec => []IInv
<1> QED
  BY InitInv, NextInv, PTL DEF Spec

\* create-hold: a hold is of all its resources, for any number of customers.
THEOREM HoldsAreWhole == Spec => []HoldIsWhole
<1>1. IInv => HoldIsWhole
  BY DEF IInv
<1> QED
  BY <1>1, Invariance, PTL

\* refreshAvailability: a settled form offers what was answered for what it shows,
\* whatever order answers come in.
THEOREM OffersAreFree == Spec => []OfferIsFree
<1>1. IInv => OfferIsFree
  BY DEF IInv, OfferIsFree, SettledMatches, OfferIsRight, Right, Meeting, Settled
<1> QED
  BY <1>1, Invariance, PTL

(***************************************************************************)
(* A closed form.                                                          *)
(***************************************************************************)
ClosedIsEmpty == form = None => offer = Nothing

\* What opens, changes or closes the form leaves no offer behind a closed one.
LEMMA ClosedStep == IInv /\ ClosedIsEmpty /\ [Next]_vars => ClosedIsEmpty'
<1> SUFFICES ASSUME IInv, ClosedIsEmpty, [Next]_vars, form' = None
             PROVE  offer' = Nothing
  BY DEF ClosedIsEmpty, Nothing
<1>1. /\ form \in Form \cup {None} /\ None \notin Form
      /\ None \notin Tech \cup Bay \cup Kind \cup Times
  BY DeskAssumption DEF IInv, Types
<1>2. CASE UNCHANGED <<form, offer>>
  BY <1>2 DEF ClosedIsEmpty
<1>3. CASE Shuts
  BY <1>3 DEF Shuts
<1>4. CASE Opens
  <2>1. Blank \in Form
    BY DEF Blank, Form
  <2> QED
    BY <1>1, <1>4, <2>1 DEF Opens
<1>5. ASSUME NEW f \in Form, form' = f
      PROVE  offer' = Nothing
  BY <1>1, <1>5
<1>6. ASSUME NEW m \in net, AvailabilityArrives(m), m.active
      PROVE  form' \in Form
  <2>1. form \in Form
    BY <1>1, <1>6 DEF IInv, ActiveAreAsked
  <2>2. Kept(form.tech, m.tech) \in Tech \cup {None} /\ Kept(form.bay, m.bay) \in Bay \cup {None}
    BY <2>1 DEF Kept, Form
  <2>3. form' = [form EXCEPT !.tech = Kept(@, m.tech), !.bay = Kept(@, m.bay)]
    BY <1>6 DEF AvailabilityArrives
  <2> QED
    BY <2>1, <2>2, <2>3 DEF Form
<1>7. ASSUME NEW m \in net, AvailabilityFails(m), m.active
      PROVE  form' \in Form
  BY <1>1, <1>7 DEF IInv, ActiveAreAsked, AvailabilityFails
<1>8. CASE \/ TogglesAuto
           \/ \E k \in Kind : ChoosesKind(k)
           \/ \E s \in Times \cup {None} : PicksTime(s)
           \/ \E t \in Tech : ChoosesTech(t)
           \/ \E b \in Bay : ChoosesBay(b)
  <2>1. form \in Form
    BY <1>1, <1>8 DEF TogglesAuto, ChoosesKind, PicksTime, ChoosesTech, ChoosesBay, Edits
  <2>2. form' \in Form
    <3>1. ASSUME NEW k \in Kind, ChoosesKind(k) PROVE form' \in Form
      BY <2>1, <3>1 DEF ChoosesKind, Asks, Form
    <3>2. ASSUME NEW s \in Times \cup {None}, PicksTime(s) PROVE form' \in Form
      BY <2>1, <3>2 DEF PicksTime, Asks, Form
    <3>3. ASSUME NEW t \in Tech, ChoosesTech(t) PROVE form' \in Form
      BY <2>1, <3>3 DEF ChoosesTech, Asks, Form
    <3>4. ASSUME NEW b \in Bay, ChoosesBay(b) PROVE form' \in Form
      BY <2>1, <3>4 DEF ChoosesBay, Asks, Form
    <3>5. CASE TogglesAuto
      BY <2>1, <3>5 DEF TogglesAuto, Asks, Form
    <3> QED
      BY <1>8, <3>1, <3>2, <3>3, <3>4, <3>5
  <2> QED
    BY <1>5, <2>2
<1>9. ASSUME NEW m \in net,
             \/ ServeTechs(m) \/ AvailabilityArrives(m) \/ AvailabilityFails(m)
             \/ \E b \in Bay : ServeBay(m, b)
      PROVE  offer' = Nothing
  <2>1. CASE UNCHANGED <<form, offer>>
    BY <1>2, <2>1
  <2>2. CASE ~ UNCHANGED <<form, offer>>
    BY <1>5, <1>6, <1>7, <1>9, <2>2 DEF ServeTechs, ServeBay, AvailabilityArrives, AvailabilityFails
  <2> QED
    BY <2>1, <2>2
<1>10. CASE \/ Cancels \/ Submits \/ \E ok \in BOOLEAN : Posted(ok)
  BY <1>2, <1>3, <1>10 DEF Cancels, Submits, Posted
<1>11. CASE \/ \E a \in Booking : \/ Booked(a) \/ Noted(a) \/ Forgotten(a)
                                  \/ \E s \in {"Completed", "Cancelled"} : Ended(a, s)
            \/ \E c \in Customer, S \in Holdable : CreateHold(c, S)
            \/ \E h \in holds : HoldExpires(h)
            \/ UNCHANGED vars
  BY <1>2, <1>11 DEF Booked, Noted, Forgotten, Ended, CreateHold, HoldExpires, vars, desk
<1> QED
  BY <1>4, <1>8, <1>9, <1>10, <1>11 DEF Next

\* Every variable stays in its range, and a form that is closed offers nothing
\* and waits for no answer (AppointmentModal resets itself when it closes).
THEOREM DeskTypes == Spec => []TypeOK
<1>1. Init => ClosedIsEmpty
  BY DEF Init, ClosedIsEmpty
<1>2. IInv /\ ClosedIsEmpty => TypeOK
  BY DEF IInv, Types, Offer, ActiveAreAsked, ClosedIsEmpty, TypeOK
<1> QED
  BY <1>1, <1>2, ClosedStep, Invariance, PTL DEF Spec
=============================================================================
