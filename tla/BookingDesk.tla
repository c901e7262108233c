---------------------------- MODULE BookingDesk -----------------------------
(***************************************************************************)
(* The form that books an appointment, and the answers it is filled from;  *)
(* and the holds of technicians and bays, which no form uses.              *)
(*                                                                         *)
(* Whenever the type, the time, the technician or the bay of the form      *)
(* changes, an effect asks anew who is free: technicians from the database,*)
(* for the interval, and each bay from the occupancy in Redis, for a day.  *)
(* It waits for all of the answers; the clean-up of the effect before drops*)
(* its flag "active".  Meanwhile the worker books for other customers.     *)
(*                                                                         *)
(* Times are points on a line of days; users, vehicles, wording and the    *)
(* panel that lists occupied slots are left out.                           *)
(***************************************************************************)
EXTENDS Integers, FiniteSets

CONSTANTS
  Tech, Bay, Kind,  \* technicians, bays, service types
  Booking,          \* appointments that others book,
  Plan,             \* each with its start, end, tech and bay
  Skilled,          \* technicians with the skill for a service type
  Duration,         \* of a service type
  Times,            \* the starts that the user picks from
  DayLength,
  Zone,             \* what the user's clock is ahead of UTC
  Customer,         \* who asks for holds
  Scenes,           \* parts of the system that act in one behaviour
  MaxAsked,         \* bound on availability requests under way at a change
  None

\* The fields of the form.
Form == [kind : Kind \cup {None}, start : Times \cup {None}, tech : Tech \cup {None},
         bay : Bay \cup {None}, auto : BOOLEAN]

\* What an offer was answered for.
Ground == [kind : Kind, start : Times, booked : SUBSET Booking, noted : SUBSET Booking]

ASSUME DeskAssumption ==
  /\ \A a \in Booking : /\ Plan[a].start \in Int /\ Plan[a].end \in Int
                       /\ Plan[a].tech \in Tech /\ Plan[a].bay \in Bay
  /\ Skilled \in [Kind -> SUBSET Tech] /\ Duration \in [Kind -> Nat \ {0}]
  /\ Times \subseteq Int /\ DayLength \in Nat \ {0} /\ Zone \in Int
  /\ None \notin Tech \cup Bay \cup Kind \cup Times \cup Customer
  /\ None \notin {"Scheduled", "Completed", "Cancelled"}
  /\ None \notin Form \cup Ground \cup (Customer \X SUBSET (Tech \cup Bay))
  /\ Scenes \subseteq {"desk", "holds"} /\ MaxAsked \in Nat

VARIABLES
  scene,
  book,     \* status of the others' appointments in the database
  noted,    \* those whose occupancy is in Redis
  form,     \* the fields of the form, None when there is no form
  listed,   \* the lists of what there is have been loaded
  offer,    \* the technicians and bays that can be chosen
  basis,    \* the request whose answer the offer is, None if it is every one
  net,      \* availability requests under way
  posting,  \* the submitted form is under way
  held,     \* the hold in Redis of each technician and bay
  holds     \* holds that were granted and have not ended

world == <<book, noted>>
desk == <<form, listed, offer, basis, net, posting>>
holding == <<held, holds>>
vars == <<scene, world, desk, holding>>

Blank == [kind |-> None, start |-> None, tech |-> None, bay |-> None, auto |-> FALSE]
Nothing == [tech |-> {}, bay |-> {}]
Everything == IF listed THEN [tech |-> Tech, bay |-> Bay] ELSE Nothing

Init ==
  /\ scene \in Scenes
  /\ book = [a \in Booking |-> None] /\ noted = {}
  /\ form = None /\ listed = FALSE /\ offer = Nothing /\ basis = None
  /\ net = {} /\ posting = FALSE
  /\ held = [r \in Tech \cup Bay |-> None] /\ holds = {}

-----------------------------------------------------------------------------
(* The answers.                                                             *)

slotsOverlap(a, s, e) == Plan[a].start < e /\ Plan[a].end > s

\* Any appointment that is not cancelled keeps its technician, one that is
\* completed too.
findAvailable(s, e) ==
  {t \in Tech : \A a \in Booking :
     book[a] \in {"Scheduled", "Completed"} /\ Plan[a].start < e /\ Plan[a].end > s
       => Plan[a].tech # t}

ListAvailableTechnicians(s, e, k) == findAvailable(s, e) \cap Skilled[k]

\* The day of the user's clock, as a day of UTC.
DayOf(s) == (s + Zone) \div DayLength

getDayRange(d) == [start |-> d * DayLength, end |-> (d + 1) * DayLength - 1]

\* The members of the sorted set of the bay whose score is in the range.
GetBayOccupiedSlots(b, d) ==
  {a \in noted : Plan[a].bay = b /\ Plan[a].start >= getDayRange(d).start
                                 /\ Plan[a].start <= getDayRange(d).end}

-----------------------------------------------------------------------------
(* The form.                                                                *)

Request(f) ==
  [kind |-> f.kind, start |-> f.start, active |-> TRUE,
   waits |-> {"techs"} \cup Bay, tech |-> {}, bay |-> {},
   booked |-> {a \in Booking : book[a] = "Scheduled"}, noted |-> noted]

\* The clean-up of the effect.
Cleaned(S) == {[m EXCEPT !.active = FALSE] : m \in S}

\* The effect for form f.  Without a type or a time all are offered; otherwise
\* the offer stays until the answer is there.
Asks(f, others) ==
  /\ form' = f
  /\ IF f.kind = None \/ f.start = None
     THEN net' = others /\ offer' = Everything /\ basis' = None
     ELSE net' = others \cup {Request(f)} /\ UNCHANGED <<offer, basis>>

\* The user does something in an open form, which is none while the lists load.
Edits ==
  /\ form # None
  /\ Cardinality(net) <= MaxAsked
  /\ UNCHANGED <<scene, world, listed, posting, holding>>

\* The lists, of service types too, are loaded; if that fails, those of the last
\* time are there.
Opens ==
  /\ scene = "desk" /\ form = None /\ Cardinality(net) <= MaxAsked
  /\ listed' \in {TRUE, listed}
  /\ form' = Blank /\ basis' = None
  /\ offer' = IF listed' THEN [tech |-> Tech, bay |-> Bay] ELSE Nothing
  /\ UNCHANGED <<scene, world, net, posting, holding>>

ChoosesKind(k) ==
  /\ Edits /\ listed /\ form.kind # k
  /\ Asks([form EXCEPT !.kind = k], Cleaned(net))

PicksTime(s) == Edits /\ form.start # s /\ Asks([form EXCEPT !.start = s], Cleaned(net))

ChoosesTech(t) ==
  /\ Edits /\ ~form.auto /\ t \in offer.tech \ {form.tech}
  /\ Asks([form EXCEPT !.tech = t], Cleaned(net))

ChoosesBay(b) ==
  /\ Edits /\ ~form.auto /\ b \in offer.bay \ {form.bay}
  /\ Asks([form EXCEPT !.bay = b], Cleaned(net))

\* Checked, the box clears both choices.  The effect runs if they change.
TogglesAuto ==
  /\ Edits
  /\ LET f == IF form.auto THEN [form EXCEPT !.auto = FALSE]
              ELSE [form EXCEPT !.auto = TRUE, !.tech = None, !.bay = None]
     IN IF f.tech = form.tech /\ f.bay = form.bay
        THEN form' = f /\ UNCHANGED <<offer, basis, net>>
        ELSE Asks(f, Cleaned(net))

\* The form is reset when it closes.
Shuts == /\ form' = None /\ offer' = Nothing /\ basis' = None /\ net' = Cleaned(net)

Cancels ==
  /\ form # None /\ ~posting /\ Shuts
  /\ UNCHANGED <<scene, world, listed, posting, holding>>

\* Every field has a value.  The button does not wait for the availability.
Submits ==
  /\ form # None /\ ~posting
  /\ form.kind # None /\ form.start # None
  /\ form.auto \/ (form.tech # None /\ form.bay # None)
  /\ posting' = TRUE
  /\ UNCHANGED <<scene, world, form, listed, offer, basis, net, holding>>

\* The request is accepted, or it is refused and the form stays.
Posted(ok) ==
  /\ posting /\ posting' = FALSE
  /\ IF ok THEN Shuts ELSE UNCHANGED <<form, offer, basis, net>>
  /\ UNCHANGED <<scene, world, listed, holding>>

-----------------------------------------------------------------------------
(* The requests of one effect are answered one by one.                      *)

Replace(m, n) == net' = (net \ {m}) \cup {n}

ServeTechs(m) ==
  /\ m \in net /\ "techs" \in m.waits
  /\ Replace(m, [m EXCEPT !.waits = @ \ {"techs"},
       !.tech = ListAvailableTechnicians(m.start, m.start + Duration[m.kind], m.kind)])
  /\ UNCHANGED <<scene, world, form, listed, offer, basis, posting, holding>>

ServeBay(m, b) ==
  /\ m \in net /\ b \in m.waits
  /\ Replace(m, [m EXCEPT !.waits = @ \ {b},
       !.bay = IF \E a \in GetBayOccupiedSlots(b, DayOf(m.start)) :
                    slotsOverlap(a, m.start, m.start + Duration[m.kind])
               THEN @ ELSE @ \cup {b}])
  /\ UNCHANGED <<scene, world, form, listed, offer, basis, posting, holding>>

\* What an offer says of its request.
Basis(m) == [kind |-> m.kind, start |-> m.start, booked |-> m.booked, noted |-> m.noted]

Kept(x, S) == IF x \in S THEN x ELSE None

\* Deliberate fault: the flag is not asked for.
WrongAvailabilityArrives(m) ==
  /\ m \in net /\ m.waits = {} /\ form # None
  /\ offer' = [tech |-> m.tech, bay |-> m.bay]
  /\ basis' = Basis(m)
  /\ form' = [form EXCEPT !.tech = Kept(@, m.tech), !.bay = Kept(@, m.bay)]
  /\ net' = IF form' = form THEN net \ {m}
            ELSE Cleaned(net \ {m}) \cup {Request(form')}
  /\ UNCHANGED <<scene, world, listed, posting, holding>>

\* All answers of an effect are there.  A choice that is not among them is
\* cleared, which runs the effect again.
AvailabilityArrives(m) ==
  /\ m \in net /\ m.waits = {}
  /\ IF ~m.active THEN net' = net \ {m} /\ UNCHANGED <<form, offer, basis>>
     ELSE /\ offer' = [tech |-> m.tech, bay |-> m.bay]
          /\ basis' = Basis(m)
          /\ form' = [form EXCEPT !.tech = Kept(@, m.tech), !.bay = Kept(@, m.bay)]
          /\ net' = IF form' = form THEN net \ {m}
                    ELSE Cleaned(net \ {m}) \cup {Request(form')}
  /\ UNCHANGED <<scene, world, listed, posting, holding>>

\* One of them fails: every technician and bay is offered.
AvailabilityFails(m) ==
  /\ m \in net /\ m.waits # {}
  /\ net' = net \ {m}
  /\ IF m.active THEN offer' = Everything /\ basis' = None
     ELSE UNCHANGED <<offer, basis>>
  /\ UNCHANGED <<scene, world, form, listed, posting, holding>>

-----------------------------------------------------------------------------
(* The appointments of others: booked, noted in Redis, ended, forgotten.    *)

Booked(a) ==
  /\ scene = "desk" /\ book[a] = None
  /\ book' = [book EXCEPT ![a] = "Scheduled"]
  /\ UNCHANGED <<scene, noted, desk, holding>>

Noted(a) ==
  /\ book[a] = "Scheduled" /\ a \notin noted
  /\ noted' = noted \cup {a}
  /\ UNCHANGED <<scene, book, desk, holding>>

Ended(a, s) ==
  /\ book[a] = "Scheduled"
  /\ book' = [book EXCEPT ![a] = s]
  /\ UNCHANGED <<scene, noted, desk, holding>>

Forgotten(a) ==
  /\ book[a] # "Scheduled" /\ a \in noted
  /\ noted' = noted \ {a}
  /\ UNCHANGED <<scene, book, desk, holding>>

-----------------------------------------------------------------------------
(* Holds, of a technician, a bay or one of each.                            *)

Holdable == {S \in SUBSET (Tech \cup Bay) :
               /\ S # {} /\ Cardinality(S \cap Tech) <= 1 /\ Cardinality(S \cap Bay) <= 1}

\* Deliberate fault: it is enough that one of the keys is free.
WrongCreateHold(c, S) ==
  /\ scene = "holds" /\ S \in Holdable /\ \E r \in S : held[r] = None
  /\ held' = [r \in Tech \cup Bay |-> IF r \in S THEN <<c, S>> ELSE held[r]]
  /\ holds' = holds \cup {<<c, S>>}
  /\ UNCHANGED <<scene, world, desk>>

\* One script tests every key, and then sets every key; otherwise a conflict.
setMultipleIfNotExists(S, v) ==
  /\ \A r \in S : held[r] = None
  /\ held' = [r \in Tech \cup Bay |-> IF r \in S THEN v ELSE held[r]]

CreateHold(c, S) ==
  /\ scene = "holds" /\ S \in Holdable
  /\ setMultipleIfNotExists(S, <<c, S>>)
  /\ holds' = holds \cup {<<c, S>>}
  /\ UNCHANGED <<scene, world, desk>>

\* The keys of a hold expire together.
HoldExpires(h) ==
  /\ h \in holds /\ holds' = holds \ {h}
  /\ held' = [r \in Tech \cup Bay |-> IF held[r] = h THEN None ELSE held[r]]
  /\ UNCHANGED <<scene, world, desk>>

-----------------------------------------------------------------------------
Next ==
  \/ Opens \/ TogglesAuto \/ Cancels \/ Submits
  \/ \E ok \in BOOLEAN : Posted(ok)
  \/ \E k \in Kind : ChoosesKind(k)
  \/ \E s \in Times \cup {None} : PicksTime(s)
  \/ \E t \in Tech : ChoosesTech(t)
  \/ \E b \in Bay : ChoosesBay(b)
  \/ \E m \in net : \/ ServeTechs(m) \/ AvailabilityArrives(m) \/ AvailabilityFails(m)
                    \/ \E b \in Bay : ServeBay(m, b)
  \/ \E a \in Booking : \/ Booked(a) \/ Noted(a) \/ Forgotten(a)
                        \/ \E s \in {"Completed", "Cancelled"} : Ended(a, s)
  \/ \E c \in Customer, S \in Holdable : CreateHold(c, S)
  \/ \E h \in holds : HoldExpires(h)

Spec == Init /\ [][Next]_vars

-----------------------------------------------------------------------------
(* Properties.                                                              *)

TypeOK ==
  /\ book \in [Booking -> {None, "Scheduled", "Completed", "Cancelled"}]
  /\ noted \subseteq Booking
  /\ form \in Form \cup {None} /\ basis \in Ground \cup {None}
  /\ offer \in [tech : SUBSET Tech, bay : SUBSET Bay]
  /\ listed \in BOOLEAN /\ posting \in BOOLEAN
  /\ form = None => offer = Nothing /\ ~\E m \in net : m.active

\* Appointments that meet the interval of the form.
Meeting == {a \in Booking : slotsOverlap(a, form.start, form.start + Duration[form.kind])}

\* What the form offers, when no answer for it is under way.
Settled == form # None /\ ~\E m \in net : m.active

\* Whatever order answers come in, a settled form offers either everything, after
\* a failure or for want of a type and a time, or what was answered for the very
\* type and time it shows: technicians with the skill, not booked when it asked,
\* and bays whose occupancy was noted by then, if it starts on the day asked for.
\* What is chosen is among them.
OfferIsFree ==
  Settled =>
    /\ form.tech \in offer.tech \cup {None} /\ form.bay \in offer.bay \cup {None}
    /\ IF basis = None THEN offer = Everything
       ELSE /\ basis.kind = form.kind /\ basis.start = form.start
            /\ offer.tech \subseteq Skilled[form.kind]
            /\ \A a \in Meeting :
                 /\ a \in basis.booked /\ book[a] = "Scheduled" => Plan[a].tech \notin offer.tech
                 /\ /\ a \in basis.noted \cap noted
                    /\ Plan[a].start \div DayLength = DayOf(form.start)
                    => Plan[a].bay \notin offer.bay

\* The same of bays on whatever day their occupancy starts.
BaysAreFree ==
  Settled /\ basis # None =>
    \A a \in Meeting : a \in basis.noted \cap noted => Plan[a].bay \notin offer.bay

\* Who was told that a technician and a bay are held has both of them until the
\* hold ends, whoever else asked for one of the two.
HoldIsWhole == \A h \in holds : \A r \in h[2] : held[r] = h
=============================================================================
