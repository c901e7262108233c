------------------------------- MODULE Console -------------------------------
(***************************************************************************)
(* A window of the web client: who is signed in and for which tenant, the  *)
(* dashboard with its table, and the requests that fill the table or write *)
(* for it.                                                                 *)
(*                                                                         *)
(* All windows of the browser share one local storage, from which every    *)
(* request takes its token and its tenant when it is sent; what the window *)
(* shows comes from its own React state.  Two effects fill the table of    *)
(* appointments: one loads the list, one asks for the active appointments  *)
(* again and again and merges them in.  React runs the clean-up of an      *)
(* effect, which drops its flag "active", before it runs the effect anew.  *)
(*                                                                         *)
(* A table shows rows of one tab; the tabs without polling behave alike    *)
(* and one stands for them.  Forms, columns, roles and pages are left out, *)
(* and so are accounts without a tenant.                                   *)
(*                                                                         *)
(* The variable strayed is auxiliary.                                      *)
(***************************************************************************)
EXTENDS Naturals, FiniteSets

CONSTANTS
  Tenant,
  Technician, Appointment,  \* rows
  Home,        \* tenant of each row
  SuperAdmin,  \* who signs in is a super admin
  Scenes,      \* what the user does in one behaviour, and the rows there are
  MaxReads,    \* bound on reads under way when the user acts or the interval ends
  MaxUpsets    \* bound on upsets

None == "none"

Row == Technician \cup Appointment

ASSUME ConsoleAssumption ==
  /\ Home \in [Row -> Tenant] /\ None \notin Tenant
  /\ SuperAdmin \in BOOLEAN
  /\ MaxReads \in Nat /\ MaxUpsets \in Nat

VARIABLES
  storage,   \* localStorage: the tenant the token speaks for, and tenant_id
  session,   \* the state of AuthProvider: signed in or not, and tenant_id
  tab, loading, error,
  data,      \* the rows of the table, with the status they show
  net,       \* requests under way, and answers on their way back
  status,    \* of each row, on the server
  upsets,    \* requests lost, and changes made by other windows, so far
  scene,     \* which of the scenes this behaviour is
  strayed    \* a request of the present effects took another tenant than shown

window == <<session, tab, loading, error, data>>
vars == <<storage, window, net, status, upsets, scene, strayed>>

Tabs == {"Technicians", "Appointments"}

Statuses == {"absent", "there", "Pending", "Scheduled", "Failed", "Ended"}

Active == {"Pending", "Scheduled", "Failed"}

Blank == [r \in Row |-> "absent"]

NoStorage == [claim |-> None, tenant |-> None]

\* The dashboard is mounted.
Mounted(s) == s.in /\ s.tenant # None

-----------------------------------------------------------------------------
(* The server, as far as the client can tell.                               *)

\* GET /technicians, and GET /appointments from the database, where a request
\* has a row only when the worker has dealt with it.
Listed(v, t) ==
  [r \in Row |->
     IF Home[r] = t /\ (IF v = "Technicians" THEN r \in Technician
                        ELSE status[r] \in {"Scheduled", "Ended"})
     THEN status[r] ELSE "absent"]

\* GET /appointments/active, from the set and the hashes in Redis.
ActiveOf(t) ==
  [r \in Row |-> IF Home[r] = t /\ status[r] \in Active THEN status[r] ELSE "absent"]

\* jwtAuth and tenantContext let the request in.
Admitted(m) == m.claim # None /\ m.tenant # None /\ (SuperAdmin \/ m.claim = m.tenant)

-----------------------------------------------------------------------------
(* Requests.  apiFetch takes the headers from the storage.                  *)

Request(st, kind, v, r) ==
  [kind |-> kind, active |-> TRUE, claim |-> st.claim, tenant |-> st.tenant,
   tab |-> v, row |-> r, answer |-> Blank, stage |-> "sent"]

\* What the getters of the dashboard ask for.
Reads == {"list", "poll"}

\* The clean-up of both effects: what their requests answer will be dropped.
Dropped(m) == IF m.kind \in Reads THEN [m EXCEPT !.active = FALSE] ELSE m

Cleaned == {Dropped(m) : m \in net}

\* Both effects run, for storage st, session s and tab v: the table is emptied,
\* and filled by the answers.
RunsEffects(st, s, v) ==
  /\ session' = s /\ tab' = v
  /\ data' = Blank /\ error' = FALSE
  /\ IF Mounted(s)
     THEN /\ loading' = TRUE
          /\ net' = Cleaned
               \cup {Request(st, "list", v, None)}
               \cup (IF v = "Appointments"
                     THEN {Request(st, "poll", v, None)} ELSE {})
          /\ strayed' = (st.tenant # s.tenant)
     ELSE loading' = FALSE /\ net' = Cleaned /\ strayed' = FALSE

Init ==
  /\ storage = NoStorage
  /\ session = [in |-> FALSE, tenant |-> None]
  /\ tab = "Technicians" /\ loading = FALSE /\ error = FALSE /\ data = Blank
  /\ net = {} /\ upsets = 0 /\ strayed = FALSE
  /\ scene \in Scenes
  /\ status = [r \in Row |-> IF r \notin scene.there THEN "absent"
                             ELSE IF r \in Technician THEN "there" ELSE "Pending"]

-----------------------------------------------------------------------------
(* The session.                                                             *)

\* What the user of this behaviour does, with few enough reads under way.
Does(act) ==
  /\ act \in scene.acts
  /\ Cardinality({m \in net : m.kind \in Reads}) <= MaxReads

\* Login or Register answers with tokens, and login() keeps them.
SignIn(t) ==
  /\ ~session.in
  /\ storage' = [claim |-> t, tenant |-> t]
  /\ RunsEffects(storage', [in |-> TRUE, tenant |-> t], "Technicians")
  /\ UNCHANGED <<status, upsets, scene>>

SignOut ==
  /\ session.in /\ Does("session")
  /\ storage' = NoStorage
  /\ RunsEffects(storage', [in |-> FALSE, tenant |-> None], "Technicians")
  /\ UNCHANGED <<status, upsets, scene>>

\* The page is loaded anew: what was under way is gone, and the session is what
\* the storage says.  "Change Tenant" removes tenant_id first.
Reload(st) ==
  /\ storage' = st
  /\ LET s == [in |-> st.claim # None, tenant |-> st.tenant] IN
     /\ session' = s /\ tab' = "Technicians" /\ data' = Blank /\ error' = FALSE
     /\ loading' = Mounted(s)
     /\ net' = IF Mounted(s) THEN {Request(st, "list", "Technicians", None)}
               ELSE {}
  /\ strayed' = FALSE
  /\ UNCHANGED <<status, upsets, scene>>

ChangeTenant ==
  Does("session") /\ session.in /\ Reload([storage EXCEPT !.tenant = None])

PressesReload ==
  Does("session") /\ session.in /\ Reload(storage)

\* The tenant selector.  The server issues a token for the tenant; if that
\* fails, or for a super admin, only tenant_id changes.
SelectTenant(t) ==
  /\ Does("session")
  /\ session.in /\ (session.tenant = None \/ SuperAdmin)
  /\ \/ ~SuperAdmin /\ storage' = [claim |-> t, tenant |-> t]
     \/ storage' = [storage EXCEPT !.tenant = t]
  /\ RunsEffects(storage', [session EXCEPT !.tenant = t], tab)
  /\ UNCHANGED <<status, upsets, scene>>

\* Another window signs in or out, changes or selects a tenant.
Elsewhere ==
  /\ "elsewhere" \in scene.acts
  /\ upsets < MaxUpsets /\ upsets' = upsets + 1
  /\ \/ storage' = NoStorage
     \/ \E t \in Tenant : storage' \in {[claim |-> t, tenant |-> t],
                                        [storage EXCEPT !.tenant = t]}
     \/ storage' = [storage EXCEPT !.tenant = None]
  /\ UNCHANGED <<window, net, status, scene, strayed>>

-----------------------------------------------------------------------------
(* The dashboard.                                                           *)

ShowTab(v) ==
  /\ Does("tabs")
  /\ Mounted(session) /\ v # tab
  /\ RunsEffects(storage, session, v)
  /\ UNCHANGED <<storage, status, upsets, scene>>

\* The interval of the second effect: the next request does not wait for the
\* answer of the last.
Poll ==
  /\ Mounted(session) /\ tab = "Appointments"
  /\ Cardinality({m \in net : m.kind \in Reads}) <= MaxReads
  /\ net' = net \cup {Request(storage, "poll", tab, None)}
  /\ strayed' = (strayed \/ storage.tenant # session.tenant)
  /\ UNCHANGED <<storage, window, status, upsets, scene>>

\* A row is created, edited, or deleted; one write at a time.
Write(op, r) ==
  /\ Does("write")
  /\ Mounted(session) /\ ~loading
  /\ r \in (IF tab = "Technicians" THEN Technician ELSE Appointment)
  /\ op # "create" => data[r] # "absent"
  /\ \A m \in net : m.kind \in Reads
  /\ net' = net \cup {Request(storage, op, tab, r)}
  /\ UNCHANGED <<storage, window, status, upsets, scene, strayed>>

\* What a write makes of a row.
After(op, r) ==
  CASE op = "create" /\ r \in Appointment -> "Pending"
    [] op = "create" /\ r \in Technician  -> "there"
    [] op = "delete" /\ r \in Technician  -> "absent"
    [] r \in Appointment                  -> "Ended"
    [] OTHER                              -> status[r]

Writable(m) ==
  /\ Home[m.row] = m.tenant
  /\ IF m.kind = "create" THEN status[m.row] = "absent"
     ELSE status[m.row] \in {"there", "Scheduled"}

\* The answer to a request is on its way.
Answered(m, stage, answer) == [m EXCEPT !.stage = stage, !.answer = answer]

\* The server deals with a request.
Serve(m) ==
  /\ m \in net /\ m.stage = "sent"
  /\ LET ok == Admitted(m) /\ (m.kind \in Reads \/ Writable(m)) IN
     /\ net' = (net \ {m}) \cup
          {Answered(m, IF ok THEN "served" ELSE "refused",
                    CASE ok /\ m.kind = "list" -> Listed(m.tab, m.tenant)
                      [] ok /\ m.kind = "poll" -> ActiveOf(m.tenant)
                      [] OTHER -> Blank)}
     /\ status' = IF ok /\ m.kind \notin Reads
                  THEN [status EXCEPT ![m.row] = After(m.kind, m.row)] ELSE status
  /\ UNCHANGED <<storage, window, upsets, scene, strayed>>

\* The network loses a request or its answer.
Lose(m) ==
  /\ m \in net /\ m.stage \in {"sent", "served"}
  /\ upsets < MaxUpsets /\ upsets' = upsets + 1
  /\ net' = (net \ {m}) \cup {Answered(m, "refused", Blank)}
  /\ UNCHANGED <<storage, window, status, scene, strayed>>

\* Deliberate fault: the flag is not asked for.
WrongListArrives(m) ==
  /\ m \in net /\ m.kind = "list" /\ m.stage \in {"served", "refused"}
  /\ net' = net \ {m}
  /\ loading' = FALSE
  /\ IF m.stage = "served" THEN data' = m.answer /\ UNCHANGED error
     ELSE error' = TRUE /\ UNCHANGED data
  /\ UNCHANGED <<storage, session, tab, status, upsets, scene, strayed>>

\* Deliberate fault: a load that failed leaves the window loading.
LoadingForEver(m) ==
  /\ m \in net /\ m.kind = "list" /\ m.stage \in {"served", "refused"}
  /\ net' = net \ {m}
  /\ loading' = IF m.active /\ m.stage = "served" THEN FALSE ELSE loading
  /\ data' = IF m.active /\ m.stage = "served" THEN m.answer ELSE data
  /\ error' = (error \/ (m.active /\ m.stage = "refused"))
  /\ UNCHANGED <<storage, session, tab, status, upsets, scene, strayed>>

\* The answer of an effect that was cleaned up is dropped.
ListArrives(m) ==
  /\ m \in net /\ m.kind = "list" /\ m.stage \in {"served", "refused"}
  /\ net' = net \ {m}
  /\ loading' = IF m.active THEN FALSE ELSE loading
  /\ data' = IF m.active /\ m.stage = "served" THEN m.answer ELSE data
  /\ error' = (error \/ (m.active /\ m.stage = "refused"))
  /\ UNCHANGED <<storage, session, tab, status, upsets, scene, strayed>>

\* Deliberate fault: rows that the table has keep what they show.
WrongMergeActiveAppointments(base, active) ==
  [r \in Row |-> IF base[r] = "absent" THEN active[r] ELSE base[r]]

\* A row that is active no more stays as it was.
mergeActiveAppointments(base, active) ==
  [r \in Row |-> IF active[r] = "absent" THEN base[r] ELSE active[r]]

\* A refused poll sets the error, which only the first effect resets.
PollArrives(m) ==
  /\ m \in net /\ m.kind = "poll" /\ m.stage \in {"served", "refused"}
  /\ net' = net \ {m}
  /\ data' = IF m.active /\ m.stage = "served"
             THEN mergeActiveAppointments(data, m.answer) ELSE data
  /\ error' = (error \/ (m.active /\ m.stage = "refused"))
  /\ UNCHANGED <<storage, session, tab, loading, status, upsets, scene, strayed>>

\* apiFetch reads a body of JSON.  A 204 has none, so a technician that was
\* deleted is reported as a failure, and the table is not loaded again.
Readable(m) == m.stage = "served" /\ ~(m.kind = "delete" /\ m.row \in Technician)

WriteReturns(m) ==
  /\ m \in net /\ m.kind \notin Reads /\ m.stage \in {"served", "refused"}
  /\ IF Readable(m) /\ Mounted(session)
     THEN /\ session' = session /\ tab' = tab
          /\ data' = Blank /\ error' = FALSE /\ loading' = TRUE
          /\ net' = (Cleaned \ {m})
               \cup {Request(storage, "list", tab, None)}
               \cup (IF tab = "Appointments" THEN {Request(storage, "poll", tab, None)} ELSE {})
          /\ strayed' = (storage.tenant # session.tenant)
     ELSE net' = net \ {m} /\ UNCHANGED <<window, strayed>>
  /\ UNCHANGED <<storage, status, upsets, scene>>

\* The worker schedules an appointment or gives it up, or somebody ends it.
Proceeds(r) ==
  /\ \/ /\ status[r] = "Pending"
        /\ \E s \in {"Scheduled", "Failed"} : status' = [status EXCEPT ![r] = s]
     \/ status[r] = "Scheduled" /\ status' = [status EXCEPT ![r] = "Ended"]
  /\ UNCHANGED <<storage, window, net, upsets, scene, strayed>>

-----------------------------------------------------------------------------
Arrives == \E m \in net : ListArrives(m) \/ PollArrives(m) \/ WriteReturns(m)

Next ==
  \/ \E t \in Tenant : SignIn(t) \/ SelectTenant(t)
  \/ SignOut \/ ChangeTenant \/ PressesReload \/ Elsewhere
  \/ \E v \in Tabs : ShowTab(v)
  \/ Poll
  \/ \E op \in {"create", "edit", "delete"}, r \in Row : Write(op, r)
  \/ \E m \in net : Serve(m) \/ Lose(m)
  \/ Arrives
  \/ \E r \in Appointment : Proceeds(r)

\* The interval goes on, and every kind of request is served and answered in the
\* end, in whatever order.
Fairness ==
  /\ WF_vars(Poll)
  /\ \A k \in Reads, a \in BOOLEAN :
       /\ WF_vars(\E m \in net : m.kind = k /\ m.active = a /\ Serve(m))
       /\ WF_vars(\E m \in net : m.kind = k /\ m.active = a
                                 /\ (ListArrives(m) \/ PollArrives(m)))

Spec == Init /\ [][Next]_vars /\ Fairness

-----------------------------------------------------------------------------
(* Properties.                                                              *)

\* The types; and the window is loading exactly while the list it shows is under
\* way, whatever became of the request.
TypeOK ==
  /\ loading = (\E m \in net : m.kind = "list" /\ m.active)
  /\ storage \in [claim : Tenant \cup {None}, tenant : Tenant \cup {None}]
  /\ session \in [in : BOOLEAN, tenant : Tenant \cup {None}]
  /\ tab \in Tabs /\ loading \in BOOLEAN /\ error \in BOOLEAN
  /\ data \in [Row -> Statuses] /\ status \in [Row -> Statuses]
  /\ \A m \in net : /\ m.kind \in Reads \cup {"create", "edit", "delete"}
                    /\ m.stage \in {"sent", "served", "refused"}
                    /\ m.answer \in [Row -> Statuses]
  /\ upsets \in 0 .. MaxUpsets /\ scene \in Scenes /\ strayed \in BOOLEAN

Shows(r) == data[r] # "absent"

\* Whatever order answers come in, the table holds rows of the tab and the
\* tenant that the window names, and none when signed out: unless another
\* window changed the tenant in the storage the present requests were sent from.
ShowsItsOwn ==
  \A r \in Row : Shows(r) =>
    /\ session.in
    /\ r \in (IF tab = "Technicians" THEN Technician ELSE Appointment)
    /\ Home[r] = session.tenant \/ strayed

\* The window shows the appointments of the tenant it is signed in for.
OnAppointments ==
  /\ Mounted(session) /\ tab = "Appointments"
  /\ storage = [claim |-> session.tenant, tenant |-> session.tenant]

Current(r) == data[r] = status[r]

\* While the window stays there, an active appointment is shown with its present
\* status again and again, although polls overtake each other and one is lost.
ActiveRowsFollow ==
  <>[]OnAppointments =>
    \A r \in Appointment :
      []<>(Home[r] = session.tenant /\ status[r] \in Active => Current(r))

\* The same of every row of the table, also of one whose status is no longer an
\* active one.
DashboardFollows ==
  <>[]OnAppointments => \A r \in Appointment : []<>(Shows(r) => Current(r))
=============================================================================
