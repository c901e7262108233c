------------------------------- MODULE Session -------------------------------
(***************************************************************************)
(* Users, the tenants they are members of, and the tokens that speak for   *)
(* them: the /auth and /users endpoints over the tables users,             *)
(* user_tenants and refresh_tokens.                                        *)
(*                                                                         *)
(* Each query of a use case is a step of its own, so that the requests of  *)
(* one user, or of several managers, can come between any two.  A user is  *)
(* known by the email address, of which the first registration takes hold. *)
(* Left out are wrong passwords, inactive users, malformed requests and    *)
(* tenants that do not exist, which are refused before anything is written.*)
(*                                                                         *)
(* The variables claims, granted and overlapped are auxiliary: what access *)
(* tokens were signed, what was answered with success, and whether a       *)
(* refresh lost a race; so are the fields from and line of a token.        *)
(***************************************************************************)
EXTENDS Naturals, FiniteSets

CONSTANTS
  User, Tenant, Call,
  Token,        \* the refresh tokens an instance can create
  Super,        \* users with isSuperAdmin, set by hand in the database
  Founder,      \* who is a manager of which tenant at the start
  Scenes,       \* what requests may arrive in one behaviour, about which users
  Faults        \* {} or {"break"}: a query throws, or the process dies

None == "none"     \* no tenant; "system" stands for it in the tokens of a login

ASSUME SessionAssumption ==
  /\ Super \subseteq User /\ Founder \subseteq User \X Tenant
  /\ Faults \subseteq {"break"}
  /\ {None, "system"} \cap Tenant = {} /\ None \notin Token

VARIABLES
  known,      \* rows of users
  link,       \* user_tenants: the role of a user in a tenant, None if no row
  token,      \* refresh_tokens: state, owner and tenant; the token it was
              \* exchanged for, and the first one of that line of exchanges
  claims,     \* what the access tokens signed so far say
  granted,    \* <<user, tenant, role>> asked for and answered with 204
  call,
  scene,      \* which of the scenes this behaviour is
  overlapped  \* a refresh revoked what another request had revoked already

vars == <<known, link, token, claims, granted, call, scene, overlapped>>

Member  == "TenantUser"
Manager == "TenantManager"

\* Roles in a tenant only go up.
Rank(r) == IF r = Manager THEN 2 ELSE IF r = Member THEN 1 ELSE 0

Free == [state |-> "free", user |-> None, tenant |-> None, from |-> None, line |-> None]

Idle == [op |-> None, user |-> None, tenant |-> None, role |-> None,
         token |-> None, stage |-> "idle"]

Init ==
  /\ known = {f[1] : f \in Founder} \cup Super
  /\ link = [m \in User \X Tenant |-> IF m \in Founder THEN Manager ELSE None]
  /\ token = [k \in Token |-> Free]
  /\ claims = {} /\ granted = {} /\ overlapped = FALSE
  /\ call = [q \in Call |-> Idle]
  /\ scene \in Scenes

At(q, s) == call[q].stage = s

Becomes(q, c) == call' = [call EXCEPT ![q] = c] /\ UNCHANGED scene

Goes(q, s) == Becomes(q, [call[q] EXCEPT !.stage = s])

Ends(q) == Becomes(q, Idle)

-----------------------------------------------------------------------------
(* What arrives.  jwtAuth lets in who shows an access token, tenantContext  *)
(* asks for the tenant of that token, and the handlers of /users for a      *)
(* manager of it; a super admin may name any tenant.                        *)

\* Access tokens of user u.
Shown(u) == {c \in claims : c.user = u}

MayAssign(t) ==
  \E c \in claims : c.super \/ (c.tenant = t /\ c.role = Manager)

Issuing == {"register", "login", "refresh", "switch"}

\* Bound: a request that would create a refresh token finds one to create.
Room == Cardinality({k \in Token : token[k].state = "free"})
          > Cardinality({p \in Call : call[p].op \in Issuing})

Opens(q, op, u, t, r, k) ==
  /\ At(q, "idle")
  /\ op \in scene.ops /\ u \in scene.users
  /\ op \in Issuing => Room
  /\ Becomes(q, [op |-> op, user |-> u, tenant |-> t, role |-> r, token |-> k,
                 stage |-> "find"])
  /\ UNCHANGED <<known, link, token, claims, granted, overlapped>>

Register(q) == \E u \in User \ Super, t \in Tenant \cup {None} :
                 Opens(q, "register", u, t, IF t = None THEN "Guest" ELSE Member, None)

Login(q) == \E u \in User : Opens(q, "login", u, None, None, None)

\* Refresh and log out come with a token that was handed out at some time.
Handed == {k \in Token : token[k].state # "free"}

Refresh(q) == \E k \in Handed :
                Opens(q, "refresh", token[k].user, token[k].tenant, Member, k)

Logout(q) == \E k \in Handed : Opens(q, "logout", token[k].user, None, None, k)

\* A switch comes with an access token and any string for the refresh token it
\* replaces: one of the user, one of somebody else, or none there is.
SwitchTenant(q) ==
  \E u \in User, t \in Tenant, k \in Handed \cup {None} :
    Shown(u) # {} /\ Opens(q, "switch", u, t, None, k)

AssignUser(q) ==
  \E u \in User, t \in Tenant, r \in {Member, Manager} :
    MayAssign(t) /\ Opens(q, "assign", u, t, r, None)

PromoteUser(q) ==
  \E u \in User, t \in Tenant :
    MayAssign(t) /\ Opens(q, "promote", u, t, Manager, None)

-----------------------------------------------------------------------------
(* The first queries of each use case, which refuse it or let it go on.     *)

\* Also the hashing of the password lies between this and the insert.
RegisterFinds(q) ==
  /\ At(q, "find") /\ call[q].op = "register"
  /\ IF call[q].user \in known THEN Ends(q) ELSE Goes(q, "insert")
  /\ UNCHANGED <<known, link, token, claims, granted, overlapped>>

\* Deliberate fault: no other role for a user without a row in user_tenants.
WrongLoginFinds(q) ==
  /\ At(q, "find") /\ call[q].op = "login"
  /\ IF call[q].user \notin known THEN Ends(q)
     ELSE \E t \in Tenant : Becomes(q, [call[q] EXCEPT !.tenant = t, !.stage = "issue",
                                                      !.role = link[<<call[q].user, t>>]])
  /\ UNCHANGED <<known, link, token, claims, granted, overlapped>>

\* The first row of user_tenants is whichever the database returns first; a
\* user without one logs in with the role of the user's own row.
LoginFinds(q) ==
  /\ At(q, "find") /\ call[q].op = "login"
  /\ LET u == call[q].user
         T == {t \in Tenant : link[<<u, t>>] # None} IN
     IF u \notin known THEN Ends(q)
     ELSE IF T = {}
          THEN \E r \in {"Guest", Member} :
                 Becomes(q, [call[q] EXCEPT !.tenant = "system", !.role = r, !.stage = "issue"])
          ELSE \E t \in T : Becomes(q, [call[q] EXCEPT !.tenant = t, !.role = link[<<u, t>>],
                                                       !.stage = "issue"])
  /\ UNCHANGED <<known, link, token, claims, granted, overlapped>>

\* Deliberate fault: the token that is exchanged is not revoked.
WrongRefreshFinds(q) ==
  /\ At(q, "find") /\ call[q].op = "refresh"
  /\ IF token[call[q].token].state = "live" THEN Goes(q, "issue") ELSE Ends(q)
  /\ UNCHANGED <<known, link, token, claims, granted, overlapped>>

RefreshFinds(q) ==
  /\ At(q, "find") /\ call[q].op = "refresh"
  /\ IF token[call[q].token].state = "live" THEN Goes(q, "revoke") ELSE Ends(q)
  /\ UNCHANGED <<known, link, token, claims, granted, overlapped>>

LogoutFinds(q) ==
  /\ At(q, "find") /\ call[q].op = "logout"
  /\ Goes(q, "revoke")
  /\ UNCHANGED <<known, link, token, claims, granted, overlapped>>

\* Deliberate fault: the membership is not asked for.
WrongSwitchFinds(q) ==
  /\ At(q, "find") /\ call[q].op = "switch"
  /\ Becomes(q, [call[q] EXCEPT !.role = Member, !.stage = "revoke"])
  /\ UNCHANGED <<known, link, token, claims, granted, overlapped>>

\* Neither the owner nor the state of the refresh token is asked for.
SwitchFinds(q) ==
  /\ At(q, "find") /\ call[q].op = "switch"
  /\ LET r == link[<<call[q].user, call[q].tenant>>] IN
     IF r = None /\ call[q].user \notin Super THEN Ends(q)
     ELSE Becomes(q, [call[q] EXCEPT !.role = IF r = None THEN "Admin" ELSE r,
                                     !.stage = "revoke"])
  /\ UNCHANGED <<known, link, token, claims, granted, overlapped>>

AssignFinds(q) ==
  /\ At(q, "find") /\ call[q].op = "assign"
  /\ IF call[q].user \notin known \/ link[<<call[q].user, call[q].tenant>>] # None
     THEN Ends(q) ELSE Goes(q, "link")
  /\ UNCHANGED <<known, link, token, claims, granted, overlapped>>

PromoteFinds(q) ==
  /\ At(q, "find") /\ call[q].op = "promote"
  /\ IF link[<<call[q].user, call[q].tenant>>] = None THEN Ends(q) ELSE Goes(q, "promote")
  /\ UNCHANGED <<known, link, token, claims, granted, overlapped>>

-----------------------------------------------------------------------------
(* The writes.                                                              *)

\* The email address is unique: the second of two inserts fails.
InsertUser(q) ==
  /\ At(q, "insert")
  /\ IF call[q].user \in known THEN UNCHANGED known /\ Ends(q)
     ELSE /\ known' = known \cup {call[q].user}
          /\ Goes(q, IF call[q].tenant = None THEN "issue" ELSE "link")
  /\ UNCHANGED <<link, token, claims, granted, overlapped>>

Answers(q) ==
  granted' = granted \cup {<<call[q].user, call[q].tenant, call[q].role>>}

AfterLink(q) ==
  \/ call[q].op = "register" /\ Goes(q, "issue") /\ UNCHANGED granted
  \/ /\ call[q].op = "assign" /\ call[q].role = Manager
     /\ Goes(q, "promote") /\ UNCHANGED granted
  \/ call[q].op = "assign" /\ call[q].role # Manager /\ Ends(q) /\ Answers(q)

\* Deliberate fault: no unique index, and an upsert.
WrongInsertLink(q) ==
  /\ At(q, "link")
  /\ link' = [link EXCEPT ![<<call[q].user, call[q].tenant>>] = Member]
  /\ AfterLink(q)
  /\ UNCHANGED <<known, token, claims, overlapped>>

\* One row for a user and a tenant: the second of two inserts fails.
InsertLink(q) ==
  /\ At(q, "link")
  /\ IF link[<<call[q].user, call[q].tenant>>] # None
     THEN UNCHANGED <<link, granted>> /\ Ends(q)
     ELSE /\ link' = [link EXCEPT ![<<call[q].user, call[q].tenant>>] = Member]
          /\ AfterLink(q)
  /\ UNCHANGED <<known, token, claims, overlapped>>

UpdateRole(q) ==
  /\ At(q, "promote")
  /\ link' = [link EXCEPT ![<<call[q].user, call[q].tenant>>] = Manager]
  /\ Ends(q) /\ Answers(q)
  /\ UNCHANGED <<known, token, claims, overlapped>>

AfterRevoke(q) == IF call[q].op = "logout" THEN Ends(q) ELSE Goes(q, "issue")

\* Deliberate fault: the token that is exchanged stays live.
WrongRevoke(q) ==
  /\ At(q, "revoke")
  /\ AfterRevoke(q)
  /\ UNCHANGED <<known, link, token, claims, granted, overlapped>>

\* An UPDATE by the token alone: who comes second does not learn that another
\* request has revoked the token since it was found, and a switch revokes
\* whatever token it names, or nothing.
Revoke(q) ==
  /\ At(q, "revoke")
  /\ token' = [k \in Token |-> IF k = call[q].token
                               THEN [token[k] EXCEPT !.state = "revoked"] ELSE token[k]]
  /\ overlapped' = (overlapped \/ (call[q].op = "refresh"
                                    /\ token[call[q].token].state = "revoked"))
  /\ AfterRevoke(q)
  /\ UNCHANGED <<known, link, claims, granted>>

\* The access token and the refresh token of the answer.  A refresh signs the
\* role TenantUser whatever the user was, and never isSuperAdmin.
Issue(q) ==
  /\ At(q, "issue")
  /\ claims' = claims \cup {[user |-> call[q].user, tenant |-> call[q].tenant,
                             role |-> call[q].role,
                             super |-> call[q].user \in Super /\ call[q].op # "refresh"]}
  /\ LET k == CHOOSE n \in Token : token[n].state = "free" IN
     /\ k \in Token /\ token[k].state = "free"
     /\ token' = [token EXCEPT ![k] =
          [state |-> "live", user |-> call[q].user, tenant |-> call[q].tenant,
           from |-> IF call[q].op = "refresh" THEN call[q].token ELSE None,
           line |-> IF call[q].op = "refresh" THEN token[call[q].token].line ELSE k]]
  /\ Ends(q)
  /\ UNCHANGED <<known, link, granted, overlapped>>

\* A query throws, or the process dies: what is written stays written.
Breaks(q) ==
  /\ Faults # {}
  /\ ~At(q, "idle")
  /\ Ends(q)
  /\ UNCHANGED <<known, link, token, claims, granted, overlapped>>

-----------------------------------------------------------------------------
Arrive(q) ==
  \/ Register(q) \/ Login(q) \/ Refresh(q) \/ Logout(q)
  \/ SwitchTenant(q) \/ AssignUser(q) \/ PromoteUser(q)

Step(q) ==
  \/ RegisterFinds(q) \/ LoginFinds(q) \/ RefreshFinds(q) \/ LogoutFinds(q)
  \/ SwitchFinds(q) \/ AssignFinds(q) \/ PromoteFinds(q)
  \/ InsertUser(q) \/ InsertLink(q) \/ UpdateRole(q) \/ Revoke(q) \/ Issue(q)

Next == \E q \in Call : Arrive(q) \/ Step(q) \/ Breaks(q)

Spec == Init /\ [][Next]_vars

-----------------------------------------------------------------------------
(* Properties.                                                              *)

Roles == {"Guest", Member, Manager, "Admin"}

Stage == {"idle", "find", "insert", "link", "promote", "revoke", "issue"}

TypeOK ==
  /\ known \subseteq User
  /\ link \in [User \X Tenant -> {None, Member, Manager}]
  /\ \A k \in Token :
       /\ token[k].state \in {"free", "live", "revoked"}
       /\ token[k].user \in User \cup {None}
       /\ token[k].tenant \in Tenant \cup {None, "system"}
       /\ {token[k].from, token[k].line} \subseteq Token \cup {None}
  /\ claims \subseteq [user : User, tenant : Tenant \cup {None, "system"},
                       role : Roles, super : BOOLEAN]
  /\ granted \subseteq User \X Tenant \X {Member, Manager}
  /\ \A q \in Call : call[q].stage \in Stage
  /\ scene \in Scenes
  /\ overlapped \in BOOLEAN

\* Along any chain of logins, switches and refreshes, and however they overlap
\* with assignments, an access token never says more of its user than the
\* user's row in user_tenants: a member's row exists, and a manager's says so.
ClaimsAreBacked ==
  \A c \in claims :
    c.tenant \in Tenant /\ c.user \notin Super => Rank(c.role) <= Rank(link[<<c.user, c.tenant>>])

\* A refresh token is exchanged by a refresh at most once, unless a second
\* request found it live before the first had revoked it.
SpentOnce ==
  ~overlapped =>
    \A k, n \in Token :
      token[k].from # None /\ token[k].from = token[n].from => k = n

\* What a manager was told was done remains: no later or overlapping request
\* takes a membership or a promotion back.
GrantsHold == \A g \in granted : Rank(g[3]) <= Rank(link[<<g[1], g[2]>>])

\* A login, a registration or a switch leads to one live refresh token at the
\* most, however long the line of exchanges that begins with it: a refresh that
\* is cut off between its two writes may leave none, but never the old token
\* next to the new one, whoever else revokes tokens of the line meanwhile.
OneLivePerLogin ==
  ~overlapped =>
    \A k, n \in Token :
      token[k].state = "live" /\ token[n].state = "live"
        /\ token[k].line = token[n].line => k = n
=============================================================================
