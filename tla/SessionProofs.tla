---------------------------- MODULE SessionProofs ----------------------------
(***************************************************************************)
(* Theorems about Session, for any number of users, tenants, tokens and    *)
(* requests in flight.                                                     *)
(***************************************************************************)
EXTENDS Session, TLAPS

(***************************************************************************)
(* The strengthening.                                                      *)
(***************************************************************************)
Ops == {None, "register", "login", "refresh", "logout", "switch", "assign", "promote"}

TokenRow == [state : {"free", "live", "revoked"}, user : User \cup {None},
             tenant : Tenant \cup {None, "system"}, from : Token \cup {None},
             line : Token \cup {None}]

CallState == [op : Ops, user : User \cup {None}, tenant : Tenant \cup {None, "system"},
              role : Roles \cup {None}, token : Token \cup {None}, stage : Stage]

ClaimRow == [user : User, tenant : Tenant \cup {None, "system"}, role : Roles,
             super : BOOLEAN]

Types ==
  /\ known \subseteq User
  /\ link \in [User \X Tenant -> {None, Member, Manager}]
  /\ token \in [Token -> TokenRow]
  /\ claims \subseteq ClaimRow
  /\ granted \subseteq User \X Tenant \X {Member, Manager}
  /\ call \in [Call -> CallState]
  /\ scene \in Scenes
  /\ overlapped \in BOOLEAN

\* A role in a tenant that the row in user_tenants bears out.
Backed(u, t, r) ==
  u \notin Super /\ t \in Tenant => link[<<u, t>>] # None /\ Rank(r) <= Rank(link[<<u, t>>])

\* A request is at a stage of its use case, with what that stage goes by.
WellFormed(c) ==
  /\ c.stage = "find" => c.op # None /\ c.user \in User
  /\ c.stage = "insert" => c.op = "register" /\ c.user \in User
  /\ c.stage = "link" => /\ c.op \in {"register", "assign"}
                         /\ c.user \in User /\ c.tenant \in Tenant
  /\ c.stage = "promote" => /\ c.op \in {"assign", "promote"} /\ c.role = Manager
                            /\ c.user \in User /\ c.tenant \in Tenant
  /\ c.stage = "revoke" => /\ c.op \in {"refresh", "logout", "switch"} /\ c.user \in User
                           /\ c.op # "logout" => c.role \in Roles
  /\ c.stage = "issue" => c.op \in Issuing /\ c.user \in User /\ c.role \in Roles

\* What an operation was asked for.
AskedFor(c) ==
  /\ c.op = "register" => /\ c.tenant \in Tenant => c.role = Member
                          /\ c.tenant = None => c.role = "Guest"
                          /\ c.tenant \in Tenant \cup {None}
  /\ c.op \in {"assign", "promote"} =>
       c.tenant \in Tenant /\ c.role \in {Member, Manager}
  /\ c.op = "promote" => c.role = Manager
  /\ c.op = "refresh" => c.role = Member
  /\ c.op = "logout" => c.tenant = None
  /\ c.op = "switch" => c.tenant \in Tenant

\* A refresh and a log-out act for the owner of the refresh token they come with;
\* a switch comes with anybody's.
ActsForOwner(c) ==
  /\ c.op \in {"refresh", "logout"} =>
       c.token \in Token /\ token[c.token].state # "free" /\ token[c.token].user = c.user
  /\ c.op = "switch" /\ c.token \in Token => token[c.token].state # "free"

\* A request about to sign something can only sign what is backed.
CallIsBacked(c) ==
  c.op = "refresh" \/ c.stage \in {"revoke", "issue"} => Backed(c.user, c.tenant, c.role)

Calls == \A q \in Call : /\ WellFormed(call[q]) /\ AskedFor(call[q])
                         /\ ActsForOwner(call[q]) /\ CallIsBacked(call[q])

Tokens == \A k \in Token : token[k].state # "free" =>
            token[k].user \in User /\ Backed(token[k].user, token[k].tenant, Member)

\* The request is about to issue the token it exchanged k for.
Exchanges(c, k) == c.op = "refresh" /\ c.stage = "issue" /\ c.token = k

\* A token that has a successor, or is about to have one, is revoked, and has no
\* other.
OneSuccessor ==
  ~overlapped =>
    /\ \A k \in Token : token[k].from \in Token => token[token[k].from].state = "revoked"
    /\ \A q \in Call, k \in Token : Exchanges(call[q], k) =>
         /\ token[k].state = "revoked"
         /\ \A n \in Token : token[n].from # k
         /\ \A p \in Call : Exchanges(call[p], k) => p = q

\* The request is about to issue the next token of a line.
Continues(c) == c.op = "refresh" /\ c.stage = "issue"

\* The line of a token in use begins with a token in use; and as long as no two
\* refreshes overlapped, a line about to get its next token has no live one, nor
\* a second request that is to continue it.
LinesEnd ==
  /\ \A k \in Token : token[k].state # "free" =>
       token[k].line \in Token /\ token[token[k].line].state # "free"
  /\ ~overlapped =>
       \A q \in Call : Continues(call[q]) =>
         /\ \A n \in Token :
              token[n].state = "live" => token[n].line # token[call[q].token].line
         /\ \A p \in Call :
              Continues(call[p]) /\ token[call[p].token].line = token[call[q].token].line => p = q

IInv == /\ Types /\ Calls /\ Tokens
        /\ ClaimsAreBacked /\ GrantsHold /\ OneSuccessor /\ SpentOnce
        /\ LinesEnd /\ OneLivePerLogin

-----------------------------------------------------------------------------
(* The initial states.                                                      *)

\* At the start nothing is signed, and there is no call and no token.
LEMMA InitInv == Init => IInv
<1> SUFFICES ASSUME Init PROVE IInv
  OBVIOUS
<1>1. Idle \in CallState /\ Free \in TokenRow
  BY SMT DEF Idle, Free, CallState, TokenRow, Ops, Stage
<1>2. Types
  BY <1>1, SessionAssumption DEF Init, Types
<1>3. Calls
  BY DEF Init, Calls, Idle, WellFormed, AskedFor, ActsForOwner, CallIsBacked, None
<1>4. Tokens /\ OneSuccessor /\ SpentOnce
  <2>1. \A k \in Token : token[k].state = "free" /\ token[k].from = None
    BY DEF Init, Free
  <2>2. \A q \in Call : call[q].stage = "idle"
    BY DEF Init, Idle
  <2>3. Tokens
    BY <2>1 DEF Tokens
  <2>4. OneSuccessor
    <3>1. \A k \in Token : token[k].from \in Token => None \in Token
      BY <2>1
    <3> QED
      BY <2>1, <2>2, <3>1, SessionAssumption DEF OneSuccessor, Exchanges
  <2>5. SpentOnce
    BY <2>1 DEF SpentOnce
  <2> QED
    BY <2>3, <2>4, <2>5
<1>5. ClaimsAreBacked /\ GrantsHold
  BY DEF Init, ClaimsAreBacked, GrantsHold
<1>6. LinesEnd /\ OneLivePerLogin
  BY DEF Init, Free, Idle, LinesEnd, Continues, OneLivePerLogin
<1> QED
  BY <1>2, <1>3, <1>4, <1>5, <1>6 DEF IInv

-----------------------------------------------------------------------------
(* Steps that move one request along, and at most add to known and link.   *)

LinkGrows ==
  \A u \in User, t \in Tenant :
    /\ link[<<u, t>>] # None => link'[<<u, t>>] # None
    /\ Rank(link[<<u, t>>]) <= Rank(link'[<<u, t>>])

\* Ranks are numbers.
LEMMA RankIsNat == \A r : Rank(r) \in 0 .. 2
  BY DEF Rank

\* What a row of user_tenants bears out it still does when the rows grow.
LEMMA BackedGrows ==
  ASSUME NEW u \in User, NEW t, NEW r, Backed(u, t, r), LinkGrows
  PROVE  Backed(u, t, r)'
  BY RankIsNat DEF Backed, LinkGrows

\* A request goes on to a stage it is fit for; nothing else changes but what may
\* only grow.
LEMMA CallMoves ==
  ASSUME IInv, NEW q \in Call, NEW c \in CallState,
         call' = [call EXCEPT ![q] = c],
         UNCHANGED <<token, claims, scene, overlapped>>,
         known' \subseteq User,
         link' \in [User \X Tenant -> {None, Member, Manager}], LinkGrows,
         granted' \subseteq User \X Tenant \X {Member, Manager}, GrantsHold',
         WellFormed(c), AskedFor(c), ActsForOwner(c), CallIsBacked(c)',
         ~(c.op = "refresh" /\ c.stage = "issue")
  PROVE  IInv'
<1>1. call'[q] = c /\ \A p \in Call : p # q => call'[p] = call[p]
  BY DEF IInv, Types
<1>2. Types'
  BY DEF IInv, Types
<1>3. Calls'
  <2> SUFFICES ASSUME NEW p \in Call
               PROVE  /\ WellFormed(call'[p]) /\ AskedFor(call'[p])
                      /\ ActsForOwner(call[p])' /\ CallIsBacked(call[p])'
    BY DEF Calls, WellFormed, AskedFor
  <2>1. CASE p = q
    BY <2>1, <1>1 DEF ActsForOwner, CallIsBacked, Backed
  <2>2. CASE p # q
    <3>1. /\ WellFormed(call[p]) /\ AskedFor(call[p])
          /\ ActsForOwner(call[p]) /\ CallIsBacked(call[p])
      BY DEF IInv, Calls
    <3>2. call'[p] = call[p]
      BY <1>1, <2>2
    <3>3. CallIsBacked(call[p])'
      <4>1. CASE call[p].op = "refresh" \/ call[p].stage \in {"revoke", "issue"}
        <5>1. Backed(call[p].user, call[p].tenant, call[p].role)
          BY <3>1, <4>1 DEF CallIsBacked
        <5>2. call[p].user \in User
          <6>1. call[p].op = "refresh" => token[call[p].token].user = call[p].user
                                          /\ token[call[p].token].state # "free"
                                          /\ call[p].token \in Token
            BY <3>1 DEF ActsForOwner
          <6>2. call[p].stage \in {"revoke", "issue"} => call[p].user \in User
            BY <3>1 DEF WellFormed
          <6> QED
            BY <4>1, <6>1, <6>2 DEF IInv, Tokens
        <5> QED
          BY <5>1, <5>2, <3>2, BackedGrows DEF CallIsBacked, Backed
      <4>2. CASE ~(call[p].op = "refresh" \/ call[p].stage \in {"revoke", "issue"})
        BY <4>2, <3>2 DEF CallIsBacked
      <4> QED
        BY <4>1, <4>2
    <3> QED
      BY <3>1, <3>2, <3>3 DEF ActsForOwner
  <2> QED
    BY <2>1, <2>2
<1>4. Tokens'
  <2> SUFFICES ASSUME NEW k \in Token, token[k].state # "free"
               PROVE  token[k].user \in User /\ Backed(token[k].user, token[k].tenant, Member)'
    BY DEF Tokens, Backed
  <2>1. token[k].user \in User /\ Backed(token[k].user, token[k].tenant, Member)
    BY DEF IInv, Tokens
  <2> QED
    BY <2>1, BackedGrows
<1>5. ClaimsAreBacked'
  BY RankIsNat, SessionAssumption DEF IInv, Types, ClaimsAreBacked, ClaimRow, LinkGrows, Rank
<1>6. OneSuccessor'
  <2>1. \A p \in Call, k \in Token :
          Exchanges(call'[p], k) => p # q /\ Exchanges(call[p], k)
    BY <1>1 DEF Exchanges
  <2> QED
    BY <2>1 DEF IInv, OneSuccessor, Exchanges
<1>7. SpentOnce'
  BY DEF IInv, SpentOnce
<1>8. LinesEnd' /\ OneLivePerLogin'
  <2>1. \A p \in Call : Continues(call'[p]) => p # q /\ call'[p] = call[p]
    BY <1>1 DEF Continues
  <2> QED
    BY <2>1 DEF IInv, LinesEnd, Continues, OneLivePerLogin
<1> QED
  BY <1>2, <1>3, <1>4, <1>5, <1>6, <1>7, <1>8 DEF IInv

-----------------------------------------------------------------------------
(* Arrivals and first queries, which touch the call only.                   *)

\* The same, where not even user_tenants changes.
LEMMA CallOnly ==
  ASSUME IInv, NEW q \in Call, NEW c \in CallState, Becomes(q, c),
         UNCHANGED <<link, token, claims, granted, overlapped>>, known' \subseteq User,
         ~(c.op = "refresh" /\ c.stage = "issue"),
         WellFormed(c), AskedFor(c), ActsForOwner(c), CallIsBacked(c)
  PROVE  IInv'
<1>1. LinkGrows
  BY RankIsNat DEF LinkGrows
<1>2. GrantsHold' /\ CallIsBacked(c)'
  BY DEF IInv, GrantsHold, CallIsBacked, Backed
<1> QED
  BY <1>1, <1>2, CallMoves DEF Becomes, IInv, Types

\* A request that has ended is fit for its stage.
LEMMA IdleIsFine ==
  /\ Idle \in CallState /\ WellFormed(Idle) /\ AskedFor(Idle)
  /\ ActsForOwner(Idle) /\ CallIsBacked(Idle) /\ Idle.stage = "idle" /\ Idle.op = None
  BY SMT DEF Idle, CallState, Ops, Stage, WellFormed, AskedFor, ActsForOwner, CallIsBacked, None

\* A request may end wherever nothing has been written.
LEMMA EndsHarmlessly ==
  ASSUME IInv, NEW q \in Call, Ends(q),
         UNCHANGED <<known, link, token, claims, granted, overlapped>>
  PROVE  IInv'
<1>1. ~(Idle.op = "refresh" /\ Idle.stage = "issue")
  BY IdleIsFine
<1>2. known' \subseteq User
  BY DEF IInv, Types
<1> QED
  BY <1>1, <1>2, CallOnly, IdleIsFine DEF Ends

\* A request arrives, with a refresh token of its user or without one.
LEMMA ArriveKeeps ==
  ASSUME IInv, NEW q \in Call, Arrive(q)
  PROVE  IInv'
<1> DEFINE Fresh(op, u, t, r, k) ==
      [op |-> op, user |-> u, tenant |-> t, role |-> r, token |-> k, stage |-> "find"]
<1>1. ASSUME NEW op \in Ops \ {None}, NEW u \in User, NEW t \in Tenant \cup {None, "system"},
             NEW r \in Roles \cup {None}, NEW k \in Token \cup {None},
             Opens(q, op, u, t, r, k), AskedFor(Fresh(op, u, t, r, k)),
             ActsForOwner(Fresh(op, u, t, r, k)), CallIsBacked(Fresh(op, u, t, r, k))
      PROVE  IInv'
  <2>1. Fresh(op, u, t, r, k) \in CallState
    BY DEF CallState, Stage
  <2>2. WellFormed(Fresh(op, u, t, r, k))
    BY DEF WellFormed
  <2>3. Fresh(op, u, t, r, k).stage # "issue"
    OBVIOUS
  <2>4. /\ Becomes(q, Fresh(op, u, t, r, k))
        /\ UNCHANGED <<known, link, token, claims, granted, overlapped>>
    BY <1>1 DEF Opens
  <2>5. known' \subseteq User
    BY <2>4 DEF IInv, Types
  <2> HIDE DEF Fresh
  <2> QED
    BY <1>1, <2>1, <2>2, <2>3, <2>4, <2>5, CallOnly
<1>2. \A k \in Handed : /\ k \in Token /\ token[k].state # "free" /\ token[k].user \in User
                        /\ Backed(token[k].user, token[k].tenant, Member)
                        /\ token[k].tenant \in Tenant \cup {None, "system"}
  BY DEF Handed, IInv, Tokens, Types, TokenRow
<1>3. CASE Register(q)
  <2>1. PICK u \in User \ Super, t \in Tenant \cup {None} :
          Opens(q, "register", u, t, IF t = None THEN "Guest" ELSE Member, None)
    BY <1>3 DEF Register
  <2>2. /\ AskedFor(Fresh("register", u, t, IF t = None THEN "Guest" ELSE Member, None))
        /\ ActsForOwner(Fresh("register", u, t, IF t = None THEN "Guest" ELSE Member, None))
        /\ CallIsBacked(Fresh("register", u, t, IF t = None THEN "Guest" ELSE Member, None))
    BY <1>2, SessionAssumption DEF AskedFor, ActsForOwner, CallIsBacked, Member, Manager, None
  <2>3. {"register"} \subseteq Ops \ {None}
    BY DEF Ops, None
  <2>4. {"Guest", Member, Manager} \subseteq Roles
    BY DEF Roles
  <2> HIDE DEF Fresh
  <2> QED
    BY <2>1, <2>2, <2>3, <2>4, <1>1, <1>2
<1>4. CASE Login(q)
  <2>1. PICK u \in User :
          Opens(q, "login", u, None, None, None)
    BY <1>4 DEF Login
  <2>2. /\ AskedFor(Fresh("login", u, None, None, None))
        /\ ActsForOwner(Fresh("login", u, None, None, None))
        /\ CallIsBacked(Fresh("login", u, None, None, None))
    BY <1>2, SessionAssumption DEF AskedFor, ActsForOwner, CallIsBacked, Member, Manager, None
  <2>3. {"login"} \subseteq Ops \ {None}
    BY DEF Ops, None
  <2>4. {"Guest", Member, Manager} \subseteq Roles
    BY DEF Roles
  <2> HIDE DEF Fresh
  <2> QED
    BY <2>1, <2>2, <2>3, <2>4, <1>1, <1>2
<1>5. CASE Refresh(q)
  <2>1. PICK k \in Handed :
          Opens(q, "refresh", token[k].user, token[k].tenant, Member, k)
    BY <1>5 DEF Refresh
  <2>2. /\ AskedFor(Fresh("refresh", token[k].user, token[k].tenant, Member, k))
        /\ ActsForOwner(Fresh("refresh", token[k].user, token[k].tenant, Member, k))
        /\ CallIsBacked(Fresh("refresh", token[k].user, token[k].tenant, Member, k))
    BY <1>2, SessionAssumption DEF AskedFor, ActsForOwner, CallIsBacked, Member, Manager, None
  <2>3. {"refresh"} \subseteq Ops \ {None}
    BY DEF Ops, None
  <2>4. {"Guest", Member, Manager} \subseteq Roles
    BY DEF Roles
  <2> HIDE DEF Fresh
  <2> QED
    BY <2>1, <2>2, <2>3, <2>4, <1>1, <1>2
<1>6. CASE Logout(q)
  <2>1. PICK k \in Handed :
          Opens(q, "logout", token[k].user, None, None, k)
    BY <1>6 DEF Logout
  <2>2. /\ AskedFor(Fresh("logout", token[k].user, None, None, k))
        /\ ActsForOwner(Fresh("logout", token[k].user, None, None, k))
        /\ CallIsBacked(Fresh("logout", token[k].user, None, None, k))
    BY <1>2, SessionAssumption DEF AskedFor, ActsForOwner, CallIsBacked, Member, Manager, None
  <2>3. {"logout"} \subseteq Ops \ {None}
    BY DEF Ops, None
  <2>4. {"Guest", Member, Manager} \subseteq Roles
    BY DEF Roles
  <2> HIDE DEF Fresh
  <2> QED
    BY <2>1, <2>2, <2>3, <2>4, <1>1, <1>2
<1>7. CASE SwitchTenant(q)
  <2>1. PICK u \in User, t \in Tenant, k \in Handed \cup {None} :
          Opens(q, "switch", u, t, None, k)
    BY <1>7 DEF SwitchTenant
  <2>2. /\ AskedFor(Fresh("switch", u, t, None, k))
        /\ ActsForOwner(Fresh("switch", u, t, None, k))
        /\ CallIsBacked(Fresh("switch", u, t, None, k))
    BY <2>1, <1>2, SessionAssumption DEF AskedFor, ActsForOwner, CallIsBacked, Member, Manager, None
  <2>3. {"switch"} \subseteq Ops \ {None}
    BY DEF Ops, None
  <2>4. {"Guest", Member, Manager} \subseteq Roles
    BY DEF Roles
  <2> HIDE DEF Fresh
  <2> QED
    BY <2>1, <2>2, <2>3, <2>4, <1>1, <1>2
<1>8. CASE AssignUser(q)
  <2>1. PICK u \in User, t \in Tenant, r \in {Member, Manager} :
          Opens(q, "assign", u, t, r, None)
    BY <1>8 DEF AssignUser
  <2>2. /\ AskedFor(Fresh("assign", u, t, r, None))
        /\ ActsForOwner(Fresh("assign", u, t, r, None))
        /\ CallIsBacked(Fresh("assign", u, t, r, None))
    BY <1>2, SessionAssumption DEF AskedFor, ActsForOwner, CallIsBacked, Member, Manager, None
  <2>3. {"assign"} \subseteq Ops \ {None}
    BY DEF Ops, None
  <2>4. {"Guest", Member, Manager} \subseteq Roles
    BY DEF Roles
  <2> HIDE DEF Fresh
  <2> QED
    BY <2>1, <2>2, <2>3, <2>4, <1>1, <1>2
<1>9. CASE PromoteUser(q)
  <2>1. PICK u \in User, t \in Tenant :
          Opens(q, "promote", u, t, Manager, None)
    BY <1>9 DEF PromoteUser
  <2>2. /\ AskedFor(Fresh("promote", u, t, Manager, None))
        /\ ActsForOwner(Fresh("promote", u, t, Manager, None))
        /\ CallIsBacked(Fresh("promote", u, t, Manager, None))
    BY <1>2, SessionAssumption DEF AskedFor, ActsForOwner, CallIsBacked, Member, Manager, None
  <2>3. {"promote"} \subseteq Ops \ {None}
    BY DEF Ops, None
  <2>4. {"Guest", Member, Manager} \subseteq Roles
    BY DEF Roles
  <2> HIDE DEF Fresh
  <2> QED
    BY <2>1, <2>2, <2>3, <2>4, <1>1, <1>2
<1> QED
  BY <1>3, <1>4, <1>5, <1>6, <1>7, <1>8, <1>9 DEF Arrive

\* The call of request q, with what IInv says of it.
LEMMA CallKnown ==
  ASSUME IInv, NEW q \in Call
  PROVE  /\ call[q] \in CallState
         /\ WellFormed(call[q]) /\ AskedFor(call[q])
         /\ ActsForOwner(call[q]) /\ CallIsBacked(call[q])
  BY DEF IInv, Types, Calls

\* The first queries of each use case.
LEMMA FindsKeeps ==
  ASSUME IInv, NEW q \in Call,
         \/ RegisterFinds(q) \/ LoginFinds(q) \/ RefreshFinds(q) \/ LogoutFinds(q)
         \/ SwitchFinds(q) \/ AssignFinds(q) \/ PromoteFinds(q)
  PROVE  IInv'
<1> DEFINE c == call[q]
<1>1. /\ c \in CallState /\ c.stage = "find"
      /\ WellFormed(c) /\ AskedFor(c) /\ ActsForOwner(c) /\ CallIsBacked(c)
      /\ c.user \in User
      /\ UNCHANGED <<link, token, claims, granted, overlapped>> /\ known' \subseteq User
  BY CallKnown DEF IInv, Types, RegisterFinds, LoginFinds, RefreshFinds, LogoutFinds, SwitchFinds,
                   AssignFinds, PromoteFinds, At, WellFormed
<1>2. ASSUME NEW d \in CallState, Becomes(q, d), ~(d.op = "refresh" /\ d.stage = "issue"),
             WellFormed(d), AskedFor(d), ActsForOwner(d), CallIsBacked(d)
      PROVE  IInv'
  BY <1>1, <1>2, CallOnly
<1>3. Ends(q) => IInv'
  BY <1>1, IdleIsFine, <1>2 DEF Ends, None
<1>4. \A s \in Stage : [c EXCEPT !.stage = s] \in CallState
  BY <1>1 DEF CallState
<1>5. CASE RegisterFinds(q)
  <2>1. ASSUME Goes(q, "insert") PROVE IInv'
    <3> DEFINE d == [c EXCEPT !.stage = "insert"]
    <3>1. WellFormed(d) /\ AskedFor(d) /\ ActsForOwner(d) /\ CallIsBacked(d)
      BY <1>1, <1>5 DEF RegisterFinds, CallState, WellFormed, AskedFor, ActsForOwner, CallIsBacked
    <3>2. d \in CallState /\ d.stage = "insert"
      BY <1>1 DEF CallState, Stage
    <3> QED
      BY <2>1, <3>1, <3>2, <1>2 DEF Goes
  <2> QED
    BY <1>5, <2>1, <1>3 DEF RegisterFinds
<1>6. CASE LoginFinds(q)
  <2>1. ASSUME NEW t \in Tenant \cup {"system"}, NEW r \in {"Guest", Member, Manager},
               t \in Tenant => r = link[<<c.user, t>>] /\ r # None,
               Becomes(q, [c EXCEPT !.tenant = t, !.role = r, !.stage = "issue"])
        PROVE  IInv'
    <3> DEFINE d == [c EXCEPT !.tenant = t, !.role = r, !.stage = "issue"]
    <3>1. c.op = "login"
      BY <1>6 DEF LoginFinds
    <3>2. d \in CallState
      BY <1>1 DEF CallState, Stage, Roles
    <3>3. d.op = "login" /\ d.user = c.user /\ d.tenant = t /\ d.role = r /\ d.stage = "issue"
      BY <1>1, <3>1 DEF CallState
    <3>4. WellFormed(d) /\ AskedFor(d) /\ ActsForOwner(d)
      BY <1>1, <3>3 DEF WellFormed, AskedFor, ActsForOwner, Issuing, Roles
    <3>5. CallIsBacked(d)
      BY <2>1, <3>3, RankIsNat DEF CallIsBacked, Backed
    <3> HIDE DEF d
    <3> QED
      BY <2>1, <3>2, <3>3, <3>4, <3>5, <1>2 DEF d
  <2>2. \A t \in Tenant : link[<<c.user, t>>] \in {None, Member, Manager}
    BY <1>1 DEF IInv, Types
  <2>3. CASE c.user \notin known
    BY <2>3, <1>6, <1>3 DEF LoginFinds
  <2>4. CASE c.user \in known /\ {t \in Tenant : link[<<c.user, t>>] # None} = {}
    <3>1. PICK r \in {"Guest", Member} :
            Becomes(q, [c EXCEPT !.tenant = "system", !.role = r, !.stage = "issue"])
      BY <2>4, <1>6 DEF LoginFinds
    <3> QED
      BY <3>1, <2>1, SessionAssumption
  <2>5. CASE c.user \in known /\ {t \in Tenant : link[<<c.user, t>>] # None} # {}
    <3>1. PICK t \in Tenant :
            /\ link[<<c.user, t>>] # None
            /\ Becomes(q, [c EXCEPT !.tenant = t, !.role = link[<<c.user, t>>],
                                    !.stage = "issue"])
      BY <2>5, <1>6 DEF LoginFinds
    <3> QED
      BY <3>1, <2>1, <2>2
  <2> QED
    BY <2>3, <2>4, <2>5
<1>7. ASSUME Goes(q, "revoke"), c.op \in {"refresh", "logout"}
      PROVE  IInv'
  <2> DEFINE d == [c EXCEPT !.stage = "revoke"]
  <2>1. d \in CallState /\ d.stage = "revoke"
    BY <1>1 DEF CallState, Stage
  <2>2. d.op = c.op /\ d.user = c.user /\ d.tenant = c.tenant /\ d.role = c.role
        /\ d.token = c.token
    BY <1>1 DEF CallState
  <2>3. WellFormed(d) /\ AskedFor(d) /\ ActsForOwner(d)
    BY <1>1, <1>7, <2>1, <2>2 DEF WellFormed, AskedFor, ActsForOwner, Roles
  <2>4. CallIsBacked(d)
    BY <1>1, <1>7, <2>2, SessionAssumption DEF CallIsBacked, Backed, AskedFor
  <2> QED
    BY <1>7, <2>1, <2>2, <2>3, <2>4, <1>2 DEF Goes
<1>8. CASE RefreshFinds(q)
  BY <1>8, <1>7, <1>3 DEF RefreshFinds
<1>9. CASE LogoutFinds(q)
  BY <1>9, <1>7 DEF LogoutFinds
<1>10. CASE SwitchFinds(q)
  <2> DEFINE r == link[<<c.user, c.tenant>>]
             d == [c EXCEPT !.role = IF r = None THEN "Admin" ELSE r, !.stage = "revoke"]
  <2>1. c.op = "switch" /\ c.tenant \in Tenant
    BY <1>10, <1>1 DEF SwitchFinds, AskedFor
  <2>2. r \in {None, Member, Manager}
    BY <1>1, <2>1 DEF IInv, Types
  <2>3. d \in CallState
    BY <1>1, <2>2 DEF CallState, Stage, Roles
  <2>4. /\ d.op = "switch" /\ d.user = c.user /\ d.tenant = c.tenant /\ d.token = c.token
        /\ d.stage = "revoke" /\ d.role = IF r = None THEN "Admin" ELSE r
    BY <1>1, <2>1 DEF CallState
  <2>5. WellFormed(d) /\ AskedFor(d) /\ ActsForOwner(d)
    BY <1>1, <2>1, <2>2, <2>4 DEF Roles, WellFormed, AskedFor, ActsForOwner
  <2>6. CASE r = None /\ c.user \notin Super
    BY <2>6, <1>10, <1>3 DEF SwitchFinds
  <2>7. CASE ~(r = None /\ c.user \notin Super)
    <3>1. CallIsBacked(d)
      BY <2>4, <2>7, RankIsNat DEF CallIsBacked, Backed
    <3>2. Becomes(q, d)
      BY <2>7, <1>10 DEF SwitchFinds
    <3> HIDE DEF d
    <3> QED
      BY <2>3, <2>4, <2>5, <3>1, <3>2, <1>2
  <2> QED
    BY <2>6, <2>7
<1>11. CASE AssignFinds(q)
  <2>1. ASSUME Goes(q, "link") PROVE IInv'
    <3> DEFINE d == [c EXCEPT !.stage = "link"]
    <3>1. WellFormed(d) /\ AskedFor(d) /\ ActsForOwner(d) /\ CallIsBacked(d)
      BY <1>1, <1>11 DEF AssignFinds, CallState, WellFormed, AskedFor, ActsForOwner, CallIsBacked
    <3>2. d \in CallState /\ d.stage = "link"
      BY <1>1 DEF CallState, Stage
    <3> QED
      BY <2>1, <3>1, <3>2, <1>2 DEF Goes
  <2> QED
    BY <1>11, <2>1, <1>3 DEF AssignFinds
<1>12. CASE PromoteFinds(q)
  <2>1. ASSUME Goes(q, "promote") PROVE IInv'
    <3> DEFINE d == [c EXCEPT !.stage = "promote"]
    <3>1. WellFormed(d) /\ AskedFor(d) /\ ActsForOwner(d) /\ CallIsBacked(d)
      BY <1>1, <1>12 DEF PromoteFinds, CallState, WellFormed, AskedFor, ActsForOwner, CallIsBacked
    <3>2. d \in CallState /\ d.stage = "promote"
      BY <1>1 DEF CallState, Stage
    <3> QED
      BY <2>1, <3>1, <3>2, <1>2 DEF Goes
  <2> QED
    BY <1>12, <2>1, <1>3 DEF PromoteFinds
<1> QED
  BY <1>5, <1>6, <1>8, <1>9, <1>10, <1>11, <1>12

-----------------------------------------------------------------------------
(* The writes.                                                              *)

\* The insert into users.
LEMMA InsertUserKeeps ==
  ASSUME IInv, NEW q \in Call, InsertUser(q)
  PROVE  IInv'
<1> DEFINE c == call[q]
           s == IF c.tenant = None THEN "issue" ELSE "link"
           d == [c EXCEPT !.stage = s]
<1>1. /\ c \in CallState /\ c.stage = "insert"
      /\ c.op = "register" /\ c.user \in User /\ AskedFor(c)
      /\ UNCHANGED <<link, token, claims, granted, overlapped, scene>>
  BY CallKnown DEF InsertUser, At, WellFormed, Goes, Becomes, Ends
<1>2. CASE Ends(q) /\ UNCHANGED known
  BY <1>1, <1>2, EndsHarmlessly
<1>3. CASE Goes(q, s) /\ known' = known \cup {c.user}
  <2>1. d \in CallState /\ d.stage = s /\ d.op = "register" /\ d.user = c.user
        /\ d.tenant = c.tenant /\ d.role = c.role
    BY <1>1 DEF CallState, Stage
  <2>2. AskedFor(d)
    BY <1>1, <2>1 DEF AskedFor
  <2>3. WellFormed(d)
    BY <2>1, <2>2, <1>1 DEF WellFormed, AskedFor, Issuing, Roles
  <2>4. ActsForOwner(d)
    BY <2>1 DEF ActsForOwner
  <2>5. CallIsBacked(d)
    BY <2>1, SessionAssumption DEF CallIsBacked, Backed
  <2>6. ~(d.op = "refresh" /\ d.stage = "issue")
    BY <2>1
  <2>7. Becomes(q, d) /\ known' \subseteq User
    BY <1>1, <1>3 DEF Goes, IInv, Types
  <2> HIDE DEF d
  <2> QED
    BY <1>1, <2>1, <2>2, <2>3, <2>4, <2>5, <2>6, <2>7, CallOnly
<1> QED
  BY <1>2, <1>3 DEF InsertUser

\* A row of user_tenants is inserted or raised, for the request or its answer.
LEMMA LinkWritten ==
  ASSUME IInv, NEW q \in Call, NEW c \in CallState, NEW r \in {Member, Manager},
         NEW u \in User, NEW t \in Tenant,
         link' = [link EXCEPT ![<<u, t>>] = r],
         link[<<u, t>>] = None \/ r = Manager,
         call' = [call EXCEPT ![q] = c],
         UNCHANGED <<known, token, claims, scene, overlapped>>,
         granted' \in {granted, granted \cup {<<u, t, r>>}},
         WellFormed(c), AskedFor(c), ActsForOwner(c), c.op # "refresh",
         c.stage \in {"revoke", "issue"} => c.user = u /\ c.tenant = t /\ c.role = r
  PROVE  IInv'
<1>1. link \in [User \X Tenant -> {None, Member, Manager}]
  BY DEF IInv, Types
<1>2. /\ link'[<<u, t>>] = r
      /\ \A v \in User, z \in Tenant : <<v, z>> # <<u, t>> => link'[<<v, z>>] = link[<<v, z>>]
      /\ link' \in [User \X Tenant -> {None, Member, Manager}]
  BY <1>1
<1>3. LinkGrows
  <2> SUFFICES ASSUME NEW v \in User, NEW z \in Tenant
               PROVE  /\ link[<<v, z>>] # None => link'[<<v, z>>] # None
                      /\ Rank(link[<<v, z>>]) <= Rank(link'[<<v, z>>])
    BY DEF LinkGrows
  <2>1. link[<<v, z>>] \in {None, Member, Manager}
    BY <1>1
  <2> QED
    BY <2>1, <1>2 DEF Rank, None, Member, Manager
<1>4. granted' \subseteq User \X Tenant \X {Member, Manager}
  BY DEF IInv, Types
<1>5. GrantsHold'
  <2> SUFFICES ASSUME NEW g \in granted'
               PROVE  Rank(g[3]) <= Rank(link'[<<g[1], g[2]>>])
    BY DEF GrantsHold
  <2>1. CASE g \in granted
    <3>1. Rank(g[3]) <= Rank(link[<<g[1], g[2]>>]) /\ g[1] \in User /\ g[2] \in Tenant
      BY <2>1 DEF IInv, Types, GrantsHold
    <3>2. Rank(link[<<g[1], g[2]>>]) <= Rank(link'[<<g[1], g[2]>>])
      BY <3>1, <1>3 DEF LinkGrows
    <3> QED
      BY <3>1, <3>2, RankIsNat
  <2>2. CASE g = <<u, t, r>>
    BY <2>2, <1>2, RankIsNat
  <2> QED
    BY <2>1, <2>2
<1>6. CallIsBacked(c)'
  BY <1>2, RankIsNat DEF CallIsBacked, Backed, None, Member, Manager
<1>7. ~(c.op = "refresh" /\ c.stage = "issue")
  OBVIOUS
<1>8. known' \subseteq User
  BY DEF IInv, Types
<1> QED
  BY <1>2, <1>3, <1>4, <1>5, <1>6, <1>7, <1>8, CallMoves

\* The insert into user_tenants, of a registration or an assignment.
LEMMA InsertLinkKeeps ==
  ASSUME IInv, NEW q \in Call, InsertLink(q)
  PROVE  IInv'
<1> DEFINE c == call[q]
<1>1. /\ c \in CallState /\ c.stage = "link" /\ At(q, "link")
      /\ c.op \in {"register", "assign"} /\ c.user \in User /\ c.tenant \in Tenant
      /\ AskedFor(c)
      /\ UNCHANGED <<known, token, claims, overlapped>>
  BY CallKnown DEF InsertLink, At, WellFormed
<1>2. CASE Ends(q) /\ UNCHANGED <<link, granted>>
  BY <1>1, <1>2, EndsHarmlessly
<1>3. CASE /\ link[<<c.user, c.tenant>>] = None
           /\ link' = [link EXCEPT ![<<c.user, c.tenant>>] = Member]
           /\ AfterLink(q)
  <2>1. CASE c.op = "register" /\ Goes(q, "issue") /\ UNCHANGED granted
    <3> DEFINE d == [c EXCEPT !.stage = "issue"]
    <3>1. d \in CallState /\ d.stage = "issue" /\ d.op = "register" /\ d.user = c.user
          /\ d.tenant = c.tenant /\ d.role = c.role /\ c.role = Member
      BY <1>1, <2>1 DEF CallState, Stage, AskedFor
    <3>2. WellFormed(d) /\ AskedFor(d) /\ ActsForOwner(d)
      BY <1>1, <3>1 DEF WellFormed, AskedFor, ActsForOwner, Issuing, Roles
    <3>3. call' = [call EXCEPT ![q] = d] /\ UNCHANGED scene
      BY <2>1 DEF Goes, Becomes
    <3> HIDE DEF d
    <3> QED
      BY <1>1, <1>3, <2>1, <3>1, <3>2, <3>3, LinkWritten
  <2>2. CASE c.op = "assign" /\ c.role = Manager /\ Goes(q, "promote") /\ UNCHANGED granted
    <3> DEFINE d == [c EXCEPT !.stage = "promote"]
    <3>1. d \in CallState /\ d.stage = "promote" /\ d.op = "assign" /\ d.user = c.user
          /\ d.tenant = c.tenant /\ d.role = Manager
      BY <1>1, <2>2 DEF CallState, Stage
    <3>2. WellFormed(d) /\ AskedFor(d) /\ ActsForOwner(d)
      BY <1>1, <3>1 DEF WellFormed, AskedFor, ActsForOwner
    <3>3. call' = [call EXCEPT ![q] = d] /\ UNCHANGED scene
      BY <2>2 DEF Goes, Becomes
    <3> HIDE DEF d
    <3> QED
      BY <1>1, <1>3, <2>2, <3>1, <3>2, <3>3, LinkWritten
  <2>3. CASE c.op = "assign" /\ c.role # Manager /\ Ends(q) /\ Answers(q)
    <3>1. c.role = Member
      BY <1>1, <2>3 DEF AskedFor
    <3>2. call' = [call EXCEPT ![q] = Idle] /\ UNCHANGED scene
      BY <2>3 DEF Ends, Becomes
    <3>3. granted' = granted \cup {<<c.user, c.tenant, Member>>}
      BY <2>3, <3>1 DEF Answers
    <3>4. Idle.op # "refresh" /\ Idle.stage \notin {"revoke", "issue"}
      BY IdleIsFine DEF None
    <3> QED
      BY <1>1, <1>3, <3>2, <3>3, <3>4, IdleIsFine, LinkWritten
  <2> QED
    BY <1>3, <2>1, <2>2, <2>3 DEF AfterLink
<1> QED
  BY <1>2, <1>3 DEF InsertLink

\* The promotion.
LEMMA UpdateRoleKeeps ==
  ASSUME IInv, NEW q \in Call, UpdateRole(q)
  PROVE  IInv'
<1> DEFINE c == call[q]
<1>1. /\ At(q, "promote") /\ c.role = Manager /\ c.user \in User /\ c.tenant \in Tenant
      /\ UNCHANGED <<known, token, claims, overlapped>>
      /\ link' = [link EXCEPT ![<<c.user, c.tenant>>] = Manager]
  BY CallKnown DEF UpdateRole, At, WellFormed
<1>2. call' = [call EXCEPT ![q] = Idle] /\ UNCHANGED scene
  BY DEF UpdateRole, Ends, Becomes
<1>3. granted' = granted \cup {<<c.user, c.tenant, Manager>>}
  BY <1>1 DEF UpdateRole, Answers
<1>4. Idle.op # "refresh" /\ Idle.stage \notin {"revoke", "issue"}
  BY IdleIsFine DEF None
<1> QED
  BY <1>1, <1>2, <1>3, <1>4, IdleIsFine, LinkWritten

-----------------------------------------------------------------------------
(* The tokens.                                                              *)

\* The revocation, which makes way for one successor only.
LEMMA RevokeKeeps ==
  ASSUME IInv, NEW q \in Call, Revoke(q)
  PROVE  IInv'
<1> DEFINE c == call[q]
           k == call[q].token
           d == IF c.op = "logout" THEN Idle ELSE [c EXCEPT !.stage = "issue"]
<1>1. /\ c \in CallState /\ c.stage = "revoke" /\ c.op \in {"refresh", "logout", "switch"}
      /\ c.user \in User /\ (c.op # "logout" => c.role \in Roles)
      /\ AskedFor(c) /\ CallIsBacked(c)
      /\ k \in Token => token[k].state # "free"
      /\ c.op # "switch" => k \in Token /\ token[k].user = c.user
  BY CallKnown DEF Revoke, At, WellFormed, ActsForOwner
<1>2. /\ UNCHANGED <<known, link, claims, granted, scene>>
      /\ token' = [n \in Token |-> IF n = k THEN [token[n] EXCEPT !.state = "revoked"] ELSE token[n]]
      /\ overlapped' = (overlapped \/ (c.op = "refresh" /\ token[k].state = "revoked"))
      /\ call' = [call EXCEPT ![q] = d]
  BY DEF Revoke, AfterRevoke, Ends, Goes, Becomes
<1>3. /\ d \in CallState
      /\ c.op = "logout" => d = Idle
      /\ c.op # "logout" => /\ d.stage = "issue" /\ d.op = c.op /\ d.user = c.user
                            /\ d.tenant = c.tenant /\ d.role = c.role /\ d.token = c.token
  BY <1>1, IdleIsFine DEF CallState, Stage
<1>4. call \in [Call -> CallState] /\ token \in [Token -> TokenRow]
  BY DEF IInv, Types
<1>5. call'[q] = d /\ \A p \in Call : p # q => call'[p] = call[p]
  BY <1>2, <1>4
<1>6. /\ token' \in [Token -> TokenRow]
      /\ \A n \in Token : token'[n].state = IF n = k THEN "revoked" ELSE token[n].state
      /\ \A n \in Token : token'[n].state = "free" <=> token[n].state = "free"
      /\ \A n \in Token : token'[n].user = token[n].user /\ token'[n].from = token[n].from
                          /\ token'[n].tenant = token[n].tenant /\ token'[n].line = token[n].line
  BY <1>1, <1>2, <1>4 DEF TokenRow
<1>7. Types'
  <2>1. call' \in [Call -> CallState]
    BY <1>2, <1>3, <1>4
  <2>2. overlapped' \in BOOLEAN
    BY <1>2 DEF IInv, Types
  <2> QED
    BY <1>2, <1>6, <2>1, <2>2 DEF IInv, Types
<1> HIDE DEF d
<1>8. Calls'
  <2> SUFFICES ASSUME NEW p \in Call
               PROVE  /\ WellFormed(call'[p]) /\ AskedFor(call'[p])
                      /\ ActsForOwner(call[p])' /\ CallIsBacked(call[p])'
    BY DEF Calls, WellFormed, AskedFor
  <2>1. CASE p = q /\ c.op = "logout"
    <3>1. call'[p] = Idle
      BY <2>1, <1>3, <1>5
    <3> QED
      BY <3>1, IdleIsFine DEF ActsForOwner, CallIsBacked, None
  <2>2. CASE p = q /\ c.op # "logout"
    <3>1. /\ call'[p].stage = "issue" /\ call'[p].op = c.op /\ call'[p].user = c.user
          /\ call'[p].tenant = c.tenant /\ call'[p].role = c.role /\ call'[p].token = k
      BY <2>2, <1>3, <1>5
    <3>2. WellFormed(call'[p])
      BY <1>1, <2>2, <3>1 DEF WellFormed, Issuing
    <3>3. AskedFor(call'[p])
      BY <1>1, <2>2, <3>1 DEF AskedFor
    <3>4. ActsForOwner(call[p])'
      BY <2>2, <1>1, <1>6, <3>1 DEF ActsForOwner
    <3>5. CallIsBacked(call[p])'
      BY <1>1, <1>2, <3>1 DEF CallIsBacked, Backed
    <3> QED
      BY <3>2, <3>3, <3>4, <3>5
  <2>3. CASE p # q
    <3>1. call'[p] = call[p]
      BY <2>3, <1>5
    <3>2. ActsForOwner(call[p])'
      BY <3>1, CallKnown, <1>6 DEF ActsForOwner
    <3>3. CallIsBacked(call[p])'
      BY <3>1, CallKnown, <1>2 DEF CallIsBacked, Backed
    <3> QED
      BY <3>1, <3>2, <3>3, CallKnown
  <2> QED
    BY <2>1, <2>2, <2>3
<1>9. Tokens'
  BY <1>1, <1>2, <1>6 DEF IInv, Tokens, Backed
<1>10. ClaimsAreBacked' /\ GrantsHold'
  BY <1>2 DEF IInv, ClaimsAreBacked, GrantsHold
<1>11. ~overlapped' => ~overlapped /\ (c.op = "refresh" => token[k].state # "revoked")
  BY <1>2
<1>12. OneSuccessor'
  <2> SUFFICES ASSUME ~overlapped' PROVE
         /\ \A n \in Token : token'[n].from \in Token => token'[token'[n].from].state = "revoked"
         /\ \A p \in Call, j \in Token : Exchanges(call'[p], j) =>
              /\ token'[j].state = "revoked"
              /\ \A n \in Token : token'[n].from # j
              /\ \A r \in Call : Exchanges(call'[r], j) => r = p
    BY DEF OneSuccessor, Exchanges
  <2>1. /\ \A n \in Token : token[n].from \in Token => token[token[n].from].state = "revoked"
        /\ \A p \in Call, j \in Token : Exchanges(call[p], j) =>
             /\ token[j].state = "revoked"
             /\ \A n \in Token : token[n].from # j
             /\ \A r \in Call : Exchanges(call[r], j) => r = p
    BY <1>11 DEF IInv, OneSuccessor
  <2>2. \A n \in Token : token[n].state = "revoked" => token'[n].state = "revoked"
    BY <1>6
  <2>3. \A p \in Call, j \in Token : p # q /\ Exchanges(call'[p], j) => Exchanges(call[p], j)
    BY <1>5
  <2>4. \A j \in Token : Exchanges(call'[q], j) => j = k /\ token[k].state # "revoked"
    <3>1. CASE c.op = "logout"
      BY <3>1, <1>3, <1>5, IdleIsFine DEF Exchanges, None
    <3>2. CASE c.op # "logout"
      BY <3>2, <1>3, <1>5, <1>11 DEF Exchanges
    <3> QED
      BY <3>1, <3>2
  <2>5. \A n \in Token : token'[n].from \in Token => token'[token'[n].from].state = "revoked"
    BY <1>6, <2>1, <2>2
  <2>6. ASSUME NEW p \in Call, NEW j \in Token, Exchanges(call'[p], j)
        PROVE  /\ token'[j].state = "revoked"
               /\ \A n \in Token : token'[n].from # j
               /\ \A r \in Call : Exchanges(call'[r], j) => r = p
    BY <2>6, <1>1, <1>6, <2>1, <2>2, <2>3, <2>4
  <2> QED
    BY <2>5, <2>6
<1>13. SpentOnce'
  BY <1>6, <1>11 DEF IInv, SpentOnce
<1>14. LinesEnd' /\ OneLivePerLogin'
  <2>1. \A n \in Token : token'[n].state = "live" => token[n].state = "live" /\ n # k
    BY <1>6
  <2>2. \A n \in Token : token'[n].state # "free" =>
          token'[n].line \in Token /\ token'[token'[n].line].state # "free"
    BY <1>6 DEF IInv, LinesEnd
  <2>3. OneLivePerLogin'
    BY <2>1, <1>6, <1>11 DEF IInv, OneLivePerLogin
  <2>4. \A p \in Call : Continues(call[p]) => call[p].token \in Token
    BY CallKnown DEF Continues, ActsForOwner
  <2>5. \A p \in Call : p # q /\ Continues(call'[p]) =>
          Continues(call[p]) /\ call'[p].token = call[p].token
    BY <1>5
  <2>6. Continues(call'[q]) => /\ c.op = "refresh" /\ call'[q].token = k /\ k \in Token
    <3>1. CASE c.op = "logout"
      BY <3>1, <1>3, <1>5, IdleIsFine DEF Continues, None
    <3>2. CASE c.op # "logout"
      BY <3>2, <1>1, <1>3, <1>5 DEF Continues
    <3> QED
      BY <3>1, <3>2
  <2>7. ASSUME ~overlapped', Continues(call'[q])
        PROVE  token[k].state = "live"
    BY <2>6, <2>7, <1>1, <1>4, <1>11 DEF TokenRow
  <2>8. ASSUME ~overlapped', NEW p \in Call, Continues(call'[p])
        PROVE  /\ \A n \in Token :
                    token'[n].state = "live" => token'[n].line # token'[call'[p].token].line
               /\ \A r \in Call :
                    Continues(call'[r]) /\ token'[call'[r].token].line = token'[call'[p].token].line
                      => r = p
    <3>1. ~overlapped
      BY <2>8, <1>11
    <3>2. \A r \in Call : r # q /\ Continues(call'[r]) =>
            /\ call'[r].token \in Token
            /\ \A n \in Token : token[n].state = "live" => token[n].line # token[call'[r].token].line
            /\ \A o \in Call : o # q /\ Continues(call'[o])
                 /\ token[call'[o].token].line = token[call'[r].token].line => o = r
      BY <3>1, <2>4, <2>5 DEF IInv, LinesEnd
    <3>3. CASE p = q
      <4>1. call'[p].token = k /\ k \in Token /\ token[k].state = "live"
        BY <3>3, <2>6, <2>7, <2>8
      <4>2. \A n \in Token : token'[n].state = "live" => token'[n].line # token'[k].line
        BY <4>1, <3>1, <2>1, <1>6 DEF IInv, OneLivePerLogin
      <4>3. \A r \in Call : r # q /\ Continues(call'[r]) => token'[call'[r].token].line # token'[k].line
        BY <4>1, <3>2, <1>6
      <4> QED
        BY <3>3, <4>1, <4>2, <4>3
    <3>4. CASE p # q
      <4>1. \A n \in Token : token'[n].state = "live" => token'[n].line # token'[call'[p].token].line
        BY <3>4, <3>2, <2>1, <2>8, <1>6
      <4>2. ASSUME NEW r \in Call, Continues(call'[r]),
                   token'[call'[r].token].line = token'[call'[p].token].line
            PROVE  r = p
        <5>1. CASE r = q
          <6>1. call'[r].token = k /\ k \in Token /\ token[k].state = "live"
            BY <5>1, <4>2, <2>6, <2>7, <2>8
          <6> QED
            BY <6>1, <4>2, <3>4, <3>2, <2>8, <1>6
        <5>2. CASE r # q
          BY <5>2, <4>2, <3>4, <3>2, <2>8, <1>6
        <5> QED
          BY <5>1, <5>2
      <4> QED
        BY <4>1, <4>2
    <3> QED
      BY <3>3, <3>4
  <2>9. LinesEnd'
    BY <2>2, <2>8 DEF LinesEnd, Continues
  <2> QED
    BY <2>3, <2>9
<1> QED
  BY <1>7, <1>8, <1>9, <1>10, <1>12, <1>13, <1>14 DEF IInv

\* The two new tokens.
LEMMA IssueKeeps ==
  ASSUME IInv, NEW q \in Call, Issue(q)
  PROVE  IInv'
<1> DEFINE c == call[q]
           from == IF c.op = "refresh" THEN c.token ELSE None
           line(n) == IF c.op = "refresh" THEN token[c.token].line ELSE n
           claim == [user |-> c.user, tenant |-> c.tenant, role |-> c.role,
                     super |-> c.user \in Super /\ c.op # "refresh"]
<1>1. /\ c \in CallState /\ c.stage = "issue" /\ c.op \in Issuing
      /\ c.user \in User /\ c.role \in Roles
      /\ ActsForOwner(c) /\ Backed(c.user, c.tenant, c.role)
  BY CallKnown DEF Issue, At, WellFormed, CallIsBacked
<1>2. /\ UNCHANGED <<known, link, granted, scene, overlapped>>
      /\ claims' = claims \cup {claim}
      /\ call' = [call EXCEPT ![q] = Idle]
  BY DEF Issue, Ends, Becomes
<1>3. PICK k \in Token :
        /\ token[k].state = "free"
        /\ token' = [token EXCEPT ![k] = [state |-> "live", user |-> c.user,
                                          tenant |-> c.tenant, from |-> from,
                                          line |-> line(k)]]
  BY DEF Issue
<1>4. call \in [Call -> CallState] /\ token \in [Token -> TokenRow]
      /\ link \in [User \X Tenant -> {None, Member, Manager}]
  BY DEF IInv, Types
<1>5. call'[q] = Idle /\ \A p \in Call : p # q => call'[p] = call[p]
  BY <1>2, <1>4
<1>6. /\ token'[k].state = "live" /\ token'[k].user = c.user /\ token'[k].tenant = c.tenant
      /\ token'[k].from = from /\ token'[k].line = line(k)
      /\ \A n \in Token : n # k => token'[n] = token[n]
  BY <1>3, <1>4
<1>7. from \in Token \cup {None} /\ (from \in Token => c.op = "refresh" /\ from = c.token)
  BY <1>1, SessionAssumption DEF ActsForOwner
<1>17. line(k) \in Token
  BY <1>1, <1>3 DEF ActsForOwner, IInv, LinesEnd
<1> HIDE DEF from, line
<1>8. Types'
  <2>1. claim \in ClaimRow
    BY <1>1 DEF ClaimRow, CallState
  <2>2. token' \in [Token -> TokenRow]
    BY <1>1, <1>3, <1>4, <1>7, <1>17 DEF TokenRow, CallState
  <2>3. call' \in [Call -> CallState]
    BY <1>2, <1>4, IdleIsFine
  <2> HIDE DEF claim
  <2> QED
    BY <1>2, <2>1, <2>2, <2>3 DEF IInv, Types
<1>9. Calls'
  <2> SUFFICES ASSUME NEW p \in Call
               PROVE  /\ WellFormed(call'[p]) /\ AskedFor(call'[p])
                      /\ ActsForOwner(call[p])' /\ CallIsBacked(call[p])'
    BY DEF Calls, WellFormed, AskedFor
  <2>1. CASE p = q
    <3>1. call'[p] = Idle
      BY <2>1, <1>5
    <3> QED
      BY <3>1, IdleIsFine DEF ActsForOwner, CallIsBacked, None
  <2>2. CASE p # q
    <3>1. call'[p] = call[p]
      BY <2>2, <1>5
    <3>2. ActsForOwner(call[p])'
      BY <3>1, CallKnown, <1>3, <1>6 DEF ActsForOwner
    <3>3. CallIsBacked(call[p])'
      BY <3>1, CallKnown, <1>2 DEF CallIsBacked, Backed
    <3> QED
      BY <3>1, <3>2, <3>3, CallKnown
  <2> QED
    BY <2>1, <2>2
<1>10. Tokens'
  <2>1. Backed(c.user, c.tenant, Member)
    BY <1>1, <1>4 DEF Backed, Rank, Member, Manager, None
  <2> QED
    BY <1>1, <1>2, <1>6, <2>1 DEF IInv, Tokens, Backed
<1>11. ClaimsAreBacked' /\ GrantsHold'
  <2>1. claim.tenant \in Tenant /\ claim.user \notin Super
          => Rank(claim.role) <= Rank(link[<<claim.user, claim.tenant>>])
    BY <1>1 DEF Backed
  <2> HIDE DEF claim
  <2> QED
    BY <1>2, <2>1 DEF IInv, ClaimsAreBacked, GrantsHold
<1>12. ~overlapped =>
         /\ \A n \in Token : token[n].from \in Token => token[token[n].from].state = "revoked"
         /\ \A p \in Call, j \in Token : Exchanges(call[p], j) =>
              /\ token[j].state = "revoked"
              /\ \A n \in Token : token[n].from # j
              /\ \A r \in Call : Exchanges(call[r], j) => r = p
  BY DEF IInv, OneSuccessor
<1>13. from \in Token => Exchanges(call[q], from)
  BY <1>1, <1>7 DEF Exchanges
<1>14. OneSuccessor'
  <2> SUFFICES ASSUME ~overlapped PROVE
         /\ \A n \in Token : token'[n].from \in Token => token'[token'[n].from].state = "revoked"
         /\ \A p \in Call, j \in Token : Exchanges(call'[p], j) =>
              /\ token'[j].state = "revoked"
              /\ \A n \in Token : token'[n].from # j
              /\ \A r \in Call : Exchanges(call'[r], j) => r = p
    BY <1>2 DEF OneSuccessor, Exchanges
  <2>1. \A p \in Call, j \in Token : Exchanges(call'[p], j) => p # q /\ Exchanges(call[p], j)
    BY <1>5, IdleIsFine DEF Exchanges, None
  <2>2. \A n \in Token : token[n].state = "revoked" => token'[n].state = "revoked"
    BY <1>3, <1>6
  <2>3. \A n \in Token : token'[n].from \in Token => token'[token'[n].from].state = "revoked"
    BY <1>6, <1>12, <1>13, <2>2
  <2>4. ASSUME NEW p \in Call, NEW j \in Token, Exchanges(call'[p], j)
        PROVE  /\ token'[j].state = "revoked"
               /\ \A n \in Token : token'[n].from # j
               /\ \A r \in Call : Exchanges(call'[r], j) => r = p
    BY <2>4, <2>1, <2>2, <1>6, <1>12, <1>13
  <2> QED
    BY <2>3, <2>4
<1>15. SpentOnce'
  <2> SUFFICES ASSUME ~overlapped, NEW m \in Token, NEW n \in Token,
                      token'[m].from # None, token'[m].from = token'[n].from
               PROVE  m = n
    BY <1>2 DEF SpentOnce
  <2>1. token'[m].from \in Token
    BY <1>4, <1>6, <1>7 DEF TokenRow
  <2> QED
    BY <2>1, <1>6, <1>12, <1>13 DEF IInv, SpentOnce
<1>16. LinesEnd' /\ OneLivePerLogin'
  <2>1. \A p \in Call : Continues(call'[p]) => p # q /\ call'[p] = call[p] /\ call[p].token \in Token
                                             /\ token[call[p].token].state # "free"
    BY <1>5, CallKnown, IdleIsFine DEF Continues, ActsForOwner, None
  <2>2. \A n \in Token : token[n].state # "free" =>
          n # k /\ token[n].line \in Token /\ token[n].line # k /\ token[token[n].line].state # "free"
    BY <1>3 DEF IInv, LinesEnd
  <2>3. c.op # "refresh" => line(k) = k
    BY DEF line
  <2>4. c.op = "refresh" => /\ Continues(c) /\ c.token \in Token /\ token[c.token].state # "free"
                            /\ line(k) = token[c.token].line
    BY <1>1 DEF line, Continues, ActsForOwner
  <2>5. token'[line(k)].state # "free"
    BY <2>2, <2>3, <2>4, <1>6
  <2>6. \A n \in Token : token'[n].state # "free" =>
          token'[n].line \in Token /\ token'[token'[n].line].state # "free"
    BY <2>2, <2>5, <1>6, <1>17
  <2>7. ASSUME ~overlapped, NEW n \in Token, token[n].state = "live"
        PROVE  token[n].line # line(k)
    BY <2>2, <2>3, <2>4, <2>7 DEF IInv, LinesEnd
  <2>8. ASSUME ~overlapped, NEW p \in Call, p # q, Continues(call[p]), call[p].token \in Token,
               token[call[p].token].state # "free"
        PROVE  token[call[p].token].line # line(k)
    BY <2>2, <2>3, <2>4, <2>8 DEF IInv, LinesEnd
  <2>9. OneLivePerLogin'
    BY <2>7, <1>2, <1>6 DEF IInv, OneLivePerLogin
  <2>10. ASSUME ~overlapped, NEW p \in Call, Continues(call'[p])
         PROVE  /\ \A n \in Token :
                     token'[n].state = "live" => token'[n].line # token'[call'[p].token].line
                /\ \A r \in Call :
                     Continues(call'[r]) /\ token'[call'[r].token].line = token'[call'[p].token].line
                       => r = p
    <3>1. \A r \in Call : Continues(call'[r]) =>
            call'[r] = call[r] /\ token'[call'[r].token] = token[call[r].token]
      BY <2>1, <1>3, <1>6
    <3> QED
      BY <3>1, <2>1, <2>8, <2>10, <1>6 DEF IInv, LinesEnd
  <2>11. LinesEnd'
    BY <2>6, <2>10, <1>2 DEF LinesEnd, Continues
  <2> QED
    BY <2>9, <2>11
<1> QED
  BY <1>8, <1>9, <1>10, <1>11, <1>14, <1>15, <1>16 DEF IInv

\* A request that is cut off.
LEMMA BreaksKeeps ==
  ASSUME IInv, NEW q \in Call, Breaks(q)
  PROVE  IInv'
<1>1. /\ call' = [call EXCEPT ![q] = Idle]
      /\ UNCHANGED <<known, link, token, claims, granted, overlapped, scene>>
  BY DEF Breaks, Ends, Becomes
<1>3. LinkGrows /\ GrantsHold' /\ CallIsBacked(Idle)'
  <2>1. LinkGrows /\ GrantsHold'
    BY <1>1, RankIsNat DEF LinkGrows, GrantsHold, IInv
  <2>2. CallIsBacked(Idle)'
    BY IdleIsFine DEF CallIsBacked, None
  <2> QED
    BY <2>1, <2>2
<1>4. ~(Idle.op = "refresh" /\ Idle.stage = "issue")
  BY IdleIsFine
<1>5. /\ known' \subseteq User
      /\ link' \in [User \X Tenant -> {None, Member, Manager}]
      /\ granted' \subseteq User \X Tenant \X {Member, Manager}
  BY <1>1 DEF IInv, Types
<1> QED
  BY <1>1, <1>3, <1>4, <1>5, IdleIsFine, CallMoves

-----------------------------------------------------------------------------
(* The theorems.                                                            *)

\* Every step keeps the invariant.
LEMMA NextInv == IInv /\ [Next]_vars => IInv'
<1> SUFFICES ASSUME IInv, [Next]_vars PROVE IInv'
  OBVIOUS
<1>1. ASSUME NEW q \in Call, Arrive(q) \/ Step(q) \/ Breaks(q) PROVE IInv'
  BY <1>1, ArriveKeeps, FindsKeeps, InsertUserKeeps, InsertLinkKeeps, UpdateRoleKeeps,
     RevokeKeeps, IssueKeeps, BreaksKeeps DEF Step
<1>2. CASE UNCHANGED vars
  BY <1>2 DEF vars, IInv, Types, Calls, WellFormed, AskedFor, ActsForOwner, CallIsBacked,
     Backed, Tokens, ClaimsAreBacked, GrantsHold, OneSuccessor, Exchanges, SpentOnce,
     LinesEnd, Continues, OneLivePerLogin
<1> QED
  BY <1>1, <1>2 DEF Next

\* The invariant holds in every state.
LEMMA Invariance == Spec => []IInv
<1> QED
  BY InitInv, NextInv, PTL DEF Spec

\* TypeOK holds for any number of users, tenants, tokens and requests.
THEOREM SessionTypeCorrect == Spec => []TypeOK
<1>1. IInv => TypeOK
  BY DEF IInv, Types, TypeOK, TokenRow, CallState, ClaimRow
<1> QED
  BY <1>1, Invariance, PTL

\* jwtService: an access token says no more than the row in user_tenants.
THEOREM ClaimsBacked == Spec => []ClaimsAreBacked
<1>1. IInv => ClaimsAreBacked
  BY DEF IInv
<1> QED
  BY <1>1, Invariance, PTL

\* refresh: a token is exchanged once, unless two refreshes of it overlapped.
THEOREM ExchangedOnce == Spec => []SpentOnce
<1>1. IInv => SpentOnce
  BY DEF IInv
<1> QED
  BY <1>1, Invariance, PTL

\* assign and promote: what was answered with success stays true.
THEOREM GrantsAreKept == Spec => []GrantsHold
<1>1. IInv => GrantsHold
  BY DEF IInv
<1> QED
  BY <1>1, Invariance, PTL

\* refresh: of one login, registration or switch at most one token is live, also
\* when an exchange is cut off between its writes or others revoke its tokens,
\* unless two refreshes overlapped.
THEOREM LoginsStaySingle == Spec => []OneLivePerLogin
<1>1. IInv => OneLivePerLogin
  BY DEF IInv
<1> QED
  BY <1>1, Invariance, PTL
=============================================================================
