------------------------------ MODULE MasterData ------------------------------
(***************************************************************************)
(* The rows a tenant's appointments refer to, and the tenants themselves:  *)
(* their REST endpoints over the repositories of the API, and the          *)
(* read-through cache that some of the repositories keep in Redis.         *)
(*                                                                         *)
(* A request runs through up to five stages: rows it looks up by id, most  *)
(* of them through the cache (find, select, fill), a check against the     *)
(* database, a write, and an invalidation.  The await between two stages   *)
(* is where other requests, of this process or another, come in.           *)
(*                                                                         *)
(* Content is a version number; the rows of one kind all want the same     *)
(* name (or email), so that the unique indexes matter.  A PUT that renames *)
(* a row into a taken name changes nothing and is left out, and so are     *)
(* requests refused for their form or for the role of the caller, and the  *)
(* lists, which read the database only.                                    *)
(*                                                                         *)
(* The variable accidents is auxiliary: races lost and failures met.       *)
(***************************************************************************)
EXTENDS Naturals, Sequences, FiniteSets

CONSTANTS
  Bay, Technician, ServiceType, Vehicle, Tenant,  \* ids of rows, by kind
  Seeded,      \* the rows there at the start
  Scenes,      \* by name, what requests may arrive in one behaviour
  Request,     \* requests in flight at once
  Faults,      \* the classes of failure an instance considers
  MaxVersion   \* bound on the versions of a row

Row == Bay \cup Technician \cup ServiceType \cup Vehicle \cup Tenant

\* Each kind of row has a table of its own.
ASSUME KindsAssumption ==
  /\ Bay \cap (Technician \cup ServiceType \cup Vehicle \cup Tenant) = {}
  /\ Technician \cap (ServiceType \cup Vehicle \cup Tenant) = {}
  /\ ServiceType \cap (Vehicle \cup Tenant) = {}
  /\ Vehicle \cap Tenant = {}

ASSUME MasterDataAssumption ==
  /\ Seeded \subseteq Row
  /\ MaxVersion \in Nat \ {0}
  /\ Faults \subseteq {"redis",   \* a Redis command throws
                       "crash"}   \* the process of a request dies

VARIABLES
  version,    \* of each row, 0 if it was never inserted
  deleted,    \* the rows with a deletedAt, and the tenants not active
  cached,     \* version in the hash of each row, 0 if there is none
  expires,    \* the hash has an expiry
  skills,     \* rows of technician_skills
  booked,     \* vehicle and service type of each appointment
  request,    \* what each request is at
  scene,      \* which of the scenes this behaviour is
  accidents

store == <<version, deleted, skills, booked>>
cache == <<cached, expires>>
vars == <<store, cache, request, scene, accidents>>

-----------------------------------------------------------------------------
(* The repositories: the rows of a kind, whether an index makes their name  *)
(* or email unique, whether their finders see what is deleted, and which    *)
(* operations the cached repository reads through its cache or follows by   *)
(* an invalidation.                                                         *)

DrizzleServiceBays  == [rows |-> Bay, unique |-> TRUE, seesDeleted |-> FALSE]
DrizzleTechnicians  == [rows |-> Technician, unique |-> TRUE, seesDeleted |-> FALSE]
DrizzleServiceTypes == [rows |-> ServiceType, unique |-> TRUE, seesDeleted |-> FALSE]
DrizzleVehicles     == [rows |-> Vehicle, unique |-> FALSE, seesDeleted |-> FALSE]
DrizzleTenants      == [rows |-> Tenant, unique |-> TRUE, seesDeleted |-> TRUE]

Repository(r) ==
  CHOOSE d \in {DrizzleServiceBays, DrizzleTechnicians, DrizzleServiceTypes,
                DrizzleVehicles, DrizzleTenants} : r \in d.rows

CachedServiceBays  == [rows |-> Bay, invalidatedBy |-> {"put", "delete"}]
CachedTechnicians  == [rows |-> Technician, invalidatedBy |-> {"put", "delete"}]
CachedServiceTypes == [rows |-> ServiceType, invalidatedBy |-> {"put", "delete"}]
CachedVehicles     == [rows |-> Vehicle, invalidatedBy |-> {"put", "delete"}]

InvalidatedBy(r) ==
  UNION {c.invalidatedBy : c \in {d \in {CachedServiceBays, CachedTechnicians,
           CachedServiceTypes, CachedVehicles} : r \in d.rows}}

Siblings(r) == Repository(r).rows

\* What findById selects: the version of the row, 0 if it finds none.
Selected(r) == IF r \in deleted /\ ~Repository(r).seesDeleted THEN 0 ELSE version[r]

NameFound(r) == \E s \in Siblings(r) : Selected(s) > 0

\* The unique indexes do not look at deletedAt.
NameTaken(r) == Repository(r).unique /\ \E s \in Siblings(r) : version[s] > 0

-----------------------------------------------------------------------------
(* The requests each router serves.                                         *)

Crud == {"create", "get", "put", "delete"}

ServiceBayRoutes  == [op : Crud, rows : {<<b>> : b \in Bay}]
ServiceTypeRoutes == [op : Crud, rows : {<<s>> : s \in ServiceType}]
VehicleRoutes     == [op : Crud, rows : {<<v>> : v \in Vehicle}]
TenantRoutes      == [op : Crud, rows : {<<t>> : t \in Tenant}]
TechnicianRoutes  ==
  [op : Crud, rows : {<<t>> : t \in Technician}]
  \cup [op : {"addSkill", "dropSkill"}, rows : Technician \X ServiceType]
AppointmentRoutes == [op : {"book"}, rows : Vehicle \X ServiceType]

Routes ==
  ServiceBayRoutes \cup ServiceTypeRoutes \cup VehicleRoutes \cup TenantRoutes
    \cup TechnicianRoutes \cup AppointmentRoutes

\* Whether the use case, or the router, looks its rows up by id first.
Looks(c) ==
  \/ c.op \in {"get", "addSkill", "book"}
  \/ c.op = "put" /\ c.rows[1] \in Vehicle \cup Tenant
  \/ c.op = "delete" /\ c.rows[1] \in Vehicle \cup ServiceType

\* Whether it then checks something in the database before it writes.
Checks(c) ==
  \/ c.op = "create" /\ Repository(c.rows[1]).unique
  \/ c.op = "addSkill"
  \/ c.op = "delete" /\ c.rows[1] \in ServiceType

Idle == [op |-> "none", rows |-> <<>>, stage |-> "idle", at |-> 1, got |-> 0]

AfterLookup(c) ==
  IF c.op = "get" THEN Idle
  ELSE [c EXCEPT !.stage = IF Checks(c) THEN "check" ELSE "write", !.at = 1, !.got = 0]

Init ==
  /\ version = [r \in Row |-> IF r \in Seeded THEN 1 ELSE 0]
  /\ deleted = {} /\ skills = {} /\ booked = {}
  /\ cached = [r \in Row |-> 0] /\ expires = [r \in Row |-> FALSE]
  /\ request = [q \in Request |-> Idle]
  /\ scene \in DOMAIN Scenes
  /\ accidents = {}

Becomes(q, c) == request' = [request EXCEPT ![q] = c] /\ UNCHANGED scene

Ends(q) == Becomes(q, Idle)

At(q, s) == request[q].stage = s

\* A request arrives.  The id of a row to create is new; the others may be any.
Arrive(q) ==
  /\ At(q, "idle")
  /\ \E c \in Routes \cap Scenes[scene] :
       LET d == [op |-> c.op, rows |-> c.rows, stage |-> "find", at |-> 1, got |-> 0] IN
       /\ c.op = "create" => /\ version[c.rows[1]] = 0
                             /\ \A p \in Request : c.rows # request[p].rows
       /\ c.op = "put" => version[c.rows[1]] < MaxVersion
       /\ Becomes(q, IF Looks(c) THEN d ELSE AfterLookup(d))
  /\ UNCHANGED <<store, cache, accidents>>

-----------------------------------------------------------------------------
(* Looking a row up: HGETALL, and on a miss a SELECT and an HSET.  The rows *)
(* of a request are looked up one after the other.                          *)

Sought(q) == request[q].rows[request[q].at]

Target(q) == request[q].rows[1]

\* The lookup of this row has found it.
Found(q) ==
  IF request[q].at < Len(request[q].rows)
  THEN [request[q] EXCEPT !.stage = "find", !.at = @ + 1, !.got = 0]
  ELSE AfterLookup(request[q])

\* A hit is taken as it is, also if the database has gone on since.
Hit(q) ==
  /\ At(q, "find")
  /\ cached[Sought(q)] > 0
  /\ Becomes(q, Found(q))
  /\ accidents' = accidents \cup
       (IF cached[Sought(q)] = Selected(Sought(q)) THEN {} ELSE {"staleHit"})
  /\ UNCHANGED <<store, cache>>

\* The repository of the tenants has no cache, so its lookups always miss.
Miss(q) ==
  /\ At(q, "find")
  /\ cached[Sought(q)] = 0
  /\ Becomes(q, [request[q] EXCEPT !.stage = "select"])
  /\ UNCHANGED <<store, cache, accidents>>

\* A row that is not found ends the request, and is not cached.
Select(q) ==
  /\ At(q, "select")
  /\ LET v == Selected(Sought(q)) IN
     IF v = 0 THEN Ends(q)
     ELSE IF Sought(q) \in Tenant THEN Becomes(q, Found(q))
     ELSE Becomes(q, [request[q] EXCEPT !.stage = "fill", !.got = v])
  /\ UNCHANGED <<store, cache, accidents>>

\* Deliberate fault: the hash never expires.
WrongFill(q) ==
  /\ At(q, "fill")
  /\ cached' = [cached EXCEPT ![Sought(q)] = request[q].got]
  /\ UNCHANGED expires
  /\ Becomes(q, Found(q))
  /\ accidents' = accidents \cup
       (IF request[q].got = Selected(Sought(q)) THEN {} ELSE {"leftStale"})
  /\ UNCHANGED store

\* HSET and EXPIRE in one pipeline, whatever has happened since the SELECT.
Fill(q) ==
  /\ At(q, "fill")
  /\ cached' = [cached EXCEPT ![Sought(q)] = request[q].got]
  /\ expires' = [expires EXCEPT ![Sought(q)] = TRUE]
  /\ Becomes(q, Found(q))
  /\ accidents' = accidents \cup
       (IF request[q].got = Selected(Sought(q)) THEN {} ELSE {"leftStale"})
  /\ UNCHANGED store

-----------------------------------------------------------------------------
(* The checks.  Each of them refuses the request, or lets it write.         *)

Proceeds(q) == Becomes(q, [request[q] EXCEPT !.stage = "write"])

\* The create use cases for what has a unique name or email.
CreateChecks(q) ==
  /\ At(q, "check") /\ request[q].op = "create"
  /\ IF NameFound(Target(q)) THEN Ends(q) ELSE Proceeds(q)
  /\ UNCHANGED <<store, cache, accidents>>

CreateSkillChecks(q) ==
  /\ At(q, "check") /\ request[q].op = "addSkill"
  /\ IF request[q].rows \in skills THEN Ends(q) ELSE Proceeds(q)
  /\ UNCHANGED <<store, cache, accidents>>

\* Deliberate fault: the appointments are not counted.
WrongDeleteTypeChecks(q) ==
  /\ At(q, "check") /\ request[q].op = "delete"
  /\ Proceeds(q)
  /\ UNCHANGED <<store, cache, accidents>>

\* A service type is not deleted if any appointment, also a cancelled one,
\* refers to it.
DeleteTypeChecks(q) ==
  /\ At(q, "check") /\ request[q].op = "delete"
  /\ IF \E b \in booked : b[2] = Target(q) THEN Ends(q) ELSE Proceeds(q)
  /\ UNCHANGED <<store, cache, accidents>>

-----------------------------------------------------------------------------
(* The writes.                                                              *)

\* An INSERT that a unique index refuses is answered with a server error.
Insert(q) ==
  /\ At(q, "write") /\ request[q].op = "create"
  /\ version' = IF NameTaken(Target(q)) THEN version ELSE [version EXCEPT ![Target(q)] = 1]
  /\ Ends(q)
  /\ UNCHANGED <<deleted, skills, booked, cache, accidents>>

\* An UPDATE of a row that is not deleted, and then the invalidation.
Update(q) ==
  /\ At(q, "write") /\ request[q].op = "put"
  /\ version[Target(q)] < MaxVersion
  /\ IF Selected(Target(q)) = 0 THEN UNCHANGED version /\ Ends(q)
     ELSE /\ version' = [version EXCEPT ![Target(q)] = @ + 1]
          /\ Becomes(q, IF "put" \in InvalidatedBy(Target(q))
                        THEN [request[q] EXCEPT !.stage = "invalidate"] ELSE Idle)
  /\ UNCHANGED <<deleted, skills, booked, cache, accidents>>

\* The bookings that have found service type s and not yet an appointment.
Booking(s) ==
  {p \in Request : /\ request[p].op = "book" /\ request[p].rows[2] = s
                   /\ At(p, "write") \/ (At(p, "fill") /\ request[p].at = 2)}

\* deletedAt is set, or a tenant made inactive; then the invalidation.
SoftDelete(q) ==
  /\ At(q, "write") /\ request[q].op = "delete"
  /\ IF Selected(Target(q)) = 0 THEN UNCHANGED <<deleted, accidents>> /\ Ends(q)
     ELSE /\ deleted' = deleted \cup {Target(q)}
          /\ accidents' = accidents \cup
               (IF Booking(Target(q)) = {} THEN {} ELSE {"crossed"})
          /\ Becomes(q, IF "delete" \in InvalidatedBy(Target(q))
                        THEN [request[q] EXCEPT !.stage = "invalidate"] ELSE Idle)
  /\ UNCHANGED <<version, skills, booked, cache>>

\* Deliberate fault: nothing is invalidated.
WrongInvalidate(q) ==
  /\ At(q, "invalidate")
  /\ Ends(q)
  /\ UNCHANGED <<store, cache, accidents>>

Invalidate(q) ==
  /\ At(q, "invalidate")
  /\ cached' = [cached EXCEPT ![Target(q)] = 0]
  /\ expires' = [expires EXCEPT ![Target(q)] = FALSE]
  /\ Ends(q)
  /\ UNCHANGED <<store, accidents>>

\* A second row for the same skill is refused by its unique index.
WriteSkill(q) ==
  /\ At(q, "write") /\ request[q].op \in {"addSkill", "dropSkill"}
  /\ skills' = IF request[q].op = "addSkill" THEN skills \cup {request[q].rows}
               ELSE skills \ {request[q].rows}
  /\ Ends(q)
  /\ UNCHANGED <<version, deleted, booked, cache, accidents>>

\* Deliberate fault: the two ids change places.
WrongBook(q) ==
  /\ At(q, "write") /\ request[q].op = "book"
  /\ booked' = booked \cup {<<request[q].rows[2], request[q].rows[1]>>}
  /\ Ends(q)
  /\ UNCHANGED <<version, deleted, skills, cache, accidents>>

\* The request is published, and the worker inserts the appointment.
Book(q) ==
  /\ At(q, "write") /\ request[q].op = "book"
  /\ booked' = booked \cup {request[q].rows}
  /\ Ends(q)
  /\ accidents' = accidents \cup
       (IF \E p \in Request : request[p].op = "delete" /\ At(p, "write")
                              /\ Target(p) = request[q].rows[2]
        THEN {"crossed"} ELSE {})
  /\ UNCHANGED <<version, deleted, skills, cache>>

-----------------------------------------------------------------------------
(* Failures, and time.                                                      *)

\* A Redis command throws, or the process dies, before or after the command.
Breaks(q) ==
  /\ Faults # {}
  /\ request[q].stage \in {"find", "fill", "invalidate"}
  /\ \/ At(q, "invalidate") /\ cached' = [cached EXCEPT ![Target(q)] = 0]
                            /\ expires' = [expires EXCEPT ![Target(q)] = FALSE]
     \/ UNCHANGED cache
  /\ Ends(q)
  /\ accidents' = accidents \cup (IF At(q, "invalidate") THEN {"leftStale"} ELSE {})
  /\ UNCHANGED store

\* Redis drops a hash after its hour.
Expire(r) ==
  /\ expires[r]
  /\ cached' = [cached EXCEPT ![r] = 0]
  /\ expires' = [expires EXCEPT ![r] = FALSE]
  /\ UNCHANGED <<store, request, scene, accidents>>

-----------------------------------------------------------------------------
Step(q) ==
  \/ Hit(q) \/ Miss(q) \/ Select(q) \/ Fill(q)
  \/ CreateChecks(q) \/ CreateSkillChecks(q) \/ DeleteTypeChecks(q)
  \/ Insert(q) \/ Update(q) \/ SoftDelete(q) \/ Invalidate(q)
  \/ WriteSkill(q) \/ Book(q)

Next ==
  \/ \E q \in Request : Arrive(q) \/ Step(q) \/ Breaks(q)
  \/ \E r \in Row : Expire(r)

\* A request that has begun goes on, and a key that expires does expire.
Fairness ==
  /\ \A q \in Request : WF_vars(Step(q))
  /\ \A r \in Row : WF_vars(Expire(r))

Spec == Init /\ [][Next]_vars /\ Fairness

-----------------------------------------------------------------------------
(* Properties.                                                              *)

Stage == {"idle", "find", "select", "fill", "check", "write", "invalidate"}

\* Every variable stays in its range.
TypeOK ==
  /\ version \in [Row -> 0 .. MaxVersion] /\ deleted \subseteq Row
  /\ cached \in [Row -> 0 .. MaxVersion] /\ expires \in [Row -> BOOLEAN]
  /\ skills \subseteq Technician \X ServiceType
  /\ booked \subseteq Vehicle \X ServiceType
  /\ scene \in DOMAIN Scenes
  /\ \A q \in Request : request[q].stage \in Stage /\ request[q].got \in 0 .. MaxVersion
  /\ accidents \subseteq {"staleHit", "leftStale", "crossed"}

Without(S) == accidents \cap S = {}

\* What is cached is what the database says, at any moment but between a write
\* and its invalidation: unless a lookup filled the cache with what it had
\* selected before a write, or an invalidation failed.
CacheFollowsRow ==
  Without({"leftStale"}) =>
    \A r \in Row :
      \/ cached[r] \in {0, Selected(r)}
      \/ \E q \in Request : At(q, "invalidate") /\ Target(q) = r

\* However late a fill is, and whatever fails, a hash that the database no
\* longer agrees with does not stay: it is gone, or right, again and again.
StaleHashGoes == \A r \in Row : []<>(cached[r] \in {0, Selected(r)})

\* No appointment refers to a deleted service type, unless the request for it
\* crossed the deletion, or found the type in a stale hash.
BookedTypeStays ==
  Without({"crossed", "staleHit"}) => \A b \in booked : b[2] \notin deleted

\* No appointment refers to a deleted vehicle.
BookedVehicleStays == \A b \in booked : b[1] \notin deleted
=============================================================================
