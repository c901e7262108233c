--------------------------- MODULE MasterDataProofs ---------------------------
(***************************************************************************)
(* Theorems about MasterData, for any rows, any number of requests in      *)
(* flight and any mix of them: what the read-through cache may say, and    *)
(* which appointments may refer to a deleted service type.                 *)
(***************************************************************************)
EXTENDS MasterData, TLAPS

(***************************************************************************)
(* The shape of a request: the rows it is about are of the kinds that its  *)
(* route serves, it looks no further than the last of them, and it fills   *)
(* the cache only for a kind that has one.                                 *)
(***************************************************************************)
OneRow == {<<r>> : r \in Row}
SkillRows == Technician \X ServiceType
BookRows == Vehicle \X ServiceType

Call ==
  [op : Crud \cup {"none", "addSkill", "dropSkill", "book"},
   rows : {<<>>} \cup OneRow \cup SkillRows \cup BookRows,
   stage : Stage, at : {1, 2}, got : 0 .. MaxVersion]

Shaped(c) ==
  /\ c \in Call
  /\ c.stage = "idle" <=> c.op = "none"
  /\ c.op \in Crud => c.rows \in OneRow /\ c.at = 1
  /\ c.op \in {"addSkill", "dropSkill"} => c.rows \in SkillRows
  /\ c.op = "book" => c.rows \in BookRows
  /\ c.stage = "fill" => c.rows[c.at] \notin Tenant

Requests == request \in [Request -> Call] /\ \A q \in Request : Shaped(request[q])

Types == TypeOK /\ Requests

(***************************************************************************)
(* What the cache depends on.                                              *)
(***************************************************************************)

\* The repository of the tenants has no cache.
TenantsUncached == \A r \in Tenant : cached[r] = 0

\* The row of a create request is inserted by nobody else.
CreatesAreNew ==
  \A q \in Request : request[q].op = "create" =>
    /\ version[Target(q)] = 0
    /\ \A p \in Request :
         p # q => ~(request[p].op = "create" /\ request[p].rows = request[q].rows)

CacheInv == Types /\ TenantsUncached /\ CreatesAreNew /\ CacheFollowsRow

(***************************************************************************)
(* What the appointments depend on.                                        *)
(***************************************************************************)

\* Without an accident, what a booking has found is not deleted before it writes.
FoundTypeStays ==
  Without({"crossed", "staleHit"}) => \A s \in ServiceType : Booking(s) # {} => s \notin deleted

\* Without an accident, what a deletion has checked gets no appointment before it writes.
CheckedTypeUnused ==
  Without({"crossed", "staleHit"}) =>
    \A q \in Request :
      request[q].op = "delete" /\ At(q, "write") /\ Target(q) \in ServiceType =>
        \A b \in booked : b[2] # Target(q)

BookInv == Types /\ FoundTypeStays /\ CheckedTypeUnused /\ BookedTypeStays

(***************************************************************************)
(* Lemmas about rows and routes.                                           *)
(***************************************************************************)
LEMMA CacheKinds ==
  ASSUME NEW r \in Row, r \notin Tenant
  PROVE  {"put", "delete"} \subseteq InvalidatedBy(r)
<1>1. PICK c \in {CachedServiceBays, CachedTechnicians, CachedServiceTypes, CachedVehicles} : r \in c.rows
  BY DEF Row, CachedServiceBays, CachedTechnicians, CachedServiceTypes, CachedVehicles
<1>2. c.invalidatedBy = {"put", "delete"}
  BY DEF CachedServiceBays, CachedTechnicians, CachedServiceTypes, CachedVehicles
<1> QED
  BY <1>1, <1>2 DEF InvalidatedBy

\* Deleted service types are not found in the database.
LEMMA DeletedTypeNotSelected ==
  ASSUME NEW s \in ServiceType, s \in deleted
  PROVE  Selected(s) = 0
<1>1. DrizzleServiceTypes \in {DrizzleServiceBays, DrizzleTechnicians, DrizzleServiceTypes,
                               DrizzleVehicles, DrizzleTenants} /\ s \in DrizzleServiceTypes.rows
  BY DEF DrizzleServiceTypes
<1>2. /\ Repository(s) \in {DrizzleServiceBays, DrizzleTechnicians, DrizzleServiceTypes,
                            DrizzleVehicles, DrizzleTenants}
      /\ s \in Repository(s).rows
  BY <1>1 DEF Repository
<1>3. Repository(s) # DrizzleTenants
  BY <1>2, KindsAssumption DEF DrizzleTenants
<1>4. Repository(s).seesDeleted = FALSE
  BY <1>2, <1>3 DEF DrizzleServiceBays, DrizzleTechnicians, DrizzleServiceTypes, DrizzleVehicles
<1> QED
  BY <1>4 DEF Selected

LEMMA SelectedType ==
  ASSUME TypeOK, NEW r \in Row
  PROVE  Selected(r) \in 0 .. MaxVersion
  BY MasterDataAssumption DEF TypeOK, Selected

LEMMA RouteShape ==
  ASSUME NEW c \in Routes
  PROVE  /\ c.op \in Crud \cup {"addSkill", "dropSkill", "book"}
         /\ c.op \in Crud => c.rows \in OneRow
         /\ c.op \in {"addSkill", "dropSkill"} => c.rows \in SkillRows
         /\ c.op = "book" => c.rows \in BookRows
<1> USE DEF Crud, OneRow, SkillRows, BookRows, Row
<1>1. CASE c \in ServiceBayRoutes \cup ServiceTypeRoutes
  BY <1>1 DEF ServiceBayRoutes, ServiceTypeRoutes
<1>2. CASE c \in VehicleRoutes \cup TenantRoutes
  BY <1>2 DEF VehicleRoutes, TenantRoutes
<1>3. CASE c \in TechnicianRoutes \cup AppointmentRoutes
  BY <1>3 DEF TechnicianRoutes, AppointmentRoutes
<1> QED
  BY <1>1, <1>2, <1>3 DEF Routes

LEMMA IdleShaped == Shaped(Idle)
  BY MasterDataAssumption DEF Shaped, Idle, Call, Stage, Crud

\* A request at another stage is a request, and about the same rows.
Turned(c, w, i, v) == [c EXCEPT !.stage = w, !.at = i, !.got = v]

LEMMA CallExcept ==
  ASSUME NEW c \in Call, NEW w \in Stage, NEW i \in {1, 2}, NEW v \in 0 .. MaxVersion
  PROVE  /\ Turned(c, w, i, v) \in Call
         /\ Turned(c, w, i, v).op = c.op /\ Turned(c, w, i, v).rows = c.rows
         /\ Turned(c, w, i, v).stage = w /\ Turned(c, w, i, v).at = i
<1> DEFINE Op == Crud \cup {"none", "addSkill", "dropSkill", "book"}
           Rows == {<<>>} \cup OneRow \cup SkillRows \cup BookRows
           Version == 0 .. MaxVersion
           Place == {1, 2}
<1>1. Call = [op : Op, rows : Rows, stage : Stage, at : Place, got : Version]
  BY DEF Call
<1>2. v \in Version /\ i \in Place
  OBVIOUS
<1> HIDE DEF Op, Rows, Version, Place
<1> QED
  BY <1>1, <1>2 DEF Turned

Staged(c, w) == [c EXCEPT !.stage = w]

LEMMA CallStaged ==
  ASSUME NEW c \in Call, NEW w \in Stage
  PROVE  /\ Staged(c, w) \in Call
         /\ Staged(c, w).op = c.op /\ Staged(c, w).rows = c.rows
         /\ Staged(c, w).stage = w /\ Staged(c, w).at = c.at
<1> DEFINE Op == Crud \cup {"none", "addSkill", "dropSkill", "book"}
           Rows == {<<>>} \cup OneRow \cup SkillRows \cup BookRows
           Version == 0 .. MaxVersion
           Place == {1, 2}
<1>1. Call = [op : Op, rows : Rows, stage : Stage, at : Place, got : Version]
  BY DEF Call
<1> HIDE DEF Op, Rows, Version, Place
<1> QED
  BY <1>1 DEF Staged

Filling(c, v) == [c EXCEPT !.stage = "fill", !.got = v]

LEMMA CallFilling ==
  ASSUME NEW c \in Call, NEW v \in 0 .. MaxVersion
  PROVE  /\ Filling(c, v) \in Call
         /\ Filling(c, v).op = c.op /\ Filling(c, v).rows = c.rows
         /\ Filling(c, v).stage = "fill" /\ Filling(c, v).at = c.at
<1> DEFINE Op == Crud \cup {"none", "addSkill", "dropSkill", "book"}
           Rows == {<<>>} \cup OneRow \cup SkillRows \cup BookRows
           Version == 0 .. MaxVersion
           Place == {1, 2}
<1>1. Call = [op : Op, rows : Rows, stage : Stage, at : Place, got : Version]
  BY DEF Call
<1>2. v \in Version /\ "fill" \in Stage
  BY DEF Stage
<1> HIDE DEF Op, Rows, Version, Place
<1> QED
  BY <1>1, <1>2 DEF Filling

LEMMA Zero == 0 \in 0 .. MaxVersion
  BY MasterDataAssumption

\* The rows of a request, and how many it looks up.
LEMMA RowsOf ==
  ASSUME NEW c, Shaped(c), c.op # "none"
  PROVE  /\ c.rows[1] \in Row
         /\ c.op \in Crud => Len(c.rows) = 1 /\ c.at = 1
         /\ c.op \notin Crud => Len(c.rows) = 2 /\ c.rows[2] \in ServiceType
         /\ c.rows[c.at] \in Row
<1>1. c.op \in Crud \cup {"addSkill", "dropSkill", "book"} /\ c.at \in {1, 2}
  BY DEF Shaped, Call
<1>2. CASE c.op \in Crud
  BY <1>2 DEF Shaped, OneRow
<1>3. CASE c.op \in {"addSkill", "dropSkill"}
  <2>1. PICK t \in Technician, s \in ServiceType : c.rows = <<t, s>>
    BY <1>3 DEF Shaped, SkillRows
  <2> QED
    BY <1>1, <1>3, <2>1 DEF Row, Crud
<1>4. CASE c.op = "book"
  <2>1. PICK v \in Vehicle, s \in ServiceType : c.rows = <<v, s>>
    BY <1>4 DEF Shaped, BookRows
  <2> QED
    BY <1>1, <1>4, <2>1 DEF Row, Crud
<1> QED
  BY <1>1, <1>2, <1>3, <1>4

(***************************************************************************)
(* What becomes of a request: nothing, or the same request further on.     *)
(***************************************************************************)
LEMMA AfterLookupCases ==
  ASSUME NEW c, Shaped(c), c.op # "none"
  PROVE  /\ Shaped(AfterLookup(c))
         /\ \/ AfterLookup(c) = Idle
            \/ /\ AfterLookup(c).op = c.op /\ AfterLookup(c).rows = c.rows /\ c.op # "get"
               /\ AfterLookup(c).stage = IF Checks(c) THEN "check" ELSE "write"
<1>1. CASE c.op = "get"
  BY <1>1, IdleShaped DEF AfterLookup
<1>2. CASE c.op # "get"
  <2> DEFINE w == IF Checks(c) THEN "check" ELSE "write"
  <2>1. w \in {"check", "write"} /\ w \in Stage
    BY DEF Stage
  <2> HIDE DEF w
  <2>2. AfterLookup(c) = Turned(c, w, 1, 0)
    BY <1>2 DEF AfterLookup, w, Turned
  <2>3. c \in Call
    BY DEF Shaped
  <2>4. AfterLookup(c) \in Call
    BY <2>1, <2>2, <2>3, CallExcept, Zero
  <2>5. /\ AfterLookup(c).op = c.op /\ AfterLookup(c).rows = c.rows
        /\ AfterLookup(c).stage = w /\ AfterLookup(c).at = 1
    BY <2>1, <2>2, <2>3, CallExcept, Zero
  <2> QED
    BY <1>2, <2>1, <2>4, <2>5 DEF Shaped, w
<1> QED
  BY <1>1, <1>2

\* The same request, or none.
GoesOn(c, d) == Shaped(d) /\ (d = Idle \/ (d.op = c.op /\ d.rows = c.rows))

LEMMA FoundCases ==
  ASSUME Requests, NEW q \in Request, request[q].stage \in {"find", "select", "fill"}
  PROVE  /\ GoesOn(request[q], Found(q))
         /\ \/ Found(q) = Idle
            \/ Found(q).stage = "find"
            \/ Found(q).stage = "check"
            \/ /\ Found(q).stage = "write" /\ ~Checks(request[q])
               /\ request[q].op = "book" => request[q].at = 2
<1> DEFINE c == request[q]
<1>1. Shaped(c) /\ c.op # "none" /\ c \in Call
  BY DEF Requests, Shaped
<1>2. CASE c.at < Len(c.rows)
  <2>1. c.op \notin Crud /\ c.at = 1
    <3>1. ASSUME c.op \in Crud
          PROVE  FALSE
      <4>1. Len(c.rows) = 1 /\ c.at = 1
        BY <1>1, <3>1, RowsOf
      <4> QED
        BY <1>2, <4>1
    <3>2. Len(c.rows) = 2 /\ c.at \in {1, 2}
      BY <1>1, <3>1, RowsOf DEF Call
    <3>3. c.at = 1
      BY <1>2, <3>2
    <3> QED
      BY <3>1, <3>3
  <2>2. Found(q) = Turned(c, "find", 2, 0)
    BY <1>2, <2>1 DEF Found, Turned
  <2>3. "find" \in Stage
    BY DEF Stage
  <2>4. Found(q) \in Call /\ Found(q).op = c.op /\ Found(q).rows = c.rows /\ Found(q).stage = "find"
    BY <1>1, <2>2, <2>3, CallExcept, Zero
  <2> QED
    BY <1>1, <2>1, <2>4 DEF GoesOn, Shaped
<1>3. CASE ~(c.at < Len(c.rows))
  <2>1. Found(q) = AfterLookup(c)
    BY <1>3 DEF Found
  <2>2. c.op = "book" => c.at = 2
    BY <1>1, <1>3, RowsOf DEF Crud, Shaped, Call
  <2> QED
    BY <1>1, <2>1, <2>2, AfterLookupCases DEF GoesOn
<1> QED
  BY <1>2, <1>3

LEMMA StagedGoesOn ==
  ASSUME Requests, NEW q \in Request, request[q].stage # "idle",
         NEW w \in {"select", "write", "invalidate"}
  PROVE  GoesOn(request[q], Staged(request[q], w))
<1>1. Shaped(request[q]) /\ request[q] \in Call /\ w \in Stage
  BY DEF Requests, Stage
<1>2. Staged(request[q], w) \in Call /\ Staged(request[q], w).op = request[q].op
      /\ Staged(request[q], w).rows = request[q].rows
      /\ Staged(request[q], w).stage = w /\ Staged(request[q], w).at = request[q].at
  BY <1>1, CallStaged
<1> QED
  BY <1>1, <1>2 DEF GoesOn, Shaped

LEMMA IdleGoesOn == \A c : GoesOn(c, Idle)
  BY IdleShaped DEF GoesOn

LEMMA StepGoesOn ==
  ASSUME Types, NEW q \in Request, Step(q) \/ Breaks(q)
  PROVE  \E d : Becomes(q, d) /\ GoesOn(request[q], d)
<1>0. Requests /\ TypeOK /\ Shaped(request[q])
  BY DEF Types, Requests
<1> USE <1>0, IdleGoesOn DEF At
<1>1. CASE Hit(q) \/ Fill(q)
  BY <1>1, FoundCases DEF Hit, Fill
<1>2. CASE Miss(q)
  <2>1. Becomes(q, Staged(request[q], "select"))
    BY <1>2 DEF Miss, Staged
  <2> QED
    BY <1>2, <2>1, StagedGoesOn DEF Miss
<1>3. CASE Select(q)
  <2> DEFINE v == Selected(Sought(q))
  <2>1. request[q].stage = "select" /\ request[q].op # "none" /\ request[q] \in Call
    BY <1>3 DEF Select, Shaped
  <2>2. v \in 0 .. MaxVersion
    BY <2>1, RowsOf, SelectedType DEF Sought
  <2>3. CASE Becomes(q, Idle) \/ Becomes(q, Found(q))
    BY <2>1, <2>3, FoundCases
  <2>4. CASE Becomes(q, Filling(request[q], v)) /\ Sought(q) \notin Tenant
    <3>1. GoesOn(request[q], Filling(request[q], v))
      BY <2>1, <2>2, <2>4, CallFilling DEF GoesOn, Shaped, Sought
    <3> QED
      BY <2>4, <3>1
  <2> QED
    BY <1>3, <2>3, <2>4 DEF Select, Filling, Ends
<1>4. CASE CreateChecks(q) \/ CreateSkillChecks(q) \/ DeleteTypeChecks(q)
  <2>1. Becomes(q, Idle) \/ Becomes(q, Staged(request[q], "write"))
    BY <1>4 DEF CreateChecks, CreateSkillChecks, DeleteTypeChecks, Ends, Proceeds, Staged
  <2>2. request[q].stage # "idle"
    BY <1>4 DEF CreateChecks, CreateSkillChecks, DeleteTypeChecks
  <2> QED
    BY <2>1, <2>2, StagedGoesOn
<1>5. CASE Update(q) \/ SoftDelete(q)
  <2>1. Becomes(q, Idle) \/ Becomes(q, Staged(request[q], "invalidate"))
    BY <1>5 DEF Update, SoftDelete, Ends, Staged
  <2>2. request[q].stage # "idle"
    BY <1>5 DEF Update, SoftDelete
  <2> QED
    BY <2>1, <2>2, StagedGoesOn
<1>6. CASE Insert(q) \/ Invalidate(q) \/ WriteSkill(q) \/ Book(q) \/ Breaks(q)
  BY <1>6 DEF Insert, Invalidate, WriteSkill, Book, Breaks, Ends
<1> QED
  BY <1>1, <1>2, <1>3, <1>4, <1>5, <1>6 DEF Step

\* A request that arrives is of the kind its route serves.
LEMMA ArrivalShape ==
  ASSUME Types, NEW q \in Request, Arrive(q)
  PROVE  \E d : /\ Becomes(q, d) /\ Shaped(d) /\ d.stage \notin {"select", "fill", "invalidate"}
                /\ d.op = "create" => /\ version[d.rows[1]] = 0
                                      /\ \A p \in Request : d.rows # request[p].rows
                /\ d.op = "book" => d.stage = "find"
                /\ d.op = "delete" /\ d.rows[1] \in ServiceType => d.stage = "find"
<1>1. PICK c \in Routes :
        LET d == [op |-> c.op, rows |-> c.rows, stage |-> "find", at |-> 1, got |-> 0] IN
        /\ c.op = "create" => /\ version[c.rows[1]] = 0
                              /\ \A p \in Request : c.rows # request[p].rows
        /\ Becomes(q, IF Looks(c) THEN d ELSE AfterLookup(d))
  BY DEF Arrive
<1> DEFINE d == [op |-> c.op, rows |-> c.rows, stage |-> "find", at |-> 1, got |-> 0]
<1>2. d.op = c.op /\ d.rows = c.rows /\ d.stage = "find" /\ d.at = 1
  OBVIOUS
<1>3. Shaped(d) /\ d.op # "none"
  <2>1. d \in Call
    BY RouteShape, Zero DEF Call, Stage
  <2> QED
    BY <1>2, <2>1, RouteShape DEF Shaped, Crud
<1> HIDE DEF d
<1>4. CASE Looks(c)
  BY <1>1, <1>2, <1>3, <1>4 DEF d
<1>5. CASE ~Looks(c)
  <2>1. Becomes(q, AfterLookup(d))
    BY <1>1, <1>5 DEF d
  <2>2. /\ Shaped(AfterLookup(d))
        /\ \/ AfterLookup(d) = Idle
           \/ /\ AfterLookup(d).op = c.op /\ AfterLookup(d).rows = c.rows
              /\ AfterLookup(d).stage \in {"check", "write"}
    BY <1>2, <1>3, AfterLookupCases
  <2>3. c.op # "book" /\ ~(c.op = "delete" /\ c.rows[1] \in ServiceType)
    BY <1>5 DEF Looks
  <2>4. Idle.op = "none" /\ Idle.stage = "idle"
    BY DEF Idle
  <2> QED
    BY <1>1, <2>1, <2>2, <2>3, <2>4
<1> QED
  BY <1>4, <1>5

LEMMA BecomesShaped ==
  ASSUME Requests, NEW q \in Request, NEW d, Becomes(q, d), Shaped(d)
  PROVE  Requests'
<1>1. d \in Call
  BY DEF Shaped
<1>2. request' \in [Request -> Call]
  BY <1>1 DEF Requests, Becomes
<1>3. \A p \in Request : Shaped(request'[p])
  BY DEF Requests, Becomes
<1> QED
  BY <1>2, <1>3 DEF Requests

(***************************************************************************)
(* Type correctness.                                                       *)
(***************************************************************************)
LEMMA RequestsTyped ==
  ASSUME Requests
  PROVE  \A q \in Request : request[q].stage \in Stage /\ request[q].got \in 0 .. MaxVersion
  BY DEF Requests, Call

LEMMA InitTypes == Init => Types
<1> SUFFICES ASSUME Init PROVE Types
  OBVIOUS
<1>1. Idle \in Call /\ Shaped(Idle)
  BY IdleShaped DEF Shaped
<1>2. Requests
  BY <1>1 DEF Init, Requests
<1>3. 0 \in 0 .. MaxVersion /\ 1 \in 0 .. MaxVersion
  BY MasterDataAssumption
<1>4. version \in [Row -> 0 .. MaxVersion] /\ cached \in [Row -> 0 .. MaxVersion]
  BY <1>3 DEF Init
<1> QED
  BY <1>2, <1>4, RequestsTyped DEF Init, Types, TypeOK

\* The row a write is about, and what is written.
LEMMA WriteTypes ==
  ASSUME Types, NEW q \in Request, request[q].stage # "idle"
  PROVE  /\ Target(q) \in Row
         /\ request[q].op \in {"addSkill", "dropSkill"} => request[q].rows \in SkillRows
         /\ request[q].op = "book" => request[q].rows \in BookRows
  BY RowsOf DEF Types, Requests, Shaped, Target

LEMMA StepTypeOK ==
  ASSUME Types, NEW q \in Request, Step(q) \/ Breaks(q), Requests'
  PROVE  TypeOK'
<1> USE DEF Types, TypeOK, store, cache, At
<1>1. (\A p \in Request : request'[p].stage \in Stage /\ request'[p].got \in 0 .. MaxVersion)
  BY RequestsTyped DEF Requests, Call
<1>2. 0 \in 0 .. MaxVersion /\ 1 \in 0 .. MaxVersion
  BY MasterDataAssumption
<1>3. CASE Hit(q) \/ Miss(q) \/ Select(q)
  BY <1>1, <1>3 DEF Hit, Miss, Select, Becomes, Ends
<1>4. CASE Fill(q)
  <2>1. request[q].got \in 0 .. MaxVersion
    OBVIOUS
  <2>2. cached' \in [Row -> 0 .. MaxVersion] /\ expires' \in [Row -> BOOLEAN]
    BY <1>4, <2>1 DEF Fill
  <2> QED
    BY <1>1, <1>4, <2>2 DEF Fill, Becomes
<1>5. CASE CreateChecks(q) \/ CreateSkillChecks(q) \/ DeleteTypeChecks(q)
  BY <1>1, <1>5 DEF CreateChecks, CreateSkillChecks, DeleteTypeChecks, Becomes, Ends, Proceeds
<1>6. CASE Insert(q)
  <2>1. version' \in [Row -> 0 .. MaxVersion]
    BY <1>2, <1>6 DEF Insert
  <2> QED
    BY <1>1, <1>6, <2>1 DEF Insert, Becomes, Ends
<1>7. CASE Update(q)
  <2>1. Target(q) \in Row
    BY <1>7, WriteTypes DEF Update
  <2>2. version[Target(q)] + 1 \in 0 .. MaxVersion
    BY <1>7, <2>1, MasterDataAssumption DEF Update
  <2>3. version' \in [Row -> 0 .. MaxVersion]
    BY <1>7, <2>2 DEF Update
  <2> QED
    BY <1>1, <1>7, <2>3 DEF Update, Becomes, Ends
<1>8. CASE SoftDelete(q)
  BY <1>1, <1>8, WriteTypes DEF SoftDelete, Becomes, Ends
<1>9. CASE Invalidate(q) \/ Breaks(q)
  <2>1. cached' \in [Row -> 0 .. MaxVersion] /\ expires' \in [Row -> BOOLEAN]
    BY <1>2, <1>9 DEF Invalidate, Breaks
  <2> QED
    BY <1>1, <1>9, <2>1 DEF Invalidate, Breaks, Becomes, Ends
<1>10. CASE WriteSkill(q)
  BY <1>1, <1>10, WriteTypes DEF WriteSkill, Becomes, Ends, SkillRows
<1>11. CASE Book(q)
  BY <1>1, <1>11, WriteTypes DEF Book, Becomes, Ends, BookRows
<1> QED
  BY <1>3, <1>4, <1>5, <1>6, <1>7, <1>8, <1>9, <1>10, <1>11 DEF Step

LEMMA TypesInductive == Types /\ [Next]_vars => Types'
<1> SUFFICES ASSUME Types, [Next]_vars PROVE Types'
  OBVIOUS
<1>1. ASSUME NEW q \in Request, Arrive(q)
      PROVE  Types'
  <2>1. Requests'
    BY <1>1, ArrivalShape, BecomesShaped DEF Types
  <2>2. \A p \in Request : request'[p].stage \in Stage /\ request'[p].got \in 0 .. MaxVersion
    BY <2>1 DEF Requests, Call
  <2>3. UNCHANGED <<version, deleted, skills, booked, cached, expires, scene, accidents>>
    BY <1>1 DEF Arrive, Becomes, store, cache
  <2> QED
    BY <2>1, <2>2, <2>3 DEF Types, TypeOK
<1>2. ASSUME NEW q \in Request, Step(q) \/ Breaks(q)
      PROVE  Types'
  <2>1. Requests'
    BY <1>2, StepGoesOn, BecomesShaped DEF Types, GoesOn
  <2> QED
    BY <1>2, <2>1, StepTypeOK DEF Types
<1>3. ASSUME NEW r \in Row, Expire(r)
      PROVE  Types'
  <2>1. cached' \in [Row -> 0 .. MaxVersion] /\ expires' \in [Row -> BOOLEAN]
    BY <1>3, Zero DEF Expire, Types, TypeOK
  <2> QED
    BY <1>3, <2>1 DEF Expire, Types, TypeOK, Requests, store
<1>4. CASE UNCHANGED vars
  BY <1>4 DEF vars, store, cache, Types, TypeOK, Requests
<1> QED
  BY <1>1, <1>2, <1>3, <1>4 DEF Next

(***************************************************************************)
(* Rows, hashes, skills, appointments and requests stay what they are,     *)
(* whatever requests meet and whatever fails: a deleted row is a row, and  *)
(* an appointment is of a vehicle and a service type.                      *)
(***************************************************************************)
THEOREM MasterDataTypes == Spec => []TypeOK
<1>1. Types => TypeOK
  BY DEF Types
<1> QED
  BY <1>1, InitTypes, TypesInductive, PTL DEF Spec

(***************************************************************************)
(* The cache.                                                              *)
(***************************************************************************)
Awaited(r) == \E q \in Request : At(q, "invalidate") /\ Target(q) = r

\* Only the request itself leaves its invalidation.
LEMMA AwaitedStays ==
  ASSUME Types, NEW q \in Request, NEW d, Becomes(q, d), ~At(q, "invalidate"), NEW r, Awaited(r)
  PROVE  Awaited(r)'
<1>1. PICK p \in Request : At(p, "invalidate") /\ Target(p) = r
  BY DEF Awaited
<1>2. p # q /\ request'[p] = request[p]
  BY <1>1 DEF Becomes, Types, Requests
<1> QED
  BY <1>1, <1>2 DEF Awaited, At, Target

LEMMA SelectedSame ==
  ASSUME NEW r, version'[r] = version[r], r \in deleted' <=> r \in deleted
  PROVE  Selected(r)' = Selected(r)
  BY DEF Selected

LEMMA TenantsUncachedStep ==
  ASSUME Types, TenantsUncached, NEW q \in Request, Step(q) \/ Breaks(q)
  PROVE  TenantsUncached'
<1> USE DEF Types, TypeOK, TenantsUncached, cache
<1>1. CASE Fill(q)
  <2>1. Sought(q) \notin Tenant
    BY <1>1 DEF Fill, At, Requests, Shaped, Sought
  <2> QED
    BY <1>1, <2>1 DEF Fill, Row
<1>2. CASE Invalidate(q) \/ Breaks(q)
  BY <1>2 DEF Invalidate, Breaks, Row
<1> QED
  BY <1>1, <1>2 DEF Step, Hit, Miss, Select, CreateChecks, CreateSkillChecks, DeleteTypeChecks,
     Insert, Update, SoftDelete, WriteSkill, Book

\* Only an insertion and an update write versions, of a row of their request.
LEMMA VersionEffect ==
  ASSUME Types, NEW q \in Request, Step(q) \/ Breaks(q)
  PROVE  \/ version' = version
         \/ /\ At(q, "write") /\ request[q].op = "create" /\ request' = [request EXCEPT ![q] = Idle]
            /\ \A r \in Row : r # Target(q) => version'[r] = version[r]
         \/ /\ At(q, "write") /\ request[q].op = "put" /\ version[Target(q)] # 0
            /\ \A r \in Row : r # Target(q) => version'[r] = version[r]
<1> USE DEF Types, TypeOK, store
<1>1. CASE Insert(q)
  BY <1>1 DEF Insert, Ends, Becomes
<1>2. CASE Update(q)
  BY <1>2 DEF Update, Selected
<1> QED
  BY <1>1, <1>2 DEF Step, Breaks, Hit, Miss, Select, Fill, CreateChecks, CreateSkillChecks,
     DeleteTypeChecks, SoftDelete, Invalidate, WriteSkill, Book

LEMMA CreateRows ==
  ASSUME Types, NEW q \in Request, request[q].op = "create"
  PROVE  Target(q) \in Row /\ request[q].rows = <<Target(q)>>
  BY DEF Types, Requests, Shaped, Crud, OneRow, Target

LEMMA CreatesAreNewStep ==
  ASSUME Types, CreatesAreNew, NEW q \in Request, Step(q) \/ Breaks(q)
  PROVE  CreatesAreNew'
<1>1. PICK d : Becomes(q, d) /\ GoesOn(request[q], d)
  BY StepGoesOn
<1>2. \A p \in Request : request'[p].op = "create" =>
        request[p].op = "create" /\ request'[p].rows = request[p].rows
  BY <1>1 DEF Becomes, GoesOn, Idle, Types, Requests
<1>3. ASSUME NEW p \in Request, request'[p].op = "create"
      PROVE  version'[Target(p)] = 0
  <2>1. request[p].op = "create" /\ version[Target(p)] = 0 /\ Target(p) \in Row
    BY <1>2, <1>3, CreateRows DEF CreatesAreNew
  <2>2. CASE version' = version
    BY <2>1, <2>2
  <2>3. CASE /\ request[q].op = "create" /\ request' = [request EXCEPT ![q] = Idle]
             /\ \A r \in Row : r # Target(q) => version'[r] = version[r]
    <3>1. p # q
      BY <1>3, <2>3 DEF Idle, Types, Requests
    <3>2. Target(p) # Target(q)
      BY <2>1, <2>3, <3>1, CreateRows DEF CreatesAreNew
    <3> QED
      BY <2>1, <2>3, <3>2
  <2>4. CASE version[Target(q)] # 0 /\ \A r \in Row : r # Target(q) => version'[r] = version[r]
    BY <2>1, <2>4
  <2> QED
    BY <2>2, <2>3, <2>4, VersionEffect
<1>4. \A p \in Request : request'[p].op = "create" => Target(p)' = Target(p)
  BY <1>2 DEF Target
<1> QED
  BY <1>2, <1>3, <1>4 DEF CreatesAreNew

LEMMA CreatesAreNewArrival ==
  ASSUME Types, CreatesAreNew, NEW q \in Request, Arrive(q)
  PROVE  CreatesAreNew'
<1>1. PICK d : /\ Becomes(q, d)
               /\ d.op = "create" => /\ version[d.rows[1]] = 0
                                     /\ \A p \in Request : d.rows # request[p].rows
  BY ArrivalShape
<1>2. request'[q] = d /\ \A p \in Request : p # q => request'[p] = request[p]
  BY <1>1 DEF Becomes, Types, Requests
<1>3. version' = version
  BY DEF Arrive, store
<1> QED
  BY <1>1, <1>2, <1>3 DEF CreatesAreNew, Target

LEMMA AccidentsGrow ==
  ASSUME NEW q \in Request, Arrive(q) \/ Step(q) \/ Breaks(q)
  PROVE  accidents \subseteq accidents'
  BY DEF Arrive, Step, Breaks, Hit, Miss, Select, Fill, CreateChecks, CreateSkillChecks,
     DeleteTypeChecks, Insert, Update, SoftDelete, Invalidate, WriteSkill, Book

\* A hash and its row, when neither is touched and no invalidation takes place.
LEMMA Untouched ==
  ASSUME Types, NEW q \in Request, NEW d, Becomes(q, d), ~At(q, "invalidate"), NEW r \in Row,
         cached[r] \in {0, Selected(r)} \/ Awaited(r),
         cached'[r] = cached[r], version'[r] = version[r], r \in deleted' <=> r \in deleted
  PROVE  cached'[r] \in {0, Selected(r)'} \/ Awaited(r)'
  BY SelectedSame, AwaitedStays

\* A write of a cached kind is followed by its invalidation.
Followed(q, op) ==
  IF op \in InvalidatedBy(Target(q)) THEN [request[q] EXCEPT !.stage = "invalidate"] ELSE Idle

LEMMA WriteAwaits ==
  ASSUME Types, NEW q \in Request, NEW op \in {"put", "delete"}, request[q].stage # "idle",
         Becomes(q, Followed(q, op)), NEW r, r = Target(q), r \notin Tenant
  PROVE  Awaited(r)'
<1>1. Becomes(q, Staged(request[q], "invalidate"))
  BY CacheKinds, WriteTypes DEF Staged, Followed
<1>2. /\ Staged(request[q], "invalidate").stage = "invalidate"
      /\ Staged(request[q], "invalidate").rows = request[q].rows
  BY CallStaged DEF Types, Requests, Stage
<1>3. request'[q].stage = "invalidate" /\ request'[q].rows = request[q].rows
  BY <1>1, <1>2 DEF Becomes, Types, Requests
<1> QED
  BY <1>3 DEF Awaited, At, Target

LEMMA CacheFollowsRowStep ==
  ASSUME CacheInv, NEW q \in Request, Step(q) \/ Breaks(q)
  PROVE  CacheFollowsRow'
<1> SUFFICES ASSUME "leftStale" \notin accidents', NEW r \in Row
             PROVE  cached'[r] \in {0, Selected(r)'} \/ Awaited(r)'
  BY DEF CacheFollowsRow, Without, Awaited
<1>0. Types /\ TypeOK /\ (cached[r] \in {0, Selected(r)} \/ Awaited(r))
  BY AccidentsGrow DEF CacheInv, Types, CacheFollowsRow, Without, Awaited
<1>1. PICK d : Becomes(q, d)
  BY <1>0, StepGoesOn
<1> USE <1>0, <1>1 DEF store, cache, At
<1>2. CASE Hit(q) \/ Miss(q) \/ Select(q)
  BY <1>2, Untouched DEF Hit, Miss, Select
<1>3. CASE CreateChecks(q) \/ CreateSkillChecks(q) \/ DeleteTypeChecks(q)
  BY <1>3, Untouched DEF CreateChecks, CreateSkillChecks, DeleteTypeChecks
<1>4. CASE WriteSkill(q) \/ Book(q)
  BY <1>4, Untouched DEF WriteSkill, Book
<1>5. CASE Fill(q)
  <2>1. CASE r = Sought(q)
    <3>1. cached'[r] = request[q].got /\ version' = version /\ deleted' = deleted
      BY <1>5, <2>1 DEF Fill, TypeOK
    <3>2. request[q].got = Selected(r)
      BY <1>5, <2>1 DEF Fill
    <3> QED
      BY <3>1, <3>2, SelectedSame
  <2>2. CASE r # Sought(q)
    BY <1>5, <2>2, Untouched DEF Fill, TypeOK
  <2> QED
    BY <2>1, <2>2
<1>6. CASE Insert(q)
  <2>1. CASE r = Target(q)
    <3>1. version[r] = 0
      BY <1>6, <2>1 DEF Insert, CacheInv, CreatesAreNew
    <3>2. Selected(r) = 0
      BY <3>1 DEF Selected
    <3>3. cached'[r] = cached[r]
      BY <1>6 DEF Insert
    <3> QED
      BY <1>6, <3>2, <3>3, AwaitedStays DEF Insert
  <2>2. CASE r # Target(q)
    BY <1>6, <2>2, Untouched DEF Insert, TypeOK
  <2> QED
    BY <2>1, <2>2
<1>7. ASSUME Update(q) \/ SoftDelete(q)
      PROVE  cached'[r] \in {0, Selected(r)'} \/ Awaited(r)'
  <2>1. CASE r # Target(q) \/ Selected(Target(q)) = 0
    BY <1>7, <2>1, Untouched DEF Update, SoftDelete, TypeOK
  <2>2. CASE r = Target(q) /\ Selected(Target(q)) # 0 /\ r \in Tenant
    BY <1>7, <2>2 DEF Update, SoftDelete, CacheInv, TenantsUncached
  <2>3. CASE r = Target(q) /\ Selected(Target(q)) # 0 /\ r \notin Tenant
    <3>1. request[q].stage # "idle"
      BY <1>7 DEF Update, SoftDelete
    <3>2. Becomes(q, Followed(q, "put")) \/ Becomes(q, Followed(q, "delete"))
      BY <1>7, <2>3 DEF Update, SoftDelete, Followed
    <3> QED
      BY <2>3, <3>1, <3>2, WriteAwaits
  <2> QED
    BY <2>1, <2>2, <2>3
<1>8. CASE Invalidate(q)
  <2>1. CASE r = Target(q)
    BY <1>8, <2>1 DEF Invalidate, TypeOK
  <2>2. CASE r # Target(q) /\ Awaited(r)
    <3>1. PICK p \in Request : At(p, "invalidate") /\ Target(p) = r
      BY <2>2 DEF Awaited
    <3>2. request'[p] = request[p]
      BY <2>2, <3>1 DEF Becomes, Types, Requests
    <3> QED
      BY <3>1, <3>2 DEF Awaited, Target
  <2>3. CASE r # Target(q) /\ cached[r] \in {0, Selected(r)}
    BY <1>8, <2>3, SelectedSame DEF Invalidate, TypeOK
  <2> QED
    BY <2>1, <2>2, <2>3
<1>9. CASE Breaks(q)
  BY <1>9, Untouched DEF Breaks
<1> QED
  BY <1>2, <1>3, <1>4, <1>5, <1>6, <1>7, <1>8, <1>9 DEF Step

LEMMA CacheInductive == CacheInv /\ [Next]_vars => CacheInv'
<1> SUFFICES ASSUME CacheInv, [Next]_vars PROVE CacheInv'
  OBVIOUS
<1>0. Types /\ Types'
  BY TypesInductive DEF CacheInv
<1>1. ASSUME NEW q \in Request, Arrive(q)
      PROVE  CacheInv'
  <2>1. UNCHANGED <<version, deleted, cached, accidents>> /\ ~At(q, "invalidate")
    BY <1>1 DEF Arrive, store, cache, At
  <2>2. PICK d : Becomes(q, d)
    BY <1>0, <1>1, ArrivalShape
  <2>3. CacheFollowsRow'
    BY <1>0, <2>1, <2>2, Untouched DEF CacheInv, CacheFollowsRow, Without, Awaited
  <2> QED
    BY <1>0, <1>1, <2>1, <2>3, CreatesAreNewArrival DEF CacheInv, TenantsUncached
<1>2. ASSUME NEW q \in Request, Step(q) \/ Breaks(q)
      PROVE  CacheInv'
  BY <1>0, <1>2, TenantsUncachedStep, CreatesAreNewStep, CacheFollowsRowStep DEF CacheInv
<1>3. ASSUME NEW s \in Row, Expire(s)
      PROVE  CacheInv'
  <2>1. UNCHANGED <<version, deleted, request, accidents>>
    BY <1>3 DEF Expire, store
  <2>2. \A r \in Row : cached'[r] = cached[r] \/ cached'[r] = 0
    BY <1>0, <1>3 DEF Expire, Types, TypeOK
  <2>3. \A r \in Row : Selected(r)' = Selected(r) /\ (Awaited(r)' <=> Awaited(r))
    BY <2>1 DEF Selected, Awaited, At, Target
  <2>4. CacheFollowsRow'
    BY <2>1, <2>2, <2>3 DEF CacheInv, CacheFollowsRow, Without, Awaited
  <2>5. TenantsUncached'
    BY <2>2 DEF CacheInv, TenantsUncached, Row
  <2>6. CreatesAreNew'
    BY <2>1 DEF CacheInv, CreatesAreNew, Target
  <2> QED
    BY <1>0, <2>4, <2>5, <2>6 DEF CacheInv
<1>4. CASE UNCHANGED vars
  <2>1. UNCHANGED <<version, deleted, cached, request, accidents>>
    BY <1>4 DEF vars, store, cache
  <2> QED
    BY <1>0, <2>1 DEF CacheInv, TenantsUncached, CreatesAreNew, CacheFollowsRow, Without, Selected, At, Target
<1> QED
  BY <1>1, <1>2, <1>3, <1>4 DEF Next

(***************************************************************************)
(* For any rows and any requests: unless a fill came behind a write or an  *)
(* invalidation failed, whatever Redis answers of a row is what the        *)
(* database says of it, but for the moment between a write and its         *)
(* invalidation.  Every other interleaving of lookups, fills, writes,      *)
(* deletions and expiries keeps the two in step.                           *)
(***************************************************************************)
THEOREM CacheIsInStep == Spec => []CacheFollowsRow
<1>1. Init => CacheInv
  BY InitTypes DEF Init, CacheInv, TenantsUncached, CreatesAreNew, CacheFollowsRow, Idle, Row
<1>2. CacheInv => CacheFollowsRow
  BY DEF CacheInv
<1> QED
  BY <1>1, <1>2, CacheInductive, PTL DEF Spec

(***************************************************************************)
(* Appointments and the deletion of service types.                         *)
(***************************************************************************)
LEMMA BookRowsOf ==
  ASSUME Types, NEW q \in Request, request[q].op = "book"
  PROVE  request[q].rows \in BookRows /\ request[q].rows[2] \in ServiceType
  BY DEF Types, Requests, Shaped, BookRows

\* How a request comes to write: its last lookup has found a row, or its check
\* has let it pass.
LEMMA ComesToWrite ==
  ASSUME Types, NEW q \in Request, Step(q) \/ Breaks(q), request'[q].stage = "write"
  PROVE  /\ request'[q].op = request[q].op /\ request'[q].rows = request[q].rows
         /\ \/ Hit(q) \/ Select(q) \/ Fill(q)
            \/ CreateChecks(q) \/ CreateSkillChecks(q) \/ DeleteTypeChecks(q)
         /\ Hit(q) \/ Select(q) \/ Fill(q) =>
              /\ ~Checks(request[q])
              /\ request[q].op = "book" => request[q].at = 2
              /\ Select(q) => Sought(q) \in Tenant
<1>1. PICK d : Becomes(q, d) /\ GoesOn(request[q], d)
  BY StepGoesOn
<1>2. request'[q] = d /\ d # Idle
  BY <1>1 DEF Becomes, Types, Requests, Idle
<1>3. request'[q].op = request[q].op /\ request'[q].rows = request[q].rows
  BY <1>1, <1>2 DEF GoesOn
<1>4. request'[q] = Found(q) /\ request[q].stage \in {"find", "select", "fill"} =>
        ~Checks(request[q]) /\ (request[q].op = "book" => request[q].at = 2)
  BY FoundCases DEF Types, Idle
<1>5. CASE Hit(q) \/ Fill(q)
  <2>1. ~Select(q)
    BY <1>5 DEF Hit, Fill, Select, At
  <2> QED
    BY <1>3, <1>4, <1>5, <2>1 DEF Hit, Fill, At, Becomes, Types, Requests
<1>6. CASE Select(q)
  <2>1. request'[q] = Found(q) /\ Sought(q) \in Tenant
    <3>1. request'[q] # Filling(request[q], Selected(Sought(q)))
      <4>1. request[q] \in Call /\ Sought(q) \in Row /\ TypeOK
        BY <1>6, RowsOf DEF Select, At, Types, Requests, Shaped, Sought
      <4>2. Filling(request[q], Selected(Sought(q))).stage = "fill"
        BY <4>1, CallFilling, SelectedType
      <4> QED
        BY <4>2
    <3> QED
      BY <1>2, <1>6, <3>1 DEF Select, Becomes, Ends, Filling, Types, Requests
  <2> QED
    BY <1>3, <1>4, <1>6, <2>1 DEF Select, At
<1>7. CASE CreateChecks(q) \/ CreateSkillChecks(q) \/ DeleteTypeChecks(q)
  <2>1. request[q].stage = "check"
    BY <1>7 DEF CreateChecks, CreateSkillChecks, DeleteTypeChecks, At
  <2> QED
    BY <1>3, <1>7, <2>1 DEF Hit, Select, Fill, At
<1>8. CASE Miss(q)
  <2>1. request'[q] = Staged(request[q], "select")
    BY <1>8 DEF Miss, Becomes, Staged, Types, Requests
  <2> QED
    BY <2>1, CallStaged DEF Types, Requests, Stage
<1>9. CASE Update(q) \/ SoftDelete(q)
  <2>1. request'[q] \in {Idle, Staged(request[q], "invalidate")}
    BY <1>9 DEF Update, SoftDelete, Becomes, Ends, Staged, Types, Requests
  <2> QED
    BY <1>2, <2>1, CallStaged DEF Types, Requests, Stage
<1>10. CASE Insert(q) \/ Invalidate(q) \/ WriteSkill(q) \/ Book(q) \/ Breaks(q)
  BY <1>2, <1>10 DEF Insert, Invalidate, WriteSkill, Book, Breaks, Becomes, Ends, Types, Requests
<1> QED
  BY <1>5, <1>6, <1>7, <1>8, <1>9, <1>10 DEF Step

\* Only a selection makes a request fill, with a row that it has found.
LEMMA ComesToFill ==
  ASSUME Types, NEW q \in Request, Step(q) \/ Breaks(q), request'[q].stage = "fill"
  PROVE  /\ request'[q].op = request[q].op /\ request'[q].rows = request[q].rows
         /\ request'[q].at = request[q].at /\ Selected(Sought(q)) # 0
<1>1. PICK d : Becomes(q, d) /\ GoesOn(request[q], d)
  BY StepGoesOn
<1>2. request'[q] = d /\ d # Idle
  BY <1>1 DEF Becomes, Types, Requests, Idle
<1>3. request'[q] = Found(q) => request[q].stage \notin {"find", "select", "fill"}
  BY FoundCases DEF Types, Idle
<1>4. \A w \in {"select", "write", "invalidate"} : request'[q] # Staged(request[q], w)
  BY CallStaged DEF Types, Requests, Stage
<1>5. Select(q)
  BY <1>2, <1>3, <1>4 DEF Step, Breaks, Hit, Miss, Fill, CreateChecks, CreateSkillChecks,
     DeleteTypeChecks, Insert, Update, SoftDelete, Invalidate, WriteSkill, Book, At, Becomes, Ends,
     Proceeds, Staged, Types, Requests
<1>6. Selected(Sought(q)) # 0 /\ request'[q] = Filling(request[q], Selected(Sought(q)))
  BY <1>2, <1>3, <1>5 DEF Select, At, Becomes, Ends, Filling, Types, Requests
<1>7. request[q] \in Call /\ Sought(q) \in Row /\ TypeOK
  BY <1>5, RowsOf DEF Select, At, Types, Requests, Shaped, Sought
<1> QED
  BY <1>6, <1>7, CallFilling, SelectedType

LEMMA DeletionEffect ==
  ASSUME NEW q \in Request, Step(q) \/ Breaks(q)
  PROVE  \/ deleted' = deleted
         \/ /\ request[q].op = "delete" /\ At(q, "write") /\ deleted' = deleted \cup {Target(q)}
            /\ Booking(Target(q)) # {} => "crossed" \in accidents'
            /\ booked' = booked
  BY DEF Step, Breaks, Hit, Miss, Select, Fill, CreateChecks, CreateSkillChecks, DeleteTypeChecks,
     Insert, Update, SoftDelete, Invalidate, WriteSkill, Book, store

LEMMA BookingEffect ==
  ASSUME NEW q \in Request, Step(q) \/ Breaks(q)
  PROVE  \/ booked' = booked
         \/ Book(q) /\ At(q, "write") /\ request[q].op = "book" /\ booked' = booked \cup {request[q].rows}
  BY DEF Step, Breaks, Hit, Miss, Select, Fill, CreateChecks, CreateSkillChecks, DeleteTypeChecks,
     Insert, Update, SoftDelete, Invalidate, WriteSkill, Book, store

LEMMA FoundTypeStaysStep ==
  ASSUME BookInv, NEW q \in Request, Step(q) \/ Breaks(q)
  PROVE  FoundTypeStays'
<1> SUFFICES ASSUME accidents' \cap {"crossed", "staleHit"} = {},
                    NEW s \in ServiceType, NEW p \in Request, p \in Booking(s)'
             PROVE  s \notin deleted'
  BY DEF FoundTypeStays, Without, Booking
<1>0. Types /\ Requests /\ TypeOK
  BY DEF BookInv, Types
<1>1. accidents \cap {"crossed", "staleHit"} = {}
  BY AccidentsGrow
<1>2. \A r \in Request : r \in Booking(s) => s \notin deleted'
  <2>1. Booking(s) # {} => s \notin deleted
    BY <1>1 DEF BookInv, FoundTypeStays, Without
  <2> QED
    BY <2>1, DeletionEffect
<1>3. request'[p].op = "book" /\ request'[p].rows[2] = s
      /\ \/ request'[p].stage = "write"
         \/ request'[p].stage = "fill" /\ request'[p].at = 2
  BY DEF Booking, At
<1>4. CASE p # q
  <2>1. request'[p] = request[p]
    BY <1>0, <1>4, StepGoesOn DEF Becomes, Requests
  <2> QED
    BY <1>2, <1>3, <2>1 DEF Booking, At
<1>5. ASSUME p = q, request[q].op = "book", Selected(s) # 0
      PROVE  s \notin deleted'
  <2>1. s \notin deleted
    BY <1>5, DeletedTypeNotSelected
  <2> QED
    BY <1>5, <2>1, DeletionEffect
<1>6. CASE p = q /\ request'[q].stage = "write"
  <2>1. request[q].op = "book" /\ request[q].rows[2] = s
    BY <1>0, <1>3, <1>6, ComesToWrite
  <2>2. ~CreateChecks(q) /\ ~CreateSkillChecks(q) /\ ~DeleteTypeChecks(q)
    BY <2>1 DEF CreateChecks, CreateSkillChecks, DeleteTypeChecks
  <2>3. (Hit(q) \/ Select(q) \/ Fill(q)) /\ request[q].at = 2 /\ Sought(q) = s
    BY <1>0, <1>6, <2>1, <2>2, ComesToWrite DEF Sought
  <2>4. CASE Hit(q)
    <3>1. cached[s] = Selected(s) /\ cached[s] > 0
      BY <2>3, <2>4 DEF Hit
    <3>2. Selected(s) # 0
      BY <1>0, <3>1 DEF TypeOK, Row
    <3> QED
      BY <1>5, <1>6, <2>1, <3>2
  <2>5. CASE Select(q)
    BY <1>0, <1>6, <2>3, <2>5, ComesToWrite, KindsAssumption
  <2>6. CASE Fill(q)
    BY <1>2, <2>1, <2>3, <2>6 DEF Fill, Booking
  <2> QED
    BY <2>3, <2>4, <2>5, <2>6
<1>7. CASE p = q /\ request'[q].stage = "fill"
  BY <1>0, <1>3, <1>5, <1>7, ComesToFill DEF Sought
<1> QED
  BY <1>3, <1>4, <1>6, <1>7

LEMMA CheckedTypeUnusedStep ==
  ASSUME BookInv, NEW q \in Request, Step(q) \/ Breaks(q)
  PROVE  CheckedTypeUnused'
<1> SUFFICES ASSUME accidents' \cap {"crossed", "staleHit"} = {},
                    NEW p \in Request, request'[p].op = "delete", request'[p].stage = "write",
                    request'[p].rows[1] \in ServiceType, NEW b \in booked'
             PROVE  b[2] # request'[p].rows[1]
  BY DEF CheckedTypeUnused, Without, At, Target
<1>0. Types /\ Requests
  BY DEF BookInv, Types
<1>1. accidents \cap {"crossed", "staleHit"} = {}
  BY AccidentsGrow
<1>2. CASE p # q
  <2>1. request'[p] = request[p]
    BY <1>0, <1>2, StepGoesOn DEF Becomes, Requests
  <2>2. CASE b \in booked
    BY <1>1, <2>1, <2>2 DEF BookInv, CheckedTypeUnused, Without, At, Target
  <2>3. CASE b \notin booked
    <3>1. Book(q) /\ b = request[q].rows
      BY <2>3, BookingEffect
    <3>2. "crossed" \notin accidents'
      OBVIOUS
    <3> QED
      BY <2>1, <3>1, <3>2 DEF Book, At, Target
  <2> QED
    BY <2>2, <2>3
<1>3. CASE p = q
  <2>1. request[q].op = "delete" /\ request[q].rows[1] \in ServiceType
        /\ request'[q].rows = request[q].rows
    BY <1>0, <1>3, ComesToWrite
  <2>2. Checks(request[q])
    BY <2>1 DEF Checks
  <2>3. DeleteTypeChecks(q)
    BY <1>0, <1>3, <2>1, <2>2, ComesToWrite DEF CreateChecks, CreateSkillChecks
  <2>4. booked' = booked
    BY <2>3 DEF DeleteTypeChecks, store
  <2>5. \A c \in booked : c[2] # Target(q)
    <3>1. request'[q] # Idle
      BY <1>3 DEF Idle
    <3> QED
      BY <1>0, <2>3, <3>1 DEF DeleteTypeChecks, Becomes, Ends, Requests
  <2> QED
    BY <1>3, <2>1, <2>4, <2>5 DEF Target
<1> QED
  BY <1>2, <1>3

LEMMA BookedTypeStaysStep ==
  ASSUME BookInv, NEW q \in Request, Step(q) \/ Breaks(q)
  PROVE  BookedTypeStays'
<1> SUFFICES ASSUME accidents' \cap {"crossed", "staleHit"} = {}, NEW b \in booked'
             PROVE  b[2] \notin deleted'
  BY DEF BookedTypeStays, Without
<1>0. Types
  BY DEF BookInv
<1>1. accidents \cap {"crossed", "staleHit"} = {}
  BY AccidentsGrow
<1>2. CASE b \in booked
  <2>1. b[2] \notin deleted /\ b[2] \in ServiceType
    BY <1>0, <1>1, <1>2 DEF BookInv, BookedTypeStays, Without, Types, TypeOK
  <2>2. request[q].op = "delete" /\ At(q, "write") => b[2] # Target(q)
    BY <1>1, <1>2, <2>1 DEF BookInv, CheckedTypeUnused, Without
  <2> QED
    BY <2>1, <2>2, DeletionEffect
<1>3. CASE b \notin booked
  <2>1. At(q, "write") /\ request[q].op = "book" /\ b = request[q].rows /\ Book(q)
    BY <1>3, BookingEffect
  <2>2. b[2] \in ServiceType /\ q \in Booking(b[2])
    BY <1>0, <2>1, BookRowsOf DEF Booking
  <2>3. b[2] \notin deleted
    BY <1>1, <2>2 DEF BookInv, FoundTypeStays, Without
  <2> QED
    BY <2>1, <2>3 DEF Book
<1> QED
  BY <1>2, <1>3

LEMMA BookInductive == BookInv /\ [Next]_vars => BookInv'
<1> SUFFICES ASSUME BookInv, [Next]_vars PROVE BookInv'
  OBVIOUS
<1>0. Types /\ Types'
  BY TypesInductive DEF BookInv
<1>1. ASSUME NEW q \in Request, Arrive(q)
      PROVE  BookInv'
  <2>1. UNCHANGED <<deleted, booked, accidents>>
    BY <1>1 DEF Arrive, store
  <2>2. PICK d : /\ Becomes(q, d) /\ d.stage \notin {"select", "fill", "invalidate"}
                 /\ d.op = "book" => d.stage = "find"
                 /\ d.op = "delete" /\ d.rows[1] \in ServiceType => d.stage = "find"
    BY <1>0, <1>1, ArrivalShape
  <2>3. request'[q] = d /\ \A p \in Request : p # q => request'[p] = request[p]
    BY <1>0, <2>2 DEF Becomes, Types, Requests
  <2>4. \A s : Booking(s)' \subseteq Booking(s)
    BY <2>2, <2>3 DEF Booking, At
  <2>5. FoundTypeStays'
    BY <2>1, <2>4 DEF BookInv, FoundTypeStays, Without
  <2>6. CheckedTypeUnused'
    BY <2>1, <2>2, <2>3 DEF BookInv, CheckedTypeUnused, Without, At, Target
  <2> QED
    BY <1>0, <2>1, <2>5, <2>6 DEF BookInv, BookedTypeStays, Without
<1>2. ASSUME NEW q \in Request, Step(q) \/ Breaks(q)
      PROVE  BookInv'
  BY <1>0, <1>2, FoundTypeStaysStep, CheckedTypeUnusedStep, BookedTypeStaysStep DEF BookInv
<1>3. CASE (\E r \in Row : Expire(r)) \/ UNCHANGED vars
  <2>1. UNCHANGED <<deleted, booked, request, accidents>>
    BY <1>3 DEF Expire, vars, store
  <2> QED
    BY <1>0, <2>1 DEF BookInv, FoundTypeStays, CheckedTypeUnused, BookedTypeStays, Without,
       Booking, At, Target
<1> QED
  BY <1>1, <1>2, <1>3 DEF Next

(***************************************************************************)
(* For any rows and any requests: unless a booking met a stale hash or     *)
(* crossed the deletion between its lookup and its insert, no appointment  *)
(* refers to a deleted service type.  The count of the appointments that   *)
(* the deletion makes covers every other order of the two.                 *)
(***************************************************************************)
THEOREM BookedTypesAreKept == Spec => []BookedTypeStays
<1>1. Init => BookInv
  BY InitTypes DEF Init, BookInv, FoundTypeStays, CheckedTypeUnused, BookedTypeStays
<1>2. BookInv => BookedTypeStays
  BY DEF BookInv
<1> QED
  BY <1>1, <1>2, BookInductive, PTL DEF Spec
=============================================================================
