# TLA+ specifications of the Keyloop appointment system

This directory holds the formal model of the appointment system: TLA+ modules
translated from the TypeScript API (`apps/appointment-api-service`), the C#
worker (`apps/appointment-worker-service`) and the web client
(`apps/api-client-ui`), TLC configurations that model-check them on small
instances, and TLAPS proofs of the central theorems for every instance. Paths below are relative to the repository; `src/` prefixes in
`PROJECT.json` point at its root.

    tlc -workers 2 -config Contention.cfg MCAppointmentProcessor
    tlapm AppointmentProcessorProofs.tla
    tlapm OutcomeProofs.tla
    tlapm StreamPartitionProofs.tla
    tlapm AppointmentCacheProofs.tla
    tlapm SessionProofs.tla
    tlapm BookingDeskProofs.tla
    tlapm MasterDataProofs.tla
    tlapm ConsoleProofs.tla

## 1. Inventory of the system

A customer posts a booking to the **API**; the API hashes tenant and vehicle to
one of four **Redis streams**; **workers** in one consumer group read the
streams, route each message through a **bulkhead** per tenant to
**AppointmentProcessor**, which looks for a technician and a bay, takes **Redis
locks** on them, checks the calendar in **PostgreSQL** under the locks, inserts
the appointment and publishes the outcome in a **Redis hash** the API reads.
Staff then move the appointment through its statuses by API requests, and
watch it in the **web client**, which polls the API. Who may do what is decided
by **tokens** that the API issues for a membership in a tenant; what bookings
refer to are **master data** rows, some of them read through a Redis cache.

| Component | State it keeps | Operations | Interacts with |
|---|---|---|---|
| Availability engine `AppointmentProcessor.cs` | locals of each handler: loops, lock names, assigned ids | `ProcessAsync`: validate, search, lock, check, insert, publish, fail, release | locks, tables, cache, stream worker |
| Distributed lock `RedisDistributedLock.cs` | Redis keys with a value and a 30 s lease | SET NX PX, compare-and-delete script, expiry | engine |
| Worker repositories, `AppDbContext` | tables of PostgreSQL, filtered by tenant | overlap and candidate queries, insert | engine |
| Status endpoints `update-appointment-status`, `cancel-appointment` | the row's status | read, check, unconditional write; clean-up of cache keys | table, cache |
| Stream partitions `StreamPartitionWorker.cs`, `PartitionedStreamHost.cs` | streams, consumer group cursor, pending lists, dead-letter stream; loops of each process | create group, read, dispatch, acknowledge, dead-letter, start, stop | bulkhead, engine |
| Tenant bulkhead `TenantBulkheadRouter.cs` | channel and semaphore of each tenant in each process | TryWrite, drain, release | stream worker |
| Appointment cache (`create-appointment`, `cached-appointment-crud.repository`, processor) | appointment hash, active set, occupancy sets | write Pending, write outcome, drop, fill on read | API, worker |
| Master data `crud/*`, `repositories/*`, read-through caches `cached-*.repository.ts` | rows of bays, technicians, service types, vehicles, tenants, skills; an entity hash for each | create, get, put, delete, add and drop a skill, book; get with fill, invalidate | PostgreSQL, Redis |
| Sessions `auth/*.use-case.ts` and membership `tenant/*.use-case.ts` | users, user-tenant rows, refresh token rows; signed access tokens | register, login, refresh, switch tenant, logout; assign, promote | HTTP layer |
| HTTP layer: routers, `jwtAuth`, `tenantContext` | none | admit or refuse a request, route it | everything behind it |
| Web client, dashboard (`AuthContext`, `api.ts`, `Dashboard.tsx`, `CrudModal.tsx`) | local storage shared by windows; React state of a window; requests under way | sign in and out, select tenant, change tab, list, poll, write | API |
| Web client, booking form (`AppointmentModal.tsx`) | fields, the technicians and bays on offer | choose, ask for availability, submit | availability queries |
| Availability queries `list-available-technicians`, `get-bay-occupied-slots` | none | who is free in an interval; what is noted of a bay on a day | tables, occupancy in Redis |
| Temporary hold `create-hold.use-case.ts` | hold keys with 5 min expiry | all-or-nothing script over the keys of one hold | nothing reads it |
| Partition hashing `partition-hasher.ts` | none | FNV-1a over 32 bits, remainder by 4 | create |
| Reminder job, audit log | reminder and audit rows | daily run over tomorrow's appointments; a row per change | e-mail |

The hard behaviours:

* **Interleaving.** Five handlers per tenant and process, any number of
  processes, four streams: handlers of one tenant race at every `await`. The
  status endpoints read, check and write in separate calls.
* **Lock discipline.** The search re-uses two local variables for the names of
  its locks, the `finally` block releases what they name last; the lock value
  is a stream id that is unique per stream only; the lease is finite.
* **Partial failure.** The row, the hash, the sets and the acknowledgement are
  separate commands; the `catch` block treats a failure after the commit like
  one before it.
* **Delivery.** Entries move to a pending list when they are read; nothing
  claims pending entries; a stopping process deletes its own list; a stop does
  not wait for the channels.
* **Limits.** Channel capacity, semaphore cap, read count.
* **Stale cache.** Several writers of one hash key with two different layouts; a
  reader that missed fills an entity hash with what it selected before a writer
  invalidated it; checks that let a request go on read such a hash.
* **Check, then write.** Use cases look, check and write in separate queries:
  two rotations of one token, two assignments of one user, a booking against
  the deletion of its service type.
* **Answers out of order.** The client does not wait: lists, polls and
  availability requests overtake one another and the user's clicks, fail late,
  or are answered after the effect that asked has been cleaned up. All windows
  share the storage from which a request takes its token and tenant.

What makes each component correct: no overlapping active appointments share a
technician or a bay, bookings are capable, the customer is told the truth, locks
are owned and drain, the search ends (engine and lock); a request has one
handler and is never lost, every accepted one is settled and tenants do not
block one another (streams and bulkhead); appointments skip no step of their
life (endpoints); a hash never contradicts its row for good (caches), and no
appointment refers to what was deleted (master data); an access token says no
more than the membership, a refresh token is used once, a login has one live
token at a time, and no role gets lost to a concurrent request (sessions,
membership); a window
shows rows of its own tenant and tab, and present ones (dashboard); what a form
offers was answered for what it shows (booking form); two customers never hold
one resource (hold).

## 2. Plan

| Step | Module | State |
|---|---|---|
| 1 | `Calendar` (abstract), `AppointmentProcessor`, `MCAppointmentProcessor` | done |
| 2 | `AppointmentProcessorProofs`: types, inductive invariant, refinement | done |
| 3 | `StreamPartition`, `MCStreamPartition` | done |
| 4 | `AppointmentCache`, `MCAppointmentCache` | done |
| 5 | `StreamPartitionProofs`: types, `OneHandler`, `PermitsAddUp`, `BulkheadBound`, `StillOwed`, the refinement of step 14 | done |
| 6 | `AppointmentCacheProofs`: types, `PublishedIsCommitted`, `DetailFollowsRow`, `OverExpires`, and the settled agreements | done |
| 7 | `MasterData`, `MCMasterData`: rows, routers, unique indexes, entity hashes | done |
| 8 | `Session`, `MCSession`: log-ins, rotation, switch, logout, assignment, promotion | done |
| 9 | `Console`, `MCConsole`: a window of the client over the shared storage | done |
| 10 | `BookingDesk`, `MCBookingDesk`: the form, the availability queries, holds | done |
| 11 | `SessionProofs`, `BookingDeskProofs` | done |
| 12 | `MasterDataProofs`: types, `CacheFollowsRow`, `BookedTypeStays`; `ConsoleProofs`: types, `ShowsItsOwn` | done |
| 13 | `OutcomeProofs`: `ToldTheTruth`, `NoLeakedLock`, `OnlyTheOwnerReleases`, `SomeoneBooks` of the engine | done |
| 14 | `RequestQueue` (abstract): what the streams promise of a request, refined by `StreamPartition` | done |

How the modules compose: each opens one part and abstracts its neighbours to
what that part can tell of them. `StreamPartition` composes the partition loop
with the bulkhead and abstracts `ProcessAsync` to one step;
`AppointmentProcessor` opens that step and abstracts the cache writes to `told`;
`AppointmentCache` opens those and abstracts the search to the step `Decide`.
`MasterData` takes the whole way of a booking, from its publication to the
worker's insert, as the step `Book`. `Console` takes the server as one step per
request, over the statuses a row goes through, and `BookingDesk` the worker's
bookings for others as `Booked` followed by `Noted`. `Session` says what the
tokens mean that `Console` carries in its storage.

Two abstract specifications are implemented by a detailed one: `Calendar` by
`AppointmentProcessor`, and `RequestQueue` by `StreamPartition`. The two meet in
`ProcessAsync`: the queue gives a request to it once at most, and the calendar
is what it then does. The other modules are stated against the source directly: what the caches,
sessions and the client promise is a relation between two of their own states
(hash and row, token and membership, table and tenant), which an invariant says
without a second machine.

## 3. Modules and the code

### AppointmentProcessor

One tenant. A handler is identified with its message. Every `await` of
`ProcessAsync` ends a step, so every interleaving of handlers at awaits is
explored; the code between two awaits touches locals only.

| Variable | Code |
|---|---|
| `pc` | the await a handler is at |
| `techTodo`, `bayTodo`, `tryTech` | the two `foreach` loops of the search |
| `techLock`, `bayLock` | the locals of the same name (the resource in the key) |
| `tech`, `bay` | `assignedTechId`, `assignedBayId`, and the row's columns after the insert |
| `lock` | the Redis keys; a key is a resource and the exact start |
| `status` | the row's status, `"none"` without a row |
| `told` | `status` of the appointment hash |
| `edit` | a status request between its check and its write |

`foreach` order is unspecified by the queries (no ORDER BY), so the search picks
any remaining candidate. The insert of a Failed row in the catch block cannot
succeed: its technician id is the empty string, which the column converter
`Guid.Parse` rejects, and the code swallows the exception. `Faults` chooses
which failures an instance considers: `await` (a call throws without effect),
`lostReply` (it throws after its effect), `cache`, `release`, `crash`, `lease`.

`Calendar` is what booking promises: one atomic step books a request on a
qualified, free pair. `ImplementsCalendar` maps `status`, and the row's
technician and bay, to its variables.

### StreamPartition

A `Worker` is one run of a worker process, because each start draws a new
consumer id. The Redis side (`stream`, `cursor`, `pel`, `dlq`) survives
processes; `loop`, `stage` and `permits` are a process's memory. `stage[w][m]`
walks `batch` (in the array `foreach` walks), `channel`, `inHand` (taken by the
drain task, waiting for the semaphore), `work`, the commands of settling, and
`release`. `left` is a message the full channel refused, `over` a settled one,
`lost` what a process had in memory when it ended. Entry ids are numbers that
grow within a stream. `ProcessAsync` is one step, `Work`, with the results it
can return; `WorkThrows` is the scope or a release in its finally block
throwing. `SettlingThrows` lets every Redis command of a handler fail with or
without effect.

`RequestQueue` is what the streams promise, without cursors, consumers,
processes or bulkheads: `Take` gives out some of the oldest requests of a
stream, `Process` happens once at most and never after `Bury`, `Settle` only
after one of them. `ImplementsQueue` maps it: a request is taken when its entry
is not ahead of the cursor any more (`Waiting`), and pending while its entry
exists and is on the list of a consumer (`Pending`). `Forget` is the deletion of
a consumer; `MayForget` says that processes may be stopped gracefully.

### AppointmentCache

One appointment. `row` is the status in PostgreSQL, the rest are Redis keys:
`flat` and `detail` are the two layouts of the appointment hash (the fields of
the row, written by create and by the worker; the JSON fields of a detail,
written by the detail query), `ttl` whether that key expires, `listed` the
active set, `slots` the two sorted sets and the hash of the occupancy.

| Actor | Its steps | Code |
|---|---|---|
| `api` | publish, HSET Pending, SADD | `create-appointment.use-case.ts` 88-110 |
| `worker` | decide; HSET Scheduled, SADD, ZADD, ZADD, HSET slot, XACK; or HSET Failed, EXPIRE, SADD | `AppointmentProcessor.cs` 151-278 |
| `editing[e]` | read and check; UPDATE; DEL hash; SREM, ZREM, ZREM, DEL slot, DEL hash | status endpoints and cached repository |
| `reading[r]` | HGETALL; SELECT; HSET; EXPIRE | `read-through-cache.wrapper.ts` 45-68 |

Editors and readers start over when they end. The rule that an UPDATE is
followed by an invalidation, and what is over by a clean-up, is `EditAfter`.
Failures: `redis` (a command throws, executed or not), `commit` (the reply of an
INSERT or UPDATE is lost), `crash`. The auxiliary variable `accidents` records
which races were lost (`overtaken`: create was slower than the worker; `early`:
a status request read the row before the worker was through; `crossed`: two
status requests at once; `lateFill`: a detail was cached that was not the row's
any more) and who failed. The agreements between keys and row do not hold
without exception, in the code as it is; each invariant names the accidents it
excepts, and so says that all the others, in any combination, do no harm.

### MasterData

The five kinds of rows with their routers. A request passes up to five stages,
`find`, `check`, `write`, `invalidate` and, within the first, `select` and
`fill`, with an await between any two.

| Variable | Code |
|---|---|
| `version`, `deleted` | the row's content, and its `deletedAt` (a tenant's `isActive`) |
| `cached`, `expires` | the entity hash, and whether EXPIRE was set on it |
| `skills`, `booked` | `technician_skills`; vehicle and service type of the appointments |
| `request` | operation, rows, stage, and what a SELECT has returned |

What differs between kinds is data: `DrizzleTenants` and its like say which
names are unique and which finders see deleted rows, `CachedVehicles` and its
like which operations the cached repository follows by an invalidation,
`Looks` and `Checks` which stages a use case has. All rows of a kind want one
name, so every second insert of a unique kind is a conflict. `accidents`
records a lookup that hit a stale hash (`staleHit`), a fill that came late or an
invalidation that failed (`leftStale`), and a deletion of a service type that
crossed a booking of it (`crossed`).

### Session

| Variable | Code |
|---|---|
| `known`, `link`, `token` | tables `users`, `user_tenants`, `refresh_tokens` |
| `claims` | payloads of the access tokens signed so far |
| `call` | a request of `/auth` or `/users` and the query it is at |
| `granted`, `overlapped` | auxiliary: grants answered with success; whether two refreshes revoked one token |

Each query of a use case is a step; `Breaks` ends a request at any of them with
what it wrote so far. Arrivals state what the middleware lets in: a token once
handed out for refresh and logout, any access token for a switch, one of a
manager or a super admin for assignment and promotion. A switch revokes
whatever refresh token its body names, somebody else's or an unknown one
included (`switch-tenant.use-case.ts:42`). The fields `from` and `line` of a
token are auxiliary: the token it was exchanged for, and the first one of that
line of exchanges. A login without a membership is signed
for the tenant `"system"`. A refresh signs the role `TenantUser` for anyone.

### Console

One window. `storage` is the local storage, which other windows write too
(`Elsewhere`); `session`, `tab`, `loading`, `error` and `data` are React state;
`net` holds requests and answers, each with the `active` flag of the effect that
sent it. `RunsEffects` is what React does when the dependencies of the two
effects of the dashboard change: it runs both clean-ups and both effects anew.
`Serve` is the server, with the admission of `jwtAuth` and `tenantContext`;
`Lose` and `Elsewhere` together are bounded by `MaxUpsets`. A user writes one
row at a time, and not while the table is loading. `strayed` (auxiliary) says
that a request of the present effects was sent for another tenant than the
window shows, because another window had changed the storage.

### BookingDesk

| Variable | Code |
|---|---|
| `form`, `listed`, `posting` | the fields of `AppointmentModal`, whether the lists are loaded, `submitting` |
| `offer` | the technicians and bays that can be chosen |
| `net` | availability requests: what they were asked for, the answers still awaited, and the answers there are |
| `basis` | auxiliary: what the answer on offer was asked for, and what was booked and noted then |
| `book`, `noted` | others' appointments in the table, and in the occupancy sets |
| `held`, `holds` | the hold keys, and the holds granted and not yet ended |

Times are integers, days have `DayLength` of them, and `Zone` is what the
user's clock is ahead of UTC. The technicians are asked for an interval; each
bay is asked for a day and its slots are compared with the interval in the
client. One effect awaits all answers (`Promise.all`), so one failure fails it.
The two scenes, the form and the holds, share no state in the code and are
explored apart.

### Deliberate faults

Operators named `Wrong...` stand next to the definition they distort: a dropped
guard, a missing NX, a permit not returned. No specification uses them. Putting
one in the place of its neighbour shows that a property notices a plausible
mistake in the code; `PROJECT.json` lists which property notices which.

## 4. What TLC checks

### Runs that pass

| Run | Instance | Shows |
|---|---|---|
| contention | 3 requests (1 manual, 2 AutoAssigned), 2 technicians, 2 bays, 1 slot, 1 status request | interleaved handlers implement the calendar, tell the truth, leak no lock, and somebody books |
| faults | 3 requests (manual, AutoAssigned, invalid), 2 + 2 resources, 2 status requests on one row, all faults but expiring leases | lock ownership and capability of bookings survive exceptions, lost replies and crashes; although the two status requests overwrite one another, nothing is completed that was not begun and nothing goes back to Scheduled |
| drain | 2 requests, one AutoAssigned with ids, fairness, exceptions, failing releases, crashes, expiring leases | every request ends; all locks are free in the end; nobody releases a foreign lock |
| delivery | 2 processes, 1 partition, 1 tenant, cap 1, capacity 1, 2 entries per read, a malformed entry; Redis, database and handler failures, crashes | one handler per message, semaphores balanced; the streams implement the queue, so nothing is lost, processed twice or out of its order |
| settling | 1 process, 2 tenants, 5 entries, handlers that need never return, stop | the loop dispatches everything although channel and semaphore are full; a tenant whose handlers return is served although the other's hang; a tenant holds at most cap + capacity + 1 entries in memory |
| cache | 1 appointment, 2 status requests and 2 detail queries at a time, all faults, at most 2 kinds of accident per behaviour (`MaxAccidents`) | what hash, active set and occupancy show when everything has settled, and which races and failures harm none of it |
| masterdata | 2 requests at a time; 2 bays, technicians and tenants, a service type and a vehicle; 2 versions; Redis failures and crashes | a hash disagrees with its row only between a write and its invalidation, or after a late fill or a failed invalidation, and not for good; an appointment keeps its service type unless a request crossed the deletion or trusted a stale hash |
| session | 2 requests at a time, 3 users (one a super admin), 2 tenants, 4 refresh tokens, requests that break off | tokens say no more than memberships and are exchanged once, a login has one live token at the most unless two refreshes overlapped, and no grant is lost to another request |
| console | 2 tenants with an appointment each, a technician, 1 read under way when the user acts, 1 upset | the table shows rows of its tab and tenant in whatever order answers come, never loads for ever, and follows the active appointments |
| booking | a technician, a bay, 2 service types (one nobody is skilled for), 2 times, days of 4, an appointment over midnight; 2 customers asking for holds | a settled form offers what was answered for what it shows; a hold is of both resources or of none |

Why these bounds are enough to be interesting: two resources of each kind and
three requests allow a request to lose the first pair and take the second, to
hold one lock while another handler holds the other, and two searches to cross;
one slot makes every pair of requests conflict. With cap 1, capacity 1 and the
handler in the drain task's hand, the fourth entry of a tenant overflows; two
per read makes a batch that is half dispatched when something fails. Two worker
runs are a process and its successor, or two processes at once. Two status
requests can cross, two detail queries can separate each other's HSET and
EXPIRE; each pair of accidents, repeated at will, is tried against the
agreements that do not except it (with three kinds and one reader the outcome
is the same).

The newer instances explore one *scene* per behaviour: the requests that can
meet in one piece of state (the rows of one kind; a skill or a booking and the
deletion of what it refers to; the tokens of one user; memberships and the
tokens that come to speak of them). Operations of different scenes touch
disjoint state, so a behaviour that mixes them shows nothing new. Two requests
at a time, of any number in all, make every race of the code, each of which is a
check of one request against a write of another; four refresh tokens make a
chain of a login and three exchanges. `MaxReads` bounds the reads under way when
the next is sent, not the reads in all: with 1, an old list, an old poll and
the new pair are under way together and can be answered in any order. The
plan of *booking* has an interval that meets a long service before midnight, not
a short one, and every service after it.

### Runs that find a disagreement

Each of these checks one sentence of the repository's documents, comments or
tests and ends in a counterexample; `PROJECT.json` quotes the sentence.

| Run | The code |
|---|---|
| staggered | lock keys end in the exact start, so overlapping requests with different starts book one pair |
| overflow | an entry refused by a full channel is never delivered again |

### Further configurations

These are kept beside the runs and end in a counterexample each; they are not
listed in `PROJECT.json`. The first three drop one condition of the theorems of
section 5 and refute a property that is proved under it, so that condition is
needed.

| Configuration of `MCAppointmentProcessor` | Dropped |
|---|---|
| `Preset.cfg` | AutoAssigned requests carry no ids: one that does is booked on them unchecked when the search finds nothing |
| `SharedToken.cfg` | ids are distinct: two streams can hand out one id, and the loser then releases the winner's lock |
| `LeaseOverrun.cfg` | leases outlast handlers: a slower one inserts next to its successor |

The others check a sentence of the repository and find the code to disagree with
it. `StatusRace.cfg` also shows that the hypothesis `NoCrossedEdits` of section 5
is needed, and `Restart.cfg` that the condition of `NothingForgotten` is. What
`StatusMachine` says is therefore not a property of the *faults* run, in which
two status requests meet on one row; `NoStepSkipped`, which is, says what their
race leaves of it.

| Configuration | Sentence | The code |
|---|---|---|
| `StatusRace.cfg` (`MCAppointmentProcessor`) | "Validate state machine", `update-appointment-status.use-case.ts:28` | two status requests both pass the check and the second overwrites the first: a cancelled appointment is completed, or the other way round |
| `FailedButBooked.cfg` (`MCAppointmentProcessor`) | `specs/014-realtime-booking/spec.md:100`, FR-003: the cached hash gets "the final `status`" | a cache write that fails after the commit tells the customer "Failed" |
| `Refusal.cfg` (`MCStreamPartition`) | `specs/008-auto-assign-appointment/spec.md:76`, FR-007: a request without technician and bay goes to the dead-letter queue | a refused request is acknowledged, not dead-lettered |
| `Restart.cfg` (`MCStreamPartition`) | `specs/002-appointment-worker-service/spec.md:99`, SC-004: restarts without losing requests | a graceful stop drops the pending list and exits with requests still in its channels |
| `BookedVehicle.cfg` (`MCMasterData`) | `specs/003-multi-tenant-api/spec.md:163`, FR-018: a vehicle of an active appointment is not deleted | its deletion looks at no appointments |
| `Dashboard.cfg` (`MCConsole`) | `specs/014-realtime-booking/spec.md:133`, SC-004: the dashboard "auto-refreshes active appointments within 5 seconds of any status change" | the poll merges active appointments only; a row that has ended keeps its old status |
| `BayOffer.cfg` (`MCBookingDesk`) | `specs/014-realtime-booking/spec.md:107`, FR-010: availability considers the complete service duration | slots are read for the day they start on, so one over midnight is missed the morning after |

### Deadlock

The *masterdata*, *console* and *booking* runs check for deadlock. In the others
`CHECK_DEADLOCK FALSE` stands because the modelled system may really stop:
requests for appointments are finite and processed once, a worker run that has
ended does not come back, and the refresh tokens of an instance of `Session` can
all be spent.

### Fairness

* `AppointmentProcessor!FairSpec`: weak fairness of each handler's next step
  (the .NET scheduler resumes a task whose await has completed, and the calls
  have time-outs) and of the expiry of each key (Redis expires keys).
* `StreamPartition!ReaderSpec`: weak fairness of starting a process, of the
  loop of each partition, of the commands of each handler and of exiting. It
  says nothing about `ProcessAsync`.
* `HandlersReturn(t)`: `ProcessAsync` ends for tenant `t`, which is what
  `EveryRequestEnds` shows of the engine. `TenantsAreIsolated` assumes it of one
  tenant only.
* `MasterData!Fairness`: weak fairness of the next step of a request that has
  begun (its process runs on, or `Breaks` ends it) and of the expiry of each
  hash that has one. `StaleHashGoes` needs no more.
* `Console!Fairness`: the interval timer goes on, and requests of each kind, of
  the present effects or of earlier ones, are served and answered in the end, in
  any order among themselves. That is the browser's promise: a `fetch` settles.

No fairness is assumed of failures, of publishing, of stopping, or of status
requests.

## 5. What is proved

All proofs are checked by `tlapm` and hold for every value of the constants that
the named assumptions of the modules allow.

### The booking engine

`AppointmentProcessorProofs.tla`, for every number of messages, technicians,
bays and status requests:

Each theorem assumes of the deployment only what it needs:

| Theorem | Property | Assumes |
|---|---|---|
| `TypeCorrect` | `TypeOK` | `ProcessorAssumption` alone, as all below |
| `StatusesSkipNoStep` | `NoStepSkipped`: created Scheduled, completed only after it has begun, never Scheduled or gone again | nothing; every fault and every race of status requests is allowed |
| `BookingsAreCapable` | `CapableBooking` | `NothingPreset`: AutoAssigned requests carry no ids |
| `LocksAreKept` | `HoldersKeepLocks` | `OwnTokens`: message ids are distinct; `NothingPreset`; `LeasesLast`: leases outlast handlers |
| `SlotsStayExclusive` | `SlotsAreExclusive`: scheduled appointments that overlap and share their start share neither technician nor bay | `OwnTokens`, `NothingPreset`; in behaviours with `[]HoldersKeepLocks` |
| `DoubleBookingFree` | `NoDoubleBooking` | `OwnTokens`, `NothingPreset`; in behaviours with `[]HoldersKeepLocks`, `[]NoRace` and `[]NoCrossedEdits` |
| `ProcessorImplementsCalendar` | `ImplementsCalendar` | as `DoubleBookingFree` |

The code does not exclude every double booking, so the last two theorems are
about behaviours, not about deployments: requests may start and overlap as they
like, and the hypotheses name the states that must not occur.

* `NoRace`: no handler is about to insert on a resource whose calendar another
  one, which overlaps it with a different start and so has another key, has read
  and not yet used. It is the window between the check of the one and the insert
  of the other, no more: the same two requests one after the other, or with the
  second check after the first insert, are covered.
* `NoCrossedEdits`: no two status requests on one appointment are both between
  their read and their write; one that comes too late could put a cancelled
  appointment, whose place is taken, back to InProgress.
* `HoldersKeepLocks`, which `LocksAreKept` shows to follow from leases that
  outlast handlers.

`SlotsStayExclusive` says what is left without the first two: the requests the
keys do serialize. The code guarantees none of these conditions, and section 4
shows that each is needed: `NoRace` by *staggered*, `OwnTokens` by
`SharedToken.cfg`, `NoCrossedEdits` by `StatusRace.cfg`, `NothingPreset` by
`Preset.cfg`, `LeasesLast` by `LeaseOverrun.cfg`. All other faults (exceptions
anywhere, lost replies, failing releases, crashes) are allowed in the theorems.

`NoDoubleBooking` is not inductive: it says nothing of the handler about to
insert. `IInv` adds

* `StillFree`: what that handler found free under its locks is free still: an
  insert with the same start needs a lock it holds (`HoldersKeepLocks`), one with
  another start would be a race, and status requests only free;
* `PairOnTrial`, `PairQualifies`: its locals name the pair it locked, and the
  pair qualifies as far as it has been checked;
* `RowsAfterInsert`, `EditsStayValid`: rows appear only by an insert, and a
  status request that passed its check may still write.

The conjuncts are proved in layers, so that each theorem needs its own
conditions only: `Rows` and `Forward` (no condition), `Qualified`
(`NothingPreset`), `Owned`, `Statuses`, and `IInv` on top of them. `Forward` adds
`EditsGoForward`: a status request that is to complete an appointment has seen it
begun. `Slots` repeats the argument for one slot with `SlotStillFree`, of
Scheduled rows only, which no status request brings back. Each action preserves each conjunct; a
handler that acts leaves the others' locals alone (`OthersUntouched`) and their locks alone
(`OthersKeepTheirLocks`, which needs distinct tokens). The refinement maps
`Insert` and `CommitReplyLost` to `Book`, a status write to `Begins`,
`Completes` or `Cancels`, and every other step to a stutter.

### How a request ends

`OutcomeProofs.tla` builds on those invariants and says what becomes of locks,
of the word the customer gets and of competitors:

| Theorem | Property | Assumes |
|---|---|---|
| `NobodyElseReleases` | `OnlyTheOwnerReleases`, an action property | nothing; every fault is allowed |
| `ScheduledIsNeverInvented` | `ScheduledIsBooked`: whoever is told Scheduled has a row | nothing; every fault is allowed |
| `CustomersAreToldTheTruth` | `ToldTheTruth` | no lost replies and no failing cache writes; `FailedButBooked.cfg` shows the latter is needed |
| `NoLockIsLeaked` | `NoLeakedLock` | `OwnTokens`, `NothingPreset` |
| `CompetitionBooksSomeone` | `SomeoneBooks` | no faults, `OwnTokens`, `NothingPreset`, and a request at all |

* `NamedKeys`, under `NoLockIsLeaked`: a key with a handler's token is one its
  two locals name, and only one of them while the search is between the two
  locks. It is what every one of the search's exits has to establish before it
  overwrites a local.
* `ScheduledHasRow` and `FailedHasNoRow`: the word in the hash agrees with the
  row at every step of the `try` and the `catch` block, not only at the end.
* `Hope`, under `CompetitionBooksSomeone`: as long as there is no row, some
  handler holds a lock that can still lead to a row, or nobody holds any and
  everybody still has a pair to try (`Untried`). A handler that has lost hope
  with a lock in its hand has met a row (`RefusedByRow`); one that is refused the
  bay's lock is refused by a handler that has hope.

### The streams and the bulkhead

`StreamPartitionProofs.tla`, from `StreamAssumption`, for every number of
processes, partitions, tenants and messages and every set of faults:
`StreamTypeCorrect` (`TypeOK`), `OneHandlerOnly` (`OneHandler`),
`PermitsAreKept` (`PermitsAddUp`), `BulkheadIsBounded` (`BulkheadBound`),
`StreamsImplementQueue` (`ImplementsQueue`); and, when no process is stopped
gracefully, `NothingForgotten` (`StillOwed`). `Restart.cfg` shows that this
condition is needed.

The refinement goes by kind of step: publishing is `Post`, a read, with or
without its reply, is `Take`, the end of a loop is `Forget`, and a handler
processes, buries, settles or stutters; the life of a process changes nothing
the queue sees. Besides `IInv` it needs `Fresh`: what a process has not worked
on yet has no outcome, what it has not copied yet is not dead-lettered, and
whatever has an outcome is behind the cursor, so that a read never brings it
back. `NothingForgotten` is then a fact about the abstract queue (`QueueOwes`),
carried over by the refinement.

`IInv` adds to the invariants

* `Ordered`: the cursor is at an entry that was sent, ids not yet sent are
  beyond all that were, and what a worker has is behind the cursor. So a read,
  which takes entries ahead of it, never takes what a worker has, and a new
  entry never lands behind it;
* `Placed`: a process that is not alive runs nothing, and what cannot be read
  never gets to a bulkhead;
* `Settled`: acknowledging follows the result or the copy it acknowledges;
* `Balanced`: a process starts with all its permits, its channels are not
  overfull, and the drain task has one handler in its hand.

`Delivery` is the lemma about the read: it moves the cursor to an entry that was
sent, and everything it moved the cursor past is in the batch. It rests on the
cardinality of the entries before the last one of the batch, and `OneHandler`
and the refinement rest on it. `OwnBulkhead` and `OtherBulkheads` say what a
handler that moves does to the channel and the semaphore of its tenant and of
the others; the theorems about permits follow by adding or removing one element.

### The cache

`AppointmentCacheProofs.tla`, from `CacheAssumption`, for every number of status
requests and detail queries, every set of failures and every `MaxAccidents`:
`CacheTypeCorrect`, `NothingUncommitted` (`PublishedIsCommitted`),
`OccupancyIsTrue`, `HashIsTrue`, `ListIsTrue`, `DetailIsTrue` and `ExpirySet` (the
invariants of the *cache* run). Each is proved as it stands in the module, with
the accidents it excepts: `HashIsTrue` excepts `overtaken`, `early`, `workerFault`
and `editFault`, and so covers `crossed`, `lateFill`, `createFault` and
`readFault`; `OccupancyIsTrue` excepts `early`, `crossed`, `workerFault` and
`editFault`; `ListIsTrue` these and `overtaken`; `DetailIsTrue` `lateFill` and
`editFault`; the other three except nothing.

The agreements speak of moments at which everything is at rest and are not
inductive. `IInv` says what they are between: `Committed` that whoever writes
does so after a commit; `WorkerAlone` that nobody has touched what a worker
publishes before it is through; `OneEditor` that one status request at a time
finds the slots of its row and empties them; `SlotsInv`, `ListInv` and `HashInv`
what each key holds at each step of the worker and of a status request. Each
part excepts the accidents of the agreement it serves.

### The sessions

`SessionProofs.tla`, from `SessionAssumption`, for every number of users,
tenants, tokens and requests in flight: `SessionTypeCorrect` (`TypeOK`),
`ClaimsBacked` (`ClaimsAreBacked`), `ExchangedOnce` (`SpentOnce`),
`GrantsAreKept` (`GrantsHold`) and `LoginsStaySingle` (`OneLivePerLogin`). None
assumes that requests name tokens of their own user.

The invariants speak of what has been signed and answered. `IInv` adds what
requests are about to do:

* `Calls`: a request is at a stage its use case has (`WellFormed`), with the
  tenant and role it was asked for (`AskedFor`); a refresh or a log-out acts for
  the owner of the token it brought (`ActsForOwner`); one that will sign a role
  in a tenant has it borne out by the row (`CallIsBacked`);
* `Tokens`: a refresh token was issued for a membership there was, so a
  rotation, which asks for no membership, signs nothing new;
* `OneSuccessor`: while no two refreshes overlapped, a token with a successor,
  or about to have one, is revoked and has no other;
* `LinesEnd`: a line of exchanges goes on in one place only: if a refresh is
  between its revocation and its insert, no token of its line is live and no
  other refresh continues it.

Everything rests on `LinkGrows`: no action removes a membership or lowers its
role, so what a check found stays true until the write. `RevokeKeeps` and
`IssueKeeps` are the two steps at which more than one conjunct moves.

### The booking form and the holds

`BookingDeskProofs.tla`, from `DeskAssumption`, for every number of technicians,
bays, service types, times, bookings of others and customers: `OffersAreFree`
(`OfferIsFree`), `HoldsAreWhole` (`HoldIsWhole`) and `DeskTypes` (`TypeOK`, which
also says that a closed form offers nothing and waits for no answer).

`OfferIsFree` speaks of a settled form. `IInv` says what holds before: each
request, whether it still counts or not, has only right answers so far (`Right`)
and remembers a past state of the bookings (`Past`); `OfferIsRight` says the
same of the offer; `ActiveAreAsked`, that a request that counts is for the form
as it is; `SettledMatches`, that without one the offer is for the form as it is;
`Unlisted`, that without lists there is nothing to choose. The argument why
answers that race with other bookings stay right is that an appointment is
booked once and never again after it ended, so who was booked when the form
asked and is booked now was booked when the answer was given; likewise for what
is noted.

### The master data

`MasterDataProofs.tla`, from `MasterDataAssumption` and `KindsAssumption`, for
any rows, any number of requests and any failures: `MasterDataTypes` (`TypeOK`),
`CacheIsInStep` (`CacheFollowsRow`) and `BookedTypesAreKept` (`BookedTypeStays`).
`KindsAssumption` says that the kinds of rows are disjoint, since each has a
table of its own; without it a create of one kind could meet the deletion of
another.

* `CacheInv` adds that tenants have no hash (`TenantsUncached`: no repository
  fills or invalidates one) and that a row under creation is inserted by nobody
  else (`CreatesAreNew`), so that an insert, which invalidates nothing, cannot
  put a row out of step with a hash.
* `BookInv` adds the two halves of the race: while no accident has happened,
  what a booking has found is not deleted before it writes (`FoundTypeStays`), and
  what a deletion has counted as unused gets no appointment before it writes
  (`CheckedTypeUnused`). Each is kept because the step that would break the one
  is the step that records the accident for the other.

### The window

`ConsoleProofs.tla`, from `ConsoleAssumption`, for any tenants and rows, any
number of requests under way and any number of changes by other windows:
`ConsoleTypes` (`TypeOK`) and `TableShowsItsOwn` (`ShowsItsOwn`).

`WindowInv` says what holds of the requests under way: at most one list is not
to be dropped, and the window is loading exactly while there is one (`OneList`,
`Loads`, which make the second half of `TypeOK` inductive); an answer holds rows of the
tenant and the tab that were asked for (`Fits`, which rests on `OwnStatuses`: only
appointments have the statuses of one); and a request that is not to be dropped
was asked for the tab and the tenant that are shown (`Present`). `AskingKeeps` is
the common argument of the effects, of a reload and of the reload after a write:
the table is emptied, and nothing asked before is present.

## 6. Checked but not proved, and not modelled

Only model-checked:

* `EveryRequestEnds`, `LocksDrain`, `ReadersNeverBlock`, `TenantsAreIsolated`,
  `StaleHashGoes` and `ActiveRowsFollow` are liveness under fairness, which is
  beyond the prover.

Every safety property of a passing run is the subject of a theorem.

Not modelled:

* The audit log: a row in the transaction of what it describes; nothing reads
  it back.
* The reminder job: the record of a sent reminder is commented out
  (`SendAppointmentRemindersUseCase.cs:47`), so no protocol is left; every run
  sends every reminder.
* Partition hashing: a pure function of strings. `StreamPartition` lets any
  message be on any partition, which is weaker than what the hash does.
* HTTP bootstrap, cluster, metrics and rate limiting: framework code and I/O.
* `getList` of the read-through cache and the plain lists of master data.
* Expiry of tokens and the hashing of passwords; refused forms and wrong
  passwords, which write nothing.
* In the client: registration and membership forms, the layout, the panel of
  occupied slots. The tabs without polling behave alike and are one.
* The list of available bays and the slots of a technician, which the booking
  form does not ask for.
* Other tenants, where they only meet by a tenant id in every key and query: the
  engine and the appointment cache are modelled for one tenant. The bulkhead,
  sessions and the window have two.

Seen while modelling, and part of the models where they matter:

* A refresh signs the role `TenantUser`, so a manager who rotates is a member
  until the next login or switch; the client calls neither `/refresh` nor
  `/logout`.
* A refused poll sets `error`, which only the effect of the list resets.
* A deletion answered with 204 has no body, so the client reports a failure and
  does not load the list again.
* `findAvailable` takes a completed appointment as occupying its technician.
* Unique indexes do not look at `deletedAt`, so the name of a deleted row cannot
  be used again; the create use case does not find it and the insert fails.
* Nothing reads a hold, so it keeps nobody from booking.
* The loop of a partition does not begin after an error other than BUSYGROUP
  (`StreamPartitionWorker.cs:48`); its process then never serves the partition.
