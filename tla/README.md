# Verification of the ride marketplace backend

TLA+ modules, TLC configurations and TLAPS proofs for the Go backend in
`src/backend`: riders request rides, nearby drivers answer with offers, the rider
selects one, the driver drives, and the ride is paid in cash. All state is in
PostgreSQL; any number of API processes may serve it. What can go wrong is
concurrency on rows: offers, selections, cancellations, deadlines, sweeps and
driver presence all move the same few tables.

## 1. Inventory

Paths are below `src/backend/internal` unless they start with `src`.

| Component | State | Operations | Module |
|---|---|---|---|
| ride requests (`ride`) | `ride_requests.status`, `expires_at`, `cancelled_by`, fare | Create | Marketplace, Fare |
| expiry (`marketplace/lifecycle.go`, `expiry_service.go`) | none of its own | Expire: six UPDATE statements | Marketplace, MarketplaceTx |
| discovery (`offer/discovery_postgres.go`) | opportunities: `open` until `visible_until` | Discover | Marketplace |
| offers (`offer`) | `ride_offers`, opportunities | Upsert (Submit, AcceptProposed), Skip, Reject | Marketplace, MarketplaceTx, Fare |
| offer comparison (`offer/rider_postgres.go`) | none | ListForRider | MarketplaceProperties (`Selectable`) |
| assignment (`marketplace/assignment_postgres.go`) | `trips`, offers, opportunities, request | SelectOffer | Marketplace, MarketplaceTx |
| cancellation (`cancellation`) | request, trip, answers | CancelByRider, CancelByDriver | Marketplace, MarketplaceTx |
| trips (`trip`) | `trips.status`, settlement | Start, Complete, ConfirmCashCollected | Marketplace, MarketplaceTx |
| presence and selection (`driver`) | profile online flag, operating selection | SetOnline, SelectOperation, ExpirePresence | Marketplace, MarketplaceTx |
| location (`driverlocation`) | last location and its time | UpsertCurrent | Marketplace, MarketplaceTx |
| status reads (`ridestatus`) | none, but run Expire on the pool | GetOwned, ListOwned | Marketplace (a Sweeper) |
| suggested fare (`pricing/calculate.go`) | none | Calculate, Bounds | Fare |
| pricing policies (`pricing/postgres_repository.go`, `ride/postgres_pricing.go`) | versions, the current pointer, snapshots | preview, CreatePriced, Publish, Disable | Pricing |
| onboarding (`driveronboarding`) | applications, profiles, vehicles with enrolments | Submit, Approve, Reject | Onboarding |
| users (`user`) | users, identities, capabilities | CreateWithDefaultRider, AddCapability | Accounts |
| sign-in (`auth`, `identity`) | none; accounts and sessions are in Ory Kratos | Register, Verify, Login, ExtendSession, Logout, Middleware | Accounts |
| search limiter (`httpapi/location_search_limiter.go`) | a window per user, in memory | allow | PlaceSearch |
| rating counts (`locationsearch/google/provider.go`) | a cache per process, in memory | userRatingCount | PlaceSearch |
| schema migrations (`platform/migrations`) | `schema_migrations` and the schema | Apply | Migrations |
| API process (`src/backend/cmd/api`) | the memory above | start, serve, end | ApiProcess |
| timing policy (`marketplace/policy.go`) | three lifetimes | Load, Update | abstracted: deadlines pass in any order |
| calls to Google, read views, HTTP layout, gateway | none | reads and conversions | not modelled |

How they interact: HTTP handlers open one transaction each; every marketplace
handler first runs `Expire` in its transaction and then locks the request row
(`FOR UPDATE`), which serialises submission, rejection, selection and
cancellation of one ride; eligibility locks the driver's profile, which serialises
what happens to one driver across rides. Three things escape these locks, and are
where the hard behaviour is:

* `Discover` reads rides, trips and the driver without locks and inserts later;
* the sweep ticker (`src/backend/cmd/api/application.go:120`) and the status reads
  run the statements of `Expire` outside a transaction, one commit per statement,
  with a five-second timeout, concurrently with each other;
* presence ends in passes that skip locked rows (`FOR UPDATE SKIP LOCKED`).

What serialises a ride or a driver is itself made of single steps: a handler meets
its rows one by one, waits for other handlers, is aborted when they wait in a ring,
and the clock runs on meanwhile. `MarketplaceTx` opens the transactions that
`Marketplace` takes as one step.

Before that, an account becomes a user, a user a driver, and a fare a booking. In
these components a decision is taken on what an earlier statement, transaction or
call has read: a vehicle looked up when an application is submitted is inserted
when it is approved; a fare is checked, a route provider is asked, and the ride is
booked; a login opens a session before anybody knows whether its account is
verified. Their modules therefore go statement by statement.

What makes the components correct: one winner per ride and one active trip per
driver; request, trip, offer and opportunity rows that tell one story; decisions
made once; nothing stale at the moment of assignment; nobody driving their own
ride; lapsed presence not revived; every deadline acted on, never early; fares and
offer bands exact to the last minor unit; rides booked at the tariff that is current
when they commit; a registry of vehicles that is exactly what reviewers approved;
one user per verified account and none for any other; each migration applied once,
however many processes start; searches limited and rankings recent. PROJECT.json lists the
hazards behind each of these at the line where they bite.

## 2. Modules

| Module | What it is |
|---|---|
| `Marketplace` | the state machine: one variable per deciding column, one action per transaction |
| `MarketplaceProperties` | invariants, action properties, liveness, and the refinement mapping |
| `RideContract` | the abstract specification: the life of a ride, without offers, presence or sweeps |
| `MarketplaceTx` | the marketplace's handlers statement by statement, with row locks, waits, deadlocks and failures |
| `Fare` | suggested fare and offer band, as operators driven by a two-step machine |
| `Onboarding` | applications of drivers and their review, statement by statement |
| `Pricing` | tariffs and bookings at them, statement by statement |
| `Accounts` | Kratos accounts and sessions, and the users made from them, call by call |
| `Migrations` | the start of API processes on one database |
| `PlaceSearch` | limiter and cache of one API process, both in memory and used by concurrent requests |
| `ApiProcess` | composes the two: a process migrates, serves searches, ends and forgets |
| `MC*` | instances for TLC |
| `Marketplace_proofs`, `MarketplaceTx_proofs`, `RideContract_proofs`, `Fare_proofs`, `Onboarding_proofs`, `Pricing_proofs`, `Accounts_proofs`, `ApiProcess_proofs` | theorems and their proofs |

`Onboarding`, `Pricing` and `Accounts` are composed with the marketplace by what
they establish: its constants are the users, approved drivers, vehicles and
enrolments that the first and the third lead to, and its `Create` is the commit of
a booking in the second. They share no row that two of them write.

### Marketplace

| Variable | Column |
|---|---|
| `ride`, `rideDue`, `cancelledBy` | `ride_requests.status`; rows with `expires_at` passed; `cancelled_by` |
| `opp`, `oppDue` | `driver_ride_request_opportunities.status`; `visible_until` passed |
| `offer`, `offerDue`, `offerVehicle` | `ride_offers.status`; `expires_at` passed; the vehicle in `operation_context` |
| `trip`, `tripDriver`, `tripVehicle`, `collected` | `trips`: status, driver, vehicle of the copied context, settlement |
| `presence`, `sel`, `loc` | profile status and online flag; operating selection; age of the location |
| `found` | what a poll has picked and not yet inserted (`Discover` is split there) |
| `sweepAt` | the statement a sweeping process runs next |

`"none"` stands for a row that does not exist. A handler that fails rolls back and
is no step, so error paths appear as guards. Handlers that start with `Expire`
compute on `Swept`, the tables after all six statements, and commit those changes
with their own, as the code does even for an idempotent reply. `Sweep(w)` runs one
statement per step; `AbandonSweep(w)` is an error, the timeout or a crash.
Deadlines are actions of the clock; since the three lifetimes are an
administrator's choice they may pass in any order. A location is fresh or stale
(two minutes). Which rides are nearest is left open: `Discover` may pick any
candidates, as many as the code would.

Row locks justify one step per transaction for everything that decides: the
request row is held from the first check to the commit in `Upsert`, `Reject`,
`SelectOffer` and both cancellations, the trip row in `Start`, `Complete` and
`ConfirmCashCollected`, the profile row in every writer of presence, selection and
location and in the eligibility check. `Discover` holds neither and is two steps;
its foreign key waits for a ride that is being decided and then inserts all the
same. What one step per transaction leaves out, lock orders that cross and time that
passes inside a transaction, is in `MarketplaceTx`.

Initial state: approved drivers with approved vehicles that nobody has selected,
no rides. Vehicle ownership, enrolments and the service of each ride are constants.

### MarketplaceTx

| Variable | What it is |
|---|---|
| `db` | the committed rows, each a status and one time: the deadline of a ride, opportunity or offer, `assigned_at` of a trip, `driver_locations.updated_at` for a profile |
| `work` | the rows a transaction has written and not committed |
| `holder`, `waits` | who has a row locked; the row a transaction waits for |
| `tx` | each connection's handler, statement, rows still to lock, and stamps |
| `now` | the clock of the database server |

A handler is a program: a sequence of `UPDATE`s, `SELECT ... FOR UPDATE`s and plain
reads, each with the rows it is about, its condition and what the code tests
afterwards. One interpreter runs them all as PostgreSQL does at READ COMMITTED. A
statement is stamped when it starts (`statement_timestamp()`, which all deadlines in
the code use) and picks its rows from a snapshot. It locks them one by one
(`Take`), in any order; a row that somebody holds is waited for (`Await`) or, with
SKIP LOCKED, left out (`PassOver`). After the wait the condition on the row's own
columns is tested on the new version, whereas sub-queries on other tables keep the
answer of the snapshot; this is what makes `NOT EXISTS` and `EXISTS` in `Expire`
worth checking. Locks last until the transaction ends. A check that fails rolls back
(`Refuse`) or answers at once because the work was done before (`DoneBefore`); any
step may fail (`Fail`); one transaction of a ring of waits is aborted
(`BreakDeadlock`). The sweep commits after every statement. `NOW()`, which the
heartbeat stores, is the start of its transaction; the trip's `assigned_at` and the
offer's deadline come from their statements.

Vehicles and services are left out here, and so is `Discover`, which takes no row
locks; opportunities are given by the opening. The unique index on active trips is
`driverFree`, tested when the trip is inserted.

### Migrations, PlaceSearch, ApiProcess

| Variable | Where |
|---|---|
| `stage`, `file` | how far a process is in `Apply`, and at which migration |
| `applied`, `ran` | `schema_migrations`; how often the SQL of each migration was committed |
| `failures` | failures that no other process caused, bounded by `MaxFailures` |
| `window` | the user's entry of `userWindowLimiter.entries` |
| `cache` | the place's entry of `popularityCache`, with the time at which the provider gave it |
| `clock`, `at`, `reading`, `asOf` | the host's clock; where a search is, what time it read, when it was answered |
| `from`, `inSpan` | an arbitrary span of one window's length, and the searches admitted in it |

Nothing keeps two processes from migrating at once: whether a version is applied is
read outside the transaction, so only the primary key of `schema_migrations` stands
between them. A migration whose SQL may run twice is executed again and refused at
`Record`; one that creates what exists is refused at once (`AlreadyExists`). Either
way the process ends and `restart: unless-stopped` starts it again.

Both readings of the clock in a search are taken before the mutex under which they
are used, so readings reach the limiter and the cache out of order; `MaxWait` bounds
how long a request may wait for a mutex, less than a window. Users, and places, share
nothing, so one user and one place are followed. A process that ends forgets both
(`Forget`); spans are therefore counted within one life of a process, and every
process counts for itself.

### RideContract and the refinement

A ride is requested, assigned to one driver without another ride under way,
ridden, completed, settled; it may be cancelled until completed; it lapses when
nobody was chosen. `PhaseOf(r)` maps request row, trip row and settlement to one
phase, and any combination the contract does not know to `"broken"`;
`ImplementsContract` therefore also excludes every such combination. A contract
step may let other rides lapse, because each handler expires whatever is due.

### Fare

`Calculate` keeps distance and time fractions over the denominator 3000 and rounds
once, half up, to the policy's increment; `Bounds` is 90% rounded up to 130%
rounded down, computed as the code does with hundreds and rest apart. Amounts are
at most 10^12, so int64 cannot overflow and integers are unbounded here.

### Onboarding

| Variable | Column |
|---|---|
| `status`, `form`, `submitted`, `decided` | `driver_onboarding_applications` |
| `told` | the application type in the answer to the submission (not stored) |
| `profile` | `driver_profiles`, as the application whose approval created the row |
| `vehicles` | `driver_vehicles` joined with `driver_vehicle_service_enrollments` |
| `clock`, `at`, `work` | the last time stamp; how far each request is and what it has read |

A request is received (`Submit`, `Review`), takes the lock on the driver's row in
`users` (`LockDriverReviewScope`), reads (`CheckSubmission`,
`LoadApplicationForUpdate`) and commits (`CreateApplication`, `ApproveApplication`,
`RejectApplication`), or rolls back at any point (`Abandon`). The partial unique
index on pending applications and the unique index on driver and plate are guards.
The type of an application is not stored: the submission works it out from the
profile, every later read from time stamps, and `TypeNeverChanges` compares the two.
An instant is the number of commits before it, which assumes that the API's clock
advances between two commits; several processes with differing clocks are listed as
a hazard and not modelled.

### Pricing

| Variable | Column |
|---|---|
| `versions` | `ride_pricing_policy_versions` of each service, in order |
| `current` | `ride_pricing_policy_current.current_policy_id`, 0 for NULL or no row |
| `offered` | services that are active and rider-visible |
| `snapshot` | the policy in `ride_request_pricing_snapshots` of each booking |
| `at`, `work` | how far a booking or review is and what it has read |

A booking previews a fare without locks, is checked against the current policy
without locks, asks the route provider, recomputes the fare, and then locks the
catalogue row and the pointer `FOR SHARE` before it stores ride and snapshot.
A review locks the catalogue row `FOR UPDATE`, and changes the pointer row only when
no booking shares it. A tariff and a route are one number each, and `Quote` is their
product, so that different tariffs may quote the same amount: a booking may then
pass the fare check with an outdated policy, which is what the locked comparison is
for. Bookings with suggested fares switched off are not in this module.

### Accounts

| Variable | Where |
|---|---|
| `account`, `owner`, `live`, `life` | Kratos: verification state, sessions, how often each was prolonged |
| `challenges`, `granted`, `told` | clients: verification ids, tokens from a login, the life they were told of |
| `userOf`, `users`, `caps` | `external_identities`, `users`, `user_capabilities` |
| `at`, `work` | how far a request is, the session it is about and what it has read |

One action per call to Kratos and per statement. Any call may fail or lose its
answer (`Abandon`); Kratos may refuse to prolong a session and still answer with
success, which the code guards against by reading the session again. The refusal of
an unverified login ignores a failed logout, so live sessions of unverified accounts
are reachable; `OnlyVerifiedAccounts` is about tokens handed out and users created.
A transaction's writes become visible when it commits; the primary key of
`external_identities` makes the second insert of an account wait, and fail when the
first one commits (`IdentityFree`).

## 3. Runs

| Run | Instance | Question |
|---|---|---|
| `contest` | 1 ride, 2 drivers, 2 sweepers, 1 poll | who wins, and does everything else end consistently? |
| `fleet` | 2 rides of different services, 1 driver with 2 vehicles, 1 sweeper, 1 poll | vehicle changes, presence, feed limit, what the rider is shown |
| `town` | 2 rides, 2 drivers, one of them also a rider, 1 poll | one trip per driver, own rides, refinement |
| `solo` | 1 ride, 1 driver, 2 sweepers, 1 poll, fairness | does everything that must end, end? |
| `contract` | 3 rides, 2 drivers | the abstract specification alone |
| `fare` | 162 policies, 12 routes, amounts up to 40 | rounding at and around the halves, every band |
| `onboarding` | 2 drivers, 2 plates, 2 services, 3 applications, 2 requests at a time | submissions and reviews that race |
| `pricing` | 1 service, 2 tariffs, 2 routes, 2 bookings, 2 reviewers, 3 versions | bookings against publications and switching off |
| `accounts` | 2 accounts, 2 sessions, 2 users, 2 requests at a time, life 2 | logins, extensions and first requests that race and fail |
| `locks` | 2 rides, 2 drivers, any 2 of 14 kinds of request at a time, 6 openings, clock 0..1 | do transactions that wait for each other still do what the contract says, in time, and end? |
| `process` | 2 processes, 2 migrations, 1 failure; limit 2, window 2, clock 0..4, 2 searches at a time | starts that race and fail; what clock readings out of order do |
| `resubmission` | 1 ride, 1 driver | the documented reopening of a rejected offer (violated) |

Bounds. Rows of different rides interact only through a driver and through
`Expire`; two rides, and two drivers on one ride, exhibit every such interaction,
and two sweepers suffice for one to overtake the other. `FeedLimit = 1` makes the
limit bind with two rides (the code's limit is `DiscoveryLimit`). `town` has no
sweeper, because handlers already expire and the interleaving of sweeps is the
subject of `contest` and `fleet`. `contest` uses the symmetry that exchanges the
two drivers together with their vehicles; no liveness is checked there. Nothing in
the marketplace's state is a counter, so its runs need no bound beyond their
constants. Deadlock is checked everywhere but in `fare`, where an answered offer
ends the story.

In `onboarding`, three applications let one driver be approved, apply again and be
decided again while the other driver applies; each vehicle qualifies for one service
only, so both refusals occur; the clock is bounded by the number of applications.
In `pricing` all locks are per service, so one service exhibits every conflict; three
versions (`MaxVersions`, the one bound named in a guard) let a publication, a
switching off and another publication surround a booking, and two tariffs and two
routes make different tariffs quote the same fare. In `accounts`, two requests suffice for every
race on one account or one session, two accounts for a mix-up between them, and
`MaxLife` bounds how often Kratos prolongs a session. These three runs use the
symmetry of interchangeable ids and requests, and check no liveness.

In `locks` a deadlock or a stale read needs two transactions and, for lock orders
that cross between rides, two rides; each behaviour runs one pair of requests,
against each of six openings that make every handler's checks pass for some
argument: two offers for one ride, one driver with offers for two, an offer beside
an open opportunity, a driver on an assigned or a started trip with an offer for
the next ride, and a ride that lapses before its offer does. Deadlines lie at 1 or 2 and the clock ends at 1 (`MaxNow`): one tick may
fall between any two steps, which makes a deadline pass, a location stale
(`Lease = 0`) or a new offer due (`OfferTTL = 1`). In `process`, two processes
suffice for every race on a version, two migrations for a failure between them, and
one failure (`MaxFailures`) for a restart at every point. The window is two units
and the longest wait one, and the span that is counted begins with the second window,
so that `MaxClock = 4` lets one window end in it, one lie in it and a third begin: the
run reaches five admissions, one less than three limits. `Lifetime = 2` lets a cache
entry end and be filled again.

### Properties

* `SingleWinner`: trip, accepted offer, accepted opportunity and vehicle agree.
* `TakenRideHasNoRivals`: no pending offer and no answered opportunity on an
  accepted or cancelled ride. An unanswered one may appear late, from a poll that
  was under way: it cannot be answered and the next sweep closes it.
* `OfferAnswersOpportunity`: which combinations half-finished and overtaking
  sweeps may leave between an offer and its opportunity; in particular a pending
  offer on an expired ride with a closed opportunity is reachable.
* `OneShot`: decisions about an offer or opportunity are final.
* `AssignmentRevalidates`: everything ADR-0007 asks of an assignment holds in the
  state the step starts from (proved, in no run).
* `RequestMatchesTrip`, `TripRunsChosenVehicle`, `OneActiveTrip`, `NeverOwnRide`,
  `FeedBounded`, `NoRevival`: see the comments in
  `MarketplaceProperties`. `FeedBounded` is a property of a driver who polls one
  request at a time, as the mobile client does; two simultaneous polls of one
  driver count the same room and may together exceed the limit.
* `SelectableIsAssignable`: an offer the rider is shown as selectable is one that
  `SelectOffer` accepts in that state, and no other; the list judges with one query
  what the selection judges with four.
* `TxImplementsContract`, `CommittedRowsAgree`: every commit of `MarketplaceTx` is a
  step of `RideContract`, and the committed tables agree. A pending offer answers an
  opportunity that waits for the rider, with one exception: when another transaction
  expires the ride between the two statements of `Expire` that close what is left, the
  first has passed the offer over and the second closes the opportunity. Nobody can
  select the offer any more, and the next sweep closes it.
* `AssignedInTime`: however long a selection waited, the trip is assigned before the
  ride's deadline and to a driver who is online, free, and was freshly located when
  the handler looked. The offer's own deadline may pass during the wait for the
  driver's row: the code does not look again, and the property does not say it does.
* `BlockedByRunning`: a blocked handler waits for a row it still needs, held by a handler
  that is at work; no lock outlives its handler. Only a ring of waits can stop one (proved, in no run).
* `HandlersEnd`: no handler waits for ever, although lock orders cross.
* `SchemaStepsOnce`, `StartUpSettles`: migrations take effect once and in order, and
  every process comes to serve.
* `AdmissionsBounded`: fewer than three limits of searches in any minute, both ends
  included. The limit alone holds per window; a window may end in the minute, because
  an old reading still counts in it, one lie in the minute, and one more begin at its
  end. Per process: several processes multiply the bound.
* `RatingsAreRecent`: a rating count in use is younger than its lifetime, although
  answers are stored in any order.
* `RequestsAreDecided`, `AnswersAreDecided`, `StalePresenceEnds`: liveness.
* `OneRideUnderWay`, `ChoiceIsFinal`: the contract's own.
* `FareIsNearest`, `BandIsExact`: arithmetic.
* `PendingCanBeApproved`, `RegistryIsWhatWasApproved`, `ProfileIsFirstApproval`
  (proved, in no run), `TypeNeverChanges`, `DecisionsAreFinal`: onboarding. The first says that the
  approval's insert never meets its unique constraint, although the vehicle was
  looked up in another transaction.
* `BookedAtCurrentTariff`, `FareMatchesSnapshot`, `CurrentIsNewest`,
  `VersionsNeverCollide`, `DisabledAsSeen`: pricing.
* `OnlyVerifiedAccounts`, `OneUserPerAccount` (proved, in no run),
  `ServedAsThemselves`, `PromisedLifeIsReal`: accounts.

Every module but `MarketplaceTx` and the small three of the API process has a type
invariant; that of the marketplace is checked by `contest`, and those of the other
components are proved. That of `MarketplaceTx` is a part of its inductive invariant.

### Fairness

In `solo`, the clock reaches every deadline (weak fairness). The expiry
ticker runs for as long as the process does; a sweep may be abandoned infinitely
often, but a statement that is reached again and again succeeds again and again
(strong fairness per statement, over all sweepers). The presence ticker runs every
ten seconds and does not find a driver's row locked for ever (weak fairness per
driver). Users, polls and handlers owe nothing.

In `locks`, a transaction that was begun and can go on does (weak fairness of
`Work(t)`): the server runs it, lock queues are served in order and
`deadlock_timeout` finds rings. No request has to arrive, no failure to happen, and the clock
need not move. In `process`, the supervisor restarts what is down and a process that
is starting goes on (weak fairness of `Starts(p)`); searches and failures need not
happen.

### A disagreement with the documentation

`docs/rider-driver-ride-milestone.md:24` says that "a later Driver resubmission
reopens that offer as pending". `Upsert` inserts with `ON CONFLICT DO NOTHING` and
only answers an opportunity that is still open, so a rejected driver is refused
for ever; the integration tests agree with the code. The run `resubmission` shows
the state.

## 4. Proofs

All theorems hold for any number of rides, drivers, vehicles, services, polls,
sweepers, applications, tariffs, accounts, sessions, processes, migrations and
requests, and any limit, window and lifetime, from the named
assumption of each module (the shape of its constants; `FeedBoundedAlways` states two
more of its own); TLC evaluates these on its
instances.

* Type correctness. `Refreshed` states what any part of `Expire` may do to the
  tables; `StatementsRefresh` and `SweptRefreshes` prove it of each statement and of
  all six, and every later proof uses only that.
* `AssignmentInv` is the conjunction of `TypeOK`, `SingleWinner`,
  `RequestMatchesTrip`, `TakenRideHasNoRivals`, `OneActiveTrip`,
  `TripRunsChosenVehicle` and `NeverOwnRide`. None is inductive alone: that the
  winner is unique needs rivals gone, that the trip is the driver's only one needs
  requests and trips to agree, and that the vehicle stays selected needs the winner
  to be a driver on a trip. It is proved together with `FoundNotOwn` (no poll is
  about to show a driver a ride of their own). There is one lemma per kind of
  step (`RefreshKeeps`, `AnswerKeeps`, `SelectKeeps`, `CancelKeeps`, `TripKeeps`,
  `OpenKeeps`, `BystanderKeeps`, `CreateKeeps`), and `AssignmentStep` sends each
  action to its lemma.
* `AssignmentRevalidatesAlways`, `OneShotAlways`, `NoRevivalAlways`: action properties
  from type correctness. `Forward` is what `OneShot` says of the tables of a step, and
  every part of `Expire`, every answer and every decision goes forward.
* `OfferAnswersOpportunityAlways`: `Agrees` is the property about any tables, those in
  the middle of a handler included, with the fact that a vehicle is recorded for exactly
  the offers that exist. Each statement of `Expire` keeps it (`StatementsAgree`); only
  the last needs more: that no offer is pending on a taken ride, which is part of
  `AssignmentInv`.
* `SelectableIsAssignableAlways`: the list is read from the tables as they are, the
  selection judges them after its own `Expire`. `SweepSpares`: `Expire` leaves an open
  ride and an offer that waits for an answer in time as they are, and makes none; by
  `NeverOwnRide` the list's condition on the rider, which the selection does not repeat,
  holds of every offer.
* `FeedBoundedAlways`: assuming finitely many rides and one poll at a time, as in the
  fleet run, the rides a driver sees and those a poll is about to insert are together
  within the limit (`FeedInv`). With two polls at once this is false, and so is the
  property.
* `MarketplaceImplementsContract`: initial states map to initial states, and under
  `AssignmentInv` every step maps to a contract step or a stutter. With the
  theorems of `RideContract_proofs` the contract's properties carry over.
* `BandIsExactAlways`: the offer band for every amount, by splitting it into
  hundreds and rest. `FareIsNearestAlways`: rounding by quotient and remainder
  (`RoundedIsNearest`) gives the nearest multiple of the increment.
* `OnboardingInv` adds to onboarding's invariants that at most one request holds a
  driver's lock (`Serial`), that what it has read still holds (`Informed`: a checked
  submission's vehicle is unregistered and its type is right, a loaded application is
  pending), that every form qualifies, and that no time stamp is later than the last
  commit (`Moments`). `TypeNeverChanges` needs the last and `Informed`: a decision
  after a submission has a later time stamp, and what the submission read of the
  profile still holds when it commits. `DecideFacts` says what either decision does;
  `CreateKeeps`, `ApproveKeeps` and `RejectKeeps` are the three commits.
* `PricingInv` adds that a writer excludes writers and bookings of its service
  (`Exclusive`), and `Sure(b)`: a fare that was recomputed is what its version of the
  tariff gives, a locked service is offered, and from the moment the booking is ready
  the version under the locks is the one it was quoted and is current. Both are
  needed because the properties speak of booked rides only, while what makes them
  true is held by requests on their way. `TariffsStand`: publishing never changes an
  earlier version. The action properties `BookedAtCurrentTariff` and `DisabledAsSeen`
  follow from it at the one step that books and the one that switches off.
* `AccountsInv` adds `Honest(q)`, what each request has read and stays true (accounts
  stay verified, identities stay with their user), and `OneInsert`, that inserts
  waiting to commit differ in account and id.

* `SchemaInv` adds to `SchemaStepsOnce` that everything before the file a process is at
  is applied (`Behind`) and that a recorded, uncommitted version is neither applied
  nor recorded by anyone else (`RecordedOnce`): the wait on the primary key.
* `SearchInv` relates the searches admitted in a span to the window that is open.
  `WaitsBounded` says how old a reading can be; `WindowFits` and `SpanFits` bound what
  was admitted in the span by what windows can lie in it, told apart by where the
  current one begins: one that began before the span, one in it, or the last.
  `JoinFits` and `OpenFits` are the two ways of being admitted. `RatingsOK`: what is in
  the cache, or on its way there, was answered no earlier than the reading from which
  its lifetime is counted.

* `MarketplaceTx_proofs` is about handlers in the middle of their work. A transaction
  is described by four values: its record `q` (handler, statement, rows still to take),
  the rows `w` it has written, the committed rows `base` below them, and the rows `h` it
  has locked. `Good(q, w, base, h)` says that the record is well formed (`Shaped`), that
  only locked rows are written (`Writes`), that the rows still to take are those of the
  statement, and what made a sub-query pick them still is so (`Targets`), that every
  changed row was changed in a way its handler may (`Moves`), and what the checks
  that were passed have established (`SoFar`, one part per handler: from which
  statement on the ride is known to be requested, the offer pending, the profile locked
  and the driver free). `Inv` is `Good` for every transaction, with the rows of each
  ride agreeing (`RideAgrees`, of which `CommittedRowsAgree` consists); `RideAgrees` is
  not inductive alone, because what a commit does was decided many steps earlier on
  rows that only locks have kept as they were.

  `InvAlways` has one family of lemmas per kind of step. `Take...`: a transaction locks
  a row, reads it again and writes it. `Come...`: it passes a check and picks the rows
  of its next statement. `...Agrees`: the rows agree when a program has run to its end
  (`FinishedAgrees`), or was cut short by a repeated answer or the sweep's commit after
  each statement (`LapsesAgree`: it has then changed nothing but what ran out). `Stay...`:
  another transaction commits; rows locked here stay as they are (`ElsewhereIs`, from
  `LocksApart`), a decided ride stays decided and an expired offer expired (`Stands`),
  so that a verdict taken from a snapshot still holds when it is acted upon.

  `CommittedRowsAgreeAlways` is a part of `Inv`. `AssignedInTimeAlways`: only a
  selection that has run its program assigns (`OwnersFinish`), and `SelectFinished` says
  what it then knows. `TxImplementsContractAlways`: a commit leaves every other ride in
  its phase or lets it lapse (`NotItsRide`), and moves its own as the contract has it
  (`SelectImplements`, `CancelImplements`, `TripImplements`) or not at all
  (`AnswerImplements`). `BlockedByRunningAlways` needs `InLine`: a lock is held by a
  handler at work, and whoever waits still has the row to take (`InLineStep`).

  The tables to start from are a constant. The theorems assume that they hold what
  the columns may hold and that the rows of each ride agree, which empty tables do and
  every commit keeps; nothing is assumed of their deadlines or of who is online.

Only model-checked: liveness (fairness and ENABLED are outside the prover). Of
`HandlersEnd` the theorem `BlockedByRunningAlways` is the part that is about safety.

## 5. Mutants

Each property is paired in `PROJECT.json` with a wrong variant of an operator of
the code, defined just before the operator and marked `Wrong:`; replacing the one
by the other must violate the property in its run. They are plausible bugs: a
competing opportunity left answered, a location age not compared, an assigned trip
that does not hold its driver, the last statement of a sweep never reached, a
bound rounded the wrong way.

## 6. Plan

Order, most important first; the first nine are done.

1. `Marketplace` with its runs, type invariant and assignment safety.
2. `RideContract` and the refinement.
3. `Fare`.
4. `Onboarding`: one pending application per driver, approval against rejection,
   one profile per driver, no vehicle twice.
5. `Pricing`: publication, disabling, and booking with the policy locked.
6. `Accounts`: login, refusal, extension, and one identity provisioned twice at once.
7. `MarketplaceTx`: the handlers statement by statement with row locks, deadlocks,
   failures and time; every commit shown to be a step of `RideContract`.
8. `Migrations`, `PlaceSearch` and their composition in `ApiProcess`, with proofs.
9. Proofs about `MarketplaceTx`, from what each handler has locked and seen at which
   statement.
10. Abstract specifications for onboarding (a register of decisions) and pricing (an
    atomic booking), with the statement-level modules shown to implement them.
11. Clocks that differ between API processes in `Onboarding`.

## 7. Not modelled

* The requests to Google for places, geocoding and routes: conversions without state.
  A route request is repeated within one call on 429, 5xx or a transport error; nothing
  is kept between the attempts. Pricing takes a route as any answer.
* The inside of Ory Kratos: only the answers the code relies on.
* Text and JSON conversion, read views other than the list of offers, response layout,
  the reviewers' sign-in and pages.
* `Load` and `Update` of the timing and place-search policies. One statement each, the
  last writer wins, and no document promises more; every timing policy is in range, and
  `Marketplace` takes deadlines in any order.
* Requests without a fare (possible only when pricing is switched off): they can be
  created but never offered.
* Changes of enrolments, which have no endpoint, are constants; the catalogue of
  services has none either and changes in `Pricing` only, as an operator's statement.
* Two polls of one driver at once, which may together exceed the feed's limit: nothing
  promises a bound across them.
* Clocks that differ between API processes: time stamps of onboarding come from them,
  and with differing clocks a type that is shown may change.
