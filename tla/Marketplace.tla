----------------------------- MODULE Marketplace -----------------------------
(***************************************************************************)
(* The ride marketplace of backend/internal: ride requests, the drivers'   *)
(* opportunities and offers, the rider's selection, cancellation, trips,   *)
(* driver presence, and the expiry of everything that has a deadline.      *)
(*                                                                         *)
(* One variable per table column that decides something.  One action per   *)
(* database transaction: a handler that commits is one step, a handler     *)
(* that fails rolls back and is no step.  Every marketplace handler first  *)
(* runs marketplace.Expire inside its transaction, so its action starts    *)
(* from the tables Swept.  Row locks make the transactions that decide     *)
(* something steps of their own.  Two things are not locked and are split: *)
(* a driver's poll picks its rides in one step and inserts them in a later *)
(* one, and the background sweep (and the rider's status read) runs the    *)
(* statements of Expire outside a transaction, one per step, and may stop  *)
(* between any two.                                                        *)
(*                                                                         *)
(* Time is abstracted to what a deadline comparison can tell: whether a    *)
(* row's deadline has passed, and whether a location is younger than two   *)
(* minutes.  Deadlines pass in any order, since the three TTLs are policy. *)
(***************************************************************************)
EXTENDS Integers, FiniteSets

CONSTANTS
  Rides,        \* ride requests
  Drivers,      \* users with the driver capability and a driver profile
  Vehicles,     \* approved vehicles
  Services,     \* active services of the catalogue
  RiderOf,      \* RiderOf[r]: the user who requests ride r
  ServiceOf,    \* ServiceOf[r]: the service that ride r asks for
  OwnerOf,      \* OwnerOf[v]: the driver who owns vehicle v
  Enrolled,     \* Enrolled[v]: the active approved services of v
  FeedLimit,    \* how many open opportunities a driver may see
  Sweepers,     \* processes that run Expire outside a transaction
  Polls,        \* discovery requests that may be served at the same time
  NoDriver,     \* "no trip row"
  NoVehicle     \* "no vehicle selected / no offer made"

ASSUME MarketplaceAssumption ==
  /\ NoDriver \notin Drivers
  /\ NoVehicle \notin Vehicles
  /\ DOMAIN RiderOf = Rides
  /\ ServiceOf \in [Rides -> Services]
  /\ OwnerOf \in [Vehicles -> Drivers]
  /\ Enrolled \in [Vehicles -> SUBSET Services]
  /\ FeedLimit \in Nat

VARIABLES
  ride,         \* ride_requests.status ("none": no row yet)
  rideDue,      \* requested rides whose expires_at has passed
  cancelledBy,  \* ride_requests.cancelled_by
  opp,          \* driver_ride_request_opportunities.status
  oppDue,       \* open opportunities whose visible_until has passed
  offer,        \* ride_offers.status
  offerDue,     \* pending offers whose expires_at has passed
  offerVehicle, \* the vehicle in ride_offers.operation_context
  trip,         \* trips.status
  tripDriver,   \* trips.driver_user_id
  tripVehicle,  \* the vehicle in trips.operation_context
  collected,    \* trips whose settlement_status is cash_collected
  presence,     \* driver_profiles: approved, or active and offline/online
  sel,          \* driver_operating_selections.vehicle_id
  loc,          \* driver_locations: none, or fresh/stale
  found,        \* what a poll has picked and not yet inserted
  sweepAt       \* the statement of Expire that a sweeper runs next

requestVars == <<ride, rideDue, opp, oppDue, offer, offerDue>>
tripVars == <<trip, tripDriver, tripVehicle, collected>>
driverVars == <<presence, sel, loc>>
processVars == <<found, sweepAt>>
vars == <<requestVars, cancelledBy, offerVehicle, tripVars, driverVars, processVars>>

Pairs == Rides \X Drivers

RideStatus == {"none", "requested", "accepted", "cancelled", "expired"}
OppStatus == {"none", "open", "offered", "driver_skipped", "window_expired",
              "rider_rejected", "offer_expired", "accepted", "closed"}
OfferStatus == {"none", "pending", "accepted", "rejected", "closed", "expired"}
TripStatus == {"none", "assigned", "in_progress", "completed", "cancelled"}

Decided == {"accepted", "cancelled", "expired"}   \* rides no driver may win
Active == {"assigned", "in_progress"}             \* trips that hold a driver

\* Every column keeps its type: no transaction writes a status its CHECK forbids.
TypeOK ==
  /\ ride \in [Rides -> RideStatus]
  /\ rideDue \subseteq Rides
  /\ cancelledBy \in [Rides -> {"nobody", "rider", "driver"}]
  /\ opp \in [Pairs -> OppStatus]
  /\ oppDue \subseteq Pairs
  /\ offer \in [Pairs -> OfferStatus]
  /\ offerDue \subseteq Pairs
  /\ offerVehicle \in [Pairs -> Vehicles \cup {NoVehicle}]
  /\ trip \in [Rides -> TripStatus]
  /\ tripDriver \in [Rides -> Drivers \cup {NoDriver}]
  /\ tripVehicle \in [Rides -> Vehicles \cup {NoVehicle}]
  /\ collected \subseteq Rides
  /\ presence \in [Drivers -> {"approved", "offline", "online"}]
  /\ sel \in [Drivers -> Vehicles \cup {NoVehicle}]
  /\ loc \in [Drivers -> {"none", "fresh", "stale"}]
  /\ found \in [Polls -> SUBSET Pairs]
  /\ sweepAt \in [Sweepers -> 1..6]

\* Approved drivers who have neither selected a vehicle nor sent a location.
Init ==
  /\ ride = [r \in Rides |-> "none"]
  /\ rideDue = {}
  /\ cancelledBy = [r \in Rides |-> "nobody"]
  /\ opp = [p \in Pairs |-> "none"]
  /\ oppDue = {}
  /\ offer = [p \in Pairs |-> "none"]
  /\ offerDue = {}
  /\ offerVehicle = [p \in Pairs |-> NoVehicle]
  /\ trip = [r \in Rides |-> "none"]
  /\ tripDriver = [r \in Rides |-> NoDriver]
  /\ tripVehicle = [r \in Rides |-> NoVehicle]
  /\ collected = {}
  /\ presence = [d \in Drivers |-> "approved"]
  /\ sel = [d \in Drivers |-> NoVehicle]
  /\ loc = [d \in Drivers |-> "none"]
  /\ found = [q \in Polls |-> {}]
  /\ sweepAt = [w \in Sweepers |-> 1]

(***************************************************************************)
(* The row changes of a transaction on the request tables.  A deadline     *)
(* matters only while its row is undecided, so it is forgotten with it.    *)
(***************************************************************************)
Commit(rides, opps, offers) ==
  /\ ride' = rides
  /\ opp' = opps
  /\ offer' = offers
  /\ rideDue' = {r \in rideDue : rides[r] = "requested"}
  /\ oppDue' = {p \in oppDue : opps[p] = "open"}
  /\ offerDue' = {p \in offerDue : offers[p] = "pending"}

(***************************************************************************)
(* The six statements of marketplace.Expire.  Each is a function from the  *)
(* contents of a table to its new contents.                                *)
(***************************************************************************)
ExpireOffers(offers) ==
  [p \in Pairs |-> IF offers[p] = "pending" /\ p \in offerDue
                   THEN "expired" ELSE offers[p]]

\* Wrong: any decided offer takes its opportunity along.
ExpireOfferedDecided(opps, offers) ==
  [p \in Pairs |-> IF opps[p] = "offered" /\ offers[p] # "pending"
                   THEN "offer_expired" ELSE opps[p]]

ExpireOffered(opps, offers) ==
  [p \in Pairs |-> IF opps[p] = "offered" /\ offers[p] = "expired"
                   THEN "offer_expired" ELSE opps[p]]

ExpireWindows(opps) ==
  [p \in Pairs |-> IF opps[p] = "open" /\ p \in oppDue
                   THEN "window_expired" ELSE opps[p]]

\* Wrong: EXISTS instead of NOT EXISTS.
ExpireRidesWithTrip(rides) ==
  [r \in Rides |-> IF rides[r] = "requested" /\ r \in rideDue /\ trip[r] # "none"
                   THEN "expired" ELSE rides[r]]

ExpireRides(rides) ==
  [r \in Rides |-> IF rides[r] = "requested" /\ r \in rideDue /\ trip[r] = "none"
                   THEN "expired" ELSE rides[r]]

\* Wrong: the winner's offer is closed with the others.
CloseOffersAll(offers, rides) ==
  [p \in Pairs |-> IF offers[p] \in {"pending", "accepted"} /\ rides[p[1]] \in Decided
                   THEN "closed" ELSE offers[p]]

CloseOffers(offers, rides) ==
  [p \in Pairs |-> IF offers[p] = "pending" /\ rides[p[1]] \in Decided
                   THEN "closed" ELSE offers[p]]

\* Wrong: every opportunity but the winner's is closed again.
CloseOppsAgain(opps, rides) ==
  [p \in Pairs |-> IF opps[p] \notin {"none", "accepted"} /\ rides[p[1]] \in Decided
                   THEN "closed" ELSE opps[p]]

CloseOpps(opps, rides) ==
  [p \in Pairs |-> IF opps[p] \in {"open", "offered"} /\ rides[p[1]] \in Decided
                   THEN "closed" ELSE opps[p]]

\* The tables after all six statements, as a handler's transaction sees them.
Swept ==
  LET offers == ExpireOffers(offer)
      rides == ExpireRides(ride)
  IN  [ride |-> rides,
       offer |-> CloseOffers(offers, rides),
       opp |-> CloseOpps(ExpireWindows(ExpireOffered(opp, offers)), rides)]

-----------------------------------------------------------------------------
\* Conditions that several handlers test.

\* Wrong: an assigned trip does not hold the driver until it starts.
OnTripStarted(d) == \E r \in Rides : tripDriver[r] = d /\ trip[r] = "in_progress"

\* Wrong: a started trip no longer holds the driver.
OnTripAssigned(d) == \E r \in Rides : tripDriver[r] = d /\ trip[r] = "assigned"

OnTrip(d) == \E r \in Rides : tripDriver[r] = d /\ trip[r] \in Active

Selected(d) == sel[d] # NoVehicle /\ OwnerOf[sel[d]] = d

\* driver.LockMarketplaceEligible: d may answer, or win, a ride of service s.
Eligible(d, s) ==
  /\ presence[d] = "online"
  /\ loc[d] = "fresh"
  /\ Selected(d)
  /\ s \in Enrolled[sel[d]]
  /\ ~OnTrip(d)

\* What is left of the answers to ride r when d wins it (NoDriver: nobody does).
CloseCompetingOffers(offers, r, d) ==
  [p \in Pairs |-> IF p[1] = r /\ p[2] # d /\ offers[p] = "pending"
                   THEN "closed" ELSE offers[p]]

\* Wrong: only unanswered opportunities are closed.
CloseCompetingOpen(opps, r, d) ==
  [p \in Pairs |-> IF p[1] = r /\ p[2] # d /\ opps[p] = "open"
                   THEN "closed" ELSE opps[p]]

CloseCompetingOpportunities(opps, r, d) ==
  [p \in Pairs |-> IF p[1] = r /\ p[2] # d /\ opps[p] \in {"open", "offered"}
                   THEN "closed" ELSE opps[p]]

\* The ride is requested, unexpired and without a trip in the swept tables s.
StillOpen(s, r) == s.ride[r] = "requested" /\ r \notin rideDue /\ trip[r] = "none"

-----------------------------------------------------------------------------
\* Riders.

Create(r) ==
  /\ ride[r] = "none"
  /\ ride' = [ride EXCEPT ![r] = "requested"]
  /\ UNCHANGED <<rideDue, opp, oppDue, offer, offerDue, cancelledBy,
                 offerVehicle, tripVars, driverVars, processVars>>

Reject(r, d) ==
  LET s == Swept
      p == <<r, d>>
  IN  /\ StillOpen(s, r)
      /\ \/ /\ s.offer[p] = "pending"
            /\ Commit(s.ride,
                      [s.opp EXCEPT ![p] = IF @ = "offered" THEN "rider_rejected"
                                           ELSE @],
                      [s.offer EXCEPT ![p] = "rejected"])
         \/ /\ s.offer[p] = "rejected"         \* idempotent, Expire still commits
            /\ Commit(s.ride, s.opp, s.offer)
      /\ UNCHANGED <<cancelledBy, offerVehicle, tripVars, driverVars, processVars>>

\* All that SelectOffer asks, of the swept tables s and of the driver.
Assignable(s, r, d) ==
  LET p == <<r, d>>
  IN  /\ StillOpen(s, r)
      /\ s.offer[p] = "pending"
      /\ p \notin offerDue
      /\ s.opp[p] = "offered"
      /\ Eligible(d, ServiceOf[r])
      /\ offerVehicle[p] = sel[d]

(***************************************************************************)
(* SelectOffer: the only step that assigns a trip.  The offer's version    *)
(* equals the one the rider saw: a pending offer is never rewritten.       *)
(***************************************************************************)
SelectOffer(r, d) ==
  LET s == Swept
      p == <<r, d>>
  IN  /\ Assignable(s, r, d)
      /\ trip' = [trip EXCEPT ![r] = "assigned"]
      /\ tripDriver' = [tripDriver EXCEPT ![r] = d]
      /\ tripVehicle' = [tripVehicle EXCEPT ![r] = offerVehicle[p]]
      /\ Commit([s.ride EXCEPT ![r] = "accepted"],
                [CloseCompetingOpportunities(s.opp, r, d) EXCEPT ![p] = "accepted"],
                [CloseCompetingOffers(s.offer, r, d) EXCEPT ![p] = "accepted"])
      /\ UNCHANGED <<collected, cancelledBy, offerVehicle, driverVars, processVars>>

-----------------------------------------------------------------------------
\* Cancellation.

\* Wrong: a trip that has started is not cancelled with its ride.
CancelLockedBeforeStart(s, r, actor) ==
  /\ Commit([s.ride EXCEPT ![r] = "cancelled"],
            CloseCompetingOpportunities(s.opp, r, NoDriver),
            CloseCompetingOffers(s.offer, r, NoDriver))
  /\ cancelledBy' = [cancelledBy EXCEPT ![r] = actor]
  /\ trip' = [trip EXCEPT ![r] = IF @ = "assigned" THEN "cancelled" ELSE @]

CancelLocked(s, r, actor) ==
  /\ Commit([s.ride EXCEPT ![r] = "cancelled"],
            CloseCompetingOpportunities(s.opp, r, NoDriver),
            CloseCompetingOffers(s.offer, r, NoDriver))
  /\ cancelledBy' = [cancelledBy EXCEPT ![r] = actor]
  /\ trip' = [trip EXCEPT ![r] = IF @ \in Active THEN "cancelled" ELSE @]

\* Cancelling a cancelled ride changes nothing, but commits the expiry.
AlreadyCancelled(s, r) ==
  /\ s.ride[r] = "cancelled"
  /\ trip[r] \in {"none", "cancelled"}
  /\ Commit(s.ride, s.opp, s.offer)
  /\ UNCHANGED <<cancelledBy, trip>>

CancelByRider(r) ==
  LET s == Swept
  IN  /\ \/ /\ s.ride[r] \in {"requested", "accepted"}
            /\ trip[r] \in Active \cup {"none"}
            /\ CancelLocked(s, r, "rider")
         \/ AlreadyCancelled(s, r)
      /\ UNCHANGED <<offerVehicle, tripDriver, tripVehicle, collected,
                     driverVars, processVars>>

CancelByDriver(r, d) ==
  LET s == Swept
  IN  /\ trip[r] # "none" /\ tripDriver[r] = d
      /\ \/ /\ s.ride[r] \in {"requested", "accepted"}
            /\ trip[r] \in Active
            /\ CancelLocked(s, r, "driver")
         \/ AlreadyCancelled(s, r)
      /\ UNCHANGED <<offerVehicle, tripDriver, tripVehicle, collected,
                     driverVars, processVars>>

-----------------------------------------------------------------------------
\* Drivers answer requests.

\* Wrong: the limit holds for one poll, not for the feed.
RoomPerPoll(shown) == FeedLimit

\* How many opportunities a poll may open when the driver sees those of shown.
Room(shown) ==
  IF Cardinality(shown) < FeedLimit THEN FeedLimit - Cardinality(shown) ELSE 0

\* Wrong: nobody compares the rider with the driver.
CandidatesAnyRider(s, d) ==
  {r \in Rides : /\ StillOpen(s, r)
                 /\ s.opp[<<r, d>>] = "none"
                 /\ Eligible(d, ServiceOf[r])}

\* The rides of the swept tables s that a poll may show to d for the first time.
Candidates(s, d) ==
  {r \in Rides : /\ StillOpen(s, r)
                 /\ RiderOf[r] # d
                 /\ s.opp[<<r, d>>] = "none"
                 /\ Eligible(d, ServiceOf[r])}

(***************************************************************************)
(* Discover picks the nearest candidates, as many as the driver's feed has *)
(* room for, from rides and offers that it does not lock.  Which rides are *)
(* nearest is not modelled: any set of the right size may be picked.       *)
(***************************************************************************)
Discover(q, d) ==
  LET s == Swept
      new == Candidates(s, d)
      room == Room({r \in Rides : s.opp[<<r, d>>] = "open" /\ <<r, d>> \notin oppDue})
  IN  /\ found[q] = {}
      /\ \E picked \in SUBSET new :
           /\ Cardinality(picked) = IF Cardinality(new) < room
                                    THEN Cardinality(new) ELSE room
           /\ found' = [found EXCEPT ![q] = picked \X {d}]
      /\ Commit(s.ride, s.opp, s.offer)
      /\ UNCHANGED <<cancelledBy, offerVehicle, tripVars, driverVars, sweepAt>>

(***************************************************************************)
(* The poll inserts what it picked.  The foreign key waits for whoever     *)
(* holds the ride, but does not ask what became of it: a ride that was     *)
(* accepted, cancelled or expired meanwhile is shown all the same.         *)
(***************************************************************************)
OpenFound(q) ==
  /\ found[q] # {}
  /\ opp' = [p \in Pairs |-> IF p \in found[q] /\ opp[p] = "none"
                             THEN "open" ELSE opp[p]]
  /\ found' = [found EXCEPT ![q] = {}]
  /\ UNCHANGED <<ride, rideDue, oppDue, offer, offerDue, cancelledBy,
                 offerVehicle, tripVars, driverVars, sweepAt>>

\* The request is cancelled or the connection lost: the insert is rolled back.
AbandonPoll(q) ==
  /\ found[q] # {}
  /\ found' = [found EXCEPT ![q] = {}]
  /\ UNCHANGED <<requestVars, cancelledBy, offerVehicle, tripVars, driverVars,
                 sweepAt>>

(***************************************************************************)
(* Upsert: Submit and AcceptProposed both end here.  Despite the name a    *)
(* pair of ride and driver gets at most one offer row, ever.               *)
(***************************************************************************)
Upsert(r, d) ==
  LET s == Swept
      p == <<r, d>>
  IN  /\ StillOpen(s, r)
      /\ RiderOf[r] # d
      /\ s.opp[p] = "open" /\ p \notin oppDue
      /\ Eligible(d, ServiceOf[r])
      /\ s.offer[p] = "none"
      /\ Commit(s.ride, [s.opp EXCEPT ![p] = "offered"],
                [s.offer EXCEPT ![p] = "pending"])
      /\ offerVehicle' = [offerVehicle EXCEPT ![p] = sel[d]]
      /\ UNCHANGED <<cancelledBy, tripVars, driverVars, processVars>>

Skip(r, d) ==
  LET s == Swept
      p == <<r, d>>
  IN  /\ s.opp[p] = "open" /\ p \notin oppDue
      /\ s.ride[r] = "requested" /\ r \notin rideDue
      /\ Commit(s.ride, [s.opp EXCEPT ![p] = "driver_skipped"], s.offer)
      /\ UNCHANGED <<cancelledBy, offerVehicle, tripVars, driverVars, processVars>>

-----------------------------------------------------------------------------
\* Drivers drive.

Start(r) ==
  /\ trip[r] = "assigned"
  /\ trip' = [trip EXCEPT ![r] = "in_progress"]
  /\ UNCHANGED <<requestVars, cancelledBy, offerVehicle, tripDriver,
                 tripVehicle, collected, driverVars, processVars>>

\* Wrong: a trip is completed without having started.
CompleteUnstarted(r) ==
  /\ trip[r] \in Active
  /\ trip' = [trip EXCEPT ![r] = "completed"]
  /\ UNCHANGED <<requestVars, cancelledBy, offerVehicle, tripDriver,
                 tripVehicle, collected, driverVars, processVars>>

Complete(r) ==
  /\ trip[r] = "in_progress"
  /\ trip' = [trip EXCEPT ![r] = "completed"]
  /\ UNCHANGED <<requestVars, cancelledBy, offerVehicle, tripDriver,
                 tripVehicle, collected, driverVars, processVars>>

ConfirmCashCollected(r) ==
  /\ trip[r] = "completed"
  /\ collected' = collected \cup {r}
  /\ UNCHANGED <<requestVars, cancelledBy, offerVehicle, trip, tripDriver,
                 tripVehicle, driverVars, processVars>>

-----------------------------------------------------------------------------
\* Driver presence, operating selection and location.

\* Wrong: a location of any age keeps the driver online.
LapsedUnlocated(locked) ==
  [d \in Drivers |-> IF d \in locked /\ presence[d] = "online" /\ loc[d] = "none"
                     THEN "offline" ELSE presence[d]]

\* Presence after those drivers of the set whose location is not fresh lapse.
Lapsed(locked) ==
  [d \in Drivers |-> IF d \in locked /\ presence[d] = "online" /\ loc[d] # "fresh"
                     THEN "offline" ELSE presence[d]]

SetOnline(d) ==
  /\ Selected(d) /\ Enrolled[sel[d]] # {}
  /\ loc[d] = "fresh"
  /\ ~OnTrip(d)
  /\ presence' = [presence EXCEPT ![d] = "online"]
  /\ UNCHANGED <<requestVars, cancelledBy, offerVehicle, tripVars, sel, loc,
                 processVars>>

SetOffline(d) ==
  /\ presence' = [presence EXCEPT ![d] = IF @ = "online" THEN "offline" ELSE @]
  /\ UNCHANGED <<requestVars, cancelledBy, offerVehicle, tripVars, sel, loc,
                 processVars>>

(***************************************************************************)
(* SelectOperation first expires the driver's own presence, unless the     *)
(* profile is locked by somebody else; that is a transaction of its own,   *)
(* which ExpirePresence({d}) covers when the rest of the handler fails.    *)
(***************************************************************************)
SelectOperation(d, v) ==
  /\ \E locked \in SUBSET {d} : presence' = Lapsed(locked)
  /\ presence'[d] # "online"
  /\ ~OnTrip(d)
  /\ OwnerOf[v] = d /\ Enrolled[v] # {}
  /\ sel' = [sel EXCEPT ![d] = v]
  /\ UNCHANGED <<requestVars, cancelledBy, offerVehicle, tripVars, loc, processVars>>

\* A heartbeat after the lease lapsed stores the location and ends presence.
UpsertCurrent(d) ==
  /\ presence' = Lapsed({d})
  /\ loc' = [loc EXCEPT ![d] = "fresh"]
  /\ UNCHANGED <<requestVars, cancelledBy, offerVehicle, tripVars, sel, processVars>>

\* One pass over the online rows that SKIP LOCKED let it lock.
ExpirePresence(locked) ==
  /\ presence' = Lapsed(locked)
  /\ UNCHANGED <<requestVars, cancelledBy, offerVehicle, tripVars, sel, loc,
                 processVars>>

-----------------------------------------------------------------------------
\* The sweep outside a transaction, one statement at a time.

Statement(i) ==
  \/ i = 1 /\ Commit(ride, opp, ExpireOffers(offer))
  \/ i = 2 /\ Commit(ride, ExpireOffered(opp, offer), offer)
  \/ i = 3 /\ Commit(ride, ExpireWindows(opp), offer)
  \/ i = 4 /\ Commit(ExpireRides(ride), opp, offer)
  \/ i = 5 /\ Commit(ride, opp, CloseOffers(offer, ride))
  \/ i = 6 /\ Commit(ride, CloseOpps(opp, ride), offer)

\* Wrong: the sweep does not start again.
NextStatementOnly(i) == i + 1

\* Wrong: the last statement never runs.
NextStatementOfFive(i) == IF i = 5 THEN 1 ELSE i + 1

NextStatement(i) == IF i = 6 THEN 1 ELSE i + 1

Sweep(w) ==
  /\ Statement(sweepAt[w])
  /\ sweepAt' = [sweepAt EXCEPT ![w] = NextStatement(@)]
  /\ UNCHANGED <<cancelledBy, offerVehicle, tripVars, driverVars, found>>

\* A statement fails, the five-second timeout fires, or the process dies.
AbandonSweep(w) ==
  /\ sweepAt[w] # 1
  /\ sweepAt' = [sweepAt EXCEPT ![w] = 1]
  /\ UNCHANGED <<requestVars, cancelledBy, offerVehicle, tripVars, driverVars, found>>

-----------------------------------------------------------------------------
\* The database clock reaches a deadline.

RideDeadline(r) ==
  /\ ride[r] = "requested" /\ r \notin rideDue
  /\ rideDue' = rideDue \cup {r}
  /\ UNCHANGED <<ride, opp, oppDue, offer, offerDue, cancelledBy, offerVehicle,
                 tripVars, driverVars, processVars>>

OppDeadline(p) ==
  /\ opp[p] = "open" /\ p \notin oppDue
  /\ oppDue' = oppDue \cup {p}
  /\ UNCHANGED <<ride, rideDue, opp, offer, offerDue, cancelledBy, offerVehicle,
                 tripVars, driverVars, processVars>>

OfferDeadline(p) ==
  /\ offer[p] = "pending" /\ p \notin offerDue
  /\ offerDue' = offerDue \cup {p}
  /\ UNCHANGED <<ride, rideDue, opp, oppDue, offer, cancelledBy, offerVehicle,
                 tripVars, driverVars, processVars>>

LocationAges(d) ==
  /\ loc[d] = "fresh"
  /\ loc' = [loc EXCEPT ![d] = "stale"]
  /\ UNCHANGED <<requestVars, cancelledBy, offerVehicle, tripVars, presence,
                 sel, processVars>>

-----------------------------------------------------------------------------
RiderStep(r) ==
  \/ Create(r)
  \/ CancelByRider(r)
  \/ \E d \in Drivers : Reject(r, d) \/ SelectOffer(r, d)

DriverStep(d) ==
  \/ \E q \in Polls : Discover(q, d)
  \/ \E r \in Rides : Upsert(r, d) \/ Skip(r, d) \/ CancelByDriver(r, d)
  \/ SetOnline(d) \/ SetOffline(d) \/ UpsertCurrent(d)
  \/ \E v \in Vehicles : SelectOperation(d, v)

TripStep(r) == Start(r) \/ Complete(r) \/ ConfirmCashCollected(r)

PollStep(q) == OpenFound(q) \/ AbandonPoll(q)

Housekeeping ==
  \/ \E q \in Polls : PollStep(q)
  \/ \E w \in Sweepers : Sweep(w) \/ AbandonSweep(w)
  \/ \E locked \in SUBSET Drivers : ExpirePresence(locked)

ClockStep ==
  \/ \E r \in Rides : RideDeadline(r)
  \/ \E p \in Pairs : OppDeadline(p) \/ OfferDeadline(p)
  \/ \E d \in Drivers : LocationAges(d)

Next ==
  \/ \E r \in Rides : RiderStep(r) \/ TripStep(r)
  \/ \E d \in Drivers : DriverStep(d)
  \/ Housekeeping
  \/ ClockStep

Spec == Init /\ [][Next]_vars

(***************************************************************************)
(* The clock reaches every deadline.  The ticker of the API sweeps for as  *)
(* long as it runs; sweeps may be abandoned again and again, but a         *)
(* statement that is reached again and again succeeds again and again.     *)
(* The presence ticker keeps running and finds no row locked for ever.     *)
(* Users owe nothing.                                                      *)
(***************************************************************************)
Fairness ==
  /\ \A r \in Rides : WF_vars(RideDeadline(r))
  /\ \A p \in Pairs : WF_vars(OppDeadline(p)) /\ WF_vars(OfferDeadline(p))
  /\ \A i \in 1..6 : SF_vars(\E w \in Sweepers : sweepAt[w] = i /\ Sweep(w))
  /\ \A d \in Drivers : WF_vars(\E locked \in SUBSET Drivers :
                                  d \in locked /\ ExpirePresence(locked))

FairSpec == Spec /\ Fairness
==============================================================================
