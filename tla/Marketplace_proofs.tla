-------------------------- MODULE Marketplace_proofs --------------------------
(***************************************************************************)
(* Proofs about the marketplace, for any number of rides, drivers,         *)
(* vehicles, services, polls and sweepers.                                 *)
(***************************************************************************)
EXTENDS MarketplaceProperties, FiniteSetTheorems, TLAPS

-----------------------------------------------------------------------------
(***************************************************************************)
(* What marketplace.Expire, run whole in a transaction or one statement at *)
(* a time, may do to the tables: a requested ride without a trip expires,  *)
(* a pending offer expires or is closed, a live opportunity ends.          *)
(***************************************************************************)
Refreshed(rides, opps, offers) ==
  /\ rides \in [Rides -> RideStatus]
  /\ opps \in [Pairs -> OppStatus]
  /\ offers \in [Pairs -> OfferStatus]
  /\ \A r \in Rides :
       \/ rides[r] = ride[r]
       \/ ride[r] = "requested" /\ rides[r] = "expired"
  /\ \A p \in Pairs :
       \/ opps[p] = opp[p]
       \/ /\ opp[p] \in {"open", "offered"}
          /\ opps[p] \in {"offer_expired", "window_expired", "closed"}
  /\ \A p \in Pairs :
       \/ offers[p] = offer[p]
       \/ offer[p] = "pending" /\ offers[p] \in {"expired", "closed"}

\* Each statement of Expire refreshes the tables.
LEMMA StatementsRefresh ==
  ASSUME TypeOK
  PROVE  /\ Refreshed(ride, opp, offer)
         /\ Refreshed(ride, opp, ExpireOffers(offer))
         /\ Refreshed(ride, ExpireOffered(opp, offer), offer)
         /\ Refreshed(ride, ExpireWindows(opp), offer)
         /\ Refreshed(ExpireRides(ride), opp, offer)
         /\ Refreshed(ride, opp, CloseOffers(offer, ride))
         /\ Refreshed(ride, CloseOpps(opp, ride), offer)
<1> USE DEF TypeOK, Refreshed, RideStatus, OppStatus, OfferStatus
<1>1. Refreshed(ride, opp, offer)
  OBVIOUS
<1>2. Refreshed(ride, opp, ExpireOffers(offer))
  BY DEF ExpireOffers
<1>3. Refreshed(ride, ExpireOffered(opp, offer), offer)
  BY DEF ExpireOffered
<1>4. Refreshed(ride, ExpireWindows(opp), offer)
  BY DEF ExpireWindows
<1>5. Refreshed(ExpireRides(ride), opp, offer)
  BY DEF ExpireRides
<1>6. Refreshed(ride, opp, CloseOffers(offer, ride))
  BY DEF CloseOffers
<1>7. Refreshed(ride, CloseOpps(opp, ride), offer)
  BY DEF CloseOpps
<1> QED
  BY <1>1, <1>2, <1>3, <1>4, <1>5, <1>6, <1>7

\* So do all six of them one after the other.
LEMMA SweptRefreshes ==
  ASSUME TypeOK
  PROVE  Refreshed(Swept.ride, Swept.opp, Swept.offer)
<1> DEFINE offers == ExpireOffers(offer)
           rides == ExpireRides(ride)
           opps == ExpireWindows(ExpireOffered(opp, offers))
<1> USE DEF TypeOK, RideStatus, OppStatus, OfferStatus
<1>1. /\ offers \in [Pairs -> OfferStatus]
      /\ \A p \in Pairs : \/ offers[p] = offer[p]
                          \/ offer[p] = "pending" /\ offers[p] = "expired"
  BY DEF ExpireOffers
<1>2. /\ rides \in [Rides -> RideStatus]
      /\ \A r \in Rides : \/ rides[r] = ride[r]
                          \/ ride[r] = "requested" /\ rides[r] = "expired"
  BY DEF ExpireRides
<1>3. /\ opps \in [Pairs -> OppStatus]
      /\ \A p \in Pairs :
           \/ opps[p] = opp[p]
           \/ /\ opp[p] \in {"open", "offered"}
              /\ opps[p] \in {"offer_expired", "window_expired"}
  BY DEF ExpireWindows, ExpireOffered
<1> HIDE DEF offers, rides, opps
<1>4. /\ CloseOffers(offers, rides) \in [Pairs -> OfferStatus]
      /\ \A p \in Pairs :
           \/ CloseOffers(offers, rides)[p] = offer[p]
           \/ /\ offer[p] = "pending"
              /\ CloseOffers(offers, rides)[p] \in {"expired", "closed"}
  BY <1>1 DEF CloseOffers
<1>5. /\ CloseOpps(opps, rides) \in [Pairs -> OppStatus]
      /\ \A p \in Pairs :
           \/ CloseOpps(opps, rides)[p] = opp[p]
           \/ /\ opp[p] \in {"open", "offered"}
              /\ CloseOpps(opps, rides)[p]
                   \in {"offer_expired", "window_expired", "closed"}
  BY <1>3 DEF CloseOpps
<1>6. /\ Swept.ride = rides
      /\ Swept.offer = CloseOffers(offers, rides)
      /\ Swept.opp = CloseOpps(opps, rides)
  BY DEF Swept, offers, rides, opps
<1> QED
  BY <1>2, <1>4, <1>5, <1>6 DEF Refreshed

-----------------------------------------------------------------------------
(***************************************************************************)
(* Type correctness.  Two groups of variables keep their types together.   *)
(***************************************************************************)
RequestTypes ==
  /\ ride \in [Rides -> RideStatus]
  /\ rideDue \subseteq Rides
  /\ opp \in [Pairs -> OppStatus]
  /\ oppDue \subseteq Pairs
  /\ offer \in [Pairs -> OfferStatus]
  /\ offerDue \subseteq Pairs

OtherTypes ==
  /\ cancelledBy \in [Rides -> {"nobody", "rider", "driver"}]
  /\ offerVehicle \in [Pairs -> Vehicles \cup {NoVehicle}]
  /\ trip \in [Rides -> TripStatus]
  /\ tripDriver \in [Rides -> Drivers \cup {NoDriver}]
  /\ tripVehicle \in [Rides -> Vehicles \cup {NoVehicle}]
  /\ collected \subseteq Rides
  /\ presence \in [Drivers -> {"approved", "offline", "online"}]
  /\ sel \in [Drivers -> Vehicles \cup {NoVehicle}]
  /\ loc \in [Drivers -> {"none", "fresh", "stale"}]
  /\ found \in [Polls -> SUBSET Pairs]
  /\ sweepAt \in [Sweepers -> 1..6]

\* The two groups together are the type invariant.
LEMMA TypesSplit ==
  /\ TypeOK <=> RequestTypes /\ OtherTypes
  /\ TypeOK' <=> RequestTypes' /\ OtherTypes'
BY DEF TypeOK, RequestTypes, OtherTypes

\* A commit of well-typed tables keeps the request tables well typed.
LEMMA CommitTypes ==
  ASSUME TypeOK,
         NEW rides \in [Rides -> RideStatus],
         NEW opps \in [Pairs -> OppStatus],
         NEW offers \in [Pairs -> OfferStatus],
         Commit(rides, opps, offers)
  PROVE  RequestTypes'
BY DEF Commit, TypeOK, RequestTypes

\* Closing the competing answers to a ride keeps the tables well typed.
LEMMA ClosingTypes ==
  ASSUME TypeOK, NEW r \in Rides, NEW d, Refreshed(Swept.ride, Swept.opp, Swept.offer)
  PROVE  /\ CloseCompetingOffers(Swept.offer, r, d) \in [Pairs -> OfferStatus]
         /\ CloseCompetingOpportunities(Swept.opp, r, d) \in [Pairs -> OppStatus]
BY DEF Refreshed, CloseCompetingOffers, CloseCompetingOpportunities, OfferStatus, OppStatus

\* Every step keeps the types.
LEMMA TypeStep ==
  ASSUME TypeOK, [Next]_vars
  PROVE  TypeOK'
<1> SUFFICES RequestTypes' /\ OtherTypes'
  BY TypesSplit
<1>t. RequestTypes /\ OtherTypes
  BY TypesSplit
<1>f. Refreshed(Swept.ride, Swept.opp, Swept.offer)
  BY SweptRefreshes
<1>s. /\ Swept.ride \in [Rides -> RideStatus]
      /\ Swept.opp \in [Pairs -> OppStatus]
      /\ Swept.offer \in [Pairs -> OfferStatus]
  BY <1>f DEF Refreshed
<1>swept. ASSUME Commit(Swept.ride, Swept.opp, Swept.offer) PROVE RequestTypes'
  BY <1>swept, <1>s, CommitTypes
<1> USE DEF requestVars, tripVars, driverVars, processVars
<1>1. ASSUME NEW r \in Rides, Create(r) PROVE RequestTypes' /\ OtherTypes'
  BY <1>1, <1>t DEF Create, RequestTypes, OtherTypes, RideStatus
<1>2. ASSUME NEW r \in Rides, NEW d \in Drivers, Reject(r, d)
      PROVE  RequestTypes' /\ OtherTypes'
  <2>1. /\ [Swept.opp EXCEPT ![<<r, d>>] = IF @ = "offered" THEN "rider_rejected" ELSE @]
              \in [Pairs -> OppStatus]
        /\ [Swept.offer EXCEPT ![<<r, d>>] = "rejected"] \in [Pairs -> OfferStatus]
    BY <1>s DEF Pairs, OppStatus, OfferStatus
  <2>2. RequestTypes'
    BY <1>2, <2>1, <1>s, <1>swept, CommitTypes DEF Reject
  <2>3. OtherTypes'
    BY <1>2, <1>t DEF Reject, OtherTypes
  <2> QED
    BY <2>2, <2>3
<1>3. ASSUME NEW r \in Rides, NEW d \in Drivers, SelectOffer(r, d)
      PROVE  RequestTypes' /\ OtherTypes'
  <2> DEFINE rides == [Swept.ride EXCEPT ![r] = "accepted"]
             opps == [CloseCompetingOpportunities(Swept.opp, r, d)
                        EXCEPT ![<<r, d>>] = "accepted"]
             offers == [CloseCompetingOffers(Swept.offer, r, d)
                          EXCEPT ![<<r, d>>] = "accepted"]
  <2>1. /\ rides \in [Rides -> RideStatus]
        /\ opps \in [Pairs -> OppStatus]
        /\ offers \in [Pairs -> OfferStatus]
    BY <1>s, <1>f, ClosingTypes DEF RideStatus, OppStatus, OfferStatus
  <2>2. Commit(rides, opps, offers)
    BY <1>3 DEF SelectOffer
  <2>3. RequestTypes'
    BY <2>1, <2>2, CommitTypes
  <2>4. OtherTypes'
    BY <1>3, <1>t DEF SelectOffer, OtherTypes, TripStatus, Pairs
  <2> QED
    BY <2>3, <2>4
<1>4. ASSUME NEW r \in Rides, NEW actor \in {"rider", "driver"},
             CancelLocked(Swept, r, actor) \/ AlreadyCancelled(Swept, r),
             UNCHANGED <<offerVehicle, tripDriver, tripVehicle, collected,
                         driverVars, processVars>>
      PROVE  RequestTypes' /\ OtherTypes'
  <2>1. CASE CancelLocked(Swept, r, actor)
    <3>1. [Swept.ride EXCEPT ![r] = "cancelled"] \in [Rides -> RideStatus]
      BY <1>s DEF RideStatus
    <3>2. RequestTypes'
      BY <2>1, <3>1, <1>f, ClosingTypes, CommitTypes DEF CancelLocked
    <3>3. OtherTypes'
      BY <2>1, <1>4, <1>t DEF CancelLocked, OtherTypes, TripStatus
    <3> QED
      BY <3>2, <3>3
  <2>2. CASE AlreadyCancelled(Swept, r)
    BY <2>2, <1>4, <1>t, <1>swept DEF AlreadyCancelled, OtherTypes
  <2> QED
    BY <1>4, <2>1, <2>2
<1>5. ASSUME NEW r \in Rides, CancelByRider(r) PROVE RequestTypes' /\ OtherTypes'
  BY <1>5, <1>4 DEF CancelByRider
<1>6. ASSUME NEW r \in Rides, NEW d \in Drivers, CancelByDriver(r, d)
      PROVE  RequestTypes' /\ OtherTypes'
  BY <1>6, <1>4 DEF CancelByDriver
<1>7. ASSUME NEW d \in Drivers, NEW q \in Polls, Discover(q, d)
      PROVE  RequestTypes' /\ OtherTypes'
  <2>1. RequestTypes'
    BY <1>7, <1>swept DEF Discover
  <2>2. PICK picked \in SUBSET Candidates(Swept, d) :
               found' = [found EXCEPT ![q] = picked \X {d}]
    BY <1>7 DEF Discover
  <2>3. picked \X {d} \subseteq Pairs
    BY DEF Candidates, Pairs
  <2>4. OtherTypes'
    BY <1>7, <1>t, <2>2, <2>3 DEF Discover, OtherTypes
  <2> QED
    BY <2>1, <2>4
<1>8. ASSUME NEW r \in Rides, NEW d \in Drivers, Upsert(r, d)
      PROVE  RequestTypes' /\ OtherTypes'
  <2>1. /\ [Swept.opp EXCEPT ![<<r, d>>] = "offered"] \in [Pairs -> OppStatus]
        /\ [Swept.offer EXCEPT ![<<r, d>>] = "pending"] \in [Pairs -> OfferStatus]
    BY <1>s DEF OppStatus, OfferStatus
  <2>2. RequestTypes'
    BY <1>8, <2>1, <1>s, CommitTypes DEF Upsert
  <2>3. OtherTypes'
    BY <1>8, <1>t DEF Upsert, OtherTypes
  <2> QED
    BY <2>2, <2>3
<1>9. ASSUME NEW r \in Rides, NEW d \in Drivers, Skip(r, d)
      PROVE  RequestTypes' /\ OtherTypes'
  <2>1. [Swept.opp EXCEPT ![<<r, d>>] = "driver_skipped"] \in [Pairs -> OppStatus]
    BY <1>s DEF OppStatus
  <2>2. RequestTypes'
    BY <1>9, <2>1, <1>s, CommitTypes DEF Skip
  <2>3. OtherTypes'
    BY <1>9, <1>t DEF Skip, OtherTypes
  <2> QED
    BY <2>2, <2>3
<1>10. ASSUME NEW r \in Rides, TripStep(r) PROVE RequestTypes' /\ OtherTypes'
  BY <1>10, <1>t
  DEF TripStep, Start, Complete, ConfirmCashCollected, RequestTypes, OtherTypes, TripStatus
<1>11. ASSUME NEW d \in Drivers,
              \/ SetOnline(d) \/ SetOffline(d) \/ UpsertCurrent(d)
              \/ \E v \in Vehicles : SelectOperation(d, v)
       PROVE  RequestTypes' /\ OtherTypes'
  BY <1>11, <1>t
  DEF SetOnline, SetOffline, UpsertCurrent, SelectOperation, Lapsed, RequestTypes, OtherTypes
<1>12. ASSUME NEW w \in Sweepers, Sweep(w) PROVE RequestTypes' /\ OtherTypes'
  <2>1. RequestTypes'
    BY <1>12, StatementsRefresh, CommitTypes DEF Sweep, Statement, Refreshed
  <2>2. OtherTypes'
    BY <1>12, <1>t DEF Sweep, NextStatement, OtherTypes
  <2> QED
    BY <2>1, <2>2
<1>13. ASSUME NEW w \in Sweepers, AbandonSweep(w) PROVE RequestTypes' /\ OtherTypes'
  BY <1>13, <1>t DEF AbandonSweep, RequestTypes, OtherTypes
<1>14. ASSUME NEW locked \in SUBSET Drivers, ExpirePresence(locked)
       PROVE  RequestTypes' /\ OtherTypes'
  BY <1>14, <1>t DEF ExpirePresence, Lapsed, RequestTypes, OtherTypes
<1>15. ASSUME ClockStep PROVE RequestTypes' /\ OtherTypes'
  BY <1>15, <1>t
  DEF ClockStep, RideDeadline, OppDeadline, OfferDeadline, LocationAges,
      RequestTypes, OtherTypes
<1>16. ASSUME UNCHANGED vars PROVE RequestTypes' /\ OtherTypes'
  BY <1>16, <1>t DEF vars, RequestTypes, OtherTypes
<1>17. ASSUME NEW q \in Polls, PollStep(q) PROVE RequestTypes' /\ OtherTypes'
  BY <1>17, <1>t
  DEF PollStep, OpenFound, AbandonPoll, RequestTypes, OtherTypes, OppStatus
<1> QED
  BY <1>1, <1>2, <1>3, <1>5, <1>6, <1>7, <1>8, <1>9, <1>10, <1>11, <1>12, <1>13,
     <1>14, <1>15, <1>16, <1>17
  DEF Next, RiderStep, DriverStep, Housekeeping

(***************************************************************************)
(* Every reachable state is well typed.                                    *)
(***************************************************************************)
THEOREM TypeCorrect == Spec => []TypeOK
<1>1. Init => TypeOK
  BY MarketplaceAssumption
  DEF Init, TypeOK, Pairs, RideStatus, OppStatus, OfferStatus, TripStatus
<1>2. TypeOK /\ [Next]_vars => TypeOK'
  BY TypeStep
<1> QED
  BY <1>1, <1>2, PTL DEF Spec

-----------------------------------------------------------------------------
(***************************************************************************)
(* The safety of assignment.  None of the properties is about one table,   *)
(* so they are proved together: that a taken ride has no rivals keeps      *)
(* accepted offers unique (SingleWinner), which with the agreement of      *)
(* requests and trips makes a driver's active trip the only one.           *)
(***************************************************************************)
AssignmentInv ==
  /\ TypeOK
  /\ SingleWinner
  /\ RequestMatchesTrip
  /\ TakenRideHasNoRivals
  /\ OneActiveTrip
  /\ TripRunsChosenVehicle
  /\ NeverOwnRide

\* No poll is about to show a driver a ride of their own.
FoundNotOwn == \A q \in Polls : \A p \in found[q] : RiderOf[p[1]] # p[2]

\* A pair is a ride and a driver.
LEMMA PairFacts ==
  /\ \A r \in Rides, d \in Drivers : <<r, d>> \in Pairs
  /\ \A p \in Pairs : p[1] \in Rides /\ p[2] \in Drivers /\ p = <<p[1], p[2]>>
BY DEF Pairs

\* An expiry, whole or in part, keeps the invariant.
LEMMA RefreshKeeps ==
  ASSUME AssignmentInv, TypeOK',
         Refreshed(ride', opp', offer'),
         UNCHANGED <<cancelledBy, offerVehicle, tripVars, driverVars>>
  PROVE  AssignmentInv'
<1> USE PairFacts, MarketplaceAssumption DEF AssignmentInv, Refreshed, tripVars, driverVars
<1>a. \A p \in Pairs : /\ offer'[p] = "accepted" <=> offer[p] = "accepted"
                       /\ opp'[p] = "accepted" <=> opp[p] = "accepted"
  OBVIOUS
<1>1. SingleWinner'
  BY <1>a DEF SingleWinner
<1>2. RequestMatchesTrip'
  BY DEF RequestMatchesTrip
<1>3. TakenRideHasNoRivals'
  BY DEF TakenRideHasNoRivals
<1>4. OneActiveTrip' /\ TripRunsChosenVehicle'
  BY DEF OneActiveTrip, TripRunsChosenVehicle
<1>5. NeverOwnRide'
  BY DEF NeverOwnRide
<1> QED
  BY <1>1, <1>2, <1>3, <1>4, <1>5

\* A step on drivers, clocks or sweeps keeps it, unless it moves a busy driver.
LEMMA BystanderKeeps ==
  ASSUME AssignmentInv, TypeOK',
         UNCHANGED <<ride, opp, offer, cancelledBy, offerVehicle, tripVars>>,
         \A d \in Drivers : sel'[d] = sel[d] \/ ~OnTrip(d)
  PROVE  AssignmentInv'
<1> USE DEF AssignmentInv, tripVars
<1>1. SingleWinner' /\ RequestMatchesTrip' /\ TakenRideHasNoRivals'
  BY DEF SingleWinner, RequestMatchesTrip, TakenRideHasNoRivals
<1>2. OneActiveTrip' /\ NeverOwnRide'
  BY DEF OneActiveTrip, NeverOwnRide
<1>3. TripRunsChosenVehicle'
  <2> SUFFICES ASSUME NEW r \in Rides, trip[r] \in Active
               PROVE  sel'[tripDriver[r]] = sel[tripDriver[r]]
    BY DEF TripRunsChosenVehicle
  <2>1. tripDriver[r] \in Drivers
    BY DEF SingleWinner, Active
  <2>2. OnTrip(tripDriver[r])
    BY DEF OnTrip
  <2> QED
    BY <2>1, <2>2
<1> QED
  BY <1>1, <1>2, <1>3

\* A step on the answers to rides that are still requested keeps it, as long
\* as it accepts nothing and shows nobody a ride of their own.
LEMMA AnswerKeeps ==
  ASSUME AssignmentInv, TypeOK',
         Refreshed(Swept.ride, Swept.opp, Swept.offer),
         ride' = Swept.ride,
         UNCHANGED <<cancelledBy, tripVars, driverVars>>,
         \A p \in Pairs :
           \/ offer'[p] = Swept.offer[p]
           \/ /\ Swept.ride[p[1]] = "requested"
              /\ Swept.offer[p] # "accepted" /\ offer'[p] # "accepted",
         \A p \in Pairs :
           \/ opp'[p] = Swept.opp[p]
           \/ /\ Swept.ride[p[1]] = "requested"
              /\ Swept.opp[p] # "accepted" /\ opp'[p] # "accepted"
              /\ Swept.opp[p] # "none" \/ RiderOf[p[1]] # p[2],
         \A p \in Pairs : offerVehicle'[p] = offerVehicle[p] \/ offer[p] # "accepted"
  PROVE  AssignmentInv'
<1> USE PairFacts DEF AssignmentInv, Refreshed, tripVars, driverVars
<1>1. \A p \in Pairs : /\ offer'[p] = "accepted" <=> offer[p] = "accepted"
                       /\ opp'[p] = "accepted" <=> opp[p] = "accepted"
  OBVIOUS
<1>2. SingleWinner'
  BY <1>1 DEF SingleWinner
<1>3. RequestMatchesTrip'
  BY DEF RequestMatchesTrip
<1>4. TakenRideHasNoRivals'
  BY DEF TakenRideHasNoRivals
<1>5. OneActiveTrip' /\ TripRunsChosenVehicle'
  BY DEF OneActiveTrip, TripRunsChosenVehicle
<1>6. NeverOwnRide'
  BY DEF NeverOwnRide
<1> QED
  BY <1>2, <1>3, <1>4, <1>5, <1>6

\* The assignment of a trip keeps the invariant.
LEMMA SelectKeeps ==
  ASSUME AssignmentInv, TypeOK', NEW r \in Rides, NEW d \in Drivers, SelectOffer(r, d)
  PROVE  AssignmentInv'
<1> DEFINE p == <<r, d>>
<1> USE PairFacts DEF AssignmentInv
<1>1. Refreshed(Swept.ride, Swept.opp, Swept.offer)
  BY SweptRefreshes
<1>2. /\ Swept.ride[r] = "requested" /\ trip[r] = "none"
      /\ Swept.offer[p] = "pending" /\ Swept.opp[p] = "offered"
      /\ Eligible(d, ServiceOf[r])
      /\ offerVehicle[p] = sel[d]
  BY DEF SelectOffer, Assignable, StillOpen
<1>3. ride[r] = "requested" /\ offer[p] = "pending" /\ opp[p] = "offered"
  BY <1>1, <1>2 DEF Refreshed
<1>4. /\ ride' = [Swept.ride EXCEPT ![r] = "accepted"]
      /\ opp' = [CloseCompetingOpportunities(Swept.opp, r, d) EXCEPT ![p] = "accepted"]
      /\ offer' = [CloseCompetingOffers(Swept.offer, r, d) EXCEPT ![p] = "accepted"]
  BY DEF SelectOffer, Commit
<1>5. /\ trip' = [trip EXCEPT ![r] = "assigned"]
      /\ tripDriver' = [tripDriver EXCEPT ![r] = d]
      /\ tripVehicle' = [tripVehicle EXCEPT ![r] = offerVehicle[p]]
      /\ UNCHANGED <<collected, cancelledBy, offerVehicle, presence, sel, loc>>
  BY DEF SelectOffer, driverVars
<1>6. /\ ride'[r] = "accepted" /\ trip'[r] = "assigned" /\ tripDriver'[r] = d
      /\ tripVehicle'[r] = offerVehicle[p]
      /\ offer'[p] = "accepted" /\ opp'[p] = "accepted"
  BY <1>1, <1>4, <1>5 DEF TypeOK, Refreshed, CloseCompetingOffers, CloseCompetingOpportunities
<1>7. \A q \in Rides : q # r =>
        /\ ride'[q] = Swept.ride[q]
        /\ trip'[q] = trip[q] /\ tripDriver'[q] = tripDriver[q]
        /\ tripVehicle'[q] = tripVehicle[q]
  BY <1>1, <1>4, <1>5 DEF TypeOK, Refreshed
<1>8. \A q \in Pairs :
        /\ q[1] # r => offer'[q] = Swept.offer[q] /\ opp'[q] = Swept.opp[q]
        /\ q[1] = r /\ q # p =>
             /\ offer'[q] # "pending" /\ opp'[q] \notin {"open", "offered"}
             /\ offer'[q] = "accepted" => offer[q] = "accepted"
             /\ opp'[q] = "accepted" => opp[q] = "accepted"
             /\ opp'[q] # "none" => opp[q] # "none"
  BY <1>1, <1>4 DEF Refreshed, CloseCompetingOffers, CloseCompetingOpportunities
<1>9. SingleWinner'
  <2>1. ASSUME NEW q \in Rides, trip'[q] # "none"
        PROVE  /\ tripDriver'[q] \in Drivers
               /\ offer'[<<q, tripDriver'[q]>>] = "accepted"
               /\ opp'[<<q, tripDriver'[q]>>] = "accepted"
               /\ tripVehicle'[q] = offerVehicle'[<<q, tripDriver'[q]>>]
    <3>1. CASE q = r
      BY <3>1, <1>5, <1>6
    <3>2. CASE q # r
      <4>1. trip[q] # "none" /\ tripDriver'[q] = tripDriver[q]
        BY <2>1, <3>2, <1>7
      <4>2. /\ tripDriver[q] \in Drivers
            /\ offer[<<q, tripDriver[q]>>] = "accepted"
            /\ opp[<<q, tripDriver[q]>>] = "accepted"
            /\ tripVehicle[q] = offerVehicle[<<q, tripDriver[q]>>]
        BY <4>1 DEF SingleWinner
      <4>3. /\ offer'[<<q, tripDriver[q]>>] = "accepted"
            /\ opp'[<<q, tripDriver[q]>>] = "accepted"
        BY <3>2, <4>2, <1>1, <1>8 DEF Refreshed
      <4> QED
        BY <3>2, <4>1, <4>2, <4>3, <1>5, <1>7
    <3> QED
      BY <3>1, <3>2
  <2>2. ASSUME NEW q \in Pairs, offer'[q] = "accepted" \/ opp'[q] = "accepted"
        PROVE  trip'[q[1]] # "none" /\ tripDriver'[q[1]] = q[2]
    <3>1. CASE q = p
      BY <3>1, <1>6
    <3>2. CASE q # p
      <4>1. offer[q] = "accepted" \/ opp[q] = "accepted"
        BY <2>2, <3>2, <1>1, <1>8 DEF Refreshed
      <4>2. trip[q[1]] # "none" /\ tripDriver[q[1]] = q[2]
        BY <4>1 DEF SingleWinner
      <4> QED
        BY <4>2, <1>2, <1>7
    <3> QED
      BY <3>1, <3>2
  <2> QED
    BY <2>1, <2>2 DEF SingleWinner
<1>10. RequestMatchesTrip'
  <2>1. ASSUME NEW q \in Rides, q # r
        PROVE  /\ ride'[q] = "accepted" <=> ride[q] = "accepted"
               /\ ride'[q] = "cancelled" <=> ride[q] = "cancelled"
    BY <2>1, <1>1, <1>7 DEF Refreshed
  <2>2. r \notin collected /\ cancelledBy[r] = "nobody"
    BY <1>2, <1>3 DEF RequestMatchesTrip
  <2> QED
    BY <2>1, <2>2, <1>5, <1>6, <1>7 DEF RequestMatchesTrip
<1>11. TakenRideHasNoRivals'
  BY <1>1, <1>6, <1>7, <1>8 DEF TakenRideHasNoRivals, Refreshed
<1>12. OneActiveTrip'
  BY <1>2, <1>6, <1>7 DEF OneActiveTrip, Eligible, OnTrip
<1>13. TripRunsChosenVehicle'
  BY <1>2, <1>5, <1>6, <1>7 DEF TripRunsChosenVehicle, Eligible, Selected, TypeOK
<1>14. NeverOwnRide'
  <2>1. RiderOf[r] # d
    BY <1>3 DEF NeverOwnRide
  <2>2. \A q \in Pairs : opp'[q] # "none" => opp[q] # "none"
    BY <1>1, <1>3, <1>8 DEF Refreshed
  <2> QED
    BY <2>1, <2>2, <1>6, <1>7 DEF NeverOwnRide
<1> QED
  BY <1>9, <1>10, <1>11, <1>12, <1>13, <1>14

\* A cancellation that changes the ride keeps the invariant.
LEMMA CancelKeeps ==
  ASSUME AssignmentInv, TypeOK', NEW r \in Rides, NEW actor \in {"rider", "driver"},
         Swept.ride[r] \in {"requested", "accepted"},
         trip[r] \in Active \cup {"none"},
         actor = "driver" => trip[r] \in Active,
         CancelLocked(Swept, r, actor),
         UNCHANGED <<offerVehicle, tripDriver, tripVehicle, collected, driverVars>>
  PROVE  AssignmentInv'
<1> USE PairFacts DEF AssignmentInv, driverVars
<1>1. Refreshed(Swept.ride, Swept.opp, Swept.offer)
  BY SweptRefreshes
<1>2. /\ ride' = [Swept.ride EXCEPT ![r] = "cancelled"]
      /\ opp' = CloseCompetingOpportunities(Swept.opp, r, NoDriver)
      /\ offer' = CloseCompetingOffers(Swept.offer, r, NoDriver)
      /\ cancelledBy' = [cancelledBy EXCEPT ![r] = actor]
      /\ trip' = [trip EXCEPT ![r] = IF @ \in Active THEN "cancelled" ELSE @]
  BY DEF CancelLocked, Commit
<1>3. /\ ride'[r] = "cancelled" /\ cancelledBy'[r] = actor
      /\ trip'[r] = IF trip[r] \in Active THEN "cancelled" ELSE "none"
  BY <1>1, <1>2 DEF TypeOK, Refreshed
<1>4. \A q \in Rides : q # r =>
        ride'[q] = Swept.ride[q] /\ trip'[q] = trip[q] /\ cancelledBy'[q] = cancelledBy[q]
  BY <1>1, <1>2 DEF TypeOK, Refreshed
<1>5. \A p \in Pairs :
        /\ offer'[p] = "accepted" <=> offer[p] = "accepted"
        /\ opp'[p] = "accepted" <=> opp[p] = "accepted"
        /\ opp'[p] # "none" => opp[p] # "none"
        /\ p[1] # r => offer'[p] = Swept.offer[p] /\ opp'[p] = Swept.opp[p]
        /\ p[1] = r => offer'[p] # "pending" /\ opp'[p] \notin {"open", "offered"}
  BY <1>1, <1>2, MarketplaceAssumption
  DEF Refreshed, CloseCompetingOffers, CloseCompetingOpportunities
<1>6. \A q \in Rides : /\ trip'[q] # "none" <=> trip[q] # "none"
                       /\ trip'[q] \in Active => trip[q] \in Active
  BY <1>3, <1>4 DEF Active
<1>7. SingleWinner'
  BY <1>5, <1>6 DEF SingleWinner
<1>8. RequestMatchesTrip'
  <2>1. ASSUME NEW q \in Rides, q # r
        PROVE  /\ ride'[q] = "accepted" <=> ride[q] = "accepted"
               /\ ride'[q] = "cancelled" <=> ride[q] = "cancelled"
    BY <2>1, <1>1, <1>4 DEF Refreshed
  <2>2. r \notin collected
    BY DEF RequestMatchesTrip, Active
  <2> QED
    BY <2>1, <2>2, <1>3, <1>4 DEF RequestMatchesTrip, Active
<1>9. TakenRideHasNoRivals'
  BY <1>1, <1>4, <1>5 DEF TakenRideHasNoRivals, Refreshed
<1>10. OneActiveTrip' /\ TripRunsChosenVehicle' /\ NeverOwnRide'
  BY <1>5, <1>6 DEF OneActiveTrip, TripRunsChosenVehicle, NeverOwnRide
<1> QED
  BY <1>7, <1>8, <1>9, <1>10

\* Driving, completing and paying a trip keep the invariant.
LEMMA TripKeeps ==
  ASSUME AssignmentInv, TypeOK', NEW r \in Rides, TripStep(r)
  PROVE  AssignmentInv'
<1> USE DEF AssignmentInv, requestVars, driverVars, Active
<1>1. /\ UNCHANGED <<ride, opp, offer, cancelledBy, offerVehicle, tripDriver,
                     tripVehicle, sel>>
      /\ \A q \in Rides :
           \/ trip'[q] = trip[q]
           \/ /\ q = r /\ trip[r] \in Active
              /\ trip'[r] \in {"in_progress", "completed"}
      /\ \A q \in collected' : q \in collected \/ (q = r /\ trip[r] = "completed")
      /\ \A q \in collected : trip'[q] = trip[q]
      /\ \A q \in Rides : trip[q] = "completed" => trip'[q] = "completed"
  BY DEF TripStep, Start, Complete, ConfirmCashCollected, TypeOK, RequestMatchesTrip
<1>2. \A q \in Rides : trip'[q] # "none" <=> trip[q] # "none"
  BY <1>1
<1>3. SingleWinner' /\ TakenRideHasNoRivals'
  BY <1>1, <1>2 DEF SingleWinner, TakenRideHasNoRivals, Pairs
<1>4. RequestMatchesTrip'
  BY <1>1 DEF RequestMatchesTrip
<1>5. OneActiveTrip' /\ TripRunsChosenVehicle' /\ NeverOwnRide'
  BY <1>1 DEF OneActiveTrip, TripRunsChosenVehicle, NeverOwnRide
<1> QED
  BY <1>3, <1>4, <1>5

\* A new request keeps the invariant.
LEMMA CreateKeeps ==
  ASSUME AssignmentInv, TypeOK', NEW r \in Rides, Create(r)
  PROVE  AssignmentInv'
<1> USE DEF AssignmentInv, Create, tripVars, driverVars
<1>1. SingleWinner' /\ NeverOwnRide' /\ OneActiveTrip' /\ TripRunsChosenVehicle'
  BY DEF SingleWinner, NeverOwnRide, OneActiveTrip, TripRunsChosenVehicle
<1>2. RequestMatchesTrip' /\ TakenRideHasNoRivals'
  BY DEF RequestMatchesTrip, TakenRideHasNoRivals, TypeOK
<1> QED
  BY <1>1, <1>2

\* A poll that inserts what it found keeps the invariant.
LEMMA OpenKeeps ==
  ASSUME AssignmentInv, FoundNotOwn, TypeOK', NEW q \in Polls, OpenFound(q)
  PROVE  AssignmentInv'
<1> USE PairFacts DEF AssignmentInv, tripVars, driverVars
<1>1. /\ UNCHANGED <<ride, offer, cancelledBy, offerVehicle, tripVars, driverVars>>
      /\ \A p \in Pairs :
           \/ opp'[p] = opp[p]
           \/ opp[p] = "none" /\ opp'[p] = "open" /\ RiderOf[p[1]] # p[2]
  BY DEF OpenFound, FoundNotOwn
<1>2. SingleWinner' /\ RequestMatchesTrip'
  BY <1>1 DEF SingleWinner, RequestMatchesTrip
<1>3. TakenRideHasNoRivals' /\ NeverOwnRide'
  BY <1>1 DEF TakenRideHasNoRivals, NeverOwnRide
<1>4. OneActiveTrip' /\ TripRunsChosenVehicle'
  BY <1>1 DEF OneActiveTrip, TripRunsChosenVehicle
<1> QED
  BY <1>2, <1>3, <1>4

\* Polls pick rides of others only.
LEMMA FoundStep ==
  ASSUME TypeOK, FoundNotOwn, [Next]_vars
  PROVE  FoundNotOwn'
<1>1. ASSUME NEW q \in Polls, NEW d \in Drivers, Discover(q, d) PROVE FoundNotOwn'
  <2>1. PICK picked \in SUBSET Candidates(Swept, d) :
               found' = [found EXCEPT ![q] = picked \X {d}]
    BY <1>1 DEF Discover
  <2>2. \A p \in picked \X {d} : RiderOf[p[1]] # p[2]
    BY DEF Candidates
  <2> QED
    BY <2>1, <2>2 DEF FoundNotOwn, TypeOK
<1>2. ASSUME NEW q \in Polls, PollStep(q) PROVE FoundNotOwn'
  BY <1>2 DEF PollStep, OpenFound, AbandonPoll, FoundNotOwn, TypeOK
<1>3. ASSUME found' = found PROVE FoundNotOwn'
  BY <1>3 DEF FoundNotOwn
<1>4. \/ found' = found
      \/ \E q \in Polls : PollStep(q)
      \/ \E q \in Polls, d \in Drivers : Discover(q, d)
  BY DEF Next, RiderStep, DriverStep, TripStep, Housekeeping, ClockStep, vars, processVars,
         Create, CancelByRider, Reject, SelectOffer, Upsert, Skip, CancelByDriver,
         SetOnline, SetOffline, UpsertCurrent, SelectOperation, Start, Complete,
         ConfirmCashCollected, Sweep, AbandonSweep, ExpirePresence,
         RideDeadline, OppDeadline, OfferDeadline, LocationAges
<1> QED
  BY <1>1, <1>2, <1>3, <1>4

\* Every step keeps the invariant: one step of the proof per action.
LEMMA AssignmentStep ==
  ASSUME AssignmentInv, FoundNotOwn, [Next]_vars
  PROVE  AssignmentInv'
<1> USE PairFacts
<1>t. TypeOK /\ TypeOK'
  BY TypeStep DEF AssignmentInv
<1>f. Refreshed(Swept.ride, Swept.opp, Swept.offer)
  BY <1>t, SweptRefreshes
<1>1. ASSUME NEW r \in Rides, NEW d \in Drivers, Reject(r, d) PROVE AssignmentInv'
  <2>1. CASE Commit(Swept.ride, Swept.opp, Swept.offer)
    BY <1>1, <2>1, <1>t, <1>f, RefreshKeeps DEF Reject, Commit
  <2>2. CASE /\ Swept.offer[<<r, d>>] = "pending"
             /\ Commit(Swept.ride,
                       [Swept.opp EXCEPT ![<<r, d>>] = IF @ = "offered" THEN "rider_rejected"
                                                       ELSE @],
                       [Swept.offer EXCEPT ![<<r, d>>] = "rejected"])
    <3>1. /\ ride' = Swept.ride
          /\ \A p \in Pairs : \/ offer'[p] = Swept.offer[p]
                              \/ /\ p = <<r, d>> /\ Swept.offer[p] = "pending"
                                 /\ offer'[p] = "rejected"
          /\ \A p \in Pairs : \/ opp'[p] = Swept.opp[p]
                              \/ /\ p = <<r, d>> /\ Swept.opp[p] = "offered"
                                 /\ opp'[p] = "rider_rejected"
      BY <2>2, <1>f DEF Commit, Refreshed
    <3>2. Swept.ride[r] = "requested"
      BY <1>1 DEF Reject, StillOpen
    <3> QED
      BY <1>1, <3>1, <3>2, <1>t, <1>f, AnswerKeeps DEF Reject
  <2> QED
    BY <1>1, <2>1, <2>2 DEF Reject
<1>2. ASSUME NEW r \in Rides, CancelByRider(r) PROVE AssignmentInv'
  <2>1. CASE AlreadyCancelled(Swept, r)
    BY <1>2, <2>1, <1>t, <1>f, RefreshKeeps
    DEF CancelByRider, AlreadyCancelled, Commit, tripVars
  <2>2. CASE ~AlreadyCancelled(Swept, r)
    BY <1>2, <2>2, <1>t, CancelKeeps DEF CancelByRider
  <2> QED
    BY <2>1, <2>2
<1>3. ASSUME NEW r \in Rides, NEW d \in Drivers, CancelByDriver(r, d) PROVE AssignmentInv'
  <2>1. CASE AlreadyCancelled(Swept, r)
    BY <1>3, <2>1, <1>t, <1>f, RefreshKeeps
    DEF CancelByDriver, AlreadyCancelled, Commit, tripVars
  <2>2. CASE ~AlreadyCancelled(Swept, r)
    BY <1>3, <2>2, <1>t, CancelKeeps DEF CancelByDriver
  <2> QED
    BY <2>1, <2>2
<1>4. ASSUME NEW q \in Polls, NEW d \in Drivers, Discover(q, d) PROVE AssignmentInv'
  BY <1>4, <1>t, <1>f, RefreshKeeps DEF Discover, Commit
<1>5. ASSUME NEW r \in Rides, NEW d \in Drivers, Upsert(r, d) PROVE AssignmentInv'
  <2>1. /\ ride' = Swept.ride
        /\ \A p \in Pairs : \/ offer'[p] = Swept.offer[p]
                            \/ /\ p = <<r, d>> /\ Swept.offer[p] = "none"
                               /\ offer'[p] = "pending"
        /\ \A p \in Pairs : \/ opp'[p] = Swept.opp[p]
                            \/ /\ p = <<r, d>> /\ Swept.opp[p] = "open"
                               /\ opp'[p] = "offered"
    BY <1>5, <1>f DEF Upsert, Commit, Refreshed
  <2>2. Swept.ride[r] = "requested" /\ offer[<<r, d>>] # "accepted"
    BY <1>5, <1>f DEF Upsert, StillOpen, Refreshed
  <2>3. \A p \in Pairs : offerVehicle'[p] = offerVehicle[p] \/ offer[p] # "accepted"
    BY <1>5, <1>t, <2>2 DEF Upsert, TypeOK
  <2> QED
    BY <1>5, <2>1, <2>2, <2>3, <1>t, <1>f, AnswerKeeps DEF Upsert
<1>6. ASSUME NEW r \in Rides, NEW d \in Drivers, Skip(r, d) PROVE AssignmentInv'
  <2>1. /\ ride' = Swept.ride /\ offer' = Swept.offer
        /\ \A p \in Pairs : \/ opp'[p] = Swept.opp[p]
                            \/ /\ p = <<r, d>> /\ Swept.opp[p] = "open"
                               /\ opp'[p] = "driver_skipped"
    BY <1>6, <1>f DEF Skip, Commit, Refreshed
  <2>2. Swept.ride[r] = "requested"
    BY <1>6 DEF Skip
  <2> QED
    BY <1>6, <2>1, <2>2, <1>t, <1>f, AnswerKeeps DEF Skip
<1>7. ASSUME NEW w \in Sweepers, Sweep(w) PROVE AssignmentInv'
  BY <1>7, <1>t, StatementsRefresh, RefreshKeeps DEF Sweep, Statement, Commit
<1>8. ASSUME NEW d \in Drivers, NEW v \in Vehicles, SelectOperation(d, v)
      PROVE  AssignmentInv'
  BY <1>8, <1>t, BystanderKeeps DEF SelectOperation, requestVars, TypeOK
<1>9. ASSUME \/ \E d \in Drivers : SetOnline(d) \/ SetOffline(d) \/ UpsertCurrent(d)
             \/ \E locked \in SUBSET Drivers : ExpirePresence(locked)
             \/ \E w \in Sweepers : AbandonSweep(w)
             \/ \E q \in Polls : AbandonPoll(q)
             \/ ClockStep
             \/ UNCHANGED vars
      PROVE  AssignmentInv'
  BY <1>9, <1>t, BystanderKeeps
  DEF SetOnline, SetOffline, UpsertCurrent, ExpirePresence, AbandonSweep, AbandonPoll,
      ClockStep, RideDeadline, OppDeadline, OfferDeadline, LocationAges, vars, requestVars, driverVars
<1> QED
  BY <1>1, <1>2, <1>3, <1>4, <1>5, <1>6, <1>7, <1>8, <1>9, <1>t,
     CreateKeeps, SelectKeeps, TripKeeps, OpenKeeps
  DEF Next, RiderStep, DriverStep, Housekeeping, PollStep

\* The invariant holds in every reachable state.
LEMMA AssignmentInductive == Spec => []AssignmentInv
<1>1. Init => AssignmentInv
  <2> SUFFICES ASSUME Init PROVE AssignmentInv
    OBVIOUS
  <2>1. TypeOK
    BY MarketplaceAssumption
    DEF Init, TypeOK, Pairs, RideStatus, OppStatus, OfferStatus, TripStatus
  <2> QED
    BY <2>1, PairFacts
    DEF AssignmentInv, Init, SingleWinner, RequestMatchesTrip, TakenRideHasNoRivals,
        OneActiveTrip, TripRunsChosenVehicle, NeverOwnRide, Active
<1>2. Init => FoundNotOwn
  BY DEF Init, FoundNotOwn
<1>3. AssignmentInv /\ FoundNotOwn /\ [Next]_vars => AssignmentInv' /\ FoundNotOwn'
  BY AssignmentStep, FoundStep DEF AssignmentInv
<1> QED
  BY <1>1, <1>2, <1>3, PTL DEF Spec

(***************************************************************************)
(* Accepted offers, accepted opportunities and trips always agree on who   *)
(* won, and with which vehicle.                                            *)
(***************************************************************************)
THEOREM SingleWinnerAlways == Spec => []SingleWinner
BY AssignmentInductive, PTL DEF AssignmentInv

(***************************************************************************)
(* The request, its trip, its cancellation and its payment always agree.   *)
(***************************************************************************)
THEOREM RequestMatchesTripAlways == Spec => []RequestMatchesTrip
BY AssignmentInductive, PTL DEF AssignmentInv

(***************************************************************************)
(* Nobody can still win a ride that was accepted or cancelled.             *)
(***************************************************************************)
THEOREM TakenRideHasNoRivalsAlways == Spec => []TakenRideHasNoRivals
BY AssignmentInductive, PTL DEF AssignmentInv

(***************************************************************************)
(* No driver ever has two trips under way.                                 *)
(***************************************************************************)
THEOREM OneActiveTripAlways == Spec => []OneActiveTrip
BY AssignmentInductive, PTL DEF AssignmentInv

(***************************************************************************)
(* A trip under way runs with the vehicle the rider chose.                 *)
(***************************************************************************)
THEOREM TripRunsChosenVehicleAlways == Spec => []TripRunsChosenVehicle
BY AssignmentInductive, PTL DEF AssignmentInv

(***************************************************************************)
(* Nobody sees, or drives, a ride of their own.                            *)
(***************************************************************************)
THEOREM NeverOwnRideAlways == Spec => []NeverOwnRide
BY AssignmentInductive, PTL DEF AssignmentInv

\* The sweep leaves a ride that is open and an answer that waits as they are,
\* and makes none.
LEMMA SweepSpares ==
  ASSUME TypeOK, NEW r \in Rides, NEW d \in Drivers
  PROVE  LET p == <<r, d>>
             open == ride[r] = "requested" /\ r \notin rideDue /\ offer[p] = "pending"
                       /\ p \notin offerDue /\ opp[p] = "offered"
         IN  open <=> /\ Swept.ride[r] = "requested" /\ r \notin rideDue
                      /\ Swept.offer[p] = "pending" /\ p \notin offerDue
                      /\ Swept.opp[p] = "offered"
<1> DEFINE p == <<r, d>>
           offers == ExpireOffers(offer)
           rides == ExpireRides(ride)
           opps == ExpireWindows(ExpireOffered(opp, offers))
<1>1. p \in Pairs /\ p[1] = r
  BY DEF Pairs
<1>2. /\ Swept.ride = rides
      /\ Swept.offer = CloseOffers(offers, rides)
      /\ Swept.opp = CloseOpps(opps, rides)
  BY DEF Swept
<1>3. ASSUME ride[r] = "requested", r \notin rideDue, offer[p] = "pending", p \notin offerDue,
             opp[p] = "offered"
      PROVE  Swept.ride[r] = "requested" /\ Swept.offer[p] = "pending" /\ Swept.opp[p] = "offered"
  <2>1. rides[r] = "requested" /\ offers[p] = "pending"
    BY <1>1, <1>3 DEF ExpireRides, ExpireOffers
  <2> HIDE DEF rides, offers
  <2>2. opps[p] = "offered"
    BY <1>1, <1>3, <2>1 DEF ExpireWindows, ExpireOffered
  <2> HIDE DEF opps
  <2>3. CloseOffers(offers, rides)[p] = "pending" /\ CloseOpps(opps, rides)[p] = "offered"
    BY <1>1, <2>1, <2>2 DEF CloseOffers, CloseOpps, Decided
  <2> QED
    BY <1>2, <2>1, <2>3
<1>4. ASSUME Swept.ride[r] = "requested", Swept.offer[p] = "pending", Swept.opp[p] = "offered"
      PROVE  ride[r] = "requested" /\ offer[p] = "pending" /\ opp[p] = "offered"
  BY <1>1, <1>4, SweptRefreshes DEF Refreshed
<1> QED
  BY <1>3, <1>4

(***************************************************************************)
(* What the rider is shown as selectable is what a selection would assign. *)
(***************************************************************************)
THEOREM SelectableIsAssignableAlways == Spec => []SelectableIsAssignable
<1>1. AssignmentInv => SelectableIsAssignable
  <2> SUFFICES ASSUME AssignmentInv, NEW r \in Rides, NEW d \in Drivers
               PROVE  Selectable(r, d) <=> Assignable(Swept, r, d)
    BY DEF SelectableIsAssignable
  <2>1. opp[<<r, d>>] = "offered" => RiderOf[r] # d
    BY DEF AssignmentInv, NeverOwnRide
  <2> QED
    BY <2>1, SweepSpares DEF Selectable, Assignable, StillOpen, AssignmentInv
<1> QED
  BY <1>1, AssignmentInductive, PTL

-----------------------------------------------------------------------------
(***************************************************************************)
(* The step that assigns a trip finds ride, offer, driver, location and    *)
(* vehicle still valid at once, whatever happened since the offer.         *)
(***************************************************************************)
THEOREM AssignmentRevalidatesAlways == Spec => AssignmentRevalidates
<1> DEFINE Valid == \A r \in Rides : (trip[r] = "none" /\ trip'[r] # "none") =>
                      LET d == tripDriver'[r]
                      IN  /\ ride[r] = "requested" /\ r \notin rideDue
                          /\ offer[<<r, d>>] = "pending" /\ <<r, d>> \notin offerDue
                          /\ presence[d] = "online" /\ loc[d] = "fresh"
                          /\ sel[d] = offerVehicle[<<r, d>>]
                          /\ ~OnTrip(d)
<1>1. TypeOK /\ [Next]_vars => [Valid]_vars
  <2> SUFFICES ASSUME TypeOK, Next PROVE Valid
    OBVIOUS
  <2>f. Refreshed(Swept.ride, Swept.opp, Swept.offer)
    BY SweptRefreshes
  <2>1. ASSUME NEW r \in Rides, NEW d \in Drivers, SelectOffer(r, d) PROVE Valid
    <3>1. /\ ride[r] = "requested" /\ offer[<<r, d>>] = "pending"
          /\ r \notin rideDue /\ <<r, d>> \notin offerDue
      BY <2>1, <2>f, PairFacts DEF SelectOffer, Assignable, StillOpen, Refreshed
    <3>2. /\ presence[d] = "online" /\ loc[d] = "fresh"
          /\ sel[d] = offerVehicle[<<r, d>>] /\ ~OnTrip(d)
      BY <2>1 DEF SelectOffer, Assignable, Eligible
    <3>3. /\ tripDriver'[r] = d
          /\ \A q \in Rides : q # r => trip'[q] = trip[q]
      BY <2>1 DEF SelectOffer, TypeOK
    <3> QED
      BY <3>1, <3>2, <3>3
  <2>2. ASSUME \A r \in Rides : trip[r] = "none" => trip'[r] = "none" PROVE Valid
    BY <2>2
  <2>3. ASSUME NEW r \in Rides, CancelByRider(r) \/ \E d \in Drivers : CancelByDriver(r, d)
        PROVE  Valid
    BY <2>2, <2>3
    DEF CancelByRider, CancelByDriver, CancelLocked, AlreadyCancelled, Active, TypeOK
  <2>4. ASSUME NEW r \in Rides, TripStep(r) PROVE Valid
    BY <2>2, <2>4 DEF TripStep, Start, Complete, ConfirmCashCollected, TypeOK
  <2>5. \/ trip' = trip
        \/ \E r \in Rides : \/ CancelByRider(r) \/ TripStep(r)
                            \/ \E d \in Drivers : CancelByDriver(r, d) \/ SelectOffer(r, d)
    BY DEF Next, RiderStep, DriverStep, Housekeeping, ClockStep, PollStep, tripVars,
           Create, Reject, Upsert, Skip, Discover, OpenFound, AbandonPoll,
           SetOnline, SetOffline, UpsertCurrent, SelectOperation,
           Sweep, AbandonSweep, ExpirePresence,
           RideDeadline, OppDeadline, OfferDeadline, LocationAges
  <2> QED
    BY <2>1, <2>2, <2>3, <2>4, <2>5
<1> QED
  BY <1>1, TypeCorrect, PTL DEF Spec, AssignmentRevalidates

-----------------------------------------------------------------------------
(***************************************************************************)
(* What happens between a ride and a driver happens once.                  *)
(***************************************************************************)
Forward(opps, offers) ==
  \A p \in Pairs :
    /\ offer[p] \notin {"none", "pending"} => offers[p] = offer[p]
    /\ offer[p] = "pending" => offers[p] # "none"
    /\ opp[p] \notin {"none", "open", "offered"} => opps[p] = opp[p]
    /\ opp[p] = "offered" => opps[p] \notin {"none", "open"}

\* An expiry, whole or in part, goes forward.
LEMMA RefreshForward ==
  ASSUME NEW rides, NEW opps, NEW offers, Refreshed(rides, opps, offers)
  PROVE  Forward(opps, offers)
BY DEF Refreshed, Forward

\* So does closing what is left of a ride, after an expiry.
LEMMA CloseForward ==
  ASSUME NEW rides, NEW opps, NEW offers, Refreshed(rides, opps, offers),
         NEW r, NEW d
  PROVE  Forward(CloseCompetingOpportunities(opps, r, d), CloseCompetingOffers(offers, r, d))
BY DEF Refreshed, Forward, CloseCompetingOpportunities, CloseCompetingOffers

\* An answer about one pair goes forward if what it writes follows from what
\* it found there after the expiry.
LEMMA AnswerForward ==
  ASSUME NEW rides, NEW opps, NEW offers, Refreshed(rides, opps, offers),
         NEW p \in Pairs, NEW o, NEW f,
         \/ o = opps[p]
         \/ opps[p] = "open"
         \/ opps[p] = "offered" /\ o \notin {"none", "open"},
         \/ f = offers[p]
         \/ offers[p] = "none"
         \/ offers[p] = "pending" /\ f # "none"
  PROVE  Forward([opps EXCEPT ![p] = o], [offers EXCEPT ![p] = f])
BY DEF Refreshed, Forward

\* Every step goes forward.
LEMMA StepForward ==
  ASSUME TypeOK, Next
  PROVE  Forward(opp', offer')
<1> DEFINE s == Swept
<1>f. Refreshed(s.ride, s.opp, s.offer)
  BY SweptRefreshes
<1>s. Forward(opp, offer) /\ Forward(s.opp, s.offer)
  BY <1>f, RefreshForward, StatementsRefresh
<1> HIDE DEF s
<1>1. ASSUME NEW r \in Rides, NEW d \in Drivers, Reject(r, d) PROVE Forward(opp', offer')
  <2>0. <<r, d>> \in Pairs
    BY PairFacts
  <2>1. CASE /\ s.offer[<<r, d>>] = "pending"
             /\ opp' = [s.opp EXCEPT ![<<r, d>>] =
                          IF s.opp[<<r, d>>] = "offered" THEN "rider_rejected" ELSE s.opp[<<r, d>>]]
             /\ offer' = [s.offer EXCEPT ![<<r, d>>] = "rejected"]
    BY <1>f, <2>0, <2>1, AnswerForward
  <2>2. CASE opp' = s.opp /\ offer' = s.offer
    BY <1>s, <2>2
  <2> QED
    BY <1>1, <2>1, <2>2 DEF Reject, Commit, s
<1>2. ASSUME NEW r \in Rides, NEW d \in Drivers, SelectOffer(r, d) PROVE Forward(opp', offer')
  <2>0. <<r, d>> \in Pairs
    BY PairFacts
  <2>1. /\ s.offer[<<r, d>>] = "pending" /\ s.opp[<<r, d>>] = "offered"
        /\ opp' = [CloseCompetingOpportunities(s.opp, r, d) EXCEPT ![<<r, d>>] = "accepted"]
        /\ offer' = [CloseCompetingOffers(s.offer, r, d) EXCEPT ![<<r, d>>] = "accepted"]
    BY <1>2 DEF SelectOffer, Assignable, Commit, s
  <2>2. Forward(CloseCompetingOpportunities(s.opp, r, d), CloseCompetingOffers(s.offer, r, d))
    BY <1>f, CloseForward
  <2>3. offer[<<r, d>>] = "pending" /\ opp[<<r, d>>] = "offered"
    BY <1>f, <2>0, <2>1 DEF Refreshed
  <2> QED
    BY <2>1, <2>2, <2>3 DEF Forward, CloseCompetingOpportunities, CloseCompetingOffers
<1>3. ASSUME NEW r \in Rides, CancelByRider(r) \/ \E d \in Drivers : CancelByDriver(r, d)
      PROVE  Forward(opp', offer')
  <2>1. \/ opp' = s.opp /\ offer' = s.offer
        \/ /\ opp' = CloseCompetingOpportunities(s.opp, r, NoDriver)
           /\ offer' = CloseCompetingOffers(s.offer, r, NoDriver)
    BY <1>3 DEF CancelByRider, CancelByDriver, CancelLocked, AlreadyCancelled, Commit, s
  <2> QED
    BY <1>f, <1>s, <2>1, CloseForward
<1>4. ASSUME NEW r \in Rides, NEW d \in Drivers, Upsert(r, d) PROVE Forward(opp', offer')
  <2>0. <<r, d>> \in Pairs
    BY PairFacts
  <2>1. /\ s.opp[<<r, d>>] = "open" /\ s.offer[<<r, d>>] = "none"
        /\ opp' = [s.opp EXCEPT ![<<r, d>>] = "offered"]
        /\ offer' = [s.offer EXCEPT ![<<r, d>>] = "pending"]
    BY <1>4 DEF Upsert, Commit, s
  <2> QED
    BY <1>f, <2>0, <2>1, AnswerForward
<1>5. ASSUME NEW r \in Rides, NEW d \in Drivers, Skip(r, d) PROVE Forward(opp', offer')
  <2>0. <<r, d>> \in Pairs
    BY PairFacts
  <2>1. /\ s.opp[<<r, d>>] = "open"
        /\ opp' = [s.opp EXCEPT ![<<r, d>>] = "driver_skipped"]
        /\ offer' = s.offer
    BY <1>5 DEF Skip, Commit, s
  <2> QED
    BY <1>f, <2>0, <2>1 DEF Refreshed, Forward
<1>6. ASSUME NEW q \in Polls, NEW d \in Drivers, Discover(q, d) PROVE Forward(opp', offer')
  BY <1>s, <1>6 DEF Discover, Commit, s
<1>7. ASSUME NEW q \in Polls, OpenFound(q) PROVE Forward(opp', offer')
  BY <1>7 DEF OpenFound, Forward
<1>8. ASSUME NEW w \in Sweepers, Sweep(w) PROVE Forward(opp', offer')
  <2>1. \E rides : Refreshed(rides, opp', offer')
    BY <1>8, StatementsRefresh DEF Sweep, Statement, Commit
  <2> QED
    BY <2>1, RefreshForward
<1>9. \/ UNCHANGED <<opp, offer>>
      \/ \E r \in Rides : \/ CancelByRider(r)
                          \/ \E d \in Drivers : \/ Reject(r, d) \/ SelectOffer(r, d)
                                                \/ CancelByDriver(r, d)
                                                \/ Upsert(r, d) \/ Skip(r, d)
      \/ \E q \in Polls : OpenFound(q) \/ \E d \in Drivers : Discover(q, d)
      \/ \E w \in Sweepers : Sweep(w)
  BY DEF Next, RiderStep, TripStep, DriverStep, Housekeeping, ClockStep, PollStep, requestVars,
         Create, Start, Complete, ConfirmCashCollected, AbandonPoll,
         SetOnline, SetOffline, UpsertCurrent, SelectOperation, AbandonSweep, ExpirePresence,
         RideDeadline, OppDeadline, OfferDeadline, LocationAges
<1>10. CASE UNCHANGED <<opp, offer>>
  BY <1>s, <1>10
<1> QED
  BY <1>1, <1>2, <1>3, <1>4, <1>5, <1>6, <1>7, <1>8, <1>9, <1>10

\* The vehicle of an offer is written with the offer, and never again.
LEMMA VehicleStep ==
  ASSUME TypeOK, Next, NEW p \in Pairs, offer[p] # "none"
  PROVE  offerVehicle'[p] = offerVehicle[p]
<1>f. Refreshed(Swept.ride, Swept.opp, Swept.offer)
  BY SweptRefreshes
<1>1. ASSUME NEW r \in Rides, NEW d \in Drivers, Upsert(r, d)
      PROVE  offerVehicle'[p] = offerVehicle[p]
  <2>1. /\ <<r, d>> \in Pairs
        /\ Swept.offer[<<r, d>>] = "none"
        /\ offerVehicle' = [offerVehicle EXCEPT ![<<r, d>>] = sel[d]]
    BY <1>1, PairFacts DEF Upsert
  <2>2. offer[<<r, d>>] = "none"
    BY <1>f, <2>1 DEF Refreshed
  <2> QED
    BY <2>1, <2>2 DEF TypeOK
<1>2. \/ UNCHANGED offerVehicle
      \/ \E r \in Rides, d \in Drivers : Upsert(r, d)
  BY DEF Next, RiderStep, TripStep, DriverStep, Housekeeping, ClockStep, PollStep,
         Create, Reject, SelectOffer, CancelByRider, CancelByDriver, Discover, OpenFound,
         AbandonPoll, Skip, Start, Complete, ConfirmCashCollected,
         SetOnline, SetOffline, UpsertCurrent, SelectOperation,
         Sweep, AbandonSweep, ExpirePresence,
         RideDeadline, OppDeadline, OfferDeadline, LocationAges
<1> QED
  BY <1>1, <1>2

(***************************************************************************)
(* A decided offer or opportunity is never decided again, reopened or      *)
(* replaced, and its vehicle never changes.                                *)
(***************************************************************************)
THEOREM OneShotAlways == Spec => OneShot
<1>1. TypeOK /\ [Next]_vars =>
        [\A p \in Pairs :
           /\ offer[p] \notin {"none", "pending"} => offer'[p] = offer[p]
           /\ offer[p] = "pending" => offer'[p] # "none"
           /\ opp[p] \notin {"none", "open", "offered"} => opp'[p] = opp[p]
           /\ opp[p] = "offered" => opp'[p] \notin {"none", "open"}
           /\ offer[p] # "none" => offerVehicle'[p] = offerVehicle[p]]_vars
  BY StepForward, VehicleStep DEF Forward
<1> QED
  BY <1>1, TypeCorrect, PTL DEF Spec, OneShot

-----------------------------------------------------------------------------
(***************************************************************************)
(* A late heartbeat revives nobody, and only a ready, free driver comes    *)
(* online.                                                                 *)
(***************************************************************************)
THEOREM NoRevivalAlways == Spec => NoRevival
<1> DEFINE Unrevived(d) ==
             /\ (loc[d] = "stale" /\ loc'[d] = "fresh") => presence'[d] # "online"
             /\ (presence[d] # "online" /\ presence'[d] = "online") =>
                  loc[d] = "fresh" /\ loc'[d] = "fresh" /\ ~OnTrip(d)
<1>1. TypeOK /\ [Next]_vars => [\A d \in Drivers : Unrevived(d)]_vars
  <2> SUFFICES ASSUME TypeOK, Next, NEW d \in Drivers PROVE Unrevived(d)
    OBVIOUS
  <2>1. ASSUME NEW locked, presence' = Lapsed(locked), loc' = loc PROVE Unrevived(d)
    BY <2>1 DEF Lapsed, TypeOK
  <2>2. ASSUME NEW e \in Drivers, SetOnline(e) PROVE Unrevived(d)
    BY <2>2 DEF SetOnline, TypeOK
  <2>3. ASSUME NEW e \in Drivers, SetOffline(e) PROVE Unrevived(d)
    BY <2>3 DEF SetOffline, TypeOK
  <2>4. ASSUME NEW e \in Drivers, UpsertCurrent(e) PROVE Unrevived(d)
    BY <2>4 DEF UpsertCurrent, Lapsed, TypeOK
  <2>5. ASSUME NEW e \in Drivers, NEW v \in Vehicles, SelectOperation(e, v) PROVE Unrevived(d)
    BY <2>1, <2>5 DEF SelectOperation
  <2>6. ASSUME NEW locked, ExpirePresence(locked) PROVE Unrevived(d)
    BY <2>1, <2>6 DEF ExpirePresence
  <2>7. ASSUME NEW e \in Drivers, LocationAges(e) PROVE Unrevived(d)
    BY <2>7 DEF LocationAges, TypeOK
  <2>8. \/ UNCHANGED <<presence, loc>>
        \/ \E e \in Drivers : \/ SetOnline(e) \/ SetOffline(e) \/ UpsertCurrent(e)
                              \/ LocationAges(e)
                              \/ \E v \in Vehicles : SelectOperation(e, v)
        \/ \E locked \in SUBSET Drivers : ExpirePresence(locked)
    BY DEF Next, RiderStep, TripStep, DriverStep, Housekeeping, ClockStep, PollStep, driverVars,
           Create, Reject, SelectOffer, CancelByRider, CancelByDriver, Upsert, Discover, OpenFound,
           AbandonPoll, Skip, Start, Complete, ConfirmCashCollected, Sweep, AbandonSweep,
           RideDeadline, OppDeadline, OfferDeadline
  <2>9. UNCHANGED <<presence, loc>> => Unrevived(d)
    OBVIOUS
  <2> HIDE DEF Unrevived
  <2> QED
    BY <2>2, <2>3, <2>4, <2>5, <2>6, <2>7, <2>8, <2>9
<1> QED
  BY <1>1, TypeCorrect, PTL DEF Spec, NoRevival

-----------------------------------------------------------------------------
(***************************************************************************)
(* Offers and the opportunities they answer.  Agrees is                    *)
(* OfferAnswersOpportunity about any tables, those in the middle of a      *)
(* handler included, with what makes it inductive: a vehicle is recorded   *)
(* for exactly the offers that exist.                                      *)
(***************************************************************************)
Agrees(rides, opps, offers, chosen) ==
  /\ rides \in [Rides -> RideStatus]
  /\ opps \in [Pairs -> OppStatus]
  /\ offers \in [Pairs -> OfferStatus]
  /\ \A p \in Pairs :
       /\ offers[p] = "none" <=> chosen[p] = NoVehicle
       /\ offers[p] = "none" <=>
            \/ opps[p] \in {"none", "open", "driver_skipped", "window_expired"}
            \/ opps[p] = "closed" /\ chosen[p] = NoVehicle
       /\ offers[p] = "pending" =>
            \/ opps[p] = "offered"
            \/ opps[p] = "closed" /\ rides[p[1]] = "expired"
       /\ opps[p] = "offered" =>
            \/ offers[p] \in {"pending", "expired"}
            \/ offers[p] = "closed" /\ rides[p[1]] \in Decided
       /\ offers[p] = "rejected" <=> opps[p] = "rider_rejected"
       /\ opps[p] = "offer_expired" => offers[p] = "expired"

\* No pending offer on a ride that was accepted or cancelled.
Unrivalled(rides, offers) ==
  \A p \in Pairs : offers[p] = "pending" => rides[p[1]] \notin {"accepted", "cancelled"}

\* Each statement of Expire keeps offers and opportunities in agreement; the
\* last one closes no opportunity under a pending offer of a taken ride.
LEMMA StatementsAgree ==
  ASSUME NEW rides, NEW opps, NEW offers, Agrees(rides, opps, offers, offerVehicle)
  PROVE  /\ Agrees(rides, opps, ExpireOffers(offers), offerVehicle)
         /\ Agrees(rides, ExpireOffered(opps, offers), offers, offerVehicle)
         /\ Agrees(rides, ExpireWindows(opps), offers, offerVehicle)
         /\ Agrees(ExpireRides(rides), opps, offers, offerVehicle)
         /\ Agrees(rides, opps, CloseOffers(offers, rides), offerVehicle)
         /\ Unrivalled(rides, offers) =>
              Agrees(rides, CloseOpps(opps, rides), offers, offerVehicle)
<1> USE PairFacts DEF Agrees, RideStatus, OppStatus, OfferStatus, Decided
<1>1. Agrees(rides, opps, ExpireOffers(offers), offerVehicle)
  BY DEF ExpireOffers
<1>2. Agrees(rides, ExpireOffered(opps, offers), offers, offerVehicle)
  BY DEF ExpireOffered
<1>3. Agrees(rides, ExpireWindows(opps), offers, offerVehicle)
  BY DEF ExpireWindows
<1>4. Agrees(ExpireRides(rides), opps, offers, offerVehicle)
  BY DEF ExpireRides
<1>5. Agrees(rides, opps, CloseOffers(offers, rides), offerVehicle)
  BY DEF CloseOffers
<1>6. Unrivalled(rides, offers) => Agrees(rides, CloseOpps(opps, rides), offers, offerVehicle)
  BY DEF CloseOpps, Unrivalled
<1> QED
  BY <1>1, <1>2, <1>3, <1>4, <1>5, <1>6

\* So do all six.
LEMMA SweptAgrees ==
  ASSUME Agrees(ride, opp, offer, offerVehicle)
  PROVE  Agrees(Swept.ride, Swept.opp, Swept.offer, offerVehicle)
<1> DEFINE offers == ExpireOffers(offer)
           rides == ExpireRides(ride)
           opps == ExpireWindows(ExpireOffered(opp, offers))
           closed == CloseOffers(offers, rides)
<1>1. Agrees(ride, opp, offers, offerVehicle)
  BY StatementsAgree
<1>2. Agrees(ride, ExpireOffered(opp, offers), offers, offerVehicle)
  BY <1>1, StatementsAgree
<1>3. Agrees(ride, opps, offers, offerVehicle)
  BY <1>2, StatementsAgree
<1>4. Agrees(rides, opps, offers, offerVehicle)
  BY <1>3, StatementsAgree
<1>5. Agrees(rides, opps, closed, offerVehicle)
  BY <1>4, StatementsAgree
<1>6. Unrivalled(rides, closed)
  BY DEF CloseOffers, Unrivalled, Decided
<1>7. Agrees(rides, CloseOpps(opps, rides), closed, offerVehicle)
  BY <1>5, <1>6, StatementsAgree
<1>8. /\ Swept.ride = rides
      /\ Swept.offer = closed
      /\ Swept.opp = CloseOpps(opps, rides)
  BY DEF Swept
<1> QED
  BY <1>7, <1>8

\* A ride that is decided takes what is left of its answers along.
LEMMA DecisionAgrees ==
  ASSUME NEW rides, NEW opps, NEW offers, Agrees(rides, opps, offers, offerVehicle),
         NEW r \in Rides, rides[r] \in {"requested", "accepted"},
         NEW d, NEW to \in {"accepted", "cancelled"},
         d \in Drivers => offers[<<r, d>>] = "pending" /\ opps[<<r, d>>] = "offered"
  PROVE  LET closedOpps == CloseCompetingOpportunities(opps, r, d)
             closedOffers == CloseCompetingOffers(offers, r, d)
         IN  /\ d \notin Drivers =>
                  Agrees([rides EXCEPT ![r] = to], closedOpps, closedOffers, offerVehicle)
             /\ d \in Drivers =>
                  Agrees([rides EXCEPT ![r] = to],
                         [closedOpps EXCEPT ![<<r, d>>] = "accepted"],
                         [closedOffers EXCEPT ![<<r, d>>] = "accepted"], offerVehicle)
<1> DEFINE closedOpps == CloseCompetingOpportunities(opps, r, d)
           closedOffers == CloseCompetingOffers(offers, r, d)
<1> USE PairFacts DEF Agrees, RideStatus, OppStatus, OfferStatus, Decided,
                      CloseCompetingOpportunities, CloseCompetingOffers
<1>1. ASSUME d \notin Drivers
      PROVE  Agrees([rides EXCEPT ![r] = to], closedOpps, closedOffers, offerVehicle)
  BY <1>1
<1>2. ASSUME d \in Drivers
      PROVE  Agrees([rides EXCEPT ![r] = to],
                    [closedOpps EXCEPT ![<<r, d>>] = "accepted"],
                    [closedOffers EXCEPT ![<<r, d>>] = "accepted"], offerVehicle)
  BY <1>2
<1> QED
  BY <1>1, <1>2

\* Every step keeps offers and opportunities in agreement.
LEMMA AgreementStep ==
  ASSUME AssignmentInv, Agrees(ride, opp, offer, offerVehicle), Next
  PROVE  Agrees(ride', opp', offer', offerVehicle')
<1> DEFINE s == Swept
           Kept == Agrees(ride', opp', offer', offerVehicle')
<1>f. Agrees(s.ride, s.opp, s.offer, offerVehicle)
  BY SweptAgrees
<1>t. TypeOK /\ TakenRideHasNoRivals
  BY DEF AssignmentInv
<1>u. Unrivalled(ride, offer)
  BY <1>t DEF Unrivalled, TakenRideHasNoRivals
<1> HIDE DEF s
<1>1. ASSUME NEW r \in Rides, Create(r) PROVE Kept
  BY <1>1, <1>t, PairFacts DEF Create, Agrees, RideStatus, Decided
<1>2. ASSUME NEW r \in Rides, NEW d \in Drivers, Reject(r, d) PROVE Kept
  <2>1. CASE /\ s.ride[r] = "requested" /\ s.offer[<<r, d>>] = "pending"
             /\ ride' = s.ride
             /\ opp' = [s.opp EXCEPT ![<<r, d>>] =
                          IF s.opp[<<r, d>>] = "offered" THEN "rider_rejected" ELSE s.opp[<<r, d>>]]
             /\ offer' = [s.offer EXCEPT ![<<r, d>>] = "rejected"]
             /\ offerVehicle' = offerVehicle
    <3>1. <<r, d>> \in Pairs /\ <<r, d>>[1] = r
      BY PairFacts
    <3>2. s.opp[<<r, d>>] = "offered"
      BY <1>f, <2>1, <3>1 DEF Agrees
    <3>3. opp' = [s.opp EXCEPT ![<<r, d>>] = "rider_rejected"]
      BY <2>1, <3>2
    <3> QED
      BY <1>f, <2>1, <3>1, <3>2, <3>3 DEF Agrees, OppStatus, OfferStatus
  <2>2. CASE UNCHANGED offerVehicle /\ ride' = s.ride /\ opp' = s.opp /\ offer' = s.offer
    BY <1>f, <2>2
  <2> QED
    BY <1>2, <2>1, <2>2 DEF Reject, Commit, StillOpen, s
<1>3. ASSUME NEW r \in Rides, NEW d \in Drivers, SelectOffer(r, d) PROVE Kept
  <2>1. /\ s.ride[r] = "requested"
        /\ s.offer[<<r, d>>] = "pending" /\ s.opp[<<r, d>>] = "offered"
        /\ ride' = [s.ride EXCEPT ![r] = "accepted"]
        /\ opp' = [CloseCompetingOpportunities(s.opp, r, d) EXCEPT ![<<r, d>>] = "accepted"]
        /\ offer' = [CloseCompetingOffers(s.offer, r, d) EXCEPT ![<<r, d>>] = "accepted"]
        /\ offerVehicle' = offerVehicle
    BY <1>3 DEF SelectOffer, Assignable, Commit, StillOpen, s
  <2> QED
    BY <1>f, <2>1, DecisionAgrees
<1>4. ASSUME NEW r \in Rides, CancelByRider(r) \/ \E d \in Drivers : CancelByDriver(r, d)
      PROVE  Kept
  <2>1. \/ ride' = s.ride /\ opp' = s.opp /\ offer' = s.offer
        \/ /\ s.ride[r] \in {"requested", "accepted"}
           /\ ride' = [s.ride EXCEPT ![r] = "cancelled"]
           /\ opp' = CloseCompetingOpportunities(s.opp, r, NoDriver)
           /\ offer' = CloseCompetingOffers(s.offer, r, NoDriver)
    BY <1>4 DEF CancelByRider, CancelByDriver, CancelLocked, AlreadyCancelled, Commit, s
  <2>2. offerVehicle' = offerVehicle /\ NoDriver \notin Drivers
    BY <1>4, MarketplaceAssumption DEF CancelByRider, CancelByDriver, MarketplaceAssumption
  <2>3. s.ride[r] \in {"requested", "accepted"} =>
          Agrees([s.ride EXCEPT ![r] = "cancelled"],
                 CloseCompetingOpportunities(s.opp, r, NoDriver),
                 CloseCompetingOffers(s.offer, r, NoDriver), offerVehicle)
    BY <1>f, <2>2, DecisionAgrees
  <2> QED
    BY <1>f, <2>1, <2>2, <2>3
<1>5. ASSUME NEW r \in Rides, NEW d \in Drivers, Upsert(r, d) PROVE Kept
  <2>1. /\ s.opp[<<r, d>>] = "open" /\ s.offer[<<r, d>>] = "none"
        /\ ride' = s.ride
        /\ opp' = [s.opp EXCEPT ![<<r, d>>] = "offered"]
        /\ offer' = [s.offer EXCEPT ![<<r, d>>] = "pending"]
        /\ offerVehicle' = [offerVehicle EXCEPT ![<<r, d>>] = sel[d]]
        /\ sel[d] # NoVehicle
    BY <1>5 DEF Upsert, Commit, Eligible, Selected, s
  <2> QED
    BY <1>f, <1>t, <2>1, PairFacts DEF Agrees, OppStatus, OfferStatus, TypeOK
<1>6. ASSUME NEW r \in Rides, NEW d \in Drivers, Skip(r, d) PROVE Kept
  <2>1. /\ s.opp[<<r, d>>] = "open"
        /\ ride' = s.ride /\ offer' = s.offer /\ offerVehicle' = offerVehicle
        /\ opp' = [s.opp EXCEPT ![<<r, d>>] = "driver_skipped"]
    BY <1>6 DEF Skip, Commit, s
  <2> QED
    BY <1>f, <2>1, PairFacts DEF Agrees, OppStatus
<1>7. ASSUME NEW q \in Polls, NEW d \in Drivers, Discover(q, d) PROVE Kept
  BY <1>f, <1>7 DEF Discover, Commit, s
<1>8. ASSUME NEW q \in Polls, OpenFound(q) PROVE Kept
  BY <1>8 DEF OpenFound, Agrees, OppStatus
<1>9. ASSUME NEW w \in Sweepers, Sweep(w) PROVE Kept
  BY <1>9, <1>u, StatementsAgree DEF Sweep, Statement, Commit
<1>10. \/ UNCHANGED <<ride, opp, offer, offerVehicle>>
       \/ \E r \in Rides : \/ Create(r) \/ CancelByRider(r)
                           \/ \E d \in Drivers : \/ Reject(r, d) \/ SelectOffer(r, d)
                                                 \/ CancelByDriver(r, d)
                                                 \/ Upsert(r, d) \/ Skip(r, d)
       \/ \E q \in Polls : OpenFound(q) \/ \E d \in Drivers : Discover(q, d)
       \/ \E w \in Sweepers : Sweep(w)
  BY DEF Next, RiderStep, TripStep, DriverStep, Housekeeping, ClockStep, PollStep, requestVars,
         Start, Complete, ConfirmCashCollected, AbandonPoll,
         SetOnline, SetOffline, UpsertCurrent, SelectOperation, AbandonSweep, ExpirePresence,
         RideDeadline, OppDeadline, OfferDeadline, LocationAges
<1>11. UNCHANGED <<ride, opp, offer, offerVehicle>> => Kept
  BY DEF Agrees
<1> QED
  BY <1>1, <1>2, <1>3, <1>4, <1>5, <1>6, <1>7, <1>8, <1>9, <1>10, <1>11

(***************************************************************************)
(* An offer and the opportunity it answers agree, up to what sweeps that   *)
(* stop half way leave behind.                                             *)
(***************************************************************************)
THEOREM OfferAnswersOpportunityAlways == Spec => []OfferAnswersOpportunity
<1> DEFINE Agreed == Agrees(ride, opp, offer, offerVehicle)
<1>1. Init => Agreed
  BY PairFacts DEF Init, Agrees, RideStatus, OppStatus, OfferStatus
<1>2. AssignmentInv /\ Agreed /\ [Next]_vars => Agreed'
  <2>1. ASSUME Agreed, UNCHANGED vars PROVE Agreed'
    BY <2>1 DEF Agrees, vars, requestVars
  <2> QED
    BY <2>1, AgreementStep
<1>3. Agreed => OfferAnswersOpportunity
  BY DEF Agrees, OfferAnswersOpportunity
<1> QED
  BY <1>1, <1>2, <1>3, AssignmentInductive, PTL DEF Spec

-----------------------------------------------------------------------------
(***************************************************************************)
(* The feed of a driver, when polls come one at a time: what a driver sees *)
(* and what a poll is about to show never exceed the limit together.       *)
(***************************************************************************)
Shown(d) == {r \in Rides : opp[<<r, d>>] = "open" /\ <<r, d>> \notin oppDue}
Coming(d) == {r \in Rides : \E q \in Polls : <<r, d>> \in found[q]}

FeedInv == \A d \in Drivers : Cardinality(Shown(d) \cup Coming(d)) <= FeedLimit

\* Rides that leave the feed make no trouble.
LEMMA FeedShrinks ==
  ASSUME IsFiniteSet(Rides), FeedInv,
         \A d \in Drivers : (Shown(d) \cup Coming(d))' \subseteq Shown(d) \cup Coming(d)
  PROVE  FeedInv'
<1> SUFFICES ASSUME NEW d \in Drivers PROVE Cardinality(Shown(d) \cup Coming(d))' <= FeedLimit
  BY DEF FeedInv
<1> DEFINE old == Shown(d) \cup Coming(d)
<1>1. IsFiniteSet(old) /\ Cardinality(old) \in Nat
  <2>1. old \subseteq Rides
    BY DEF Shown, Coming
  <2> HIDE DEF old
  <2> QED
    BY <2>1, FS_Subset, FS_CardinalityType
<1>2. old' \subseteq old
  OBVIOUS
<1>3. Cardinality(old) <= FeedLimit
  BY DEF FeedInv
<1> HIDE DEF old
<1>4. Cardinality(old') <= Cardinality(old) /\ Cardinality(old') \in Nat
  BY <1>1, <1>2, FS_Subset, FS_CardinalityType
<1>5. Cardinality(old') <= FeedLimit
  BY <1>1, <1>3, <1>4, MarketplaceAssumption DEF MarketplaceAssumption
<1> QED
  BY <1>5 DEF old

\* A poll fills the feed at most up to the limit.
LEMMA RoomFits ==
  ASSUME IsFiniteSet(Rides), NEW shown \in SUBSET Rides, NEW new \in SUBSET Rides,
         NEW picked \in SUBSET new,
         Cardinality(shown) <= FeedLimit,
         Cardinality(picked) = IF Cardinality(new) < Room(shown)
                               THEN Cardinality(new) ELSE Room(shown)
  PROVE  Cardinality(shown \cup picked) <= FeedLimit
<1>1. /\ IsFiniteSet(shown) /\ IsFiniteSet(new) /\ IsFiniteSet(picked)
      /\ IsFiniteSet(shown \cap picked)
  BY FS_Subset
<1>2. /\ Cardinality(shown) \in Nat /\ Cardinality(new) \in Nat /\ Cardinality(picked) \in Nat
      /\ Cardinality(shown \cap picked) \in Nat
  BY <1>1, FS_CardinalityType
<1>3. Cardinality(shown \cup picked)
        = Cardinality(shown) + Cardinality(picked) - Cardinality(shown \cap picked)
  BY <1>1, FS_Union
<1>4. FeedLimit \in Nat
  BY MarketplaceAssumption DEF MarketplaceAssumption
<1>5. Cardinality(picked) <= Room(shown)
  BY <1>2, <1>4 DEF Room
<1>6. Cardinality(shown) + Room(shown) <= FeedLimit
  BY <1>2, <1>4 DEF Room
<1> QED
  BY <1>2, <1>3, <1>4, <1>5, <1>6 DEF Room

\* What the driver of a poll sees when it commits is what it counted.
LEMMA PollKeeps ==
  ASSUME TypeOK, FeedInv, IsFiniteSet(Rides), \A q1, q2 \in Polls : q1 = q2,
         NEW q \in Polls, NEW e \in Drivers, Discover(q, e)
  PROVE  FeedInv'
<1> DEFINE s == Swept
           shown == {r \in Rides : s.opp[<<r, e>>] = "open" /\ <<r, e>> \notin oppDue}
<1>f. Refreshed(s.ride, s.opp, s.offer)
  BY SweptRefreshes
<1>1. PICK picked \in SUBSET Candidates(s, e) :
        /\ Cardinality(picked) = IF Cardinality(Candidates(s, e)) < Room(shown)
                                 THEN Cardinality(Candidates(s, e)) ELSE Room(shown)
        /\ found' = [found EXCEPT ![q] = picked \X {e}]
  BY DEF Discover
<1>2. found[q] = {} /\ opp' = s.opp /\ oppDue' = {p \in oppDue : s.opp[p] = "open"}
  BY DEF Discover, Commit
<1> HIDE DEF s
<1>3. \A d \in Drivers : Shown(d)' = {r \in Rides : s.opp[<<r, d>>] = "open" /\ <<r, d>> \notin oppDue}
  BY <1>2 DEF Shown
<1>4. \A d \in Drivers : Shown(d)' \subseteq Shown(d)
  BY <1>f, <1>3, PairFacts DEF Shown, Refreshed
<1>5. \A d \in Drivers : Coming(d) = {}
  BY <1>2 DEF Coming
<1>6. \A d \in Drivers : d # e => Coming(d)' = {}
  BY <1>1, <1>2 DEF Coming, TypeOK
<1>7. Coming(e)' = picked
  <2>1. picked \subseteq Rides
    BY <1>1 DEF Candidates
  <2>2. found'[q] = picked \X {e}
    BY <1>1 DEF TypeOK
  <2> QED
    BY <2>1, <2>2 DEF Coming
<1> SUFFICES ASSUME NEW d \in Drivers PROVE Cardinality(Shown(d)' \cup Coming(d)') <= FeedLimit
  BY DEF FeedInv
<1>8. Cardinality(Shown(d)') <= FeedLimit
  <2>1. IsFiniteSet(Shown(d)) /\ Cardinality(Shown(d)) <= FeedLimit
    <3>1. Shown(d) \cup Coming(d) = Shown(d) /\ Shown(d) \subseteq Rides
      BY <1>5 DEF Shown
    <3> QED
      BY <3>1, FS_Subset DEF FeedInv
  <2>2. /\ Cardinality(Shown(d)') <= Cardinality(Shown(d))
        /\ Cardinality(Shown(d)) \in Nat /\ Cardinality(Shown(d)') \in Nat
    BY <1>4, <2>1, FS_Subset, FS_CardinalityType
  <2> QED
    BY <2>1, <2>2, MarketplaceAssumption DEF MarketplaceAssumption
<1>9. CASE d # e
  <2>1. Shown(d)' \cup Coming(d)' = Shown(d)'
    BY <1>6, <1>9
  <2> QED
    BY <1>8, <2>1
<1>10. CASE d = e
  <2>1. shown = Shown(e)'
    BY <1>3
  <2>2. shown \subseteq Rides /\ Candidates(s, e) \subseteq Rides
    BY DEF Candidates
  <2> HIDE DEF shown
  <2>3. Cardinality(shown \cup picked) <= FeedLimit
    BY <1>1, <1>8, <1>10, <2>1, <2>2, RoomFits
  <2> QED
    BY <1>7, <1>10, <2>1, <2>3
<1> QED
  BY <1>9, <1>10

\* Inserting what was picked moves it from one set to the other.
LEMMA InsertKeepsFeed ==
  ASSUME TypeOK, FeedInv, IsFiniteSet(Rides), NEW q \in Polls, OpenFound(q)
  PROVE  FeedInv'
<1>1. /\ \A p \in Pairs : opp'[p] = "open" => opp[p] = "open" \/ p \in found[q]
      /\ oppDue' = oppDue
      /\ \A q1 \in Polls : found'[q1] \subseteq found[q1]
  BY DEF OpenFound, TypeOK
<1>2. \A d \in Drivers : (Shown(d) \cup Coming(d))' \subseteq Shown(d) \cup Coming(d)
  BY <1>1, PairFacts DEF Shown, Coming
<1> QED
  BY <1>2, FeedShrinks

\* Every other step only takes opportunities and picks away.
LEMMA FeedStep ==
  ASSUME TypeOK, FeedInv, IsFiniteSet(Rides), \A q1, q2 \in Polls : q1 = q2, [Next]_vars
  PROVE  FeedInv'
<1> DEFINE Taken == /\ \A p \in Pairs : opp'[p] = "open" =>
                          opp[p] = "open" /\ (p \in oppDue => p \in oppDue')
                    /\ \A q \in Polls : found'[q] \subseteq found[q]
<1>1. Taken => FeedInv'
  <2> SUFFICES ASSUME Taken PROVE FeedInv'
    OBVIOUS
  <2>1. \A d \in Drivers : (Shown(d) \cup Coming(d))' \subseteq Shown(d) \cup Coming(d)
    BY PairFacts DEF Shown, Coming
  <2> QED
    BY <2>1, FeedShrinks
<1>2. ASSUME NEW rides, NEW opps, NEW offers, Commit(rides, opps, offers), found' = found,
             \A p \in Pairs : opps[p] = "open" => opp[p] = "open"
      PROVE  Taken
  BY <1>2 DEF Commit
<1>3. ASSUME NEW rides, NEW opps, NEW offers, Refreshed(rides, opps, offers)
      PROVE  \A p \in Pairs : opps[p] = "open" => opp[p] = "open"
  BY <1>3 DEF Refreshed
<1>s. \A p \in Pairs : Swept.opp[p] = "open" => opp[p] = "open"
  BY <1>3, SweptRefreshes
<1>d. DOMAIN Swept.opp = Pairs
  BY SweptRefreshes DEF Refreshed
<1>4. ASSUME NEW r \in Rides, NEW d \in Drivers,
             Reject(r, d) \/ SelectOffer(r, d) \/ Upsert(r, d) \/ Skip(r, d)
      PROVE  Taken
  <2>1. PICK rides, opps, offers :
          /\ Commit(rides, opps, offers)
          /\ \A p \in Pairs : opps[p] = "open" => Swept.opp[p] = "open"
    <3>0. <<r, d>> \in Pairs
      BY PairFacts
    <3>1. CASE Reject(r, d)
      BY <1>d, <3>0, <3>1 DEF Reject
    <3>2. CASE SelectOffer(r, d)
      <4> DEFINE closed == [CloseCompetingOpportunities(Swept.opp, r, d)
                              EXCEPT ![<<r, d>>] = "accepted"]
      <4>1. \E rides, offers : Commit(rides, closed, offers)
        BY <3>2 DEF SelectOffer
      <4>2. \A p \in Pairs : closed[p] = "open" => Swept.opp[p] = "open"
        BY <3>0 DEF CloseCompetingOpportunities
      <4> HIDE DEF closed
      <4> QED
        BY <4>1, <4>2
    <3>3. CASE Upsert(r, d)
      BY <1>d, <3>0, <3>3 DEF Upsert
    <3>4. CASE Skip(r, d)
      BY <1>d, <3>0, <3>4 DEF Skip
    <3> QED
      BY <1>4, <3>1, <3>2, <3>3, <3>4
  <2>2. found' = found
    BY <1>4 DEF Reject, SelectOffer, Upsert, Skip, processVars
  <2> QED
    BY <1>2, <1>s, <2>1, <2>2
<1>5. ASSUME NEW r \in Rides, CancelByRider(r) \/ \E d \in Drivers : CancelByDriver(r, d)
      PROVE  Taken
  <2>1. PICK rides, opps, offers :
          /\ Commit(rides, opps, offers)
          /\ opps = Swept.opp \/ opps = CloseCompetingOpportunities(Swept.opp, r, NoDriver)
    BY <1>5 DEF CancelByRider, CancelByDriver, CancelLocked, AlreadyCancelled
  <2>2. \A p \in Pairs : opps[p] = "open" => opp[p] = "open"
    BY <1>s, <2>1 DEF CloseCompetingOpportunities
  <2>3. found' = found
    BY <1>5 DEF CancelByRider, CancelByDriver, processVars
  <2> QED
    BY <1>2, <2>1, <2>2, <2>3
<1>6. ASSUME NEW w \in Sweepers, Sweep(w) PROVE Taken
  <2>1. \E rides, opps, offers : Commit(rides, opps, offers) /\ Refreshed(rides, opps, offers)
    BY <1>6, StatementsRefresh DEF Sweep, Statement
  <2>2. found' = found
    BY <1>6 DEF Sweep
  <2> QED
    BY <1>2, <1>3, <2>1, <2>2
<1>7. ASSUME NEW q \in Polls, AbandonPoll(q) PROVE Taken
  BY <1>7 DEF AbandonPoll, requestVars, TypeOK
<1>8. ASSUME NEW p \in Pairs, OppDeadline(p) PROVE Taken
  BY <1>8 DEF OppDeadline, processVars
<1>9. \/ UNCHANGED <<opp, oppDue, found>>
      \/ \E r \in Rides : \/ CancelByRider(r)
                          \/ \E d \in Drivers : \/ Reject(r, d) \/ SelectOffer(r, d)
                                                \/ CancelByDriver(r, d)
                                                \/ Upsert(r, d) \/ Skip(r, d)
      \/ \E q \in Polls : OpenFound(q) \/ AbandonPoll(q) \/ \E d \in Drivers : Discover(q, d)
      \/ \E w \in Sweepers : Sweep(w)
      \/ \E p \in Pairs : OppDeadline(p)
  BY DEF Next, vars, RiderStep, TripStep, DriverStep, Housekeeping, ClockStep, PollStep, requestVars,
         processVars, Create, Start, Complete, ConfirmCashCollected,
         SetOnline, SetOffline, UpsertCurrent, SelectOperation, AbandonSweep, ExpirePresence,
         RideDeadline, OfferDeadline, LocationAges
<1>10. UNCHANGED <<opp, oppDue, found>> => Taken
  OBVIOUS
<1> HIDE DEF Taken
<1> QED
  BY <1>1, <1>4, <1>5, <1>6, <1>7, <1>8, <1>9, <1>10, PollKeeps, InsertKeepsFeed

(***************************************************************************)
(* The feed of a driver never exceeds DiscoveryLimit, for any number of    *)
(* rides and drivers, if polls come one at a time.                         *)
(***************************************************************************)
THEOREM FeedBoundedAlways ==
  ASSUME IsFiniteSet(Rides), \A q1, q2 \in Polls : q1 = q2
  PROVE  Spec => []FeedBounded
<1>1. Init => FeedInv
  <2> SUFFICES ASSUME Init, NEW d \in Drivers
               PROVE  Cardinality(Shown(d) \cup Coming(d)) <= FeedLimit
    BY DEF FeedInv
  <2>1. Shown(d) \cup Coming(d) = {}
    BY PairFacts DEF Init, Shown, Coming
  <2> QED
    BY <2>1, FS_EmptySet, MarketplaceAssumption DEF MarketplaceAssumption
<1>2. TypeOK /\ FeedInv /\ [Next]_vars => FeedInv'
  BY FeedStep
<1>3. FeedInv => FeedBounded
  <2> SUFFICES ASSUME FeedInv, NEW d \in Drivers PROVE Cardinality(Shown(d)) <= FeedLimit
    BY DEF FeedBounded, Shown
  <2> DEFINE all == Shown(d) \cup Coming(d)
  <2>1. all \subseteq Rides /\ Shown(d) \subseteq all /\ Cardinality(all) <= FeedLimit
    BY DEF Shown, Coming, FeedInv
  <2> HIDE DEF all
  <2>2. /\ Cardinality(Shown(d)) <= Cardinality(all)
        /\ Cardinality(Shown(d)) \in Nat /\ Cardinality(all) \in Nat
    BY <2>1, FS_Subset, FS_CardinalityType
  <2> QED
    BY <2>1, <2>2, MarketplaceAssumption DEF MarketplaceAssumption
<1> QED
  BY <1>1, <1>2, <1>3, TypeCorrect, PTL DEF Spec

-----------------------------------------------------------------------------
(***************************************************************************)
(* The marketplace implements RideContract: every transaction, sweep       *)
(* statement and tick of the clock is a step of the contract, or none.     *)
(***************************************************************************)
\* A ride that was not accepted or cancelled has no trip.
LEMMA RequestedHasNoTrip ==
  ASSUME AssignmentInv, NEW r \in Rides
  PROVE  ride[r] \in {"none", "requested", "expired"} => trip[r] = "none"
BY DEF AssignmentInv, RequestMatchesTrip, TypeOK, TripStatus

\* The rides that expire in a step about ride r.
Lapsing(r) == {q \in Rides \ {r} : ride[q] = "requested" /\ ride'[q] = "expired"}

\* Apart from ride r, all the step does is to let rides lapse.
OthersLapse(r) ==
  \A q \in Rides \ {r} :
    /\ \/ ride'[q] = ride[q]
       \/ ride[q] = "requested" /\ ride'[q] = "expired"
    /\ trip'[q] = trip[q]
    /\ q \in collected' <=> q \in collected

\* Only rides that are open lapse.
LEMMA LapsingIsOpen ==
  ASSUME AssignmentInv, NEW r
  PROVE  Lapsing(r) \in SUBSET Contract!Open
<1> SUFFICES ASSUME NEW q \in Lapsing(r) PROVE PhaseOf(q) = "open"
  BY DEF Lapsing, Contract!Open
<1> QED
  BY RequestedHasNoTrip DEF Lapsing, PhaseOf

\* The other rides of a step lapse or stay in their phase.
LEMMA OthersImplement ==
  ASSUME AssignmentInv, NEW r, OthersLapse(r)
  PROVE  \A q \in Rides \ {r} :
           PhaseOf(q)' = IF q \in Lapsing(r) THEN "expired" ELSE PhaseOf(q)
<1> SUFFICES ASSUME NEW q \in Rides \ {r}
             PROVE  PhaseOf(q)' = IF q \in Lapsing(r) THEN "expired" ELSE PhaseOf(q)
  OBVIOUS
<1>1. CASE q \in Lapsing(r)
  <2>1. ride'[q] = "expired" /\ trip'[q] = "none"
    BY <1>1, RequestedHasNoTrip DEF Lapsing, OthersLapse
  <2> QED
    BY <1>1, <2>1 DEF PhaseOf
<1>2. CASE q \notin Lapsing(r)
  <2>1. ride'[q] = ride[q] /\ trip'[q] = trip[q] /\ (q \in collected') = (q \in collected)
    BY <1>2 DEF Lapsing, OthersLapse
  <2> QED
    BY <1>2, <2>1 DEF PhaseOf
<1> QED
  BY <1>1, <1>2

\* A step that moves ride r to a phase does what MoveTo says.
LEMMA MoveImplements ==
  ASSUME AssignmentInv, NEW r \in Rides, OthersLapse(r), NEW ph, PhaseOf(r)' = ph
  PROVE  Contract!MoveTo(r, ph, Lapsing(r))
BY OthersImplement DEF Contract!MoveTo

\* A step that only expires rides is a lapse of the contract.
LEMMA RefreshImplements ==
  ASSUME AssignmentInv,
         \A r \in Rides : \/ ride'[r] = ride[r]
                          \/ ride[r] = "requested" /\ ride'[r] = "expired",
         UNCHANGED <<trip, tripDriver, collected>>
  PROVE  Contract!Next
<1> DEFINE none == CHOOSE x : x \notin Rides
<1>1. none \notin Rides
  BY NoSetContainsEverything
<1>2. OthersLapse(none)
  BY <1>1 DEF OthersLapse
<1>3. Contract!Lapse(Lapsing(none))
  BY <1>1, <1>2, OthersImplement DEF Contract!Lapse
<1> QED
  BY <1>3, LapsingIsOpen DEF Contract!Next

\* A step that moves no row of a ride or trip is no step of the contract.
LEMMA StutterImplements ==
  ASSUME UNCHANGED <<ride, trip, tripDriver, collected>>
  PROVE  UNCHANGED Contract!vars
BY DEF Contract!vars, PhaseOf

\* A cancellation that changes the ride is a cancellation of the contract.
LEMMA CancelImplements ==
  ASSUME AssignmentInv, NEW r \in Rides, NEW actor,
         Swept.ride[r] \in {"requested", "accepted"},
         trip[r] \in Active \cup {"none"},
         CancelLocked(Swept, r, actor),
         UNCHANGED <<tripDriver, collected>>
  PROVE  Contract!Next
<1>t. TypeOK
  BY DEF AssignmentInv
<1>f. Refreshed(Swept.ride, Swept.opp, Swept.offer)
  BY <1>t, SweptRefreshes
<1>1. OthersLapse(r)
  BY <1>t, <1>f DEF CancelLocked, Commit, OthersLapse, Refreshed, TypeOK
<1>2. ride[r] = Swept.ride[r] /\ ride'[r] = "cancelled" /\ trip'[r] \in {"none", "cancelled"}
  BY <1>t, <1>f DEF CancelLocked, Commit, Refreshed, TypeOK, Active
<1>3. PhaseOf(r) \in {"open", "assigned", "riding"}
  <2>1. CASE ride[r] = "requested"
    BY <2>1, RequestedHasNoTrip DEF PhaseOf
  <2>2. CASE ride[r] = "accepted"
    <3>1. trip[r] \in {"assigned", "in_progress"}
      BY <2>2 DEF AssignmentInv, RequestMatchesTrip, Active
    <3> QED
      BY <2>2, <3>1 DEF PhaseOf
  <2> QED
    BY <1>2, <2>1, <2>2
<1>4. PhaseOf(r)' = "cancelled"
  BY <1>2 DEF PhaseOf
<1>5. Contract!Cancel(r, Lapsing(r))
  BY <1>1, <1>3, <1>4, MoveImplements DEF Contract!Cancel
<1> QED
  BY <1>5, LapsingIsOpen DEF Contract!Next, Lapsing

\* SelectOffer is an assignment of the contract.
LEMMA SelectImplements ==
  ASSUME AssignmentInv, NEW r \in Rides, NEW d \in Drivers, SelectOffer(r, d)
  PROVE  Contract!Next
<1>t. TypeOK
  BY DEF AssignmentInv
<1>f. Refreshed(Swept.ride, Swept.opp, Swept.offer)
  BY <1>t, SweptRefreshes
<1>1. OthersLapse(r)
  BY <1>t, <1>f DEF SelectOffer, Commit, OthersLapse, Refreshed, TypeOK
<1>2. /\ ride[r] = "requested" /\ trip[r] = "none"
      /\ ride'[r] = "accepted" /\ trip'[r] = "assigned"
      /\ tripDriver' = [tripDriver EXCEPT ![r] = d]
  BY <1>t, <1>f DEF SelectOffer, Assignable, StillOpen, Commit, Refreshed, TypeOK
<1>3. PhaseOf(r) = "open" /\ PhaseOf(r)' = "assigned"
  BY <1>2 DEF PhaseOf
<1>4. ~Contract!Busy(d)
  <2> SUFFICES ASSUME NEW q \in Rides, tripDriver[q] = d, PhaseOf(q) \in {"assigned", "riding"}
               PROVE  FALSE
    BY DEF Contract!Busy, Contract!UnderWay
  <2>1. trip[q] \in Active
    BY DEF PhaseOf, Active
  <2>2. ~OnTrip(d)
    BY DEF SelectOffer, Assignable, Eligible
  <2> QED
    BY <2>1, <2>2 DEF OnTrip
<1>5. Contract!Assign(r, d, Lapsing(r))
  BY <1>1, <1>2, <1>3, <1>4, MoveImplements DEF Contract!Assign
<1> QED
  BY <1>5, LapsingIsOpen DEF Contract!Next, Lapsing

\* Start, Complete and the first ConfirmCashCollected are steps of the contract.
LEMMA TripImplements ==
  ASSUME AssignmentInv, NEW r \in Rides, TripStep(r)
  PROVE  [Contract!Next]_Contract!vars
<1>t. TypeOK
  BY DEF AssignmentInv
<1> USE DEF requestVars
<1>1. OthersLapse(r)
  BY <1>t DEF TripStep, Start, Complete, ConfirmCashCollected, OthersLapse, TypeOK
<1>2. CASE Start(r)
  <2>1. ride[r] = "accepted" /\ trip[r] = "assigned" /\ ride'[r] = "accepted"
        /\ trip'[r] = "in_progress"
    BY <1>2, <1>t DEF Start, AssignmentInv, RequestMatchesTrip, TypeOK
  <2>2. PhaseOf(r) = "assigned" /\ PhaseOf(r)' = "riding"
    BY <2>1 DEF PhaseOf
  <2>3. Contract!Start(r, Lapsing(r))
    BY <1>1, <1>2, <2>2, MoveImplements DEF Contract!Start, Start
  <2> QED
    BY <2>3, LapsingIsOpen DEF Contract!Next, Lapsing
<1>3. CASE Complete(r)
  <2>1. ride[r] = "accepted" /\ trip[r] = "in_progress" /\ ride'[r] = "accepted"
        /\ trip'[r] = "completed" /\ r \notin collected /\ r \notin collected'
    BY <1>3, <1>t DEF Complete, AssignmentInv, RequestMatchesTrip, TypeOK
  <2>2. PhaseOf(r) = "riding" /\ PhaseOf(r)' = "completed"
    BY <2>1 DEF PhaseOf
  <2>3. Contract!Complete(r, Lapsing(r))
    BY <1>1, <1>3, <2>2, MoveImplements DEF Contract!Complete, Complete
  <2> QED
    BY <2>3, LapsingIsOpen DEF Contract!Next, Lapsing
<1>4. CASE ConfirmCashCollected(r) /\ r \in collected
  <2>1. UNCHANGED <<ride, trip, tripDriver, collected>>
    BY <1>4 DEF ConfirmCashCollected
  <2> QED
    BY <2>1, StutterImplements
<1>5. CASE ConfirmCashCollected(r) /\ r \notin collected
  <2>1. ride[r] = "accepted" /\ trip[r] = "completed" /\ ride'[r] = "accepted"
        /\ trip'[r] = "completed" /\ r \notin collected /\ r \in collected'
    BY <1>5, <1>t DEF ConfirmCashCollected, AssignmentInv, RequestMatchesTrip, TypeOK
  <2>2. PhaseOf(r) = "completed" /\ PhaseOf(r)' = "settled"
    BY <2>1 DEF PhaseOf
  <2>3. Contract!CollectCash(r, Lapsing(r))
    BY <1>1, <1>5, <2>2, MoveImplements DEF Contract!CollectCash, ConfirmCashCollected
  <2> QED
    BY <2>3, LapsingIsOpen DEF Contract!Next, Lapsing
<1> QED
  BY <1>2, <1>3, <1>4, <1>5 DEF TripStep

\* A new request is a request of the contract.
LEMMA CreateImplements ==
  ASSUME AssignmentInv, NEW r \in Rides, Create(r)
  PROVE  Contract!Next
<1>t. TypeOK
  BY DEF AssignmentInv
<1>1. OthersLapse(r)
  BY <1>t DEF Create, tripVars, OthersLapse, TypeOK
<1>2. ride[r] = "none" /\ trip[r] = "none" /\ ride'[r] = "requested" /\ trip'[r] = "none"
  BY <1>t, RequestedHasNoTrip DEF Create, tripVars, TypeOK
<1>3. PhaseOf(r) = "none" /\ PhaseOf(r)' = "open"
  BY <1>2 DEF PhaseOf
<1>4. Contract!Request(r, Lapsing(r))
  BY <1>1, <1>3, MoveImplements DEF Contract!Request, Create, tripVars
<1> QED
  BY <1>4, LapsingIsOpen DEF Contract!Next, Lapsing

\* Every step is a step of the contract or none.
LEMMA StepImplements ==
  ASSUME AssignmentInv, [Next]_vars
  PROVE  [Contract!Next]_Contract!vars
<1>t. TypeOK
  BY DEF AssignmentInv
<1>f. Refreshed(Swept.ride, Swept.opp, Swept.offer)
  BY <1>t, SweptRefreshes
<1> USE DEF tripVars, requestVars
<1>s. ASSUME ride' = Swept.ride, UNCHANGED <<trip, tripDriver, collected>>
      PROVE  Contract!Next
  <2>1. \A r \in Rides :
          \/ ride'[r] = ride[r]
          \/ ride[r] = "requested" /\ ride'[r] = "expired"
    BY <1>s, <1>f DEF Refreshed
  <2> QED
    BY <1>s, <2>1, RefreshImplements
<1>1. ASSUME NEW r \in Rides, NEW d \in Drivers,
             Reject(r, d) \/ Upsert(r, d) \/ Skip(r, d)
      PROVE  Contract!Next
  BY <1>1, <1>s DEF Reject, Upsert, Skip, Commit
<1>2. ASSUME NEW q \in Polls, NEW d \in Drivers, Discover(q, d) PROVE Contract!Next
  BY <1>2, <1>s DEF Discover, Commit
<1>3. ASSUME NEW r \in Rides, CancelByRider(r) PROVE Contract!Next
  <2>1. CASE AlreadyCancelled(Swept, r)
    BY <1>3, <2>1, <1>s DEF CancelByRider, AlreadyCancelled, Commit
  <2>2. CASE ~AlreadyCancelled(Swept, r)
    BY <1>3, <2>2, CancelImplements DEF CancelByRider
  <2> QED
    BY <2>1, <2>2
<1>4. ASSUME NEW r \in Rides, NEW d \in Drivers, CancelByDriver(r, d) PROVE Contract!Next
  <2>1. CASE AlreadyCancelled(Swept, r)
    BY <1>4, <2>1, <1>s DEF CancelByDriver, AlreadyCancelled, Commit
  <2>2. CASE ~AlreadyCancelled(Swept, r)
    BY <1>4, <2>2, CancelImplements DEF CancelByDriver
  <2> QED
    BY <2>1, <2>2
<1>5. ASSUME NEW w \in Sweepers, Sweep(w) PROVE Contract!Next
  <2>1. \A r \in Rides : \/ ride'[r] = ride[r]
                         \/ ride[r] = "requested" /\ ride'[r] = "expired"
    BY <1>5, <1>t, StatementsRefresh DEF Sweep, Statement, Commit, Refreshed
  <2> QED
    BY <1>5, <2>1, RefreshImplements DEF Sweep
<1>6. ASSUME \/ \E d \in Drivers :
                  \/ SetOnline(d) \/ SetOffline(d) \/ UpsertCurrent(d)
                  \/ \E v \in Vehicles : SelectOperation(d, v)
             \/ \E locked \in SUBSET Drivers : ExpirePresence(locked)
             \/ \E w \in Sweepers : AbandonSweep(w)
             \/ \E q \in Polls : PollStep(q)
             \/ ClockStep
             \/ UNCHANGED vars
      PROVE  UNCHANGED Contract!vars
  BY <1>6, StutterImplements
  DEF SetOnline, SetOffline, UpsertCurrent, SelectOperation, ExpirePresence,
      AbandonSweep, PollStep, OpenFound, AbandonPoll, ClockStep, RideDeadline, OppDeadline, OfferDeadline,
      LocationAges, vars
<1> QED
  BY <1>1, <1>2, <1>3, <1>4, <1>5, <1>6, CreateImplements, SelectImplements, TripImplements
  DEF Next, RiderStep, DriverStep, Housekeeping

(***************************************************************************)
(* Whatever riders, drivers, sweeps and deadlines do, a ride goes the way  *)
(* of the contract: one driver, who has no other ride, and no way back.    *)
(***************************************************************************)
THEOREM MarketplaceImplementsContract == Spec => ImplementsContract
<1>1. Init => Contract!Init
  BY DEF Init, Contract!Init, PhaseOf
<1>2. AssignmentInv /\ [Next]_vars => [Contract!Next]_Contract!vars
  BY StepImplements
<1> QED
  BY <1>1, <1>2, AssignmentInductive, PTL DEF Spec, ImplementsContract, Contract!Spec
==============================================================================
