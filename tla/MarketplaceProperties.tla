------------------------ MODULE MarketplaceProperties ------------------------
(***************************************************************************)
(* What the marketplace must guarantee, and the mapping under which it     *)
(* implements RideContract.                                                *)
(***************************************************************************)
EXTENDS Marketplace

-----------------------------------------------------------------------------
(***************************************************************************)
(* Single winner: a trip exists exactly for the ride whose offer was       *)
(* accepted, it belongs to the driver who made that offer, and it carries  *)
(* the vehicle of that offer.  SelectOffer writes the three tables one     *)
(* after the other; nothing later may drive them apart.                    *)
(***************************************************************************)
SingleWinner ==
  /\ \A r \in Rides : trip[r] # "none" =>
       LET w == <<r, tripDriver[r]>>
       IN  /\ tripDriver[r] \in Drivers
           /\ offer[w] = "accepted" /\ opp[w] = "accepted"
           /\ tripVehicle[r] = offerVehicle[w]
  /\ \A p \in Pairs : (offer[p] = "accepted" \/ opp[p] = "accepted") =>
       trip[p[1]] # "none" /\ tripDriver[p[1]] = p[2]

(***************************************************************************)
(* The request row and the trip row of a ride tell the same story: an      *)
(* accepted request has a trip that was not cancelled, a cancelled one has *)
(* no trip or a cancelled trip, any other has none; cash is collected for  *)
(* completed trips only; a driver can have cancelled only a trip.          *)
(***************************************************************************)
RequestMatchesTrip ==
  \A r \in Rides :
    /\ ride[r] = "accepted" <=> trip[r] \in {"assigned", "in_progress", "completed"}
    /\ trip[r] = "cancelled" => ride[r] = "cancelled"
    /\ r \in collected => trip[r] = "completed"
    /\ ride[r] = "cancelled" <=> cancelledBy[r] # "nobody"
    /\ cancelledBy[r] = "driver" => trip[r] = "cancelled"

(***************************************************************************)
(* Once a ride is accepted or cancelled no driver can still win it: the    *)
(* deciding transaction closed every pending offer and every opportunity   *)
(* that was answered, and none appears later (ADR-0007: "competing pending *)
(* offers become closed/non-actionable").  An unanswered opportunity may   *)
(* appear late, from a poll that was under way; it cannot be answered, and *)
(* the next sweep closes it (AnswersAreDecided).                           *)
(***************************************************************************)
TakenRideHasNoRivals ==
  \A p \in Pairs : ride[p[1]] \in {"accepted", "cancelled"} =>
    offer[p] # "pending" /\ opp[p] # "offered"

(***************************************************************************)
(* An offer and the opportunity it answers agree, up to what sweeps that   *)
(* stop half way, or overtake each other, leave behind: an "offered"       *)
(* opportunity whose offer has expired or was closed with its ride; and,   *)
(* when one process expires a ride and another closes the opportunities    *)
(* before the offers, a pending offer on an expired ride that no driver    *)
(* sees.  The next sweep mends each of them (AnswersAreDecided).           *)
(***************************************************************************)
OfferAnswersOpportunity ==
  \A p \in Pairs :
    /\ offer[p] = "none" <=>
         \/ opp[p] \in {"none", "open", "driver_skipped", "window_expired"}
         \/ opp[p] = "closed" /\ offerVehicle[p] = NoVehicle
    /\ offer[p] = "pending" =>
         \/ opp[p] = "offered"
         \/ opp[p] = "closed" /\ ride[p[1]] = "expired"
    /\ opp[p] = "offered" =>
         \/ offer[p] \in {"pending", "expired"}
         \/ offer[p] = "closed" /\ ride[p[1]] \in Decided
    /\ offer[p] = "rejected" <=> opp[p] = "rider_rejected"
    /\ opp[p] = "offer_expired" => offer[p] = "expired"

(***************************************************************************)
(* At most one active trip per driver (ADR-0007; the code relies on the    *)
(* locked eligibility check and on trips_active_driver_idx).               *)
(***************************************************************************)
OneActiveTrip ==
  \A q, r \in Rides :
    (q # r /\ trip[q] \in Active /\ trip[r] \in Active)
      => tripDriver[q] # tripDriver[r]

(***************************************************************************)
(* While a trip is under way the driver's operating selection is still the *)
(* vehicle the rider chose, and that vehicle serves the ride: selection    *)
(* is locked while online or on a trip, and SelectOffer compares it with   *)
(* the offer, which may be older than a change of vehicle.                 *)
(***************************************************************************)
TripRunsChosenVehicle ==
  \A r \in Rides : trip[r] \in Active =>
    /\ sel[tripDriver[r]] = tripVehicle[r]
    /\ tripVehicle[r] \in Vehicles
    /\ OwnerOf[tripVehicle[r]] = tripDriver[r]
    /\ ServiceOf[r] \in Enrolled[tripVehicle[r]]

(***************************************************************************)
(* Nobody is offered, and nobody drives, a ride of their own, although a   *)
(* user may be rider and driver at once.                                   *)
(***************************************************************************)
NeverOwnRide ==
  \A r \in Rides :
    /\ \A d \in Drivers : opp[<<r, d>>] # "none" => RiderOf[r] # d
    /\ tripDriver[r] # NoDriver => RiderOf[r] # tripDriver[r]

(***************************************************************************)
(* The feed of a driver never holds more visible opportunities than        *)
(* DiscoveryLimit, however often the driver polls, one poll at a time:     *)
(* what the limit leaves room for is counted before, and inserted after,   *)
(* others have moved.                                                      *)
(***************************************************************************)
FeedBounded ==
  \A d \in Drivers :
    Cardinality({r \in Rides : opp[<<r, d>>] = "open" /\ <<r, d>> \notin oppDue})
      <= FeedLimit

-----------------------------------------------------------------------------
\* Wrong: the vehicle of the offer is not compared with the selection.
SelectableOtherVehicle(r, d) ==
  /\ ride[r] = "requested" /\ r \notin rideDue /\ trip[r] = "none"
  /\ offer[<<r, d>>] = "pending" /\ <<r, d>> \notin offerDue
  /\ opp[<<r, d>>] = "offered"
  /\ RiderOf[r] # d
  /\ Eligible(d, ServiceOf[r])

\* ListForRider: the offer is in the rider's list and marked selectable.
Selectable(r, d) ==
  /\ ride[r] = "requested" /\ r \notin rideDue /\ trip[r] = "none"
  /\ offer[<<r, d>>] = "pending" /\ <<r, d>> \notin offerDue
  /\ opp[<<r, d>>] = "offered"
  /\ RiderOf[r] # d
  /\ Eligible(d, ServiceOf[r])
  /\ offerVehicle[<<r, d>>] = sel[d]

(***************************************************************************)
(* The rider is shown as selectable exactly the offers that selecting them *)
(* at that moment would assign.  The list judges the tables as they are    *)
(* and in one query of its own; SelectOffer judges them swept and in four, *)
(* and asks nothing else.                                                  *)
(***************************************************************************)
SelectableIsAssignable ==
  \A r \in Rides, d \in Drivers : Selectable(r, d) <=> Assignable(Swept, r, d)

-----------------------------------------------------------------------------
(***************************************************************************)
(* One shot: a ride and a driver meet once.  A decided offer or            *)
(* opportunity is never decided again, reopened or replaced                *)
(* (TestOfferExpiryIsTerminalForDriverPair), and the vehicle it showed the *)
(* rider never changes.                                                    *)
(***************************************************************************)
OneShot ==
  [][\A p \in Pairs :
       /\ offer[p] \notin {"none", "pending"} => offer'[p] = offer[p]
       /\ offer[p] = "pending" => offer'[p] # "none"
       /\ opp[p] \notin {"none", "open", "offered"} => opp'[p] = opp[p]
       /\ opp[p] = "offered" => opp'[p] \notin {"none", "open"}
       /\ offer[p] # "none" => offerVehicle'[p] = offerVehicle[p]]_vars

(***************************************************************************)
(* The step that assigns a trip finds everything still valid at once: ride *)
(* and offer undecided and in time, the driver online, freshly located,    *)
(* free, and with the offered vehicle still selected (ADR-0007,            *)
(* "Marketplace competition invariant").                                   *)
(***************************************************************************)
AssignmentRevalidates ==
  [][\A r \in Rides : (trip[r] = "none" /\ trip'[r] # "none") =>
       LET d == tripDriver'[r]
       IN  /\ ride[r] = "requested" /\ r \notin rideDue
           /\ offer[<<r, d>>] = "pending" /\ <<r, d>> \notin offerDue
           /\ presence[d] = "online" /\ loc[d] = "fresh"
           /\ sel[d] = offerVehicle[<<r, d>>]
           /\ ~OnTrip(d)]_vars

(***************************************************************************)
(* "Late heartbeats may update location, but cannot revive expired         *)
(* presence" (driverlocation/postgres_repository.go:24): a heartbeat that  *)
(* finds the lease lapsed leaves the driver offline, and nothing but an    *)
(* explicit request of a ready, free driver makes anyone online.           *)
(***************************************************************************)
NoRevival ==
  [][\A d \in Drivers :
       /\ (loc[d] = "stale" /\ loc'[d] = "fresh") => presence'[d] # "online"
       /\ (presence[d] # "online" /\ presence'[d] = "online") =>
            loc[d] = "fresh" /\ loc'[d] = "fresh" /\ ~OnTrip(d)]_vars

-----------------------------------------------------------------------------
(***************************************************************************)
(* Every request is decided: if no rider or driver does it, its deadline   *)
(* and the sweep do.                                                       *)
(***************************************************************************)
RequestsAreDecided ==
  \A r \in Rides : ride[r] = "requested" ~> ride[r] \in Decided

(***************************************************************************)
(* No offer or opportunity stays live for ever, not even one that an       *)
(* abandoned sweep left half expired.                                      *)
(***************************************************************************)
AnswersAreDecided ==
  \A p \in Pairs :
    /\ offer[p] = "pending" ~> offer[p] # "pending"
    /\ opp[p] \in {"open", "offered"} ~> opp[p] \notin {"open", "offered"}

(***************************************************************************)
(* A driver whose location has gone stale does not stay online.            *)
(***************************************************************************)
StalePresenceEnds ==
  \A d \in Drivers : (presence[d] = "online" /\ loc[d] = "stale")
                       ~> presence[d] # "online"

-----------------------------------------------------------------------------
(***************************************************************************)
(* The marketplace implements the contract: the request and trip rows of a *)
(* ride together are its phase.  A pair of rows the contract knows nothing *)
(* of maps to "broken", which is no phase.                                 *)
(***************************************************************************)
PhaseOf(r) ==
  CASE ride[r] = "none" /\ trip[r] = "none" -> "none"
    [] ride[r] = "requested" /\ trip[r] = "none" -> "open"
    [] ride[r] = "expired" /\ trip[r] = "none" -> "expired"
    [] ride[r] = "cancelled" /\ trip[r] \in {"none", "cancelled"} -> "cancelled"
    [] ride[r] = "accepted" /\ trip[r] = "assigned" -> "assigned"
    [] ride[r] = "accepted" /\ trip[r] = "in_progress" -> "riding"
    [] ride[r] = "accepted" /\ trip[r] = "completed" ->
         IF r \in collected THEN "settled" ELSE "completed"
    [] OTHER -> "broken"

Contract == INSTANCE RideContract
              WITH phase <- [r \in Rides |-> PhaseOf(r)], driver <- tripDriver

ImplementsContract == Contract!Spec

-----------------------------------------------------------------------------
(***************************************************************************)
(* What docs/rider-driver-ride-milestone.md:24 says of rejection: "a later *)
(* Driver resubmission reopens that offer as pending".  While the ride is  *)
(* open and the driver still eligible, the driver may submit again.        *)
(***************************************************************************)
ResubmissionReopens ==
  \A r \in Rides, d \in Drivers :
    (/\ offer[<<r, d>>] = "rejected"
     /\ StillOpen(Swept, r)
     /\ Eligible(d, ServiceOf[r])) => ENABLED Upsert(r, d)
==============================================================================
