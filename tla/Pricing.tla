------------------------------- MODULE Pricing -------------------------------
(***************************************************************************)
(* Pricing policies and priced bookings (backend/internal/pricing,         *)
(* ride/postgres_pricing.go, and the suggested fare of httpapi).           *)
(*                                                                         *)
(* Reviewers publish versions of a service's tariff and switch the current *)
(* one off.  A rider previews a fare, and later submits it with the policy *)
(* it was computed from; the API computes it again and then books under    *)
(* locks.  Everything is shown statement by statement.  Writers lock the   *)
(* catalogue row of the service FOR UPDATE; a booking locks that row and   *)
(* then the pointer to the current policy FOR SHARE.                       *)
(*                                                                         *)
(* A policy is known by its service and version, in the code by a UUID     *)
(* drawn when it is published.  A tariff is one number and so is a route;  *)
(* Quote multiplies them, so that different tariffs may quote the same     *)
(* amount (module Fare has the real formula).                              *)
(***************************************************************************)
EXTENDS Integers, Sequences

CONSTANTS
  Services,    \* rows of driver_service_catalog
  Rates,       \* tariffs a reviewer may publish
  Routes,      \* routes the provider may answer with
  Bookings,    \* riders' booking requests
  Reviewers,   \* requests of reviewers
  MaxVersions, \* bound: how many versions of a tariff are published
  Nothing      \* "nothing in hand"

ASSUME PricingAssumption ==
  /\ Rates \subseteq Nat \ {0}
  /\ Routes \subseteq Nat \ {0}
  /\ MaxVersions \in Nat
  /\ Bookings \cap Reviewers = {}

VARIABLES
  versions,  \* ride_pricing_policy_versions: the tariffs of a service in order
  current,   \* ride_pricing_policy_current (0: no row, or NULL)
  offered,   \* services that are active and visible to riders
  snapshot,  \* ride_request_pricing_snapshots: the version a request was booked with
  at,        \* how far a request has come
  work       \* what it was asked and what it has read

tables == <<versions, current, offered, snapshot>>
vars == <<tables, at, work>>

Requests == Bookings \cup Reviewers

BookingSteps == {"idle", "quoted", "repricing", "priced", "sharing", "ready", "booked"}
ReviewSteps == {"idle", "publishing", "disabling", "publisher", "numbered", "disabler"}
Quotes == [service : Services, version : Nat, route : Routes, fare : Nat, policy : Nat]
Reviews == [service : Services, version : Nat, rate : Rates \cup {0}]

\* Every column and every request in hand keeps its type; the pointer, the
\* snapshots and the quotes refer to versions that exist.
TypeOK ==
  /\ versions \in [Services -> Seq(Rates)]
  /\ current \in [Services -> Nat]
  /\ \A s \in Services : current[s] \in 0..Len(versions[s])
  /\ offered \subseteq Services
  /\ snapshot \in [Bookings -> Nat]
  /\ DOMAIN at = Requests /\ DOMAIN work = Requests
  /\ \A b \in Bookings :
       /\ at[b] \in BookingSteps
       /\ at[b] # "idle" => /\ work[b] \in Quotes
                            /\ work[b].version \in 1..Len(versions[work[b].service])
  /\ \A v \in Reviewers :
       /\ at[v] \in ReviewSteps
       /\ at[v] # "idle" => work[v] \in Reviews
       /\ at[v] \in {"publishing", "publisher", "numbered"} => work[v].rate \in Rates

Init ==
  /\ versions = [s \in Services |-> <<>>]
  /\ current = [s \in Services |-> 0]
  /\ offered = Services
  /\ snapshot = [b \in Bookings |-> 0]
  /\ at = [p \in Requests |-> "idle"]
  /\ work = [p \in Requests |-> Nothing]

Quote(rate, route) == rate * route
Tariff(s, version) == versions[s][version]

(***************************************************************************)
(* Locks, held to the end of the transaction.                              *)
(***************************************************************************)
Shares(b, s) == at[b] \in {"sharing", "ready"} /\ work[b].service = s
Writes(v, s) == at[v] \in {"publisher", "numbered", "disabler"} /\ work[v].service = s

NoWriter(s) == \A v \in Reviewers : ~Writes(v, s)

\* Wrong: writers wait for each other, not for the bookings.
NoOtherWriter(s) == NoWriter(s)

\* Wrong: the catalogue row is read without a lock.
ReadUnlocked(s) == TRUE

NoHolder(s) == NoWriter(s) /\ \A b \in Bookings : ~Shares(b, s)

\* The pointer's own row lock, taken by a booking after the catalogue row.
PointerFree(s) == \A b \in Bookings : ~(at[b] = "ready" /\ work[b].service = s)

Go(p, step) == at' = [at EXCEPT ![p] = step]
Finish(p) == Go(p, "idle") /\ work' = [work EXCEPT ![p] = Nothing]

(***************************************************************************)
(* A booking.  The preview and the first check read the current policy     *)
(* without locks; between the first check and the locks a route provider   *)
(* is asked.                                                               *)
(***************************************************************************)
Available(s) == s \in offered /\ current[s] # 0

CreateRidePreview(b, s, route) ==
  /\ at[b] = "idle"
  /\ Available(s)
  /\ work' = [work EXCEPT ![b] =
       [service |-> s, version |-> current[s], route |-> route,
        fare |-> Quote(Tariff(s, current[s]), route), policy |-> 0]]
  /\ Go(b, "quoted")
  /\ UNCHANGED tables

\* Wrong: the policy was checked before the route was asked for.
AssumePolicyKept(b) == Available(work[b].service)

PolicyKept(b) == Available(work[b].service) /\ current[work[b].service] = work[b].version

ValidatePolicy(b) ==
  /\ at[b] = "quoted"
  /\ Available(work[b].service) /\ current[work[b].service] = work[b].version
  /\ Go(b, "repricing")
  /\ UNCHANGED <<tables, work>>

ValidateFare(b, route) ==
  /\ at[b] = "repricing"
  /\ Quote(Tariff(work[b].service, work[b].version), route) = work[b].fare
  /\ work' = [work EXCEPT ![b].route = route]
  /\ Go(b, "priced")
  /\ UNCHANGED tables

LockService(b) ==
  /\ at[b] = "priced"
  /\ NoWriter(work[b].service)
  /\ work[b].service \in offered
  /\ Go(b, "sharing")
  /\ UNCHANGED <<tables, work>>

\* The policy read under the locks is the one the snapshot will copy.
LockCurrent(b) ==
  /\ at[b] = "sharing"
  /\ PolicyKept(b)
  /\ work' = [work EXCEPT ![b].policy = current[work[b].service]]
  /\ Go(b, "ready")
  /\ UNCHANGED tables

CreatePriced(b) ==
  /\ at[b] = "ready"
  /\ snapshot' = [snapshot EXCEPT ![b] = work[b].policy]
  /\ Go(b, "booked")
  /\ UNCHANGED <<versions, current, offered, work>>

\* Refused, failed or given up; the rider may submit the same quote again.
AbandonBooking(b) ==
  /\ at[b] \in {"repricing", "priced", "sharing", "ready"}
  /\ Go(b, "quoted")
  /\ work' = [work EXCEPT ![b].policy = 0]
  /\ UNCHANGED tables

ForgetQuote(b) ==
  /\ at[b] = "quoted"
  /\ Finish(b)
  /\ UNCHANGED tables

(***************************************************************************)
(* A reviewer publishes a tariff.  The version is numbered in one          *)
(* statement and inserted, under a unique constraint, in a later one.      *)
(***************************************************************************)
OpenPublish(v, s, rate) ==
  /\ at[v] = "idle"
  /\ work' = [work EXCEPT ![v] = [service |-> s, version |-> 0, rate |-> rate]]
  /\ Go(v, "publishing")
  /\ UNCHANGED tables

LockToPublish(v) ==
  /\ at[v] = "publishing"
  /\ NoHolder(work[v].service)
  /\ work[v].service \in offered
  /\ Go(v, "publisher")
  /\ UNCHANGED <<tables, work>>

NumberVersion(v) ==
  LET next == Len(versions[work[v].service]) + 1
  IN  /\ at[v] = "publisher"
      /\ next <= MaxVersions
      /\ work' = [work EXCEPT ![v].version = next]
      /\ Go(v, "numbered")
      /\ UNCHANGED tables

\* Wrong: a pointer that exists is left alone (ON CONFLICT DO NOTHING).
PointOnce(s, version) == [current EXCEPT ![s] = IF @ = 0 THEN version ELSE @]

PointTo(s, version) == [current EXCEPT ![s] = version]

Publish(v) ==
  LET s == work[v].service
  IN  /\ at[v] = "numbered"
      /\ work[v].version \notin DOMAIN versions[s]
      /\ PointerFree(s)
      /\ versions' = [versions EXCEPT ![s] = Append(@, work[v].rate)]
      /\ current' = PointTo(s, work[v].version)
      /\ Finish(v)
      /\ UNCHANGED <<offered, snapshot>>

(***************************************************************************)
(* A reviewer switches a policy off, named from a list read without locks. *)
(* The service need not be active.                                         *)
(***************************************************************************)
OpenDisable(v, s, version) ==
  /\ at[v] = "idle"
  /\ version \in DOMAIN versions[s]
  /\ work' = [work EXCEPT ![v] = [service |-> s, version |-> version, rate |-> 0]]
  /\ Go(v, "disabling")
  /\ UNCHANGED tables

LockToDisable(v) ==
  /\ at[v] = "disabling"
  /\ NoHolder(work[v].service)
  /\ Go(v, "disabler")
  /\ UNCHANGED <<tables, work>>

\* Wrong: whatever is current is switched off.
AnyPolicy(v) == current[work[v].service] # 0

ExpectedPolicy(v) == current[work[v].service] = work[v].version

Disable(v) ==
  /\ at[v] = "disabler"
  /\ ExpectedPolicy(v)
  /\ PointerFree(work[v].service)
  /\ current' = [current EXCEPT ![work[v].service] = 0]
  /\ Finish(v)
  /\ UNCHANGED <<versions, offered, snapshot>>

AbandonReview(v) ==
  /\ at[v] # "idle"
  /\ Finish(v)
  /\ UNCHANGED tables

\* The catalogue has no endpoint: an operator's UPDATE, which waits for locks.
SwitchService(s) ==
  /\ NoHolder(s)
  /\ offered' = IF s \in offered THEN offered \ {s} ELSE offered \cup {s}
  /\ UNCHANGED <<versions, current, snapshot, at, work>>

BookingStep(b) ==
  \/ \E s \in Services, route \in Routes : CreateRidePreview(b, s, route)
  \/ ValidatePolicy(b)
  \/ \E route \in Routes : ValidateFare(b, route)
  \/ LockService(b) \/ LockCurrent(b) \/ CreatePriced(b)
  \/ AbandonBooking(b) \/ ForgetQuote(b)

ReviewStep(v) ==
  \/ \E s \in Services, rate \in Rates : OpenPublish(v, s, rate)
  \/ LockToPublish(v) \/ NumberVersion(v) \/ Publish(v)
  \/ \E s \in Services : \E version \in DOMAIN versions[s] : OpenDisable(v, s, version)
  \/ LockToDisable(v) \/ Disable(v) \/ AbandonReview(v)

Next ==
  \/ \E b \in Bookings : BookingStep(b)
  \/ \E v \in Reviewers : ReviewStep(v)
  \/ \E s \in Services : SwitchService(s)

Spec == Init /\ [][Next]_vars

(***************************************************************************)
(* What pricing promises.                                                  *)
(***************************************************************************)

\* A ride is booked only at a tariff that is current, for a service that is
\* offered, at the moment the booking commits, although both were checked in
\* earlier statements and a reviewer may be waiting to change them.
BookedAtCurrentTariff ==
  [][\A b \in Bookings : at[b] # "booked" /\ at'[b] = "booked" =>
       /\ work[b].service \in offered
       /\ snapshot'[b] = current[work[b].service]]_vars

\* The fare of a booked ride is what the tariff in its snapshot gives for the
\* route it was last computed for: the policy of the unlocked check, the policy
\* of the preview and the policy under the locks are one.
FareMatchesSnapshot ==
  \A b \in Bookings : at[b] = "booked" =>
    /\ snapshot[b] \in 1..Len(versions[work[b].service])
    /\ work[b].fare = Quote(Tariff(work[b].service, snapshot[b]), work[b].route)

\* The current tariff is the newest one, or none: neither two publications at
\* once nor a late switching off brings an old tariff back.
CurrentIsNewest ==
  \A s \in Services : current[s] \in {0, Len(versions[s])}

\* A number drawn for a version is still free when the version is inserted, so
\* that no publication is refused by the unique constraint.
VersionsNeverCollide ==
  \A v \in Reviewers : at[v] = "numbered" =>
    work[v].version = Len(versions[work[v].service]) + 1

\* A tariff is switched off only by a reviewer who named it: one published
\* after the list was read survives.
DisabledAsSeen ==
  [][\A s \in Services : current[s] # 0 /\ current'[s] = 0 =>
       \E v \in Reviewers : /\ at[v] = "disabler" /\ at'[v] = "idle"
                            /\ work[v].service = s
                            /\ work[v].version = current[s]]_vars
==============================================================================
