---------------------------- MODULE RideContract ----------------------------
(***************************************************************************)
(* What the backend promises about a ride, without offers, feeds, presence *)
(* or locations: a ride is requested, is given to exactly one driver who   *)
(* has no other ride under way, is driven, completed and paid in cash; it  *)
(* may be cancelled until it is completed, and it lapses when nobody was   *)
(* chosen before its deadline.  ADR-0007 ("Assignment invariant") is the   *)
(* prose for it; Marketplace is shown to implement it.                     *)
(*                                                                         *)
(* Several rides may lapse in the step that moves another one, because     *)
(* every marketplace handler first expires whatever is due.                *)
(***************************************************************************)
EXTENDS FiniteSets

CONSTANTS
  Rides,      \* ride requests
  Drivers,    \* users with the driver capability
  NoDriver    \* the driver of a ride that has none yet

ASSUME ContractAssumption == NoDriver \notin Drivers

VARIABLES
  phase,      \* phase[r]: where ride r stands
  driver      \* driver[r]: who was chosen for r

vars == <<phase, driver>>

Phases == {"none", "open", "assigned", "riding", "completed", "settled",
           "cancelled", "expired"}
UnderWay == {"assigned", "riding"}
Final == {"settled", "cancelled", "expired"}

\* A ride is in one phase and has one driver or none.
TypeOK ==
  /\ phase \in [Rides -> Phases]
  /\ driver \in [Rides -> Drivers \cup {NoDriver}]

Init ==
  /\ phase = [r \in Rides |-> "none"]
  /\ driver = [r \in Rides |-> NoDriver]

Open == {r \in Rides : phase[r] = "open"}

\* Wrong: a driver is busy only while riding.
BusyRiding(d) == \E r \in Rides : driver[r] = d /\ phase[r] = "riding"

Busy(d) == \E r \in Rides : driver[r] = d /\ phase[r] \in UnderWay

(***************************************************************************)
(* Ride r moves to phase p while the rides of E lapse.                     *)
(***************************************************************************)
MoveTo(r, p, E) ==
  phase' = [q \in Rides |-> IF q = r THEN p
                            ELSE IF q \in E THEN "expired" ELSE phase[q]]

Lapse(E) ==
  /\ phase' = [q \in Rides |-> IF q \in E THEN "expired" ELSE phase[q]]
  /\ UNCHANGED driver

Request(r, E) == phase[r] = "none" /\ MoveTo(r, "open", E) /\ UNCHANGED driver

Assign(r, d, E) ==
  /\ phase[r] = "open"
  /\ ~Busy(d)
  /\ MoveTo(r, "assigned", E)
  /\ driver' = [driver EXCEPT ![r] = d]

Start(r, E) ==
  phase[r] = "assigned" /\ MoveTo(r, "riding", E) /\ UNCHANGED driver

Complete(r, E) ==
  phase[r] = "riding" /\ MoveTo(r, "completed", E) /\ UNCHANGED driver

CollectCash(r, E) ==
  phase[r] = "completed" /\ MoveTo(r, "settled", E) /\ UNCHANGED driver

\* Wrong: a ride that has ended may still be cancelled.
CancelEnded(r, E) ==
  phase[r] # "none" /\ MoveTo(r, "cancelled", E) /\ UNCHANGED driver

Cancel(r, E) ==
  /\ phase[r] \in {"open", "assigned", "riding"}
  /\ MoveTo(r, "cancelled", E)
  /\ UNCHANGED driver

Next ==
  \E E \in SUBSET Open :
    \/ Lapse(E)
    \/ \E r \in Rides \ E :
         \/ Request(r, E)
         \/ \E d \in Drivers : Assign(r, d, E)
         \/ Start(r, E)
         \/ Complete(r, E)
         \/ CollectCash(r, E)
         \/ Cancel(r, E)

Spec == Init /\ [][Next]_vars

-----------------------------------------------------------------------------
(***************************************************************************)
(* A driver has at most one ride under way (ADR-0007: "at most one active  *)
(* Trip per Driver"), whatever rides are assigned, cancelled or completed  *)
(* around it.                                                              *)
(***************************************************************************)
OneRideUnderWay ==
  \A q, r \in Rides :
    (q # r /\ phase[q] \in UnderWay /\ phase[r] \in UnderWay)
      => driver[q] # driver[r]

(***************************************************************************)
(* A ride has a driver exactly when it was assigned; a ride that lapsed    *)
(* never had one, so nobody can be driving it.                             *)
(***************************************************************************)
DriverOnlyByAssignment ==
  \A r \in Rides :
    /\ phase[r] \in {"none", "open", "expired"} => driver[r] = NoDriver
    /\ phase[r] \in {"assigned", "riding", "completed", "settled"}
         => driver[r] \in Drivers

(***************************************************************************)
(* The choice is made once: a settled, cancelled or expired ride stays so, *)
(* and the driver of a ride is never replaced.                             *)
(***************************************************************************)
ChoiceIsFinal ==
  [][\A r \in Rides :
       /\ phase[r] \in Final => phase'[r] = phase[r]
       /\ driver[r] # NoDriver => driver'[r] = driver[r]]_vars
=============================================================================
