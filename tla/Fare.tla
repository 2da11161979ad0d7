--------------------------------- MODULE Fare ---------------------------------
(***************************************************************************)
(* The money of a ride: the fare that a pricing policy suggests for a      *)
(* route, and the band around the rider's fare in which a driver may       *)
(* answer.  All amounts are whole minor units (paisa).                     *)
(*                                                                         *)
(* The code computes the fare with big.Int and the band with int64; the    *)
(* largest amount is 10^12, so the band stays below 2^63 and integers need *)
(* no width here.                                                          *)
(***************************************************************************)
EXTENDS Integers

CONSTANTS
  Policies,     \* records: base, perKm, perMinute, minimum, increment
  Distances,    \* route lengths in metres
  Durations,    \* route durations in seconds
  MaxAmount     \* the largest amount, MaxAmountMinor and MaxFareMinor

\* pricing.Validate, and the positive route metrics that Calculate asks for.
ASSUME FareAssumption ==
  /\ MaxAmount \in Nat
  /\ Policies \subseteq [base : Nat, perKm : Nat, perMinute : Nat,
                         minimum : 1..MaxAmount, increment : 1..MaxAmount]
  /\ Distances \subseteq Nat \ {0}
  /\ Durations \subseteq Nat \ {0}

VARIABLES
  policy,     \* the policy in force
  metres,     \* distance of the route
  seconds,    \* duration of the route
  proposed,   \* ride_requests.proposed_fare_minor (0: no request yet)
  offered     \* ride_offers.amount_minor (0: no offer yet)

vars == <<policy, metres, seconds, proposed, offered>>

Init ==
  /\ policy \in Policies
  /\ metres \in Distances
  /\ seconds \in Durations
  /\ proposed = 0
  /\ offered = 0

-----------------------------------------------------------------------------
\* The exact fare in units of 1/3000: a kilometre is 1000 m, a minute 60 s.
Raw(p, m, s) == 3000 * p.base + 3 * p.perKm * m + 50 * p.perMinute * s

\* Wrong: every started increment is charged.
RoundedUp(p, raw) ==
  LET unit == 3000 * p.increment
  IN  (IF raw % unit > 0 THEN raw \div unit + 1 ELSE raw \div unit) * p.increment

\* One rounding, to the nearest increment, halves up.
Rounded(p, raw) ==
  LET unit == 3000 * p.increment
  IN  (IF 2 * (raw % unit) >= unit THEN raw \div unit + 1 ELSE raw \div unit)
        * p.increment

Calculate(p, m, s) ==
  LET fare == Rounded(p, Raw(p, m, s))
  IN  IF fare < p.minimum THEN p.minimum ELSE fare

percentFloor(value, percent) ==
  (value \div 100) * percent + ((value % 100) * percent) \div 100

\* Wrong: the lower bound is rounded down too.
percentCeilTruncated(value, percent) ==
  (value \div 100) * percent + ((value % 100) * percent) \div 100

percentCeil(value, percent) ==
  (value \div 100) * percent + ((value % 100) * percent + 99) \div 100

\* What a driver may answer to a ride at this fare: 90% to 130% of it.
Bounds(fare) == percentCeil(fare, 90) .. percentFloor(fare, 130)

-----------------------------------------------------------------------------
\* The rider requests the ride at the suggested fare, if that is in range.
Create ==
  /\ proposed = 0
  /\ Calculate(policy, metres, seconds) <= MaxAmount
  /\ proposed' = Calculate(policy, metres, seconds)
  /\ UNCHANGED <<policy, metres, seconds, offered>>

Submit(amount) ==
  /\ proposed # 0 /\ offered = 0
  /\ amount \in Bounds(proposed)
  /\ offered' = amount
  /\ UNCHANGED <<policy, metres, seconds, proposed>>

Next == Create \/ \E amount \in Bounds(proposed) : Submit(amount)

Spec == Init /\ [][Next]_vars

-----------------------------------------------------------------------------
(***************************************************************************)
(* The fare is the multiple of the increment nearest to the exact fare,    *)
(* the greater of two equally near, and never less than the minimum: the   *)
(* fractions of distance and time are rounded once, at the end             *)
(* (TestCalculateSingleRounding).                                          *)
(***************************************************************************)
FareIsNearest ==
  proposed # 0 =>
    LET exact == Raw(policy, metres, seconds)
        step == policy.increment
        Near(k) == /\ 6000 * k * step <= 2 * exact + 3000 * step
                   /\ 2 * exact + 3000 * step < 6000 * (k + 1) * step
    IN  \E k \in 0..MaxAmount :
          /\ Near(k)
          /\ proposed = IF k * step < policy.minimum THEN policy.minimum ELSE k * step

(***************************************************************************)
(* A driver may offer exactly the amounts from 90% to 130% of the rider's  *)
(* fare, the fare itself always among them: rounding lets nothing in and   *)
(* shuts nothing out, whatever the last digits                             *)
(* (TestBoundsRoundMinimumUpAndMaximumDown).                               *)
(***************************************************************************)
BandIsExact ==
  /\ offered # 0 => 9 * proposed <= 10 * offered /\ 10 * offered <= 13 * proposed
  /\ proposed # 0 =>
       Bounds(proposed) = {a \in 0..(2 * proposed) :
                             9 * proposed <= 10 * a /\ 10 * a <= 13 * proposed}
==============================================================================
