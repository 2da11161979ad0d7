-------------------------------- MODULE MCFare --------------------------------
(***************************************************************************)
(* Policies, distances and durations whose exact fares fall on, just below *)
(* and just above the halves of an increment.                              *)
(***************************************************************************)
EXTENDS Fare

SomePolicies ==
  [base : {0, 3, 20}, perKm : {0, 1, 7}, perMinute : {0, 1, 6},
   minimum : {1, 9}, increment : {1, 4, 10}]
SomeDistances == {1, 500, 999, 2500}
SomeDurations == {1, 30, 90}
==============================================================================
