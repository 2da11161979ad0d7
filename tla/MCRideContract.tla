---------------------------- MODULE MCRideContract ----------------------------
(***************************************************************************)
(* The contract on its own: three rides, two drivers, all interchangeable. *)
(***************************************************************************)
EXTENDS RideContract, TLC

CONSTANTS r1, r2, r3, d1, d2

ContractSymmetry == Permutations(Rides) \cup Permutations(Drivers)
==============================================================================
