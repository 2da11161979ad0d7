------------------------------ MODULE MCPricing ------------------------------
(***************************************************************************)
(* An instance of pricing for TLC.                                         *)
(***************************************************************************)
EXTENDS Pricing, TLC

CONSTANTS economy, b1, b2, v1, v2

\* Bookings are interchangeable, and so are reviewers.
Symmetric == Permutations({b1, b2}) \cup Permutations({v1, v2})
==============================================================================
