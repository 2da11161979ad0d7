---------------------------- MODULE MCOnboarding ----------------------------
(***************************************************************************)
(* An instance of onboarding for TLC.                                      *)
(***************************************************************************)
EXTENDS Onboarding, TLC

CONSTANTS d1, d2, p1, p2, economy, comfort, a1, a2, a3, h1, h2

\* Each vehicle is accepted by one of the services only.
Accepted == {<<p1, economy>>, <<p2, comfort>>}

\* Ids, handlers and drivers are interchangeable.
Symmetric == Permutations({a1, a2, a3}) \cup Permutations({h1, h2}) \cup Permutations({d1, d2})
==============================================================================
