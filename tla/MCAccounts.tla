----------------------------- MODULE MCAccounts -----------------------------
(***************************************************************************)
(* An instance of accounts for TLC.                                        *)
(***************************************************************************)
EXTENDS Accounts, TLC

CONSTANTS a1, a2, t1, t2, u1, u2, q1, q2

\* All model values of a kind are interchangeable.
Symmetric == Permutations({a1, a2}) \cup Permutations({t1, t2})
             \cup Permutations({u1, u2}) \cup Permutations({q1, q2})
=============================================================================
