---------------------------- MODULE MCApiProcess ----------------------------
(***************************************************************************)
(* Two processes and two migrations; a limit of two in a window of two.     *)
(***************************************************************************)
EXTENDS ApiProcess

CONSTANTS p1, p2, q1, q2

MCProcesses == {p1, p2}
MCRequests == {q1, q2}
MCSpans == {2}
=============================================================================
