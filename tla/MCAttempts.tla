----------------------------- MODULE MCAttempts -----------------------------
(***************************************************************************)
(* Attempts for TLC: one student and assignment (keys do not interact),    *)
(* two attempts, a limit of none, one or two, and two requests, so that a  *)
(* stale one can meet another.                                             *)
(***************************************************************************)
EXTENDS Attempts, TLC

Symmetry == Permutations(Requests)

=============================================================================
