---------------------------- MODULE MCEnrollment ----------------------------
(***************************************************************************)
(* Enrollment for TLC: one student and course (keys do not interact), two  *)
(* payments and three requests, so that two stale requests can race a      *)
(* third.                                                                  *)
(***************************************************************************)
EXTENDS Enrollment, TLC

Symmetry == Permutations(Payments) \cup Permutations(Requests)

=============================================================================
