----------------------------- MODULE MCCalendar -----------------------------
(***************************************************************************)
(* Instances of module Calendar.                                           *)
(***************************************************************************)
EXTENDS Calendar, TLC

Symmetry == Permutations(Requests)

=============================================================================
