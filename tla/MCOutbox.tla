------------------------------ MODULE MCOutbox ------------------------------
(***************************************************************************)
(* Outbox for TLC.  Two topics, so that a row can be half applied; three   *)
(* rows and a batch of two, so that a row waits for the next tick; two     *)
(* editors for the overlap; two attempts, one mishap.                      *)
(***************************************************************************)
EXTENDS Outbox, TLC

Symmetry == Permutations(Topics) \cup Permutations(Editors) \cup Permutations(Ticks)

=============================================================================
