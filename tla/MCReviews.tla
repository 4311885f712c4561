----------------------------- MODULE MCReviews -----------------------------
(***************************************************************************)
(* Instances of module Reviews.                                            *)
(***************************************************************************)
EXTENDS Reviews, TLC

Symmetry == Permutations(Requests) \cup Permutations(Texts) \cup Permutations(Photos)

=============================================================================
