----------------------------- MODULE MCServices -----------------------------
(***************************************************************************)
(* Instances of module Services.  No service tells its requests apart, and *)
(* experience points neither assignments nor the attempts at them.         *)
(***************************************************************************)
EXTENDS Services, Integers, TLC

UpAndDown == {-1, 1}

Symmetry == Permutations(Requests)

ExperienceSymmetry ==
    Permutations(Requests) \cup Permutations(Assignments) \cup Permutations(Tries)

=============================================================================
