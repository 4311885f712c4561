-------------------------------- MODULE MCWeb --------------------------------
(***************************************************************************)
(* Instances of module WebApp.                                             *)
(***************************************************************************)
EXTENDS WebApp, TLC

Alike == Slots \cup Lessons \cup Assignments

\* No page tells two slots, lessons or assignments apart, and none has two of
\* these sets: so all three are permuted at once, or none is.
Symmetry ==
    {p \in Permutations(Alike) :
        /\ \A S \in {Slots, Lessons, Assignments}, v \in Alike : v \in S <=> p[v] \in S
        /\ (\A v \in Alike : p[v] = v) \/ (\A v \in Alike : p[v] # v)}

=============================================================================
