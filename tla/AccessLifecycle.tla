--------------------------- MODULE AccessLifecycle ---------------------------
(***************************************************************************)
(* What the platform promises about a student's place on a course, without *)
(* requests, payments' statuses or database rows: a place is obtained once,*)
(* taking money and giving the place are one step, a place that was        *)
(* withdrawn is never given back, and on a course that is gone nothing is  *)
(* given or charged any more.  Module Enrollment implements it.            *)
(***************************************************************************)

CONSTANTS
    Users,
    Courses,
    Payments    \* payment identifiers

Keys == Users \X Courses

VARIABLES
    access,     \* access[k]: has the student a place on the course
    charges     \* charges[k]: the payments that were taken for the place

vars == <<access, charges>>

Init ==
    /\ access = [k \in Keys |-> "none"]
    /\ charges = [k \in Keys |-> {}]

\* A free or granted place.
Enroll(k) ==
    /\ access[k] = "none"
    /\ access' = [access EXCEPT ![k] = "active"]
    /\ UNCHANGED charges

\* Money is taken: the student has a place from this step on, unless the
\* place was withdrawn before.
Charge(k, p) ==
    /\ access[k] # "gone"
    /\ p \notin charges[k]
    /\ charges' = [charges EXCEPT ![k] = @ \cup {p}]
    /\ access' = [access EXCEPT ![k] = IF @ = "none" THEN "active" ELSE @]

Withdraw(k) ==
    /\ access[k] = "active"
    /\ access' = [access EXCEPT ![k] = "revoked"]
    /\ UNCHANGED charges

Remove(c) ==
    /\ access' = [k \in Keys |-> IF k[2] = c THEN "gone" ELSE access[k]]
    /\ UNCHANGED charges

Next ==
    \/ \E k \in Keys :
          \/ Enroll(k)
          \/ \E p \in Payments : Charge(k, p)
          \/ Withdraw(k)
    \/ \E c \in Courses : Remove(c)

Spec == Init /\ [][Next]_vars

=============================================================================
