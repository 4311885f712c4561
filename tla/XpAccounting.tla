---------------------------- MODULE XpAccounting ----------------------------
(***************************************************************************)
(* Experience points of one student in one course: the scores that submit  *)
(* and grade write (module Attempts), XpService.syncBestAttempt, which     *)
(* carries them to AssignmentBestXp, XpLedger and XpBalance, and           *)
(* SupportOpsService.adjustXp.                                             *)
(*                                                                         *)
(* Removing an assignment takes its rows by cascade and leaves the balance. *)
(* The transaction of syncBestAttempt runs READ COMMITTED: its read of the *)
(* old best and its writes are two steps.  The ledger is kept as the sums  *)
(* a reader of it would take.                                              *)
(***************************************************************************)
EXTENDS Integers

CONSTANTS
    Assignments,
    Attempts,    \* attempts of the student at an assignment
    Requests,    \* requests of submit and grade that can be in flight together
    MaxXp,       \* maxXp of the assignments
    Deltas,      \* adjustments the support staff make
    MaxChanges,  \* bound: scores and adjustments ever written
    None

Scores == 0 .. MaxXp

VARIABLES
    scored,    \* scored[a][n]: scoreXp of the handed-in attempts
    best,      \* best[a]: the AssignmentBestXp row
    earned,    \* earned[a]: sum of the BEST_ATTEMPT ledger rows of a
    ledger,    \* sum of all ledger rows
    balance,   \* the XpBalance row
    removed,   \* assignments that were removed
    request

VARIABLES      \* history, read by no action
    overlapped,  \* assignments two requests were ever in flight for together
    abandoned,   \* assignments a request for died before it had synchronised
    clamped,     \* an adjustment was cut off at zero
    forgotten,   \* sum of the ledger rows that went with their assignment
    changes

tables  == <<scored, best, earned, ledger, balance, removed>>
history == <<overlapped, abandoned, clamped, forgotten>>
vars    == <<tables, request, history, changes>>

\* final: AUTO_GRADED or GRADED; otherwise PENDING_REVIEW.
Score == [xp : Scores, final : BOOLEAN]

InFlight ==
    [next : {"findGraded", "findBest", "write"},
     assignment : Assignments, bestXp : Scores, oldBest : Scores]

\* What the theorems assume of the constants, and Services of its own.
GoodConstants ==
    /\ MaxXp \in Nat
    /\ MaxChanges \in Nat
    /\ Deltas \subseteq Int \ {0}
    /\ None \notin Score \cup InFlight \cup Int

TypeOK ==
    /\ scored \in [Assignments -> [Attempts -> Score \cup {None}]]
    /\ best \in [Assignments -> Scores \cup {None}]
    /\ earned \in [Assignments -> Int]
    /\ ledger \in Int
    /\ balance \in Int \cup {None}
    /\ removed \subseteq Assignments
    /\ request \in [Requests -> InFlight \cup {None}]
    /\ overlapped \subseteq Assignments
    /\ abandoned \subseteq Assignments
    /\ clamped \in BOOLEAN
    /\ forgotten \in Int
    /\ changes \in 0 .. MaxChanges

Init ==
    /\ scored = [a \in Assignments |-> [n \in Attempts |-> None]]
    /\ best = [a \in Assignments |-> None]
    /\ earned = [a \in Assignments |-> 0]
    /\ ledger = 0
    /\ balance = None
    /\ removed = {}
    /\ request = [r \in Requests |-> None]
    /\ overlapped = {}
    /\ abandoned = {}
    /\ clamped = FALSE
    /\ forgotten = 0
    /\ changes = 0

-----------------------------------------------------------------------------
Busy(r) == request[r] # None

Resumes(r, s) == Busy(r) /\ request[r].next = s

Await(r, s, a, bestXp, oldBest) ==
    request' = [request EXCEPT ![r] =
                   [next |-> s, assignment |-> a, bestXp |-> bestXp, oldBest |-> oldBest]]

Finish(r) == request' = [request EXCEPT ![r] = None]

Changes ==
    /\ changes < MaxChanges
    /\ changes' = changes + 1

\* The last update of submit or grade; the request goes on to syncBestAttempt.
\* Any score may follow any other: attempts are regraded, and a stale submit
\* may write over a grade (module Attempts).
WriteScore(r, a, n, x, final) ==
    /\ ~Busy(r)
    /\ a \notin removed
    /\ Changes
    /\ scored' = [scored EXCEPT ![a] = [@ EXCEPT ![n] = [xp |-> x, final |-> final]]]
    /\ Await(r, "findGraded", a, 0, 0)
    /\ overlapped' = IF \E q \in Requests : Busy(q) /\ request[q].assignment = a
                       THEN overlapped \cup {a}
                       ELSE overlapped
    /\ UNCHANGED <<best, earned, ledger, balance, removed, abandoned, clamped, forgotten>>

-----------------------------------------------------------------------------
(***************************************************************************)
(* syncBestAttempt.                                                        *)
(***************************************************************************)

Handed(a) == {n \in Attempts : scored[a][n] # None}

\* The best score of the attempts handed in, reviewed or not; zero if none.
IsBestOf(a, x) ==
    /\ \A n \in Handed(a) : scored[a][n].xp <= x
    /\ x = 0 \/ \E n \in Handed(a) : scored[a][n].xp = x

SyncFindGraded(r) ==
    LET a == request[r].assignment IN
    /\ Resumes(r, "findGraded")
    /\ \E x \in Scores : IsBestOf(a, x) /\ Await(r, "findBest", a, x, 0)
    /\ UNCHANGED <<tables, history, changes>>

OrZero(x) == IF x = None THEN 0 ELSE x

SyncFindBest(r) ==
    LET a == request[r].assignment IN
    /\ Resumes(r, "findBest")
    /\ Await(r, "write", a, request[r].bestXp, OrZero(best[a]))
    /\ UNCHANGED <<tables, history, changes>>

AtLeastZero(x) == IF x < 0 THEN 0 ELSE x

\* Mutant: a balance never falls.
CreditedUpwards(delta) == AtLeastZero(delta) + OrZero(balance)

Credited(delta) ==
    IF balance = None THEN AtLeastZero(delta) ELSE balance + delta

\* Mutant: only a better score is written.
SyncWriteIfBetter(r) ==
    LET a == request[r].assignment
        delta == request[r].bestXp - request[r].oldBest
    IN  /\ Resumes(r, "write")
        /\ IF delta > 0
             THEN /\ best' = [best EXCEPT ![a] = request[r].bestXp]
                  /\ earned' = [earned EXCEPT ![a] = @ + delta]
                  /\ ledger' = ledger + delta
                  /\ balance' = Credited(delta)
             ELSE UNCHANGED <<best, earned, ledger, balance>>
        /\ Finish(r)
        /\ UNCHANGED <<scored, removed, history, changes>>

\* upsert, ledger row and increment commit together; a delta of zero returns
\* after the upsert.
SyncWrite(r) ==
    LET a == request[r].assignment
        delta == request[r].bestXp - request[r].oldBest
    IN  /\ Resumes(r, "write")
        /\ best' = [best EXCEPT ![a] = request[r].bestXp]
        /\ earned' = [earned EXCEPT ![a] = @ + delta]
        /\ ledger' = ledger + delta
        /\ balance' = IF delta = 0 THEN balance ELSE Credited(delta)
        /\ Finish(r)
        /\ UNCHANGED <<scored, removed, history, changes>>

\* The request dies, or one of its statements fails: the score stays.
RequestDies(r) ==
    /\ Busy(r)
    /\ Finish(r)
    /\ abandoned' = abandoned \cup {request[r].assignment}
    /\ UNCHANGED <<tables, overlapped, clamped, forgotten, changes>>

-----------------------------------------------------------------------------
\* adjustXp: one transaction, the row lock of the upsert makes it one step.
Adjust(d) ==
    /\ Changes
    /\ ledger' = ledger + d
    /\ balance' = AtLeastZero(Credited(d))
    /\ clamped' = (clamped \/ Credited(d) < 0 \/ (balance = None /\ d < 0))
    /\ UNCHANGED <<scored, best, earned, removed, request, overlapped, abandoned, forgotten>>

\* AssignmentsService.remove: the attempts, the best and the ledger rows go by
\* cascade, nothing writes the balance, and what a request about them still
\* executes is refused by a foreign key.
RemoveAssignment(a) ==
    /\ a \notin removed
    /\ removed' = removed \cup {a}
    /\ scored' = [scored EXCEPT ![a] = [n \in Attempts |-> None]]
    /\ best' = [best EXCEPT ![a] = None]
    /\ earned' = [earned EXCEPT ![a] = 0]
    /\ ledger' = ledger - earned[a]
    /\ forgotten' = forgotten + earned[a]
    /\ request' = [r \in Requests |->
                      IF Busy(r) /\ request[r].assignment = a THEN None ELSE request[r]]
    /\ UNCHANGED <<balance, overlapped, abandoned, clamped, changes>>

RequestStep(r) ==
    \/ \E a \in Assignments, n \in Attempts, x \in Scores, final \in BOOLEAN :
          WriteScore(r, a, n, x, final)
    \/ SyncFindGraded(r)
    \/ SyncFindBest(r)
    \/ SyncWrite(r)
    \/ RequestDies(r)

Next ==
    \/ \E r \in Requests : RequestStep(r)
    \/ \E d \in Deltas : Adjust(d)
    \/ \E a \in Assignments : RemoveAssignment(a)

Spec == Init /\ [][Next]_vars

-----------------------------------------------------------------------------
(***************************************************************************)
(* Properties.                                                             *)
(***************************************************************************)

\* The balance is what the ledger adds up to, with the rows that went with
\* their assignments, whatever synchronisations and adjustments race or die,
\* until an adjustment is cut off at zero; then the student keeps more than
\* the rows say, never less.
LedgerExplainsBalance ==
    /\ ~clamped => OrZero(balance) = ledger + forgotten
    /\ ledger + forgotten <= OrZero(balance)

\* docs/superpowers/specs/2026-07-30-homework-design.md:156, "Append-only audit
\* of XP changes": the rows there are explain every point of the balance.
\* False: AssignmentsService.remove deletes rows and leaves their points.
LedgerIsAudit == ~clamped => OrZero(balance) = ledger

\* Without two requests for an assignment in flight together, what it earned
\* in the ledger is its best score, even if a request died on the way.
EarnedIsBest ==
    \A a \in Assignments \ overlapped : earned[a] = OrZero(best[a])

\* ... and once no request is under way, and none died, the best score is the
\* best of the attempts as they are scored now, regrades included.
BestFollowsScores ==
    \A a \in Assignments \ (overlapped \cup abandoned) :
        (\A r \in Requests : Busy(r) => request[r].assignment # a) =>
            IsBestOf(a, OrZero(best[a]))

\* Experience is what the best scores are worth, and those follow grades.
EarnedFollowsScores == EarnedIsBest /\ BestFollowsScores

=============================================================================
