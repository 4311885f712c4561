---------------------------- MODULE LessonAccess ----------------------------
(***************************************************************************)
(* When the materials of one lesson are open to one student, and what the  *)
(* student is told of it: LessonsService and LessonContentAccessService.   *)
(* A curator edits the lesson, opens it to everybody, moves its date or    *)
(* grants it to the student; each call reads the row, writes it and then,  *)
(* if it read a closed lesson and wrote an open one, sends a notice whose  *)
(* failure is swallowed.                                                   *)
(***************************************************************************)
EXTENDS Naturals, FiniteSets

CONSTANTS
    Requests,       \* calls of curators under way
    MaxOpenings,    \* bound: openings of the lesson
    None

VARIABLES
    lesson,     \* the Lesson row, None when it is removed
    due,        \* the date is closer than contentUnlockDaysBefore
    granted,    \* the LessonContentGrant of the student
    enrolled,   \* the student's enrolment: none, ACTIVE or CANCELLED
    request,    \* request[r]: step, operation, and what it read
    told,       \* LESSON_OPENED notices the student has got
    openings,   \* history: times the lesson was opened to the student by hand
    lost,       \* history: notices nobody was sent
    shut,       \* history: calls since whose write the lesson was closed again
    calm        \* history: no call has written what another changed meanwhile

accessVars == <<lesson, due, granted, enrolled, request, told, openings, lost, shut, calm>>

\* setContentUnlockedForAll and update, which may change the title, the
\* date or the lock; grantContent.
Operations == {"edit", "unlock", "lock", "schedule", "unschedule", "grant"}
Calls == [step : {"write", "notify"}, op : Operations, was : BOOLEAN]

\* What the theorems assume of the constants, and Services of its own.
GoodConstants ==
    /\ IsFiniteSet(Requests) /\ MaxOpenings \in Nat
    /\ None \notin Calls \cup [scheduled : BOOLEAN, forAll : BOOLEAN]

TypeOK ==
    /\ lesson \in [scheduled : BOOLEAN, forAll : BOOLEAN] \cup {None}
    /\ {due, granted, calm} \subseteq BOOLEAN
    /\ enrolled \in {"none", "ACTIVE", "CANCELLED"}
    /\ request \in [Requests -> Calls \cup {None}]
    /\ shut \subseteq Requests
    /\ told \in Nat /\ openings \in 0 .. MaxOpenings /\ lost \in Nat

\* create: the lesson may be opened to everybody at once.
Init ==
    /\ lesson \in [scheduled : BOOLEAN, forAll : BOOLEAN]
    /\ due \in BOOLEAN /\ (due => lesson.scheduled)
    /\ granted = FALSE /\ enrolled = "ACTIVE"
    /\ request = [r \in Requests |-> None]
    /\ told = 0 /\ openings = 0 /\ lost = 0 /\ shut = {} /\ calm = TRUE

-----------------------------------------------------------------------------
\* Both rules: a lesson without a date is never closed.
IsOpen == /\ lesson # None
          /\ ~lesson.scheduled \/ lesson.forAll \/ granted \/ due

\* evaluate, for the student, asks for the enrolment; evaluateMany, for the
\* list of the course, asks for all grants and for nobody's enrolment.
Evaluate == IsOpen /\ enrolled = "ACTIVE"
EvaluateMany == IsOpen

\* What getOne and playback give the student: the lesson without its
\* materials while it is closed.
GetOne == IF Evaluate THEN "materials" ELSE IF enrolled = "ACTIVE" THEN "locked" ELSE "refused"

-----------------------------------------------------------------------------
\* update, setContentUnlockedForAll and grantContent read first.
Read(r, op) ==
    /\ request[r] = None /\ lesson # None
    /\ op = "grant" => enrolled # "none"
    /\ request' = [request EXCEPT ![r] =
         [step |-> "write", op |-> op, was |-> IF op = "grant" THEN granted ELSE lesson.forAll]]
    /\ UNCHANGED <<lesson, due, granted, enrolled, told, openings, lost, shut, calm>>

Opens(op) == \/ op = "unlock" /\ ~lesson.forAll
             \/ op = "grant" /\ ~granted

\* What the call read has changed by the time it writes.
Stale(q) == q.was # IF q.op = "grant" THEN granted ELSE lesson.forAll

WriteLesson(op) ==
    CASE op = "edit"       -> UNCHANGED <<lesson, due, granted>>
      [] op = "unlock"     -> lesson' = [lesson EXCEPT !.forAll = TRUE] /\ UNCHANGED <<due, granted>>
      [] op = "lock"       -> lesson' = [lesson EXCEPT !.forAll = FALSE] /\ UNCHANGED <<due, granted>>
      [] op = "schedule"   -> /\ lesson' = [lesson EXCEPT !.scheduled = TRUE]
                              /\ due' \in BOOLEAN /\ UNCHANGED granted
      [] op = "unschedule" -> /\ lesson' = [lesson EXCEPT !.scheduled = FALSE]
                              /\ due' = FALSE /\ UNCHANGED granted
      [] op = "grant"      -> granted' = TRUE /\ UNCHANGED <<lesson, due>>

\* The lesson as the call leaves it is open to everybody: whatever field
\* it changed, update compares its answer with what it had read.
LeftOpen(op) == op = "unlock" \/ (op # "lock" /\ lesson.forAll)

\* Mutant: an update announces a lesson that was open before it.
NotifiesAlways(q) == q.op = "grant" \/ LeftOpen(q.op)

\* By what the call read: a lesson that was closed is open now.
Notifies(q) == ~q.was /\ (q.op = "grant" \/ LeftOpen(q.op))

WriteStep(r) ==
    /\ request[r] # None /\ lesson # None
    /\ request[r].step = "write"
    /\ Opens(request[r].op) => openings < MaxOpenings
    /\ WriteLesson(request[r].op)
    /\ openings' = openings + (IF Opens(request[r].op) THEN 1 ELSE 0)
    /\ calm' = (calm /\ ~Stale(request[r]))
    /\ shut' = IF request[r].op = "lock" THEN Requests ELSE shut \ {r}
    /\ request' = [request EXCEPT ![r] =
         IF Notifies(request[r]) THEN [request[r] EXCEPT !.step = "notify"] ELSE None]
    /\ UNCHANGED <<enrolled, told, lost>>

\* notifyLessonOpened: to the students enrolled by now, or to the one.
Notify(r) ==
    /\ request[r] # None /\ request[r].step = "notify"
    /\ IF request[r].op = "grant" \/ enrolled = "ACTIVE"
       THEN told' = told + 1 /\ UNCHANGED lost
       ELSE lost' = lost + 1 /\ UNCHANGED told
    /\ request' = [request EXCEPT ![r] = None]
    /\ UNCHANGED <<lesson, due, granted, enrolled, openings, shut, calm>>

\* The notice fails, or the server stops before it.
NotifyFails(r) ==
    /\ request[r] # None /\ request[r].step = "notify"
    /\ lost' = lost + 1
    /\ request' = [request EXCEPT ![r] = None]
    /\ UNCHANGED <<lesson, due, granted, enrolled, told, openings, shut, calm>>

\* The row was removed meanwhile: the write fails.
WriteFails(r) ==
    /\ request[r] # None /\ lesson = None
    /\ request[r].step = "write"
    /\ request' = [request EXCEPT ![r] = None]
    /\ UNCHANGED <<lesson, due, granted, enrolled, told, openings, lost, shut, calm>>

\* Support's grantLesson opens the lesson and tells nobody.
GrantLesson ==
    /\ lesson # None /\ enrolled # "none"
    /\ openings < MaxOpenings
    /\ granted' = TRUE
    /\ openings' = openings + (IF granted THEN 0 ELSE 1)
    /\ lost' = lost + (IF granted THEN 0 ELSE 1)
    /\ UNCHANGED <<lesson, due, enrolled, request, told, shut, calm>>

RevokeContentGrant ==
    /\ lesson # None
    /\ granted' = FALSE /\ shut' = Requests
    /\ UNCHANGED <<lesson, due, enrolled, request, told, openings, lost, calm>>

\* The grants go with the lesson.
Remove ==
    /\ lesson # None
    /\ lesson' = None /\ granted' = FALSE /\ due' = FALSE /\ shut' = Requests
    /\ UNCHANGED <<enrolled, request, told, openings, lost, calm>>

\* The date comes closer; the student leaves or returns.
Day == lesson # None /\ lesson.scheduled /\ due' = TRUE
       /\ UNCHANGED <<lesson, granted, enrolled, request, told, openings, lost, shut, calm>>
Enrol == enrolled' = (IF enrolled = "ACTIVE" THEN "CANCELLED" ELSE "ACTIVE")
         /\ UNCHANGED <<lesson, due, granted, request, told, openings, lost, shut, calm>>

Next ==
    \/ \E r \in Requests :
        \/ \E op \in Operations : Read(r, op)
        \/ WriteStep(r) \/ WriteFails(r) \/ Notify(r) \/ NotifyFails(r)
    \/ GrantLesson \/ RevokeContentGrant \/ Remove \/ Day \/ Enrol

Spec == Init /\ [][Next]_accessVars

-----------------------------------------------------------------------------
(***************************************************************************)
(* Properties.                                                             *)
(***************************************************************************)
Announcing == {r \in Requests : request[r] # None /\ request[r].step = "notify"}

\* Every opening is announced exactly once, or its notice is lost: calls
\* that do not overlap tell the student neither twice nor of nothing.
OpenedToldOnce == calm => openings = told + lost + Cardinality(Announcing)

\* The notice is true, overlaps or not: until somebody closes the lesson
\* again, the one about to be announced is open in the list of the course
\* and on its page, whatever other calls wrote or whoever read it first.
ToldOfOpen ==
    \A r \in Announcing \ shut :
        EvaluateMany /\ (enrolled = "ACTIVE" => GetOne = "materials")

=============================================================================
