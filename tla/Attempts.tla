------------------------------ MODULE Attempts ------------------------------
(***************************************************************************)
(* Homework attempts: SubmissionsService from opening an attempt to the    *)
(* curator's grade.  Every await on the database ends a step.              *)
(*                                                                         *)
(* An answer sheet is abstracted to the experience it is worth when it is  *)
(* graded automatically, a grade to the experience it gives.  Access       *)
(* checks, attachments and wording only ever refuse and are left out; what *)
(* the scores do to the balance is module XpAccounting.                    *)
(***************************************************************************)
EXTENDS Integers, FiniteSets

CONSTANTS
    Keys,       \* pairs of a student and an assignment
    Requests,   \* slots for HTTP requests that can be in flight together
    MaxNo,      \* bound: highest attempt number and highest maxAttempts
    MaxXp,      \* maxXp of the assignments
    None        \* no row, no request; a maxAttempts that is null

ASSUME AttemptsAssumption == MaxNo \in Nat \ {0} /\ MaxXp \in Nat

Numbers == 1 .. MaxNo
Scores  == 0 .. MaxXp

VARIABLES
    maxAttempts, \* maxAttempts[k]: the assignment's limit, or null
    hasOpen,     \* hasOpen[k]: OPEN questions or a file, a curator must grade
    removed,     \* keys whose assignment was removed
    attempt,     \* attempt[k][n]: the Submission rows
    request      \* requests in flight: what each has read

VARIABLES        \* history, read by no action
    ceiling,     \* ceiling[k]: the highest limit there ever was
    generous,    \* keys that had a limit of two or more at some time
    overlapped   \* keys two requests were ever in flight for together

assignment == <<maxAttempts, hasOpen, removed>>
tables     == <<assignment, attempt>>
history    == <<ceiling, generous, overlapped>>
vars       == <<tables, request, history>>

Status == {"IN_PROGRESS", "AUTO_GRADED", "PENDING_REVIEW", "GRADED"}

Submission == [status : Status, answers : Scores, scoreXp : Scores]

Statement ==
    {"findDraft", "count", "findFinished", "create", "upsertAnswers",
     "readAssignment", "readAnswers", "submit", "grade"}

\* number: attempts counted, or the attempt worked on; score: what was read
\* from the answers or given by the caller; limit, review: what was read of
\* the assignment.
InFlight ==
    [next : Statement, key : Keys, number : 0 .. MaxNo, score : Scores,
     limit : Numbers \cup {None}, review : BOOLEAN]

ASSUME NoneAssumption == None \notin Numbers \cup Submission \cup InFlight

TypeOK ==
    /\ maxAttempts \in [Keys -> Numbers \cup {None}]
    /\ hasOpen \in [Keys -> BOOLEAN]
    /\ removed \subseteq Keys
    /\ attempt \in [Keys -> [Numbers -> Submission \cup {None}]]
    /\ request \in [Requests -> InFlight \cup {None}]
    /\ ceiling \in [Keys -> Numbers \cup {None}]
    /\ generous \subseteq Keys
    /\ overlapped \subseteq Keys

AllowsRetakes(limit) == limit # None /\ limit > 1

Init ==
    /\ maxAttempts \in [Keys -> Numbers \cup {None}]
    /\ hasOpen \in [Keys -> BOOLEAN]
    /\ removed = {}
    /\ attempt = [k \in Keys |-> [n \in Numbers |-> None]]
    /\ request = [r \in Requests |-> None]
    /\ ceiling = maxAttempts
    /\ generous = {k \in Keys : AllowsRetakes(maxAttempts[k])}
    /\ overlapped = {}

-----------------------------------------------------------------------------
(***************************************************************************)
(* Requests.                                                               *)
(***************************************************************************)

Busy(r) == request[r] # None

Await(r, s, k, n, x, limit, review) ==
    request' = [request EXCEPT ![r] =
                   [next |-> s, key |-> k, number |-> n, score |-> x,
                    limit |-> limit, review |-> review]]

Start(r, s, k, n, x, limit) ==
    /\ ~Busy(r)
    /\ k \notin removed
    /\ Await(r, s, k, n, x, limit, FALSE)
    /\ overlapped' = IF \E q \in Requests : Busy(q) /\ request[q].key = k
                       THEN overlapped \cup {k}
                       ELSE overlapped
    /\ UNCHANGED <<tables, ceiling, generous>>

Resumes(r, s) == Busy(r) /\ request[r].next = s

Finish(r) == request' = [request EXCEPT ![r] = None]

Goes(r, s, n, x) ==
    Await(r, s, request[r].key, n, x, request[r].limit, request[r].review)

-----------------------------------------------------------------------------
(***************************************************************************)
(* createAttempt: the assignment, the draft, the count and the last        *)
(* finished attempt are read one after the other, then the row is created. *)
(***************************************************************************)

Exists(k, n) == attempt[k][n] # None

Draft(k) == {n \in Numbers : Exists(k, n) /\ attempt[k][n].status = "IN_PROGRESS"}

Finished(k) == {n \in Numbers : Exists(k, n)} \ Draft(k)

Count(k) == Cardinality({n \in Numbers : Exists(k, n)})

CreateReadAssignment(r, k) ==
    Start(r, "findDraft", k, 0, 0, maxAttempts[k])

CreateFindDraft(r) ==
    /\ Resumes(r, "findDraft")
    /\ IF Draft(request[r].key) # {}
         THEN Finish(r)                          \* returns the draft
         ELSE Goes(r, "count", 0, 0)
    /\ UNCHANGED <<tables, history>>

\* 'Max attempts reached'
Reached(limit, c) == limit # None /\ c >= limit

CreateCount(r) ==
    LET c == Count(request[r].key) IN
    /\ Resumes(r, "count")
    /\ IF Reached(request[r].limit, c)
         THEN Finish(r)
         ELSE Goes(r, "findFinished", c, 0)
    /\ UNCHANGED <<tables, history>>

CreateFindFinished(r) ==
    LET limit == request[r].limit IN
    /\ Resumes(r, "findFinished")
    /\ IF Finished(request[r].key) # {} /\ ~AllowsRetakes(limit)
         THEN Finish(r)                          \* 'Max attempts reached'
         ELSE Goes(r, "create", request[r].number, 0)
    /\ UNCHANGED <<tables, history>>

NewAttempt == [status |-> "IN_PROGRESS", answers |-> 0, scoreXp |-> 0]

SetAttempt(k, n, row) ==
    attempt' = [attempt EXCEPT ![k] = [@ EXCEPT ![n] = row]]

\* Mutant: attempts are numbered by the limit that is left.
CreateFromLimit(r) ==
    LET k == request[r].key
        limit == request[r].limit
        n == IF limit = None THEN request[r].number + 1 ELSE limit - request[r].number
    IN  /\ Resumes(r, "create")
        /\ n \in Numbers
        /\ IF Exists(k, n)
             THEN UNCHANGED attempt
             ELSE SetAttempt(k, n, NewAttempt)
        /\ Finish(r)
        /\ UNCHANGED <<assignment, history>>

\* attemptNo is count + 1; a taken number lands in the catch, which reads the
\* draft and answers with it or with an error.
CreateInsert(r) ==
    LET k == request[r].key
        n == request[r].number + 1
    IN  /\ Resumes(r, "create")
        /\ n \in Numbers
        /\ IF Exists(k, n)
             THEN UNCHANGED attempt
             ELSE SetAttempt(k, n, NewAttempt)
        /\ Finish(r)
        /\ UNCHANGED <<assignment, history>>

-----------------------------------------------------------------------------
(***************************************************************************)
(* saveAnswers, submit, grade: the status is read first and the row is     *)
(* written by identifier later.                                            *)
(***************************************************************************)

\* Mutant: any attempt of one's own can be saved and submitted.
LoadAny(r, k, n, s, x) ==
    /\ Exists(k, n)
    /\ Start(r, s, k, n, x, None)

LoadDraft(r, k, n, s, x) ==
    /\ n \in Draft(k)
    /\ Start(r, s, k, n, x, None)

SaveLoad(r, k, n, x) == LoadDraft(r, k, n, "upsertAnswers", x)

SaveUpsert(r) ==
    LET k == request[r].key
        n == request[r].number
        row == attempt[k][n]
    IN  /\ Resumes(r, "upsertAnswers")
        /\ SetAttempt(k, n, [status |-> row.status, answers |-> request[r].score,
                             scoreXp |-> row.scoreXp])
        /\ Finish(r)
        /\ UNCHANGED <<assignment, history>>

SubmitLoad(r, k, n) == LoadDraft(r, k, n, "readAssignment", 0)

\* The response mode and the questions decide whether there is a review.
SubmitReadAssignment(r) ==
    LET q == request[r] IN
    /\ Resumes(r, "readAssignment")
    /\ Await(r, "readAnswers", q.key, q.number, 0, q.limit, hasOpen[q.key])
    /\ UNCHANGED <<tables, history>>

SubmitReadAnswers(r) ==
    LET k == request[r].key
        n == request[r].number
    IN  /\ Resumes(r, "readAnswers")
        /\ Goes(r, "submit", n, attempt[k][n].answers)
        /\ UNCHANGED <<tables, history>>

Settle(k, n, status, x) ==
    SetAttempt(k, n, [status |-> status, answers |-> attempt[k][n].answers,
                      scoreXp |-> x])

SubmitWrite(r) ==
    LET q == request[r] IN
    /\ Resumes(r, "submit")
    /\ Settle(q.key, q.number,
              IF q.review THEN "PENDING_REVIEW" ELSE "AUTO_GRADED",
              q.score)
    /\ Finish(r)
    /\ UNCHANGED <<assignment, history>>

\* A grade may be given and given again, and may lower the score.
GradeRead(r, k, n, x) ==
    /\ Exists(k, n)
    /\ attempt[k][n].status \in {"PENDING_REVIEW", "GRADED"}
    /\ Start(r, "grade", k, n, x, None)

GradeWrite(r) ==
    /\ Resumes(r, "grade")
    /\ Settle(request[r].key, request[r].number, "GRADED", request[r].score)
    /\ Finish(r)
    /\ UNCHANGED <<assignment, history>>

-----------------------------------------------------------------------------
(***************************************************************************)
(* The surroundings.                                                       *)
(***************************************************************************)

Higher(a, b) ==
    IF a = None \/ b = None THEN None ELSE IF a >= b THEN a ELSE b

\* AssignmentsService.update: the limit and the response mode are edited
\* while attempts are open.
Update(k, limit, open) ==
    /\ k \notin removed
    /\ limit # maxAttempts[k] \/ open # hasOpen[k]
    /\ maxAttempts' = [maxAttempts EXCEPT ![k] = limit]
    /\ hasOpen' = [hasOpen EXCEPT ![k] = open]
    /\ ceiling' = [ceiling EXCEPT ![k] = Higher(@, limit)]
    /\ generous' = IF AllowsRetakes(limit) THEN generous \cup {k} ELSE generous
    /\ UNCHANGED <<removed, attempt, request, overlapped>>

\* AssignmentsService.remove: the attempts go with the assignment, and every
\* later statement of a request about it finds nothing or is refused by a key.
RemoveAssignment(k) ==
    /\ k \notin removed
    /\ removed' = removed \cup {k}
    /\ attempt' = [attempt EXCEPT ![k] = [n \in Numbers |-> None]]
    /\ request' = [r \in Requests |->
                      IF Busy(r) /\ request[r].key = k THEN None ELSE request[r]]
    /\ UNCHANGED <<maxAttempts, hasOpen, history>>

RequestDies(r) ==
    /\ Busy(r)
    /\ Finish(r)
    /\ UNCHANGED <<tables, history>>

RequestStep(r) ==
    \/ \E k \in Keys :
          \/ CreateReadAssignment(r, k)
          \/ \E n \in Numbers :
                \/ SubmitLoad(r, k, n)
                \/ \E x \in Scores : SaveLoad(r, k, n, x) \/ GradeRead(r, k, n, x)
    \/ CreateFindDraft(r)
    \/ CreateCount(r)
    \/ CreateFindFinished(r)
    \/ CreateInsert(r)
    \/ SaveUpsert(r)
    \/ SubmitReadAssignment(r)
    \/ SubmitReadAnswers(r)
    \/ SubmitWrite(r)
    \/ GradeWrite(r)
    \/ RequestDies(r)

Next ==
    \/ \E r \in Requests : RequestStep(r)
    \/ \E k \in Keys, limit \in Numbers \cup {None}, open \in BOOLEAN :
          Update(k, limit, open)
    \/ \E k \in Keys : RemoveAssignment(k)

Spec == Init /\ [][Next]_vars

-----------------------------------------------------------------------------
(***************************************************************************)
(* What the code keeps whatever the interleaving.                          *)
(***************************************************************************)

\* Attempts are numbered 1, 2, 3, ... without a gap, although the number is
\* computed from a count that may be stale (submissions.service.ts:99).
AttemptsContiguous ==
    \A k \in Keys : \A n \in Numbers :
        Exists(k, n) => \A m \in 1 .. n : Exists(k, m)

\* Nobody gets more attempts than the highest limit there ever was, however
\* many requests race: only the unique attemptNo stops them.
WithinCeiling ==
    \A k \in Keys : \A n \in Numbers :
        Exists(k, n) /\ ceiling[k] # None => n <= ceiling[k]

\* An attempt that was handed in is never a draft again, and no attempt goes
\* away but with its assignment.  Which of the other statuses it has is not
\* for good: of two submits that overlap, one may have read another mode.
NeverDraftAgain ==
    [][\A k \in Keys : \A n \in Numbers : Exists(k, n) /\ k \notin removed' =>
          /\ attempt'[k][n] # None
          /\ attempt[k][n].status # "IN_PROGRESS" =>
                attempt'[k][n].status # "IN_PROGRESS"]_vars

-----------------------------------------------------------------------------
(***************************************************************************)
(* What it keeps as long as no two requests for the same student and       *)
(* assignment are in flight together.                                      *)
(***************************************************************************)

\* There is at most one draft, and it is the latest attempt; without a limit,
\* or with a limit of one, there is one attempt in all.
OneDraftWithoutOverlap ==
    \A k \in Keys \ overlapped :
        /\ \A d \in Draft(k) : \A n \in Numbers : Exists(k, n) => n <= d
        /\ k \notin generous => \A n \in Numbers : Exists(k, n) => n = 1

\* Answers stand once handed in, and a grade is not taken back by anything
\* but another grade; an automatic grade is the worth of the answers.
HandedInStands ==
    [][\A k \in Keys \ (overlapped \cup removed') : \A n \in Finished(k) :
          /\ attempt'[k][n].answers = attempt[k][n].answers
          /\ attempt[k][n].status = "GRADED" => attempt'[k][n].status = "GRADED"
          /\ attempt[k][n].status = "AUTO_GRADED" =>
                attempt[k][n].scoreXp = attempt[k][n].answers]_vars

\* A student has the attempts numbered 1 to n for an n within the limits
\* there were.
NumberedWithinLimits == AttemptsContiguous /\ WithinCeiling

\* One sheet at a time, which stands when it is handed in.
OneSheetThatStands == []OneDraftWithoutOverlap /\ HandedInStands

-----------------------------------------------------------------------------
(***************************************************************************)
(* What a comment says and the code does not keep.                         *)
(***************************************************************************)

\* src/submissions/submissions.service.ts:89, "Default: one completed attempt
\* is enough -- no silent retakes": with no limit set, or a limit of one,
\* there is one completed attempt at most.  A request that found no draft
\* before another created it counts that draft and opens a second attempt.
NoSilentRetakes ==
    \A k \in Keys \ generous : \A m, n \in Finished(k) : m = n

=============================================================================
