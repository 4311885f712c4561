------------------------------ MODULE Grading -------------------------------
(***************************************************************************)
(* The marks of one attempt at an assignment: saveAnswers, submit and      *)
(* grade of SubmissionsService, with the automatic grading of auto-grade.ts*)
(* Each call reads the attempt, checks its status and then writes answer   *)
(* by answer, outside any transaction.  An answer is the set of the options*)
(* chosen, or of the one number or text typed; {} is a blank answer.       *)
(***************************************************************************)
EXTENDS Integers, FiniteSetsExt, Functions

CONSTANTS
    AutoGraded,     \* questions graded automatically
    Open,           \* questions graded by a curator
    Answers,        \* answers given
    Keys,           \* correct answers of a question
    Points,         \* points of a question
    MaxXp,          \* XP of the assignment
    Tolerance,      \* numberTolerance
    Requests,       \* calls under way at a time
    MaxCalls,       \* bound: calls in all
    None

Questions == AutoGraded \cup Open

VARIABLES
    paper,      \* the questions asked, their kind, their key; a file is due
    status,     \* of the attempt
    answer,     \* answer[q]: the Answer row, its value and pointsAwarded
    score,      \* scorePoints and scoreXp, None before
    request,    \* request[r]: step, questions left, what was read and earned
    calls,      \* calls made
    calm        \* history: no two calls have overlapped

gradingVars == <<paper, status, answer, score, request, calls, calm>>

Statuses == {"IN_PROGRESS", "AUTO_GRADED", "PENDING_REVIEW", "GRADED"}
Written == [value : Answers, mark : 0 .. Points \cup {None}]
Rows == Written \cup {None}
Scores == [points : Nat, xp : Nat]
Calls == [op : {"save", "submit", "grade"}, step : {"read", "mark", "finish"},
          left : SUBSET Questions, seen : [Questions -> Rows], earned : Nat]

\* What the theorems assume of the constants, and Services of its own.
GoodConstants ==
    /\ IsFiniteSet(Questions) /\ AutoGraded \cap Open = {} /\ {} \in Answers
    /\ Points \in Nat /\ MaxXp \in Nat /\ MaxCalls \in Nat
    /\ None \notin 0 .. Points \cup Written \cup Scores \cup Calls

TypeOK ==
    /\ paper \in [asked : SUBSET Questions, type : {"CHOICE", "EXACT", "NUMBER"},
                  key : Keys, file : BOOLEAN]
    /\ status \in Statuses
    /\ answer \in [Questions -> Rows]
    /\ score \in Scores \cup {None}
    /\ request \in [Requests -> Calls \cup {None}]
    /\ calls \in 0 .. MaxCalls /\ calm \in BOOLEAN

Init ==
    /\ paper \in [asked : {{}, AutoGraded, Questions}, key : Keys, file : BOOLEAN,
                  type : {"CHOICE", "EXACT", "NUMBER"}]
    /\ paper.asked = {} => paper.file
    /\ status = "IN_PROGRESS"
    /\ answer = [q \in Questions |-> None] /\ score = None
    /\ request = [r \in Requests |-> None] /\ calls = 0 /\ calm = TRUE

-----------------------------------------------------------------------------
(***************************************************************************)
(* auto-grade.ts.                                                          *)
(***************************************************************************)
GradeChoice(keys, selected) == keys # {} /\ selected # {} /\ keys = selected

\* Number('') is 0: a blank answer is the number zero.
NumberOf(typed) == IF typed = {} THEN {0} ELSE typed
Near(m, n) == m - n <= Tolerance /\ n - m <= Tolerance

GradeShort(match, keys, typed) ==
    IF match = "EXACT" THEN typed \cap keys # {}
    ELSE \E n \in NumberOf(typed), k \in keys : Near(n, k)

\* Math.round of the share of maxXp.
ComputeScoreXp(maxXp, earned, total) ==
    IF total <= 0 \/ maxXp <= 0 \/ earned <= 0 THEN 0
    ELSE (2 * maxXp * earned + total) \div (2 * total)

Correct(value) ==
    IF paper.type = "CHOICE" THEN GradeChoice(paper.key, value)
    ELSE GradeShort(paper.type, paper.key, value)

Awarded(value) == IF Correct(value) THEN Points ELSE 0

-----------------------------------------------------------------------------
Total == Points * Cardinality(paper.asked)
Mark(row) == IF row = None \/ row.mark = None THEN 0 ELSE row.mark
SumOfMarks(rows, qs) == SumFunctionOnSet([q \in qs |-> Mark(rows[q])], qs)
HasOpen == paper.file \/ paper.asked \cap Open # {}

Begin(r, op, left) ==
    /\ request[r] = None /\ calls < MaxCalls
    /\ calls' = calls + 1
    /\ calm' = (calm /\ \A s \in Requests : request[s] = None)
    /\ request' = [request EXCEPT ![r] = [op |-> op, step |-> "read", left |-> left,
                                          seen |-> answer, earned |-> 0]]
    /\ UNCHANGED <<paper, status, answer, score>>

Continue(r, step, left, earned) ==
    request' = [request EXCEPT ![r].step = step, ![r].left = left, ![r].earned = earned]

End(r) == request' = [request EXCEPT ![r] = None]

\* saveAnswers: the status is checked once, the answers come one by one.
SaveAnswers(r) ==
    /\ status = "IN_PROGRESS"
    /\ \E qs \in SUBSET paper.asked : qs # {} /\ Begin(r, "save", qs)

\* update writes the value alone.
SaveAnswer(r, q, value) ==
    /\ request[r] # None
    /\ request[r].op = "save" /\ q \in request[r].left
    /\ answer' = [answer EXCEPT ![q] = [value |-> value, mark |-> IF @ = None THEN None ELSE @.mark]]
    /\ IF request[r].left = {q} THEN End(r)
       ELSE Continue(r, "read", request[r].left \ {q}, 0)
    /\ UNCHANGED <<paper, status, score, calls, calm>>

\* The server stops, or an answer of the list is refused.
Break(r) ==
    /\ request[r] # None
    /\ End(r) /\ calm' = FALSE
    /\ UNCHANGED <<paper, status, answer, score, calls>>

\* Mutant: an attempt can be handed in at any time.
SubmitAgain(r) == Begin(r, "submit", paper.asked \cap AutoGraded)

\* submit: the status, and later the answers, are read.
Submit(r) == status = "IN_PROGRESS" /\ Begin(r, "submit", paper.asked \cap AutoGraded)

ReadAnswers(r) ==
    /\ request[r] # None
    /\ request[r].op = "submit" /\ request[r].step = "read"
    /\ request' = [request EXCEPT ![r].seen = answer, ![r].step = "mark"]
    /\ UNCHANGED <<paper, status, answer, score, calls, calm>>

\* A question nobody answered gets an answer without a value.
MarkAnswer(r, q) ==
    /\ request[r] # None
    /\ request[r].op = "submit" /\ request[r].step = "mark" /\ q \in request[r].left
    /\ LET seen == request[r].seen[q]
           mark == IF seen = None THEN 0 ELSE Awarded(seen.value)
       IN /\ answer' = [answer EXCEPT ![q] = [value |-> IF @ = None THEN {} ELSE @.value,
                                              mark |-> mark]]
          /\ Continue(r, "mark", request[r].left \ {q}, request[r].earned + mark)
    /\ UNCHANGED <<paper, status, score, calls, calm>>

\* The points already earned count at once; open ones wait for review.
FinishSubmit(r) ==
    /\ request[r] # None
    /\ request[r].op = "submit" /\ request[r].step = "mark" /\ request[r].left = {}
    /\ status' = IF HasOpen THEN "PENDING_REVIEW" ELSE "AUTO_GRADED"
    /\ score' = [points |-> request[r].earned,
                 xp |-> ComputeScoreXp(MaxXp, request[r].earned, Total)]
    /\ End(r)
    /\ UNCHANGED <<paper, answer, calls, calm>>

\* grade: a graded attempt may be graded again.
Grade(r) ==
    /\ status \in {"PENDING_REVIEW", "GRADED"}
    /\ Begin(r, "grade", paper.asked \cap Open)

GradeAnswer(r, q, points) ==
    /\ request[r] # None
    /\ request[r].op = "grade" /\ q \in request[r].left
    /\ answer' = [answer EXCEPT ![q] = [value |-> IF @ = None THEN {} ELSE @.value,
                                        mark |-> points]]
    /\ Continue(r, "mark", request[r].left \ {q}, request[r].earned + points)
    /\ UNCHANGED <<paper, status, score, calls, calm>>

\* A paper without questions is graded in XP.
FinishGrade(r) ==
    /\ request[r] # None
    /\ request[r].op = "grade" /\ request[r].left = {}
    /\ status' = "GRADED"
    /\ LET earned == request[r].earned + SumOfMarks(request[r].seen, paper.asked \cap AutoGraded)
       IN IF Total > 0
          THEN score' = [points |-> earned, xp |-> ComputeScoreXp(MaxXp, earned, Total)]
          ELSE \E xp \in 0 .. MaxXp + 1 :
                  score' = [points |-> xp, xp |-> IF xp < MaxXp THEN xp ELSE MaxXp]
    /\ End(r)
    /\ UNCHANGED <<paper, answer, calls, calm>>

Next ==
    \E r \in Requests :
        \/ SaveAnswers(r) \/ Submit(r) \/ Grade(r) \/ Break(r)
        \/ \E q \in Questions, value \in Answers : SaveAnswer(r, q, value)
        \/ ReadAnswers(r) \/ FinishSubmit(r) \/ FinishGrade(r)
        \/ \E q \in Questions : MarkAnswer(r, q)
        \/ \E q \in Open, points \in 0 .. Points : GradeAnswer(r, q, points)

Spec == Init /\ [][Next]_gradingVars

-----------------------------------------------------------------------------
(***************************************************************************)
(* Properties.                                                             *)
(***************************************************************************)
Idle == \A r \in Requests : request[r] = None

\* The mark the stored answer deserves, no more and no less.  (A question
\* nobody answered is not graded: its row has no value and no points.)
Deserved(row) == row.mark = Awarded(row.value) \/ (row.value = {} /\ row.mark = 0)

\* The score of an attempt is the sum of the marks of its answers, and each
\* automatic mark is the one its stored answer deserves: a right answer has
\* its points and a wrong one none.  This is of calls that do not overlap:
\* an answer saved while the attempt is handed in keeps the mark of the
\* answer it replaced.  A paper worth no points is graded in XP.
ScoreFitsAnswers ==
    calm /\ Idle /\ status # "IN_PROGRESS" =>
        /\ Total > 0 => score.points = SumOfMarks(answer, paper.asked)
        /\ score.xp <= MaxXp
        /\ \A q \in paper.asked \cap AutoGraded : Deserved(answer[q])

\* "Empty answer must never grant points" (auto-grade.ts).  A blank number
\* is graded as zero.
BlankEarnsNothing ==
    calm /\ status # "IN_PROGRESS" =>
        \A q \in AutoGraded : answer[q] # None /\ answer[q].value = {} => Mark(answer[q]) = 0

=============================================================================
