------------------------------ MODULE Mastery -------------------------------
(***************************************************************************)
(* What follows the grading of one student's work: the total XP and the    *)
(* rank it gives (XpService.syncBestAttempt, maybeNotifyRankUp), and the   *)
(* mastery of the topic the assignments belong to (TopicMasteryService).   *)
(* Each grading reads everything again and writes what it computed, after  *)
(* the score is stored and outside its transaction: gradings of two        *)
(* assignments of the topic may write in the other order.                  *)
(***************************************************************************)
EXTENDS Integers, FiniteSetsExt, Functions

CONSTANTS
    Assignments,    \* assignments linked to the topic
    Full,           \* points of each assignment, and its maxXp
    Ranks,          \* minXp of the ranks above the first
    Requests,       \* gradings under way at a time
    MaxGradings,    \* bound: gradings in all
    None

VARIABLES
    points,     \* points[a]: best points over the graded attempts, None before
    best,       \* best[a]: XP credited (AssignmentBestXp)
    mastery,    \* the TopicMastery row
    graph,      \* the graph: mastery of the topic, assignments struggled with
    request,    \* request[r]: step, assignment, what was read
    linked,     \* assignments linked to the topic
    gradings,   \* gradings begun
    reached,    \* history: ranks entered from below
    told,       \* RANK_UP notices
    calm        \* history: gradings have not overlapped, and none has stopped

masteryVars == <<points, best, mastery, graph, request, linked, gradings, reached, told, calm>>

Percentages == 0 .. 100
Topic == [pct : Percentages, struggling : BOOLEAN]
Steps == {"xp", "credit", "rank", "event", "topic", "upsert"}
Calls == [step : Steps, of : Assignments, before : Nat, best : 0 .. Full, topic : Topic]

\* What the theorems assume of the constants, and Services of its own: the
\* assignments are worth points.
GoodConstants ==
    /\ IsFiniteSet(Assignments) /\ Full \in Nat \ {0} /\ MaxGradings \in Nat
    /\ None \notin 0 .. Full \cup Topic \cup Calls

TypeOK ==
    /\ points \in [Assignments -> 0 .. Full \cup {None}]
    /\ best \in [Assignments -> 0 .. Full]
    /\ mastery \in Topic \cup {None}
    /\ graph \in [topic : Topic \cup {None}, struggles : SUBSET Assignments]
    /\ request \in [Requests -> Calls \cup {None}]
    /\ linked \subseteq Assignments
    /\ gradings \in 0 .. MaxGradings
    /\ reached \in Nat /\ told \in Nat /\ calm \in BOOLEAN

Init ==
    /\ points = [a \in Assignments |-> None] /\ best = [a \in Assignments |-> 0]
    /\ mastery = None /\ graph = [topic |-> None, struggles |-> {}]
    /\ request = [r \in Requests |-> None]
    /\ linked \in SUBSET Assignments
    /\ gradings = 0 /\ reached = 0 /\ told = 0 /\ calm = TRUE

-----------------------------------------------------------------------------
Total == SumFunctionOnSet(best, Assignments)
RankOf(total) == Cardinality({m \in Ranks : total >= m})
Best(a) == IF points[a] = None THEN 0 ELSE points[a]

\* Less than a quarter of the points: STRUGGLE_THRESHOLD.
Struggles(p) == 4 * p < Full

\* Mutant: the share is of one assignment's points.
MasteredOfOne ==
    LET done == {a \in linked : points[a] # None}
        sum  == SumFunctionOnSet(points, done)
    IN [pct |-> IF done = {} THEN 0 ELSE (200 * sum + Full) \div (2 * Full),
        struggling |-> \E a \in done : Struggles(points[a])]

\* masteryFromScores over the assignments with a graded attempt, rounded.
Mastered ==
    LET done == {a \in linked : points[a] # None}
        sum  == SumFunctionOnSet(points, done)
        n    == Full * Cardinality(done)
    IN [pct |-> IF done = {} THEN 0 ELSE (200 * sum + n) \div (2 * n),
        struggling |-> \E a \in done : Struggles(points[a])]

Nothing == [pct |-> 0, struggling |-> FALSE]

\* submit or grade stores a score: the best of the attempts may also fall.
StoreScore(r, a, p) ==
    /\ request[r] = None /\ gradings < MaxGradings
    /\ gradings' = gradings + 1
    /\ points' = [points EXCEPT ![a] = p]
    /\ calm' = (calm /\ \A s \in Requests : request[s] = None)
    /\ request' = [request EXCEPT ![r] =
         [step |-> "xp", of |-> a, before |-> 0, best |-> 0, topic |-> Nothing]]
    /\ UNCHANGED <<best, mastery, graph, linked, reached, told>>

At(r, step) == request[r] # None /\ request[r].step = step

\* previousTotal and the graded attempts.
ReadXp(r) ==
    /\ At(r, "xp")
    /\ request' = [request EXCEPT ![r].step = "credit", ![r].before = Total,
                                  ![r].best = Best(request[r].of)]
    /\ UNCHANGED <<points, best, mastery, graph, linked, gradings, reached, told, calm>>

\* The transaction: the difference goes to the balance.
CreditXp(r) ==
    /\ At(r, "credit")
    /\ best' = [best EXCEPT ![request[r].of] = request[r].best]
    /\ reached' = reached + (IF RankOf(Total') > RankOf(Total) THEN 1 ELSE 0)
    /\ request' = [request EXCEPT ![r].step = "rank"]
    /\ UNCHANGED <<points, mastery, graph, linked, gradings, told, calm>>

\* maybeNotifyRankUp, by the total of now and the total of before.
TellRank(r) ==
    /\ At(r, "rank")
    /\ told' = told + (IF RankOf(Total) > RankOf(request[r].before) THEN 1 ELSE 0)
    /\ request' = [request EXCEPT ![r].step = "event"]
    /\ UNCHANGED <<points, best, mastery, graph, linked, gradings, reached, calm>>

\* The event of a grade adds the struggle or takes it back.
Marked(a) == IF Struggles(Best(a)) THEN graph.struggles \cup {a} ELSE graph.struggles \ {a}

\* recomputeForUserAssignment: nothing for an assignment without topics,
\* else its SUBMISSION_GRADED event.
GradedEvent(r) ==
    /\ At(r, "event")
    /\ LET a == request[r].of
       IN IF a \in linked
          THEN /\ graph' = [graph EXCEPT !.struggles = Marked(a)]
               /\ request' = [request EXCEPT ![r].step = "topic"]
          ELSE /\ request' = [request EXCEPT ![r] = None]
               /\ UNCHANGED graph
    /\ UNCHANGED <<points, best, mastery, linked, gradings, reached, told, calm>>

\* recomputeTopic reads all assignments of the topic ...
ReadTopic(r) ==
    /\ At(r, "topic")
    /\ request' = [request EXCEPT ![r].step = "upsert", ![r].topic = Mastered]
    /\ UNCHANGED <<points, best, mastery, graph, linked, gradings, reached, told, calm>>

\* Mutant: the row is written without its event.
UpsertRow(r) ==
    /\ At(r, "upsert")
    /\ mastery' = request[r].topic
    /\ request' = [request EXCEPT ![r] = None]
    /\ UNCHANGED <<points, best, graph, linked, gradings, reached, told, calm>>

\* ... and later writes the row and its event in one transaction.
UpsertMastery(r) ==
    /\ At(r, "upsert")
    /\ mastery' = request[r].topic
    /\ graph' = [graph EXCEPT !.topic = request[r].topic]
    /\ request' = [request EXCEPT ![r] = None]
    /\ UNCHANGED <<points, best, linked, gradings, reached, told, calm>>

\* The server stops, or a write fails: the rest of the grading never happens.
Stop(r) ==
    /\ request[r] # None
    /\ request' = [request EXCEPT ![r] = None]
    /\ calm' = FALSE
    /\ UNCHANGED <<points, best, mastery, graph, linked, gradings, reached, told>>

Next ==
    \E r \in Requests :
        \/ \E a \in Assignments, p \in 0 .. Full : StoreScore(r, a, p)
        \/ ReadXp(r) \/ CreditXp(r) \/ TellRank(r)
        \/ GradedEvent(r) \/ ReadTopic(r) \/ UpsertMastery(r)
        \/ Stop(r)

Spec == Init /\ [][Next]_masteryVars

-----------------------------------------------------------------------------
(***************************************************************************)
(* Properties.                                                             *)
(***************************************************************************)
Idle == \A r \in Requests : request[r] = None

\* Gradings that do not overlap leave the mastery, its copy in the graph and
\* the struggles there as the grades are.
MasteryFollowsGrades ==
    calm /\ Idle =>
        /\ (\E a \in linked : points[a] # None) => mastery = Mastered
        /\ graph.topic = mastery
        /\ graph.struggles = {a \in linked : points[a] # None /\ Struggles(points[a])}

\* The graph never disagrees with the table, whatever overlaps or stops.
GraphFollowsTable == graph.topic = mastery

\* Each rise in rank is told once; two gradings together may both tell it.
RankToldOnce == calm /\ Idle => told = reached

=============================================================================
