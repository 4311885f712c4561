----------------------------- MODULE Engagement -----------------------------
(***************************************************************************)
(* What the school keeps of one student's work on one lesson: the          *)
(* LessonEngagement row that the student's page (EngagementService.record),*)
(* the curators (setAttendance) and support (setLessonComplete) write, and *)
(* the edges of the graph it is copied to.  Every writer reads the row and *)
(* then writes back what it read together with what it adds, in a          *)
(* transaction that locks nothing: another may commit in between.          *)
(***************************************************************************)
EXTENDS Naturals

CONSTANTS
    Requests,       \* requests under way at a time
    Percents,       \* watched percentages the page may report
    CompletePct,    \* COMPLETE_PCT, 80
    None

\* What the theorems assume of the constants, and Services of its own.
GoodConstants ==
    /\ CompletePct \in Nat /\ Percents \subseteq Nat
    /\ None \notin {"AUTO", "CURATOR"}

Edges == {"VIEWED", "COMPLETED", "SKIPPED"}

VARIABLES
    row,        \* the LessonEngagement row
    edges,      \* edges of the graph, when its events are delivered
    active,     \* the student's enrolment is ACTIVE
    request,    \* request[r]: what it does and the row it read
    sheet,      \* the attendance tab: the completion shown, and its request
    credited,   \* history: completed, and not revoked since
    watched,    \* history: the largest percentage acknowledged
    calm        \* history: no writer has overwritten a row it had not read

engagementVars == <<row, edges, active, request, sheet, credited, watched, calm>>

\* completedAt and completedBy are two columns.
Rows == [exists : BOOLEAN, max : Nat, viewed : BOOLEAN, completed : BOOLEAN,
         by : {"AUTO", "CURATOR", None}, skipped : BOOLEAN]
NoRow == [exists |-> FALSE, max |-> 0, viewed |-> FALSE, completed |-> FALSE,
          by |-> None, skipped |-> FALSE]

Records == {"VIEW", "COMPLETE", "SKIP"}
Grants  == {"COMPLETE", "ATTEND", "SUPPORT"}
Revokes == {"UNATTEND", "UNSUPPORT"}
Operations == Records \cup Grants \cup Revokes

TypeOK ==
    /\ row \in Rows
    /\ edges \subseteq Edges
    /\ {active, credited, calm} \subseteq BOOLEAN
    /\ request \in [Requests -> [op : Operations, pct : Nat, seen : Rows] \cup {None}]
    /\ sheet \in [done : BOOLEAN, busy : Requests \cup {None}]
    /\ watched \in Nat

Init ==
    /\ row = NoRow /\ edges = {} /\ active = TRUE
    /\ request = [r \in Requests |-> None]
    /\ sheet = [done |-> FALSE, busy |-> None]
    /\ credited = FALSE /\ watched = 0 /\ calm = TRUE

-----------------------------------------------------------------------------
Larger(m, n) == IF m >= n THEN m ELSE n

\* A VIEW of enough is a COMPLETE.
Kind(type, pct) == IF type = "VIEW" /\ pct >= CompletePct THEN "COMPLETE" ELSE type

\* COMPLETE without a percentage stands for enough.
RecordRead(r, type, pct) ==
    /\ request[r] = None /\ active
    /\ type = "COMPLETE" => pct >= CompletePct
    /\ request' = [request EXCEPT ![r] = [op |-> Kind(type, pct), pct |-> pct, seen |-> row]]
    /\ UNCHANGED <<row, edges, active, sheet, credited, watched, calm>>

\* Attendance asks for an ACTIVE enrolment; support's own call does not.
StaffRead(r, op) ==
    /\ request[r] = None
    /\ op \in {"ATTEND", "UNATTEND"} => active
    /\ request' = [request EXCEPT ![r] = [op |-> op, pct |-> 0, seen |-> row]]

SupportRead(r) ==
    /\ \E op \in {"SUPPORT", "UNSUPPORT"} : StaffRead(r, op)
    /\ UNCHANGED <<row, edges, active, sheet, credited, watched, calm>>

\* One request of the tab at a time; it revokes only what it shows.
ClickAttendance(r, op) ==
    /\ sheet.busy = None
    /\ op = "UNATTEND" => sheet.done
    /\ StaffRead(r, op)
    /\ sheet' = [sheet EXCEPT !.busy = r]
    /\ UNCHANGED <<row, edges, active, credited, watched, calm>>

\* listAttendance: opening the tab, the answer of its request, a focus.
ReadSheet ==
    /\ sheet.busy # None => request[sheet.busy] = None
    /\ sheet' = [done |-> row.completed, busy |-> None]
    /\ UNCHANGED <<row, edges, active, request, credited, watched, calm>>

-----------------------------------------------------------------------------
\* The columns each operation writes; the rest of the row stays.
Recorded(seen, op, pct) ==
    [exists    |-> TRUE,
     max       |-> Larger(seen.max, pct),
     viewed    |-> op \in {"VIEW", "COMPLETE"} \/ seen.viewed,
     completed |-> op = "COMPLETE" \/ seen.completed,
     by        |-> IF op = "COMPLETE" /\ seen.by = None THEN "AUTO" ELSE seen.by,
     skipped   |-> op = "SKIP" \/ seen.skipped]

Granted(seen) ==
    [row EXCEPT !.exists = TRUE, !.viewed = TRUE, !.completed = TRUE, !.by = "CURATOR",
                !.max = Larger(seen.max, CompletePct)]

Revoked == [row EXCEPT !.completed = FALSE, !.by = None]

Attended(seen) == IF seen.completed THEN [row EXCEPT !.by = "CURATOR"] ELSE Granted(seen)

\* Processing a LESSON_ENGAGEMENT event merges edges and removes none.
Merged(r) ==
    edges \cup (IF r.viewed THEN {"VIEWED"} ELSE {})
          \cup (IF r.completed THEN {"COMPLETED"} ELSE {})
          \cup (IF r.skipped THEN {"SKIPPED"} ELSE {})

\* Mutant: the attendance tab tells the graph nothing.
EventOfRecords(op, seen, new) == IF op \in Records THEN Merged(new) ELSE edges

Event(op, seen, new) ==
    IF op \in Records THEN Merged(new)
    ELSE IF op = "SUPPORT" \/ (op = "ATTEND" /\ ~seen.completed)
         THEN Merged([viewed |-> TRUE, completed |-> TRUE, skipped |-> seen.skipped])
    ELSE IF op = "UNATTEND" /\ seen.completed
         THEN Merged([viewed |-> seen.viewed, completed |-> FALSE, skipped |-> seen.skipped])
    ELSE edges

Written(op, pct, seen) ==
    CASE op \in Records -> Recorded(seen, op, pct)
      [] op = "ATTEND" -> Attended(seen)
      [] op = "SUPPORT" -> Granted(seen)
      [] op \in Revokes -> IF seen.completed THEN Revoked ELSE row

\* A second row for the student and the lesson: its transaction fails.
Refused(q) == ~q.seen.exists /\ row.exists /\ q.op \notin Revokes

Refuse(r) ==
    /\ request[r] # None /\ Refused(request[r])
    /\ request' = [request EXCEPT ![r] = None]
    /\ calm' = FALSE
    /\ UNCHANGED <<row, edges, active, sheet, credited, watched>>

\* The row and its event in one transaction.
Write(r) ==
    /\ request[r] # None /\ ~Refused(request[r])
    /\ LET q == request[r]
           new == Written(q.op, q.pct, q.seen)
       IN /\ row' = new
          /\ edges' = Event(q.op, q.seen, new)
          /\ credited' = (q.op \in Grants \/ (credited /\ ~(q.op \in Revokes /\ q.seen.completed)))
          /\ watched' = IF q.op \in Records THEN Larger(watched, q.pct) ELSE watched
          /\ calm' = (calm /\ q.seen = row)
    /\ request' = [request EXCEPT ![r] = None]
    /\ UNCHANGED <<active, sheet>>

\* The enrolment is cancelled, or bought again.
Enrol == active' = ~active /\ UNCHANGED <<row, edges, request, sheet, credited, watched, calm>>

Next ==
    \/ \E r \in Requests :
        \/ \E type \in Records, pct \in Percents : RecordRead(r, type, pct)
        \/ SupportRead(r)
        \/ \E op \in {"ATTEND", "UNATTEND"} : ClickAttendance(r, op)
        \/ Write(r) \/ Refuse(r)
    \/ ReadSheet
    \/ Enrol

Spec == Init /\ [][Next]_engagementVars

-----------------------------------------------------------------------------
(***************************************************************************)
(* Properties.                                                             *)
(***************************************************************************)
\* A completed lesson counts as watched far enough, by whichever of its
\* writers it was completed and however their writes overlap.
CompletedIsWatched == row.completed => row.exists /\ row.viewed /\ row.max >= CompletePct

\* A lesson completed in the database is completed in the graph: no order of
\* the writers completes it without an event.
CompletedIsInGraph == row.completed => "COMPLETED" \in edges

\* Completion stands until somebody revokes it, its author is known, and no
\* acknowledged percentage is taken back, as long as no two writers overlap.
CreditStands ==
    calm => /\ row.completed = credited
            /\ (row.by # None) = row.completed
            /\ row.max >= watched

=============================================================================
