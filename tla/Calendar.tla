------------------------------ MODULE Calendar ------------------------------
(***************************************************************************)
(* The calendar of a course: lessons with a date and homework with a       *)
(* deadline are mirrored as CourseEvent rows by LessonsService and         *)
(* AssignmentsService, edited the other way round by CourseEventsService,  *)
(* and filled in by the listing.  None of these is a transaction: every    *)
(* statement is a step (a read that only checks that a row exists is taken *)
(* together with the statement after it).                                  *)
(*                                                                         *)
(* A date stands for what is copied along with it: title, end, link.  All  *)
(* lessons and assignments belong to one course, staff exist, the window   *)
(* of the listing covers every date.                                       *)
(***************************************************************************)
EXTENDS Integers, FiniteSets

CONSTANTS
    Lessons,
    Assignments,
    Requests,    \* slots for HTTP requests that can be in flight together
    MaxTime,     \* bound: dates are 1 .. MaxTime
    MaxEvents,   \* bound: events ever created
    MaxCalls,    \* bound: requests ever started
    None         \* no row, no link, no date, no request

ASSUME CalendarAssumption ==
    /\ MaxTime \in Nat \ {0} /\ MaxEvents \in Nat /\ MaxCalls \in Nat
    /\ Lessons \cap Assignments = {}

Dates == 1 .. MaxTime
Ids   == 1 .. MaxEvents      \* in the order of createdAt

VARIABLES
    lesson,    \* lesson[l]: the Lesson row
    homework,  \* homework[a]: the Assignment row
    event,     \* event[i]: the CourseEvent row
    created,   \* events ever created
    request,   \* requests in flight
    calls

VARIABLES      \* history, read by no action
    overlapped, \* two requests were in flight together at some time
    broken,     \* a request stopped half way, refused or dead
    byHand      \* a deadline was entered or edited in the calendar itself

tables  == <<lesson, homework, event, created>>
history == <<overlapped, broken, byHand>>
vars    == <<tables, request, calls, history>>

Lesson   == [scheduledAt : Dates \cup {None}]
Homework == [lesson : Lessons \cup {None}, dueAt : Dates \cup {None}]
Event    == [type : {"LIVE", "DEADLINE"}, startsAt : Dates,
             lesson : Lessons \cup {None}, assignment : Assignments \cup {None}]

Statement ==
    {"findLive", "deleteEvent", "writeLive", "findLinked", "findDeadline",
     "writeDeadline", "deleteLesson",
     "moveEvent", "relinkEvent", "removeEvent", "deleteOthers", "clearLesson",
     "setLesson",
     "readHomework", "findDeadlineOf", "saveDeadline", "deleteHomework",
     "listLives", "addLives", "listHomework", "listDeadlines", "dropExtras",
     "addDeadlines", "answer"}

\* lesson, assignment: what it is about; event: the row found or written;
\* type, at: values given or read; endsFirst: the end given is
\* not after the start; was: the lesson the event was live
\* for; plan: the rows a loop has still to write; doomed: the extras found;
\* alone: no other request was in flight since it started.
InFlight ==
    [next : Statement,
     lesson : Lessons \cup {None},
     assignment : Assignments \cup {None},
     event : Ids \cup {None},
     type : {"LIVE", "DEADLINE"},
     at : Dates \cup {None},
     endsFirst : BOOLEAN,
     was : Lessons \cup {None},
     plan : [Lessons \cup Assignments -> Dates \cup {None}],
     doomed : SUBSET Ids,
     alone : BOOLEAN]

ASSUME NoneAssumption ==
    None \notin Lessons \cup Assignments \cup Int \cup Lesson \cup Homework \cup Event \cup InFlight

TypeOK ==
    /\ lesson \in [Lessons -> Lesson \cup {None}]
    /\ homework \in [Assignments -> Homework \cup {None}]
    /\ event \in [Ids -> Event \cup {None}]
    /\ created \in 0 .. MaxEvents
    /\ request \in [Requests -> InFlight \cup {None}]
    /\ calls \in 0 .. MaxCalls
    /\ history \in BOOLEAN \X BOOLEAN \X BOOLEAN

NoDate == [scheduledAt |-> None]

\* All rows exist, without a date and without an event: creating one is
\* saving it for the first time.  A removed row does not come back.
Init ==
    /\ lesson = [l \in Lessons |-> NoDate]
    /\ homework \in [Assignments -> [lesson : Lessons \cup {None}, dueAt : {None}]]
    /\ event = [i \in Ids |-> None]
    /\ created = 0
    /\ request = [r \in Requests |-> None]
    /\ calls = 0
    /\ overlapped = FALSE
    /\ broken = FALSE
    /\ byHand = FALSE

-----------------------------------------------------------------------------
(***************************************************************************)
(* Requests and rows.                                                      *)
(***************************************************************************)

Busy(r) == request[r] # None

NoPlan == [k \in Lessons \cup Assignments |-> None]

Call ==
    [next |-> "findLive", lesson |-> None, assignment |-> None, event |-> None,
     type |-> "LIVE", at |-> None, endsFirst |-> FALSE, was |-> None, plan |-> NoPlan,
     doomed |-> {}, alone |-> \A q \in Requests : ~Busy(q)]

\* A call comes in; c is what it has still to do after this step, or None.
Start(r, c) ==
    /\ ~Busy(r)
    /\ calls < MaxCalls
    /\ calls' = calls + 1
    /\ request' = [q \in Requests |->
          IF q = r THEN c
          ELSE IF Busy(q) THEN [request[q] EXCEPT !.alone = FALSE] ELSE None]
    /\ overlapped' = (overlapped \/ \E q \in Requests : Busy(q))

At(r, s)  == Busy(r) /\ request[r].next = s
Goto(r, s) == request' = [request EXCEPT ![r].next = s]
Finish(r) == request' = [request EXCEPT ![r] = None]

\* A statement throws, or the rest is refused: what was written stays.
Fail(r) ==
    /\ Finish(r)
    /\ broken' = TRUE
    /\ UNCHANGED <<tables, calls, overlapped, byHand>>

LivesOf(l)     == {i \in Ids : event[i] # None /\ event[i].type = "LIVE" /\ event[i].lesson = l}
DeadlinesOf(a) == {i \in Ids : event[i] # None /\ event[i].type = "DEADLINE" /\ event[i].assignment = a}

\* orderBy createdAt asc; None if there is no such row
Oldest(S) == IF S = {} THEN None ELSE CHOOSE i \in S : \A j \in S : i <= j

Insert(row) ==
    /\ created < MaxEvents
    /\ created' = created + 1
    /\ event' = [event EXCEPT ![created + 1] = row]

Delete(S) == event' = [i \in Ids |-> IF i \in S THEN None ELSE event[i]]

LinksExist(row) ==
    /\ row.lesson # None => lesson[row.lesson] # None
    /\ row.assignment # None => homework[row.assignment] # None

\* The rows of the loop that are left, and the loop without row k.
Left(r)       == {k \in Lessons \cup Assignments : request[r].plan[k] # None}
Without(r, k) == [request[r].plan EXCEPT ![k] = None]

\* dueAt ?? lesson.scheduledAt ?? null
HomeworkDate(a) ==
    LET h == homework[a] IN
    IF h = None THEN None
    ELSE IF h.dueAt # None THEN h.dueAt
    ELSE IF h.lesson # None THEN lesson[h.lesson].scheduledAt
    ELSE None

-----------------------------------------------------------------------------
(***************************************************************************)
(* LessonsService: create, update, remove; syncCalendarEvent.              *)
(***************************************************************************)

LessonSave(r, l, at, endsFirst) ==
    /\ lesson[l] # None
    /\ endsFirst => at # None
    /\ Start(r, [Call EXCEPT !.lesson = l, !.at = at, !.endsFirst = endsFirst])
    /\ lesson' = [lesson EXCEPT ![l] = [scheduledAt |-> at]]
    /\ UNCHANGED <<homework, event, created, broken, byHand>>

\* 'endsAt must be after scheduledAt': refused after the lesson was written
FindLive(r) ==
    LET q == request[r]
        found == Oldest(LivesOf(q.lesson))
    IN  /\ At(r, "findLive")
        /\ \/ /\ q.at = None /\ found = None
              /\ Finish(r)
              /\ UNCHANGED <<tables, calls, history>>
           \/ /\ ~q.endsFirst
              /\ q.at # None \/ found # None
              /\ request' = [request EXCEPT
                    ![r].next = IF q.at = None THEN "deleteEvent" ELSE "writeLive",
                    ![r].event = found]
              /\ UNCHANGED <<tables, calls, history>>
           \/ /\ q.endsFirst
              /\ Fail(r)

DeleteEvent(r) ==
    LET i == request[r].event IN
    /\ At(r, "deleteEvent")
    /\ \/ /\ event[i] # None
          /\ Delete({i})
          /\ Finish(r)
          /\ UNCHANGED <<lesson, homework, created, calls, history>>
       \/ /\ event[i] = None
          /\ Fail(r)

Live(at, l) == [type |-> "LIVE", startsAt |-> at, lesson |-> l, assignment |-> None]

WriteLive(r) ==
    LET q == request[r] IN
    /\ At(r, "writeLive")
    /\ \/ /\ q.event = None /\ lesson[q.lesson] # None
          /\ Insert(Live(q.at, q.lesson))
          /\ Goto(r, "findLinked")
          /\ UNCHANGED <<lesson, homework, calls, history>>
       \/ /\ q.event # None /\ event[q.event] # None
          /\ event' = [event EXCEPT ![q.event] = [@ EXCEPT !.type = "LIVE", !.startsAt = q.at]]
          /\ Goto(r, "findLinked")
          /\ UNCHANGED <<lesson, homework, created, calls, history>>
       \/ /\ IF q.event = None THEN lesson[q.lesson] = None ELSE event[q.event] = None
          /\ Fail(r)

FindLinked(r) ==
    LET q == request[r]
        linked == {a \in Assignments : /\ homework[a] # None
                                       /\ homework[a].lesson = q.lesson
                                       /\ homework[a].dueAt = None}
    IN  /\ At(r, "findLinked")
        /\ IF linked = {}
             THEN Finish(r)
             ELSE request' = [request EXCEPT
                    ![r].next = "findDeadline",
                    ![r].plan = [k \in Lessons \cup Assignments |->
                                   IF k \in linked THEN q.at ELSE None]]
        /\ UNCHANGED <<tables, calls, history>>

\* findFirst without an order
FindDeadline(r) ==
    /\ At(r, "findDeadline")
    /\ \E a \in Left(r) :
         \E i \in (IF DeadlinesOf(a) = {} THEN {None} ELSE DeadlinesOf(a)) :
            request' = [request EXCEPT ![r].next = "writeDeadline",
                                       ![r].assignment = a, ![r].event = i]
    /\ UNCHANGED <<tables, calls, history>>

Deadline(at, l, a) == [type |-> "DEADLINE", startsAt |-> at, lesson |-> l, assignment |-> a]

WriteDeadline(r) ==
    LET q == request[r]
        row == Deadline(q.at, q.lesson, q.assignment)
        NextRow == IF Without(r, q.assignment) = NoPlan
                     THEN Finish(r)
                     ELSE request' = [request EXCEPT ![r].next = "findDeadline",
                                                     ![r].plan = Without(r, q.assignment)]
    IN  /\ At(r, "writeDeadline")
        /\ \/ /\ q.event = None /\ LinksExist(row)
              /\ Insert(row)
              /\ NextRow
              /\ UNCHANGED <<lesson, homework, calls, history>>
           \/ /\ q.event # None /\ event[q.event] # None
              /\ event' = [event EXCEPT ![q.event].startsAt = q.at]
              /\ NextRow
              /\ UNCHANGED <<lesson, homework, created, calls, history>>
           \/ /\ IF q.event = None THEN ~LinksExist(row) ELSE event[q.event] = None
              /\ Fail(r)

\* The live events go first, then the lesson with its homework; the deadlines
\* of that homework stay and lose their links (ON DELETE SET NULL).
LessonRemove(r, l) ==
    /\ lesson[l] # None
    /\ Start(r, [Call EXCEPT !.next = "deleteLesson", !.lesson = l])
    /\ Delete(LivesOf(l))
    /\ UNCHANGED <<lesson, homework, created, broken, byHand>>

Unlinked(row, ls, as) ==
    [row EXCEPT !.lesson = IF @ \in ls THEN None ELSE @,
                !.assignment = IF @ \in as THEN None ELSE @]

Unlink(ls, as) ==
    event' = [i \in Ids |-> IF event[i] = None THEN None ELSE Unlinked(event[i], ls, as)]

DeleteLesson(r) ==
    LET l == request[r].lesson
        gone == {a \in Assignments : homework[a] # None /\ homework[a].lesson = l}
    IN  /\ At(r, "deleteLesson")
        /\ \/ /\ lesson[l] # None
              /\ lesson' = [lesson EXCEPT ![l] = None]
              /\ homework' = [a \in Assignments |-> IF a \in gone THEN None ELSE homework[a]]
              /\ Unlink({l}, gone)
              /\ Finish(r)
              /\ UNCHANGED <<created, calls, history>>
           \/ /\ lesson[l] = None
              /\ Fail(r)

-----------------------------------------------------------------------------
(***************************************************************************)
(* CourseEventsService: create, update, remove; syncLessonFromEvent.       *)
(***************************************************************************)

MirrorsLesson(row) == row.type = "LIVE" /\ row.lesson # None

EventCreate(r, row) ==
    /\ LinksExist(row)
    /\ Insert(row)
    /\ Start(r, IF MirrorsLesson(row)
                  THEN [Call EXCEPT !.next = "deleteOthers", !.event = created + 1,
                                    !.lesson = row.lesson, !.at = row.startsAt]
                  ELSE None)
    /\ byHand' = (byHand \/ row.type = "DEADLINE")
    /\ UNCHANGED <<lesson, homework, broken>>

LiveFor(row) == IF row.type = "LIVE" THEN row.lesson ELSE None

\* The calendar's form sends a type and a date, and a lesson unless it leaves
\* the link as it is; the assignment is not sent.
EventUpdate(r, i, s, type, at, l) ==
    /\ event[i] # None
    /\ l # None => lesson[l] # None
    /\ Start(r, [Call EXCEPT !.next = s, !.event = i, !.type = type, !.at = at,
                              !.lesson = l, !.was = LiveFor(event[i])])
    /\ byHand' = (byHand \/ type = "DEADLINE" \/ event[i].type = "DEADLINE")
    /\ UNCHANGED <<tables, broken>>

EventMove(r, i, type, at)      == EventUpdate(r, i, "moveEvent", type, at, None)
EventRelink(r, i, type, at, l) == EventUpdate(r, i, "relinkEvent", type, at, l)

UpdateEvent(r) ==
    LET q == request[r]
        to == IF q.next = "moveEvent" THEN event[q.event].lesson ELSE q.lesson
        row == [event[q.event] EXCEPT !.type = q.type, !.startsAt = q.at, !.lesson = to]
        relinked == q.next = "relinkEvent" /\ q.lesson # None
    IN  /\ At(r, "moveEvent") \/ At(r, "relinkEvent")
        /\ \/ /\ event[q.event] # None /\ (relinked => lesson[q.lesson] # None)
              /\ event' = [event EXCEPT ![q.event] = row]
              /\ IF LiveFor(row) = None /\ q.was = None
                   THEN Finish(r)
                   ELSE request' = [request EXCEPT
                          ![r].next = IF MirrorsLesson(row) THEN "deleteOthers" ELSE "clearLesson",
                          ![r].lesson = LiveFor(row)]
              /\ UNCHANGED <<lesson, homework, created, calls, history>>
           \/ /\ event[q.event] = None \/ (relinked /\ lesson[q.lesson] = None)
              /\ Fail(r)

DeleteOthers(r) ==
    LET q == request[r] IN
    /\ At(r, "deleteOthers")
    /\ Delete(LivesOf(q.lesson) \ {q.event})
    /\ Goto(r, IF q.was \notin {None, q.lesson} THEN "clearLesson" ELSE "setLesson")
    /\ UNCHANGED <<lesson, homework, created, calls, history>>

\* updateMany: a lesson that is gone is no error
ClearLesson(r) ==
    LET q == request[r] IN
    /\ At(r, "clearLesson")
    /\ lesson' = [lesson EXCEPT ![q.was] =
                     IF @ = None THEN None ELSE [@ EXCEPT !.scheduledAt = None]]
    /\ IF q.lesson = None THEN Finish(r) ELSE Goto(r, "setLesson")
    /\ UNCHANGED <<homework, event, created, calls, history>>

SetLesson(r) ==
    LET q == request[r] IN
    /\ At(r, "setLesson")
    /\ \/ /\ lesson[q.lesson] # None
          /\ lesson' = [lesson EXCEPT ![q.lesson].scheduledAt = q.at]
          /\ Goto(r, "answer")
          /\ UNCHANGED <<homework, event, created, calls, history>>
       \/ /\ lesson[q.lesson] = None
          /\ Fail(r)

EventRemove(r, i) ==
    /\ event[i] # None
    /\ Start(r, [Call EXCEPT !.next = "removeEvent", !.event = i, !.was = LiveFor(event[i])])
    /\ byHand' = (byHand \/ event[i].type = "DEADLINE")
    /\ UNCHANGED <<tables, broken>>

\* Mutant: the lesson keeps its date.
RemoveEventOnly(r) ==
    /\ At(r, "removeEvent")
    /\ Delete({request[r].event})
    /\ Finish(r)
    /\ UNCHANGED <<lesson, homework, created, calls, history>>

RemoveEvent(r) ==
    LET q == request[r] IN
    /\ At(r, "removeEvent")
    /\ \/ /\ event[q.event] # None
          /\ Delete({q.event})
          /\ IF q.was = None THEN Finish(r) ELSE Goto(r, "clearLesson")
          /\ UNCHANGED <<lesson, homework, created, calls, history>>
       \/ /\ event[q.event] = None
          /\ Fail(r)

-----------------------------------------------------------------------------
(***************************************************************************)
(* AssignmentsService: create, update, remove; syncDeadlineEvent.          *)
(***************************************************************************)

\* The lesson is chosen once, with the scope of the assignment.
HomeworkSave(r, a, due) ==
    /\ homework[a] # None
    /\ Start(r, [Call EXCEPT !.next = "readHomework", !.assignment = a])
    /\ homework' = [homework EXCEPT ![a].dueAt = due]
    /\ UNCHANGED <<lesson, event, created, broken, byHand>>

ReadHomework(r) ==
    LET a == request[r].assignment IN
    /\ At(r, "readHomework")
    /\ IF homework[a] = None
         THEN Finish(r)
         ELSE request' = [request EXCEPT ![r].next = "findDeadlineOf",
                                         ![r].lesson = homework[a].lesson,
                                         ![r].at = HomeworkDate(a)]
    /\ UNCHANGED <<tables, calls, history>>

FindDeadlineOf(r) ==
    LET q == request[r]
        found == Oldest(DeadlinesOf(q.assignment))
    IN  /\ At(r, "findDeadlineOf")
        /\ IF q.at = None /\ found = None
             THEN Finish(r)
             ELSE request' = [request EXCEPT
                    ![r].next = IF q.at = None THEN "deleteEvent" ELSE "saveDeadline",
                    ![r].event = found]
        /\ UNCHANGED <<tables, calls, history>>

SaveDeadline(r) ==
    LET q == request[r]
        row == Deadline(q.at, q.lesson, q.assignment)
    IN  /\ At(r, "saveDeadline")
        /\ \/ /\ LinksExist(row)
              /\ \/ q.event = None /\ Insert(row)
                 \/ /\ q.event # None /\ event[q.event] # None
                    /\ event' = [event EXCEPT ![q.event] = row]
                    /\ UNCHANGED created
              /\ Finish(r)
              /\ UNCHANGED <<lesson, homework, calls, history>>
           \/ /\ ~LinksExist(row) \/ (q.event # None /\ event[q.event] = None)
              /\ Fail(r)

HomeworkRemove(r, a) ==
    /\ homework[a] # None
    /\ Start(r, [Call EXCEPT !.next = "deleteHomework", !.assignment = a])
    /\ Delete(DeadlinesOf(a))
    /\ UNCHANGED <<lesson, homework, created, broken, byHand>>

DeleteHomework(r) ==
    LET a == request[r].assignment IN
    /\ At(r, "deleteHomework")
    /\ \/ /\ homework[a] # None
          /\ homework' = [homework EXCEPT ![a] = None]
          /\ Unlink({}, {a})
          /\ Finish(r)
          /\ UNCHANGED <<lesson, created, calls, history>>
       \/ /\ homework[a] = None
          /\ Fail(r)

-----------------------------------------------------------------------------
(***************************************************************************)
(* The listing: backfillLessonLiveEvents, backfillAssignmentDeadlines.     *)
(***************************************************************************)

Continue(r, s, otherwise, plan) ==
    request' = [request EXCEPT ![r].next = IF plan = NoPlan THEN otherwise ELSE s,
                               ![r].plan = plan]

ListCalendar(r) ==
    LET dated == [k \in Lessons \cup Assignments |->
                    IF k \in Lessons /\ lesson[k] # None THEN lesson[k].scheduledAt ELSE None]
    IN  /\ Start(r, [Call EXCEPT !.next = IF dated = NoPlan THEN "listHomework" ELSE "listLives",
                                  !.plan = dated])
        /\ UNCHANGED <<tables, broken, byHand>>

ListLives(r) ==
    /\ At(r, "listLives")
    /\ Continue(r, "addLives", "listHomework",
                [k \in Lessons \cup Assignments |->
                   IF k \in Lessons /\ LivesOf(k) = {} THEN request[r].plan[k] ELSE None])
    /\ UNCHANGED <<tables, calls, history>>

AddLive(r, l) ==
    LET row == Live(request[r].plan[l], l) IN
    /\ At(r, "addLives")
    /\ l \in Left(r)
    /\ \/ /\ LinksExist(row)
          /\ Insert(row)
          /\ Continue(r, "addLives", "listHomework", Without(r, l))
          /\ UNCHANGED <<lesson, homework, calls, history>>
       \/ /\ ~LinksExist(row)
          /\ Fail(r)

ListHomework(r) ==
    /\ At(r, "listHomework")
    /\ Continue(r, "listDeadlines", "answer",
                [k \in Lessons \cup Assignments |->
                   IF k \in Assignments THEN HomeworkDate(k) ELSE None])
    /\ UNCHANGED <<tables, calls, history>>

\* Mutant: the newest deadline is taken for the extra one, and the only one, too.
AllExtras(r) == UNION {DeadlinesOf(a) : a \in Left(r)}

Extras(r) == UNION {DeadlinesOf(a) \ {Oldest(DeadlinesOf(a))} : a \in Left(r)}

ListDeadlines(r) ==
    /\ At(r, "listDeadlines")
    /\ request' = [request EXCEPT
          ![r].next = "dropExtras",
          ![r].doomed = Extras(r),
          ![r].plan = [k \in Lessons \cup Assignments |->
                         IF k \in Assignments /\ DeadlinesOf(k) = {} THEN @[k] ELSE None]]
    /\ UNCHANGED <<tables, calls, history>>

DropExtras(r) ==
    /\ At(r, "dropExtras")
    /\ Delete(request[r].doomed)
    /\ Goto(r, IF Left(r) = {} THEN "answer" ELSE "addDeadlines")
    /\ UNCHANGED <<lesson, homework, created, calls, history>>

AddDeadline(r, a) ==
    LET row == Deadline(request[r].plan[a],
                        IF homework[a] = None THEN None ELSE homework[a].lesson, a)
    IN  /\ At(r, "addDeadlines")
        /\ a \in Left(r)
        /\ \/ /\ LinksExist(row)
              /\ Insert(row)
              /\ Continue(r, "addDeadlines", "answer", Without(r, a))
              /\ UNCHANGED <<lesson, homework, calls, history>>
           \/ /\ ~LinksExist(row)
              /\ Fail(r)

\* The edited event, or the calendar as it now stands.
Answer(r) ==
    /\ At(r, "answer")
    /\ Finish(r)
    /\ UNCHANGED <<tables, calls, history>>

RequestDies(r) ==
    /\ Busy(r)
    /\ request[r].next # "answer"
    /\ Fail(r)

-----------------------------------------------------------------------------
Calls(r) ==
    \/ \E l \in Lessons :
          \/ \E at \in Dates \cup {None}, endsFirst \in BOOLEAN : LessonSave(r, l, at, endsFirst)
          \/ LessonRemove(r, l)
    \/ \E row \in Event : EventCreate(r, row)
    \/ \E i \in Ids :
          \/ EventRemove(r, i)
          \/ \E type \in {"LIVE", "DEADLINE"}, at \in Dates :
                \/ EventMove(r, i, type, at)
                \/ \E l \in Lessons \cup {None} : EventRelink(r, i, type, at, l)
    \/ \E a \in Assignments :
          \/ \E due \in Dates \cup {None} : HomeworkSave(r, a, due)
          \/ HomeworkRemove(r, a)
    \/ ListCalendar(r)

Statements(r) ==
    \/ FindLive(r) \/ DeleteEvent(r) \/ WriteLive(r)
    \/ FindLinked(r) \/ FindDeadline(r) \/ WriteDeadline(r)
    \/ DeleteLesson(r)
    \/ UpdateEvent(r) \/ DeleteOthers(r) \/ ClearLesson(r) \/ SetLesson(r)
    \/ RemoveEvent(r)
    \/ ReadHomework(r) \/ FindDeadlineOf(r) \/ SaveDeadline(r) \/ DeleteHomework(r)
    \/ ListLives(r) \/ (\E l \in Lessons : AddLive(r, l))
    \/ ListHomework(r) \/ ListDeadlines(r) \/ DropExtras(r)
    \/ (\E a \in Assignments : AddDeadline(r, a)) \/ Answer(r)

Next == \E r \in Requests : Calls(r) \/ Statements(r) \/ RequestDies(r)

Spec == Init /\ [][Next]_vars

-----------------------------------------------------------------------------
(***************************************************************************)
(* Properties.                                                             *)
(***************************************************************************)

AtRest == \A r \in Requests : ~Busy(r)

\* A lesson with a date has exactly one live event, on that date; a lesson
\* without one has none.
Mirrored(l) ==
    IF lesson[l] = None \/ lesson[l].scheduledAt = None
      THEN LivesOf(l) = {}
      ELSE \E i \in LivesOf(l) :
              LivesOf(l) = {i} /\ event[i].startsAt = lesson[l].scheduledAt

\* Calls that do not overlap and are not cut short keep lessons and calendar
\* the same, from whichever side they are edited.
CalendarMatchesLessons ==
    AtRest /\ ~overlapped /\ ~broken => \A l \in Lessons : Mirrored(l)

\* Homework has one deadline at most unless deadlines were entered by hand.
OneDeadline ==
    ~overlapped /\ ~byHand => \A a \in Assignments : Cardinality(DeadlinesOf(a)) <= 1

\* Whatever races and crashes there were before, a listing that runs alone
\* leaves every dated lesson with a live event and every dated homework with
\* exactly one deadline when it answers.
ListingHeals ==
    \A r \in Requests : At(r, "answer") /\ request[r].alone /\ request[r].event = None =>
        /\ \A l \in Lessons : lesson[l] # None /\ lesson[l].scheduledAt # None =>
              LivesOf(l) # {}
        /\ \A a \in Assignments : HomeworkDate(a) # None =>
              Cardinality(DeadlinesOf(a)) = 1

\* ... and so does an edit of a live event: its lesson ends up with this one
\* event, on its date.
LiveEditSettles ==
    \A r \in Requests : At(r, "answer") /\ request[r].alone /\ request[r].event # None =>
        Mirrored(request[r].lesson)

\* A call that runs alone repairs what races and crashes left, and homework
\* gets no second deadline as long as nothing raced.
CalendarHeals == ListingHeals /\ LiveEditSettles /\ OneDeadline

-----------------------------------------------------------------------------
(***************************************************************************)
(* What the documentation says and the code does not keep.                 *)
(***************************************************************************)

\* docs/superpowers/plans/2026-08-06-bugfix-calendar-hw-lessons.md:42, "If
\* `lessonId` set: `startsAt = dueAt ?? lesson.scheduledAt`": the deadline of
\* homework follows its lesson.  Moving the live event moves the lesson and
\* leaves the deadline where it was.
DeadlineFollowsLesson ==
    AtRest /\ ~overlapped /\ ~broken /\ ~byHand =>
        \A a \in Assignments : \A i \in DeadlinesOf(a) :
            event[i].startsAt = HomeworkDate(a) \/ HomeworkDate(a) = None

=============================================================================
