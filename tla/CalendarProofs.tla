---------------------------- MODULE CalendarProofs ----------------------------
(***************************************************************************)
(* Theorems about Calendar.  Both its properties are about calls that run  *)
(* alone, so the inductive invariant says of a call that has been alone    *)
(* since it started what it knows of the rows it has read or written       *)
(* (Knows), of a calendar that nothing has ever raced or broken which      *)
(* lessons are still out of step and why (Owed), and of every state which  *)
(* values a call holds (Sound) and that the foreign keys are kept.         *)
(***************************************************************************)
EXTENDS Calendar, WellFoundedInduction, FiniteSetTheorems, TLAPS

\* The statements of the listing, and those at which it holds homework.
Listing  == {"listLives", "addLives", "listHomework", "listDeadlines", "dropExtras", "addDeadlines"}
OnPlan   == {"findDeadline", "writeDeadline", "listDeadlines", "dropExtras", "addDeadlines"}

\* What a call holds at each statement, whatever happened to the rows since.
Sound(q) ==
    /\ q.next \in {"findLive", "writeLive", "findLinked", "findDeadline", "writeDeadline",
                   "deleteLesson", "deleteOthers", "setLesson"} => q.lesson \in Lessons
    /\ q.next \in {"writeLive", "findLinked", "findDeadline", "writeDeadline", "saveDeadline",
                   "moveEvent", "relinkEvent", "deleteOthers", "setLesson"} => q.at \in Dates
    /\ q.next \in {"writeDeadline", "readHomework", "findDeadlineOf", "saveDeadline",
                   "deleteHomework"} => q.assignment \in Assignments
    /\ q.next \in {"deleteEvent", "moveEvent", "relinkEvent", "deleteOthers", "setLesson",
                   "removeEvent"} => q.event \in Ids
    /\ q.next = "findLive" => q.assignment = None
    /\ q.next = "removeEvent" => q.lesson = None
    /\ q.next = "deleteEvent" /\ q.assignment = None => q.lesson \in Lessons
    /\ q.next = "clearLesson" =>
          q.was \in Lessons /\ (q.lesson # None => q.event \in Ids /\ q.at \in Dates)
    /\ q.next = "answer" /\ q.event # None => q.lesson \in Lessons
    /\ q.next \in OnPlan =>
          \A k \in Lessons \cup Assignments : q.plan[k] # None => k \in Assignments
    /\ q.next \in {"listLives", "addLives"} =>
          \A k \in Lessons \cup Assignments : q.plan[k] # None => k \in Lessons
    /\ q.next \in Listing => q.event = None

\* The foreign keys: no row is linked to one that is gone.
Linked ==
    /\ \A i \in Ids : event[i] # None => LinksExist(event[i])
    /\ \A a \in Assignments :
          homework[a] # None /\ homework[a].lesson # None => lesson[homework[a].lesson] # None

\* The next event gets an identifier no event has.
NextIsFree == \A i \in Ids : i > created => event[i] = None

CallsSound == \A r \in Requests : Busy(r) => Sound(request[r])

TypeInv == TypeOK /\ Linked /\ NextIsFree /\ CallsSound

-----------------------------------------------------------------------------
(***************************************************************************)
(* What a call that is alone knows.                                        *)
(***************************************************************************)
AtMostOne(S) == \A i, j \in S : i = j

DateOf(l) == IF lesson[l] = None THEN None ELSE lesson[l].scheduledAt

\* The deadline of a that was found is one of a, or there is none.
FoundDeadline(q, a) ==
    IF q.event = None THEN DeadlinesOf(a) = {} ELSE q.event \in DeadlinesOf(a)

\* The event the call is about is live for l, at the date the call brings.
MovedHere(q, l) == q.event \in LivesOf(l) /\ event[q.event].startsAt = q.at

SettledHere(q, l) == LivesOf(l) = {q.event} /\ event[q.event].startsAt = q.at

LivesListed == \A l \in Lessons : DateOf(l) # None => LivesOf(l) # {}

\* Each homework with a date has one deadline, or none yet.
DeadlinesThinned ==
    \A a \in Assignments : HomeworkDate(a) # None =>
        DeadlinesOf(a) = {} \/ \E i \in Ids : DeadlinesOf(a) = {i}

\* The deadlines the loop has still to write are those that are missing.
PlanIsMissing(q) ==
    \A a \in Assignments :
        q.plan[a] = IF DeadlinesOf(a) = {} THEN HomeworkDate(a) ELSE None

KnowsLesson(q) ==
    /\ q.next \in {"findLive", "writeLive"} => lesson[q.lesson] = [scheduledAt |-> q.at]
    /\ q.next = "deleteEvent" /\ q.assignment = None => lesson[q.lesson] = NoDate

KnowsDeadline(q) ==
    \A a \in Assignments : a = q.assignment =>
        /\ q.next \in {"writeDeadline", "saveDeadline"} => FoundDeadline(q, a)
        /\ q.next = "deleteEvent" => q.event \in DeadlinesOf(a)

KnowsEvent(q) ==
    /\ q.next \in {"moveEvent", "relinkEvent", "removeEvent"} =>
          event[q.event] # None /\ q.was = LiveFor(event[q.event])
    /\ q.next = "clearLesson" => q.was # q.lesson
    /\ \A l \in Lessons : l = q.lesson =>
          /\ q.next = "deleteOthers" => MovedHere(q, l)
          /\ q.next \in {"clearLesson", "setLesson"} => SettledHere(q, l)
          /\ q.next = "answer" /\ q.event # None => Mirrored(l)

KnowsCalendar(q) ==
    /\ q.next = "listLives" => \A l \in Lessons : q.plan[l] = DateOf(l)
    /\ q.next = "addLives" =>
          /\ q.plan # NoPlan
          /\ \A l \in Lessons : q.plan[l] = IF LivesOf(l) = {} THEN DateOf(l) ELSE None
    /\ q.next \in {"listHomework", "listDeadlines", "dropExtras", "addDeadlines"} => LivesListed
    /\ q.next = "listDeadlines" => \A a \in Assignments : q.plan[a] = HomeworkDate(a)
    /\ q.next \in {"dropExtras", "addDeadlines"} => PlanIsMissing(q)
    /\ q.next = "dropExtras" =>
          /\ \A i \in q.doomed : event[i] # None /\ event[i].type = "DEADLINE"
          /\ \A a \in Assignments :
                IF HomeworkDate(a) = None
                  THEN DeadlinesOf(a) \cap q.doomed = {}
                  ELSE DeadlinesOf(a) # {} => \E i \in Ids : DeadlinesOf(a) \ q.doomed = {i}
    /\ q.next = "addDeadlines" => DeadlinesThinned
    /\ q.next = "answer" /\ q.event = None =>
          /\ LivesListed
          /\ \A a \in Assignments : HomeworkDate(a) # None =>
                \E i \in Ids : DeadlinesOf(a) = {i}

Knows(q) == KnowsLesson(q) /\ KnowsDeadline(q) /\ KnowsEvent(q) /\ KnowsCalendar(q)

AloneInv ==
    \A r \in Requests : Busy(r) /\ request[r].alone =>
        /\ \A p \in Requests : Busy(p) => p = r
        /\ Knows(request[r])

\* Where nothing ever overlapped, every call is alone.
NeverMet == ~overlapped => \A r \in Requests : Busy(r) => request[r].alone

-----------------------------------------------------------------------------
(***************************************************************************)
(* A calendar that nothing has raced or broken.                            *)
(***************************************************************************)
\* The call has still to bring l in step.
Owes(q, l) ==
    \/ l = q.lesson /\ q.next \in {"findLive", "writeLive", "deleteLesson", "deleteOthers",
                                   "clearLesson", "setLesson"}
    \/ l = q.lesson /\ q.next = "deleteEvent" /\ q.assignment = None
    \/ l = q.was /\ q.next \in {"deleteOthers", "clearLesson"}

\* How far l is out of step meanwhile.
OwedFor(q, l) ==
    /\ q.next = "findLive" => AtMostOne(LivesOf(l))
    /\ q.next = "deleteEvent" => LivesOf(l) = {q.event}
    /\ q.next = "writeLive" => LivesOf(l) = IF q.event = None THEN {} ELSE {q.event}
    /\ q.next = "deleteLesson" => LivesOf(l) = {}
    /\ q.next \in {"deleteOthers", "clearLesson"} /\ l # q.lesson => LivesOf(l) = {}

MirrorInv ==
    ~overlapped /\ ~broken =>
        /\ \A l \in Lessons : Mirrored(l) \/ \E r \in Requests : Busy(r) /\ Owes(request[r], l)
        /\ \A r \in Requests : Busy(r) =>
              /\ \A l \in Lessons : Owes(request[r], l) => OwedFor(request[r], l)
              /\ request[r].next # "addLives"

\* Homework gets a second deadline by hand only.
DeadlineInv ==
    ~overlapped /\ ~byHand =>
        /\ \A a \in Assignments : AtMostOne(DeadlinesOf(a))
        /\ \A r \in Requests :
              Busy(r) /\ request[r].next \in {"moveEvent", "relinkEvent"} =>
                  request[r].type = "LIVE"

IndInv == TypeInv /\ AloneInv /\ NeverMet /\ MirrorInv /\ DeadlineInv

-----------------------------------------------------------------------------
(***************************************************************************)
(* The rows, and what the statements do to them.                           *)
(***************************************************************************)
RowsInv ==
    /\ lesson \in [Lessons -> Lesson \cup {None}]
    /\ homework \in [Assignments -> Homework \cup {None}]
    /\ event \in [Ids -> Event \cup {None}]
    /\ created \in 0 .. MaxEvents
    /\ Linked
    /\ NextIsFree

LEMMA NoneIsNone ==
    /\ None \notin Lessons \cup Assignments \cup Lesson \cup Homework \cup Event \cup InFlight
    /\ None \notin Ids \cup Dates
    /\ \A l \in Lessons : l \notin Assignments
BY NoneAssumption, CalendarAssumption DEF Ids, Dates

LEMMA OldestOf ==
    ASSUME NEW S, S \subseteq Ids
    PROVE  IF S = {} THEN Oldest(S) = None ELSE Oldest(S) \in S
<1>1. CASE S = {}
  BY <1>1 DEF Oldest
<1>2. CASE S # {}
  <2>1. S \subseteq Nat
    BY CalendarAssumption DEF Ids
  <2>2. \E i \in S : \A j \in S : <<j, i>> \notin OpToRel(<, Nat)
    BY <2>1, <1>2, NatLessThanWellFounded, WFMin, Zenon
  <2>3. \E i \in S : \A j \in S : ~(j < i)
    BY <2>1, <2>2, Zenon DEF OpToRel
  <2>4. \E i \in S : \A j \in S : i <= j
    BY <2>1, <2>3
  <2> QED BY <1>2, <2>4, Zenon DEF Oldest
<1> QED BY <1>1, <1>2

LEMMA EventsAreIds ==
    /\ \A l : LivesOf(l) \subseteq Ids
    /\ \A a : DeadlinesOf(a) \subseteq Ids
BY DEF LivesOf, DeadlinesOf

\* Statements that write no row.
LEMMA SameRows ==
    ASSUME RowsInv, UNCHANGED tables
    PROVE  /\ RowsInv'
           /\ \A l \in Lessons : /\ LivesOf(l)' = LivesOf(l) /\ DateOf(l)' = DateOf(l)
                                 /\ Mirrored(l)' <=> Mirrored(l)
           /\ \A a \in Assignments : /\ DeadlinesOf(a)' = DeadlinesOf(a)
                                     /\ HomeworkDate(a)' = HomeworkDate(a)
<1>1. lesson' = lesson /\ homework' = homework /\ event' = event /\ created' = created
  BY DEF tables
<1>2. Linked' /\ NextIsFree'
  BY <1>1, Zenon DEF RowsInv, Linked, NextIsFree, LinksExist
<1>3. \A l \in Lessons : LivesOf(l)' = LivesOf(l) /\ DateOf(l)' = DateOf(l)
  BY <1>1 DEF LivesOf, DateOf
<1>4. \A l \in Lessons : Mirrored(l)' <=> Mirrored(l)
  BY <1>1, <1>3, Zenon DEF Mirrored
<1>5. \A a \in Assignments : DeadlinesOf(a)' = DeadlinesOf(a) /\ HomeworkDate(a)' = HomeworkDate(a)
  BY <1>1 DEF DeadlinesOf, HomeworkDate
<1> QED BY <1>1, <1>2, <1>3, <1>4, <1>5 DEF RowsInv

\* Dates stay where lessons and homework do.
LEMMA SameDates ==
    ASSUME UNCHANGED <<lesson, homework>>
    PROVE  /\ \A l \in Lessons : DateOf(l)' = DateOf(l)
           /\ \A a \in Assignments : HomeworkDate(a)' = HomeworkDate(a)
BY DEF DateOf, HomeworkDate

LEMMA DateTypes ==
    ASSUME RowsInv
    PROVE  /\ \A l \in Lessons : DateOf(l) \in Dates \cup {None}
           /\ \A a \in Assignments : HomeworkDate(a) \in Dates \cup {None}
<1>1. \A l \in Lessons : lesson[l] # None => lesson[l].scheduledAt \in Dates \cup {None}
  BY DEF RowsInv, Lesson
<1>2. \A a \in Assignments : homework[a] # None =>
         /\ homework[a].dueAt \in Dates \cup {None}
         /\ homework[a].lesson \in Lessons \cup {None}
         /\ homework[a].lesson # None => lesson[homework[a].lesson] # None
  BY DEF RowsInv, Linked, Homework
<1> QED BY <1>1, <1>2 DEF DateOf, HomeworkDate

LEMMA InsertRow ==
    ASSUME RowsInv, NEW row \in Event, LinksExist(row), Insert(row),
           UNCHANGED <<lesson, homework>>
    PROVE  /\ RowsInv'
           /\ created + 1 \in Ids /\ event[created + 1] = None /\ event'[created + 1] = row
           /\ \A i \in Ids : i # created + 1 => event'[i] = event[i]
           /\ \A l \in Lessons : LivesOf(l)' =
                 IF row.type = "LIVE" /\ row.lesson = l THEN LivesOf(l) \cup {created + 1}
                                                        ELSE LivesOf(l)
           /\ \A a \in Assignments : DeadlinesOf(a)' =
                 IF row.type = "DEADLINE" /\ row.assignment = a
                   THEN DeadlinesOf(a) \cup {created + 1} ELSE DeadlinesOf(a)
<1>1. created \in 0 .. MaxEvents /\ created < MaxEvents /\ MaxEvents \in Nat /\ created' = created + 1
  BY CalendarAssumption DEF RowsInv, Insert
<1>2. created + 1 \in Ids /\ event[created + 1] = None
  BY <1>1 DEF RowsInv, NextIsFree, Ids
<1>3. event' = [event EXCEPT ![created + 1] = row] /\ event \in [Ids -> Event \cup {None}]
  BY DEF Insert, RowsInv
<1>4. event'[created + 1] = row /\ \A i \in Ids : i # created + 1 => event'[i] = event[i]
  BY <1>2, <1>3
<1>5. row # None
  BY NoneIsNone
<1>6. \A l \in Lessons : LivesOf(l)' =
         IF row.type = "LIVE" /\ row.lesson = l THEN LivesOf(l) \cup {created + 1} ELSE LivesOf(l)
  BY <1>2, <1>4, <1>5 DEF LivesOf
<1>7. \A a \in Assignments : DeadlinesOf(a)' =
         IF row.type = "DEADLINE" /\ row.assignment = a
           THEN DeadlinesOf(a) \cup {created + 1} ELSE DeadlinesOf(a)
  BY <1>2, <1>4, <1>5 DEF DeadlinesOf
<1>8. RowsInv'
  <2>1. event' \in [Ids -> Event \cup {None}] /\ created' \in 0 .. MaxEvents
    BY <1>1, <1>2, <1>3
  <2>2. Linked'
    BY <1>4, Zenon DEF RowsInv, Linked, LinksExist
  <2>3. NextIsFree'
    BY <1>1, <1>4 DEF RowsInv, NextIsFree, Ids
  <2> QED BY <2>1, <2>2, <2>3 DEF RowsInv
<1> QED BY <1>2, <1>4, <1>6, <1>7, <1>8

LEMMA DeleteRows ==
    ASSUME RowsInv, NEW S, Delete(S), UNCHANGED <<lesson, homework, created>>
    PROVE  /\ RowsInv'
           /\ \A i \in Ids : event'[i] = IF i \in S THEN None ELSE event[i]
           /\ \A l \in Lessons : LivesOf(l)' = LivesOf(l) \ S
           /\ \A a \in Assignments : DeadlinesOf(a)' = DeadlinesOf(a) \ S
<1>1. event' = [i \in Ids |-> IF i \in S THEN None ELSE event[i]] /\ event \in [Ids -> Event \cup {None}]
  BY DEF Delete, RowsInv
<1>2. \A i \in Ids : event'[i] = IF i \in S THEN None ELSE event[i]
  BY <1>1
<1>3. \A l \in Lessons : LivesOf(l)' = LivesOf(l) \ S
  BY <1>2 DEF LivesOf
<1>4. \A a \in Assignments : DeadlinesOf(a)' = DeadlinesOf(a) \ S
  BY <1>2 DEF DeadlinesOf
<1>5. RowsInv'
  <2>1. event' \in [Ids -> Event \cup {None}]
    BY <1>1
  <2>2. Linked'
    BY <1>2, Zenon DEF RowsInv, Linked, LinksExist
  <2>3. NextIsFree'
    BY <1>2, Zenon DEF RowsInv, NextIsFree
  <2> QED BY <2>1, <2>2, <2>3 DEF RowsInv
<1> QED BY <1>2, <1>3, <1>4, <1>5

\* An event gets other values; it had a row.
LEMMA WriteRow ==
    ASSUME RowsInv, NEW n \in Ids, event[n] # None, NEW row \in Event, LinksExist(row),
           event' \in [Ids -> Event \cup {None}],
           event'[n] = row, \A i \in Ids : i # n => event'[i] = event[i],
           lesson' = lesson, homework' = homework, created' = created
    PROVE  /\ RowsInv'
           /\ \A l \in Lessons : LivesOf(l)' =
                 IF row.type = "LIVE" /\ row.lesson = l THEN LivesOf(l) \cup {n}
                                                        ELSE LivesOf(l) \ {n}
           /\ \A a \in Assignments : DeadlinesOf(a)' =
                 IF row.type = "DEADLINE" /\ row.assignment = a
                   THEN DeadlinesOf(a) \cup {n} ELSE DeadlinesOf(a) \ {n}
<1>1. event'[n] = row /\ \A i \in Ids : i # n => event'[i] = event[i]
  OBVIOUS
<1>2. row # None
  BY NoneIsNone
<1>3. \A l \in Lessons : LivesOf(l)' =
         IF row.type = "LIVE" /\ row.lesson = l THEN LivesOf(l) \cup {n} ELSE LivesOf(l) \ {n}
  BY <1>1, <1>2 DEF LivesOf
<1>4. \A a \in Assignments : DeadlinesOf(a)' =
         IF row.type = "DEADLINE" /\ row.assignment = a
           THEN DeadlinesOf(a) \cup {n} ELSE DeadlinesOf(a) \ {n}
  BY <1>1, <1>2 DEF DeadlinesOf
<1>5. RowsInv'
  <2>1. event' \in [Ids -> Event \cup {None}]
    BY DEF RowsInv
  <2>2. Linked'
    BY <1>1, Zenon DEF RowsInv, Linked, LinksExist
  <2>3. NextIsFree'
    BY <1>1, Zenon DEF RowsInv, NextIsFree
  <2> QED BY <2>1, <2>2, <2>3 DEF RowsInv
<1> QED BY <1>1, <1>3, <1>4, <1>5

\* A lesson gets another date.
LEMMA DateRow ==
    ASSUME RowsInv, NEW l \in Lessons, lesson[l] # None, NEW at \in Dates \cup {None},
           lesson' \in [Lessons -> Lesson \cup {None}],
           lesson'[l] = [scheduledAt |-> at], \A k \in Lessons : k # l => lesson'[k] = lesson[k],
           homework' = homework, event' = event, created' = created
    PROVE  /\ RowsInv'
           /\ \A k \in Lessons : lesson'[k] = None <=> lesson[k] = None
           /\ \A k \in Lessons : LivesOf(k)' = LivesOf(k)
           /\ \A a \in Assignments : DeadlinesOf(a)' = DeadlinesOf(a)
<1>1. lesson'[l] = [scheduledAt |-> at] /\ \A k \in Lessons : k # l => lesson'[k] = lesson[k]
  OBVIOUS
<1>2. [scheduledAt |-> at] \in Lesson
  BY DEF Lesson
<1>3. \A k \in Lessons : lesson'[k] = None <=> lesson[k] = None
  BY <1>1, <1>2, NoneIsNone
<1>4. \A k \in Lessons : LivesOf(k)' = LivesOf(k)
  BY DEF LivesOf
<1>5. \A a \in Assignments : DeadlinesOf(a)' = DeadlinesOf(a)
  BY DEF DeadlinesOf
<1>6. RowsInv'
  <2>1. lesson' \in [Lessons -> Lesson \cup {None}]
    BY <1>2 DEF RowsInv
  <2>2. Linked'
    <3>1. \A i \in Ids : event[i] # None => event[i].lesson \in Lessons \cup {None}
      BY DEF RowsInv, Event
    <3>2. \A a \in Assignments : homework[a] # None => homework[a].lesson \in Lessons \cup {None}
      BY DEF RowsInv, Homework
    <3> QED BY <1>3, <3>1, <3>2 DEF RowsInv, Linked, LinksExist
  <2>3. NextIsFree'
    BY Zenon DEF RowsInv, NextIsFree
  <2> QED BY <2>1, <2>2, <2>3 DEF RowsInv
<1> QED BY <1>1, <1>3, <1>4, <1>5, <1>6

-----------------------------------------------------------------------------
(***************************************************************************)
(* What a step of one request has to show.                                 *)
(***************************************************************************)
LEMMA Types ==
    TypeInv <=>
        /\ RowsInv /\ CallsSound
        /\ request \in [Requests -> InFlight \cup {None}]
        /\ calls \in 0 .. MaxCalls
        /\ overlapped \in BOOLEAN /\ broken \in BOOLEAN /\ byHand \in BOOLEAN
<1>1. history \in BOOLEAN \X BOOLEAN \X BOOLEAN <=>
         overlapped \in BOOLEAN /\ broken \in BOOLEAN /\ byHand \in BOOLEAN
  BY DEF history
<1> QED BY <1>1, Zenon DEF TypeInv, TypeOK, RowsInv

LEMMA TypesAfter ==
    ASSUME RowsInv', CallsSound', request' \in [Requests -> InFlight \cup {None}],
           calls' \in 0 .. MaxCalls,
           overlapped' \in BOOLEAN, broken' \in BOOLEAN, byHand' \in BOOLEAN
    PROVE  TypeInv'
<1>1. history' \in BOOLEAN \X BOOLEAN \X BOOLEAN
  BY DEF history
<1> QED BY <1>1, Zenon DEF TypeInv, TypeOK, RowsInv

\* A request that is alone, and what follows where nothing ever overlapped.
LEMMA TheOnlyCall ==
    ASSUME IndInv, NEW r \in Requests, Busy(r), ~overlapped
    PROVE  /\ \A p \in Requests : Busy(p) => p = r
           /\ request[r].alone /\ Knows(request[r])
           /\ ~broken => /\ \A l \in Lessons : Mirrored(l) \/ Owes(request[r], l)
                         /\ \A l \in Lessons : Owes(request[r], l) => OwedFor(request[r], l)
                         /\ request[r].next # "addLives"
<1>1. request[r].alone
  BY Zenon DEF IndInv, NeverMet
<1>2. (\A p \in Requests : Busy(p) => p = r) /\ Knows(request[r])
  BY <1>1, Zenon DEF IndInv, AloneInv
<1> QED BY <1>1, <1>2, Zenon DEF IndInv, MirrorInv

\* Where the calendar is not broken, what is left to bring in step.
StillOwed(r) ==
    /\ \A l \in Lessons :
          IF Busy(r) /\ Owes(request[r], l) THEN OwedFor(request[r], l) ELSE Mirrored(l)
    /\ Busy(r) => request[r].next # "addLives"

NoSecondDeadline(r) ==
    /\ \A a \in Assignments : AtMostOne(DeadlinesOf(a))
    /\ Busy(r) /\ request[r].next \in {"moveEvent", "relinkEvent"} => request[r].type = "LIVE"

\* A statement of a call that came in earlier.
LEMMA StatementInv ==
    ASSUME IndInv, NEW r \in Requests, Busy(r),
           request' \in [Requests -> InFlight \cup {None}],
           \A p \in Requests : p # r => request'[p] = request[p],
           UNCHANGED <<calls, overlapped, byHand>>, broken' \in {broken, TRUE},
           RowsInv',
           Busy(r)' => Sound(request[r])' /\ request'[r].alone = request[r].alone,
           Busy(r)' /\ request[r].alone => Knows(request[r])',
           ~overlapped /\ ~broken' => StillOwed(r)',
           ~overlapped /\ ~byHand => NoSecondDeadline(r)'
    PROVE  IndInv'
<1>1. \A p \in Requests : p # r => (Busy(p)' <=> Busy(p))
  BY Zenon DEF Busy
<1>2. TypeInv'
  <2>1. CallsSound'
    <3> SUFFICES ASSUME NEW p \in Requests, Busy(p)' PROVE Sound(request[p])'
      BY DEF CallsSound
    <3>1. CASE p = r
      BY <3>1, Zenon
    <3>2. CASE p # r
      <4>1. Sound(request[p])
        BY <1>1, <3>2, Zenon DEF IndInv, TypeInv, CallsSound
      <4> QED BY <4>1, <3>2, Zenon DEF Sound
    <3> QED BY <3>1, <3>2
  <2>2. calls' \in 0 .. MaxCalls /\ overlapped' \in BOOLEAN /\ broken' \in BOOLEAN /\ byHand' \in BOOLEAN
    BY Types, Zenon DEF IndInv
  <2> QED BY <2>1, <2>2, TypesAfter, Zenon
<1>3. AloneInv'
  <2> SUFFICES ASSUME NEW p \in Requests, Busy(p)', request'[p].alone
               PROVE  /\ \A q \in Requests : Busy(q)' => q = p
                      /\ Knows(request[p])'
    BY DEF AloneInv
  <2>1. p = r
    <3> SUFFICES ASSUME p # r PROVE FALSE
      OBVIOUS
    <3>1. Busy(p) /\ request[p].alone
      BY <1>1, Zenon
    <3> QED BY <3>1, Zenon DEF IndInv, AloneInv
  <2>2. request[r].alone
    BY <2>1
  <2>3. \A q \in Requests : Busy(q) => q = r
    BY <2>2, Zenon DEF IndInv, AloneInv
  <2> QED BY <2>1, <2>2, <2>3, <1>1, Zenon
<1>4. NeverMet'
  BY <1>1, Zenon DEF IndInv, NeverMet
<1>5. MirrorInv'
  <2> SUFFICES ASSUME ~overlapped', ~broken'
               PROVE  /\ \A l \in Lessons :
                            Mirrored(l)' \/ \E p \in Requests : (Busy(p) /\ Owes(request[p], l))'
                      /\ \A p \in Requests : Busy(p)' =>
                            /\ \A l \in Lessons : Owes(request[p], l)' => OwedFor(request[p], l)'
                            /\ request'[p].next # "addLives"
    BY Zenon DEF MirrorInv
  <2>1. \A p \in Requests : Busy(p) => p = r
    BY TheOnlyCall, Zenon
  <2>2. \A p \in Requests : Busy(p)' => p = r
    BY <2>1, <1>1, Zenon
  <2>3. StillOwed(r)'
    OBVIOUS
  <2> QED BY <2>2, <2>3, Zenon DEF StillOwed
<1>6. DeadlineInv'
  <2> SUFFICES ASSUME ~overlapped', ~byHand'
               PROVE  /\ \A a \in Assignments : AtMostOne(DeadlinesOf(a))'
                      /\ \A p \in Requests :
                            Busy(p)' /\ request'[p].next \in {"moveEvent", "relinkEvent"} =>
                                request'[p].type = "LIVE"
    BY Zenon DEF DeadlineInv
  <2>1. \A p \in Requests : Busy(p) => p = r
    BY TheOnlyCall, Zenon
  <2>2. \A p \in Requests : Busy(p)' => p = r
    BY <2>1, <1>1, Zenon
  <2>3. NoSecondDeadline(r)'
    OBVIOUS
  <2> QED BY <2>2, <2>3, Zenon DEF NoSecondDeadline
<1> QED BY <1>2, <1>3, <1>4, <1>5, <1>6 DEF IndInv

\* A statement that writes no row.
LEMMA ReadInv ==
    ASSUME IndInv, NEW r \in Requests, Busy(r),
           request' \in [Requests -> InFlight \cup {None}],
           \A p \in Requests : p # r => request'[p] = request[p],
           UNCHANGED <<tables, calls, history>>,
           Busy(r)' => Sound(request[r])' /\ request'[r].alone = request[r].alone,
           Busy(r)' /\ request[r].alone => Knows(request[r])',
           Busy(r)' => request'[r].next \notin {"moveEvent", "relinkEvent"},
           ~overlapped /\ ~broken => StillOwed(r)'
    PROVE  IndInv'
<1>1. RowsInv
  BY Types DEF IndInv
<1>2. RowsInv' /\ \A a \in Assignments : DeadlinesOf(a)' = DeadlinesOf(a)
  BY <1>1, SameRows, Zenon
<1>3. overlapped' = overlapped /\ broken' = broken /\ byHand' = byHand /\ calls' = calls
  BY DEF history
<1>4. ~overlapped /\ ~byHand => NoSecondDeadline(r)'
  BY <1>2, Zenon DEF IndInv, DeadlineInv, NoSecondDeadline, AtMostOne
<1> QED BY <1>2, <1>3, <1>4, StatementInv, Zenon

\* A call that ends half way.
LEMMA FailInv ==
    ASSUME IndInv, NEW r \in Requests, Busy(r), Fail(r)
    PROVE  IndInv'
<1>1. RowsInv /\ request \in [Requests -> InFlight \cup {None}]
  BY Types DEF IndInv
<1>2. /\ request' = [request EXCEPT ![r] = None] /\ broken' = TRUE
      /\ UNCHANGED <<tables, calls, overlapped, byHand>>
  BY DEF Fail, Finish
<1>3. RowsInv' /\ \A a \in Assignments : DeadlinesOf(a)' = DeadlinesOf(a)
  BY <1>1, <1>2, SameRows, Zenon
<1>4. /\ request' \in [Requests -> InFlight \cup {None}] /\ ~Busy(r)'
      /\ \A p \in Requests : p # r => request'[p] = request[p]
  BY <1>1, <1>2 DEF Busy
<1>5. ~overlapped /\ ~byHand => NoSecondDeadline(r)'
  BY <1>3, <1>4, Zenon DEF IndInv, DeadlineInv, NoSecondDeadline, AtMostOne
<1> QED BY <1>2, <1>3, <1>4, <1>5, StatementInv, Zenon

\* A call that comes in.
LEMMA StartInv ==
    ASSUME IndInv, NEW r \in Requests, NEW c \in InFlight \cup {None}, Start(r, c),
           broken' = broken, byHand' \in {byHand, TRUE},
           RowsInv',
           c # None => c.alone = (\A q \in Requests : ~Busy(q)),
           Busy(r)' => Sound(request[r])',
           Busy(r)' /\ AtRest => Knows(request[r])',
           AtRest /\ (\A l \in Lessons : Mirrored(l)) => StillOwed(r)',
           ~overlapped /\ ~byHand' => NoSecondDeadline(r)'
    PROVE  IndInv'
<1>1. /\ request \in [Requests -> InFlight \cup {None}] /\ calls \in 0 .. MaxCalls
      /\ overlapped \in BOOLEAN /\ broken \in BOOLEAN /\ byHand \in BOOLEAN
  BY Types DEF IndInv
<1>2. ~Busy(r) /\ request'[r] = c
  BY DEF Start
<1>3. \A p \in Requests : p # r =>
         request'[p] = IF Busy(p) THEN [request[p] EXCEPT !.alone = FALSE] ELSE None
  BY DEF Start
<1>4. \A p \in Requests : p # r /\ Busy(p) =>
         request[p] \in InFlight /\ request'[p] \in InFlight /\ ~request'[p].alone
  <2> SUFFICES ASSUME NEW p \in Requests, p # r, Busy(p)
               PROVE  request[p] \in InFlight /\ request'[p] \in InFlight /\ ~request'[p].alone
    OBVIOUS
  <2>1. request[p] \in InFlight
    BY <1>1 DEF Busy
  <2>2. request'[p] = [request[p] EXCEPT !.alone = FALSE]
    BY <1>3
  <2> QED BY <2>1, <2>2 DEF InFlight
<1>5. \A p \in Requests : p # r => (Busy(p)' <=> Busy(p))
  BY <1>3, <1>4, NoneIsNone DEF Busy
<1>6. AtRest <=> \A q \in Requests : ~Busy(q)
  BY DEF AtRest
<1>7. overlapped' = (overlapped \/ \E q \in Requests : Busy(q))
  BY DEF Start
<1>8. TypeInv'
  <2>1. request' \in [Requests -> InFlight \cup {None}]
    <3>1. \A p \in Requests : request'[p] \in InFlight \cup {None}
      BY <1>2, <1>3, <1>4
    <3> QED BY <3>1, Zenon DEF Start
  <2>2. CallsSound'
    <3> SUFFICES ASSUME NEW p \in Requests, Busy(p)' PROVE Sound(request[p])'
      BY DEF CallsSound
    <3>1. CASE p = r
      BY <3>1, Zenon
    <3>2. CASE p # r
      <4>1. Sound(request[p]) /\ request[p] \in InFlight
        BY <1>4, <1>5, <3>2, Zenon DEF IndInv, TypeInv, CallsSound
      <4>2. request'[p] = [request[p] EXCEPT !.alone = FALSE]
        BY <1>3, <1>5, <3>2, Zenon
      <4>3. /\ request'[p].next = request[p].next /\ request'[p].lesson = request[p].lesson
            /\ request'[p].at = request[p].at /\ request'[p].assignment = request[p].assignment
            /\ request'[p].event = request[p].event /\ request'[p].was = request[p].was
            /\ request'[p].plan = request[p].plan
        BY <4>1, <4>2 DEF InFlight
      <4> QED BY <4>1, <4>3, Zenon DEF Sound
    <3> QED BY <3>1, <3>2
  <2>3. calls' \in 0 .. MaxCalls
    BY <1>1, CalendarAssumption DEF Start
  <2>4. overlapped' \in BOOLEAN /\ broken' \in BOOLEAN /\ byHand' \in BOOLEAN
    BY <1>1, <1>7, Zenon
  <2> QED BY <2>1, <2>2, <2>3, <2>4, TypesAfter, Zenon
<1>9. AloneInv'
  <2> SUFFICES ASSUME NEW p \in Requests, Busy(p)', request'[p].alone
               PROVE  /\ \A q \in Requests : Busy(q)' => q = p
                      /\ Knows(request[p])'
    BY DEF AloneInv
  <2>1. p = r
    BY <1>4, <1>5, Zenon
  <2>2. AtRest
    BY <1>2, <1>6, <2>1, Zenon DEF Busy
  <2> QED BY <1>5, <1>6, <2>1, <2>2, Zenon
<1>10. ~overlapped' => AtRest
  BY <1>6, <1>7, Zenon
<1>11. NeverMet'
  <2> SUFFICES ASSUME ~overlapped', NEW p \in Requests, Busy(p)' PROVE request'[p].alone
    BY DEF NeverMet
  <2>1. p = r
    BY <1>5, <1>6, <1>10, Zenon
  <2> QED BY <1>2, <1>6, <1>10, <2>1, Zenon DEF Busy
<1>12. MirrorInv'
  <2> SUFFICES ASSUME ~overlapped', ~broken'
               PROVE  /\ \A l \in Lessons :
                            Mirrored(l)' \/ \E p \in Requests : (Busy(p) /\ Owes(request[p], l))'
                      /\ \A p \in Requests : Busy(p)' =>
                            /\ \A l \in Lessons : Owes(request[p], l)' => OwedFor(request[p], l)'
                            /\ request'[p].next # "addLives"
    BY Zenon DEF MirrorInv
  <2>1. AtRest /\ ~overlapped /\ ~broken
    BY <1>7, <1>10
  <2>2. \A l \in Lessons : Mirrored(l)
    BY <1>6, <2>1, Zenon DEF IndInv, MirrorInv
  <2>3. StillOwed(r)'
    BY <2>1, <2>2, Zenon
  <2>4. \A p \in Requests : Busy(p)' => p = r
    BY <1>5, <1>6, <2>1, Zenon
  <2> QED BY <2>3, <2>4, Zenon DEF StillOwed
<1>13. DeadlineInv'
  <2> SUFFICES ASSUME ~overlapped', ~byHand'
               PROVE  /\ \A a \in Assignments : AtMostOne(DeadlinesOf(a))'
                      /\ \A p \in Requests :
                            Busy(p)' /\ request'[p].next \in {"moveEvent", "relinkEvent"} =>
                                request'[p].type = "LIVE"
    BY Zenon DEF DeadlineInv
  <2>1. \A p \in Requests : Busy(p)' => p = r
    BY <1>5, <1>6, <1>10, Zenon
  <2>2. NoSecondDeadline(r)'
    BY <1>7, Zenon
  <2> QED BY <2>1, <2>2, Zenon DEF NoSecondDeadline
<1> QED BY <1>8, <1>9, <1>11, <1>12, <1>13 DEF IndInv

\* A lesson whose events and date are left alone.
LEMMA MirroredStays ==
    ASSUME NEW l \in Lessons, NEW n, n \notin LivesOf(l),
           LivesOf(l)' = LivesOf(l) \/ LivesOf(l)' = LivesOf(l) \ {n},
           lesson'[l] = lesson[l],
           \A i \in Ids : i # n => event'[i] = event[i]
    PROVE  Mirrored(l)' <=> Mirrored(l)
<1>1. LivesOf(l)' = LivesOf(l)
  OBVIOUS
<1>2. \A i \in LivesOf(l) : event'[i] = event[i]
  BY EventsAreIds
<1> QED BY <1>1, <1>2 DEF Mirrored

LEMMA FewerDeadlines ==
    ASSUME \A a \in Assignments : DeadlinesOf(a)' \subseteq DeadlinesOf(a),
           \A a \in Assignments : AtMostOne(DeadlinesOf(a))
    PROVE  \A a \in Assignments : AtMostOne(DeadlinesOf(a))'
BY DEF AtMostOne

\* The links of rows that go are taken away.
LEMMA UnlinkRows ==
    ASSUME RowsInv, NEW ls \in SUBSET Lessons, NEW as \in SUBSET Assignments, Unlink(ls, as)
    PROVE  /\ event' \in [Ids -> Event \cup {None}]
           /\ \A i \in Ids : event'[i] = None <=> event[i] = None
           /\ \A i \in Ids : event[i] # None =>
                 /\ event'[i].type = event[i].type /\ event'[i].startsAt = event[i].startsAt
                 /\ event'[i].lesson = IF event[i].lesson \in ls THEN None ELSE event[i].lesson
                 /\ event'[i].assignment =
                       IF event[i].assignment \in as THEN None ELSE event[i].assignment
           /\ \A l \in Lessons : LivesOf(l)' = IF l \in ls THEN {} ELSE LivesOf(l)
           /\ \A a \in Assignments : DeadlinesOf(a)' = IF a \in as THEN {} ELSE DeadlinesOf(a)
<1>1. /\ event \in [Ids -> Event \cup {None}]
      /\ event' = [i \in Ids |-> IF event[i] = None THEN None ELSE Unlinked(event[i], ls, as)]
  BY DEF RowsInv, Unlink
<1>2. \A i \in Ids : event[i] # None =>
         /\ event[i] \in Event /\ event'[i] = Unlinked(event[i], ls, as)
  BY <1>1
<1>3. \A e \in Event :
         /\ Unlinked(e, ls, as) \in Event
         /\ Unlinked(e, ls, as).type = e.type /\ Unlinked(e, ls, as).startsAt = e.startsAt
         /\ Unlinked(e, ls, as).lesson = IF e.lesson \in ls THEN None ELSE e.lesson
         /\ Unlinked(e, ls, as).assignment = IF e.assignment \in as THEN None ELSE e.assignment
  BY DEF Event, Unlinked
<1>4. \A i \in Ids : event'[i] \in Event \cup {None} /\ (event'[i] = None <=> event[i] = None)
  <2> SUFFICES ASSUME NEW i \in Ids
               PROVE  event'[i] \in Event \cup {None} /\ (event'[i] = None <=> event[i] = None)
    OBVIOUS
  <2>1. CASE event[i] = None
    BY <1>1, <2>1
  <2>2. CASE event[i] # None
    <3>1. event'[i] \in Event
      BY <1>2, <1>3, <2>2
    <3> QED BY <2>2, <3>1, NoneIsNone
  <2> QED BY <2>1, <2>2
<1>5. event' \in [Ids -> Event \cup {None}]
  BY <1>1, <1>4
<1>6. \A i \in Ids : event[i] # None =>
         /\ event'[i].type = event[i].type /\ event'[i].startsAt = event[i].startsAt
         /\ event'[i].lesson = IF event[i].lesson \in ls THEN None ELSE event[i].lesson
         /\ event'[i].assignment = IF event[i].assignment \in as THEN None ELSE event[i].assignment
  <2> SUFFICES ASSUME NEW i \in Ids, event[i] # None
               PROVE  /\ event'[i].type = event[i].type /\ event'[i].startsAt = event[i].startsAt
                      /\ event'[i].lesson = IF event[i].lesson \in ls THEN None ELSE event[i].lesson
                      /\ event'[i].assignment =
                            IF event[i].assignment \in as THEN None ELSE event[i].assignment
    OBVIOUS
  <2>1. PICK e \in Event : e = event[i] /\ event'[i] = Unlinked(e, ls, as)
    BY <1>2
  <2> QED BY <1>3, <2>1
<1>7. \A l \in Lessons : LivesOf(l)' = IF l \in ls THEN {} ELSE LivesOf(l)
  <2> SUFFICES ASSUME NEW l \in Lessons
               PROVE  LivesOf(l)' = IF l \in ls THEN {} ELSE LivesOf(l)
    OBVIOUS
  <2>1. \A i \in Ids : event[i] # None => (event'[i].lesson = l <=> event[i].lesson = l /\ l \notin ls)
    <3> SUFFICES ASSUME NEW i \in Ids, event[i] # None
                 PROVE  event'[i].lesson = l <=> event[i].lesson = l /\ l \notin ls
      OBVIOUS
    <3>1. event'[i].lesson = IF event[i].lesson \in ls THEN None ELSE event[i].lesson
      BY <1>6
    <3> QED BY <3>1, NoneIsNone
  <2> QED BY <1>4, <1>6, <2>1 DEF LivesOf
<1>8. \A a \in Assignments : DeadlinesOf(a)' = IF a \in as THEN {} ELSE DeadlinesOf(a)
  <2> SUFFICES ASSUME NEW a \in Assignments
               PROVE  DeadlinesOf(a)' = IF a \in as THEN {} ELSE DeadlinesOf(a)
    OBVIOUS
  <2>1. \A i \in Ids : event[i] # None =>
           (event'[i].assignment = a <=> event[i].assignment = a /\ a \notin as)
    <3> SUFFICES ASSUME NEW i \in Ids, event[i] # None
                 PROVE  event'[i].assignment = a <=> event[i].assignment = a /\ a \notin as
      OBVIOUS
    <3>1. event'[i].assignment = IF event[i].assignment \in as THEN None ELSE event[i].assignment
      BY <1>6
    <3> QED BY <3>1, NoneIsNone
  <2> QED BY <1>4, <1>6, <2>1 DEF DeadlinesOf
<1> QED BY <1>4, <1>5, <1>6, <1>7, <1>8

LEMMA CallTypes ==
    ASSUME IndInv, NEW r \in Requests, Busy(r)
    PROVE  /\ RowsInv /\ request \in [Requests -> InFlight \cup {None}]
           /\ request[r] \in InFlight /\ Sound(request[r])
           /\ request[r].lesson \in Lessons \cup {None}
           /\ request[r].assignment \in Assignments \cup {None}
           /\ request[r].event \in Ids \cup {None}
           /\ request[r].at \in Dates \cup {None}
           /\ request[r].was \in Lessons \cup {None}
           /\ request[r].type \in {"LIVE", "DEADLINE"}
           /\ request[r].doomed \subseteq Ids
           /\ request[r].plan \in [Lessons \cup Assignments -> Dates \cup {None}]
<1>1. RowsInv /\ request \in [Requests -> InFlight \cup {None}] /\ Sound(request[r])
  BY Types, Zenon DEF IndInv, CallsSound
<1>2. request[r] \in InFlight
  BY <1>1, Zenon DEF Busy
<1> QED BY <1>1, <1>2 DEF InFlight

\* The request goes on to another statement, or is answered.
LEMMA GoesOn ==
    ASSUME IndInv, NEW r \in Requests, Busy(r), NEW s \in Statement, Goto(r, s)
    PROVE  /\ request' \in [Requests -> InFlight \cup {None}]
           /\ \A p \in Requests : p # r => request'[p] = request[p]
           /\ Busy(r)' /\ request'[r].next = s
           /\ request'[r].lesson = request[r].lesson
           /\ request'[r].assignment = request[r].assignment
           /\ request'[r].event = request[r].event
           /\ request'[r].type = request[r].type
           /\ request'[r].at = request[r].at
           /\ request'[r].was = request[r].was
           /\ request'[r].plan = request[r].plan
           /\ request'[r].doomed = request[r].doomed
           /\ request'[r].alone = request[r].alone
<1>1. request[r] \in InFlight /\ request \in [Requests -> InFlight \cup {None}]
  BY CallTypes
<1>2. request' = [request EXCEPT ![r].next = s]
  BY DEF Goto
<1>3. request'[r] = [request[r] EXCEPT !.next = s]
  BY <1>1, <1>2
<1>4. request'[r] \in InFlight
  BY <1>1, <1>3 DEF InFlight
<1> QED BY <1>1, <1>2, <1>3, <1>4, NoneIsNone DEF InFlight, Busy

LEMMA Ends ==
    ASSUME IndInv, NEW r \in Requests, Busy(r), Finish(r)
    PROVE  /\ request' \in [Requests -> InFlight \cup {None}]
           /\ \A p \in Requests : p # r => request'[p] = request[p]
           /\ ~Busy(r)'
BY CallTypes DEF Finish, Busy

-----------------------------------------------------------------------------
(***************************************************************************)
(* LessonsService.                                                         *)
(***************************************************************************)
LEMMA FindLiveStep ==
    ASSUME IndInv, NEW r \in Requests, FindLive(r)
    PROVE  IndInv'
<1>1. Busy(r) /\ request[r].next = "findLive"
  BY DEF FindLive, At
<1>2. /\ RowsInv /\ Sound(request[r]) /\ request[r] \in InFlight
      /\ request \in [Requests -> InFlight \cup {None}]
      /\ request[r].at \in Dates \cup {None}
  BY <1>1, CallTypes
<1>3. PICK l \in Lessons : l = request[r].lesson /\ request[r].assignment = None
  BY <1>1, <1>2 DEF Sound
<1>4. PICK found \in Ids \cup {None} : /\ found = Oldest(LivesOf(l))
                                       /\ IF LivesOf(l) = {} THEN found = None ELSE found \in LivesOf(l) \cap Ids
  BY OldestOf, EventsAreIds, Zenon
<1>5. request[r].alone => lesson[l] = [scheduledAt |-> request[r].at]
  BY <1>1, <1>3, Zenon DEF IndInv, AloneInv, Knows, KnowsLesson
<1>6. ~overlapped /\ ~broken =>
         /\ lesson[l] = [scheduledAt |-> request[r].at]
         /\ AtMostOne(LivesOf(l))
         /\ \A k \in Lessons : k # l => Mirrored(k)
  BY <1>1, <1>3, <1>5, TheOnlyCall DEF Owes, OwedFor
<1>7. CASE request[r].at = None /\ found = None /\ Finish(r) /\ UNCHANGED <<tables, calls, history>>
  <2>1. /\ request' \in [Requests -> InFlight \cup {None}] /\ ~Busy(r)'
        /\ \A p \in Requests : p # r => request'[p] = request[p]
    BY <1>1, <1>7, Ends
  <2>2. ASSUME ~overlapped, ~broken PROVE StillOwed(r)'
    <3>1. Mirrored(l)
      BY <1>4, <1>6, <1>7, <2>2, NoneIsNone DEF Mirrored
    <3>2. \A k \in Lessons : Mirrored(k)
      BY <1>6, <2>2, <3>1
    <3> QED BY <1>2, <1>7, <2>1, <3>2, SameRows, Zenon DEF StillOwed
  <2> QED BY <1>1, <1>7, <2>1, <2>2, ReadInv
<1>8. CASE /\ request[r].at # None \/ found # None
           /\ request' = [request EXCEPT
                ![r].next = IF request[r].at = None THEN "deleteEvent" ELSE "writeLive",
                ![r].event = found]
           /\ UNCHANGED <<tables, calls, history>>
  <2>1. request'[r] = [request[r] EXCEPT
             !.next = IF request[r].at = None THEN "deleteEvent" ELSE "writeLive", !.event = found]
    BY <1>2, <1>8
  <2>2. request'[r] \in InFlight
    BY <1>2, <1>4, <2>1 DEF InFlight, Statement
  <2>3. /\ request'[r].next = (IF request[r].at = None THEN "deleteEvent" ELSE "writeLive")
        /\ request'[r].event = found /\ request'[r].lesson = l /\ request'[r].at = request[r].at
        /\ request'[r].assignment = None /\ request'[r].alone = request[r].alone
    BY <1>2, <1>3, <2>1 DEF InFlight
  <2>4. /\ request' \in [Requests -> InFlight \cup {None}]
        /\ \A p \in Requests : p # r => request'[p] = request[p]
    BY <1>2, <1>8, <2>2
  <2>5. Sound(request[r])'
    BY <1>2, <1>3, <1>4, <1>8, <2>3 DEF Sound, OnPlan, Listing
  <2>6. request[r].alone => Knows(request[r])'
    <3> SUFFICES ASSUME request[r].alone PROVE Knows(request[r])'
      OBVIOUS
    <3>1. KnowsLesson(request[r])'
      <4>1. lesson' = lesson
        BY <1>8 DEF tables
      <4>2. lesson[l] = [scheduledAt |-> request[r].at]
        BY <1>5
      <4> QED BY <4>1, <4>2, <2>3 DEF KnowsLesson, NoDate
    <3>2. KnowsDeadline(request[r])' /\ KnowsEvent(request[r])' /\ KnowsCalendar(request[r])'
      BY <2>3, NoneIsNone DEF KnowsDeadline, KnowsEvent, KnowsCalendar
    <3> QED BY <3>1, <3>2 DEF Knows
  <2>7. ASSUME ~overlapped, ~broken PROVE StillOwed(r)'
    <3>1. \A k \in Lessons : LivesOf(k)' = LivesOf(k) /\ (Mirrored(k)' <=> Mirrored(k))
      BY <1>2, <1>8, SameRows
    <3>2. LivesOf(l) = IF found = None THEN {} ELSE {found}
      BY <1>4, <1>6, <2>7, NoneIsNone DEF AtMostOne
    <3>3. Busy(r)'
      BY <2>2, NoneIsNone DEF Busy
    <3>4. \A k \in Lessons : Owes(request[r], k)' <=> k = l
      BY <2>3 DEF Owes
    <3>5. OwedFor(request[r], l)'
      <4>1. request[r].at # None \/ found # None
        BY <1>8
      <4>2. LivesOf(l)' = IF found = None THEN {} ELSE {found}
        BY <3>1, <3>2
      <4> QED BY <2>3, <4>1, <4>2 DEF OwedFor
    <3> QED BY <1>6, <2>3, <2>7, <3>1, <3>3, <3>4, <3>5 DEF StillOwed
  <2> QED BY <1>1, <1>8, <2>3, <2>4, <2>5, <2>6, <2>7, ReadInv
<1>9. CASE Fail(r)
  BY <1>1, <1>9, FailInv
<1> QED BY <1>3, <1>4, <1>7, <1>8, <1>9, Zenon DEF FindLive

\* The statements before which a call that is alone knows nothing.
LEMMA NothingToKnow ==
    ASSUME NEW r \in Requests,
           request'[r].next \in {"findLinked", "findDeadline", "deleteLesson", "readHomework",
                                 "findDeadlineOf", "deleteHomework"}
    PROVE  Knows(request[r])'
<1>1. KnowsLesson(request[r])' /\ KnowsDeadline(request[r])'
  BY DEF KnowsLesson, KnowsDeadline
<1>2. KnowsEvent(request[r])' /\ KnowsCalendar(request[r])'
  BY DEF KnowsEvent, KnowsCalendar
<1> QED BY <1>1, <1>2 DEF Knows

LEMMA DeleteEventStep ==
    ASSUME IndInv, NEW r \in Requests, DeleteEvent(r)
    PROVE  IndInv'
<1>1. Busy(r) /\ request[r].next = "deleteEvent"
  BY DEF DeleteEvent, At
<1>2. RowsInv /\ Sound(request[r]) /\ request[r].assignment \in Assignments \cup {None}
  BY <1>1, CallTypes
<1>3. PICK i \in Ids : i = request[r].event
  BY <1>1, <1>2 DEF Sound
<1>4. CASE /\ event[i] # None /\ Delete({i}) /\ Finish(r)
           /\ UNCHANGED <<lesson, homework, created, calls, history>>
  <2>1. /\ request' \in [Requests -> InFlight \cup {None}] /\ ~Busy(r)'
        /\ \A p \in Requests : p # r => request'[p] = request[p]
    BY <1>1, <1>4, Ends
  <2>2. /\ RowsInv'
        /\ \A j \in Ids : j # i => event'[j] = event[j]
        /\ \A k \in Lessons : LivesOf(k)' = LivesOf(k) \ {i}
        /\ \A a \in Assignments : DeadlinesOf(a)' = DeadlinesOf(a) \ {i}
    BY <1>2, <1>4, DeleteRows
  <2>3. overlapped' = overlapped /\ broken' = broken /\ byHand' = byHand /\ lesson' = lesson
    BY <1>4 DEF history
  <2>4. ASSUME ~overlapped, ~broken PROVE StillOwed(r)'
    <3>1. /\ request[r].assignment = None =>
               /\ lesson[request[r].lesson] = NoDate /\ LivesOf(request[r].lesson) = {i}
               /\ request[r].lesson \in Lessons
          /\ \A k \in Lessons : (request[r].assignment = None /\ k = request[r].lesson) \/ Mirrored(k)
      <4>1. KnowsLesson(request[r])
        BY <1>1, <2>4, TheOnlyCall DEF Knows
      <4>2. request[r].assignment = None => request[r].lesson \in Lessons
        BY <1>1, <1>2 DEF Sound
      <4>3. request[r].assignment = None => LivesOf(request[r].lesson) = {i}
        BY <1>1, <1>3, <2>4, <4>2, TheOnlyCall DEF Owes, OwedFor
      <4>4. \A k \in Lessons : (request[r].assignment = None /\ k = request[r].lesson) \/ Mirrored(k)
        BY <1>1, <2>4, TheOnlyCall DEF Owes
      <4> QED BY <1>1, <4>1, <4>2, <4>3, <4>4 DEF KnowsLesson
    <3>2. CASE request[r].assignment = None
      <4>1. PICK l \in Lessons : l = request[r].lesson /\ lesson[l] = NoDate /\ LivesOf(l) = {i}
        BY <3>1, <3>2
      <4>2. \A k \in Lessons : k # l => i \notin LivesOf(k)
        BY <4>1 DEF LivesOf
      <4>3. \A k \in Lessons : k # l => Mirrored(k)'
        BY <2>2, <2>3, <3>1, <4>1, <4>2, MirroredStays
      <4>4. Mirrored(l)'
        BY <2>2, <2>3, <4>1 DEF Mirrored, NoDate
      <4> QED BY <2>1, <4>3, <4>4, Zenon DEF StillOwed
    <3>3. CASE request[r].assignment # None
      <4>1. KnowsDeadline(request[r])
        BY <1>1, <2>4, TheOnlyCall DEF Knows
      <4>2. i \in DeadlinesOf(request[r].assignment)
        BY <1>1, <1>2, <1>3, <3>3, <4>1 DEF KnowsDeadline
      <4>3. \A k \in Lessons : i \notin LivesOf(k)
        BY <4>2 DEF LivesOf, DeadlinesOf
      <4>4. \A k \in Lessons : Mirrored(k)'
        BY <2>2, <2>3, <3>1, <3>3, <4>3, MirroredStays
      <4> QED BY <2>1, <4>4, Zenon DEF StillOwed
    <3> QED BY <3>2, <3>3
  <2>5. ~overlapped /\ ~byHand => NoSecondDeadline(r)'
    BY <2>1, <2>2, FewerDeadlines DEF IndInv, DeadlineInv, NoSecondDeadline
  <2> QED BY <1>1, <1>4, <2>1, <2>2, <2>3, <2>4, <2>5, StatementInv
<1>5. CASE Fail(r)
  BY <1>1, <1>5, FailInv
<1> QED BY <1>3, <1>4, <1>5 DEF DeleteEvent

LEMMA WriteLiveStep ==
    ASSUME IndInv, NEW r \in Requests, WriteLive(r)
    PROVE  IndInv'
<1>1. Busy(r) /\ request[r].next = "writeLive"
  BY DEF WriteLive, At
<1>2. /\ RowsInv /\ Sound(request[r]) /\ request[r].event \in Ids \cup {None}
  BY <1>1, CallTypes
<1>3. PICK l \in Lessons, at \in Dates : l = request[r].lesson /\ at = request[r].at
  BY <1>1, <1>2 DEF Sound
<1>4. ASSUME ~overlapped, ~broken
      PROVE  /\ lesson[l] = [scheduledAt |-> at] /\ lesson[l] # None
             /\ LivesOf(l) = IF request[r].event = None THEN {} ELSE {request[r].event}
             /\ \A k \in Lessons : k # l => Mirrored(k)
  <2>1. KnowsLesson(request[r])
    BY <1>1, <1>4, TheOnlyCall DEF Knows
  <2>2. \A k \in Lessons : Owes(request[r], k) <=> k = l
    BY <1>1, <1>3 DEF Owes
  <2>3. [scheduledAt |-> at] # None
    BY NoneIsNone DEF Lesson
  <2> QED BY <1>1, <1>3, <1>4, <2>1, <2>2, <2>3, TheOnlyCall DEF KnowsLesson, OwedFor
<1>5. ASSUME Goto(r, "findLinked"), RowsInv', UNCHANGED <<calls, history>>,
             ~overlapped /\ ~broken => \A k \in Lessons : Mirrored(k)',
             \A a \in Assignments : DeadlinesOf(a)' \subseteq DeadlinesOf(a)
      PROVE  IndInv'
  <2>1. /\ request' \in [Requests -> InFlight \cup {None}]
        /\ \A p \in Requests : p # r => request'[p] = request[p]
        /\ Busy(r)' /\ request'[r].next = "findLinked"
        /\ request'[r].lesson = l /\ request'[r].at = at /\ request'[r].alone = request[r].alone
    BY <1>1, <1>3, <1>5, GoesOn DEF Statement
  <2>2. Sound(request[r])'
    BY <2>1 DEF Sound, OnPlan, Listing
  <2>3. Knows(request[r])'
    BY <2>1, NothingToKnow
  <2>4. overlapped' = overlapped /\ broken' = broken /\ byHand' = byHand /\ calls' = calls
    BY <1>5 DEF history
  <2>5. ~overlapped /\ ~broken => StillOwed(r)'
    <3>1. \A k \in Lessons : ~Owes(request[r], k)'
      BY <2>1 DEF Owes
    <3> QED BY <1>5, <2>1, <3>1 DEF StillOwed
  <2>6. ~overlapped /\ ~byHand => NoSecondDeadline(r)'
    BY <1>5, <2>1, FewerDeadlines DEF IndInv, DeadlineInv, NoSecondDeadline
  <2> QED BY <1>1, <1>5, <2>1, <2>2, <2>3, <2>4, <2>5, <2>6, StatementInv
<1>6. CASE /\ request[r].event = None /\ lesson[l] # None
           /\ Insert(Live(at, l)) /\ Goto(r, "findLinked")
           /\ UNCHANGED <<lesson, homework, calls, history>>
  <2>1. Live(at, l) \in Event /\ LinksExist(Live(at, l)) /\ Live(at, l).type = "LIVE"
        /\ Live(at, l).lesson = l /\ Live(at, l).startsAt = at
    BY <1>6 DEF Live, Event, LinksExist
  <2>2. PICK n \in Ids : n = created + 1 /\ event'[n] = Live(at, l) /\ event[n] = None
    BY <1>2, <1>6, <2>1, InsertRow
  <2>3. /\ RowsInv'
        /\ \A j \in Ids : j # n => event'[j] = event[j]
        /\ \A k \in Lessons : LivesOf(k)' = IF k = l THEN LivesOf(k) \cup {n} ELSE LivesOf(k)
        /\ \A a \in Assignments : DeadlinesOf(a)' = DeadlinesOf(a)
    BY <1>2, <1>6, <2>1, <2>2, InsertRow
  <2>4. ASSUME ~overlapped, ~broken, NEW k \in Lessons PROVE Mirrored(k)'
    <3>1. CASE k = l
      <4>1. LivesOf(l)' = {n} /\ lesson'[l] = [scheduledAt |-> at] /\ lesson'[l] # None
        BY <1>4, <1>6, <2>3, <2>4
      <4> QED BY <2>1, <2>2, <3>1, <4>1, NoneIsNone DEF Mirrored
    <3>2. CASE k # l
      <4>1. n \notin LivesOf(k)
        BY <2>2 DEF LivesOf
      <4>2. Mirrored(k) /\ lesson'[k] = lesson[k] /\ LivesOf(k)' = LivesOf(k)
        BY <1>4, <1>6, <2>3, <2>4, <3>2
      <4> QED BY <2>3, <4>1, <4>2, MirroredStays
    <3> QED BY <3>1, <3>2
  <2> QED BY <1>5, <1>6, <2>3, <2>4
<1>7. CASE /\ request[r].event # None /\ event[request[r].event] # None
           /\ event' = [event EXCEPT ![request[r].event] = [@ EXCEPT !.type = "LIVE", !.startsAt = at]]
           /\ Goto(r, "findLinked")
           /\ UNCHANGED <<lesson, homework, created, calls, history>>
  <2>1. PICK i \in Ids : i = request[r].event /\ event[i] # None /\ event[i] \in Event
    BY <1>2, <1>7 DEF RowsInv
  <2>2a. PICK row : row = [event[i] EXCEPT !.type = "LIVE", !.startsAt = at]
    OBVIOUS
  <2>2. /\ row \in Event /\ row.type = "LIVE" /\ row.startsAt = at
        /\ row.lesson = event[i].lesson /\ row.assignment = event[i].assignment
    BY <2>1, <2>2a DEF Event
  <2>3. LinksExist(row)
    BY <1>2, <2>1, <2>2 DEF RowsInv, Linked, LinksExist
  <2>4. /\ event' \in [Ids -> Event \cup {None}]
        /\ event'[i] = row /\ \A j \in Ids : j # i => event'[j] = event[j]
    BY <1>2, <1>7, <2>1, <2>2, <2>2a DEF RowsInv
  <2>4a. lesson' = lesson /\ homework' = homework /\ created' = created
    BY <1>7
  <2>5. /\ RowsInv'
        /\ event'[i] = row /\ \A j \in Ids : j # i => event'[j] = event[j]
        /\ \A k \in Lessons : LivesOf(k)' = IF row.lesson = k THEN LivesOf(k) \cup {i} ELSE LivesOf(k) \ {i}
        /\ \A a \in Assignments : DeadlinesOf(a)' = DeadlinesOf(a) \ {i}
    <3>1. /\ RowsInv'
          /\ \A k \in Lessons : LivesOf(k)' =
                IF row.type = "LIVE" /\ row.lesson = k THEN LivesOf(k) \cup {i} ELSE LivesOf(k) \ {i}
          /\ \A a \in Assignments : DeadlinesOf(a)' =
                IF row.type = "DEADLINE" /\ row.assignment = a
                  THEN DeadlinesOf(a) \cup {i} ELSE DeadlinesOf(a) \ {i}
      BY <1>2, <2>1, <2>2, <2>3, <2>4, <2>4a, WriteRow
    <3> QED BY <2>2, <2>4, <3>1
  <2>6. ASSUME ~overlapped, ~broken, NEW k \in Lessons PROVE Mirrored(k)'
    <3>1. LivesOf(l) = {i} /\ lesson[l] = [scheduledAt |-> at] /\ lesson[l] # None /\ (k # l => Mirrored(k))
      BY <1>4, <1>7, <2>1, <2>6
    <3>2. row.lesson = l
      BY <2>2, <3>1 DEF LivesOf
    <3>3. CASE k = l
      <4>1. LivesOf(l)' = {i} /\ lesson' = lesson
        BY <2>4a, <2>5, <3>1, <3>2
      <4> QED BY <2>2, <2>5, <3>1, <3>3, <4>1, NoneIsNone DEF Mirrored
    <3>4. CASE k # l
      <4>1. i \notin LivesOf(k)
        BY <2>2, <3>2, <3>4 DEF LivesOf
      <4>2. LivesOf(k)' = LivesOf(k) \ {i} /\ lesson'[k] = lesson[k] /\ Mirrored(k)
        BY <2>4a, <2>5, <3>1, <3>2, <3>4
      <4> QED BY <2>5, <4>1, <4>2, MirroredStays
    <3> QED BY <3>3, <3>4
  <2> QED BY <1>5, <1>7, <2>5, <2>6
<1>8. CASE Fail(r)
  BY <1>1, <1>8, FailInv
<1> QED BY <1>3, <1>6, <1>7, <1>8 DEF WriteLive

\* The statements before which no lesson is out of step.
Settled(q) ==
    \/ q.next \in {"findLinked", "findDeadline", "writeDeadline", "moveEvent", "relinkEvent",
                   "removeEvent", "readHomework", "findDeadlineOf", "saveDeadline",
                   "deleteHomework", "listLives", "listHomework", "listDeadlines",
                   "dropExtras", "addDeadlines", "answer"}
    \/ q.next = "deleteEvent" /\ q.assignment # None

LEMMA InStep ==
    ASSUME IndInv, NEW r \in Requests, Busy(r), Settled(request[r]), ~overlapped, ~broken
    PROVE  \A l \in Lessons : Mirrored(l)
<1>1. \A l \in Lessons : ~Owes(request[r], l)
  BY DEF Settled, Owes
<1> QED BY <1>1, TheOnlyCall

LEMMA NoDebt ==
    ASSUME NEW r \in Requests, \A l \in Lessons : Mirrored(l)',
           Busy(r)' => Settled(request[r])'
    PROVE  StillOwed(r)'
<1>1. Busy(r)' => \A l \in Lessons : ~Owes(request[r], l)'
  BY DEF Settled, Owes
<1>2. Busy(r)' => request'[r].next # "addLives"
  BY DEF Settled
<1> QED BY <1>1, <1>2, Zenon DEF StillOwed

LEMMA AllStay ==
    ASSUME NEW n, \A k \in Lessons : n \notin LivesOf(k) /\ LivesOf(k)' = LivesOf(k),
           lesson' = lesson, \A i \in Ids : i # n => event'[i] = event[i]
    PROVE  \A k \in Lessons : Mirrored(k)' <=> Mirrored(k)
BY MirroredStays

LEMMA FindLinkedStep ==
    ASSUME IndInv, NEW r \in Requests, FindLinked(r)
    PROVE  IndInv'
<1>1. Busy(r) /\ request[r].next = "findLinked" /\ UNCHANGED <<tables, calls, history>>
  BY DEF FindLinked, At
<1>2. /\ RowsInv /\ Sound(request[r]) /\ request[r] \in InFlight
      /\ request \in [Requests -> InFlight \cup {None}]
  BY <1>1, CallTypes
<1>3. request[r].lesson \in Lessons /\ request[r].at \in Dates
  BY <1>1, <1>2 DEF Sound
<1>4. ~overlapped /\ ~broken => \A k \in Lessons : Mirrored(k)'
  <2>1. Settled(request[r])
    BY <1>1 DEF Settled
  <2> QED BY <1>1, <1>2, <2>1, InStep, SameRows
<1>5. PICK linked \in SUBSET Assignments :
         \/ Finish(r)
         \/ request' = [request EXCEPT
              ![r].next = "findDeadline",
              ![r].plan = [k \in Lessons \cup Assignments |->
                             IF k \in linked THEN request[r].at ELSE None]]
  BY Zenon DEF FindLinked
<1>6. CASE Finish(r)
  <2>1. /\ request' \in [Requests -> InFlight \cup {None}] /\ ~Busy(r)'
        /\ \A p \in Requests : p # r => request'[p] = request[p]
    BY <1>1, <1>6, Ends
  <2>2. ~overlapped /\ ~broken => StillOwed(r)'
    BY <1>4, <2>1, NoDebt
  <2> QED BY <1>1, <2>1, <2>2, ReadInv
<1>7. CASE request' = [request EXCEPT
              ![r].next = "findDeadline",
              ![r].plan = [k \in Lessons \cup Assignments |->
                             IF k \in linked THEN request[r].at ELSE None]]
  <2>1. PICK plan : plan = [k \in Lessons \cup Assignments |->
                              IF k \in linked THEN request[r].at ELSE None]
    OBVIOUS
  <2>2. /\ plan \in [Lessons \cup Assignments -> Dates \cup {None}]
        /\ \A k \in Lessons \cup Assignments : plan[k] # None => k \in Assignments
    BY <1>3, <2>1
  <2>3. request'[r] = [request[r] EXCEPT !.next = "findDeadline", !.plan = plan]
    BY <1>2, <1>7, <2>1
  <2>4. request'[r] \in InFlight
    BY <1>2, <2>2, <2>3 DEF InFlight, Statement
  <2>5. /\ request'[r].next = "findDeadline" /\ request'[r].plan = plan
        /\ request'[r].lesson = request[r].lesson /\ request'[r].at = request[r].at
        /\ request'[r].alone = request[r].alone
    BY <1>2, <2>3 DEF InFlight
  <2>6. /\ request' \in [Requests -> InFlight \cup {None}]
        /\ \A p \in Requests : p # r => request'[p] = request[p]
    BY <1>2, <1>7, <2>4
  <2>7. Sound(request[r])'
    BY <1>3, <2>2, <2>5 DEF Sound, OnPlan, Listing
  <2>8. ~overlapped /\ ~broken => StillOwed(r)'
    BY <1>4, <2>5, NoDebt DEF Settled
  <2> QED BY <1>1, <2>5, <2>6, <2>7, <2>8, NothingToKnow, ReadInv
<1> QED BY <1>5, <1>6, <1>7

LEMMA FindDeadlineStep ==
    ASSUME IndInv, NEW r \in Requests, FindDeadline(r)
    PROVE  IndInv'
<1>1. Busy(r) /\ request[r].next = "findDeadline" /\ UNCHANGED <<tables, calls, history>>
  BY DEF FindDeadline, At
<1>2. /\ RowsInv /\ Sound(request[r]) /\ request[r] \in InFlight
      /\ request \in [Requests -> InFlight \cup {None}]
  BY <1>1, CallTypes
<1>3a. PICK a \in Left(r) : \E i \in (IF DeadlinesOf(a) = {} THEN {None} ELSE DeadlinesOf(a)) :
         request' = [request EXCEPT ![r].next = "writeDeadline",
                                    ![r].assignment = a, ![r].event = i]
  BY DEF FindDeadline
<1>3. PICK i \in (IF DeadlinesOf(a) = {} THEN {None} ELSE DeadlinesOf(a)) :
         request' = [request EXCEPT ![r].next = "writeDeadline",
                                    ![r].assignment = a, ![r].event = i]
  BY <1>3a
<1>4. a \in Assignments
  BY <1>1, <1>2 DEF Left, Sound, OnPlan
<1>5. i \in Ids \cup {None} /\ (i = None <=> DeadlinesOf(a) = {}) /\ (i # None => i \in DeadlinesOf(a))
  BY <1>3, EventsAreIds, NoneIsNone
<1>6. request'[r] = [request[r] EXCEPT !.next = "writeDeadline", !.assignment = a, !.event = i]
  BY <1>2, <1>3
<1>7. request'[r] \in InFlight
  BY <1>2, <1>4, <1>5, <1>6 DEF InFlight, Statement
<1>8. /\ request'[r].next = "writeDeadline" /\ request'[r].plan = request[r].plan
      /\ request'[r].assignment = a /\ request'[r].event = i
      /\ request'[r].lesson = request[r].lesson /\ request'[r].at = request[r].at
      /\ request'[r].alone = request[r].alone
  BY <1>2, <1>6 DEF InFlight
<1>9. /\ request' \in [Requests -> InFlight \cup {None}]
      /\ \A p \in Requests : p # r => request'[p] = request[p]
  BY <1>2, <1>3, <1>7
<1>10. Sound(request[r])'
  BY <1>1, <1>2, <1>4, <1>8 DEF Sound, OnPlan, Listing
<1>11. \A b \in Assignments : DeadlinesOf(b)' = DeadlinesOf(b)
  BY <1>1, <1>2, SameRows
<1>12. Knows(request[r])'
  <2>1. KnowsDeadline(request[r])'
    BY <1>4, <1>5, <1>8, <1>11 DEF KnowsDeadline, FoundDeadline
  <2>2. KnowsLesson(request[r])' /\ KnowsEvent(request[r])' /\ KnowsCalendar(request[r])'
    BY <1>8 DEF KnowsLesson, KnowsEvent, KnowsCalendar
  <2> QED BY <2>1, <2>2 DEF Knows
<1>13. ASSUME ~overlapped, ~broken PROVE StillOwed(r)'
  <2>1. \A k \in Lessons : Mirrored(k)'
    BY <1>1, <1>2, <1>13, InStep, SameRows DEF Settled
  <2> QED BY <1>8, <2>1, NoDebt DEF Settled
<1> QED BY <1>1, <1>8, <1>9, <1>10, <1>12, <1>13, ReadInv

\* Deadline i gets another date, or its row is written anew.
LEMMA DeadlineWritten ==
    ASSUME IndInv, NEW r \in Requests, Busy(r), Settled(request[r]),
           NEW i \in Ids, NEW a \in Assignments, NEW row \in Event, LinksExist(row),
           row.type = "DEADLINE", row.assignment = a \/ event[i].assignment = row.assignment,
           event[i] # None, ~overlapped => i \in DeadlinesOf(a),
           event' \in [Ids -> Event \cup {None}], event'[i] = row,
           \A j \in Ids : j # i => event'[j] = event[j],
           lesson' = lesson, homework' = homework, created' = created
    PROVE  /\ RowsInv'
           /\ ~overlapped /\ ~broken => \A k \in Lessons : Mirrored(k)'
           /\ ~overlapped /\ ~byHand => \A b \in Assignments : AtMostOne(DeadlinesOf(b))'
<1>1. RowsInv
  BY CallTypes
<1>2. /\ RowsInv'
      /\ \A k \in Lessons : LivesOf(k)' = LivesOf(k) \ {i}
      /\ \A b \in Assignments : DeadlinesOf(b)' =
            IF row.assignment = b THEN DeadlinesOf(b) \cup {i} ELSE DeadlinesOf(b) \ {i}
  <2>1. /\ RowsInv'
        /\ \A k \in Lessons : LivesOf(k)' =
              IF row.type = "LIVE" /\ row.lesson = k THEN LivesOf(k) \cup {i} ELSE LivesOf(k) \ {i}
        /\ \A b \in Assignments : DeadlinesOf(b)' =
              IF row.type = "DEADLINE" /\ row.assignment = b
                THEN DeadlinesOf(b) \cup {i} ELSE DeadlinesOf(b) \ {i}
    BY <1>1, WriteRow
  <2> QED BY <2>1
<1>3. ASSUME ~overlapped, ~broken PROVE \A k \in Lessons : Mirrored(k)'
  <2>0. event[i].type = "DEADLINE"
    BY <1>3 DEF DeadlinesOf
  <2>1. \A k \in Lessons : i \notin LivesOf(k)
    BY <2>0 DEF LivesOf
  <2>2. \A k \in Lessons : i \notin LivesOf(k) /\ LivesOf(k)' = LivesOf(k)
    <3> SUFFICES ASSUME NEW k \in Lessons
                 PROVE  i \notin LivesOf(k) /\ LivesOf(k)' = LivesOf(k)
      OBVIOUS
    <3>1. LivesOf(k)' = LivesOf(k) \ {i} /\ i \notin LivesOf(k)
      BY <1>2, <2>1
    <3> QED BY <3>1
  <2> QED BY <1>3, <2>2, AllStay, InStep
<1>4. ASSUME ~overlapped, ~byHand PROVE \A b \in Assignments : AtMostOne(DeadlinesOf(b))'
  <2>1. row.assignment = a /\ i \in DeadlinesOf(a)
    BY <1>4 DEF DeadlinesOf
  <2>2. \A b \in Assignments : DeadlinesOf(b)' \subseteq DeadlinesOf(b)
    BY <1>2, <2>1
  <2> QED BY <1>4, <2>2, FewerDeadlines DEF IndInv, DeadlineInv
<1> QED BY <1>2, <1>3, <1>4

\* A deadline is added where there was none.
LEMMA DeadlineAdded ==
    ASSUME IndInv, NEW r \in Requests, Busy(r), Settled(request[r]),
           NEW a \in Assignments, NEW row \in Event, LinksExist(row), Insert(row),
           row.type = "DEADLINE", row.assignment = a,
           ~overlapped => DeadlinesOf(a) = {},
           lesson' = lesson, homework' = homework
    PROVE  /\ RowsInv'
           /\ \A k \in Lessons : LivesOf(k)' = LivesOf(k)
           /\ \A b \in Assignments : DeadlinesOf(b)' =
                 IF b = a THEN DeadlinesOf(b) \cup {created + 1} ELSE DeadlinesOf(b)
           /\ created + 1 \in Ids
           /\ ~overlapped /\ ~broken => \A k \in Lessons : Mirrored(k)'
           /\ ~overlapped /\ ~byHand => \A b \in Assignments : AtMostOne(DeadlinesOf(b))'
<1>1. RowsInv
  BY CallTypes
<1>2. PICK n \in Ids : n = created + 1 /\ event[n] = None
  BY <1>1, InsertRow
<1>3. /\ RowsInv'
      /\ \A i \in Ids : i # n => event'[i] = event[i]
      /\ \A k \in Lessons : LivesOf(k)' = LivesOf(k)
      /\ \A b \in Assignments : DeadlinesOf(b)' =
            IF b = a THEN DeadlinesOf(b) \cup {n} ELSE DeadlinesOf(b)
  <2>1. /\ RowsInv'
        /\ \A i \in Ids : i # created + 1 => event'[i] = event[i]
        /\ \A l \in Lessons : LivesOf(l)' =
              IF row.type = "LIVE" /\ row.lesson = l THEN LivesOf(l) \cup {created + 1} ELSE LivesOf(l)
        /\ \A b \in Assignments : DeadlinesOf(b)' =
              IF row.type = "DEADLINE" /\ row.assignment = b
                THEN DeadlinesOf(b) \cup {created + 1} ELSE DeadlinesOf(b)
    BY <1>1, InsertRow
  <2> QED BY <1>2, <2>1
<1>4. ASSUME ~overlapped, ~broken PROVE \A k \in Lessons : Mirrored(k)'
  <2>1. \A k \in Lessons : n \notin LivesOf(k) /\ LivesOf(k)' = LivesOf(k)
    BY <1>2, <1>3 DEF LivesOf
  <2> QED BY <1>3, <1>4, <2>1, AllStay, InStep
<1>5. ASSUME ~overlapped, ~byHand PROVE \A b \in Assignments : AtMostOne(DeadlinesOf(b))'
  <2>1. \A b \in Assignments : DeadlinesOf(b)' = IF b = a THEN {n} ELSE DeadlinesOf(b)
    BY <1>3, <1>5
  <2>2. \A b \in Assignments : AtMostOne(DeadlinesOf(b))
    BY <1>5 DEF IndInv, DeadlineInv
  <2> QED BY <2>1, <2>2 DEF AtMostOne
<1> QED BY <1>2, <1>3, <1>4, <1>5

LEMMA WriteDeadlineStep ==
    ASSUME IndInv, NEW r \in Requests, WriteDeadline(r)
    PROVE  IndInv'
<1>1. Busy(r) /\ request[r].next = "writeDeadline"
  BY DEF WriteDeadline, At
<1>2. /\ RowsInv /\ Sound(request[r]) /\ request[r] \in InFlight
      /\ request \in [Requests -> InFlight \cup {None}]
      /\ request[r].event \in Ids \cup {None}
      /\ request[r].plan \in [Lessons \cup Assignments -> Dates \cup {None}]
  BY <1>1, CallTypes
<1>3. PICK l \in Lessons, at \in Dates, a \in Assignments :
         l = request[r].lesson /\ at = request[r].at /\ a = request[r].assignment
  BY <1>1, <1>2 DEF Sound
<1>4. Settled(request[r])
  BY <1>1 DEF Settled
<1>5. ~overlapped => IF request[r].event = None THEN DeadlinesOf(a) = {}
                                                ELSE request[r].event \in DeadlinesOf(a)
  BY <1>1, <1>3, TheOnlyCall DEF Knows, KnowsDeadline, FoundDeadline
<1> DEFINE NextRow ==
      IF Without(r, a) = NoPlan
        THEN Finish(r)
        ELSE request' = [request EXCEPT ![r].next = "findDeadline", ![r].plan = Without(r, a)]
<1>6. ASSUME NextRow, RowsInv', UNCHANGED <<calls, history>>,
             ~overlapped /\ ~broken => \A k \in Lessons : Mirrored(k)',
             ~overlapped /\ ~byHand => \A b \in Assignments : AtMostOne(DeadlinesOf(b))'
      PROVE  IndInv'
  <2>1. overlapped' = overlapped /\ broken' = broken /\ byHand' = byHand /\ calls' = calls
    BY <1>6 DEF history
  <2>2. CASE Finish(r)
    <3>1. /\ request' \in [Requests -> InFlight \cup {None}] /\ ~Busy(r)'
          /\ \A p \in Requests : p # r => request'[p] = request[p]
      BY <1>1, <2>2, Ends
    <3>2. ~overlapped /\ ~broken => StillOwed(r)'
      BY <1>6, <3>1, NoDebt
    <3>3. ~overlapped /\ ~byHand => NoSecondDeadline(r)'
      BY <1>6, <3>1 DEF NoSecondDeadline
    <3> QED BY <1>1, <1>6, <2>1, <3>1, <3>2, <3>3, StatementInv
  <2>3. CASE request' = [request EXCEPT ![r].next = "findDeadline", ![r].plan = Without(r, a)]
    <3>1. PICK plan : plan = Without(r, a)
      OBVIOUS
    <3>2. /\ plan \in [Lessons \cup Assignments -> Dates \cup {None}]
          /\ \A k \in Lessons \cup Assignments : plan[k] # None => k \in Assignments
      BY <1>1, <1>2, <3>1 DEF Without, Sound, OnPlan
    <3>3. request'[r] = [request[r] EXCEPT !.next = "findDeadline", !.plan = plan]
      BY <1>2, <2>3, <3>1
    <3>4. request'[r] \in InFlight
      BY <1>2, <3>2, <3>3 DEF InFlight, Statement
    <3>5. /\ request'[r].next = "findDeadline" /\ request'[r].plan = plan
          /\ request'[r].lesson = l /\ request'[r].at = at
          /\ request'[r].alone = request[r].alone
      BY <1>2, <1>3, <3>3 DEF InFlight
    <3>6. /\ request' \in [Requests -> InFlight \cup {None}]
          /\ \A p \in Requests : p # r => request'[p] = request[p]
      BY <1>2, <2>3, <3>4
    <3>7. Sound(request[r])'
      BY <3>2, <3>5 DEF Sound, OnPlan, Listing
    <3>8. ~overlapped /\ ~broken => StillOwed(r)'
      BY <1>6, <3>5, NoDebt DEF Settled
    <3>9. ~overlapped /\ ~byHand => NoSecondDeadline(r)'
      BY <1>6, <3>5 DEF NoSecondDeadline
    <3> QED BY <1>1, <1>6, <2>1, <3>5, <3>6, <3>7, <3>8, <3>9, NothingToKnow, StatementInv
  <2> QED BY <1>6, <2>2, <2>3
<1> HIDE DEF NextRow
<1>7. CASE /\ request[r].event = None /\ LinksExist(Deadline(at, l, a))
           /\ Insert(Deadline(at, l, a)) /\ NextRow
           /\ UNCHANGED <<lesson, homework, calls, history>>
  <2>0. PICK row : row = Deadline(at, l, a)
    OBVIOUS
  <2>1. /\ row \in Event /\ row = Deadline(at, l, a)
        /\ row.type = "DEADLINE" /\ row.assignment = a
    BY <2>0 DEF Deadline, Event
  <2>2. /\ RowsInv'
        /\ ~overlapped /\ ~broken => \A k \in Lessons : Mirrored(k)'
        /\ ~overlapped /\ ~byHand => \A b \in Assignments : AtMostOne(DeadlinesOf(b))'
    BY <1>1, <1>4, <1>5, <1>7, <2>1, DeadlineAdded
  <2> QED BY <1>6, <1>7, <2>2
<1>8. CASE /\ request[r].event # None /\ event[request[r].event] # None
           /\ event' = [event EXCEPT ![request[r].event].startsAt = at] /\ NextRow
           /\ UNCHANGED <<lesson, homework, created, calls, history>>
  <2>1. PICK i \in Ids : i = request[r].event /\ event[i] # None /\ event[i] \in Event
    BY <1>2, <1>8 DEF RowsInv
  <2>2. PICK row : row = [event[i] EXCEPT !.startsAt = at]
    OBVIOUS
  <2>3. /\ row \in Event /\ row.type = event[i].type
        /\ row.lesson = event[i].lesson /\ row.assignment = event[i].assignment
    BY <2>1, <2>2 DEF Event
  <2>4. LinksExist(row)
    BY <1>2, <2>1, <2>3 DEF RowsInv, Linked, LinksExist
  <2>5. /\ event' \in [Ids -> Event \cup {None}] /\ event'[i] = row
        /\ \A j \in Ids : j # i => event'[j] = event[j]
    BY <1>2, <1>8, <2>1, <2>2, <2>3 DEF RowsInv
  <2>6. lesson' = lesson /\ homework' = homework /\ created' = created
    BY <1>8
  <2>7. RowsInv' /\ \A b \in Assignments : row.type = "LIVE" => DeadlinesOf(b)' = DeadlinesOf(b) \ {i}
    BY <1>2, <2>1, <2>3, <2>4, <2>5, <2>6, WriteRow
  <2>8. /\ ~overlapped /\ ~broken => \A k \in Lessons : Mirrored(k)'
        /\ ~overlapped /\ ~byHand => \A b \in Assignments : AtMostOne(DeadlinesOf(b))'
    <3> SUFFICES ASSUME ~overlapped
                 PROVE  /\ ~broken => \A k \in Lessons : Mirrored(k)'
                        /\ ~byHand => \A b \in Assignments : AtMostOne(DeadlinesOf(b))'
      OBVIOUS
    <3>1. i \in DeadlinesOf(a)
      BY <1>5, <1>8, <2>1
    <3>2. row.type = "DEADLINE" /\ row.assignment = a
      BY <2>3, <3>1 DEF DeadlinesOf
    <3> QED BY <1>1, <1>4, <2>1, <2>3, <2>4, <2>5, <2>6, <3>1, <3>2, DeadlineWritten
  <2> QED BY <1>6, <1>8, <2>7, <2>8
<1>9. CASE Fail(r)
  BY <1>1, <1>9, FailInv
<1> QED BY <1>3, <1>7, <1>8, <1>9, Zenon DEF WriteDeadline, NextRow

LEMMA CallIsCall ==
    /\ Call \in InFlight
    /\ Call.next = "findLive" /\ Call.lesson = None /\ Call.assignment = None /\ Call.event = None
    /\ Call.type = "LIVE" /\ Call.at = None /\ Call.was = None /\ Call.plan = NoPlan
    /\ Call.alone = (\A q \in Requests : ~Busy(q))
<1>1. NoPlan \in [Lessons \cup Assignments -> Dates \cup {None}]
  BY DEF NoPlan
<1>2. (\A q \in Requests : ~Busy(q)) \in BOOLEAN
  BY Zenon
<1>3. ASSUME NEW b \in BOOLEAN
      PROVE  [next |-> "findLive", lesson |-> None, assignment |-> None, event |-> None,
              type |-> "LIVE", at |-> None, endsFirst |-> FALSE, was |-> None, plan |-> NoPlan,
              doomed |-> {}, alone |-> b] \in InFlight
  BY <1>1 DEF InFlight, Statement
<1>4. Call \in InFlight
  BY <1>2, <1>3, Zenon DEF Call
<1> QED BY <1>4 DEF Call

LEMMA LessonSaveStep ==
    ASSUME IndInv, NEW r \in Requests, NEW l \in Lessons, NEW at \in Dates \cup {None},
           NEW endsFirst \in BOOLEAN, LessonSave(r, l, at, endsFirst)
    PROVE  IndInv'
<1>1. PICK c : c = [Call EXCEPT !.lesson = l, !.at = at, !.endsFirst = endsFirst]
  OBVIOUS
<1>2. /\ c \in InFlight /\ c.next = "findLive" /\ c.lesson = l /\ c.at = at
      /\ c.assignment = None /\ c.event = None /\ c.plan = NoPlan
      /\ c.alone = (\A q \in Requests : ~Busy(q))
  BY <1>1, CallIsCall DEF InFlight
<1>3. /\ lesson[l] # None /\ Start(r, c)
      /\ lesson' = [lesson EXCEPT ![l] = [scheduledAt |-> at]]
      /\ homework' = homework /\ event' = event /\ created' = created
      /\ broken' = broken /\ byHand' = byHand
  BY <1>1 DEF LessonSave
<1>4. RowsInv
  BY Types DEF IndInv
<1>5. /\ lesson' \in [Lessons -> Lesson \cup {None}] /\ lesson'[l] = [scheduledAt |-> at]
      /\ \A k \in Lessons : k # l => lesson'[k] = lesson[k]
  BY <1>3, <1>4 DEF RowsInv, Lesson
<1>6. /\ RowsInv'
      /\ \A k \in Lessons : LivesOf(k)' = LivesOf(k)
      /\ \A a \in Assignments : DeadlinesOf(a)' = DeadlinesOf(a)
  BY <1>3, <1>4, <1>5, DateRow
<1>7. request'[r] = c /\ Busy(r)'
  BY <1>2, <1>3, NoneIsNone DEF Start, Busy
<1>8. Sound(request[r])'
  BY <1>2, <1>7 DEF Sound, OnPlan, Listing
<1>9. Knows(request[r])'
  <2>1. KnowsLesson(request[r])'
    BY <1>2, <1>5, <1>7 DEF KnowsLesson
  <2>2. KnowsDeadline(request[r])' /\ KnowsEvent(request[r])' /\ KnowsCalendar(request[r])'
    BY <1>2, <1>7 DEF KnowsDeadline, KnowsEvent, KnowsCalendar
  <2> QED BY <2>1, <2>2 DEF Knows
<1>10. ASSUME \A k \in Lessons : Mirrored(k) PROVE StillOwed(r)'
  <2>1. \A k \in Lessons : Owes(request[r], k)' <=> k = l
    BY <1>2, <1>7 DEF Owes
  <2>2. OwedFor(request[r], l)'
    <3>1. AtMostOne(LivesOf(l))
      BY <1>10 DEF AtMostOne, Mirrored
    <3>2. AtMostOne(LivesOf(l))'
      BY <1>6, <3>1 DEF AtMostOne
    <3> QED BY <1>2, <1>7, <3>2 DEF OwedFor
  <2>3. \A k \in Lessons : k # l => Mirrored(k)'
    <3> SUFFICES ASSUME NEW k \in Lessons, k # l PROVE Mirrored(k)'
      OBVIOUS
    <3>1. Mirrored(k) /\ LivesOf(k)' = LivesOf(k) /\ lesson'[k] = lesson[k] /\ event' = event
      BY <1>3, <1>5, <1>6, <1>10
    <3> QED BY <3>1 DEF Mirrored
  <2> QED BY <1>2, <1>7, <2>1, <2>2, <2>3 DEF StillOwed
<1>11. ~overlapped /\ ~byHand' => NoSecondDeadline(r)'
  BY <1>2, <1>3, <1>6, <1>7, FewerDeadlines DEF IndInv, DeadlineInv, NoSecondDeadline
<1> QED BY <1>2, <1>3, <1>6, <1>7, <1>8, <1>9, <1>10, <1>11, StartInv

\* A call that comes in: c is its record.
LEMMA Begins ==
    ASSUME NEW r \in Requests, NEW c, c \in InFlight \cup {None}, Start(r, c)
    PROVE  request'[r] = c /\ (Busy(r)' <=> c # None)
BY DEF Start, Busy

LEMMA LessonRemoveStep ==
    ASSUME IndInv, NEW r \in Requests, NEW l \in Lessons, LessonRemove(r, l)
    PROVE  IndInv'
<1>1. PICK c : c = [Call EXCEPT !.next = "deleteLesson", !.lesson = l]
  OBVIOUS
<1>2. /\ c \in InFlight /\ c.next = "deleteLesson" /\ c.lesson = l
      /\ c.assignment = None /\ c.event = None /\ c.was = None
      /\ c.alone = (\A q \in Requests : ~Busy(q))
  BY <1>1, CallIsCall DEF InFlight, Statement
<1>3. /\ Start(r, c) /\ Delete(LivesOf(l))
      /\ lesson' = lesson /\ homework' = homework /\ created' = created
      /\ broken' = broken /\ byHand' = byHand
  BY <1>1 DEF LessonRemove
<1>4. RowsInv
  BY Types DEF IndInv
<1>5. /\ RowsInv'
      /\ \A i \in Ids : event'[i] = IF i \in LivesOf(l) THEN None ELSE event[i]
      /\ \A k \in Lessons : LivesOf(k)' = LivesOf(k) \ LivesOf(l)
      /\ \A a \in Assignments : DeadlinesOf(a)' = DeadlinesOf(a) \ LivesOf(l)
  BY <1>3, <1>4, DeleteRows
<1>6. request'[r] = c /\ Busy(r)'
  BY <1>2, <1>3, Begins, NoneIsNone
<1>7. Sound(request[r])'
  BY <1>2, <1>6 DEF Sound, OnPlan, Listing
<1>8. Knows(request[r])'
  BY <1>2, <1>6, NothingToKnow
<1>9. ASSUME \A k \in Lessons : Mirrored(k) PROVE StillOwed(r)'
  <2>1. \A k \in Lessons : Owes(request[r], k)' <=> k = l
    BY <1>2, <1>6 DEF Owes
  <2>2. OwedFor(request[r], l)'
    <3>1. LivesOf(l)' = {}
      BY <1>5
    <3> QED BY <1>2, <1>6, <3>1 DEF OwedFor
  <2>3. \A k \in Lessons : k # l => Mirrored(k)'
    <3> SUFFICES ASSUME NEW k \in Lessons, k # l PROVE Mirrored(k)'
      OBVIOUS
    <3>1. \A i \in LivesOf(k) : i \notin LivesOf(l)
      BY DEF LivesOf
    <3>2. LivesOf(k)' = LivesOf(k)
      BY <1>5, <3>1
    <3>3. \A i \in LivesOf(k) : event'[i] = event[i]
      BY <1>5, <3>1, EventsAreIds
    <3> QED BY <1>3, <1>9, <3>2, <3>3 DEF Mirrored
  <2> QED BY <1>2, <1>6, <2>1, <2>2, <2>3 DEF StillOwed
<1>10. ~overlapped /\ ~byHand' => NoSecondDeadline(r)'
  <2>1. \A a \in Assignments : DeadlinesOf(a)' \subseteq DeadlinesOf(a)
    BY <1>5
  <2> QED BY <1>2, <1>3, <1>6, <2>1, FewerDeadlines DEF IndInv, DeadlineInv, NoSecondDeadline
<1> QED BY <1>2, <1>3, <1>5, <1>6, <1>7, <1>8, <1>9, <1>10, StartInv

LEMMA DeleteLessonStep ==
    ASSUME IndInv, NEW r \in Requests, DeleteLesson(r)
    PROVE  IndInv'
<1>1. Busy(r) /\ request[r].next = "deleteLesson"
  BY DEF DeleteLesson, At
<1>2. RowsInv /\ Sound(request[r])
  BY <1>1, CallTypes
<1>3. PICK l \in Lessons : l = request[r].lesson
  BY <1>1, <1>2 DEF Sound
<1>4. PICK gone \in SUBSET Assignments :
         gone = {a \in Assignments : homework[a] # None /\ homework[a].lesson = l}
  OBVIOUS
<1>5. CASE /\ lesson[l] # None
           /\ lesson' = [lesson EXCEPT ![l] = None]
           /\ homework' = [a \in Assignments |-> IF a \in gone THEN None ELSE homework[a]]
           /\ Unlink({l}, gone) /\ Finish(r)
           /\ UNCHANGED <<created, calls, history>>
  <2>1. /\ request' \in [Requests -> InFlight \cup {None}] /\ ~Busy(r)'
        /\ \A p \in Requests : p # r => request'[p] = request[p]
    BY <1>1, <1>5, Ends
  <2>2. /\ event' \in [Ids -> Event \cup {None}]
        /\ \A i \in Ids : event'[i] = None <=> event[i] = None
        /\ \A i \in Ids : event[i] # None =>
              /\ event'[i].type = event[i].type /\ event'[i].startsAt = event[i].startsAt
              /\ event'[i].lesson = IF event[i].lesson \in {l} THEN None ELSE event[i].lesson
              /\ event'[i].assignment =
                    IF event[i].assignment \in gone THEN None ELSE event[i].assignment
        /\ \A k \in Lessons : LivesOf(k)' = IF k \in {l} THEN {} ELSE LivesOf(k)
        /\ \A a \in Assignments : DeadlinesOf(a)' = IF a \in gone THEN {} ELSE DeadlinesOf(a)
    <3>1. {l} \in SUBSET Lessons /\ Unlink({l}, gone)
      BY <1>5
    <3>2. PICK ls \in SUBSET Lessons : ls = {l}
      BY <3>1
    <3>3. Unlink(ls, gone)
      BY <3>1, <3>2
    <3>4. /\ event' \in [Ids -> Event \cup {None}]
          /\ \A i \in Ids : event'[i] = None <=> event[i] = None
          /\ \A i \in Ids : event[i] # None =>
                /\ event'[i].type = event[i].type /\ event'[i].startsAt = event[i].startsAt
                /\ event'[i].lesson = IF event[i].lesson \in ls THEN None ELSE event[i].lesson
                /\ event'[i].assignment =
                      IF event[i].assignment \in gone THEN None ELSE event[i].assignment
          /\ \A k \in Lessons : LivesOf(k)' = IF k \in ls THEN {} ELSE LivesOf(k)
          /\ \A a \in Assignments : DeadlinesOf(a)' = IF a \in gone THEN {} ELSE DeadlinesOf(a)
      BY <1>2, <3>3, UnlinkRows
    <3> QED BY <3>2, <3>4, Zenon
  <2>3. /\ lesson' \in [Lessons -> Lesson \cup {None}] /\ lesson'[l] = None
        /\ \A k \in Lessons : k # l => lesson'[k] = lesson[k]
        /\ homework' \in [Assignments -> Homework \cup {None}]
        /\ \A a \in Assignments : homework'[a] = IF a \in gone THEN None ELSE homework[a]
        /\ created' = created
    BY <1>2, <1>5 DEF RowsInv
  <2>4. overlapped' = overlapped /\ broken' = broken /\ byHand' = byHand /\ calls' = calls
    BY <1>5 DEF history
  <2>5. RowsInv'
    <3>1. ASSUME NEW i \in Ids, event'[i] # None PROVE LinksExist(event[i])'
      <4>1. /\ event[i] # None
            /\ event[i].lesson # None => lesson[event[i].lesson] # None
            /\ event[i].assignment # None => homework[event[i].assignment] # None
        BY <1>2, <2>2, <3>1 DEF RowsInv, Linked, LinksExist
      <4>2. event[i].lesson \in Lessons \cup {None} /\ event[i].assignment \in Assignments \cup {None}
        BY <1>2, <4>1 DEF RowsInv, Event
      <4>3. event'[i].lesson # None => lesson'[event'[i].lesson] # None
        BY <2>2, <2>3, <4>1, <4>2
      <4>4. event'[i].assignment # None => homework'[event'[i].assignment] # None
        BY <2>2, <2>3, <4>1, <4>2
      <4> QED BY <4>3, <4>4 DEF LinksExist
    <3>2. ASSUME NEW a \in Assignments, homework'[a] # None, homework'[a].lesson # None
          PROVE  lesson'[homework'[a].lesson] # None
      <4>1. homework[a] # None /\ homework'[a] = homework[a] /\ homework[a].lesson # l
        BY <1>4, <2>3, <3>2
      <4>2. lesson[homework[a].lesson] # None /\ homework[a].lesson \in Lessons
        BY <1>2, <3>2, <4>1 DEF RowsInv, Linked, Homework
      <4> QED BY <2>3, <4>1, <4>2
    <3>3. Linked'
      BY <3>1, <3>2 DEF Linked
    <3>4. NextIsFree'
      BY <1>2, <2>2, <2>3 DEF RowsInv, NextIsFree
    <3> QED BY <1>2, <2>2, <2>3, <3>3, <3>4 DEF RowsInv
  <2>6. ASSUME ~overlapped, ~broken PROVE StillOwed(r)'
    <3>1. \A k \in Lessons : k # l => Mirrored(k)
      BY <1>1, <1>3, <2>6, TheOnlyCall DEF Owes
    <3>2. ASSUME NEW k \in Lessons PROVE Mirrored(k)'
      <4>1. CASE k = l
        BY <2>2, <2>3, <4>1 DEF Mirrored
      <4>2. CASE k # l
        <5>1. LivesOf(k)' = LivesOf(k) /\ lesson'[k] = lesson[k] /\ Mirrored(k)
          BY <2>2, <2>3, <3>1, <4>2
        <5>2. \A i \in LivesOf(k) : event'[i].startsAt = event[i].startsAt
          BY <2>2 DEF LivesOf
        <5> QED BY <5>1, <5>2 DEF Mirrored
      <4> QED BY <4>1, <4>2
    <3> QED BY <2>1, <3>2, NoDebt
  <2>7. ~overlapped /\ ~byHand => NoSecondDeadline(r)'
    <3>1. \A a \in Assignments : DeadlinesOf(a)' \subseteq DeadlinesOf(a)
      BY <2>2
    <3> QED BY <2>1, <3>1, FewerDeadlines DEF IndInv, DeadlineInv, NoSecondDeadline
  <2> QED BY <1>1, <2>1, <2>4, <2>5, <2>6, <2>7, StatementInv
<1>6. CASE Fail(r)
  BY <1>1, <1>6, FailInv
<1> QED BY <1>3, <1>4, <1>5, <1>6 DEF DeleteLesson

-----------------------------------------------------------------------------
(***************************************************************************)
(* CourseEventsService.                                                    *)
(***************************************************************************)
LEMMA EventCreateStep ==
    ASSUME IndInv, NEW r \in Requests, NEW row \in Event, EventCreate(r, row)
    PROVE  IndInv'
<1>1. PICK n : n = created + 1
  OBVIOUS
<1>2. PICK c : c = IF MirrorsLesson(row)
                     THEN [Call EXCEPT !.next = "deleteOthers", !.event = n,
                                       !.lesson = row.lesson, !.at = row.startsAt]
                     ELSE None
  OBVIOUS
<1>3. /\ LinksExist(row) /\ Insert(row) /\ Start(r, c)
      /\ byHand' = (byHand \/ row.type = "DEADLINE")
      /\ lesson' = lesson /\ homework' = homework /\ broken' = broken
  BY <1>1, <1>2 DEF EventCreate
<1>4. RowsInv /\ byHand \in BOOLEAN
  BY Types DEF IndInv
<1>5. /\ RowsInv'
      /\ n \in Ids /\ event[n] = None /\ event'[n] = row
      /\ \A i \in Ids : i # n => event'[i] = event[i]
      /\ \A l \in Lessons : LivesOf(l)' =
            IF row.type = "LIVE" /\ row.lesson = l THEN LivesOf(l) \cup {n} ELSE LivesOf(l)
      /\ \A a \in Assignments : DeadlinesOf(a)' =
            IF row.type = "DEADLINE" /\ row.assignment = a THEN DeadlinesOf(a) \cup {n} ELSE DeadlinesOf(a)
  BY <1>1, <1>3, <1>4, InsertRow
<1>6. /\ row.type \in {"LIVE", "DEADLINE"} /\ row.startsAt \in Dates
      /\ row.lesson \in Lessons \cup {None}
  BY DEF Event
<1>7. byHand' \in {byHand, TRUE} /\ (~byHand' => ~byHand /\ row.type = "LIVE")
  BY <1>3, <1>4, <1>6
<1>8. ~overlapped /\ ~byHand' => \A a \in Assignments : AtMostOne(DeadlinesOf(a))'
  <2>1. row.type = "LIVE" => \A a \in Assignments : DeadlinesOf(a)' \subseteq DeadlinesOf(a)
    BY <1>5
  <2> QED BY <1>7, <2>1, FewerDeadlines DEF IndInv, DeadlineInv
<1>9. \A l \in Lessons : n \notin LivesOf(l)
  BY <1>5 DEF LivesOf
<1>10. CASE MirrorsLesson(row)
  <2>1. row.type = "LIVE" /\ row.lesson \in Lessons
    BY <1>6, <1>10 DEF MirrorsLesson
  <2>2. /\ c \in InFlight /\ c.next = "deleteOthers" /\ c.lesson = row.lesson
        /\ c.at = row.startsAt /\ c.event = n /\ c.was = None
        /\ c.alone = (\A q \in Requests : ~Busy(q))
    BY <1>2, <1>5, <1>6, <1>10, <2>1, CallIsCall DEF InFlight, Statement
  <2>3. request'[r] = c /\ Busy(r)'
    BY <1>3, <2>2, Begins, NoneIsNone
  <2>4. Sound(request[r])'
    BY <1>5, <1>6, <2>1, <2>2, <2>3 DEF Sound, OnPlan, Listing
  <2>5. Knows(request[r])'
    <3>1. KnowsEvent(request[r])'
      BY <1>5, <2>1, <2>2, <2>3 DEF KnowsEvent, MovedHere
    <3>2. KnowsLesson(request[r])' /\ KnowsDeadline(request[r])' /\ KnowsCalendar(request[r])'
      BY <2>2, <2>3 DEF KnowsLesson, KnowsDeadline, KnowsCalendar
    <3> QED BY <3>1, <3>2 DEF Knows
  <2>6. ASSUME \A k \in Lessons : Mirrored(k) PROVE StillOwed(r)'
    <3>1. \A k \in Lessons : Owes(request[r], k)' <=> k = row.lesson
      BY <2>2, <2>3, NoneIsNone DEF Owes
    <3>2. OwedFor(request[r], row.lesson)'
      BY <2>2, <2>3 DEF OwedFor
    <3>3. \A k \in Lessons : k # row.lesson => Mirrored(k)'
      <4> SUFFICES ASSUME NEW k \in Lessons, k # row.lesson PROVE Mirrored(k)'
        OBVIOUS
      <4>1. LivesOf(k)' = LivesOf(k) /\ lesson'[k] = lesson[k] /\ Mirrored(k)
        BY <1>3, <1>5, <2>6
      <4> QED BY <1>5, <1>9, <4>1, MirroredStays
    <3> QED BY <2>1, <2>2, <2>3, <3>1, <3>2, <3>3 DEF StillOwed
  <2>7. ~overlapped /\ ~byHand' => NoSecondDeadline(r)'
    BY <1>8, <2>2, <2>3 DEF NoSecondDeadline
  <2> QED BY <1>3, <1>5, <1>7, <2>2, <2>3, <2>4, <2>5, <2>6, <2>7, StartInv
<1>11. CASE ~MirrorsLesson(row)
  <2>1. c = None
    BY <1>2, <1>11
  <2>2. ~Busy(r)'
    BY <1>3, <2>1, Begins
  <2>3. ASSUME \A k \in Lessons : Mirrored(k) PROVE StillOwed(r)'
    <3>1. \A k \in Lessons : n \notin LivesOf(k) /\ LivesOf(k)' = LivesOf(k)
      BY <1>5, <1>9, <1>11, NoneIsNone DEF MirrorsLesson
    <3>2. \A k \in Lessons : Mirrored(k)'
      BY <1>3, <1>5, <2>3, <3>1, AllStay
    <3> QED BY <2>2, <3>2, NoDebt
  <2>4. ~overlapped /\ ~byHand' => NoSecondDeadline(r)'
    BY <1>8, <2>2 DEF NoSecondDeadline
  <2> QED BY <1>3, <1>5, <1>7, <2>1, <2>2, <2>3, <2>4, StartInv
<1> QED BY <1>10, <1>11

\* The lesson an event is live for.
LEMMA LiveForOf ==
    ASSUME NEW row \in Event
    PROVE  /\ LiveFor(row) \in Lessons \cup {None}
           /\ MirrorsLesson(row) <=> LiveFor(row) # None
           /\ LiveFor(row) # None => row.type = "LIVE" /\ row.lesson = LiveFor(row)
           /\ \A k \in Lessons : row.type = "LIVE" /\ row.lesson = k <=> LiveFor(row) = k
BY NoneIsNone DEF LiveFor, MirrorsLesson, Event

LEMMA LiveForRow ==
    ASSUME RowsInv, NEW i \in Ids, event[i] # None
    PROVE  /\ event[i] \in Event
           /\ LiveFor(event[i]) \in Lessons \cup {None}
           /\ \A k \in Lessons : i \in LivesOf(k) <=> LiveFor(event[i]) = k
<1>1. PICK row \in Event : row = event[i]
  BY DEF RowsInv
<1>2. \A k \in Lessons : i \in LivesOf(k) <=> row.type = "LIVE" /\ row.lesson = k
  BY <1>1 DEF LivesOf
<1> QED BY <1>1, <1>2, LiveForOf

LEMMA EventUpdateStep ==
    ASSUME IndInv, NEW r \in Requests, NEW i \in Ids, NEW s \in {"moveEvent", "relinkEvent"},
           NEW type \in {"LIVE", "DEADLINE"}, NEW at \in Dates, NEW l \in Lessons \cup {None},
           EventUpdate(r, i, s, type, at, l)
    PROVE  IndInv'
<1>1. PICK was : was = LiveFor(event[i])
  OBVIOUS
<1>2. PICK c : c = [Call EXCEPT !.next = s, !.event = i, !.type = type, !.at = at,
                                !.lesson = l, !.was = was]
  OBVIOUS
<1>3. /\ event[i] # None /\ Start(r, c) /\ UNCHANGED tables /\ broken' = broken
      /\ byHand' = (byHand \/ type = "DEADLINE" \/ event[i].type = "DEADLINE")
  BY <1>1, <1>2 DEF EventUpdate
<1>4. RowsInv /\ byHand \in BOOLEAN
  BY Types DEF IndInv
<1>5. was \in Lessons \cup {None}
  BY <1>1, <1>3, <1>4, LiveForRow
<1>6. /\ c \in InFlight /\ c.next = s /\ c.event = i /\ c.type = type /\ c.at = at
      /\ c.lesson = l /\ c.was = was
      /\ c.alone = (\A q \in Requests : ~Busy(q))
  BY <1>2, <1>5, CallIsCall DEF InFlight, Statement
<1>7. request'[r] = c /\ Busy(r)'
  BY <1>3, <1>6, Begins, NoneIsNone
<1>8. /\ RowsInv'
      /\ \A k \in Lessons : Mirrored(k)' <=> Mirrored(k)
      /\ \A a \in Assignments : DeadlinesOf(a)' = DeadlinesOf(a)
  BY <1>3, <1>4, SameRows
<1>9. Sound(request[r])'
  BY <1>6, <1>7 DEF Sound, OnPlan, Listing
<1>10. Knows(request[r])'
  <2>1. KnowsEvent(request[r])'
    <3>1. event'[i] = event[i]
      BY <1>3 DEF tables
    <3>2. was = LiveFor(event'[i])
      BY <1>1, <3>1
    <3> QED BY <1>3, <1>6, <1>7, <3>1, <3>2 DEF KnowsEvent, LiveFor
  <2>2. KnowsLesson(request[r])' /\ KnowsDeadline(request[r])' /\ KnowsCalendar(request[r])'
    BY <1>6, <1>7 DEF KnowsLesson, KnowsDeadline, KnowsCalendar
  <2> QED BY <2>1, <2>2 DEF Knows
<1>11. ASSUME \A k \in Lessons : Mirrored(k) PROVE StillOwed(r)'
  BY <1>6, <1>7, <1>8, <1>11, NoDebt DEF Settled
<1>12. byHand' \in {byHand, TRUE} /\ (~byHand' => ~byHand /\ type = "LIVE")
  BY <1>3, <1>4
<1>13. ~overlapped /\ ~byHand' => NoSecondDeadline(r)'
  BY <1>6, <1>7, <1>8, <1>12, FewerDeadlines DEF IndInv, DeadlineInv, NoSecondDeadline
<1> QED BY <1>3, <1>6, <1>7, <1>8, <1>9, <1>10, <1>11, <1>12, <1>13, StartInv

LEMMA UpdateEventStep ==
    ASSUME IndInv, NEW r \in Requests, UpdateEvent(r)
    PROVE  IndInv'
<1>1. Busy(r) /\ request[r].next \in {"moveEvent", "relinkEvent"}
  BY DEF UpdateEvent, At
<1>2. /\ RowsInv /\ Sound(request[r]) /\ request[r] \in InFlight
      /\ request \in [Requests -> InFlight \cup {None}]
      /\ request[r].lesson \in Lessons \cup {None} /\ request[r].was \in Lessons \cup {None}
      /\ request[r].type \in {"LIVE", "DEADLINE"}
  BY <1>1, CallTypes
<1>3. PICK i \in Ids, at \in Dates : i = request[r].event /\ at = request[r].at
  BY <1>1, <1>2 DEF Sound
<1>4. PICK was \in Lessons \cup {None} : was = request[r].was
  BY <1>2
<1>5. PICK to : to = IF request[r].next = "moveEvent" THEN event[i].lesson ELSE request[r].lesson
  OBVIOUS
<1>6. PICK row : row = [event[i] EXCEPT !.type = request[r].type, !.startsAt = at, !.lesson = to]
  OBVIOUS
<1>7. CASE /\ event[i] # None
           /\ request[r].next = "relinkEvent" /\ request[r].lesson # None =>
                 lesson[request[r].lesson] # None
           /\ event' = [event EXCEPT ![i] = row]
           /\ IF LiveFor(row) = None /\ was = None
                THEN Finish(r)
                ELSE request' = [request EXCEPT
                       ![r].next = IF MirrorsLesson(row) THEN "deleteOthers" ELSE "clearLesson",
                       ![r].lesson = LiveFor(row)]
           /\ UNCHANGED <<lesson, homework, created, calls, history>>
  <2>1. /\ event[i] \in Event /\ event \in [Ids -> Event \cup {None}]
        /\ event[i].lesson \in Lessons \cup {None}
        /\ event[i].lesson # None => lesson[event[i].lesson] # None
        /\ event[i].assignment # None => homework[event[i].assignment] # None
    BY <1>2, <1>7 DEF RowsInv, Event, Linked, LinksExist
  <2>2. to \in Lessons \cup {None} /\ (to # None => lesson[to] # None)
    BY <1>1, <1>2, <1>5, <1>7, <2>1
  <2>3. /\ row \in Event /\ row.type = request[r].type /\ row.startsAt = at
        /\ row.lesson = to /\ row.assignment = event[i].assignment
    BY <1>2, <1>6, <2>1, <2>2 DEF Event
  <2>4. LinksExist(row)
    BY <2>1, <2>2, <2>3 DEF LinksExist
  <2>5. /\ event' \in [Ids -> Event \cup {None}]
        /\ event'[i] = row /\ \A j \in Ids : j # i => event'[j] = event[j]
    BY <1>7, <2>1, <2>3
  <2>6. /\ lesson' = lesson /\ homework' = homework /\ created' = created /\ calls' = calls
        /\ overlapped' = overlapped /\ broken' = broken /\ byHand' = byHand
    BY <1>7 DEF history
  <2>7. PICK live \in Lessons \cup {None} : live = LiveFor(row)
    BY <2>3, LiveForOf
  <2>8. \A k \in Lessons : row.type = "LIVE" /\ row.lesson = k <=> live = k
    BY <2>3, <2>7, LiveForOf
  <2>9. /\ RowsInv'
        /\ \A k \in Lessons : LivesOf(k)' = IF row.type = "LIVE" /\ row.lesson = k
                                              THEN LivesOf(k) \cup {i} ELSE LivesOf(k) \ {i}
        /\ \A a \in Assignments : DeadlinesOf(a)' =
              IF row.type = "DEADLINE" /\ row.assignment = a
                THEN DeadlinesOf(a) \cup {i} ELSE DeadlinesOf(a) \ {i}
    BY <1>2, <1>7, <2>3, <2>4, <2>5, <2>6, WriteRow
  <2>10. \A k \in Lessons : LivesOf(k)' = IF live = k THEN LivesOf(k) \cup {i} ELSE LivesOf(k) \ {i}
    BY <2>8, <2>9
  <2>11. ASSUME ~overlapped
         PROVE  \A k \in Lessons : i \in LivesOf(k) <=> was = k
    <3>1. KnowsEvent(request[r])
      BY <1>1, <2>11, TheOnlyCall DEF Knows
    <3>2. was = LiveFor(event[i])
      BY <1>1, <1>3, <1>4, <3>1 DEF KnowsEvent
    <3> QED BY <1>2, <1>7, <3>2, LiveForRow
  <2>12. Settled(request[r])
    BY <1>1 DEF Settled
  <2>13. ASSUME ~overlapped, ~broken
         PROVE  /\ \A k \in Lessons : k # live /\ k # was => Mirrored(k)'
                /\ \A k \in Lessons : k # live /\ k = was => LivesOf(k)' = {}
    <3>1. \A k \in Lessons : Mirrored(k) /\ (i \in LivesOf(k) <=> was = k)
      BY <1>1, <2>11, <2>12, <2>13, InStep
    <3>2. ASSUME NEW k \in Lessons, k # live, k # was PROVE Mirrored(k)'
      <4>1. i \notin LivesOf(k) /\ LivesOf(k)' = LivesOf(k) \ {i} /\ lesson'[k] = lesson[k]
        BY <2>6, <2>10, <3>1, <3>2
      <4> QED BY <2>5, <3>1, <4>1, MirroredStays
    <3>3. ASSUME NEW k \in Lessons, k # live, k = was PROVE LivesOf(k)' = {}
      <4>1. Mirrored(k) /\ i \in LivesOf(k) /\ LivesOf(k)' = LivesOf(k) \ {i}
        BY <2>10, <3>1, <3>3
      <4>2. LivesOf(k) = {i}
        BY <4>1 DEF Mirrored
      <4> QED BY <4>1, <4>2
    <3> QED BY <3>2, <3>3
  <2>14. ~overlapped /\ ~byHand => \A a \in Assignments : AtMostOne(DeadlinesOf(a))'
    <3> SUFFICES ASSUME ~overlapped, ~byHand
                 PROVE  \A a \in Assignments : AtMostOne(DeadlinesOf(a))'
      OBVIOUS
    <3>1. row.type = "LIVE"
      BY <1>1, <2>3 DEF IndInv, DeadlineInv
    <3>2. \A a \in Assignments : DeadlinesOf(a)' \subseteq DeadlinesOf(a)
      BY <2>9, <3>1
    <3> QED BY <3>2, FewerDeadlines DEF IndInv, DeadlineInv
  <2>15. CASE live = None /\ was = None
    <3>1. Finish(r)
      BY <1>7, <2>7, <2>15
    <3>2. /\ request' \in [Requests -> InFlight \cup {None}] /\ ~Busy(r)'
          /\ \A p \in Requests : p # r => request'[p] = request[p]
      BY <1>1, <3>1, Ends
    <3>3. ~overlapped /\ ~broken => StillOwed(r)'
      BY <2>13, <2>15, <3>2, NoDebt, NoneIsNone
    <3>4. ~overlapped /\ ~byHand => NoSecondDeadline(r)'
      BY <2>14, <3>2 DEF NoSecondDeadline
    <3> QED BY <1>1, <2>6, <2>9, <3>2, <3>3, <3>4, StatementInv
  <2>16. CASE ~(live = None /\ was = None)
    <3>1. PICK s : s = IF live # None THEN "deleteOthers" ELSE "clearLesson"
      OBVIOUS
    <3>2. request' = [request EXCEPT ![r].next = s, ![r].lesson = live]
      BY <1>7, <2>3, <2>7, <2>16, <3>1, LiveForOf
    <3>3. request'[r] = [request[r] EXCEPT !.next = s, !.lesson = live]
      BY <1>2, <3>2
    <3>4. request'[r] \in InFlight
      BY <1>2, <3>1, <3>3 DEF InFlight, Statement
    <3>5. /\ request'[r].next = s /\ request'[r].lesson = live /\ request'[r].was = was
          /\ request'[r].event = i /\ request'[r].at = at
          /\ request'[r].alone = request[r].alone
      BY <1>2, <1>3, <1>4, <3>3 DEF InFlight
    <3>6. /\ request' \in [Requests -> InFlight \cup {None}] /\ Busy(r)'
          /\ \A p \in Requests : p # r => request'[p] = request[p]
      BY <1>2, <3>2, <3>4, NoneIsNone DEF Busy
    <3>7. Sound(request[r])'
      BY <2>16, <3>1, <3>5 DEF Sound, OnPlan, Listing
    <3>8. Knows(request[r])'
      <4>1. KnowsEvent(request[r])'
        <5>1. CASE live # None
          <6>1. i \in LivesOf(live)'
            BY <2>10, <5>1
          <6>2. MovedHere(request[r], live)'
            BY <2>3, <2>5, <3>5, <6>1 DEF MovedHere
          <6> QED BY <3>1, <3>5, <5>1, <6>2 DEF KnowsEvent
        <5>2. CASE live = None
          BY <2>16, <3>1, <3>5, <5>2, NoneIsNone DEF KnowsEvent
        <5> QED BY <5>1, <5>2
      <4>2. KnowsLesson(request[r])' /\ KnowsDeadline(request[r])' /\ KnowsCalendar(request[r])'
        BY <3>1, <3>5 DEF KnowsLesson, KnowsDeadline, KnowsCalendar
      <4> QED BY <4>1, <4>2 DEF Knows
    <3>9. ASSUME ~overlapped, ~broken PROVE StillOwed(r)'
      <4>1. \A k \in Lessons : Owes(request[r], k)' <=> k = live \/ k = was
        BY <3>1, <3>5 DEF Owes
      <4>2. \A k \in Lessons : k = live \/ k = was => OwedFor(request[r], k)'
        BY <2>13, <3>1, <3>5, <3>9 DEF OwedFor
      <4> QED BY <2>13, <3>1, <3>5, <3>6, <3>9, <4>1, <4>2 DEF StillOwed
    <3>10. ~overlapped /\ ~byHand => NoSecondDeadline(r)'
      BY <2>14, <3>1, <3>5 DEF NoSecondDeadline
    <3> QED BY <1>1, <2>6, <2>9, <3>5, <3>6, <3>7, <3>8, <3>9, <3>10, StatementInv
  <2> QED BY <2>15, <2>16
<1>8. CASE Fail(r)
  BY <1>1, <1>8, FailInv
<1> QED BY <1>3, <1>4, <1>5, <1>6, <1>7, <1>8, Zenon DEF UpdateEvent

LEMMA DeleteOthersStep ==
    ASSUME IndInv, NEW r \in Requests, DeleteOthers(r)
    PROVE  IndInv'
<1>1. Busy(r) /\ request[r].next = "deleteOthers"
  BY DEF DeleteOthers, At
<1>2. /\ RowsInv /\ Sound(request[r])
      /\ request[r].was \in Lessons \cup {None}
  BY <1>1, CallTypes
<1>3. PICK l \in Lessons, i \in Ids, at \in Dates, was \in Lessons \cup {None} :
         /\ l = request[r].lesson /\ i = request[r].event /\ at = request[r].at
         /\ was = request[r].was
  BY <1>1, <1>2 DEF Sound
<1>4. PICK s \in Statement : s = IF was \notin {None, l} THEN "clearLesson" ELSE "setLesson"
  BY DEF Statement
<1>5. PICK others : others = LivesOf(l) \ {i}
  OBVIOUS
<1>6. /\ Delete(others) /\ Goto(r, s)
      /\ lesson' = lesson /\ homework' = homework /\ created' = created /\ calls' = calls
      /\ overlapped' = overlapped /\ broken' = broken /\ byHand' = byHand
  BY <1>3, <1>4, <1>5 DEF DeleteOthers, history
<1>7. /\ request' \in [Requests -> InFlight \cup {None}]
      /\ \A p \in Requests : p # r => request'[p] = request[p]
      /\ Busy(r)' /\ request'[r].next = s
      /\ request'[r].lesson = l /\ request'[r].event = i /\ request'[r].at = at
      /\ request'[r].was = was /\ request'[r].alone = request[r].alone
  BY <1>1, <1>3, <1>6, GoesOn
<1>8. /\ RowsInv'
      /\ \A j \in Ids : event'[j] = IF j \in others THEN None ELSE event[j]
      /\ \A k \in Lessons : LivesOf(k)' = LivesOf(k) \ others
      /\ \A a \in Assignments : DeadlinesOf(a)' = DeadlinesOf(a) \ others
  BY <1>2, <1>6, DeleteRows
<1>9. Sound(request[r])'
  BY <1>3, <1>4, <1>7 DEF Sound, OnPlan, Listing
<1>10. ASSUME request[r].alone PROVE Knows(request[r])'
  <2>1. KnowsEvent(request[r])'
    <3>1. MovedHere(request[r], l)
      BY <1>1, <1>3, <1>10, Zenon DEF IndInv, AloneInv, Knows, KnowsEvent
    <3>2. i \in LivesOf(l) /\ event[i].startsAt = at
      BY <1>3, <3>1 DEF MovedHere
    <3>3. LivesOf(l)' = {i}
      BY <1>5, <1>8, <3>2
    <3>4. event'[i].startsAt = at
      BY <1>5, <1>8, <3>2
    <3>5. SettledHere(request[r], l)'
      BY <1>7, <3>3, <3>4 DEF SettledHere
    <3> QED BY <1>4, <1>7, <3>5 DEF KnowsEvent
  <2>2. KnowsLesson(request[r])' /\ KnowsDeadline(request[r])' /\ KnowsCalendar(request[r])'
    BY <1>4, <1>7 DEF KnowsLesson, KnowsDeadline, KnowsCalendar
  <2> QED BY <2>1, <2>2 DEF Knows
<1>11. ASSUME ~overlapped, ~broken PROVE StillOwed(r)'
  <2>1. \A k \in Lessons : Owes(request[r], k) <=> k = l \/ k = was
    BY <1>1, <1>3 DEF Owes
  <2>2. \A k \in Lessons : k # l => IF k = was THEN LivesOf(k) = {} ELSE Mirrored(k)
    <3> SUFFICES ASSUME NEW k \in Lessons, k # l
                 PROVE  IF k = was THEN LivesOf(k) = {} ELSE Mirrored(k)
      OBVIOUS
    <3>1. CASE k = was
      BY <1>1, <1>3, <1>11, <2>1, <3>1, TheOnlyCall DEF OwedFor
    <3>2. CASE k # was
      BY <1>1, <1>11, <2>1, <3>2, TheOnlyCall
    <3> QED BY <3>1, <3>2
  <2>3. \A k \in Lessons : Owes(request[r], k)' <=> k = l \/ (s = "clearLesson" /\ k = was)
    BY <1>4, <1>7 DEF Owes
  <2>4. \A k \in Lessons : Owes(request[r], k)' => OwedFor(request[r], k)'
    <3> SUFFICES ASSUME NEW k \in Lessons, Owes(request[r], k)'
                 PROVE  OwedFor(request[r], k)'
      OBVIOUS
    <3>1. k # l => LivesOf(k)' = {}
      BY <1>8, <2>2, <2>3
    <3> QED BY <1>4, <1>7, <3>1 DEF OwedFor
  <2>5. \A k \in Lessons : ~Owes(request[r], k)' => Mirrored(k)'
    <3> SUFFICES ASSUME NEW k \in Lessons, k # l, k # was PROVE Mirrored(k)'
      BY <1>4, <2>3, NoneIsNone
    <3>1. Mirrored(k) /\ \A j \in LivesOf(k) : j \notin others
      BY <1>5, <2>2 DEF LivesOf
    <3>2. LivesOf(k)' = LivesOf(k) /\ lesson'[k] = lesson[k]
      BY <1>6, <1>8, <3>1
    <3>3. \A j \in LivesOf(k) : event'[j] = event[j]
      BY <1>8, <3>1, EventsAreIds
    <3> QED BY <3>1, <3>2, <3>3 DEF Mirrored
  <2> QED BY <1>4, <1>7, <2>4, <2>5 DEF StillOwed
<1>12. ~overlapped /\ ~byHand => NoSecondDeadline(r)'
  <2>1. \A a \in Assignments : DeadlinesOf(a)' \subseteq DeadlinesOf(a)
    BY <1>8
  <2> QED BY <1>4, <1>7, <2>1, FewerDeadlines DEF IndInv, DeadlineInv, NoSecondDeadline
<1> QED BY <1>1, <1>6, <1>7, <1>8, <1>9, <1>10, <1>11, <1>12, StatementInv

LEMMA ClearLessonStep ==
    ASSUME IndInv, NEW r \in Requests, ClearLesson(r)
    PROVE  IndInv'
<1>1. Busy(r) /\ request[r].next = "clearLesson"
  BY DEF ClearLesson, At
<1>2. /\ RowsInv /\ Sound(request[r])
      /\ request[r].lesson \in Lessons \cup {None}
      /\ request[r].event \in Ids \cup {None} /\ request[r].at \in Dates \cup {None}
  BY <1>1, CallTypes
<1>3. PICK was \in Lessons, l \in Lessons \cup {None} :
         was = request[r].was /\ l = request[r].lesson
  BY <1>1, <1>2 DEF Sound
<1>4. /\ lesson' = [lesson EXCEPT ![was] = IF @ = None THEN None ELSE [@ EXCEPT !.scheduledAt = None]]
      /\ homework' = homework /\ event' = event /\ created' = created /\ calls' = calls
      /\ overlapped' = overlapped /\ broken' = broken /\ byHand' = byHand
  BY <1>3 DEF ClearLesson, history
<1>5. /\ \A k \in Lessons : k # was => lesson'[k] = lesson[k]
      /\ lesson'[was] = None \/ lesson'[was].scheduledAt = None
      /\ RowsInv'
  <2>1. lesson \in [Lessons -> Lesson \cup {None}]
    BY <1>2 DEF RowsInv
  <2>2. CASE lesson[was] = None
    <3>1. lesson' = lesson
      BY <1>4, <2>1, <2>2
    <3>2. RowsInv'
      BY <1>2, <1>4, <3>1, SameRows DEF tables
    <3> QED BY <2>2, <3>1, <3>2
  <2>3. CASE lesson[was] # None
    <3>1. /\ lesson' \in [Lessons -> Lesson \cup {None}] /\ lesson'[was] = [scheduledAt |-> None]
          /\ \A k \in Lessons : k # was => lesson'[k] = lesson[k]
      BY <1>4, <2>1, <2>3 DEF Lesson
    <3>2. RowsInv'
      BY <1>2, <1>4, <2>3, <3>1, DateRow
    <3> QED BY <3>1, <3>2
  <2> QED BY <2>2, <2>3
<1>6. /\ \A k \in Lessons : LivesOf(k)' = LivesOf(k)
      /\ \A a \in Assignments : DeadlinesOf(a)' = DeadlinesOf(a)
  BY <1>4 DEF LivesOf, DeadlinesOf
<1>7. ASSUME ~overlapped, ~broken
      PROVE  /\ Mirrored(was)'
             /\ \A k \in Lessons : k # l => Mirrored(k)'
  <2>1. \A k \in Lessons : Owes(request[r], k) <=> k = l \/ k = was
    BY <1>1, <1>3 DEF Owes
  <2>2. was # l
    BY <1>1, <1>3, <1>7, TheOnlyCall DEF Knows, KnowsEvent
  <2>3. LivesOf(was) = {}
    BY <1>1, <1>3, <1>7, <2>1, <2>2, TheOnlyCall DEF OwedFor
  <2>4. Mirrored(was)'
    BY <1>5, <1>6, <2>3 DEF Mirrored
  <2>5. \A k \in Lessons : k # l /\ k # was => Mirrored(k)'
    <3> SUFFICES ASSUME NEW k \in Lessons, k # l, k # was PROVE Mirrored(k)'
      OBVIOUS
    <3>1. Mirrored(k)
      BY <1>1, <1>7, <2>1, TheOnlyCall
    <3>2. LivesOf(k)' = LivesOf(k) /\ lesson'[k] = lesson[k] /\ event' = event
      BY <1>4, <1>5, <1>6
    <3> QED BY <3>1, <3>2 DEF Mirrored
  <2> QED BY <2>4, <2>5
<1>8. ~overlapped /\ ~byHand => \A a \in Assignments : AtMostOne(DeadlinesOf(a))'
  BY <1>6, FewerDeadlines DEF IndInv, DeadlineInv
<1>9. CASE l = None
  <2>1. Finish(r)
    BY <1>3, <1>9 DEF ClearLesson
  <2>2. /\ request' \in [Requests -> InFlight \cup {None}] /\ ~Busy(r)'
        /\ \A p \in Requests : p # r => request'[p] = request[p]
    BY <1>1, <2>1, Ends
  <2>3. ~overlapped /\ ~broken => StillOwed(r)'
    BY <1>7, <1>9, <2>2, NoDebt, NoneIsNone
  <2>4. ~overlapped /\ ~byHand => NoSecondDeadline(r)'
    BY <1>8, <2>2 DEF NoSecondDeadline
  <2> QED BY <1>1, <1>4, <1>5, <2>2, <2>3, <2>4, StatementInv
<1>10. CASE l # None
  <2>1. Goto(r, "setLesson")
    BY <1>3, <1>10 DEF ClearLesson
  <2>2. PICK i \in Ids, at \in Dates : i = request[r].event /\ at = request[r].at /\ l \in Lessons
    BY <1>1, <1>2, <1>3, <1>10 DEF Sound
  <2>3. /\ request' \in [Requests -> InFlight \cup {None}]
        /\ \A p \in Requests : p # r => request'[p] = request[p]
        /\ Busy(r)' /\ request'[r].next = "setLesson"
        /\ request'[r].lesson = l /\ request'[r].event = i /\ request'[r].at = at
        /\ request'[r].alone = request[r].alone
    BY <1>1, <1>3, <2>1, <2>2, GoesOn DEF Statement
  <2>4. Sound(request[r])'
    BY <2>2, <2>3 DEF Sound, OnPlan, Listing
  <2>5. ASSUME request[r].alone PROVE Knows(request[r])'
    <3>1. KnowsEvent(request[r])'
      <4>1. SettledHere(request[r], l)
        BY <1>1, <1>3, <2>2, <2>5, Zenon DEF IndInv, AloneInv, Knows, KnowsEvent
      <4>2. LivesOf(l)' = {i} /\ event'[i].startsAt = at
        BY <1>4, <1>6, <2>2, <4>1 DEF SettledHere
      <4>3. SettledHere(request[r], l)'
        BY <2>3, <4>2 DEF SettledHere
      <4> QED BY <2>3, <4>3 DEF KnowsEvent
    <3>2. KnowsLesson(request[r])' /\ KnowsDeadline(request[r])' /\ KnowsCalendar(request[r])'
      BY <2>3 DEF KnowsLesson, KnowsDeadline, KnowsCalendar
    <3> QED BY <3>1, <3>2 DEF Knows
  <2>6. ASSUME ~overlapped, ~broken PROVE StillOwed(r)'
    <3>1. \A k \in Lessons : Owes(request[r], k)' <=> k = l
      BY <2>3 DEF Owes
    <3>2. OwedFor(request[r], l)'
      BY <2>3 DEF OwedFor
    <3> QED BY <1>7, <2>3, <2>6, <3>1, <3>2 DEF StillOwed
  <2>7. ~overlapped /\ ~byHand => NoSecondDeadline(r)'
    BY <1>8, <2>3 DEF NoSecondDeadline
  <2> QED BY <1>1, <1>4, <1>5, <2>3, <2>4, <2>5, <2>6, <2>7, StatementInv
<1> QED BY <1>9, <1>10

LEMMA SetLessonStep ==
    ASSUME IndInv, NEW r \in Requests, SetLesson(r)
    PROVE  IndInv'
<1>1. Busy(r) /\ request[r].next = "setLesson"
  BY DEF SetLesson, At
<1>2. RowsInv /\ Sound(request[r])
  BY <1>1, CallTypes
<1>3. PICK l \in Lessons, i \in Ids, at \in Dates :
         l = request[r].lesson /\ i = request[r].event /\ at = request[r].at
  BY <1>1, <1>2 DEF Sound
<1>4. CASE /\ lesson[l] # None
           /\ lesson' = [lesson EXCEPT ![l].scheduledAt = at]
           /\ Goto(r, "answer")
           /\ UNCHANGED <<homework, event, created, calls, history>>
  <2>1. /\ homework' = homework /\ event' = event /\ created' = created /\ calls' = calls
        /\ overlapped' = overlapped /\ broken' = broken /\ byHand' = byHand
    BY <1>4 DEF history
  <2>2. /\ lesson' \in [Lessons -> Lesson \cup {None}] /\ lesson'[l] = [scheduledAt |-> at]
        /\ \A k \in Lessons : k # l => lesson'[k] = lesson[k]
    BY <1>2, <1>4 DEF RowsInv, Lesson
  <2>3. /\ RowsInv'
        /\ \A k \in Lessons : LivesOf(k)' = LivesOf(k)
        /\ \A a \in Assignments : DeadlinesOf(a)' = DeadlinesOf(a)
    BY <1>2, <1>4, <2>1, <2>2, DateRow
  <2>4. /\ request' \in [Requests -> InFlight \cup {None}]
        /\ \A p \in Requests : p # r => request'[p] = request[p]
        /\ Busy(r)' /\ request'[r].next = "answer"
        /\ request'[r].lesson = l /\ request'[r].event = i
        /\ request'[r].alone = request[r].alone
    BY <1>1, <1>3, <1>4, GoesOn DEF Statement
  <2>5. Sound(request[r])'
    BY <2>4 DEF Sound, OnPlan, Listing
  <2>6. ASSUME SettledHere(request[r], l) PROVE Mirrored(l)'
    <3>1. LivesOf(l)' = {i} /\ event'[i].startsAt = at
      BY <1>3, <2>1, <2>3, <2>6 DEF SettledHere
    <3>2. lesson'[l] # None /\ lesson'[l].scheduledAt = at /\ at # None
      BY <2>2, NoneIsNone DEF Lesson
    <3> QED BY <3>1, <3>2 DEF Mirrored
  <2>7. ASSUME request[r].alone PROVE Knows(request[r])'
    <3>1. SettledHere(request[r], l)
      BY <1>1, <1>3, <2>7, Zenon DEF IndInv, AloneInv, Knows, KnowsEvent
    <3>2. KnowsEvent(request[r])'
      BY <2>4, <2>6, <3>1 DEF KnowsEvent
    <3>3. KnowsLesson(request[r])' /\ KnowsDeadline(request[r])' /\ KnowsCalendar(request[r])'
      BY <2>4, NoneIsNone DEF KnowsLesson, KnowsDeadline, KnowsCalendar
    <3> QED BY <3>2, <3>3 DEF Knows
  <2>8. ASSUME ~overlapped, ~broken PROVE StillOwed(r)'
    <3>1. SettledHere(request[r], l)
      BY <1>1, <1>3, <2>8, TheOnlyCall, Zenon DEF Knows, KnowsEvent
    <3>2. \A k \in Lessons : k # l => Mirrored(k)
      BY <1>1, <1>3, <2>8, TheOnlyCall DEF Owes
    <3>3. ASSUME NEW k \in Lessons, k # l PROVE Mirrored(k)'
      <4>1. Mirrored(k) /\ LivesOf(k)' = LivesOf(k) /\ lesson'[k] = lesson[k] /\ event' = event
        BY <2>1, <2>2, <2>3, <3>2, <3>3
      <4> QED BY <4>1 DEF Mirrored
    <3>4. \A k \in Lessons : Mirrored(k)'
      BY <2>6, <3>1, <3>3
    <3> QED BY <2>4, <3>4, NoDebt DEF Settled
  <2>9. ~overlapped /\ ~byHand => NoSecondDeadline(r)'
    BY <2>3, <2>4, FewerDeadlines DEF IndInv, DeadlineInv, NoSecondDeadline
  <2> QED BY <1>1, <2>1, <2>3, <2>4, <2>5, <2>7, <2>8, <2>9, StatementInv
<1>5. CASE Fail(r)
  BY <1>1, <1>5, FailInv
<1> QED BY <1>3, <1>4, <1>5 DEF SetLesson

LEMMA EventRemoveStep ==
    ASSUME IndInv, NEW r \in Requests, NEW i \in Ids, EventRemove(r, i)
    PROVE  IndInv'
<1>1. PICK was : was = LiveFor(event[i])
  OBVIOUS
<1>2. PICK c : c = [Call EXCEPT !.next = "removeEvent", !.event = i, !.was = was]
  OBVIOUS
<1>3. /\ event[i] # None /\ Start(r, c) /\ UNCHANGED tables /\ broken' = broken
      /\ byHand' = (byHand \/ event[i].type = "DEADLINE")
  BY <1>1, <1>2 DEF EventRemove
<1>4. RowsInv /\ byHand \in BOOLEAN
  BY Types DEF IndInv
<1>5. was \in Lessons \cup {None}
  BY <1>1, <1>3, <1>4, LiveForRow
<1>6. /\ c \in InFlight /\ c.next = "removeEvent" /\ c.event = i /\ c.lesson = None
      /\ c.was = was /\ c.alone = (\A q \in Requests : ~Busy(q))
  BY <1>2, <1>5, CallIsCall DEF InFlight, Statement
<1>7. request'[r] = c /\ Busy(r)'
  BY <1>3, <1>6, Begins, NoneIsNone
<1>8. /\ RowsInv'
      /\ \A k \in Lessons : Mirrored(k)' <=> Mirrored(k)
      /\ \A a \in Assignments : DeadlinesOf(a)' = DeadlinesOf(a)
  BY <1>3, <1>4, SameRows
<1>9. Sound(request[r])'
  BY <1>6, <1>7 DEF Sound, OnPlan, Listing
<1>10. Knows(request[r])'
  <2>1. KnowsEvent(request[r])'
    <3>1. event'[i] = event[i]
      BY <1>3 DEF tables
    <3>2. was = LiveFor(event'[i])
      BY <1>1, <3>1
    <3> QED BY <1>3, <1>6, <1>7, <3>1, <3>2 DEF KnowsEvent, LiveFor
  <2>2. KnowsLesson(request[r])' /\ KnowsDeadline(request[r])' /\ KnowsCalendar(request[r])'
    BY <1>6, <1>7 DEF KnowsLesson, KnowsDeadline, KnowsCalendar
  <2> QED BY <2>1, <2>2 DEF Knows
<1>11. ASSUME \A k \in Lessons : Mirrored(k) PROVE StillOwed(r)'
  BY <1>6, <1>7, <1>8, <1>11, NoDebt DEF Settled
<1>12. byHand' \in {byHand, TRUE} /\ (~byHand' => ~byHand)
  BY <1>3, <1>4
<1>13. ~overlapped /\ ~byHand' => NoSecondDeadline(r)'
  BY <1>6, <1>7, <1>8, <1>12, FewerDeadlines DEF IndInv, DeadlineInv, NoSecondDeadline
<1> QED BY <1>3, <1>6, <1>7, <1>8, <1>9, <1>10, <1>11, <1>12, <1>13, StartInv

LEMMA RemoveEventStep ==
    ASSUME IndInv, NEW r \in Requests, RemoveEvent(r)
    PROVE  IndInv'
<1>1. Busy(r) /\ request[r].next = "removeEvent"
  BY DEF RemoveEvent, At
<1>2. RowsInv /\ Sound(request[r]) /\ request[r].was \in Lessons \cup {None}
  BY <1>1, CallTypes
<1>3. PICK i \in Ids, was \in Lessons \cup {None} :
         i = request[r].event /\ was = request[r].was /\ request[r].lesson = None
  BY <1>1, <1>2 DEF Sound
<1>4. CASE /\ event[i] # None /\ Delete({i})
           /\ IF was = None THEN Finish(r) ELSE Goto(r, "clearLesson")
           /\ UNCHANGED <<lesson, homework, created, calls, history>>
  <2>1. /\ RowsInv'
        /\ \A j \in Ids : j # i => event'[j] = event[j]
        /\ \A k \in Lessons : LivesOf(k)' = LivesOf(k) \ {i}
        /\ \A a \in Assignments : DeadlinesOf(a)' = DeadlinesOf(a) \ {i}
    BY <1>2, <1>4, DeleteRows
  <2>2. /\ lesson' = lesson /\ calls' = calls
        /\ overlapped' = overlapped /\ broken' = broken /\ byHand' = byHand
    BY <1>4 DEF history
  <2>3. ASSUME ~overlapped, ~broken
        PROVE  \A k \in Lessons : IF k = was THEN LivesOf(k)' = {} ELSE Mirrored(k)'
    <3>1. was = LiveFor(event[i])
      BY <1>1, <1>3, <2>3, TheOnlyCall DEF Knows, KnowsEvent
    <3>2. \A k \in Lessons : Mirrored(k) /\ (i \in LivesOf(k) <=> was = k)
      BY <1>1, <1>2, <1>4, <2>3, <3>1, InStep, LiveForRow DEF Settled
    <3>3. ASSUME NEW k \in Lessons, k = was PROVE LivesOf(k)' = {}
      <4>1. LivesOf(k) = {i} /\ LivesOf(k)' = LivesOf(k) \ {i}
        BY <2>1, <3>2, <3>3 DEF Mirrored
      <4> QED BY <4>1
    <3>4. ASSUME NEW k \in Lessons, k # was PROVE Mirrored(k)'
      <4>1. i \notin LivesOf(k) /\ LivesOf(k)' = LivesOf(k) \ {i} /\ lesson'[k] = lesson[k] /\ Mirrored(k)
        BY <2>1, <2>2, <3>2, <3>4
      <4> QED BY <2>1, <4>1, MirroredStays
    <3> QED BY <3>3, <3>4
  <2>4. ~overlapped /\ ~byHand => \A a \in Assignments : AtMostOne(DeadlinesOf(a))'
    BY <2>1, FewerDeadlines DEF IndInv, DeadlineInv
  <2>5. CASE was = None
    <3>1. /\ request' \in [Requests -> InFlight \cup {None}] /\ ~Busy(r)'
          /\ \A p \in Requests : p # r => request'[p] = request[p]
      BY <1>1, <1>4, <2>5, Ends
    <3>2. ASSUME ~overlapped, ~broken PROVE StillOwed(r)'
      <4>1. \A k \in Lessons : Mirrored(k)'
        BY <2>3, <2>5, <3>2, NoneIsNone
      <4> QED BY <3>1, <4>1, NoDebt
    <3>3. ~overlapped /\ ~byHand => NoSecondDeadline(r)'
      BY <2>4, <3>1 DEF NoSecondDeadline
    <3> QED BY <1>1, <2>1, <2>2, <3>1, <3>2, <3>3, StatementInv
  <2>6. CASE was # None
    <3>1. /\ request' \in [Requests -> InFlight \cup {None}]
          /\ \A p \in Requests : p # r => request'[p] = request[p]
          /\ Busy(r)' /\ request'[r].next = "clearLesson"
          /\ request'[r].lesson = None /\ request'[r].was = was
          /\ request'[r].alone = request[r].alone
      BY <1>1, <1>3, <1>4, <2>6, GoesOn DEF Statement
    <3>2. Sound(request[r])'
      BY <2>6, <3>1 DEF Sound, OnPlan, Listing
    <3>3. Knows(request[r])'
      <4>1. KnowsEvent(request[r])'
        BY <2>6, <3>1, NoneIsNone DEF KnowsEvent
      <4>2. KnowsLesson(request[r])' /\ KnowsDeadline(request[r])' /\ KnowsCalendar(request[r])'
        BY <3>1 DEF KnowsLesson, KnowsDeadline, KnowsCalendar
      <4> QED BY <4>1, <4>2 DEF Knows
    <3>4. ASSUME ~overlapped, ~broken PROVE StillOwed(r)'
      <4>1. \A k \in Lessons : Owes(request[r], k)' <=> k = was
        BY <3>1, NoneIsNone DEF Owes
      <4>2. OwedFor(request[r], was)'
        BY <2>3, <2>6, <3>1, <3>4 DEF OwedFor
      <4> QED BY <2>3, <3>1, <3>4, <4>1, <4>2 DEF StillOwed
    <3>5. ~overlapped /\ ~byHand => NoSecondDeadline(r)'
      BY <2>4, <3>1 DEF NoSecondDeadline
    <3> QED BY <1>1, <2>1, <2>2, <3>1, <3>2, <3>3, <3>4, <3>5, StatementInv
  <2> QED BY <2>5, <2>6
<1>5. CASE Fail(r)
  BY <1>1, <1>5, FailInv
<1> QED BY <1>3, <1>4, <1>5 DEF RemoveEvent

-----------------------------------------------------------------------------
(***************************************************************************)
(* AssignmentsService.                                                     *)
(***************************************************************************)
LEMMA HomeworkSaveStep ==
    ASSUME IndInv, NEW r \in Requests, NEW a \in Assignments, NEW due \in Dates \cup {None},
           HomeworkSave(r, a, due)
    PROVE  IndInv'
<1>1. PICK c : c = [Call EXCEPT !.next = "readHomework", !.assignment = a]
  OBVIOUS
<1>2. /\ c \in InFlight /\ c.next = "readHomework" /\ c.assignment = a
      /\ c.alone = (\A q \in Requests : ~Busy(q))
  BY <1>1, CallIsCall DEF InFlight, Statement
<1>3. /\ homework[a] # None /\ Start(r, c)
      /\ homework' = [homework EXCEPT ![a].dueAt = due]
      /\ lesson' = lesson /\ event' = event /\ created' = created
      /\ broken' = broken /\ byHand' = byHand
  BY <1>1 DEF HomeworkSave
<1>4. RowsInv
  BY Types DEF IndInv
<1>5. PICK row : row = [homework[a] EXCEPT !.dueAt = due]
  OBVIOUS
<1>6. /\ homework[a] \in Homework /\ row \in Homework /\ row.lesson = homework[a].lesson
      /\ homework' \in [Assignments -> Homework \cup {None}] /\ homework'[a] = row
      /\ \A b \in Assignments : b # a => homework'[b] = homework[b]
  BY <1>3, <1>4, <1>5 DEF RowsInv, Homework
<1>7. \A b \in Assignments : /\ homework'[b] = None <=> homework[b] = None
                             /\ homework[b] # None => homework'[b].lesson = homework[b].lesson
  BY <1>3, <1>6, NoneIsNone
<1>8. RowsInv'
  <2>1. ASSUME NEW i \in Ids, event[i] # None PROVE LinksExist(event[i])'
    <3>1. LinksExist(event[i]) /\ event[i].assignment \in Assignments \cup {None}
      BY <1>4, <2>1 DEF RowsInv, Linked, Event
    <3> QED BY <1>3, <1>7, <3>1 DEF LinksExist
  <2>2. Linked'
    BY <1>3, <1>4, <1>7, <2>1 DEF RowsInv, Linked
  <2>3. NextIsFree'
    BY <1>3, <1>4 DEF RowsInv, NextIsFree
  <2> QED BY <1>3, <1>4, <1>6, <2>2, <2>3 DEF RowsInv
<1>9. /\ \A k \in Lessons : LivesOf(k)' = LivesOf(k)
      /\ \A b \in Assignments : DeadlinesOf(b)' = DeadlinesOf(b)
  BY <1>3 DEF LivesOf, DeadlinesOf
<1>10. \A k \in Lessons : Mirrored(k)' <=> Mirrored(k)
  BY <1>3, <1>9 DEF Mirrored
<1>11. request'[r] = c /\ Busy(r)'
  BY <1>2, <1>3, Begins, NoneIsNone
<1>12. Sound(request[r])'
  BY <1>2, <1>11 DEF Sound, OnPlan, Listing
<1>13. Knows(request[r])'
  BY <1>2, <1>11, NothingToKnow
<1>14. ASSUME \A k \in Lessons : Mirrored(k) PROVE StillOwed(r)'
  BY <1>2, <1>10, <1>11, <1>14, NoDebt DEF Settled
<1>15. ~overlapped /\ ~byHand' => NoSecondDeadline(r)'
  BY <1>2, <1>3, <1>9, <1>11, FewerDeadlines DEF IndInv, DeadlineInv, NoSecondDeadline
<1> QED BY <1>2, <1>3, <1>8, <1>11, <1>12, <1>13, <1>14, <1>15, StartInv

LEMMA ReadHomeworkStep ==
    ASSUME IndInv, NEW r \in Requests, ReadHomework(r)
    PROVE  IndInv'
<1>1. Busy(r) /\ request[r].next = "readHomework" /\ UNCHANGED <<tables, calls, history>>
  BY DEF ReadHomework, At
<1>2. /\ RowsInv /\ Sound(request[r]) /\ request[r] \in InFlight
      /\ request \in [Requests -> InFlight \cup {None}]
  BY <1>1, CallTypes
<1>3. PICK a \in Assignments : a = request[r].assignment
  BY <1>1, <1>2 DEF Sound
<1>4. ~overlapped /\ ~broken => \A k \in Lessons : Mirrored(k)'
  BY <1>1, <1>2, InStep, SameRows DEF Settled
<1>5. CASE homework[a] = None /\ Finish(r)
  <2>1. /\ request' \in [Requests -> InFlight \cup {None}] /\ ~Busy(r)'
        /\ \A p \in Requests : p # r => request'[p] = request[p]
    BY <1>1, <1>5, Ends
  <2>2. ~overlapped /\ ~broken => StillOwed(r)'
    BY <1>4, <2>1, NoDebt
  <2> QED BY <1>1, <2>1, <2>2, ReadInv
<1>6. CASE /\ homework[a] # None
           /\ request' = [request EXCEPT ![r].next = "findDeadlineOf",
                                         ![r].lesson = homework[a].lesson,
                                         ![r].at = HomeworkDate(a)]
  <2>1. PICK l \in Lessons \cup {None} : l = homework[a].lesson
    BY <1>2, <1>6 DEF RowsInv, Homework
  <2>2. PICK at \in Dates \cup {None} : at = HomeworkDate(a)
    BY <1>2, DateTypes
  <2>3. request'[r] = [request[r] EXCEPT !.next = "findDeadlineOf", !.lesson = l, !.at = at]
    BY <1>2, <1>6, <2>1, <2>2
  <2>4. request'[r] \in InFlight
    BY <1>2, <2>3 DEF InFlight, Statement
  <2>5. /\ request'[r].next = "findDeadlineOf" /\ request'[r].assignment = a
        /\ request'[r].alone = request[r].alone
    BY <1>2, <1>3, <2>3 DEF InFlight
  <2>6. /\ request' \in [Requests -> InFlight \cup {None}]
        /\ \A p \in Requests : p # r => request'[p] = request[p]
    BY <1>2, <1>6, <2>4
  <2>7. Sound(request[r])'
    BY <2>5 DEF Sound, OnPlan, Listing
  <2>8. ~overlapped /\ ~broken => StillOwed(r)'
    BY <1>4, <2>5, NoDebt DEF Settled
  <2> QED BY <1>1, <2>5, <2>6, <2>7, <2>8, NothingToKnow, ReadInv
<1> QED BY <1>3, <1>5, <1>6 DEF ReadHomework

LEMMA FindDeadlineOfStep ==
    ASSUME IndInv, NEW r \in Requests, FindDeadlineOf(r)
    PROVE  IndInv'
<1>1. Busy(r) /\ request[r].next = "findDeadlineOf" /\ UNCHANGED <<tables, calls, history>>
  BY DEF FindDeadlineOf, At
<1>2. /\ RowsInv /\ Sound(request[r]) /\ request[r] \in InFlight
      /\ request \in [Requests -> InFlight \cup {None}]
      /\ request[r].at \in Dates \cup {None}
  BY <1>1, CallTypes
<1>3. PICK a \in Assignments : a = request[r].assignment
  BY <1>1, <1>2 DEF Sound
<1>4. ~overlapped /\ ~broken => \A k \in Lessons : Mirrored(k)'
  BY <1>1, <1>2, InStep, SameRows DEF Settled
<1>5. PICK found \in Ids \cup {None} :
         /\ found = Oldest(DeadlinesOf(a))
         /\ IF DeadlinesOf(a) = {} THEN found = None ELSE found \in DeadlinesOf(a) \cap Ids
  BY OldestOf, EventsAreIds, Zenon
<1>6. CASE request[r].at = None /\ found = None /\ Finish(r)
  <2>1. /\ request' \in [Requests -> InFlight \cup {None}] /\ ~Busy(r)'
        /\ \A p \in Requests : p # r => request'[p] = request[p]
    BY <1>1, <1>6, Ends
  <2>2. ~overlapped /\ ~broken => StillOwed(r)'
    BY <1>4, <2>1, NoDebt
  <2> QED BY <1>1, <2>1, <2>2, ReadInv
<1>7. CASE /\ ~(request[r].at = None /\ found = None)
           /\ request' = [request EXCEPT
                ![r].next = IF request[r].at = None THEN "deleteEvent" ELSE "saveDeadline",
                ![r].event = found]
  <2>1. PICK s : s = IF request[r].at = None THEN "deleteEvent" ELSE "saveDeadline"
    OBVIOUS
  <2>2. request'[r] = [request[r] EXCEPT !.next = s, !.event = found]
    BY <1>2, <1>7, <2>1
  <2>3. request'[r] \in InFlight
    BY <1>2, <2>1, <2>2 DEF InFlight, Statement
  <2>4. /\ request'[r].next = s /\ request'[r].event = found /\ request'[r].assignment = a
        /\ request'[r].at = request[r].at /\ request'[r].alone = request[r].alone
    BY <1>2, <1>3, <2>2 DEF InFlight
  <2>5. /\ request' \in [Requests -> InFlight \cup {None}]
        /\ \A p \in Requests : p # r => request'[p] = request[p]
    BY <1>2, <1>7, <2>1, <2>3
  <2>6. Sound(request[r])'
    BY <1>2, <1>7, <2>1, <2>4, NoneIsNone DEF Sound, OnPlan, Listing
  <2>7. Knows(request[r])'
    <3>1. DeadlinesOf(a)' = DeadlinesOf(a)
      BY <1>1, <1>2, SameRows
    <3>2. KnowsDeadline(request[r])'
      BY <1>5, <1>7, <2>1, <2>4, <3>1, NoneIsNone DEF KnowsDeadline, FoundDeadline
    <3>3. KnowsLesson(request[r])' /\ KnowsEvent(request[r])' /\ KnowsCalendar(request[r])'
      BY <2>1, <2>4, NoneIsNone DEF KnowsLesson, KnowsEvent, KnowsCalendar
    <3> QED BY <3>2, <3>3 DEF Knows
  <2>8. ~overlapped /\ ~broken => StillOwed(r)'
    BY <1>4, <2>1, <2>4, NoDebt, NoneIsNone DEF Settled
  <2>9. request'[r].next \notin {"moveEvent", "relinkEvent"}
    BY <2>1, <2>4
  <2> QED BY <1>1, <2>4, <2>5, <2>6, <2>7, <2>8, <2>9, ReadInv
<1> QED BY <1>3, <1>5, <1>6, <1>7, Zenon DEF FindDeadlineOf

LEMMA SaveDeadlineStep ==
    ASSUME IndInv, NEW r \in Requests, SaveDeadline(r)
    PROVE  IndInv'
<1>1. Busy(r) /\ request[r].next = "saveDeadline"
  BY DEF SaveDeadline, At
<1>2. /\ RowsInv /\ Sound(request[r])
      /\ request[r].event \in Ids \cup {None} /\ request[r].lesson \in Lessons \cup {None}
  BY <1>1, CallTypes
<1>3. PICK l \in Lessons \cup {None}, at \in Dates, a \in Assignments :
         l = request[r].lesson /\ at = request[r].at /\ a = request[r].assignment
  BY <1>1, <1>2 DEF Sound
<1>4. Settled(request[r])
  BY <1>1 DEF Settled
<1>5. ~overlapped => IF request[r].event = None THEN DeadlinesOf(a) = {}
                                                ELSE request[r].event \in DeadlinesOf(a)
  BY <1>1, <1>3, TheOnlyCall DEF Knows, KnowsDeadline, FoundDeadline
<1>6. PICK row : row = Deadline(at, l, a)
  OBVIOUS
<1>7. row \in Event /\ row.type = "DEADLINE" /\ row.assignment = a
  BY <1>6 DEF Deadline, Event
<1>8. ASSUME Finish(r), UNCHANGED <<calls, history>>, RowsInv',
             ~overlapped /\ ~broken => \A k \in Lessons : Mirrored(k)',
             ~overlapped /\ ~byHand => \A b \in Assignments : AtMostOne(DeadlinesOf(b))'
      PROVE  IndInv'
  <2>1. overlapped' = overlapped /\ broken' = broken /\ byHand' = byHand /\ calls' = calls
    BY <1>8 DEF history
  <2>2. /\ request' \in [Requests -> InFlight \cup {None}] /\ ~Busy(r)'
        /\ \A p \in Requests : p # r => request'[p] = request[p]
    BY <1>1, <1>8, Ends
  <2>3. ~overlapped /\ ~broken => StillOwed(r)'
    BY <1>8, <2>2, NoDebt
  <2>4. ~overlapped /\ ~byHand => NoSecondDeadline(r)'
    BY <1>8, <2>2 DEF NoSecondDeadline
  <2> QED BY <1>1, <1>8, <2>1, <2>2, <2>3, <2>4, StatementInv
<1>9. CASE /\ LinksExist(row) /\ request[r].event = None /\ Insert(row) /\ Finish(r)
           /\ UNCHANGED <<lesson, homework, calls, history>>
  <2>1. /\ RowsInv'
        /\ ~overlapped /\ ~broken => \A k \in Lessons : Mirrored(k)'
        /\ ~overlapped /\ ~byHand => \A b \in Assignments : AtMostOne(DeadlinesOf(b))'
    BY <1>1, <1>4, <1>5, <1>7, <1>9, DeadlineAdded
  <2> QED BY <1>8, <1>9, <2>1
<1>10. CASE /\ LinksExist(row) /\ request[r].event # None /\ event[request[r].event] # None
            /\ event' = [event EXCEPT ![request[r].event] = row] /\ created' = created
            /\ Finish(r) /\ UNCHANGED <<lesson, homework, calls, history>>
  <2>1. PICK i \in Ids : i = request[r].event /\ event[i] # None
    BY <1>2, <1>10
  <2>2. /\ event' \in [Ids -> Event \cup {None}] /\ event'[i] = row
        /\ \A j \in Ids : j # i => event'[j] = event[j]
    BY <1>2, <1>7, <1>10, <2>1 DEF RowsInv
  <2>3. lesson' = lesson /\ homework' = homework
    BY <1>10
  <2>4. ~overlapped => i \in DeadlinesOf(a)
    BY <1>5, <1>10, <2>1
  <2>5. /\ RowsInv'
        /\ ~overlapped /\ ~broken => \A k \in Lessons : Mirrored(k)'
        /\ ~overlapped /\ ~byHand => \A b \in Assignments : AtMostOne(DeadlinesOf(b))'
    BY <1>1, <1>4, <1>7, <1>10, <2>1, <2>2, <2>3, <2>4, DeadlineWritten
  <2> QED BY <1>8, <1>10, <2>5
<1>11. CASE Fail(r)
  BY <1>1, <1>11, FailInv
<1>12. \/ /\ LinksExist(row)
          /\ \/ request[r].event = None /\ Insert(row)
             \/ /\ request[r].event # None /\ event[request[r].event] # None
                /\ event' = [event EXCEPT ![request[r].event] = row]
                /\ created' = created
          /\ Finish(r)
          /\ UNCHANGED <<lesson, homework, calls, history>>
       \/ Fail(r)
  BY <1>3, <1>6, Zenon DEF SaveDeadline
<1> QED BY <1>9, <1>10, <1>11, <1>12, Zenon

LEMMA HomeworkRemoveStep ==
    ASSUME IndInv, NEW r \in Requests, NEW a \in Assignments, HomeworkRemove(r, a)
    PROVE  IndInv'
<1>1. PICK c : c = [Call EXCEPT !.next = "deleteHomework", !.assignment = a]
  OBVIOUS
<1>2. /\ c \in InFlight /\ c.next = "deleteHomework" /\ c.assignment = a
      /\ c.alone = (\A q \in Requests : ~Busy(q))
  BY <1>1, CallIsCall DEF InFlight, Statement
<1>3. /\ Start(r, c) /\ Delete(DeadlinesOf(a))
      /\ lesson' = lesson /\ homework' = homework /\ created' = created
      /\ broken' = broken /\ byHand' = byHand
  BY <1>1 DEF HomeworkRemove
<1>4. RowsInv
  BY Types DEF IndInv
<1>5. /\ RowsInv'
      /\ \A i \in Ids : event'[i] = IF i \in DeadlinesOf(a) THEN None ELSE event[i]
      /\ \A k \in Lessons : LivesOf(k)' = LivesOf(k) \ DeadlinesOf(a)
      /\ \A b \in Assignments : DeadlinesOf(b)' = DeadlinesOf(b) \ DeadlinesOf(a)
  BY <1>3, <1>4, DeleteRows
<1>6. request'[r] = c /\ Busy(r)'
  BY <1>2, <1>3, Begins, NoneIsNone
<1>7. Sound(request[r])'
  BY <1>2, <1>6 DEF Sound, OnPlan, Listing
<1>8. Knows(request[r])'
  BY <1>2, <1>6, NothingToKnow
<1>9. ASSUME \A k \in Lessons : Mirrored(k) PROVE StillOwed(r)'
  <2>1. ASSUME NEW k \in Lessons PROVE Mirrored(k)'
    <3>1. \A i \in LivesOf(k) : i \notin DeadlinesOf(a)
      BY DEF LivesOf, DeadlinesOf
    <3>2. LivesOf(k)' = LivesOf(k) /\ lesson'[k] = lesson[k] /\ Mirrored(k)
      BY <1>3, <1>5, <1>9, <3>1
    <3>3. \A i \in LivesOf(k) : event'[i] = event[i]
      BY <1>5, <3>1, EventsAreIds
    <3> QED BY <3>2, <3>3 DEF Mirrored
  <2> QED BY <1>2, <1>6, <2>1, NoDebt DEF Settled
<1>10. ~overlapped /\ ~byHand' => NoSecondDeadline(r)'
  <2>1. \A b \in Assignments : DeadlinesOf(b)' \subseteq DeadlinesOf(b)
    BY <1>5
  <2> QED BY <1>2, <1>3, <1>6, <2>1, FewerDeadlines DEF IndInv, DeadlineInv, NoSecondDeadline
<1> QED BY <1>2, <1>3, <1>5, <1>6, <1>7, <1>8, <1>9, <1>10, StartInv

LEMMA DeleteHomeworkStep ==
    ASSUME IndInv, NEW r \in Requests, DeleteHomework(r)
    PROVE  IndInv'
<1>1. Busy(r) /\ request[r].next = "deleteHomework"
  BY DEF DeleteHomework, At
<1>2. RowsInv /\ Sound(request[r])
  BY <1>1, CallTypes
<1>3. PICK a \in Assignments : a = request[r].assignment
  BY <1>1, <1>2 DEF Sound
<1>4. CASE /\ homework[a] # None
           /\ homework' = [homework EXCEPT ![a] = None]
           /\ Unlink({}, {a}) /\ Finish(r)
           /\ UNCHANGED <<lesson, created, calls, history>>
  <2>1. /\ request' \in [Requests -> InFlight \cup {None}] /\ ~Busy(r)'
        /\ \A p \in Requests : p # r => request'[p] = request[p]
    BY <1>1, <1>4, Ends
  <2>2. PICK none \in SUBSET Lessons, gone \in SUBSET Assignments :
           none = {} /\ gone = {a} /\ Unlink(none, gone)
    <3>1. {} \in SUBSET Lessons /\ {a} \in SUBSET Assignments /\ Unlink({}, {a})
      BY <1>4
    <3> QED BY <3>1, Zenon
  <2>3. /\ event' \in [Ids -> Event \cup {None}]
        /\ \A i \in Ids : event'[i] = None <=> event[i] = None
        /\ \A i \in Ids : event[i] # None =>
              /\ event'[i].type = event[i].type /\ event'[i].startsAt = event[i].startsAt
              /\ event'[i].lesson = IF event[i].lesson \in none THEN None ELSE event[i].lesson
              /\ event'[i].assignment =
                    IF event[i].assignment \in gone THEN None ELSE event[i].assignment
        /\ \A k \in Lessons : LivesOf(k)' = IF k \in none THEN {} ELSE LivesOf(k)
        /\ \A b \in Assignments : DeadlinesOf(b)' = IF b \in gone THEN {} ELSE DeadlinesOf(b)
    <3>1. RowsInv /\ Unlink(none, gone)
      BY <1>2, <2>2
    <3> QED BY <3>1, UnlinkRows
  <2>4. /\ homework' \in [Assignments -> Homework \cup {None}] /\ homework'[a] = None
        /\ \A b \in Assignments : b # a => homework'[b] = homework[b]
    BY <1>2, <1>4 DEF RowsInv
  <2>5. /\ lesson' = lesson /\ created' = created /\ calls' = calls
        /\ overlapped' = overlapped /\ broken' = broken /\ byHand' = byHand
    BY <1>4 DEF history
  <2>6. RowsInv'
    <3>1. ASSUME NEW i \in Ids, event'[i] # None PROVE LinksExist(event[i])'
      <4>1. /\ event[i] # None
            /\ event[i].lesson # None => lesson[event[i].lesson] # None
            /\ event[i].assignment # None => homework[event[i].assignment] # None
        BY <1>2, <2>3, <3>1 DEF RowsInv, Linked, LinksExist
      <4>2. event[i].assignment \in Assignments \cup {None}
        BY <1>2, <4>1 DEF RowsInv, Event
      <4>3. event'[i].lesson # None => lesson'[event'[i].lesson] # None
        BY <2>2, <2>3, <2>5, <4>1
      <4>4. event'[i].assignment # None => homework'[event'[i].assignment] # None
        BY <2>2, <2>3, <2>4, <4>1, <4>2
      <4> QED BY <4>3, <4>4 DEF LinksExist
    <3>2. Linked'
      BY <1>2, <2>4, <2>5, <3>1 DEF RowsInv, Linked
    <3>3. NextIsFree'
      BY <1>2, <2>3, <2>5 DEF RowsInv, NextIsFree
    <3> QED BY <1>2, <2>3, <2>4, <2>5, <3>2, <3>3 DEF RowsInv
  <2>7. ASSUME ~overlapped, ~broken PROVE StillOwed(r)'
    <3>1. ASSUME NEW k \in Lessons PROVE Mirrored(k)'
      <4>1. LivesOf(k)' = LivesOf(k) /\ lesson'[k] = lesson[k] /\ Mirrored(k)
        BY <1>1, <2>2, <2>3, <2>5, <2>7, InStep DEF Settled
      <4>2. \A i \in LivesOf(k) : event'[i].startsAt = event[i].startsAt
        BY <2>3 DEF LivesOf
      <4> QED BY <4>1, <4>2 DEF Mirrored
    <3> QED BY <2>1, <3>1, NoDebt
  <2>8. ~overlapped /\ ~byHand => NoSecondDeadline(r)'
    <3>1. \A b \in Assignments : DeadlinesOf(b)' \subseteq DeadlinesOf(b)
      BY <2>3
    <3> QED BY <2>1, <3>1, FewerDeadlines DEF IndInv, DeadlineInv, NoSecondDeadline
  <2> QED BY <1>1, <2>1, <2>5, <2>6, <2>7, <2>8, StatementInv
<1>5. CASE Fail(r)
  BY <1>1, <1>5, FailInv
<1> QED BY <1>3, <1>4, <1>5 DEF DeleteHomework

-----------------------------------------------------------------------------
(***************************************************************************)
(* The listing.                                                            *)
(***************************************************************************)
Plans == [Lessons \cup Assignments -> Dates \cup {None}]

LEMMA ListingStatements ==
    /\ "listLives" \in Statement /\ "addLives" \in Statement /\ "listHomework" \in Statement
    /\ "listDeadlines" \in Statement /\ "dropExtras" \in Statement
    /\ "addDeadlines" \in Statement /\ "answer" \in Statement
BY DEF Statement

LEMMA Continues ==
    ASSUME IndInv, NEW r \in Requests, Busy(r), NEW s \in Statement, NEW otherwise \in Statement,
           NEW plan \in Plans, Continue(r, s, otherwise, plan)
    PROVE  /\ request' \in [Requests -> InFlight \cup {None}]
           /\ \A p \in Requests : p # r => request'[p] = request[p]
           /\ Busy(r)' /\ request'[r].next = (IF plan = NoPlan THEN otherwise ELSE s)
           /\ request'[r].plan = plan
           /\ request'[r].event = request[r].event
           /\ request'[r].alone = request[r].alone
<1>1. request[r] \in InFlight /\ request \in [Requests -> InFlight \cup {None}]
  BY CallTypes
<1>2. PICK n \in Statement : n = IF plan = NoPlan THEN otherwise ELSE s
  OBVIOUS
<1>3. request' = [request EXCEPT ![r].next = n, ![r].plan = plan]
  BY <1>2 DEF Continue
<1>4. request'[r] = [request[r] EXCEPT !.next = n, !.plan = plan]
  BY <1>1, <1>3
<1>5. request'[r] \in InFlight
  BY <1>1, <1>4 DEF InFlight, Plans
<1>6. /\ request'[r].next = n /\ request'[r].plan = plan
      /\ request'[r].event = request[r].event /\ request'[r].alone = request[r].alone
  BY <1>1, <1>4 DEF InFlight
<1> QED BY <1>1, <1>2, <1>3, <1>5, <1>6, NoneIsNone DEF Busy

\* Nothing is planned.
LEMMA PlanIsEmpty ==
    ASSUME NEW plan \in Plans
    PROVE  plan = NoPlan <=> \A k \in Lessons \cup Assignments : plan[k] = None
BY DEF Plans, NoPlan

\* A call of the listing knows what KnowsCalendar says.
LEMMA ListingKnows ==
    ASSUME NEW r \in Requests, KnowsCalendar(request[r])', request'[r].event = None,
           request'[r].next \in Listing \cup {"answer"}
    PROVE  Knows(request[r])'
<1>1. KnowsLesson(request[r])' /\ KnowsDeadline(request[r])' /\ KnowsEvent(request[r])'
  BY DEF KnowsLesson, KnowsDeadline, KnowsEvent, Listing
<1> QED BY <1>1 DEF Knows

LEMMA ListingSound ==
    ASSUME NEW r \in Requests, request'[r].event = None,
           request'[r].next \in Listing \cup {"answer"},
           \A k \in Lessons \cup Assignments : request'[r].plan[k] # None =>
               IF request'[r].next \in {"listLives", "addLives"} THEN k \in Lessons
                                                                 ELSE k \in Assignments
    PROVE  Sound(request[r])'
BY DEF Sound, OnPlan, Listing

LEMMA ListCalendarStep ==
    ASSUME IndInv, NEW r \in Requests, ListCalendar(r)
    PROVE  IndInv'
<1>1. PICK dated : dated = [k \in Lessons \cup Assignments |->
              IF k \in Lessons /\ lesson[k] # None THEN lesson[k].scheduledAt ELSE None]
  OBVIOUS
<1>2. PICK s \in Statement : s = IF dated = NoPlan THEN "listHomework" ELSE "listLives"
  BY DEF Statement
<1>3. PICK c : c = [Call EXCEPT !.next = s, !.plan = dated]
  OBVIOUS
<1>4. Start(r, c) /\ UNCHANGED tables /\ broken' = broken /\ byHand' = byHand
  BY <1>1, <1>2, <1>3 DEF ListCalendar
<1>5. RowsInv
  BY Types DEF IndInv
<1>6. /\ dated \in Plans
      /\ \A l \in Lessons : dated[l] = DateOf(l)
      /\ \A a \in Assignments : dated[a] = None
  <2>1. \A k \in Lessons \cup Assignments :
           dated[k] = IF k \in Lessons THEN DateOf(k) ELSE None
    BY <1>1 DEF DateOf
  <2>2. \A l \in Lessons : DateOf(l) \in Dates \cup {None}
    BY <1>5, DateTypes
  <2>3. \A k \in Lessons \cup Assignments : dated[k] \in Dates \cup {None}
    BY <2>1, <2>2
  <2>4. dated \in Plans
    BY <1>1, <2>3, Zenon DEF Plans
  <2> QED BY <2>1, <2>4, NoneIsNone
<1>7. /\ c \in InFlight /\ c.next = s /\ c.plan = dated /\ c.event = None
      /\ c.alone = (\A q \in Requests : ~Busy(q))
  BY <1>3, <1>6, CallIsCall DEF InFlight, Plans
<1>8. request'[r] = c /\ Busy(r)'
  BY <1>4, <1>7, Begins, NoneIsNone
<1>9. /\ RowsInv'
      /\ \A l \in Lessons : DateOf(l)' = DateOf(l) /\ (Mirrored(l)' <=> Mirrored(l))
      /\ \A a \in Assignments : DeadlinesOf(a)' = DeadlinesOf(a)
  BY <1>4, <1>5, SameRows
<1>10. Sound(request[r])'
  <2>1. \A k \in Lessons \cup Assignments : dated[k] # None => k \in Lessons /\ s = "listLives"
    BY <1>2, <1>6, PlanIsEmpty
  <2> QED BY <1>2, <1>7, <1>8, <2>1, ListingSound DEF Listing
<1>11. Knows(request[r])'
  <2>1. s = "listHomework" => LivesListed'
    BY <1>2, <1>6, <1>9, PlanIsEmpty DEF LivesListed
  <2>2. KnowsCalendar(request[r])'
    BY <1>2, <1>6, <1>7, <1>8, <1>9, <2>1 DEF KnowsCalendar
  <2> QED BY <1>2, <1>7, <1>8, <2>2, ListingKnows DEF Listing
<1>12. ASSUME \A k \in Lessons : Mirrored(k) PROVE StillOwed(r)'
  BY <1>2, <1>7, <1>8, <1>9, <1>12, NoDebt DEF Settled
<1>13. ~overlapped /\ ~byHand' => NoSecondDeadline(r)'
  BY <1>2, <1>4, <1>7, <1>8, <1>9, FewerDeadlines DEF IndInv, DeadlineInv, NoSecondDeadline
<1> QED BY <1>4, <1>7, <1>8, <1>9, <1>10, <1>11, <1>12, <1>13, StartInv

LEMMA ListLivesStep ==
    ASSUME IndInv, NEW r \in Requests, ListLives(r)
    PROVE  IndInv'
<1>1. Busy(r) /\ request[r].next = "listLives" /\ UNCHANGED <<tables, calls, history>>
  BY DEF ListLives, At
<1>2. RowsInv /\ Sound(request[r]) /\ request[r].plan \in Plans
  BY <1>1, CallTypes DEF Plans
<1>3. PICK plan : plan = [k \in Lessons \cup Assignments |->
              IF k \in Lessons /\ LivesOf(k) = {} THEN request[r].plan[k] ELSE None]
  OBVIOUS
<1>4. Continue(r, "addLives", "listHomework", plan)
  BY <1>3 DEF ListLives
<1>5. /\ plan \in Plans
      /\ \A k \in Lessons \cup Assignments :
            plan[k] = IF k \in Lessons /\ LivesOf(k) = {} THEN request[r].plan[k] ELSE None
  BY <1>2, <1>3 DEF Plans
<1>6. PICK s \in Statement : s = IF plan = NoPlan THEN "listHomework" ELSE "addLives"
  BY DEF Statement
<1>7. /\ request' \in [Requests -> InFlight \cup {None}]
      /\ \A p \in Requests : p # r => request'[p] = request[p]
      /\ Busy(r)' /\ request'[r].next = s /\ request'[r].plan = plan
      /\ request'[r].event = request[r].event /\ request'[r].alone = request[r].alone
  BY <1>1, <1>4, <1>5, <1>6, ListingStatements, Continues
<1>8. request[r].event = None
  BY <1>1, <1>2 DEF Sound, Listing
<1>9. \A l \in Lessons : /\ LivesOf(l)' = LivesOf(l) /\ DateOf(l)' = DateOf(l)
                         /\ Mirrored(l)' <=> Mirrored(l)
  BY <1>1, <1>2, SameRows
<1>10. Sound(request[r])'
  BY <1>5, <1>6, <1>7, <1>8, PlanIsEmpty, ListingSound DEF Listing
<1>11. ASSUME KnowsCalendar(request[r])
       PROVE  \A l \in Lessons : plan[l] = IF LivesOf(l) = {} THEN DateOf(l) ELSE None
  BY <1>1, <1>5, <1>11 DEF KnowsCalendar
<1>12. ASSUME request[r].alone PROVE Knows(request[r])'
  <2>1. \A l \in Lessons : plan[l] = IF LivesOf(l) = {} THEN DateOf(l) ELSE None
    BY <1>1, <1>11, <1>12, Zenon DEF IndInv, AloneInv, Knows
  <2>2. \A l \in Lessons : plan[l] = IF LivesOf(l)' = {} THEN DateOf(l)' ELSE None
    BY <1>9, <2>1
  <2>3. plan = NoPlan => LivesListed'
    BY <1>5, <2>2, PlanIsEmpty DEF LivesListed
  <2>4. KnowsCalendar(request[r])'
    BY <1>6, <1>7, <2>2, <2>3 DEF KnowsCalendar
  <2> QED BY <1>6, <1>7, <1>8, <2>4, ListingKnows DEF Listing
<1>13. ASSUME ~overlapped, ~broken PROVE StillOwed(r)'
  <2>1. \A l \in Lessons : Mirrored(l)
    BY <1>1, <1>13, InStep DEF Settled
  <2>2. \A l \in Lessons : plan[l] = IF LivesOf(l) = {} THEN DateOf(l) ELSE None
    BY <1>1, <1>11, <1>13, TheOnlyCall DEF Knows
  <2>3. \A l \in Lessons : LivesOf(l) = {} => DateOf(l) = None
    BY <2>1 DEF Mirrored, DateOf
  <2>4. \A k \in Lessons \cup Assignments : plan[k] = None
    BY <1>5, <2>2, <2>3
  <2>5. s = "listHomework"
    BY <1>5, <1>6, <2>4, PlanIsEmpty
  <2> QED BY <1>7, <1>9, <2>1, <2>5, NoDebt DEF Settled
<1>14. request'[r].next \notin {"moveEvent", "relinkEvent"}
  BY <1>6, <1>7
<1> QED BY <1>1, <1>7, <1>10, <1>12, <1>13, <1>14, ReadInv

\* A row of the plan is taken off it.
LEMMA TakenOff ==
    ASSUME NEW r \in Requests, request[r].plan \in Plans, NEW k \in Lessons \cup Assignments
    PROVE  /\ Without(r, k) \in Plans
           /\ \A j \in Lessons \cup Assignments :
                 Without(r, k)[j] = IF j = k THEN None ELSE request[r].plan[j]
BY DEF Without, Plans

LEMMA AddLiveStep ==
    ASSUME IndInv, NEW r \in Requests, NEW l \in Lessons, AddLive(r, l)
    PROVE  IndInv'
<1>1. Busy(r) /\ request[r].next = "addLives" /\ l \in Left(r)
  BY DEF AddLive, At
<1>2. RowsInv /\ Sound(request[r]) /\ request[r].plan \in Plans
  BY <1>1, CallTypes DEF Plans
<1>3. PICK at \in Dates : at = request[r].plan[l]
  BY <1>1, <1>2 DEF Left, Plans
<1>4. PICK row : row = Live(at, l)
  OBVIOUS
<1>5. row \in Event /\ row.type = "LIVE" /\ row.lesson = l
  BY <1>4 DEF Live, Event
<1>6. PICK plan \in Plans :
         /\ plan = Without(r, l)
         /\ \A k \in Lessons \cup Assignments : plan[k] = IF k = l THEN None ELSE request[r].plan[k]
  BY <1>2, TakenOff
<1>7. CASE /\ LinksExist(row) /\ Insert(row)
           /\ Continue(r, "addLives", "listHomework", plan)
           /\ UNCHANGED <<lesson, homework, calls, history>>
  <2>1. PICK s \in Statement : s = IF plan = NoPlan THEN "listHomework" ELSE "addLives"
    BY DEF Statement
  <2>2. /\ request' \in [Requests -> InFlight \cup {None}]
        /\ \A p \in Requests : p # r => request'[p] = request[p]
        /\ Busy(r)' /\ request'[r].next = s /\ request'[r].plan = plan
        /\ request'[r].event = request[r].event /\ request'[r].alone = request[r].alone
    BY <1>1, <1>7, <2>1, ListingStatements, Continues
  <2>3. request[r].event = None
    BY <1>1, <1>2 DEF Sound, Listing
  <2>4. /\ lesson' = lesson /\ homework' = homework /\ calls' = calls
        /\ overlapped' = overlapped /\ broken' = broken /\ byHand' = byHand
    BY <1>7 DEF history
  <2>5. PICK n \in Ids : n = created + 1
    BY <1>2, <1>5, <1>7, InsertRow
  <2>6. /\ RowsInv'
        /\ \A k \in Lessons : LivesOf(k)' = IF k = l THEN LivesOf(k) \cup {n} ELSE LivesOf(k)
        /\ \A a \in Assignments : DeadlinesOf(a)' = DeadlinesOf(a)
    <3>1. /\ RowsInv'
          /\ \A k \in Lessons : LivesOf(k)' =
                IF row.type = "LIVE" /\ row.lesson = k THEN LivesOf(k) \cup {created + 1} ELSE LivesOf(k)
          /\ \A a \in Assignments : DeadlinesOf(a)' =
                IF row.type = "DEADLINE" /\ row.assignment = a
                  THEN DeadlinesOf(a) \cup {created + 1} ELSE DeadlinesOf(a)
      BY <1>2, <1>5, <1>7, InsertRow
    <3> QED BY <1>5, <2>5, <3>1
  <2>7. Sound(request[r])'
    <3>1. \A k \in Lessons \cup Assignments : plan[k] # None => k \in Lessons
      BY <1>1, <1>2, <1>6 DEF Sound
    <3> QED BY <2>1, <2>2, <2>3, <3>1, PlanIsEmpty, ListingSound DEF Listing
  <2>8. ASSUME request[r].alone PROVE Knows(request[r])'
    <3>1. \A k \in Lessons : request[r].plan[k] = IF LivesOf(k) = {} THEN DateOf(k) ELSE None
      BY <1>1, <2>8, Zenon DEF IndInv, AloneInv, Knows, KnowsCalendar
    <3>2. \A k \in Lessons : DateOf(k)' = DateOf(k)
      BY <2>4, SameDates
    <3>3. \A k \in Lessons : plan[k] = IF LivesOf(k)' = {} THEN DateOf(k)' ELSE None
      BY <1>6, <2>6, <3>1, <3>2
    <3>4. plan = NoPlan => LivesListed'
      BY <3>3, PlanIsEmpty DEF LivesListed
    <3>5. KnowsCalendar(request[r])'
      BY <2>1, <2>2, <3>3, <3>4 DEF KnowsCalendar
    <3> QED BY <2>1, <2>2, <2>3, <3>5, ListingKnows DEF Listing
  <2>9. ~(~overlapped /\ ~broken)
    BY <1>1, TheOnlyCall
  <2>10. ~overlapped /\ ~byHand => NoSecondDeadline(r)'
    BY <2>1, <2>2, <2>6, FewerDeadlines DEF IndInv, DeadlineInv, NoSecondDeadline
  <2> QED BY <1>1, <2>2, <2>4, <2>6, <2>7, <2>8, <2>9, <2>10, StatementInv
<1>8. CASE Fail(r)
  BY <1>1, <1>8, FailInv
<1> QED BY <1>3, <1>4, <1>6, <1>7, <1>8 DEF AddLive

LEMMA ListHomeworkStep ==
    ASSUME IndInv, NEW r \in Requests, ListHomework(r)
    PROVE  IndInv'
<1>1. Busy(r) /\ request[r].next = "listHomework" /\ UNCHANGED <<tables, calls, history>>
  BY DEF ListHomework, At
<1>2. RowsInv /\ Sound(request[r])
  BY <1>1, CallTypes
<1>3. PICK plan : plan = [k \in Lessons \cup Assignments |->
              IF k \in Assignments THEN HomeworkDate(k) ELSE None]
  OBVIOUS
<1>4. Continue(r, "listDeadlines", "answer", plan)
  BY <1>3 DEF ListHomework
<1>5. /\ plan \in Plans
      /\ \A k \in Lessons \cup Assignments :
            plan[k] = IF k \in Assignments THEN HomeworkDate(k) ELSE None
  <2>1. \A k \in Lessons \cup Assignments :
           plan[k] = IF k \in Assignments THEN HomeworkDate(k) ELSE None
    BY <1>3
  <2>2. \A k \in Lessons \cup Assignments : plan[k] \in Dates \cup {None}
    BY <1>2, <2>1, DateTypes
  <2> QED BY <1>3, <2>1, <2>2, Zenon DEF Plans
<1>6. PICK s \in Statement : s = IF plan = NoPlan THEN "answer" ELSE "listDeadlines"
  BY DEF Statement
<1>7. /\ request' \in [Requests -> InFlight \cup {None}]
      /\ \A p \in Requests : p # r => request'[p] = request[p]
      /\ Busy(r)' /\ request'[r].next = s /\ request'[r].plan = plan
      /\ request'[r].event = request[r].event /\ request'[r].alone = request[r].alone
  BY <1>1, <1>4, <1>5, <1>6, ListingStatements, Continues
<1>8. request[r].event = None
  BY <1>1, <1>2 DEF Sound, Listing
<1>9. /\ \A l \in Lessons : /\ LivesOf(l)' = LivesOf(l) /\ DateOf(l)' = DateOf(l)
                            /\ Mirrored(l)' <=> Mirrored(l)
      /\ \A a \in Assignments : HomeworkDate(a)' = HomeworkDate(a)
  BY <1>1, <1>2, SameRows
<1>10. Sound(request[r])'
  BY <1>5, <1>6, <1>7, <1>8, ListingSound DEF Listing
<1>11. ASSUME request[r].alone PROVE Knows(request[r])'
  <2>1. LivesListed
    BY <1>1, <1>11, Zenon DEF IndInv, AloneInv, Knows, KnowsCalendar
  <2>2. LivesListed'
    BY <1>9, <2>1 DEF LivesListed
  <2>3. \A a \in Assignments : plan[a] = HomeworkDate(a)'
    BY <1>5, <1>9
  <2>4. plan = NoPlan => \A a \in Assignments : HomeworkDate(a)' = None
    BY <1>5, <2>3, PlanIsEmpty
  <2>5. KnowsCalendar(request[r])'
    <3>1. CASE s = "answer"
      BY <1>6, <1>7, <2>2, <2>4, <3>1 DEF KnowsCalendar
    <3>2. CASE s = "listDeadlines"
      BY <1>7, <2>2, <2>3, <3>2 DEF KnowsCalendar
    <3> QED BY <1>6, <3>1, <3>2
  <2> QED BY <1>6, <1>7, <1>8, <2>5, ListingKnows DEF Listing
<1>12. ASSUME ~overlapped, ~broken PROVE StillOwed(r)'
  <2>1. \A l \in Lessons : Mirrored(l)
    BY <1>1, <1>12, InStep DEF Settled
  <2> QED BY <1>6, <1>7, <1>9, <2>1, NoDebt DEF Settled
<1>13. request'[r].next \notin {"moveEvent", "relinkEvent"}
  BY <1>6, <1>7
<1> QED BY <1>1, <1>7, <1>10, <1>11, <1>12, <1>13, ReadInv

\* The extras of a are all its deadlines but one, if it is in the plan.
LEMMA ExtrasOf ==
    ASSUME NEW r \in Requests
    PROVE  /\ Extras(r) \subseteq Ids
           /\ \A i \in Extras(r) : event[i] # None /\ event[i].type = "DEADLINE"
           /\ \A a \in Assignments :
                 IF a \in Left(r)
                   THEN DeadlinesOf(a) # {} => \E i \in Ids : DeadlinesOf(a) \ Extras(r) = {i}
                   ELSE DeadlinesOf(a) \cap Extras(r) = {}
<1>1. \A i \in Extras(r) : \E b \in Left(r) : i \in DeadlinesOf(b) /\ i # Oldest(DeadlinesOf(b))
  BY DEF Extras
<1>2. \A i \in Extras(r) : i \in Ids /\ event[i] # None /\ event[i].type = "DEADLINE"
  BY <1>1 DEF DeadlinesOf
<1>3. \A a, b : \A i \in DeadlinesOf(a) : i \in DeadlinesOf(b) => a = b
  BY DEF DeadlinesOf
<1>4. ASSUME NEW a \in Assignments, a \notin Left(r)
      PROVE  DeadlinesOf(a) \cap Extras(r) = {}
  BY <1>1, <1>3, <1>4
<1>5. ASSUME NEW a \in Assignments, a \in Left(r), DeadlinesOf(a) # {}
      PROVE  \E i \in Ids : DeadlinesOf(a) \ Extras(r) = {i}
  <2>1. PICK i \in Ids : i = Oldest(DeadlinesOf(a)) /\ i \in DeadlinesOf(a)
    BY <1>5, OldestOf, EventsAreIds
  <2>2. i \notin Extras(r)
    BY <1>1, <1>3, <2>1
  <2>3. \A j \in DeadlinesOf(a) : j # i => j \in Extras(r)
    <3> SUFFICES ASSUME NEW j \in DeadlinesOf(a), j # i PROVE j \in Extras(r)
      OBVIOUS
    <3>1. j \in DeadlinesOf(a) \ {Oldest(DeadlinesOf(a))}
      BY <2>1
    <3> QED BY <1>5, <3>1, Zenon DEF Extras
  <2> QED BY <2>1, <2>2, <2>3
<1> QED BY <1>2, <1>4, <1>5

LEMMA ListDeadlinesStep ==
    ASSUME IndInv, NEW r \in Requests, ListDeadlines(r)
    PROVE  IndInv'
<1>1. Busy(r) /\ request[r].next = "listDeadlines" /\ UNCHANGED <<tables, calls, history>>
  BY DEF ListDeadlines, At
<1>2. /\ RowsInv /\ Sound(request[r]) /\ request[r] \in InFlight
      /\ request \in [Requests -> InFlight \cup {None}]
      /\ request[r].plan \in Plans
  BY <1>1, CallTypes DEF Plans
<1>3. PICK was : was = request[r].plan
  OBVIOUS
<1>4. PICK plan : plan = [k \in Lessons \cup Assignments |->
              IF k \in Assignments /\ DeadlinesOf(k) = {} THEN was[k] ELSE None]
  OBVIOUS
<1>5. PICK extras : extras = Extras(r)
  OBVIOUS
<1>6. /\ plan \in Plans
      /\ \A k \in Lessons \cup Assignments :
            plan[k] = IF k \in Assignments /\ DeadlinesOf(k) = {} THEN was[k] ELSE None
  BY <1>2, <1>3, <1>4 DEF Plans
<1>7. request'[r] = [request[r] EXCEPT !.next = "dropExtras", !.doomed = extras, !.plan = plan]
  <2>1. request' = [request EXCEPT
          ![r].next = "dropExtras",
          ![r].doomed = extras,
          ![r].plan = [k \in Lessons \cup Assignments |->
                         IF k \in Assignments /\ DeadlinesOf(k) = {} THEN @[k] ELSE None]]
    BY <1>5 DEF ListDeadlines
  <2>2. request'[r] = [request[r] EXCEPT
          !.next = "dropExtras",
          !.doomed = extras,
          !.plan = [k \in Lessons \cup Assignments |->
                         IF k \in Assignments /\ DeadlinesOf(k) = {} THEN was[k] ELSE None]]
    BY <1>2, <1>3, <2>1 DEF InFlight
  <2> QED BY <1>4, <2>2
<1>8. extras \in SUBSET Ids
  BY <1>5, ExtrasOf
<1>9. request'[r] \in InFlight
  BY <1>2, <1>6, <1>7, <1>8 DEF InFlight, Statement, Plans
<1>10. /\ request'[r].next = "dropExtras" /\ request'[r].plan = plan /\ request'[r].doomed = extras
       /\ request'[r].event = request[r].event /\ request'[r].alone = request[r].alone
  BY <1>2, <1>7 DEF InFlight
<1>11. /\ request' \in [Requests -> InFlight \cup {None}]
       /\ \A p \in Requests : p # r => request'[p] = request[p]
  BY <1>2, <1>9 DEF ListDeadlines
<1>12. request[r].event = None
  BY <1>1, <1>2 DEF Sound, Listing
<1>13. /\ \A l \in Lessons : /\ LivesOf(l)' = LivesOf(l) /\ DateOf(l)' = DateOf(l)
                             /\ Mirrored(l)' <=> Mirrored(l)
       /\ \A a \in Assignments : /\ DeadlinesOf(a)' = DeadlinesOf(a)
                                 /\ HomeworkDate(a)' = HomeworkDate(a)
  BY <1>1, <1>2, SameRows
<1>14. Sound(request[r])'
  BY <1>6, <1>10, <1>12, ListingSound DEF Listing
<1>15. ASSUME request[r].alone PROVE Knows(request[r])'
  <2>1. LivesListed /\ \A a \in Assignments : was[a] = HomeworkDate(a)
    BY <1>1, <1>3, <1>15, Zenon DEF IndInv, AloneInv, Knows, KnowsCalendar
  <2>2. LivesListed'
    BY <1>13, <2>1 DEF LivesListed
  <2>3. PlanIsMissing(request[r])'
    <3>1. \A a \in Assignments :
             plan[a] = IF DeadlinesOf(a)' = {} THEN HomeworkDate(a)' ELSE None
      BY <1>6, <1>13, <2>1
    <3> QED BY <1>10, <3>1 DEF PlanIsMissing
  <2>4. \A a \in Assignments : a \in Left(r) <=> HomeworkDate(a) # None
    BY <1>3, <2>1 DEF Left
  <2>5. /\ \A i \in extras : i \in Ids /\ event[i] # None /\ event[i].type = "DEADLINE"
        /\ \A a \in Assignments :
              IF HomeworkDate(a) = None
                THEN DeadlinesOf(a) \cap extras = {}
                ELSE DeadlinesOf(a) # {} => \E i \in Ids : DeadlinesOf(a) \ extras = {i}
    BY <1>5, <2>4, ExtrasOf
  <2>6. /\ \A i \in extras : event'[i] # None /\ event'[i].type = "DEADLINE"
        /\ \A a \in Assignments :
              IF HomeworkDate(a)' = None
                THEN DeadlinesOf(a)' \cap extras = {}
                ELSE DeadlinesOf(a)' # {} => \E i \in Ids : DeadlinesOf(a)' \ extras = {i}
    <3>1. event' = event
      BY <1>1 DEF tables
    <3>2. \A i \in extras : event'[i] # None /\ event'[i].type = "DEADLINE"
      BY <2>5, <3>1
    <3>3. \A a \in Assignments :
             IF HomeworkDate(a)' = None
               THEN DeadlinesOf(a)' \cap extras = {}
               ELSE DeadlinesOf(a)' # {} => \E i \in Ids : DeadlinesOf(a)' \ extras = {i}
      BY <1>13, <2>5
    <3> QED BY <3>2, <3>3
  <2>7. KnowsCalendar(request[r])'
    BY <1>10, <2>2, <2>3, <2>6 DEF KnowsCalendar
  <2> QED BY <1>10, <1>12, <2>7, ListingKnows DEF Listing
<1>16. ASSUME ~overlapped, ~broken PROVE StillOwed(r)'
  <2>1. \A l \in Lessons : Mirrored(l)
    BY <1>1, <1>16, InStep DEF Settled
  <2> QED BY <1>10, <1>13, <2>1, NoDebt DEF Settled
<1> QED BY <1>1, <1>10, <1>11, <1>14, <1>15, <1>16, ReadInv

LEMMA DropExtrasStep ==
    ASSUME IndInv, NEW r \in Requests, DropExtras(r)
    PROVE  IndInv'
<1>1. Busy(r) /\ request[r].next = "dropExtras"
  BY DEF DropExtras, At
<1>2. RowsInv /\ Sound(request[r]) /\ request[r].plan \in Plans
  BY <1>1, CallTypes DEF Plans
<1>3. PICK doomed, plan : doomed = request[r].doomed /\ plan = request[r].plan /\ plan \in Plans
  BY <1>2
<1>4. PICK s \in Statement : s = IF Left(r) = {} THEN "answer" ELSE "addDeadlines"
  BY DEF Statement
<1>5. /\ Delete(doomed) /\ Goto(r, s)
      /\ lesson' = lesson /\ homework' = homework /\ created' = created /\ calls' = calls
      /\ overlapped' = overlapped /\ broken' = broken /\ byHand' = byHand
  BY <1>3, <1>4 DEF DropExtras, history
<1>6. /\ request' \in [Requests -> InFlight \cup {None}]
      /\ \A p \in Requests : p # r => request'[p] = request[p]
      /\ Busy(r)' /\ request'[r].next = s /\ request'[r].plan = plan
      /\ request'[r].event = request[r].event /\ request'[r].alone = request[r].alone
  BY <1>1, <1>3, <1>5, GoesOn
<1>7. request[r].event = None
  BY <1>1, <1>2 DEF Sound, Listing
<1>8. /\ RowsInv'
      /\ \A i \in Ids : event'[i] = IF i \in doomed THEN None ELSE event[i]
      /\ \A l \in Lessons : LivesOf(l)' = LivesOf(l) \ doomed
      /\ \A a \in Assignments : DeadlinesOf(a)' = DeadlinesOf(a) \ doomed
  BY <1>2, <1>5, DeleteRows
<1>9. Sound(request[r])'
  <2>1. \A k \in Lessons \cup Assignments : plan[k] # None => k \in Assignments
    BY <1>1, <1>2, <1>3 DEF Sound, OnPlan
  <2> QED BY <1>4, <1>6, <1>7, <2>1, ListingSound DEF Listing
<1>10. ASSUME Knows(request[r])
       PROVE  /\ \A l \in Lessons : LivesOf(l) \cap doomed = {}
              /\ \A l \in Lessons : LivesOf(l)' = LivesOf(l)
  <2>1. \A i \in doomed : event[i].type = "DEADLINE"
    BY <1>1, <1>3, <1>10 DEF Knows, KnowsCalendar
  <2>2. \A l \in Lessons : LivesOf(l) \cap doomed = {}
    BY <2>1 DEF LivesOf
  <2> QED BY <1>8, <2>2
<1>11. ASSUME request[r].alone PROVE Knows(request[r])'
  <2>1. Knows(request[r])
    BY <1>1, <1>11, Zenon DEF IndInv, AloneInv
  <2>2. /\ LivesListed
        /\ \A a \in Assignments : plan[a] = IF DeadlinesOf(a) = {} THEN HomeworkDate(a) ELSE None
        /\ \A a \in Assignments :
              IF HomeworkDate(a) = None
                THEN DeadlinesOf(a) \cap doomed = {}
                ELSE DeadlinesOf(a) # {} => \E i \in Ids : DeadlinesOf(a) \ doomed = {i}
    BY <1>1, <1>3, <2>1 DEF Knows, KnowsCalendar, PlanIsMissing
  <2>3. /\ \A l \in Lessons : DateOf(l)' = DateOf(l)
        /\ \A a \in Assignments : HomeworkDate(a)' = HomeworkDate(a)
    BY <1>5, SameDates
  <2>4. LivesListed'
    BY <1>10, <2>1, <2>2, <2>3 DEF LivesListed
  <2>5. ASSUME NEW a \in Assignments
        PROVE  /\ DeadlinesOf(a)' = {} <=> DeadlinesOf(a) = {}
               /\ HomeworkDate(a) # None =>
                     DeadlinesOf(a)' = {} \/ \E i \in Ids : DeadlinesOf(a)' = {i}
    <3>1. DeadlinesOf(a)' = DeadlinesOf(a) \ doomed
      BY <1>8
    <3>2. CASE HomeworkDate(a) = None
      BY <2>2, <3>1, <3>2
    <3>3. CASE HomeworkDate(a) # None /\ DeadlinesOf(a) = {}
      BY <3>1, <3>3
    <3>4. CASE HomeworkDate(a) # None /\ DeadlinesOf(a) # {}
      <4>1. PICK i \in Ids : DeadlinesOf(a) \ doomed = {i}
        BY <2>2, <3>4
      <4> QED BY <3>1, <3>4, <4>1
    <3> QED BY <3>2, <3>3, <3>4
  <2>6. CASE s = "answer"
    <3>1. \A a \in Assignments : plan[a] = None
      BY <1>3, <1>4, <2>6 DEF Left
    <3>2. \A a \in Assignments : HomeworkDate(a)' # None => \E i \in Ids : DeadlinesOf(a)' = {i}
      <4> SUFFICES ASSUME NEW a \in Assignments, HomeworkDate(a) # None
                   PROVE  \E i \in Ids : DeadlinesOf(a)' = {i}
        BY <2>3
      <4>1. DeadlinesOf(a) # {}
        BY <2>2, <3>1
      <4> QED BY <2>5, <4>1
    <3>3. KnowsCalendar(request[r])'
      BY <1>6, <2>4, <2>6, <3>2 DEF KnowsCalendar
    <3> QED BY <1>6, <1>7, <2>6, <3>3, ListingKnows
  <2>7. CASE s = "addDeadlines"
    <3>1. PlanIsMissing(request[r])'
      <4>1. \A a \in Assignments : plan[a] = IF DeadlinesOf(a)' = {} THEN HomeworkDate(a)' ELSE None
        BY <2>2, <2>3, <2>5
      <4> QED BY <1>6, <4>1 DEF PlanIsMissing
    <3>2. DeadlinesThinned'
      BY <2>3, <2>5 DEF DeadlinesThinned
    <3>3. KnowsCalendar(request[r])'
      BY <1>6, <2>4, <2>7, <3>1, <3>2 DEF KnowsCalendar
    <3> QED BY <1>6, <1>7, <2>7, <3>3, ListingKnows DEF Listing
  <2> QED BY <1>4, <2>6, <2>7
<1>12. ASSUME ~overlapped, ~broken PROVE StillOwed(r)'
  <2>1. \A l \in Lessons : LivesOf(l) \cap doomed = {} /\ LivesOf(l)' = LivesOf(l)
    BY <1>1, <1>10, <1>12, TheOnlyCall
  <2>2. \A l \in Lessons : Mirrored(l)
    BY <1>1, <1>12, InStep DEF Settled
  <2>3. ASSUME NEW l \in Lessons PROVE Mirrored(l)'
    <3>1. \A i \in LivesOf(l) : event'[i] = event[i]
      BY <1>8, <2>1, EventsAreIds
    <3>2. LivesOf(l)' = LivesOf(l) /\ lesson'[l] = lesson[l] /\ Mirrored(l)
      BY <1>5, <2>1, <2>2
    <3> QED BY <3>1, <3>2 DEF Mirrored
  <2> QED BY <1>4, <1>6, <2>3, NoDebt DEF Settled
<1>13. ~overlapped /\ ~byHand => NoSecondDeadline(r)'
  <2>1. \A a \in Assignments : DeadlinesOf(a)' \subseteq DeadlinesOf(a)
    BY <1>8
  <2> QED BY <1>4, <1>6, <2>1, FewerDeadlines DEF IndInv, DeadlineInv, NoSecondDeadline
<1> QED BY <1>1, <1>5, <1>6, <1>8, <1>9, <1>11, <1>12, <1>13, StatementInv

LEMMA AddDeadlineStep ==
    ASSUME IndInv, NEW r \in Requests, NEW a \in Assignments, AddDeadline(r, a)
    PROVE  IndInv'
<1>1. Busy(r) /\ request[r].next = "addDeadlines" /\ a \in Left(r)
  BY DEF AddDeadline, At
<1>2. RowsInv /\ Sound(request[r]) /\ request[r].plan \in Plans
  BY <1>1, CallTypes DEF Plans
<1>3. PICK at \in Dates : at = request[r].plan[a]
  BY <1>1, <1>2 DEF Left, Plans
<1>4. PICK l \in Lessons \cup {None} : l = IF homework[a] = None THEN None ELSE homework[a].lesson
  BY <1>2 DEF RowsInv, Homework
<1>5. PICK row : row = Deadline(at, l, a)
  OBVIOUS
<1>6. row \in Event /\ row.type = "DEADLINE" /\ row.assignment = a
  BY <1>5 DEF Deadline, Event
<1>7. PICK plan \in Plans :
         /\ plan = Without(r, a)
         /\ \A k \in Lessons \cup Assignments : plan[k] = IF k = a THEN None ELSE request[r].plan[k]
  BY <1>2, TakenOff
<1>8. Settled(request[r])
  BY <1>1 DEF Settled
<1>9. ASSUME Knows(request[r])
      PROVE  /\ LivesListed /\ DeadlinesThinned
             /\ \A b \in Assignments :
                   request[r].plan[b] = IF DeadlinesOf(b) = {} THEN HomeworkDate(b) ELSE None
             /\ DeadlinesOf(a) = {}
  <2>1. /\ LivesListed /\ DeadlinesThinned
        /\ \A b \in Assignments :
              request[r].plan[b] = IF DeadlinesOf(b) = {} THEN HomeworkDate(b) ELSE None
    BY <1>1, <1>9 DEF Knows, KnowsCalendar, PlanIsMissing
  <2> QED BY <1>3, <2>1, NoneIsNone
<1>10. CASE /\ LinksExist(row) /\ Insert(row)
            /\ Continue(r, "addDeadlines", "answer", plan)
            /\ UNCHANGED <<lesson, homework, calls, history>>
  <2>1. PICK s \in Statement : s = IF plan = NoPlan THEN "answer" ELSE "addDeadlines"
    BY DEF Statement
  <2>2. /\ request' \in [Requests -> InFlight \cup {None}]
        /\ \A p \in Requests : p # r => request'[p] = request[p]
        /\ Busy(r)' /\ request'[r].next = s /\ request'[r].plan = plan
        /\ request'[r].event = request[r].event /\ request'[r].alone = request[r].alone
    BY <1>1, <1>10, <2>1, ListingStatements, Continues
  <2>3. request[r].event = None
    BY <1>1, <1>2 DEF Sound, Listing
  <2>4. /\ lesson' = lesson /\ homework' = homework /\ calls' = calls
        /\ overlapped' = overlapped /\ broken' = broken /\ byHand' = byHand
    BY <1>10 DEF history
  <2>5. ~overlapped => DeadlinesOf(a) = {}
    BY <1>1, <1>9, TheOnlyCall
  <2>6. PICK n \in Ids : n = created + 1
    BY <1>2, <1>6, <1>10, <2>4, InsertRow
  <2>7. /\ RowsInv'
        /\ \A k \in Lessons : LivesOf(k)' = LivesOf(k)
        /\ \A b \in Assignments : DeadlinesOf(b)' =
              IF b = a THEN DeadlinesOf(b) \cup {n} ELSE DeadlinesOf(b)
        /\ ~overlapped /\ ~broken => \A k \in Lessons : Mirrored(k)'
        /\ ~overlapped /\ ~byHand => \A b \in Assignments : AtMostOne(DeadlinesOf(b))'
    <3>1. /\ RowsInv'
          /\ \A k \in Lessons : LivesOf(k)' = LivesOf(k)
          /\ \A b \in Assignments : DeadlinesOf(b)' =
                IF b = a THEN DeadlinesOf(b) \cup {created + 1} ELSE DeadlinesOf(b)
          /\ ~overlapped /\ ~broken => \A k \in Lessons : Mirrored(k)'
          /\ ~overlapped /\ ~byHand => \A b \in Assignments : AtMostOne(DeadlinesOf(b))'
      BY <1>1, <1>6, <1>8, <1>10, <2>4, <2>5, DeadlineAdded
    <3> QED BY <2>6, <3>1
  <2>8. Sound(request[r])'
    <3>1. \A k \in Lessons \cup Assignments : plan[k] # None => k \in Assignments
      BY <1>1, <1>2, <1>7 DEF Sound, OnPlan
    <3> QED BY <2>1, <2>2, <2>3, <3>1, ListingSound DEF Listing
  <2>9. ASSUME request[r].alone PROVE Knows(request[r])'
    <3>1. /\ LivesListed /\ DeadlinesThinned
          /\ \A b \in Assignments :
                request[r].plan[b] = IF DeadlinesOf(b) = {} THEN HomeworkDate(b) ELSE None
          /\ DeadlinesOf(a) = {}
      BY <1>1, <1>9, <2>9, Zenon DEF IndInv, AloneInv
    <3>2. /\ \A k \in Lessons : DateOf(k)' = DateOf(k)
          /\ \A b \in Assignments : HomeworkDate(b)' = HomeworkDate(b)
      BY <2>4, SameDates
    <3>3. LivesListed'
      BY <2>7, <3>1, <3>2 DEF LivesListed
    <3>4. DeadlinesOf(a)' = {n} /\ \A b \in Assignments : b # a => DeadlinesOf(b)' = DeadlinesOf(b)
      BY <2>7, <3>1
    <3>5. \A b \in Assignments : plan[b] = IF DeadlinesOf(b)' = {} THEN HomeworkDate(b)' ELSE None
      BY <1>7, <3>1, <3>2, <3>4
    <3>6. DeadlinesThinned'
      <4> SUFFICES ASSUME NEW b \in Assignments, HomeworkDate(b) # None
                   PROVE  DeadlinesOf(b)' = {} \/ \E i \in Ids : DeadlinesOf(b)' = {i}
        BY <3>2 DEF DeadlinesThinned
      <4>1. CASE b = a
        BY <3>4, <4>1
      <4>2. CASE b # a
        BY <3>1, <3>4, <4>2 DEF DeadlinesThinned
      <4> QED BY <4>1, <4>2
    <3>7. CASE s = "answer"
      <4>1. \A b \in Assignments : HomeworkDate(b)' # None => \E i \in Ids : DeadlinesOf(b)' = {i}
        <5> SUFFICES ASSUME NEW b \in Assignments, HomeworkDate(b)' # None
                     PROVE  \E i \in Ids : DeadlinesOf(b)' = {i}
          OBVIOUS
        <5>1. plan[b] = None
          BY <2>1, <3>7, PlanIsEmpty
        <5>2. DeadlinesOf(b)' # {}
          BY <3>5, <5>1
        <5> QED BY <3>6, <5>2 DEF DeadlinesThinned
      <4>2. KnowsCalendar(request[r])'
        BY <2>2, <3>3, <3>7, <4>1 DEF KnowsCalendar
      <4> QED BY <2>2, <2>3, <3>7, <4>2, ListingKnows
    <3>8. CASE s = "addDeadlines"
      <4>1. PlanIsMissing(request[r])'
        BY <2>2, <3>5 DEF PlanIsMissing
      <4>2. KnowsCalendar(request[r])'
        BY <2>2, <3>3, <3>6, <3>8, <4>1 DEF KnowsCalendar
      <4> QED BY <2>2, <2>3, <3>8, <4>2, ListingKnows DEF Listing
    <3> QED BY <2>1, <3>7, <3>8
  <2>10. ~overlapped /\ ~broken => StillOwed(r)'
    BY <2>1, <2>2, <2>7, NoDebt DEF Settled
  <2>11. ~overlapped /\ ~byHand => NoSecondDeadline(r)'
    BY <2>1, <2>2, <2>7 DEF NoSecondDeadline
  <2> QED BY <1>1, <2>2, <2>4, <2>7, <2>8, <2>9, <2>10, <2>11, StatementInv
<1>11. CASE Fail(r)
  BY <1>1, <1>11, FailInv
<1> QED BY <1>3, <1>4, <1>5, <1>7, <1>10, <1>11 DEF AddDeadline

LEMMA AnswerStep ==
    ASSUME IndInv, NEW r \in Requests, Answer(r)
    PROVE  IndInv'
<1>1. Busy(r) /\ request[r].next = "answer" /\ Finish(r) /\ UNCHANGED <<tables, calls, history>>
  BY DEF Answer, At
<1>2. RowsInv
  BY <1>1, CallTypes
<1>3. /\ request' \in [Requests -> InFlight \cup {None}] /\ ~Busy(r)'
      /\ \A p \in Requests : p # r => request'[p] = request[p]
  BY <1>1, Ends
<1>4. ASSUME ~overlapped, ~broken PROVE StillOwed(r)'
  <2>1. \A l \in Lessons : Mirrored(l)'
    BY <1>1, <1>2, <1>4, InStep, SameRows DEF Settled
  <2> QED BY <1>3, <2>1, NoDebt
<1> QED BY <1>1, <1>3, <1>4, ReadInv

-----------------------------------------------------------------------------
(***************************************************************************)
(* The invariant, and the two properties.                                  *)
(***************************************************************************)
LEMMA InitIndInv == Init => IndInv
<1> SUFFICES ASSUME Init PROVE IndInv
  OBVIOUS
<1>1. /\ \A l \in Lessons : lesson[l] = NoDate
      /\ \A i \in Ids : event[i] = None
      /\ \A r \in Requests : ~Busy(r)
      /\ \A a \in Assignments : homework[a].lesson \in Lessons \cup {None}
  BY DEF Init, Busy
<1>2. NoDate \in Lesson /\ NoDate # None /\ NoDate.scheduledAt = None
  <2>1. NoDate \in Lesson /\ NoDate.scheduledAt = None
    BY DEF NoDate, Lesson
  <2> QED BY <2>1, NoneIsNone
<1>3. RowsInv
  <2>1. lesson \in [Lessons -> Lesson \cup {None}]
    BY <1>2 DEF Init
  <2>2. homework \in [Assignments -> Homework \cup {None}]
    <3>1. homework \in [Assignments -> [lesson : Lessons \cup {None}, dueAt : {None}]]
      BY DEF Init
    <3>2. [lesson : Lessons \cup {None}, dueAt : {None}] \subseteq Homework
      BY DEF Homework
    <3> QED BY <3>1, <3>2
  <2>3. event \in [Ids -> Event \cup {None}] /\ created \in 0 .. MaxEvents
    BY CalendarAssumption DEF Init
  <2>4. Linked /\ NextIsFree
    BY <1>1, <1>2 DEF Linked, NextIsFree
  <2> QED BY <2>1, <2>2, <2>3, <2>4 DEF RowsInv
<1>4. TypeInv
  <2>1. request \in [Requests -> InFlight \cup {None}] /\ calls \in 0 .. MaxCalls
    BY CalendarAssumption DEF Init
  <2>2. CallsSound
    BY <1>1 DEF CallsSound
  <2>3. overlapped \in BOOLEAN /\ broken \in BOOLEAN /\ byHand \in BOOLEAN
    BY DEF Init
  <2> QED BY <1>3, <2>1, <2>2, <2>3, Types
<1>5. /\ \A l \in Lessons : LivesOf(l) = {}
      /\ \A a \in Assignments : DeadlinesOf(a) = {}
  BY <1>1 DEF LivesOf, DeadlinesOf
<1>6. \A l \in Lessons : Mirrored(l)
  BY <1>1, <1>2, <1>5 DEF Mirrored
<1>7. \A a \in Assignments : AtMostOne(DeadlinesOf(a))
  BY <1>5 DEF AtMostOne
<1>8. AloneInv /\ NeverMet
  BY <1>1 DEF AloneInv, NeverMet
<1>9. MirrorInv /\ DeadlineInv
  BY <1>1, <1>6, <1>7 DEF MirrorInv, DeadlineInv
<1> QED BY <1>4, <1>8, <1>9 DEF IndInv

LEMMA StutterInv ==
    ASSUME IndInv, UNCHANGED vars
    PROVE  IndInv'
<1>1. /\ lesson' = lesson /\ homework' = homework /\ event' = event /\ created' = created
      /\ request' = request /\ calls' = calls
      /\ overlapped' = overlapped /\ broken' = broken /\ byHand' = byHand
  BY DEF vars, tables, history
<1>2. RowsInv
  BY Types DEF IndInv
<1>3. /\ RowsInv'
      /\ \A l \in Lessons : /\ LivesOf(l)' = LivesOf(l) /\ DateOf(l)' = DateOf(l)
                            /\ Mirrored(l)' <=> Mirrored(l)
      /\ \A a \in Assignments : /\ DeadlinesOf(a)' = DeadlinesOf(a)
                                /\ HomeworkDate(a)' = HomeworkDate(a)
  BY <1>1, <1>2, SameRows DEF tables
<1>4. \A r \in Requests : /\ Busy(r)' <=> Busy(r)
                          /\ Sound(request[r])' <=> Sound(request[r])
  BY <1>1 DEF Busy
<1>5. TypeInv'
  <2>1. CallsSound'
    BY <1>4, Zenon DEF IndInv, TypeInv, CallsSound
  <2>2. request' \in [Requests -> InFlight \cup {None}] /\ calls' \in 0 .. MaxCalls
    BY <1>1, Types DEF IndInv
  <2>3. overlapped' \in BOOLEAN /\ broken' \in BOOLEAN /\ byHand' \in BOOLEAN
    BY <1>1, Types DEF IndInv
  <2> QED BY <1>3, <2>1, <2>2, <2>3, TypesAfter
<1>6. \A r \in Requests : Knows(request[r])' <=> Knows(request[r])
  <2> SUFFICES ASSUME NEW r \in Requests PROVE Knows(request[r])' <=> Knows(request[r])
    OBVIOUS
  <2>1. KnowsLesson(request[r])' <=> KnowsLesson(request[r])
    BY <1>1, Zenon DEF KnowsLesson
  <2>2. KnowsDeadline(request[r])' <=> KnowsDeadline(request[r])
    BY <1>1, Zenon DEF KnowsDeadline, FoundDeadline, DeadlinesOf
  <2>3. KnowsEvent(request[r])' <=> KnowsEvent(request[r])
    BY <1>1 DEF KnowsEvent, MovedHere, SettledHere, LivesOf, Mirrored
  <2>4. KnowsCalendar(request[r])' <=> KnowsCalendar(request[r])
    BY <1>1 DEF KnowsCalendar, LivesListed, DeadlinesThinned, PlanIsMissing, DateOf,
                 LivesOf, DeadlinesOf, HomeworkDate
  <2> QED BY <2>1, <2>2, <2>3, <2>4 DEF Knows
<1>7. AloneInv' /\ NeverMet'
  BY <1>1, <1>4, <1>6, Zenon DEF IndInv, AloneInv, NeverMet
<1>8. MirrorInv'
  <2>1. \A r \in Requests : \A l \in Lessons :
           /\ Owes(request[r], l)' <=> Owes(request[r], l)
           /\ OwedFor(request[r], l)' <=> OwedFor(request[r], l)
    BY <1>1 DEF Owes, OwedFor, LivesOf, AtMostOne
  <2> QED BY <1>1, <1>3, <1>4, <2>1, Zenon DEF IndInv, MirrorInv
<1>9. DeadlineInv'
  BY <1>1, <1>3, <1>4, Zenon DEF IndInv, DeadlineInv, AtMostOne
<1> QED BY <1>5, <1>7, <1>8, <1>9 DEF IndInv

LEMMA CallInv ==
    ASSUME IndInv, NEW r \in Requests, Calls(r)
    PROVE  IndInv'
<1>1. CASE \E l \in Lessons : \/ \E at \in Dates \cup {None}, endsFirst \in BOOLEAN :
                                    LessonSave(r, l, at, endsFirst)
                              \/ LessonRemove(r, l)
  BY <1>1, LessonSaveStep, LessonRemoveStep, Zenon
<1>2. CASE \E row \in Event : EventCreate(r, row)
  BY <1>2, EventCreateStep, Zenon
<1>3. CASE \E i \in Ids : EventRemove(r, i)
  BY <1>3, EventRemoveStep, Zenon
<1>4. CASE \E i \in Ids : \E type \in {"LIVE", "DEADLINE"}, at \in Dates :
              EventMove(r, i, type, at)
  <2>1. PICK i \in Ids, type \in {"LIVE", "DEADLINE"}, at \in Dates :
           EventUpdate(r, i, "moveEvent", type, at, None)
    BY <1>4, Zenon DEF EventMove
  <2>2. PICK s \in {"moveEvent", "relinkEvent"}, l \in Lessons \cup {None} :
           EventUpdate(r, i, s, type, at, l)
    BY <2>1
  <2> QED BY <2>2, EventUpdateStep, Zenon
<1>5. CASE \E i \in Ids : \E type \in {"LIVE", "DEADLINE"}, at \in Dates, l \in Lessons \cup {None} :
              EventRelink(r, i, type, at, l)
  <2>1. PICK i \in Ids, type \in {"LIVE", "DEADLINE"}, at \in Dates, l \in Lessons \cup {None} :
           EventUpdate(r, i, "relinkEvent", type, at, l)
    BY <1>5, Zenon DEF EventRelink
  <2>2. PICK s \in {"moveEvent", "relinkEvent"} : EventUpdate(r, i, s, type, at, l)
    BY <2>1
  <2> QED BY <2>2, EventUpdateStep, Zenon
<1>6. CASE \E a \in Assignments : \/ \E due \in Dates \cup {None} : HomeworkSave(r, a, due)
                                  \/ HomeworkRemove(r, a)
  BY <1>6, HomeworkSaveStep, HomeworkRemoveStep, Zenon
<1>7. CASE ListCalendar(r)
  BY <1>7, ListCalendarStep
<1> QED BY <1>1, <1>2, <1>3, <1>4, <1>5, <1>6, <1>7, Zenon DEF Calls

LEMMA StatementsInv ==
    ASSUME IndInv, NEW r \in Requests, Statements(r)
    PROVE  IndInv'
<1>1. CASE \/ FindLive(r) \/ DeleteEvent(r) \/ WriteLive(r)
           \/ FindLinked(r) \/ FindDeadline(r) \/ WriteDeadline(r) \/ DeleteLesson(r)
  BY <1>1, FindLiveStep, DeleteEventStep, WriteLiveStep, FindLinkedStep, FindDeadlineStep,
     WriteDeadlineStep, DeleteLessonStep, Zenon
<1>2. CASE \/ UpdateEvent(r) \/ DeleteOthers(r) \/ ClearLesson(r) \/ SetLesson(r)
           \/ RemoveEvent(r)
  BY <1>2, UpdateEventStep, DeleteOthersStep, ClearLessonStep, SetLessonStep, RemoveEventStep, Zenon
<1>3. CASE ReadHomework(r) \/ FindDeadlineOf(r) \/ SaveDeadline(r) \/ DeleteHomework(r)
  BY <1>3, ReadHomeworkStep, FindDeadlineOfStep, SaveDeadlineStep, DeleteHomeworkStep, Zenon
<1>4. CASE \/ ListLives(r) \/ (\E l \in Lessons : AddLive(r, l))
           \/ ListHomework(r) \/ ListDeadlines(r) \/ DropExtras(r)
           \/ (\E a \in Assignments : AddDeadline(r, a)) \/ Answer(r)
  BY <1>4, ListLivesStep, AddLiveStep, ListHomeworkStep, ListDeadlinesStep, DropExtrasStep,
     AddDeadlineStep, AnswerStep, Zenon
<1> QED BY <1>1, <1>2, <1>3, <1>4, Zenon DEF Statements

\* Every step keeps it, whatever else is in flight.
THEOREM Invariance == Spec => []IndInv
<1>1. ASSUME IndInv, [Next]_vars PROVE IndInv'
  <2>1. ASSUME NEW r \in Requests, RequestDies(r) PROVE IndInv'
    <3>1. Busy(r) /\ Fail(r)
      BY <2>1 DEF RequestDies
    <3> QED BY <1>1, <3>1, FailInv
  <2>2. CASE UNCHANGED vars
    BY <1>1, <2>2, StutterInv
  <2>3. CASE Next
    BY <1>1, <2>1, <2>3, CallInv, StatementsInv, Zenon DEF Next
  <2> QED BY <1>1, <2>2, <2>3
<1> QED BY <1>1, InitIndInv, PTL DEF Spec

\* The rows and the requests in flight keep their shape, no row is linked to
\* one that is gone.
THEOREM TypeCorrect == Spec => [](TypeOK /\ Linked)
<1>1. IndInv => TypeOK /\ Linked
  BY DEF IndInv, TypeInv
<1> QED BY <1>1, Invariance, PTL

\* Calls of LessonsService, CourseEventsService, AssignmentsService and of the
\* listing that neither overlap nor stop half way leave every lesson and its
\* live event with the same date, one event each.
THEOREM LessonsMirrored == Spec => []CalendarMatchesLessons
<1>1. IndInv => CalendarMatchesLessons
  BY Zenon DEF IndInv, MirrorInv, CalendarMatchesLessons, AtRest
<1> QED BY <1>1, Invariance, PTL

\* A call about to answer that has been alone still knows what it repaired.
LEMMA InvHeals == ASSUME IndInv PROVE CalendarHeals
<1>1. ASSUME NEW r \in Requests, At(r, "answer"), request[r].alone
      PROVE  Knows(request[r]) /\ Sound(request[r])
  <2>1. Busy(r)
    BY <1>1 DEF At
  <2>2. Knows(request[r])
    BY <1>1, <2>1, Zenon DEF IndInv, AloneInv
  <2> QED BY <2>1, <2>2, CallTypes
<1>2. ListingHeals
  <2> SUFFICES ASSUME NEW r \in Requests, At(r, "answer"), request[r].alone, request[r].event = None
               PROVE  /\ \A l \in Lessons : lesson[l] # None /\ lesson[l].scheduledAt # None =>
                            LivesOf(l) # {}
                      /\ \A a \in Assignments : HomeworkDate(a) # None =>
                            Cardinality(DeadlinesOf(a)) = 1
    BY Zenon DEF ListingHeals
  <2>1. /\ LivesListed
        /\ \A a \in Assignments : HomeworkDate(a) # None => \E i \in Ids : DeadlinesOf(a) = {i}
    BY <1>1 DEF At, Knows, KnowsCalendar
  <2>2. \A i : Cardinality({i}) = 1
    BY FS_Singleton
  <2> QED BY <2>1, <2>2 DEF LivesListed, DateOf
<1>3. LiveEditSettles
  <2> SUFFICES ASSUME NEW r \in Requests, At(r, "answer"), request[r].alone, request[r].event # None
               PROVE  Mirrored(request[r].lesson)
    BY Zenon DEF LiveEditSettles
  <2>1. PICK l \in Lessons : l = request[r].lesson
    BY <1>1 DEF At, Sound
  <2>2. Mirrored(l)
    BY <1>1, <2>1 DEF At, Knows, KnowsEvent
  <2> QED BY <2>1, <2>2
<1>4. OneDeadline
  <2> SUFFICES ASSUME ~overlapped, ~byHand, NEW a \in Assignments
               PROVE  Cardinality(DeadlinesOf(a)) <= 1
    BY DEF OneDeadline
  <2>1. AtMostOne(DeadlinesOf(a))
    BY DEF IndInv, DeadlineInv
  <2>2. CASE DeadlinesOf(a) = {}
    BY <2>2, FS_EmptySet
  <2>3. CASE DeadlinesOf(a) # {}
    <3>1. PICK i : DeadlinesOf(a) = {i}
      BY <2>1, <2>3 DEF AtMostOne
    <3>2. Cardinality({i}) = 1
      BY FS_Singleton
    <3> QED BY <3>1, <3>2
  <2> QED BY <2>2, <2>3
<1> QED BY <1>2, <1>3, <1>4 DEF CalendarHeals

\* Whatever races and crashes left, a listing or an edit of a live event that
\* runs alone answers with it repaired; and without a race no homework has a
\* second deadline that nobody entered.
THEOREM AloneHeals == Spec => []CalendarHeals
<1>1. IndInv => CalendarHeals
  BY InvHeals
<1> QED BY <1>1, Invariance, PTL

=============================================================================
