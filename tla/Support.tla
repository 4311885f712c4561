------------------------------ MODULE Support ------------------------------
(***************************************************************************)
(* Support threads on the server (SupportService) with the notifications   *)
(* they cause and the badges that count and clear those                    *)
(* (NotificationsService, useClearSupportBadge).  A request reads the      *)
(* thread, then writes, then notifies; the notices of two audiences are    *)
(* two inserts, and a failed one is swallowed.  Staff who wants no notices *)
(* is left out: it is as if not on the staff.                              *)
(***************************************************************************)
EXTENDS Naturals, Sequences, FiniteSetsExt

CONSTANTS
    Student,
    Admins, Agents,     \* global roles ADMIN and SUPPORT
    Teachers,           \* who may be curators of the course
    Threads, Requests,
    MaxMessages,        \* bound: messages of a thread
    MaxMoves,           \* bound: changes of the course's curators
    None

People   == {Student} \cup Admins \cup Agents \cup Teachers
Channels == {"TECH", "COURSE"}
Badges   == {"TECH", "COURSE", "STAFF_TECH", "STAFF_COURSE"}
Links    == {"/lk/support/tech", "/lk/courses/id?tab=curator", "/admin/support",
             "/admin/support?channel=COURSE", "/support/inbox", "/curator/support"}

VARIABLES
    thread,     \* thread[t]: the SupportThread row
    messages,   \* messages[t]: the senders, in order
    rating,     \* rating[t]: the agent rated, None before
    enrolled,   \* the student's place on the course
    curators,   \* memberships CURATOR
    unread,     \* unread notices of the last seven days; several of one thread
                \* under one link are one
    request,    \* request[r]: a request under way
    visit,      \* a support page that was opened and whose badge is to be cleared;
                \* one at a time: those of different people touch different rows
    moves

VARIABLES       \* history, read by no action
    quiet,      \* quiet[t]: no two requests met on the thread
    lastWord,   \* lastWord[t]: messages when it was closed, None before
    awaited     \* awaited[u]: threads with a message u was notified of in the last
                \* seven days and has neither seen nor put aside in the bell, unless
                \* it came while a visit of u was under way

rows    == <<thread, messages, rating>>
hist    == <<quiet, lastWord, awaited>>
deskVars == <<rows, enrolled, curators, unread, request, visit, moves, hist>>

Row     == [status : {"OPEN", "CLOSED"}, channel : Channels, cancel : BOOLEAN,
            closedBy : People \cup {None}]
Notice  == [to : People, link : Links, thread : Threads]
Request == [actor : People, thread : Threads, open : BOOLEAN, agent : People \cup {None},
            step : {"post", "rate", "cancel", "say", "admins", "others"}]

\* What the theorems assume of the constants, and Services of its own.
GoodConstants ==
    /\ MaxMessages \in Nat \ {0} /\ MaxMoves \in Nat
    /\ None \notin People \cup Row \cup Request \cup [by : People, badge : Badges]
                    \cup 0 .. MaxMessages

TypeOK ==
    /\ thread \in [Threads -> Row \cup {None}]
    /\ messages \in [Threads -> Seq(People)]
    /\ rating \in [Threads -> People \cup {None}]
    /\ enrolled \in BOOLEAN
    /\ curators \subseteq Teachers
    /\ unread \subseteq Notice
    /\ request \in [Requests -> Request \cup {None}]
    /\ visit \in [by : People, badge : Badges] \cup {None}
    /\ moves \in 0 .. MaxMoves
    /\ quiet \in [Threads -> BOOLEAN]
    /\ lastWord \in [Threads -> 0 .. MaxMessages \cup {None}]
    /\ awaited \in [People -> SUBSET Threads]

Init ==
    /\ thread = [t \in Threads |-> None]
    /\ messages = [t \in Threads |-> <<>>]
    /\ rating = [t \in Threads |-> None]
    /\ enrolled = TRUE
    /\ curators \in SUBSET Teachers
    /\ unread = {}
    /\ request = [r \in Requests |-> None]
    /\ visit = None
    /\ moves = 0
    /\ quiet = [t \in Threads |-> TRUE]
    /\ lastWord = [t \in Threads |-> None]
    /\ awaited = [u \in People |-> {}]

-----------------------------------------------------------------------------
(***************************************************************************)
(* Who may do what.                                                        *)
(***************************************************************************)
CanManageCourse(u) == u \in Admins \cup curators
CanRead(u, row) ==
    \/ u = Student
    \/ row.channel = "TECH" /\ u \in Admins \cup Agents
    \/ row.channel = "COURSE" /\ CanManageCourse(u)

\* Who closed it, unless the author did; else who answered last.
Agent(t) ==
    LET closer  == thread[t].closedBy
        answers == {i \in 1 .. Len(messages[t]) : messages[t][i] # Student}
    IN  IF closer \notin {None, Student} THEN closer
        ELSE IF answers # {} THEN messages[t][Max(answers)] ELSE closer

\* What the serialized thread offers its author.
CanRate(t) == thread[t].status = "CLOSED" /\ rating[t] = None

(***************************************************************************)
(* Notices.                                                                *)
(***************************************************************************)
StudentLink(row) ==
    IF row.channel = "TECH" THEN "/lk/support/tech" ELSE "/lk/courses/id?tab=curator"
\* Mutant: one page for both kinds of threads.
AdminPage(row) == "/admin/support"

AdminLink(row) ==
    IF row.channel = "TECH" THEN "/admin/support" ELSE "/admin/support?channel=COURSE"
OtherLink(row) ==
    IF row.channel = "TECH" THEN "/support/inbox" ELSE "/curator/support"
Others(row) == IF row.channel = "TECH" THEN Agents ELSE curators

\* The other side of a message: the student, or the staff less its sender.
\* For a course the curators come first, for technical support the admins.
Audience(q) ==
    IF q.actor # Student THEN {Student}
    ELSE IF q.step = "admins" THEN Admins
    ELSE Others(thread[q.thread])
LinkFor(q) ==
    IF q.actor # Student THEN StudentLink(thread[q.thread])
    ELSE IF q.step = "admins" THEN AdminLink(thread[q.thread])
    ELSE OtherLink(thread[q.thread])

Matches(link, badge) ==
    CASE badge = "TECH" -> link = "/lk/support/tech"
      [] badge = "COURSE" -> link = "/lk/courses/id?tab=curator"
      [] badge = "STAFF_TECH" -> link \in {"/admin/support", "/support/inbox"}
      [] badge = "STAFF_COURSE" -> link \in {"/curator/support", "/admin/support?channel=COURSE"}

\* The badges of the support pages a person can open.
BadgesOf(u) ==
    (IF u = Student THEN {"TECH", "COURSE"} ELSE {})
    \cup (IF u \in Admins THEN {"STAFF_TECH", "STAFF_COURSE"} ELSE {})
    \cup (IF u \in Agents THEN {"STAFF_TECH"} ELSE {})
    \cup (IF u \in curators THEN {"STAFF_COURSE"} ELSE {})
Shown(badge) ==
    {t \in Threads : /\ thread[t] # None
                     /\ (thread[t].channel = "TECH") <=> badge \in {"TECH", "STAFF_TECH"}}

-----------------------------------------------------------------------------
Visiting(u) == visit # None /\ visit.by = u
Busy(t) == \E r \in Requests : request[r] # None /\ request[r].thread = t
Begins(t) == quiet' = [quiet EXCEPT ![t] = @ /\ ~Busy(t)]

\* The first message comes with the thread.
Create(r, t, channel, cancel) ==
    /\ request[r] = None /\ thread[t] = None
    /\ channel = "COURSE" => enrolled
    /\ cancel => channel = "COURSE"
    /\ LET row == [status |-> "OPEN", channel |-> channel, cancel |-> cancel, closedBy |-> None]
       IN  /\ thread' = [thread EXCEPT ![t] = row]
           /\ request' = [request EXCEPT ![r] =
                  [actor |-> Student, thread |-> t, open |-> TRUE, agent |-> None,
                   step |-> IF channel = "TECH" THEN "admins" ELSE "others"]]
    /\ messages' = [messages EXCEPT ![t] = <<Student>>]
    /\ UNCHANGED <<rating, enrolled, curators, unread, visit, moves, hist>>

\* Mutant: a closed thread is not told apart.
PostAnywhere(u, t) == CanRead(u, thread[t])

\* A request reads the thread; what it read decides.
PostRead(u, t) == CanRead(u, thread[t]) /\ thread[t].status = "OPEN"
RateRead(u, t) == u = Student /\ CanRate(t) /\ Agent(t) \notin {None, Student}
CancelRead(u, t) == thread[t].cancel /\ CanManageCourse(u)

Begin(r, u, t, step) ==
    /\ request[r] = None /\ thread[t] # None
    /\ CASE step = "post"   -> PostRead(u, t) /\ Len(messages[t]) < MaxMessages
         [] step = "rate"   -> RateRead(u, t)
         [] step = "cancel" -> CancelRead(u, t) /\ enrolled /\ Len(messages[t]) < MaxMessages
    /\ request' = [request EXCEPT ![r] = [actor |-> u, thread |-> t, open |-> thread[t].status = "OPEN",
                   agent |-> IF step = "rate" THEN Agent(t) ELSE None, step |-> step]]
    /\ Begins(t)
    /\ UNCHANGED <<rows, enrolled, curators, unread, visit, moves, lastWord, awaited>>

Done(r) == request' = [request EXCEPT ![r] = None]
Goes(r, step) == request' = [request EXCEPT ![r].step = step]

\* The message is inserted whatever became of the thread meanwhile.
Post(r) ==
    /\ request[r] # None /\ request[r].step = "post"
    /\ LET q == request[r] IN
       /\ Len(messages[q.thread]) < MaxMessages
       /\ messages' = [messages EXCEPT ![q.thread] = Append(@, q.actor)]
       /\ Goes(r, IF q.actor # Student \/ thread[q.thread].channel = "COURSE" THEN "others" ELSE "admins")
    /\ UNCHANGED <<thread, rating, enrolled, curators, unread, visit, moves, hist>>

\* What close read does not matter to what it writes: one step.
Close(u, t) ==
    /\ thread[t] # None /\ CanRead(u, thread[t])
    /\ thread' = [thread EXCEPT ![t].status = "CLOSED", ![t].closedBy = u]
    /\ lastWord' = [lastWord EXCEPT ![t] = Len(messages[t])]
    /\ Begins(t)
    /\ UNCHANGED <<messages, rating, enrolled, curators, unread, request, visit, moves, awaited>>

\* SupportRating has a unique threadId: the second insert fails.
Rate(r) ==
    /\ request[r] # None /\ request[r].step = "rate"
    /\ LET q == request[r] IN
       rating' = [rating EXCEPT ![q.thread] = IF @ = None THEN q.agent ELSE @]
    /\ Done(r)
    /\ UNCHANGED <<thread, messages, enrolled, curators, unread, visit, moves, hist>>

\* The place goes (module Enrollment), and the thread is told if it was open.
CancelCourse(r) ==
    /\ request[r] # None /\ request[r].step = "cancel"
    /\ enrolled' = FALSE
    /\ IF enrolled /\ request[r].open THEN Goes(r, "say") ELSE Done(r)
    /\ UNCHANGED <<rows, curators, unread, visit, moves, hist>>

Say(r) ==
    /\ request[r] # None /\ request[r].step = "say"
    /\ LET q == request[r] IN
       /\ Len(messages[q.thread]) < MaxMessages
       /\ messages' = [messages EXCEPT ![q.thread] = Append(@, q.actor)]
    /\ Done(r)
    /\ UNCHANGED <<thread, rating, enrolled, curators, unread, visit, moves, hist>>

\* One audience is notified, and the second follows.
Second(q) == IF thread[q.thread].channel = "TECH" THEN "others" ELSE "admins"
Notify(r) ==
    /\ request[r] # None /\ request[r].step \in {"admins", "others"}
    /\ LET q  == request[r]
           to == Audience(q) \ {q.actor}
       IN  /\ unread' = unread \cup [to : to, link : {LinkFor(q)}, thread : {q.thread}]
           /\ awaited' = [u \in People |-> IF u \in to /\ ~Visiting(u) THEN awaited[u] \cup {q.thread}
                                         ELSE awaited[u]]
           /\ IF q.actor # Student \/ q.step = Second(q) THEN Done(r) ELSE Goes(r, Second(q))
    /\ UNCHANGED <<rows, enrolled, curators, visit, moves, quiet, lastWord>>

NotifyFails(r) ==
    /\ request[r] # None /\ request[r].step \in {"admins", "others"}
    /\ Done(r)
    /\ UNCHANGED <<rows, enrolled, curators, unread, visit, moves, hist>>

-----------------------------------------------------------------------------
\* A support page shows its threads and asks to clear its badge.
Visit(u, badge) ==
    /\ visit = None /\ badge \in BadgesOf(u)
    /\ visit' = [by |-> u, badge |-> badge]
    /\ UNCHANGED <<rows, enrolled, curators, unread, request, moves, hist>>

Clears(u, badge) == {n \in unread : n.to = u /\ Matches(n.link, badge)}
ClearBadge ==
    /\ visit # None
    /\ unread' = unread \ Clears(visit.by, visit.badge)
    /\ awaited' = [awaited EXCEPT ![visit.by] = @ \ Shown(visit.badge)]
    /\ visit' = None
    /\ UNCHANGED <<rows, enrolled, curators, request, moves, quiet, lastWord>>

\* Listing or counting drops the notices of who is no longer a curator.
Misdelivered(u) ==
    {n \in unread : /\ n.to = u /\ u \notin Admins
                    /\ \/ n.link \in {"/admin/support", "/admin/support?channel=COURSE"}
                       \/ u \notin curators /\ n.link = "/curator/support"}
List(u) ==
    /\ Misdelivered(u) # {}
    /\ unread' = unread \ Misdelivered(u)
    /\ UNCHANGED <<rows, enrolled, curators, request, visit, moves, hist>>

\* The bell: a notice is marked read, or all of them are; the pages they
\* link to need not be opened.  (markRead of one notice of several about the
\* same thread changes nothing here.)
MarkRead(n) ==
    /\ unread' = unread \ {n}
    /\ awaited' = [awaited EXCEPT ![n.to] = @ \ {n.thread}]
    /\ UNCHANGED <<rows, enrolled, curators, request, visit, moves, quiet, lastWord>>

MarkAllRead(u) ==
    /\ unread' = {n \in unread : n.to # u}
    /\ awaited' = [awaited EXCEPT ![u] = {}]
    /\ UNCHANGED <<rows, enrolled, curators, request, visit, moves, quiet, lastWord>>

\* Seven days on, no list and no badge counts the notice (retentionWhere),
\* read or not.
Expire(n) == MarkRead(n)

AssignCurator(u) ==
    /\ u \notin curators /\ moves < MaxMoves
    /\ curators' = curators \cup {u} /\ moves' = moves + 1
    /\ UNCHANGED <<rows, enrolled, unread, request, visit, hist>>

RemoveCurator(u) ==
    /\ u \in curators /\ moves < MaxMoves
    /\ curators' = curators \ {u} /\ moves' = moves + 1
    /\ awaited' = IF u \in Admins THEN awaited ELSE [awaited EXCEPT ![u] = {}]
    /\ UNCHANGED <<rows, enrolled, unread, request, visit, quiet, lastWord>>

Next ==
    \/ \E r \in Requests, t \in Threads :
          \/ \E channel \in Channels, cancel \in BOOLEAN : Create(r, t, channel, cancel)
          \/ \E u \in People, step \in {"post", "rate", "cancel"} : Begin(r, u, t, step)
    \/ \E r \in Requests :
          \/ Post(r) \/ Rate(r) \/ CancelCourse(r) \/ Say(r)
          \/ Notify(r) \/ NotifyFails(r)
    \/ \E u \in People :
          \/ \E badge \in Badges : Visit(u, badge)
          \/ List(u) \/ MarkAllRead(u)
          \/ \E t \in Threads : Close(u, t)
    \/ \E n \in unread : MarkRead(n) \/ Expire(n)
    \/ ClearBadge
    \/ \E u \in Teachers : AssignCurator(u) \/ RemoveCurator(u)

Spec == Init /\ [][Next]_deskVars

-----------------------------------------------------------------------------
(***************************************************************************)
(* Properties.                                                             *)
(***************************************************************************)
\* A closed thread gets no message, unless two requests met on it.
ClosedIsClosed ==
    \A t \in Threads : quiet[t] /\ thread[t] # None /\ thread[t].status = "CLOSED" =>
        Len(messages[t]) = lastWord[t]

\* Whoever awaits a message has a badge that says so, on a page that is his:
\* clearing one badge, listing, or a change of curators takes no badge of a
\* message that was neither seen, nor put aside, nor a week old.
BadgeForWhatAwaits ==
    \A u \in People : awaited[u] # {} =>
        \E n \in unread, badge \in BadgesOf(u) : n.to = u /\ Matches(n.link, badge)

\* A notice counts in one badge, and the page that clears it is open to its
\* addressee, or the next listing drops it.
EveryNoticeHasItsPage ==
    \A n \in unread :
        \/ \E badge \in BadgesOf(n.to) : {b \in Badges : Matches(n.link, b)} = {badge}
        \/ n \in Misdelivered(n.to)

=============================================================================
