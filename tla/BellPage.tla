------------------------------ MODULE BellPage ------------------------------
(***************************************************************************)
(* The notices of one student: NotificationsService and the bell of the    *)
(* web client (NotificationsBell), with the reminders a curator sends and  *)
(* takes back (createReminder, deleteReminder, CourseRemindersTab).  The   *)
(* bell polls the list; a new toast pops up, and most are marked read at   *)
(* once.  Of the toasts that come together only the last few of the list,  *)
(* which starts with the newest, are put on the screen.  Notices are       *)
(* numbered in the order they were created.                                *)
(***************************************************************************)
EXTENDS Naturals, Sequences, SequencesExt, FiniteSetsExt

CONSTANTS
    MaxNotes,       \* bound: notices created
    ToastLimit,     \* toasts on the screen (5 in the code)
    None

Notes == 1 .. MaxNotes
\* REMINDER and SUPPORT_REPLY are toasts, HW_GRADED stands for the rest.
Kinds == {"REMINDER", "SUPPORT_REPLY", "HW_GRADED"}

VARIABLES
    note,       \* note[n]: the Notification row, None before and after
    created,    \* notices created
    reminder,   \* the curator's reminder: its row, and whether it was sent
    found       \* notices a deletion of it has found

VARIABLES
    listed,     \* the cached list: notices with their read flag
    toasts,     \* toasts on the screen
    popped,     \* os_shown_toast_ids: never to pop up again
    marking,    \* requests to mark one notice as read
    sweeping,   \* the request to mark all as read
    drawer      \* the list is on the screen

VARIABLES       \* history, read by no action
    shown,      \* notices that were on the screen
    swept,      \* read with others, from the drawer or on a support page
    squeezed,   \* popped up with too many others to reach the screen
    met         \* the reminder was deleted before it was sent to everybody

store    == <<note, created, reminder, found>>
bell     == <<listed, toasts, popped, marking, sweeping, drawer>>
history  == <<shown, swept, squeezed, met>>
bellVars == <<store, bell, history>>

Row == [kind : Kinds, read : BOOLEAN]

\* What the theorems assume of the constants.
GoodConstants ==
    /\ MaxNotes \in Nat /\ ToastLimit \in Nat
    /\ None \notin Row /\ \A S \in SUBSET Notes : S # None

TypeOK ==
    /\ note \in [Notes -> Row \cup {None}]
    /\ created \in 0 .. MaxNotes
    /\ reminder \in [row : {"none", "there", "deleted"}, sent : BOOLEAN]
    /\ found \in (SUBSET Notes) \cup {None}
    /\ listed \subseteq [id : Notes, kind : Kinds, read : BOOLEAN]
    /\ toasts \in Seq(Notes) /\ Len(toasts) <= ToastLimit
    /\ popped \subseteq Notes /\ marking \subseteq Notes /\ shown \subseteq Notes
    /\ swept \subseteq Notes /\ squeezed \subseteq Notes
    /\ sweeping \in BOOLEAN /\ drawer \in BOOLEAN /\ met \in BOOLEAN

Init ==
    /\ note = [n \in Notes |-> None] /\ created = 0
    /\ reminder = [row |-> "none", sent |-> FALSE] /\ found = None
    /\ listed = {} /\ toasts = <<>> /\ popped = {} /\ marking = {}
    /\ sweeping = FALSE /\ drawer = FALSE
    /\ shown = {} /\ swept = {} /\ squeezed = {} /\ met = FALSE

-----------------------------------------------------------------------------
(***************************************************************************)
(* The server.                                                             *)
(***************************************************************************)
CreateForUser(kind) ==
    /\ created < MaxNotes
    /\ created' = created + 1
    /\ note' = [note EXCEPT ![created'] = [kind |-> kind, read |-> FALSE]]

Arrive(kind) ==
    /\ kind # "REMINDER"
    /\ CreateForUser(kind)
    /\ UNCHANGED <<reminder, found, bell, history>>

\* The row, then the notices of the students enrolled by then.
CreateReminder ==
    /\ reminder.row = "none"
    /\ reminder' = [reminder EXCEPT !.row = "there"]
    /\ UNCHANGED <<note, created, found, bell, history>>

SendReminder ==
    /\ reminder.row # "none" /\ ~reminder.sent
    /\ CreateForUser("REMINDER")
    /\ reminder' = [reminder EXCEPT !.sent = TRUE]
    /\ UNCHANGED <<found, bell, history>>

\* Mutant: only unread notices of the reminder are found.
FindUnread ==
    /\ reminder.row = "there" /\ found = None
    /\ found' = {n \in Notes : /\ note[n] # None
                               /\ note[n].kind = "REMINDER" /\ ~note[n].read}
    /\ met' = ~reminder.sent
    /\ UNCHANGED <<note, created, reminder, bell, shown, swept, squeezed>>

\* A deletion finds the notices of the reminder, then deletes those and it.
FindReminder ==
    /\ reminder.row = "there" /\ found = None
    /\ found' = {n \in Notes : note[n] # None /\ note[n].kind = "REMINDER"}
    /\ met' = ~reminder.sent
    /\ UNCHANGED <<note, created, reminder, bell, shown, swept, squeezed>>

DeleteReminder ==
    /\ found # None
    /\ note' = [n \in Notes |-> IF n \in found THEN None ELSE note[n]]
    /\ reminder' = [reminder EXCEPT !.row = "deleted"]
    /\ found' = None
    /\ UNCHANGED <<created, bell, history>>

Read(n) == [note EXCEPT ![n] = IF @ = None THEN None ELSE [@ EXCEPT !.read = TRUE]]

MarkRead(n) ==
    /\ n \in marking
    /\ note' = Read(n)
    /\ marking' = marking \ {n}
    /\ UNCHANGED <<created, reminder, found, listed, toasts, popped, sweeping, drawer, history>>

MarkAllRead ==
    /\ sweeping
    /\ note' = [n \in Notes |-> IF note[n] = None THEN None ELSE [note[n] EXCEPT !.read = TRUE]]
    /\ swept' = swept \cup {n \in Notes : note[n] # None /\ ~note[n].read}
    /\ sweeping' = FALSE
    /\ UNCHANGED <<created, reminder, found, listed, toasts, popped, marking, drawer, shown,
                   squeezed, met>>

\* A visit of a support page marks the replies of its channel, listed by the
\* bell or not.
MarkSupportChannelRead ==
    \E S \in SUBSET {n \in Notes : /\ note[n] # None /\ ~note[n].read
                                   /\ note[n].kind = "SUPPORT_REPLY"} :
        /\ S # {}
        /\ note' = [n \in Notes |-> IF n \in S THEN [note[n] EXCEPT !.read = TRUE] ELSE note[n]]
        /\ swept' = swept \cup S
        /\ UNCHANGED <<created, reminder, found, bell, shown, squeezed, met>>

\* Older than the retention, a notice is dropped when the list is read.
Expire(n) ==
    /\ note[n] # None
    /\ note' = [note EXCEPT ![n] = None]
    /\ UNCHANGED <<created, reminder, found, bell, history>>

-----------------------------------------------------------------------------
(***************************************************************************)
(* The bell.                                                               *)
(***************************************************************************)
ListMine == {[id |-> n, kind |-> note[n].kind, read |-> note[n].read] :
                n \in {m \in Notes : note[m] # None}}
IsToast(row) == row.kind \in {"REMINDER", "SUPPORT_REPLY"}
KeptUnread(kind) == kind = "SUPPORT_REPLY"
Fresh(rows) == {row \in rows : IsToast(row) /\ ~row.read /\ row.id \notin popped}
\* Mutant: however many toasts there are, they are put on the screen.
AllOf(s) == s

\* As the list has them.
NewestFirst(S) == CHOOSE s \in SetToSeqs(S) : \A i, j \in DOMAIN s : i < j => s[i] > s[j]

LastOf(s) == SubSeq(s, IF Len(s) > ToastLimit THEN Len(s) - ToastLimit + 1 ELSE 1, Len(s))

\* The list comes in; what is new on it pops up, and is marked read but for
\* what has to be opened.
Poll ==
    /\ ListMine # listed
    /\ listed' = ListMine
    /\ LET fresh == Fresh(listed')
           ids   == {row.id : row \in fresh}
       IN  /\ toasts' = LastOf(toasts \o NewestFirst(ids))
           /\ popped' = popped \cup ids
           /\ marking' = marking \cup {row.id : row \in {f \in fresh : ~KeptUnread(f.kind)}}
           /\ squeezed' = squeezed \cup (ids \ ToSet(toasts'))
    /\ shown' = shown \cup ToSet(toasts') \cup (IF drawer THEN {row.id : row \in listed'} ELSE {})
    /\ UNCHANGED <<store, sweeping, drawer, swept, met>>

\* A timer, or a click on its cross.
DismissToast(n) ==
    /\ Contains(toasts, n)
    /\ toasts' = RemoveFirst(toasts, n)
    /\ UNCHANGED <<store, listed, popped, marking, sweeping, drawer, history>>

OpenDrawer ==
    /\ ~drawer
    /\ drawer' = TRUE
    /\ shown' = shown \cup {row.id : row \in listed}
    /\ UNCHANGED <<store, listed, toasts, popped, marking, sweeping, swept, squeezed, met>>

\* From the drawer or from a toast: marked read, and its page opened.
OpenItem(row) ==
    /\ row \in listed /\ (drawer \/ Contains(toasts, row.id))
    /\ marking' = IF row.read THEN marking ELSE marking \cup {row.id}
    /\ toasts' = RemoveFirst(toasts, row.id)
    /\ drawer' = FALSE
    /\ UNCHANGED <<store, listed, popped, sweeping, history>>

ClickMarkAll ==
    /\ drawer /\ ~sweeping
    /\ \E row \in listed : ~row.read
    /\ sweeping' = TRUE
    /\ UNCHANGED <<store, listed, toasts, popped, marking, drawer, history>>

Next ==
    \/ \E kind \in Kinds : Arrive(kind)
    \/ CreateReminder \/ SendReminder \/ FindReminder \/ DeleteReminder
    \/ \E n \in Notes : MarkRead(n) \/ Expire(n) \/ DismissToast(n)
    \/ MarkAllRead \/ MarkSupportChannelRead
    \/ Poll \/ OpenDrawer \/ ClickMarkAll
    \/ \E row \in listed : OpenItem(row)

Spec == Init /\ [][Next]_bellVars

-----------------------------------------------------------------------------
(***************************************************************************)
(* Properties.                                                             *)
(***************************************************************************)
\* A notice is read only after it was on the screen, unless it went with
\* all the others or as a reply whose support page was visited, or had no
\* room among the toasts.
ReadWasShown ==
    \A n \in Notes : note[n] # None /\ note[n].read => n \in shown \cup swept \cup squeezed

\* "A reminder pops up at once at all active students": so it was shown
\* when it is read.  A reminder that arrives with too many toasts is not.
ReminderPopsUp ==
    \A n \in Notes : note[n] # None /\ note[n].kind = "REMINDER" /\ note[n].read =>
        n \in shown \cup swept

\* A deleted reminder leaves no notice behind, unless it was being sent.
ReminderTakenBack ==
    reminder.row = "deleted" /\ ~met =>
        \A n \in Notes : note[n] # None => note[n].kind # "REMINDER"

=============================================================================
