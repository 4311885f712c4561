---------------------------- MODULE SupportPanel ----------------------------
(***************************************************************************)
(* The panel of support threads in the web client (SupportPanel): a list,  *)
(* the thread opened from it with its reply box, and the form that opens a *)
(* new one.  What is typed into the reply box belongs to the panel and not *)
(* to a thread; the files of a message, if any, are uploaded after it was  *)
(* posted.                                                                 *)
(* A fetch reads and arrives in one step.  A reply is the number of times  *)
(* one was typed.                                                          *)
(***************************************************************************)
EXTENDS Naturals, Sequences, SequencesExt, FiniteSetsExt

CONSTANTS
    Threads,
    First,          \* the one that is there from the start
    MaxReplies,     \* bound: replies typed
    MaxPosted,      \* bound: replies on the server
    None

VARIABLES
    desk,       \* desk[t]: the thread on the server, None before it is created
    active,     \* the thread that is open
    seen,       \* seen[t]: the cached thread
    typed,      \* replies typed so far
    reply,      \* the reply in the box
    send,       \* the mutation behind Enter and the button
    tool,       \* the mutation behind Close, Cancel course or Rate
    form        \* the form for a new thread

VARIABLES       \* history, read by no action
    home,       \* where the last reply was typed
    untouched   \* no edit nor change of thread during a request, none with a
                \* reply in the box, and no failure

client    == <<active, seen, typed, reply>>
calls     == <<send, tool, form>>
panelVars == <<desk, client, calls, home, untouched>>

Replies == 1 .. MaxReplies
Desk    == [status : {"OPEN", "CLOSED"}, rated : BOOLEAN, posted : Seq(Replies)]
View    == [status : {"OPEN", "CLOSED"}, canRate : BOOLEAN]
Idle    == [step |-> "idle"]

\* What the theorems assume of the constants.
GoodConstants ==
    /\ MaxReplies \in Nat /\ First \in Threads
    /\ None \notin Threads \cup Replies \cup Desk \cup View

TypeOK ==
    /\ desk \in [Threads -> Desk \cup {None}]
    /\ active \in Threads \cup {None}
    /\ seen \in [Threads -> View \cup {None}]
    /\ typed \in 0 .. MaxReplies
    /\ reply \in Replies \cup {None}
    /\ untouched \in BOOLEAN
    /\ send \in {Idle} \cup [step : {"asked", "upload", "answered"}, thread : Threads,
                             reply : Replies]
    /\ tool \in {Idle} \cup [step : {"close", "rate"}, thread : Threads]
    /\ form \in [step : {"idle", "asked", "answered"},
                 thread : Threads \cup {None}]
    /\ home \in Threads \cup {None}

Form(step, t) == [step |-> step, thread |-> t]
NewThread == [status |-> "OPEN", rated |-> FALSE, posted |-> <<>>]

Init ==
    /\ desk = [t \in Threads |-> IF t = First THEN NewThread ELSE None]
    /\ active = None /\ seen = [t \in Threads |-> None]
    /\ typed = 0 /\ reply = None
    /\ send = Idle /\ tool = Idle /\ form = Form("idle", None)
    /\ home = None
    /\ untouched = TRUE

-----------------------------------------------------------------------------
(***************************************************************************)
(* The endpoints (module Support takes them apart).                        *)
(***************************************************************************)
Posted == FoldSet(LAMBDA t, n : n + (IF desk[t] = None THEN 0 ELSE Len(desk[t].posted)),
                  0, Threads)
HandlePost ==
    /\ send.step = "asked"
    /\ desk[send.thread].status = "OPEN" /\ Posted < MaxPosted
    /\ desk' = [desk EXCEPT ![send.thread].posted = Append(@, send.reply)]
    /\ \E step \in {"upload", "answered"} : send' = [send EXCEPT !.step = step]
    /\ UNCHANGED <<client, tool, form, home, untouched>>

HandleTool ==
    /\ tool # Idle
    /\ IF tool.step = "close"
       THEN desk' = [desk EXCEPT ![tool.thread].status = "CLOSED"]
       ELSE /\ ~desk[tool.thread].rated
            /\ desk' = [desk EXCEPT ![tool.thread].rated = TRUE]
    /\ tool' = Idle
    /\ UNCHANGED <<client, send, form, home, untouched>>

HandleCreate(t) ==
    /\ form.step = "asked" /\ desk[t] = None
    /\ desk' = [desk EXCEPT ![t] = NewThread]
    /\ form' = Form("answered", t)
    /\ UNCHANGED <<client, send, tool, home, untouched>>

\* The other side closes the thread.
CloseElsewhere(t) ==
    /\ desk[t] # None /\ desk[t].status = "OPEN"
    /\ desk' = [desk EXCEPT ![t].status = "CLOSED"]
    /\ UNCHANGED <<client, calls, home, untouched>>

-----------------------------------------------------------------------------
(***************************************************************************)
(* The panel.                                                              *)
(***************************************************************************)
Read(t) == [status |-> desk[t].status,
            canRate |-> desk[t].status = "CLOSED" /\ ~desk[t].rated]

\* Choosing a thread, from the list or after creating it, or none at all.
Moves(t) ==
    /\ active' = t
    /\ untouched' = (untouched /\ reply = None /\ send = Idle)

\* The list shows the thread; the box keeps what was typed.
Choose(t) ==
    /\ t # None => desk[t] # None
    /\ t # active
    /\ Moves(t)
    /\ UNCHANGED <<desk, seen, typed, reply, calls, home>>

\* Opened, focused or invalidated: the open thread is fetched.
Fetch ==
    /\ active # None /\ seen[active] # Read(active)
    /\ seen' = [seen EXCEPT ![active] = Read(active)]
    /\ UNCHANGED <<desk, active, typed, reply, calls, home, untouched>>

BoxShown == active # None /\ seen[active] # None /\ seen[active].status = "OPEN"

Type ==
    /\ BoxShown /\ typed < MaxReplies
    /\ typed' = typed + 1 /\ reply' = typed'
    /\ home' = active
    /\ untouched' = (untouched /\ send = Idle)
    /\ UNCHANGED <<desk, active, seen, calls>>

\* Enter and the button wait for the answer to the last one.
Send ==
    /\ BoxShown /\ reply # None
    /\ send = Idle
    /\ send' = [step |-> "asked", thread |-> active, reply |-> reply]
    /\ UNCHANGED <<desk, client, tool, form, home, untouched>>

Upload ==
    /\ send.step = "upload"
    /\ send' = [send EXCEPT !.step = "answered"]
    /\ UNCHANGED <<desk, client, tool, form, home, untouched>>

\* Mutant: the box keeps the reply.
SendArrivesKept ==
    /\ send.step = "answered"
    /\ send' = Idle
    /\ UNCHANGED <<desk, client, tool, form, home, untouched>>

\* The box is emptied, whatever is in it and whichever thread is open.
SendArrives ==
    /\ send.step = "answered"
    /\ send' = Idle
    /\ reply' = None
    /\ UNCHANGED <<desk, active, seen, typed, tool, form, home, untouched>>

\* Refused, an answer lost, or an upload that failed: the reply stays.
SendFails ==
    /\ send # Idle
    /\ send' = Idle
    /\ untouched' = FALSE
    /\ UNCHANGED <<desk, client, tool, form, home>>

ClickTool(step) ==
    /\ active # None /\ seen[active] # None /\ tool = Idle
    /\ IF step = "close" THEN seen[active].status = "OPEN" ELSE seen[active].canRate
    /\ tool' = [step |-> step, thread |-> active]
    /\ UNCHANGED <<desk, client, send, form, home, untouched>>

\* The button Skip only hides the question from the cached thread.
SkipRating ==
    /\ active # None /\ seen[active] # None /\ seen[active].canRate
    /\ seen' = [seen EXCEPT ![active].canRate = FALSE]
    /\ UNCHANGED <<desk, active, typed, reply, calls, home, untouched>>

ToolFails ==
    /\ tool # Idle
    /\ tool' = Idle
    /\ UNCHANGED <<desk, client, send, form, home, untouched>>

SubmitForm ==
    /\ form.step = "idle"
    /\ form' = Form("asked", None)
    /\ UNCHANGED <<desk, client, send, tool, home, untouched>>

\* The new thread is opened; after a failure the form stays as it was.
FormArrives ==
    /\ form.step = "answered"
    /\ form' = Form("idle", None)
    /\ Moves(form.thread)
    /\ UNCHANGED <<desk, seen, typed, reply, send, tool, home>>

FormFails ==
    /\ form.step # "idle"
    /\ form' = Form("idle", None)
    /\ UNCHANGED <<desk, client, send, tool, home, untouched>>

Next ==
    \/ HandlePost \/ HandleTool
    \/ \E t \in Threads : HandleCreate(t) \/ CloseElsewhere(t)
    \/ \E t \in Threads \cup {None} : Choose(t)
    \/ Fetch \/ Type
    \/ Send \/ Upload \/ SendArrives \/ SendFails
    \/ ClickTool("close") \/ ClickTool("rate") \/ SkipRating \/ ToolFails
    \/ SubmitForm \/ FormArrives \/ FormFails

Spec == Init /\ [][Next]_panelVars

-----------------------------------------------------------------------------
(***************************************************************************)
(* Properties.                                                             *)
(***************************************************************************)
\* The last reply typed is in the box until it is posted, once, in the
\* thread it was typed in.  An upload that fails after the message was
\* posted breaks it: the reply stays in the box and is sent again.
ReplyArrivesOnce ==
    untouched =>
        /\ \A t \in Threads : desk[t] # None =>
              IsInjective(desk[t].posted) /\ (Contains(desk[t].posted, typed) => t = home)
        /\ typed > 0 /\ reply = None => Contains(desk[home].posted, typed)

=============================================================================
