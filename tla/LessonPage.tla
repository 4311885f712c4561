----------------------------- MODULE LessonPage -----------------------------
(***************************************************************************)
(* The lesson page of the student (LkLessonPage): it reports a VIEW when   *)
(* the materials open, the share of a video as it plays, and a COMPLETE    *)
(* after two minutes on the page or 80% of the video.  What it has counted *)
(* and sent lives in refs of the component, which stays mounted when the   *)
(* student goes from one lesson straight to another.                       *)
(***************************************************************************)
EXTENDS Naturals, FiniteSets

CONSTANTS
    Lessons,
    Dwell,      \* ticks of DWELL_MS
    MaxSent,    \* bound: requests under way
    None

Shares == {40, 60, 80}          \* percentages the video passes
CompletePct == 80               \* VIDEO_COMPLETE_PCT, COMPLETE_PCT

VARIABLES       \* the server
    video,      \* video[l]: the lesson has a video played in the page
    open,       \* open[l]: its materials are open
    done        \* done[l]: the server has the lesson as completed

VARIABLES       \* the page
    lesson,     \* the lesson of the route, None when another page is shown
    shown,      \* contentOpen as loaded: "loading", "locked", "open"
    player,     \* the playback has loaded
    viewed,     \* the VIEW of this opening was sent
    completed,  \* "Counted" is shown
    completedRef,
    dwell,      \* dwellAccRef, in ticks
    maxPctSent, \* maxPctSentRef
    sent        \* requests under way, and whether their page is still there

VARIABLES       \* history
    earned,     \* lessons watched long enough on the page
    steady      \* no request has failed and no lesson was left for another

server     == <<video, open, done>>
refs       == <<completed, completedRef, dwell, maxPctSent>>
lessonVars == <<server, lesson, shown, player, viewed, refs, sent, earned, steady>>

Requests == [of : Lessons, type : {"VIEW", "COMPLETE"}, live : BOOLEAN]

\* What the theorems assume of the constants, and WebApp of its own.
GoodConstants == None \notin Lessons /\ Dwell \in Nat

TypeOK ==
    /\ video \in [Lessons -> BOOLEAN] /\ open \in [Lessons -> BOOLEAN]
    /\ done \in [Lessons -> BOOLEAN]
    /\ lesson \in Lessons \cup {None}
    /\ shown \in {"loading", "locked", "open"}
    /\ player \in BOOLEAN /\ viewed \in BOOLEAN /\ steady \in BOOLEAN
    /\ completed \in BOOLEAN /\ completedRef \in BOOLEAN
    /\ dwell \in 0 .. Dwell /\ maxPctSent \in Shares \cup {0}
    /\ sent \subseteq Requests
    /\ earned \subseteq Lessons

Init ==
    /\ video \in [Lessons -> BOOLEAN] /\ open \in [Lessons -> BOOLEAN]
    /\ done = [l \in Lessons |-> FALSE]
    /\ lesson = None /\ shown = "loading" /\ player = FALSE /\ viewed = FALSE
    /\ completed = FALSE /\ completedRef = FALSE /\ dwell = 0 /\ maxPctSent = 0
    /\ sent = {} /\ earned = {} /\ steady = TRUE

-----------------------------------------------------------------------------
Send(type) ==
    /\ Cardinality(sent) < MaxSent
    /\ sent' = sent \cup {[of |-> lesson, type |-> type, live |-> TRUE]}

Enter(l) == lesson' = l /\ shown' = "loading" /\ player' = FALSE /\ viewed' = FALSE

\* The component is mounted, with new refs.
Visit(l) ==
    /\ lesson = None
    /\ Enter(l)
    /\ completed' = FALSE /\ completedRef' = FALSE /\ dwell' = 0 /\ maxPctSent' = 0
    /\ earned' = {} /\ steady' = TRUE
    /\ UNCHANGED <<server, sent>>

\* A link of the bell or of a toast leads to another lesson: the same
\* component, with the state and the refs it has.
Follow(l) ==
    /\ lesson \notin {None, l}
    /\ Enter(l)
    /\ steady' = FALSE
    /\ UNCHANGED <<server, refs, sent, earned>>

Leave ==
    /\ lesson # None
    /\ Enter(None)
    /\ sent' = {[q EXCEPT !.live = FALSE] : q \in sent}
    /\ UNCHANGED <<server, refs, earned, steady>>

\* The lesson arrives, or is read again after a focus.
Load ==
    /\ lesson # None
    /\ shown' = (IF open[lesson] THEN "open" ELSE "locked")
    /\ viewed' = (viewed /\ shown = "open")
    /\ UNCHANGED <<server, lesson, player, refs, sent, earned, steady>>

\* The playback of a lesson with a video; it may fail or take its time.
LoadPlayback ==
    /\ lesson # None /\ shown = "open" /\ video[lesson]
    /\ player' = TRUE
    /\ UNCHANGED <<server, lesson, shown, viewed, refs, sent, earned, steady>>

\* The effect of [lessonId, open].
ReportView ==
    /\ lesson # None /\ shown = "open" /\ ~viewed
    /\ viewed' = TRUE
    /\ Send("VIEW")
    /\ UNCHANGED <<server, lesson, shown, player, refs, earned, steady>>

\* Mutant: the lesson counts as soon as the page says so.
MarkOnly ==
    /\ completedRef' = TRUE /\ completed' = TRUE
    /\ UNCHANGED sent

\* markComplete, once for the component: the ref is set before the answer.
MarkComplete ==
    IF completedRef THEN UNCHANGED <<completed, completedRef, sent>>
    ELSE /\ completedRef' = TRUE /\ completed' = TRUE
         /\ Send("COMPLETE")

\* Time passes in a visible tab while no player is there; flush comes every five seconds and when the
\* lesson is left.  The effect is not set up once the ref is set.
Tick ==
    /\ lesson # None /\ shown = "open" /\ viewed /\ ~player
    /\ ~completedRef
    /\ dwell' = IF dwell < Dwell THEN dwell + 1 ELSE dwell
    /\ earned' = earned \cup (IF dwell' = Dwell THEN {lesson} ELSE {})
    /\ IF dwell' = Dwell THEN MarkComplete ELSE UNCHANGED <<completed, completedRef, sent>>
    /\ UNCHANGED <<server, lesson, shown, player, viewed, maxPctSent, steady>>

\* onVideoTime: every ten per cent, and whatever passes 80.
Play(pct) ==
    /\ lesson # None /\ shown = "open" /\ viewed /\ player
    /\ earned' = earned \cup (IF pct >= CompletePct THEN {lesson} ELSE {})
    /\ IF pct >= maxPctSent + 10 \/ pct >= CompletePct
       THEN /\ maxPctSent' = pct
            /\ IF pct >= CompletePct THEN MarkComplete
               ELSE Send("VIEW") /\ UNCHANGED <<completed, completedRef>>
       ELSE UNCHANGED <<maxPctSent, completed, completedRef, sent>>
    /\ UNCHANGED <<server, lesson, shown, player, viewed, dwell, steady>>

\* record answers with the row; whichever lesson it is of, a completed row
\* marks the page.
Answered(q) ==
    /\ q \in sent
    /\ done' = [done EXCEPT ![q.of] = @ \/ q.type = "COMPLETE"]
    /\ IF q.live /\ done'[q.of]
       THEN completedRef' = TRUE /\ completed' = TRUE
       ELSE UNCHANGED <<completed, completedRef>>
    /\ sent' = sent \ {q}
    /\ UNCHANGED <<video, open, lesson, shown, player, viewed, dwell, maxPctSent, earned, steady>>

\* The request fails: nothing is said, and nothing is sent again.
Fails(q) ==
    /\ q \in sent
    /\ sent' = sent \ {q} /\ steady' = FALSE
    /\ UNCHANGED <<server, lesson, shown, player, viewed, refs, earned>>

\* Curators open and close the materials.
Unlock(l) == open' = [open EXCEPT ![l] = ~@]
             /\ UNCHANGED <<video, done, lesson, shown, player, viewed, refs, sent, earned, steady>>

Next ==
    \/ \E l \in Lessons : Visit(l) \/ Follow(l) \/ Unlock(l)
    \/ Leave \/ Load \/ LoadPlayback \/ ReportView \/ Tick
    \/ \E pct \in Shares : Play(pct)
    \/ \E q \in sent : Answered(q) \/ Fails(q)

Spec == Init /\ [][Next]_lessonVars

-----------------------------------------------------------------------------
(***************************************************************************)
(* Properties.                                                             *)
(***************************************************************************)
\* On a page opened for this lesson, with every request answered: what is
\* shown as counted is counted, and what was watched long enough is too.
CreditIsRecorded ==
    steady /\ lesson # None /\ sent = {} =>
        /\ completed => done[lesson]
        /\ lesson \in earned => done[lesson]

\* The same on any page: "the lesson is counted after two minutes on this
\* page".  A failed request and a lesson reached from another break it.
CountedIsRecorded ==
    lesson # None /\ sent = {} /\ completed => done[lesson]

=============================================================================
