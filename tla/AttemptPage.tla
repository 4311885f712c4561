---------------------------- MODULE AttemptPage ----------------------------
(***************************************************************************)
(* The homework page of the web client (LkAssignmentPage) with the part of *)
(* SubmissionsService it talks to: one student, one assignment, one        *)
(* attempt allowed (the default).  The page keeps the answers on screen,   *)
(* the answers it believes saved, and a cached list of attempts that the   *)
(* query library refetches on focus and after every mutation.  A request   *)
(* is asked, handled by the server and answered in separate steps.  The    *)
(* query for the assignment itself goes with the one for the attempts.     *)
(***************************************************************************)
CONSTANTS
    Questions,
    Answers,        \* non-empty answers
    None            \* no answer, nothing cached

VARIABLES
    server,         \* the student's attempt in Postgres
    phase,          \* what the page shows
    answers,        \* the answers on screen
    savedAnswers,   \* the answers the page believes saved
    mine,           \* the cached attempts (query submissions-me)
    failed,         \* the last fetch of the attempts failed
    fetch,          \* the query's request
    create,         \* the request that opens an attempt
    save,           \* the mutation behind the button Save
    submit          \* the mutation behind the button Submit

VARIABLES           \* history, read by no action
    calm,           \* no edit while a request was under way, no failure, no other device
    overlap,        \* a save and a submit were under way together
    handedIn        \* what was on screen when Submit was clicked, once handed in

requests == <<fetch, create, save, submit>>
screen   == <<phase, answers, savedAnswers>>
history  == <<calm, overlap, handedIn>>
pageVars == <<server, screen, mine, failed, requests, history>>

Sheet   == [Questions -> Answers \cup {None}]
Blank   == [q \in Questions |-> None]
Attempt == [status : {"none", "draft", "done"}, sheet : Sheet]
Idle    == [step |-> "idle", sheet |-> Blank]
Asked   == [step |-> "asked", sheet |-> Blank]
\* shown: what was on screen at the click (history).
NoSubmit == [step |-> "idle", sheet |-> Blank, shown |-> Blank]

\* What the theorems assume of the constants.
GoodConstants == None \notin Answers \cup Sheet \cup Attempt

TypeOK ==
    /\ server \in Attempt /\ mine \in Attempt \cup {None}
    /\ phase \in {"boot", "take", "results", "error"}
    /\ answers \in Sheet /\ savedAnswers \in Sheet /\ handedIn \in Sheet \cup {None}
    /\ fetch \in {Idle, Asked} \cup [step : {"answered"}, data : Attempt]
    /\ create \in [step : {"idle", "asked", "opened", "limit"}, sheet : Sheet]
    /\ save \in [step : {"idle", "asked", "answered"}, sheet : Sheet]
    /\ submit \in [step : {"idle", "patch", "handIn", "answered", "settling"},
                   sheet : Sheet, shown : Sheet]
    /\ failed \in BOOLEAN /\ calm \in BOOLEAN /\ overlap \in BOOLEAN

Init ==
    /\ \E s \in Sheet : server \in {[status |-> "none", sheet |-> Blank],
                                    [status |-> "draft", sheet |-> s]}
    /\ phase = "boot" /\ answers = Blank /\ savedAnswers = Blank
    /\ mine = None /\ failed = FALSE
    /\ fetch = Asked /\ create = Idle /\ save = Idle /\ submit = NoSubmit
    /\ calm = TRUE /\ overlap = FALSE /\ handedIn = None

(***************************************************************************)
(* The handlers of SubmissionsService, one step each (module Attempts      *)
(* takes them apart).                                                      *)
(***************************************************************************)
Merge(sheet, payload) ==
    [q \in Questions |-> IF payload[q] = None THEN sheet[q] ELSE payload[q]]

HandleFetch ==
    /\ fetch = Asked
    /\ fetch' = [step |-> "answered", data |-> server]
    /\ UNCHANGED <<server, screen, mine, failed, create, save, submit, history>>

HandleCreate ==
    /\ create.step = "asked"
    /\ create' = IF server.status = "done" THEN [Idle EXCEPT !.step = "limit"]
                 ELSE [step |-> "opened", sheet |-> server.sheet]
    /\ server' = IF server.status = "none" THEN [server EXCEPT !.status = "draft"]
                 ELSE server
    /\ UNCHANGED <<screen, mine, failed, fetch, save, submit, history>>

\* A draft takes the answers; anything else refuses them.
HandleSave ==
    /\ save.step = "asked"
    /\ server.status = "draft"
    /\ server' = [server EXCEPT !.sheet = Merge(@, save.sheet)]
    /\ save' = [step |-> "answered", sheet |-> server'.sheet]
    /\ UNCHANGED <<screen, mine, failed, fetch, create, submit, history>>

\* The mutation sends the answers first and hands in when they are saved.
HandleSubmit ==
    /\ submit.step \in {"patch", "handIn"}
    /\ server.status = "draft"
    /\ IF submit.step = "patch"
       THEN /\ server' = [server EXCEPT !.sheet = Merge(@, submit.sheet)]
            /\ submit' = [submit EXCEPT !.step = "handIn"]
            /\ UNCHANGED handedIn
       ELSE /\ server' = [server EXCEPT !.status = "done"]
            /\ submit' = [submit EXCEPT !.step = "answered"]
            /\ handedIn' = submit.shown
    /\ UNCHANGED <<screen, mine, failed, fetch, create, save, calm, overlap>>

\* Another device hands the attempt in.
HandInElsewhere ==
    /\ server.status = "draft"
    /\ server' = [server EXCEPT !.status = "done"]
    /\ calm' = FALSE
    /\ UNCHANGED <<screen, mine, failed, requests, overlap, handedIn>>

-----------------------------------------------------------------------------
(***************************************************************************)
(* The page.                                                               *)
(***************************************************************************)
\* The effect that runs when the cached attempts change, or their error
\* flag: results for ever once handed in, else the draft replaces what is
\* on screen, else an attempt is opened.  Its cleanup ignores the answer to
\* a request that opens an attempt; what that one would open, the next finds.
Effect(attempt) ==
    CASE attempt.status = "done" ->
            /\ phase' = "results"
            /\ create' = Idle
            /\ UNCHANGED <<answers, savedAnswers>>
      [] attempt.status = "draft" ->
            /\ phase' = "take"
            /\ answers' = attempt.sheet /\ savedAnswers' = attempt.sheet
            /\ create' = Idle
      [] OTHER ->
            /\ create' = Asked
            /\ UNCHANGED screen

FetchArrives ==
    /\ fetch.step = "answered"
    /\ fetch' = Idle
    /\ mine' = fetch.data /\ failed' = FALSE
    /\ IF submit.step = "settling"
       THEN /\ phase' = "results" /\ submit' = NoSubmit
            /\ UNCHANGED <<answers, savedAnswers, create>>
       ELSE /\ IF mine' = mine /\ ~failed THEN UNCHANGED <<screen, create>>
                                          ELSE Effect(fetch.data)
            /\ UNCHANGED submit
    /\ UNCHANGED <<server, save, history>>

\* The query gives up after its retries.
FetchFails ==
    /\ fetch = Asked
    /\ fetch' = Idle /\ failed' = TRUE /\ calm' = FALSE
    /\ IF submit.step = "settling" THEN phase' = "results" /\ submit' = NoSubmit
       ELSE /\ phase' = IF failed THEN phase ELSE "error"
            /\ UNCHANGED submit
    /\ create' = IF failed THEN create ELSE Idle
    /\ UNCHANGED <<server, answers, savedAnswers, mine, save, overlap, handedIn>>

\* Focus, or mounting again: the library refetches.
Refocus ==
    /\ fetch = Idle
    /\ fetch' = Asked
    /\ UNCHANGED <<server, screen, mine, failed, create, save, submit, history>>

CreateArrives ==
    /\ create.step \in {"opened", "limit"}
    /\ create' = Idle
    /\ fetch' = Asked
    /\ IF create.step = "opened"
       THEN /\ phase' = "take"
            /\ answers' = create.sheet /\ savedAnswers' = create.sheet
       ELSE /\ phase' = "results"
            /\ UNCHANGED <<answers, savedAnswers>>
    /\ UNCHANGED <<server, mine, failed, save, submit, history>>

CreateFails ==
    /\ create.step = "asked"
    /\ create' = Idle /\ phase' = "error" /\ calm' = FALSE
    /\ UNCHANGED <<server, answers, savedAnswers, mine, failed, fetch, save, submit, overlap, handedIn>>

\* What the page renders: an error, a spinner, the results, or the form.
Screen ==
    IF phase = "error" THEN "error"
    ELSE IF phase = "boot" \/ mine = None THEN "spinner"
    ELSE IF phase = "results" /\ mine.status # "none" THEN "results"
    ELSE "form"

\* The number of a question: without answer, saved (green) or not (orange).
SaveStatus(q) ==
    IF answers[q] = None THEN "empty"
    ELSE IF savedAnswers[q] = answers[q] THEN "saved" ELSE "draft"

Busy == fetch # Idle \/ create # Idle \/ save # Idle \/ submit # NoSubmit

Type(q, a) ==
    /\ Screen = "form"
    /\ answers[q] # a
    /\ answers' = [answers EXCEPT ![q] = a]
    /\ calm' = (calm /\ ~Busy)
    /\ UNCHANGED <<server, phase, savedAnswers, mine, failed, requests, overlap, handedIn>>

\* The two buttons are blocked by their own mutation only.
ClickSave ==
    /\ Screen = "form" /\ save = Idle
    /\ phase = "take" /\ mine.status # "done"
    /\ save' = [step |-> "asked", sheet |-> answers]
    /\ calm' = (calm /\ submit = NoSubmit)
    /\ overlap' = (overlap \/ submit # NoSubmit)
    /\ UNCHANGED <<server, screen, mine, failed, fetch, create, submit, handedIn>>

\* Mutant: the answers that were saved are handed in.
SubmitSaved ==
    /\ Screen = "form" /\ submit = NoSubmit
    /\ phase = "take" /\ mine.status # "done"
    /\ submit' = [step |-> "patch", sheet |-> savedAnswers, shown |-> answers]
    /\ calm' = (calm /\ save = Idle)
    /\ overlap' = (overlap \/ save # Idle)
    /\ UNCHANGED <<server, screen, mine, failed, fetch, create, save, handedIn>>

ClickSubmit ==
    /\ Screen = "form" /\ submit = NoSubmit
    /\ phase = "take" /\ mine.status # "done"
    /\ submit' = [step |-> "patch", sheet |-> answers, shown |-> answers]
    /\ calm' = (calm /\ save = Idle)
    /\ overlap' = (overlap \/ save # Idle)
    /\ UNCHANGED <<server, screen, mine, failed, fetch, create, save, handedIn>>

\* The saved answers are the server's, or those on screen when it has none.
SaveArrives ==
    /\ save.step = "answered"
    /\ save' = Idle
    /\ savedAnswers' = IF save.sheet = Blank THEN answers ELSE save.sheet
    /\ fetch' = Asked
    /\ UNCHANGED <<server, phase, answers, mine, failed, create, submit, history>>

SaveFails ==
    /\ save.step = "asked"
    /\ save' = Idle /\ calm' = FALSE
    /\ UNCHANGED <<server, screen, mine, failed, fetch, create, submit, overlap, handedIn>>

\* The attempts are refetched, and the results shown when that is over.
SubmitArrives ==
    /\ submit.step = "answered"
    /\ submit' = [submit EXCEPT !.step = "settling"]
    /\ fetch' = Asked
    /\ UNCHANGED <<server, screen, mine, failed, create, save, history>>

SubmitFails ==
    /\ submit.step \in {"patch", "handIn"}
    /\ submit' = NoSubmit /\ calm' = FALSE
    /\ UNCHANGED <<server, screen, mine, failed, fetch, create, save, overlap, handedIn>>

Page ==
    \/ FetchArrives \/ FetchFails \/ Refocus
    \/ CreateArrives \/ CreateFails
    \/ \E q \in Questions, a \in Answers : Type(q, a)
    \/ ClickSave \/ SaveArrives \/ SaveFails
    \/ ClickSubmit \/ SubmitArrives \/ SubmitFails

Server == HandleFetch \/ HandleCreate \/ HandleSave \/ HandleSubmit

Next == Page \/ Server \/ HandInElsewhere

Spec == Init /\ [][Next]_pageVars

-----------------------------------------------------------------------------
(***************************************************************************)
(* Properties.                                                             *)
(***************************************************************************)
\* The curator gets each answer that was on screen when the student clicked
\* Submit, unless a save was still under way.
HandedInAsShown ==
    handedIn # None /\ ~overlap => server.sheet = Merge(server.sheet, handedIn)

\* "Saved on the server", says the title of a green number.  On a quiet
\* page that is so; GreenIsSaved claims it without the condition.
GreenIsSaved == \A q \in Questions : SaveStatus(q) = "saved" => server.sheet[q] = answers[q]
GreenIsSavedWhenCalm == calm => GreenIsSaved

=============================================================================
