---------------------------- MODULE WebProofs -------------------------------
(***************************************************************************)
(* Theorems of module WebApp, for any number of questions, payments,       *)
(* assignments, threads, lessons, codes, calls and clicks: what the pages  *)
(* promise.  A section for each page proves that its invariant is          *)
(* inductive for the page's own specification; the last section puts them  *)
(* together.                                                               *)
(***************************************************************************)
EXTENDS WebApp, Integers, Sequences, FiniteSets, FiniteSetTheorems, TLAPS

-----------------------------------------------------------------------------
(***************************************************************************)
(* AttemptPage.  While no two requests overlap, Submit patches what is on  *)
(* screen and hands it in with nothing in between (HandsIn); while all is  *)
(* calm, whatever is cached, on its way or shown is the server's or is     *)
(* about to be (Calmly).                                                   *)
(***************************************************************************)
\* The server has the answers of a sheet.
Covered(sheet) == \A q \in Questions : sheet[q] # None => atServer.sheet[q] = sheet[q]

\* Without a save on its way, the answers sent with Submit stay till they are
\* handed in, and after.
HandsIn ==
    /\ atSubmit.sheet = atSubmit.shown
    /\ ~atOverlap => atSave = Attempt!Idle \/ atSubmit = Attempt!NoSubmit
    /\ ~atOverlap /\ atSubmit.step = "handIn" => Covered(atSubmit.shown)
    /\ atHandedIn # None => atServer.status = "done" /\ (~atOverlap => Covered(atHandedIn))

\* An attempt goes from none to draft to done, and the copies follow it.
AttemptFollows ==
    /\ atServer.status = "none" => atServer.sheet = Attempt!Blank /\ atPhase = "boot"
    /\ atMine # None => /\ atMine.status = "none" => atMine.sheet = Attempt!Blank
                        /\ atMine.status # "none" => atServer.status # "none"
                        /\ atMine.status = "done" => atMine = atServer /\ atPhase = "results"
    /\ atFetch.step = "answered" =>
          /\ atFetch.data.status = "none" => atFetch.data.sheet = Attempt!Blank
             /\ atMine \in {None, atFetch.data}
          /\ atFetch.data.status = "done" => atFetch.data = atServer

\* What the page asks for, when.
InOrder ==
    /\ atFailed = FALSE
    /\ atSave = Attempt!Idle \/ atSubmit = Attempt!NoSubmit
    /\ atMine = None => atPhase = "boot" /\ atCreate = Attempt!Idle
    /\ atPhase = "boot" => atSave = Attempt!Idle /\ atSubmit = Attempt!NoSubmit
    /\ atCreate # Attempt!Idle => /\ atPhase = "boot" /\ atMine # None /\ atMine.status = "none"
                                  /\ atCreate.step \in {"opened", "limit"}
                                     => atServer.status # "none"
    /\ atSubmit.step \in {"answered", "settling"} => atServer.status = "done"
    /\ atSubmit.step = "settling" =>
          atFetch = Attempt!Asked \/ (atFetch.step = "answered" /\ atFetch.data.status = "done")

\* A request has changed the attempt and its answer is still to come.
Unsettled == atSave.step = "answered" \/ atSubmit.step \in {"handIn", "answered"}

\* The cached attempt is the server's, or a request is under way.
UpToDate ==
    /\ atMine \in {None, atServer} \/ atFetch # Attempt!Idle \/ atCreate # Attempt!Idle
       \/ Unsettled
    /\ atFetch.step = "answered" =>
          \/ atFetch.data = atServer \/ Unsettled
          \/ atCreate.step = "opened" /\ atFetch.data.status = "none"

\* The answers on screen are the server's, or typed over its draft, which
\* is cached.
Steady ==
    /\ atMine = atServer /\ atServer.status = "draft" /\ atCreate = Attempt!Idle
    /\ atFetch.step = "answered" => atFetch.data = atServer
AnswersSound ==
    /\ Covered(atAnswers) \/ Steady
    /\ Unsettled \/ atServer.status = "done" => Covered(atAnswers)
    /\ \/ atSave.step = "asked" => atSave.sheet = atAnswers
       \/ Covered(atAnswers) /\ Covered(atSave.sheet)
    /\ \/ atSubmit.step = "patch" => atSubmit.sheet = atAnswers
       \/ Covered(atAnswers) /\ Covered(atSubmit.sheet)

\* What is on its way to the screen is the server's.
CopiesSound ==
    /\ Covered(atSavedAnswers) \/ Unsettled \/ atServer.status = "done"
    /\ atSave.step = "answered" => atSave.sheet = atServer.sheet
    /\ atCreate.step = "opened" => Covered(atCreate.sheet)
    /\ atFetch.step = "answered" => atFetch.data = atMine \/ Covered(atFetch.data.sheet)

Calmly == AttemptFollows /\ InOrder /\ UpToDate /\ AnswersSound /\ CopiesSound

AttemptInv == Attempt!TypeOK /\ HandsIn /\ (atCalm => Calmly)

LEMMA Merged ==
    ASSUME NEW s \in Attempt!Sheet, NEW p \in Attempt!Sheet
    PROVE  /\ Attempt!Merge(s, p) \in Attempt!Sheet
           /\ \A q \in Questions : Attempt!Merge(s, p)[q] = IF p[q] = None THEN s[q] ELSE p[q]
           /\ s = Attempt!Merge(s, p) <=> \A q \in Questions : p[q] # None => s[q] = p[q]
<1>1. \A q \in Questions : Attempt!Merge(s, p)[q] = IF p[q] = None THEN s[q] ELSE p[q]
  BY DEF Attempt!Merge
<1>2. Attempt!Merge(s, p) \in Attempt!Sheet
  BY DEF Attempt!Merge, Attempt!Sheet
<1>3. ASSUME \A q \in Questions : p[q] # None => s[q] = p[q] PROVE s = Attempt!Merge(s, p)
  <2>1. \A q \in Questions : s[q] = Attempt!Merge(s, p)[q]
    BY <1>1, <1>3
  <2> QED BY <1>2, <2>1 DEF Attempt!Sheet
<1> QED BY <1>1, <1>2, <1>3

LEMMA Blanks ==
    /\ Attempt!Blank \in Attempt!Sheet /\ Attempt!Idle.step = "idle"
       /\ Attempt!Asked.step = "asked" /\ Attempt!NoSubmit.step = "idle"
    /\ Attempt!Idle.sheet = Attempt!Blank /\ Attempt!NoSubmit.sheet = Attempt!Blank
       /\ Attempt!NoSubmit.shown = Attempt!Blank
    /\ \A q \in Questions : Attempt!Blank[q] = None
BY DEF Attempt!Blank, Attempt!Sheet, Attempt!Idle, Attempt!Asked, Attempt!NoSubmit

LEMMA SameAttempt ==
    ASSUME NEW a \in Attempt!Attempt, NEW b \in Attempt!Attempt, a.status = b.status,
           a.sheet = b.sheet
    PROVE  a = b
BY DEF Attempt!Attempt

LEMMA AttemptInit ==
    ASSUME Attempt!GoodConstants, Attempt!Init
    PROVE  AttemptInv
<1>1. PICK s \in Attempt!Sheet : atServer \in {[status |-> "none", sheet |-> Attempt!Blank],
                                              [status |-> "draft", sheet |-> s]}
  BY DEF Attempt!Init
<1>2. /\ atServer \in Attempt!Attempt /\ atServer.status \in {"none", "draft"}
      /\ atServer.status = "none" => atServer.sheet = Attempt!Blank
  BY <1>1, Blanks DEF Attempt!Attempt
<1>3. atCalm \in BOOLEAN /\ atOverlap \in BOOLEAN /\ atFailed \in BOOLEAN
  BY Zenon DEF Attempt!Init
<1>4. Attempt!Idle \in [step : {"idle", "asked", "opened", "limit"}, sheet : Attempt!Sheet]
      /\ Attempt!Idle \in [step : {"idle", "asked", "answered"}, sheet : Attempt!Sheet]
      /\ Attempt!NoSubmit \in [step : {"idle", "patch", "handIn", "answered", "settling"},
                               sheet : Attempt!Sheet, shown : Attempt!Sheet]
  BY Blanks DEF Attempt!Idle, Attempt!NoSubmit
<1>5. Attempt!TypeOK
  BY <1>2, <1>3, <1>4, Blanks DEF Attempt!Init, Attempt!TypeOK
<1>6. HandsIn
  BY Blanks DEF Attempt!Init, HandsIn
<1>7. AttemptFollows /\ InOrder /\ UpToDate
  BY <1>2, Blanks DEF Attempt!Init, AttemptFollows, InOrder, UpToDate, Unsettled
<1>8. AnswersSound /\ CopiesSound
  BY <1>2, Blanks DEF Attempt!Init, AnswersSound, CopiesSound, Covered, Unsettled
<1> QED BY <1>5, <1>6, <1>7, <1>8 DEF AttemptInv, Calmly

\* What moves nothing but the query's request.
LEMMA QueryStep ==
    ASSUME Attempt!GoodConstants, AttemptInv, Attempt!HandleFetch \/ Attempt!Refocus
           \/ UNCHANGED Attempt!pageVars
    PROVE  AttemptInv'
<1>1. /\ UNCHANGED <<atServer, atPhase, atAnswers, atSavedAnswers, atMine, atFailed, atCreate,
                     atSave, atSubmit,
                     atCalm, atOverlap, atHandedIn>>
      /\ \/ atFetch' = atFetch \/ atFetch' = Attempt!Asked
         \/ atFetch' = [step |-> "answered", data |-> atServer]
      /\ atFetch # Attempt!Idle => atFetch' # Attempt!Idle
  BY Blanks DEF Attempt!HandleFetch, Attempt!Refocus, Attempt!pageVars, Attempt!screen,
                Attempt!requests, Attempt!history, Attempt!Asked, Attempt!Idle
<1>2. atServer \in Attempt!Attempt
  BY DEF AttemptInv, Attempt!TypeOK
<1>3. Attempt!TypeOK'
  BY <1>1, <1>2 DEF AttemptInv, Attempt!TypeOK
<1>4. HandsIn'
  BY <1>1 DEF AttemptInv, HandsIn, Covered
<1>5. ASSUME atCalm PROVE Calmly'
  <2>1. Calmly
    BY <1>5 DEF AttemptInv
  <2>2. AttemptFollows'
    <3>1. atServer.status = "none" => atMine \in {None, atServer}
      BY <1>2, <2>1, SameAttempt DEF Calmly, AttemptFollows, AttemptInv, Attempt!TypeOK
    <3> QED BY <1>1, <2>1, <3>1, Blanks DEF Calmly, AttemptFollows
  <2>3. InOrder'
    <3>1. atSubmit.step = "settling" =>
             atFetch' = Attempt!Asked
             \/ (atFetch'.step = "answered" /\ atFetch'.data.status = "done")
      BY <1>1, <2>1 DEF Calmly, InOrder
    <3> QED BY <1>1, <2>1, <3>1 DEF Calmly, InOrder
  <2>4. UpToDate' /\ AnswersSound' /\ CopiesSound'
    BY <1>1, <2>1, Blanks
       DEF Calmly, UpToDate, AnswersSound, CopiesSound, Covered, Unsettled, Steady
  <2> QED BY <2>2, <2>3, <2>4 DEF Calmly
<1> QED BY <1>1, <1>3, <1>4, <1>5 DEF AttemptInv

\* A failure, or another device: the page is no longer calm.
LEMMA LoudStep ==
    ASSUME Attempt!GoodConstants, AttemptInv,
           Attempt!HandInElsewhere \/ Attempt!FetchFails \/ Attempt!CreateFails
           \/ Attempt!SaveFails \/ Attempt!SubmitFails
    PROVE  AttemptInv'
<1>1. atCalm' = FALSE /\ atOverlap' = atOverlap /\ atHandedIn' = atHandedIn
  BY DEF Attempt!HandInElsewhere, Attempt!FetchFails, Attempt!CreateFails, Attempt!SaveFails,
     Attempt!SubmitFails
<1>2. atCalm' \in BOOLEAN /\ ~atCalm'
  BY <1>1, Zenon
<1>3. /\ atServer' \in Attempt!Attempt /\ atServer'.sheet = atServer.sheet
      /\ atServer.status = "done" => atServer'.status = "done"
  <2>1. atServer \in Attempt!Attempt
    BY DEF AttemptInv, Attempt!TypeOK
  <2>2. CASE Attempt!HandInElsewhere
    BY <2>1, <2>2 DEF Attempt!HandInElsewhere, Attempt!Attempt
  <2>3. CASE ~Attempt!HandInElsewhere
    BY <2>1, <2>3
       DEF Attempt!FetchFails, Attempt!CreateFails, Attempt!SaveFails, Attempt!SubmitFails
  <2> QED BY <2>2, <2>3
<1>4. /\ UNCHANGED <<atAnswers, atSavedAnswers, atMine>> /\ atFetch' \in {atFetch, Attempt!Idle}
      /\ atSave' \in {atSave, Attempt!Idle} /\ atCreate' \in {atCreate, Attempt!Idle}
         /\ atSubmit' \in {atSubmit, Attempt!NoSubmit}
      /\ atPhase' \in {atPhase, "results", "error"}
  BY DEF Attempt!HandInElsewhere, Attempt!FetchFails, Attempt!CreateFails, Attempt!SaveFails,
     Attempt!SubmitFails, Attempt!screen, Attempt!requests
<1>5. atFailed' \in BOOLEAN
  <2>1. CASE Attempt!FetchFails
    <3>1. atFailed' = TRUE
      BY <2>1 DEF Attempt!FetchFails
    <3> QED BY <3>1, Zenon
  <2>2. CASE ~Attempt!FetchFails
    BY <2>2 DEF Attempt!HandInElsewhere, Attempt!CreateFails, Attempt!SaveFails,
                Attempt!SubmitFails, AttemptInv, Attempt!TypeOK
  <2> QED BY <2>1, <2>2
<1>6. Attempt!TypeOK'
  <2>1. /\ Attempt!Idle \in [step : {"idle", "asked", "opened", "limit"}, sheet : Attempt!Sheet]
        /\ Attempt!Idle \in [step : {"idle", "asked", "answered"}, sheet : Attempt!Sheet]
        /\ Attempt!NoSubmit \in [step : {"idle", "patch", "handIn", "answered", "settling"},
                                 sheet : Attempt!Sheet, shown : Attempt!Sheet]
    BY Blanks DEF Attempt!Idle, Attempt!NoSubmit
  <2> QED BY <1>1, <1>2, <1>3, <1>4, <1>5, <2>1 DEF AttemptInv, Attempt!TypeOK
<1>7. HandsIn'
  BY <1>1, <1>3, <1>4, Blanks DEF AttemptInv, HandsIn, Covered
<1> QED BY <1>2, <1>6, <1>7 DEF AttemptInv

LEMMA AttemptOpenStep ==
    ASSUME Attempt!GoodConstants, AttemptInv, Attempt!HandleCreate
    PROVE  AttemptInv'
<1>1. /\ UNCHANGED <<atPhase, atAnswers, atSavedAnswers, atMine, atFailed, atFetch, atSave,
                     atSubmit, atCalm,
                     atOverlap, atHandedIn>>
      /\ atCreate.step = "asked"
      /\ atCreate' = IF atServer.status = "done" THEN [Attempt!Idle EXCEPT !.step = "limit"]
                     ELSE [step |-> "opened", sheet |-> atServer.sheet]
      /\ atServer' = IF atServer.status = "none" THEN [atServer EXCEPT !.status = "draft"]
         ELSE atServer
  BY DEF Attempt!HandleCreate, Attempt!screen, Attempt!history
<1>2. atServer \in Attempt!Attempt /\ atServer.sheet \in Attempt!Sheet
  BY DEF AttemptInv, Attempt!TypeOK, Attempt!Attempt
<1>3. /\ atServer' \in Attempt!Attempt /\ atServer'.sheet = atServer.sheet
         /\ atServer'.status # "none"
      /\ atServer.status # "none" => atServer' = atServer
      /\ atServer.status = "none" => atServer'.status = "draft"
  BY <1>1, <1>2 DEF Attempt!Attempt
<1>4. /\ atCreate' \in [step : {"idle", "asked", "opened", "limit"}, sheet : Attempt!Sheet]
      /\ atCreate'.step \in {"opened", "limit"}
      /\ atCreate'.step = "opened" => atCreate'.sheet = atServer.sheet
      /\ atCreate'.step = "limit" => atServer.status = "done"
  BY <1>1, <1>2, Blanks DEF Attempt!Idle
<1>5. atCreate # Attempt!Idle /\ atCreate' # Attempt!Idle
  BY <1>1, <1>4, Blanks
<1>6. Attempt!TypeOK'
  BY <1>1, <1>3, <1>4 DEF AttemptInv, Attempt!TypeOK
<1>7. HandsIn'
  BY <1>1, <1>3 DEF AttemptInv, HandsIn, Covered
<1>8. ASSUME atCalm PROVE Calmly'
  <2>1. Calmly /\ atPhase = "boot" /\ atMine # None /\ atMine.status = "none"
        /\ atSave = Attempt!Idle
        /\ atSubmit = Attempt!NoSubmit
    BY <1>5, <1>8 DEF AttemptInv, Calmly, InOrder
  <2>2. AttemptFollows'
    BY <1>1, <1>3, <2>1 DEF Calmly, AttemptFollows
  <2>3. InOrder'
    BY <1>1, <1>3, <1>4, <2>1 DEF Calmly, InOrder
  <2>4. UpToDate'
    <3>1. atFetch.step = "answered" => atFetch.data = atServer \/ Unsettled
      BY <1>1, <2>1 DEF Calmly, UpToDate
    <3>2. atServer.status = "none" => atCreate'.step = "opened"
      BY <1>4
    <3> QED BY <1>1, <1>3, <1>5, <3>1, <3>2 DEF UpToDate, Unsettled
  <2>5. Covered(atAnswers)
    BY <1>5, <2>1 DEF Calmly, AnswersSound, Steady
  <2>6. AnswersSound'
    BY <1>1, <1>3, <2>1, <2>5, Blanks DEF AnswersSound, Covered, Unsettled
  <2>7. CopiesSound'
    BY <1>1, <1>3, <1>4, <2>1, Blanks DEF Calmly, CopiesSound, Covered, Unsettled
  <2> QED BY <2>2, <2>3, <2>4, <2>6, <2>7 DEF Calmly
<1> QED BY <1>1, <1>6, <1>7, <1>8 DEF AttemptInv

\* The server takes the answers that a request sends.
LEMMA Takes ==
    ASSUME Attempt!GoodConstants, AttemptInv, NEW p \in Attempt!Sheet,
           atServer.status = "draft",
           atServer' = [atServer EXCEPT !.sheet = Attempt!Merge(@, p)]
    PROVE  /\ atServer' \in Attempt!Attempt /\ atServer'.status = "draft"
              /\ atServer'.sheet \in Attempt!Sheet
           /\ \A q \in Questions : p[q] # None => atServer'.sheet[q] = p[q]
           /\ Covered(p) => atServer' = atServer
<1>1. atServer \in Attempt!Attempt /\ atServer.sheet \in Attempt!Sheet
  BY DEF AttemptInv, Attempt!TypeOK, Attempt!Attempt
<1>2. atServer' \in Attempt!Attempt /\ atServer'.status = "draft"
      /\ atServer'.sheet = Attempt!Merge(atServer.sheet, p)
  BY <1>1, Merged DEF Attempt!Attempt
<1>3. Covered(p) => atServer'.sheet = atServer.sheet
  BY <1>1, <1>2, Merged DEF Covered
<1>4. Covered(p) => atServer' = atServer
  BY <1>1, <1>2, <1>3, SameAttempt
<1>5. /\ Attempt!Merge(atServer.sheet, p) \in Attempt!Sheet
      /\ \A q \in Questions : p[q] # None => Attempt!Merge(atServer.sheet, p)[q] = p[q]
  BY <1>1, Merged
<1> QED BY <1>2, <1>4, <1>5

\* What is known when the answers on screen, or those that are there, are sent.
LEMMA TakesCalmly ==
    ASSUME Attempt!GoodConstants, AttemptInv, atCalm, NEW p \in Attempt!Sheet,
           atServer.status = "draft",
           atServer' = [atServer EXCEPT !.sheet = Attempt!Merge(@, p)],
           p = atAnswers \/ (Covered(atAnswers) /\ Covered(p)),
           UNCHANGED <<atAnswers, atSavedAnswers, atMine, atFetch, atCreate, atPhase,
                       atFailed>>, atPhase # "boot"
    PROVE  /\ Covered(atAnswers)' /\ AttemptFollows'
           /\ atFetch.step = "answered" => atFetch.data = atMine \/ Covered(atFetch.data.sheet)'
<1>1. Calmly /\ atCreate = Attempt!Idle
  BY DEF AttemptInv, Calmly, InOrder
<1>2. /\ atServer' \in Attempt!Attempt /\ atServer'.status = "draft"
      /\ \A q \in Questions : p[q] # None => atServer'.sheet[q] = p[q]
      /\ Covered(p) => atServer' = atServer
  BY Takes
<1>3. Covered(atAnswers)'
  BY <1>2 DEF Covered
<1>4. CASE atServer' = atServer
  BY <1>1, <1>3, <1>4 DEF Calmly, AttemptFollows, CopiesSound, Covered
<1>5. CASE ~Covered(p)
  <2>1. ~Covered(atAnswers)
    BY <1>5
  <2>2. Steady
    BY <1>1, <2>1 DEF Calmly, AnswersSound
  <2>3. atMine = atServer /\ (atFetch.step = "answered" => atFetch.data = atMine)
    BY <2>2 DEF Steady
  <2>4. AttemptFollows'
    BY <1>1, <1>2, <2>3 DEF Calmly, AttemptFollows
  <2> QED BY <1>3, <2>3, <2>4
<1> QED BY <1>2, <1>4, <1>5

LEMMA SaveStep ==
    ASSUME Attempt!GoodConstants, AttemptInv, Attempt!HandleSave
    PROVE  AttemptInv'
<1>1. /\ UNCHANGED <<atPhase, atAnswers, atSavedAnswers, atMine, atFailed, atFetch, atCreate,
                     atSubmit, atCalm,
                     atOverlap, atHandedIn>>
      /\ atSave.step = "asked" /\ atServer.status = "draft"
      /\ atServer' = [atServer EXCEPT !.sheet = Attempt!Merge(@, atSave.sheet)]
      /\ atSave' = [step |-> "answered", sheet |-> atServer'.sheet]
  BY DEF Attempt!HandleSave, Attempt!screen, Attempt!history
<1>2. atSave.sheet \in Attempt!Sheet /\ atSave # Attempt!Idle
  BY <1>1, Blanks DEF AttemptInv, Attempt!TypeOK
<1>3. atServer' \in Attempt!Attempt /\ atServer'.status = "draft"
      /\ atServer'.sheet \in Attempt!Sheet
  BY <1>1, <1>2, Takes
<1>4. Attempt!TypeOK'
  BY <1>1, <1>3 DEF AttemptInv, Attempt!TypeOK
<1>5. HandsIn'
  BY <1>1, <1>2, Blanks DEF AttemptInv, HandsIn
<1>6. ASSUME atCalm PROVE Calmly'
  <2>1. Calmly /\ atSubmit = Attempt!NoSubmit /\ atPhase # "boot" /\ atCreate = Attempt!Idle
    BY <1>2, <1>6 DEF AttemptInv, Calmly, InOrder
  <2>2. atSave.sheet = atAnswers \/ (Covered(atAnswers) /\ Covered(atSave.sheet))
    BY <1>1, <2>1 DEF Calmly, AnswersSound
  <2>3. /\ Covered(atAnswers)' /\ AttemptFollows'
        /\ atFetch.step = "answered" => atFetch.data = atMine \/ Covered(atFetch.data.sheet)'
    BY <1>1, <1>2, <1>6, <2>1, <2>2, TakesCalmly
  <2>4. InOrder'
    BY <1>1, <2>1, Blanks DEF Calmly, InOrder
  <2>5. UpToDate'
    BY <1>1 DEF UpToDate, Unsettled
  <2>6. AnswersSound'
    BY <1>1, <2>1, <2>3, Blanks DEF AnswersSound
  <2>7. CopiesSound'
    BY <1>1, <2>1, <2>3, Blanks DEF CopiesSound, Unsettled
  <2> QED BY <2>3, <2>4, <2>5, <2>6, <2>7 DEF Calmly
<1> QED BY <1>1, <1>4, <1>5, <1>6 DEF AttemptInv

LEMMA PatchStep ==
    ASSUME Attempt!GoodConstants, AttemptInv, Attempt!HandleSubmit, atSubmit.step = "patch"
    PROVE  AttemptInv'
<1>1. /\ UNCHANGED <<atPhase, atAnswers, atSavedAnswers, atMine, atFailed, atFetch, atCreate,
                     atSave, atCalm,
                     atOverlap, atHandedIn>>
      /\ atServer.status = "draft"
      /\ atServer' = [atServer EXCEPT !.sheet = Attempt!Merge(@, atSubmit.sheet)]
      /\ atSubmit' = [atSubmit EXCEPT !.step = "handIn"]
  BY DEF Attempt!HandleSubmit, Attempt!screen
<1>2. /\ atSubmit.sheet \in Attempt!Sheet /\ atSubmit # Attempt!NoSubmit
      /\ atSubmit' \in [step : {"idle", "patch", "handIn", "answered", "settling"},
                         sheet : Attempt!Sheet, shown : Attempt!Sheet]
      /\ atSubmit'.step = "handIn" /\ atSubmit'.sheet = atSubmit.sheet
         /\ atSubmit'.shown = atSubmit.shown
  BY <1>1, Blanks DEF AttemptInv, Attempt!TypeOK
<1>3. /\ atServer' \in Attempt!Attempt /\ atServer'.status = "draft"
         /\ atServer'.sheet \in Attempt!Sheet
      /\ \A q \in Questions : atSubmit.sheet[q] # None => atServer'.sheet[q] = atSubmit.sheet[q]
  BY <1>1, <1>2, Takes
<1>4. Attempt!TypeOK'
  BY <1>1, <1>2, <1>3 DEF AttemptInv, Attempt!TypeOK
<1>5. HandsIn'
  BY <1>1, <1>2, <1>3, Blanks DEF AttemptInv, HandsIn, Covered
<1>6. ASSUME atCalm PROVE Calmly'
  <2>1. Calmly /\ atSave = Attempt!Idle /\ atPhase # "boot" /\ atCreate = Attempt!Idle
    BY <1>2, <1>6 DEF AttemptInv, Calmly, InOrder
  <2>2. atSubmit.sheet = atAnswers \/ (Covered(atAnswers) /\ Covered(atSubmit.sheet))
    BY <2>1 DEF Calmly, AnswersSound
  <2>3. /\ Covered(atAnswers)' /\ AttemptFollows'
        /\ atFetch.step = "answered" => atFetch.data = atMine \/ Covered(atFetch.data.sheet)'
    BY <1>1, <1>2, <1>6, <2>1, <2>2, TakesCalmly
  <2>4. InOrder'
    BY <1>1, <1>2, <2>1, Blanks DEF Calmly, InOrder
  <2>5. UpToDate'
    BY <1>2 DEF UpToDate, Unsettled
  <2>6. AnswersSound'
    BY <1>1, <1>2, <2>1, <2>3, Blanks DEF AnswersSound
  <2>7. CopiesSound'
    BY <1>1, <1>2, <2>1, <2>3, Blanks DEF CopiesSound, Unsettled
  <2> QED BY <2>3, <2>4, <2>5, <2>6, <2>7 DEF Calmly
<1> QED BY <1>1, <1>4, <1>5, <1>6 DEF AttemptInv

LEMMA HandInStep ==
    ASSUME Attempt!GoodConstants, AttemptInv, Attempt!HandleSubmit, atSubmit.step = "handIn"
    PROVE  AttemptInv'
<1>1. /\ UNCHANGED <<atPhase, atAnswers, atSavedAnswers, atMine, atFailed, atFetch, atCreate,
                     atSave, atCalm,
                     atOverlap>>
      /\ atServer.status = "draft" /\ atServer' = [atServer EXCEPT !.status = "done"]
      /\ atSubmit' = [atSubmit EXCEPT !.step = "answered"] /\ atHandedIn' = atSubmit.shown
  BY DEF Attempt!HandleSubmit, Attempt!screen
<1>2. /\ atSubmit # Attempt!NoSubmit /\ atSubmit.shown \in Attempt!Sheet
      /\ atSubmit' \in [step : {"idle", "patch", "handIn", "answered", "settling"},
                         sheet : Attempt!Sheet, shown : Attempt!Sheet]
      /\ atSubmit'.step = "answered" /\ atSubmit'.sheet = atSubmit.sheet
         /\ atSubmit'.shown = atSubmit.shown
  BY <1>1, Blanks DEF AttemptInv, Attempt!TypeOK
<1>3. atServer' \in Attempt!Attempt /\ atServer'.status = "done"
      /\ atServer'.sheet = atServer.sheet
  BY <1>1 DEF AttemptInv, Attempt!TypeOK, Attempt!Attempt
<1>4. Attempt!TypeOK'
  BY <1>1, <1>2, <1>3 DEF AttemptInv, Attempt!TypeOK
<1>5. HandsIn'
  BY <1>1, <1>2, <1>3 DEF AttemptInv, HandsIn, Covered
<1>6. ASSUME atCalm PROVE Calmly'
  <2>1. Calmly /\ atSave = Attempt!Idle /\ atPhase # "boot" /\ atCreate = Attempt!Idle
        /\ Covered(atAnswers)
    BY <1>2, <1>6 DEF AttemptInv, Calmly, InOrder, AnswersSound, Unsettled
  <2>2. AttemptFollows'
    BY <1>1, <1>3, <2>1 DEF Calmly, AttemptFollows
  <2>3. InOrder'
    BY <1>1, <1>2, <1>3, <2>1 DEF Calmly, InOrder
  <2>4. UpToDate'
    BY <1>2 DEF UpToDate, Unsettled
  <2>5. AnswersSound'
    BY <1>1, <1>2, <1>3, <2>1, Blanks DEF AnswersSound, Covered
  <2>6. CopiesSound'
    BY <1>1, <1>3, <2>1, Blanks DEF Calmly, CopiesSound, Covered
  <2> QED BY <2>2, <2>3, <2>4, <2>5, <2>6 DEF Calmly
<1> QED BY <1>1, <1>4, <1>5, <1>6 DEF AttemptInv

\* The attempts come in.
LEMMA SettledStep ==
    ASSUME Attempt!GoodConstants, AttemptInv, Attempt!FetchArrives, atSubmit.step = "settling"
    PROVE  AttemptInv'
<1>1. /\ UNCHANGED <<atServer, atAnswers, atSavedAnswers, atCreate, atSave, atCalm, atOverlap,
                     atHandedIn>>
      /\ atFetch.step = "answered" /\ atFetch' = Attempt!Idle /\ atMine' = atFetch.data
         /\ atFailed' = FALSE
      /\ atPhase' = "results" /\ atSubmit' = Attempt!NoSubmit
  BY DEF Attempt!FetchArrives, Attempt!history
<1>2. atMine' \in Attempt!Attempt /\ atSubmit # Attempt!NoSubmit /\ atFailed' \in BOOLEAN
  <2>1. atFailed' \in BOOLEAN
    BY <1>1, Zenon
  <2> QED BY <1>1, <2>1, Blanks DEF AttemptInv, Attempt!TypeOK, Attempt!Asked
<1>3. Attempt!NoSubmit \in [step : {"idle", "patch", "handIn", "answered", "settling"},
                            sheet : Attempt!Sheet, shown : Attempt!Sheet]
  BY Blanks DEF Attempt!NoSubmit
<1>4. Attempt!TypeOK'
  BY <1>1, <1>2, <1>3 DEF AttemptInv, Attempt!TypeOK
<1>5. HandsIn'
  BY <1>1, Blanks DEF AttemptInv, HandsIn, Covered
<1>6. ASSUME atCalm PROVE Calmly'
  <2>1. /\ Calmly /\ atSave = Attempt!Idle /\ atPhase # "boot" /\ atCreate = Attempt!Idle
           /\ atServer.status = "done"
        /\ atFetch.data = atServer /\ atServer # None /\ atMine' # None
    BY <1>1, <1>2, <1>6, Blanks
       DEF AttemptInv, Calmly, InOrder, AttemptFollows, Attempt!TypeOK, Attempt!GoodConstants
  <2>2. AttemptFollows'
    BY <1>1, <2>1, Blanks DEF AttemptFollows
  <2>3. InOrder'
    BY <1>1, <2>1, Blanks DEF InOrder
  <2>4. UpToDate'
    BY <1>1, <2>1, Blanks DEF UpToDate
  <2>5. AnswersSound' /\ CopiesSound'
    BY <1>1, <2>1, Blanks DEF Calmly, AnswersSound, CopiesSound, Covered
  <2> QED BY <2>2, <2>3, <2>4, <2>5 DEF Calmly
<1> QED BY <1>1, <1>4, <1>5, <1>6 DEF AttemptInv

LEMMA AttemptArrivesStep ==
    ASSUME Attempt!GoodConstants, AttemptInv, Attempt!FetchArrives, atSubmit.step # "settling"
    PROVE  AttemptInv'
<1> DEFINE d == atFetch.data
           same == d = atMine /\ ~atFailed
<1>1. /\ UNCHANGED <<atServer, atSave, atSubmit, atCalm, atOverlap, atHandedIn>>
      /\ atFetch.step = "answered" /\ atFetch' = Attempt!Idle /\ atMine' = d
         /\ atFailed' = FALSE
      /\ IF same THEN UNCHANGED <<atPhase, atAnswers, atSavedAnswers, atCreate>>
         ELSE Attempt!Effect(d)
  BY DEF Attempt!FetchArrives, Attempt!history, Attempt!screen
<1>2. d \in Attempt!Attempt /\ d.status \in {"none", "draft", "done"}
      /\ d.sheet \in Attempt!Sheet /\ d # None
  BY <1>1, Blanks
     DEF AttemptInv, Attempt!TypeOK, Attempt!Asked, Attempt!Attempt, Attempt!GoodConstants
<1>3. atFailed' \in BOOLEAN
  BY <1>1, Zenon
<1>4. /\ Attempt!Idle \in [step : {"idle", "asked", "opened", "limit"}, sheet : Attempt!Sheet]
      /\ Attempt!Asked \in [step : {"idle", "asked", "opened", "limit"}, sheet : Attempt!Sheet]
  BY Blanks DEF Attempt!Idle, Attempt!Asked
<1>5. CASE same \/ d.status = "none"
  <2>1. UNCHANGED <<atPhase, atAnswers, atSavedAnswers>>
        /\ atCreate' \in {atCreate, Attempt!Asked}
        /\ (~same => atCreate' = Attempt!Asked)
    BY <1>1, <1>2, <1>5 DEF Attempt!Effect, Attempt!screen
  <2>2. Attempt!TypeOK'
    BY <1>1, <1>2, <1>3, <1>4, <2>1 DEF AttemptInv, Attempt!TypeOK
  <2>3. HandsIn'
    BY <1>1 DEF AttemptInv, HandsIn, Covered
  <2>4. ASSUME atCalm PROVE Calmly'
    <3>1. Calmly /\ atFailed = FALSE
      BY <2>4 DEF AttemptInv, Calmly, InOrder
    <3>2. ~same => atMine = None /\ atPhase = "boot" /\ atSave = Attempt!Idle
          /\ atSubmit = Attempt!NoSubmit
                   /\ d.status = "none" /\ d.sheet = Attempt!Blank /\ atCreate' = Attempt!Asked
      BY <1>1, <1>5, <2>1, <3>1 DEF Calmly, AttemptFollows, InOrder
    <3> HIDE DEF same
    <3>3. same => atMine' = atMine /\ atCreate' \in {atCreate, Attempt!Asked} /\ d = atMine
      BY <1>1, <2>1 DEF same
    <3>4. same => atCreate' = atCreate
      BY <1>1 DEF same
    <3>5. AttemptFollows'
      BY <1>1, <1>2, <2>1, <3>1, <3>2, <3>3, Blanks DEF Calmly, AttemptFollows
    <3>6. InOrder'
      BY <1>1, <1>2, <2>1, <3>1, <3>2, <3>3, <3>4, Blanks DEF Calmly, InOrder
    <3>7. UpToDate'
      BY <1>1, <1>2, <2>1, <3>1, <3>2, <3>3, <3>4, Blanks DEF Calmly, UpToDate, Unsettled
    <3>8. AnswersSound'
      BY <1>1, <1>2, <2>1, <3>1, <3>2, <3>3, <3>4, Blanks DEF Calmly, AnswersSound, Covered,
                                                             Unsettled, Steady
    <3>9. CopiesSound'
      BY <1>1, <2>1, <3>1, <3>2, <3>4, Blanks DEF Calmly, CopiesSound, Covered, Unsettled
    <3> QED BY <3>5, <3>6, <3>7, <3>8, <3>9 DEF Calmly
  <2> QED BY <1>1, <2>2, <2>3, <2>4 DEF AttemptInv
<1>6. CASE ~same /\ d.status = "draft"
  <2>1. atPhase' = "take" /\ atAnswers' = d.sheet /\ atSavedAnswers' = d.sheet
        /\ atCreate' = Attempt!Idle
    BY <1>1, <1>6 DEF Attempt!Effect
  <2>2. Attempt!TypeOK'
    BY <1>1, <1>2, <1>3, <1>4, <2>1 DEF AttemptInv, Attempt!TypeOK
  <2>3. HandsIn'
    BY <1>1 DEF AttemptInv, HandsIn, Covered
  <2>4. ASSUME atCalm PROVE Calmly'
    <3>1. Calmly /\ d # atMine
      BY <1>6, <2>4 DEF AttemptInv, Calmly, InOrder
    <3>2. Covered(d.sheet)
      BY <1>1, <3>1 DEF Calmly, CopiesSound
    <3>3. ~Steady /\ Covered(atAnswers)
      BY <1>1, <3>1 DEF Steady, Calmly, AnswersSound
    <3>4. d = atServer \/ Unsettled
      BY <1>1, <1>6, <3>1 DEF Calmly, UpToDate
    <3>5. atServer.status # "none"
      <4>1. CASE d = atServer
        BY <1>6, <4>1
      <4>2. CASE Unsettled
        <5>1. atPhase # "boot"
          BY <3>1, <4>2, Blanks DEF Calmly, InOrder, Unsettled
        <5> QED BY <3>1, <5>1 DEF Calmly, AttemptFollows
      <4> QED BY <3>4, <4>1, <4>2
    <3>6. AttemptFollows'
      BY <1>1, <1>6, <2>1, <3>5, Blanks DEF AttemptFollows
    <3>7. InOrder'
      BY <1>1, <1>2, <2>1, <3>1, Blanks DEF Calmly, InOrder
    <3>8. UpToDate'
      BY <1>1, <2>1, <3>4, Blanks DEF UpToDate, Unsettled
    <3>9. Covered(atAnswers)' /\ Covered(atSavedAnswers)'
      BY <1>1, <2>1, <3>2 DEF Covered
    <3>10. AnswersSound'
      <4>1. /\ atSave.step = "asked" => Covered(atSave.sheet)
            /\ atSubmit.step = "patch" => Covered(atSubmit.sheet)
        BY <3>1, <3>3 DEF Calmly, AnswersSound
      <4> QED BY <1>1, <3>9, <4>1 DEF AnswersSound, Covered
    <3>11. CopiesSound'
      BY <1>1, <2>1, <3>1, <3>9, Blanks DEF Calmly, CopiesSound
    <3> QED BY <3>6, <3>7, <3>8, <3>10, <3>11 DEF Calmly
  <2> QED BY <1>1, <2>2, <2>3, <2>4 DEF AttemptInv
<1>7. CASE ~same /\ d.status = "done"
  <2>1. atPhase' = "results" /\ UNCHANGED <<atAnswers, atSavedAnswers>>
        /\ atCreate' = Attempt!Idle
    BY <1>1, <1>7 DEF Attempt!Effect
  <2>2. Attempt!TypeOK'
    BY <1>1, <1>2, <1>3, <1>4, <2>1 DEF AttemptInv, Attempt!TypeOK
  <2>3. HandsIn'
    BY <1>1 DEF AttemptInv, HandsIn, Covered
  <2>4. ASSUME atCalm PROVE Calmly'
    <3>1. Calmly /\ d = atServer
      BY <1>1, <1>7, <2>4 DEF AttemptInv, Calmly, AttemptFollows
    <3>2. AttemptFollows' /\ InOrder' /\ UpToDate'
      BY <1>1, <1>2, <1>7, <2>1, <3>1, Blanks DEF Calmly, AttemptFollows, InOrder, UpToDate
    <3>3. AnswersSound' /\ CopiesSound'
      BY <1>1, <1>7, <2>1, <3>1, Blanks
         DEF Calmly, AnswersSound, CopiesSound, Covered, Unsettled
    <3> QED BY <3>1, <3>2, <3>3 DEF Calmly
  <2> QED BY <1>1, <2>2, <2>3, <2>4 DEF AttemptInv
<1> QED BY <1>2, <1>5, <1>6, <1>7

\* The attempt that was opened comes in.
LEMMA AttemptOpenedStep ==
    ASSUME Attempt!GoodConstants, AttemptInv, Attempt!CreateArrives
    PROVE  AttemptInv'
<1>1. /\ UNCHANGED <<atServer, atMine, atFailed, atSave, atSubmit, atCalm, atOverlap,
                     atHandedIn>>
      /\ atCreate.step \in {"opened", "limit"} /\ atCreate' = Attempt!Idle
         /\ atFetch' = Attempt!Asked
      /\ \/ /\ atCreate.step = "opened" /\ atPhase' = "take"
            /\ atAnswers' = atCreate.sheet /\ atSavedAnswers' = atCreate.sheet
         \/ atPhase' = "results" /\ UNCHANGED <<atAnswers, atSavedAnswers>>
  BY DEF Attempt!CreateArrives, Attempt!history
<1>2. atCreate # Attempt!Idle /\ atCreate.sheet \in Attempt!Sheet
  BY <1>1, Blanks DEF AttemptInv, Attempt!TypeOK
<1>3. Attempt!Idle \in [step : {"idle", "asked", "opened", "limit"}, sheet : Attempt!Sheet]
  BY Blanks DEF Attempt!Idle
<1>4. atPhase' \in {"take", "results"} /\ atAnswers' \in Attempt!Sheet
      /\ atSavedAnswers' \in Attempt!Sheet
  BY <1>1, <1>2 DEF AttemptInv, Attempt!TypeOK
<1>5. Attempt!TypeOK'
  BY <1>1, <1>3, <1>4 DEF AttemptInv, Attempt!TypeOK
<1>6. HandsIn'
  BY <1>1 DEF AttemptInv, HandsIn, Covered
<1>7. ASSUME atCalm PROVE Calmly'
  <2>1. /\ Calmly /\ atSave = Attempt!Idle /\ atSubmit = Attempt!NoSubmit /\ atMine # None
           /\ atMine.status = "none"
        /\ atServer.status # "none" /\ ~Steady /\ Covered(atAnswers)
    BY <1>1, <1>2, <1>7 DEF AttemptInv, Calmly, InOrder, AnswersSound, Steady
  <2>2. AttemptFollows' /\ InOrder' /\ UpToDate'
    BY <1>1, <1>4, <2>1, Blanks DEF Calmly, AttemptFollows, InOrder, UpToDate
  <2>3. Covered(atAnswers)' /\ (Covered(atSavedAnswers)' \/ atSavedAnswers' = atSavedAnswers)
    BY <1>1, <2>1 DEF Calmly, CopiesSound, Covered
  <2>4. AnswersSound'
    BY <1>1, <2>1, <2>3, Blanks DEF AnswersSound
  <2>5. CopiesSound'
    BY <1>1, <2>1, <2>3, Blanks DEF Calmly, CopiesSound, Covered, Unsettled
  <2> QED BY <2>2, <2>4, <2>5 DEF Calmly
<1> QED BY <1>1, <1>5, <1>6, <1>7 DEF AttemptInv

LEMMA AttemptTypeStep ==
    ASSUME Attempt!GoodConstants, AttemptInv, NEW q \in Questions, NEW a \in Answers,
           Attempt!Type(q, a)
    PROVE  AttemptInv'
<1>1. /\ UNCHANGED <<atServer, atPhase, atSavedAnswers, atMine, atFailed, atFetch, atCreate,
                     atSave, atSubmit,
                     atOverlap, atHandedIn>>
      /\ Attempt!Screen = "form" /\ atAnswers' = [atAnswers EXCEPT ![q] = a]
      /\ atCalm' = (atCalm /\ ~Attempt!Busy)
  BY DEF Attempt!Type, Attempt!requests
<1>2. atCalm' \in BOOLEAN /\ (atCalm' => atCalm /\ ~Attempt!Busy)
  BY <1>1, Zenon
<1>3. atAnswers' \in Attempt!Sheet
  BY <1>1 DEF AttemptInv, Attempt!TypeOK, Attempt!Sheet
<1>4. Attempt!TypeOK'
  BY <1>1, <1>2, <1>3 DEF AttemptInv, Attempt!TypeOK
<1>5. HandsIn'
  BY <1>1 DEF AttemptInv, HandsIn, Covered
<1>6. ASSUME atCalm' PROVE Calmly'
  <2>1. /\ Calmly /\ atFetch = Attempt!Idle /\ atCreate = Attempt!Idle /\ atSave = Attempt!Idle
           /\ atSubmit = Attempt!NoSubmit
        /\ ~Unsettled
    BY <1>2, <1>6, Blanks DEF AttemptInv, Attempt!Busy, Unsettled
  <2>2. atPhase # "boot" /\ atMine # None /\ (atPhase = "results" => atMine.status = "none")
    BY <1>1 DEF Attempt!Screen
  <2>3. atMine = atServer
    BY <2>1, <2>2 DEF Calmly, UpToDate
  <2>4. atServer.status = "draft"
    <3>1. atServer.status \in {"none", "draft", "done"}
      BY DEF AttemptInv, Attempt!TypeOK, Attempt!Attempt
    <3> QED BY <2>1, <2>2, <2>3, <3>1 DEF Calmly, AttemptFollows
  <2>5. Steady'
    BY <1>1, <2>1, <2>3, <2>4, Blanks DEF Steady
  <2>6. AttemptFollows' /\ InOrder' /\ UpToDate'
    BY <1>1, <2>1 DEF Calmly, AttemptFollows, InOrder, UpToDate, Unsettled
  <2>7. AnswersSound'
    BY <1>1, <2>1, <2>4, <2>5, Blanks DEF AnswersSound, Unsettled
  <2>8. CopiesSound'
    BY <1>1, <2>1 DEF Calmly, CopiesSound, Covered, Unsettled
  <2> QED BY <2>6, <2>7, <2>8 DEF Calmly
<1> QED BY <1>4, <1>5, <1>6 DEF AttemptInv

\* The buttons.
LEMMA ClickSaveStep ==
    ASSUME Attempt!GoodConstants, AttemptInv, Attempt!ClickSave
    PROVE  AttemptInv'
<1>1. /\ UNCHANGED <<atServer, atPhase, atAnswers, atSavedAnswers, atMine, atFailed, atFetch,
                     atCreate, atSubmit,
                     atHandedIn>>
      /\ atSave = Attempt!Idle /\ atPhase = "take"
         /\ atSave' = [step |-> "asked", sheet |-> atAnswers]
      /\ atCalm' = (atCalm /\ atSubmit = Attempt!NoSubmit)
         /\ atOverlap' = (atOverlap \/ atSubmit # Attempt!NoSubmit)
  BY DEF Attempt!ClickSave, Attempt!screen
<1>2. atCalm' \in BOOLEAN /\ (atCalm' => atCalm /\ atSubmit = Attempt!NoSubmit)
  BY <1>1, Zenon
<1>3. atOverlap' \in BOOLEAN /\ (~atOverlap' => ~atOverlap /\ atSubmit = Attempt!NoSubmit)
  <2>1. atOverlap' \in BOOLEAN
    BY <1>1, Zenon
  <2>2. ~atOverlap' => ~atOverlap /\ atSubmit = Attempt!NoSubmit
    BY <1>1, Zenon
  <2> QED BY <2>1, <2>2
<1>4. atAnswers \in Attempt!Sheet
  BY DEF AttemptInv, Attempt!TypeOK
<1>5. Attempt!TypeOK'
  BY <1>1, <1>2, <1>3, <1>4 DEF AttemptInv, Attempt!TypeOK
<1>6. HandsIn'
  BY <1>1, <1>3 DEF AttemptInv, HandsIn, Covered
<1>7. ASSUME atCalm' PROVE Calmly'
  <2>1. Calmly /\ atSubmit = Attempt!NoSubmit
    BY <1>2, <1>7 DEF AttemptInv
  <2>2. AttemptFollows' /\ InOrder' /\ UpToDate'
    BY <1>1, <2>1, Blanks DEF Calmly, AttemptFollows, InOrder, UpToDate, Unsettled
  <2>3. AnswersSound' /\ CopiesSound'
    BY <1>1, <2>1, Blanks DEF Calmly, AnswersSound, CopiesSound, Covered, Unsettled, Steady
  <2> QED BY <2>2, <2>3 DEF Calmly
<1> QED BY <1>5, <1>6, <1>7 DEF AttemptInv

LEMMA ClickSubmitStep ==
    ASSUME Attempt!GoodConstants, AttemptInv, Attempt!ClickSubmit
    PROVE  AttemptInv'
<1>1. /\ UNCHANGED <<atServer, atPhase, atAnswers, atSavedAnswers, atMine, atFailed, atFetch,
                     atCreate, atSave,
                     atHandedIn>>
      /\ atSubmit = Attempt!NoSubmit /\ atPhase = "take"
      /\ atSubmit' = [step |-> "patch", sheet |-> atAnswers, shown |-> atAnswers]
      /\ atCalm' = (atCalm /\ atSave = Attempt!Idle)
         /\ atOverlap' = (atOverlap \/ atSave # Attempt!Idle)
  BY DEF Attempt!ClickSubmit, Attempt!screen
<1>2. atCalm' \in BOOLEAN /\ (atCalm' => atCalm /\ atSave = Attempt!Idle)
  BY <1>1, Zenon
<1>3. atOverlap' \in BOOLEAN /\ (~atOverlap' => ~atOverlap /\ atSave = Attempt!Idle)
  <2>1. atOverlap' \in BOOLEAN
    BY <1>1, Zenon
  <2>2. ~atOverlap' => ~atOverlap /\ atSave = Attempt!Idle
    BY <1>1, Zenon
  <2> QED BY <2>1, <2>2
<1>4. atAnswers \in Attempt!Sheet
  BY DEF AttemptInv, Attempt!TypeOK
<1>5. Attempt!TypeOK'
  BY <1>1, <1>2, <1>3, <1>4 DEF AttemptInv, Attempt!TypeOK
<1>6. HandsIn'
  BY <1>1, <1>3 DEF AttemptInv, HandsIn, Covered
<1>7. ASSUME atCalm' PROVE Calmly'
  <2>1. Calmly /\ atSave = Attempt!Idle
    BY <1>2, <1>7 DEF AttemptInv
  <2>2. AttemptFollows' /\ InOrder' /\ UpToDate'
    BY <1>1, <2>1, Blanks DEF Calmly, AttemptFollows, InOrder, UpToDate, Unsettled
  <2>3. AnswersSound' /\ CopiesSound'
    BY <1>1, <2>1, Blanks DEF Calmly, AnswersSound, CopiesSound, Covered, Unsettled, Steady
  <2> QED BY <2>2, <2>3 DEF Calmly
<1> QED BY <1>5, <1>6, <1>7 DEF AttemptInv

LEMMA AttemptSavedStep ==
    ASSUME Attempt!GoodConstants, AttemptInv, Attempt!SaveArrives
    PROVE  AttemptInv'
<1>1. /\ UNCHANGED <<atServer, atPhase, atAnswers, atMine, atFailed, atCreate, atSubmit, atCalm,
                     atOverlap, atHandedIn>>
      /\ atSave.step = "answered" /\ atSave' = Attempt!Idle /\ atFetch' = Attempt!Asked
      /\ atSavedAnswers' = IF atSave.sheet = Attempt!Blank THEN atAnswers ELSE atSave.sheet
  BY DEF Attempt!SaveArrives, Attempt!history
<1>2. atSave # Attempt!Idle /\ atSavedAnswers' \in Attempt!Sheet
  BY <1>1, Blanks DEF AttemptInv, Attempt!TypeOK
<1>3. Attempt!Idle \in [step : {"idle", "asked", "answered"}, sheet : Attempt!Sheet]
  BY Blanks DEF Attempt!Idle
<1>4. Attempt!TypeOK'
  BY <1>1, <1>2, <1>3 DEF AttemptInv, Attempt!TypeOK
<1>5. HandsIn'
  BY <1>1 DEF AttemptInv, HandsIn, Covered
<1>6. ASSUME atCalm PROVE Calmly'
  <2>1. Calmly /\ atSubmit = Attempt!NoSubmit /\ atSave.sheet = atServer.sheet
        /\ Covered(atAnswers)
    BY <1>1, <1>2, <1>6 DEF AttemptInv, Calmly, InOrder, AnswersSound, CopiesSound, Unsettled
  <2>2. Covered(atSavedAnswers)'
    BY <1>1, <2>1 DEF Covered
  <2>3. AttemptFollows' /\ InOrder' /\ UpToDate'
    BY <1>1, <2>1, Blanks DEF Calmly, AttemptFollows, InOrder, UpToDate
  <2>4. AnswersSound' /\ CopiesSound'
    BY <1>1, <2>1, <2>2, Blanks DEF Calmly, AnswersSound, CopiesSound, Covered
  <2> QED BY <2>3, <2>4 DEF Calmly
<1> QED BY <1>1, <1>4, <1>5, <1>6 DEF AttemptInv

LEMMA SubmittedStep ==
    ASSUME Attempt!GoodConstants, AttemptInv, Attempt!SubmitArrives
    PROVE  AttemptInv'
<1>1. /\ UNCHANGED <<atServer, atPhase, atAnswers, atSavedAnswers, atMine, atFailed, atCreate,
                     atSave, atCalm,
                     atOverlap, atHandedIn>>
      /\ atSubmit.step = "answered" /\ atFetch' = Attempt!Asked
      /\ atSubmit' = [atSubmit EXCEPT !.step = "settling"]
  BY DEF Attempt!SubmitArrives, Attempt!screen, Attempt!history
<1>2. /\ atSubmit # Attempt!NoSubmit
      /\ atSubmit' \in [step : {"idle", "patch", "handIn", "answered", "settling"},
                         sheet : Attempt!Sheet, shown : Attempt!Sheet]
      /\ atSubmit'.step = "settling" /\ atSubmit'.sheet = atSubmit.sheet
         /\ atSubmit'.shown = atSubmit.shown
  BY <1>1, Blanks DEF AttemptInv, Attempt!TypeOK
<1>3. Attempt!TypeOK'
  BY <1>1, <1>2 DEF AttemptInv, Attempt!TypeOK
<1>4. HandsIn'
  BY <1>1, <1>2 DEF AttemptInv, HandsIn, Covered
<1>5. ASSUME atCalm PROVE Calmly'
  <2>1. Calmly /\ atSave = Attempt!Idle /\ atServer.status = "done" /\ atPhase # "boot"
    BY <1>1, <1>2, <1>5 DEF AttemptInv, Calmly, InOrder
  <2>2. AttemptFollows' /\ InOrder' /\ UpToDate'
    BY <1>1, <1>2, <2>1, Blanks DEF Calmly, AttemptFollows, InOrder, UpToDate
  <2>3. AnswersSound' /\ CopiesSound'
    BY <1>1, <1>2, <2>1, Blanks DEF Calmly, AnswersSound, CopiesSound, Covered, Unsettled
  <2> QED BY <2>2, <2>3 DEF Calmly
<1> QED BY <1>1, <1>3, <1>4, <1>5 DEF AttemptInv

LEMMA AttemptStep ==
    ASSUME Attempt!GoodConstants, AttemptInv, [Attempt!Next]_(Attempt!pageVars)
    PROVE  AttemptInv'
<1>1. ASSUME Attempt!FetchArrives PROVE AttemptInv'
  BY <1>1, SettledStep, AttemptArrivesStep
<1>2. ASSUME Attempt!HandleSubmit PROVE AttemptInv'
  <2>1. atSubmit.step \in {"patch", "handIn"}
    BY <1>2 DEF Attempt!HandleSubmit
  <2> QED BY <1>2, <2>1, PatchStep, HandInStep
<1> QED BY <1>1, <1>2, QueryStep, LoudStep, AttemptOpenStep, SaveStep, AttemptOpenedStep,
           AttemptTypeStep,
          ClickSaveStep, ClickSubmitStep, AttemptSavedStep, SubmittedStep DEF Attempt!Next,
          Attempt!Page, Attempt!Server

LEMMA Shown ==
    ASSUME Attempt!GoodConstants, AttemptInv
    PROVE  Attempt!TypeOK /\ Attempt!HandedInAsShown /\ Attempt!GreenIsSavedWhenCalm
<1>1. Attempt!HandedInAsShown
  <2> SUFFICES ASSUME atHandedIn # None, ~atOverlap
                      PROVE atServer.sheet = Attempt!Merge(atServer.sheet, atHandedIn)
    BY DEF Attempt!HandedInAsShown
  <2>1. atServer.sheet \in Attempt!Sheet /\ atHandedIn \in Attempt!Sheet /\ Covered(atHandedIn)
    BY DEF AttemptInv, Attempt!TypeOK, HandsIn, Attempt!Attempt
  <2> QED BY <2>1, Merged DEF Covered
<1>2. Attempt!GreenIsSavedWhenCalm
  <2> SUFFICES ASSUME atCalm, NEW q \in Questions, Attempt!SaveStatus(q) = "saved"
               PROVE  atServer.sheet[q] = atAnswers[q]
    BY DEF Attempt!GreenIsSavedWhenCalm, Attempt!GreenIsSaved
  <2>1. atAnswers[q] # None /\ atSavedAnswers[q] = atAnswers[q]
    BY DEF Attempt!SaveStatus
  <2>2. Covered(atAnswers) \/ Covered(atSavedAnswers)
    BY DEF AttemptInv, Calmly, AnswersSound, CopiesSound
  <2> QED BY <2>1, <2>2 DEF Covered
<1> QED BY <1>1, <1>2 DEF AttemptInv

-----------------------------------------------------------------------------
(***************************************************************************)
(* PaymentPage.  Requests of one payment that never met write one at a     *)
(* time, over a pending payment (WritesAlone), and what a checkout read    *)
(* holds until it creates, if nothing was settled meanwhile (ReadStands);  *)
(* so at most one payment waits or is done (OneCounts), and what was       *)
(* stopped stays stopped (StoppedStands).                                  *)
(***************************************************************************)
Asks(q, p) == q # None /\ q.payment = p

\* A payment that was done came with the place.
PaidHasPlace ==
    /\ \A p \in Payment!Payments : payStatus[p] = "SUCCEEDED" \/ payTold[p] = "paid" => payPlace
    /\ \A r \in Slots : paySlot[r] # None /\ paySlot[r].step = "ok"
       /\ paySlot[r].button = "pay" => payPlace

\* A page is of a payment that is there, and so are the requests.
OfAPayment ==
    /\ payCurrent # None => payStatus[payCurrent] # None
    /\ payFetching \/ payPage = "payment" => payCurrent # None
    /\ \A r \in Slots : paySlot[r] # None => payStatus[paySlot[r].payment] # None
    /\ payBuying # None /\ payBuying.step = "found"
       => payBuying.payment \in Payment!Payments /\ payStatus[payBuying.payment] # None

\* What a checkout has read is still so.
ReadStands ==
    ~payCrossed /\ payBuying # None =>
        /\ payBuying.step \in {"pending", "create"} => ~payPlace
        /\ payBuying.step = "create" => \A p \in Payment!Payments : payStatus[p] # "PENDING"

\* Requests that never met write one at a time, and over a pending payment.
WritesAlone ==
    \A p \in Payment!Payments : payAlone[p] =>
        \A r \in Slots : Asks(paySlot[r], p) /\ paySlot[r].step = "write" =>
            /\ payStatus[p] = "PENDING"
            /\ \A o \in Slots \ {r} : Asks(paySlot[o], p) => paySlot[o].step # "write"

\* What was stopped, or is about to be said to be, is stopped.
StoppedStands ==
    \A p \in Payment!Payments : payAlone[p] =>
        /\ payTold[p] \in {"failed", "cancelled"} => payStatus[p] \in {"FAILED", "CANCELED"}
        /\ \A r \in Slots :
              Asks(paySlot[r], p) /\ paySlot[r].step = "ok"
              /\ paySlot[r].button \in {"fail", "cancel"}
              => payStatus[p] \in {"FAILED", "CANCELED"}

\* One payment waits or is done.
OneCounts ==
    ~payCrossed /\ (\A p \in Payment!Payments : payAlone[p]) =>
        \A p, o \in Payment!Payments : payStatus[p] \in {"PENDING", "SUCCEEDED"}
                                       /\ payStatus[o] \in {"PENDING", "SUCCEEDED"} => p = o

PaymentInv ==
    /\ Payment!TypeOK
    /\ PaidHasPlace
    /\ OfAPayment
    /\ ReadStands
    /\ WritesAlone
    /\ StoppedStands
    /\ OneCounts

LEMMA PaymentInit ==
    ASSUME Payment!GoodConstants, Payment!Init
    PROVE  PaymentInv
<1>1. Payment!TypeOK
  <2>1. payPlace \in BOOLEAN /\ payFetching \in BOOLEAN /\ payCardOk \in BOOLEAN
        /\ payCrossed \in BOOLEAN
    BY Zenon DEF Payment!Init
  <2>2. payAlone \in [Payment!Payments -> BOOLEAN]
    BY Zenon DEF Payment!Init
  <2>3. payStatus \in [Payment!Payments -> Payment!Statuses \cup {None}]
        /\ paySlot \in [Slots -> Payment!Request \cup {None}]
        /\ payTold \in [Payment!Payments -> {"paid", "failed", "cancelled", None}]
    BY DEF Payment!Init
  <2> QED BY <2>1, <2>2, <2>3 DEF Payment!Init, Payment!TypeOK
<1>2. /\ \A p \in Payment!Payments : payStatus[p] = None /\ payTold[p] = None
      /\ \A r \in Slots : paySlot[r] = None
      /\ payCurrent = None /\ payFetching = FALSE /\ payPage = "course" /\ payBuying = None
  BY DEF Payment!Init
<1> QED BY <1>1, <1>2
           DEF PaymentInv, PaidHasPlace, OfAPayment, ReadStands, WritesAlone, StoppedStands,
                          OneCounts, Asks, Payment!GoodConstants, Payment!Statuses

\* Steps of the page that touch no row and no request.
LEMMA PaymentViewStep ==
    ASSUME Payment!GoodConstants, PaymentInv, Payment!TypeOK',
           UNCHANGED <<payStatus, payPlace, payTold, payAlone, payCrossed, payBuying, paySlot>>,
           payCurrent' # None => payStatus[payCurrent'] # None,
           payFetching' \/ payPage' = "payment" => payCurrent' # None
    PROVE  PaymentInv'
BY DEF PaymentInv, PaidHasPlace, OfAPayment, ReadStands, WritesAlone, StoppedStands, OneCounts,
       Asks

LEMMA PaymentQuietStep ==
    ASSUME Payment!GoodConstants, PaymentInv,
           \/ Payment!Fetch \/ Payment!Fill \/ Payment!Leave \/ UNCHANGED Payment!payVars
           \/ \E m \in {"card", "wallet"} : Payment!Choose(m)
    PROVE  PaymentInv'
<1> USE DEF Payment!rows, Payment!hist, Payment!view, Payment!Go, Payment!Blank
<1>1. /\ UNCHANGED <<payStatus, payPlace, payTold, payAlone, payCrossed, payBuying, paySlot>>
      /\ payBusy' \in {payBusy, None}
      /\ payCurrent' \in {payCurrent, None} /\ payMethod' \in {"card", "wallet"}
      /\ payPage' \in {payPage, "course", "cabinet"}
  BY DEF Payment!Fetch, Payment!Fill, Payment!Leave, Payment!Choose, Payment!payVars,
         PaymentInv, Payment!TypeOK
<1>2. payShown' \in Payment!Statuses \cup {None}
  <2>1. CASE Payment!Fetch
    <3>1. payShown' = payStatus[payCurrent]
      BY <2>1 DEF Payment!Fetch
    <3>2. payCurrent \in Payment!Payments
      BY <2>1 DEF Payment!Fetch, PaymentInv, Payment!TypeOK, OfAPayment
    <3> QED BY <3>1, <3>2 DEF PaymentInv, Payment!TypeOK
  <2>2. CASE ~Payment!Fetch
    BY <2>2 DEF Payment!Fill, Payment!Leave, Payment!Choose, Payment!payVars, PaymentInv,
                Payment!TypeOK
  <2> QED BY <2>1, <2>2
<1>3. payFetching' \in BOOLEAN /\ payCardOk' \in BOOLEAN
  BY DEF Payment!Fetch, Payment!Fill, Payment!Leave, Payment!Choose, Payment!payVars,
         PaymentInv, Payment!TypeOK
<1>4. Payment!TypeOK'
  BY <1>1, <1>2, <1>3 DEF PaymentInv, Payment!TypeOK
<1>5. payFetching' \/ payPage' = "payment" => payCurrent' # None
  BY DEF Payment!Fetch, Payment!Fill, Payment!Leave, Payment!Choose, Payment!payVars,
         PaymentInv, OfAPayment
<1>6. payCurrent' # None => payStatus[payCurrent'] # None
  BY <1>1 DEF PaymentInv, OfAPayment
<1> QED BY <1>1, <1>4, <1>5, <1>6, PaymentViewStep

\* A checkout reads.
LEMMA CheckStep ==
    ASSUME Payment!GoodConstants, PaymentInv,
           Payment!ClickBuy \/ Payment!CheckEnrolled \/ Payment!FindPending
    PROVE  PaymentInv'
<1>1. /\ UNCHANGED <<payStatus, payPlace, payTold, payAlone, payCrossed, paySlot, payBusy>>
      /\ UNCHANGED <<payPage, payCurrent, payShown, payFetching, payMethod, payCardOk>>
  BY DEF Payment!ClickBuy, Payment!CheckEnrolled, Payment!FindPending, Payment!rows,
         Payment!view, Payment!hist
<1>2. CASE payBuying' = None
  <2>1. Payment!TypeOK'
    BY <1>1, <1>2 DEF PaymentInv, Payment!TypeOK
  <2> QED BY <1>1, <1>2, <2>1
             DEF PaymentInv, PaidHasPlace, OfAPayment, ReadStands, WritesAlone, StoppedStands,
                 OneCounts, Asks
<1>3. ASSUME NEW o \in Payment!Order, payBuying' = o,
             o.step = "found" => o.payment \in Payment!Payments /\ payStatus[o.payment] # None,
             o.step \in {"pending", "create"} /\ ~payCrossed => ~payPlace,
             o.step = "create" => \A p \in Payment!Payments : payStatus[p] # "PENDING"
      PROVE  PaymentInv'
  <2>1. Payment!TypeOK'
    BY <1>1, <1>3 DEF PaymentInv, Payment!TypeOK
  <2>2. OfAPayment' /\ ReadStands'
    BY <1>1, <1>3 DEF PaymentInv, OfAPayment, ReadStands
  <2> QED BY <1>1, <2>1, <2>2
             DEF PaymentInv, PaidHasPlace, WritesAlone, StoppedStands, OneCounts, Asks
<1>4. CASE Payment!ClickBuy
  <2>1. [step |-> "enrolled", payment |-> None] \in Payment!Order
    BY DEF Payment!Order
  <2> QED BY <1>3, <1>4, <2>1 DEF Payment!ClickBuy
<1>5. CASE Payment!CheckEnrolled
  <2>1. payBuying \in Payment!Order /\ payBuying # None
    BY <1>5 DEF Payment!CheckEnrolled, Payment!Checking, PaymentInv, Payment!TypeOK
  <2> DEFINE o == [payBuying EXCEPT !.step = "pending"]
  <2>2. o \in Payment!Order /\ o.step = "pending"
    BY <2>1 DEF Payment!Order
  <2>3. payBuying' = (IF payPlace THEN None ELSE o)
    BY <1>5 DEF Payment!CheckEnrolled
  <2> HIDE DEF o
  <2>4. CASE payPlace
    BY <1>2, <2>3, <2>4
  <2>5. CASE ~payPlace
    BY <1>3, <2>2, <2>3, <2>5
  <2> QED BY <2>4, <2>5
<1>6. CASE Payment!FindPending
  <2>1. payBuying \in Payment!Order /\ payBuying # None /\ payBuying.step = "pending"
    BY <1>6 DEF Payment!FindPending, Payment!Checking, PaymentInv, Payment!TypeOK
  <2>2. ASSUME NEW p \in Payment!Payments, payStatus[p] = "PENDING",
               payBuying' = [step |-> "found", payment |-> p]
        PROVE  PaymentInv'
    <3> DEFINE o == [step |-> "found", payment |-> p]
    <3>1. o \in Payment!Order /\ o.step = "found" /\ o.payment = p /\ payBuying' = o
      BY <2>2 DEF Payment!Order
    <3>2. payStatus[p] # None
      BY <2>2 DEF Payment!GoodConstants, Payment!Statuses
    <3> HIDE DEF o
    <3> QED BY <1>3, <3>1, <3>2
  <2>3. ASSUME \A p \in Payment!Payments : payStatus[p] # "PENDING",
               payBuying' = [payBuying EXCEPT !.step = "create"]
        PROVE  PaymentInv'
    <3> DEFINE o == [payBuying EXCEPT !.step = "create"]
    <3>1. o \in Payment!Order /\ o.step = "create" /\ payBuying' = o
      BY <2>1, <2>3 DEF Payment!Order
    <3>2. ~payCrossed => ~payPlace
      BY <2>1 DEF PaymentInv, ReadStands
    <3> HIDE DEF o
    <3> QED BY <1>3, <2>3, <3>1, <3>2
  <2>4. \/ \E p \in Payment!Payments : payStatus[p] = "PENDING"
                                       /\ payBuying' = [step |-> "found", payment |-> p]
        \/ /\ \A p \in Payment!Payments : payStatus[p] # "PENDING"
           /\ payBuying' = [payBuying EXCEPT !.step = "create"]
    BY <1>6 DEF Payment!FindPending
  <2> QED BY <2>2, <2>3, <2>4
<1> QED BY <1>4, <1>5, <1>6

\* A checkout makes a payment: none waits, and none was done.
LEMMA CreateStep ==
    ASSUME Payment!GoodConstants, PaymentInv, Payment!Create
    PROVE  PaymentInv'
<1>1. /\ UNCHANGED <<payPlace, payTold, payAlone, payCrossed, paySlot, payBusy>>
      /\ UNCHANGED <<payPage, payCurrent, payShown, payFetching, payMethod, payCardOk>>
      /\ payBuying # None /\ payBuying.step = "create"
  BY DEF Payment!Create, Payment!view, Payment!hist, Payment!Checking
<1>2. PICK p \in Payment!Payments :
         /\ payStatus[p] = None /\ payStatus' = [payStatus EXCEPT ![p] = "PENDING"]
         /\ payBuying' = [step |-> "found", payment |-> p]
  BY DEF Payment!Create
<1>3. /\ payStatus' \in [Payment!Payments -> Payment!Statuses \cup {None}]
      /\ payStatus'[p] = "PENDING" /\ payStatus'[p] # None
      /\ \A o \in Payment!Payments : o # p => payStatus'[o] = payStatus[o]
  BY <1>2 DEF PaymentInv, Payment!TypeOK, Payment!Statuses, Payment!GoodConstants
<1>4. payBuying' \in Payment!Order /\ payBuying'.step = "found" /\ payBuying'.payment = p
  BY <1>2 DEF Payment!Order
<1>5. \A r \in Slots : paySlot[r] # None
                        => paySlot[r].payment \in Payment!Payments /\ paySlot[r].payment # p
  BY <1>2 DEF PaymentInv, Payment!TypeOK, OfAPayment, Payment!Request
<1>6. Payment!TypeOK'
  BY <1>1, <1>3, <1>4 DEF PaymentInv, Payment!TypeOK
<1>7. PaidHasPlace'
  BY <1>1, <1>3 DEF PaymentInv, PaidHasPlace
<1>8. OfAPayment'
  <2>1. payCurrent \in Payment!Payments \cup {None}
    BY DEF PaymentInv, Payment!TypeOK
  <2> QED BY <1>1, <1>3, <1>4, <1>5, <2>1 DEF PaymentInv, OfAPayment
<1>9. ReadStands'
  BY <1>4 DEF ReadStands
<1>10. WritesAlone'
  BY <1>1, <1>3, <1>5 DEF PaymentInv, WritesAlone, Asks
<1>11. StoppedStands'
  BY <1>1, <1>2, <1>3, <1>5
     DEF PaymentInv, StoppedStands, Asks, Payment!GoodConstants, Payment!Statuses
<1>12. OneCounts'
  <2> SUFFICES ASSUME ~payCrossed, NEW o \in Payment!Payments, NEW q \in Payment!Payments,
                      payStatus'[o] \in {"PENDING", "SUCCEEDED"},
                      payStatus'[q] \in {"PENDING", "SUCCEEDED"}
               PROVE  o = q
    BY <1>1 DEF OneCounts
  <2>1. ~payPlace /\ \A x \in Payment!Payments : payStatus[x] # "PENDING"
    BY <1>1 DEF PaymentInv, ReadStands
  <2>2. \A x \in Payment!Payments : payStatus[x] # "SUCCEEDED"
    BY <2>1 DEF PaymentInv, PaidHasPlace
  <2> QED BY <1>3, <2>1, <2>2
<1> QED BY <1>6, <1>7, <1>8, <1>9, <1>10, <1>11, <1>12 DEF PaymentInv

\* The browser leaves for another page: requests are dropped or unheard.
LEMMA PaymentReloadStep ==
    ASSUME Payment!GoodConstants, PaymentInv, Payment!OpenPayment \/ Payment!Back
    PROVE  PaymentInv'
<1>1. /\ UNCHANGED <<payStatus, payPlace, payTold, payAlone, payCrossed>>
      /\ payBusy' = None /\ payShown' = None /\ payMethod' = "card" /\ payCardOk' = FALSE
      /\ paySlot' = [r \in Slots |->
                       IF paySlot[r] # None /\ paySlot[r].step \in {"asked", "write"}
                       THEN [paySlot[r] EXCEPT !.heard = FALSE] ELSE None]
  BY DEF Payment!OpenPayment, Payment!Back, Payment!rows, Payment!hist, Payment!Reloaded,
         Payment!Blank
<1>2. \A r \in Slots : paySlot[r] # None => paySlot[r] \in Payment!Request
  BY DEF PaymentInv, Payment!TypeOK
<1>3. ASSUME NEW r \in Slots, paySlot'[r] # None
      PROVE  /\ paySlot'[r] \in Payment!Request /\ paySlot[r] # None
             /\ paySlot'[r].payment = paySlot[r].payment /\ paySlot'[r].step = paySlot[r].step
             /\ paySlot'[r].step # "ok" /\ paySlot[r].payment \in Payment!Payments
  BY <1>1, <1>2, <1>3 DEF Payment!Request
<1>4. /\ payPage' \in {"course", "payment"} /\ payFetching' \in BOOLEAN
      /\ payBuying' \in {payBuying, None}
      /\ payCurrent' # None => payCurrent' \in Payment!Payments /\ payStatus[payCurrent'] # None
      /\ payFetching' \/ payPage' = "payment" => payCurrent' # None
  <2>1. CASE Payment!Back
    BY <2>1 DEF Payment!Back
  <2>2. CASE Payment!OpenPayment
    <3>1. payBuying # None /\ payBuying.step = "found" /\ payCurrent' = payBuying.payment
          /\ payPage' = "payment" /\ payFetching' = TRUE /\ payBuying' = None
      BY <2>2 DEF Payment!OpenPayment, Payment!Checking
    <3>2. payCurrent' \in Payment!Payments /\ payStatus[payCurrent'] # None
      BY <3>1 DEF PaymentInv, OfAPayment
    <3>3. payCurrent' # None
      BY <3>2 DEF Payment!GoodConstants
    <3> QED BY <3>1, <3>2, <3>3
  <2> QED BY <2>1, <2>2
<1>5. Payment!TypeOK'
  <2>1. paySlot' \in [Slots -> Payment!Request \cup {None}]
    BY <1>1, <1>3
  <2>2. payCardOk' \in BOOLEAN
    BY <1>1, Zenon
  <2>3. payBuying' \in Payment!Order \cup {None} /\ payCurrent' \in Payment!Payments \cup {None}
    BY <1>4 DEF PaymentInv, Payment!TypeOK
  <2> QED BY <1>1, <1>4, <2>1, <2>2, <2>3 DEF PaymentInv, Payment!TypeOK
<1>6. PaidHasPlace'
  BY <1>1, <1>3 DEF PaymentInv, PaidHasPlace
<1>7. OfAPayment' /\ ReadStands'
  BY <1>1, <1>3, <1>4 DEF PaymentInv, OfAPayment, ReadStands
<1>8. WritesAlone'
  BY <1>1, <1>3 DEF PaymentInv, WritesAlone, Asks
<1>9. StoppedStands' /\ OneCounts'
  BY <1>1, <1>3 DEF PaymentInv, StoppedStands, OneCounts, Asks
<1> QED BY <1>5, <1>6, <1>7, <1>8, <1>9 DEF PaymentInv

\* A request that has only been made, or is answered no, changes nothing here.
LEMMA AskStep ==
    ASSUME Payment!GoodConstants, PaymentInv, NEW r \in Slots, NEW p \in Payment!Payments,
           payStatus[p] # None,
           NEW q \in Payment!Request, q.payment = p, q.step \in {"timer", "asked", "refused"},
           paySlot' = [paySlot EXCEPT ![r] = q],
           UNCHANGED <<Payment!rows, Payment!view, payTold>>,
           payBusy' \in Payment!Buttons \cup {None}, payBuying' = payBuying,
           payCrossed' = payCrossed,
           payAlone' \in [Payment!Payments -> BOOLEAN],
           \A o \in Payment!Payments : payAlone'[o] => payAlone[o]
    PROVE  PaymentInv'
<1>1. /\ payStatus' = payStatus /\ payPlace' = payPlace /\ payTold' = payTold
         /\ payCurrent' = payCurrent
      /\ payPage' = payPage /\ payFetching' = payFetching
      /\ UNCHANGED <<payShown, payMethod, payCardOk>>
  BY DEF Payment!rows, Payment!view
<1>2. \A o \in Slots : IF o = r THEN paySlot'[o] = q ELSE paySlot'[o] = paySlot[o]
  BY DEF PaymentInv, Payment!TypeOK
<1>3. Payment!TypeOK'
  BY <1>1 DEF PaymentInv, Payment!TypeOK
<1>4. PaidHasPlace' /\ OfAPayment' /\ ReadStands'
  BY <1>1, <1>2 DEF PaymentInv, PaidHasPlace, OfAPayment, ReadStands
<1>5. WritesAlone'
  BY <1>1, <1>2 DEF PaymentInv, WritesAlone, Asks
<1>6. StoppedStands'
  BY <1>1, <1>2 DEF PaymentInv, StoppedStands, Asks
<1>7. OneCounts'
  BY <1>1 DEF PaymentInv, OneCounts
<1> QED BY <1>3, <1>4, <1>5, <1>6, <1>7 DEF PaymentInv

LEMMA PaymentClickStep ==
    ASSUME Payment!GoodConstants, PaymentInv, NEW r \in Slots,
           Payment!TimerEnds(r) \/ \E b \in Payment!Buttons : Payment!Click(b, r)
    PROVE  PaymentInv'
<1>1. UNCHANGED <<Payment!rows, Payment!view, payTold>> /\ payAlone' = payAlone
      /\ payBuying' = payBuying /\ payCrossed' = payCrossed
  BY DEF Payment!Click, Payment!TimerEnds, Payment!hist
<1>2. payAlone' \in [Payment!Payments -> BOOLEAN]
  BY <1>1 DEF PaymentInv, Payment!TypeOK
<1>3. ASSUME NEW b \in Payment!Buttons, Payment!Click(b, r) PROVE PaymentInv'
  <2> DEFINE q == [button |-> b, payment |-> payCurrent, heard |-> TRUE,
                   step |-> IF b = "cancel" THEN "asked" ELSE "timer"]
  <2>1. paySlot' = [paySlot EXCEPT ![r] = q] /\ payBusy' = b /\ payPage = "payment"
    BY <1>3 DEF Payment!Click, Payment!FormShown
  <2>2. payCurrent \in Payment!Payments /\ payStatus[payCurrent] # None
    BY <2>1 DEF PaymentInv, OfAPayment, Payment!TypeOK
  <2>3. q \in Payment!Request /\ q.payment = payCurrent
        /\ q.step \in {"timer", "asked", "refused"}
    BY <2>2 DEF Payment!Request
  <2> HIDE DEF q
  <2> QED BY <1>1, <1>2, <2>1, <2>2, <2>3, AskStep
<1>4. CASE Payment!TimerEnds(r)
  <2> DEFINE q == [paySlot[r] EXCEPT !.step = "asked"]
  <2>1. paySlot' = [paySlot EXCEPT ![r] = q] /\ payBusy' = payBusy /\ paySlot[r] # None
    BY <1>4 DEF Payment!TimerEnds
  <2>2. paySlot[r] \in Payment!Request
    BY <2>1 DEF PaymentInv, Payment!TypeOK
  <2>3. /\ q \in Payment!Request /\ q.payment = paySlot[r].payment
        /\ q.step \in {"timer", "asked", "refused"}
    BY <2>2 DEF Payment!Request
  <2>4. paySlot[r].payment \in Payment!Payments /\ payStatus[paySlot[r].payment] # None
    BY <2>1, <2>2 DEF PaymentInv, OfAPayment, Payment!Request
  <2>5. payBusy' \in Payment!Buttons \cup {None}
    BY <2>1 DEF PaymentInv, Payment!TypeOK
  <2> HIDE DEF q
  <2> QED BY <1>1, <1>2, <2>1, <2>3, <2>4, <2>5, AskStep
<1> QED BY <1>3, <1>4

LEMMA PaymentReadStep ==
    ASSUME Payment!GoodConstants, PaymentInv, NEW r \in Slots, Payment!Read(r)
    PROVE  PaymentInv'
<1> DEFINE p   == paySlot[r].payment
           b   == paySlot[r].button
           met == \E o \in Slots \ {r} : paySlot[o] # None /\ paySlot[o].payment = p
                                          /\ paySlot[o].step \in {"asked", "write"}
<1>1. /\ paySlot[r] \in Payment!Request /\ paySlot[r].step = "asked" /\ paySlot[r] # None
      /\ p \in Payment!Payments /\ b \in Payment!Buttons /\ payStatus[p] \in Payment!Statuses
  BY DEF Payment!Read, PaymentInv, Payment!TypeOK, OfAPayment, Payment!Request
<1>2. /\ UNCHANGED <<Payment!rows, Payment!view, payTold>> /\ payBusy' = payBusy
         /\ payBuying' = payBuying /\ payCrossed' = payCrossed
      /\ payAlone' = [payAlone EXCEPT ![p] = @ /\ ~met]
  BY DEF Payment!Read
<1>3. /\ payAlone' \in [Payment!Payments -> BOOLEAN]
      /\ payAlone'[p] => ~met
      /\ \A o \in Payment!Payments : payAlone'[o] => payAlone[o]
  BY <1>1, <1>2, Zenon DEF PaymentInv, Payment!TypeOK
<1>4. /\ payStatus' = payStatus /\ payPlace' = payPlace /\ payTold' = payTold
         /\ payCurrent' = payCurrent
      /\ payPage' = payPage /\ payFetching' = payFetching
      /\ UNCHANGED <<payShown, payMethod, payCardOk>>
  BY <1>2 DEF Payment!rows, Payment!view
<1>5. PICK t \in {"ok", "write", "refused"} :
         /\ paySlot' = [paySlot EXCEPT ![r] = [paySlot[r] EXCEPT !.step = t]]
         /\ t = "ok" <=> payStatus[p] \in Payment!AlreadySo(b)
         /\ t = "write" => payStatus[p] = "PENDING"
  BY <1>1 DEF Payment!Read
<1> DEFINE q == [paySlot[r] EXCEPT !.step = t]
<1>6. /\ q \in Payment!Request /\ q.payment = p /\ q.step = t /\ q.button = b /\ q # None
      /\ paySlot' = [paySlot EXCEPT ![r] = q]
  BY <1>1, <1>5 DEF Payment!Request, Payment!GoodConstants
<1> HIDE DEF q, met
<1>7. \A o \in Slots : IF o = r THEN paySlot'[o] = q ELSE paySlot'[o] = paySlot[o]
  BY <1>6 DEF PaymentInv, Payment!TypeOK
<1>8. t = "ok" => (b = "pay" => payStatus[p] = "SUCCEEDED")
                  /\ (b # "pay" => payStatus[p] \in {"FAILED", "CANCELED"})
  BY <1>1, <1>5 DEF Payment!AlreadySo, Payment!Buttons
<1>9. Payment!TypeOK'
  BY <1>2, <1>3, <1>4, <1>6 DEF PaymentInv, Payment!TypeOK
<1>10. PaidHasPlace'
  BY <1>1, <1>4, <1>6, <1>7, <1>8 DEF PaymentInv, PaidHasPlace
<1>11. OfAPayment' /\ ReadStands'
  BY <1>1, <1>2, <1>4, <1>6, <1>7 DEF PaymentInv, OfAPayment, ReadStands
<1>12. WritesAlone'
  <2> SUFFICES ASSUME NEW x \in Payment!Payments, payAlone'[x], NEW o \in Slots,
                      Asks(paySlot'[o], x),
                      paySlot'[o].step = "write"
               PROVE  /\ payStatus[x] = "PENDING"
                      /\ \A i \in Slots \ {o} : Asks(paySlot'[i], x)
                         => paySlot'[i].step # "write"
    BY <1>4 DEF WritesAlone, Asks
  <2>1. CASE o = r
    BY <1>1, <1>3, <1>5, <1>6, <1>7, <2>1 DEF met, Asks
  <2>2. CASE o # r /\ x = p
    BY <1>1, <1>3, <1>7, <2>2 DEF met, Asks
  <2>3. CASE o # r /\ x # p
    BY <1>3, <1>6, <1>7, <2>3 DEF PaymentInv, WritesAlone, Asks
  <2> QED BY <2>1, <2>2, <2>3
<1>13. StoppedStands'
  BY <1>1, <1>3, <1>4, <1>6, <1>7, <1>8 DEF PaymentInv, StoppedStands, Asks
<1>14. OneCounts'
  BY <1>2, <1>3, <1>4 DEF PaymentInv, OneCounts
<1> QED BY <1>9, <1>10, <1>11, <1>12, <1>13, <1>14 DEF PaymentInv

LEMMA PaymentWriteStep ==
    ASSUME Payment!GoodConstants, PaymentInv, NEW r \in Slots, Payment!Write(r)
    PROVE  PaymentInv'
<1> DEFINE p == paySlot[r].payment
           b == paySlot[r].button
           q == [paySlot[r] EXCEPT !.step = "ok"]
<1>1. /\ paySlot[r] \in Payment!Request /\ paySlot[r].step = "write" /\ paySlot[r] # None
      /\ p \in Payment!Payments /\ b \in Payment!Buttons
  BY DEF Payment!Write, PaymentInv, Payment!TypeOK, Payment!Request
<1>2. PICK new \in {"SUCCEEDED", "FAILED", "CANCELED"} :
         /\ payStatus' = [payStatus EXCEPT ![p] = new]
         /\ new = "SUCCEEDED" <=> b = "pay"
  BY <1>1 DEF Payment!Write, Payment!Buttons
<1>3. /\ payPlace \/ b = "pay" => payPlace'
      /\ payPlace' \in BOOLEAN
      /\ paySlot' = [paySlot EXCEPT ![r] = q]
      /\ payCrossed' = (payCrossed \/ Payment!Checking("pending") \/ Payment!Checking("create"))
  BY Zenon DEF Payment!Write
<1>4. /\ payCurrent' = payCurrent /\ payPage' = payPage /\ payFetching' = payFetching
         /\ payTold' = payTold
      /\ payAlone' = payAlone
         /\ UNCHANGED <<payShown, payMethod, payCardOk, payBusy, payBuying>>
  BY DEF Payment!Write, Payment!view, Payment!hist
<1>5. q \in Payment!Request /\ q.payment = p /\ q.step = "ok" /\ q.button = b /\ q # None
  BY <1>1 DEF Payment!Request, Payment!GoodConstants
<1> HIDE DEF q
<1>6. \A o \in Slots : IF o = r THEN paySlot'[o] = q ELSE paySlot'[o] = paySlot[o]
  BY <1>3 DEF PaymentInv, Payment!TypeOK
<1>7. /\ payStatus' \in [Payment!Payments -> Payment!Statuses \cup {None}] /\ new # None
      /\ \A o \in Payment!Payments : IF o = p THEN payStatus'[o] = new
         ELSE payStatus'[o] = payStatus[o]
  BY <1>1, <1>2 DEF PaymentInv, Payment!TypeOK, Payment!Statuses, Payment!GoodConstants
<1>8. Payment!TypeOK'
  <2>1. payCrossed' \in BOOLEAN
    BY <1>3, Zenon DEF PaymentInv, Payment!TypeOK, Payment!Checking
  <2> QED BY <1>3, <1>4, <1>5, <1>7, <2>1 DEF PaymentInv, Payment!TypeOK
<1>9. PaidHasPlace'
  BY <1>2, <1>3, <1>4, <1>5, <1>6, <1>7 DEF PaymentInv, PaidHasPlace
<1>10. OfAPayment'
  <2>1. \A o \in Payment!Payments : payStatus[o] # None => payStatus'[o] # None
    BY <1>7
  <2>2. \A o \in Slots : paySlot'[o] # None => paySlot[o] # None
        /\ paySlot'[o].payment = paySlot[o].payment
                                               /\ paySlot[o].payment \in Payment!Payments
    BY <1>1, <1>5, <1>6 DEF PaymentInv, Payment!TypeOK, Payment!Request
  <2>3. payCurrent \in Payment!Payments \cup {None}
    BY DEF PaymentInv, Payment!TypeOK
  <2> QED BY <1>4, <2>1, <2>2, <2>3 DEF PaymentInv, OfAPayment
<1>15. ReadStands'
  <2>1. ~payCrossed' /\ payBuying' # None => payBuying'.step \notin {"pending", "create"}
    BY <1>3, <1>4 DEF Payment!Checking
  <2> QED BY <2>1 DEF ReadStands
<1>11. payAlone[p] => /\ payStatus[p] = "PENDING"
                      /\ \A o \in Slots \ {r} : Asks(paySlot[o], p) => paySlot[o].step # "write"
  BY <1>1 DEF PaymentInv, WritesAlone, Asks
<1>12. WritesAlone'
  BY <1>1, <1>4, <1>5, <1>6, <1>7, <1>11 DEF PaymentInv, WritesAlone, Asks
<1>13. StoppedStands'
  BY <1>1, <1>2, <1>4, <1>5, <1>6, <1>7, <1>11 DEF PaymentInv, StoppedStands, Asks
<1>14. OneCounts'
  BY <1>1, <1>2, <1>3, <1>4, <1>7, <1>11 DEF PaymentInv, OneCounts
<1> QED BY <1>8, <1>9, <1>10, <1>12, <1>13, <1>14, <1>15 DEF PaymentInv

LEMMA PaymentArrivesStep ==
    ASSUME Payment!GoodConstants, PaymentInv, NEW r \in Slots, Payment!Arrives(r)
    PROVE  PaymentInv'
<1> DEFINE p == paySlot[r].payment
<1>1. /\ paySlot[r] \in Payment!Request /\ paySlot[r] # None /\ p \in Payment!Payments
      /\ paySlot[r].step \in {"ok", "refused"} /\ paySlot[r].button \in Payment!Buttons
  BY DEF Payment!Arrives, PaymentInv, Payment!TypeOK, Payment!Request
<1>2. /\ paySlot' = [paySlot EXCEPT ![r] = None] /\ payBusy' \in {payBusy, None}
      /\ UNCHANGED <<payStatus, payPlace, payBuying, payAlone, payCrossed>>
  BY DEF Payment!Arrives, Payment!rows, Payment!Go
<1>3. \/ /\ UNCHANGED <<payPage, payCurrent, payShown, payMethod, payCardOk>>
         /\ payFetching' = payFetching \/ payFetching' = (payPage = "payment")
      \/ /\ payPage' \in {"cabinet", "course"} /\ payCurrent' = None /\ payFetching' = FALSE
         /\ payShown' = None /\ payMethod' = "card" /\ payCardOk' = FALSE
  BY <1>1 DEF Payment!Arrives, Payment!Buttons, Payment!Go, Payment!Blank, Payment!view
<1>4. PICK said \in {"paid", "failed", "cancelled", None} :
         /\ payTold' = payTold \/ (payTold' = [payTold EXCEPT ![p] = said]
                                   /\ paySlot[r].step = "ok")
         /\ said = "paid" => paySlot[r].button = "pay"
         /\ said \in {"failed", "cancelled"} => paySlot[r].button \in {"fail", "cancel"}
  BY <1>1 DEF Payment!Arrives, Payment!Buttons, Payment!Go
<1>5. /\ payTold' \in [Payment!Payments -> {"paid", "failed", "cancelled", None}]
      /\ \A o \in Payment!Payments : \/ payTold'[o] = payTold[o]
                                     \/ o = p /\ payTold'[o] = said /\ paySlot[r].step = "ok"
  BY <1>1, <1>4 DEF PaymentInv, Payment!TypeOK
<1>6. \A o \in Slots : IF o = r THEN paySlot'[o] = None ELSE paySlot'[o] = paySlot[o]
  BY <1>2 DEF PaymentInv, Payment!TypeOK
<1>7. payFetching' \in BOOLEAN
  BY <1>3, Zenon DEF PaymentInv, Payment!TypeOK
<1>8. Payment!TypeOK'
  BY <1>2, <1>3, <1>5, <1>7 DEF PaymentInv, Payment!TypeOK
<1>9. PaidHasPlace'
  <2>1. payStatus' = payStatus /\ payPlace' = payPlace
    BY <1>2
  <2>2. \A o \in Payment!Payments : payTold'[o] = "paid" => payPlace
    BY <1>1, <1>4, <1>5 DEF PaymentInv, PaidHasPlace
  <2> QED BY <1>6, <2>1, <2>2 DEF PaymentInv, PaidHasPlace
<1>10. OfAPayment' /\ ReadStands'
  <2>1. payStatus' = payStatus /\ payPlace' = payPlace /\ payBuying' = payBuying
        /\ payCrossed' = payCrossed
    BY <1>2
  <2>2. ReadStands'
    BY <2>1 DEF PaymentInv, ReadStands
  <2>3. payCurrent' # None => payStatus[payCurrent'] # None
    BY <1>3 DEF PaymentInv, OfAPayment
  <2>4. \/ payCurrent' = payCurrent /\ payPage' = payPage
           /\ (payFetching' => payFetching \/ payPage = "payment")
        \/ payPage' # "payment" /\ ~payFetching'
    <3>1. CASE payFetching' = payFetching
      BY <1>3, <3>1
    <3>2. CASE payFetching' = (payPage = "payment")
      <4>1. payFetching' => payPage = "payment"
        BY <3>2, Zenon
      <4> QED BY <1>3, <4>1
    <3> QED BY <1>3, <3>1, <3>2
  <2>5. payFetching' \/ payPage' = "payment" => payCurrent' # None
    BY <2>4 DEF PaymentInv, OfAPayment
  <2> QED BY <1>6, <2>1, <2>2, <2>3, <2>5 DEF PaymentInv, OfAPayment
<1>11. WritesAlone'
  BY <1>2, <1>6 DEF PaymentInv, WritesAlone, Asks
<1>12. StoppedStands'
  BY <1>1, <1>2, <1>4, <1>5, <1>6, Payment!GoodConstants DEF PaymentInv, StoppedStands, Asks
<1>13. OneCounts'
  BY <1>2 DEF PaymentInv, OneCounts
<1> QED BY <1>8, <1>9, <1>10, <1>11, <1>12, <1>13 DEF PaymentInv

LEMMA PaymentStep ==
    ASSUME Payment!GoodConstants, PaymentInv, [Payment!Next]_(Payment!payVars)
    PROVE  PaymentInv'
BY PaymentQuietStep, CheckStep, CreateStep, PaymentReloadStep, PaymentClickStep, PaymentReadStep, PaymentWriteStep,
   PaymentArrivesStep DEF Payment!Next

LEMMA PaymentStands ==
    ASSUME Payment!GoodConstants, PaymentInv
    PROVE  Payment!TypeOK /\ Payment!WhatWasToldStands
<1>1. \A q \in Payment!Payments : payTold[q] = "paid" => payPlace
  BY DEF PaymentInv, PaidHasPlace
<1>2. \A q \in Payment!Payments : payTold[q] \in {"failed", "cancelled"} /\ payAlone[q]
                                  => payStatus[q] # "SUCCEEDED"
  BY DEF PaymentInv, StoppedStands
<1> QED BY <1>1, <1>2 DEF Payment!WhatWasToldStands, PaymentInv

LEMMA PaymentLibrary == \A S : Payment!Cardinality(S) = Cardinality(S)
BY DEF Payment!Cardinality, Cardinality, Payment!IsFiniteSet, IsFiniteSet

LEMMA Once ==
    ASSUME Payment!GoodConstants, PaymentInv
    PROVE  Payment!PaidOnce
<1> DEFINE paid == {q \in Payment!Payments : payStatus[q] = "SUCCEEDED"}
<1> SUFFICES ASSUME ~payCrossed, \A q \in Payment!Payments : payAlone[q]
             PROVE  Cardinality(paid) <= 1
  BY PaymentLibrary DEF Payment!PaidOnce
<1>1. \A q, o \in paid : q = o
  BY DEF PaymentInv, OneCounts
<1> HIDE DEF paid
<1>2. CASE paid = {}
  BY <1>2, FS_EmptySet
<1>3. ASSUME NEW q \in paid PROVE Cardinality(paid) <= 1
  <2>1. paid = {q}
    BY <1>1, <1>3
  <2>2. Cardinality({q}) = 1
    BY FS_Singleton
  <2> QED BY <2>1, <2>2
<1> QED BY <1>2, <1>3

-----------------------------------------------------------------------------
(***************************************************************************)
(* ConstructorPage.  Questions are replaced only after a count that found  *)
(* no attempt (PutCounted).  While nothing overlaps, the save under way is *)
(* that of the form (SaveOfForm), its steps have written what they say     *)
(* (SaveWritten), and a complete form (Whole) that says "saved" is the     *)
(* server's (Synced).                                                      *)
(***************************************************************************)
Whole == conForm.titled /\ conForm.questions # None /\ conForm.scoped

\* Only a request that begins has no assignment.
ConstructorSaveSound ==
    conSaving # None =>
        /\ conSaving.step \in {"patch", "count", "put", "created", "ok"} => conSaving.id # None
        /\ conSaving.step = "post" => conSaving.id = None

\* Questions are about to be replaced only where no attempt refers to them,
\* but for the attempts that came in between.
PutCounted ==
    conSaving # None /\ conSaving.step = "put" /\ conSaving.id \notin conMet
    /\ Constructor!Exists(conSaving.id) =>
        conRow[conSaving.id].attempt = None

Freezes == Constructor!QuestionsStand /\ PutCounted

\* What nothing overlaps: an assignment is not opened during a save or a
\* deletion, and the dialog of a deletion knows the form.
ConstructorApart ==
    /\ conSaving # None => ~Constructor!Loading
    /\ conSkip => Constructor!Loading
    /\ \A a \in Assignments : conLoading[a] # None => Constructor!Exists(a)
       /\ conDeleting = None
    /\ conDeleting # None =>
        /\ conDeleting.step # "failed" /\ conRow[conDeleting.id] # None
        /\ conDeleting.shown <=> conForm.id = conDeleting.id

\* The form edits an assignment that is there, or is about to leave it.
Leaving == conDeleting # None /\ conDeleting.id = conForm.id
FormSound == conForm.id # None => conForm.scoped /\ (Constructor!Exists(conForm.id) \/ Leaving)

Begins == conSaving.step \in {"post", "created"}

\* The save under way is that of the form, unless the form was reset.
SaveOfForm ==
    conSaving # None =>
        /\ IF Begins THEN conForm.id = None /\ conForm.scoped
           ELSE /\ conSaving.id # None
                /\ conForm.id = conSaving.id
                   \/ (conForm.id = None /\ conSaving.mode = "autosave")
        /\ conSaving.mode # "autosave" => conDeleting = None /\ conSaving.step # "failed"
        /\ Whole /\ ~conTimer /\ (Begins \/ conForm.id = conSaving.id)
           => conForm.questions = conSaving.questions

\* What the steps of a save have written is there.
SaveWritten ==
    conSaving # None =>
        /\ conSaving.step = "created" =>
              Constructor!Exists(conSaving.id)
              /\ (conDeleting # None => conDeleting.id # conSaving.id)
        /\ conSaving.step \in {"count", "put", "ok", "created"}
           /\ Constructor!Exists(conSaving.id) =>
              conRow[conSaving.id].published = conSaving.published
        /\ conSaving.step \in {"ok", "created"} /\ Constructor!Exists(conSaving.id)
           /\ conRow[conSaving.id].attempt = None =>
              conRow[conSaving.id].questions = conSaving.questions

\* What is published, or will be, was published on request.
OnRequest ==
    /\ Constructor!PublishedOnRequest
    /\ conForm.id # None /\ conForm.published => conForm.id \in conSwitched
    /\ conSaving # None /\ conSaving.id # None /\ conSaving.published
       => conSaving.id \in conSwitched
    /\ \A a \in Assignments :
        conLoading[a] # None /\ conLoading[a].step = "answered" /\ conLoading[a].data.published
        => a \in conSwitched

\* A complete form that says "saved" and has nothing left to save is the
\* server's.
Synced ==
    Whole /\ conHint = "saved" /\ ~conTimer /\ conSaving = None /\ conForm.id # None /\ ~Leaving =>
        /\ Constructor!Exists(conForm.id)
        /\ conRow[conForm.id].published = conForm.published
        /\ conRow[conForm.id].attempt = None => conRow[conForm.id].questions = conForm.questions

Quietly ==
    /\ Constructor!OwnQuestions /\ ConstructorApart /\ FormSound /\ SaveOfForm /\ SaveWritten
       /\ OnRequest /\ Synced

ConstructorInv ==
    /\ Constructor!TypeOK
    /\ ConstructorSaveSound
    /\ Freezes
    /\ conQuiet => Quietly

LEMMA ConstructorInit ==
    ASSUME Constructor!GoodConstants, Constructor!Init
    PROVE  ConstructorInv
<1>1. /\ conSaving = None /\ conDeleting = None /\ \A a \in Assignments : conLoading[a] = None
      /\ conForm = Constructor!Fresh /\ Constructor!Fresh \in Constructor!Form
         /\ conForm.id = None /\ conHint = "none" /\ conOwner = None
      /\ conSkip = FALSE /\ conMet = {}
  BY DEF Constructor!Init, Constructor!Fresh, Constructor!Form, Constructor!GoodConstants
<1>2. \A a \in Assignments : Constructor!Exists(a) => conRow[a] \in Constructor!Row
      /\ conRow[a].attempt = None
  BY DEF Constructor!Init, Constructor!Exists
<1>3. conSwitched = {a \in Assignments : Constructor!Exists(a) /\ conRow[a].published}
  BY DEF Constructor!Init
<1>4. Constructor!TypeOK
  <2>1. conRow \in [Assignments -> Constructor!Row \cup {None, Gone}]
        /\ conClicks \in 0 .. MaxClicks
    BY DEF Constructor!Init, Constructor!GoodConstants
  <2>2. conTimer \in BOOLEAN /\ conQuiet \in BOOLEAN /\ conSkip \in BOOLEAN
    BY Zenon DEF Constructor!Init
  <2>3. conLoading \in [Assignments -> Constructor!Load \cup {None}]
    BY DEF Constructor!Init
  <2> QED BY <1>1, <1>3, <2>1, <2>2, <2>3 DEF Constructor!TypeOK
<1>5. Freezes
  BY <1>1, <1>2 DEF Freezes, Constructor!QuestionsStand, PutCounted
<1>6. Quietly
  BY <1>1, <1>3 DEF Quietly, Constructor!OwnQuestions, ConstructorApart, FormSound, SaveOfForm,
                    SaveWritten, OnRequest,
                    Constructor!PublishedOnRequest, Synced, Constructor!Loading
<1> QED BY <1>1, <1>4, <1>5, <1>6 DEF ConstructorInv, ConstructorSaveSound

LEMMA EditStep ==
    ASSUME Constructor!GoodConstants, ConstructorInv,
           \/ \E q \in Contents \cup {None} : Constructor!EditQuestions(q)
           \/ Constructor!EditTitle \/ Constructor!ChooseScope \/ Constructor!Switch
    PROVE  ConstructorInv'
<1>1. /\ UNCHANGED <<conRow, conSkip, conHint, conSaving, conLoading, conDeleting, conOwner,
                     conMet>>
      /\ conClicks' = conClicks + 1 /\ conClicks < MaxClicks /\ conDeleting = None
      /\ conTimer' = (~conSkip /\ Whole')
         /\ conQuiet' = (conQuiet /\ ~Constructor!Loading)
      /\ conForm' \in Constructor!Form /\ conForm'.id = conForm.id
         /\ (conForm.scoped => conForm'.scoped)
      /\ conSwitched \subseteq conSwitched' /\ conSwitched' \subseteq Assignments
      /\ conForm'.id # None /\ conForm'.published => conForm.published
         \/ conForm.id \in conSwitched'
  <2>1. /\ UNCHANGED <<conRow, conSkip, conHint, conSaving, conLoading, conDeleting, conOwner,
                       conMet>>
        /\ conClicks' = conClicks + 1 /\ conClicks < MaxClicks /\ conDeleting = None
        /\ conTimer' = (~conSkip /\ Whole')
        /\ conQuiet' = (conQuiet /\ ~Constructor!Loading)
    BY DEF Constructor!EditQuestions, Constructor!EditTitle, Constructor!ChooseScope,
           Constructor!Switch, Constructor!Edit, Constructor!Autosave, Constructor!CanPersist,
           Constructor!Act, Whole
  <2>2. conForm \in Constructor!Form /\ conSwitched \subseteq Assignments
    BY DEF ConstructorInv, Constructor!TypeOK
  <2>3. conForm' \in Constructor!Form /\ conForm'.id = conForm.id
        /\ (conForm.scoped => conForm'.scoped)
    <3>1. CASE Constructor!EditTitle
      <4> DEFINE f == [conForm EXCEPT !.titled = ~@]
      <4>1. conForm' = f
        BY <3>1 DEF Constructor!EditTitle, Constructor!Edit
      <4>2. (~conForm.titled) \in BOOLEAN
        BY Zenon
      <4>3. f \in Constructor!Form /\ f.id = conForm.id /\ f.scoped = conForm.scoped
        BY <2>2, <4>2 DEF Constructor!Form
      <4> QED BY <4>1, <4>3
    <3>2. CASE Constructor!Switch
      <4> DEFINE f == [conForm EXCEPT !.published = ~@]
      <4>1. conForm' = f
        BY <3>2 DEF Constructor!Switch, Constructor!Edit
      <4>2. f \in Constructor!Form /\ f.id = conForm.id /\ f.scoped = conForm.scoped
        BY <2>2 DEF Constructor!Form
      <4> QED BY <4>1, <4>2
    <3>3. ASSUME NEW q \in Contents \cup {None}, Constructor!EditQuestions(q)
          PROVE  conForm' \in Constructor!Form /\ conForm'.id = conForm.id
                 /\ (conForm.scoped => conForm'.scoped)
      BY <2>2, <3>3 DEF Constructor!EditQuestions, Constructor!Edit, Constructor!Form
    <3>4. CASE Constructor!ChooseScope
      BY <2>2, <3>4 DEF Constructor!ChooseScope, Constructor!Edit, Constructor!Form
    <3> QED BY <3>1, <3>2, <3>3, <3>4
  <2>4. /\ conSwitched \subseteq conSwitched' /\ conSwitched' \subseteq Assignments
        /\ conForm'.id # None /\ conForm'.published => conForm.published
           \/ conForm.id \in conSwitched'
    <3>1. CASE Constructor!Switch
      <4>1. conSwitched' = IF conForm'.published THEN conSwitched \cup ({conForm.id} \ {None})
                           ELSE conSwitched
        BY <3>1 DEF Constructor!Switch
      <4>2. conForm.id \in Assignments \cup {None}
        BY <2>2 DEF Constructor!Form
      <4> QED BY <2>2, <2>3, <4>1, <4>2
    <3>2. CASE ~Constructor!Switch
      <4>1. conSwitched' = conSwitched /\ conForm'.published = conForm.published
        BY <2>2, <3>2 DEF Constructor!EditQuestions, Constructor!EditTitle,
               Constructor!ChooseScope, Constructor!Edit, Constructor!Form
      <4> QED BY <2>2, <4>1
    <3> QED BY <3>1, <3>2
  <2> QED BY <2>1, <2>3, <2>4
<1>2. conTimer' \in BOOLEAN /\ conQuiet' \in BOOLEAN
      /\ (conQuiet' => conQuiet /\ ~Constructor!Loading)
  BY <1>1, Zenon
<1>3. Constructor!TypeOK'
  BY <1>1, <1>2 DEF ConstructorInv, Constructor!TypeOK, Constructor!GoodConstants
<1>4. ConstructorSaveSound' /\ Freezes'
  BY <1>1 DEF ConstructorInv, ConstructorSaveSound, Freezes, Constructor!QuestionsStand,
              PutCounted, Constructor!Exists
<1>5. ASSUME conQuiet' PROVE Quietly'
  <2>1. Quietly /\ ~Constructor!Loading /\ ~conSkip
    BY <1>2, <1>5 DEF ConstructorInv, Quietly, ConstructorApart
  <2>2. Whole' => conTimer'
    BY <1>1, <2>1
  <2>3. Constructor!OwnQuestions' /\ ConstructorApart' /\ FormSound'
    BY <1>1, <2>1 DEF Quietly, Constructor!OwnQuestions, ConstructorApart, FormSound,
                      Constructor!Loading, Leaving, Constructor!Exists
  <2>4. SaveOfForm' /\ SaveWritten'
    BY <1>1, <2>1, <2>2
       DEF Quietly, SaveOfForm, SaveWritten, Begins, Constructor!Exists, FormSound
  <2>5. OnRequest'
    BY <1>1, <2>1 DEF Quietly, OnRequest, Constructor!PublishedOnRequest, Constructor!Exists
  <2>6. Synced'
    BY <1>1, <2>1, <2>2 DEF Quietly, Synced, FormSound
  <2> QED BY <2>3, <2>4, <2>5, <2>6 DEF Quietly
<1> QED BY <1>3, <1>4, <1>5 DEF ConstructorInv

\* An empty form.
LEMMA NewStep ==
    ASSUME Constructor!GoodConstants, ConstructorInv, Constructor!New
    PROVE  ConstructorInv'
<1>1. /\ UNCHANGED <<conRow, conSaving, conLoading, conDeleting, conMet, conSwitched>>
      /\ conClicks' = conClicks + 1 /\ conClicks < MaxClicks /\ conDeleting = None
      /\ conForm' = Constructor!Fresh /\ conSkip' = FALSE /\ conTimer' = FALSE
         /\ conHint' = "none" /\ conOwner' = None
      /\ conQuiet' = (conQuiet /\ ~Constructor!Busy)
  BY DEF Constructor!New, Constructor!ResetDraft, Constructor!Act
<1>2. conQuiet' \in BOOLEAN /\ (conQuiet' => conQuiet /\ ~Constructor!Busy)
  BY <1>1, Zenon
<1>3. Constructor!Fresh \in Constructor!Form /\ Constructor!Fresh.id = None
  BY DEF Constructor!Fresh, Constructor!Form, Constructor!GoodConstants
<1>4. Constructor!TypeOK'
  <2>1. conSkip' \in BOOLEAN /\ conTimer' \in BOOLEAN
    BY <1>1, Zenon
  <2>2. conClicks' \in 0 .. MaxClicks
    BY <1>1 DEF ConstructorInv, Constructor!TypeOK, Constructor!GoodConstants
  <2> QED BY <1>1, <1>2, <1>3, <2>1, <2>2 DEF ConstructorInv, Constructor!TypeOK
<1>5. ConstructorSaveSound' /\ Freezes'
  BY <1>1 DEF ConstructorInv, ConstructorSaveSound, Freezes, Constructor!QuestionsStand,
              PutCounted, Constructor!Exists
<1>6. ASSUME conQuiet' PROVE Quietly'
  <2>1. Quietly /\ ~Constructor!Loading /\ conSaving = None
    BY <1>2, <1>6 DEF ConstructorInv, Constructor!Busy
  <2>2. Constructor!OwnQuestions' /\ FormSound' /\ SaveOfForm' /\ SaveWritten' /\ Synced'
    BY <1>1, <1>3, <2>1 DEF Constructor!OwnQuestions, FormSound, SaveOfForm, SaveWritten, Synced
  <2>3. ConstructorApart' /\ OnRequest'
    BY <1>1, <1>3, <2>1 DEF Quietly, ConstructorApart, OnRequest, Constructor!Loading,
                            Constructor!Exists, Constructor!PublishedOnRequest
  <2> QED BY <2>2, <2>3 DEF Quietly
<1> QED BY <1>4, <1>5, <1>6 DEF ConstructorInv

LEMMA ConstructorOpenStep ==
    ASSUME Constructor!GoodConstants, ConstructorInv, NEW a \in Assignments,
           Constructor!Open(a)
    PROVE  ConstructorInv'
<1>1. /\ UNCHANGED <<conRow, conForm, conTimer, conHint, conSaving, conDeleting, conOwner,
                     conMet, conSwitched>>
      /\ conClicks' = conClicks + 1 /\ conClicks < MaxClicks /\ conDeleting = None
         /\ Constructor!Exists(a)
      /\ conLoading' = [conLoading EXCEPT ![a] = [step |-> "asked"]] /\ conSkip' = TRUE
      /\ conQuiet' = (conQuiet /\ ~Constructor!Busy)
  BY DEF Constructor!Open, Constructor!Act
<1>2. conQuiet' \in BOOLEAN /\ (conQuiet' => conQuiet /\ ~Constructor!Busy)
  BY <1>1, Zenon
<1>3. /\ [step |-> "asked"] \in Constructor!Load
         /\ conLoading' \in [Assignments -> Constructor!Load \cup {None}]
      /\ \A o \in Assignments : IF o = a THEN conLoading'[o] = [step |-> "asked"]
                                          ELSE conLoading'[o] = conLoading[o]
  BY <1>1 DEF ConstructorInv, Constructor!TypeOK, Constructor!Load
<1>4. Constructor!TypeOK'
  BY <1>1, <1>2, <1>3 DEF ConstructorInv, Constructor!TypeOK, Constructor!GoodConstants
<1>5. ConstructorSaveSound' /\ Freezes'
  BY <1>1 DEF ConstructorInv, ConstructorSaveSound, Freezes, Constructor!QuestionsStand,
              PutCounted, Constructor!Exists
<1>6. ASSUME conQuiet' PROVE Quietly'
  <2>1. Quietly /\ ~Constructor!Loading /\ conSaving = None
    BY <1>2, <1>6 DEF ConstructorInv, Constructor!Busy
  <2>2. ConstructorApart'
    BY <1>1, <1>3, <2>1 DEF Quietly, ConstructorApart, Constructor!Loading, Constructor!Exists,
                            Constructor!GoodConstants
  <2>3. Constructor!OwnQuestions' /\ FormSound' /\ SaveOfForm' /\ SaveWritten' /\ Synced'
    BY <1>1, <2>1 DEF Quietly, Constructor!OwnQuestions, FormSound, SaveOfForm, SaveWritten,
                      Synced, Leaving, Whole,
                      Constructor!Exists
  <2>4. OnRequest'
    BY <1>1, <1>3, <2>1
       DEF Quietly, OnRequest, Constructor!PublishedOnRequest, Constructor!Exists
  <2> QED BY <2>2, <2>3, <2>4 DEF Quietly
<1> QED BY <1>4, <1>5, <1>6 DEF ConstructorInv

LEMMA ConstructorReadStep ==
    ASSUME Constructor!GoodConstants, ConstructorInv, NEW a \in Assignments,
           Constructor!Read(a)
    PROVE  ConstructorInv'
<1>1. /\ UNCHANGED <<conClicks, conRow, conForm, conSkip, conTimer, conHint, conSaving,
                     conDeleting, conQuiet, conOwner, conMet,
                     conSwitched>>
      /\ conLoading[a] = [step |-> "asked"]
  BY DEF Constructor!Read, Constructor!past
<1>2. PICK l \in Constructor!Load :
         /\ conLoading' = [conLoading EXCEPT ![a] = l]
         /\ l.step = "answered" => Constructor!Exists(a) /\ l.data = conRow[a]
  <2>1. CASE Constructor!Exists(a)
    <3>1. conRow[a] \in Constructor!Row
      BY <2>1 DEF Constructor!Exists, ConstructorInv, Constructor!TypeOK
    <3> DEFINE l == [step |-> "answered", data |-> conRow[a]]
    <3>2. l \in Constructor!Load /\ l.data = conRow[a]
      BY <3>1 DEF Constructor!Load
    <3>3. conLoading' = [conLoading EXCEPT ![a] = l]
      BY <2>1 DEF Constructor!Read
    <3> QED BY <2>1, <3>2, <3>3
  <2>2. CASE ~Constructor!Exists(a)
    <3> DEFINE l == [step |-> "failed"]
    <3>1. l \in Constructor!Load /\ l.step # "answered"
      BY DEF Constructor!Load
    <3>2. conLoading' = [conLoading EXCEPT ![a] = l]
      BY <2>2 DEF Constructor!Read
    <3> QED BY <3>1, <3>2
  <2> QED BY <2>1, <2>2
<1>3. /\ conLoading' \in [Assignments -> Constructor!Load \cup {None}]
      /\ \A o \in Assignments : IF o = a THEN conLoading'[o] = l
         ELSE conLoading'[o] = conLoading[o]
  BY <1>2 DEF ConstructorInv, Constructor!TypeOK
<1>4. Constructor!TypeOK'
  BY <1>1, <1>3 DEF ConstructorInv, Constructor!TypeOK
<1>5. ConstructorSaveSound' /\ Freezes'
  BY <1>1 DEF ConstructorInv, ConstructorSaveSound, Freezes, Constructor!QuestionsStand,
              PutCounted, Constructor!Exists
<1>6. ASSUME conQuiet PROVE Quietly'
  <2>1. Quietly /\ conLoading[a] # None
    BY <1>1, <1>6 DEF ConstructorInv, Constructor!Load, Constructor!GoodConstants
  <2>2. \A o \in Assignments : conLoading'[o] # None <=> conLoading[o] # None
    BY <1>2, <1>3, <2>1 DEF Constructor!GoodConstants
  <2>3. ConstructorApart'
    BY <1>1, <2>1, <2>2 DEF Quietly, ConstructorApart, Constructor!Loading, Constructor!Exists
  <2>4. Constructor!OwnQuestions' /\ FormSound' /\ SaveOfForm' /\ SaveWritten' /\ Synced'
    BY <1>1, <2>1 DEF Quietly, Constructor!OwnQuestions, FormSound, SaveOfForm, SaveWritten,
                      Synced, Leaving, Whole,
                      Constructor!Exists, Begins
  <2>5. OnRequest'
    BY <1>1, <1>2, <1>3, <2>1
       DEF Quietly, OnRequest, Constructor!PublishedOnRequest, Constructor!Exists
  <2> QED BY <2>3, <2>4, <2>5 DEF Quietly
<1> QED BY <1>1, <1>4, <1>5, <1>6 DEF ConstructorInv

LEMMA ConstructorOpenedStep ==
    ASSUME Constructor!GoodConstants, ConstructorInv, NEW a \in Assignments,
           Constructor!Opened(a) \/ Constructor!OpenFails(a)
    PROVE  ConstructorInv'
<1>1. /\ UNCHANGED <<conClicks, conRow, conSaving, conDeleting, conMet, conSwitched>>
      /\ conLoading[a] # None /\ conLoading' = [conLoading EXCEPT ![a] = None]
         /\ conSkip' = FALSE
  BY DEF Constructor!Opened, Constructor!OpenFails
<1>2. /\ conLoading' \in [Assignments -> Constructor!Load \cup {None}]
      /\ \A o \in Assignments : IF o = a THEN conLoading'[o] = None
         ELSE conLoading'[o] = conLoading[o]
  BY <1>1 DEF ConstructorInv, Constructor!TypeOK
<1>3. ConstructorSaveSound' /\ Freezes'
  BY <1>1 DEF ConstructorInv, ConstructorSaveSound, Freezes, Constructor!QuestionsStand,
              PutCounted, Constructor!Exists
<1>4. CASE Constructor!OpenFails(a)
  <2>1. UNCHANGED <<conForm, conTimer, conHint, conOwner>> /\ conQuiet' = FALSE
    BY <1>4 DEF Constructor!OpenFails
  <2>2. Constructor!TypeOK'
    BY <1>1, <1>2, <2>1 DEF ConstructorInv, Constructor!TypeOK
  <2> QED BY <1>3, <2>1, <2>2 DEF ConstructorInv
<1>5. CASE Constructor!Opened(a)
  <2>1. /\ conLoading[a].step = "answered" /\ conHint' = "opened" /\ conOwner' = a
           /\ conQuiet' = conQuiet
        /\ conForm' = [id |-> a, questions |-> conLoading[a].data.questions,
                       published |-> conLoading[a].data.published, titled |-> TRUE,
                       scoped |-> TRUE]
    BY <1>5 DEF Constructor!Opened
  <2>2. conTimer' \in BOOLEAN
    <3>1. PICK suspended \in BOOLEAN :
          conTimer' = (~suspended /\ Constructor!CanPersist(conForm'))
      BY <1>5 DEF Constructor!Opened, Constructor!Autosave
    <3> QED BY <3>1, Zenon
  <2>3. conLoading[a] \in Constructor!Load /\ conLoading[a].data \in Constructor!Row
    BY <1>1, <2>1 DEF ConstructorInv, Constructor!TypeOK, Constructor!Load
  <2>4. conForm' \in Constructor!Form /\ conForm'.id = a
        /\ conForm'.published = conLoading[a].data.published
        /\ conForm'.scoped
    BY <2>1, <2>3 DEF Constructor!Form, Constructor!Row
  <2>5. Constructor!TypeOK'
    BY <1>1, <1>2, <2>1, <2>2, <2>4 DEF ConstructorInv, Constructor!TypeOK
  <2>6. ASSUME conQuiet PROVE Quietly'
    <3>1. Quietly /\ conSaving = None /\ conDeleting = None /\ Constructor!Exists(a) /\ a # None
      BY <1>1, <2>6 DEF ConstructorInv, Quietly, ConstructorApart, Constructor!Loading,
                        Constructor!GoodConstants
    <3>2. Constructor!OwnQuestions' /\ FormSound' /\ SaveOfForm' /\ SaveWritten' /\ Synced'
      BY <1>1, <2>1, <2>4, <3>1
         DEF Quietly, Constructor!OwnQuestions, FormSound, SaveOfForm, SaveWritten,
                                    Synced, Constructor!Exists
    <3>3. ConstructorApart'
      BY <1>1, <1>2, <3>1 DEF Quietly, ConstructorApart, Constructor!Exists
    <3>4. OnRequest'
      BY <1>1, <1>2, <2>1, <2>4, <3>1
         DEF Quietly, OnRequest, Constructor!PublishedOnRequest, Constructor!Exists
    <3> QED BY <3>2, <3>3, <3>4 DEF Quietly
  <2> QED BY <1>3, <2>1, <2>5, <2>6 DEF ConstructorInv
<1> QED BY <1>4, <1>5

\* A save begins.
LEMMA PersistStep ==
    ASSUME Constructor!GoodConstants, ConstructorInv,
           NEW mode \in {"draft", "publish", "autosave"}, Constructor!Persist(mode),
           conTimer' \in BOOLEAN, conQuiet' \in BOOLEAN, conQuiet' => conQuiet
           /\ ~Constructor!Loading,
           conTimer' = conTimer \/ mode = "autosave",
           mode # "autosave" => conDeleting = None,
           conSwitched' = IF mode = "publish" THEN conSwitched \cup ({conForm.id} \ {None})
           ELSE conSwitched,
           conClicks' \in 0 .. MaxClicks
    PROVE  ConstructorInv'
<1> DEFINE on == CASE mode = "publish" -> TRUE
                   [] mode = "draft" -> FALSE
                   [] OTHER -> conForm.id # None /\ conForm.published
           s == [step |-> IF conForm.id = None THEN "post" ELSE "patch",
                 id |-> conForm.id, questions |-> conForm.questions,
                 published |-> on, mode |-> mode, of |-> conOwner]
<1>1. /\ UNCHANGED <<conRow, conForm, conSkip, conLoading, conDeleting, conOwner, conMet>>
      /\ conSaving = None /\ conForm.scoped /\ conForm.questions # None /\ conSaving' = s
      /\ conHint' \in {conHint, "saving"} /\ (mode = "autosave" => conHint' = "saving")
  BY DEF Constructor!Persist, Constructor!CanPersist
<1>2. on \in BOOLEAN /\ conForm.id \in Assignments \cup {None} /\ conForm.questions \in Contents
      /\ (on /\ conForm.id # None => mode = "publish" \/ conForm.published)
  <2>1. conForm.id \in Assignments \cup {None} /\ conForm.questions \in Contents
        /\ conForm.published \in BOOLEAN
    BY <1>1 DEF ConstructorInv, Constructor!TypeOK, Constructor!Form
  <2>2. CASE mode = "publish"
    BY <2>1, <2>2
  <2>3. CASE mode = "draft"
    BY <2>1, <2>3
  <2>4. CASE mode = "autosave"
    <3>1. on = (conForm.id # None /\ conForm.published)
      BY <2>4
    <3>2. on \in BOOLEAN /\ (on => conForm.published)
      BY <3>1, Zenon
    <3> QED BY <2>1, <3>2
  <2> QED BY <2>2, <2>3, <2>4
<1> HIDE DEF on
<1>3. /\ s \in Constructor!Save /\ s.id = conForm.id /\ s.questions = conForm.questions
         /\ s.published = on
      /\ s.mode = mode /\ s.of = conOwner
      /\ s.step = IF conForm.id = None THEN "post" ELSE "patch"
  BY <1>2 DEF Constructor!Save, ConstructorInv, Constructor!TypeOK
<1> HIDE DEF s
<1>4. s # None
  BY <1>3 DEF Constructor!GoodConstants
<1>5. conSwitched \subseteq conSwitched' /\ conSwitched' \subseteq Assignments
      /\ (mode = "publish" /\ conForm.id # None => conForm.id \in conSwitched')
  BY <1>2 DEF ConstructorInv, Constructor!TypeOK
<1>6. Constructor!TypeOK'
  BY <1>1, <1>3, <1>5 DEF ConstructorInv, Constructor!TypeOK
<1>7. ConstructorSaveSound' /\ Freezes'
  BY <1>1, <1>3 DEF ConstructorInv, ConstructorSaveSound, Freezes, Constructor!QuestionsStand,
                    PutCounted, Constructor!Exists
<1>8. ASSUME conQuiet' PROVE Quietly'
  <2>1. Quietly /\ ~Constructor!Loading
    BY <1>8 DEF ConstructorInv
  <2>2. Constructor!OwnQuestions' /\ ConstructorApart' /\ FormSound'
    BY <1>1, <1>3, <2>1 DEF Quietly, Constructor!OwnQuestions, ConstructorApart, FormSound,
                            Constructor!Loading, Leaving, Constructor!Exists
  <2>3. SaveOfForm' /\ SaveWritten'
    BY <1>1, <1>3, <2>1 DEF SaveOfForm, SaveWritten, Begins
  <2>4. OnRequest'
    BY <1>1, <1>2, <1>3, <1>5, <2>1
       DEF Quietly, OnRequest, Constructor!PublishedOnRequest, Constructor!Exists
  <2>5. Synced'
    BY <1>1, <1>4 DEF Synced
  <2> QED BY <2>2, <2>3, <2>4, <2>5 DEF Quietly
<1> QED BY <1>6, <1>7, <1>8 DEF ConstructorInv

LEMMA ConstructorClickStep ==
    ASSUME Constructor!GoodConstants, ConstructorInv, NEW mode \in {"draft", "publish"},
           Constructor!ClickSave(mode)
    PROVE  ConstructorInv'
<1>1. /\ Constructor!Persist(mode) /\ conTimer' = conTimer /\ conDeleting = None
      /\ conClicks' = conClicks + 1 /\ conClicks < MaxClicks
      /\ conSwitched' = IF mode = "publish" THEN conSwitched \cup ({conForm.id} \ {None})
         ELSE conSwitched
      /\ conQuiet' = (conQuiet /\ ~Constructor!Loading)
  BY DEF Constructor!ClickSave, Constructor!Act
<1>2. conTimer' \in BOOLEAN /\ conClicks' \in 0 .. MaxClicks
  BY <1>1 DEF ConstructorInv, Constructor!TypeOK, Constructor!GoodConstants
<1>3. conQuiet' \in BOOLEAN /\ (conQuiet' => conQuiet /\ ~Constructor!Loading)
  BY <1>1, Zenon
<1> QED BY <1>1, <1>2, <1>3, PersistStep

LEMMA TimerStep ==
    ASSUME Constructor!GoodConstants, ConstructorInv, Constructor!TimerFires
    PROVE  ConstructorInv'
<1>1. conClicks' = conClicks /\ conSwitched' = conSwitched /\ conTimer' = FALSE
  BY DEF Constructor!TimerFires
<1>2. conTimer' \in BOOLEAN
  BY <1>1, Zenon
<1>3. CASE conSkip \/ conSaving # None
  <2>1. UNCHANGED <<conRow, conForm, conSkip, conHint, conSaving, conLoading, conDeleting,
                    conOwner, conMet>>
        /\ conQuiet' = FALSE
    BY <1>3 DEF Constructor!TimerFires
  <2>2. conQuiet' \in BOOLEAN /\ ~conQuiet'
    BY <2>1, Zenon
  <2>3. Constructor!TypeOK'
    BY <1>1, <1>2, <2>1, <2>2 DEF ConstructorInv, Constructor!TypeOK
  <2>4. ConstructorSaveSound' /\ Freezes'
    BY <2>1 DEF ConstructorInv, ConstructorSaveSound, Freezes, Constructor!QuestionsStand,
                PutCounted, Constructor!Exists
  <2> QED BY <2>2, <2>3, <2>4 DEF ConstructorInv
<1>4. CASE ~(conSkip \/ conSaving # None)
  <2>1. Constructor!Persist("autosave") /\ conQuiet' = (conQuiet /\ ~Constructor!Loading)
    BY <1>4 DEF Constructor!TimerFires
  <2>2. conQuiet' \in BOOLEAN /\ (conQuiet' => conQuiet /\ ~Constructor!Loading)
    BY <2>1, Zenon
  <2>3. conClicks' \in 0 .. MaxClicks
    BY <1>1 DEF ConstructorInv, Constructor!TypeOK
  <2> QED BY <1>1, <1>2, <2>1, <2>2, <2>3, PersistStep
<1> QED BY <1>3, <1>4

\* The answer to a save.
LEMMA ConstructorSavedStep ==
    ASSUME Constructor!GoodConstants, ConstructorInv, Constructor!Saved
    PROVE  ConstructorInv'
<1> DEFINE created == conSaving.step = "created"
<1>1. /\ UNCHANGED <<conClicks, conRow, conSkip, conLoading, conDeleting, conQuiet, conMet,
                     conSwitched>>
      /\ conSaving # None /\ conSaving.step \in {"ok", "created"}
      /\ conForm' = [conForm EXCEPT !.published = conSaving.published,
                                    !.id = IF created THEN conSaving.id ELSE @]
      /\ conOwner' = IF created /\ conOwner = None THEN conSaving.id ELSE conOwner
      /\ IF conForm'.published = conForm.published THEN conTimer' = conTimer
         ELSE conTimer' = (~conSkip /\ Whole')
      /\ conHint' = "saved" /\ conSaving' = None
  BY DEF Constructor!Saved, Constructor!Autosave, Constructor!CanPersist, Whole
<1>2. conSaving \in Constructor!Save /\ conForm \in Constructor!Form
  BY <1>1 DEF ConstructorInv, Constructor!TypeOK
<1>3. /\ conForm' \in Constructor!Form /\ conForm'.published = conSaving.published
      /\ conForm'.id = IF created THEN conSaving.id ELSE conForm.id
      /\ conForm'.questions = conForm.questions /\ conForm'.scoped = conForm.scoped
      /\ conForm'.titled = conForm.titled
  BY <1>1, <1>2 DEF Constructor!Form, Constructor!Save
<1>4. conTimer' \in BOOLEAN
  <2>1. CASE conTimer' = conTimer
    BY <2>1 DEF ConstructorInv, Constructor!TypeOK
  <2>2. CASE conTimer' = (~conSkip /\ Whole')
    BY <2>2, Zenon
  <2> QED BY <1>1, <2>1, <2>2
<1>5. conOwner' \in Assignments \cup {None}
  BY <1>1, <1>2 DEF ConstructorInv, Constructor!TypeOK, Constructor!Save
<1>6. Constructor!TypeOK'
  BY <1>1, <1>3, <1>4, <1>5 DEF ConstructorInv, Constructor!TypeOK
<1>7. ConstructorSaveSound' /\ Freezes'
  BY <1>1 DEF ConstructorInv, ConstructorSaveSound, Freezes, Constructor!QuestionsStand,
              PutCounted, Constructor!Exists
<1>8. ASSUME conQuiet PROVE Quietly'
  <2>1. Quietly /\ ConstructorSaveSound /\ ~conSkip
    BY <1>1, <1>8 DEF ConstructorInv, Quietly, ConstructorApart
  <2>2. Constructor!OwnQuestions'
    BY <1>1, <1>3, <2>1 DEF Quietly, Constructor!OwnQuestions, SaveOfForm, Begins
  <2>3. created => /\ conForm.id = None /\ conForm.scoped /\ conSaving.id # None
                   /\ Constructor!Exists(conSaving.id)
                      /\ (conDeleting # None => conDeleting.id # conSaving.id)
    BY <1>1, <2>1 DEF Quietly, SaveOfForm, SaveWritten, ConstructorSaveSound, Begins
  <2>4. ConstructorApart'
    BY <1>1, <1>2, <1>3, <2>1, <2>3 DEF Quietly, ConstructorApart, Constructor!Loading,
                                        Constructor!Exists, ConstructorInv, Constructor!TypeOK,
                                        Constructor!Deletion,
                                       Constructor!GoodConstants
  <2>5. FormSound'
    BY <1>1, <1>3, <2>1, <2>3 DEF Quietly, FormSound, Leaving, Constructor!Exists
  <2>6. OnRequest'
    BY <1>1, <1>3, <2>1, <2>3
       DEF Quietly, OnRequest, Constructor!PublishedOnRequest, Constructor!Exists, SaveOfForm,
                                  Begins
  <2>7. ASSUME Whole', ~conTimer', conForm'.id # None, ~Leaving'
        PROVE  /\ Constructor!Exists(conForm'.id)
                  /\ conRow[conForm'.id].published = conForm'.published
               /\ conRow[conForm'.id].attempt = None
                  => conRow[conForm'.id].questions = conForm'.questions
    <3>1. conForm.scoped /\ conForm'.id = conSaving.id
      BY <1>1, <1>3, <2>1, <2>3, <2>7 DEF Quietly, FormSound, SaveOfForm, Begins
    <3>2. ~conTimer /\ Whole
      BY <1>1, <1>3, <2>1, <2>7, <3>1 DEF Whole
    <3>3. conForm.questions = conSaving.questions
      BY <1>1, <1>3, <2>1, <3>1, <3>2 DEF Quietly, SaveOfForm, Begins
    <3>4. Constructor!Exists(conSaving.id)
      BY <1>1, <1>3, <2>1, <2>3, <2>7, <3>1 DEF Quietly, FormSound, Leaving
    <3> QED BY <1>1, <1>3, <2>1, <3>1, <3>3, <3>4 DEF Quietly, SaveWritten
  <2>8. Synced'
    BY <1>1, <2>7 DEF Synced, Constructor!Exists
  <2>9. SaveOfForm' /\ SaveWritten'
    BY <1>1 DEF SaveOfForm, SaveWritten
  <2> QED BY <2>2, <2>4, <2>5, <2>6, <2>8, <2>9 DEF Quietly
<1> QED BY <1>1, <1>6, <1>7, <1>8 DEF ConstructorInv

LEMMA NotSavedStep ==
    ASSUME Constructor!GoodConstants, ConstructorInv, Constructor!NotSaved
    PROVE  ConstructorInv'
<1>1. /\ UNCHANGED <<conClicks, conRow, conForm, conSkip, conTimer, conLoading, conDeleting,
                     conQuiet, conOwner, conMet, conSwitched>>
      /\ conSaving # None /\ conSaving.step = "failed" /\ conSaving' = None
      /\ conHint' = IF conSaving.mode = "autosave" THEN "failed" ELSE conHint
  BY DEF Constructor!NotSaved, Constructor!past
<1>2. Constructor!TypeOK'
  BY <1>1 DEF ConstructorInv, Constructor!TypeOK
<1>3. ConstructorSaveSound' /\ Freezes'
  BY <1>1 DEF ConstructorInv, ConstructorSaveSound, Freezes, Constructor!QuestionsStand,
              PutCounted, Constructor!Exists
<1>4. ASSUME conQuiet PROVE Quietly'
  <2>1. Quietly /\ conHint' = "failed"
    BY <1>1, <1>4 DEF ConstructorInv, Quietly, SaveOfForm
  <2>2. Constructor!OwnQuestions' /\ ConstructorApart' /\ FormSound'
    BY <1>1, <2>1 DEF Quietly, Constructor!OwnQuestions, ConstructorApart, FormSound,
                      Constructor!Loading, Leaving, Constructor!Exists
  <2>3. SaveOfForm' /\ SaveWritten' /\ Synced'
    BY <1>1, <2>1 DEF SaveOfForm, SaveWritten, Synced
  <2>4. OnRequest'
    BY <1>1, <2>1 DEF Quietly, OnRequest, Constructor!PublishedOnRequest, Constructor!Exists
  <2> QED BY <2>2, <2>3, <2>4 DEF Quietly
<1> QED BY <1>1, <1>2, <1>3, <1>4 DEF ConstructorInv

\* A deletion, from the dialog to its answer.
LEMMA ConstructorDeleteStep ==
    ASSUME Constructor!GoodConstants, ConstructorInv, NEW a \in Assignments,
           Constructor!Delete(a)
    PROVE  ConstructorInv'
<1> DEFINE d == [id |-> a, step |-> "asked", shown |-> conForm.id = a]
<1>1. /\ UNCHANGED <<conRow, conForm, conSkip, conTimer, conHint, conSaving, conLoading,
                     conOwner, conMet, conSwitched>>
      /\ conClicks' = conClicks + 1 /\ conClicks < MaxClicks /\ Constructor!Exists(a)
         /\ conDeleting' = d
      /\ conQuiet' = (conQuiet /\ ~Constructor!Busy)
  BY DEF Constructor!Delete, Constructor!Act
<1>2. conQuiet' \in BOOLEAN /\ (conQuiet' => conQuiet /\ ~Constructor!Busy)
  BY <1>1, Zenon
<1>3. /\ d \in Constructor!Deletion /\ d.id = a /\ d.step = "asked"
         /\ (d.shown <=> conForm.id = a)
  BY DEF Constructor!Deletion
<1> HIDE DEF d
<1>4. Constructor!TypeOK'
  BY <1>1, <1>2, <1>3 DEF ConstructorInv, Constructor!TypeOK, Constructor!GoodConstants
<1>5. ConstructorSaveSound' /\ Freezes'
  BY <1>1 DEF ConstructorInv, ConstructorSaveSound, Freezes, Constructor!QuestionsStand,
              PutCounted, Constructor!Exists
<1>6. ASSUME conQuiet' PROVE Quietly'
  <2>1. Quietly /\ ~Constructor!Loading /\ conSaving = None
    BY <1>2, <1>6 DEF ConstructorInv, Constructor!Busy
  <2>2. ConstructorApart'
    BY <1>1, <1>3, <2>1 DEF Quietly, ConstructorApart, Constructor!Loading, Constructor!Exists
  <2>3. Constructor!OwnQuestions' /\ SaveOfForm' /\ SaveWritten'
    BY <1>1, <2>1 DEF Quietly, Constructor!OwnQuestions, SaveOfForm, SaveWritten
  <2>4. FormSound' /\ Synced'
    BY <1>1, <1>3, <2>1 DEF Quietly, FormSound, Synced, Leaving, Constructor!Exists,
                            Constructor!Act, Whole, Constructor!Delete
  <2>5. OnRequest'
    BY <1>1, <2>1 DEF Quietly, OnRequest, Constructor!PublishedOnRequest, Constructor!Exists
  <2> QED BY <2>2, <2>3, <2>4, <2>5 DEF Quietly
<1> QED BY <1>4, <1>5, <1>6 DEF ConstructorInv

LEMMA RemovedStep ==
    ASSUME Constructor!GoodConstants, ConstructorInv, Constructor!Removed
    PROVE  ConstructorInv'
<1>1. /\ UNCHANGED <<conClicks, conForm, conSkip, conTimer, conHint, conSaving, conLoading,
                     conOwner, conMet, conSwitched>>
      /\ conDeleting # None /\ conDeleting.step = "asked"
         /\ conDeleting \in Constructor!Deletion
  BY DEF Constructor!Removed, ConstructorInv, Constructor!TypeOK
<1>2. ASSUME conQuiet' = FALSE, conRow' = conRow,
             conDeleting' = [conDeleting EXCEPT !.step = "failed"]
      PROVE  ConstructorInv'
  <2>1. conQuiet' \in BOOLEAN /\ ~conQuiet'
    BY <1>2, Zenon
  <2>2. conDeleting' \in Constructor!Deletion
    BY <1>1, <1>2 DEF Constructor!Deletion
  <2>3. Constructor!TypeOK'
    BY <1>1, <1>2, <2>1, <2>2 DEF ConstructorInv, Constructor!TypeOK
  <2>4. ConstructorSaveSound' /\ Freezes'
    BY <1>1, <1>2 DEF ConstructorInv, ConstructorSaveSound, Freezes, Constructor!QuestionsStand,
                      PutCounted, Constructor!Exists
  <2> QED BY <2>1, <2>3, <2>4 DEF ConstructorInv
<1>3. ASSUME conQuiet' = conQuiet, conRow' = [conRow EXCEPT ![conDeleting.id] = Gone],
             conDeleting' = [conDeleting EXCEPT !.step = "ok"]
      PROVE  ConstructorInv'
  <2>1. /\ conDeleting' \in Constructor!Deletion /\ conDeleting'.id = conDeleting.id
           /\ conDeleting'.step = "ok"
        /\ conDeleting'.shown = conDeleting.shown /\ conDeleting.id \in Assignments
           /\ conDeleting' # None
    BY <1>1, <1>3 DEF Constructor!Deletion, Constructor!GoodConstants
  <2>2. \A a \in Assignments : IF a = conDeleting.id THEN conRow'[a] = Gone
        ELSE conRow'[a] = conRow[a]
    BY <1>3 DEF ConstructorInv, Constructor!TypeOK
  <2>3. Gone # None
    BY DEF Constructor!GoodConstants
  <2>4. Constructor!TypeOK'
    BY <1>1, <1>3, <2>1 DEF ConstructorInv, Constructor!TypeOK
  <2>5. \A a \in Assignments : Constructor!Exists(a)' => Constructor!Exists(a)
        /\ conRow'[a] = conRow[a]
    BY <2>2 DEF Constructor!Exists
  <2>6. conSaving # None => conSaving.id \in Assignments \cup {None}
    BY DEF ConstructorInv, Constructor!TypeOK, Constructor!Save
  <2>7. ConstructorSaveSound' /\ Freezes'
    <3>1. Constructor!QuestionsStand'
      BY <1>1, <2>5 DEF ConstructorInv, Freezes, Constructor!QuestionsStand
    <3>2. PutCounted'
      BY <1>1, <2>5, <2>6 DEF ConstructorInv, Freezes, PutCounted, ConstructorSaveSound
    <3> QED BY <1>1, <3>1, <3>2 DEF ConstructorInv, ConstructorSaveSound, Freezes
  <2>8. ASSUME conQuiet PROVE Quietly'
    <3>1. Quietly /\ ConstructorSaveSound
      BY <2>8 DEF ConstructorInv
    <3>2. conForm.id \in Assignments \cup {None}
      BY DEF ConstructorInv, Constructor!TypeOK, Constructor!Form
    <3>3. \A a \in Assignments : Constructor!Exists(a) /\ a # conDeleting.id
          => Constructor!Exists(a)'
      BY <2>2 DEF Constructor!Exists
    <3>4. ConstructorApart'
      BY <1>1, <2>1, <2>2, <2>3, <3>1 DEF Quietly, ConstructorApart, Constructor!Loading
    <3>5. Constructor!OwnQuestions' /\ SaveOfForm'
      <4>1. conSaving # None => conSaving.mode = "autosave"
        BY <1>1, <3>1 DEF Quietly, SaveOfForm
      <4>2. SaveOfForm'
        BY <1>1, <3>1, <4>1 DEF Quietly, SaveOfForm, Begins, Whole
      <4>3. Constructor!OwnQuestions'
        BY <1>1, <1>3, <3>1 DEF Quietly, Constructor!OwnQuestions
      <4> QED BY <4>2, <4>3
    <3>6. FormSound'
      BY <1>1, <2>1, <3>1, <3>2, <3>3 DEF Quietly, FormSound, Leaving
    <3>7. SaveWritten'
      BY <1>1, <2>1, <2>5, <2>6, <3>1, <3>3 DEF Quietly, SaveWritten, ConstructorSaveSound
    <3>8. OnRequest'
      BY <1>1, <2>5, <3>1 DEF Quietly, OnRequest, Constructor!PublishedOnRequest
    <3>9. Synced'
      <4> SUFFICES ASSUME Whole, conHint = "saved", ~conTimer, conSaving = None,
                          conForm.id # None, conForm.id # conDeleting.id
                   PROVE  /\ Constructor!Exists(conForm.id)'
                          /\ conRow'[conForm.id].published = conForm.published
                          /\ conRow'[conForm.id].attempt = None
                             => conRow'[conForm.id].questions = conForm.questions
        BY <1>1, <2>1 DEF Synced, Leaving, Whole, Constructor!Exists
      <4>1. /\ Constructor!Exists(conForm.id)
               /\ conRow[conForm.id].published = conForm.published
            /\ conRow[conForm.id].attempt = None
               => conRow[conForm.id].questions = conForm.questions
        BY <3>1 DEF Quietly, Synced, Leaving
      <4>2. conRow'[conForm.id] = conRow[conForm.id]
        BY <2>2, <3>2
      <4>3. Constructor!Exists(conForm.id)'
        BY <1>1, <4>1, <4>2 DEF Constructor!Exists
      <4> QED BY <4>1, <4>2, <4>3
    <3> QED BY <3>1, <3>4, <3>5, <3>6, <3>7, <3>8, <3>9 DEF Quietly
  <2> QED BY <1>3, <2>4, <2>7, <2>8 DEF ConstructorInv
<1> QED BY <1>2, <1>3 DEF Constructor!Removed

LEMMA DeletedStep ==
    ASSUME Constructor!GoodConstants, ConstructorInv, Constructor!Deleted
    PROVE  ConstructorInv'
<1>1. /\ UNCHANGED <<conClicks, conRow, conSaving, conLoading, conQuiet, conMet, conSwitched>>
      /\ conDeleting # None /\ conDeleting.step # "asked" /\ conDeleting' = None
  BY DEF Constructor!Deleted
<1>2. ConstructorSaveSound' /\ Freezes'
  BY <1>1 DEF ConstructorInv, ConstructorSaveSound, Freezes, Constructor!QuestionsStand,
              PutCounted, Constructor!Exists
<1>3. CASE conDeleting.step = "ok" /\ conDeleting.shown
  <2>1. conForm' = Constructor!Fresh /\ conSkip' = FALSE /\ conTimer' = FALSE
        /\ conHint' = "none" /\ conOwner' = None
    BY <1>3 DEF Constructor!Deleted, Constructor!ResetDraft
  <2>2. conSkip' \in BOOLEAN /\ conTimer' \in BOOLEAN
    BY <2>1, Zenon
  <2>3. Constructor!Fresh \in Constructor!Form /\ Constructor!Fresh.id = None
    BY DEF Constructor!Fresh, Constructor!Form, Constructor!GoodConstants
  <2>4. Constructor!TypeOK'
    BY <1>1, <2>1, <2>2, <2>3 DEF ConstructorInv, Constructor!TypeOK
  <2>5. ASSUME conQuiet PROVE Quietly'
    <3>1. Quietly /\ conForm.id = conDeleting.id /\ conForm.id # None
      BY <1>1, <1>3, <2>5 DEF ConstructorInv, Quietly, ConstructorApart, Constructor!TypeOK,
                              Constructor!Deletion, Constructor!GoodConstants
    <3>2. conSaving # None => ~Begins /\ conSaving.mode = "autosave" /\ conSaving.id # None
      BY <1>1, <3>1 DEF Quietly, SaveOfForm
    <3>3. Constructor!OwnQuestions' /\ FormSound' /\ Synced'
      BY <1>1, <2>1, <2>3, <3>1 DEF Quietly, Constructor!OwnQuestions, FormSound, Synced
    <3>4. ConstructorApart' /\ OnRequest'
      BY <1>1, <2>1, <2>3, <3>1 DEF Quietly, ConstructorApart, OnRequest,
                                    Constructor!PublishedOnRequest, Constructor!Loading,
                                    Constructor!Exists
    <3>5. SaveOfForm'
      BY <1>1, <2>1, <2>3, <3>2 DEF SaveOfForm, Begins
    <3>6. SaveWritten'
      BY <1>1, <3>1 DEF Quietly, SaveWritten, Constructor!Exists
    <3> QED BY <3>3, <3>4, <3>5, <3>6 DEF Quietly
  <2> QED BY <1>1, <1>2, <2>4, <2>5 DEF ConstructorInv
<1>4. CASE ~(conDeleting.step = "ok" /\ conDeleting.shown)
  <2>1. UNCHANGED <<conForm, conSkip, conTimer, conHint, conOwner>>
    BY <1>4 DEF Constructor!Deleted
  <2>2. Constructor!TypeOK'
    BY <1>1, <2>1 DEF ConstructorInv, Constructor!TypeOK
  <2>3. ASSUME conQuiet PROVE Quietly'
    <3>1. Quietly /\ ~Leaving
      BY <1>1, <1>4, <2>3 DEF ConstructorInv, Quietly, ConstructorApart, Constructor!TypeOK,
                              Constructor!Deletion, Leaving
    <3>2. Constructor!OwnQuestions' /\ FormSound' /\ Synced'
      BY <1>1, <2>1, <3>1
         DEF Quietly, Constructor!OwnQuestions, FormSound, Synced, Whole, Constructor!Exists
    <3>3. ConstructorApart' /\ OnRequest'
      BY <1>1, <2>1, <3>1 DEF Quietly, ConstructorApart, OnRequest,
                              Constructor!PublishedOnRequest, Constructor!Loading,
                              Constructor!Exists
    <3>4. SaveOfForm' /\ SaveWritten'
      BY <1>1, <2>1, <3>1 DEF Quietly, SaveOfForm, SaveWritten, Begins, Whole, Constructor!Exists
    <3> QED BY <3>2, <3>3, <3>4 DEF Quietly
  <2> QED BY <1>1, <1>2, <2>2, <2>3 DEF ConstructorInv
<1> QED BY <1>3, <1>4

\* The steps of a save.
LEMMA CreatedStep ==
    ASSUME Constructor!GoodConstants, ConstructorInv, Constructor!Created
    PROVE  ConstructorInv'
<1>1. /\ UNCHANGED <<conClicks, conForm, conSkip, conTimer, conHint, conLoading, conDeleting,
                     conQuiet, conOwner, conMet>>
      /\ conSaving # None /\ conSaving.step = "post" /\ conSaving \in Constructor!Save
  BY DEF Constructor!Created, Constructor!At, ConstructorInv, Constructor!TypeOK
<1>2. PICK a \in Assignments :
         /\ conRow[a] = None
         /\ conRow' = [conRow EXCEPT ![a] = [questions |-> conSaving.questions,
                                             published |-> conSaving.published,
                                             attempt |-> None]]
         /\ conSaving' = [conSaving EXCEPT !.step = "created", !.id = a, !.of = a]
         /\ conSwitched' = IF conSaving.published THEN conSwitched \cup {a} ELSE conSwitched
  BY DEF Constructor!Created
<1> DEFINE r == [questions |-> conSaving.questions, published |-> conSaving.published,
                 attempt |-> None]
<1>3. /\ r \in Constructor!Row /\ r.questions = conSaving.questions
         /\ r.published = conSaving.published
      /\ r.attempt = None /\ r \notin {None, Gone}
  <2>1. r \in Constructor!Row
    BY <1>1 DEF Constructor!Row, Constructor!Save
  <2> QED BY <2>1 DEF Constructor!GoodConstants
<1>4. \A o \in Assignments : IF o = a THEN conRow'[o] = r ELSE conRow'[o] = conRow[o]
  BY <1>2 DEF ConstructorInv, Constructor!TypeOK
<1>5. conRow' \in [Assignments -> Constructor!Row \cup {None, Gone}]
  BY <1>2, <1>3 DEF ConstructorInv, Constructor!TypeOK
<1> HIDE DEF r
<1>6. /\ conSaving' \in Constructor!Save /\ conSaving'.id = a /\ conSaving'.of = a
         /\ conSaving'.step = "created"
      /\ conSaving'.questions = conSaving.questions
         /\ conSaving'.published = conSaving.published
      /\ conSaving'.mode = conSaving.mode /\ conSaving' # None /\ a # None
  BY <1>1, <1>2 DEF Constructor!Save, Constructor!GoodConstants
<1>7. conSwitched' \subseteq Assignments /\ conSwitched \subseteq conSwitched'
      /\ (conSaving.published => a \in conSwitched')
  BY <1>2 DEF ConstructorInv, Constructor!TypeOK
<1>8. Constructor!TypeOK'
  BY <1>1, <1>5, <1>6, <1>7 DEF ConstructorInv, Constructor!TypeOK
<1>9. \A o \in Assignments : Constructor!Exists(o)' <=> Constructor!Exists(o) \/ o = a
  BY <1>2, <1>3, <1>4 DEF Constructor!Exists
<1>10. ConstructorSaveSound' /\ Freezes'
  <2>1. Constructor!QuestionsStand'
    BY <1>1, <1>3, <1>4, <1>9 DEF ConstructorInv, Freezes, Constructor!QuestionsStand
  <2> QED BY <1>6, <2>1 DEF ConstructorSaveSound, Freezes, PutCounted
<1>11. ASSUME conQuiet PROVE Quietly'
  <2>1. Quietly
    BY <1>11 DEF ConstructorInv
  <2>2. Constructor!OwnQuestions'
    BY <1>1, <1>6, <2>1 DEF Quietly, Constructor!OwnQuestions
  <2>3. ConstructorApart'
    BY <1>1, <1>2, <1>3, <1>4, <1>9, <2>1 DEF Quietly, ConstructorApart, Constructor!Loading,
                                              ConstructorInv, Constructor!TypeOK,
                                              Constructor!Deletion
  <2>4. FormSound' /\ SaveOfForm' /\ Synced'
    BY <1>1, <1>6, <2>1 DEF Quietly, FormSound, SaveOfForm, Synced, Begins, Whole
  <2>5. SaveWritten'
    <3>1. conRow'[a] = r /\ r \notin {None, Gone}
      BY <1>3, <1>4
    <3>2. conDeleting # None => conDeleting.id # a
      BY <1>2, <2>1 DEF Quietly, ConstructorApart
    <3> QED BY <1>1, <1>3, <1>6, <3>1, <3>2 DEF SaveWritten, Constructor!Exists
  <2>6. OnRequest'
    <3>1. Constructor!PublishedOnRequest'
      BY <1>3, <1>4, <1>7, <1>9, <2>1 DEF Quietly, OnRequest, Constructor!PublishedOnRequest
    <3>2. conForm.id # None => FALSE
      BY <1>1, <2>1 DEF Quietly, SaveOfForm, Begins
    <3> QED BY <1>1, <1>6, <1>7, <2>1, <3>1, <3>2 DEF Quietly, OnRequest
  <2> QED BY <2>2, <2>3, <2>4, <2>5, <2>6 DEF Quietly
<1> QED BY <1>1, <1>8, <1>10, <1>11 DEF ConstructorInv

\* A step of a save that leaves the rows alone.
LEMMA AdvanceStep ==
    ASSUME Constructor!GoodConstants, ConstructorInv, conSaving # None,
           UNCHANGED <<conClicks, conRow, conForm, conSkip, conTimer, conHint, conLoading,
                       conDeleting, conOwner, conMet,
                       conSwitched>>,
           NEW step \in {"count", "put", "ok", "failed"},
           conSaving' = [conSaving EXCEPT !.step = step],
           conQuiet' \in BOOLEAN,
           conQuiet' => /\ conQuiet /\ conSaving.step \in {"patch", "count", "put"}
                        /\ step = "failed" => conSaving.step = "patch"
                           /\ ~Constructor!Exists(conSaving.id)
                        /\ step # "failed" => conSaving.step # "patch"
                        /\ step = "ok" /\ Constructor!Exists(conSaving.id)
                           => conSaving.step = "count" /\ conRow[conSaving.id].attempt # None,
           step = "put" /\ Constructor!Exists(conSaving.id)
           => conRow[conSaving.id].attempt = None,
           step \in {"count", "put", "ok"} => conSaving.step \in {"patch", "count", "put"}
    PROVE  ConstructorInv'
<1>1. /\ conSaving \in Constructor!Save /\ conSaving' \in Constructor!Save
         /\ conSaving'.step = step /\ conSaving'.id = conSaving.id
      /\ conSaving'.questions = conSaving.questions
         /\ conSaving'.published = conSaving.published
      /\ conSaving'.mode = conSaving.mode /\ conSaving'.of = conSaving.of /\ conSaving' # None
  BY DEF Constructor!Save, ConstructorInv, Constructor!TypeOK, Constructor!GoodConstants
<1>2. Constructor!TypeOK'
  BY <1>1 DEF ConstructorInv, Constructor!TypeOK
<1>3. ConstructorSaveSound' /\ Freezes'
  BY <1>1 DEF ConstructorInv, ConstructorSaveSound, Freezes, Constructor!QuestionsStand,
              PutCounted, Constructor!Exists
<1>4. ASSUME conQuiet' PROVE Quietly'
  <2>1. Quietly /\ ~Begins /\ conSaving.id # None
    BY <1>4 DEF ConstructorInv, Begins, Quietly, ConstructorSaveSound
  <2>2. Constructor!OwnQuestions' /\ ConstructorApart' /\ FormSound' /\ Synced'
    BY <1>1, <2>1 DEF Quietly, Constructor!OwnQuestions, ConstructorApart, FormSound, Synced,
                      Constructor!Loading, Leaving, Constructor!Exists
  <2>3. SaveOfForm'
    <3>1. conSaving.mode # "autosave" => step # "failed"
      <4> SUFFICES ASSUME conSaving.mode # "autosave", step = "failed" PROVE FALSE
        OBVIOUS
      <4>1. conForm.id = conSaving.id /\ conDeleting = None
        BY <2>1 DEF Quietly, SaveOfForm
      <4>2. Constructor!Exists(conSaving.id)
        BY <2>1, <4>1 DEF Quietly, FormSound, Leaving
      <4> QED BY <1>4, <4>2
    <3> QED BY <1>1, <2>1, <3>1 DEF Quietly, SaveOfForm, Begins, Whole
  <2>4. SaveWritten'
    BY <1>1, <1>4, <2>1 DEF Quietly, SaveWritten, Constructor!Exists
  <2>5. OnRequest'
    BY <1>1, <2>1 DEF Quietly, OnRequest, Constructor!PublishedOnRequest, Constructor!Exists
  <2> QED BY <2>2, <2>3, <2>4, <2>5 DEF Quietly
<1> QED BY <1>2, <1>3, <1>4 DEF ConstructorInv

LEMMA CountedStep ==
    ASSUME Constructor!GoodConstants, ConstructorInv, Constructor!Counted
    PROVE  ConstructorInv'
<1>1. /\ UNCHANGED <<conClicks, conRow, conForm, conSkip, conTimer, conHint, conLoading,
                     conDeleting, conQuiet, conOwner, conMet,
                     conSwitched>>
      /\ conSaving # None /\ conSaving.step = "count" /\ conQuiet' \in BOOLEAN
  BY DEF Constructor!Counted, Constructor!At, Constructor!past, ConstructorInv,
     Constructor!TypeOK
<1> DEFINE step == IF Constructor!Exists(conSaving.id) /\ conRow[conSaving.id].attempt = None
           THEN "put" ELSE "ok"
<1>2. step \in {"put", "ok"} /\ conSaving' = [conSaving EXCEPT !.step = step]
  BY DEF Constructor!Counted
<1>3. /\ step = "put" => Constructor!Exists(conSaving.id) /\ conRow[conSaving.id].attempt = None
      /\ step = "ok" /\ Constructor!Exists(conSaving.id) => conRow[conSaving.id].attempt # None
  OBVIOUS
<1> HIDE DEF step
<1> QED BY <1>1, <1>2, <1>3, AdvanceStep

LEMMA SaveFailsStep ==
    ASSUME Constructor!GoodConstants, ConstructorInv, Constructor!SaveFails
    PROVE  ConstructorInv'
<1>1. /\ UNCHANGED <<conClicks, conRow, conForm, conSkip, conTimer, conHint, conLoading,
                     conDeleting, conOwner, conMet, conSwitched>>
      /\ conSaving # None /\ conQuiet' = FALSE
  BY DEF Constructor!SaveFails
<1>2. conQuiet' \in BOOLEAN /\ ~conQuiet'
  BY <1>1, Zenon
<1>3. PICK step \in {"ok", "failed"} :
         /\ conSaving' = [conSaving EXCEPT !.step = step]
         /\ step = "ok" => conSaving.step \in {"count", "put"}
  BY DEF Constructor!SaveFails
<1> QED BY <1>1, <1>2, <1>3, AdvanceStep

\* The steps of a save that write a row that is there.
LEMMA ConstructorWriteStep ==
    ASSUME Constructor!GoodConstants, ConstructorInv,
           Constructor!Updated \/ Constructor!ReplaceQuestions
    PROVE  ConstructorInv'
<1>1. /\ UNCHANGED <<conClicks, conForm, conSkip, conTimer, conHint, conLoading, conDeleting,
                     conQuiet, conOwner, conMet,
                     conSwitched>>
      /\ conSaving # None /\ conSaving.step \in {"patch", "put"} /\ conQuiet' \in BOOLEAN
  BY DEF Constructor!Updated, Constructor!ReplaceQuestions, Constructor!At, Constructor!past,
     ConstructorInv, Constructor!TypeOK
<1>2. conSaving \in Constructor!Save /\ conSaving.id \in Assignments
  BY <1>1 DEF ConstructorInv, Constructor!TypeOK, ConstructorSaveSound, Constructor!Save
<1>3. CASE ~Constructor!Exists(conSaving.id)
  <2>1. PICK step \in {"failed", "ok"} :
           /\ conRow' = conRow /\ conSaving' = [conSaving EXCEPT !.step = step]
           /\ step = "failed" => conSaving.step = "patch"
           /\ step = "ok" => conSaving.step = "put"
    BY <1>3 DEF Constructor!Updated, Constructor!ReplaceQuestions, Constructor!At
  <2> QED BY <1>1, <1>3, <2>1, AdvanceStep
<1>4. CASE Constructor!Exists(conSaving.id)
  <2> DEFINE a == conSaving.id
  <2>1. conRow[a] \in Constructor!Row
    BY <1>2, <1>4 DEF Constructor!Exists, ConstructorInv, Constructor!TypeOK
  <2>2. PICK r \in Constructor!Row, step \in {"count", "ok"} :
           /\ conRow' = [conRow EXCEPT ![a] = r]
              /\ conSaving' = [conSaving EXCEPT !.step = step]
           /\ r.attempt = conRow[a].attempt
           /\ step = "count" => /\ conSaving.step = "patch" /\ r.questions = conRow[a].questions
                                /\ r.published = conSaving.published
           /\ step = "ok" => /\ conSaving.step = "put" /\ r.questions = conSaving.questions
                             /\ r.published = conRow[a].published
    <3>1. CASE Constructor!Updated
      <4> DEFINE r == [conRow[a] EXCEPT !.published = conSaving.published]
      <4>1. /\ r \in Constructor!Row /\ r.attempt = conRow[a].attempt
               /\ r.questions = conRow[a].questions
            /\ r.published = conSaving.published
        BY <1>2, <2>1 DEF Constructor!Row, Constructor!Save
      <4>2. /\ conRow' = [conRow EXCEPT ![a] = r]
               /\ conSaving' = [conSaving EXCEPT !.step = "count"]
            /\ conSaving.step = "patch"
        BY <1>4, <3>1 DEF Constructor!Updated, Constructor!At
      <4> QED BY <4>1, <4>2
    <3>2. CASE Constructor!ReplaceQuestions
      <4> DEFINE r == [conRow[a] EXCEPT !.questions = conSaving.questions]
      <4>1. /\ r \in Constructor!Row /\ r.attempt = conRow[a].attempt
               /\ r.questions = conSaving.questions
            /\ r.published = conRow[a].published
        BY <1>2, <2>1 DEF Constructor!Row, Constructor!Save
      <4>2. /\ conRow' = [conRow EXCEPT ![a] = r]
               /\ conSaving' = [conSaving EXCEPT !.step = "ok"]
            /\ conSaving.step = "put"
        BY <1>4, <3>2 DEF Constructor!ReplaceQuestions, Constructor!At
      <4> QED BY <4>1, <4>2
    <3> QED BY <3>1, <3>2
  <2>3. /\ conSaving' \in Constructor!Save /\ conSaving'.step = step /\ conSaving'.id = a
        /\ conSaving'.questions = conSaving.questions
           /\ conSaving'.published = conSaving.published
        /\ conSaving'.mode = conSaving.mode /\ conSaving'.of = conSaving.of /\ conSaving' # None
        /\ r \notin {None, Gone} /\ a # None
    BY <1>2, <2>2 DEF Constructor!Save, Constructor!GoodConstants
  <2>4. \A o \in Assignments : IF o = a THEN conRow'[o] = r ELSE conRow'[o] = conRow[o]
    BY <2>2 DEF ConstructorInv, Constructor!TypeOK
  <2>5. \A o \in Assignments : Constructor!Exists(o)' <=> Constructor!Exists(o)
    BY <1>4, <2>3, <2>4 DEF Constructor!Exists
  <2>6. Constructor!TypeOK'
    BY <1>1, <2>2, <2>3 DEF ConstructorInv, Constructor!TypeOK
  <2>7. ConstructorSaveSound' /\ PutCounted'
    BY <1>1, <2>2, <2>3 DEF ConstructorSaveSound, PutCounted
  <2>8. Constructor!QuestionsStand'
    <3> SUFFICES ASSUME NEW o \in Assignments, o \notin conMet, Constructor!Exists(o),
                        conRow'[o].attempt # None
                 PROVE  conRow'[o].questions = conRow'[o].attempt
      BY <1>1, <2>5 DEF Constructor!QuestionsStand
    <3>1. CASE o = a /\ step = "ok"
      BY <1>1, <1>4, <2>2, <2>4, <3>1 DEF ConstructorInv, Freezes, PutCounted
    <3>2. CASE ~(o = a /\ step = "ok")
      BY <2>2, <2>4, <3>2 DEF ConstructorInv, Freezes, Constructor!QuestionsStand
    <3> QED BY <3>1, <3>2
  <2>9. ASSUME conQuiet PROVE Quietly'
    <3>1. Quietly /\ ~Begins
      BY <1>1, <2>9 DEF ConstructorInv, Begins
    <3>2. conForm.id \in Assignments \cup {None}
      BY DEF ConstructorInv, Constructor!TypeOK, Constructor!Form
    <3>3. Constructor!OwnQuestions' /\ SaveOfForm' /\ Synced'
      BY <1>1, <2>2, <2>3, <3>1
         DEF Quietly, Constructor!OwnQuestions, SaveOfForm, Synced, Begins, Whole
    <3>4. FormSound'
      BY <1>1, <2>5, <3>1, <3>2 DEF Quietly, FormSound, Leaving
    <3>5. ConstructorApart'
      BY <1>1, <2>3, <2>4, <2>5, <3>1 DEF Quietly, ConstructorApart, Constructor!Loading,
                                          ConstructorInv, Constructor!TypeOK,
                                          Constructor!Deletion
    <3>6. SaveWritten'
      <4>1. conRow'[a] = r
        BY <1>2, <2>4
      <4>2. step = "ok" => r.published = conSaving.published
        BY <1>1, <1>4, <2>2, <3>1 DEF Quietly, SaveWritten
      <4> QED BY <2>2, <2>3, <4>1, <4>2 DEF SaveWritten
    <3>7. OnRequest'
      <4>1. r.published => a \in conSwitched
        BY <1>1, <1>2, <1>4, <2>2, <2>3, <3>1
           DEF Quietly, OnRequest, Constructor!PublishedOnRequest
      <4>2. Constructor!PublishedOnRequest'
        BY <1>1, <2>4, <2>5, <3>1, <4>1 DEF Quietly, OnRequest, Constructor!PublishedOnRequest
      <4> QED BY <1>1, <2>3, <3>1, <4>2 DEF Quietly, OnRequest
    <3> QED BY <3>3, <3>4, <3>5, <3>6, <3>7 DEF Quietly
  <2> QED BY <1>1, <2>6, <2>7, <2>8, <2>9 DEF ConstructorInv, Freezes
<1> QED BY <1>3, <1>4

LEMMA OpenAttemptStep ==
    ASSUME Constructor!GoodConstants, ConstructorInv, NEW a \in Assignments,
           Constructor!OpenAttempt(a)
    PROVE  ConstructorInv'
<1> DEFINE r == [conRow[a] EXCEPT !.attempt = conRow[a].questions]
<1>1. /\ UNCHANGED <<conClicks, conForm, conSkip, conTimer, conHint, conSaving, conLoading,
                     conDeleting, conQuiet, conOwner,
                     conSwitched>>
      /\ Constructor!Exists(a) /\ conRow[a].attempt = None /\ conRow' = [conRow EXCEPT ![a] = r]
      /\ conMet' = IF Constructor!At("put") /\ conSaving.id = a THEN conMet \cup {a} ELSE conMet
  BY DEF Constructor!OpenAttempt
<1>2. /\ r \in Constructor!Row /\ r.questions = conRow[a].questions
         /\ r.published = conRow[a].published
      /\ r.attempt = r.questions /\ r.attempt # None
  <2>1. conRow[a] \in Constructor!Row
    BY <1>1 DEF Constructor!Exists, ConstructorInv, Constructor!TypeOK
  <2> QED BY <2>1 DEF Constructor!Row, Constructor!GoodConstants
<1>3. conRow' \in [Assignments -> Constructor!Row \cup {None, Gone}]
  BY <1>1, <1>2 DEF ConstructorInv, Constructor!TypeOK
<1>4. \A o \in Assignments : IF o = a THEN conRow'[o] = r ELSE conRow'[o] = conRow[o]
  BY <1>1 DEF ConstructorInv, Constructor!TypeOK
<1>5. r \notin {None, Gone}
  BY <1>2 DEF Constructor!GoodConstants
<1> HIDE DEF r
<1>6. \A o \in Assignments : Constructor!Exists(o)' <=> Constructor!Exists(o)
  BY <1>1, <1>4, <1>5 DEF Constructor!Exists
<1>7. Constructor!TypeOK'
  BY <1>1, <1>3 DEF ConstructorInv, Constructor!TypeOK
<1>8. Constructor!QuestionsStand'
  BY <1>1, <1>2, <1>4, <1>6 DEF ConstructorInv, Freezes, Constructor!QuestionsStand
<1>9. PutCounted'
  <2>1. conSaving # None /\ conSaving.step = "put" => conSaving.id \in Assignments
    BY DEF ConstructorInv, Constructor!TypeOK, Constructor!Save, ConstructorSaveSound
  <2> QED BY <1>1, <1>4, <1>6, <2>1 DEF ConstructorInv, Freezes, PutCounted, Constructor!At
<1>10. ASSUME conQuiet PROVE Quietly'
  <2>1. Quietly
    BY <1>10 DEF ConstructorInv
  <2>2. /\ conForm.id \in Assignments \cup {None}
        /\ conSaving # None => conSaving.id \in Assignments \cup {None}
        /\ conDeleting # None => conDeleting.id \in Assignments
    BY DEF ConstructorInv, Constructor!TypeOK, Constructor!Form, Constructor!Save,
       Constructor!Deletion
  <2>3. Constructor!OwnQuestions' /\ SaveOfForm'
    BY <1>1, <2>1 DEF Quietly, Constructor!OwnQuestions, SaveOfForm, Begins, Whole
  <2>4. ConstructorApart'
    BY <1>1, <1>4, <1>5, <1>6, <2>1, <2>2 DEF Quietly, ConstructorApart, Constructor!Loading
  <2>5. FormSound'
    BY <1>1, <1>6, <2>1, <2>2 DEF Quietly, FormSound, Leaving
  <2>6. SaveWritten'
    <3> SUFFICES ASSUME conSaving # None, conSaving.id # None PROVE SaveWritten'
      BY <1>1 DEF SaveWritten, ConstructorInv, ConstructorSaveSound
    <3>1. Constructor!Exists(conSaving.id)' <=> Constructor!Exists(conSaving.id)
      BY <1>1, <1>6, <2>2
    <3>2. /\ conRow'[conSaving.id].published = conRow[conSaving.id].published
          /\ conRow'[conSaving.id].questions = conRow[conSaving.id].questions
          /\ conRow'[conSaving.id].attempt = None => conRow[conSaving.id].attempt = None
      BY <1>2, <1>4, <2>2
    <3> QED BY <1>1, <2>1, <3>1, <3>2 DEF Quietly, SaveWritten
  <2>7. OnRequest'
    <3>1. Constructor!PublishedOnRequest'
      BY <1>1, <1>2, <1>4, <1>6, <2>1 DEF Quietly, OnRequest, Constructor!PublishedOnRequest
    <3> QED BY <1>1, <2>1, <3>1 DEF Quietly, OnRequest
  <2>8. Synced'
    BY <1>1, <1>2, <1>4, <1>6, <2>1, <2>2 DEF Quietly, Synced, Leaving, Whole
  <2> QED BY <2>3, <2>4, <2>5, <2>6, <2>7, <2>8 DEF Quietly
<1> QED BY <1>1, <1>7, <1>8, <1>9, <1>10 DEF ConstructorInv, ConstructorSaveSound, Freezes

LEMMA StillStep ==
    ASSUME ConstructorInv, UNCHANGED Constructor!editVars
    PROVE  ConstructorInv'
<1>1. UNCHANGED <<conClicks, conRow, conForm, conSkip, conTimer, conHint, conSaving, conLoading,
                  conDeleting, conQuiet, conOwner,
                  conMet, conSwitched>>
  BY DEF Constructor!editVars, Constructor!past
<1> QED BY <1>1 DEF ConstructorInv, Constructor!TypeOK, ConstructorSaveSound, Freezes,
                    Constructor!QuestionsStand, PutCounted, Quietly,
          Constructor!OwnQuestions, ConstructorApart, FormSound, SaveOfForm, SaveWritten,
          OnRequest, Constructor!PublishedOnRequest,
          Synced, Constructor!Loading, Leaving, Begins, Constructor!Exists, Whole

LEMMA ConstructorStep ==
    ASSUME Constructor!GoodConstants, ConstructorInv,
           [Constructor!Next]_(Constructor!editVars)
    PROVE  ConstructorInv'
BY EditStep, NewStep, ConstructorClickStep, TimerStep, ConstructorSavedStep, NotSavedStep,
   DeletedStep, CreatedStep,
   ConstructorWriteStep, CountedStep, SaveFailsStep, RemovedStep, ConstructorOpenStep,
   ConstructorOpenedStep, ConstructorDeleteStep, ConstructorReadStep,
   OpenAttemptStep, StillStep
   DEF Constructor!Next

LEMMA Edited ==
    ASSUME ConstructorInv
    PROVE  /\ Constructor!TypeOK /\ Constructor!OwnQuestions /\ Constructor!SavedIsOnServer
           /\ Constructor!QuestionsStand /\ Constructor!PublishedOnRequestWhenQuiet
<1>1. Constructor!OwnQuestions /\ Constructor!PublishedOnRequestWhenQuiet
  BY DEF ConstructorInv, Quietly, Constructor!OwnQuestions, OnRequest,
     Constructor!PublishedOnRequestWhenQuiet
<1>2. Constructor!SavedIsOnServer
  BY DEF ConstructorInv, Quietly, Synced, Constructor!SavedIsOnServer, Constructor!Busy, Leaving, Whole,
         Constructor!CanPersist
<1> QED BY <1>1, <1>2 DEF ConstructorInv, Freezes

-----------------------------------------------------------------------------
(***************************************************************************)
(* SupportPanel.  While the panel was not disturbed, the reply in the box  *)
(* is the one being sent, and it stands in its thread exactly when the     *)
(* server has taken it (BoxAndSend).                                       *)
(***************************************************************************)
\* What is asked for, opened or created is a thread that is there.
ThreadsAreThere ==
    /\ panActive # None => panDesk[panActive] # None
    /\ panSend # Panel!Idle => panDesk[panSend.thread] # None
    /\ panTool # Panel!Idle => panDesk[panTool.thread] # None
    /\ panForm.step = "answered" => panForm.thread # None /\ panDesk[panForm.thread] # None
    /\ panHome # None => panDesk[panHome] # None

PostedIn(t, n) == \E i \in 1 .. Len(panDesk[t].posted) : panDesk[t].posted[i] = n

\* What was posted had been typed, and no reply stands in a thread twice.
PostedOnce ==
    \A t \in Threads : panDesk[t] # None =>
        /\ \A i \in 1 .. Len(panDesk[t].posted) : panDesk[t].posted[i] <= panTyped
        /\ \A i, j \in 1 .. Len(panDesk[t].posted) :
              panDesk[t].posted[i] = panDesk[t].posted[j] => i = j
        /\ PostedIn(t, panTyped) => t = panHome

\* The reply in the box is the last one typed, in the thread that is open, and
\* the one that is being sent; it is posted when the server has taken it.
BoxAndSend ==
    /\ panTyped > 0 => panHome # None
    /\ panReply # None => panReply = panTyped /\ panActive = panHome /\ panTyped > 0
    /\ panSend # Panel!Idle => panSend.reply = panReply /\ panSend.thread = panActive
       /\ panReply # None
    /\ panTyped > 0 => (PostedIn(panHome, panTyped) <=> panReply = None
                        \/ panSend.step \in {"upload", "answered"})

PanelInv ==
    /\ Panel!TypeOK
    /\ ThreadsAreThere
    /\ panUntouched => PostedOnce /\ BoxAndSend

LEMMA PanelInit ==
    ASSUME Panel!GoodConstants, Panel!Init
    PROVE  PanelInv
<1>1. Panel!NewThread \in Panel!Desk /\ Len(Panel!NewThread.posted) = 0
  BY DEF Panel!NewThread, Panel!Desk
<1>2. panDesk \in [Threads -> Panel!Desk \cup {None}]
      /\ panSeen \in [Threads -> Panel!View \cup {None}]
  BY <1>1 DEF Panel!Init
<1>3. panUntouched \in BOOLEAN /\ panTyped \in 0 .. MaxReplies
      /\ panReply \in Panel!Replies \cup {None}
      /\ panForm \in [step : {"idle", "asked", "answered"}, thread : Threads \cup {None}]
      /\ panTyped = 0 /\ panForm.step = "idle"
  BY DEF Panel!Init, Panel!GoodConstants, Panel!Form
<1>4. Panel!TypeOK
  BY <1>2, <1>3 DEF Panel!Init, Panel!TypeOK
<1>5. \A t \in Threads : panDesk[t] # None => Len(panDesk[t].posted) = 0
  BY <1>1 DEF Panel!Init
<1>6. ThreadsAreThere
  BY <1>3 DEF Panel!Init, ThreadsAreThere
<1>7. PostedOnce
  BY <1>5 DEF PostedOnce, PostedIn
<1>8. BoxAndSend
  BY <1>3 DEF Panel!Init, BoxAndSend
<1> QED BY <1>4, <1>6, <1>7, <1>8 DEF PanelInv

\* Nothing is posted: what is said of the posts is said of what is on the page.
LEMMA SamePosts ==
    ASSUME PanelInv, panUntouched,
           \A t \in Threads : /\ panDesk'[t] # None /\ panDesk[t] = None
                                 => Len(panDesk'[t].posted) = 0
                              /\ panDesk[t] # None => panDesk'[t] # None
                                 /\ panDesk'[t].posted = panDesk[t].posted,
           panTyped' = panTyped, panHome' = panHome
    PROVE  /\ PostedOnce'
           /\ \A t \in Threads : panDesk[t] # None
              => (PostedIn(t, panTyped)' <=> PostedIn(t, panTyped))
<1>1. PostedOnce
  BY DEF PanelInv
<1>2. \A t \in Threads : panDesk[t] # None => (PostedIn(t, panTyped)' <=> PostedIn(t, panTyped))
  BY DEF PostedIn
<1>3. \A t \in Threads : panDesk[t] = None /\ panDesk'[t] # None => ~PostedIn(t, panTyped)'
  BY DEF PostedIn
<1>4. PostedOnce'
  <2> SUFFICES ASSUME NEW t \in Threads, panDesk'[t] # None
               PROVE  /\ \A i \in 1 .. Len(panDesk'[t].posted) :
                         panDesk'[t].posted[i] <= panTyped
                      /\ \A i, j \in 1 .. Len(panDesk'[t].posted) :
                            panDesk'[t].posted[i] = panDesk'[t].posted[j] => i = j
                      /\ PostedIn(t, panTyped)' => t = panHome
    BY DEF PostedOnce
  <2>1. CASE panDesk[t] = None
    BY <1>3, <2>1
  <2>2. CASE panDesk[t] # None
    BY <1>1, <1>2, <2>2 DEF PostedOnce
  <2> QED BY <2>1, <2>2
<1> QED BY <1>2, <1>4

LEMMA SameBox ==
    ASSUME Panel!GoodConstants, PanelInv, panUntouched,
           \A t \in Threads : /\ panDesk'[t] # None /\ panDesk[t] = None
                                 => Len(panDesk'[t].posted) = 0
                              /\ panDesk[t] # None => panDesk'[t] # None
                                 /\ panDesk'[t].posted = panDesk[t].posted,
           panTyped' = panTyped, panHome' = panHome, panReply' = panReply, panSend' = panSend,
           panActive' = panActive
    PROVE  PostedOnce' /\ BoxAndSend'
<1>1. BoxAndSend /\ ThreadsAreThere /\ panTyped \in Nat /\ panHome \in Threads \cup {None}
  BY DEF PanelInv, Panel!TypeOK, Panel!GoodConstants
<1>2. panTyped > 0 => panHome \in Threads /\ panDesk[panHome] # None
  BY <1>1 DEF BoxAndSend, ThreadsAreThere
<1>3. panTyped > 0 => (PostedIn(panHome, panTyped)' <=> PostedIn(panHome, panTyped))
  BY <1>2, SamePosts
<1> QED BY <1>1, <1>3, SamePosts DEF BoxAndSend

LEMMA Appended ==
    ASSUME NEW s \in Seq(Panel!Replies), NEW n \in Panel!Replies
    PROVE  /\ Append(s, n) \in Seq(Panel!Replies) /\ Len(s) \in Nat
              /\ Len(Append(s, n)) = Len(s) + 1
           /\ \A i \in 1 .. Len(s) : Append(s, n)[i] = s[i]
           /\ Append(s, n)[Len(s) + 1] = n
OBVIOUS

\* A reply that is later than all before it is posted once.
LEMMA OneMore ==
    ASSUME NEW s \in Seq(Panel!Replies), NEW n \in Panel!Replies, n \in Nat,
           \A i \in 1 .. Len(s) : s[i] <= n /\ s[i] # n,
           \A i, j \in 1 .. Len(s) : s[i] = s[j] => i = j
    PROVE  LET a == Append(s, n)
           IN  /\ \A i \in 1 .. Len(a) : a[i] <= n
               /\ \A i, j \in 1 .. Len(a) : a[i] = a[j] => i = j
<1> DEFINE a == Append(s, n)
<1>1. /\ Len(s) \in Nat /\ Len(a) = Len(s) + 1
      /\ \A i \in 1 .. Len(s) : a[i] = s[i]
      /\ a[Len(s) + 1] = n
  BY Appended
<1> HIDE DEF a
<1>2. \A i \in 1 .. Len(a) : i \in 1 .. Len(s) \/ i = Len(s) + 1
  BY <1>1
<1>3. \A i \in 1 .. Len(a) : a[i] <= n
  BY <1>1, <1>2
<1>4. \A i, j \in 1 .. Len(a) : a[i] = a[j] => i = j
  BY <1>1, <1>2
<1> QED BY <1>3, <1>4 DEF a

LEMMA PostStep ==
    ASSUME Panel!GoodConstants, PanelInv, Panel!HandlePost
    PROVE  PanelInv'
<1> DEFINE t == panSend.thread
           n == panSend.reply
           p == panDesk[t].posted
           after == [panDesk[t] EXCEPT !.posted = Append(@, n)]
<1>1. /\ panSend.step = "asked" /\ panSend # Panel!Idle /\ t \in Threads /\ n \in Panel!Replies
      /\ panDesk[t] \in Panel!Desk /\ panDesk[t] # None
  BY DEF Panel!HandlePost, PanelInv, Panel!TypeOK, ThreadsAreThere, Panel!Idle
<1>2. p \in Seq(Panel!Replies) /\ after \in Panel!Desk /\ after.posted = Append(p, n)
  BY <1>1, Appended DEF Panel!Desk
<1>3. /\ UNCHANGED <<panActive, panSeen, panTyped, panReply, panTool, panForm, panHome,
                     panUntouched>>
      /\ panDesk' = [panDesk EXCEPT ![t] = after]
  BY DEF Panel!HandlePost, Panel!client
<1>4. PICK step \in {"upload", "answered"} : panSend' = [panSend EXCEPT !.step = step]
  BY DEF Panel!HandlePost
<1>5. /\ panSend' \in [step : {"asked", "upload", "answered"}, thread : Threads,
                       reply : Panel!Replies]
      /\ panSend'.thread = t /\ panSend'.reply = n /\ panSend'.step \in {"upload", "answered"}
  BY <1>1, <1>4 DEF PanelInv, Panel!TypeOK, Panel!Idle
<1> HIDE DEF after
<1>6. \A o \in Threads : IF o = t THEN panDesk'[o] = after ELSE panDesk'[o] = panDesk[o]
  BY <1>3 DEF PanelInv, Panel!TypeOK
<1>7. after # None
  BY <1>2 DEF Panel!GoodConstants
<1>8. Panel!TypeOK'
  BY <1>2, <1>3, <1>5 DEF PanelInv, Panel!TypeOK
<1>9. ThreadsAreThere'
  <2>1. \A o \in Threads : panDesk[o] # None => panDesk'[o] # None
    BY <1>6, <1>7
  <2> QED BY <1>1, <1>3, <1>5, <2>1 DEF PanelInv, Panel!TypeOK, ThreadsAreThere
<1>10. ASSUME panUntouched PROVE PostedOnce' /\ BoxAndSend'
  <2>1. PostedOnce /\ BoxAndSend
    BY <1>10 DEF PanelInv
  <2>2. n = panReply /\ t = panActive /\ panReply = panTyped /\ t = panHome /\ panTyped > 0
        /\ panTyped \in Nat
    BY <1>1, <2>1 DEF BoxAndSend, PanelInv, Panel!TypeOK, Panel!GoodConstants
  <2>3. ~PostedIn(t, panTyped)
    BY <1>1, <2>1, <2>2 DEF BoxAndSend, Panel!GoodConstants
  <2>4. /\ Len(p) \in Nat /\ Len(after.posted) = Len(p) + 1
        /\ \A i \in 1 .. Len(p) : after.posted[i] = p[i]
        /\ after.posted[Len(p) + 1] = panTyped
    BY <1>1, <1>2, <2>2, Appended
  <2>5. /\ \A i \in 1 .. Len(p) : p[i] <= panTyped /\ p[i] # panTyped
        /\ \A i, j \in 1 .. Len(p) : p[i] = p[j] => i = j
    BY <1>1, <2>1, <2>3 DEF PostedOnce, PostedIn
  <2>6. /\ \A i \in 1 .. Len(after.posted) : after.posted[i] <= panTyped
        /\ \A i, j \in 1 .. Len(after.posted) : after.posted[i] = after.posted[j] => i = j
    BY <1>1, <1>2, <2>2, <2>5, OneMore
  <2>7. PostedOnce'
    BY <1>3, <1>6, <2>1, <2>2, <2>6 DEF PostedOnce, PostedIn
  <2>8. PostedIn(panHome, panTyped)'
    BY <1>3, <1>6, <1>1, <2>2, <2>4 DEF PostedIn
  <2>9. BoxAndSend'
    BY <1>1, <1>3, <1>5, <2>1, <2>2, <2>8 DEF BoxAndSend
  <2> QED BY <2>7, <2>9
<1> QED BY <1>3, <1>8, <1>9, <1>10 DEF PanelInv

\* The endpoints that post nothing.
LEMMA DeskStep ==
    ASSUME Panel!GoodConstants, PanelInv,
           Panel!HandleTool \/ \E t \in Threads : Panel!HandleCreate(t)
           \/ Panel!CloseElsewhere(t)
    PROVE  PanelInv'
<1>1. /\ panActive' = panActive /\ panSeen' = panSeen /\ panTyped' = panTyped
         /\ panReply' = panReply /\ panSend' = panSend
      /\ panHome' = panHome /\ panUntouched' = panUntouched
  BY DEF Panel!HandleTool, Panel!HandleCreate, Panel!CloseElsewhere, Panel!client, Panel!calls
<1>2. /\ panTool' \in {panTool, Panel!Idle}
      /\ panForm' = panForm \/ \E t \in Threads : panForm' = Panel!Form("answered", t)
         /\ panDesk'[t] # None
      /\ panDesk' \in [Threads -> Panel!Desk \cup {None}]
      /\ \A t \in Threads : /\ panDesk'[t] # None /\ panDesk[t] = None
                               => Len(panDesk'[t].posted) = 0
                            /\ panDesk[t] # None => panDesk'[t] # None
                               /\ panDesk'[t].posted = panDesk[t].posted
  <2>1. CASE Panel!HandleTool
    <3> DEFINE t == panTool.thread
    <3>1. t \in Threads /\ panDesk[t] \in Panel!Desk /\ panDesk[t] # None
          /\ panTool' = Panel!Idle /\ panForm' = panForm
      BY <2>1 DEF Panel!HandleTool, PanelInv, Panel!TypeOK, ThreadsAreThere
    <3>2. PICK after \in {[panDesk[t] EXCEPT !.status = "CLOSED"],
                          [panDesk[t] EXCEPT !.rated = TRUE]} :
             panDesk' = [panDesk EXCEPT ![t] = after]
      BY <2>1 DEF Panel!HandleTool
    <3>3. after \in Panel!Desk /\ after.posted = panDesk[t].posted /\ after # None
      BY <3>1, <3>2 DEF Panel!Desk, Panel!GoodConstants
    <3> QED BY <3>1, <3>2, <3>3 DEF PanelInv, Panel!TypeOK
  <2>2. ASSUME NEW t \in Threads, Panel!HandleCreate(t) PROVE <1>2!:
    <3>1. /\ panDesk[t] = None /\ panDesk' = [panDesk EXCEPT ![t] = Panel!NewThread]
          /\ panForm' = Panel!Form("answered", t) /\ panTool' = panTool
      BY <2>2 DEF Panel!HandleCreate
    <3>2. Panel!NewThread \in Panel!Desk /\ Len(Panel!NewThread.posted) = 0
      BY DEF Panel!NewThread, Panel!Desk
    <3>3. Panel!NewThread # None
      BY <3>2 DEF Panel!GoodConstants
    <3> QED BY <3>1, <3>2, <3>3 DEF PanelInv, Panel!TypeOK
  <2>3. ASSUME NEW t \in Threads, Panel!CloseElsewhere(t) PROVE <1>2!:
    <3> DEFINE after == [panDesk[t] EXCEPT !.status = "CLOSED"]
    <3>1. /\ panDesk[t] \in Panel!Desk /\ panDesk[t] # None
             /\ panDesk' = [panDesk EXCEPT ![t] = after]
          /\ panForm' = panForm /\ panTool' = panTool
      BY <2>3 DEF Panel!CloseElsewhere, Panel!calls, PanelInv, Panel!TypeOK
    <3>2. after \in Panel!Desk /\ after.posted = panDesk[t].posted /\ after # None
      BY <3>1 DEF Panel!Desk, Panel!GoodConstants
    <3> HIDE DEF after
    <3> QED BY <3>1, <3>2 DEF PanelInv, Panel!TypeOK
  <2> QED BY <2>1, <2>2, <2>3
<1>3. Panel!TypeOK'
  BY <1>1, <1>2 DEF PanelInv, Panel!TypeOK, Panel!Form
<1>4. ThreadsAreThere'
  <2>1. \A t \in Threads : panDesk[t] # None => panDesk'[t] # None
    BY <1>2
  <2>2. panTool' # Panel!Idle => panDesk'[panTool'.thread] # None
    BY <1>2, <2>1 DEF PanelInv, Panel!TypeOK, ThreadsAreThere
  <2>3. panForm'.step = "answered" => panForm'.thread # None /\ panDesk'[panForm'.thread] # None
    BY <1>2, <2>1 DEF PanelInv, Panel!TypeOK, ThreadsAreThere, Panel!Form, Panel!GoodConstants
  <2> QED BY <1>1, <2>1, <2>2, <2>3 DEF PanelInv, Panel!TypeOK, ThreadsAreThere
<1>5. ASSUME panUntouched PROVE PostedOnce' /\ BoxAndSend'
  <2>1. \A t \in Threads :
           /\ panDesk'[t] # None /\ panDesk[t] = None => Len(panDesk'[t].posted) = 0
           /\ panDesk[t] # None => panDesk'[t] # None /\ panDesk'[t].posted = panDesk[t].posted
    BY <1>2
  <2>2. /\ panTyped' = panTyped /\ panHome' = panHome /\ panReply' = panReply
           /\ panSend' = panSend
        /\ panActive' = panActive
    BY <1>1
  <2> QED BY <1>5, <2>1, <2>2, SameBox
<1> QED BY <1>1, <1>3, <1>4, <1>5 DEF PanelInv

\* What moves nothing of the reply.
LEMMA PanelViewStep ==
    ASSUME Panel!GoodConstants, PanelInv,
           \/ Panel!Fetch \/ Panel!ClickTool("close") \/ Panel!ClickTool("rate")
              \/ Panel!SkipRating \/ Panel!ToolFails
           \/ Panel!SubmitForm \/ Panel!FormFails \/ UNCHANGED Panel!panelVars
    PROVE  PanelInv'
<1>1. /\ panDesk' = panDesk /\ panActive' = panActive /\ panTyped' = panTyped
         /\ panReply' = panReply /\ panSend' = panSend
      /\ panHome' = panHome /\ panUntouched' = panUntouched
  BY DEF Panel!Fetch, Panel!ClickTool, Panel!SkipRating, Panel!ToolFails, Panel!SubmitForm,
     Panel!FormFails, Panel!panelVars, Panel!client, Panel!calls
<1>2. panSeen' \in [Threads -> Panel!View \cup {None}]
  <2>1. CASE Panel!Fetch
    <3>1. panActive \in Threads /\ panDesk[panActive] \in Panel!Desk
      BY <2>1 DEF Panel!Fetch, PanelInv, Panel!TypeOK, ThreadsAreThere
    <3>2. Panel!Read(panActive) \in Panel!View
      <4>1. panDesk[panActive].status \in {"OPEN", "CLOSED"}
            /\ panDesk[panActive].rated \in BOOLEAN
        BY <3>1 DEF Panel!Desk
      <4> QED BY <4>1 DEF Panel!Read, Panel!View
    <3> QED BY <2>1, <3>1, <3>2 DEF Panel!Fetch, PanelInv, Panel!TypeOK
  <2>2. CASE Panel!SkipRating
    <3>1. panActive \in Threads /\ panSeen[panActive] \in Panel!View
      BY <2>2 DEF Panel!SkipRating, PanelInv, Panel!TypeOK
    <3>2. [panSeen[panActive] EXCEPT !.canRate = FALSE] \in Panel!View
      BY <3>1 DEF Panel!View
    <3> QED BY <2>2, <3>1, <3>2 DEF Panel!SkipRating, PanelInv, Panel!TypeOK
  <2>3. CASE ~(Panel!Fetch \/ Panel!SkipRating)
    BY <2>3 DEF Panel!ClickTool, Panel!ToolFails, Panel!SubmitForm, Panel!FormFails,
                Panel!panelVars, Panel!client, PanelInv, Panel!TypeOK
  <2> QED BY <2>1, <2>2, <2>3
<1>3. \/ panTool' \in {panTool, Panel!Idle}
      \/ /\ panActive \in Threads
         /\ panTool' \in [step : {"close", "rate"}, thread : Threads]
            /\ panTool'.thread = panActive
  BY DEF Panel!Fetch, Panel!ClickTool, Panel!SkipRating, Panel!ToolFails, Panel!SubmitForm,
     Panel!FormFails, Panel!panelVars, Panel!calls,
         PanelInv, Panel!TypeOK
<1>4. panForm' = panForm \/ panForm' \in {Panel!Form("asked", None), Panel!Form("idle", None)}
  BY DEF Panel!Fetch, Panel!ClickTool, Panel!SkipRating, Panel!ToolFails, Panel!SubmitForm,
     Panel!FormFails, Panel!panelVars, Panel!calls
<1>5. Panel!TypeOK'
  BY <1>1, <1>2, <1>3, <1>4 DEF PanelInv, Panel!TypeOK, Panel!Form
<1>6. ThreadsAreThere'
  BY <1>1, <1>3, <1>4
     DEF PanelInv, Panel!TypeOK, ThreadsAreThere, Panel!Form, Panel!GoodConstants
<1> QED BY <1>1, <1>5, <1>6, SameBox DEF PanelInv

LEMMA MoveStep ==
    ASSUME Panel!GoodConstants, PanelInv, Panel!FormArrives
           \/ \E t \in Threads \cup {None} : Panel!Choose(t)
    PROVE  PanelInv'
<1>1. /\ panDesk' = panDesk /\ panSeen' = panSeen /\ panTyped' = panTyped
         /\ panReply' = panReply /\ panSend' = panSend
      /\ panTool' = panTool /\ panHome' = panHome
      /\ panForm' = panForm \/ panForm' = Panel!Form("idle", None)
  BY DEF Panel!FormArrives, Panel!Choose, Panel!calls
<1>2. panActive' \in Threads \cup {None} /\ (panActive' # None => panDesk[panActive'] # None)
  <2>1. CASE Panel!FormArrives
    BY <2>1 DEF Panel!FormArrives, Panel!Moves, PanelInv, Panel!TypeOK, ThreadsAreThere
  <2>2. ASSUME NEW t \in Threads \cup {None}, Panel!Choose(t) PROVE <1>2!:
    BY <2>2 DEF Panel!Choose, Panel!Moves
  <2> QED BY <2>1, <2>2
<1>3. panUntouched' = (panUntouched /\ panReply = None /\ panSend = Panel!Idle)
  BY DEF Panel!FormArrives, Panel!Choose, Panel!Moves
<1>4. panUntouched' \in BOOLEAN
  BY <1>3, Zenon
<1>5. panUntouched' => panUntouched /\ panReply = None /\ panSend = Panel!Idle
  BY <1>3, Zenon
<1>6. Panel!TypeOK'
  BY <1>1, <1>2, <1>4 DEF PanelInv, Panel!TypeOK, Panel!Form
<1>7. ThreadsAreThere'
  BY <1>1, <1>2 DEF PanelInv, ThreadsAreThere, Panel!Form
<1>8. ASSUME panUntouched' PROVE PostedOnce' /\ BoxAndSend'
  BY <1>1, <1>5, <1>8 DEF PanelInv, PostedOnce, BoxAndSend, PostedIn
<1> QED BY <1>6, <1>7, <1>8 DEF PanelInv

LEMMA PanelTypeStep ==
    ASSUME Panel!GoodConstants, PanelInv, Panel!Type
    PROVE  PanelInv'
<1>1. /\ panDesk' = panDesk /\ panActive' = panActive /\ panSeen' = panSeen
         /\ panSend' = panSend /\ panTool' = panTool
      /\ panForm' = panForm /\ panTyped' = panTyped + 1 /\ panReply' = panTyped + 1
         /\ panHome' = panActive
      /\ panTyped < MaxReplies /\ panActive # None
  BY DEF Panel!Type, Panel!calls, Panel!BoxShown
<1>2. panUntouched' = (panUntouched /\ panSend = Panel!Idle)
  BY DEF Panel!Type
<1>3. panUntouched' \in BOOLEAN /\ (panUntouched' => panUntouched /\ panSend = Panel!Idle)
  BY <1>2, Zenon
<1>4. panTyped \in Nat /\ panTyped + 1 \in Panel!Replies
  BY <1>1 DEF PanelInv, Panel!TypeOK, Panel!GoodConstants, Panel!Replies
<1>5. Panel!TypeOK'
  BY <1>1, <1>3, <1>4 DEF PanelInv, Panel!TypeOK, Panel!Replies, Panel!GoodConstants
<1>6. ThreadsAreThere'
  BY <1>1 DEF PanelInv, ThreadsAreThere
<1>7. ASSUME panUntouched' PROVE PostedOnce' /\ BoxAndSend'
  <2>1. PostedOnce /\ BoxAndSend /\ panSend = Panel!Idle
    BY <1>3, <1>7 DEF PanelInv
  <2>2. \A t \in Threads : panDesk[t] # None =>
           \A i \in 1 .. Len(panDesk[t].posted) :
              panDesk[t].posted[i] <= panTyped /\ panDesk[t].posted[i] <= panTyped + 1
              /\ panDesk[t].posted[i] # panTyped + 1
    <3>1. \A t \in Threads : panDesk[t] # None => panDesk[t].posted \in Seq(Panel!Replies)
      BY DEF PanelInv, Panel!TypeOK, Panel!Desk
    <3>2. ASSUME NEW q \in Seq(Panel!Replies), NEW i \in 1 .. Len(q) PROVE q[i] \in Nat
      <4>1. q[i] \in Panel!Replies
        BY <3>2
      <4> QED BY <4>1 DEF Panel!Replies
    <3> QED BY <1>4, <2>1, <3>1, <3>2 DEF PostedOnce
  <2>3. \A t \in Threads : panDesk[t] # None => ~PostedIn(t, panTyped)'
    BY <1>1, <2>2 DEF PostedIn
  <2>4. PostedOnce'
    BY <1>1, <2>1, <2>2, <2>3 DEF PostedOnce
  <2>5. panActive \in Threads /\ panDesk[panActive] # None
    BY <1>1 DEF PanelInv, Panel!TypeOK, ThreadsAreThere
  <2>6. ~PostedIn(panHome, panTyped)'
    BY <1>1, <2>3, <2>5 DEF PostedIn
  <2>7. panTyped + 1 # None
    BY <1>4 DEF Panel!GoodConstants
  <2>8. BoxAndSend'
    BY <1>1, <1>4, <2>1, <2>6, <2>7 DEF BoxAndSend, Panel!Idle
  <2> QED BY <2>4, <2>8
<1> QED BY <1>5, <1>6, <1>7 DEF PanelInv

LEMMA SendStep ==
    ASSUME Panel!GoodConstants, PanelInv, Panel!Send \/ Panel!Upload \/ Panel!SendArrives
           \/ Panel!SendFails
    PROVE  PanelInv'
<1>1. /\ panDesk' = panDesk /\ panActive' = panActive /\ panSeen' = panSeen
         /\ panTyped' = panTyped /\ panTool' = panTool
      /\ panForm' = panForm /\ panHome' = panHome
  BY DEF Panel!Send, Panel!Upload, Panel!SendArrives, Panel!SendFails, Panel!client
<1>2. CASE Panel!Send
  <2>1. /\ panReply # None /\ panSend = Panel!Idle /\ panActive # None /\ panReply' = panReply
        /\ panSend' = [step |-> "asked", thread |-> panActive, reply |-> panReply]
        /\ panUntouched' = panUntouched
    BY <1>2 DEF Panel!Send, Panel!BoxShown, Panel!client
  <2>2. panActive \in Threads /\ panReply \in Panel!Replies /\ panDesk[panActive] # None
    BY <2>1 DEF PanelInv, Panel!TypeOK, ThreadsAreThere
  <2>3. Panel!TypeOK'
    BY <1>1, <2>1, <2>2 DEF PanelInv, Panel!TypeOK
  <2>4. ThreadsAreThere'
    BY <1>1, <2>1, <2>2 DEF PanelInv, ThreadsAreThere
  <2>5. ASSUME panUntouched PROVE PostedOnce' /\ BoxAndSend'
    BY <1>1, <2>1, <2>5 DEF PanelInv, PostedOnce, BoxAndSend, PostedIn, Panel!Idle
  <2> QED BY <2>1, <2>3, <2>4, <2>5 DEF PanelInv
<1>3. CASE Panel!Upload
  <2>1. /\ panSend.step = "upload" /\ panSend' = [panSend EXCEPT !.step = "answered"]
        /\ panReply' = panReply /\ panUntouched' = panUntouched
    BY <1>3 DEF Panel!Upload, Panel!client
  <2>2. panSend \in [step : {"asked", "upload", "answered"}, thread : Threads,
                     reply : Panel!Replies]
        /\ panSend # Panel!Idle
    BY <2>1 DEF PanelInv, Panel!TypeOK, Panel!Idle
  <2>3. /\ panSend' \in [step : {"asked", "upload", "answered"}, thread : Threads,
                         reply : Panel!Replies]
        /\ panSend'.thread = panSend.thread /\ panSend'.reply = panSend.reply
           /\ panSend'.step = "answered"
    BY <2>1, <2>2
  <2>4. Panel!TypeOK'
    BY <1>1, <2>1, <2>3 DEF PanelInv, Panel!TypeOK
  <2>5. ThreadsAreThere'
    BY <1>1, <2>2, <2>3 DEF PanelInv, ThreadsAreThere
  <2>6. ASSUME panUntouched PROVE PostedOnce' /\ BoxAndSend'
    BY <1>1, <2>1, <2>2, <2>3, <2>6 DEF PanelInv, PostedOnce, BoxAndSend, PostedIn
  <2> QED BY <2>1, <2>4, <2>5, <2>6 DEF PanelInv
<1>4. CASE Panel!SendArrives
  <2>1. panSend.step = "answered" /\ panSend' = Panel!Idle /\ panReply' = None
        /\ panUntouched' = panUntouched
    BY <1>4 DEF Panel!SendArrives
  <2>2. Panel!TypeOK'
    BY <1>1, <2>1 DEF PanelInv, Panel!TypeOK
  <2>3. ThreadsAreThere'
    BY <1>1, <2>1 DEF PanelInv, ThreadsAreThere
  <2>4. ASSUME panUntouched PROVE PostedOnce' /\ BoxAndSend'
    BY <1>1, <2>1, <2>4 DEF PanelInv, PostedOnce, BoxAndSend, PostedIn
  <2> QED BY <2>1, <2>2, <2>3, <2>4 DEF PanelInv
<1>5. CASE Panel!SendFails
  <2>1. panSend' = Panel!Idle /\ panReply' = panReply /\ panUntouched' = FALSE
    BY <1>5 DEF Panel!SendFails, Panel!client
  <2>2. Panel!TypeOK'
    BY <1>1, <2>1 DEF PanelInv, Panel!TypeOK
  <2>3. ThreadsAreThere'
    BY <1>1, <2>1 DEF PanelInv, ThreadsAreThere
  <2> QED BY <2>1, <2>2, <2>3 DEF PanelInv
<1> QED BY <1>2, <1>3, <1>4, <1>5

LEMMA PanelStep ==
    ASSUME Panel!GoodConstants, PanelInv, [Panel!Next]_(Panel!panelVars)
    PROVE  PanelInv'
BY PostStep, DeskStep, PanelViewStep, MoveStep, PanelTypeStep, SendStep DEF Panel!Next

LEMMA Arrives ==
    ASSUME Panel!GoodConstants, PanelInv
    PROVE  Panel!TypeOK /\ Panel!ReplyArrivesOnce
<1> SUFFICES ASSUME panUntouched PROVE Panel!ReplyArrivesOnce
  BY DEF Panel!ReplyArrivesOnce, PanelInv
<1>1. PostedOnce /\ BoxAndSend
  BY DEF PanelInv
<1>2. ASSUME NEW t \in Threads, panDesk[t] # None
      PROVE  Panel!IsInjective(panDesk[t].posted)
             /\ (Panel!Contains(panDesk[t].posted, panTyped) => t = panHome)
  <2>1. panDesk[t].posted \in Seq(Panel!Replies)
    BY <1>2 DEF PanelInv, Panel!TypeOK, Panel!Desk
  <2>2. DOMAIN panDesk[t].posted = 1 .. Len(panDesk[t].posted)
    BY <2>1
  <2> QED BY <1>1, <1>2, <2>2 DEF PostedOnce, PostedIn, Panel!IsInjective, Panel!Contains
<1>3. panTyped > 0 /\ panReply = None => Panel!Contains(panDesk[panHome].posted, panTyped)
  BY <1>1 DEF BoxAndSend, PostedIn, Panel!Contains
<1> QED BY <1>2, <1>3 DEF Panel!ReplyArrivesOnce

-----------------------------------------------------------------------------
(***************************************************************************)
(* BellPage.  A deletion that began after a reminder was sent has found    *)
(* all its notices, and none comes after it (AllFound).  What is being     *)
(* marked as read, or can be, was on the screen or squeezed off it         *)
(* (OnScreen).                                                             *)
(***************************************************************************)
\* A notice of the reminder.
Reminds(n) == bellNote[n] # None /\ bellNote[n].kind = "REMINDER"

\* A deletion that began after the notices were sent has found them all, and
\* leaves none.
AllFound ==
    /\ bellFound # None =>
        /\ bellReminder.row = "there"
        /\ ~bellMet => bellReminder.sent /\ \A n \in Bell!Notes : Reminds(n) => n \in bellFound
    /\ bellReminder.row = "deleted" /\ ~bellMet => bellReminder.sent
       /\ \A n \in Bell!Notes : ~Reminds(n)

\* What is marked read, or can be, was on the screen or squeezed.
OnScreen ==
    /\ bellMarking \subseteq bellShown \cup bellSqueezed
    /\ \A i \in DOMAIN bellToasts : bellToasts[i] \in bellShown
    /\ bellDrawer => \A row \in bellListed : row.id \in bellShown

BellInv == Bell!TypeOK /\ AllFound /\ OnScreen /\ Bell!ReadWasShown

LEMMA BellInit ==
    ASSUME Bell!GoodConstants, Bell!Init
    PROVE  BellInv
<1>1. bellSweeping \in BOOLEAN /\ bellDrawer \in BOOLEAN /\ bellMet \in BOOLEAN
  BY Zenon DEF Bell!Init
<1>2. bellToasts \in Seq(Bell!Notes) /\ Len(bellToasts) <= ToastLimit /\ DOMAIN bellToasts = {}
  BY DEF Bell!Init, Bell!GoodConstants
<1> QED BY <1>1, <1>2 DEF Bell!Init, BellInv, Bell!TypeOK, AllFound, OnScreen,
                          Bell!ReadWasShown, Reminds, Bell!GoodConstants

-----
LEMMA BellLibrary == \A S : Bell!Cardinality(S) = Cardinality(S)
BY DEF Bell!Cardinality, Cardinality, Bell!IsFiniteSet, IsFiniteSet

\* The newest first: there is such a sequence.  The i-th is the one that has
\* i - 1 newer ones.
LEMMA Sorted ==
    ASSUME NEW S, IsFiniteSet(S), S \subseteq Nat
    PROVE  Bell!NewestFirst(S) \in [1 .. Cardinality(S) -> S]
<1> DEFINE k       == Cardinality(S)
           newer(n) == {m \in S : m > n}
           rank(n)  == Cardinality(newer(n))
           s        == [i \in 1 .. k |-> CHOOSE n \in S : rank(n) = i - 1]
<1>1. k \in Nat /\ \A n \in S : n \in Nat
  BY FS_CardinalityType
<1>2. \A n \in S : rank(n) \in 0 .. k - 1
  <2> SUFFICES ASSUME NEW n \in S PROVE rank(n) \in 0 .. k - 1
    OBVIOUS
  <2>1. IsFiniteSet(S \ {n}) /\ Cardinality(S \ {n}) = k - 1
    BY FS_RemoveElement
  <2>2. newer(n) \subseteq S \ {n}
    OBVIOUS
  <2>3. IsFiniteSet(newer(n)) /\ rank(n) <= k - 1
    BY <2>1, <2>2, FS_Subset
  <2>4. rank(n) \in Nat
    BY <2>3, FS_CardinalityType
  <2> QED BY <1>1, <2>3, <2>4
<1>3. \A n, o \in S : n < o => rank(o) < rank(n)
  <2> SUFFICES ASSUME NEW n \in S, NEW o \in S, n < o PROVE rank(o) < rank(n)
    OBVIOUS
  <2>1. IsFiniteSet(newer(n))
    <3>1. newer(n) \subseteq S
      OBVIOUS
    <3> QED BY <3>1, FS_Subset
  <2>2. newer(o) \subseteq newer(n) /\ o \in newer(n) /\ o \notin newer(o)
    <3>1. o \in Int /\ n \in Int /\ o > n /\ ~(o > o)
      BY <1>1
    <3>2. \A m \in S : m > o => m > n
      BY <1>1, <3>1
    <3> QED BY <3>1, <3>2, Zenon
  <2>3. rank(o) <= rank(n) /\ rank(o) # rank(n)
    BY <2>1, <2>2, FS_Subset
  <2> HIDE DEF rank, k
  <2> QED BY <1>1, <1>2, <2>3
<1>4. \A i \in 1 .. k : \E n \in S : rank(n) = i - 1
  <2> SUFFICES ASSUME NEW i \in 1 .. k, \A n \in S : rank(n) # i - 1 PROVE FALSE
    OBVIOUS
  <2> DEFINE T == (0 .. k - 1) \ {i - 1}
             f == [n \in S |-> rank(n)]
  <2> HIDE DEF rank, k
  <2>1. IsFiniteSet(0 .. k - 1) /\ Cardinality(0 .. k - 1) = k
    <3>1. 0 \in Int /\ k - 1 \in Int /\ ~(0 > k - 1)
      BY <1>1
    <3>2. IsFiniteSet(0 .. k - 1) /\ Cardinality(0 .. k - 1) = (k - 1) - 0 + 1
      BY <3>1, FS_Interval
    <3> QED BY <1>1, <3>2
  <2>2. i - 1 \in 0 .. k - 1
    BY <1>1
  <2>3. IsFiniteSet(T) /\ Cardinality(T) = k - 1
    <3> DEFINE U == 0 .. k - 1
    <3>1. IsFiniteSet(U) /\ Cardinality(U) = k /\ i - 1 \in U
      BY <2>1, <2>2
    <3> HIDE DEF U
    <3>2. IsFiniteSet(U \ {i - 1}) /\ Cardinality(U \ {i - 1}) = k - 1
      BY <3>1, FS_RemoveElement
    <3> QED BY <3>2 DEF U
  <2>4. f \in [S -> T]
    BY <1>2
  <2>5. PICK n, o \in S : n # o /\ f[n] = f[o]
    <3>1. Cardinality(T) < Cardinality(S)
      BY <1>1, <2>3 DEF k
    <3> HIDE DEF T, f
    <3> QED BY <2>3, <2>4, <3>1, FS_PigeonHole
  <2>6. rank(n) = rank(o) /\ n \in Nat /\ o \in Nat
    BY <2>5
  <2> QED BY <1>2, <1>3, <2>5, <2>6
<1> HIDE DEF rank, k
<1>5. \A i \in 1 .. k : s[i] \in S /\ rank(s[i]) = i - 1
  BY <1>4
<1>6. s \in [1 .. k -> S]
  BY <1>5
<1> HIDE DEF s
<1>7. \A i, j \in 1 .. k : i < j => s[i] > s[j]
  <2> SUFFICES ASSUME NEW i \in 1 .. k, NEW j \in 1 .. k, i < j PROVE s[i] > s[j]
    OBVIOUS
  <2>0. /\ s[i] \in S /\ rank(s[i]) = i - 1
        /\ s[j] \in S /\ rank(s[j]) = j - 1
    BY <1>5
  <2>1. s[i] \in Nat /\ s[j] \in Nat /\ s[i] # s[j] /\ rank(s[i]) < rank(s[j])
    <3>1. s[i] \in Nat /\ s[j] \in Nat
      BY <1>1, <2>0
    <3>2. rank(s[i]) < rank(s[j])
      BY <2>0
    <3>3. s[i] # s[j]
      BY <2>0
    <3> QED BY <3>1, <3>2, <3>3
  <2>2. rank(s[j]) \in Nat /\ rank(s[i]) \in Nat
    BY <1>2, <1>1, <1>5
  <2> QED BY <1>3, <1>5, <2>1, <2>2
<1>8. s \in Bell!SetToSeqs(S)
  <2>1. \A i, j \in 1 .. k : i # j => s[i] # s[j]
    <3> SUFFICES ASSUME NEW i \in 1 .. k, NEW j \in 1 .. k, i # j PROVE s[i] # s[j]
      OBVIOUS
    <3> QED BY <1>1, <1>5
  <2> QED BY <1>6, <2>1, BellLibrary DEF Bell!SetToSeqs, k
<1>9. \E t \in Bell!SetToSeqs(S) : \A i, j \in DOMAIN t : i < j => t[i] > t[j]
  BY <1>6, <1>7, <1>8
<1>10. Bell!NewestFirst(S) \in Bell!SetToSeqs(S)
  BY <1>9 DEF Bell!NewestFirst
<1> QED BY <1>10, BellLibrary DEF Bell!SetToSeqs

\* A toast that is dismissed is gone; the others stay.
LEMMA Dismissed ==
    ASSUME NEW s \in Seq(Bell!Notes), NEW n
    PROVE  /\ Bell!RemoveFirst(s, n) \in Seq(Bell!Notes)
              /\ Len(Bell!RemoveFirst(s, n)) <= Len(s)
           /\ \A i \in DOMAIN Bell!RemoveFirst(s, n) : \E j \in DOMAIN s :
              Bell!RemoveFirst(s, n)[i] = s[j]
<1>1. CASE ~ \E i \in 1 .. Len(s) : s[i] = n
  BY <1>1 DEF Bell!RemoveFirst
<1>2. CASE \E i \in 1 .. Len(s) : s[i] = n
  <2> DEFINE I == {i \in 1 .. Len(s) : s[i] = n}
             k == Bell!SelectInSeq(s, LAMBDA v : v = n)
  <2>1. k \in 1 .. Len(s)
    <3>1. I \subseteq Nat /\ I # {}
      BY <1>2
    <3>2. \E x \in I : \A y \in I : x <= y
      <4> DEFINE R == {p \in Nat \X Nat : p[1] < p[2]}
      <4>1. IsWellFoundedOn(R, Nat)
        BY NatLessThanWellFounded DEF OpToRel
      <4> HIDE DEF I, R
      <4>2. PICK x \in I : \A y \in I : ~(<<y, x>> \in R)
        BY <3>1, <4>1, WFMin
      <4>3. \A y \in I : <<y, x>> \in R \/ x <= y
        BY <3>1 DEF R
      <4> QED BY <4>2, <4>3
    <3>3. k = Bell!Min(I)
      BY <3>1 DEF Bell!SelectInSeq
    <3> QED BY <3>2, <3>3 DEF Bell!Min
  <2>2. Bell!RemoveFirst(s, n) = Bell!RemoveAt(s, k)
    BY <1>2 DEF Bell!RemoveFirst
  <2> HIDE DEF k
  <2>3. Bell!RemoveAt(s, k) = SubSeq(s, 1, k - 1) \o SubSeq(s, k + 1, Len(s))
    BY DEF Bell!RemoveAt
  <2> DEFINE a == SubSeq(s, 1, k - 1)
             b == SubSeq(s, k + 1, Len(s))
  <2>4. a \in Seq(Bell!Notes) /\ Len(a) = k - 1 /\ \A i \in 1 .. k - 1 : a[i] = s[i]
    BY <2>1
  <2>5. /\ b \in Seq(Bell!Notes) /\ Len(b) = Len(s) - k
        /\ \A i \in 1 .. Len(s) - k : b[i] = s[k + i]
    BY <2>1
  <2> HIDE DEF a, b
  <2>6. /\ a \o b \in Seq(Bell!Notes) /\ Len(a \o b) = Len(s) - 1
        /\ \A i \in 1 .. Len(s) - 1 : \E j \in 1 .. Len(s) : (a \o b)[i] = s[j]
    <3>1. a \o b \in Seq(Bell!Notes) /\ Len(a \o b) = Len(s) - 1
      <4>1. a \o b \in Seq(Bell!Notes) /\ Len(a \o b) = Len(a) + Len(b)
        BY <2>4, <2>5
      <4>2. Len(s) \in Nat /\ k \in Int
        BY <2>1
      <4> QED BY <2>4, <2>5, <4>1, <4>2
    <3>2. ASSUME NEW i \in 1 .. Len(s) - 1
          PROVE  \E j \in 1 .. Len(s) : (a \o b)[i] = s[j]
      <4>1. CASE i <= k - 1
        <5>1. (a \o b)[i] = a[i] /\ i \in 1 .. k - 1
          BY <2>1, <2>4, <2>5, <4>1
        <5> QED BY <2>1, <2>4, <5>1
      <4>2. CASE i > k - 1
        <5>1. (a \o b)[i] = b[i - (k - 1)] /\ i - (k - 1) \in 1 .. Len(s) - k
          BY <2>1, <2>4, <2>5, <4>2
        <5>2. b[i - (k - 1)] = s[k + (i - (k - 1))]
          BY <2>5, <5>1
        <5> QED BY <2>1, <5>1, <5>2
      <4>3. i <= k - 1 \/ i > k - 1
        BY <2>1
      <4> QED BY <4>1, <4>2, <4>3
    <3> QED BY <3>1, <3>2
  <2>7. Bell!RemoveFirst(s, n) = a \o b
    BY <2>2, <2>3 DEF a, b
  <2> DEFINE r == Bell!RemoveFirst(s, n)
  <2>8. r \in Seq(Bell!Notes) /\ Len(r) = Len(s) - 1
        /\ \A i \in 1 .. Len(s) - 1 : \E j \in 1 .. Len(s) : r[i] = s[j]
    BY <2>6, <2>7
  <2> HIDE DEF r
  <2>9. Len(s) \in Nat /\ DOMAIN s = 1 .. Len(s) /\ DOMAIN r = 1 .. Len(s) - 1
    BY <2>8
  <2>10. r \in Seq(Bell!Notes) /\ Len(r) <= Len(s)
         /\ \A i \in DOMAIN r : \E j \in DOMAIN s : r[i] = s[j]
    <3>1. Len(r) <= Len(s)
      BY <2>8, <2>9
    <3> QED BY <2>8, <2>9, <3>1, Zenon
  <2> QED BY <2>10 DEF r
<1> QED BY <1>1, <1>2

\* The last few of a list of notices.
LEMMA Squeezed ==
    ASSUME Bell!GoodConstants, NEW s \in Seq(Bell!Notes)
    PROVE  Bell!LastOf(s) \in Seq(Bell!Notes) /\ Len(Bell!LastOf(s)) <= ToastLimit
<1>1. Len(s) \in Nat /\ ToastLimit \in Nat
  BY DEF Bell!GoodConstants
<1>2. CASE Len(s) > ToastLimit
  <2>1. Bell!LastOf(s) = SubSeq(s, Len(s) - ToastLimit + 1, Len(s))
    BY <1>2 DEF Bell!LastOf
  <2>2. SubSeq(s, Len(s) - ToastLimit + 1, Len(s)) \in Seq(Bell!Notes)
        /\ Len(SubSeq(s, Len(s) - ToastLimit + 1, Len(s))) = ToastLimit
    BY <1>1, <1>2
  <2> QED BY <1>1, <2>1, <2>2
<1>3. CASE ~(Len(s) > ToastLimit)
  <2>1. Bell!LastOf(s) = SubSeq(s, 1, Len(s))
    BY <1>3 DEF Bell!LastOf
  <2> QED BY <1>1, <1>3, <2>1
<1> QED BY <1>2, <1>3

-----
LEMMA NewNoteStep ==
    ASSUME Bell!GoodConstants, BellInv, NEW kind \in Bell!Kinds, Bell!CreateForUser(kind),
           UNCHANGED <<bellFound, Bell!bell, Bell!history>>,
           \/ kind # "REMINDER" /\ bellReminder' = bellReminder
           \/ bellReminder.row # "none" /\ ~bellReminder.sent
              /\ bellReminder' = [bellReminder EXCEPT !.sent = TRUE]
    PROVE  BellInv'
<1> USE DEF Bell!bell, Bell!history
<1>1. /\ bellCreated' = bellCreated + 1 /\ bellCreated' \in Bell!Notes
         /\ bellNote \in [Bell!Notes -> Bell!Row \cup {None}]
      /\ bellNote' = [bellNote EXCEPT ![bellCreated'] = [kind |-> kind, read |-> FALSE]]
  BY DEF Bell!CreateForUser, BellInv, Bell!TypeOK, Bell!Notes, Bell!GoodConstants
<1>2. /\ bellNote' \in [Bell!Notes -> Bell!Row \cup {None}]
      /\ bellNote'[bellCreated'].kind = kind /\ bellNote'[bellCreated'].read = FALSE
      /\ \A n \in Bell!Notes : n # bellCreated' => bellNote'[n] = bellNote[n]
  BY <1>1 DEF Bell!Row
<1>3. Bell!TypeOK'
  <2>1. bellCreated' \in 0 .. MaxNotes
    BY <1>1 DEF Bell!Notes, Bell!GoodConstants
  <2> QED BY <1>2, <2>1 DEF BellInv, Bell!TypeOK
<1>4. AllFound'
  BY <1>1, <1>2 DEF BellInv, AllFound, Reminds, Bell!TypeOK
<1>5. OnScreen'
  BY DEF BellInv, OnScreen
<1>6. Bell!ReadWasShown'
  BY <1>1, <1>2 DEF BellInv, Bell!ReadWasShown
<1> QED BY <1>3, <1>4, <1>5, <1>6 DEF BellInv

LEMMA ReminderStep ==
    ASSUME Bell!GoodConstants, BellInv, Bell!CreateReminder \/ Bell!FindReminder
           \/ Bell!DeleteReminder
    PROVE  BellInv'
<1> USE DEF Bell!bell, Bell!history
<1>1. CASE Bell!CreateReminder
  BY <1>1 DEF Bell!CreateReminder, BellInv, Bell!TypeOK, AllFound, OnScreen, Bell!ReadWasShown,
              Reminds
<1>2. CASE Bell!FindReminder
  <2>1. bellFound' \subseteq Bell!Notes /\ bellFound' # None /\ bellMet' \in BOOLEAN
    BY <1>2 DEF Bell!FindReminder, BellInv, Bell!TypeOK, Bell!GoodConstants
  <2>2. Bell!TypeOK'
    BY <1>2, <2>1 DEF Bell!FindReminder, BellInv, Bell!TypeOK
  <2>3. AllFound'
    BY <1>2 DEF Bell!FindReminder, BellInv, Bell!TypeOK, AllFound, Reminds
  <2> QED BY <1>2, <2>2, <2>3 DEF Bell!FindReminder, BellInv, OnScreen, Bell!ReadWasShown
<1>3. CASE Bell!DeleteReminder
  <2>1. /\ bellNote' \in [Bell!Notes -> Bell!Row \cup {None}]
        /\ \A n \in Bell!Notes : bellNote'[n] = IF n \in bellFound THEN None ELSE bellNote[n]
    BY <1>3 DEF Bell!DeleteReminder, BellInv, Bell!TypeOK
  <2>2. Bell!TypeOK'
    BY <1>3, <2>1 DEF Bell!DeleteReminder, BellInv, Bell!TypeOK
  <2>3. AllFound'
    BY <1>3, <2>1 DEF Bell!DeleteReminder, BellInv, Bell!TypeOK, AllFound, Reminds
  <2>4. Bell!ReadWasShown'
    BY <1>3, <2>1 DEF Bell!DeleteReminder, BellInv, Bell!ReadWasShown
  <2> QED BY <1>3, <2>2, <2>3, <2>4 DEF Bell!DeleteReminder, BellInv, OnScreen
<1> QED BY <1>1, <1>2, <1>3

\* A notice is read or dropped: no notice of the reminder comes.
LEMMA NoteStep ==
    ASSUME Bell!GoodConstants, BellInv, Bell!MarkAllRead
           \/ Bell!MarkSupportChannelRead
           \/ \E n \in Bell!Notes : Bell!MarkRead(n) \/ Bell!Expire(n)
    PROVE  BellInv'
<1> USE DEF Bell!bell, Bell!history
<1>1. ASSUME bellNote' \in [Bell!Notes -> Bell!Row \cup {None}],
             \A m \in Bell!Notes : bellNote'[m] # None => bellNote[m] # None
             /\ bellNote'[m].kind = bellNote[m].kind,
             UNCHANGED <<bellReminder, bellFound, bellMet>>
      PROVE  AllFound'
  BY <1>1 DEF BellInv, AllFound, Reminds
<1>2. ASSUME Bell!MarkAllRead PROVE BellInv'
  <2>1. /\ bellNote' \in [Bell!Notes -> Bell!Row \cup {None}]
        /\ \A m \in Bell!Notes : bellNote'[m] # None => bellNote[m] # None
           /\ bellNote'[m].kind = bellNote[m].kind
    BY <1>2 DEF Bell!MarkAllRead, BellInv, Bell!TypeOK, Bell!Row
  <2>2. Bell!TypeOK'
    BY <1>2, <2>1 DEF Bell!MarkAllRead, BellInv, Bell!TypeOK
  <2>3. AllFound'
    BY <1>1, <1>2, <2>1 DEF Bell!MarkAllRead
  <2>4. Bell!ReadWasShown'
    <3> SUFFICES ASSUME NEW m \in Bell!Notes, bellNote'[m] # None, bellNote'[m].read
                 PROVE  m \in bellShown' \cup bellSwept' \cup bellSqueezed'
      BY DEF Bell!ReadWasShown
    <3>1. bellNote[m] # None
      BY <2>1
    <3> QED BY <1>2, <3>1 DEF Bell!MarkAllRead, BellInv, Bell!ReadWasShown
  <2> QED BY <1>2, <2>2, <2>3, <2>4 DEF Bell!MarkAllRead, BellInv, OnScreen
<1>3. ASSUME NEW n \in Bell!Notes, Bell!MarkRead(n) PROVE BellInv'
  <2>1. /\ bellNote' \in [Bell!Notes -> Bell!Row \cup {None}]
        /\ \A m \in Bell!Notes : bellNote'[m] # None => bellNote[m] # None
           /\ bellNote'[m].kind = bellNote[m].kind
        /\ \A m \in Bell!Notes : m # n => bellNote'[m] = bellNote[m]
    BY <1>3 DEF Bell!MarkRead, Bell!Read, BellInv, Bell!TypeOK, Bell!Row
  <2>2. Bell!TypeOK'
    BY <1>3, <2>1 DEF Bell!MarkRead, BellInv, Bell!TypeOK
  <2>3. AllFound'
    BY <1>1, <1>3, <2>1 DEF Bell!MarkRead
  <2>4. Bell!ReadWasShown'
    BY <1>3, <2>1 DEF Bell!MarkRead, BellInv, Bell!ReadWasShown, OnScreen
  <2> QED BY <1>3, <2>2, <2>3, <2>4 DEF Bell!MarkRead, BellInv, OnScreen
<1>4. ASSUME NEW n \in Bell!Notes, Bell!Expire(n) PROVE BellInv'
  <2>1. /\ bellNote' \in [Bell!Notes -> Bell!Row \cup {None}]
        /\ \A m \in Bell!Notes : bellNote'[m] # None => bellNote'[m] = bellNote[m]
    BY <1>4 DEF Bell!Expire, BellInv, Bell!TypeOK, Bell!Row
  <2>2. Bell!TypeOK'
    BY <1>4, <2>1 DEF Bell!Expire, BellInv, Bell!TypeOK
  <2>3. AllFound'
    BY <1>1, <1>4, <2>1 DEF Bell!Expire
  <2>4. Bell!ReadWasShown'
    BY <1>4, <2>1 DEF Bell!Expire, BellInv, Bell!ReadWasShown
  <2> QED BY <1>4, <2>2, <2>3, <2>4 DEF Bell!Expire, BellInv, OnScreen
<1>5. ASSUME Bell!MarkSupportChannelRead PROVE BellInv'
  <2>1. PICK S \in SUBSET Bell!Notes :
          /\ \A n \in S : bellNote[n] # None
          /\ bellNote' = [n \in Bell!Notes |-> IF n \in S THEN [bellNote[n] EXCEPT !.read = TRUE]
                                             ELSE bellNote[n]]
          /\ bellSwept' = bellSwept \cup S
    BY <1>5 DEF Bell!MarkSupportChannelRead
  <2>2. UNCHANGED <<bellCreated, bellReminder, bellFound, Bell!bell, bellShown, bellSqueezed,
                    bellMet>>
    BY <1>5 DEF Bell!MarkSupportChannelRead
  <2>3. /\ bellNote' \in [Bell!Notes -> Bell!Row \cup {None}]
        /\ \A m \in Bell!Notes : bellNote'[m] # None => bellNote[m] # None
           /\ bellNote'[m].kind = bellNote[m].kind
        /\ \A m \in Bell!Notes : m \notin S => bellNote'[m] = bellNote[m]
    BY <2>1 DEF BellInv, Bell!TypeOK, Bell!Row
  <2>4. Bell!TypeOK'
    BY <2>1, <2>2, <2>3 DEF BellInv, Bell!TypeOK
  <2>5. AllFound'
    BY <1>1, <2>2, <2>3
  <2>6. Bell!ReadWasShown'
    BY <2>1, <2>2, <2>3 DEF BellInv, Bell!ReadWasShown
  <2> QED BY <2>2, <2>4, <2>5, <2>6 DEF BellInv, OnScreen
<1> QED BY <1>2, <1>3, <1>4, <1>5

LEMMA PollStep ==
    ASSUME Bell!GoodConstants, BellInv, Bell!Poll
    PROVE  BellInv'
<1> DEFINE fresh == Bell!Fresh(bellListed')
           ids   == {row.id : row \in fresh}
<1>1. bellListed' \subseteq [id : Bell!Notes, kind : Bell!Kinds, read : BOOLEAN]
  BY DEF Bell!Poll, Bell!ListMine, BellInv, Bell!TypeOK, Bell!Row
<1>2. ids \subseteq Bell!Notes
  BY <1>1 DEF Bell!Fresh
<1>3. /\ bellToasts' = Bell!LastOf(bellToasts \o Bell!NewestFirst(ids))
      /\ bellPopped' = bellPopped \cup ids
      /\ bellMarking' = bellMarking
         \cup {row.id : row \in {f \in fresh : ~Bell!KeptUnread(f.kind)}}
      /\ bellSqueezed' = bellSqueezed \cup (ids \ Bell!ToSet(bellToasts'))
      /\ bellShown' = bellShown \cup Bell!ToSet(bellToasts')
                      \cup (IF bellDrawer THEN {row.id : row \in bellListed'} ELSE {})
      /\ UNCHANGED <<Bell!store, bellSweeping, bellDrawer, bellSwept, bellMet>>
  BY DEF Bell!Poll
<1>4. {row.id : row \in {f \in fresh : ~Bell!KeptUnread(f.kind)}} \subseteq ids
  OBVIOUS
<1>5. Bell!NewestFirst(ids) \in Seq(Bell!Notes)
  <2>1. IsFiniteSet(ids) /\ ids \subseteq Nat
    <3>1. IsFiniteSet(Bell!Notes) /\ Bell!Notes \subseteq Nat
      BY FS_Interval DEF Bell!Notes, Bell!GoodConstants
    <3> QED BY <1>2, <3>1, FS_Subset
  <2>2. Cardinality(ids) \in Nat
    BY <2>1, FS_CardinalityType
  <2> HIDE DEF ids
  <2>3. Bell!NewestFirst(ids) \in [1 .. Cardinality(ids) -> Bell!Notes]
    BY <1>2, <2>1, Sorted
  <2> QED BY <2>2, <2>3
<1>6. bellToasts' \in Seq(Bell!Notes) /\ Len(bellToasts') <= ToastLimit
  <2>1. bellToasts \o Bell!NewestFirst(ids) \in Seq(Bell!Notes)
    BY <1>5 DEF BellInv, Bell!TypeOK
  <2> QED BY <1>3, <2>1, Squeezed
<1>7. Bell!ToSet(bellToasts') \subseteq Bell!Notes
      /\ \A i \in DOMAIN bellToasts' : bellToasts'[i] \in Bell!ToSet(bellToasts')
  BY <1>6 DEF Bell!ToSet
<1> HIDE DEF ids, fresh
<1>8. Bell!TypeOK'
  <2>1. {row.id : row \in bellListed'} \subseteq Bell!Notes
    BY <1>1
  <2> QED BY <1>1, <1>2, <1>3, <1>4, <1>6, <1>7, <2>1 DEF BellInv, Bell!TypeOK, Bell!store
<1>9. OnScreen'
  <2>1. bellMarking' \subseteq bellShown' \cup bellSqueezed'
    BY <1>3, <1>4 DEF BellInv, OnScreen
  <2>2. bellDrawer' => \A row \in bellListed' : row.id \in bellShown'
    BY <1>3 DEF BellInv, OnScreen
  <2> QED BY <1>3, <1>7, <2>1, <2>2 DEF OnScreen
<1> QED BY <1>3, <1>8, <1>9 DEF BellInv, AllFound, Reminds, Bell!ReadWasShown, Bell!store

LEMMA ToastStep ==
    ASSUME Bell!GoodConstants, BellInv,
           \/ \E n \in Bell!Notes : Bell!DismissToast(n)
           \/ Bell!OpenDrawer \/ Bell!ClickMarkAll \/ \E row \in bellListed : Bell!OpenItem(row)
    PROVE  BellInv'
<1> USE DEF Bell!store, Bell!history
<1>1. CASE Bell!OpenDrawer
  <2>1. {row.id : row \in bellListed} \subseteq Bell!Notes
    BY DEF BellInv, Bell!TypeOK
  <2> QED BY <1>1, <2>1 DEF Bell!OpenDrawer, BellInv, Bell!TypeOK, AllFound, Reminds, OnScreen,
                            Bell!ReadWasShown
<1>2. CASE Bell!ClickMarkAll
  BY <1>2
     DEF Bell!ClickMarkAll, BellInv, Bell!TypeOK, AllFound, Reminds, OnScreen, Bell!ReadWasShown
<1>3. ASSUME NEW n, bellToasts' = Bell!RemoveFirst(bellToasts, n)
      PROVE  /\ bellToasts' \in Seq(Bell!Notes) /\ Len(bellToasts') <= ToastLimit
             /\ \A i \in DOMAIN bellToasts' : bellToasts'[i] \in bellShown
  <2>1. bellToasts \in Seq(Bell!Notes) /\ Len(bellToasts) <= ToastLimit /\ ToastLimit \in Nat
        /\ \A i \in DOMAIN bellToasts : bellToasts[i] \in bellShown
    BY DEF BellInv, Bell!TypeOK, OnScreen, Bell!GoodConstants
  <2>2. bellToasts' \in Seq(Bell!Notes) /\ Len(bellToasts') <= Len(bellToasts)
        /\ \A i \in DOMAIN bellToasts' : \E j \in DOMAIN bellToasts :
           bellToasts'[i] = bellToasts[j]
    BY <1>3, <2>1, Dismissed
  <2> QED BY <2>1, <2>2
<1>4. ASSUME NEW n \in Bell!Notes, Bell!DismissToast(n) PROVE BellInv'
  <2>1. /\ bellToasts' \in Seq(Bell!Notes) /\ Len(bellToasts') <= ToastLimit
        /\ \A i \in DOMAIN bellToasts' : bellToasts'[i] \in bellShown
    BY <1>3, <1>4 DEF Bell!DismissToast
  <2> QED BY <1>4, <2>1
             DEF Bell!DismissToast, BellInv, Bell!TypeOK, AllFound, Reminds, OnScreen,
                            Bell!ReadWasShown
<1>5. ASSUME NEW row \in bellListed, Bell!OpenItem(row) PROVE BellInv'
  <2>1. /\ bellToasts' \in Seq(Bell!Notes) /\ Len(bellToasts') <= ToastLimit
        /\ \A i \in DOMAIN bellToasts' : bellToasts'[i] \in bellShown
    BY <1>3, <1>5 DEF Bell!OpenItem
  <2>2. row.id \in Bell!Notes /\ row.id \in bellShown
    BY <1>5 DEF Bell!OpenItem, BellInv, Bell!TypeOK, OnScreen, Bell!Contains
  <2> QED BY <1>5, <2>1, <2>2
             DEF Bell!OpenItem, BellInv, Bell!TypeOK, AllFound, Reminds, OnScreen,
                                  Bell!ReadWasShown
<1> QED BY <1>1, <1>2, <1>4, <1>5

LEMMA BellStep ==
    ASSUME Bell!GoodConstants, BellInv, [Bell!Next]_(Bell!bellVars)
    PROVE  BellInv'
<1>1. ASSUME NEW kind \in Bell!Kinds, Bell!Arrive(kind) PROVE BellInv'
  BY <1>1, NewNoteStep DEF Bell!Arrive
<1>2. ASSUME Bell!SendReminder PROVE BellInv'
  BY <1>2, NewNoteStep DEF Bell!SendReminder, Bell!Kinds
<1>3. CASE UNCHANGED Bell!bellVars
  BY <1>3 DEF Bell!bellVars, Bell!store, Bell!bell, Bell!history, BellInv, Bell!TypeOK,
              AllFound, Reminds, OnScreen,
              Bell!ReadWasShown
<1> QED BY <1>1, <1>2, <1>3, ReminderStep, NoteStep, PollStep, ToastStep DEF Bell!Next

LEMMA TakenBack ==
    ASSUME BellInv
    PROVE  Bell!TypeOK /\ Bell!ReminderTakenBack /\ Bell!ReadWasShown
BY DEF BellInv, AllFound, Reminds, Bell!ReminderTakenBack

-----------------------------------------------------------------------------
(***************************************************************************)
(* LessonPage.  On a page that stayed, what counts as watched was          *)
(* reported, and the report is under way or has arrived (Steadily).        *)
(***************************************************************************)
\* A report of this lesson is under way, or has arrived.
Reported ==
    lesDone[lesLesson] \/ \E q \in lesSent : q.of = lesLesson /\ q.type = "COMPLETE" /\ q.live

\* A request whose page is still there is of the lesson shown; what is shown
\* as counted was reported, and what was watched is shown as counted.
Steadily ==
    /\ \A q \in lesSent : q.live => q.of = lesLesson
    /\ lesLesson # None => (lesCompleted => Reported)
       /\ (lesLesson \in lesEarned => lesCompleted)

LessonInv ==
    /\ Lesson!TypeOK
    /\ \A q \in lesSent : q.live => lesLesson # None
    /\ lesCompleted <=> lesCompletedRef
    /\ lesSteady => Steadily

LEMMA LessonInit ==
    ASSUME Lesson!GoodConstants, Lesson!Init
    PROVE  LessonInv
<1>1. Lesson!TypeOK
  <2>1. lesDwell \in 0 .. Dwell /\ lesMaxPctSent \in Lesson!Shares \cup {0}
    BY DEF Lesson!Init, Lesson!GoodConstants
  <2>2. /\ lesPlayer \in BOOLEAN /\ lesViewed \in BOOLEAN /\ lesSteady \in BOOLEAN
        /\ lesCompleted \in BOOLEAN /\ lesCompletedRef \in BOOLEAN
    BY Zenon DEF Lesson!Init
  <2>3. lesDone \in [Lessons -> BOOLEAN]
    BY Zenon DEF Lesson!Init
  <2> QED BY <2>1, <2>2, <2>3, Zenon DEF Lesson!Init, Lesson!TypeOK
<1>2. lesLesson = None /\ lesSent = {} /\ lesCompleted = FALSE /\ lesCompletedRef = FALSE
  BY DEF Lesson!Init
<1> QED BY <1>1, <1>2 DEF LessonInv, Steadily

LEMMA VisitStep ==
    ASSUME Lesson!GoodConstants, LessonInv, NEW l \in Lessons, Lesson!Visit(l)
           \/ Lesson!Follow(l)
    PROVE  LessonInv'
<1>1. /\ lesLesson' = l /\ lesShown' = "loading" /\ lesPlayer' = FALSE /\ lesViewed' = FALSE
      /\ UNCHANGED <<lesVideo, lesOpen, lesDone, lesSent>>
  BY DEF Lesson!Visit, Lesson!Follow, Lesson!Enter, Lesson!server
<1>2. CASE Lesson!Visit(l)
  <2>1. /\ lesLesson = None /\ lesCompleted' = FALSE /\ lesCompletedRef' = FALSE
        /\ lesDwell' = 0 /\ lesMaxPctSent' = 0 /\ lesEarned' = {} /\ lesSteady' = TRUE
    BY <1>2 DEF Lesson!Visit
  <2>2. Lesson!TypeOK'
    <3>1. lesDwell' \in 0 .. Dwell
      BY <2>1 DEF Lesson!GoodConstants
    <3>2. /\ lesPlayer' \in BOOLEAN /\ lesViewed' \in BOOLEAN /\ lesSteady' \in BOOLEAN
          /\ lesCompleted' \in BOOLEAN /\ lesCompletedRef' \in BOOLEAN
      BY <1>1, <2>1, Zenon
    <3> QED BY <1>1, <2>1, <3>1, <3>2 DEF LessonInv, Lesson!TypeOK
  <2>3. \A q \in lesSent : ~q.live
    BY <2>1 DEF LessonInv
  <2> QED BY <1>1, <2>1, <2>2, <2>3 DEF LessonInv, Steadily, Lesson!GoodConstants
<1>3. CASE Lesson!Follow(l)
  <2>1. lesSteady' = FALSE /\ UNCHANGED <<lesCompleted, lesCompletedRef, lesDwell,
                                          lesMaxPctSent, lesEarned>>
    BY <1>3 DEF Lesson!Follow, Lesson!refs
  <2>2. Lesson!TypeOK'
    BY <1>1, <2>1 DEF LessonInv, Lesson!TypeOK
  <2> QED BY <1>1, <2>1, <2>2 DEF LessonInv, Lesson!GoodConstants
<1> QED BY <1>2, <1>3

LEMMA LeaveStep ==
    ASSUME Lesson!GoodConstants, LessonInv, Lesson!Leave
    PROVE  LessonInv'
<1>1. /\ lesLesson' = None /\ lesShown' = "loading" /\ lesPlayer' = FALSE /\ lesViewed' = FALSE
      /\ lesSent' = {[q EXCEPT !.live = FALSE] : q \in lesSent}
      /\ UNCHANGED <<lesVideo, lesOpen, lesDone, lesCompleted, lesCompletedRef, lesDwell,
                     lesMaxPctSent, lesEarned, lesSteady>>
  BY DEF Lesson!Leave, Lesson!Enter, Lesson!server, Lesson!refs
<1>2. \A q \in lesSent' : q \in Lesson!Requests /\ q.live = FALSE
  BY <1>1 DEF LessonInv, Lesson!TypeOK, Lesson!Requests
<1>3. Lesson!TypeOK'
  BY <1>1, <1>2 DEF LessonInv, Lesson!TypeOK
<1> QED BY <1>1, <1>2, <1>3 DEF LessonInv, Steadily

\* What does not touch the requests nor what the page has counted.
LEMMA LessonQuietStep ==
    ASSUME Lesson!GoodConstants, LessonInv,
           UNCHANGED <<lesDone, lesLesson, lesCompleted, lesCompletedRef, lesSent, lesEarned,
                       lesSteady>>, Lesson!TypeOK'
    PROVE  LessonInv'
BY DEF LessonInv, Steadily, Reported

LEMMA LoadStep ==
    ASSUME Lesson!GoodConstants, LessonInv,
           Lesson!Load \/ Lesson!LoadPlayback \/ (\E l \in Lessons : Lesson!Unlock(l))
           \/ UNCHANGED Lesson!lessonVars
    PROVE  LessonInv'
<1>1. UNCHANGED <<lesDone, lesLesson, lesCompleted, lesCompletedRef, lesSent, lesEarned,
                  lesSteady>>
  BY DEF Lesson!Load, Lesson!LoadPlayback, Lesson!Unlock, Lesson!lessonVars, Lesson!server,
     Lesson!refs
<1>2. Lesson!TypeOK'
  <2>1. CASE Lesson!Load
    <3>1. UNCHANGED <<Lesson!server, lesLesson, lesPlayer, Lesson!refs, lesSent, lesEarned,
                      lesSteady>>
          /\ lesShown' \in {"loading", "locked", "open"}
      BY <2>1 DEF Lesson!Load
    <3>2. lesViewed' \in BOOLEAN
      BY <2>1, Zenon DEF Lesson!Load
    <3> QED BY <3>1, <3>2 DEF LessonInv, Lesson!TypeOK, Lesson!server, Lesson!refs
  <2>2. CASE Lesson!LoadPlayback
    BY <2>2 DEF Lesson!LoadPlayback, LessonInv, Lesson!TypeOK, Lesson!server, Lesson!refs
  <2>3. ASSUME NEW l \in Lessons, Lesson!Unlock(l) PROVE Lesson!TypeOK'
    <3>1. lesOpen' \in [Lessons -> BOOLEAN]
      BY <2>3 DEF Lesson!Unlock, LessonInv, Lesson!TypeOK
    <3> QED BY <2>3, <3>1 DEF Lesson!Unlock, LessonInv, Lesson!TypeOK, Lesson!refs
  <2>4. CASE UNCHANGED Lesson!lessonVars
    BY <2>4 DEF Lesson!lessonVars, LessonInv, Lesson!TypeOK, Lesson!server, Lesson!refs
  <2> QED BY <2>1, <2>2, <2>3, <2>4
<1> QED BY <1>1, <1>2, LessonQuietStep

\* The lesson counts as it did, or a request says that it does.
Counts ==
    /\ \/ UNCHANGED <<lesCompleted, lesCompletedRef>>
       \/ /\ lesCompleted' = TRUE /\ lesCompletedRef' = TRUE
          /\ \E q \in lesSent' : q.of = lesLesson /\ q.type = "COMPLETE" /\ q.live
    /\ \/ lesEarned' = lesEarned
       \/ lesEarned' = lesEarned \cup {lesLesson} /\ lesCompleted'

\* A request is sent, or none, and the lesson may count from now on.
LEMMA ReportStep ==
    ASSUME Lesson!GoodConstants, LessonInv, lesLesson # None,
           UNCHANGED <<lesVideo, lesOpen, lesDone, lesLesson, lesShown, lesPlayer, lesSteady>>,
           lesViewed' \in BOOLEAN, lesDwell' \in 0 .. Dwell,
           lesMaxPctSent' \in Lesson!Shares \cup {0},
           lesSent \subseteq lesSent',
           \A q \in lesSent' \ lesSent : q \in Lesson!Requests /\ q.of = lesLesson,
           Counts
    PROVE  LessonInv'
<1>1. Lesson!TypeOK'
  <2>1. lesSent' \subseteq Lesson!Requests /\ lesEarned' \subseteq Lessons
    BY DEF Counts, LessonInv, Lesson!TypeOK
  <2>2. lesCompleted' \in BOOLEAN /\ lesCompletedRef' \in BOOLEAN
    BY Zenon DEF Counts, LessonInv, Lesson!TypeOK
  <2> QED BY <2>1, <2>2 DEF LessonInv, Lesson!TypeOK
<1>2. lesCompleted' <=> lesCompletedRef'
  <2>1. CASE lesCompleted' = lesCompleted /\ lesCompletedRef' = lesCompletedRef
    BY <2>1, Zenon DEF LessonInv
  <2>2. CASE lesCompleted' = TRUE /\ lesCompletedRef' = TRUE
    BY <2>2
  <2> QED BY <2>1, <2>2 DEF Counts
<1>3. \A q \in lesSent' : q.live => lesLesson' # None
  OBVIOUS
<1>4. ASSUME lesSteady PROVE Steadily'
  <2>1. Steadily
    BY <1>4 DEF LessonInv
  <2>2. \A q \in lesSent' : q.live => q.of = lesLesson
    BY <2>1 DEF Steadily
  <2>3. lesCompleted' => Reported'
    BY <2>1 DEF Counts, Steadily, Reported
  <2>4. lesCompleted => lesCompleted'
    BY DEF Counts
  <2>5. lesLesson \in lesEarned' => lesCompleted'
    BY <2>1, <2>4 DEF Counts, Steadily
  <2> QED BY <2>2, <2>3, <2>5 DEF Steadily
<1> QED BY <1>1, <1>2, <1>3, <1>4 DEF LessonInv

\* What Send adds.
LEMMA Sends ==
    ASSUME LessonInv, lesLesson # None, NEW type \in {"VIEW", "COMPLETE"}, Lesson!Send(type)
    PROVE  /\ lesSent \subseteq lesSent' /\ \A q \in lesSent' \ lesSent : q \in Lesson!Requests
              /\ q.of = lesLesson
           /\ \E q \in lesSent' : q.of = lesLesson /\ q.type = type /\ q.live
<1> DEFINE q == [of |-> lesLesson, type |-> type, live |-> TRUE]
<1>1. lesSent' = lesSent \cup {q} /\ lesLesson \in Lessons
  BY DEF Lesson!Send, LessonInv, Lesson!TypeOK
<1>2. q \in Lesson!Requests /\ q.of = lesLesson /\ q.type = type /\ q.live
  BY <1>1 DEF Lesson!Requests
<1> QED BY <1>1, <1>2

LEMMA Marks ==
    ASSUME LessonInv, lesLesson # None, Lesson!MarkComplete,
           lesEarned' = lesEarned \cup {lesLesson}
    PROVE  /\ lesSent \subseteq lesSent' /\ \A q \in lesSent' \ lesSent : q \in Lesson!Requests
              /\ q.of = lesLesson
           /\ Counts
<1>1. CASE lesCompletedRef
  <2>1. UNCHANGED <<lesCompleted, lesCompletedRef, lesSent>>
    BY <1>1 DEF Lesson!MarkComplete
  <2>2. lesCompleted
    BY <1>1 DEF LessonInv
  <2> QED BY <2>1, <2>2 DEF Counts
<1>2. CASE ~lesCompletedRef
  <2>1. lesCompletedRef' = TRUE /\ lesCompleted' = TRUE /\ Lesson!Send("COMPLETE")
    BY <1>2 DEF Lesson!MarkComplete
  <2> QED BY <2>1, Sends DEF Counts
<1> QED BY <1>1, <1>2

LEMMA CountStep ==
    ASSUME Lesson!GoodConstants, LessonInv, Lesson!ReportView \/ Lesson!Tick
           \/ \E pct \in Lesson!Shares : Lesson!Play(pct)
    PROVE  LessonInv'
<1>1. CASE Lesson!ReportView
  <2>1. /\ lesLesson # None /\ lesViewed' = TRUE /\ Lesson!Send("VIEW")
        /\ UNCHANGED <<lesVideo, lesOpen, lesDone, lesLesson, lesShown, lesPlayer, lesSteady>>
        /\ lesDwell' = lesDwell /\ lesMaxPctSent' = lesMaxPctSent
    BY <1>1 DEF Lesson!ReportView, Lesson!server, Lesson!refs
  <2>2. lesSent \subseteq lesSent' /\ \A q \in lesSent' \ lesSent : q \in Lesson!Requests
        /\ q.of = lesLesson
    BY <2>1, Sends
  <2>3. lesViewed' \in BOOLEAN
    BY <2>1, Zenon
  <2>4. lesDwell' \in 0 .. Dwell /\ lesMaxPctSent' \in Lesson!Shares \cup {0}
    BY <2>1 DEF LessonInv, Lesson!TypeOK
  <2>5. Counts
    BY <1>1 DEF Lesson!ReportView, Lesson!refs, Counts
  <2> QED BY <2>1, <2>2, <2>3, <2>4, <2>5, ReportStep
<1>2. CASE Lesson!Tick
  <2>1. /\ lesLesson # None /\ lesViewed' = lesViewed /\ lesMaxPctSent' = lesMaxPctSent
        /\ UNCHANGED <<lesVideo, lesOpen, lesDone, lesLesson, lesShown, lesPlayer, lesSteady>>
    BY <1>2 DEF Lesson!Tick, Lesson!server
  <2>2. lesViewed' \in BOOLEAN /\ lesDwell' \in 0 .. Dwell
        /\ lesMaxPctSent' \in Lesson!Shares \cup {0}
    BY <1>2, <2>1 DEF Lesson!Tick, LessonInv, Lesson!TypeOK, Lesson!GoodConstants
  <2>3. CASE lesDwell' = Dwell
    <3>1. Lesson!MarkComplete /\ lesEarned' = lesEarned \cup {lesLesson}
      BY <1>2, <2>3 DEF Lesson!Tick
    <3> QED BY <2>1, <2>2, <3>1, Marks, ReportStep
  <2>4. CASE lesDwell' # Dwell
    <3>1. lesSent' = lesSent
      BY <1>2, <2>4 DEF Lesson!Tick
    <3>2. Counts
      BY <1>2, <2>4 DEF Lesson!Tick, Counts
    <3> QED BY <2>1, <2>2, <3>1, <3>2, ReportStep
  <2> QED BY <2>3, <2>4
<1>3. ASSUME NEW pct \in Lesson!Shares, Lesson!Play(pct) PROVE LessonInv'
  <2>1. /\ lesLesson # None /\ lesViewed' = lesViewed /\ lesDwell' = lesDwell
        /\ UNCHANGED <<lesVideo, lesOpen, lesDone, lesLesson, lesShown, lesPlayer, lesSteady>>
    BY <1>3 DEF Lesson!Play, Lesson!server
  <2>2. lesViewed' \in BOOLEAN /\ lesDwell' \in 0 .. Dwell
        /\ lesMaxPctSent' \in Lesson!Shares \cup {0}
    BY <1>3, <2>1 DEF Lesson!Play, LessonInv, Lesson!TypeOK
  <2>3. CASE pct >= Lesson!CompletePct
    <3>1. Lesson!MarkComplete /\ lesEarned' = lesEarned \cup {lesLesson}
      BY <1>3, <2>3 DEF Lesson!Play
    <3> QED BY <2>1, <2>2, <3>1, Marks, ReportStep
  <2>4. CASE ~(pct >= Lesson!CompletePct)
    <3>1. lesEarned' = lesEarned
      BY <1>3, <2>4 DEF Lesson!Play
    <3>2. \/ Lesson!Send("VIEW") /\ UNCHANGED <<lesCompleted, lesCompletedRef>>
          \/ UNCHANGED <<lesCompleted, lesCompletedRef, lesSent>>
      BY <1>3, <2>4 DEF Lesson!Play
    <3>3. /\ lesSent \subseteq lesSent' /\ \A q \in lesSent' \ lesSent : q \in Lesson!Requests
             /\ q.of = lesLesson
      BY <2>1, <3>2, Sends
    <3>4. Counts
      BY <3>1, <3>2 DEF Counts
    <3> QED BY <2>1, <2>2, <3>3, <3>4, ReportStep
  <2> QED BY <2>3, <2>4
<1> QED BY <1>1, <1>2, <1>3

LEMMA LessonAnswerStep ==
    ASSUME Lesson!GoodConstants, LessonInv, NEW q \in lesSent, Lesson!Answered(q)
           \/ Lesson!Fails(q)
    PROVE  LessonInv'
<1>1. lesSent' = lesSent \ {q} /\ q \in Lesson!Requests
      /\ UNCHANGED <<lesVideo, lesOpen, lesLesson, lesShown, lesPlayer, lesViewed, lesDwell,
                     lesMaxPctSent, lesEarned>>
  BY DEF Lesson!Answered, Lesson!Fails, Lesson!server, Lesson!refs, LessonInv, Lesson!TypeOK
<1>2. CASE Lesson!Fails(q)
  <2>1. lesSteady' = FALSE /\ UNCHANGED <<lesDone, lesCompleted, lesCompletedRef>>
    BY <1>2 DEF Lesson!Fails, Lesson!server, Lesson!refs
  <2>2. Lesson!TypeOK'
    BY <1>1, <2>1 DEF LessonInv, Lesson!TypeOK
  <2> QED BY <1>1, <2>1, <2>2 DEF LessonInv
<1>3. CASE Lesson!Answered(q)
  <2>1. /\ lesDone' = [lesDone EXCEPT ![q.of] = @ \/ q.type = "COMPLETE"]
        /\ lesSteady' = lesSteady /\ q.of \in Lessons
    BY <1>1, <1>3 DEF Lesson!Answered, Lesson!Requests
  <2>2. \/ q.live /\ lesDone'[q.of] /\ lesCompletedRef' = TRUE /\ lesCompleted' = TRUE
        \/ UNCHANGED <<lesCompleted, lesCompletedRef>>
    BY <1>3 DEF Lesson!Answered
  <2>3. /\ lesDone' \in [Lessons -> BOOLEAN] /\ \A l \in Lessons : lesDone[l] => lesDone'[l]
        /\ q.type = "COMPLETE" => lesDone'[q.of]
    BY <2>1 DEF LessonInv, Lesson!TypeOK
  <2>4. Lesson!TypeOK'
    <3>1. lesCompleted' \in BOOLEAN /\ lesCompletedRef' \in BOOLEAN
      BY <2>2, Zenon DEF LessonInv, Lesson!TypeOK
    <3> QED BY <1>1, <2>1, <2>3, <3>1 DEF LessonInv, Lesson!TypeOK
  <2>5. (lesCompleted' <=> lesCompletedRef') /\ (lesCompleted => lesCompleted')
    BY <2>2 DEF LessonInv
  <2>6. ASSUME lesSteady PROVE Steadily'
    <3>1. Steadily
      BY <2>6 DEF LessonInv
    <3>2. ASSUME lesLesson # None, lesCompleted' PROVE Reported'
      <4>1. lesLesson \in Lessons
        BY <3>2 DEF LessonInv, Lesson!TypeOK
      <4>2. CASE q.live /\ lesDone'[q.of]
        BY <1>1, <3>1, <4>2 DEF Steadily, Reported
      <4>3. CASE lesCompleted
        BY <1>1, <2>3, <3>1, <3>2, <4>1, <4>3 DEF Steadily, Reported
      <4> QED BY <2>2, <3>2, <4>2, <4>3
    <3> QED BY <1>1, <2>5, <3>1, <3>2 DEF Steadily
  <2> QED BY <1>1, <2>1, <2>4, <2>5, <2>6 DEF LessonInv
<1> QED BY <1>2, <1>3

LEMMA LessonStep ==
    ASSUME Lesson!GoodConstants, LessonInv, [Lesson!Next]_(Lesson!lessonVars)
    PROVE  LessonInv'
BY VisitStep, LeaveStep, LoadStep, CountStep, LessonAnswerStep DEF Lesson!Next

LEMMA Recorded ==
    ASSUME Lesson!GoodConstants, LessonInv
    PROVE  Lesson!TypeOK /\ Lesson!CreditIsRecorded
BY DEF LessonInv, Steadily, Reported, Lesson!CreditIsRecorded

-----------------------------------------------------------------------------
(***************************************************************************)
(* Workspace.  A form that was not edited shows the title as read          *)
(* (TitleAsRead).  While nothing went wrong, at most one request will      *)
(* write the video, and it writes what was chosen last (ChoiceStands).     *)
(***************************************************************************)
\* A title that was not edited is the one the page has read last: a form made
\* from an older one is made anew.
TitleAsRead == wsForm # None /\ "title" \notin wsTyped
    => wsForm["title"] = wsCached.course["title"]

\* A request that will write the video, and what.
WritesVideo(q) ==
    q # None /\ (q.step = "upload" \/ (q.step \in {"patch", "video"} /\ q.link # "none"))
Target(q) == IF q.step = "upload" THEN "file" ELSE "link"

\* The second request of a save is only sent for a link.
TasksSound == \A t \in Slots : wsTask[t] # None /\ wsTask[t].step = "video"
    => wsTask[t].link # "none"

\* Nothing is sent before there is a lesson.
NothingYet == wsLesson = "absent" =>
    /\ wsCached.lesson = "absent" /\ wsPanel = None /\ wsChoice = "none"
    /\ \A t \in Slots : wsTask[t] = None

ChoiceStands == wsCalm =>
    /\ \A t, u \in Slots : WritesVideo(wsTask[t]) /\ WritesVideo(wsTask[u]) => t = u
    /\ \A t \in Slots : WritesVideo(wsTask[t]) => wsChoice = Target(wsTask[t])
    /\ (\A t \in Slots : ~WritesVideo(wsTask[t])) /\ wsLesson \in Editor!Videos
         => wsLesson = wsChoice

LessonsInv == TasksSound /\ NothingYet /\ ChoiceStands

EditorInv ==
    /\ Editor!TypeOK
    /\ TitleAsRead
    /\ Editor!SendsWhatWasEdited
    /\ LessonsInv

LEMMA EditorInit ==
    ASSUME Editor!GoodConstants, Editor!Init
    PROVE  EditorInv
<1>1. wsCourse \in Editor!Courses /\ wsLesson = "absent"
  BY DEF Editor!Init, Editor!Courses
<1>2. wsCalm \in BOOLEAN
  BY Zenon DEF Editor!Init
<1>3. wsTask \in [Slots -> Editor!Tasks \cup {None}] /\ \A t \in Slots : wsTask[t] = None
  BY DEF Editor!Init
<1>4. Editor!TypeOK
  BY <1>1, <1>2, <1>3 DEF Editor!Init, Editor!TypeOK, Editor!Videos, Editor!GoodConstants
<1>5. LessonsInv
  BY <1>1, <1>3 DEF Editor!Init, LessonsInv, TasksSound, NothingYet, ChoiceStands, WritesVideo,
                    Editor!Videos
<1> QED BY <1>4, <1>5 DEF Editor!Init, EditorInv, TitleAsRead, Editor!SendsWhatWasEdited

\* The form and what it is made of.
LEMMA EditorFormStep ==
    ASSUME Editor!GoodConstants, EditorInv,
           \/ Editor!Refetch \/ Editor!SaveSettings \/ Editor!SettingsArrive
              \/ Editor!SettingsFail
           \/ \E key \in {"content", "settings"} : Editor!SetTab(key)
           \/ \E f \in Editor!Fields, v \in Values : Editor!Type(f, v)
              \/ Editor!OtherSaves(f, v)
    PROVE  EditorInv'
<1>1. UNCHANGED <<wsLesson, wsPanel, wsTask, wsChoice, wsCalm>>
  BY DEF Editor!Refetch, Editor!SaveSettings, Editor!SettingsArrive, Editor!SettingsFail,
     Editor!SetTab, Editor!Type, Editor!OtherSaves, Editor!history
<1>2. LessonsInv'
  <2>1. wsCached'.lesson \in {wsCached.lesson, wsLesson}
    BY DEF Editor!Refetch, Editor!SaveSettings, Editor!SettingsArrive, Editor!SettingsFail,
       Editor!SetTab, Editor!Type, Editor!OtherSaves, Editor!history
  <2> QED BY <1>1, <2>1 DEF EditorInv, LessonsInv, TasksSound, NothingYet, ChoiceStands
<1>3. wsCourse \in Editor!Courses /\ wsCached.course \in Editor!Courses
      /\ (wsForm # None => wsForm \in Editor!Courses)
      /\ wsCached \in [course : Editor!Courses, lesson : Editor!Videos \cup {"absent", "gone"}]
  BY DEF EditorInv, Editor!TypeOK
<1>4. CASE Editor!Refetch
  <2>1. /\ wsCached' = [course |-> wsCourse, lesson |-> wsLesson]
           /\ wsStale' = wsStale \ {"title"}
        /\ UNCHANGED <<wsCourse, wsTab, wsSaving, wsOthers, wsSaves>>
        /\ \/ /\ wsForm # None /\ wsForm' = wsCourse /\ wsTyped' = {}
           \/ /\ wsForm # None => wsCourse["title"] = wsCached.course["title"]
              /\ wsForm' = wsForm /\ wsTyped' = wsTyped
    BY <1>4 DEF Editor!Refetch, Editor!Key
  <2>2. Editor!TypeOK'
    BY <1>1, <2>1, <1>3 DEF EditorInv, Editor!TypeOK
  <2>3. TitleAsRead' /\ Editor!SendsWhatWasEdited'
    BY <2>1 DEF EditorInv, TitleAsRead, Editor!SendsWhatWasEdited, Editor!Fields
  <2> QED BY <1>2, <2>2, <2>3 DEF EditorInv
<1>5. ASSUME NEW key \in {"content", "settings"}, Editor!SetTab(key) PROVE EditorInv'
  <2>1. /\ UNCHANGED <<wsCourse, wsCached, wsSaving, wsOthers, wsSaves>>
        /\ wsTab' = key /\ wsForm' \in {wsCached.course, None} /\ wsTyped' = {}
        /\ wsStale' = {f \in Editor!Fields : wsCached.course[f] # wsCourse[f]}
    BY <1>5 DEF Editor!SetTab
  <2>2. Editor!TypeOK'
    BY <1>1, <2>1, <1>3 DEF EditorInv, Editor!TypeOK
  <2>3. TitleAsRead' /\ Editor!SendsWhatWasEdited'
    BY <2>1 DEF TitleAsRead, Editor!SendsWhatWasEdited
  <2> QED BY <1>2, <2>2, <2>3 DEF EditorInv
<1>6. ASSUME NEW f \in Editor!Fields, NEW v \in Values, Editor!Type(f, v) PROVE EditorInv'
  <2>1. /\ UNCHANGED <<wsCourse, wsCached, wsTab, wsSaving, wsOthers, wsSaves, wsStale>>
        /\ wsForm # None /\ wsForm' = [wsForm EXCEPT ![f] = v] /\ wsTyped' = wsTyped \cup {f}
    BY <1>6 DEF Editor!Type
  <2>2. wsForm' \in Editor!Courses /\ \A o \in Editor!Fields \ {f} : wsForm'[o] = wsForm[o]
    BY <1>3, <2>1 DEF Editor!Courses
  <2>3. Editor!TypeOK'
    BY <1>1, <2>1, <2>2 DEF EditorInv, Editor!TypeOK
  <2>4. TitleAsRead' /\ Editor!SendsWhatWasEdited'
    BY <2>1, <2>2 DEF EditorInv, TitleAsRead, Editor!SendsWhatWasEdited, Editor!Fields
  <2> QED BY <1>2, <2>3, <2>4 DEF EditorInv
<1>7. ASSUME NEW f \in Editor!Fields, NEW v \in Values, Editor!OtherSaves(f, v) PROVE EditorInv'
  <2>1. /\ UNCHANGED <<wsCached, wsTab, wsForm, wsSaving, wsSaves, wsTyped>>
        /\ wsOthers' \in 0 .. MaxOthers
        /\ wsCourse' = [wsCourse EXCEPT ![f] = v] /\ wsStale' = wsStale \cup {f}
    BY <1>7 DEF Editor!OtherSaves, EditorInv, Editor!TypeOK, Editor!GoodConstants
  <2>2. wsCourse' \in Editor!Courses
        /\ \A o \in Editor!Fields \ {f} : wsCourse'[o] = wsCourse[o]
    BY <1>3, <2>1 DEF Editor!Courses
  <2>3. Editor!TypeOK'
    BY <1>1, <2>1, <2>2 DEF EditorInv, Editor!TypeOK
  <2>4. TitleAsRead' /\ Editor!SendsWhatWasEdited'
    BY <2>1, <2>2 DEF EditorInv, TitleAsRead, Editor!SendsWhatWasEdited
  <2> QED BY <1>2, <2>3, <2>4 DEF EditorInv
<1>8. CASE Editor!SettingsArrive
  <2>1. /\ UNCHANGED <<wsCached, wsTab, wsForm, wsOthers, wsSaves, wsTyped>>
        /\ wsSaving # None /\ wsCourse' = wsSaving /\ wsSaving' = None
        /\ wsStale' = wsStale \cup {f \in Editor!Fields : wsCourse[f] # wsSaving[f]}
    BY <1>8 DEF Editor!SettingsArrive
  <2>2. Editor!TypeOK'
    BY <1>1, <2>1 DEF EditorInv, Editor!TypeOK
  <2>3. TitleAsRead' /\ Editor!SendsWhatWasEdited'
    BY <2>1 DEF EditorInv, TitleAsRead, Editor!SendsWhatWasEdited
  <2> QED BY <1>2, <2>2, <2>3 DEF EditorInv
<1>9. CASE Editor!SaveSettings \/ Editor!SettingsFail
  <2>1. /\ UNCHANGED <<wsCourse, wsCached, wsTab, wsForm, wsOthers, wsTyped, wsStale>>
        /\ wsSaving' \in {wsForm, None} /\ wsSaves' \in 0 .. MaxSaves
    BY <1>9 DEF Editor!SaveSettings, Editor!SettingsFail, Editor!history, EditorInv,
                Editor!TypeOK, Editor!GoodConstants
  <2>2. Editor!TypeOK'
    BY <1>1, <2>1 DEF EditorInv, Editor!TypeOK
  <2>3. TitleAsRead' /\ Editor!SendsWhatWasEdited'
    BY <2>1 DEF EditorInv, TitleAsRead, Editor!SendsWhatWasEdited
  <2> QED BY <1>2, <2>2, <2>3 DEF EditorInv
<1> QED BY <1>4, <1>5, <1>6, <1>7, <1>8, <1>9

\* A request goes on as the same request, whoever waits for it.
SameWork(p, q) == (p = None <=> q = None) /\ (p # None => q.step = p.step /\ q.link = p.link)

LEMMA Orphans ==
    ASSUME Editor!GoodConstants, NEW f \in [Slots -> Editor!Tasks \cup {None}]
    PROVE  /\ Editor!Orphaned(f) \in [Slots -> Editor!Tasks \cup {None}]
           /\ \A t \in Slots : SameWork(f[t], Editor!Orphaned(f)[t])
<1>1. ASSUME NEW q \in Editor!Tasks
      PROVE  /\ [q EXCEPT !.mine = FALSE] \in Editor!Tasks
             /\ [q EXCEPT !.mine = FALSE].step = q.step
             /\ [q EXCEPT !.mine = FALSE].link = q.link
  BY DEF Editor!Tasks
<1>2. None \notin Editor!Tasks
  BY DEF Editor!GoodConstants
<1>3. ASSUME NEW t \in Slots
      PROVE  /\ Editor!Orphaned(f)[t] \in Editor!Tasks \cup {None}
             /\ SameWork(f[t], Editor!Orphaned(f)[t])
  <2>1. CASE f[t] = None
    BY <2>1 DEF Editor!Orphaned, SameWork
  <2>2. CASE f[t] # None
    <3>1. f[t] \in Editor!Tasks /\ Editor!Orphaned(f)[t] = [f[t] EXCEPT !.mine = FALSE]
      BY <2>2 DEF Editor!Orphaned
    <3> QED BY <1>1, <1>2, <2>2, <3>1 DEF SameWork
  <2> QED BY <2>1, <2>2
<1>4. Editor!Orphaned(f) = [t \in Slots |-> Editor!Orphaned(f)[t]]
  BY DEF Editor!Orphaned
<1> QED BY <1>3, <1>4

LEMMA Writers ==
    \A t \in Slots : t \in Editor!VideoWriters <=> WritesVideo(wsTask[t])
BY DEF Editor!VideoWriters, Editor!Running, WritesVideo

\* Nothing happens to the requests.
LEMMA WorkGoesOn ==
    ASSUME EditorInv, \A t \in Slots : SameWork(wsTask[t], wsTask'[t]),
           wsChoice' = wsChoice, wsCalm' => wsCalm,
           wsLesson' = wsLesson \/ wsLesson' = "gone" \/ ~wsCalm'
              \/ (wsLesson = "absent" /\ wsLesson' = "none"),
           wsLesson' = "absent" => wsLesson = "absent",
           wsCached' = wsCached, wsLesson' = "absent" => wsPanel' = None
    PROVE  LessonsInv'
<1>1. \A t \in Slots : (WritesVideo(wsTask[t]) <=> WritesVideo(wsTask'[t]))
           /\ (WritesVideo(wsTask[t]) => Target(wsTask[t]) = Target(wsTask'[t]))
  BY DEF SameWork, WritesVideo, Target
<1>2. TasksSound' /\ NothingYet'
  BY DEF EditorInv, LessonsInv, TasksSound, NothingYet, SameWork
<1>3. ChoiceStands'
  BY <1>1 DEF EditorInv, LessonsInv, ChoiceStands, NothingYet, Editor!Videos
<1> QED BY <1>2, <1>3 DEF LessonsInv

\* A request is over; if it was to write the video, it has, or calm is gone.
LEMMA WorkEnds ==
    ASSUME EditorInv, NEW t \in Slots, wsTask[t] # None, wsTask'[t] = None,
           \A u \in Slots \ {t} : SameWork(wsTask[u], wsTask'[u]),
           wsChoice' = wsChoice, wsCalm' => wsCalm, wsCached' = wsCached,
           wsCalm' /\ WritesVideo(wsTask[t]) => wsLesson' = Target(wsTask[t]),
           ~WritesVideo(wsTask[t]) => wsLesson' = wsLesson,
           wsLesson' = "absent" => wsLesson = "absent"
    PROVE  LessonsInv'
<1>1. \A u \in Slots \ {t} : (WritesVideo(wsTask[u]) <=> WritesVideo(wsTask'[u]))
           /\ (WritesVideo(wsTask[u]) => Target(wsTask[u]) = Target(wsTask'[u]))
  BY DEF SameWork, WritesVideo, Target
<1>2. ~WritesVideo(wsTask'[t]) /\ wsLesson # "absent"
  BY DEF WritesVideo, EditorInv, LessonsInv, NothingYet
<1>3. TasksSound' /\ NothingYet'
  BY <1>2 DEF EditorInv, LessonsInv, TasksSound, NothingYet, SameWork
<1>4. ChoiceStands'
  <2> SUFFICES ASSUME wsCalm' PROVE ChoiceStands'
    BY DEF ChoiceStands
  <2>1. wsCalm /\ ChoiceStands
    BY DEF EditorInv, LessonsInv
  <2>2. CASE WritesVideo(wsTask[t])
    <3>1. wsChoice = Target(wsTask[t]) /\ \A u \in Slots \ {t} : ~WritesVideo(wsTask[u])
      BY <2>1, <2>2 DEF ChoiceStands
    <3> QED BY <1>1, <1>2, <2>2, <3>1 DEF ChoiceStands
  <2>3. CASE ~WritesVideo(wsTask[t])
    BY <1>1, <1>2, <2>1, <2>3 DEF ChoiceStands
  <2> QED BY <2>2, <2>3
<1> QED BY <1>3, <1>4 DEF LessonsInv

\* A request is sent; if it is to write the video, no other is, and it is
\* to write what was chosen.
LEMMA WorkBegins ==
    ASSUME EditorInv, NEW t \in Slots, wsTask[t] = None, wsTask'[t] # None,
           wsTask'[t].step \in {"patch", "upload"},
           \A u \in Slots \ {t} : SameWork(wsTask[u], wsTask'[u]),
           wsLesson' = wsLesson, wsCalm' => wsCalm, wsCached' = wsCached,
           wsPanel # None,
           wsCalm' /\ WritesVideo(wsTask'[t]) =>
               wsChoice' = Target(wsTask'[t]) /\ \A u \in Slots : ~WritesVideo(wsTask[u]),
           ~WritesVideo(wsTask'[t]) => wsChoice' = wsChoice
    PROVE  LessonsInv'
<1>1. \A u \in Slots \ {t} : (WritesVideo(wsTask[u]) <=> WritesVideo(wsTask'[u]))
           /\ (WritesVideo(wsTask[u]) => Target(wsTask[u]) = Target(wsTask'[u]))
  BY DEF SameWork, WritesVideo, Target
<1>2. ~WritesVideo(wsTask[t]) /\ wsLesson # "absent"
  BY DEF WritesVideo, EditorInv, LessonsInv, NothingYet
<1>3. TasksSound' /\ NothingYet'
  BY <1>2 DEF EditorInv, LessonsInv, TasksSound, NothingYet, SameWork
<1>4. ChoiceStands'
  <2> SUFFICES ASSUME wsCalm' PROVE ChoiceStands'
    BY DEF ChoiceStands
  <2>1. wsCalm /\ ChoiceStands
    BY DEF EditorInv, LessonsInv
  <2>2. CASE WritesVideo(wsTask'[t])
    BY <1>1, <1>2, <2>1, <2>2 DEF ChoiceStands
  <2>3. CASE ~WritesVideo(wsTask'[t])
    BY <1>1, <1>2, <2>1, <2>3 DEF ChoiceStands
  <2> QED BY <2>2, <2>3
<1> QED BY <1>3, <1>4 DEF LessonsInv

LEMMA PanelOpenStep ==
    ASSUME Editor!GoodConstants, EditorInv,
           \/ Editor!AddLesson \/ Editor!EditLesson \/ Editor!ClosePanel \/ Editor!RemoveLesson
           \/ \E link \in {"none", "typed"} : Editor!TypeLink(link)
           \/ \E l \in Editor!Videos : Editor!OtherEdits(l)
           \/ UNCHANGED Editor!workspaceVars
    PROVE  EditorInv'
<1> USE DEF Editor!AddLesson, Editor!EditLesson, Editor!ClosePanel, Editor!RemoveLesson,
            Editor!TypeLink, Editor!OtherEdits, Editor!There,
            Editor!workspaceVars, Editor!pageState, Editor!history
<1>1. UNCHANGED <<wsCourse, wsCached, wsTab, wsForm, wsSaving, wsTyped, wsStale, wsSaves,
                  wsChoice>>
  OBVIOUS
<1>2. TitleAsRead' /\ Editor!SendsWhatWasEdited'
  BY <1>1 DEF EditorInv, TitleAsRead, Editor!SendsWhatWasEdited
<1>3. wsOthers' \in 0 .. MaxOthers
  BY DEF EditorInv, Editor!TypeOK, Editor!GoodConstants
<1>4. /\ wsLesson' \in Editor!Videos \cup {"absent", "gone"}
      /\ \/ wsLesson' = wsLesson \/ wsLesson' = "gone" \/ ~wsCalm'
         \/ wsLesson = "absent" /\ wsLesson' = "none"
      /\ wsLesson' = "absent" => wsLesson = "absent"
  BY DEF EditorInv, Editor!TypeOK, Editor!Videos
<1>5. wsPanel' \in Editor!Panels \cup {None}
  <2>1. wsPanel \in Editor!Panels \cup {None}
    BY DEF EditorInv, Editor!TypeOK
  <2>2. CASE Editor!EditLesson
    BY <2>2 DEF Editor!Panels, Editor!Links
  <2>3. CASE ~Editor!EditLesson
    BY <2>1, <2>3 DEF Editor!Panels, Editor!Links
  <2> QED BY <2>2, <2>3
<1>6. wsCalm' \in BOOLEAN /\ (wsCalm' => wsCalm)
  <2>1. wsCalm' = wsCalm \/ wsCalm' = FALSE
    OBVIOUS
  <2>2. wsCalm \in BOOLEAN
    BY DEF EditorInv, Editor!TypeOK
  <2>3. CASE wsCalm' = wsCalm
    BY <2>2, <2>3, Zenon
  <2>4. CASE wsCalm' = FALSE
    BY <2>4
  <2> QED BY <2>1, <2>3, <2>4
<1>7. wsTask' \in [Slots -> Editor!Tasks \cup {None}]
      /\ \A t \in Slots : SameWork(wsTask[t], wsTask'[t])
  <2>1. wsTask \in [Slots -> Editor!Tasks \cup {None}]
    BY DEF EditorInv, Editor!TypeOK
  <2>2. wsTask' = wsTask \/ wsTask' = Editor!Orphaned(wsTask)
    OBVIOUS
  <2>3. CASE wsTask' = wsTask
    BY <2>1, <2>3 DEF SameWork
  <2>4. CASE wsTask' = Editor!Orphaned(wsTask)
    BY <2>1, <2>4, Orphans
  <2> QED BY <2>2, <2>3, <2>4
<1>8. Editor!TypeOK'
  BY <1>1, <1>3, <1>4, <1>5, <1>6, <1>7 DEF EditorInv, Editor!TypeOK
<1>9. wsLesson' = "absent" => wsPanel' = None
  <2> SUFFICES ASSUME wsLesson' = "absent" PROVE wsPanel' = None
    OBVIOUS
  <2>1. wsPanel = None /\ wsCached.lesson = "absent"
    BY <1>4 DEF EditorInv, LessonsInv, NothingYet
  <2> QED BY <2>1 DEF Editor!Videos
<1>10. LessonsInv'
  BY <1>1, <1>4, <1>6, <1>7, <1>9, WorkGoesOn
<1> QED BY <1>2, <1>8, <1>10 DEF EditorInv

\* What the requests of a panel leave alone.
LEMMA TaskFrame ==
    ASSUME Editor!GoodConstants, EditorInv,
           UNCHANGED <<wsCourse, wsCached, wsTab, wsForm, wsSaving, wsTyped, wsStale, wsOthers>>,
           wsLesson' \in Editor!Videos \cup {"absent", "gone"},
           wsPanel' \in {wsPanel, None}, wsSaves' \in 0 .. MaxSaves,
           wsTask' \in [Slots -> Editor!Tasks \cup {None}], wsChoice' \in Editor!Videos,
           wsCalm' \in BOOLEAN, LessonsInv'
    PROVE  EditorInv'
<1>1. Editor!TypeOK'
  BY DEF EditorInv, Editor!TypeOK
<1>2. TitleAsRead' /\ Editor!SendsWhatWasEdited'
  BY DEF EditorInv, TitleAsRead, Editor!SendsWhatWasEdited
<1> QED BY <1>1, <1>2 DEF EditorInv

LEMMA SendStepOfPanel ==
    ASSUME Editor!GoodConstants, EditorInv, NEW t \in Slots,
           Editor!SaveLesson(t) \/ Editor!UploadVideo(t)
    PROVE  EditorInv'
<1>1. /\ UNCHANGED <<wsCourse, wsCached, wsTab, wsForm, wsSaving, wsTyped, wsStale, wsOthers>>
      /\ UNCHANGED <<wsLesson, wsPanel>> /\ wsPanel # None /\ wsTask[t] = None
      /\ wsSaves' \in 0 .. MaxSaves
  BY DEF Editor!SaveLesson, Editor!UploadVideo, EditorInv, Editor!TypeOK, Editor!GoodConstants
<1>2. PICK q : /\ wsTask' = [wsTask EXCEPT ![t] = q]
               /\ \/ /\ Editor!SaveLesson(t)
                     /\ q = [step |-> "patch", link |-> wsPanel.link, mine |-> TRUE]
                  \/ /\ Editor!UploadVideo(t)
                     /\ q = [step |-> "upload", link |-> "none", mine |-> TRUE]
  BY DEF Editor!SaveLesson, Editor!UploadVideo
<1>3. q \in Editor!Tasks /\ q # None /\ q.step \in {"patch", "upload"}
  <2>1. wsPanel.link \in Editor!Links
    BY <1>1 DEF EditorInv, Editor!TypeOK, Editor!Panels
  <2>2. CASE q = [step |-> "patch", link |-> wsPanel.link, mine |-> TRUE]
    <3>1. q \in Editor!Tasks /\ q.step = "patch"
      BY <2>1, <2>2 DEF Editor!Tasks
    <3> QED BY <3>1 DEF Editor!GoodConstants
  <2>3. CASE q = [step |-> "upload", link |-> "none", mine |-> TRUE]
    <3>1. q \in Editor!Tasks /\ q.step = "upload"
      BY <2>3 DEF Editor!Tasks, Editor!Links
    <3> QED BY <3>1 DEF Editor!GoodConstants
  <2> QED BY <1>2, <2>2, <2>3
<1>4. /\ wsTask' \in [Slots -> Editor!Tasks \cup {None}] /\ wsTask'[t] = q
      /\ \A u \in Slots \ {t} : SameWork(wsTask[u], wsTask'[u])
  BY <1>2, <1>3 DEF EditorInv, Editor!TypeOK, SameWork
<1>5. wsChoice' \in Editor!Videos
  BY DEF Editor!SaveLesson, Editor!UploadVideo, EditorInv, Editor!TypeOK, Editor!Videos
<1>6. CASE Editor!SaveLesson(t) /\ q = [step |-> "patch", link |-> wsPanel.link, mine |-> TRUE]
  <2>1. /\ wsCalm' = (wsCalm /\ (wsPanel.link # "none" => Editor!VideoWriters = {})
                            /\ (wsPanel.link = "kept" => wsChoice = "link"))
        /\ wsChoice' = IF wsPanel.link = "typed" THEN "link" ELSE wsChoice
    BY <1>6 DEF Editor!SaveLesson
  <2>2. /\ wsCalm' \in BOOLEAN /\ (wsCalm' => wsCalm)
        /\ wsCalm' /\ wsPanel.link # "none" => Editor!VideoWriters = {}
        /\ wsCalm' /\ wsPanel.link = "kept" => wsChoice = "link"
    BY <2>1, Zenon
  <2>3. wsPanel.link \in Editor!Links /\ q.step = "patch" /\ q.link = wsPanel.link
    BY <1>1, <1>6 DEF EditorInv, Editor!TypeOK, Editor!Panels
  <2>4. WritesVideo(q) => wsPanel.link \in {"kept", "typed"}
    BY <2>3 DEF WritesVideo, Editor!Links
  <2>5. wsCalm' /\ WritesVideo(q) =>
            wsChoice' = Target(q) /\ \A u \in Slots : ~WritesVideo(wsTask[u])
    BY <2>1, <2>2, <2>3, <2>4, Writers DEF Target
  <2>6. ~WritesVideo(q) => wsChoice' = wsChoice
    BY <1>3, <2>1, <2>3 DEF WritesVideo
  <2>7. LessonsInv'
    BY <1>1, <1>3, <1>4, <2>2, <2>5, <2>6, WorkBegins
  <2> QED BY <1>1, <1>4, <1>5, <2>2, <2>7, TaskFrame DEF EditorInv, Editor!TypeOK
<1>7. CASE Editor!UploadVideo(t) /\ q = [step |-> "upload", link |-> "none", mine |-> TRUE]
  <2>1. wsCalm' = (wsCalm /\ Editor!VideoWriters = {}) /\ wsChoice' = "file"
    BY <1>7 DEF Editor!UploadVideo
  <2>2. /\ wsCalm' \in BOOLEAN /\ (wsCalm' => wsCalm)
        /\ wsCalm' => Editor!VideoWriters = {}
    BY <2>1, Zenon
  <2>3. WritesVideo(q) /\ wsChoice' = Target(q)
    BY <1>3, <1>7, <2>1 DEF WritesVideo, Target
  <2>4. wsCalm' => \A u \in Slots : ~WritesVideo(wsTask[u])
    BY <2>2, Writers
  <2>5. LessonsInv'
    BY <1>1, <1>3, <1>4, <2>2, <2>3, <2>4, WorkBegins
  <2> QED BY <1>1, <1>4, <1>5, <2>2, <2>5, TaskFrame DEF EditorInv, Editor!TypeOK
<1> QED BY <1>2, <1>6, <1>7

LEMMA EndStepOfPanel ==
    ASSUME Editor!GoodConstants, EditorInv, NEW t \in Slots,
           \/ Editor!PatchArrives(t) \/ Editor!VideoArrives(t)
           \/ Editor!UploadArrives(t) \/ Editor!LessonFails(t)
    PROVE  EditorInv'
<1>1. /\ UNCHANGED <<wsCourse, wsCached, wsTab, wsForm, wsSaving, wsTyped, wsStale, wsOthers>>
      /\ UNCHANGED <<wsSaves, wsChoice>> /\ wsPanel' \in {wsPanel, None}
      /\ wsTask[t] # None
  BY DEF Editor!PatchArrives, Editor!VideoArrives, Editor!UploadArrives, Editor!LessonFails,
     Editor!Running, Editor!Ends, Editor!history
<1>2. /\ wsTask \in [Slots -> Editor!Tasks \cup {None}] /\ wsTask[t] \in Editor!Tasks
      /\ wsCalm \in BOOLEAN /\ wsChoice \in Editor!Videos /\ wsSaves \in 0 .. MaxSaves
      /\ wsLesson \in Editor!Videos \cup {"absent", "gone"}
  BY <1>1 DEF EditorInv, Editor!TypeOK
<1>3. PICK f : f = [wsTask EXCEPT ![t] = None]
  OBVIOUS
<1>4. /\ f \in [Slots -> Editor!Tasks \cup {None}] /\ f[t] = None
      /\ \A u \in Slots \ {t} : f[u] = wsTask[u]
  BY <1>2, <1>3
<1>5. ASSUME wsTask' \in {f, Editor!Orphaned(f)}
      PROVE  /\ wsTask' \in [Slots -> Editor!Tasks \cup {None}] /\ wsTask'[t] = None
             /\ \A u \in Slots \ {t} : SameWork(wsTask[u], wsTask'[u])
  <2>1. CASE wsTask' = f
    BY <1>4, <2>1 DEF SameWork
  <2>2. CASE wsTask' = Editor!Orphaned(f)
    <3>1. /\ Editor!Orphaned(f) \in [Slots -> Editor!Tasks \cup {None}]
          /\ \A u \in Slots : SameWork(f[u], Editor!Orphaned(f)[u])
      BY <1>4, Orphans
    <3> QED BY <1>4, <2>2, <3>1 DEF SameWork
  <2> QED BY <1>5, <2>1, <2>2
<1>6. CASE Editor!PatchArrives(t)
  <2>1. /\ wsTask[t].step = "patch" /\ UNCHANGED <<wsLesson, wsCalm>>
        /\ wsLesson \in Editor!Videos
    BY <1>6 DEF Editor!PatchArrives, Editor!Running, Editor!There, Editor!history
  <2>2. wsCalm' \in BOOLEAN /\ (wsCalm' => wsCalm)
    BY <1>2, <2>1
  <2>3. CASE wsTask[t].link = "none"
    <3>1. wsTask' = Editor!Orphaned(f)
      BY <1>3, <1>6, <2>3 DEF Editor!PatchArrives, Editor!Ends
    <3>2. ~WritesVideo(wsTask[t])
      BY <2>1, <2>3 DEF WritesVideo
    <3>3. LessonsInv'
      BY <1>1, <1>5, <2>1, <2>2, <3>1, <3>2, WorkEnds
    <3> QED BY <1>1, <1>2, <1>5, <2>1, <2>2, <3>1, <3>3, TaskFrame
  <2>4. CASE wsTask[t].link # "none"
    <3>1. PICK q : q = [wsTask[t] EXCEPT !.step = "video"]
      OBVIOUS
    <3>2. /\ q \in Editor!Tasks /\ q.step = "video" /\ q.link = wsTask[t].link
          /\ q # None
      BY <1>2, <3>1 DEF Editor!Tasks, Editor!GoodConstants
    <3>3. wsTask' = [wsTask EXCEPT ![t] = q]
      BY <1>6, <2>4, <3>1 DEF Editor!PatchArrives
    <3>4. /\ wsTask' \in [Slots -> Editor!Tasks \cup {None}] /\ wsTask'[t] = q
          /\ \A u \in Slots \ {t} : wsTask'[u] = wsTask[u]
      BY <1>2, <3>2, <3>3
    <3>5. /\ WritesVideo(wsTask[t]) /\ WritesVideo(q)
          /\ Target(q) = Target(wsTask[t])
      BY <1>1, <2>1, <2>4, <3>2 DEF WritesVideo, Target
    <3>6. TasksSound' /\ NothingYet'
      BY <1>1, <2>1, <2>4, <3>2, <3>4
         DEF EditorInv, LessonsInv, TasksSound, NothingYet, Editor!Videos
    <3>7. ChoiceStands'
      <4>1. \A u \in Slots : (WritesVideo(wsTask[u]) <=> WritesVideo(wsTask'[u]))
               /\ Target(wsTask[u]) = Target(wsTask'[u])
        BY <3>4, <3>5
      <4>2. ChoiceStands
        BY DEF EditorInv, LessonsInv
      <4> QED BY <1>1, <2>1, <2>2, <4>1, <4>2 DEF ChoiceStands
    <3>8. LessonsInv'
      BY <3>6, <3>7 DEF LessonsInv
    <3> QED BY <1>1, <1>2, <2>1, <2>2, <3>4, <3>8, TaskFrame
  <2> QED BY <2>3, <2>4
<1>7. CASE Editor!VideoArrives(t) \/ Editor!UploadArrives(t)
  <2>1. /\ WritesVideo(wsTask[t]) /\ wsLesson' = Target(wsTask[t])
        /\ wsTask' \in {f, Editor!Orphaned(f)}
    BY <1>1, <1>3, <1>7 DEF Editor!VideoArrives, Editor!UploadArrives, Editor!Running,
       Editor!Ends, EditorInv, LessonsInv, TasksSound, WritesVideo, Target
  <2>2. wsCalm' = wsCalm
    BY <1>7 DEF Editor!VideoArrives, Editor!UploadArrives, Editor!history
  <2>3. wsCalm' \in BOOLEAN /\ (wsCalm' => wsCalm)
    BY <1>2, <2>2
  <2>4. wsLesson' \in Editor!Videos /\ wsLesson' # "absent"
    BY <2>1 DEF Target, Editor!Videos
  <2>5. LessonsInv'
    BY <1>1, <1>5, <2>1, <2>3, <2>4, WorkEnds
  <2> QED BY <1>1, <1>2, <1>5, <2>1, <2>3, <2>4, <2>5, TaskFrame
<1>8. CASE Editor!LessonFails(t)
  <2>1. wsTask' = f /\ wsLesson' = wsLesson
        /\ wsCalm' = (wsCalm /\ t \notin Editor!VideoWriters)
    BY <1>3, <1>8 DEF Editor!LessonFails
  <2>2. wsCalm' \in BOOLEAN /\ (wsCalm' => wsCalm) /\ (wsCalm' => t \notin Editor!VideoWriters)
    BY <2>1, Zenon
  <2>3. wsCalm' => ~WritesVideo(wsTask[t])
    BY <2>2, Writers
  <2>4. LessonsInv'
    BY <1>1, <1>5, <2>1, <2>2, <2>3, WorkEnds
  <2> QED BY <1>1, <1>2, <1>5, <2>1, <2>2, <2>4, TaskFrame
<1> QED BY <1>6, <1>7, <1>8

LEMMA EditorStep ==
    ASSUME Editor!GoodConstants, EditorInv, [Editor!Next]_(Editor!workspaceVars)
    PROVE  EditorInv'
BY EditorFormStep, PanelOpenStep, SendStepOfPanel, EndStepOfPanel DEF Editor!Next

LEMMA ShowsChoice ==
    ASSUME EditorInv
    PROVE  Editor!TypeOK /\ Editor!VideoIsLastChosen /\ Editor!SendsWhatWasEdited
<1>1. Editor!VideoIsLastChosen
  <2> SUFFICES ASSUME wsCalm, wsLesson \in Editor!Videos, Editor!VideoWriters = {}
               PROVE  wsLesson = wsChoice
    BY DEF Editor!VideoIsLastChosen, Editor!There
  <2>1. \A t \in Slots : ~WritesVideo(wsTask[t])
    BY Writers
  <2> QED BY <2>1 DEF EditorInv, LessonsInv, ChoiceStands
<1> QED BY <1>1 DEF EditorInv

-----------------------------------------------------------------------------
(***************************************************************************)
(* Profile.  A confirmation reads the pending address first and the code   *)
(* second; a code that is good by then is of that address, whatever came   *)
(* between (ConfirmSound), as long as a request that is being written has  *)
(* found every good code (RequestSound).  With one call at a time, the     *)
(* page catches up with the account when it has been fetched (CatchesUp).  *)
(***************************************************************************)
\* A code that is out was made for an address, and the codes that are good
\* for the address that is pending.
CodesStand ==
    /\ \A k \in proLive \cup proInbox : proCodes[k] # None
    /\ ~proCrossed /\ proAccount.pending # None
           => \A k \in proLive : proCodes[k] = proAccount.pending

\* What a request and a change of nickname carry.
RequestSound(q) ==
    q # None => /\ q.step \in {"asked", "consume", "write"} => q.email \in Emails
                /\ q.step = "write" /\ ~proCrossed => proLive \subseteq q.old
                /\ q.step = "mail" => q.code \in Account!Codes /\ proCodes[q.code] # None
AccountSaveSound(q) == q # None /\ q.step = "asked" => q.nick \in Nicks

\* A confirmation writes the address its code was made for: the address is read
\* before the code is looked up, and a code that is good by then is of it.
ConfirmSound(q) ==
    q # None =>
        /\ q.step \in {"asked", "find", "taken", "write"} => q.code \in Account!Codes
           /\ proCodes[q.code] # None
        /\ q.step \in {"find", "taken", "write"} => q.email \in Emails
        /\ ~proCrossed /\ q.step = "find" =>
              (q.code \in proLive => proCodes[q.code] = q.email)
        /\ ~proCrossed /\ q.step \in {"taken", "write"} => proCodes[q.code] = q.email

RequestsSound == \A b \in Account!Requests : RequestSound(proCall[b])
Sound == RequestsSound /\ AccountSaveSound(proCall["save"]) /\ ConfirmSound(proCall["confirm"])

\* A call that has the account carries it.
HasSeen(q) == q # None /\ q.step = "seen" => q.seen # None
Seen       == \A b \in Account!Buttons : HasSeen(proCall[b])

\* The page is up to date until a call has written, and catches up when the
\* account is fetched.
Asking == proStep = "code" => proAccount.pending # None
InStep == proCached = proAccount /\ (proStep = "code" <=> proAccount.pending # None)
CatchesUp(b, q) ==
    /\ q.step \in {"asked", "consume", "write", "find", "taken", "refused"} => InStep
    /\ q.step \in {"mail", "ok"} /\ b = "request" => proAccount.pending # None
    /\ q.step = "ok" /\ b = "save" => Asking
    /\ q.step \in {"me", "seen"} => Asking
    /\ q.step = "seen" => q.seen = proAccount

AccountOneCall ==
    /\ proCall["other"] = None
    /\ \A b, c \in Account!Buttons : proCall[b] # None /\ proCall[c] # None => b = c
    /\ (\A b \in Account!Buttons : proCall[b] = None) => InStep
    /\ \A b \in Account!Buttons : proCall[b] # None => CatchesUp(b, proCall[b])

AccountInv ==
    /\ Account!TypeOK
    /\ Seen
    /\ CodesStand
    /\ Sound
    /\ proCalm => AccountOneCall

LEMMA AccountInit ==
    ASSUME Account!GoodConstants, Account!Init
    PROVE  AccountInv
<1>1. proAccount \in Account!Account /\ proAccount.pending = None
  <2>1. PICK e \in Emails, n \in Nicks : TRUE
    BY DEF Account!GoodConstants
  <2>2. [email |-> e, pending |-> None, nick |-> n] \in Account!Account
    BY DEF Account!Account
  <2>3. \E a \in Account!Account : a.pending = None
    BY <2>2
  <2> QED BY <2>3 DEF Account!Init
<1>2. proCodes \in [Account!Codes -> Emails \cup {None}]
      /\ proCall \in [Account!Buttons -> Account!Call \cup {None}]
  BY DEF Account!Init
<1>3. proCalm \in BOOLEAN /\ proCrossed \in BOOLEAN
  BY Zenon DEF Account!Init
<1>4. Account!TypeOK
  BY <1>1, <1>2, <1>3 DEF Account!Init, Account!TypeOK
<1>5. \A b \in Account!Buttons : proCall[b] = None
  BY DEF Account!Init
<1>6. AccountOneCall
  BY <1>1, <1>5 DEF Account!Init, AccountOneCall, InStep, Account!Buttons, Account!Requests
<1>7. Sound
  BY <1>5 DEF Sound, RequestsSound, RequestSound, AccountSaveSound, ConfirmSound, Account!Buttons,
              Account!Requests
<1>8. Seen
  BY <1>5 DEF Seen, HasSeen
<1> QED BY <1>1, <1>4, <1>6, <1>7, <1>8 DEF Account!Init, AccountInv, CodesStand

\* A call that goes on, or ends, while it is the only one.
LEMMA GoesOn ==
    ASSUME Account!GoodConstants, AccountInv, NEW b \in Account!Buttons, NEW q \in Account!Call,
           proCall[b] # None,
           proCall' = [proCall EXCEPT ![b] = q], proCalm' = proCalm, proCalm => CatchesUp(b, q)'
    PROVE  proCalm' => AccountOneCall'
<1> SUFFICES ASSUME proCalm PROVE AccountOneCall'
  OBVIOUS
<1>1. AccountOneCall /\ q # None
  BY DEF AccountInv, Account!GoodConstants
<1>2. \A c \in Account!Buttons : IF c = b THEN proCall'[c] = q ELSE proCall'[c] = proCall[c]
      /\ proCall[c] = None
  BY <1>1 DEF AccountInv, Account!TypeOK, AccountOneCall
<1> QED BY <1>1, <1>2 DEF AccountOneCall, Account!Buttons, Account!Requests

LEMMA Ends ==
    ASSUME Account!GoodConstants, AccountInv, NEW b \in Account!Buttons, proCall[b] # None,
           proCall' = [proCall EXCEPT ![b] = None], proCalm' = proCalm, proCalm => InStep'
    PROVE  proCalm' => AccountOneCall'
<1> SUFFICES ASSUME proCalm PROVE AccountOneCall'
  OBVIOUS
<1>1. AccountOneCall
  BY DEF AccountInv
<1>2. \A c \in Account!Buttons : proCall'[c] = None
  BY <1>1 DEF AccountInv, Account!TypeOK, AccountOneCall
<1> QED BY <1>2 DEF AccountOneCall, Account!Buttons, Account!Requests

\* The calls of the page: what a step of one leaves of the others.
LEMMA Others ==
    ASSUME AccountInv, NEW b \in Account!Buttons, NEW q, proCall' = [proCall EXCEPT ![b] = q]
    PROVE  proCall'[b] = q /\ \A c \in Account!Buttons \ {b} : proCall'[c] = proCall[c]
BY DEF AccountInv, Account!TypeOK

Steps == {"asked", "consume", "write", "mail", "find", "taken", "codes", "ok", "refused", "me", "seen"}

\* A call whose step alone changes.
LEMMA Steps1 ==
    ASSUME AccountInv, NEW b \in Account!Buttons, proCall[b] # None, NEW s \in Steps,
           proCall' = [proCall EXCEPT ![b].step = s]
    PROVE  \E q \in Account!Call : /\ proCall' = [proCall EXCEPT ![b] = q]
                                  /\ q.step = s /\ q.email = proCall[b].email
                                     /\ q.code = proCall[b].code
                                  /\ q.nick = proCall[b].nick /\ q.seen = proCall[b].seen
                                     /\ q.old = proCall[b].old
<1>1. proCall[b] \in Account!Call
  BY DEF AccountInv, Account!TypeOK
<1> DEFINE q == [proCall[b] EXCEPT !.step = s]
<1>2. /\ q \in Account!Call
      /\ q.step = s /\ q.email = proCall[b].email /\ q.code = proCall[b].code
      /\ q.nick = proCall[b].nick /\ q.seen = proCall[b].seen /\ q.old = proCall[b].old
  BY <1>1 DEF Account!Call, Steps
<1>3. proCall' = [proCall EXCEPT ![b] = q]
  OBVIOUS
<1> HIDE DEF q
<1> QED BY <1>2, <1>3

LEMMA Typed ==
    ASSUME Account!GoodConstants, AccountInv, NEW b \in Account!Buttons,
           NEW q \in Account!Call \cup {None},
           proCall' = [proCall EXCEPT ![b] = q], proCalm' \in BOOLEAN,
           proCrossed' \in BOOLEAN,
           proAccount' \in Account!Account,
           proCached' \in Account!Account, proCodes' \in [Account!Codes -> Emails \cup {None}],
           proLive' \subseteq Account!Codes, proInbox' \subseteq Account!Codes,
           proForeign' \subseteq Emails,
           proStep' \in {"idle", "code"}, HasSeen(q)
    PROVE  Account!TypeOK' /\ Seen'
<1>1. proCall'[b] = q /\ \A c \in Account!Buttons \ {b} : proCall'[c] = proCall[c]
  BY Others
<1> QED BY <1>1 DEF AccountInv, Account!TypeOK, Seen, HasSeen

LEMMA AccountClickStep ==
    ASSUME Account!GoodConstants, AccountInv, Account!ClickRequest \/ Account!ClickOther
           \/ Account!ClickConfirm \/ Account!ClickCancel \/ Account!ClickSave
    PROVE  AccountInv'
<1>1. PICK b \in Account!Buttons, e \in Emails \cup {None}, k \in Account!Codes \cup {None},
           n \in Nicks \cup {None} :
        /\ Account!Click(b, e, k, n)
        /\ b \in Account!Requests => e \in Emails
        /\ b = "confirm" => k \in proInbox
        /\ b = "save" => n \in Nicks
  <2>1. proInbox \subseteq Account!Codes
    BY DEF AccountInv, Account!TypeOK
  <2> QED BY <2>1 DEF Account!ClickRequest, Account!ClickOther, Account!ClickConfirm,
                      Account!ClickCancel, Account!ClickSave, Account!Buttons, Account!Requests
<1>2. PICK q : q = Account!NewCall("asked", e, k, n)
  OBVIOUS
<1>3. q \in Account!Call /\ q.step = "asked" /\ q.email = e /\ q.code = k /\ q.nick = n
  BY <1>2 DEF Account!Call, Account!NewCall
<1>4. /\ proCall[b] = None /\ proCall' = [proCall EXCEPT ![b] = q]
         /\ proCalm' = (proCalm /\ ~Account!Busy /\ b # "other")
      /\ UNCHANGED <<proAccount, proCodes, proLive, proForeign, proInbox, proCached, proStep>>
      /\ proCrossed' = proCrossed
  BY <1>1, <1>2 DEF Account!Click, Account!rows, Account!page
<1>5. proCalm' \in BOOLEAN /\ (proCalm' => b # "other")
      /\ (proCalm' => proCalm /\ \A c \in Account!Buttons : proCall[c] = None)
  BY <1>4, Zenon DEF Account!Busy
<1>6. Account!TypeOK' /\ Seen'
  BY <1>3, <1>4, <1>5, Typed DEF AccountInv, Account!TypeOK, HasSeen
<1>7. proCall'[b] = q /\ \A c \in Account!Buttons \ {b} : proCall'[c] = proCall[c]
  BY <1>4, Others
<1>8. CodesStand'
  BY <1>4 DEF AccountInv, CodesStand
<1>9. k \in proInbox => k \in Account!Codes /\ proCodes[k] # None
  BY DEF AccountInv, Account!TypeOK, CodesStand
<1>10. Sound'
  <2>1. RequestsSound'
    BY <1>1, <1>2, <1>3, <1>4, <1>7
       DEF AccountInv, Sound, RequestsSound, RequestSound, Account!Buttons, Account!Requests
  <2>2. AccountSaveSound(proCall["save"])'
    BY <1>1, <1>3, <1>4, <1>7 DEF AccountInv, Sound, AccountSaveSound, Account!Buttons
  <2>3. ConfirmSound(proCall["confirm"])'
    BY <1>1, <1>3, <1>4, <1>7, <1>9 DEF AccountInv, Sound, ConfirmSound, Account!Buttons
  <2> QED BY <2>1, <2>2, <2>3 DEF Sound
<1>11. ASSUME proCalm' PROVE AccountOneCall'
  <2>1. InStep
    BY <1>5, <1>11 DEF AccountInv, AccountOneCall
  <2>2. InStep'
    BY <1>4, <2>1 DEF InStep
  <2>3. CatchesUp(b, q)'
    BY <1>3, <2>2 DEF CatchesUp
  <2>4. q # None
    BY <1>3 DEF Account!GoodConstants
  <2>5. proCall'["other"] = None
    BY <1>5, <1>7, <1>11 DEF Account!Buttons, Account!Requests
  <2> QED BY <1>5, <1>7, <1>11, <2>2, <2>3, <2>4, <2>5 DEF AccountOneCall
<1> QED BY <1>6, <1>8, <1>10, <1>11 DEF AccountInv

\* What time and others do.
LEMMA AccountQuietStep ==
    ASSUME Account!GoodConstants, AccountInv,
           \/ \E k \in Account!Codes : Account!Expires(k)
           \/ \E e \in Emails : Account!Register(e)
           \/ UNCHANGED Account!profileVars
    PROVE  AccountInv'
<1>1. /\ UNCHANGED <<proAccount, proCodes, proInbox, proCached, proStep, proCall, proCalm>>
      /\ proLive' \subseteq proLive /\ proForeign' \subseteq Emails
      /\ proCrossed' = proCrossed
  BY DEF Account!Expires, Account!Register, Account!profileVars, Account!rows, Account!page,
     Account!history, AccountInv, Account!TypeOK
<1>2. Account!TypeOK' /\ Seen'
  BY <1>1 DEF AccountInv, Account!TypeOK, Seen, HasSeen
<1>3. CodesStand'
  BY <1>1 DEF AccountInv, CodesStand
<1>4. Sound'
  BY <1>1 DEF AccountInv, Sound, RequestsSound, RequestSound, AccountSaveSound, ConfirmSound
<1>5. proCalm => AccountOneCall'
  BY <1>1 DEF AccountInv, AccountOneCall, CatchesUp, InStep, Asking
<1> QED BY <1>1, <1>2, <1>3, <1>4, <1>5 DEF AccountInv

\* A step that reads.
LEMMA AccountReadStep ==
    ASSUME Account!GoodConstants, AccountInv, (\E b \in Account!Requests : Account!ReadRequest(b))
           \/ Account!FindCode \/ Account!StillFree
    PROVE  AccountInv'
<1>1. UNCHANGED <<proAccount, proCodes, proLive, proForeign, proInbox, proCached, proStep,
                  proCalm, proCrossed>>
  BY DEF Account!ReadRequest, Account!FindCode, Account!StillFree, Account!rows, Account!page,
     Account!history
<1>2. PICK b \in Account!Buttons, s \in Steps :
        /\ proCall[b] # None /\ proCall' = [proCall EXCEPT ![b].step = s]
        /\ \/ b \in Account!Requests /\ proCall[b].step = "asked" /\ s \in {"consume", "refused"}
           \/ /\ b = "confirm" /\ proCall[b].step = "find"
              /\ s = "refused" \/ (s = "taken" /\ proCall[b].code \in proLive)
           \/ b = "confirm" /\ proCall[b].step = "taken" /\ s \in {"write", "refused"}
  BY DEF Account!ReadRequest, Account!FindCode, Account!StillFree, Account!At, Account!Goto,
     Account!Buttons, Account!Requests, Steps
<1>3. PICK q \in Account!Call : /\ proCall' = [proCall EXCEPT ![b] = q]
                               /\ q.step = s /\ q.email = proCall[b].email
                                  /\ q.code = proCall[b].code
                               /\ q.nick = proCall[b].nick /\ q.seen = proCall[b].seen
                                  /\ q.old = proCall[b].old
  BY <1>2, Steps1
<1>4. Account!TypeOK' /\ Seen'
  BY <1>1, <1>2, <1>3, Typed DEF AccountInv, Account!TypeOK, HasSeen
<1>5. proCall'[b] = q /\ \A c \in Account!Buttons \ {b} : proCall'[c] = proCall[c]
  BY <1>3, Others
<1>6. CodesStand'
  BY <1>1 DEF AccountInv, CodesStand
<1>7. Sound'
  <2>1. RequestsSound'
    BY <1>1, <1>2, <1>3, <1>5
       DEF AccountInv, Sound, RequestsSound, RequestSound, Account!Buttons, Account!Requests
  <2>2. AccountSaveSound(proCall["save"])'
    BY <1>1, <1>2, <1>3, <1>5
       DEF AccountInv, Sound, AccountSaveSound, Account!Buttons, Account!Requests
  <2>3. ConfirmSound(proCall["confirm"])'
    BY <1>1, <1>2, <1>3, <1>5
       DEF AccountInv, Sound, ConfirmSound, Account!Buttons, Account!Requests
  <2> QED BY <2>1, <2>2, <2>3 DEF Sound
<1>8. ASSUME proCalm PROVE CatchesUp(b, q)'
  <2>1. CatchesUp(b, proCall[b])
    BY <1>2, <1>8 DEF AccountInv, AccountOneCall
  <2>2. InStep'
    BY <1>1, <1>2, <2>1 DEF CatchesUp, InStep
  <2> QED BY <1>2, <1>3, <2>2 DEF CatchesUp
<1>9. proCalm' => AccountOneCall'
  BY <1>1, <1>2, <1>3, <1>8, GoesOn
<1> QED BY <1>4, <1>6, <1>7, <1>9 DEF AccountInv

\* The codes that are good are found; they are all the codes as long as no
\* other request is written.
LEMMA ConsumeStep ==
    ASSUME Account!GoodConstants, AccountInv, NEW b \in Account!Requests, Account!Consume(b)
    PROVE  AccountInv'
<1>1. /\ proCall[b] \in Account!Call /\ proCall[b] # None /\ proCall[b].step = "consume"
      /\ b \in Account!Buttons /\ proLive \subseteq Account!Codes
      /\ proCall' = [proCall EXCEPT ![b].old = proLive, ![b].step = "write"]
      /\ UNCHANGED <<proAccount, proCodes, proLive, proForeign, proInbox, proCached, proStep,
                     proCalm, proCrossed>>
  BY DEF Account!Consume, Account!At, Account!rows, Account!page, Account!history, AccountInv,
     Account!TypeOK, Account!Buttons
<1>2. PICK q : q = [proCall[b] EXCEPT !.old = proLive, !.step = "write"]
  OBVIOUS
<1>3. /\ q \in Account!Call /\ q.step = "write" /\ q.email = proCall[b].email
         /\ q.old = proLive
      /\ proCall' = [proCall EXCEPT ![b] = q]
  BY <1>1, <1>2 DEF Account!Call, AccountInv, Account!TypeOK
<1>4. Account!TypeOK' /\ Seen'
  BY <1>1, <1>3, Typed DEF AccountInv, Account!TypeOK, HasSeen
<1>5. proCall'[b] = q /\ \A c \in Account!Buttons \ {b} : proCall'[c] = proCall[c]
  BY <1>1, <1>3, Others
<1>6. CodesStand'
  BY <1>1 DEF AccountInv, CodesStand
<1>7. Sound'
  <2>1. RequestsSound'
    BY <1>1, <1>3, <1>5
       DEF AccountInv, Sound, RequestsSound, RequestSound, Account!Buttons, Account!Requests
  <2>2. proCall'["save"] = proCall["save"] /\ proCall'["confirm"] = proCall["confirm"]
    BY <1>5 DEF Account!Buttons, Account!Requests
  <2>3. AccountSaveSound(proCall["save"])'
    BY <2>2 DEF AccountInv, Sound, AccountSaveSound
  <2>4. ConfirmSound(proCall["confirm"])'
    <3>1. ConfirmSound(proCall["confirm"])
      BY DEF AccountInv, Sound
    <3>2. proCodes' = proCodes /\ proLive' = proLive /\ proCrossed' = proCrossed
      BY <1>1
    <3> QED BY <2>2, <3>1, <3>2 DEF ConfirmSound
  <2> QED BY <2>1, <2>3, <2>4 DEF Sound
<1>8. ASSUME proCalm PROVE CatchesUp(b, q)'
  <2>1. CatchesUp(b, proCall[b])
    BY <1>1, <1>8 DEF AccountInv, AccountOneCall
  <2>2. InStep'
    BY <1>1, <2>1 DEF CatchesUp, InStep
  <2> QED BY <1>3, <2>2 DEF CatchesUp
<1>9. proCalm' => AccountOneCall'
  BY <1>1, <1>3, <1>8, GoesOn
<1> QED BY <1>4, <1>6, <1>7, <1>9 DEF AccountInv

\* A new code replaces the others, unless requests have crossed.
LEMMA RequestStep ==
    ASSUME Account!GoodConstants, AccountInv, NEW b \in Account!Requests,
           Account!WriteRequest(b)
    PROVE  AccountInv'
<1> DEFINE e == proCall[b].email
<1>1. /\ proCall[b] \in Account!Call /\ proCall[b] # None
         /\ proCall[b].step = "write"
      /\ e \in Emails /\ b \in Account!Buttons /\ proCall[b].old \subseteq Account!Codes
  BY DEF Account!WriteRequest, Account!At, AccountInv, Account!TypeOK, Sound, RequestsSound,
     RequestSound, Account!Buttons, Account!Call
<1>2. PICK k \in Account!Codes :
        /\ proCodes[k] = None /\ proCodes' = [proCodes EXCEPT ![k] = e]
        /\ proLive' = (proLive \ proCall[b].old) \cup {k}
        /\ proCall' = [proCall EXCEPT ![b].step = "mail", ![b].code = k]
  BY DEF Account!WriteRequest
<1>3. /\ proAccount' = [proAccount EXCEPT !.pending = e]
      /\ UNCHANGED <<proForeign, proInbox, proCached, proStep>> /\ proCalm' = proCalm
      /\ proCrossed' = (proCrossed \/ \E o \in Account!Requests \ {b} : Account!At(o, "write"))
  BY DEF Account!WriteRequest, Account!page
<1>3a. /\ proCrossed' \in BOOLEAN /\ (~proCrossed' => ~proCrossed)
       /\ \A o \in Account!Requests \ {b} : ~proCrossed' /\ proCall[o] # None
                                            => proCall[o].step # "write"
  BY <1>3, Zenon DEF Account!At
<1>4. PICK q : q = [proCall[b] EXCEPT !.step = "mail", !.code = k]
  OBVIOUS
<1>5. /\ q \in Account!Call /\ q.step = "mail" /\ q.code = k
      /\ proCall' = [proCall EXCEPT ![b] = q]
  BY <1>1, <1>2, <1>4 DEF Account!Call, AccountInv, Account!TypeOK
<1>6. proAccount' \in Account!Account /\ proAccount'.pending = e /\ e # None
  BY <1>1, <1>3 DEF AccountInv, Account!TypeOK, Account!Account, Account!GoodConstants
<1>7. /\ proCodes' \in [Account!Codes -> Emails \cup {None}]
      /\ proCodes'[k] = e /\ \A o \in Account!Codes \ {k} : proCodes'[o] = proCodes[o]
      /\ proLive' \subseteq Account!Codes
      /\ \A o \in proLive' \ {k} : o \in proLive
  BY <1>1, <1>2 DEF AccountInv, Account!TypeOK
<1>7a. ~proCrossed' => proLive' = {k}
  BY <1>1, <1>2, <1>3a DEF AccountInv, Sound, RequestsSound, RequestSound
<1>8. Account!TypeOK' /\ Seen'
  BY <1>1, <1>3, <1>3a, <1>5, <1>6, <1>7, Typed DEF AccountInv, Account!TypeOK, HasSeen
<1>9. proCall'[b] = q /\ \A c \in Account!Buttons \ {b} : proCall'[c] = proCall[c]
  BY <1>1, <1>5, Others
<1>10. CodesStand'
  BY <1>2, <1>3, <1>3a, <1>6, <1>7, <1>7a DEF AccountInv, Account!TypeOK, CodesStand
<1>11. Sound'
  <2>0. \A o \in Account!Codes : proCodes[o] # None => o # k /\ proCodes'[o] = proCodes[o]
    BY <1>2, <1>7
  <2>1. ASSUME NEW o \in Account!Requests PROVE RequestSound(proCall[o])'
    <3>1. CASE o = b
      BY <1>5, <1>6, <1>7, <1>9, <3>1 DEF RequestSound
    <3>2. CASE o # b
      <4>1. proCall'[o] = proCall[o] /\ RequestSound(proCall[o])
        BY <1>9, <3>2 DEF AccountInv, Sound, RequestsSound, Account!Buttons
      <4> QED BY <1>3a, <2>0, <3>2, <4>1 DEF RequestSound
    <3> QED BY <3>1, <3>2
  <2>2. AccountSaveSound(proCall["save"])'
    BY <1>9 DEF AccountInv, Sound, AccountSaveSound, Account!Buttons, Account!Requests
  <2>3. ConfirmSound(proCall["confirm"])'
    <3>1. proCall'["confirm"] = proCall["confirm"]
      BY <1>9 DEF Account!Buttons, Account!Requests
    <3>2. ConfirmSound(proCall["confirm"])
      BY DEF AccountInv, Sound
    <3> QED BY <1>3a, <1>7a, <2>0, <3>1, <3>2 DEF ConfirmSound
  <2> QED BY <2>1, <2>2, <2>3 DEF Sound, RequestsSound
<1>12. CatchesUp(b, q)'
  BY <1>5, <1>6 DEF CatchesUp
<1>13. proCalm' => AccountOneCall'
  BY <1>1, <1>3, <1>5, <1>12, GoesOn
<1> QED BY <1>8, <1>10, <1>11, <1>13 DEF AccountInv

LEMMA MailStep ==
    ASSUME Account!GoodConstants, AccountInv, NEW b \in Account!Requests, Account!Mail(b)
    PROVE  AccountInv'
<1>1. /\ proCall[b] # None /\ proCall[b].step = "mail" /\ b \in Account!Buttons
      /\ proInbox' = proInbox \cup {proCall[b].code}
      /\ proCall' = [proCall EXCEPT ![b].step = "ok"]
      /\ UNCHANGED <<proAccount, proCodes, proLive, proForeign, proCached, proStep, proCalm,
                     proCrossed>>
      /\ "ok" \in Steps
  BY DEF Account!Mail, Account!At, Account!Goto, Account!page, Account!history,
     Account!Buttons, Steps
<1>2. PICK q \in Account!Call : proCall' = [proCall EXCEPT ![b] = q] /\ q.step = "ok"
  BY <1>1, Steps1 DEF Account!Buttons
<1>3. proCall[b].code \in Account!Codes /\ proCodes[proCall[b].code] # None
  BY <1>1 DEF AccountInv, Sound, RequestsSound, RequestSound
<1>4. Account!TypeOK' /\ Seen'
  BY <1>1, <1>2, <1>3, Typed DEF AccountInv, Account!TypeOK, HasSeen
<1>5. proCall'[b] = q /\ \A c \in Account!Buttons \ {b} : proCall'[c] = proCall[c]
  BY <1>1, <1>2, Others
<1>6. CodesStand'
  BY <1>1, <1>3 DEF AccountInv, CodesStand
<1>7. Sound'
  BY <1>1, <1>2, <1>5
     DEF AccountInv, Sound, RequestsSound, RequestSound, AccountSaveSound, ConfirmSound,
         Account!Buttons, Account!Requests
<1>8. ASSUME proCalm PROVE CatchesUp(b, q)'
  <2>1. CatchesUp(b, proCall[b])
    BY <1>1, <1>8 DEF AccountInv, AccountOneCall
  <2> QED BY <1>1, <1>2, <2>1 DEF CatchesUp, Account!Requests
<1>9. proCalm' => AccountOneCall'
  BY <1>1, <1>2, <1>8, GoesOn
<1> QED BY <1>4, <1>6, <1>7, <1>9 DEF AccountInv

LEMMA PendingStep ==
    ASSUME Account!GoodConstants, AccountInv, Account!ReadPending
    PROVE  AccountInv'
<1>1. /\ proCall["confirm"] \in Account!Call /\ proCall["confirm"] # None
         /\ proCall["confirm"].step = "asked"
      /\ "confirm" \in Account!Buttons
      /\ UNCHANGED <<proAccount, proCodes, proLive, proForeign, proInbox, proCached, proStep,
                     proCalm, proCrossed>>
  BY DEF Account!ReadPending, Account!At, Account!rows, Account!page, Account!history, AccountInv,
     Account!TypeOK, Account!Buttons
<1>2. PICK s \in {"refused", "find"} :
        /\ s = "find" => proAccount.pending # None
        /\ proCall' = [proCall EXCEPT !["confirm"].email = proAccount.pending,
                       !["confirm"].step = s]
  BY DEF Account!ReadPending
<1>3. PICK q : q = [proCall["confirm"] EXCEPT !.email = proAccount.pending, !.step = s]
  OBVIOUS
<1>4. proAccount.pending \in Emails \cup {None}
  BY DEF AccountInv, Account!TypeOK, Account!Account
<1>5. /\ q \in Account!Call /\ q.step = s /\ q.code = proCall["confirm"].code
         /\ q.email = proAccount.pending
      /\ proCall' = [proCall EXCEPT !["confirm"] = q]
  BY <1>1, <1>2, <1>3, <1>4 DEF Account!Call, AccountInv, Account!TypeOK
<1>6. Account!TypeOK' /\ Seen'
  BY <1>1, <1>2, <1>5, Typed DEF AccountInv, Account!TypeOK, HasSeen
<1>7. proCall'["confirm"] = q
      /\ \A c \in Account!Buttons \ {"confirm"} : proCall'[c] = proCall[c]
  BY <1>1, <1>5, Others
<1>8. CodesStand'
  BY <1>1 DEF AccountInv, CodesStand
<1>9. Sound'
  <2>1. (RequestsSound /\ AccountSaveSound(proCall["save"]))'
    BY <1>1, <1>7 DEF AccountInv, Sound, RequestsSound, RequestSound, AccountSaveSound,
                      Account!Buttons, Account!Requests
  <2>2. ConfirmSound(proCall["confirm"])'
    BY <1>1, <1>2, <1>4, <1>5, <1>7 DEF AccountInv, Sound, ConfirmSound, CodesStand
  <2> QED BY <2>1, <2>2 DEF Sound
<1>10. ASSUME proCalm PROVE CatchesUp("confirm", q)'
  <2>1. InStep'
    BY <1>1, <1>10 DEF AccountInv, AccountOneCall, CatchesUp, InStep
  <2> QED BY <1>2, <1>5, <2>1 DEF CatchesUp
<1>11. proCalm' => AccountOneCall'
  BY <1>1, <1>5, <1>10, GoesOn
<1> QED BY <1>6, <1>8, <1>9, <1>11 DEF AccountInv

\* A step that writes the account, and the codes that go with it.
LEMMA AccountWriteStep ==
    ASSUME Account!GoodConstants, AccountInv, Account!Confirm \/ Account!Cancel
           \/ Account!UpdateProfile
    PROVE  AccountInv'
<1>1. UNCHANGED <<proCodes, proForeign, proInbox, proCached, proStep, proCalm, proCrossed>>
  BY DEF Account!Confirm, Account!Cancel, Account!UpdateProfile, Account!page, Account!history
<1>2. proLive' \subseteq proLive
  BY DEF Account!Confirm, Account!Cancel, Account!UpdateProfile
<1>3. PICK b \in Account!Buttons, s \in Steps :
        /\ proCall[b] # None /\ proCall' = [proCall EXCEPT ![b].step = s]
        /\ b \notin Account!Requests /\ s \in {"ok", "refused", "codes"}
        /\ s = "refused" => proCall[b].step \in {"asked", "write"} /\ proAccount' = proAccount
        /\ b = "save" => s \in {"ok", "refused"} /\ proCall[b].step = "asked"
        /\ b = "save" /\ proAccount' # proAccount =>
              proAccount' = [proAccount EXCEPT !.nick = proCall["save"].nick]
        /\ b = "cancel" => proAccount' \in {proAccount, [proAccount EXCEPT !.pending = None]}
        /\ b = "confirm" =>
              /\ proCall[b].step = "write"
              /\ proAccount' \in {proAccount,
                                  [proAccount EXCEPT !.email = proCall["confirm"].email,
                                   !.pending = None]}
  BY DEF Account!Confirm, Account!Cancel, Account!UpdateProfile, Account!At, Account!Goto,
     Account!Buttons, Account!Requests, Steps
<1>4. PICK q \in Account!Call : /\ proCall' = [proCall EXCEPT ![b] = q]
                               /\ q.step = s /\ q.email = proCall[b].email
                                  /\ q.code = proCall[b].code
                               /\ q.nick = proCall[b].nick /\ q.seen = proCall[b].seen
                                  /\ q.old = proCall[b].old
  BY <1>3, Steps1
<1>5. /\ proAccount' \in Account!Account
      /\ proAccount'.pending # None => proAccount'.pending = proAccount.pending
      /\ b = "save" => proAccount'.pending = proAccount.pending
  <2>1. proAccount \in Account!Account
    BY DEF AccountInv, Account!TypeOK
  <2>2. CASE b = "save"
    <3>1. proAccount' # proAccount => proCall["save"].nick \in Nicks
      BY <1>3, <2>2 DEF AccountInv, Sound, AccountSaveSound
    <3> QED BY <1>3, <2>1, <2>2, <3>1 DEF Account!Account
  <2>3. CASE b = "cancel"
    BY <1>3, <2>1, <2>3 DEF Account!Account
  <2>4. CASE b = "confirm"
    <3>1. proCall["confirm"].email \in Emails
      BY <1>3, <2>4 DEF AccountInv, Sound, ConfirmSound
    <3> QED BY <1>3, <2>1, <2>4, <3>1 DEF Account!Account
  <2> QED BY <1>3, <2>2, <2>3, <2>4 DEF Account!Buttons, Account!Requests
<1>6. Account!TypeOK' /\ Seen'
  BY <1>1, <1>2, <1>3, <1>4, <1>5, Typed DEF AccountInv, Account!TypeOK, HasSeen
<1>7. proCall'[b] = q /\ \A c \in Account!Buttons \ {b} : proCall'[c] = proCall[c]
  BY <1>4, Others
<1>8. CodesStand'
  BY <1>1, <1>2, <1>5 DEF AccountInv, CodesStand
<1>9. Sound'
  <2>1. RequestsSound'
    BY <1>1, <1>2, <1>3, <1>4, <1>7
       DEF AccountInv, Sound, RequestsSound, RequestSound, Account!Buttons, Account!Requests
  <2>2. AccountSaveSound(proCall["save"])'
    BY <1>1, <1>3, <1>4, <1>7 DEF AccountInv, Sound, AccountSaveSound, Account!Buttons
  <2>3. ConfirmSound(proCall["confirm"])'
    BY <1>1, <1>2, <1>3, <1>4, <1>7 DEF AccountInv, Sound, ConfirmSound, Account!Buttons
  <2> QED BY <2>1, <2>2, <2>3 DEF Sound
<1>10. ASSUME proCalm PROVE CatchesUp(b, q)'
  <2>1. CatchesUp(b, proCall[b])
    BY <1>3, <1>10 DEF AccountInv, AccountOneCall
  <2>2. s = "refused" => InStep'
    BY <1>1, <1>3, <2>1 DEF CatchesUp, InStep
  <2>3. b = "save" => Asking'
    BY <1>1, <1>3, <1>5, <2>1 DEF CatchesUp, InStep, Asking
  <2> QED BY <1>3, <1>4, <2>2, <2>3 DEF CatchesUp, Account!Requests
<1>11. proCalm' => AccountOneCall'
  BY <1>1, <1>3, <1>4, <1>10, GoesOn
<1> QED BY <1>6, <1>8, <1>9, <1>11 DEF AccountInv

LEMMA AccountAnswerStep ==
    ASSUME Account!GoodConstants, AccountInv, NEW b \in Account!Buttons, Account!Answered(b)
           \/ Account!GetMe(b)
    PROVE  AccountInv'
<1>1. UNCHANGED <<proAccount, proCodes, proLive, proForeign, proInbox, proCached, proCalm,
                  proCrossed>>
      /\ proCall[b] # None
  BY DEF Account!Answered, Account!GetMe, Account!At, Account!rows, Account!page,
     Account!history
<1>2. PICK q \in Account!Call :
        /\ proCall' = [proCall EXCEPT ![b] = q]
        /\ \/ /\ proCall[b].step = "ok" /\ b # "other" /\ q.step = "me"
              /\ proStep' = CASE b = "request" -> "code"
                              [] b \in {"confirm", "cancel"} -> "idle"
                              [] b = "save" -> proStep
           \/ /\ proCall[b].step = "me" /\ q.step = "seen" /\ q.seen = proAccount
              /\ proStep' = proStep
  <2>1. CASE Account!Answered(b)
    <3> DEFINE q == Account!NewCall("me", None, None, None)
    <3>1. q \in Account!Call /\ q.step = "me"
      BY DEF Account!Call, Account!NewCall
    <3> HIDE DEF q
    <3>2. /\ proCall' = [proCall EXCEPT ![b] = q] /\ proCall[b].step = "ok" /\ b # "other"
          /\ proStep' = CASE b = "request" -> "code"
                           [] b \in {"confirm", "cancel"} -> "idle"
                           [] b = "save" -> proStep
      BY <2>1 DEF Account!Answered, Account!At, q
    <3> QED BY <3>1, <3>2
  <2>2. CASE Account!GetMe(b)
    <3> DEFINE q == [proCall[b] EXCEPT !.step = "seen", !.seen = proAccount]
    <3>1. proCall[b] \in Account!Call /\ proAccount \in Account!Account
      BY <1>1 DEF AccountInv, Account!TypeOK
    <3>2. q \in Account!Call /\ q.step = "seen" /\ q.seen = proAccount
      BY <3>1 DEF Account!Call
    <3>3. /\ proCall' = [proCall EXCEPT ![b] = q] /\ proCall[b].step = "me"
             /\ proStep' = proStep
      BY <2>2 DEF Account!GetMe, Account!At, Account!page
    <3> HIDE DEF q
    <3> QED BY <3>2, <3>3
  <2> QED BY <2>1, <2>2
<1>3a. proAccount \in Account!Account /\ proAccount # None
  BY DEF AccountInv, Account!TypeOK, Account!GoodConstants
<1>3. proStep' \in {"idle", "code"} /\ (proStep' # proStep => b # "save")
  BY <1>2 DEF Account!Buttons, Account!Requests, AccountInv, Account!TypeOK
<1>4. Account!TypeOK' /\ Seen'
  BY <1>1, <1>2, <1>3, <1>3a, Typed DEF AccountInv, Account!TypeOK, HasSeen
<1>5. proCall'[b] = q /\ \A c \in Account!Buttons \ {b} : proCall'[c] = proCall[c]
  BY <1>2, Others
<1>6. CodesStand'
  BY <1>1 DEF AccountInv, CodesStand
<1>7. Sound'
  BY <1>1, <1>2, <1>5
     DEF AccountInv, Sound, RequestsSound, RequestSound, AccountSaveSound, ConfirmSound,
         Account!Buttons, Account!Requests
<1>8. ASSUME proCalm PROVE CatchesUp(b, q)'
  <2>1. CatchesUp(b, proCall[b])
    BY <1>1, <1>8 DEF AccountInv, AccountOneCall
  <2>2. Asking'
    BY <1>1, <1>2, <2>1 DEF CatchesUp, Asking, Account!Buttons, Account!Requests
  <2> QED BY <1>1, <1>2, <2>2 DEF CatchesUp
<1>9. proCalm' => AccountOneCall'
  BY <1>1, <1>2, <1>8, GoesOn
<1> QED BY <1>1, <1>4, <1>6, <1>7, <1>9 DEF AccountInv

LEMMA EndStep ==
    ASSUME Account!GoodConstants, AccountInv, NEW b \in Account!Buttons, Account!Refreshed(b)
           \/ Account!Refused(b) \/ Account!Lost(b)
    PROVE  AccountInv'
<1>1. /\ UNCHANGED <<proAccount, proCodes, proLive, proForeign, proInbox>> /\ proCall[b] # None
      /\ proCall' = [proCall EXCEPT ![b] = None] /\ proCrossed' = proCrossed
  BY DEF Account!Refreshed, Account!Refused, Account!Lost, Account!At, Account!rows,
     Account!history
<1> DEFINE Done == /\ proCall[b].step = "seen" /\ proCached' = proCall[b].seen
                      /\ proCalm' = proCalm
                   /\ proStep' = IF proCached'.pending # None THEN "code" ELSE proStep
<1>2. \/ Done
      \/ (proCall[b].step = "refused" \/ b = "other") /\ proCached' = proCached /\ proStep' = proStep
         /\ proCalm' = proCalm
      \/ proCached' = proCached /\ proStep' = proStep /\ proCalm' = FALSE
  BY DEF Account!Refreshed, Account!Refused, Account!Lost, Account!At, Account!page,
     Account!history
<1>3. CodesStand'
  BY <1>1 DEF AccountInv, CodesStand
<1>4. proCall'[b] = None /\ \A c \in Account!Buttons \ {b} : proCall'[c] = proCall[c]
  BY <1>1, Others
<1>5. Sound'
  BY <1>1, <1>4
     DEF AccountInv, Sound, RequestsSound, RequestSound, AccountSaveSound, ConfirmSound,
         Account!Buttons, Account!Requests
<1>6. proCalm' \in BOOLEAN /\ (proCalm' => proCalm)
  <2>1. proCalm' = proCalm \/ proCalm' = FALSE
    BY <1>2
  <2>2. proCalm \in BOOLEAN
    BY DEF AccountInv, Account!TypeOK
  <2>3. CASE proCalm' = proCalm
    BY <2>2, <2>3, Zenon
  <2>4. CASE proCalm' = FALSE
    BY <2>4
  <2> QED BY <2>1, <2>3, <2>4
<1>7. proCached' \in Account!Account /\ proStep' \in {"idle", "code"}
  <2>1. Done => proCall[b].seen \in Account!Account
    BY <1>1 DEF AccountInv, Account!TypeOK, Seen, HasSeen, Account!Call
  <2> QED BY <1>2, <2>1 DEF AccountInv, Account!TypeOK
<1>8. Account!TypeOK' /\ Seen'
  BY <1>1, <1>6, <1>7, Typed DEF AccountInv, Account!TypeOK, HasSeen
<1>9. ASSUME proCalm' PROVE AccountOneCall'
  <2>1. proCalm /\ CatchesUp(b, proCall[b])
    BY <1>1, <1>6, <1>9 DEF AccountInv, AccountOneCall
  <2>2. CASE Done
    <3>1. proCached' = proAccount /\ Asking
      BY <2>1, <2>2 DEF CatchesUp
    <3>2. proStep' = "code" <=> proAccount.pending # None
      BY <2>2, <3>1 DEF Asking
    <3>3. InStep'
      BY <1>1, <3>1, <3>2 DEF InStep
    <3> QED BY <1>1, <2>1, <2>2, <3>3, Ends
  <2>3. CASE /\ proCall[b].step = "refused" \/ b = "other"
             /\ proCached' = proCached /\ proStep' = proStep /\ proCalm' = proCalm
    <3>1. b # "other"
      BY <1>1, <2>1 DEF AccountInv, AccountOneCall
    <3>2. InStep'
      BY <1>1, <2>1, <2>3, <3>1 DEF CatchesUp, InStep
    <3> QED BY <1>1, <2>1, <2>3, <3>2, Ends
  <2> QED BY <1>2, <1>9, <2>2, <2>3
<1> QED BY <1>3, <1>5, <1>8, <1>9 DEF AccountInv

LEMMA AccountStep ==
    ASSUME Account!GoodConstants, AccountInv, [Account!Next]_(Account!profileVars)
    PROVE  AccountInv'
BY AccountClickStep, AccountQuietStep, AccountReadStep, ConsumeStep, RequestStep, MailStep,
   PendingStep, AccountWriteStep, AccountAnswerStep, EndStep DEF Account!Next

\* Only a confirmation changes the address, to what its code was made for.
LEMMA AddressStep ==
    ASSUME Account!GoodConstants, AccountInv, [Account!Next]_(Account!profileVars)
    PROVE  Account!ByItsCode
<1> SUFFICES ASSUME ~proCrossed, proAccount'.email # proAccount.email
             PROVE  proCodes[proCall["confirm"].code] = proAccount'.email
  BY DEF Account!ByItsCode
<1>1. proAccount \in Account!Account
  BY DEF AccountInv, Account!TypeOK
<1>2. CASE Account!Confirm
  <2>1. /\ proCall["confirm"] # None /\ proCall["confirm"].step = "write"
        /\ proAccount' = [proAccount EXCEPT !.email = proCall["confirm"].email,
                          !.pending = None]
    BY <1>2 DEF Account!Confirm, Account!At
  <2>2. proAccount'.email = proCall["confirm"].email
    BY <1>1, <2>1 DEF Account!Account
  <2> QED BY <2>1, <2>2 DEF AccountInv, Sound, ConfirmSound
<1>3. CASE (\E b \in Account!Requests : Account!WriteRequest(b)) \/ Account!Cancel \/ Account!UpdateProfile
  <2>1. proAccount'.email = proAccount.email
    BY <1>1, <1>3
       DEF Account!WriteRequest, Account!Cancel, Account!UpdateProfile, Account!Account
  <2> QED BY <2>1
<1>4. CASE ~(\/ Account!Confirm \/ Account!Cancel \/ Account!UpdateProfile
             \/ \E b \in Account!Requests : Account!WriteRequest(b))
  <2>1. proAccount' = proAccount
    BY <1>4 DEF Account!Next, Account!ClickRequest, Account!ClickOther,
                Account!ClickConfirm, Account!ClickCancel,
                Account!ClickSave, Account!Click, Account!ReadRequest, Account!Consume,
           Account!Mail, Account!ReadPending, Account!FindCode, Account!StillFree,
           Account!Expires, Account!Register, Account!Answered, Account!GetMe,
           Account!Refreshed, Account!Refused, Account!Lost, Account!profileVars, Account!rows,
           Account!history
  <2> QED BY <2>1
<1> QED BY <1>2, <1>3, <1>4

LEMMA AccountFollows ==
    ASSUME Account!GoodConstants, AccountInv
    PROVE  Account!TypeOK /\ Account!PageFollowsAccount
BY DEF AccountInv, AccountOneCall, InStep, Account!PageFollowsAccount, Account!Busy

-----------------------------------------------------------------------------
(***************************************************************************)
(* ReviewPages.  With one call under way, what it has written so far       *)
(* stands, and after it what it told (ReviewOneCall, ReviewSaveStands).    *)
(***************************************************************************)
\* A version in the catalogue is the text that was written last.
CatalogueIsText ==
    revReview # None => /\ revReview.public # None => revReview.text = revReview.public
                        /\ revReview.status = "REJECTED" => revReview.public = None

\* What is taken away had been there, and what is added is not of that.
ReviewApart(f) == f.removed \subseteq f.kept /\ \A r \in f.kept : r[1] \notin f.fresh

FormsApart ==
    /\ revForm # None => ReviewApart(revForm)
    /\ revSave # None => /\ ReviewApart(revSave.form)
                         /\ revSave.gone \subseteq revSave.form.removed
                         /\ revSave.sent \subseteq revSave.form.fresh
                         /\ revSave.step = "text" => revSave.gone = {} /\ revSave.sent = {}

Has(n) == \E r \in revPhotos : r[1] = n

\* Only one call is under way, and nothing is told before it is done; what it
\* has done so far stands.
ReviewOneCall ==
    /\ revSave = None \/ revDeleting = None
    /\ revDeleting # None => revTold = None
    /\ revSave # None /\ revSave.step \in {"text", "files"} => revTold = None
    /\ revSave # None /\ revSave.step = "files" =>
        /\ revReview # None /\ revReview.text = revSave.form.text
        /\ \A r \in revSave.gone : r \notin revPhotos
        /\ \A n \in revSave.sent : Has(n)

ReviewSaveStands ==
    revTold # None =>
        /\ revReview # None /\ revReview.text = revTold.text
        /\ \A r \in revTold.removed : r \notin revPhotos
        /\ \A n \in revTold.fresh : Has(n)

ReviewInv ==
    /\ Review!TypeOK
    /\ CatalogueIsText
    /\ FormsApart
    /\ revCalm => ReviewOneCall /\ ReviewSaveStands

LEMMA ReviewInit ==
    ASSUME Review!GoodConstants, Review!Init
    PROVE  ReviewInv
<1>1. revMine \in Review!Mine
  BY DEF Review!Init, Review!Mine
<1>2. revCalm \in BOOLEAN
  BY Zenon DEF Review!Init
<1>3. Review!TypeOK
  BY <1>1, <1>2 DEF Review!Init, Review!TypeOK, Review!GoodConstants
<1> QED BY <1>3 DEF Review!Init, ReviewInv, CatalogueIsText, FormsApart, ReviewOneCall,
                    ReviewSaveStands

\* A step that leaves the review, the save and what was told.
LEMMA PageStep ==
    ASSUME Review!GoodConstants, ReviewInv, Review!TypeOK', revForm' # None
           => ReviewApart(revForm'),
           revReview' = revReview, revPhotos' = revPhotos, revSave' = revSave,
           revDeleting' = revDeleting,
           revTold' = revTold, revCalm' = revCalm
    PROVE  ReviewInv'
<1>1. CatalogueIsText' /\ FormsApart'
  BY DEF ReviewInv, CatalogueIsText, FormsApart, ReviewApart
<1>2. revCalm' => ReviewOneCall' /\ ReviewSaveStands'
  BY DEF ReviewInv, ReviewOneCall, ReviewSaveStands, Has
<1> QED BY <1>1, <1>2 DEF ReviewInv

LEMMA ReviewFormStep ==
    ASSUME Review!GoodConstants, ReviewInv, Review!StartCreate \/ Review!StartEdit
           \/ Review!Edit \/ Review!Abandon
    PROVE  ReviewInv'
<1>1. UNCHANGED <<revReview, revPhotos, revMine, revSave, revDeleting, revRead, revVerdict,
                  revClicks, revTold, revCalm>>
  BY DEF Review!StartCreate, Review!StartEdit, Review!Edit, Review!Abandon, Review!staff,
     Review!history
<1>2. revForm' # None => revForm' \in Review!Form /\ ReviewApart(revForm')
  <2>1. CASE Review!StartCreate
    <3>1. PICK x \in Texts : revForm'
          = [editing |-> FALSE, text |-> x, kept |-> {}, removed |-> {},
                                         fresh |-> {}]
      BY <2>1 DEF Review!StartCreate
    <3>2. revForm' \in Review!Form
      BY <3>1 DEF Review!Form
    <3> QED BY <3>1, <3>2 DEF ReviewApart
  <2>2. CASE Review!StartEdit
    <3>1. /\ revForm' = [editing |-> TRUE, text |-> revMine.review.text,
                         kept |-> revMine.photos,
                         removed |-> {}, fresh |-> {}]
          /\ revMine.review # None
      BY <2>2 DEF Review!StartEdit
    <3>2. revMine.review \in Review!Review /\ revMine.photos \subseteq Review!Rows
      BY <3>1 DEF ReviewInv, Review!TypeOK, Review!Mine
    <3>3. revMine.review.text \in Texts
      BY <3>2 DEF Review!Review
    <3>4. revForm' \in Review!Form
      BY <3>1, <3>2, <3>3 DEF Review!Form
    <3> QED BY <3>1, <3>4 DEF ReviewApart
  <2>3. CASE Review!Edit
    <3>1. revForm \in Review!Form /\ ReviewApart(revForm) /\ revForm # None
      BY <2>3 DEF Review!Edit, Review!Shown, ReviewInv, Review!TypeOK, FormsApart
    <3>2. CASE \E x \in Texts \ {revForm.text} : revForm' = [revForm EXCEPT !.text = x]
      <4>1. revForm' \in Review!Form
        BY <3>1, <3>2 DEF Review!Form
      <4> QED BY <3>1, <3>2, <4>1 DEF ReviewApart, Review!Form
    <3>3. CASE \E p \in Review!Left(revForm) :
               revForm' = [revForm EXCEPT !.removed = @ \cup {p}]
      <4>1. PICK p \in revForm.kept : revForm' = [revForm EXCEPT !.removed = @ \cup {p}]
        BY <3>3 DEF Review!Left
      <4>2. revForm' \in Review!Form
        BY <3>1, <4>1 DEF Review!Form
      <4> QED BY <3>1, <4>1, <4>2 DEF ReviewApart, Review!Form
    <3>4. CASE \E p \in Pictures \ revForm.fresh :
                  p \notin {r[1] : r \in revForm.kept}
                  /\ revForm' = [revForm EXCEPT !.fresh = @ \cup {p}]
      <4>1. PICK p \in Pictures : /\ p \notin {r[1] : r \in revForm.kept}
                                  /\ revForm' = [revForm EXCEPT !.fresh = @ \cup {p}]
        BY <3>4
      <4>2. revForm' \in Review!Form
        BY <3>1, <4>1 DEF Review!Form
      <4>3. revForm'.kept = revForm.kept /\ revForm'.removed = revForm.removed
            /\ revForm'.fresh = revForm.fresh \cup {p}
        BY <3>1, <4>1 DEF Review!Form
      <4> QED BY <3>1, <4>1, <4>2, <4>3 DEF ReviewApart
    <3> QED BY <2>3, <3>2, <3>3, <3>4 DEF Review!Edit
  <2>4. CASE Review!Abandon
    BY <2>4 DEF Review!Abandon
  <2> QED BY <2>1, <2>2, <2>3, <2>4
<1>3. Review!TypeOK'
  BY <1>1, <1>2 DEF ReviewInv, Review!TypeOK
<1> QED BY <1>1, <1>2, <1>3, PageStep

LEMMA ReviewClickStep ==
    ASSUME Review!GoodConstants, ReviewInv, Review!ClickSave \/ Review!ClickDelete
    PROVE  ReviewInv'
<1>1. /\ UNCHANGED <<revReview, revPhotos, revMine, revForm, revRead, revVerdict>>
         /\ revTold' = None
      /\ revClicks' \in 0 .. MaxSaves
  BY DEF Review!ClickSave, Review!ClickDelete, Review!Asks, Review!staff, ReviewInv,
     Review!TypeOK, Review!GoodConstants
<1>2. revCalm' = (revCalm /\ revSave = None /\ revDeleting = None)
  BY DEF Review!ClickSave, Review!ClickDelete, Review!Asks
<1>3. revCalm' \in BOOLEAN /\ (revCalm' => revCalm /\ revSave = None /\ revDeleting = None)
  BY <1>2, Zenon
<1>4. CASE Review!ClickSave
  <2> DEFINE new == [form |-> revForm, gone |-> {}, sent |-> {}, step |-> "text"]
  <2>1. revSave' = new /\ revDeleting' = revDeleting /\ revForm \in Review!Form
        /\ ReviewApart(revForm)
    BY <1>4 DEF Review!ClickSave, Review!Shown, ReviewInv, Review!TypeOK, FormsApart
  <2>2. /\ new \in Review!Save /\ new.form = revForm /\ new.gone = {} /\ new.sent = {}
           /\ new.step = "text"
    BY <2>1 DEF Review!Save
  <2> HIDE DEF new
  <2>3. Review!TypeOK'
    BY <1>1, <1>3, <2>1, <2>2 DEF ReviewInv, Review!TypeOK
  <2>4. CatalogueIsText' /\ FormsApart'
    BY <1>1, <2>1, <2>2 DEF ReviewInv, CatalogueIsText, FormsApart
  <2>5. revCalm' => ReviewOneCall' /\ ReviewSaveStands'
    BY <1>1, <1>3, <2>1, <2>2 DEF ReviewOneCall, ReviewSaveStands
  <2> QED BY <2>3, <2>4, <2>5 DEF ReviewInv
<1>5. CASE Review!ClickDelete
  <2>1. revSave' = revSave /\ revDeleting' = "asked"
    BY <1>5 DEF Review!ClickDelete
  <2>2. Review!TypeOK'
    BY <1>1, <1>3, <2>1 DEF ReviewInv, Review!TypeOK
  <2>3. CatalogueIsText' /\ FormsApart'
    BY <1>1, <2>1 DEF ReviewInv, CatalogueIsText, FormsApart
  <2>4. revCalm' => ReviewOneCall' /\ ReviewSaveStands'
    BY <1>1, <1>3, <2>1 DEF ReviewOneCall, ReviewSaveStands
  <2> QED BY <2>2, <2>3, <2>4 DEF ReviewInv
<1> QED BY <1>4, <1>5

LEMMA TextStep ==
    ASSUME Review!GoodConstants, ReviewInv, Review!SaveText
    PROVE  ReviewInv'
<1> DEFINE x == revSave.form.text
<1>1. /\ UNCHANGED <<revPhotos, revMine, revForm, revDeleting, revRead, revVerdict, revClicks,
                     revTold, revCalm>>
      /\ revSave' = [revSave EXCEPT !.step = "files"]
      /\ revSave \in Review!Save /\ revSave # None /\ revSave.step = "text"
         /\ Review!Writable(revSave.form)
  BY DEF Review!SaveText, Review!staff, Review!history, ReviewInv, Review!TypeOK
<1>2. /\ revSave' \in Review!Save /\ revSave'.form = revSave.form
         /\ revSave'.gone = revSave.gone
      /\ revSave'.sent = revSave.sent /\ revSave'.step = "files" /\ x \in Texts
  BY <1>1 DEF Review!Save, Review!Form
<1>3. revReview' \in Review!Review /\ revReview'.text = x
      /\ (revReview'.public # None => revReview'.public = x)
      /\ (revReview'.status = "REJECTED" => revReview'.public = None)
  <2>1. CASE revSave.form.editing /\ revReview.public # None
    <3>1. revReview' = Review!Live(x)
      BY <2>1 DEF Review!SaveText
    <3> QED BY <1>2, <3>1 DEF Review!Live, Review!Review
  <2>2. CASE ~(revSave.form.editing /\ revReview.public # None)
    <3>1. revReview' = Review!Pending(x)
      BY <2>2 DEF Review!SaveText
    <3>2. revReview # None => revReview.public = None
      BY <1>1, <2>2 DEF Review!Writable, ReviewInv, CatalogueIsText
    <3> QED BY <1>2, <3>1, <3>2 DEF Review!Pending, Review!Review
  <2> QED BY <2>1, <2>2
<1>4. revReview' # None
  BY <1>3 DEF Review!GoodConstants
<1>5. Review!TypeOK'
  BY <1>1, <1>2, <1>3 DEF ReviewInv, Review!TypeOK
<1>6. CatalogueIsText' /\ FormsApart'
  BY <1>1, <1>2, <1>3 DEF ReviewInv, CatalogueIsText, FormsApart
<1>7. ASSUME revCalm PROVE ReviewOneCall' /\ ReviewSaveStands'
  <2>1. revTold = None /\ revDeleting = None
    BY <1>1, <1>7 DEF ReviewInv, ReviewOneCall
  <2>2. revSave.gone = {} /\ revSave.sent = {}
    BY <1>1 DEF ReviewInv, FormsApart
  <2> QED BY <1>1, <1>2, <1>3, <1>4, <2>1, <2>2 DEF ReviewOneCall, ReviewSaveStands
<1> QED BY <1>1, <1>5, <1>6, <1>7 DEF ReviewInv

LEMMA FilesStep ==
    ASSUME Review!GoodConstants, ReviewInv, Review!RemovePhoto \/ Review!AddPhoto
    PROVE  ReviewInv'
<1>1. /\ UNCHANGED <<revReview, revMine, revForm, revDeleting, revRead, revVerdict, revClicks,
                     revTold, revCalm>>
      /\ revSave \in Review!Save /\ revSave # None /\ revSave.step = "files"
  BY DEF Review!RemovePhoto, Review!AddPhoto, Review!staff, Review!history, ReviewInv,
     Review!TypeOK
<1>2. ReviewApart(revSave.form) /\ revSave.gone \subseteq revSave.form.removed
      /\ revSave.sent \subseteq revSave.form.fresh /\ revSave.form \in Review!Form
  BY <1>1 DEF ReviewInv, FormsApart, Review!Save
<1>3. CatalogueIsText'
  BY <1>1 DEF ReviewInv, CatalogueIsText
<1>4. CASE Review!RemovePhoto
  <2>1. PICK r \in revSave.form.removed \cap revPhotos :
           revPhotos' = revPhotos \ {r} /\ revSave' = [revSave EXCEPT !.gone = @ \cup {r}]
    BY <1>4 DEF Review!RemovePhoto
  <2>2. /\ revSave' \in Review!Save /\ revSave'.form = revSave.form
           /\ revSave'.gone = revSave.gone \cup {r}
        /\ revSave'.sent = revSave.sent /\ revSave'.step = "files"
    BY <1>1, <1>2, <2>1 DEF Review!Save, Review!Form
  <2>3. Review!TypeOK'
    BY <1>1, <2>1, <2>2 DEF ReviewInv, Review!TypeOK
  <2>4. FormsApart'
    BY <1>1, <1>2, <2>1, <2>2 DEF ReviewInv, FormsApart
  <2>5. r[1] \notin revSave.sent
    BY <1>2, <2>1 DEF ReviewApart
  <2>6. \A n \in revSave.sent : Has(n) => Has(n)'
    BY <2>1, <2>5 DEF Has
  <2>7. revCalm => ReviewOneCall' /\ ReviewSaveStands'
    BY <1>1, <2>1, <2>2, <2>6 DEF ReviewInv, ReviewOneCall, ReviewSaveStands
  <2> QED BY <1>1, <1>3, <2>3, <2>4, <2>7 DEF ReviewInv
<1>5. CASE Review!AddPhoto
  <2>1. PICK p \in revSave.form.fresh, k \in {1, 2} :
           revPhotos' = revPhotos \cup {<<p, k>>}
           /\ revSave' = [revSave EXCEPT !.sent = @ \cup {p}]
    BY <1>5 DEF Review!AddPhoto
  <2>2. /\ revSave' \in Review!Save /\ revSave'.form = revSave.form
           /\ revSave'.gone = revSave.gone
        /\ revSave'.sent = revSave.sent \cup {p} /\ revSave'.step = "files" /\ p \in Pictures
    BY <1>1, <1>2, <2>1 DEF Review!Save, Review!Form
  <2>3. Review!TypeOK'
    BY <1>1, <2>1, <2>2 DEF ReviewInv, Review!TypeOK, Review!Rows
  <2>4. FormsApart'
    BY <1>1, <1>2, <2>1, <2>2 DEF ReviewInv, FormsApart
  <2>5. <<p, k>> \notin revSave.gone
    BY <1>2, <2>1 DEF ReviewApart
  <2>6. Has(p)' /\ \A n : Has(n) => Has(n)'
    <3>1. <<p, k>> \in revPhotos' /\ <<p, k>>[1] = p /\ revPhotos \subseteq revPhotos'
      BY <2>1
    <3> QED BY <3>1 DEF Has
  <2>7. revCalm => ReviewOneCall' /\ ReviewSaveStands'
    BY <1>1, <2>1, <2>2, <2>5, <2>6 DEF ReviewInv, ReviewOneCall, ReviewSaveStands
  <2> QED BY <1>1, <1>3, <2>3, <2>4, <2>7 DEF ReviewInv
<1> QED BY <1>4, <1>5

LEMMA DoneStep ==
    ASSUME Review!GoodConstants, ReviewInv, Review!Saved \/ Review!SaveFails
    PROVE  ReviewInv'
<1>1. /\ UNCHANGED <<revReview, revPhotos, revMine, revDeleting, revRead, revVerdict,
                     revClicks>>
      /\ revSave \in Review!Save /\ revSave # None
  BY DEF Review!Saved, Review!SaveFails, Review!staff, ReviewInv, Review!TypeOK
<1>2. CatalogueIsText'
  BY <1>1 DEF ReviewInv, CatalogueIsText
<1>3. CASE Review!Saved
  <2>1. /\ revSave.step = "files" /\ revSave.form.removed = revSave.gone
           /\ revSave.form.fresh = revSave.sent
        /\ revSave' = [revSave EXCEPT !.step = "fetch"] /\ revForm' = None
           /\ revTold' = revSave.form
        /\ revCalm' = revCalm
    BY <1>3 DEF Review!Saved
  <2>2. /\ revSave' \in Review!Save /\ revSave'.form = revSave.form
           /\ revSave'.gone = revSave.gone
        /\ revSave'.sent = revSave.sent /\ revSave'.step = "fetch"
           /\ revSave.form \in Review!Form
    BY <1>1, <2>1 DEF Review!Save
  <2>3. Review!TypeOK'
    BY <1>1, <2>1, <2>2 DEF ReviewInv, Review!TypeOK
  <2>4. FormsApart'
    BY <1>1, <2>1, <2>2 DEF ReviewInv, FormsApart
  <2>5. ASSUME revCalm PROVE ReviewOneCall' /\ ReviewSaveStands'
    <3>1. ReviewOneCall
      BY <2>5 DEF ReviewInv
    <3>2. ReviewOneCall'
      BY <1>1, <2>1, <2>2, <3>1 DEF ReviewOneCall
    <3>3. ReviewSaveStands'
      BY <1>1, <2>1, <3>1 DEF ReviewOneCall, ReviewSaveStands, Has
    <3> QED BY <3>2, <3>3
  <2> QED BY <1>2, <2>1, <2>3, <2>4, <2>5 DEF ReviewInv
<1>4. CASE Review!SaveFails
  <2>1. revSave' = None /\ revCalm' = FALSE /\ revForm' = revForm /\ revTold' = revTold
    BY <1>4 DEF Review!SaveFails
  <2>2. Review!TypeOK'
    BY <1>1, <2>1 DEF ReviewInv, Review!TypeOK
  <2>3. FormsApart'
    BY <2>1 DEF ReviewInv, FormsApart
  <2> QED BY <1>2, <2>1, <2>2, <2>3 DEF ReviewInv
<1> QED BY <1>3, <1>4

LEMMA ReviewDeleteStep ==
    ASSUME Review!GoodConstants, ReviewInv, Review!DeleteReview
    PROVE  ReviewInv'
<1>1. /\ UNCHANGED <<revMine, revSave, revRead, revVerdict, revClicks, revTold>>
         /\ revDeleting = "asked"
  BY DEF Review!DeleteReview, Review!staff
<1>2. CASE /\ revReview' = None /\ revPhotos' = {} /\ revDeleting' = "fetch" /\ revForm' = None
           /\ revCalm' = revCalm
  <2>1. Review!TypeOK'
    BY <1>1, <1>2 DEF ReviewInv, Review!TypeOK
  <2>2. CatalogueIsText' /\ FormsApart'
    BY <1>1, <1>2 DEF ReviewInv, CatalogueIsText, FormsApart
  <2>3. ASSUME revCalm PROVE ReviewOneCall' /\ ReviewSaveStands'
    <3>1. revSave = None /\ revTold = None
      BY <1>1, <2>3 DEF ReviewInv, ReviewOneCall, Review!GoodConstants
    <3> QED BY <1>1, <1>2, <3>1 DEF ReviewOneCall, ReviewSaveStands
  <2> QED BY <1>2, <2>1, <2>2, <2>3 DEF ReviewInv
<1>3. CASE /\ revDeleting' = None /\ revCalm' = FALSE
              /\ UNCHANGED <<revReview, revPhotos, revForm>>
  <2>1. Review!TypeOK'
    BY <1>1, <1>3 DEF ReviewInv, Review!TypeOK
  <2>2. CatalogueIsText' /\ FormsApart'
    BY <1>1, <1>3 DEF ReviewInv, CatalogueIsText, FormsApart
  <2> QED BY <1>3, <2>1, <2>2 DEF ReviewInv
<1> QED BY <1>2, <1>3 DEF Review!DeleteReview

\* What is fetched, polled or clicked leaves the review and what was told.
LEMMA FetchStep ==
    ASSUME Review!GoodConstants, ReviewInv,
           \/ Review!Refetch \/ Review!OpenRow \/ Review!ModerateFails
              \/ UNCHANGED Review!reviewVars
           \/ \E v \in {"APPROVED", "REJECTED"} : Review!ClickVerdict(v)
    PROVE  ReviewInv'
<1>1. /\ UNCHANGED <<revReview, revPhotos, revForm, revClicks, revTold, revCalm>>
      /\ revSave' \in {revSave, None}
  BY DEF Review!Refetch, Review!OpenRow, Review!ModerateFails, Review!ClickVerdict,
     Review!reviewVars, Review!dialog, Review!staff, Review!history
<1>2. revDeleting' = revDeleting \/ revDeleting' = None
  BY DEF Review!Refetch, Review!OpenRow, Review!ModerateFails, Review!ClickVerdict,
     Review!reviewVars, Review!dialog
<1>3. revMine' \in Review!Mine
  BY DEF Review!Refetch, Review!Fetched, Review!OpenRow, Review!ModerateFails,
     Review!ClickVerdict, Review!reviewVars, Review!dialog, ReviewInv,
         Review!TypeOK, Review!Mine
<1>4. revVerdict' \in {None, "APPROVED", "REJECTED"} /\ revRead' \in Texts \cup {None}
  BY DEF Review!Refetch, Review!OpenRow, Review!ModerateFails, Review!ClickVerdict,
     Review!reviewVars, Review!dialog, Review!staff, ReviewInv,
         Review!TypeOK, Review!Review
<1>5. Review!TypeOK'
  BY <1>1, <1>2, <1>3, <1>4 DEF ReviewInv, Review!TypeOK
<1>6. CatalogueIsText' /\ FormsApart'
  BY <1>1 DEF ReviewInv, CatalogueIsText, FormsApart
<1>7. revCalm => ReviewOneCall' /\ ReviewSaveStands'
  BY <1>1, <1>2 DEF ReviewInv, ReviewOneCall, ReviewSaveStands, Has
<1> QED BY <1>1, <1>5, <1>6, <1>7 DEF ReviewInv

\* A verdict keeps the text.
LEMMA ModerateStep ==
    ASSUME Review!GoodConstants, ReviewInv, Review!Moderate
    PROVE  ReviewInv'
<1>1. /\ UNCHANGED <<revPhotos, revMine, revForm, revSave, revDeleting, revClicks, revTold,
                     revCalm>>
      /\ revVerdict' = None /\ revRead' = None
  BY DEF Review!Moderate, Review!dialog, Review!history
<1>2. CASE revReview = None
  <2>1. revReview' = None
    BY <1>2 DEF Review!Moderate
  <2>2. Review!TypeOK'
    BY <1>1, <2>1 DEF ReviewInv, Review!TypeOK
  <2> QED BY <1>1, <1>2, <2>1, <2>2, PageStep DEF ReviewInv, FormsApart
<1>3. CASE revReview # None
  <2>1. revReview \in Review!Review
    BY <1>3 DEF ReviewInv, Review!TypeOK
  <2>2. PICK new : /\ revReview' = new
                   /\ \/ new = Review!Live(revReview.text)
                      \/ new = Review!Live(revReview.public) /\ revReview.public # None
                      \/ new = [revReview EXCEPT !.status = "REJECTED"]
                         /\ revReview.public = None
    BY <1>3 DEF Review!Moderate
  <2>3. /\ new \in Review!Review /\ new.text = revReview.text
        /\ new.public # None => new.text = new.public
        /\ new.status = "REJECTED" => new.public = None
    <3>1. revReview.public # None => revReview.public = revReview.text
      BY <1>3 DEF ReviewInv, CatalogueIsText
    <3>2. CASE new = Review!Live(revReview.text)
      BY <2>1, <3>2 DEF Review!Live, Review!Review
    <3>3. CASE new = [revReview EXCEPT !.status = "REJECTED"] /\ revReview.public = None
      BY <2>1, <3>3 DEF Review!Review
    <3> QED BY <2>2, <3>1, <3>2, <3>3
  <2>4. new # None
    BY <2>3 DEF Review!GoodConstants
  <2>5. Review!TypeOK'
    BY <1>1, <2>2, <2>3 DEF ReviewInv, Review!TypeOK
  <2>6. CatalogueIsText' /\ FormsApart'
    BY <1>1, <2>2, <2>3 DEF ReviewInv, CatalogueIsText, FormsApart
  <2>7. revCalm => ReviewOneCall' /\ ReviewSaveStands'
    BY <1>1, <1>3, <2>2, <2>3, <2>4 DEF ReviewInv, ReviewOneCall, ReviewSaveStands, Has
  <2> QED BY <1>1, <2>5, <2>6, <2>7 DEF ReviewInv
<1> QED BY <1>2, <1>3

LEMMA ReviewStep ==
    ASSUME Review!GoodConstants, ReviewInv, [Review!Next]_(Review!reviewVars)
    PROVE  ReviewInv'
BY ReviewFormStep, ReviewClickStep, TextStep, FilesStep, DoneStep, ReviewDeleteStep, FetchStep,
   ModerateStep
   DEF Review!Next

LEMMA Saves ==
    ASSUME Review!GoodConstants, ReviewInv
    PROVE  Review!TypeOK /\ Review!SavedStands
BY DEF ReviewInv, ReviewSaveStands, Has, Review!SavedStands

-----------------------------------------------------------------------------
(***************************************************************************)
(* The web client.  The page that is mounted keeps its invariant; the      *)
(* others have no state.                                                   *)
(***************************************************************************)
WebInv ==
    /\ route = "attempt" => AttemptInv
    /\ route = "payment" => PaymentInv
    /\ route = "constructor" => ConstructorInv
    /\ route = "support" => PanelInv
    /\ route = "bell" => BellInv
    /\ route = "lesson" => LessonInv
    /\ route = "workspace" => EditorInv
    /\ route = "profile" => AccountInv
    /\ route = "reviews" => ReviewInv

LEMMA WebInit ==
    ASSUME Init
    PROVE  WebInv
<1>1. route = "attempt" => AttemptInv
  BY AttemptInit, AttemptAssumption DEF Init
<1>2. route = "payment" => PaymentInv
  BY PaymentInit, PaymentAssumption DEF Init
<1>3. route = "constructor" => ConstructorInv
  BY ConstructorInit, ConstructorAssumption DEF Init
<1>4. route = "support" => PanelInv
  BY PanelInit, PanelAssumption DEF Init
<1>5. route = "bell" => BellInv
  BY BellInit, BellAssumption DEF Init
<1>6. route = "lesson" => LessonInv
  BY LessonInit, LessonAssumption DEF Init
<1>7. route = "workspace" => EditorInv
  BY EditorInit, EditorAssumption DEF Init
<1>8. route = "profile" => AccountInv
  BY AccountInit, AccountAssumption DEF Init
<1>9. route = "reviews" => ReviewInv
  BY ReviewInit, ReviewAssumption DEF Init
<1> QED BY <1>1, <1>2, <1>3, <1>4, <1>5, <1>6, <1>7, <1>8, <1>9 DEF WebInv

\* A step of the client is one of the page that is mounted, or none.
LEMMA WebStep ==
    ASSUME WebInv, [Next]_vars
    PROVE  WebInv'
<1>1. route' = route
  BY DEF Next, vars
<1>2. ASSUME route = "attempt" PROVE AttemptInv'
  <2>1. [Attempt!Next]_(Attempt!pageVars)
    BY <1>2 DEF Next, vars, atVars, Attempt!pageVars, Attempt!screen, Attempt!requests,
                Attempt!history
  <2> QED BY <1>2, <2>1, AttemptStep, AttemptAssumption DEF WebInv
<1>3. ASSUME route = "payment" PROVE PaymentInv'
  <2>1. [Payment!Next]_(Payment!payVars)
    BY <1>3 DEF Next, vars, payVars, Payment!payVars, Payment!rows, Payment!view, Payment!hist
  <2> QED BY <1>3, <2>1, PaymentStep, PaymentAssumption DEF WebInv
<1>4. ASSUME route = "constructor" PROVE ConstructorInv'
  <2>1. [Constructor!Next]_(Constructor!editVars)
    BY <1>4 DEF Next, vars, conVars, Constructor!editVars, Constructor!past
  <2> QED BY <1>4, <2>1, ConstructorStep, ConstructorAssumption DEF WebInv
<1>5. ASSUME route = "support" PROVE PanelInv'
  <2>1. [Panel!Next]_(Panel!panelVars)
    BY <1>5 DEF Next, vars, panVars, Panel!panelVars, Panel!client, Panel!calls
  <2> QED BY <1>5, <2>1, PanelStep, PanelAssumption DEF WebInv
<1>6. ASSUME route = "bell" PROVE BellInv'
  <2>1. [Bell!Next]_(Bell!bellVars)
    BY <1>6 DEF Next, vars, bellVars, Bell!bellVars, Bell!store, Bell!bell, Bell!history
  <2> QED BY <1>6, <2>1, BellStep, BellAssumption DEF WebInv
<1>7. ASSUME route = "lesson" PROVE LessonInv'
  <2>1. [Lesson!Next]_(Lesson!lessonVars)
    BY <1>7 DEF Next, vars, lesVars, Lesson!lessonVars, Lesson!server, Lesson!refs
  <2> QED BY <1>7, <2>1, LessonStep, LessonAssumption DEF WebInv
<1>8. ASSUME route = "workspace" PROVE EditorInv'
  <2>1. [Editor!Next]_(Editor!workspaceVars)
    BY <1>8 DEF Next, vars, wsVars, Editor!workspaceVars, Editor!pageState, Editor!history
  <2> QED BY <1>8, <2>1, EditorStep, EditorAssumption DEF WebInv
<1>9. ASSUME route = "profile" PROVE AccountInv'
  <2>1. [Account!Next]_(Account!profileVars)
    BY <1>9 DEF Next, vars, proVars, Account!profileVars, Account!rows, Account!page,
                Account!history
  <2> QED BY <1>9, <2>1, AccountStep, AccountAssumption DEF WebInv
<1>10. ASSUME route = "reviews" PROVE ReviewInv'
  <2>1. [Review!Next]_(Review!reviewVars)
    BY <1>10
       DEF Next, vars, revVars, Review!reviewVars, Review!dialog, Review!staff, Review!history
  <2> QED BY <1>10, <2>1, ReviewStep, ReviewAssumption DEF WebInv
<1> QED BY <1>1, <1>2, <1>3, <1>4, <1>5, <1>6, <1>7, <1>8, <1>9, <1>10 DEF WebInv

\* Whichever page is mounted, its invariant holds.
THEOREM Invariance == Spec => []WebInv
<1>1. Init => WebInv
  BY WebInit
<1>2. WebInv /\ [Next]_vars => WebInv'
  BY WebStep
<1> QED BY <1>1, <1>2, PTL DEF Spec

\* Every reachable state of a page and of its server has the declared types.
THEOREM TypeCorrect == Spec => []TypeOK
<1>1. WebInv => TypeOK
  BY Shown, PaymentStands, Edited, Arrives, TakenBack, Recorded, AccountFollows, Saves,
     AttemptAssumption, PaymentAssumption, PanelAssumption, LessonAssumption,
     AccountAssumption, ReviewAssumption DEF WebInv, TypeOK, EditorInv
<1> QED BY <1>1, Invariance, PTL

\* Of an attempt, what is handed in is what the student saw when he clicked,
\* unless a second request overlapped; and what is shown as saved is saved,
\* while all is calm (LkAssignmentPage).
THEOREM HandsInWhatIsSeen == Spec => []HandedInAsShown
<1>1. WebInv => HandedInAsShown
  BY Shown, AttemptAssumption DEF WebInv, HandedInAsShown
<1> QED BY <1>1, Invariance, PTL

\* What the payment page told stands, and the student pays once, unless
\* requests of one payment met (MockPaymentPage and payments.service).
THEOREM ToldStands == Spec => []WhatWasToldStands
<1>1. WebInv => WhatWasToldStands
  BY PaymentStands, Once, PaymentAssumption DEF WebInv, WhatWasToldStands
<1> QED BY <1>1, Invariance, PTL

\* An assignment gets the questions that were edited for it, and "saved" is
\* true, while requests do not overlap (AssignmentConstructor).
THEOREM QuestionsAreOwn == Spec => []OwnQuestions
<1>1. WebInv => OwnQuestions
  BY Edited DEF WebInv, OwnQuestions
<1> QED BY <1>1, Invariance, PTL

\* An attempt keeps the questions it was opened with, and only a curator's
\* click publishes an assignment, if nothing came in between
\* (AssignmentConstructor and assignments.service).
THEOREM AttemptKeepsQuestions == Spec => []QuestionsStand
<1>1. WebInv => QuestionsStand
  BY Edited DEF WebInv, QuestionsStand
<1> QED BY <1>1, Invariance, PTL

\* An undisturbed reply arrives once, in the thread it was written for
\* (SupportPanel).
THEOREM ArrivesOnce == Spec => []ReplyArrivesOnce
<1>1. WebInv => ReplyArrivesOnce
  BY Arrives, PanelAssumption DEF WebInv, ReplyArrivesOnce
<1> QED BY <1>1, Invariance, PTL

\* A deleted reminder leaves no notice, unless it was still being sent; and
\* none becomes read that nobody had on the screen, but for those marked with
\* all the others or squeezed off by other toasts (NotificationsBell,
\* deleteReminder).
THEOREM TakesBack == Spec => []ReminderTakenBack
<1>1. WebInv => ReminderTakenBack
  BY TakenBack DEF WebInv, ReminderTakenBack
<1> QED BY <1>1, Invariance, PTL

\* On a page opened for its lesson, with every request answered, what is shown
\* as counted and what was watched long enough is recorded (LkLessonPage).
THEOREM WatchedIsRecorded == Spec => []CreditIsRecorded
<1>1. WebInv => CreditIsRecorded
  BY Recorded, LessonAssumption DEF WebInv, CreditIsRecorded
<1> QED BY <1>1, Invariance, PTL

\* The lesson has the kind of video chosen last, whatever panel is closed while
\* it is sent, unless a request for it failed or met another, somebody else
\* edits the lesson, or an old link was sent after a file was picked; and the
\* settings about to be sent differ from the course only in what was
\* edited or what others changed behind the page (LessonEditPanel,
\* CourseWorkspace).
THEOREM LastChoiceShown == Spec => []VideoIsLastChosen
<1>1. WebInv => VideoIsLastChosen
  BY ShowsChoice DEF WebInv, VideoIsLastChosen
<1> QED BY <1>1, Invariance, PTL

\* What a save of a review reported stands, with one call at a time
\* (CourseReviewsModal).
THEOREM ReportedStands == Spec => []SavedStands
<1>1. WebInv => SavedStands
  BY Saves, ReviewAssumption DEF WebInv, SavedStands
<1> QED BY <1>1, Invariance, PTL

\* With one call at a time, the profile page shows the account
\* (LkProfilePage).
THEOREM ShowsTheAccount == Spec => []PageFollowsAccount
<1>1. WebInv => PageFollowsAccount
  BY AccountFollows, AccountAssumption DEF WebInv, PageFollowsAccount
<1> QED BY <1>1, Invariance, PTL

\* An address is confirmed by the code made for it, however requests,
\* confirmations and cancellations interleave, unless two requests for a
\* change were written at a time (users.service requestEmailChange,
\* confirmEmailChange).
THEOREM AddressByItsCode == Spec => EmailByItsCode
<1>1. WebInv /\ [Next]_vars => [route = "profile" => Account!ByItsCode]_proVars
  <2> SUFFICES ASSUME WebInv, [Next]_vars, route = "profile"
               PROVE  Account!ByItsCode
    OBVIOUS
  <2>1. [Account!Next]_(Account!profileVars)
    BY DEF Next, vars, proVars, Account!profileVars, Account!rows, Account!page,
           Account!history
  <2> QED BY <2>1, AddressStep, AccountAssumption DEF WebInv
<1> QED BY <1>1, Invariance, PTL DEF Spec, EmailByItsCode

=============================================================================
