------------------------------- MODULE WebApp -------------------------------
(***************************************************************************)
(* The web client: App.tsx mounts one page per route, and a page keeps     *)
(* its state only while it is mounted.  Pages do not talk to each other;   *)
(* each plays against the part of the server it calls, which its own       *)
(* module holds.  So a run follows one page from its mount on; which, the  *)
(* initial state says.                                                     *)
(***************************************************************************)
EXTENDS Naturals

CONSTANTS
    Questions, Answers,                         \* AttemptPage
    Slots, MaxPayments,                         \* PaymentPage; Slots: Workspace too
    Assignments, Contents, Template, MaxClicks, Gone,       \* ConstructorPage
    Threads, First, MaxReplies, MaxPosted,      \* SupportPanel
    MaxNotes, ToastLimit,                       \* BellPage
    Lessons, Dwell, MaxSent,                    \* LessonPage
    Values, MaxOthers, MaxSaves,                \* Workspace, ReviewPages
    Emails, Nicks, MaxCodes, MaxCalls,          \* Profile
    Texts, Pictures, MaxPhotos,                 \* ReviewPages
    None                                        \* nothing; a page that is not mounted

VARIABLE route      \* the page that is mounted

VARIABLES       \* LkAssignmentPage
    atServer, atPhase, atAnswers, atSavedAnswers, atMine, atFailed, atFetch,
    atCreate, atSave, atSubmit, atCalm, atOverlap, atHandedIn

VARIABLES       \* the course page and MockPaymentPage
    payStatus, payPlace, payPage, payCurrent, payShown, payFetching,
    payMethod, payCardOk, payBusy, payBuying, paySlot, payTold, payAlone, payCrossed

VARIABLES       \* AssignmentConstructor
    conRow, conForm, conSkip, conTimer, conHint, conSaving, conLoading,
    conDeleting, conClicks, conQuiet, conOwner, conMet, conSwitched

VARIABLES       \* SupportPanel
    panDesk, panActive, panSeen, panTyped, panReply, panSend, panTool,
    panForm, panHome, panUntouched

VARIABLES       \* NotificationsBell, CourseRemindersTab
    bellNote, bellCreated, bellReminder, bellFound, bellListed, bellToasts,
    bellPopped, bellMarking, bellSweeping, bellDrawer, bellShown, bellSwept,
    bellSqueezed, bellMet

VARIABLES       \* LkLessonPage
    lesVideo, lesOpen, lesDone, lesLesson, lesShown, lesPlayer, lesViewed,
    lesCompleted, lesCompletedRef, lesDwell, lesMaxPctSent, lesSent,
    lesEarned, lesSteady

VARIABLES       \* CourseWorkspace, LessonEditPanel
    wsCourse, wsLesson, wsCached, wsTab, wsForm, wsSaving, wsPanel,
    wsTask, wsOthers, wsSaves, wsTyped, wsStale, wsChoice, wsCalm

VARIABLES       \* LkProfilePage
    proAccount, proCodes, proLive, proForeign, proInbox, proCached, proStep,
    proCall, proCalm, proCrossed

VARIABLES       \* CourseReviewsModal, StaffReviewsPage
    revReview, revPhotos, revMine, revForm, revSave, revDeleting, revRead,
    revVerdict, revClicks, revTold, revCalm

Attempt == INSTANCE AttemptPage WITH
    server <- atServer, phase <- atPhase, answers <- atAnswers,
    savedAnswers <- atSavedAnswers, mine <- atMine, failed <- atFailed,
    fetch <- atFetch, create <- atCreate, save <- atSave, submit <- atSubmit,
    calm <- atCalm, overlap <- atOverlap, handedIn <- atHandedIn

Payment == INSTANCE PaymentPage WITH
    status <- payStatus, place <- payPlace, page <- payPage,
    current <- payCurrent, shown <- payShown, fetching <- payFetching,
    method <- payMethod, cardOk <- payCardOk, busy <- payBusy,
    buying <- payBuying, slot <- paySlot, told <- payTold, alone <- payAlone,
    crossed <- payCrossed

Constructor == INSTANCE ConstructorPage WITH
    row <- conRow, form <- conForm, skip <- conSkip, timer <- conTimer,
    hint <- conHint, saving <- conSaving, loading <- conLoading,
    deleting <- conDeleting, clicks <- conClicks, quiet <- conQuiet,
    owner <- conOwner, met <- conMet, switched <- conSwitched

Panel == INSTANCE SupportPanel WITH
    desk <- panDesk, active <- panActive, seen <- panSeen, typed <- panTyped,
    reply <- panReply, send <- panSend, tool <- panTool, form <- panForm,
    home <- panHome, untouched <- panUntouched

Bell == INSTANCE BellPage WITH
    note <- bellNote, created <- bellCreated, reminder <- bellReminder,
    found <- bellFound, listed <- bellListed, toasts <- bellToasts,
    popped <- bellPopped, marking <- bellMarking, sweeping <- bellSweeping,
    drawer <- bellDrawer, shown <- bellShown, swept <- bellSwept,
    squeezed <- bellSqueezed, met <- bellMet

Lesson == INSTANCE LessonPage WITH
    video <- lesVideo, open <- lesOpen, done <- lesDone, lesson <- lesLesson,
    shown <- lesShown, player <- lesPlayer, viewed <- lesViewed,
    completed <- lesCompleted, completedRef <- lesCompletedRef,
    dwell <- lesDwell, maxPctSent <- lesMaxPctSent, sent <- lesSent,
    earned <- lesEarned, steady <- lesSteady

Editor == INSTANCE Workspace WITH
    course <- wsCourse, lesson <- wsLesson, cached <- wsCached, tab <- wsTab,
    form <- wsForm, saving <- wsSaving, panel <- wsPanel,
    task <- wsTask, others <- wsOthers, saves <- wsSaves,
    typed <- wsTyped, stale <- wsStale, choice <- wsChoice, calm <- wsCalm

Account == INSTANCE Profile WITH
    account <- proAccount, codes <- proCodes, live <- proLive,
    foreign <- proForeign, inbox <- proInbox, cached <- proCached,
    step <- proStep, call <- proCall, calm <- proCalm, crossed <- proCrossed

Review == INSTANCE ReviewPages WITH
    review <- revReview, photos <- revPhotos, mine <- revMine,
    form <- revForm, save <- revSave, deleting <- revDeleting,
    read <- revRead, verdict <- revVerdict, clicks <- revClicks,
    told <- revTold, calm <- revCalm

\* What the theorems assume of the constants: each page says its part.
ASSUME AttemptAssumption == Attempt!GoodConstants
ASSUME PaymentAssumption == Payment!GoodConstants
ASSUME ConstructorAssumption == Constructor!GoodConstants
ASSUME PanelAssumption == Panel!GoodConstants
ASSUME BellAssumption == Bell!GoodConstants
ASSUME LessonAssumption == Lesson!GoodConstants
ASSUME EditorAssumption == Editor!GoodConstants
ASSUME AccountAssumption == Account!GoodConstants
ASSUME ReviewAssumption == Review!GoodConstants

atVars == <<atServer, atPhase, atAnswers, atSavedAnswers, atMine, atFailed, atFetch,
    atCreate, atSave, atSubmit, atCalm, atOverlap, atHandedIn>>
payVars == <<payStatus, payPlace, payPage, payCurrent, payShown, payFetching,
    payMethod, payCardOk, payBusy, payBuying, paySlot, payTold, payAlone, payCrossed>>
conVars == <<conRow, conForm, conSkip, conTimer, conHint, conSaving, conLoading,
    conDeleting, conClicks, conQuiet, conOwner, conMet, conSwitched>>
panVars == <<panDesk, panActive, panSeen, panTyped, panReply, panSend, panTool,
    panForm, panHome, panUntouched>>
bellVars == <<bellNote, bellCreated, bellReminder, bellFound, bellListed, bellToasts,
    bellPopped, bellMarking, bellSweeping, bellDrawer, bellShown, bellSwept,
    bellSqueezed, bellMet>>
lesVars == <<lesVideo, lesOpen, lesDone, lesLesson, lesShown, lesPlayer, lesViewed,
    lesCompleted, lesCompletedRef, lesDwell, lesMaxPctSent, lesSent,
    lesEarned, lesSteady>>
wsVars == <<wsCourse, wsLesson, wsCached, wsTab, wsForm, wsSaving, wsPanel,
    wsTask, wsOthers, wsSaves, wsTyped, wsStale, wsChoice, wsCalm>>
proVars == <<proAccount, proCodes, proLive, proForeign, proInbox, proCached, proStep,
    proCall, proCalm, proCrossed>>
revVars == <<revReview, revPhotos, revMine, revForm, revSave, revDeleting, revRead,
    revVerdict, revClicks, revTold, revCalm>>

-----------------------------------------------------------------------------
\* A page that is not mounted has no state.
NoAttempt ==
    /\ atServer = None /\ atPhase = None /\ atAnswers = None
    /\ atSavedAnswers = None /\ atMine = None /\ atFailed = None
    /\ atFetch = None /\ atCreate = None /\ atSave = None
    /\ atSubmit = None /\ atCalm = None /\ atOverlap = None
    /\ atHandedIn = None
NoPayment ==
    /\ payStatus = None /\ payPlace = None /\ payPage = None
    /\ payCurrent = None /\ payShown = None /\ payFetching = None
    /\ payMethod = None /\ payCardOk = None /\ payBusy = None
    /\ payBuying = None /\ paySlot = None /\ payTold = None
    /\ payAlone = None /\ payCrossed = None
NoConstructor ==
    /\ conRow = None /\ conForm = None /\ conSkip = None
    /\ conTimer = None /\ conHint = None /\ conSaving = None
    /\ conLoading = None /\ conDeleting = None /\ conClicks = None
    /\ conQuiet = None /\ conOwner = None /\ conMet = None
    /\ conSwitched = None
NoPanel ==
    /\ panDesk = None /\ panActive = None /\ panSeen = None
    /\ panTyped = None /\ panReply = None /\ panSend = None
    /\ panTool = None /\ panForm = None /\ panHome = None
    /\ panUntouched = None
NoBell ==
    /\ bellNote = None /\ bellCreated = None /\ bellReminder = None
    /\ bellFound = None /\ bellListed = None /\ bellToasts = None
    /\ bellPopped = None /\ bellMarking = None /\ bellSweeping = None
    /\ bellDrawer = None /\ bellShown = None /\ bellSwept = None
    /\ bellSqueezed = None /\ bellMet = None
NoLesson ==
    /\ lesVideo = None /\ lesOpen = None /\ lesDone = None
    /\ lesLesson = None /\ lesShown = None /\ lesPlayer = None
    /\ lesViewed = None /\ lesCompleted = None /\ lesCompletedRef = None
    /\ lesDwell = None /\ lesMaxPctSent = None /\ lesSent = None
    /\ lesEarned = None /\ lesSteady = None
NoEditor ==
    /\ wsCourse = None /\ wsLesson = None /\ wsCached = None
    /\ wsTab = None /\ wsForm = None /\ wsSaving = None
    /\ wsPanel = None /\ wsTask = None /\ wsOthers = None
    /\ wsSaves = None /\ wsTyped = None /\ wsStale = None
    /\ wsChoice = None /\ wsCalm = None
NoAccount ==
    /\ proAccount = None /\ proCodes = None /\ proLive = None
    /\ proForeign = None /\ proInbox = None /\ proCached = None
    /\ proStep = None /\ proCall = None /\ proCalm = None
    /\ proCrossed = None
NoReview ==
    /\ revReview = None /\ revPhotos = None /\ revMine = None
    /\ revForm = None /\ revSave = None /\ revDeleting = None
    /\ revRead = None /\ revVerdict = None /\ revClicks = None
    /\ revTold = None /\ revCalm = None

\* Every page starts as its module says.
Init ==
    /\ route \in {"attempt", "payment", "constructor", "support", "bell", "lesson", "workspace", "profile", "reviews"}
    /\ IF route = "attempt" THEN Attempt!Init ELSE NoAttempt
    /\ IF route = "payment" THEN Payment!Init ELSE NoPayment
    /\ IF route = "constructor" THEN Constructor!Init ELSE NoConstructor
    /\ IF route = "support" THEN Panel!Init ELSE NoPanel
    /\ IF route = "bell" THEN Bell!Init ELSE NoBell
    /\ IF route = "lesson" THEN Lesson!Init ELSE NoLesson
    /\ IF route = "workspace" THEN Editor!Init ELSE NoEditor
    /\ IF route = "profile" THEN Account!Init ELSE NoAccount
    /\ IF route = "reviews" THEN Review!Init ELSE NoReview

\* The route stays: what the next page shows, it loads anew.
Next ==
    /\ UNCHANGED route
    /\ IF route = "attempt" THEN Attempt!Next ELSE UNCHANGED atVars
    /\ IF route = "payment" THEN Payment!Next ELSE UNCHANGED payVars
    /\ IF route = "constructor" THEN Constructor!Next ELSE UNCHANGED conVars
    /\ IF route = "support" THEN Panel!Next ELSE UNCHANGED panVars
    /\ IF route = "bell" THEN Bell!Next ELSE UNCHANGED bellVars
    /\ IF route = "lesson" THEN Lesson!Next ELSE UNCHANGED lesVars
    /\ IF route = "workspace" THEN Editor!Next ELSE UNCHANGED wsVars
    /\ IF route = "profile" THEN Account!Next ELSE UNCHANGED proVars
    /\ IF route = "reviews" THEN Review!Next ELSE UNCHANGED revVars

vars == <<route, atVars, payVars, conVars, panVars, bellVars, lesVars, wsVars, proVars,
          revVars>>

Spec == Init /\ [][Next]_vars

-----------------------------------------------------------------------------
(***************************************************************************)
(* Properties: those of the pages, which their modules explain.            *)
(***************************************************************************)
\* Types: the state of the page that is mounted, and of its server.
TypeOK ==
    /\ route = "attempt" => Attempt!TypeOK
    /\ route = "payment" => Payment!TypeOK
    /\ route = "constructor" => Constructor!TypeOK
    /\ route = "support" => Panel!TypeOK
    /\ route = "bell" => Bell!TypeOK
    /\ route = "lesson" => Lesson!TypeOK
    /\ route = "workspace" => Editor!TypeOK
    /\ route = "profile" => Account!TypeOK
    /\ route = "reviews" => Review!TypeOK

\* What is handed in is what the student saw when he clicked, and what is
\* shown as saved is saved.
HandedInAsShown ==
    route = "attempt" => Attempt!HandedInAsShown /\ Attempt!GreenIsSavedWhenCalm

\* What the payment page told stands, and the student pays once, unless
\* requests of one payment met.
WhatWasToldStands ==
    route = "payment" => Payment!WhatWasToldStands /\ Payment!PaidOnce

\* An assignment gets the questions that were edited for it, and "saved"
\* is true.
OwnQuestions ==
    route = "constructor" => Constructor!OwnQuestions /\ Constructor!SavedIsOnServer

\* An attempt keeps the questions it was opened with; undisturbed, only a
\* curator's click publishes an assignment.
QuestionsStand ==
    route = "constructor" => Constructor!QuestionsStand /\ Constructor!PublishedOnRequestWhenQuiet

\* An undisturbed reply arrives once, in the thread it was written for.
ReplyArrivesOnce ==
    route = "support" => Panel!ReplyArrivesOnce

\* A deleted reminder leaves no notice, and none becomes read that nobody
\* had on the screen.
ReminderTakenBack ==
    route = "bell" => Bell!ReminderTakenBack /\ Bell!ReadWasShown

\* What was watched long enough is recorded.
CreditIsRecorded ==
    route = "lesson" => Lesson!CreditIsRecorded

\* The lesson shows the kind of video chosen last, and a save of the settings sends
\* what was edited.
VideoIsLastChosen ==
    route = "workspace" => Editor!VideoIsLastChosen /\ Editor!SendsWhatWasEdited

\* What a save of a review reported stands.
SavedStands ==
    route = "reviews" => Review!SavedStands

\* The profile page shows the account.
PageFollowsAccount ==
    route = "profile" => Account!PageFollowsAccount

\* An address is confirmed by the code made for it, unless two requests for
\* a change were written at a time.
EmailByItsCode == [][route = "profile" => Account!ByItsCode]_proVars

=============================================================================
