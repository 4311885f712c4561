------------------------------ MODULE Services ------------------------------
(***************************************************************************)
(* The services behind a course, each with the rows only it writes: lesson *)
(* engagement, lesson access, grading, topic mastery, experience points,   *)
(* the media of the catalogue card and the support desk.  None reads what  *)
(* another writes (a score is an input of mastery and experience, whatever *)
(* it is), so a run follows the requests of one of them; which, the        *)
(* initial state says.  (What does cross from one component to another has *)
(* modules of its own: lessons to the calendar in Calendar, engagement and *)
(* mastery to the graph in Outbox.)                                        *)
(***************************************************************************)
EXTENDS Naturals

CONSTANTS
    Requests,                                   \* requests under way at a time
    Percents, CompletePct,                      \* Engagement
    MaxOpenings,                                \* LessonAccess
    AutoGraded, Open, Answers, Keys, Points, MaxXp, Tolerance, MaxCalls,     \* Grading
    Assignments, Full, Ranks, MaxGradings,      \* Mastery
    Tries, Deltas, MaxChanges,                  \* XpAccounting
    MaxUploads,                                 \* CourseMedia
    Student, Admins, Agents, Teachers, Threads, MaxMessages, MaxMoves, \* Support
    Followed,                                   \* the services a run follows
    None                                        \* nothing; a service not followed

ASSUME FollowedAssumption ==
    Followed \subseteq
        {"engagement", "access", "grading", "mastery", "experience", "media", "support"}

VARIABLE service      \* the service that is followed

VARIABLES       \* EngagementService
    engRow, engEdges, engActive, engRequest, engSheet, engCredited,
    engWatched, engCalm

VARIABLES       \* LessonContentAccessService
    accLesson, accDue, accGranted, accEnrolled, accRequest, accTold,
    accOpenings, accLost, accShut, accCalm

VARIABLES       \* SubmissionsService, auto-grade
    graPaper, graStatus, graAnswer, graScore, graRequest, graCalls, graCalm

VARIABLES       \* TopicMasteryService
    masPoints, masBest, masMastery, masGraph, masRequest, masLinked,
    masGradings, masReached, masTold, masCalm

VARIABLES       \* XpService
    xpScored, xpBest, xpEarned, xpLedger, xpBalance, xpRemoved, xpRequest,
    xpOverlapped, xpAbandoned, xpClamped, xpForgotten, xpChanges

VARIABLES       \* CoursesService, StorageService
    medCourse, medObjects, medRequest, medUploads, medShown, medStopped

VARIABLES       \* SupportService, NotificationsService
    deskThread, deskMessages, deskRating, deskEnrolled, deskCurators,
    deskUnread, deskRequest, deskVisit, deskMoves, deskQuiet, deskLastWord,
    deskAwaited

Lesson == INSTANCE Engagement WITH
    row <- engRow, edges <- engEdges, active <- engActive,
    request <- engRequest, sheet <- engSheet, credited <- engCredited,
    watched <- engWatched, calm <- engCalm

Access == INSTANCE LessonAccess WITH
    lesson <- accLesson, due <- accDue, granted <- accGranted,
    enrolled <- accEnrolled, request <- accRequest, told <- accTold,
    openings <- accOpenings, lost <- accLost, shut <- accShut,
    calm <- accCalm

Grades == INSTANCE Grading WITH
    paper <- graPaper, status <- graStatus, answer <- graAnswer,
    score <- graScore, request <- graRequest, calls <- graCalls,
    calm <- graCalm

Topic == INSTANCE Mastery WITH
    points <- masPoints, best <- masBest, mastery <- masMastery,
    graph <- masGraph, request <- masRequest, linked <- masLinked,
    gradings <- masGradings, reached <- masReached, told <- masTold,
    calm <- masCalm

Xp == INSTANCE XpAccounting WITH
    Attempts <- Tries, scored <- xpScored, best <- xpBest, earned <- xpEarned,
    ledger <- xpLedger, balance <- xpBalance, removed <- xpRemoved,
    request <- xpRequest, overlapped <- xpOverlapped,
    abandoned <- xpAbandoned, clamped <- xpClamped,
    forgotten <- xpForgotten, changes <- xpChanges

Media == INSTANCE CourseMedia WITH
    course <- medCourse, objects <- medObjects, request <- medRequest,
    uploads <- medUploads, shown <- medShown, stopped <- medStopped

Desk == INSTANCE Support WITH
    thread <- deskThread, messages <- deskMessages, rating <- deskRating,
    enrolled <- deskEnrolled, curators <- deskCurators, unread <- deskUnread,
    request <- deskRequest, visit <- deskVisit, moves <- deskMoves,
    quiet <- deskQuiet, lastWord <- deskLastWord, awaited <- deskAwaited

ASSUME EngagementAssumption == Lesson!GoodConstants
ASSUME AccessAssumption == Access!GoodConstants
ASSUME GradesAssumption == Grades!GoodConstants
ASSUME TopicAssumption == Topic!GoodConstants
ASSUME XpAssumption == Xp!GoodConstants
ASSUME MediaAssumption == Media!GoodConstants
ASSUME DeskAssumption == Desk!GoodConstants

engVars == <<engRow, engEdges, engActive, engRequest, engSheet, engCredited,
    engWatched, engCalm>>
accVars == <<accLesson, accDue, accGranted, accEnrolled, accRequest, accTold,
    accOpenings, accLost, accShut, accCalm>>
graVars == <<graPaper, graStatus, graAnswer, graScore, graRequest, graCalls, graCalm>>
masVars == <<masPoints, masBest, masMastery, masGraph, masRequest, masLinked,
    masGradings, masReached, masTold, masCalm>>
xpVars == <<xpScored, xpBest, xpEarned, xpLedger, xpBalance, xpRemoved,
    xpRequest, xpOverlapped, xpAbandoned, xpClamped, xpForgotten, xpChanges>>
medVars == <<medCourse, medObjects, medRequest, medUploads, medShown, medStopped>>
deskVars == <<deskThread, deskMessages, deskRating, deskEnrolled, deskCurators,
    deskUnread, deskRequest, deskVisit, deskMoves, deskQuiet, deskLastWord,
    deskAwaited>>

-----------------------------------------------------------------------------
\* A service that is not followed has no state.
NoLesson ==
    /\ engRow = None /\ engEdges = None /\ engActive = None
    /\ engRequest = None /\ engSheet = None /\ engCredited = None
    /\ engWatched = None /\ engCalm = None
NoAccess ==
    /\ accLesson = None /\ accDue = None /\ accGranted = None
    /\ accEnrolled = None /\ accRequest = None /\ accTold = None
    /\ accOpenings = None /\ accLost = None /\ accShut = None
    /\ accCalm = None
NoGrades ==
    /\ graPaper = None /\ graStatus = None /\ graAnswer = None
    /\ graScore = None /\ graRequest = None /\ graCalls = None
    /\ graCalm = None
NoTopic ==
    /\ masPoints = None /\ masBest = None /\ masMastery = None
    /\ masGraph = None /\ masRequest = None /\ masLinked = None
    /\ masGradings = None /\ masReached = None /\ masTold = None
    /\ masCalm = None
NoXp ==
    /\ xpScored = None /\ xpBest = None /\ xpEarned = None
    /\ xpLedger = None /\ xpBalance = None /\ xpRemoved = None
    /\ xpRequest = None /\ xpOverlapped = None /\ xpAbandoned = None
    /\ xpClamped = None /\ xpForgotten = None /\ xpChanges = None
NoMedia ==
    /\ medCourse = None /\ medObjects = None /\ medRequest = None
    /\ medUploads = None /\ medShown = None /\ medStopped = None
NoDesk ==
    /\ deskThread = None /\ deskMessages = None /\ deskRating = None
    /\ deskEnrolled = None /\ deskCurators = None /\ deskUnread = None
    /\ deskRequest = None /\ deskVisit = None /\ deskMoves = None
    /\ deskQuiet = None /\ deskLastWord = None /\ deskAwaited = None

\* Every service starts as its module says.
Init ==
    /\ service \in Followed
    /\ IF service = "engagement" THEN Lesson!Init ELSE NoLesson
    /\ IF service = "access" THEN Access!Init ELSE NoAccess
    /\ IF service = "grading" THEN Grades!Init ELSE NoGrades
    /\ IF service = "mastery" THEN Topic!Init ELSE NoTopic
    /\ IF service = "experience" THEN Xp!Init ELSE NoXp
    /\ IF service = "media" THEN Media!Init ELSE NoMedia
    /\ IF service = "support" THEN Desk!Init ELSE NoDesk

Next ==
    /\ UNCHANGED service
    /\ IF service = "engagement" THEN Lesson!Next ELSE UNCHANGED engVars
    /\ IF service = "access" THEN Access!Next ELSE UNCHANGED accVars
    /\ IF service = "grading" THEN Grades!Next ELSE UNCHANGED graVars
    /\ IF service = "mastery" THEN Topic!Next ELSE UNCHANGED masVars
    /\ IF service = "experience" THEN Xp!Next ELSE UNCHANGED xpVars
    /\ IF service = "media" THEN Media!Next ELSE UNCHANGED medVars
    /\ IF service = "support" THEN Desk!Next ELSE UNCHANGED deskVars

serviceVars ==
    <<service, engVars, accVars, graVars, masVars, xpVars, medVars, deskVars>>

Spec == Init /\ [][Next]_serviceVars

-----------------------------------------------------------------------------
(***************************************************************************)
(* Properties: those of the services, which their modules explain.         *)
(***************************************************************************)
\* Types: the rows and calls of the service that is followed.
TypeOK ==
    /\ service = "engagement" => Lesson!TypeOK
    /\ service = "access" => Access!TypeOK
    /\ service = "grading" => Grades!TypeOK
    /\ service = "mastery" => Topic!TypeOK
    /\ service = "experience" => Xp!TypeOK
    /\ service = "media" => Media!TypeOK
    /\ service = "support" => Desk!TypeOK

\* Credit for a lesson stands until it is revoked; completed, it counts as
\* watched and is completed in the graph, however its writers overlap.
CreditStands ==
    service = "engagement" =>
        Lesson!CreditStands /\ Lesson!CompletedIsWatched /\ Lesson!CompletedIsInGraph

\* Each opening of a lesson is announced once, or its notice lost; a notice
\* is of a lesson that is open, unless it was closed again.
OpenedToldOnce ==
    service = "access" => Access!OpenedToldOnce /\ Access!ToldOfOpen

\* The score is the sum of marks, each the one its stored answer deserves,
\* where no save, submit or grade overlapped another.
ScoreFitsAnswers ==
    service = "grading" => Grades!ScoreFitsAnswers

\* Mastery and graph are as the grades are, and a rise in rank is told once.
MasteryFollowsGrades ==
    service = "mastery" => Topic!MasteryFollowsGrades /\ Topic!GraphFollowsTable /\ Topic!RankToldOnce

\* Ledger rows, those removed with their assignment included, explain the
\* balance, whatever races or dies.
LedgerExplainsBalance ==
    service = "experience" => Xp!LedgerExplainsBalance

\* Experience is what the best scores are worth, and those follow grades.
EarnedFollowsScores ==
    service = "experience" => Xp!EarnedFollowsScores

\* The catalogue card shows nothing that is gone.
LinksAreStored ==
    service = "media" => Media!LinksAreStored

\* A closed thread gets no message.
ClosedIsClosed ==
    service = "support" => Desk!ClosedIsClosed

\* Whoever awaits a message (neither seen, nor put aside, nor a week old)
\* has a badge that says so, and no badge counts what its page cannot clear.
BadgeForWhatAwaits ==
    service = "support" => Desk!BadgeForWhatAwaits /\ Desk!EveryNoticeHasItsPage

=============================================================================
