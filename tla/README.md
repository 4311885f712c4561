# A verification development for the online school

The online school is a web platform: a NestJS backend (`src/src`) over
Postgres (Prisma), Neo4j, Redis and an S3 object store, and a React client
(`src/web`).  Its logic is short.  What makes it hard is that almost every
operation is a sequence of awaited database statements: two requests of the
same student, a request and a cron job, a curator and a student, or a request
that dies half way, interleave between any two of them.  The client adds
requests that are answered late or never, timers, caches that are refetched,
and buttons that stay enabled.  The test suite calls one service at a time
against mocks and meets none of this.

The modules here model that: **an `await` on the database ends a step; a
`prisma.$transaction` is one step** unless it reads before it writes and runs
READ COMMITTED, in which case it is several.  What a request read is kept in a
record (`request[r]`), and the statement it executes next acts on that record
and not on the tables as they are.  In the client, **a step is a click, a
timer, or the arrival of an answer**, and what a callback closed over is kept
with the request.

Contents: [the system](#the-system), [the modules](#the-modules),
[what the runs show](#what-the-runs-show), [bounds](#bounds),
[fairness](#fairness), [what is proved](#what-is-proved),
[where code and documents disagree](#where-code-and-documents-disagree),
[what is not modelled](#what-is-not-modelled), [plan](#plan).

## The system

### The backend

| Component (`src/src/...`) | State it keeps | Operations that change it | Talks to |
|---|---|---|---|
| Enrolment and payments (`payments/`, `enrollments/`) | `Payment`, `Enrollment` | checkout; mock confirm, fail, cancel; free enrolment; grant; cancellation with refund verdict | courses (price), outbox (ENROLLMENT event), support (cancels for a student) |
| Courses (`courses/`) | `Course`, price, cover and promo video | create, edit, publish, upload and remove media, delete | enrolment reads the price; storage |
| Analytics outbox (`outbox/`, `neo4j/`) | `AnalyticsOutbox`, a `busy` flag in memory, the graph | `enqueue` in the domain's transaction; `tick` every five seconds | topics, enrolment, engagement, mastery write rows; Neo4j |
| Topics (`topics/`) | `Topic`, `LessonTopic`, `AssignmentTopic` | create, rename, remove, set topics of a lesson or assignment | outbox |
| Homework attempts (`submissions/`) | `Submission`, `Answer` | open an attempt, save answers, submit, grade | automatic grading, experience, mastery, notifications |
| Automatic grading (`grading/`) | none (pure) | | attempts |
| Experience (`xp/`) | `AssignmentBestXp`, `XpLedger`, `XpBalance` | `syncBestAttempt` after submit and grade | support adjusts the balance; rank notices |
| Topic mastery (`analytics/`) | `TopicMastery` | recompute after a grade | attempts, outbox |
| Support operations (`support/support-ops`) | shared rows of the above | adjust XP, grant a lesson, complete a lesson, attendance, radar bonus | XP, engagement, lesson access |
| Assignments (`assignments/`) | `Assignment`, `Question` | create, edit, replace questions, remove | attempts, calendar |
| Lesson engagement (`engagement/`) | `LessonEngagement` | record progress, set attendance | support operations, outbox |
| Lessons and access (`lessons/`, `course-modules/`) | `Lesson`, `LessonContentGrant` | create, edit, remove, open, close, schedule, grant | calendar, notifications |
| Course calendar (`course-events/`) | `CourseEvent`, dates of `Lesson` and `Assignment` | create, edit, remove on either side; the listing repairs | notifications |
| Sessions (`auth/`) | refresh families and used tokens in Redis | log in, rotate, revoke, log out, reset the password | web client |
| Reviews (`reviews/`) | `CourseReview` | write, edit, remove, moderate, restore, reject; reminder job | files |
| Files (`files/`, `storage/`) | `StoredFile` and objects | upload, remove | reviews, courses, lessons, support, users |
| Support threads (`support/`) | `SupportThread`, messages | open, post, close, rate, cancel a course | enrolment, notifications |
| Notifications (`notifications/`) | `Notification`, reminders | create, mark read, clear a badge, drop the misdelivered, remove a reminder | nearly everyone calls it, nobody waits on it |
| Users (`users/`, `impersonation/`) | `User`, codes | nickname; change of e-mail with a code, in two requests | sessions |

### The web client

| Page (`src/web/src/...`) | State it keeps | Talks to |
|---|---|---|
| `api`, `AuthContext` (`shared/`) | the two tokens in localStorage, the user | sessions; every call goes through it |
| Homework page (`pages/lk/LkAssignmentPage`) | answers on screen, answers believed saved, phase | attempts |
| Homework editor (`features/assignments/AssignmentConstructor`) | the form, the autosave timer, refs | assignments |
| Buy button and payment page (`features/catalog`, `pages/payments`) | busy flag, timers, cached payment | payments |
| Support panel (`features/support/SupportPanel`) | the open thread, reply box, files | support threads |
| Bell and reminders (`shared/notifications`, `features/courses`) | polled list, toasts, ids already shown | notifications |
| Lesson page (`pages/lk/LkLessonPage`) | dwell time and progress in refs | engagement |
| Course workspace (`features/courses`) | settings form, lesson panel, attendance | courses, lessons, engagement |
| Profile (`pages/lk/LkProfilePage`) | the cached account, the step of the change of e-mail | users |
| Review dialog and moderation (`shared/reviews`, `pages/staff`) | form, photos to add and remove, the row being read | reviews, files |

Components share Postgres rows and call each other in process; there is no
message bus except the outbox.  Callbacks: the provider's answers to a payment
(three endpoints), the cron of the outbox and the reminder job.

### What is hard here

1. *Stale reads.*  A status is read, checked, and the row is updated by
   identifier later without the status in the `where`: payments, enrolments,
   attempts, reviews, threads, lessons.
2. *Counts as identifiers or limits.*  The number of an attempt is a count
   plus one; limits on attempts and photos are counted before the write.
3. *Read, compute, write back.*  Engagement, mastery and experience are
   computed from what was read, by writers of three services.
4. *Several stores.*  Postgres and Neo4j (outbox), Postgres and the object
   store (files, media), Redis commands that are no transaction (tokens): one
   can change without the other.
5. *Several rows that mirror one another* outside a transaction: a lesson and
   its live event, homework and its deadline, a balance and its ledger, a
   message and the notices that announce it.
6. *Retries.*  A failed outbox row is retried while later rows go ahead; the
   client repeats a call after refreshing its token.
7. *A page that acts on what it saw.*  Answers arrive after something else was
   opened; forms send values of the time they were mounted.

The hazards, each at its line, are in `PROJECT.json`.

### What makes each modelled component correct

- *Enrolment:* charged money has a place behind it as long as there is a course,
  a withdrawn place is not given back, a student pays once.
- *Outbox:* each committed row is applied in full before it is acknowledged,
  is never lost, is given up exactly after `MAX_ATTEMPTS`, and settles in the
  end if Neo4j stays enabled; once drained, the graph says what the last row said.
- *Attempts and grading:* numbers have no gap, limits hold, what was handed in
  stands, and its score is the sum of the marks its answers deserve.
- *Experience and mastery:* the ledger, with what removed assignments took from
  it, explains the balance; a best score is credited once; mastery and graph are as the grades are.
- *Engagement and access:* credit once given stands and is known to the graph;
  an opened lesson is announced once, and is open when it is announced.
- *Calendar:* an edit from either side leaves lesson and event the same, and
  the next listing repairs what races and crashes left.
- *Reviews, media:* nothing unapproved is in the catalogue; the catalogue shows
  what the author last wrote; no link to an object that is gone.
- *Sessions:* who signed in stays signed in; an ended session stays ended;
  every call of the client gets an answer or an error, unless its handler
  answers 401 to a valid token.
- *Support:* a closed thread gets no message; who awaits a message has a badge,
  and each badge can be cleared by its owner.
- *Pages:* what a page says was saved, paid, sent, counted or published is so
  on the server.

## The modules

| Module | Models | How it corresponds |
|---|---|---|
| `AccessLifecycle` | (abstract) a place on a course | a place is obtained once; charging and giving the place are one step; a withdrawn place stays withdrawn; nothing is given or charged on a course that is gone |
| `Enrollment` | `payments.service`, `enrollments.service`, the window of `refunds.service`, the price and the removal of a course in `courses.service` | tables `payment`, `enrollment`, `free`, and the courses `removed`; one action per statement of checkout, confirm, fail, cancel, free enrolment, grant and cancellation; `RemoveCourse` cascades to payments and enrolments between any two of them, after which a write by identifier is refused (`issued` keeps whose payment an identifier was) |
| `EnrollmentProofs` | | theorems of `Enrollment`, its refinement of `AccessLifecycle` among them |
| `Delivery` | (abstract) an event in an outbox | none, accepted, delivered, acknowledged or abandoned |
| `Outbox` | `outbox.processor`, `outbox.service`, topics' transactions, Neo4j edges | `outbox`, `busy` and `graph`; `Tick` reads a batch, `Clear`/`AddEdge` are the Cypher statements, `MarkProcessed`/`CountAttempt` the updates; `enabled` is `isEnabled()`, decided anew by `Restart` |
| `OutboxProofs` | | theorems of `Outbox`, its refinement of `Delivery` among them |
| `Attempts` | `submissions.service`; `update` and `remove` of `assignments.service` | rows `attempt[k][n]`; each read and write of `createAttempt`, `saveAnswers`, `submit`, `grade`; `Update` edits limit and response mode while they are under way, and `submit` goes by the mode it read |
| `AttemptsProofs` | | theorems of `Attempts` |
| `XpAccounting` | `xp.service`, `adjustXp` of `support-ops.service` | `best`, `earned`, `ledger`, `balance`; the transaction of `syncBestAttempt` is split at its read; `RemoveAssignment` deletes best, submissions and ledger rows by cascade and leaves the balance (`forgotten` counts what went) |
| `Calendar` | `course-events.service`, the dates in `lessons.service` and `assignments.service`, the cascade of a removed lesson | `lesson`, `homework`, `event`; every statement of create, edit, remove and of the repairing listing |
| `CalendarProofs` | | theorems of `Calendar` |
| `Reviews` | `reviews.service`, the review photos of `files.service` | `review`, `photo` (rows), `stored` (objects); every call to either store |
| `ReviewsProofs` | | theorems of `Reviews` |
| `Engagement` | `engagement.service`, `setLessonComplete` and attendance of `support-ops.service`, the attendance tab | `row` (the LessonEngagement row), `edges` (its copy in the graph), `request[r]` with the row it read; read and write of a transaction are two steps |
| `LessonAccess` | `lessons.service` (open, close, dates, grant), `lesson-content-access.service`, `course-access.service` | `lesson`, `granted`, `enrolled`; a call reads and writes, then notifies by what it read: an edit of title or dates announces too, if the lesson was closed when it was read and is open when it is written; `GetOne` and `EvaluateMany` are the single and the bulk evaluation |
| `Grading` | `auto-grade.ts`, and the loops of `saveAnswers`, `submit`, `grade` in `submissions.service` | `gradeChoice`, `gradeShort`, `computeScoreXp` as operators; the rows are written answer by answer |
| `Mastery` | `topic-mastery.service`, the rank of `xp.service` | `mastery` (the row), `graph` (its copy), `request[r]` with the grades it read |
| `CourseMedia` | cover and promo video in `courses.service`, `storage.service`, the two upload controls | `course[slot]` points at `objects`; upload, delete, write are steps that may fail |
| `Support` | `support.service`, badges and misdelivered notices of `notifications.service`, `useClearSupportBadge` | `thread`, `messages`, `unread` notices; read, write and each insert of notices are steps; notices go by a visit (`ClearBadge`), `MarkRead`, `MarkAllRead` or after a week (`Expire`) |
| `Services` | the composition of seven service modules (`XpAccounting` and the six above) | an INSTANCE of each over its own variables; an initial state chooses the service that is followed from those the configuration names, because none reads what another writes |
| `ServicesProofs` | | theorems of `Services`, and of the seven modules it instantiates |
| `Sessions` | `refresh-token.service`, `auth.service`, `jwt.strategy`; `api`, `tryRefresh`, `AuthContext` of the client | one step per Redis command of rotation, revocation and reset; one per answer in the browser; a call of kind `confirm` may be answered 401 with a valid token, as a wrong code is (`users.service.ts:183`), and a throttler's 429 is one of the ways in which a request `Breaks` |
| `SessionsProofs` | | theorems of `Sessions` |
| `AttemptPage` | `LkAssignmentPage` over `submissions.service` | the screen, what it believes saved, cached attempts; request asked, handled, answered |
| `PaymentPage` | `EnrollBuyButton`, `MockPaymentPage` over `payments.service` | the statements of a checkout, the busy flag, the timers before a request, `told[p]`; the browser may go `Back` to the course with the payment pending, and buy again |
| `ConstructorPage` | `AssignmentConstructor` over `assignments.service` | the form with title and questions, both of which a save wants (`CanPersist`), autosave timer, `skipAutosaveRef`, the save with the assignment its ref named |
| `SupportPanel` | `SupportPanel`, `LkSupportPages` over `support.service` | the open thread, the reply box, the upload after a message |
| `BellPage` | `NotificationsBell`, `CourseRemindersTab` over `notifications.service` | polled list, toasts, `os_shown_toast_ids`, reminder and its removal; a visit to a support page marks replies read before any poll (`MarkSupportChannelRead`) |
| `LessonPage` | `LkLessonPage` over `engagement.service` | refs that outlive a change of the lesson, requests under way |
| `Workspace` | `CourseWorkspace`, `LessonEditPanel` over courses and lessons | forms with the values they were mounted with; the requests of a lesson's panel, which go on when it is closed |
| `Profile` | `users.service`, `LkProfilePage` | each statement of the change of e-mail; a call per button, and requests of another tab; the transaction that withdraws the old codes finds them (`Consume`) before it commits (`WriteRequest`) |
| `ReviewPages` | `CourseReviewsModal`, `StaffReviewsPage` over `reviews.service` | a save is a call for the text, one per photo removed, one per photo added |
| `WebApp` | `App.tsx`: the composition of the nine page modules | an INSTANCE of each; the route, chosen initially, says which page is mounted |
| `WebProofs` | | theorems of `WebApp`, and of the nine modules it instantiates |
| `MC...` | | each of these EXTENDS its component and declares the symmetry for TLC; `MCServices` has two configurations, one for experience points and one for the other six services |

Conventions shared by all of them:

- `None` is a missing row, a null column or an idle request.
- `request[r]` is the record of a request in flight: `next` names the
  statement it executes next, the other fields are what it has read.
  `RequestDies` ends a request between any two statements.
- History variables (`charged`, `overlapped`, `ceiling`, `broken`, ...) are
  written along with the state and read by no action, except where a bound says
  so (`MayBegin` of `Sessions`); properties use them to
  say *when* something holds.  Several properties are claimed only for keys
  for which no two requests were ever in flight together.  Each says so in its
  name or comment, and each race excluded that way is listed among the
  observations below.
- Data is abstracted to what the properties distinguish: an answer sheet is
  the experience it is worth, a date stands for a lesson's title, link and
  end as well, a text for rating and body.
- A definition whose comment begins with *Mutant* is a plausible error in the
  definition after it.  No specification uses one; each shows that a property
  notices the error.

What composes what: `Enrollment` implements `AccessLifecycle` and `Outbox`
implements `Delivery` (INSTANCE with a refinement mapping, checked as a
PROPERTY).  `Calendar` and `Reviews` each put several services over the same
rows into one module, because there the interaction is the subject; so do
`Engagement` (three writers of one row), `Support` (threads and notices) and
`Sessions` (browser and Redis).  `Attempts`, `Grading`, `XpAccounting` and
`Mastery` follow one grade through the system: what `Attempts` lets a stale
submit or grade write is any score over any other, `Grading` says what score
an undisturbed one writes, `XpAccounting` and `Mastery` take any score as
their input.  A page module contains as much of its service as the page can
tell apart; what the statements of that service do to each other is the
subject of the service's own module.

## What the runs show

| Run | Configuration | Checks | Shows |
|---|---|---|---|
| `enrollment` | `MCEnrollment.cfg` | `ChargesMatchPlaces`, `SettledForGood`, `ImplementsAccessLifecycle` | money, places and events match however requests interleave and until the course is removed; what is cancelled, settled or decided stays so (refund verdicts and payments: without overlap); refinement of `AccessLifecycle` |
| `outbox` | `MCOutbox.cfg` | `SettledInOrder`, `ImplementsDelivery`, `EventsSettle` | retry, give-up, skipped batch and restart: a row is given up after the last attempt only and not overtaken; refinement of `Delivery`; everything settles if Neo4j stays enabled |
| `outbox_graph` | `MCOutboxGraph.cfg` | `OneRunWithFreshBatch`, `DrainedGraphMatches` | two editors and two crons: one run at a time with a batch that is still fresh, the drained graph matches Postgres |
| `outbox_retry` | `MCOutboxRetry.cfg` | `RetriesDoNoHarm`: **violated** | a late retry restores the older state |
| `attempts` | `MCAttempts.cfg` | `NumberedWithinLimits`, `OneSheetThatStands` | contiguous numbers within the limits there were; nothing handed in is a draft again; without overlap one draft at most, and answers and grades stand |
| `xp` | `MCExperience.cfg` | `LedgerExplainsBalance`, `EarnedFollowsScores` | ledger and what was forgotten explain the balance; undisturbed best scores are credited once and follow regrades |
| `calendar` | `MCCalendar.cfg` | `CalendarMatchesLessons`, `CalendarHeals` | lessons and calendar mirror each other; the next undisturbed listing or live edit repairs what races and crashes left |
| `reviews` | `MCReviews.cfg` | `InCatalogueOnceApproved`, `CatalogueIsCurrent`, `PhotosKept` | nothing unapproved in the catalogue; undisturbed, one version, photos within the limit, rows and objects agree |
| `sessions` | `MCSessions.cfg` | `StaysSignedIn`, `EndedForGood`, `CallsEnd` | two calls find the access token expired or are answered 401: without concurrent refreshes and lost answers the user stays signed in; a session ended by a reset, or because a token was used again after its answer was lost, stays ended; every call ends but one whose handler keeps answering 401 |
| `services` | `MCServices.cfg` | `TypeOK`, `CreditStands`, `OpenedToldOnce`, `ScoreFitsAnswers`, `MasteryFollowsGrades`, `LinksAreStored`, `ClosedIsClosed`, `BadgeForWhatAwaits` | two requests at a time in each of the other six services, with failures: a property each (two of support), the parts of which the comments in the module name |
| `web` | `MCWeb.cfg` | `TypeOK`, `HandedInAsShown`, `WhatWasToldStands`, `OwnQuestions`, `QuestionsStand`, `ReplyArrivesOnce`, `ReminderTakenBack`, `CreditIsRecorded`, `VideoIsLastChosen`, `SavedStands`, `PageFollowsAccount`, `EmailByItsCode` | nine pages against their services: what the page says is so on the server |
| `constructor_draft` | `MCConstructorDraft.cfg` | `PublishedOnRequest`: **violated** | a late answer sets the switch of the draft opened since, and the timer publishes it |

Every property of a holding run has a mutant under which TLC finds it
violated (see `mutants` in `PROJECT.json`).

## Bounds

| Run | Instance | Why it is enough | Distinct states |
|---|---|---|---|
| `enrollment` | one student and course, 2 payments, 3 requests | actions touch one (student, course) key, except the price, which is per course; two payments are needed to pay twice, three requests for two stale ones to race a third; the course is removed at any time | 160 thousand, half a minute |
| `outbox` | one owner, one topic, 3 rows, batches of 2, 2 attempts, 1 mishap, one tick | three rows and a batch of two leave a row for the next tick; two attempts distinguish a retry from giving up; a mishap is a restart or a failed update of the attempts | 139 thousand, one minute |
| `outbox_graph` | two topics, 2 rows, 2 editors, 2 ticks, 1 attempt | two topics allow a half-applied row, two editors an overlap, two ticks the cron firing during a run | 448 thousand |
| `attempts` | one student and assignment, 2 attempts, limits none, 1, 2, scores 0..1, 2 requests | a stale request meets another one, and an edit of the response mode; the second attempt is the one that must not be | 724 thousand |
| `xp` | 2 assignments with 2 attempts, scores 0..2, adjustments of -1 and 1, 4 changes, 2 requests | two assignments share a balance; four changes hold a score, a regrade and adjustments around them, and the removal of either assignment before or after | 1.3 million |
| `calendar` | one lesson, one homework, 2 dates, 3 events, 3 calls, 2 in flight | two calls race, a third one runs alone and must repair what they left; three events include one extra of each type | 704 thousand |
| `reviews` | 2 texts, 3 photos, limit 2, 2 reviews, 5 calls, 3 in flight | write, upload twice, moderate and edit fit into five calls; a removed review and a new one fit into two | 72 thousand |
| `sessions` | 2 calls, 3 tokens, one session, one refusal (a token that expires, or a 401 for a valid one) | two calls find the token expired at once; a login and two rotations take three tokens, the last of them after a reuse or a reset | 822 thousand, a minute and a half |
| `services` | 2 requests each; two percentages around the 80 that complete; 2 openings; one automatic and one open question, 3 calls; two assignments of a topic, 3 gradings; 2 uploads; one thread, 2 messages, one person of each role, one change of curators | two requests are a race, a third grading or call follows it undisturbed; two assignments make an average; two uploads replace one object; one person per role tells every audience and badge apart | 2.1 million, two minutes |
| `web` | two answers, contents, texts, threads or lessons wherever a page moves from one to another; two payments, codes, notices, replies; three addresses; two requests of the payment page or of lesson panels; one toast at a time; three clicks in the editor | two of what a page can confuse; a third address is the one a late code is not for; open, edit and save fit into three clicks; two toasts are one too many; request slots, lessons and assignments, which no page tells apart, are symmetric | 2.5 million, two minutes |
| `constructor_draft` | two assignments, two contents, three clicks | publish one, open the other, edit it | until violated |

The bounds are constants whose comment says *bound* (`MaxNo`, `MaxRows`,
`MaxMishaps`, `MaxChanges`, `MaxCalls`, `MaxEvents`, `MaxReviews`, `MaxTime`,
`MaxTokens`, `MaxFamilies`, `MaxRefusals`, `MaxOpenings`, `MaxGradings`,
`MaxUploads`, `MaxMessages`, `MaxMoves`, `MaxPayments`, `MaxClicks`,
`MaxReplies`, `MaxPosted`, `MaxNotes`, `MaxSent`, `MaxOthers`, `MaxSaves`,
`MaxCodes`): they limit how much happens, and an action at its bound is not
enabled.  Four bounds are definitions or guards: `Room` of `Profile` (a code is left for
every request), in the same module a guard of `Click` (nothing begins once two
requests for an address were written at a time) and one of `Register` (one address
is taken by somebody else), and `MayBegin` of `Sessions` (once two changes of the session have
met, or one was left half done, what is under way ends and nothing begins: the
properties that are about sessions say nothing of what follows, and `CallsEnd`
goes on to watch the calls that were under way).  `Slots` are requests under way,
of the payment page or of lesson panels.  `MaxAttempts`, `BatchSize`, `MaxReviewPhotos`, `MaxPhotos`,
`ToastLimit`, `Dwell`, `Full`, `Ranks` are numbers of the code made small.
Where everything that happens is counted against a bound the model runs out
and stops; `CHECK_DEADLOCK FALSE` in the configurations of `Calendar`, `Reviews`,
`Sessions`, `Services`, `WebApp` and the editor is for that (a page also stops
where the student has left it).  `Enrollment` and `Attempts` stop when the only
course, or assignment, was removed.  Everything else is checked for deadlock.

Symmetry is declared over values that no definition compares or orders
(requests, payments, topics, editors, photos, texts; in `MCExperience.cfg`, which
follows experience points only, also assignments and the attempts at them).  The runs with a
liveness property, `outbox` and `sessions`, use none.

## Fairness

Two modules claim that something must happen.

`Outbox` (`EventsSettle`: every committed row is processed or given up, if from
some time on the process was started with `NEO4J_URI`, without which `tick`
returns at once) assumes

- `WF_vars(\E t \in Ticks : Tick(t))`: the cron fires again and again
  (`@Cron(CronExpression.EVERY_5_SECONDS)`, `outbox.processor.ts:19`);
- `WF_vars(RunStep(t))` for each run: a statement that was sent is answered or
  fails; the drivers reject when a connection is lost.

Nothing obliges an editor to edit, Neo4j to succeed, or a statement to fail:
`StatementFails` is a disjunct of `RunStep`, so that the property must hold if
every statement fails for ever (the rows are then given up).  Restarts and
failed updates of the attempts are bounded by `MaxMishaps`: a Postgres that
never comes back settles nothing, and the property does not claim it.

`Sessions` (`CallsEnd`: a call of the browser gets an answer or an error)
assumes `WF(Server(c) \/ Client(c))` for each call: Redis and the server go on
or fail, and `fetch` settles, by an answer or an error (`Unheard` is a disjunct
of `Client`).  Nothing obliges a command to succeed, a user to click or a token
to stay valid.  `api` repeats itself after every refresh without a bound of its
own (`client.ts:111`), so the claim rests on `MaxRefusals`: tokens that expire
again before each repetition would keep a call going for ever.  A handler that
answers 401 to a valid token, as `confirmEmailChange` does to a wrong code
(`users.service.ts:183`), needs no expiry for that: each repetition brings a new
rotation and the same answer, until the throttler refuses one of them
(`app.module.ts:47`).  `CallsEnd` therefore makes no claim about calls of kind
`confirm`; they are in the model because they rotate the tokens of the others.

## What is proved

TLAPS checks the following for all values of the constants, under the named
assumptions of the modules, all of which TLC evaluates in the runs:
`NoneAssumption` and `ReviewsAssumption` (`None` is not a row, and the limit on
photos is a number), `AttemptsAssumption`, `OutboxAssumption`
(numbers are numbers, and `MAX_ATTEMPTS` is positive), `SessionsAssumption`
(bounds are numbers, `None` is no token, mark, call or reset),
`CalendarAssumption` (bounds are numbers, and no lesson has the identifier of an
assignment: both are UUIDs of their own), `FollowedAssumption` (which services a
run may follow), and `GoodConstants` of the seven service and the nine page
modules, which `Services` and `WebApp` assume of their instances: `None` is no value, numbers are numbers,
the questions of a paper and the assignments of a topic are finite, no question
is both automatic and open, `Full` is positive, the template is a content, the
first thread a thread, and there is an address and a nickname.

| Module | Theorems | Inductive invariant |
|---|---|---|
| `EnrollmentProofs` | `TypeCorrect`, `Provenance`, `NoChargeForNothing`, `EventsMatchPlaces`, `CancellationIsFinal`, `Refinement`; with a second invariant `PaidOnce`, `SettledIsFinal`; together `ChargesAndPlaces`, `StaysSettled` | the properties, `RequestSound` and `RowsSound` |
| `AttemptsProofs` | `TypeCorrect`, `NumberedWithoutGap`, `NoAttemptTooMany`, `WellNumbered`, `HandedInForGood`; with a second invariant `OneSheetStands` | the properties, `RequestSound`, `CeilingIsLimit`; then `AloneInv` |
| `CalendarProofs` | `TypeCorrect`, `LessonsMirrored`, `AloneHeals` | `TypeInv`, `AloneInv`, `NeverMet`, `MirrorInv`, `DeadlineInv` |
| `OutboxProofs` | `TypeCorrect`, `OneRunAtATime`, `GivenUpAtLast`, `SettledForGood`, `Implements`; with a second invariant `InOrder`, `GraphIsUpToDate` | the properties, `EditsSound`, `DeliveredSound`; then `OrderInv` |
| `ReviewsProofs` | `TypeCorrect`, `OnceApproved`; with three more invariants `OneVersion`, `EveryPhotoHasItsObject` | the property and `CallsSound`; then `FileInv`, `LimitInv`, `CalmInv` |
| `ServicesProofs` | `ServicesTypes`, `CreditIsKept`, `ToldOnce`, `ScoreIsTheSum`, `MasteryIsCurrent`, `LedgerIsExplained`, `EarnedAsScored`, `NoDeadLink`, `NoLateMessage`, `BadgesTell`; of each service on its own `LessonInvariance`, `AccessInvariance`, `GradesInvariance`, `TopicInvariance`, `XpInvariance`, `MediaInvariance`, `DeskInvariance`, and of experience points `XpTypeCorrect`, `EarnedOnce`, `RegradesArrive` | `ServicesInv`: the invariant of each service, and that the services that are not followed rest |
| `SessionsProofs` | `TypeCorrect`, `EndsForGood`, `SignedInForGood` | `TypeInv`, `EndInv`, `BrowseInv`, `SignInv` |
| `WebProofs` | `TypeCorrect`, `HandsInWhatIsSeen`, `ToldStands`, `QuestionsAreOwn`, `AttemptKeepsQuestions`, `ArrivesOnce`, `TakesBack`, `WatchedIsRecorded`, `LastChoiceShown`, `ReportedStands`, `ShowsTheAccount`, `AddressByItsCode` | `WebInv`: the invariant of the page that is mounted |

With these every invariant and every action property of the passing runs is a
theorem; only the two liveness properties are not.

The argument is the same throughout.  No property is inductive, because a
request writes what it read some time ago.  The strengthening states **what a
request still knows when it writes**:

- *Enrollment.*  The identifier of the payment it read stays one for its student
  and course, whether the row is still there or not (`issued`); an enrolment to
  be suspended still exists if the course does; and the cascade leaves no row of
  a course that is gone (`RowsSound`).  That is enough for provenance and charges.  For the claims about
  keys without overlap, `LoneInv` adds that there is one request per such key
  and that its guard still holds, since nobody else could falsify it; grants,
  which are a single transaction, may still come in between, and the proof
  shows they do no harm.
- *Attempts.*  The attempts a request counted still exist, hence the next
  number is either taken (the unique key refuses) or continues the numbering;
  the limit it read is at most the ceiling, and its count is below it.  The
  lemma `CountIsLatest` turns the cardinality of the attempts into the number
  of the latest, for any number of attempts.  That no stale request makes
  a draft of what was handed in needs no more: every write but the first gives
  another status.  Which one is not for good, because the response mode may be
  edited between the reads of two submits that overlap.  `AloneInv` is about assignments no
  two requests met on: what the one request has read is still so
  (`AloneIsFresh`), a removal of the assignment apart, after which it writes
  nothing; it counted no more attempts than there may be
  (`RetakesKnown`), and a draft is the latest attempt (`KeysSound`).
- *Experience.*  A request that is alone on its assignment still holds the old
  best that is in the table and the best of the scores as they are
  (`LoneWithoutOverlap`); once it is through, the best stays that of the scores
  (`BestKept`).  `BalanceExists` (whoever has earned something has a balance
  row) is needed because a loss credited to a missing balance would be cut off at zero and
  the ledger no longer explained.  It was found by the failed proof and is
  not visible in the code: it holds because the first positive best of a
  student is always credited.
- *Calendar.*  The statements of a call leave lesson, homework and events out of
  step with each other until the last one, and nothing in the rows says so.  The
  invariant therefore follows the call, in four parts that are proved one
  statement at a time.
  `TypeInv`: the foreign keys hold (`Linked`) through every cascade and
  `SetNull`, and a call has in its record what its next statement needs
  (`Sound`), whatever became of the rows.
  `AloneInv`: a call that has been alone since it started knows what it read or
  wrote (`Knows`): the lesson has the date it wrote, the deadline it found is
  one, the event it moved was live for the lesson it remembers, and the loops of
  the listing have still to write exactly what is missing (`PlanIsMissing`,
  `DeadlinesThinned`).  That a call is alone is enough; the state it found may be
  the debris of any races and crashes, which is why `AloneHeals` can say that
  they are repaired.
  `MirrorInv`: while nothing has met or broken, a lesson that is out of step is
  one that some call under way still owes something (`Owes`), and `OwedFor`
  bounds by how much: at most one live event before it is rewritten, none once
  it is deleted.  With no call under way nothing is owed, which is
  `CalendarMatchesLessons`.  Until something meets or breaks, the listing finds
  no live event missing (`addLives` is never reached) and cannot add a second.
  `DeadlineInv`: no homework has a second deadline unless it was entered by
  hand: without such an entry an event that is moved or relinked is a live one.
- *Outbox.*  The rows left in a batch are pending and have the attempts the run
  saw (`OneRunWithFreshBatch`); it holds because there is one run, and there is
  one run because `busy` is up exactly while one is alive.  The row of an open
  transaction is uncommitted and nobody else's (`EditsSound`), so a rollback
  or a crash takes away only what no run has seen.  A run with no edge left to
  add has applied its row in full (`DeliveredSound`): the premise under which
  PROCESSED may be written.  The lemma `OldestExists` (a batch of any size has
  an oldest row) makes `CHOOSE` well defined.
  `OrderInv` follows an owner no two edits of which overlapped, in two halves
  that meet in the table.  On the side of Postgres (`EditInv`) the open
  transaction has the owner's latest row, and the last row all can see says
  what is linked there.  On the side of Neo4j (`RunInv`) a batch leaves no older
  untried row of an owner behind (`BatchIsPrefix`), what was added and what
  there is to add make up the row (`Halfway`), and once all rows are processed
  at their first attempt the last one says what the graph has
  (`GraphFollowsLast`).
- *Reviews.*  A request that will publish without being a moderator's (an
  edit of a published review, a restore) has read a published version, so its
  review was approved once (`CallsSound`); approval is never taken back from
  the history.  `FileInv` holds whatever overlaps: a photo that is being
  inserted is inserted by one request and deleted by none, and a row without
  its object is one that a request has yet to delete, unless a request was cut
  short.  `LimitInv` is the room that is left for the upload under way.
  `CalmInv` says, of calls that neither met nor broke, that what the one under
  way has read is still so (`Fresh`), and that each review but the one about
  to be approved is in the catalogue as written, or not at all.
- *Engagement.*  Whatever row a request read, a completion in it was watched,
  and a request that completes reports at least `COMPLETE_PCT`: hence no order
  of writers completes a lesson that was not watched, nor one the graph is not
  told of.  That credit stands needs the absence of overlap.
- *Lesson access.*  A lesson about to be announced was opened by hand, and stays
  so until it is shut by hand (`StillByHand`).  Openings are those told, those lost and those about to be
  announced.  The last is the cardinality of a set of requests; three lemmas
  say how it changes when one request enters it, leaves it or stays.
- *Grading.*  A call that is alone has marked the questions it left behind,
  each as its answer deserves, and has earned the sum of their marks
  (`Handing`, `Reviewing`); between calls either no answer has a mark or all
  have, and the score is their sum.
- *Mastery.*  A grading that is alone knows by its step what it has yet to
  bring up to date: the mastery, the struggles in the graph but for its own
  assignment, the rank it has not told (`TopicOnItsWay`).
- *Course media.*  The key a request will write is its own: no course and no
  other request has it, and what a request is about to delete is not the
  object of the other slot.  So an object only disappears from under a link
  while the request that deleted it has yet to write.
- *Support.*  A thread that was closed without a meeting of requests has only
  requests left that post nothing (`NoMorePosts`).  A notice is one its reader
  can open, unless it went to a curator, whose page may be taken from him
  (`NoticesSound`); and behind whatever is awaited there is such a notice of
  the thread's channel (`AwaitedIsCounted`): a message is no longer awaited once
  its thread was seen, or its notice marked read or gone after a week.
- *Sessions.*  Let one call at most change the session, or a reset, whether or
  not its answer is heard (`Lone`).
  Then the members listed with a family are all its tokens in use, but for the
  one that is being issued (`Kept`), so a revocation that read the members
  leaves none, and a reset that scans the tokens misses none.  That ends a
  session for good, also the one whose token is used again because the answer of
  its rotation was lost.  For the other direction, where no answer was lost, one follows the browser's
  token: families are opened in order, a token in use was not used before, and
  the refresh token is of the latest family, in use, or of a family that is
  ended or about to be (`Signed`).  What the browser itself knows is
  `BrowseInv`: whoever loads the user is alone, and who holds a token is signed
  in or loads the user.

- *Homework page.*  What is handed in is what was patched just before, since no
  save is under way (`HandsIn`).  While all is calm an attempt goes from none to
  draft to done and every copy follows (`AttemptFollows`), and the answers on
  screen are the server's unless they were typed over a draft that is cached
  (`AnswersSound`): that is why an answer that arrives does not overwrite
  anything the student typed.
- *Homework editor.*  The save under way is that of the form or of one that was
  reset (`SaveOfForm`), each of its steps has written what it says
  (`SaveWritten`), and a form that says "saved", could be saved and has nothing
  left to save is the server's (`Synced`).  That questions with attempts stand needs nothing but the
  count just before the replacement (`PutCounted`).
- *Payment page.*  Requests of one payment that never met write one at a time
  over a pending payment (`WritesAlone`), and while nothing is settled what the
  statements of a checkout have read is still so (`ReadStands`), so one payment at most is pending or
  done (`OneCounts`).
- *Support panel.*  The reply in the box stands in its thread exactly when the
  server has taken it, and then it leaves the box (`BoxAndSend`); no reply is
  there twice because its number is above all that were posted.
- *Bell.*  A deletion that began after a reminder was sent has found all its
  notices, and none comes after it (`AllFound`); what the page can mark as read was
  on the screen or squeezed off it (`OnScreen`), and what a support page marks is
  swept.  The lemma `Sorted` (any
  finite set of numbers can be listed from the largest down) makes the order of
  the toasts well defined.
- *Lesson page.*  A lesson counted on a page that stayed has its report under way
  or recorded (`Steadily`).
- *Profile.*  A confirmation reads the pending address first and looks its code
  up second; a code that is good by then was made for that address, whatever
  came between (`ConfirmSound`), since a new request for another address
  withdraws the codes before it, of whichever tab.  That takes that a request
  which is being written has found all of them (`RequestSound`): two that are
  written at a time do not find each other's.
- *Course workspace.*  What the settings send is inductive with what an unedited
  form shows (`TitleAsRead`).  While nothing has failed or met, one request at
  most will write the video, of whatever panel, and it writes what was chosen
  last (`ChoiceStands`).
- *Review pages.*  A save of a review that is alone
  has written what its step says (`ReviewOneCall`).

*Sums.*  A score is a sum over any finite set of questions, a mastery over any
finite set of assignments.  The library's induction theorems take a predicate
and cannot be used here; `FiniteInduction` in `ServicesProofs` is an induction
over finite sets with a *set* in place of the predicate, from the
well-foundedness of the subset ordering, and gives what `SumFunctionOnSet`
computes: nothing for no element, one more summand for one more element, the
sum of two sums for disjoint sets.

`Refinement` maps each step of `Enrollment` to a step of `AccessLifecycle` or
a stutter, with `access` from the enrolment's status and `charges` from the
payments ever taken.  `Implements` maps each step of `Outbox` to a step of
`Delivery` on the event of one row, or a stutter, with the event computed from
the status of the row and from `delivered`.

Each inductive invariant was first checked by TLC on an instance at least as
large as that of the run (`AloneInv` 171 thousand states, that of grading 228
thousand, of mastery 599 thousand, of support 1.9 million, of sessions with four
tokens and two sessions 1.6 million, of the calendar 704 thousand, of the homework editor 2.9 million and of
the homework page 8.7 million).  A failed proof is also a reading of the
model.  Three led to corrections: a question may be worth no points, so a score
in points is claimed of papers that are worth some, and a paper worth none is
graded in experience; two branches of a `CASE` in `Support` overlapped, where
the code tests one before the other; a rotation at the bound on tokens had no
fresh one to choose, and is now not enabled.

*Left to TLC.*  Liveness (`EventsSettle`, `CallsEnd`) is out of the prover's
reach.  No invariant and no action property is only model-checked.

## Where code and documents disagree

Two are violation runs with a finding in `PROJECT.json`.

1. *A late retry* (`outbox_retry`).  A failed row stays PENDING while later
   rows of the same owner are applied; its retry restores the older state.
   The analytics design says the graph follows the current state.
2. *A draft published by a timer* (`constructor_draft`).  The answer of a save
   sets the editor's assignment and its switch (`AssignmentConstructor.tsx:362`)
   whatever has been opened since; the next autosave, which a comment calls one
   of "unfinished work as an unpublished draft" (line 433), publishes it.

Observed while modelling, with the claim as a definition that no run checks
because the code does not keep it:

| Definition | Source | What happens |
|---|---|---|
| `Enrollment!PaidPlaceShowsSucceeded` | `payments.service.ts:213` | `mockFail` and `mockCancel` check PENDING and update by identifier later; a confirmation in between is overwritten, and a paid place stands behind a failed payment |
| `Enrollment!EveryPlaceIsTold` | `payments.service.ts:169` | the analytics design lists "Enrollment create → outbox `ENROLLMENT` (optional but useful for graph)" (line 124), written in the "Same Prisma transaction" as the domain's row (line 41); `mockConfirm` enqueues none, so a student who paid is never ENROLLED_IN in the graph, while free and granted places are.  TLC finds it after one checkout and its confirmation |
| `XpAccounting!LedgerIsAudit` | `assignments.service.ts:142` | the homework design calls `XpLedger` an "Append-only audit of XP changes" (line 156); removing an assignment deletes its rows by cascade (`schema.prisma:613`) and leaves the balance, whose points no row explains any more.  `LedgerExplainsBalance` counts the rows that went (`forgotten`) |
| `Attempts!NoSilentRetakes` | `submissions.service.ts:68` | the draft, the count and the finished attempt are three reads; two requests that race open two attempts although a comment says one is enough |
| `Calendar!DeadlineFollowsLesson` | `course-events.service.ts:545` | moving a lesson through its live event does not move the deadline of its homework |
| `Reviews!NoStaleDuplicate` | `reviews.service.ts:338` | approval publishes the text read before the photos were published; an edit in between is lost to the catalogue and to the queue |
| `Grading!BlankEarnsNothing` | `auto-grade.ts:10` | a comment says an empty answer must never grant points; a blank number is graded as zero |
| `BellPage!ReminderPopsUp` | `CourseRemindersTab.tsx:67` | a reminder that arrives with more toasts than fit is marked read without having been on the screen |
| `LessonPage!CountedIsRecorded` | `LkLessonPage.tsx:88` | the lesson shows as counted before the answer, and in a ref that survives a change of the lesson: a failed request, or the next lesson, is shown as counted and is not |
| `ReviewPages!PublishedAsRead` | `StaffReviewsPage.tsx` | a moderator approves what the author has replaced since the page was polled |
| `AttemptPage!GreenIsSaved` | `LkAssignmentPage.tsx` | an answer typed while a save is under way may be shown as saved |

And visible in the models, as the premise of a property or in an action:

- `TopicsService.remove` (`topics.service.ts:94`) deletes links by cascade
  without an outbox row, so Neo4j keeps the edges; `DrainedGraphMatches` allows
  for it with `\cap topics`.
- `CoursesService.remove` (`courses.service.ts:261`) deletes payments and
  enrolments by cascade (`schema.prisma:413`, `438`), those that were paid too, and
  asks nobody: the record of the money goes with the course, and the row of the
  outbox stays.  `ChargesMatchPlaces` is about courses that are there.
- Two checkouts that overlap make two payments, and both can be confirmed
  (`payments.service.ts:62`); so does one checkout while a payment that was
  pending is being settled.  The claims of paying once exclude both.
- Editing the response mode between the reads of two submits that overlap
  leaves an attempt PENDING_REVIEW that was AUTO_GRADED
  (`assignments.service.ts:119`).
- Two edits of the topics of a lesson that overlap leave the union of both
  linked (`topics.service.ts:109`), while the graph has those of the last event;
  `DrainedGraphMatches` excludes such owners.
- `LessonsService.update` announces whenever the lesson was closed when it was
  read and is open when it was written (`lessons.service.ts:101`): an edit of the
  title that overlaps an opening announces it a second time.  That each opening
  is told once is claimed of calls whose reads were still so.
- `submit` synchronises experience for a PENDING_REVIEW attempt
  (`submissions.service.ts:309`); the homework design (line 182) names graded
  attempts only.
- Two synchronisations of one assignment that overlap credit the difference
  twice (`xp.service.ts:53`): the reason for the premise of
  `EarnedFollowsScores`.
- Two recomputations of mastery that overlap may leave the older one
  (`topic-mastery.service.ts:115`) until the next grade of the topic.
- Two refreshes at once, or a lost answer, end the session as *reused*
  (`refresh-token.service.ts:59`): the premise of `StaysSignedIn`.  Two at once
  may also leave a token of the ended session that works, which `EndedForGood`
  excludes.
- A call that is answered 401 with a valid token, as for a wrong code
  (`users.service.ts:183`), refreshes and repeats itself until the throttler
  refuses (`client.ts:111`): the reason why `CallsEnd` leaves such calls out.
- Two requests for a change of the address that are written at a time (READ
  COMMITTED, `users.service.ts:129`) leave both codes good, and either confirms
  the address written last: the premise of `EmailByItsCode`.
- Deleting the title or the last question of an editor that says "saved" starts
  no timer and leaves the hint (`AssignmentConstructor.tsx:303`), while the server
  has the old ones; `OwnQuestions` is about forms that can be saved.
- A lesson whose end is not after its start is refused when its row is already
  written (`lessons.service.ts:417`); `CalendarMatchesLessons` excludes
  requests that stopped half way.
- Unscheduling a lesson removes its live event and leaves the deadlines of its
  homework; removing a lesson leaves DEADLINE events without an assignment.
- Approving and rejecting the same review at once can leave a REJECTED review in
  the catalogue: the reason for the premise of `CatalogueIsCurrent`.
- The old cover is deleted before the row is updated (`courses.service.ts:291`):
  a server that stops between the two leaves a dead link.
- A reply whose file could not be uploaded stays in the box after it was posted
  (`SupportPanel.tsx:236`), and is posted twice.
- Saving the panel of a lesson that had a link puts the link back over a video
  uploaded meanwhile (`LessonEditPanel.tsx:91`), and a panel that was closed goes
  on with what it sent; of two requests for the video the later answer counts,
  not the later click.  The settings form is not made
  anew when only the price changed, and when it is, edits under way are gone.
- A review whose photos failed after its text was created is created again by
  the next click, and refused.

## What is not modelled

- *Authorisation, validation, wording, listings.*  They refuse or read and
  change nothing the properties are about; each module's header says so.
- *Views that only read*: catalogue, dashboards, knowledge map, course page,
  schedule widgets, statistics.  They render what the services answer.
- *What the removal of a course takes from other components* (reviews and their
  photos, lessons, attempts, threads): the cascade is modelled where money hangs
  on it (`Enrollment`), and the objects of the course itself (`CourseMedia`).
  `Attempts`, `XpAccounting` and `Calendar` have the removal of an assignment or a
  lesson.
- *Parts of modelled components*: the radar bonus, which inserts a row nothing
  else writes; creating and renaming a module; the reminder job of reviews,
  which stamps enrolments and sends notices; the one-time token of the password
  reset; owners of a file other than reviews and courses, which differ in who
  may upload.
- *Impersonation* issues a token and stores nothing.
- *Infrastructure*: wiring and configuration, the append-only audit, health
  checks, mail, encryption at rest; the manual test console (`src/public`),
  seeds and migrations: they hold no state a property is about, or are
  generated.
- *The stores themselves.*  Postgres, Neo4j, Redis and S3 are taken at their
  word: a committed statement is visible to the next one, a unique key is kept,
  a transaction is atomic.  READ COMMITTED is modelled where a transaction
  reads before it writes.
- *Two pages at once.*  A page is followed against its service and against
  requests of others, not against a second page in the same browser; the
  exceptions are the tokens in localStorage (`Sessions`) and the homework page,
  where another device may hand in.

## Plan

1. *Done:* enrolment, outbox, attempts, experience, calendar, reviews,
   sessions, engagement, lesson access, grading, mastery, course media, support
   and notices; the pages of the web client; theorems in eight modules, for
   every invariant and action property of the runs.
2. *Model next:* the reminder job of reviews, the other owners of a file.
