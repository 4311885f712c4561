----------------------------- MODULE Enrollment -----------------------------
(***************************************************************************)
(* Getting onto a course and off it again: PaymentsService (checkout, mock *)
(* confirm, fail and cancel), EnrollmentsService (free enrolment, grant,   *)
(* cancellation), the refund window of RefundsService, and the removal of  *)
(* the course, whose cascade deletes both tables' rows.                    *)
(*                                                                         *)
(* Every await on the database ends a step, so two requests interleave at  *)
(* each of them; a prisma.$transaction is one step.  A request is refused  *)
(* by returning to idle with nothing written.  Audit rows, the provider's  *)
(* identifiers and URLs, and the caller's authorisation (which only ever   *)
(* refuses) are left out.                                                  *)
(***************************************************************************)

CONSTANTS
    Users,
    Courses,
    Payments,   \* identifiers of Payment rows, each used at most once
    Requests,   \* slots for HTTP requests that can be in flight together
    None        \* no row, no request, a null column

Keys == Users \X Courses        \* @@unique([courseId, userId])

VARIABLES
    free,        \* free[c]: priceCents of course c is zero
    payment,     \* the Payment table
    enrollment,  \* the Enrollment table
    windowOpen,  \* windowOpen[k]: less than REFUND_WINDOW_DAYS since enrolment
    graphEvents, \* ENROLLMENT rows of AnalyticsOutbox
    removed,     \* courses that were deleted
    issued,      \* issued[p]: the student and course identifier p was made for
    request      \* requests in flight: what each has read and is about to do

VARIABLES        \* history, read by no action
    charged,     \* payments that were SUCCEEDED at some time
    overlapped   \* keys two requests were ever in flight for together

tables  == <<free, payment, enrollment, windowOpen, graphEvents, removed, issued>>
history == <<charged, overlapped>>
vars    == <<tables, request, history>>

PaymentStatus == {"PENDING", "SUCCEEDED", "FAILED", "CANCELED"}
RefundStatus  == {"NONE", "ELIGIBLE"}

PaymentRow == [key : Keys, status : PaymentStatus]

EnrollmentRow ==
    [status : {"ACTIVE", "SUSPENDED"},
     source : {"FREE", "GRANT", "PAYMENT"},
     paymentId : Payments \cup {None},
     refund : RefundStatus]

\* The statement a request in flight executes next.
Statement ==
    {"findEnrollment", "findPending", "createPayment",
     "confirm", "fail", "cancel", "enrollFree", "suspend"}

InFlight ==
    [next : Statement,
     key : Keys,
     paymentId : Payments \cup {None},
     refund : RefundStatus]

ASSUME NoneAssumption ==
    None \notin Payments \cup Keys \cup PaymentRow \cup EnrollmentRow \cup InFlight

TypeOK ==
    /\ free \in [Courses -> BOOLEAN]
    /\ payment \in [Payments -> PaymentRow \cup {None}]
    /\ enrollment \in [Keys -> EnrollmentRow \cup {None}]
    /\ windowOpen \in [Keys -> BOOLEAN]
    /\ graphEvents \subseteq Keys
    /\ removed \subseteq Courses
    /\ issued \in [Payments -> Keys \cup {None}]
    /\ request \in [Requests -> InFlight \cup {None}]
    /\ charged \subseteq Payments
    /\ overlapped \subseteq Keys

Init ==
    /\ free \in [Courses -> BOOLEAN]
    /\ payment = [p \in Payments |-> None]
    /\ enrollment = [k \in Keys |-> None]
    /\ windowOpen = [k \in Keys |-> FALSE]
    /\ graphEvents = {}
    /\ removed = {}
    /\ issued = [p \in Payments |-> None]
    /\ request = [r \in Requests |-> None]
    /\ charged = {}
    /\ overlapped = {}

-----------------------------------------------------------------------------
(***************************************************************************)
(* Requests.                                                               *)
(***************************************************************************)

Busy(r) == request[r] # None

\* The course of k is still there: a read of it finds a row, and an insert
\* that names it is not refused by the foreign key.
Offered(k) == k[2] \notin removed

\* Request r starts (or goes on) and will execute statement s next.
Await(r, s, k, p, refund) ==
    request' = [request EXCEPT ![r] =
                   [next |-> s, key |-> k, paymentId |-> p, refund |-> refund]]

\* A request that arrived and read something; history notes an overlap.
Start(r, s, k, p, refund) ==
    /\ ~Busy(r)
    /\ Await(r, s, k, p, refund)
    /\ overlapped' = IF \E q \in Requests : Busy(q) /\ request[q].key = k
                       THEN overlapped \cup {k}
                       ELSE overlapped
    /\ UNCHANGED <<tables, charged>>

Resumes(r, s) ==
    /\ Busy(r)
    /\ request[r].next = s

Finish(r) == request' = [request EXCEPT ![r] = None]

\* The row both enrollFree, grant and mockConfirm create.
NewEnrollment(source, p) ==
    [status |-> "ACTIVE", source |-> source, paymentId |-> p, refund |-> "NONE"]

CreateEnrollment(k, source, p) ==
    /\ enrollment' = [enrollment EXCEPT ![k] = NewEnrollment(source, p)]
    /\ windowOpen' = [windowOpen EXCEPT ![k] = TRUE]

SetPaymentStatus(p, status) ==
    payment' = [payment EXCEPT ![p] = [key |-> @.key, status |-> status]]

-----------------------------------------------------------------------------
(***************************************************************************)
(* checkout: four awaits between reading the course and creating the row.  *)
(***************************************************************************)

PendingFor(k) ==
    {p \in Payments : payment[p] # None /\ payment[p].key = k
                                        /\ payment[p].status = "PENDING"}

CheckoutReadCourse(r, k) ==
    /\ Offered(k)
    /\ ~free[k[2]]
    /\ Start(r, "findEnrollment", k, None, "NONE")

CheckoutFindEnrollment(r) ==
    /\ Resumes(r, "findEnrollment")
    /\ IF enrollment[request[r].key] # None
         THEN Finish(r)                              \* 'Already enrolled'
         ELSE Await(r, "findPending", request[r].key, None, "NONE")
    /\ UNCHANGED <<tables, history>>

\* Mutant: every checkout creates a payment of its own.
CheckoutIgnoresPending(r) ==
    /\ Resumes(r, "findPending")
    /\ Await(r, "createPayment", request[r].key, None, "NONE")
    /\ UNCHANGED <<tables, history>>

CheckoutFindPending(r) ==
    /\ Resumes(r, "findPending")
    /\ IF PendingFor(request[r].key) # {}
         THEN Finish(r)                              \* returns that payment
         ELSE Await(r, "createPayment", request[r].key, None, "NONE")
    /\ UNCHANGED <<tables, history>>

CheckoutCreatePayment(r, p) ==
    /\ Resumes(r, "createPayment")
    /\ Offered(request[r].key)
    /\ issued[p] = None
    /\ issued' = [issued EXCEPT ![p] = request[r].key]
    /\ payment' = [payment EXCEPT ![p] =
                      [key |-> request[r].key, status |-> "PENDING"]]
    /\ Finish(r)
    /\ UNCHANGED <<free, enrollment, windowOpen, graphEvents, removed, history>>

-----------------------------------------------------------------------------
(***************************************************************************)
(* The mock provider's callbacks: the status is read in one statement and  *)
(* overwritten, by identifier only, in a later one; the update of a row    *)
(* that is gone throws.                                                    *)
(***************************************************************************)

\* Mutant: a callback does not look at the status.
ReadAnyPayment(r, p, s) ==
    /\ payment[p] # None
    /\ Start(r, s, payment[p].key, p, "NONE")

\* SUCCEEDED answers at once; any other settled status is refused.
ReadPending(r, p, s) ==
    /\ payment[p] # None
    /\ payment[p].status = "PENDING"
    /\ Start(r, s, payment[p].key, p, "NONE")

ConfirmRead(r, p) == ReadPending(r, p, "confirm")
FailRead(r, p)    == ReadPending(r, p, "fail")
CancelRead(r, p)  == ReadPending(r, p, "cancel")

\* Mutant: the enrolment is upserted, so that paying gives a lost place back.
ConfirmUpserts(r) ==
    LET p == request[r].paymentId
    IN  /\ Resumes(r, "confirm")
        /\ payment[p] # None
        /\ SetPaymentStatus(p, "SUCCEEDED")
        /\ CreateEnrollment(request[r].key, "PAYMENT", p)
        /\ charged' = charged \cup {p}
        /\ Finish(r)
        /\ UNCHANGED <<free, graphEvents, removed, issued, overlapped>>

ConfirmWrite(r) ==
    LET p == request[r].paymentId
        k == request[r].key
    IN  /\ Resumes(r, "confirm")
        /\ payment[p] # None
        /\ SetPaymentStatus(p, "SUCCEEDED")
        /\ IF enrollment[k] # None
             THEN UNCHANGED <<enrollment, windowOpen>>
             ELSE CreateEnrollment(k, "PAYMENT", p)
        /\ charged' = charged \cup {p}
        /\ Finish(r)
        /\ UNCHANGED <<free, graphEvents, removed, issued, overlapped>>

SettleUnpaid(r, s, status) ==
    /\ Resumes(r, s)
    /\ payment[request[r].paymentId] # None
    /\ SetPaymentStatus(request[r].paymentId, status)
    /\ Finish(r)
    /\ UNCHANGED <<free, enrollment, windowOpen, graphEvents, removed, issued, history>>

FailWrite(r)   == SettleUnpaid(r, "fail", "FAILED")
CancelWrite(r) == SettleUnpaid(r, "cancel", "CANCELED")

-----------------------------------------------------------------------------
(***************************************************************************)
(* Free enrolment, grant by a curator or administrator, cancellation.      *)
(***************************************************************************)

EnrollFreeReadCourse(r, k) ==
    /\ Offered(k) /\ free[k[2]]
    /\ Start(r, "enrollFree", k, None, "NONE")

\* Row and outbox event in one transaction; the unique key refuses a second
\* row, the foreign key one for a course that is gone.
EnrollWithEvent(k, source) ==
    /\ Offered(k)
    /\ enrollment[k] = None
    /\ CreateEnrollment(k, source, None)
    /\ graphEvents' = graphEvents \cup {k}
    /\ UNCHANGED <<free, payment, removed, issued, history>>

EnrollFreeCreate(r) ==
    /\ Resumes(r, "enrollFree")
    /\ EnrollWithEvent(request[r].key, "FREE")
    /\ Finish(r)

Grant(k) ==
    /\ EnrollWithEvent(k, "GRANT")
    /\ UNCHANGED request

\* RefundsService.markEligibleIfWithinDays
RefundVerdict(k) == IF windowOpen[k] THEN "ELIGIBLE" ELSE "NONE"

CancelEnrollmentRead(r, k) ==
    /\ enrollment[k] # None
    /\ enrollment[k].status # "SUSPENDED"
    /\ Start(r, "suspend", k, None, RefundVerdict(k))

Suspended(row, verdict) ==
    [status |-> "SUSPENDED", source |-> row.source,
     paymentId |-> row.paymentId, refund |-> verdict]

CancelEnrollmentWrite(r) ==
    /\ Resumes(r, "suspend")
    /\ enrollment[request[r].key] # None
    /\ enrollment' = [enrollment EXCEPT ![request[r].key] = Suspended(@, request[r].refund)]
    /\ Finish(r)
    /\ UNCHANGED <<free, payment, windowOpen, graphEvents, removed, issued, history>>

-----------------------------------------------------------------------------
(***************************************************************************)
(* The surroundings: prices are edited, courses removed, days pass,        *)
(* requests die (the process restarts, a row they update or a course they  *)
(* insert for is gone, or the database rolls a transaction back because a  *)
(* concurrent one created the same enrolment first).                       *)
(***************************************************************************)

UpdatePrice(c) ==
    /\ c \notin removed
    /\ free' = [free EXCEPT ![c] = ~@]
    /\ UNCHANGED <<payment, enrollment, windowOpen, graphEvents, removed, issued,
                   request, history>>

\* course.delete: the cascade takes the payments and the enrolments with it,
\* whatever was paid; rows of the outbox have no foreign key and stay.
RemoveCourse(c) ==
    /\ c \notin removed
    /\ removed' = removed \cup {c}
    /\ payment' = [p \in Payments |->
                      IF issued[p] # None /\ issued[p][2] = c THEN None ELSE payment[p]]
    /\ enrollment' = [k \in Keys |-> IF k[2] = c THEN None ELSE enrollment[k]]
    /\ UNCHANGED <<free, windowOpen, graphEvents, issued, request, history>>

RefundWindowCloses(k) ==
    /\ windowOpen[k]
    /\ windowOpen' = [windowOpen EXCEPT ![k] = FALSE]
    /\ UNCHANGED <<free, payment, enrollment, graphEvents, removed, issued, request, history>>

RequestDies(r) ==
    /\ Busy(r)
    /\ Finish(r)
    /\ UNCHANGED <<tables, history>>

RequestStep(r) ==
    \/ \E k \in Keys :
          \/ CheckoutReadCourse(r, k)
          \/ EnrollFreeReadCourse(r, k)
          \/ CancelEnrollmentRead(r, k)
    \/ \E p \in Payments :
          \/ CheckoutCreatePayment(r, p)
          \/ ConfirmRead(r, p)
          \/ FailRead(r, p)
          \/ CancelRead(r, p)
    \/ CheckoutFindEnrollment(r)
    \/ CheckoutFindPending(r)
    \/ ConfirmWrite(r)
    \/ FailWrite(r)
    \/ CancelWrite(r)
    \/ EnrollFreeCreate(r)
    \/ CancelEnrollmentWrite(r)
    \/ RequestDies(r)

Next ==
    \/ \E r \in Requests : RequestStep(r)
    \/ \E k \in Keys : Grant(k) \/ RefundWindowCloses(k)
    \/ \E c \in Courses : UpdatePrice(c) \/ RemoveCourse(c)

Spec == Init /\ [][Next]_vars

-----------------------------------------------------------------------------
(***************************************************************************)
(* What the code keeps whatever the interleaving, as long as the course is *)
(* not removed: its removal takes the money's only record with it.         *)
(***************************************************************************)

\* A payment names the right enrolment: a row says PAYMENT exactly when it
\* carries a payment, and that payment was taken for this student and course.
\* (payments.service.ts:169 is the only writer of paymentId.)
EnrollmentProvenance ==
    \A k \in Keys : enrollment[k] # None =>
        LET row == enrollment[k] IN
        /\ row.source = "PAYMENT" <=> row.paymentId # None
        /\ row.paymentId # None =>
              /\ row.paymentId \in charged
              /\ payment[row.paymentId] # None
              /\ payment[row.paymentId].key = k

\* Nobody's money is kept with nothing to show for it while the course is
\* there: whoever was charged has the payment's row and an enrolment row,
\* even if the place was withdrawn before the charge.
ChargedHasEnrollment ==
    \A p \in charged :
        /\ issued[p] # None
        /\ Offered(issued[p]) => payment[p] # None /\ enrollment[issued[p]] # None

\* A free or granted place and its event appear together, although the course
\* may have become paid, or be gone, since the price was read; and no event
\* names a place that was never given.
UnpaidPlacesAreTold ==
    \A k \in Keys :
        /\ (enrollment[k] # None /\ enrollment[k].source # "PAYMENT") => k \in graphEvents
        /\ (k \in graphEvents /\ Offered(k)) => enrollment[k] # None

\* A cancelled place stays cancelled, and keeps its origin, whatever is
\* confirmed, granted or cancelled afterwards, and only the removal of its
\* course deletes it.
CancelledForGood ==
    [][\A k \in Keys : (enrollment[k] # None /\ k[2] \notin removed') =>
          /\ enrollment'[k] # None
          /\ enrollment'[k].source = enrollment[k].source
          /\ enrollment'[k].paymentId = enrollment[k].paymentId
          /\ enrollment[k].status = "SUSPENDED" => enrollment'[k].status = "SUSPENDED"]_vars

-----------------------------------------------------------------------------
(***************************************************************************)
(* What the code keeps as long as no two requests for the same student and *)
(* course are in flight together (grants, price edits and dying requests   *)
(* may still come between any two of them).                                *)
(***************************************************************************)

ChargesFor(k) == {p \in charged : issued[p] = k}

\* checkout reuses the pending payment, so there is never a second one, and
\* a student pays for a course at most once.
PaidOnceWithoutOverlap ==
    \A k \in Keys \ overlapped :
        /\ \A p, q \in PendingFor(k) : p = q
        /\ \A p, q \in ChargesFor(k) : p = q

\* A settled payment keeps its status, and the refund verdict of a cancelled
\* enrolment is not written a second time.
SettledWithoutOverlap ==
    [][/\ \A p \in Payments :
             (/\ payment[p] # None
              /\ payment[p].status # "PENDING"
              /\ payment[p].key \notin overlapped
              /\ payment[p].key[2] \notin removed') => payment'[p] = payment[p]
       /\ \A k \in Keys \ overlapped :
             (/\ enrollment[k] # None /\ enrollment[k].status = "SUSPENDED"
              /\ k[2] \notin removed') => enrollment'[k] = enrollment[k]]_vars

\* Money and places belong together while there is a course: places have the
\* origin they claim, nobody is charged for nothing or, undisturbed, twice,
\* and the event of an unpaid place is committed with it.
ChargesMatchPlaces ==
    /\ EnrollmentProvenance
    /\ ChargedHasEnrollment
    /\ UnpaidPlacesAreTold
    /\ PaidOnceWithoutOverlap

\* What is over stays over: cancelled places and, undisturbed, settled
\* payments and refund verdicts.
SettledForGood == CancelledForGood /\ SettledWithoutOverlap

-----------------------------------------------------------------------------
(***************************************************************************)
(* The abstract specification this one implements.                         *)
(***************************************************************************)

AccessOf(row) ==
    IF row = None THEN "none"
    ELSE IF row.status = "ACTIVE" THEN "active" ELSE "revoked"

AccessTo(k) == IF Offered(k) THEN AccessOf(enrollment[k]) ELSE "gone"

Lifecycle == INSTANCE AccessLifecycle WITH
    access  <- [k \in Keys |-> AccessTo(k)],
    charges <- [k \in Keys |-> ChargesFor(k)]

\* Taking the money and giving the place are one step, no sequence of requests
\* gives a withdrawn place back, and nothing is charged or given on a course
\* that is gone.
ImplementsAccessLifecycle == Lifecycle!Spec

-----------------------------------------------------------------------------
(***************************************************************************)
(* What the documentation says and the code does not keep.                 *)
(***************************************************************************)

\* docs/superpowers/plans/2026-07-30-catalog.md:16, "paid requires Payment
\* SUCCEEDED (mock confirm) before enrollment": the payment behind a paid
\* enrolment reads SUCCEEDED.  A confirm and a fail that both read PENDING
\* leave an active enrolment behind a FAILED payment.
PaidPlaceShowsSucceeded ==
    \A k \in Keys :
        enrollment[k] # None /\ enrollment[k].source = "PAYMENT" =>
            payment[enrollment[k].paymentId].status = "SUCCEEDED"

\* docs/superpowers/specs/2026-07-30-analytics-design.md:124, "Enrollment
\* create -> outbox `ENROLLMENT`", in the "Same Prisma transaction" (:41): each
\* place has its event.  The transaction of mockConfirm enqueues none.
EveryPlaceIsTold ==
    \A k \in Keys : enrollment[k] # None => k \in graphEvents

=============================================================================
