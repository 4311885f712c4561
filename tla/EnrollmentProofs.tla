-------------------------- MODULE EnrollmentProofs --------------------------
(***************************************************************************)
(* Theorems of module Enrollment, for any sets of students, courses,       *)
(* payments and concurrent requests.                                       *)
(*                                                                         *)
(* The safety invariants are not inductive alone: a request in flight acts *)
(* on what it read, so the inductive invariant adds what a request's       *)
(* reading still guarantees when it writes (RequestSound).                 *)
(***************************************************************************)
EXTENDS Enrollment, TLAPS

PaymentTable    == [Payments -> PaymentRow \cup {None}]
EnrollmentTable == [Keys -> EnrollmentRow \cup {None}]

Settles == {"confirm", "fail", "cancel"}

\* What a request holds stays true until it writes: an identifier names one
\* student and course for ever, whether its row is still there or not, and an
\* enrolment is deleted with its course only.
RequestSound ==
    \A r \in Requests : request[r] # None =>
        /\ request[r].next \in Settles =>
              /\ request[r].paymentId \in Payments
              /\ issued[request[r].paymentId] = request[r].key
        /\ (request[r].next = "suspend" /\ Offered(request[r].key)) =>
              enrollment[request[r].key] # None

\* The cascade leaves no row of a course that is gone.
RowsSound ==
    /\ \A p \in Payments : payment[p] # None =>
          /\ issued[p] = payment[p].key
          /\ Offered(payment[p].key)
    /\ \A k \in Keys : enrollment[k] # None => Offered(k)

IndInv ==
    /\ TypeOK
    /\ RequestSound
    /\ RowsSound
    /\ EnrollmentProvenance
    /\ ChargedHasEnrollment
    /\ UnpaidPlacesAreTold

-----------------------------------------------------------------------------
(***************************************************************************)
(* What one write does to a table.                                         *)
(***************************************************************************)

\* A status update touches the status of one row only.
LEMMA StatusUpdate ==
    ASSUME payment \in PaymentTable, NEW p \in Payments, payment[p] # None,
           NEW s \in PaymentStatus, SetPaymentStatus(p, s)
    PROVE  /\ payment' \in PaymentTable
           /\ payment'[p] = [key |-> payment[p].key, status |-> s]
           /\ \A q \in Payments : q # p => payment'[q] = payment[q]
BY DEF PaymentTable, PaymentRow, SetPaymentStatus

\* A suspension keeps where the enrolment came from.
LEMMA Suspension ==
    ASSUME NEW row \in EnrollmentRow, NEW v \in RefundStatus
    PROVE  Suspended(row, v) \in EnrollmentRow
BY DEF EnrollmentRow, Suspended

LEMMA FreshEnrollment ==
    ASSUME NEW source \in {"FREE", "GRANT", "PAYMENT"}, NEW p \in Payments \cup {None}
    PROVE  /\ NewEnrollment(source, p) \in EnrollmentRow
           /\ NewEnrollment(source, p) # None
BY NoneAssumption DEF EnrollmentRow, NewEnrollment, RefundStatus

-----------------------------------------------------------------------------
(***************************************************************************)
(* The inductive invariant.                                                *)
(***************************************************************************)

LEMMA InitIndInv == Init => IndInv
BY DEF Init, IndInv, TypeOK, RequestSound, RowsSound, EnrollmentProvenance,
       ChargedHasEnrollment, UnpaidPlacesAreTold

\* Reading: a request starts, moves on, finishes or dies; no row changes.
LEMMA RequestOnly ==
    ASSUME IndInv, NEW r \in Requests, UNCHANGED <<tables, charged>>,
           overlapped' \subseteq Keys,
           \/ Finish(r)
           \/ \E f \in InFlight :
                 /\ f.next \in Settles =>
                       f.paymentId \in Payments /\ issued[f.paymentId] = f.key
                 /\ f.next = "suspend" => enrollment[f.key] # None
                 /\ request' = [request EXCEPT ![r] = f]
    PROVE  IndInv'
<1>1. TypeOK'
  BY DEF IndInv, TypeOK, tables, Finish
<1>2. RequestSound'
  BY DEF IndInv, TypeOK, RequestSound, Offered, tables, Finish, Settles
<1>3. /\ RowsSound'
      /\ EnrollmentProvenance'
      /\ ChargedHasEnrollment'
      /\ UnpaidPlacesAreTold'
  BY DEF IndInv, RowsSound, EnrollmentProvenance, ChargedHasEnrollment,
         UnpaidPlacesAreTold, Offered, tables
<1> QED
  BY <1>1, <1>2, <1>3 DEF IndInv


\* One step per statement of a request that reads.
LEMMA ReadingSteps ==
    ASSUME IndInv, NEW r \in Requests,
           \/ \E k \in Keys : \/ CheckoutReadCourse(r, k)
                             \/ EnrollFreeReadCourse(r, k)
                             \/ CancelEnrollmentRead(r, k)
           \/ \E p \in Payments, s \in Settles : ReadPending(r, p, s)
           \/ CheckoutFindEnrollment(r)
           \/ CheckoutFindPending(r)
           \/ RequestDies(r)
    PROVE  IndInv'
<1> USE DEF InFlight, Statement, RefundStatus, Settles
<1>0. TypeOK
  BY DEF IndInv
<1>1. ASSUME NEW k \in Keys, CheckoutReadCourse(r, k) PROVE IndInv'
  <2> DEFINE f == [next |-> "findEnrollment", key |-> k, paymentId |-> None, refund |-> "NONE"]
  <2>1. /\ f \in InFlight /\ f.next \notin Settles \cup {"suspend"}
        /\ request' = [request EXCEPT ![r] = f] /\ overlapped' \subseteq Keys
        /\ UNCHANGED <<tables, charged>>
    BY <1>0, <1>1 DEF CheckoutReadCourse, Start, Await, TypeOK
  <2> QED BY <2>1, RequestOnly
<1>2. ASSUME NEW k \in Keys, EnrollFreeReadCourse(r, k) PROVE IndInv'
  <2> DEFINE f == [next |-> "enrollFree", key |-> k, paymentId |-> None, refund |-> "NONE"]
  <2>1. /\ f \in InFlight /\ f.next \notin Settles \cup {"suspend"}
        /\ request' = [request EXCEPT ![r] = f] /\ overlapped' \subseteq Keys
        /\ UNCHANGED <<tables, charged>>
    BY <1>0, <1>2 DEF EnrollFreeReadCourse, Start, Await, TypeOK
  <2> QED BY <2>1, RequestOnly
<1>3. ASSUME NEW k \in Keys, CancelEnrollmentRead(r, k) PROVE IndInv'
  <2> DEFINE f == [next |-> "suspend", key |-> k, paymentId |-> None, refund |-> RefundVerdict(k)]
  <2>1. /\ f \in InFlight /\ f.next = "suspend" /\ enrollment[f.key] # None
        /\ request' = [request EXCEPT ![r] = f] /\ overlapped' \subseteq Keys
        /\ UNCHANGED <<tables, charged>>
    BY <1>0, <1>3 DEF CancelEnrollmentRead, RefundVerdict, Start, Await, TypeOK
  <2> QED BY <2>1, RequestOnly
<1>4. ASSUME NEW p \in Payments, NEW s \in Settles, ReadPending(r, p, s) PROVE IndInv'
  <2> DEFINE f == [next |-> s, key |-> payment[p].key, paymentId |-> p, refund |-> "NONE"]
  <2>0. payment[p] \in PaymentRow
    BY <1>0, <1>4 DEF TypeOK, ReadPending
  <2>1. /\ f \in InFlight /\ f.next \in Settles
        /\ f.paymentId \in Payments /\ issued[f.paymentId] = f.key
        /\ request' = [request EXCEPT ![r] = f] /\ overlapped' \subseteq Keys
        /\ UNCHANGED <<tables, charged>>
    BY <1>0, <1>4, <2>0 DEF ReadPending, Start, Await, TypeOK, PaymentRow, IndInv, RowsSound
  <2> QED BY <2>1, RequestOnly
<1>5. ASSUME Finish(r), UNCHANGED <<tables, history>> PROVE IndInv'
  BY <1>0, <1>5, RequestOnly DEF TypeOK, history
<1>6. CASE CheckoutFindEnrollment(r)
  <2>1. CASE Finish(r)
    BY <1>6, <1>5, <2>1 DEF CheckoutFindEnrollment
  <2>2. CASE Await(r, "findPending", request[r].key, None, "NONE")
    <3> DEFINE f == [next |-> "findPending", key |-> request[r].key, paymentId |-> None, refund |-> "NONE"]
    <3>1. /\ f \in InFlight /\ f.next \notin Settles \cup {"suspend"}
          /\ request' = [request EXCEPT ![r] = f] /\ overlapped' \subseteq Keys
          /\ UNCHANGED <<tables, charged>>
      BY <1>0, <1>6, <2>2 DEF CheckoutFindEnrollment, Resumes, Busy, Await, TypeOK, history
    <3> QED BY <3>1, RequestOnly
  <2> QED BY <1>6, <2>1, <2>2 DEF CheckoutFindEnrollment
<1>7. CASE CheckoutFindPending(r)
  <2>1. CASE Finish(r)
    BY <1>7, <1>5, <2>1 DEF CheckoutFindPending
  <2>2. CASE Await(r, "createPayment", request[r].key, None, "NONE")
    <3> DEFINE f == [next |-> "createPayment", key |-> request[r].key, paymentId |-> None, refund |-> "NONE"]
    <3>1. /\ f \in InFlight /\ f.next \notin Settles \cup {"suspend"}
          /\ request' = [request EXCEPT ![r] = f] /\ overlapped' \subseteq Keys
          /\ UNCHANGED <<tables, charged>>
      BY <1>0, <1>7, <2>2 DEF CheckoutFindPending, Resumes, Busy, Await, TypeOK, history
    <3> QED BY <3>1, RequestOnly
  <2> QED BY <1>7, <2>1, <2>2 DEF CheckoutFindPending
<1> QED
  BY <1>1, <1>2, <1>3, <1>4, <1>5, <1>6, <1>7 DEF RequestDies

LEMMA CreatePaymentStep ==
    ASSUME IndInv, NEW r \in Requests, NEW p \in Payments, CheckoutCreatePayment(r, p)
    PROVE  IndInv'
<1> USE DEF IndInv, CheckoutCreatePayment, Resumes, Busy, Finish, history
<1> DEFINE row == [key |-> request[r].key, status |-> "PENDING"]
<1>1. request[r] \in InFlight
  BY DEF TypeOK
<1>2. row \in PaymentRow /\ row # None
  BY <1>1, NoneAssumption DEF InFlight, PaymentRow, PaymentStatus
<1>3. /\ payment' = [payment EXCEPT ![p] = row]
      /\ issued' = [issued EXCEPT ![p] = request[r].key]
      /\ request' = [request EXCEPT ![r] = None]
      /\ p \notin charged /\ payment[p] = None /\ issued[p] = None
      /\ request[r].key \in Keys /\ Offered(request[r].key)
  BY <1>1, NoneAssumption DEF ChargedHasEnrollment, RowsSound, TypeOK, PaymentRow, InFlight
<1>4. TypeOK'
  BY <1>2, <1>3 DEF TypeOK
<1>5. RequestSound'
  BY <1>2, <1>3, NoneAssumption DEF RequestSound, TypeOK, InFlight, Offered
<1>6. EnrollmentProvenance'
  BY <1>3 DEF EnrollmentProvenance, TypeOK
<1>7. ChargedHasEnrollment'
  BY <1>2, <1>3 DEF ChargedHasEnrollment, TypeOK, Offered
<1>8. UnpaidPlacesAreTold'
  BY DEF UnpaidPlacesAreTold, Offered
<1>9. RowsSound'
  BY <1>2, <1>3 DEF RowsSound, TypeOK, Offered
<1> QED
  BY <1>4, <1>5, <1>6, <1>7, <1>8, <1>9

LEMMA SettleStep ==
    ASSUME IndInv, NEW r \in Requests, FailWrite(r) \/ CancelWrite(r)
    PROVE  IndInv'
<1> USE DEF IndInv
<1>1. PICK s \in {"fail", "cancel"}, status \in {"FAILED", "CANCELED"} :
          SettleUnpaid(r, s, status)
  BY DEF FailWrite, CancelWrite
<1> DEFINE p == request[r].paymentId
<1>2. /\ p \in Payments /\ payment[p] # None
      /\ payment \in PaymentTable /\ status \in PaymentStatus
  BY <1>1 DEF TypeOK, RequestSound, SettleUnpaid, Resumes, Busy, Settles,
              PaymentTable, PaymentStatus
<1>3. /\ payment' \in PaymentTable
      /\ \A q \in Payments : payment[q] # None =>
            payment'[q] # None /\ payment'[q].key = payment[q].key
      /\ \A q \in Payments : payment[q] = None => payment'[q] = None
  <2>1. SetPaymentStatus(p, status)
    BY <1>1 DEF SettleUnpaid
  <2>2. /\ payment' \in PaymentTable
        /\ payment'[p] = [key |-> payment[p].key, status |-> status]
        /\ \A q \in Payments : q # p => payment'[q] = payment[q]
    BY <1>2, <2>1, StatusUpdate
  <2>3. payment'[p] # None
    BY <1>2, <2>2, NoneAssumption DEF PaymentTable, PaymentRow
  <2> QED BY <1>2, <2>2, <2>3
<1>4. TypeOK'
  BY <1>1, <1>3 DEF TypeOK, SettleUnpaid, Finish, PaymentTable, history
<1>5. RequestSound'
  BY <1>1, <1>3 DEF RequestSound, TypeOK, SettleUnpaid, Finish, Offered
<1>6. EnrollmentProvenance'
  BY <1>1, <1>3 DEF EnrollmentProvenance, ChargedHasEnrollment, TypeOK, SettleUnpaid, history
<1>7. ChargedHasEnrollment'
  BY <1>1, <1>3 DEF ChargedHasEnrollment, TypeOK, SettleUnpaid, Offered, history
<1>8. UnpaidPlacesAreTold'
  BY <1>1 DEF UnpaidPlacesAreTold, SettleUnpaid, Offered
<1>9. RowsSound'
  BY <1>1, <1>3 DEF RowsSound, SettleUnpaid, Offered
<1> QED
  BY <1>4, <1>5, <1>6, <1>7, <1>8, <1>9

LEMMA ConfirmStep ==
    ASSUME IndInv, NEW r \in Requests, ConfirmWrite(r)
    PROVE  IndInv'
<1> USE DEF IndInv
<1> DEFINE p == request[r].paymentId
           k == request[r].key
<1>1. /\ p \in Payments /\ payment[p] # None /\ payment[p].key = k /\ k \in Keys
      /\ payment \in PaymentTable /\ "SUCCEEDED" \in PaymentStatus
      /\ issued[p] = k /\ Offered(k)
  BY DEF TypeOK, RequestSound, RowsSound, ConfirmWrite, Resumes, Busy, Settles, InFlight,
         PaymentTable, PaymentStatus
<1>2. /\ payment' \in PaymentTable
      /\ \A q \in Payments : payment[q] # None =>
            payment'[q] # None /\ payment'[q].key = payment[q].key
      /\ \A q \in Payments : payment[q] = None => payment'[q] = None
  <2>1. SetPaymentStatus(p, "SUCCEEDED")
    BY DEF ConfirmWrite
  <2>2. /\ payment' \in PaymentTable
        /\ payment'[p] = [key |-> payment[p].key, status |-> "SUCCEEDED"]
        /\ \A q \in Payments : q # p => payment'[q] = payment[q]
    BY <1>1, <2>1, StatusUpdate
  <2>3. payment'[p] # None
    BY <1>1, <2>2, NoneAssumption DEF PaymentTable, PaymentRow
  <2> QED BY <1>1, <2>2, <2>3
<1>3. /\ request' = [request EXCEPT ![r] = None]
      /\ charged' = charged \cup {p}
      /\ UNCHANGED <<free, graphEvents, removed, issued, overlapped>>
  BY DEF ConfirmWrite, Finish
<1>4. CASE enrollment[k] # None
  <2>1. UNCHANGED <<enrollment, windowOpen>>
    BY <1>4 DEF ConfirmWrite
  <2>2. TypeOK'
    BY <1>1, <1>2, <1>3, <2>1 DEF TypeOK, PaymentTable
  <2>3. RequestSound'
    BY <1>2, <1>3, <2>1 DEF RequestSound, TypeOK, Offered
  <2>4. EnrollmentProvenance'
    BY <1>1, <1>2, <1>3, <1>4, <2>1 DEF EnrollmentProvenance, TypeOK
  <2>5. ChargedHasEnrollment' /\ UnpaidPlacesAreTold' /\ RowsSound'
    BY <1>1, <1>2, <1>3, <1>4, <2>1, NoneAssumption
    DEF ChargedHasEnrollment, UnpaidPlacesAreTold, RowsSound, Offered, TypeOK
  <2> QED BY <2>2, <2>3, <2>4, <2>5
<1>5. CASE enrollment[k] = None
  <2> DEFINE row == NewEnrollment("PAYMENT", p)
  <2>1. /\ enrollment' = [enrollment EXCEPT ![k] = row]
        /\ windowOpen' = [windowOpen EXCEPT ![k] = TRUE]
    BY <1>5 DEF ConfirmWrite, CreateEnrollment
  <2>2. row \in EnrollmentRow /\ row # None /\ row.source = "PAYMENT" /\ row.paymentId = p
    BY <1>1, FreshEnrollment DEF NewEnrollment
  <2>3. TypeOK'
    BY <1>1, <1>2, <1>3, <2>1, <2>2 DEF TypeOK, PaymentTable
  <2>4. RequestSound'
    BY <1>1, <1>2, <1>3, <2>1, <2>2 DEF RequestSound, TypeOK, Offered
  <2>5. EnrollmentProvenance'
    <3> SUFFICES ASSUME NEW l \in Keys, enrollment'[l] # None
                 PROVE  /\ enrollment'[l].source = "PAYMENT" <=> enrollment'[l].paymentId # None
                        /\ enrollment'[l].paymentId # None =>
                              /\ enrollment'[l].paymentId \in charged'
                              /\ payment'[enrollment'[l].paymentId] # None
                              /\ payment'[enrollment'[l].paymentId].key = l
      BY DEF EnrollmentProvenance
    <3>1. CASE l = k
      BY <1>1, <1>2, <1>3, <2>1, <2>2, <3>1, NoneAssumption DEF TypeOK
    <3>2. CASE l # k
      BY <1>1, <1>2, <1>3, <2>1, <3>2 DEF TypeOK, EnrollmentProvenance, ChargedHasEnrollment
    <3> QED BY <3>1, <3>2
  <2>6. ChargedHasEnrollment'
    BY <1>1, <1>2, <1>3, <2>1, <2>2, NoneAssumption DEF ChargedHasEnrollment, TypeOK, Offered
  <2>7. UnpaidPlacesAreTold'
    BY <1>3, <1>5, <2>1, <2>2 DEF UnpaidPlacesAreTold, TypeOK, Offered
  <2>8. RowsSound'
    BY <1>1, <1>2, <1>3, <2>1, <2>2 DEF RowsSound, TypeOK, Offered
  <2> QED BY <2>3, <2>4, <2>5, <2>6, <2>7, <2>8
<1> QED
  BY <1>4, <1>5

\* A free or granted place: row and event in one step.
LEMMA EnrollStep ==
    ASSUME IndInv, NEW k \in Keys, NEW source \in {"FREE", "GRANT"},
           EnrollWithEvent(k, source),
           request' \in [Requests -> InFlight \cup {None}],
           \A r \in Requests : request'[r] # None => request'[r] = request[r]
    PROVE  IndInv'
<1> USE DEF IndInv, EnrollWithEvent, CreateEnrollment, history
<1> DEFINE row == NewEnrollment(source, None)
<1>1. /\ row \in EnrollmentRow /\ row # None
      /\ row.source = source /\ row.paymentId = None
  BY FreshEnrollment DEF NewEnrollment
<1>2. enrollment' = [enrollment EXCEPT ![k] = row]
  OBVIOUS
<1>3. TypeOK'
  BY <1>1, <1>2 DEF TypeOK
<1>4. RequestSound'
  BY <1>1, <1>2 DEF RequestSound, TypeOK, Offered
<1>5. EnrollmentProvenance'
  BY <1>1, <1>2 DEF EnrollmentProvenance, TypeOK
<1>6. ChargedHasEnrollment'
  BY <1>1, <1>2 DEF ChargedHasEnrollment, TypeOK, Offered
<1>7. UnpaidPlacesAreTold'
  BY <1>1, <1>2 DEF UnpaidPlacesAreTold, TypeOK, Offered
<1>8. RowsSound'
  BY <1>1, <1>2 DEF RowsSound, TypeOK, Offered
<1> QED
  BY <1>3, <1>4, <1>5, <1>6, <1>7, <1>8

LEMMA SuspendStep ==
    ASSUME IndInv, NEW r \in Requests, CancelEnrollmentWrite(r)
    PROVE  IndInv'
<1> USE DEF IndInv, CancelEnrollmentWrite, Resumes, Busy, Finish, history
<1> DEFINE k == request[r].key
           row == Suspended(enrollment[k], request[r].refund)
<1>1. /\ k \in Keys /\ request[r].refund \in RefundStatus
      /\ enrollment[k] \in EnrollmentRow
  BY DEF TypeOK, RequestSound, InFlight
<1>2. /\ row \in EnrollmentRow /\ row # None
      /\ row.source = enrollment[k].source /\ row.paymentId = enrollment[k].paymentId
  BY <1>1, Suspension, NoneAssumption DEF Suspended
<1>3. enrollment' = [enrollment EXCEPT ![k] = row]
  OBVIOUS
<1>4. TypeOK'
  BY <1>1, <1>2, <1>3 DEF TypeOK
<1>5. RequestSound'
  BY <1>1, <1>2, <1>3 DEF RequestSound, TypeOK, Offered
<1>6. EnrollmentProvenance'
  BY <1>1, <1>2, <1>3, NoneAssumption DEF EnrollmentProvenance, TypeOK
<1>7. ChargedHasEnrollment'
  BY <1>1, <1>2, <1>3 DEF ChargedHasEnrollment, TypeOK, Offered
<1>8. UnpaidPlacesAreTold'
  BY <1>1, <1>2, <1>3, NoneAssumption DEF UnpaidPlacesAreTold, TypeOK, Offered
<1>9. RowsSound'
  BY <1>1, <1>2, <1>3 DEF RowsSound, TypeOK, Offered
<1> QED
  BY <1>4, <1>5, <1>6, <1>7, <1>8, <1>9

\* The cascade: the rows of one course go, those of the others stay.
LEMMA Cascade ==
    ASSUME IndInv, NEW c \in Courses, RemoveCourse(c)
    PROVE  /\ \A p \in Payments : payment'[p] # None =>
                 payment'[p] = payment[p] /\ payment[p].key[2] # c
           /\ \A p \in Payments : (payment[p] # None /\ payment[p].key[2] # c) =>
                 payment'[p] = payment[p]
           /\ \A k \in Keys : enrollment'[k] # None =>
                 enrollment'[k] = enrollment[k] /\ k[2] # c
           /\ \A k \in Keys : k[2] # c => enrollment'[k] = enrollment[k]
<1>1. \A p \in Payments : payment[p] # None =>
          issued[p] # None /\ issued[p] = payment[p].key
  BY NoneAssumption DEF IndInv, RowsSound, TypeOK, PaymentRow
<1>2. \A p \in Payments : payment'[p] =
          IF issued[p] # None /\ issued[p][2] = c THEN None ELSE payment[p]
  BY DEF RemoveCourse
<1>3. \A k \in Keys : enrollment'[k] = IF k[2] = c THEN None ELSE enrollment[k]
  BY DEF RemoveCourse
<1> QED BY <1>1, <1>2, <1>3

LEMMA RemovalStep ==
    ASSUME IndInv, NEW c \in Courses, RemoveCourse(c)
    PROVE  IndInv'
<1> USE DEF IndInv
<1>1. /\ removed' = removed \cup {c}
      /\ UNCHANGED <<free, windowOpen, graphEvents, issued, request, charged, overlapped>>
  BY DEF RemoveCourse, history
<1>2. TypeOK'
  <2>1. payment' \in [Payments -> PaymentRow \cup {None}]
    BY DEF RemoveCourse, TypeOK
  <2>2. enrollment' \in [Keys -> EnrollmentRow \cup {None}]
    BY DEF RemoveCourse, TypeOK
  <2> QED BY <1>1, <2>1, <2>2 DEF TypeOK
<1>3. RequestSound'
  <2> SUFFICES ASSUME NEW r \in Requests, request[r] # None, request[r].next = "suspend",
                      Offered(request[r].key)'
               PROVE  enrollment'[request[r].key] # None
    BY <1>1 DEF RequestSound, Settles
  <2>1. request[r].key \in Keys /\ request[r].key[2] # c /\ Offered(request[r].key)
    BY <1>1 DEF TypeOK, InFlight, Offered
  <2> QED BY <2>1, Cascade DEF RequestSound
<1>4. RowsSound'
  BY <1>1, Cascade DEF RowsSound, Offered
<1>5. EnrollmentProvenance'
  <2> SUFFICES ASSUME NEW k \in Keys, enrollment'[k] # None
               PROVE  /\ enrollment'[k].source = "PAYMENT" <=> enrollment'[k].paymentId # None
                      /\ enrollment'[k].paymentId # None =>
                            /\ enrollment'[k].paymentId \in charged'
                            /\ payment'[enrollment'[k].paymentId] # None
                            /\ payment'[enrollment'[k].paymentId].key = k
    BY DEF EnrollmentProvenance
  <2>1. enrollment'[k] = enrollment[k] /\ k[2] # c
    BY Cascade
  <2>2. /\ enrollment[k].source = "PAYMENT" <=> enrollment[k].paymentId # None
        /\ enrollment[k].paymentId # None =>
              /\ enrollment[k].paymentId \in charged
              /\ payment[enrollment[k].paymentId] # None
              /\ payment[enrollment[k].paymentId].key = k
    BY <2>1 DEF EnrollmentProvenance
  <2> QED BY <1>1, <2>1, <2>2, Cascade DEF TypeOK
<1>6. ChargedHasEnrollment'
  <2> SUFFICES ASSUME NEW p \in charged
               PROVE  /\ issued[p] # None
                      /\ Offered(issued[p])' => payment'[p] # None /\ enrollment'[issued[p]] # None
    BY <1>1 DEF ChargedHasEnrollment
  <2>1. p \in Payments /\ issued[p] # None /\ issued[p] \in Keys
    BY DEF ChargedHasEnrollment, TypeOK
  <2>2. ASSUME Offered(issued[p])' PROVE issued[p][2] # c /\ Offered(issued[p])
    BY <1>1, <2>2 DEF Offered
  <2>3. Offered(issued[p]) => payment[p] # None /\ enrollment[issued[p]] # None
                                /\ issued[p] = payment[p].key
    BY <2>1 DEF ChargedHasEnrollment, RowsSound
  <2> QED BY <2>1, <2>2, <2>3, Cascade
<1>7. UnpaidPlacesAreTold'
  BY <1>1, Cascade DEF UnpaidPlacesAreTold, Offered
<1> QED
  BY <1>2, <1>3, <1>4, <1>5, <1>6, <1>7

LEMMA NextIndInv == IndInv /\ [Next]_vars => IndInv'
<1> SUFFICES ASSUME IndInv, [Next]_vars PROVE IndInv'
  OBVIOUS
<1>1. ASSUME NEW r \in Requests, RequestStep(r) PROVE IndInv'
  <2>1. CASE EnrollFreeCreate(r)
    <3>1. /\ request[r].key \in Keys
          /\ request' \in [Requests -> InFlight \cup {None}]
          /\ \A q \in Requests : request'[q] # None => request'[q] = request[q]
      BY <2>1 DEF IndInv, TypeOK, EnrollFreeCreate, Resumes, Busy, Finish, InFlight
    <3> QED BY <2>1, <3>1, EnrollStep DEF EnrollFreeCreate
  <2> QED
    BY <1>1, <2>1, ReadingSteps, CreatePaymentStep, SettleStep, ConfirmStep, SuspendStep
    DEF RequestStep, ConfirmRead, FailRead, CancelRead, Settles
<1>2. ASSUME NEW k \in Keys, Grant(k) PROVE IndInv'
  BY <1>2, EnrollStep DEF Grant, IndInv, TypeOK
<1>3. ASSUME NEW k \in Keys, RefundWindowCloses(k) PROVE IndInv'
  BY <1>3 DEF RefundWindowCloses, history, IndInv, TypeOK, RequestSound, RowsSound,
              EnrollmentProvenance, ChargedHasEnrollment, UnpaidPlacesAreTold, Offered
<1>4. ASSUME NEW c \in Courses, UpdatePrice(c) PROVE IndInv'
  BY <1>4 DEF UpdatePrice, history, IndInv, TypeOK, RequestSound, RowsSound,
              EnrollmentProvenance, ChargedHasEnrollment, UnpaidPlacesAreTold, Offered
<1>5. CASE UNCHANGED vars
  BY <1>5 DEF vars, tables, history, IndInv, TypeOK, RequestSound, RowsSound,
              EnrollmentProvenance, ChargedHasEnrollment, UnpaidPlacesAreTold, Offered
<1> QED
  BY <1>1, <1>2, <1>3, <1>4, <1>5, RemovalStep DEF Next

-----------------------------------------------------------------------------
(***************************************************************************)
(* Theorems.                                                               *)
(***************************************************************************)

LEMMA Invariance == Spec => []IndInv
BY InitIndInv, NextIndInv, PTL DEF Spec

\* Every row, request and history set keeps its type.
THEOREM TypeCorrect == Spec => []TypeOK
BY Invariance, PTL DEF IndInv

\* payments.service.ts:151-178: a paid enrolment names a payment taken for
\* the same student and course.
THEOREM Provenance == Spec => []EnrollmentProvenance
BY Invariance, PTL DEF IndInv

\* payments.service.ts:151-178: no charge without an enrolment row, while the
\* course is there.
THEOREM NoChargeForNothing == Spec => []ChargedHasEnrollment
BY Invariance, PTL DEF IndInv

\* enrollments.service.ts:41-54 and 77-91: row and outbox event go together.
THEOREM EventsMatchPlaces == Spec => []UnpaidPlacesAreTold
BY Invariance, PTL DEF IndInv

-----------------------------------------------------------------------------
(***************************************************************************)
(* What a step may do to the two tables, and the refinement.               *)
(***************************************************************************)

\* An identifier, once given out, is never given out again.
LEMMA IssuedStep ==
    ASSUME IndInv, Next
    PROVE  \A q \in Payments : issued[q] # None => issued'[q] = issued[q]
<1>1. ASSUME NEW r \in Requests, NEW p \in Payments, CheckoutCreatePayment(r, p)
      PROVE  \A q \in Payments : issued[q] # None => issued'[q] = issued[q]
  BY <1>1 DEF CheckoutCreatePayment, IndInv, TypeOK
<1>2. ASSUME NEW r \in Requests, RequestStep(r)
      PROVE  \/ \E p \in Payments : CheckoutCreatePayment(r, p)
             \/ UNCHANGED issued
  BY <1>2
  DEF RequestStep, CheckoutReadCourse, EnrollFreeReadCourse, CancelEnrollmentRead,
      ConfirmRead, FailRead, CancelRead, ReadPending, Start, CheckoutFindEnrollment,
      CheckoutFindPending, ConfirmWrite, FailWrite, CancelWrite, SettleUnpaid,
      EnrollFreeCreate, EnrollWithEvent, CancelEnrollmentWrite, RequestDies, tables
<1>3. \/ \E r \in Requests, p \in Payments : CheckoutCreatePayment(r, p)
      \/ UNCHANGED issued
  BY <1>2 DEF Next, Grant, EnrollWithEvent, RefundWindowCloses, UpdatePrice, RemoveCourse
<1> QED
  BY <1>1, <1>3

\* A step creates one enrolment, suspends one, deletes those of a course, or
\* leaves the table alone; the charge and the place it pays for belong to the
\* same step.
LEMMA EnrollmentStep ==
    ASSUME IndInv, Next
    PROVE  \/ UNCHANGED <<enrollment, charged, removed>>
           \/ \E k \in Keys, source \in {"FREE", "GRANT"} :
                 /\ Offered(k) /\ enrollment[k] = None /\ UNCHANGED <<charged, removed>>
                 /\ enrollment' = [enrollment EXCEPT ![k] = NewEnrollment(source, None)]
           \/ \E k \in Keys, v \in RefundStatus :
                 /\ enrollment[k] # None /\ UNCHANGED <<charged, removed>>
                 /\ enrollment' = [enrollment EXCEPT ![k] = Suspended(enrollment[k], v)]
           \/ \E p \in Payments, k \in Keys :
                 /\ issued[p] = k /\ Offered(k)
                 /\ charged' = charged \cup {p} /\ UNCHANGED removed
                 /\ IF enrollment[k] # None
                      THEN UNCHANGED enrollment
                      ELSE enrollment' = [enrollment EXCEPT ![k] = NewEnrollment("PAYMENT", p)]
           \/ \E c \in Courses : RemoveCourse(c)
<1> DEFINE Nothing == UNCHANGED <<enrollment, charged, removed>>
           Enrolls == \E k \in Keys, source \in {"FREE", "GRANT"} :
                 /\ Offered(k) /\ enrollment[k] = None /\ UNCHANGED <<charged, removed>>
                 /\ enrollment' = [enrollment EXCEPT ![k] = NewEnrollment(source, None)]
           Suspends == \E k \in Keys, v \in RefundStatus :
                 /\ enrollment[k] # None /\ UNCHANGED <<charged, removed>>
                 /\ enrollment' = [enrollment EXCEPT ![k] = Suspended(enrollment[k], v)]
           Charges == \E p \in Payments, k \in Keys :
                 /\ issued[p] = k /\ Offered(k)
                 /\ charged' = charged \cup {p} /\ UNCHANGED removed
                 /\ IF enrollment[k] # None
                      THEN UNCHANGED enrollment
                      ELSE enrollment' = [enrollment EXCEPT ![k] = NewEnrollment("PAYMENT", p)]
           Removes == \E c \in Courses : RemoveCourse(c)
<1>1. ASSUME NEW r \in Requests, RequestStep(r)
      PROVE  Nothing \/ Enrolls \/ Suspends \/ Charges
  <2>1. CASE ConfirmWrite(r)
    <3> DEFINE p == request[r].paymentId
               k == request[r].key
    <3>1. p \in Payments /\ issued[p] = k /\ payment[p] # None
      BY <2>1 DEF ConfirmWrite, Resumes, Busy, IndInv, RequestSound, Settles
    <3>2. k \in Keys /\ Offered(k)
      BY <2>1, <3>1 DEF ConfirmWrite, Resumes, Busy, IndInv, RowsSound, TypeOK, InFlight
    <3> QED BY <2>1, <3>1, <3>2 DEF ConfirmWrite, CreateEnrollment
  <2>2. CASE EnrollFreeCreate(r)
    <3>1. request[r].key \in Keys
      BY <2>2 DEF EnrollFreeCreate, Resumes, Busy, IndInv, TypeOK, InFlight
    <3> QED
      BY <2>2, <3>1 DEF EnrollFreeCreate, EnrollWithEvent, CreateEnrollment, history
  <2>3. CASE CancelEnrollmentWrite(r)
    <3>1. request[r].key \in Keys /\ request[r].refund \in RefundStatus
      BY <2>3 DEF CancelEnrollmentWrite, Resumes, Busy, IndInv, TypeOK, InFlight
    <3> QED BY <2>3, <3>1 DEF CancelEnrollmentWrite, history
  <2>4. \/ ConfirmWrite(r) \/ EnrollFreeCreate(r) \/ CancelEnrollmentWrite(r) \/ Nothing
    BY <1>1
    DEF RequestStep, CheckoutReadCourse, EnrollFreeReadCourse, CancelEnrollmentRead,
        ConfirmRead, FailRead, CancelRead, ReadPending, Start, CheckoutFindEnrollment,
        CheckoutFindPending, CheckoutCreatePayment, FailWrite, CancelWrite, SettleUnpaid,
        RequestDies, tables, history
  <2> QED BY <2>1, <2>2, <2>3, <2>4
<1>2. ASSUME NEW k \in Keys, Grant(k) PROVE Enrolls
  BY <1>2 DEF Grant, EnrollWithEvent, CreateEnrollment, history
<1>3. ASSUME NEW k \in Keys, RefundWindowCloses(k) PROVE Nothing
  BY <1>3 DEF RefundWindowCloses, history
<1>4. ASSUME NEW c \in Courses, UpdatePrice(c) PROVE Nothing
  BY <1>4 DEF UpdatePrice, history
<1>5. (\E c \in Courses : RemoveCourse(c)) => Removes
  OBVIOUS
<1> HIDE DEF Nothing, Enrolls, Suspends, Charges, Removes
<1>6. Nothing \/ Enrolls \/ Suspends \/ Charges \/ Removes
  BY <1>1, <1>2, <1>3, <1>4, <1>5 DEF Next
<1> QED
  BY <1>6 DEF Nothing, Enrolls, Suspends, Charges, Removes

\* enrollments.service.ts:213-230, payments.service.ts:157-167: nothing
\* brings a cancelled place back or rewrites where an enrolment came from.
THEOREM CancellationIsFinal == Spec => CancelledForGood
<1>1. ASSUME IndInv, Next
      PROVE  \A k \in Keys : (enrollment[k] # None /\ k[2] \notin removed') =>
                /\ enrollment'[k] # None
                /\ enrollment'[k].source = enrollment[k].source
                /\ enrollment'[k].paymentId = enrollment[k].paymentId
                /\ enrollment[k].status = "SUSPENDED" => enrollment'[k].status = "SUSPENDED"
  <2> SUFFICES ASSUME NEW k \in Keys, enrollment[k] # None, k[2] \notin removed'
               PROVE  /\ enrollment'[k] # None
                      /\ enrollment'[k].source = enrollment[k].source
                      /\ enrollment'[k].paymentId = enrollment[k].paymentId
                      /\ enrollment[k].status = "SUSPENDED" => enrollment'[k].status = "SUSPENDED"
    OBVIOUS
  <2>1. enrollment \in EnrollmentTable /\ enrollment[k] \in EnrollmentRow
    BY <1>1 DEF IndInv, TypeOK, EnrollmentTable
  <2>2. ASSUME NEW v \in RefundStatus
        PROVE  /\ Suspended(enrollment[k], v) # None
               /\ Suspended(enrollment[k], v).status = "SUSPENDED"
               /\ Suspended(enrollment[k], v).source = enrollment[k].source
               /\ Suspended(enrollment[k], v).paymentId = enrollment[k].paymentId
    BY <2>1, <2>2, Suspension, NoneAssumption DEF Suspended
  <2>3. CASE UNCHANGED enrollment
    BY <2>3
  <2>4. ASSUME NEW l \in Keys, NEW v \in RefundStatus, enrollment[l] # None,
               enrollment' = [enrollment EXCEPT ![l] = Suspended(enrollment[l], v)]
        PROVE  enrollment'[k] = enrollment[k] \/ enrollment'[k] = Suspended(enrollment[k], v)
    BY <2>1, <2>4 DEF EnrollmentTable
  <2>5. ASSUME NEW l, NEW row, enrollment[l] = None,
               enrollment' = [enrollment EXCEPT ![l] = row]
        PROVE  enrollment'[k] = enrollment[k]
    BY <2>1, <2>5 DEF EnrollmentTable
  <2>6. ASSUME NEW c \in Courses, RemoveCourse(c)
        PROVE  enrollment'[k] = enrollment[k]
    <3>1. k[2] # c
      BY <2>6 DEF RemoveCourse
    <3> QED BY <1>1, <2>6, <3>1, Cascade
  <2> QED
    BY <1>1, <2>2, <2>3, <2>4, <2>5, <2>6, EnrollmentStep
<1> QED
  BY <1>1, Invariance, PTL DEF Spec, CancelledForGood

-----------------------------------------------------------------------------
(***************************************************************************)
(* One request at a time for a student and course.  What a request read    *)
(* still holds when it writes, because nothing else was in flight.         *)
(***************************************************************************)

LonePayments(k) ==
    /\ \A p, q \in PendingFor(k) : p = q
    /\ \A p, q \in ChargesFor(k) : p = q
    /\ PendingFor(k) = {} \/ ChargesFor(k) = {}
    /\ \A p \in Payments : payment[p] # None /\ payment[p].key = k =>
          (payment[p].status = "SUCCEEDED" <=> p \in charged)

\* What request record f still knows when it is the only one.
Knows(f, k) ==
    /\ (f.next \in Settles /\ payment[f.paymentId] # None) =>
          payment[f.paymentId].status = "PENDING"
    /\ (f.next \in {"findPending", "createPayment"} /\ Offered(k)) => ChargesFor(k) = {}
    /\ f.next = "createPayment" => PendingFor(k) = {}
    /\ (f.next = "suspend" /\ enrollment[k] # None) => enrollment[k].status # "SUSPENDED"

LoneRequest(k) ==
    /\ \A q, r \in Requests :
          (Busy(q) /\ request[q].key = k /\ Busy(r) /\ request[r].key = k) => q = r
    /\ \A r \in Requests : Busy(r) /\ request[r].key = k => Knows(request[r], k)

LoneInv == \A k \in Keys \ overlapped : LonePayments(k) /\ LoneRequest(k)

LEMMA LoneInit == Init => LoneInv
BY DEF Init, LoneInv, LonePayments, LoneRequest, PendingFor, ChargesFor, Busy

\* No row changes, and the request that moves knows what it has just read.
LEMMA LoneReading ==
    ASSUME LoneInv, IndInv, NEW r \in Requests, UNCHANGED <<tables, charged>>,
           overlapped \subseteq overlapped',
           \/ Finish(r)
           \/ \E f \in InFlight :
                 /\ request' = [request EXCEPT ![r] = f]
                 /\ f.key \notin overlapped' => Knows(f, f.key)
                 /\ \A q \in Requests : Busy(q) /\ request[q].key = f.key =>
                       q = r \/ f.key \in overlapped'
    PROVE  LoneInv'
<1> SUFFICES ASSUME NEW k \in Keys, k \notin overlapped'
             PROVE  LonePayments(k)' /\ LoneRequest(k)'
  BY DEF LoneInv
<1>1. LonePayments(k) /\ LoneRequest(k)
  BY DEF LoneInv
<1>2. PendingFor(k)' = PendingFor(k) /\ ChargesFor(k)' = ChargesFor(k)
  BY DEF PendingFor, ChargesFor, tables
<1>3. LonePayments(k)'
  BY <1>1, <1>2 DEF LonePayments, tables
<1>4. ASSUME NEW f PROVE Knows(f, k)' <=> Knows(f, k)
  BY <1>2 DEF Knows, Offered, tables
<1>5. request \in [Requests -> InFlight \cup {None}]
  BY DEF IndInv, TypeOK
<1>6. ASSUME Finish(r) PROVE LoneRequest(k)'
  BY <1>1, <1>4, <1>5, <1>6 DEF LoneRequest, Finish, Busy
<1>7. ASSUME NEW f \in InFlight, request' = [request EXCEPT ![r] = f],
             f.key \notin overlapped' => Knows(f, f.key),
             \A q \in Requests : Busy(q) /\ request[q].key = f.key =>
                q = r \/ f.key \in overlapped'
      PROVE  LoneRequest(k)'
  <2>1. \A q \in Requests : q # r => request'[q] = request[q]
    BY <1>5, <1>7
  <2>2. request'[r] = f
    BY <1>5, <1>7
  <2>3. ASSUME NEW q \in Requests, Busy(q)', request'[q].key = k
        PROVE  Knows(request[q], k)'
    BY <1>1, <1>4, <1>7, <2>1, <2>2, <2>3 DEF LoneRequest, Busy
  <2>4. ASSUME NEW p \in Requests, NEW q \in Requests,
               Busy(p)', request'[p].key = k, Busy(q)', request'[q].key = k
        PROVE  p = q
    BY <1>1, <1>7, <2>1, <2>2, <2>4 DEF LoneRequest, Busy
  <2> QED BY <2>3, <2>4 DEF LoneRequest
<1> QED
  BY <1>3, <1>6, <1>7

\* The request that writes is the last one of its key, so only the payments
\* need a look; requests of other keys read other rows.
LEMMA LoneFrame ==
    ASSUME LoneInv, IndInv, IndInv', NEW k \in Keys,
           k \notin overlapped, k \notin overlapped',
           \A q \in Payments : issued'[q] = k <=> issued[q] = k,
           \A q \in Payments : issued[q] = k =>
               payment'[q] = payment[q] /\ (q \in charged' <=> q \in charged),
           UNCHANGED removed, enrollment'[k] = enrollment[k],
           \A q \in Requests : request'[q] # None => request'[q] = request[q]
    PROVE  LonePayments(k)' /\ LoneRequest(k)'
<1>1. LonePayments(k) /\ LoneRequest(k)
  BY DEF LoneInv
<1>2. \A q \in Payments : /\ payment[q] # None => issued[q] = payment[q].key
                          /\ payment'[q] # None => issued'[q] = payment'[q].key
  BY DEF IndInv, RowsSound
<1>3. PendingFor(k)' = PendingFor(k)
  BY <1>2 DEF PendingFor
<1>4. ChargesFor(k)' = ChargesFor(k)
  BY DEF ChargesFor, IndInv, TypeOK
<1>5. LonePayments(k)'
  BY <1>1, <1>2, <1>3, <1>4 DEF LonePayments
<1>6. ASSUME NEW q \in Requests, Busy(q)', request'[q].key = k
      PROVE  Knows(request[q], k)'
  <2>1. request'[q] = request[q] /\ Busy(q) /\ request[q].key = k
    BY <1>6 DEF Busy
  <2>2. Knows(request[q], k)
    BY <1>1, <2>1 DEF LoneRequest
  <2>3. request[q].next \in Settles =>
            payment'[request[q].paymentId] = payment[request[q].paymentId]
    BY <2>1 DEF IndInv, RequestSound, Busy
  <2> QED BY <1>3, <1>4, <2>1, <2>2, <2>3 DEF Knows, Offered
<1>7. LoneRequest(k)'
  BY <1>1, <1>6 DEF LoneRequest, Busy
<1> QED BY <1>5, <1>7

LEMMA LoneStart ==
    ASSUME LoneInv, IndInv, NEW r \in Requests, NEW s \in Statement, NEW k \in Keys,
           NEW p \in Payments \cup {None}, NEW v \in RefundStatus,
           Start(r, s, k, p, v),
           s \in Settles => payment[p].status = "PENDING",
           s \notin {"findPending", "createPayment"},
           s = "suspend" => enrollment[k].status # "SUSPENDED"
    PROVE  LoneInv'
<1> DEFINE f == [next |-> s, key |-> k, paymentId |-> p, refund |-> v]
<1>1. /\ f \in InFlight /\ request' = [request EXCEPT ![r] = f]
      /\ UNCHANGED <<tables, charged>> /\ overlapped \subseteq overlapped'
  BY DEF Start, Await, InFlight
<1>2. Knows(f, k)
  BY DEF Knows
<1>3. \A q \in Requests : Busy(q) /\ request[q].key = k => k \in overlapped'
  BY DEF Start
<1> QED
  BY <1>1, <1>2, <1>3, LoneReading

LEMMA LoneReadingSteps ==
    ASSUME LoneInv, IndInv, NEW r \in Requests,
           \/ \E k \in Keys : \/ CheckoutReadCourse(r, k)
                             \/ EnrollFreeReadCourse(r, k)
                             \/ CancelEnrollmentRead(r, k)
           \/ \E p \in Payments, s \in Settles : ReadPending(r, p, s)
           \/ CheckoutFindEnrollment(r)
           \/ CheckoutFindPending(r)
           \/ RequestDies(r)
    PROVE  LoneInv'
<1> USE DEF Statement, RefundStatus, Settles
<1>0. TypeOK /\ ChargedHasEnrollment
  BY DEF IndInv
<1>1. ASSUME NEW k \in Keys, CheckoutReadCourse(r, k) PROVE LoneInv'
  BY <1>1, LoneStart DEF CheckoutReadCourse
<1>2. ASSUME NEW k \in Keys, EnrollFreeReadCourse(r, k) PROVE LoneInv'
  BY <1>2, LoneStart DEF EnrollFreeReadCourse
<1>3. ASSUME NEW k \in Keys, CancelEnrollmentRead(r, k) PROVE LoneInv'
  BY <1>3, LoneStart DEF CancelEnrollmentRead, RefundVerdict
<1>4. ASSUME NEW p \in Payments, NEW s \in Settles, ReadPending(r, p, s) PROVE LoneInv'
  <2>1. payment[p].key \in Keys
    BY <1>0, <1>4 DEF ReadPending, TypeOK, PaymentRow
  <2> QED BY <1>4, <2>1, LoneStart DEF ReadPending
<1>5. ASSUME Finish(r), UNCHANGED <<tables, history>> PROVE LoneInv'
  BY <1>5, LoneReading DEF history
<1>6. CASE CheckoutFindEnrollment(r)
  <2> DEFINE k == request[r].key
             f == [next |-> "findPending", key |-> k, paymentId |-> None, refund |-> "NONE"]
  <2>1. k \in Keys /\ Busy(r)
    BY <1>0, <1>6 DEF CheckoutFindEnrollment, Resumes, Busy, TypeOK, InFlight
  <2>2. CASE enrollment[k] # None
    BY <1>5, <1>6, <2>2 DEF CheckoutFindEnrollment
  <2>3. CASE enrollment[k] = None
    <3>1. /\ f \in InFlight /\ request' = [request EXCEPT ![r] = f]
          /\ UNCHANGED <<tables, charged>> /\ overlapped' = overlapped
      BY <1>6, <2>1, <2>3 DEF CheckoutFindEnrollment, Await, InFlight, history
    <3>2. Offered(k) => ChargesFor(k) = {}
      BY <1>0, <2>3 DEF ChargesFor, ChargedHasEnrollment
    <3>3. Knows(f, k)
      BY <3>2 DEF Knows
    <3>4. \A q \in Requests : Busy(q) /\ request[q].key = k => q = r \/ k \in overlapped
      BY <2>1 DEF LoneInv, LoneRequest
    <3> QED BY <3>1, <3>3, <3>4, LoneReading
  <2> QED BY <2>2, <2>3
<1>7. CASE CheckoutFindPending(r)
  <2> DEFINE k == request[r].key
             f == [next |-> "createPayment", key |-> k, paymentId |-> None, refund |-> "NONE"]
  <2>1. k \in Keys /\ Busy(r) /\ request[r].next = "findPending"
    BY <1>0, <1>7 DEF CheckoutFindPending, Resumes, Busy, TypeOK, InFlight
  <2>2. CASE PendingFor(k) # {}
    BY <1>5, <1>7, <2>2 DEF CheckoutFindPending
  <2>3. CASE PendingFor(k) = {}
    <3>1. /\ f \in InFlight /\ request' = [request EXCEPT ![r] = f]
          /\ UNCHANGED <<tables, charged>> /\ overlapped' = overlapped
      BY <1>7, <2>1, <2>3 DEF CheckoutFindPending, Await, InFlight, history
    <3>2. (k \notin overlapped /\ Offered(k)) => ChargesFor(k) = {}
      BY <2>1 DEF LoneInv, LoneRequest, Knows
    <3>3. k \notin overlapped => Knows(f, k)
      BY <2>3, <3>2 DEF Knows
    <3>4. \A q \in Requests : Busy(q) /\ request[q].key = k => q = r \/ k \in overlapped
      BY <2>1 DEF LoneInv, LoneRequest
    <3> QED BY <3>1, <3>3, <3>4, LoneReading
  <2> QED BY <2>2, <2>3
<1> QED
  BY <1>1, <1>2, <1>3, <1>4, <1>5, <1>6, <1>7 DEF RequestDies

\* A request that finishes leaves no other of its key behind.
LEMMA LoneFinish ==
    ASSUME IndInv, LoneInv, NEW r \in Requests, Busy(r), Finish(r),
           NEW k \in Keys \ overlapped, request[r].key = k
    PROVE  /\ LoneRequest(k)'
           /\ \A q \in Requests : request'[q] # None =>
                 request'[q] = request[q] /\ request'[q].key # k
<1>1. request \in [Requests -> InFlight \cup {None}]
  BY DEF IndInv, TypeOK
<1>2. \A q \in Requests : request'[q] # None => q # r /\ request'[q] = request[q]
  BY <1>1 DEF Finish
<1>3. \A q \in Requests : Busy(q) /\ request[q].key = k => q = r
  BY DEF LoneInv, LoneRequest
<1>4. \A q \in Requests : request'[q] # None =>
                 request'[q] = request[q] /\ request'[q].key # k
  BY <1>2, <1>3 DEF Busy
<1> QED
  BY <1>4 DEF LoneRequest, Busy

\* The three writes to a payment: the row of one key changes and the request
\* finishes, so the rest of LoneInv is the frame.
LEMMA LonePaymentWrite ==
    ASSUME IndInv, LoneInv, IndInv', NEW r \in Requests, Busy(r), Finish(r),
           NEW k \in Keys, request[r].key = k, NEW p \in Payments,
           issued'[p] = k, issued[p] \in {k, None},
           \A q \in Payments : q # p => payment'[q] = payment[q] /\ issued'[q] = issued[q],
           charged \subseteq charged', charged' \subseteq charged \cup {p},
           \A l \in Keys : l # k => enrollment'[l] = enrollment[l],
           UNCHANGED <<overlapped, removed>>,
           k \notin overlapped => LonePayments(k)'
    PROVE  LoneInv'
<1> SUFFICES ASSUME NEW l \in Keys, l \notin overlapped
             PROVE  LonePayments(l)' /\ LoneRequest(l)'
  BY DEF LoneInv
<1>1. CASE l = k
  BY <1>1, LoneFinish
<1>2. CASE l # k
  <2>1. \A q \in Requests : request'[q] # None => request'[q] = request[q]
    BY DEF Finish, IndInv, TypeOK
  <2>2. l # None
    BY NoneAssumption
  <2>3. \A q \in Payments : issued'[q] = l <=> issued[q] = l
    BY <1>2, <2>2
  <2>4. \A q \in Payments : issued[q] = l =>
            payment'[q] = payment[q] /\ (q \in charged' <=> q \in charged)
    BY <1>2, <2>2
  <2>5. enrollment'[l] = enrollment[l]
    BY <1>2
  <2> QED
    BY <2>1, <2>3, <2>4, <2>5, LoneFrame
<1> QED
  BY <1>1, <1>2

LEMMA LoneCreatePayment ==
    ASSUME IndInv, LoneInv, NEW r \in Requests, NEW p \in Payments, CheckoutCreatePayment(r, p)
    PROVE  LoneInv'
<1>0. IndInv' /\ TypeOK /\ ChargedHasEnrollment /\ RowsSound
  BY CreatePaymentStep DEF IndInv
<1>1. PICK k \in Keys : request[r].key = k
  BY <1>0 DEF CheckoutCreatePayment, Resumes, Busy, TypeOK, InFlight
<1> DEFINE row == [key |-> k, status |-> "PENDING"]
<1>2. /\ payment' = [payment EXCEPT ![p] = row] /\ issued[p] = None
      /\ issued' = [issued EXCEPT ![p] = k] /\ Offered(k)
      /\ Busy(r) /\ Finish(r) /\ UNCHANGED <<charged, overlapped, enrollment, removed>>
  BY <1>1 DEF CheckoutCreatePayment, Resumes, history
<1>3. row # None /\ k # None
  BY NoneAssumption DEF PaymentRow, PaymentStatus
<1>4. /\ payment'[p] = row /\ issued'[p] = k
      /\ \A q \in Payments : q # p => payment'[q] = payment[q] /\ issued'[q] = issued[q]
  BY <1>0, <1>2 DEF TypeOK
<1>5. ASSUME k \notin overlapped PROVE LonePayments(k)'
  <2>1. PendingFor(k) = {} /\ ChargesFor(k) = {}
    BY <1>1, <1>2, <1>5 DEF LoneInv, LoneRequest, Knows, CheckoutCreatePayment, Resumes
  <2>2. p \notin charged
    BY <1>0, <1>2 DEF ChargedHasEnrollment
  <2>3. PendingFor(k)' = {p}
    BY <1>3, <1>4, <2>1 DEF PendingFor
  <2>4. ChargesFor(k)' = {}
    BY <1>0, <1>2, <1>4, <2>1, <2>2 DEF ChargesFor, TypeOK
  <2>5. LonePayments(k)
    BY <1>5 DEF LoneInv
  <2> QED BY <1>2, <1>4, <2>2, <2>3, <2>4, <2>5 DEF LonePayments
<1> QED
  BY <1>0, <1>1, <1>2, <1>3, <1>4, <1>5, LonePaymentWrite

LEMMA LoneSettle ==
    ASSUME IndInv, LoneInv, NEW r \in Requests,
           ConfirmWrite(r) \/ FailWrite(r) \/ CancelWrite(r)
    PROVE  LoneInv'
<1>0. IndInv' /\ TypeOK /\ RequestSound
  BY ConfirmStep, SettleStep DEF IndInv
<1>1. PICK s \in Settles, status \in {"SUCCEEDED", "FAILED", "CANCELED"} :
          /\ Resumes(r, s) /\ SetPaymentStatus(request[r].paymentId, status)
          /\ payment[request[r].paymentId] # None
          /\ charged' = IF status = "SUCCEEDED" THEN charged \cup {request[r].paymentId} ELSE charged
          /\ Finish(r) /\ UNCHANGED <<overlapped, removed, issued>>
          /\ \A l \in Keys : l # request[r].key => enrollment'[l] = enrollment[l]
  <2>1. CASE ConfirmWrite(r)
    BY <1>0, <2>1 DEF ConfirmWrite, CreateEnrollment, TypeOK, Settles
  <2>2. CASE FailWrite(r)
    BY <2>2 DEF FailWrite, SettleUnpaid, history, Settles
  <2>3. CASE CancelWrite(r)
    BY <2>3 DEF CancelWrite, SettleUnpaid, history, Settles
  <2> QED BY <2>1, <2>2, <2>3
<1>2. PICK p \in Payments, k \in Keys : request[r].key = k /\ request[r].paymentId = p
  BY <1>0, <1>1 DEF Resumes, Busy, RequestSound, TypeOK, InFlight
<1>3. /\ payment[p] # None /\ payment[p].key = k /\ payment \in PaymentTable
      /\ issued[p] = k
  BY <1>0, <1>1, <1>2 DEF Resumes, Busy, RequestSound, IndInv, RowsSound, TypeOK, PaymentTable
<1>4. /\ payment'[p] = [key |-> k, status |-> status]
      /\ \A q \in Payments : q # p => payment'[q] = payment[q]
      /\ payment'[p] # None
  <2>1. /\ payment' \in PaymentTable
        /\ payment'[p] = [key |-> payment[p].key, status |-> status]
        /\ \A q \in Payments : q # p => payment'[q] = payment[q]
    BY <1>1, <1>2, <1>3, StatusUpdate DEF PaymentStatus
  <2>2. payment'[p] # None
    BY <1>3, <2>1, NoneAssumption DEF PaymentTable, PaymentRow, PaymentStatus
  <2> QED BY <1>3, <2>1, <2>2
<1>5. ASSUME k \notin overlapped PROVE LonePayments(k)'
  <2>1. LonePayments(k) /\ payment[p].status = "PENDING"
    BY <1>1, <1>2, <1>3, <1>5 DEF LoneInv, LoneRequest, Knows, Resumes
  <2>2. PendingFor(k) = {p} /\ ChargesFor(k) = {} /\ p \notin charged
    BY <1>3, <2>1 DEF LonePayments, PendingFor
  <2>3. PendingFor(k)' = {}
    BY <1>4, <2>2 DEF PendingFor
  <2>4. CASE status = "SUCCEEDED"
    <3>1. charged' = charged \cup {p}
      BY <1>1, <1>2, <2>4
    <3>2. ChargesFor(k)' = {p}
      BY <1>1, <1>3, <2>2, <3>1 DEF ChargesFor
    <3> QED BY <1>4, <2>1, <2>3, <2>4, <3>1, <3>2 DEF LonePayments
  <2>5. CASE status # "SUCCEEDED"
    <3>1. ChargesFor(k)' = {}
      BY <1>1, <2>2, <2>5 DEF ChargesFor
    <3> QED BY <1>1, <1>4, <2>1, <2>2, <2>3, <2>5, <3>1 DEF LonePayments
  <2> QED BY <2>4, <2>5
<1>6. charged \subseteq charged' /\ charged' \subseteq charged \cup {p}
  BY <1>1, <1>2
<1>7. Busy(r)
  BY <1>1 DEF Resumes
<1> QED
  BY <1>0, <1>1, <1>2, <1>3, <1>4, <1>5, <1>6, <1>7, LonePaymentWrite

\* Steps that write no payment and charge nothing, a cascade included.
LEMMA LoneEnrollmentWrite ==
    ASSUME IndInv, LoneInv, UNCHANGED <<charged, issued, overlapped>>,
           \A p \in Payments : payment'[p] # None => payment'[p] = payment[p],
           removed \subseteq removed',
           \A r \in Requests : request'[r] # None => request'[r] = request[r],
           \A l \in Keys, r \in Requests :
              (/\ request'[r] # None /\ request[r].key = l /\ l \notin overlapped
               /\ request[r].next = "suspend" /\ enrollment'[l] # None)
                  => enrollment'[l] = enrollment[l]
    PROVE  LoneInv'
<1> SUFFICES ASSUME NEW l \in Keys, l \notin overlapped
             PROVE  LonePayments(l)' /\ LoneRequest(l)'
  BY DEF LoneInv
<1>1. LonePayments(l) /\ LoneRequest(l)
  BY DEF LoneInv
<1>2. /\ PendingFor(l)' \subseteq PendingFor(l)
      /\ ChargesFor(l)' = ChargesFor(l)
      /\ Offered(l)' => Offered(l)
  BY DEF PendingFor, ChargesFor, Offered
<1>3. LonePayments(l)'
  BY <1>1, <1>2 DEF LonePayments
<1>4. ASSUME NEW q \in Requests, Busy(q)', request'[q].key = l
      PROVE  Knows(request[q], l)'
  <2>1. request'[q] = request[q] /\ Busy(q) /\ request[q].key = l
    BY <1>4 DEF Busy
  <2>2. Knows(request[q], l)
    BY <1>1, <2>1 DEF LoneRequest
  <2>3. (request[q].next = "suspend" /\ enrollment'[l] # None) => enrollment'[l] = enrollment[l]
    BY <1>4, <2>1 DEF Busy
  <2>4. request[q].next \in Settles => request[q].paymentId \in Payments
    BY <2>1 DEF IndInv, RequestSound, Busy
  <2> QED BY <1>2, <2>1, <2>2, <2>3, <2>4 DEF Knows
<1>5. LoneRequest(l)'
  BY <1>1, <1>4 DEF LoneRequest, Busy
<1> QED BY <1>3, <1>5

LEMMA LoneOthers ==
    ASSUME IndInv, LoneInv,
           \/ \E r \in Requests : EnrollFreeCreate(r) \/ CancelEnrollmentWrite(r)
           \/ \E k \in Keys : Grant(k) \/ RefundWindowCloses(k)
           \/ \E c \in Courses : UpdatePrice(c) \/ RemoveCourse(c)
           \/ UNCHANGED vars
    PROVE  LoneInv'
<1>0. TypeOK /\ RequestSound
  BY DEF IndInv
<1>1. ASSUME NEW k \in Keys, NEW source, EnrollWithEvent(k, source),
             \A r \in Requests : request'[r] # None => request'[r] = request[r]
      PROVE  LoneInv'
  <2>1. \A l \in Keys : l # k => enrollment'[l] = enrollment[l]
    BY <1>0, <1>1 DEF EnrollWithEvent, CreateEnrollment, TypeOK
  <2>2. \A r \in Requests : (request'[r] # None /\ request[r].next = "suspend")
            => request[r].key # k
    BY <1>0, <1>1 DEF RequestSound, EnrollWithEvent
  <2> QED
    BY <1>1, <2>1, <2>2, LoneEnrollmentWrite DEF EnrollWithEvent, history
<1>2. ASSUME NEW r \in Requests, EnrollFreeCreate(r) PROVE LoneInv'
  BY <1>0, <1>1, <1>2
  DEF EnrollFreeCreate, Resumes, Busy, Finish, TypeOK, InFlight
<1>3. ASSUME NEW k \in Keys, Grant(k) PROVE LoneInv'
  BY <1>1, <1>3 DEF Grant
<1>4. ASSUME NEW r \in Requests, CancelEnrollmentWrite(r) PROVE LoneInv'
  <2>1. Busy(r) /\ Finish(r) /\ request[r].key \in Keys
    BY <1>0, <1>4 DEF CancelEnrollmentWrite, Resumes, Busy, TypeOK, InFlight
  <2>2. \A l \in Keys : l # request[r].key => enrollment'[l] = enrollment[l]
    BY <1>0, <1>4 DEF CancelEnrollmentWrite, TypeOK
  <2>3. \A q \in Requests : request'[q] # None => request'[q] = request[q] /\ q # r
    BY <1>0, <2>1 DEF Finish, TypeOK
  <2>4. \A l \in Keys, q \in Requests :
            (request'[q] # None /\ request[q].key = l /\ l \notin overlapped)
               => enrollment'[l] = enrollment[l]
    BY <2>1, <2>2, <2>3 DEF LoneInv, LoneRequest, Busy
  <2> QED
    BY <1>4, <2>3, <2>4, LoneEnrollmentWrite DEF CancelEnrollmentWrite, history
<1>5. ASSUME UNCHANGED <<payment, charged, overlapped, enrollment, request, removed, issued>>
      PROVE  LoneInv'
  BY <1>5, LoneEnrollmentWrite
<1>6. ASSUME NEW c \in Courses, RemoveCourse(c) PROVE LoneInv'
  <2>1. UNCHANGED <<charged, issued, overlapped, request>> /\ removed \subseteq removed'
    BY <1>6 DEF RemoveCourse, history
  <2>2. /\ \A p \in Payments : payment'[p] # None => payment'[p] = payment[p]
        /\ \A k \in Keys : enrollment'[k] # None => enrollment'[k] = enrollment[k]
    BY <1>6, Cascade
  <2> QED BY <2>1, <2>2, LoneEnrollmentWrite
<1> QED
  BY <1>2, <1>3, <1>4, <1>5, <1>6 DEF RefundWindowCloses, UpdatePrice, vars, tables, history

LEMMA NextLoneInv == IndInv /\ LoneInv /\ [Next]_vars => LoneInv'
<1> SUFFICES ASSUME IndInv, LoneInv, [Next]_vars PROVE LoneInv'
  OBVIOUS
<1>1. ASSUME NEW r \in Requests, RequestStep(r) PROVE LoneInv'
  BY <1>1, LoneReadingSteps, LoneCreatePayment, LoneSettle, LoneOthers
  DEF RequestStep, ConfirmRead, FailRead, CancelRead, Settles
<1> QED
  BY <1>1, LoneOthers DEF Next

\* payments.service.ts:36-71: with one request at a time for a student and
\* course there is one pending payment at most, and one charge at most.
THEOREM PaidOnce == Spec => []PaidOnceWithoutOverlap
<1>1. LoneInv => PaidOnceWithoutOverlap
  BY DEF LoneInv, LonePayments, PaidOnceWithoutOverlap
<1> QED
  BY <1>1, Invariance, LoneInit, NextLoneInv, PTL DEF Spec

\* payments.service.ts:140-154, 203-216, 240-256 and enrollments.service.ts:
\* 213-230: a guard read before the write is still true at the write when
\* nothing else was in flight.
THEOREM SettledIsFinal == Spec => SettledWithoutOverlap
<1> DEFINE PaymentsKept == \A p \in Payments :
             (/\ payment[p] # None
              /\ payment[p].status # "PENDING"
              /\ payment[p].key \notin overlapped
              /\ payment[p].key[2] \notin removed') => payment'[p] = payment[p]
           CancelledKept == \A k \in Keys \ overlapped :
             (/\ enrollment[k] # None /\ enrollment[k].status = "SUSPENDED"
              /\ k[2] \notin removed') => enrollment'[k] = enrollment[k]
<1>1. ASSUME IndInv, LoneInv, Next PROVE PaymentsKept
  <2>0. TypeOK /\ RequestSound
    BY <1>1 DEF IndInv
  <2>1. ASSUME NEW r \in Requests, NEW p \in Payments, CheckoutCreatePayment(r, p)
        PROVE  PaymentsKept
    <3>1. payment[p] = None
      BY <1>1, <2>0, <2>1, NoneAssumption
      DEF CheckoutCreatePayment, IndInv, RowsSound, TypeOK, PaymentRow
    <3> QED BY <2>0, <2>1, <3>1 DEF CheckoutCreatePayment, TypeOK
  <2>2. ASSUME NEW r \in Requests, NEW s \in Settles, NEW status \in PaymentStatus,
               Resumes(r, s), SetPaymentStatus(request[r].paymentId, status),
               payment[request[r].paymentId] # None
        PROVE  PaymentsKept
    <3> DEFINE p == request[r].paymentId
    <3>1. /\ p \in Payments /\ payment[p] # None /\ payment[p].key = request[r].key
          /\ request[r].key \in Keys /\ payment \in PaymentTable
      BY <1>1, <2>0, <2>2
      DEF RequestSound, IndInv, RowsSound, Resumes, Busy, TypeOK, InFlight, PaymentTable
    <3>2. request[r].key \notin overlapped => payment[p].status = "PENDING"
      BY <1>1, <2>2, <3>1 DEF LoneInv, LoneRequest, Knows, Resumes
    <3>3. \A q \in Payments : q # p => payment'[q] = payment[q]
      BY <2>2, <3>1, StatusUpdate
    <3> QED BY <3>1, <3>2, <3>3
  <2>3. ASSUME NEW r \in Requests, ConfirmWrite(r) \/ FailWrite(r) \/ CancelWrite(r)
        PROVE  PaymentsKept
    BY <2>2, <2>3 DEF ConfirmWrite, FailWrite, CancelWrite, SettleUnpaid, Settles, PaymentStatus
  <2>4. UNCHANGED payment => PaymentsKept
    OBVIOUS
  <2> HIDE DEF PaymentsKept
  <2>5. ASSUME NEW r \in Requests, RequestStep(r) PROVE PaymentsKept
    BY <2>1, <2>3, <2>4, <2>5
    DEF RequestStep, CheckoutReadCourse, EnrollFreeReadCourse, CancelEnrollmentRead,
        ConfirmRead, FailRead, CancelRead, ReadPending, Start, CheckoutFindEnrollment,
        CheckoutFindPending, EnrollFreeCreate, EnrollWithEvent, CancelEnrollmentWrite,
        RequestDies, tables
  <2>6. ASSUME NEW c \in Courses, RemoveCourse(c) PROVE PaymentsKept
    <3>1. removed' = removed \cup {c}
      BY <2>6 DEF RemoveCourse
    <3> QED BY <1>1, <2>6, <3>1, Cascade DEF PaymentsKept
  <2> QED
    BY <1>1, <2>4, <2>5, <2>6 DEF Next, Grant, EnrollWithEvent, RefundWindowCloses, UpdatePrice
<1>2. ASSUME IndInv, LoneInv, Next PROVE CancelledKept
  <2>0. TypeOK
    BY <1>1, <1>2 DEF IndInv
  <2>1. ASSUME NEW r \in Requests, CancelEnrollmentWrite(r) PROVE CancelledKept
    <3>1. /\ request[r].key \in Keys /\ Busy(r) /\ request[r].next = "suspend"
          /\ enrollment[request[r].key] # None
      BY <2>0, <2>1 DEF CancelEnrollmentWrite, Resumes, Busy, TypeOK, InFlight
    <3>2. request[r].key \notin overlapped => enrollment[request[r].key].status # "SUSPENDED"
      BY <1>2, <3>1 DEF LoneInv, LoneRequest, Knows
    <3> QED BY <2>0, <2>1, <3>2 DEF CancelEnrollmentWrite, TypeOK
  <2>2. ASSUME NEW k, NEW source, NEW p, enrollment[k] = None, CreateEnrollment(k, source, p)
        PROVE  CancelledKept
    BY <2>0, <2>2 DEF CreateEnrollment, TypeOK
  <2>3. UNCHANGED enrollment => CancelledKept
    OBVIOUS
  <2> HIDE DEF CancelledKept
  <2>4. ASSUME NEW r \in Requests, RequestStep(r) PROVE CancelledKept
    BY <2>1, <2>2, <2>3, <2>4
    DEF RequestStep, CheckoutReadCourse, EnrollFreeReadCourse, CancelEnrollmentRead,
        ConfirmRead, FailRead, CancelRead, ReadPending, Start, CheckoutFindEnrollment,
        CheckoutFindPending, CheckoutCreatePayment, ConfirmWrite, FailWrite, CancelWrite,
        SettleUnpaid, EnrollFreeCreate, EnrollWithEvent, RequestDies, tables
  <2>5. ASSUME NEW c \in Courses, RemoveCourse(c) PROVE CancelledKept
    <3>1. removed' = removed \cup {c}
      BY <2>5 DEF RemoveCourse
    <3> QED BY <1>2, <2>5, <3>1, Cascade DEF CancelledKept
  <2> QED
    BY <1>2, <2>2, <2>3, <2>4, <2>5 DEF Next, Grant, EnrollWithEvent, RefundWindowCloses, UpdatePrice
<1>3. IndInv /\ LoneInv /\ Next => PaymentsKept /\ CancelledKept
  BY <1>1, <1>2
<1> QED
  BY <1>3, Invariance, LoneInit, NextLoneInv, PTL DEF Spec, SettledWithoutOverlap

-----------------------------------------------------------------------------
(***************************************************************************)
(* Refinement: the mapped state takes a step of AccessLifecycle or none.   *)
(***************************************************************************)

Access  == [k \in Keys |-> AccessTo(k)]
Charges == [k \in Keys |-> ChargesFor(k)]

\* Writing row at key k changes the access of k alone.
LEMMA AccessUpdate ==
    ASSUME enrollment \in EnrollmentTable, NEW k \in Keys, NEW row,
           Offered(k), UNCHANGED removed,
           enrollment' = [enrollment EXCEPT ![k] = row]
    PROVE  Access' = [Access EXCEPT ![k] = AccessOf(row)]
BY DEF Access, AccessTo, AccessOf, Offered, EnrollmentTable

LEMMA RowAccess ==
    /\ \A source \in {"FREE", "GRANT", "PAYMENT"}, p \in Payments \cup {None} :
          AccessOf(NewEnrollment(source, p)) = "active"
    /\ \A row \in EnrollmentRow, v \in RefundStatus :
          AccessOf(Suspended(row, v)) = "revoked"
BY FreshEnrollment, Suspension, NoneAssumption DEF AccessOf, NewEnrollment, Suspended

\* payments.service.ts:151-178 and enrollments.service.ts implement the
\* promise: money and place in one step, no way back from a cancellation,
\* nothing on a course that is gone.
THEOREM Refinement == Spec => ImplementsAccessLifecycle
<1>1. Init => Lifecycle!Init
  BY DEF Init, Lifecycle!Init, Lifecycle!Keys, Keys, AccessTo, AccessOf, ChargesFor, Offered
<1>2. IndInv /\ [Next]_vars => [Lifecycle!Next]_(Lifecycle!vars)
  <2> SUFFICES ASSUME IndInv, [Next]_vars
               PROVE  \/ UNCHANGED <<Access, Charges>>
                      \/ \E k \in Keys :
                            \/ /\ Access[k] = "none" /\ UNCHANGED Charges
                               /\ Access' = [Access EXCEPT ![k] = "active"]
                            \/ \E p \in Payments :
                                  /\ Access[k] # "gone" /\ p \notin Charges[k]
                                  /\ Charges' = [Charges EXCEPT ![k] = Charges[k] \cup {p}]
                                  /\ Access' = [Access EXCEPT ![k] =
                                        IF Access[k] = "none" THEN "active" ELSE Access[k]]
                            \/ /\ Access[k] = "active" /\ UNCHANGED Charges
                               /\ Access' = [Access EXCEPT ![k] = "revoked"]
                      \/ \E c \in Courses :
                            /\ Access' = [k \in Keys |-> IF k[2] = c THEN "gone" ELSE Access[k]]
                            /\ UNCHANGED Charges
    BY DEF Lifecycle!Next, Lifecycle!vars, Lifecycle!Enroll, Lifecycle!Charge,
           Lifecycle!Withdraw, Lifecycle!Remove, Lifecycle!Keys, Keys, Access, Charges
  <2>0. /\ enrollment \in EnrollmentTable /\ charged \subseteq Payments
        /\ \A q \in charged : issued[q] # None
        /\ \A k \in Keys : enrollment[k] # None => Offered(k)
    BY DEF IndInv, TypeOK, EnrollmentTable, ChargedHasEnrollment, RowsSound
  <2>1. CASE UNCHANGED vars
    BY <2>1 DEF vars, tables, history, Access, Charges, ChargesFor, AccessTo, AccessOf, Offered
  <2>2. CASE Next
    <3>1. \A q \in charged : issued'[q] = issued[q]
      BY <2>0, <2>2, IssuedStep
    <3>2. ASSUME UNCHANGED charged PROVE UNCHANGED Charges
      BY <3>1, <3>2 DEF Charges, ChargesFor
    <3>3. CASE UNCHANGED <<enrollment, charged, removed>>
      BY <3>2, <3>3 DEF Access, AccessTo, AccessOf, Offered
    <3>4. ASSUME NEW k \in Keys, NEW source \in {"FREE", "GRANT"}, enrollment[k] = None,
                 Offered(k), UNCHANGED <<charged, removed>>,
                 enrollment' = [enrollment EXCEPT ![k] = NewEnrollment(source, None)]
          PROVE  /\ Access[k] = "none" /\ UNCHANGED Charges
                 /\ Access' = [Access EXCEPT ![k] = "active"]
      <4>1. AccessOf(NewEnrollment(source, None)) = "active"
        BY RowAccess
      <4>2. Access' = [Access EXCEPT ![k] = AccessOf(NewEnrollment(source, None))]
        BY <2>0, <3>4, AccessUpdate
      <4>3. Access[k] = "none"
        BY <3>4 DEF Access, AccessTo, AccessOf
      <4> QED BY <3>2, <3>4, <4>1, <4>2, <4>3
    <3>5. ASSUME NEW k \in Keys, NEW v \in RefundStatus, enrollment[k] # None,
                 UNCHANGED <<charged, removed>>,
                 enrollment' = [enrollment EXCEPT ![k] = Suspended(enrollment[k], v)]
          PROVE  \/ UNCHANGED <<Access, Charges>>
                 \/ /\ Access[k] = "active" /\ UNCHANGED Charges
                    /\ Access' = [Access EXCEPT ![k] = "revoked"]
      <4>0. enrollment[k] \in EnrollmentRow /\ Offered(k)
        BY <2>0, <3>5 DEF EnrollmentTable
      <4>1. AccessOf(Suspended(enrollment[k], v)) = "revoked"
        BY <4>0, RowAccess
      <4>2. Access' = [Access EXCEPT ![k] = AccessOf(Suspended(enrollment[k], v))]
        BY <2>0, <3>5, <4>0, AccessUpdate
      <4>3. Access[k] = "active" \/ Access[k] = "revoked"
        BY <3>5, <4>0 DEF Access, AccessTo, AccessOf
      <4>4. Access[k] = "revoked" => [Access EXCEPT ![k] = "revoked"] = Access
        BY DEF Access
      <4> QED BY <3>2, <3>5, <4>1, <4>2, <4>3, <4>4
    <3>6. ASSUME NEW p \in Payments, NEW k \in Keys, issued[p] = k, Offered(k),
                 charged' = charged \cup {p}, UNCHANGED removed,
                 IF enrollment[k] # None
                   THEN UNCHANGED enrollment
                   ELSE enrollment' = [enrollment EXCEPT ![k] = NewEnrollment("PAYMENT", p)]
          PROVE  \/ UNCHANGED <<Access, Charges>>
                 \/ /\ Access[k] # "gone" /\ p \notin Charges[k]
                    /\ Charges' = [Charges EXCEPT ![k] = Charges[k] \cup {p}]
                    /\ Access' = [Access EXCEPT ![k] =
                          IF Access[k] = "none" THEN "active" ELSE Access[k]]
      <4>0. k # None
        BY NoneAssumption
      <4>1. issued'[p] = k
        BY <2>2, <3>6, <4>0, IssuedStep
      <4>2. Access[k] # "gone"
        BY <3>6 DEF Access, AccessTo, AccessOf
      <4>3. ASSUME NEW l \in Keys
            PROVE  ChargesFor(l)' = IF l = k THEN ChargesFor(l) \cup {p} ELSE ChargesFor(l)
        BY <3>1, <3>6, <4>1 DEF ChargesFor
      <4>4. Charges' = [Charges EXCEPT ![k] = Charges[k] \cup {p}]
        BY <4>3 DEF Charges
      <4>5. CASE enrollment[k] # None
        <5>1. UNCHANGED enrollment
          BY <3>6, <4>5
        <5>2. Access[k] # "none" /\ UNCHANGED Access
          BY <3>6, <4>5, <5>1 DEF Access, AccessTo, AccessOf, Offered
        <5>3. [Access EXCEPT ![k] = Access[k]] = Access
          BY DEF Access
        <5>4. p \in Charges[k] => UNCHANGED Charges
          <6>1. Charges[k] \cup {p} = Charges[k] => [Charges EXCEPT ![k] = Charges[k] \cup {p}] = Charges
            BY DEF Charges
          <6>2. p \in Charges[k] => Charges[k] \cup {p} = Charges[k]
            OBVIOUS
          <6> QED BY <4>4, <6>1, <6>2
        <5> QED BY <4>2, <4>4, <5>2, <5>3, <5>4
      <4>6. CASE enrollment[k] = None
        <5>1. enrollment' = [enrollment EXCEPT ![k] = NewEnrollment("PAYMENT", p)]
          BY <3>6, <4>6
        <5>2. AccessOf(NewEnrollment("PAYMENT", p)) = "active"
          BY RowAccess
        <5>3. Access' = [Access EXCEPT ![k] = AccessOf(NewEnrollment("PAYMENT", p))]
          BY <2>0, <3>6, <5>1, AccessUpdate
        <5>4. Access[k] = "none"
          BY <3>6, <4>6 DEF Access, AccessTo, AccessOf
        <5>5. p \notin Charges[k]
          BY <3>6, <4>6 DEF Charges, ChargesFor, IndInv, ChargedHasEnrollment
        <5> QED BY <4>2, <4>4, <5>2, <5>3, <5>4, <5>5
      <4> QED BY <4>5, <4>6
    <3>7. ASSUME NEW c \in Courses, RemoveCourse(c)
          PROVE  /\ Access' = [k \in Keys |-> IF k[2] = c THEN "gone" ELSE Access[k]]
                 /\ UNCHANGED Charges
      <4>1. removed' = removed \cup {c} /\ UNCHANGED charged
        BY <3>7 DEF RemoveCourse, history
      <4>2. ASSUME NEW k \in Keys
            PROVE  AccessTo(k)' = IF k[2] = c THEN "gone" ELSE AccessTo(k)
        <5>1. k[2] # c => enrollment'[k] = enrollment[k]
          BY <3>7, Cascade
        <5> QED BY <4>1, <5>1 DEF AccessTo, AccessOf, Offered
      <4>3. Access' = [k \in Keys |-> IF k[2] = c THEN "gone" ELSE Access[k]]
        BY <4>2 DEF Access
      <4> QED BY <3>2, <4>1, <4>3
    <3> QED
      BY <2>2, <3>3, <3>4, <3>5, <3>6, <3>7, EnrollmentStep
  <2> QED
    BY <2>1, <2>2
<1> QED
  BY <1>1, <1>2, Invariance, PTL DEF Spec, ImplementsAccessLifecycle, Lifecycle!Spec

\* Money, places and the events of places match in every state.
THEOREM ChargesAndPlaces == Spec => []ChargesMatchPlaces
BY Provenance, NoChargeForNothing, EventsMatchPlaces, PaidOnce, PTL DEF ChargesMatchPlaces

\* What is cancelled stays cancelled; what is settled stays settled unless
\* requests overlap.
THEOREM StaysSettled == Spec => SettledForGood
BY CancellationIsFinal, SettledIsFinal, PTL DEF SettledForGood

=============================================================================
