---------------------------- MODULE PaymentPage ----------------------------
(***************************************************************************)
(* Buying a course in the web client: the button on the course page        *)
(* (EnrollBuyButton), the payment page (MockPaymentPage) and the payment   *)
(* endpoints behind them.  The three buttons of the payment page share one *)
(* busy flag and each is blocked by its own value of it only; paying and   *)
(* failing wait on a timer before the request is sent.  A request reads    *)
(* the status in one step and writes in another, and checkout reads the    *)
(* enrolment, then the pending payment, and then creates one; one checkout *)
(* is under way at a time (module Enrollment has more of them).  What is   *)
(* typed into the card form matters as valid or not.                       *)
(***************************************************************************)
EXTENDS Naturals, FiniteSets

CONSTANTS
    Slots,          \* slots for requests of the buttons
    MaxPayments,    \* bound: payments created
    None

Payments == 1 .. MaxPayments
Buttons  == {"pay", "fail", "cancel"}
Statuses == {"PENDING", "SUCCEEDED", "FAILED", "CANCELED"}

VARIABLES
    status,     \* status[p]: of the Payment row, None while there is none
    place,      \* the student has a place on the course
    page,       \* where the client is
    current,    \* the payment of the payment page
    shown,      \* its cached status (query payment)
    fetching,   \* the query's request is under way
    method,     \* card, or one of the wallets
    cardOk,     \* the card form is filled in properly
    busy,       \* the button that shows its spinner
    buying,     \* the checkout of the course page's button
    slot        \* requests of the buttons

VARIABLES       \* history, read by no action
    told,       \* told[p]: what the page last said of the payment
    alone,      \* alone[p]: its requests never met on the server
    crossed     \* a payment was settled while a checkout was handled

rows   == <<status, place>>
view   == <<page, current, shown, fetching, method, cardOk>>
hist   == <<told, alone, crossed>>
payVars == <<rows, view, busy, buying, slot, hist>>

\* heard: the page that sent it still waits for the answer.
Request == [button : Buttons, payment : Payments, heard : BOOLEAN,
            step : {"timer", "asked", "write", "ok", "refused"}]
Order   == [step : {"enrolled", "pending", "create", "found"}, payment : Payments \cup {None}]

\* What the theorems assume of the constants.
GoodConstants ==
    /\ MaxPayments \in Nat
    /\ None \notin Payments /\ None \notin Request /\ None \notin Order
    /\ None \notin Statuses \cup {"paid", "failed", "cancelled"}

TypeOK ==
    /\ status \in [Payments -> Statuses \cup {None}]
    /\ page \in {"course", "payment", "cabinet"}
    /\ current \in Payments \cup {None}
    /\ shown \in Statuses \cup {None}
    /\ place \in BOOLEAN /\ fetching \in BOOLEAN /\ cardOk \in BOOLEAN /\ crossed \in BOOLEAN
    /\ buying \in Order \cup {None}
    /\ method \in {"card", "wallet"}
    /\ busy \in Buttons \cup {None}
    /\ slot \in [Slots -> Request \cup {None}]
    /\ told \in [Payments -> {"paid", "failed", "cancelled", None}]
    /\ alone \in [Payments -> BOOLEAN]

Init ==
    /\ status = [p \in Payments |-> None] /\ place = FALSE
    /\ page = "course" /\ current = None /\ shown = None /\ fetching = FALSE
    /\ method = "card" /\ cardOk = FALSE
    /\ busy = None /\ buying = None
    /\ slot = [r \in Slots |-> None]
    /\ told = [p \in Payments |-> None] /\ alone = [p \in Payments |-> TRUE]
    /\ crossed = FALSE

(***************************************************************************)
(* The course page, and checkout.                                          *)
(***************************************************************************)
ClickBuy ==
    /\ page = "course" /\ buying = None
    /\ buying' = [step |-> "enrolled", payment |-> None]
    /\ UNCHANGED <<rows, view, busy, slot, hist>>

Checking(step) == buying # None /\ buying.step = step

\* Who has a place is refused ...
CheckEnrolled ==
    /\ Checking("enrolled")
    /\ buying' = IF place THEN None ELSE [buying EXCEPT !.step = "pending"]
    /\ UNCHANGED <<rows, view, busy, slot, hist>>

\* Mutant: the pending payment is not looked for.
CreateAnyway ==
    /\ Checking("pending")
    /\ buying' = [buying EXCEPT !.step = "create"]
    /\ UNCHANGED <<rows, view, busy, slot, hist>>

\* ... else the pending payment is used again ...
FindPending ==
    LET pending == {p \in Payments : status[p] = "PENDING"}
    IN  /\ Checking("pending")
        /\ \/ \E p \in pending : buying' = [step |-> "found", payment |-> p]
           \/ pending = {} /\ buying' = [buying EXCEPT !.step = "create"]
        /\ UNCHANGED <<rows, view, busy, slot, hist>>

\* ... or a new one is made.
Create ==
    /\ Checking("create")
    /\ \E p \in Payments :
        /\ status[p] = None /\ \A o \in 1 .. p - 1 : status[o] # None
        /\ status' = [status EXCEPT ![p] = "PENDING"]
        /\ buying' = [step |-> "found", payment |-> p]
    /\ UNCHANGED <<place, view, busy, slot, hist>>

\* What the payment page holds is lost with it.
Blank == shown' = None /\ method' = "card" /\ cardOk' = FALSE

\* The browser loads a page anew: timers are gone, and nobody waits for the
\* answers to the requests that were sent.
Reloaded ==
    /\ busy' = None
    /\ slot' = [r \in Slots |->
                  IF slot[r] # None /\ slot[r].step \in {"asked", "write"}
                  THEN [slot[r] EXCEPT !.heard = FALSE] ELSE None]

OpenPayment ==
    /\ Checking("found")
    /\ buying' = None
    /\ page' = "payment" /\ current' = buying.payment
    /\ fetching' = TRUE /\ Blank
    /\ Reloaded
    /\ UNCHANGED <<rows, hist>>

(***************************************************************************)
(* The payment page.                                                       *)
(***************************************************************************)
Fetch ==
    /\ fetching
    /\ fetching' = FALSE
    /\ shown' = status[current]
    /\ UNCHANGED <<rows, page, current, method, cardOk, busy, buying, slot, hist>>

\* The form is there while the payment is neither done nor blocked.
FormShown == page = "payment" /\ shown = "PENDING"

Choose(m) ==
    /\ FormShown /\ method # m
    /\ method' = m
    /\ UNCHANGED <<rows, page, current, shown, fetching, cardOk, busy, buying, slot, hist>>

Fill ==
    /\ FormShown /\ method = "card"
    /\ cardOk' = ~cardOk
    /\ UNCHANGED <<rows, page, current, shown, fetching, method, busy, buying, slot, hist>>

CardOk == method = "card" => cardOk

\* Pay and Fail want a valid card and start a timer; Cancel asks at once.
Click(button, r) ==
    /\ FormShown /\ busy # button
    /\ slot[r] = None
    /\ button \in {"pay", "fail"} => CardOk
    /\ busy' = button
    /\ slot' = [slot EXCEPT ![r] =
                  [button |-> button, payment |-> current, heard |-> TRUE,
                   step |-> IF button = "cancel" THEN "asked" ELSE "timer"]]
    /\ UNCHANGED <<rows, view, buying, hist>>

TimerEnds(r) ==
    /\ slot[r] # None /\ slot[r].step = "timer"
    /\ slot' = [slot EXCEPT ![r].step = "asked"]
    /\ UNCHANGED <<rows, view, busy, buying, hist>>

Go(to) == page' = to /\ current' = None /\ fetching' = FALSE /\ Blank /\ busy' = None

\* The answer: the spinner stops, whichever button shows it by now, and who
\* paid or cancelled is led away.
Arrives(r) ==
    LET p    == slot[r].payment
        b    == slot[r].button
        done == slot[r].step = "ok" /\ slot[r].heard
        Told(what) == told' = [told EXCEPT ![p] = what]
    IN  /\ slot[r] # None /\ slot[r].step \in {"ok", "refused"}
        /\ slot' = [slot EXCEPT ![r] = None]
        /\ \/ ~done /\ busy' = (IF slot[r].heard THEN None ELSE busy) /\ UNCHANGED <<view, told>>
           \/ done /\ b = "pay" /\ Go("cabinet") /\ Told("paid")
           \/ done /\ b = "cancel" /\ Go("course") /\ Told("cancelled")
           \/ /\ done /\ b = "fail" /\ Told("failed")
              /\ busy' = None /\ fetching' = (page = "payment")
              /\ UNCHANGED <<page, current, shown, method, cardOk>>
        /\ UNCHANGED <<rows, buying, alone, crossed>>

\* A payment that was done leads to the cabinet, a blocked one back.
Leave ==
    /\ page = "payment" /\ shown \in Statuses \ {"PENDING"}
    /\ Go(IF shown = "SUCCEEDED" THEN "cabinet" ELSE "course")
    /\ UNCHANGED <<rows, buying, slot, hist>>

\* The browser goes back to the course page, the payment still pending.
Back ==
    /\ page = "payment"
    /\ page' = "course" /\ current' = None /\ fetching' = FALSE /\ Blank
    /\ Reloaded
    /\ UNCHANGED <<rows, buying, hist>>

(***************************************************************************)
(* mockConfirm, mockFail and mockCancel: the status is read ...            *)
(***************************************************************************)
AlreadySo(button) ==
    CASE button = "pay" -> {"SUCCEEDED"}
      [] button = "fail" -> {"FAILED"}
      [] button = "cancel" -> {"CANCELED", "FAILED"}

\* Mutant: a settled payment is not refused.
ReadUnchecked(r) ==
    LET p == slot[r].payment
        met == \E o \in Slots \ {r} :
                  slot[o] # None /\ slot[o].payment = p /\ slot[o].step \in {"asked", "write"}
    IN  /\ slot[r] # None /\ slot[r].step = "asked"
        /\ slot' = [slot EXCEPT ![r].step =
                      IF status[p] \in AlreadySo(slot[r].button) THEN "ok" ELSE "write"]
        /\ alone' = [alone EXCEPT ![p] = @ /\ ~met]
        /\ UNCHANGED <<rows, view, busy, buying, told, crossed>>

Read(r) ==
    LET p == slot[r].payment
        met == \E o \in Slots \ {r} :
                  slot[o] # None /\ slot[o].payment = p /\ slot[o].step \in {"asked", "write"}
    IN  /\ slot[r] # None /\ slot[r].step = "asked"
        /\ slot' = [slot EXCEPT ![r].step =
                      IF status[p] \in AlreadySo(slot[r].button) THEN "ok"
                      ELSE IF status[p] = "PENDING" THEN "write" ELSE "refused"]
        /\ alone' = [alone EXCEPT ![p] = @ /\ ~met]
        /\ UNCHANGED <<rows, view, busy, buying, told, crossed>>

\* ... and written by identifier; confirm adds the place in a transaction.
Write(r) ==
    LET b == slot[r].button
    IN  /\ slot[r] # None /\ slot[r].step = "write"
        /\ status' = [status EXCEPT ![slot[r].payment] =
                        CASE b = "pay" -> "SUCCEEDED" [] b = "fail" -> "FAILED"
                          [] b = "cancel" -> "CANCELED"]
        /\ place' = (place \/ b = "pay")
        /\ slot' = [slot EXCEPT ![r].step = "ok"]
        /\ crossed' = (crossed \/ Checking("pending") \/ Checking("create"))
        /\ UNCHANGED <<view, busy, buying, told, alone>>

Next ==
    \/ ClickBuy \/ CheckEnrolled \/ FindPending \/ Create \/ OpenPayment
    \/ Fetch \/ Fill \/ Leave \/ Back
    \/ \E m \in {"card", "wallet"} : Choose(m)
    \/ \E r \in Slots :
        \/ \E b \in Buttons : Click(b, r)
        \/ TimerEnds(r) \/ Read(r) \/ Write(r) \/ Arrives(r)

Spec == Init /\ [][Next]_payVars

-----------------------------------------------------------------------------
\* What the page said of a payment stays true: paid means a place, and a
\* payment said to be cancelled or failed is never charged, not even by a
\* timer that ends later; if its requests did not meet on the server.
WhatWasToldStands ==
    \A p \in Payments :
        /\ told[p] = "paid" => place
        /\ told[p] \in {"failed", "cancelled"} /\ alone[p] => status[p] # "SUCCEEDED"

\* The student pays once, however often the page is left, pending or not,
\* and come back to; unless a payment was settled between the reads of a
\* checkout, which then creates another one.
PaidOnce ==
    ~crossed /\ (\A p \in Payments : alone[p]) =>
        Cardinality({p \in Payments : status[p] = "SUCCEEDED"}) <= 1

=============================================================================
