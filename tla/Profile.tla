------------------------------- MODULE Profile -------------------------------
(***************************************************************************)
(* The profile of one account: UsersService, which changes the nickname    *)
(* and, with a code sent to the current address, the e-mail address; and   *)
(* the page LkProfilePage that asks for it.  Every call of the service to  *)
(* Postgres is a step.  The page refetches the account (refreshMe) after   *)
(* every success; its buttons wait for their own call only.  Another tab   *)
(* of the account, or this page before it was reloaded, asks for a change  *)
(* of address too ("other").                                               *)
(* The avatar goes the way of a course cover (module CourseMedia).         *)
(***************************************************************************)
EXTENDS Naturals, FiniteSets

CONSTANTS
    Emails,
    Nicks,
    MaxCodes,       \* bound: codes sent
    MaxCalls,       \* bound: calls of the page under way
    None

Codes    == 1 .. MaxCodes
Requests == {"request", "other"}
Buttons  == Requests \cup {"confirm", "cancel", "save"}

VARIABLES           \* Postgres and the mailbox
    account,        \* the User row: address, pending address, nickname
    codes,          \* codes[k]: the address code k was made for, None before
    live,           \* codes neither consumed nor expired
    foreign,        \* addresses of other accounts
    inbox           \* codes that have arrived

VARIABLES           \* the page
    cached,         \* the account as last fetched
    step,           \* emailStep
    call            \* call[b]: the call of a button

VARIABLES           \* history, read by no action but in the bound of Click
    calm,           \* no two calls at a time, none of another tab, and no failure
    crossed         \* two requests for a change were written at a time

rows        == <<account, codes, live, foreign, inbox>>
page        == <<cached, step>>
history     == <<calm, crossed>>
profileVars == <<rows, page, call, history>>

Account == [email : Emails, pending : Emails \cup {None}, nick : Nicks]
\* old: the codes a request's transaction found good.
Call    == [step : {"asked", "consume", "write", "mail", "find", "taken", "codes",
                    "ok", "refused", "me", "seen"},
            email : Emails \cup {None}, code : Codes \cup {None}, nick : Nicks \cup {None},
            old : SUBSET Codes, seen : Account \cup {None}]
NewCall(s, email, code, nick) ==
    [step |-> s, email |-> email, code |-> code, nick |-> nick, old |-> {}, seen |-> None]

\* What the theorems assume of the constants.
GoodConstants ==
    /\ MaxCodes \in Nat /\ Emails # {} /\ Nicks # {}
    /\ None \notin Emails \cup Nicks /\ None \notin Codes
    /\ None \notin Account /\ None \notin Call

TypeOK ==
    /\ {account, cached} \subseteq Account
    /\ codes \in [Codes -> Emails \cup {None}]
    /\ live \cup inbox \subseteq Codes
    /\ foreign \subseteq Emails
    /\ step \in {"idle", "code"}
    /\ call \in [Buttons -> Call \cup {None}]
    /\ calm \in BOOLEAN /\ crossed \in BOOLEAN

Init ==
    /\ account = CHOOSE a \in Account : a.pending = None     \* which, makes no difference
    /\ codes = [k \in Codes |-> None] /\ live = {} /\ inbox = {}
    /\ foreign = {}
    /\ cached = account /\ step = "idle"
    /\ call = [b \in Buttons |-> None]
    /\ calm = TRUE /\ crossed = FALSE

-----------------------------------------------------------------------------
Busy       == \E b \in Buttons : call[b] # None
At(b, s)   == call[b] # None /\ call[b].step = s
Goto(b, s) == call' = [call EXCEPT ![b].step = s]

\* Bound: nothing begins once two requests were written at a time, which the
\* properties leave out.
Click(b, email, code, nick) ==
    /\ call[b] = None /\ ~crossed
    /\ Cardinality({c \in Buttons : call[c] # None}) < MaxCalls
    /\ call' = [call EXCEPT ![b] = NewCall("asked", email, code, nick)]
    /\ calm' = (calm /\ ~Busy /\ b # "other")
    /\ UNCHANGED <<rows, page, crossed>>

\* Bound: there is a code left for every request.
Room ==
    Cardinality({b \in Requests : At(b, "asked") \/ At(b, "consume") \/ At(b, "write")})
        < Cardinality({k \in Codes : codes[k] = None})

ClickRequest == step = "idle" /\ Room /\ \E e \in Emails : Click("request", e, None, None)
ClickOther   == Room /\ \E e \in Emails : Click("other", e, None, None)
ClickConfirm == step = "code" /\ \E k \in inbox : Click("confirm", None, k, None)
ClickCancel  == step = "code" /\ Click("cancel", None, None, None)
ClickSave    == \E n \in Nicks : Click("save", None, None, n)

-----------------------------------------------------------------------------
(***************************************************************************)
(* UsersService.                                                           *)
(***************************************************************************)
\* requestEmailChange: the address must be new and free.
ReadRequest(b) ==
    /\ At(b, "asked")
    /\ Goto(b, IF call[b].email \in foreign \cup {account.email}
               THEN "refused" ELSE "consume")
    /\ UNCHANGED <<rows, page, history>>

\* The transaction consumes the codes that its first statement finds (READ
\* COMMITTED: not one that another transaction has not committed yet) ...
Consume(b) ==
    /\ At(b, "consume")
    /\ call' = [call EXCEPT ![b].old = live, ![b].step = "write"]
    /\ UNCHANGED <<rows, page, history>>

\* Mutant: the codes made before stay good.
WriteRequestBeside(b) ==
    LET e == call[b].email IN
    /\ At(b, "write")
    /\ \E k \in Codes :
        /\ codes[k] = None /\ \A j \in 1 .. k - 1 : codes[j] # None
        /\ codes' = [codes EXCEPT ![k] = e] /\ live' = live \cup {k}
        /\ call' = [call EXCEPT ![b].step = "mail", ![b].code = k]
    /\ account' = [account EXCEPT !.pending = e]
    /\ crossed' = (crossed \/ \E o \in Requests \ {b} : At(o, "write"))
    /\ UNCHANGED <<foreign, inbox, page, calm>>

\* ... and makes the new one.
WriteRequest(b) ==
    LET e == call[b].email IN
    /\ At(b, "write")
    /\ \E k \in Codes :
        /\ codes[k] = None /\ \A j \in 1 .. k - 1 : codes[j] # None
        /\ codes' = [codes EXCEPT ![k] = e] /\ live' = (live \ call[b].old) \cup {k}
        /\ call' = [call EXCEPT ![b].step = "mail", ![b].code = k]
    /\ account' = [account EXCEPT !.pending = e]
    /\ crossed' = (crossed \/ \E o \in Requests \ {b} : At(o, "write"))
    /\ UNCHANGED <<foreign, inbox, page, calm>>

Mail(b) ==
    /\ At(b, "mail")
    /\ inbox' = inbox \cup {call[b].code}
    /\ Goto(b, "ok")
    /\ UNCHANGED <<account, codes, live, foreign, page, history>>

\* confirmEmailChange: what is pending is read first, then the code ...
ReadPending ==
    /\ At("confirm", "asked")
    /\ call' = [call EXCEPT !["confirm"].email = account.pending,
                  !["confirm"].step = IF account.pending = None THEN "refused" ELSE "find"]
    /\ UNCHANGED <<rows, page, history>>

FindCode ==
    /\ At("confirm", "find")
    /\ Goto("confirm", IF call["confirm"].code \in live THEN "taken" ELSE "refused")
    /\ UNCHANGED <<rows, page, history>>

StillFree ==
    /\ At("confirm", "taken")
    /\ Goto("confirm", IF call["confirm"].email \in foreign THEN "refused" ELSE "write")
    /\ UNCHANGED <<rows, page, history>>

\* ... and what was read is written; the address has a unique index.
Confirm ==
    LET q == call["confirm"] IN
    /\ At("confirm", "write")
    /\ IF q.email \in foreign
       THEN Goto("confirm", "refused") /\ UNCHANGED <<account, live>>
       ELSE /\ Goto("confirm", "ok")
            /\ account' = [account EXCEPT !.email = q.email, !.pending = None]
            /\ live' = live \ {q.code}
    /\ UNCHANGED <<codes, foreign, inbox, page, history>>

\* cancelEmailChange, in two statements.
Cancel ==
    /\ \/ /\ At("cancel", "asked") /\ Goto("cancel", "codes")
          /\ account' = [account EXCEPT !.pending = None] /\ UNCHANGED live
       \/ /\ At("cancel", "codes") /\ Goto("cancel", "ok")
          /\ live' = {} /\ UNCHANGED account
    /\ UNCHANGED <<codes, foreign, inbox, page, history>>

\* updateProfile; the nickname has a unique index.
UpdateProfile ==
    /\ At("save", "asked")
    /\ \/ Goto("save", "refused") /\ UNCHANGED account
       \/ Goto("save", "ok") /\ account' = [account EXCEPT !.nick = call["save"].nick]
    /\ UNCHANGED <<codes, live, foreign, inbox, page, history>>

Expires(k) ==
    /\ k \in live
    /\ live' = live \ {k}
    /\ UNCHANGED <<account, codes, foreign, inbox, page, call, history>>

\* Somebody registers.  Bound: once, no request has more than one address.
Register(e) ==
    /\ e # account.email /\ foreign = {}
    /\ foreign' = foreign \cup {e}
    /\ UNCHANGED <<account, codes, live, inbox, page, call, history>>

-----------------------------------------------------------------------------
(***************************************************************************)
(* Answers.                                                                *)
(***************************************************************************)
\* Mutant: the step is left to the effect, which knows one direction.
AnsweredOnly(b) ==
    /\ At(b, "ok") /\ b # "other"
    /\ call' = [call EXCEPT ![b] = NewCall("me", None, None, None)]
    /\ UNCHANGED <<rows, page, history>>

\* The step of the e-mail form first, then the account.
Answered(b) ==
    /\ At(b, "ok") /\ b # "other"
    /\ call' = [call EXCEPT ![b] = NewCall("me", None, None, None)]
    /\ step' = CASE b = "request" -> "code"
                 [] b \in {"confirm", "cancel"} -> "idle"
                 [] b = "save" -> step
    /\ UNCHANGED <<rows, cached, history>>

GetMe(b) ==
    /\ At(b, "me")
    /\ call' = [call EXCEPT ![b].step = "seen", ![b].seen = account]
    /\ UNCHANGED <<rows, page, history>>

\* The effect asks for the code of what is pending.
Refreshed(b) ==
    /\ At(b, "seen")
    /\ call' = [call EXCEPT ![b] = None]
    /\ cached' = call[b].seen
    /\ step' = IF cached'.pending # None THEN "code" ELSE step
    /\ UNCHANGED <<rows, history>>

\* The call is refused, or was of another tab, which has its own page.
Refused(b) ==
    /\ At(b, "refused") \/ (At(b, "ok") /\ b = "other")
    /\ call' = [call EXCEPT ![b] = None]
    /\ UNCHANGED <<rows, page, history>>

\* A request, a statement, a mail or an answer is lost.
Lost(b) ==
    /\ call[b] # None
    /\ call' = [call EXCEPT ![b] = None]
    /\ calm' = FALSE
    /\ UNCHANGED <<rows, page, crossed>>

Next ==
    \/ ClickRequest \/ ClickOther \/ ClickConfirm \/ ClickCancel \/ ClickSave
    \/ \E b \in Requests : ReadRequest(b) \/ Consume(b) \/ WriteRequest(b) \/ Mail(b)
    \/ ReadPending \/ FindCode \/ StillFree \/ Confirm
    \/ Cancel \/ UpdateProfile
    \/ \E k \in Codes : Expires(k)
    \/ \E e \in Emails : Register(e)
    \/ \E b \in Buttons : Answered(b) \/ GetMe(b) \/ Refreshed(b) \/ Refused(b) \/ Lost(b)

Spec == Init /\ [][Next]_profileVars

-----------------------------------------------------------------------------
(***************************************************************************)
(* Properties.                                                             *)
(***************************************************************************)
\* However requests, confirmations and cancellations interleave, the
\* account gets an address only by a code that was made for that address;
\* unless two requests were written at a time: both their codes are good
\* then, and confirm the address that was written last.
ByItsCode ==
    ~crossed /\ account'.email # account.email
        => codes[call["confirm"].code] = account'.email
EmailByItsCode == [][ByItsCode]_profileVars

\* A page at rest shows the account, and asks for a code exactly while a
\* change is pending, if its calls did not meet and none was lost.
PageFollowsAccount ==
    calm /\ ~Busy => cached = account /\ (step = "code" <=> account.pending # None)

=============================================================================
