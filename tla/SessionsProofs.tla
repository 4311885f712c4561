---------------------------- MODULE SessionsProofs ----------------------------
(***************************************************************************)
(* Theorems about Sessions.  A session is safe as long as it is undis-     *)
(* turbed (smooth), and every theorem about it rests on what one rotation, *)
(* revocation, login or logout knows while it is the only one.             *)
(***************************************************************************)
EXTENDS Sessions, WellFoundedInduction, TLAPS

-----------------------------------------------------------------------------
(***************************************************************************)
(* The tokens that are named anywhere were issued.                         *)
(***************************************************************************)
Issued == {t \in Tokens : family[t] \in Families}
Begun  == {family[t] : t \in Issued}

Consuming == {"used", "get", "family", "del", "srem", "store", "sadd", "zero", "mark", "issued",
              "revoke", "gang", "purge", "drop"}
Replaced  == {"sadd", "zero", "mark", "issued"}

CallSound(q) ==
    /\ q.token \in Issued \cup {None} /\ q.fresh \in Issued \cup {None}
    /\ q.access \in Issued \cup {None} /\ q.body \in Issued \cup {None}
    /\ q.step \in Consuming => q.token # None
    /\ q.step \in Replaced \cup {"newZero", "newSadd"} => q.fresh # None
    /\ q.kind = "login" => q.step \in LoginSteps \cup {"ok", "failed"}
    /\ q.kind = "login" /\ q.step = "ok" => q.fresh # None
    /\ q.step \in LoginSteps => q.kind = "login"
    /\ q.step \in LogoutSteps => q.kind = "logout"
    /\ q.kind = "logout" => q.body # None

ResetSound ==
    reset # None =>
        /\ reset.doomed \subseteq Begun
        /\ reset.step # "scan" => reset.token \in Issued

CallsSound == \A c \in Calls, q \in Call : call[c] = q => CallSound(q)

TypeInv ==
    /\ TypeOK
    /\ live \cup used \subseteq Issued
    /\ {access, refresh} \subseteq Issued \cup {None}
    /\ CallsSound
    /\ ResetSound
    /\ ended \subseteq Begun

LEMMA InitTypes == Init => TypeInv
<1> SUFFICES ASSUME Init PROVE TypeInv
  OBVIOUS
<1>1. TypeOK
  <2>1. /\ family \in [Tokens -> Families \cup {None}] /\ mark \in [Families -> {None, "0", "1"}]
        /\ members \in [Families -> SUBSET Tokens] /\ call \in [Calls -> Call \cup {None}]
    BY DEF Init
  <2>2. live \cup used \cup expired \subseteq Tokens /\ {access, refresh} \subseteq Tokens \cup {None}
    BY DEF Init
  <2>3. user \in BOOLEAN /\ apart \in BOOLEAN /\ smooth \in BOOLEAN
    BY Zenon DEF Init
  <2>4. refusals \in 0 .. MaxRefusals
    BY SessionsAssumption DEF Init
  <2> QED BY <2>1, <2>2, <2>3, <2>4 DEF Init, TypeOK
<1>2. CallsSound
  BY SessionsAssumption DEF Init, CallsSound
<1> QED BY <1>1, <1>2 DEF Init, TypeInv, ResetSound

\* A slot of the browser gets a request, or gives it up.
Puts(c, q) == call' = [call EXCEPT ![c] = q]

LEMMA PutCall ==
    ASSUME TypeOK, NEW c \in Calls, NEW q \in Call \cup {None}, Puts(c, q)
    PROVE  /\ call' \in [Calls -> Call \cup {None}]
           /\ call'[c] = q
           /\ \A d \in Calls \ {c} : call'[d] = call[d]
  BY DEF TypeOK, Puts

\* What was issued stays issued, in its family.
Keeps == \A t \in Issued : t \in Issued' /\ family'[t] = family[t]

LEMMA SameFamilies ==
    ASSUME family' = family
    PROVE  Keeps /\ Issued' = Issued /\ Begun' = Begun
  BY DEF Keeps, Issued, Begun

LEMMA StaysSound ==
    ASSUME Keeps
    PROVE  /\ Begun \subseteq Begun'
           /\ \A q : CallSound(q) => CallSound(q)'
  BY DEF Keeps, Begun, CallSound

LEMMA OneCall ==
    ASSUME TypeInv, Keeps, NEW c \in Calls, NEW q \in Call \cup {None}, Puts(c, q),
           q # None => CallSound(q)'
    PROVE  call' \in [Calls -> Call \cup {None}] /\ CallsSound'
<1>1. /\ call' \in [Calls -> Call \cup {None}] /\ call'[c] = q
      /\ \A d \in Calls \ {c} : call'[d] = call[d]
  BY PutCall DEF TypeInv
<1>2. \A d \in Calls, p \in Call : call'[d] = p => CallSound(p)'
  BY <1>1, StaysSound, SessionsAssumption DEF TypeInv, CallsSound
<1> QED BY <1>1, <1>2 DEF CallsSound

LEMMA SameCalls ==
    ASSUME TypeInv, Keeps, UNCHANGED call
    PROVE  call' \in [Calls -> Call \cup {None}] /\ CallsSound'
<1>1. \A d \in Calls, p \in Call : call'[d] = p => CallSound(p)'
  BY StaysSound DEF TypeInv, CallsSound
<1> QED BY <1>1 DEF CallsSound, TypeInv, TypeOK

\* A call goes on, and is what it was but for its step.
Moved(q, p, step) ==
    /\ q.step = step /\ q.kind = p.kind /\ q.heard = p.heard /\ q.access = p.access
    /\ q.body = p.body /\ q.token = p.token /\ q.fresh = p.fresh /\ q.gang = p.gang

LEMMA GoesTo ==
    ASSUME TypeInv, NEW c \in Calls, call[c] # None, NEW step \in Steps, Goto(c, step)
    PROVE  \E q \in Call : Puts(c, q) /\ q # None /\ Moved(q, call[c], step)
<1> DEFINE q == [call[c] EXCEPT !.step = step]
<1>1. call[c] \in Call
  BY DEF TypeInv, TypeOK
<1>2. q \in Call /\ q # None /\ Moved(q, call[c], step)
  BY <1>1, SessionsAssumption DEF Call, Moved
<1>3. Puts(c, q)
  BY DEF Goto, Puts
<1> HIDE DEF q
<1> QED BY <1>2, <1>3

LEMMA NewRequest ==
    ASSUME TypeInv, NEW c \in Calls, NEW kind \in Kinds,
           kind = "logout" => refresh # None
    PROVE  /\ Request(kind) \in Call /\ Request(kind) # None
           /\ CallSound(Request(kind))
<1> DEFINE q == Request(kind)
<1>1. PICK on, step, body :
        /\ on = TRUE /\ step = (IF kind = "login" THEN "new" ELSE "sent")
        /\ body = (IF kind = "logout" THEN refresh ELSE None)
  OBVIOUS
<1>2. /\ on \in BOOLEAN /\ step \in Steps /\ {} \in SUBSET Tokens
      /\ {body, access, None} \subseteq Tokens \cup {None}
  BY <1>1 DEF Steps, LoginSteps, TypeInv, TypeOK
<1>3. q = [kind |-> kind, heard |-> on, step |-> step, access |-> access, body |-> body,
           token |-> None, fresh |-> None, gang |-> {}]
  BY <1>1, Zenon DEF Request
<1> HIDE DEF q
<1>4. /\ q \in Call /\ q # None
      /\ q.kind = kind /\ q.step = step /\ q.access = access /\ q.body = body
      /\ q.token = None /\ q.fresh = None
  BY <1>2, <1>3, SessionsAssumption DEF Call
<1>5. CallSound(q)
  BY <1>1, <1>4 DEF CallSound, Kinds, Consuming, Replaced, LoginSteps, LogoutSteps, TypeInv
<1> QED BY <1>4, <1>5 DEF q
-----------------------------------------------------------------------------
(***************************************************************************)
(* The steps of the browser.                                               *)
(***************************************************************************)
LEMMA TypesOfBegin ==
    ASSUME TypeInv, NEW c \in Calls, Get(c) \/ Login(c) \/ Logout(c)
    PROVE  TypeInv'
<1>1. /\ UNCHANGED <<store, refresh, reset, expired, refusals, ended>>
      /\ access' \in {access, None} /\ user' \in BOOLEAN /\ apart' \in BOOLEAN /\ smooth' \in BOOLEAN
  BY DEF Get, Login, Logout, Apart, history, browser, TypeInv, TypeOK
<1>2. Keeps /\ Issued' = Issued /\ Begun' = Begun
  BY <1>1, SameFamilies DEF store
<1>3. ASSUME NEW kind \in Kinds, Send(c, kind),
             kind = "logout" => refresh # None
      PROVE  call' \in [Calls -> Call \cup {None}] /\ CallsSound'
  <2>1. PICK q : q = Request(kind)
    OBVIOUS
  <2>2. q \in Call /\ q # None /\ CallSound(q)'
    BY <1>2, <1>3, <2>1, NewRequest, StaysSound
  <2> QED BY <1>2, <1>3, <2>1, <2>2, OneCall DEF Send, Puts
<1>4. call' \in [Calls -> Call \cup {None}] /\ CallsSound'
  BY <1>2, <1>3, SameCalls DEF Get, Login, Logout, Kinds
<1> QED BY <1>1, <1>2, <1>4 DEF TypeInv, TypeOK, ResetSound, store

LEMMA TypesOfReload ==
    ASSUME TypeInv, NEW c \in Calls, Reload(c)
    PROVE  TypeInv'
<1>1. /\ UNCHANGED <<store, access, refresh, reset, expired, refusals, ended>>
      /\ user' \in BOOLEAN /\ apart' \in BOOLEAN /\ smooth' \in BOOLEAN
  BY DEF Reload, TypeInv, TypeOK
<1>2. Keeps /\ Issued' = Issued /\ Begun' = Begun
  BY <1>1, SameFamilies DEF store
<1>3. PICK rest :
        /\ rest = [d \in Calls |-> IF Changing(d) THEN [call[d] EXCEPT !.heard = FALSE] ELSE None]
        /\ call' = IF access = None THEN rest ELSE [rest EXCEPT ![c] = Request("me")]
  BY DEF Reload
<1>4. /\ rest \in [Calls -> Call \cup {None}]
      /\ \A d \in Calls, p \in Call : rest[d] = p => CallSound(p)'
  <2> SUFFICES ASSUME NEW d \in Calls
               PROVE  /\ rest[d] \in Call \cup {None}
                      /\ \A p \in Call : rest[d] = p => CallSound(p)'
    BY <1>3
  <2>1. CASE Changing(d)
    <3> DEFINE q == [call[d] EXCEPT !.heard = FALSE]
    <3>1. call[d] \in Call /\ call[d] # None
      BY <2>1 DEF Changing, Rotating, TypeInv, TypeOK
    <3>2. /\ q \in Call
          /\ q.step = call[d].step /\ q.kind = call[d].kind /\ q.access = call[d].access
          /\ q.body = call[d].body /\ q.token = call[d].token /\ q.fresh = call[d].fresh
      BY <3>1 DEF Call
    <3>3. rest[d] = q
      BY <1>3, <2>1
    <3> HIDE DEF q
    <3>4. CallSound(call[d])
      BY <3>1 DEF TypeInv, CallsSound
    <3>5. CallSound(q)
      BY <3>2, <3>4 DEF CallSound
    <3> QED BY <1>2, <3>2, <3>3, <3>5, StaysSound
  <2>2. CASE ~Changing(d)
    BY <1>3, <2>2, SessionsAssumption
  <2> QED BY <2>1, <2>2
<1>5. PICK q : q = Request("me")
  OBVIOUS
<1>6. q \in Call /\ CallSound(q)'
  BY <1>2, <1>5, NewRequest, StaysSound DEF Kinds
<1>7. /\ call' \in [Calls -> Call \cup {None}]
      /\ \A d \in Calls, p \in Call : call'[d] = p => CallSound(p)'
  BY <1>3, <1>4, <1>5, <1>6
<1>8. CallsSound'
  BY <1>7 DEF CallsSound
<1> QED BY <1>1, <1>2, <1>7, <1>8 DEF TypeInv, TypeOK, ResetSound, store

LEMMA TypesOfAnswered ==
    ASSUME TypeInv, NEW c \in Calls, Answered(c) \/ Unheard(c)
    PROVE  TypeInv'
<1>1. /\ Puts(c, None)
      /\ UNCHANGED <<store, reset, expired, refusals, history>>
  BY DEF Answered, Unheard, Puts
<1>2. Keeps /\ Issued' = Issued /\ Begun' = Begun
  BY <1>1, SameFamilies DEF store
<1>3. call' \in [Calls -> Call \cup {None}] /\ CallsSound'
  BY <1>1, <1>2, OneCall
<1>4. {access', refresh'} \subseteq Issued \cup {None} /\ user' \in BOOLEAN
  <2>1. CASE UNCHANGED browser
    BY <2>1 DEF browser, TypeInv, TypeOK
  <2>2. CASE ~UNCHANGED browser
    <3>1. /\ Answered(c) /\ call[c] \in Call /\ CallSound(call[c])
      BY <2>2, SessionsAssumption DEF Unheard, Answered, At, TypeInv, TypeOK, CallsSound
    <3>2. call[c].fresh \in Issued \cup {None}
      BY <3>1 DEF CallSound
    <3>3. user' \in BOOLEAN
      BY <2>2, <3>1 DEF Answered, TypeInv, TypeOK
    <3> QED BY <2>2, <3>1, <3>2, <3>3 DEF Answered, TypeInv
  <2> QED BY <2>1, <2>2
<1> QED BY <1>1, <1>2, <1>3, <1>4 DEF TypeInv, TypeOK, ResetSound, store, history, Issued

LEMMA RefreshBegins ==
    ASSUME TypeInv, NEW c \in Calls, TryRefresh(c), refresh # None
    PROVE  \E q \in Call :
              /\ Puts(c, q) /\ q # None
              /\ q.step = "used" /\ q.token = refresh
              /\ q.kind = call[c].kind /\ q.heard = call[c].heard /\ q.access = call[c].access
              /\ q.body = call[c].body /\ q.fresh = call[c].fresh
<1>1. PICK p \in Call : p = call[c]
  BY SessionsAssumption DEF TryRefresh, At, TypeInv, TypeOK
<1>2. PICK step \in Steps, token \in Tokens \cup {None} : step = "used" /\ token = refresh
  BY DEF Steps, RotationSteps, TypeInv, TypeOK
<1> DEFINE q == [p EXCEPT !.step = step, !.token = token]
<1>3. /\ q \in Call /\ q # None
      /\ q.step = step /\ q.token = token
      /\ q.kind = p.kind /\ q.heard = p.heard /\ q.access = p.access
      /\ q.body = p.body /\ q.fresh = p.fresh
  BY SessionsAssumption DEF Call
<1>4. Puts(c, q)
  BY <1>1, <1>2 DEF TryRefresh, Puts
<1> HIDE DEF q
<1> QED BY <1>1, <1>2, <1>3, <1>4

LEMMA RefreshEnds ==
    ASSUME TypeInv, NEW c \in Calls, Refreshed(c)
    PROVE  \E q \in Call :
              /\ Puts(c, q) /\ q # None
              /\ q.step = "sent" /\ q.token = None /\ q.fresh = None
              /\ q.kind = call[c].kind /\ q.heard = call[c].heard
              /\ q.access = call[c].fresh /\ q.body = call[c].body
<1> DEFINE q == [call[c] EXCEPT !.step = "sent", !.access = call[c].fresh,
                                !.token = None, !.fresh = None]
<1>1. call[c] \in Call
  BY SessionsAssumption DEF Refreshed, At, TypeInv, TypeOK
<1>2. "sent" \in Steps /\ call[c].fresh \in Tokens \cup {None}
  BY <1>1 DEF Steps, Call
<1>3. /\ q \in Call /\ q # None
      /\ q.step = "sent" /\ q.token = None /\ q.fresh = None
      /\ q.kind = call[c].kind /\ q.heard = call[c].heard
      /\ q.access = call[c].fresh /\ q.body = call[c].body
  BY <1>1, <1>2, SessionsAssumption DEF Call
<1>4. Puts(c, q)
  BY DEF Refreshed, Puts
<1> HIDE DEF q
<1> QED BY <1>3, <1>4

LEMMA TypesOfRefresh ==
    ASSUME TypeInv, NEW c \in Calls, TryRefresh(c) \/ Refreshed(c) \/ NotRefreshed(c)
    PROVE  TypeInv'
<1>1. /\ UNCHANGED <<store, user, reset, expired, refusals, ended>> /\ apart' \in BOOLEAN /\ smooth' \in BOOLEAN
  BY DEF TryRefresh, Refreshed, NotRefreshed, Apart, history, TypeInv, TypeOK
<1>2. Keeps /\ Issued' = Issued /\ Begun' = Begun
  BY <1>1, SameFamilies DEF store
<1>3. PICK p \in Call : p = call[c] /\ p # None /\ CallSound(p)
  BY SessionsAssumption
     DEF TryRefresh, Refreshed, NotRefreshed, At, TypeInv, TypeOK, CallsSound
<1>4. \E q \in Call : Puts(c, q) /\ CallSound(q)
  <2>1. CASE Goto(c, "failed")
    <3>1. p.step \notin LoginSteps
      BY <1>3 DEF TryRefresh, Refreshed, NotRefreshed, At, LoginSteps
    <3>2. PICK q \in Call : Puts(c, q) /\ Moved(q, p, "failed")
      BY <1>3, <2>1, GoesTo DEF Steps
    <3>3. CallSound(q)
      BY <1>3, <3>1, <3>2
         DEF CallSound, Moved, Consuming, Replaced, LoginSteps, LogoutSteps
    <3> QED BY <3>2, <3>3
  <2>2. CASE TryRefresh(c) /\ refresh # None
    <3>1. PICK q \in Call :
              /\ Puts(c, q) /\ q # None
              /\ q.step = "used" /\ q.token = refresh
              /\ q.kind = p.kind /\ q.access = p.access
              /\ q.body = p.body /\ q.fresh = p.fresh
      BY <1>3, <2>2, RefreshBegins
    <3>2. p.kind # "login"
      BY <1>3, <2>2 DEF TryRefresh, At, CallSound, LoginSteps
    <3>3. CallSound(q)
      BY <1>3, <2>2, <3>1, <3>2
         DEF CallSound, Consuming, Replaced, LoginSteps, LogoutSteps, TypeInv
    <3> QED BY <3>1, <3>3
  <2>3. CASE Refreshed(c)
    <3>1. PICK q \in Call :
              /\ Puts(c, q) /\ q # None
              /\ q.step = "sent" /\ q.token = None /\ q.fresh = None
              /\ q.kind = p.kind /\ q.access = p.fresh /\ q.body = p.body
      BY <1>3, <2>3, RefreshEnds
    <3>2. p.kind # "login"
      BY <1>3, <2>3 DEF Refreshed, At, CallSound, LoginSteps
    <3>3. CallSound(q)
      BY <1>3, <3>1, <3>2
         DEF CallSound, Consuming, Replaced, LoginSteps, LogoutSteps
    <3> QED BY <3>1, <3>3
  <2> QED BY <2>1, <2>2, <2>3 DEF TryRefresh, NotRefreshed
<1>5. call' \in [Calls -> Call \cup {None}] /\ CallsSound'
  BY <1>2, <1>4, OneCall, StaysSound
<1>6. {access', refresh'} \subseteq Issued \cup {None}
  BY <1>3 DEF TryRefresh, Refreshed, NotRefreshed, TypeInv, CallSound
<1> QED BY <1>1, <1>2, <1>5, <1>6 DEF TypeInv, TypeOK, ResetSound, store, Issued

LEMMA TypesOfBreaks ==
    ASSUME TypeInv, NEW c \in Calls, Breaks(c)
    PROVE  TypeInv'
<1>1. /\ UNCHANGED <<store, browser, reset, expired, refusals, ended>>
      /\ apart' \in BOOLEAN /\ smooth' \in BOOLEAN
  BY DEF Breaks, Apart, TypeInv, TypeOK
<1>2. Keeps /\ Issued' = Issued /\ Begun' = Begun
  BY <1>1, SameFamilies DEF store
<1>3. PICK p \in Call : p = call[c] /\ p # None /\ CallSound(p)
  BY DEF Breaks, TypeInv, TypeOK, CallsSound
<1>4. \E q \in Call : Puts(c, q) /\ CallSound(q)
  <2>1. PICK step \in {"denied", "failed"} :
            /\ Goto(c, step)
            /\ step = "denied" => p.step \in RotationSteps \cup RevocationSteps
    BY <1>3 DEF Breaks, Rotating
  <2>2. PICK q \in Call : Puts(c, q) /\ Moved(q, p, step)
    BY <1>3, <2>1, GoesTo DEF Steps, RotationSteps
  <2>3. CallSound(q)
    BY <1>3, <2>1, <2>2
       DEF CallSound, Moved, Consuming, Replaced, LoginSteps, LogoutSteps, RotationSteps, RevocationSteps
  <2> QED BY <2>2, <2>3
<1>5. call' \in [Calls -> Call \cup {None}] /\ CallsSound'
  BY <1>2, <1>4, OneCall, StaysSound
<1> QED BY <1>1, <1>2, <1>5 DEF TypeInv, TypeOK, ResetSound, store, browser, Issued

-----------------------------------------------------------------------------
(***************************************************************************)
(* The steps of the server.                                                *)
(***************************************************************************)
LEMMA LeastExists ==
    ASSUME NEW B, B \subseteq Nat, B # {}
    PROVE  \E i \in B : \A j \in B : i <= j
<1>1. \E i \in B : \A j \in B : ~(j < i)
  <2>1. \E i \in B : \A j \in B : <<j, i>> \notin OpToRel(<, Nat)
    BY NatLessThanWellFounded, WFMin, Zenon
  <2> QED BY <2>1, Zenon DEF OpToRel
<1> QED BY <1>1

LEMMA NewTokenIsFresh ==
    ASSUME Fresh # {}
    PROVE  NewToken \in Tokens /\ family[NewToken] = None
<1>1. Fresh \subseteq Nat
  BY SessionsAssumption DEF Fresh, Tokens
<1>2. \E t \in Fresh : \A s \in Fresh : t <= s
  BY <1>1, LeastExists
<1> QED BY <1>2 DEF NewToken, Fresh

\* A call goes on with a new token, or with the members it read.
GotoWithToken(c, step, n)   == call' = [call EXCEPT ![c].step = step, ![c].fresh = n]
GotoWithGang(c, step, gang) == call' = [call EXCEPT ![c].step = step, ![c].gang = gang]

LEMMA GoesWithToken ==
    ASSUME TypeInv, NEW c \in Calls,
           NEW p \in Call, p = call[c], p # None, NEW step \in Steps, NEW n \in Tokens,
           GotoWithToken(c, step, n)
    PROVE  \E q \in Call :
              /\ Puts(c, q) /\ q # None
              /\ q.step = step /\ q.fresh = n
              /\ q.kind = p.kind /\ q.heard = p.heard /\ q.access = p.access
              /\ q.body = p.body /\ q.token = p.token
<1> DEFINE q == [p EXCEPT !.step = step, !.fresh = n]
<1>1. /\ q \in Call /\ q # None
      /\ q.step = step /\ q.fresh = n
      /\ q.kind = p.kind /\ q.heard = p.heard /\ q.access = p.access
      /\ q.body = p.body /\ q.token = p.token
  BY SessionsAssumption DEF Call
<1>2. Puts(c, q)
  BY DEF Puts, GotoWithToken
<1> HIDE DEF q
<1> QED BY <1>1, <1>2

LEMMA GoesWithGang ==
    ASSUME TypeInv, NEW c \in Calls,
           NEW p \in Call, p = call[c], p # None, NEW step \in Steps, NEW gang \in SUBSET Tokens,
           GotoWithGang(c, step, gang)
    PROVE  \E q \in Call :
              /\ Puts(c, q) /\ q # None
              /\ q.step = step /\ q.gang = gang
              /\ q.kind = p.kind /\ q.heard = p.heard /\ q.access = p.access
              /\ q.body = p.body /\ q.token = p.token /\ q.fresh = p.fresh
<1> DEFINE q == [p EXCEPT !.step = step, !.gang = gang]
<1>1. /\ q \in Call /\ q # None
      /\ q.step = step /\ q.gang = gang
      /\ q.kind = p.kind /\ q.heard = p.heard /\ q.access = p.access
      /\ q.body = p.body /\ q.token = p.token /\ q.fresh = p.fresh
  BY SessionsAssumption DEF Call
<1>2. Puts(c, q)
  BY DEF Puts, GotoWithGang
<1> HIDE DEF q
<1> QED BY <1>1, <1>2

LEMMA Serving ==
    ASSUME TypeInv, NEW c \in Calls, Server(c)
    PROVE  \E p \in Call : p = call[c] /\ p # None /\ CallSound(p)
  BY SessionsAssumption
     DEF Server, Validate, Look, Rotate, Revoke, Issue, RevokeOne, At, TypeInv, TypeOK, CallsSound

LEMMA TypesOfLook ==
    ASSUME TypeInv, NEW c \in Calls, Validate(c) \/ Look(c)
    PROVE  TypeInv'
<1>1. UNCHANGED <<live, family, mark, members, used, access, refresh, user, reset, expired,
                  apart, smooth, ended>>
  BY DEF Validate, Look, store, serverRest, browser, history
<1>6. refusals' \in 0 .. MaxRefusals
  BY SessionsAssumption DEF Validate, Look, TypeInv, TypeOK
<1>2. Keeps /\ Issued' = Issued /\ Begun' = Begun
  BY <1>1, SameFamilies
<1>3. PICK p \in Call : p = call[c] /\ p # None /\ CallSound(p)
  BY Serving DEF Server
<1>4. \E q \in Call : Puts(c, q) /\ CallSound(q)
  <2>1. PICK step \in {"401", "logout", "ok", "failed", "revoke", "get", "family", "denied", "del"} :
            /\ Goto(c, step)
            /\ \/ p.step = "sent" /\ step \in {"401", "ok"}
               \/ p.step = "sent" /\ step = "failed"
               \/ p.step = "sent" /\ p.kind = "logout" /\ step = "logout"
               \/ p.step \in Consuming /\ step \in {"revoke", "get", "family", "denied", "del"}
    BY <1>3 DEF Validate, Look, At, Consuming
  <2>2. PICK q \in Call : Puts(c, q) /\ Moved(q, p, step)
    BY <1>3, <2>1, GoesTo DEF Steps, RotationSteps, RevocationSteps, LogoutSteps
  <2>3. CallSound(q)
    BY <1>3, <2>1, <2>2 DEF CallSound, Moved, Consuming, Replaced, LoginSteps, LogoutSteps
  <2> QED BY <2>2, <2>3
<1>5. call' \in [Calls -> Call \cup {None}] /\ CallsSound'
  BY <1>2, <1>4, OneCall, StaysSound
<1> QED BY <1>1, <1>2, <1>5, <1>6 DEF TypeInv, TypeOK, ResetSound

\* A token is issued.
LEMMA TokenIssued ==
    ASSUME TypeInv, NEW n \in Tokens, family[n] = None, NEW f \in Families,
           family' = [family EXCEPT ![n] = f]
    PROVE  /\ family' \in [Tokens -> Families \cup {None}]
           /\ n \notin Issued /\ Issued' = Issued \cup {n} /\ family'[n] = f
           /\ Keeps /\ Begun \subseteq Begun'
<1>1. /\ family' \in [Tokens -> Families \cup {None}]
      /\ n \notin Issued /\ Issued' = Issued \cup {n} /\ family'[n] = f /\ Keeps
  BY SessionsAssumption DEF TypeInv, TypeOK, Issued, Keeps
<1> QED BY <1>1, StaysSound

LEMMA TypesOfRotate ==
    ASSUME TypeInv, NEW c \in Calls, Rotate(c)
    PROVE  TypeInv'
<1>1. UNCHANGED <<access, refresh, user, reset, expired, refusals, apart, smooth, ended>>
  BY DEF Rotate, serverRest, browser, history
<1>2. PICK p \in Call : p = call[c] /\ p # None /\ CallSound(p)
  BY Serving DEF Server
<1>3. PICK t \in Issued : t = p.token
  BY <1>2 DEF Rotate, At, CallSound, Consuming
<1>4. PICK f \in Families : f = family[t]
  BY <1>3 DEF Issued
<1>5. t \in Tokens
  BY <1>3 DEF Issued
<1>6. ASSUME UNCHANGED family, NEW step \in Replaced \cup {"srem", "store"}, Goto(c, step),
             step \in Replaced => p.step \in Replaced, p.step \in Consuming
      PROVE  /\ Keeps /\ Issued' = Issued /\ Begun' = Begun
             /\ call' \in [Calls -> Call \cup {None}] /\ CallsSound'
  <2>1. PICK q \in Call : Puts(c, q) /\ Moved(q, p, step)
    BY <1>2, <1>6, GoesTo DEF Steps, RotationSteps, Replaced
  <2>2. CallSound(q)
    BY <1>2, <1>6, <2>1 DEF CallSound, Moved, Consuming, Replaced, LoginSteps, LogoutSteps
  <2> QED BY <1>6, <2>1, <2>2, SameFamilies, OneCall, StaysSound
<1>7. CASE At(c, "del")
  <2>1. Goto(c, "srem") /\ live' = live \ {t} /\ UNCHANGED <<family, mark, members, used>>
    BY <1>2, <1>3, <1>7 DEF Rotate, At
  <2> QED BY <1>1, <1>2, <1>6, <1>7, <2>1
          DEF At, Consuming, Replaced, TypeInv, TypeOK, ResetSound
<1>8. CASE At(c, "srem")
  <2>1. /\ Goto(c, "store") /\ members' = [members EXCEPT ![f] = @ \ {t}]
        /\ UNCHANGED <<live, family, mark, used>>
    BY <1>2, <1>3, <1>4, <1>8 DEF Rotate, At
  <2>2. members' \in [Families -> SUBSET Tokens]
    BY <2>1 DEF TypeInv, TypeOK
  <2> QED BY <1>1, <1>2, <1>6, <1>8, <2>1, <2>2
          DEF At, Consuming, Replaced, TypeInv, TypeOK, ResetSound
<1>9. CASE At(c, "store")
  <2>1. PICK n \in Tokens : n = NewToken /\ family[n] = None
    BY <1>9, NewTokenIsFresh DEF Rotate, At
  <2>2. /\ GotoWithToken(c, "sadd", n)
        /\ live' = live \cup {n} /\ family' = [family EXCEPT ![n] = f]
        /\ UNCHANGED <<mark, members, used>>
    BY <1>2, <1>3, <1>4, <1>9, <2>1 DEF Rotate, At, GotoWithToken
  <2>3. /\ family' \in [Tokens -> Families \cup {None}]
        /\ n \notin Issued /\ Issued' = Issued \cup {n}
        /\ Keeps /\ Begun \subseteq Begun'
    BY <2>1, <2>2, TokenIssued
  <2>4. PICK q \in Call :
              /\ Puts(c, q) /\ q # None
              /\ q.step = "sadd" /\ q.fresh = n
              /\ q.kind = p.kind /\ q.access = p.access
              /\ q.body = p.body /\ q.token = p.token
    <3>1. "sadd" \in Steps
      BY DEF Steps, RotationSteps
    <3> QED BY <1>2, <2>2, <3>1, GoesWithToken
  <2>5. CallSound(q)'
    <3>1. CallSound(p)' /\ p.step = "store"
      BY <1>2, <1>9, <2>3, StaysSound DEF At
    <3>2. n \in Issued' /\ n # None
      BY <2>3, SessionsAssumption
    <3> QED BY <2>4, <3>1, <3>2 DEF CallSound, Consuming, Replaced, LoginSteps, LogoutSteps
  <2>6. call' \in [Calls -> Call \cup {None}] /\ CallsSound'
    BY <2>3, <2>4, <2>5, OneCall
  <2> QED BY <1>1, <2>2, <2>3, <2>6 DEF TypeInv, TypeOK, ResetSound
<1>10. CASE At(c, "sadd")
  <2>1. /\ Goto(c, "zero") /\ members' = [members EXCEPT ![f] = @ \cup {p.fresh}]
        /\ UNCHANGED <<live, family, mark, used>>
    BY <1>2, <1>3, <1>4, <1>10 DEF Rotate, At
  <2>2. p.fresh \in Tokens
    BY <1>2, <1>10 DEF At, CallSound, Replaced, Issued
  <2>3. members' \in [Families -> SUBSET Tokens]
    BY <2>1, <2>2 DEF TypeInv, TypeOK
  <2> QED BY <1>1, <1>2, <1>6, <1>10, <2>1, <2>3
          DEF At, Consuming, Replaced, TypeInv, TypeOK, ResetSound
<1>11. CASE At(c, "zero")
  <2>1. /\ Goto(c, "mark") /\ mark' = [mark EXCEPT ![f] = "0"]
        /\ UNCHANGED <<live, family, members, used>>
    BY <1>2, <1>3, <1>4, <1>11 DEF Rotate, At
  <2>2. mark' \in [Families -> {None, "0", "1"}]
    BY <2>1 DEF TypeInv, TypeOK
  <2> QED BY <1>1, <1>2, <1>6, <1>11, <2>1, <2>2
          DEF At, Consuming, Replaced, TypeInv, TypeOK, ResetSound
<1>12. CASE At(c, "mark")
  <2>1. /\ Goto(c, "issued") /\ used' = used \cup {t} /\ UNCHANGED <<live, family, mark, members>>
    BY <1>2, <1>3, <1>12 DEF Rotate, At
  <2> QED BY <1>1, <1>2, <1>3, <1>5, <1>6, <1>12, <2>1
          DEF At, Consuming, Replaced, TypeInv, TypeOK, ResetSound
<1> QED BY <1>7, <1>8, <1>9, <1>10, <1>11, <1>12 DEF Rotate

LEMMA TypesOfIssue ==
    ASSUME TypeInv, NEW c \in Calls, Issue(c)
    PROVE  TypeInv'
<1>1. UNCHANGED <<access, refresh, user, reset, expired, refusals, apart, smooth, ended>>
  BY DEF Issue, serverRest, browser, history
<1>2. PICK p \in Call : p = call[c] /\ p # None /\ CallSound(p)
  BY Serving DEF Server
<1>3. ASSUME UNCHANGED family, NEW step \in {"newSadd", "ok"}, Goto(c, step),
             p.step \in {"newZero", "newSadd"}
      PROVE  /\ Keeps /\ Issued' = Issued /\ Begun' = Begun
             /\ call' \in [Calls -> Call \cup {None}] /\ CallsSound'
  <2>1. PICK q \in Call : Puts(c, q) /\ Moved(q, p, step)
    BY <1>2, <1>3, GoesTo DEF Steps, LoginSteps
  <2>2. CallSound(q)
    BY <1>2, <1>3, <2>1 DEF CallSound, Moved, Consuming, Replaced, LoginSteps, LogoutSteps
  <2> QED BY <1>3, <2>1, <2>2, SameFamilies, OneCall, StaysSound
<1>4. CASE At(c, "new")
  <2>1. PICK n \in Tokens : n = NewToken /\ family[n] = None
    BY <1>4, NewTokenIsFresh DEF Issue, At
  <2>2. PICK f \in Families : family' = [family EXCEPT ![n] = f]
    BY <1>4, <2>1 DEF Issue, At, NewFamily
  <2>3. /\ GotoWithToken(c, "newZero", n)
        /\ live' = live \cup {n} /\ UNCHANGED <<mark, members, used>>
    BY <1>4, <2>1 DEF Issue, At, GotoWithToken
  <2>4. /\ family' \in [Tokens -> Families \cup {None}]
        /\ n \notin Issued /\ Issued' = Issued \cup {n}
        /\ Keeps /\ Begun \subseteq Begun'
    BY <2>1, <2>2, TokenIssued
  <2>5. PICK q \in Call :
              /\ Puts(c, q) /\ q # None
              /\ q.step = "newZero" /\ q.fresh = n
              /\ q.kind = p.kind /\ q.access = p.access
              /\ q.body = p.body /\ q.token = p.token
    <3>1. "newZero" \in Steps
      BY DEF Steps, LoginSteps
    <3> QED BY <1>2, <2>3, <3>1, GoesWithToken
  <2>6. CallSound(q)'
    <3>1. CallSound(p)' /\ p.step = "new"
      BY <1>2, <1>4, <2>4, StaysSound DEF At
    <3>2. n \in Issued' /\ n # None
      BY <2>4, SessionsAssumption
    <3> QED BY <2>5, <3>1, <3>2 DEF CallSound, Consuming, Replaced, LoginSteps, LogoutSteps
  <2>7. call' \in [Calls -> Call \cup {None}] /\ CallsSound'
    BY <2>4, <2>5, <2>6, OneCall
  <2> QED BY <1>1, <2>3, <2>4, <2>7 DEF TypeInv, TypeOK, ResetSound
<1>5. CASE ~At(c, "new")
  <2>1. PICK n \in Issued : n = p.fresh
    BY <1>2, <1>5 DEF Issue, At, CallSound
  <2>2. n \in Tokens /\ family[n] \in Families
    BY <2>1 DEF Issued
  <2>3. PICK step \in {"newSadd", "ok"} :
            /\ Goto(c, step) /\ p.step \in {"newZero", "newSadd"}
            /\ UNCHANGED <<live, family, used>>
            /\ \/ mark' = [mark EXCEPT ![family[n]] = "0"] /\ UNCHANGED members
               \/ members' = [members EXCEPT ![family[n]] = @ \cup {n}] /\ UNCHANGED mark
    BY <1>2, <1>5, <2>1 DEF Issue, At
  <2>4. mark' \in [Families -> {None, "0", "1"}] /\ members' \in [Families -> SUBSET Tokens]
    BY <2>2, <2>3 DEF TypeInv, TypeOK
  <2> QED BY <1>1, <1>3, <2>3, <2>4 DEF TypeInv, TypeOK, ResetSound
<1> QED BY <1>4, <1>5

LEMMA TypesOfRevokeStep ==
    ASSUME TypeInv, NEW step \in RevocationSteps, NEW f \in Families, NEW gang \in SUBSET Tokens,
           RevokeStep(step, f, gang)
    PROVE  /\ live' \subseteq live
           /\ mark' \in [Families -> {None, "0", "1"}]
           /\ members' \in [Families -> SUBSET Tokens]
  BY DEF RevokeStep, TypeInv, TypeOK

LEMMA Revocation ==
    ASSUME TypeInv, NEW c \in Calls, Revoke(c), NEW p \in Call, p = call[c], p # None
    PROVE  \E q \in Call, f \in Families :
              /\ f = family[p.token] /\ f \in Begun /\ p.gang \in SUBSET Tokens
              /\ Puts(c, q) /\ q # None
              /\ q.step = After(p.step, "denied")
              /\ q.gang = (IF p.step = "gang" THEN members[f] ELSE p.gang)
              /\ q.kind = p.kind /\ q.heard = p.heard /\ q.access = p.access
              /\ q.body = p.body /\ q.token = p.token /\ q.fresh = p.fresh
<1>1. CallSound(p)
  BY DEF TypeInv, CallsSound
<1>2. p.step \in RevocationSteps /\ p.token \in Issued /\ p.gang \in SUBSET Tokens
  BY <1>1 DEF Revoke, CallSound, Consuming, RevocationSteps, Call
<1>3. PICK f \in Families : f = family[p.token] /\ f \in Begun
  BY <1>2 DEF Issued, Begun
<1>4. PICK step \in Steps, gang \in SUBSET Tokens :
        /\ step = After(p.step, "denied")
        /\ gang = (IF p.step = "gang" THEN members[f] ELSE p.gang)
  BY <1>2, <1>3 DEF After, Steps, RevocationSteps, RotationSteps, TypeInv, TypeOK
<1>5. GotoWithGang(c, step, gang)
  BY <1>1, <1>3, <1>4 DEF Revoke, GotoWithGang
<1>6. PICK q \in Call :
              /\ Puts(c, q) /\ q # None
              /\ q.step = step /\ q.gang = gang
              /\ q.kind = p.kind /\ q.heard = p.heard /\ q.access = p.access
              /\ q.body = p.body /\ q.token = p.token /\ q.fresh = p.fresh
  BY <1>5, GoesWithGang
<1> QED BY <1>2, <1>3, <1>4, <1>6

LEMMA TypesOfRevoke ==
    ASSUME TypeInv, NEW c \in Calls, Revoke(c)
    PROVE  TypeInv'
<1>1. UNCHANGED <<family, used, access, refresh, user, reset, expired, refusals, apart, smooth>>
  BY DEF Revoke, serverRest, browser
<1>2. Keeps /\ Issued' = Issued /\ Begun' = Begun
  BY <1>1, SameFamilies
<1>3. PICK p \in Call : p = call[c] /\ p # None /\ CallSound(p)
  BY Serving DEF Server
<1>4. PICK q \in Call, f \in Families :
              /\ f = family[p.token] /\ f \in Begun /\ p.gang \in SUBSET Tokens
              /\ Puts(c, q) /\ q.step = After(p.step, "denied")
              /\ q.kind = p.kind /\ q.access = p.access
              /\ q.body = p.body /\ q.token = p.token /\ q.fresh = p.fresh
  BY <1>3, Revocation
<1>5. p.step \in RevocationSteps /\ RevokeStep(p.step, f, p.gang) /\ ended' \subseteq ended \cup {f}
  BY <1>3, <1>4 DEF Revoke
<1>6. CallSound(q)
  BY <1>3, <1>4, <1>5
     DEF CallSound, After, Consuming, Replaced, LoginSteps, LogoutSteps, RevocationSteps
<1>7. call' \in [Calls -> Call \cup {None}] /\ CallsSound'
  BY <1>2, <1>4, <1>6, OneCall, StaysSound
<1>8. live' \subseteq live /\ mark' \in [Families -> {None, "0", "1"}]
      /\ members' \in [Families -> SUBSET Tokens]
  BY <1>4, <1>5, TypesOfRevokeStep
<1>9. TypeOK'
  BY <1>1, <1>4, <1>5, <1>7, <1>8 DEF TypeInv, TypeOK
<1> QED BY <1>1, <1>2, <1>4, <1>5, <1>7, <1>8, <1>9 DEF TypeInv, ResetSound

LEMMA TypesOfRevokeOne ==
    ASSUME TypeInv, NEW c \in Calls, RevokeOne(c)
    PROVE  TypeInv'
<1>1. UNCHANGED <<family, mark, used, access, refresh, user, reset, expired, refusals, apart, smooth, ended>>
  BY DEF RevokeOne, serverRest, browser, history
<1>2. Keeps /\ Issued' = Issued /\ Begun' = Begun
  BY <1>1, SameFamilies
<1>3. PICK p \in Call : p = call[c] /\ p # None /\ CallSound(p)
  BY Serving DEF Server
<1>4. p.step \in LogoutSteps /\ live' \subseteq live
  BY <1>3 DEF RevokeOne, At, LogoutSteps
<1>5. \E q \in Call : Puts(c, q) /\ CallSound(q)
  <2>1. CASE At(c, "logout")
    <3>1. PICK gang \in SUBSET Tokens, step \in Steps :
             gang = live \cap {p.body} /\ step = "logoutDel"
      BY DEF TypeInv, TypeOK, Steps, LogoutSteps
    <3>2. GotoWithGang(c, step, gang)
      BY <1>3, <2>1, <3>1 DEF RevokeOne, At, GotoWithGang
    <3>3. PICK q \in Call :
              /\ Puts(c, q) /\ q.step = "logoutDel"
              /\ q.kind = p.kind /\ q.access = p.access
              /\ q.body = p.body /\ q.token = p.token /\ q.fresh = p.fresh
      BY <1>3, <3>1, <3>2, GoesWithGang
    <3>4. CallSound(q)
      BY <1>3, <1>4, <3>3 DEF CallSound, Consuming, Replaced, LoginSteps, LogoutSteps
    <3> QED BY <3>3, <3>4
  <2>2. CASE ~At(c, "logout")
    <3>1. PICK step \in {"ok", "logoutSrem"} : Goto(c, step)
      BY <2>2 DEF RevokeOne
    <3>2. PICK q \in Call : Puts(c, q) /\ Moved(q, p, step)
      BY <1>3, <3>1, GoesTo DEF Steps, LogoutSteps
    <3>3. CallSound(q)
      BY <1>3, <1>4, <3>1, <3>2
         DEF CallSound, Moved, Consuming, Replaced, LoginSteps, LogoutSteps
    <3> QED BY <3>2, <3>3
  <2> QED BY <2>1, <2>2
<1>6. call' \in [Calls -> Call \cup {None}] /\ CallsSound'
  BY <1>2, <1>5, OneCall, StaysSound
<1>7. members' \in [Families -> SUBSET Tokens]
  BY DEF RevokeOne, TypeInv, TypeOK
<1> QED BY <1>1, <1>2, <1>4, <1>6, <1>7 DEF TypeInv, TypeOK, ResetSound

-----------------------------------------------------------------------------
(***************************************************************************)
(* Expiry, and the reset of the password.                                  *)
(***************************************************************************)
LEMMA ResetEffect ==
    ASSUME TypeInv, Reset
    PROVE  /\ reset' \in Sweep /\ reset' # None
           /\ reset'.step = "scan" /\ reset'.todo = live
           /\ reset'.doomed = {family[t] : t \in live} /\ reset'.doomed \subseteq Begun
<1> DEFINE doomed == {family[t] : t \in live}
<1>1. doomed \subseteq Begun /\ doomed \subseteq Families /\ live \in SUBSET Tokens
  BY DEF Begun, Issued, TypeInv, TypeOK
<1> HIDE DEF doomed
<1>2. PICK step \in {"scan"} \cup RevocationSteps, gang \in SUBSET Tokens,
           token \in Tokens \cup {None} : step = "scan" /\ gang = {} /\ token = None
  OBVIOUS
<1> DEFINE q == [step |-> step, todo |-> live, token |-> token, gang |-> gang, doomed |-> doomed]
<1>3. reset' = q
  BY <1>2 DEF Reset, doomed
<1>4. q \in Sweep /\ q.step = step /\ q.todo = live /\ q.doomed = doomed
  BY <1>1 DEF Sweep
<1> HIDE DEF q
<1>5. reset' \in Sweep /\ reset' # None
  BY <1>3, <1>4, SessionsAssumption
<1> QED BY <1>1, <1>2, <1>3, <1>4, <1>5 DEF doomed

LEMMA ScanEffect ==
    ASSUME TypeInv, Scan
    PROVE  /\ reset \in Sweep /\ reset # None /\ reset.step = "scan"
           /\ \/ \E t \in live, q \in Sweep :
                    /\ reset' = q /\ q # None
                    /\ q.todo = reset.todo \ {t} /\ q.doomed = reset.doomed
                    /\ q.token = t /\ q.step = "revoke"
              \/ \E t \in reset.todo \ live, q \in Sweep :
                    /\ reset' = q /\ q # None
                    /\ q.todo = reset.todo \ {t} /\ q.doomed = reset.doomed
                    /\ q.step = "scan"
              \/ reset.todo = {} /\ reset' = None
<1>1. PICK p \in Sweep : p = reset /\ p # None /\ p.step = "scan"
  BY DEF Scan, TypeInv, TypeOK
<1>2. ASSUME NEW t \in live, reset' = [reset EXCEPT !.todo = @ \ {t}, !.token = t, !.step = "revoke"]
      PROVE  \E q \in Sweep :
                    /\ reset' = q /\ q # None
                    /\ q.todo = reset.todo \ {t} /\ q.doomed = reset.doomed
                    /\ q.token = t /\ q.step = "revoke"
  <2>1. PICK todo \in SUBSET Tokens, step \in {"scan"} \cup RevocationSteps, token \in Tokens :
           todo = p.todo \ {t} /\ step = "revoke" /\ token = t
    BY DEF Sweep, RevocationSteps, TypeInv, TypeOK
  <2> DEFINE q == [p EXCEPT !.todo = todo, !.token = token, !.step = step]
  <2>2. reset' = q
    BY <1>1, <1>2, <2>1
  <2>3. /\ q \in Sweep /\ q # None
        /\ q.todo = todo /\ q.doomed = p.doomed /\ q.token = token /\ q.step = step
    BY SessionsAssumption DEF Sweep
  <2> HIDE DEF q
  <2> QED BY <1>1, <2>1, <2>2, <2>3
<1>3. ASSUME NEW t \in reset.todo \ live, reset' = [reset EXCEPT !.todo = @ \ {t}]
      PROVE  \E q \in Sweep :
                    /\ reset' = q /\ q # None
                    /\ q.todo = reset.todo \ {t} /\ q.doomed = reset.doomed
                    /\ q.step = "scan"
  <2>1. PICK todo \in SUBSET Tokens : todo = p.todo \ {t}
    BY DEF Sweep
  <2> DEFINE q == [p EXCEPT !.todo = todo]
  <2>2. reset' = q
    BY <1>1, <1>3, <2>1
  <2>3. q \in Sweep /\ q # None /\ q.todo = todo /\ q.doomed = p.doomed /\ q.step = p.step
    BY SessionsAssumption DEF Sweep
  <2> HIDE DEF q
  <2> QED BY <1>1, <2>1, <2>2, <2>3
<1> QED BY <1>1, <1>2, <1>3 DEF Scan

LEMMA ResetRevokesEffect ==
    ASSUME TypeInv, ResetRevokes
    PROVE  \E p \in Sweep, q \in Sweep, f \in Families :
              /\ p = reset /\ p # None /\ p.step \in RevocationSteps
              /\ p.token \in Issued /\ f = family[p.token]
              /\ RevokeStep(p.step, f, p.gang)
              /\ reset' = q /\ q # None
              /\ q.step = After(p.step, "scan")
              /\ q.gang = (IF p.step = "gang" THEN members[f] ELSE {})
              /\ q.token = (IF p.step = "drop" THEN None ELSE p.token)
              /\ q.todo = p.todo /\ q.doomed = p.doomed
<1>1. PICK p \in Sweep : p = reset /\ p # None /\ p.step \in RevocationSteps
  BY DEF ResetRevokes, TypeInv, TypeOK
<1>2. p.token \in Issued
  BY <1>1 DEF TypeInv, ResetSound, RevocationSteps
<1>3. PICK f \in Families : f = family[p.token]
  BY <1>2 DEF Issued
<1>4. PICK step \in {"scan"} \cup RevocationSteps, gang \in SUBSET Tokens,
           token \in Tokens \cup {None} :
        /\ step = After(p.step, "scan")
        /\ gang = (IF p.step = "gang" THEN members[f] ELSE {})
        /\ token = (IF p.step = "drop" THEN None ELSE p.token)
  <2>1. After(p.step, "scan") \in {"scan"} \cup RevocationSteps
    BY DEF After, RevocationSteps
  <2>2. (IF p.step = "gang" THEN members[f] ELSE {}) \in SUBSET Tokens
    BY DEF TypeInv, TypeOK
  <2>3. (IF p.step = "drop" THEN None ELSE p.token) \in Tokens \cup {None}
    BY <1>2 DEF Issued
  <2> QED BY <2>1, <2>2, <2>3
<1> DEFINE q == [p EXCEPT !.step = step, !.gang = gang, !.token = token]
<1>5. reset' = q
  BY <1>1, <1>3, <1>4 DEF ResetRevokes
<1>6. /\ q \in Sweep /\ q # None /\ q.step = step /\ q.gang = gang /\ q.token = token
      /\ q.todo = p.todo /\ q.doomed = p.doomed
  BY SessionsAssumption DEF Sweep
<1>7. RevokeStep(p.step, f, p.gang)
  BY <1>1, <1>3 DEF ResetRevokes
<1> HIDE DEF q
<1> QED BY <1>1, <1>2, <1>3, <1>4, <1>5, <1>6, <1>7

LEMMA TypesOfReset ==
    ASSUME TypeInv, AccessExpires \/ Reset \/ Scan \/ ResetRevokes \/ ResetFails
    PROVE  TypeInv'
<1>1. UNCHANGED <<family, used, browser, call>>
  BY DEF AccessExpires, Reset, Scan, ResetRevokes, ResetFails, store
<1>2. Keeps /\ Issued' = Issued /\ Begun' = Begun
  BY <1>1, SameFamilies
<1>3. call' \in [Calls -> Call \cup {None}] /\ CallsSound'
  BY <1>1, <1>2, SameCalls
<1>4. {access', refresh'} \subseteq Issued \cup {None} /\ user' \in BOOLEAN
  BY <1>1 DEF browser, TypeInv, TypeOK
<1>5. CASE AccessExpires
  <2>1. UNCHANGED <<store, reset, history>>
        /\ expired' = expired \cup {access} /\ access \in Tokens
        /\ refusals' \in 0 .. MaxRefusals
    BY <1>5, SessionsAssumption DEF AccessExpires, TypeInv, TypeOK
  <2> QED BY <1>2, <1>3, <1>4, <2>1 DEF TypeInv, TypeOK, ResetSound, store, history, Issued
<1>6. CASE Reset \/ ResetFails
  <2>1. UNCHANGED <<store, expired, refusals, ended>> /\ apart' \in BOOLEAN /\ smooth' \in BOOLEAN
    BY <1>6 DEF Reset, ResetFails, Apart, TypeInv, TypeOK
  <2>2. reset' \in Sweep \cup {None} /\ ResetSound'
    BY <1>2, <1>6, ResetEffect DEF ResetFails, ResetSound
  <2> QED BY <1>2, <1>3, <1>4, <2>1, <2>2 DEF TypeInv, TypeOK, store, Issued
<1>7. CASE Scan
  <2>1. UNCHANGED <<store, expired, refusals, apart, smooth>>
        /\ ended' \subseteq ended \cup reset.doomed
    BY <1>7 DEF Scan
  <2>2. reset \in Sweep /\ reset # None /\ reset.doomed \subseteq Begun
    BY <1>7, ScanEffect DEF TypeInv, ResetSound
  <2>3. reset' \in Sweep \cup {None} /\ ResetSound'
    BY <1>2, <1>7, <2>2, ScanEffect DEF ResetSound, TypeInv
  <2>4. reset.doomed \subseteq Families
    BY <2>2 DEF Sweep
  <2> QED BY <1>2, <1>3, <1>4, <2>1, <2>2, <2>3, <2>4 DEF TypeInv, TypeOK, store, Issued
<1>8. CASE ResetRevokes
  <2>1. UNCHANGED <<family, used, expired, refusals, apart, smooth, ended>>
    BY <1>8 DEF ResetRevokes, history
  <2>2. PICK p \in Sweep, q \in Sweep, f \in Families :
              /\ p = reset /\ p # None /\ p.step \in RevocationSteps
              /\ p.token \in Issued
              /\ RevokeStep(p.step, f, p.gang)
              /\ reset' = q /\ q.step = After(p.step, "scan")
              /\ q.token = (IF p.step = "drop" THEN None ELSE p.token)
              /\ q.doomed = p.doomed
    BY <1>8, ResetRevokesEffect
  <2>3. reset' \in Sweep \cup {None} /\ ResetSound'
    BY <1>2, <2>2 DEF ResetSound, After, RevocationSteps, TypeInv
  <2>4. p.gang \in SUBSET Tokens
    BY DEF Sweep
  <2>5. /\ live' \subseteq live /\ mark' \in [Families -> {None, "0", "1"}]
        /\ members' \in [Families -> SUBSET Tokens]
    BY <2>2, <2>4, TypesOfRevokeStep
  <2>6. TypeOK'
    BY <1>1, <1>3, <2>1, <2>3, <2>5 DEF TypeInv, TypeOK, browser
  <2> QED BY <1>1, <1>2, <1>3, <1>4, <2>1, <2>3, <2>5, <2>6 DEF TypeInv
<1> QED BY <1>5, <1>6, <1>7, <1>8

LEMMA TypesStep == TypeInv /\ [Next]_authVars => TypeInv'
<1> SUFFICES ASSUME TypeInv, [Next]_authVars PROVE TypeInv'
  OBVIOUS
<1>1. CASE UNCHANGED authVars
  <2>1. Keeps /\ Issued' = Issued /\ Begun' = Begun
    BY <1>1, SameFamilies DEF authVars, store
  <2>2. call' \in [Calls -> Call \cup {None}] /\ CallsSound'
    BY <1>1, <2>1, SameCalls DEF authVars
  <2> QED BY <1>1, <2>1, <2>2
          DEF authVars, store, browser, history, TypeInv, TypeOK, ResetSound
<1>2. ASSUME NEW c \in Calls, Server(c) PROVE TypeInv'
  BY <1>2, TypesOfLook, TypesOfRotate, TypesOfRevoke, TypesOfIssue, TypesOfRevokeOne DEF Server
<1>3. ASSUME NEW c \in Calls, Client(c) PROVE TypeInv'
  BY <1>3, TypesOfAnswered, TypesOfRefresh DEF Client
<1> QED BY <1>1, <1>2, <1>3, TypesOfBegin, TypesOfReload, TypesOfBreaks, TypesOfReset DEF Next

\* Every reachable state has the declared types, and names only tokens that
\* were issued.
THEOREM TypeCorrect == Spec => []TypeInv
<1> QED BY InitTypes, TypesStep, PTL DEF Spec

-----------------------------------------------------------------------------
(***************************************************************************)
(* A session that is undisturbed has at most one call that changes it, or  *)
(* a reset of the password.  Acts(q): q is that call, or there is none.    *)
(***************************************************************************)
Busy(q) == q # None /\ (q.step \in RotationSteps \cup RevocationSteps \/ q.kind \in {"login", "logout"})

Acts(q) == IF q = None THEN \A c \in Calls : ~Changing(c)
                       ELSE \E c \in Calls : call[c] = q /\ Changing(c)

Lone ==
    /\ \A c, d \in Calls : Changing(c) /\ Changing(d) => c = d
    /\ reset # None => \A c \in Calls : ~Changing(c)

LEMMA BusyIsChanging == ASSUME NEW c PROVE Changing(c) <=> Busy(call[c])
  BY DEF Changing, Rotating, Busy

\* Who has to act alone to do what it does: p turns into q.
LEMMA ActorMoves ==
    ASSUME TypeInv, Lone, NEW c \in Calls,
           NEW p \in Call \cup {None}, p = call[c], NEW q \in Call \cup {None}, Puts(c, q),
           UNCHANGED reset,
           Busy(q) /\ ~Busy(p) => reset = None /\ \A d \in Calls \ {c} : ~Changing(d)
    PROVE  /\ Lone'
           /\ Busy(p) => Acts(p) /\ reset = None
           /\ ~Busy(p) /\ Busy(q) => Acts(None)
           /\ Busy(q) => \A r : Acts(r)' => r = q
           /\ Busy(p) /\ ~Busy(q) => \A r : Acts(r)' => r = None
           /\ ~Busy(p) /\ ~Busy(q) => \A r : Acts(r)' => Acts(r)
<1>1. /\ call'[c] = q /\ \A d \in Calls \ {c} : call'[d] = call[d]
  BY PutCall DEF TypeInv
<1>2. /\ Changing(c) <=> Busy(p)
      /\ Changing(c)' <=> Busy(q)
  BY <1>1 DEF Changing, Rotating, Busy
<1>3. \A d \in Calls \ {c} : Changing(d)' <=> Changing(d)
  BY <1>1 DEF Changing, Rotating
<1>4. p = None => ~Busy(p)
  BY DEF Busy
<1>5. q = None => ~Busy(q)
  BY DEF Busy
<1>6. Lone'
  BY <1>2, <1>3 DEF Lone
<1>7. Busy(p) => Acts(p) /\ reset = None
  BY <1>2, <1>4 DEF Acts, Lone
<1>8. ~Busy(p) /\ Busy(q) => Acts(None)
  BY <1>2 DEF Acts
<1>9. Busy(q) \/ Busy(p) => \A d \in Calls \ {c} : ~Changing(d)'
  BY <1>2, <1>3 DEF Lone
<1>10. Busy(q) => \A r : Acts(r)' => r = q
  BY <1>1, <1>2, <1>9 DEF Acts
<1>11. Busy(p) /\ ~Busy(q) => \A r : Acts(r)' => r = None
  BY <1>2, <1>9 DEF Acts
<1>12. ~Busy(p) /\ ~Busy(q) => \A r : Acts(r)' => Acts(r)
  BY <1>1, <1>2, <1>3 DEF Acts
<1> QED BY <1>6, <1>7, <1>8, <1>10, <1>11, <1>12

\* Loading the page anew leaves nothing that changes a session under way.
LEMMA ReloadActs ==
    ASSUME TypeInv, NEW c \in Calls, Reload(c), smooth'
    PROVE  Lone' /\ Acts(None) /\ \A r : Acts(r)' => r = None
<1>1. \A d \in Calls : ~Changing(d)
  BY DEF Reload
<1>2. \A d \in Calls : call'[d] = None \/ call'[d] = Request("me")
  BY <1>1 DEF Reload
<1>3. ~Busy(Request("me")) /\ ~Busy(None)
  <2>1. PICK q : q = Request("me")
    OBVIOUS
  <2>2. q.step = "sent" /\ q.kind = "me"
    BY <2>1 DEF Request
  <2> QED BY <2>1, <2>2 DEF Busy, RotationSteps, RevocationSteps
<1>4. PICK q : q = Request("me")
  OBVIOUS
<1>5. \A d \in Calls : ~Changing(d)'
  <2> SUFFICES ASSUME NEW d \in Calls PROVE ~Changing(d)'
    OBVIOUS
  <2>1. PICK x \in {None, q} : call'[d] = x
    BY <1>2, <1>4
  <2>2. ~Busy(x)
    BY <1>3, <1>4, <2>1
  <2> QED BY <2>1, <2>2 DEF Changing, Rotating, Busy
<1> QED BY <1>1, <1>5 DEF Lone, Acts

-----------------------------------------------------------------------------
(***************************************************************************)
(* What ends a session ends it for good.  The members listed with a family *)
(* are all its tokens in use, but for the one being issued; so a           *)
(* revocation that read the members leaves no token of the family.         *)
(***************************************************************************)
Issuing(q, t) == q # None /\ q.step \in {"sadd", "newZero", "newSadd"} /\ q.fresh = t

Revokes(q) ==
    /\ q.step = "purge" => \A t \in live : family[t] = family[q.token] => t \in q.gang
    /\ q.step = "drop" => \A t \in live : family[t] # family[q.token]

CallKept(q) ==
    /\ q.step \in {"family", "del"} => q.token \in live
    /\ q.step = "srem" => q.token \notin live
    /\ q.step \in {"srem", "store"} => family[q.token] \notin ended
    /\ q.step = "sadd" => family[q.fresh] = family[q.token]
    /\ q.step = "logoutSrem" => q.body \notin live
    /\ Revokes(q)

SweepKept(r) ==
    /\ Revokes(r)
    /\ \A t \in live :
        /\ family[t] \in r.doomed
        /\ \/ t \in r.todo
           \/ r.step \in {"revoke", "gang"} /\ family[t] = family[r.token]
           \/ r.step = "purge" /\ t \in r.gang

Kept(q) ==
    /\ \A t \in live : (t \in members[family[t]] \/ Issuing(q, t)) /\ family[t] \notin ended
    /\ q # None => CallKept(q)
    /\ \A r \in Sweep : reset = r => SweepKept(r)

EndInv == apart => Lone /\ \A q \in Call \cup {None} : Acts(q) => Kept(q)

LEMMA EndMoves ==
    ASSUME TypeInv, EndInv, NEW c \in Calls,
           NEW p \in Call \cup {None}, p = call[c], NEW q \in Call \cup {None}, Puts(c, q),
           UNCHANGED reset, apart' => apart,
           apart' /\ Busy(q) /\ ~Busy(p) => reset = None /\ \A d \in Calls \ {c} : ~Changing(d),
           apart' /\ Busy(q) => (reset = None /\ Kept(IF Busy(p) THEN p ELSE None) => Kept(q)'),
           apart' /\ Busy(p) /\ ~Busy(q) => (reset = None /\ Kept(p) => Kept(None)'),
           apart' /\ ~Busy(p) /\ ~Busy(q) => \A r \in Call \cup {None} : Kept(r) => Kept(r)'
    PROVE  EndInv'
<1> SUFFICES ASSUME apart' PROVE Lone' /\ \A r \in Call \cup {None} : Acts(r)' => Kept(r)'
  BY DEF EndInv
<1>1. Lone /\ \A r \in Call \cup {None} : Acts(r) => Kept(r)
  BY DEF EndInv
<1>2. /\ Lone'
      /\ Busy(p) => Acts(p) /\ reset = None
      /\ ~Busy(p) /\ Busy(q) => Acts(None)
      /\ Busy(q) => \A r : Acts(r)' => r = q
      /\ Busy(p) /\ ~Busy(q) => \A r : Acts(r)' => r = None
      /\ ~Busy(p) /\ ~Busy(q) => \A r : Acts(r)' => Acts(r)
  BY <1>1, ActorMoves
<1>3. CASE Busy(q)
  <2>1. CASE Busy(p)
    <3>1. Kept(p)
      BY <1>1, <1>2, <2>1
    <3> QED BY <1>2, <1>3, <2>1, <3>1
  <2>2. CASE ~Busy(p)
    <3>1. Kept(None)
      BY <1>1, <1>2, <1>3, <2>2
    <3> QED BY <1>2, <1>3, <2>2, <3>1
  <2> QED BY <2>1, <2>2
<1>4. CASE ~Busy(q) /\ Busy(p)
  <2>1. Kept(p)
    BY <1>1, <1>2, <1>4
  <2> QED BY <1>2, <1>4, <2>1
<1>5. CASE ~Busy(q) /\ ~Busy(p)
  BY <1>1, <1>2, <1>5
<1> QED BY <1>3, <1>4, <1>5

\* A step that leaves the store, and turns p into q.
LEMMA EndQuiet ==
    ASSUME TypeInv, EndInv, NEW c \in Calls,
           NEW p \in Call \cup {None}, p = call[c], NEW q \in Call \cup {None}, Puts(c, q),
           UNCHANGED <<live, family, members, ended, reset>>, apart' => apart,
           apart' /\ Busy(q) /\ ~Busy(p) => reset = None /\ \A d \in Calls \ {c} : ~Changing(d),
           apart' /\ Busy(p) => p.step \notin {"sadd", "newZero", "newSadd"},
           apart' /\ Busy(q) => (Kept(IF Busy(p) THEN p ELSE None) => CallKept(q))
    PROVE  EndInv'
<1>1. \A r \in Call \cup {None} : Kept(r) => Kept(r)'
  BY DEF Kept, CallKept, Revokes, SweepKept, Issuing
<1>2. apart' /\ Busy(p) => \A t : ~Issuing(p, t)
  BY DEF Issuing
<1>3. \A t : ~Issuing(None, t)
  BY DEF Issuing
<1>4. ASSUME apart', Busy(p), Kept(p) PROVE Kept(None)
  BY <1>2, <1>4 DEF Kept
<1>5. ASSUME apart', Busy(q), Kept(IF Busy(p) THEN p ELSE None) PROVE Kept(q)'
  <2>1. Kept(None)
    BY <1>4, <1>5
  <2>2. Kept(q)
    BY <1>5, <2>1, <1>3 DEF Kept
  <2> QED BY <1>1, <2>2
<1> QED BY <1>1, <1>4, <1>5, EndMoves

\* A step that leaves the calls and the store.
LEMMA EndSame ==
    ASSUME EndInv, UNCHANGED <<call, live, family, members, ended, reset>>, apart' => apart
    PROVE  EndInv'
<1> SUFFICES ASSUME apart' PROVE Lone' /\ \A r \in Call \cup {None} : Acts(r)' => Kept(r)'
  BY DEF EndInv
<1>1. \A r \in Call \cup {None} : Kept(r) => Kept(r)'
  BY DEF Kept, CallKept, Revokes, SweepKept, Issuing
<1>2. \A d : Changing(d)' <=> Changing(d)
  BY DEF Changing, Rotating
<1>3. Lone' /\ \A r : Acts(r)' => Acts(r)
  BY <1>2 DEF EndInv, Lone, Acts
<1> QED BY <1>1, <1>3 DEF EndInv

LEMMA EndOfBegin ==
    ASSUME TypeInv, EndInv, NEW c \in Calls, Get(c) \/ Login(c) \/ Logout(c)
    PROVE  EndInv'
<1>1. /\ UNCHANGED <<live, family, members, ended, reset>>
      /\ apart' => apart
      /\ ~Get(c) => (apart' => reset = None /\ \A d \in Calls : ~Changing(d)) \/ UNCHANGED call
  BY DEF Get, Login, Logout, Apart, store, history
<1>2. CASE UNCHANGED call
  BY <1>1, <1>2, EndSame
<1>3. CASE ~UNCHANGED call
  <2>1. PICK kind \in {"get", "confirm", "login", "logout"} :
           /\ Send(c, kind)
           /\ kind = "logout" => refresh # None
           /\ kind \in {"get", "confirm"} \/ (apart' => reset = None /\ \A d \in Calls : ~Changing(d))
    BY <1>1, <1>3 DEF Get, Login, Logout
  <2>2. PICK q \in Call : q = Request(kind) /\ q # None
    <3>1. Request(kind) \in Call /\ Request(kind) # None
      BY <2>1, NewRequest DEF Kinds
    <3> QED BY <3>1
  <2>3. q.kind = kind /\ q.step = IF kind = "login" THEN "new" ELSE "sent"
    BY <2>2 DEF Request
  <2>4. Puts(c, q) /\ call[c] = None
    BY <2>1, <2>2 DEF Send, Puts
  <2>5. ~Busy(None) /\ (kind \in {"get", "confirm"} => ~Busy(q))
    BY <2>3 DEF Busy, RotationSteps, RevocationSteps
  <2>6. CallKept(q)
    BY <2>3 DEF CallKept, Revokes
  <2> QED BY <1>1, <2>1, <2>4, <2>5, <2>6, EndQuiet
<1> QED BY <1>2, <1>3

\* Loading the page anew leaves the call that changes the session, unheard.
LEMMA EndOfReload ==
    ASSUME TypeInv, EndInv, NEW c \in Calls, Reload(c)
    PROVE  EndInv'
<1> SUFFICES ASSUME apart' PROVE Lone' /\ \A r \in Call \cup {None} : Acts(r)' => Kept(r)'
  BY DEF EndInv
<1>1. /\ UNCHANGED <<live, family, members, ended, reset>>
      /\ apart /\ Lone /\ \A r \in Call \cup {None} : Acts(r) => Kept(r)
  BY DEF Reload, EndInv, store
<1>2. PICK q \in Call : q = Request("me") /\ q.kind = "me" /\ q.step = "sent"
  <2>1. Request("me") \in Call
    BY NewRequest DEF Kinds
  <2>2. PICK q \in Call : q = Request("me")
    BY <2>1
  <2> QED BY <2>2 DEF Request
<1>3. ~Busy(q) /\ ~Busy(None)
  BY <1>2 DEF Busy, RotationSteps, RevocationSteps
<1>4. PICK rest :
        /\ rest = [d \in Calls |-> IF Changing(d) THEN [call[d] EXCEPT !.heard = FALSE] ELSE None]
        /\ rest[c] = None
        /\ call' = IF access = None THEN rest ELSE [rest EXCEPT ![c] = q]
  BY <1>2 DEF Reload
<1>5. \A d \in Calls : \/ call'[d] = rest[d]
                       \/ rest[d] = None /\ call'[d] = q
  BY <1>4
<1>6. ASSUME NEW d \in Calls, Changing(d)
      PROVE  \E p \in Call, r \in Call :
               /\ p = call[d] /\ r = rest[d] /\ r # None /\ Busy(r) /\ Busy(p)
               /\ r.step = p.step /\ r.token = p.token /\ r.fresh = p.fresh
               /\ r.gang = p.gang /\ r.body = p.body
  <2>1. PICK p \in Call : p = call[d] /\ p # None /\ Busy(p)
    BY <1>6, BusyIsChanging DEF Busy, TypeInv, TypeOK
  <2>2. PICK r : r = [p EXCEPT !.heard = FALSE]
    OBVIOUS
  <2>3. /\ r \in Call /\ r.step = p.step /\ r.token = p.token /\ r.fresh = p.fresh
        /\ r.gang = p.gang /\ r.body = p.body /\ r.kind = p.kind
    BY <2>2 DEF Call
  <2>4. r # None /\ r = rest[d]
    BY <1>4, <1>6, <2>1, <2>2, <2>3, SessionsAssumption
  <2>5. Busy(r)
    BY <2>1, <2>3, <2>4 DEF Busy
  <2> QED BY <2>1, <2>3, <2>4, <2>5
<1>7. \A d \in Calls : ~Changing(d) => rest[d] = None
  BY <1>4
<1>8. \A d \in Calls : Changing(d)' <=> Busy(call'[d])
  BY DEF Changing, Rotating, Busy
<1>9. \A d \in Calls : Changing(d)' => Changing(d) /\ call'[d] = rest[d]
  BY <1>3, <1>5, <1>7, <1>8
<1>10. Lone'
  BY <1>1, <1>9 DEF Lone
<1>11. ASSUME NEW r \in Call \cup {None}, Acts(r)'
       PROVE  Kept(r)'
  <2>1. CASE r = None
    <3>1. \A d \in Calls : ~Changing(d)
      <4> SUFFICES ASSUME NEW d \in Calls, Changing(d) PROVE FALSE
        OBVIOUS
      <4>1. rest[d] # None /\ Busy(rest[d])
        BY <1>6
      <4>2. Busy(call'[d])
        BY <1>5, <4>1
      <4> QED BY <1>8, <1>11, <2>1, <4>2 DEF Acts
    <3>2. Kept(None)
      BY <1>1, <3>1 DEF Acts
    <3> QED BY <1>1, <2>1, <3>2 DEF Kept, SweepKept, Revokes, Issuing
  <2>2. CASE r # None
    <3>1. PICK d \in Calls : call'[d] = r /\ Changing(d)'
      BY <1>11, <2>2 DEF Acts
    <3>2. Changing(d) /\ r = rest[d]
      BY <1>9, <3>1
    <3>3. PICK p \in Call :
               /\ p = call[d] /\ Busy(p)
               /\ r.step = p.step /\ r.token = p.token /\ r.fresh = p.fresh
               /\ r.gang = p.gang /\ r.body = p.body
      BY <1>6, <3>2
    <3>4. p # None /\ Kept(p)
      BY <1>1, <3>2, <3>3 DEF Acts, Busy
    <3> QED BY <1>1, <2>2, <3>3, <3>4 DEF Kept, CallKept, SweepKept, Revokes, Issuing
  <2> QED BY <2>1, <2>2
<1> QED BY <1>10, <1>11

LEMMA EndOfAnswered ==
    ASSUME TypeInv, EndInv, NEW c \in Calls, Answered(c) \/ Unheard(c)
    PROVE  EndInv'
<1>1. /\ UNCHANGED <<live, family, members, ended, reset, apart>> /\ Puts(c, None)
      /\ \E step \in {"ok", "failed", "401", "issued", "denied"} : At(c, step)
  BY DEF Answered, Unheard, store, history, Puts
<1>2. PICK p \in Call : p = call[c] /\ p.step \in {"ok", "failed", "401", "issued", "denied"}
  BY <1>1 DEF At, TypeInv, TypeOK
<1>3. ~Busy(None)
  BY DEF Busy
<1> QED BY <1>1, <1>2, <1>3, EndQuiet

LEMMA EndOfRefresh ==
    ASSUME TypeInv, EndInv, NEW c \in Calls, TryRefresh(c) \/ Refreshed(c) \/ NotRefreshed(c)
    PROVE  EndInv'
<1>1. UNCHANGED <<live, family, members, ended, reset>> /\ (apart' => apart)
  <2>1. UNCHANGED <<live, family, members, ended, reset>>
    BY DEF TryRefresh, Refreshed, NotRefreshed, store, history
  <2>2. apart' => apart
    BY Zenon DEF TryRefresh, Refreshed, NotRefreshed, Apart, history
  <2> QED BY <2>1, <2>2
<1>2. PICK p \in Call : p = call[c] /\ p # None /\ p.step \in {"401", "issued", "denied"}
  BY SessionsAssumption
     DEF TryRefresh, Refreshed, NotRefreshed, At, TypeInv, TypeOK
<1>3. \E q \in Call : /\ Puts(c, q) /\ CallKept(q) /\ q.kind = p.kind
                      /\ \/ q.step \in {"failed", "sent"}
                         \/ apart' => reset = None /\ \A d \in Calls \ {c} : ~Changing(d)
  <2>1. CASE Goto(c, "failed")
    <3>1. PICK q \in Call : Puts(c, q) /\ Moved(q, p, "failed")
      BY <1>2, <2>1, GoesTo DEF Steps
    <3> QED BY <3>1 DEF CallKept, Revokes, Moved
  <2>2. CASE TryRefresh(c) /\ refresh # None
    <3>1. PICK q \in Call : Puts(c, q) /\ q.step = "used" /\ q.kind = p.kind
      BY <1>2, <2>2, RefreshBegins
    <3>2. apart' => reset = None /\ \A d \in Calls \ {c} : ~Changing(d)
      BY <2>2 DEF TryRefresh, Apart
    <3> QED BY <3>1, <3>2 DEF CallKept, Revokes
  <2>3. CASE Refreshed(c)
    <3>1. PICK q \in Call : Puts(c, q) /\ q.step = "sent" /\ q.kind = p.kind
      BY <1>2, <2>3, RefreshEnds
    <3> QED BY <3>1 DEF CallKept, Revokes
  <2> QED BY <2>1, <2>2, <2>3 DEF TryRefresh, NotRefreshed
<1>4. PICK q \in Call : /\ Puts(c, q) /\ CallKept(q) /\ q.kind = p.kind
                        /\ \/ q.step \in {"failed", "sent"}
                           \/ apart' => reset = None /\ \A d \in Calls \ {c} : ~Changing(d)
  BY <1>3
<1>5. q.step \in {"failed", "sent"} /\ Busy(q) => Busy(p)
  BY <1>2, <1>4 DEF Busy, RotationSteps, RevocationSteps
<1> QED BY <1>1, <1>2, <1>4, <1>5, EndQuiet

LEMMA EndOfBreaks ==
    ASSUME TypeInv, EndInv, NEW c \in Calls, Breaks(c)
    PROVE  EndInv'
<1>1. CASE ~apart'
  BY <1>1 DEF EndInv
<1>2. CASE apart'
  <2>1. UNCHANGED <<live, family, members, ended, reset, apart>> /\ ~Changing(c)
    BY <1>2 DEF Breaks, Apart, store
  <2>2. PICK p \in Call : p = call[c] /\ p # None
    BY DEF Breaks, TypeInv, TypeOK
  <2>3. Goto(c, "failed") /\ ~Busy(p)
    BY <2>1, <2>2 DEF Breaks, Changing, Rotating, Busy
  <2>4. PICK q \in Call : Puts(c, q) /\ Moved(q, p, "failed")
    BY <2>2, <2>3, GoesTo DEF Steps
  <2>5. ~Busy(q)
    BY <2>2, <2>3, <2>4 DEF Busy, Moved, RotationSteps, RevocationSteps
  <2> QED BY <2>1, <2>2, <2>3, <2>4, <2>5, EndQuiet
<1> QED BY <1>1, <1>2

LEMMA EndOfLook ==
    ASSUME TypeInv, EndInv, NEW c \in Calls, Validate(c) \/ Look(c)
    PROVE  EndInv'
<1>1. UNCHANGED <<live, family, mark, members, used, ended, reset, apart>>
  BY DEF Validate, Look, store, serverRest, history
<1>2. PICK p \in Call : p = call[c] /\ p # None /\ CallSound(p)
  BY Serving DEF Server
<1>3. PICK step \in Steps :
          /\ Goto(c, step)
          /\ (p.step = "sent" /\ step \in {"401", "logout", "ok", "failed"}) \/ p.step \in {"used", "get", "family"}
          /\ step \in {"logout", "used"} => p.kind = "logout"
          /\ step = "family" => p.token \in live
          /\ step = "del" => p.step = "family"
          /\ step \in {"401", "ok", "failed", "logout", "revoke", "get", "family", "del", "denied"}
  BY <1>2 DEF Validate, Look, At, Steps, RotationSteps, RevocationSteps, LogoutSteps
<1>4. PICK q \in Call : Puts(c, q) /\ q # None /\ Moved(q, p, step)
  BY <1>2, <1>3, GoesTo
<1>5. Busy(q) => Busy(p)
  BY <1>2, <1>3, <1>4 DEF Busy, Moved, RotationSteps, RevocationSteps
<1>6. Busy(q) => (Kept(p) => CallKept(q))
  BY <1>2, <1>3, <1>4 DEF CallKept, Kept, Revokes, Moved
<1> QED BY <1>1, <1>2, <1>3, <1>4, <1>5, <1>6, EndQuiet

LEMMA EndOfRotate ==
    ASSUME TypeInv, EndInv, NEW c \in Calls, Rotate(c)
    PROVE  EndInv'
<1>1. UNCHANGED <<reset, apart, ended>>
  BY DEF Rotate, serverRest, history
<1>2. PICK p \in Call : p = call[c] /\ p # None /\ CallSound(p)
  BY Serving DEF Server
<1>3. Busy(p)
  BY <1>2 DEF Rotate, At, Busy, RotationSteps
<1>4. PICK t \in Issued : t = p.token
  BY <1>2 DEF Rotate, At, CallSound, Consuming
<1>5. PICK f \in Families : f = family[t]
  BY <1>4 DEF Issued
<1>6. /\ live \subseteq Issued /\ ended \subseteq Begun
      /\ members \in [Families -> SUBSET Tokens] /\ family \in [Tokens -> Families \cup {None}]
  BY DEF TypeInv, TypeOK
<1>7. ASSUME NEW q \in Call, Puts(c, q), Busy(q), apart /\ reset = None /\ Kept(p) => Kept(q)'
      PROVE  EndInv'
  BY <1>1, <1>2, <1>3, <1>7, EndMoves
<1>8. ASSUME NEW step \in RotationSteps, Goto(c, step),
             \A q \in Call : /\ apart /\ reset = None /\ Kept(p)
                             /\ q # None /\ Moved(q, p, step)
                             => Kept(q)'
      PROVE  EndInv'
  <2>1. PICK q \in Call : Puts(c, q) /\ q # None /\ Moved(q, p, step)
    BY <1>2, <1>8, GoesTo DEF Steps
  <2>2. Busy(q)
    BY <2>1 DEF Busy, Moved
  <2> QED BY <1>7, <1>8, <2>1, <2>2
<1>9. CASE At(c, "del")
  <2>1. Goto(c, "srem") /\ live' = live \ {t} /\ UNCHANGED <<family, members>> /\ p.step = "del"
    BY <1>2, <1>4, <1>9 DEF Rotate, At
  <2>2. ASSUME NEW q \in Call, apart, reset = None, Kept(p), q # None, Moved(q, p, "srem")
        PROVE  Kept(q)'
    BY <1>1, <1>2, <1>4, <2>1, <2>2, SessionsAssumption
       DEF Kept, CallKept, Revokes, Issuing, Moved
  <2> QED BY <1>8, <2>1, <2>2 DEF RotationSteps
<1>10. CASE At(c, "srem")
  <2>1. /\ Goto(c, "store") /\ members' = [members EXCEPT ![f] = @ \ {t}]
        /\ UNCHANGED <<live, family>> /\ p.step = "srem"
    BY <1>2, <1>4, <1>5, <1>10 DEF Rotate, At
  <2>2. ASSUME NEW q \in Call, apart, reset = None, Kept(p), q # None, Moved(q, p, "store")
        PROVE  Kept(q)'
    BY <1>1, <1>2, <1>4, <1>6, <2>1, <2>2, SessionsAssumption
       DEF Kept, CallKept, Revokes, Issuing, Moved, Issued
  <2> QED BY <1>8, <2>1, <2>2 DEF RotationSteps
<1>11. CASE At(c, "store")
  <2>1. PICK n \in Tokens : n = NewToken /\ family[n] = None
    BY <1>11, NewTokenIsFresh DEF Rotate, At
  <2>2. /\ GotoWithToken(c, "sadd", n) /\ p.step = "store"
        /\ live' = live \cup {n} /\ family' = [family EXCEPT ![n] = f]
        /\ UNCHANGED members
    BY <1>2, <1>4, <1>5, <1>11, <2>1 DEF Rotate, At, GotoWithToken
  <2>3. n \notin Issued /\ Keeps /\ family'[n] = f
    BY <2>1, <2>2, TokenIssued
  <2>4. PICK q \in Call :
              /\ Puts(c, q) /\ q # None /\ q.step = "sadd" /\ q.fresh = n /\ q.token = p.token
    <3>1. "sadd" \in Steps
      BY DEF Steps, RotationSteps
    <3> QED BY <1>2, <2>2, <3>1, GoesWithToken
  <2>5. ASSUME apart, reset = None, Kept(p)
        PROVE  Kept(q)'
    <3>1. f \notin ended
      BY <1>2, <1>4, <1>5, <2>2, <2>5 DEF Kept, CallKept
    <3>2. \A s \in live : s \in members[family[s]] /\ family[s] \notin ended /\ family'[s] = family[s]
      BY <1>6, <2>2, <2>3, <2>5 DEF Kept, Issuing, Keeps
    <3>3. CallKept(q)'
      BY <1>4, <1>5, <2>3, <2>4 DEF CallKept, Revokes, Keeps
    <3> QED BY <1>1, <2>2, <2>3, <2>4, <2>5, <3>1, <3>2, <3>3, SessionsAssumption DEF Kept, Issuing
  <2>6. Busy(q)
    BY <2>4 DEF Busy, RotationSteps
  <2> QED BY <1>7, <2>4, <2>5, <2>6
<1>12. CASE At(c, "sadd")
  <2>1. /\ Goto(c, "zero") /\ members' = [members EXCEPT ![f] = @ \cup {p.fresh}]
        /\ UNCHANGED <<live, family>> /\ p.step = "sadd"
    BY <1>2, <1>4, <1>5, <1>12 DEF Rotate, At
  <2>2. ASSUME NEW q \in Call, apart, reset = None, Kept(p), q # None, Moved(q, p, "zero")
        PROVE  Kept(q)'
    BY <1>1, <1>2, <1>4, <1>5, <1>6, <2>1, <2>2, SessionsAssumption
       DEF Kept, CallKept, Revokes, Issuing, Moved, Issued
  <2> QED BY <1>8, <2>1, <2>2 DEF RotationSteps
<1>13. CASE At(c, "zero") \/ At(c, "mark")
  <2>1. PICK step \in {"mark", "issued"} : Goto(c, step) /\ UNCHANGED <<live, family, members>>
                                         /\ p.step \in {"zero", "mark"}
    BY <1>2, <1>13 DEF Rotate, At
  <2>2. ASSUME NEW q \in Call, apart, reset = None, Kept(p), q # None, Moved(q, p, step)
        PROVE  Kept(q)'
    BY <1>1, <1>2, <2>1, <2>2, SessionsAssumption
       DEF Kept, CallKept, Revokes, Issuing, Moved
  <2> QED BY <1>8, <2>1, <2>2 DEF RotationSteps
<1> QED BY <1>9, <1>10, <1>11, <1>12, <1>13 DEF Rotate

LEMMA EndOfRevoke ==
    ASSUME TypeInv, EndInv, NEW c \in Calls, Revoke(c)
    PROVE  EndInv'
<1>1. UNCHANGED <<reset, apart, family>>
  BY DEF Revoke, serverRest
<1>2. PICK p \in Call : p = call[c] /\ p # None /\ CallSound(p)
  BY Serving DEF Server
<1>3. Busy(p)
  BY <1>2 DEF Revoke, Busy
<1>4. PICK q \in Call, f \in Families :
              /\ f = family[p.token] /\ p.gang \in SUBSET Tokens
              /\ Puts(c, q) /\ q # None /\ q.step = After(p.step, "denied")
              /\ q.gang = (IF p.step = "gang" THEN members[f] ELSE p.gang)
              /\ q.token = p.token
  BY <1>2, Revocation
<1>5. /\ p.step \in RevocationSteps /\ RevokeStep(p.step, f, p.gang)
      /\ ended' = IF p.step = "drop" THEN ended \cup {f} ELSE ended
  BY <1>2, <1>4 DEF Revoke
<1>6. Busy(q)
  BY <1>4, <1>5 DEF Busy, After, RotationSteps, RevocationSteps
<1>7. /\ live \subseteq Issued
      /\ members \in [Families -> SUBSET Tokens] /\ family \in [Tokens -> Families \cup {None}]
  BY DEF TypeInv, TypeOK
<1>8. ASSUME apart, reset = None, Kept(p)
      PROVE  Kept(q)'
  <2>1. \A t \in live : t \in members[family[t]] /\ family[t] \notin ended /\ family[t] \in Families
    BY <1>5, <1>7, <1>8 DEF Kept, Issuing, RevocationSteps, Issued
  <2>2. CallKept(p)
    BY <1>2, <1>8 DEF Kept
  <2>3. reset' = None
    BY <1>1, <1>8
  <2>4. CASE p.step = "revoke"
    <3>1. UNCHANGED <<live, members, ended>> /\ q.step = "gang"
      BY <1>4, <1>5, <2>4 DEF RevokeStep, After
    <3> QED BY <1>1, <1>4, <2>1, <2>3, <3>1, SessionsAssumption DEF Kept, CallKept, Revokes
  <2>5. CASE p.step = "gang"
    <3>1. UNCHANGED <<live, members, ended>> /\ q.step = "purge" /\ q.gang = members[f]
      BY <1>4, <1>5, <2>5 DEF RevokeStep, After
    <3>2. CallKept(q)'
      BY <1>1, <1>4, <2>1, <3>1 DEF CallKept, Revokes
    <3> QED BY <1>1, <1>4, <2>1, <2>3, <3>1, <3>2, SessionsAssumption DEF Kept
  <2>6. CASE p.step = "purge"
    <3>1. live' = live \ p.gang /\ UNCHANGED <<members, ended>> /\ q.step = "drop"
      BY <1>4, <1>5, <2>6 DEF RevokeStep, After
    <3>2. CallKept(q)'
      BY <1>1, <1>4, <2>2, <2>6, <3>1 DEF CallKept, Revokes
    <3> QED BY <1>1, <1>4, <2>1, <2>3, <3>1, <3>2, SessionsAssumption DEF Kept
  <2>7. CASE p.step = "drop"
    <3>1. /\ members' = [members EXCEPT ![f] = {}] /\ UNCHANGED live /\ q.step = "denied"
          /\ ended' = ended \cup {f}
      BY <1>4, <1>5, <2>7 DEF RevokeStep, After
    <3>2. \A t \in live : family[t] # f
      BY <1>4, <2>2, <2>7 DEF CallKept, Revokes
    <3>3. CallKept(q)'
      BY <3>1 DEF CallKept, Revokes
    <3> QED BY <1>1, <1>4, <1>7, <2>1, <2>3, <3>1, <3>2, <3>3, SessionsAssumption DEF Kept
  <2> QED BY <1>5, <2>4, <2>5, <2>6, <2>7 DEF RevocationSteps
<1> QED BY <1>1, <1>2, <1>3, <1>4, <1>6, <1>8, EndMoves

LEMMA EndOfIssue ==
    ASSUME TypeInv, EndInv, NEW c \in Calls, Issue(c)
    PROVE  EndInv'
<1>1. UNCHANGED <<reset, apart, ended>>
  BY DEF Issue, serverRest, history
<1>2. PICK p \in Call : p = call[c] /\ p # None /\ CallSound(p)
  BY Serving DEF Server
<1>3. p.kind = "login" /\ Busy(p)
  BY <1>2 DEF Issue, At, Busy, CallSound, LoginSteps
<1>4. /\ live \subseteq Issued /\ ended \subseteq Begun
      /\ members \in [Families -> SUBSET Tokens] /\ family \in [Tokens -> Families \cup {None}]
  BY DEF TypeInv, TypeOK
<1>5. ASSUME NEW q \in Call, Puts(c, q), q # None, q.kind = "login",
             apart /\ reset = None /\ Kept(p) => Kept(q)'
      PROVE  EndInv'
  <2>1. Busy(q)
    BY <1>5 DEF Busy
  <2> QED BY <1>1, <1>2, <1>3, <1>5, <2>1, EndMoves
<1>6. CASE At(c, "new")
  <2>1. PICK n \in Tokens : n = NewToken /\ family[n] = None
    BY <1>6, NewTokenIsFresh DEF Issue, At
  <2>2. PICK f \in NewFamily : family' = [family EXCEPT ![n] = f]
    BY <1>6, <2>1 DEF Issue, At
  <2>3. f \in Families /\ f \notin Begun
    BY DEF NewFamily, Begun, Issued
  <2>4. /\ GotoWithToken(c, "newZero", n) /\ live' = live \cup {n} /\ UNCHANGED members
    BY <1>6, <2>1 DEF Issue, At, GotoWithToken
  <2>5. n \notin Issued /\ Keeps /\ family'[n] = f
    BY <2>1, <2>2, <2>3, TokenIssued
  <2>6. PICK q \in Call :
              /\ Puts(c, q) /\ q # None /\ q.step = "newZero" /\ q.fresh = n /\ q.kind = p.kind
    <3>1. "newZero" \in Steps
      BY DEF Steps, LoginSteps
    <3> QED BY <1>2, <2>4, <3>1, GoesWithToken
  <2>7. ASSUME apart, reset = None, Kept(p)
        PROVE  Kept(q)'
    <3>1. p.step = "new"
      BY <1>2, <1>6 DEF At
    <3>2. \A s \in live : s \in members[family[s]] /\ family[s] \notin ended /\ family'[s] = family[s]
      BY <1>4, <2>5, <2>7, <3>1 DEF Kept, Issuing, Keeps
    <3>3. CallKept(q)'
      BY <2>6 DEF CallKept, Revokes
    <3> QED BY <1>1, <1>4, <2>3, <2>4, <2>5, <2>6, <2>7, <3>2, <3>3, SessionsAssumption
            DEF Kept, Issuing
  <2> QED BY <1>3, <1>5, <2>6, <2>7
<1>7. CASE At(c, "newZero")
  <2>1. Goto(c, "newSadd") /\ UNCHANGED <<live, family, members>> /\ p.step = "newZero"
    BY <1>2, <1>7 DEF Issue, At
  <2>2. PICK q \in Call : Puts(c, q) /\ q # None /\ Moved(q, p, "newSadd")
    BY <1>2, <2>1, GoesTo DEF Steps, LoginSteps
  <2>3. ASSUME apart, reset = None, Kept(p)
        PROVE  Kept(q)'
    BY <1>1, <1>2, <2>1, <2>2, <2>3, SessionsAssumption
       DEF Kept, CallKept, Revokes, Issuing, Moved
  <2> QED BY <1>3, <1>5, <2>2, <2>3 DEF Moved
<1>8. CASE At(c, "newSadd")
  <2>1. /\ Goto(c, "ok") /\ UNCHANGED <<live, family>> /\ p.step = "newSadd"
        /\ members' = [members EXCEPT ![family[p.fresh]] = @ \cup {p.fresh}]
    BY <1>2, <1>8 DEF Issue, At
  <2>2. PICK q \in Call : Puts(c, q) /\ q # None /\ Moved(q, p, "ok")
    BY <1>2, <2>1, GoesTo DEF Steps
  <2>3. PICK f \in Families : f = family[p.fresh]
    BY <1>2, <2>1 DEF CallSound, Issued
  <2>4. ASSUME apart, reset = None, Kept(p)
        PROVE  Kept(q)'
    BY <1>1, <1>2, <1>4, <2>1, <2>2, <2>3, <2>4, SessionsAssumption
       DEF Kept, CallKept, Revokes, Issuing, Moved, Issued
  <2> QED BY <1>3, <1>5, <2>2, <2>4 DEF Moved
<1> QED BY <1>6, <1>7, <1>8 DEF Issue

LEMMA EndOfRevokeOne ==
    ASSUME TypeInv, EndInv, NEW c \in Calls, RevokeOne(c)
    PROVE  EndInv'
<1>1. UNCHANGED <<reset, apart, ended, family>>
  BY DEF RevokeOne, serverRest, history
<1>2. PICK p \in Call : p = call[c] /\ p # None /\ CallSound(p)
  BY Serving DEF Server
<1>3. p.kind = "logout" /\ Busy(p) /\ p.body \in Issued
  BY <1>2 DEF RevokeOne, At, Busy, CallSound, LogoutSteps
<1>4. /\ live \subseteq Issued
      /\ members \in [Families -> SUBSET Tokens] /\ family \in [Tokens -> Families \cup {None}]
  BY DEF TypeInv, TypeOK
<1>5. PICK t \in Issued, f \in Families : t = p.body /\ f = family[t]
  BY <1>3 DEF Issued
<1>6. ASSUME NEW q \in Call, Puts(c, q), q # None, q.kind = "logout",
             apart /\ reset = None /\ Kept(p) => Kept(q)'
      PROVE  EndInv'
  <2>1. Busy(q)
    BY <1>6 DEF Busy
  <2> QED BY <1>1, <1>2, <1>3, <1>6, <2>1, EndMoves
<1>7. CASE At(c, "logout")
  <2>1. PICK gang \in SUBSET Tokens, step \in Steps :
           gang = live \cap {p.body} /\ step = "logoutDel"
    BY DEF TypeInv, TypeOK, Steps, LogoutSteps
  <2>2. GotoWithGang(c, step, gang) /\ UNCHANGED <<live, members>> /\ p.step = "logout"
    BY <1>2, <1>7, <2>1 DEF RevokeOne, At, GotoWithGang
  <2>3. PICK q \in Call : /\ Puts(c, q) /\ q # None /\ q.step = "logoutDel"
                          /\ q.kind = p.kind
    BY <1>2, <2>1, <2>2, GoesWithGang
  <2>4. ASSUME apart, reset = None, Kept(p)
        PROVE  Kept(q)'
    BY <1>1, <1>2, <2>2, <2>3, <2>4, SessionsAssumption DEF Kept, CallKept, Revokes, Issuing
  <2> QED BY <1>3, <1>6, <2>3, <2>4
<1>8. CASE At(c, "logoutDel")
  <2>1. PICK step \in {"ok", "logoutSrem"} :
            Goto(c, step) /\ live' = live \ {t} /\ UNCHANGED members /\ p.step = "logoutDel"
    BY <1>2, <1>5, <1>8 DEF RevokeOne, At
  <2>2. PICK q \in Call : Puts(c, q) /\ q # None /\ Moved(q, p, step)
    BY <1>2, <2>1, GoesTo DEF Steps, LogoutSteps
  <2>3. ASSUME apart, reset = None, Kept(p)
        PROVE  Kept(q)'
    BY <1>1, <1>2, <1>5, <2>1, <2>2, <2>3, SessionsAssumption
       DEF Kept, CallKept, Revokes, Issuing, Moved
  <2> QED BY <1>3, <1>6, <2>2, <2>3 DEF Moved
<1>9. CASE At(c, "logoutSrem")
  <2>1. /\ Goto(c, "ok") /\ members' = [members EXCEPT ![f] = @ \ {t}] /\ UNCHANGED live
        /\ p.step = "logoutSrem"
    BY <1>2, <1>5, <1>9 DEF RevokeOne, At
  <2>2. PICK q \in Call : Puts(c, q) /\ q # None /\ Moved(q, p, "ok")
    BY <1>2, <2>1, GoesTo DEF Steps
  <2>3. ASSUME apart, reset = None, Kept(p)
        PROVE  Kept(q)'
    BY <1>1, <1>2, <1>4, <1>5, <2>1, <2>2, <2>3, SessionsAssumption
       DEF Kept, CallKept, Revokes, Issuing, Moved, Issued
  <2> QED BY <1>3, <1>6, <2>2, <2>3 DEF Moved
<1> QED BY <1>7, <1>8, <1>9 DEF RevokeOne

\* A step of the reset, with no call that changes the session.
LEMMA EndSweeps ==
    ASSUME EndInv, UNCHANGED call, apart' => apart,
           apart' => \A d \in Calls : ~Changing(d),
           apart' /\ Kept(None) => Kept(None)'
    PROVE  EndInv'
<1>1. \A d \in Calls : Changing(d)' <=> Changing(d)
  BY DEF Changing, Rotating
<1>2. apart' => Lone' /\ Acts(None) /\ \A r : Acts(r)' => r = None
  BY <1>1 DEF Lone, Acts
<1> QED BY <1>2 DEF EndInv

LEMMA EndOfReset ==
    ASSUME TypeInv, EndInv, Reset \/ Scan \/ ResetRevokes \/ ResetFails
    PROVE  EndInv'
<1>1. UNCHANGED call
  BY DEF Reset, Scan, ResetRevokes, ResetFails
<1>2. /\ live \subseteq Issued
      /\ members \in [Families -> SUBSET Tokens] /\ family \in [Tokens -> Families \cup {None}]
  BY DEF TypeInv, TypeOK
<1>3. \A t : ~Issuing(None, t)
  BY DEF Issuing
<1>4. CASE Reset
  <2>1. UNCHANGED <<live, family, members, ended>> /\ (apart' => apart)
        /\ (apart' => \A d \in Calls : ~Changing(d))
    BY <1>4 DEF Reset, Apart, store
  <2>2. PICK r \in Sweep : /\ reset' = r /\ r.step = "scan" /\ r.todo = live
                           /\ r.doomed = {family[t] : t \in live}
    BY <1>4, ResetEffect
  <2>3. SweepKept(r)'
    BY <2>1, <2>2 DEF SweepKept, Revokes
  <2>4. Kept(None) => Kept(None)'
    BY <1>3, <2>1, <2>2, <2>3 DEF Kept
  <2> QED BY <1>1, <2>1, <2>4, EndSweeps
<1>5. CASE ResetFails
  BY <1>5 DEF ResetFails, Apart, EndInv
<1>6. ASSUME Scan \/ ResetRevokes
      PROVE  /\ apart' => apart
             /\ apart' => \A d \in Calls : ~Changing(d)
             /\ UNCHANGED family
  <2>1. UNCHANGED family
    BY <1>6 DEF Scan, ResetRevokes, store
  <2>2. apart' => apart
    BY <1>6, Zenon DEF Scan, ResetRevokes, history
  <2>3. reset # None
    BY <1>6 DEF Scan, ResetRevokes
  <2> QED BY <2>1, <2>2, <2>3 DEF EndInv, Lone
<1>7. CASE Scan
  <2>1. UNCHANGED <<live, family, members>>
    BY <1>7 DEF Scan, store
  <2>2. PICK p \in Sweep : p = reset /\ p # None /\ p.step = "scan"
    BY <1>7, ScanEffect
  <2>3. ASSUME NEW t \in live, NEW q \in Sweep, reset' = q, q # None,
               q.todo = p.todo \ {t}, q.doomed = p.doomed, q.token = t, q.step = "revoke",
               Kept(None)
        PROVE  Kept(None)'
    <3>1. UNCHANGED ended
      BY <1>7, <2>3 DEF Scan
    <3>2. SweepKept(p)
      BY <2>2, <2>3 DEF Kept
    <3>3. SweepKept(q)'
      BY <2>1, <2>2, <2>3, <3>2 DEF SweepKept, Revokes
    <3> QED BY <1>3, <2>1, <2>3, <3>1, <3>3 DEF Kept
  <2>4. ASSUME NEW t \in p.todo \ live, NEW q \in Sweep, reset' = q, q # None,
               q.todo = p.todo \ {t}, q.doomed = p.doomed, q.step = "scan",
               Kept(None)
        PROVE  Kept(None)'
    <3>1. UNCHANGED ended
      BY <1>7, <2>4 DEF Scan
    <3>2. SweepKept(p)
      BY <2>2, <2>4 DEF Kept
    <3>3. SweepKept(q)'
      BY <2>1, <2>2, <2>4, <3>2 DEF SweepKept, Revokes
    <3> QED BY <1>3, <2>1, <2>4, <3>1, <3>3 DEF Kept
  <2>5. ASSUME p.todo = {}, reset' = None, Kept(None)
        PROVE  Kept(None)'
    <3>1. SweepKept(p)
      BY <2>2, <2>5 DEF Kept
    <3>2. live = {}
      BY <2>2, <2>5, <3>1 DEF SweepKept
    <3> QED BY <2>1, <2>5, <3>2, SessionsAssumption DEF Kept
  <2>6. Kept(None) => Kept(None)'
    BY <1>7, <2>2, <2>3, <2>4, <2>5, ScanEffect
  <2> QED BY <1>1, <1>6, <1>7, <2>6, EndSweeps
<1>8. CASE ResetRevokes
  <2>1. UNCHANGED <<family, ended>>
    BY <1>8 DEF ResetRevokes, history
  <2>2. PICK p \in Sweep, q \in Sweep, f \in Families :
              /\ p = reset /\ p # None /\ p.step \in RevocationSteps
              /\ p.token \in Issued /\ f = family[p.token]
              /\ RevokeStep(p.step, f, p.gang)
              /\ reset' = q /\ q # None
              /\ q.step = After(p.step, "scan")
              /\ q.gang = (IF p.step = "gang" THEN members[f] ELSE {})
              /\ q.token = (IF p.step = "drop" THEN None ELSE p.token)
              /\ q.todo = p.todo /\ q.doomed = p.doomed
    BY <1>8, ResetRevokesEffect
  <2>3. ASSUME Kept(None)
        PROVE  Kept(None)'
    <3>1. SweepKept(p) /\ \A t \in live : /\ t \in members[family[t]] /\ family[t] \notin ended
                                          /\ family[t] \in Families
      BY <1>2, <1>3, <2>2, <2>3 DEF Kept, Issued
    <3>2. CASE p.step = "revoke"
      <4>1. UNCHANGED <<live, members>> /\ q.step = "gang" /\ q.token = p.token
        BY <2>2, <3>2 DEF RevokeStep, After
      <4>2. SweepKept(q)'
        BY <2>1, <2>2, <3>1, <3>2, <4>1 DEF SweepKept, Revokes
      <4> QED BY <2>1, <2>2, <3>1, <4>1, <4>2 DEF Kept
    <3>3. CASE p.step = "gang"
      <4>1. UNCHANGED <<live, members>> /\ q.step = "purge" /\ q.token = p.token
            /\ q.gang = members[f]
        BY <2>2, <3>3 DEF RevokeStep, After
      <4>2. SweepKept(q)'
        BY <2>1, <2>2, <3>1, <3>3, <4>1 DEF SweepKept, Revokes
      <4> QED BY <2>1, <2>2, <3>1, <4>1, <4>2 DEF Kept
    <3>4. CASE p.step = "purge"
      <4>1. live' = live \ p.gang /\ UNCHANGED members /\ q.step = "drop" /\ q.token = p.token
        BY <2>2, <3>4 DEF RevokeStep, After
      <4>2. SweepKept(q)'
        BY <2>1, <2>2, <3>1, <3>4, <4>1 DEF SweepKept, Revokes
      <4> QED BY <2>1, <2>2, <3>1, <4>1, <4>2 DEF Kept
    <3>5. CASE p.step = "drop"
      <4>1. UNCHANGED live /\ members' = [members EXCEPT ![f] = {}] /\ q.step = "scan"
        BY <2>2, <3>5 DEF RevokeStep, After
      <4>2. \A t \in live : family[t] # f
        BY <2>2, <3>1, <3>5 DEF SweepKept, Revokes
      <4>3. SweepKept(q)'
        BY <2>1, <2>2, <3>1, <3>5, <4>1 DEF SweepKept, Revokes
      <4> QED BY <1>2, <2>1, <2>2, <3>1, <4>1, <4>2, <4>3 DEF Kept
    <3> QED BY <2>2, <3>2, <3>3, <3>4, <3>5 DEF RevocationSteps
  <2> QED BY <1>1, <1>6, <1>8, <2>3, EndSweeps
<1> QED BY <1>4, <1>5, <1>7, <1>8

LEMMA EndInit == Init => EndInv
<1> SUFFICES ASSUME Init PROVE EndInv
  OBVIOUS
<1>1. \A c \in Calls : ~Changing(c)
  BY DEF Init, Changing, Rotating
<1>2. Lone /\ \A r : Acts(r) => r = None
  BY <1>1 DEF Lone, Acts
<1>3. Kept(None)
  BY SessionsAssumption DEF Init, Kept
<1> QED BY <1>2, <1>3 DEF EndInv

LEMMA EndStep == TypeInv /\ EndInv /\ [Next]_authVars => EndInv'
<1> SUFFICES ASSUME TypeInv, EndInv, [Next]_authVars PROVE EndInv'
  OBVIOUS
<1>1. CASE UNCHANGED authVars \/ AccessExpires
  <2>1. UNCHANGED <<call, live, family, members, ended, reset>> /\ (apart' => apart)
    BY <1>1 DEF authVars, AccessExpires, store, history
  <2> QED BY <2>1, EndSame
<1>2. ASSUME NEW c \in Calls, Server(c) PROVE EndInv'
  BY <1>2, EndOfLook, EndOfRotate, EndOfRevoke, EndOfIssue, EndOfRevokeOne DEF Server
<1>3. ASSUME NEW c \in Calls, Client(c) PROVE EndInv'
  BY <1>3, EndOfAnswered, EndOfRefresh DEF Client
<1> QED BY <1>1, <1>2, <1>3, EndOfBegin, EndOfReload, EndOfBreaks, EndOfReset DEF Next

\* No token of a session that was ended, as reused or by a reset of the
\* password, works again, in a history no two changes of which met: an
\* answer of a rotation may be lost, and its token be used again.
THEOREM EndsForGood == Spec => []EndedForGood
<1>1. TypeInv /\ EndInv => EndedForGood
  <2> SUFFICES ASSUME TypeInv, EndInv, apart PROVE \A t \in live : family[t] \notin ended
    BY DEF EndedForGood
  <2>1. PICK r \in Call \cup {None} : Acts(r)
    <3>1. CASE \A c \in Calls : ~Changing(c)
      BY <3>1 DEF Acts
    <3>2. CASE ~\A c \in Calls : ~Changing(c)
      <4>1. PICK c \in Calls : Changing(c)
        BY <3>2
      <4>2. PICK r \in Call : r = call[c] /\ r # None
        BY <4>1 DEF Changing, Rotating, TypeInv, TypeOK
      <4> QED BY <4>1, <4>2 DEF Acts
    <3> QED BY <3>1, <3>2
  <2> QED BY <2>1 DEF EndInv, Kept
<1> QED BY <1>1, InitTypes, TypesStep, EndInit, EndStep, PTL DEF Spec

\* An undisturbed session, with no answer lost.
QuietInv == EndInv /\ (smooth => apart)

LEMMA QuietInit == Init => QuietInv
  BY EndInit, Zenon DEF Init, QuietInv

LEMMA QuietStep == TypeInv /\ QuietInv /\ [Next]_authVars => QuietInv'
<1> SUFFICES ASSUME TypeInv, QuietInv, [Next]_authVars PROVE smooth' => apart'
  BY EndStep DEF QuietInv
<1>1. CASE \/ UNCHANGED <<apart, smooth>>
           \/ UNCHANGED apart /\ smooth' = (smooth /\ \A d \in Calls : ~Changing(d))
           \/ \E b : Apart(b)
  BY <1>1, Zenon DEF QuietInv, Apart
<1>2. ASSUME NEW c \in Calls, Server(c) PROVE UNCHANGED <<apart, smooth>>
  BY <1>2 DEF Server, Validate, Look, Rotate, Revoke, Issue, RevokeOne, history
<1>3. ASSUME NEW c \in Calls, Client(c) PROVE UNCHANGED <<apart, smooth>> \/ \E b : Apart(b)
  BY <1>3, Zenon DEF Client, Answered, TryRefresh, Refreshed, NotRefreshed, Unheard, history
<1>4. ASSUME NEW c \in Calls, Get(c) \/ Login(c) \/ Logout(c) \/ Breaks(c)
      PROVE  UNCHANGED <<apart, smooth>> \/ \E b : Apart(b)
  BY <1>4, Zenon DEF Get, Login, Logout, Breaks, history
<1>5. ASSUME NEW c \in Calls, Reload(c)
      PROVE  UNCHANGED apart /\ smooth' = (smooth /\ \A d \in Calls : ~Changing(d))
  BY <1>5, Zenon DEF Reload
<1>6. AccessExpires \/ Reset \/ Scan \/ ResetRevokes \/ ResetFails
        => UNCHANGED <<apart, smooth>> \/ \E b : Apart(b)
  BY Zenon DEF AccessExpires, Reset, Scan, ResetRevokes, ResetFails, history
<1>7. UNCHANGED authVars => UNCHANGED <<apart, smooth>>
  BY DEF authVars, history
<1> QED BY <1>1, <1>2, <1>3, <1>4, <1>5, <1>6, <1>7 DEF Next

-----------------------------------------------------------------------------
(***************************************************************************)
(* What the browser knows.  Whoever is about to load the user is alone,    *)
(* and whoever logs in finds no token.                                     *)
(***************************************************************************)
Turns == RotationSteps \cup RevocationSteps

CallSeen(c, r) ==
    /\ r.heard
    /\ r.kind = "me" =>
        /\ ~user /\ (r.step # "failed" => refresh # None)
        /\ \A d \in Calls \ {c} : call[d] = None
    /\ r.kind = "login" => ~user /\ refresh = None
    /\ r.step \in Turns => refresh # None

Loading == \E c \in Calls : call[c] # None /\ call[c].kind = "me"

Browsing ==
    /\ \A c \in Calls, r \in Call : call[c] = r => CallSeen(c, r)
    /\ refresh # None => user \/ Loading
    /\ access = None <=> refresh = None

BrowseInv == smooth => Browsing

\* A call goes on, and the browser keeps what it has.
LEMMA BrowseGoes ==
    ASSUME TypeInv, BrowseInv, NEW c \in Calls,
           NEW p \in Call, p = call[c], p # None, NEW q \in Call, q # None, Puts(c, q),
           q.kind = p.kind, q.heard = p.heard, q.step # "failed" => p.step # "failed",
           q.step \in Turns => p.step \in Turns \/ refresh # None,
           UNCHANGED <<refresh, user>>, smooth' => smooth, smooth' => access' = access
    PROVE  BrowseInv'
<1> SUFFICES ASSUME smooth' PROVE Browsing'
  BY DEF BrowseInv
<1>1. Browsing /\ access' = access
  BY DEF BrowseInv
<1>2. /\ call'[c] = q /\ \A d \in Calls \ {c} : call'[d] = call[d]
  BY PutCall DEF TypeInv
<1>3. Loading' <=> Loading
  BY <1>2 DEF Loading
<1>4. CallSeen(c, q)'
  <2>1. CallSeen(c, p)
    BY <1>1 DEF Browsing
  <2>2. q.heard
    BY <2>1, Zenon DEF CallSeen
  <2> QED BY <1>2, <2>1, <2>2 DEF CallSeen
<1>5. ASSUME NEW d \in Calls \ {c}, NEW r \in Call, call'[d] = r PROVE CallSeen(d, r)'
  <2>1. call[d] = r /\ CallSeen(d, r)
    BY <1>1, <1>2, <1>5 DEF Browsing
  <2>2. r.kind # "me"
    BY <2>1 DEF CallSeen
  <2> QED BY <2>1, <2>2 DEF CallSeen
<1>6. \A d \in Calls, r \in Call : call'[d] = r => CallSeen(d, r)'
  BY <1>2, <1>4, <1>5
<1>7. (refresh' # None => user' \/ Loading') /\ (access' = None <=> refresh' = None)
  <2>1. refresh' # None => user' \/ Loading'
    BY <1>1, <1>3 DEF Browsing
  <2> QED BY <1>1, <2>1 DEF Browsing
<1> QED BY <1>6, <1>7 DEF Browsing

LEMMA ServerGoes ==
    ASSUME TypeInv, NEW c \in Calls, Server(c)
    PROVE  \E p \in Call, q \in Call :
              /\ p = call[c] /\ p # None /\ p.step # "failed"
              /\ Puts(c, q) /\ q # None /\ q.kind = p.kind /\ q.heard = p.heard
              /\ q.step \in Turns => p.step \in Turns
<1>1. PICK p \in Call : p = call[c] /\ p # None /\ CallSound(p)
  BY Serving
<1>2. p.step # "failed"
  BY <1>1 DEF Server, Validate, Look, Rotate, Revoke, Issue, RevokeOne, At, RevocationSteps
<1>3. ASSUME NEW step \in Steps, Goto(c, step), step \in Turns => p.step \in Turns
      PROVE  \E q \in Call : /\ Puts(c, q) /\ q # None /\ q.kind = p.kind /\ q.heard = p.heard
                             /\ q.step \in Turns => p.step \in Turns
  BY <1>1, <1>3, GoesTo DEF Moved
<1>4. ASSUME NEW step \in Steps, NEW n \in Tokens, GotoWithToken(c, step, n),
             step \in Turns => p.step \in Turns
      PROVE  \E q \in Call : /\ Puts(c, q) /\ q # None /\ q.kind = p.kind /\ q.heard = p.heard
                             /\ q.step \in Turns => p.step \in Turns
  BY <1>1, <1>4, GoesWithToken
<1>5. CASE Validate(c) \/ Look(c)
  <2>1. PICK step \in Steps : Goto(c, step) /\ (step \in Turns => p.step \in Turns)
    BY <1>1, <1>5 DEF Validate, Look, At, Turns, Steps, RotationSteps, RevocationSteps, LogoutSteps
  <2> QED BY <1>1, <1>2, <1>3, <2>1
<1>6. CASE Rotate(c) /\ ~At(c, "store")
  <2>1. PICK step \in Steps : Goto(c, step) /\ (step \in Turns => p.step \in Turns)
    BY <1>1, <1>6 DEF Rotate, At, Turns, Steps, RotationSteps
  <2> QED BY <1>1, <1>2, <1>3, <2>1
<1>7. CASE Rotate(c) /\ At(c, "store")
  <2>1. PICK n \in Tokens, step \in Steps : n = NewToken /\ step = "sadd"
    BY <1>7, NewTokenIsFresh DEF Rotate, At, Steps, RotationSteps
  <2>2. GotoWithToken(c, step, n)
    BY <1>7, <2>1 DEF Rotate, At, GotoWithToken
  <2>3. p.step \in Turns
    BY <1>1, <1>7 DEF At, Turns, RotationSteps
  <2> QED BY <1>1, <1>2, <1>4, <2>2, <2>3
<1>8. CASE Revoke(c)
  <2>1. p.step \in Turns
    BY <1>1, <1>8 DEF Revoke, Turns
  <2> QED BY <1>1, <1>2, <1>8, <2>1, Revocation
<1>9. CASE Issue(c) /\ At(c, "new")
  <2>1. PICK n \in Tokens, step \in Steps : n = NewToken /\ step = "newZero" /\ step \notin Turns
    BY <1>9, NewTokenIsFresh DEF Issue, At, Steps, LoginSteps, Turns, RotationSteps, RevocationSteps
  <2>2. GotoWithToken(c, step, n)
    BY <1>9, <2>1 DEF Issue, At, GotoWithToken
  <2> QED BY <1>1, <1>2, <1>4, <2>1, <2>2
<1>10. CASE Issue(c) /\ ~At(c, "new")
  <2>1. PICK step \in Steps : Goto(c, step) /\ step \notin Turns
    BY <1>10 DEF Issue, Steps, LoginSteps, Turns, RotationSteps, RevocationSteps
  <2> QED BY <1>1, <1>2, <1>3, <2>1
<1>11. CASE RevokeOne(c) /\ ~At(c, "logout")
  <2>1. PICK step \in Steps : Goto(c, step) /\ step \notin Turns
    BY <1>11 DEF RevokeOne, Steps, LogoutSteps, Turns, RotationSteps, RevocationSteps
  <2> QED BY <1>1, <1>2, <1>3, <2>1
<1>12. CASE RevokeOne(c) /\ At(c, "logout")
  <2>1. PICK gang \in SUBSET Tokens, step \in Steps :
           gang = live \cap {p.body} /\ step = "logoutDel"
    BY DEF TypeInv, TypeOK, Steps, LogoutSteps
  <2>2. GotoWithGang(c, step, gang)
    BY <1>1, <1>12, <2>1 DEF RevokeOne, At, GotoWithGang
  <2>3. \E q \in Call : /\ Puts(c, q) /\ q # None /\ q.kind = p.kind /\ q.heard = p.heard
                        /\ q.step = "logoutDel"
    BY <1>1, <2>1, <2>2, GoesWithGang
  <2> QED BY <1>1, <1>2, <2>3 DEF Turns, RotationSteps, RevocationSteps
<1> QED BY <1>5, <1>6, <1>7, <1>8, <1>9, <1>10, <1>11, <1>12 DEF Server

LEMMA BrowseOfServer ==
    ASSUME TypeInv, BrowseInv, NEW c \in Calls, Server(c)
    PROVE  BrowseInv'
<1>1. UNCHANGED <<access, refresh, user, smooth>>
  BY DEF Server, Validate, Look, Rotate, Revoke, Issue, RevokeOne, serverRest, browser, history
<1>2. PICK p \in Call, q \in Call :
              /\ p = call[c] /\ p # None /\ p.step # "failed"
              /\ Puts(c, q) /\ q # None /\ q.kind = p.kind /\ q.heard = p.heard
              /\ q.step \in Turns => p.step \in Turns
  BY ServerGoes
<1> QED BY <1>1, <1>2, BrowseGoes

LEMMA BrowseOfBegin ==
    ASSUME TypeInv, BrowseInv, NEW c \in Calls, Get(c) \/ Login(c) \/ Logout(c)
    PROVE  BrowseInv'
<1> SUFFICES ASSUME smooth' PROVE Browsing'
  BY DEF BrowseInv
<1>1. smooth
  BY Zenon DEF Get, Login, Logout, Apart, history
<1>2. Browsing /\ refresh' = refresh
  BY <1>1 DEF BrowseInv, Get, Login, Logout, browser
<1>3. \A d \in Calls, r \in Call : call[d] = r => r # None /\ CallSeen(d, r)
  BY <1>2, SessionsAssumption DEF Browsing
<1>4. CASE UNCHANGED call
  <2>1. Logout(c) /\ refresh = None /\ access' = None /\ user' = FALSE
    <3>1. \A kind \in Kinds : Send(c, kind) => kind = "logout" /\ refresh = None
      BY <1>4, NewRequest DEF Send, TypeInv, TypeOK
    <3> QED BY <3>1 DEF Get, Login, Logout, Kinds
  <2>2. \A d \in Calls, r \in Call : call'[d] = r => CallSeen(d, r)'
    BY <1>2, <1>3, <1>4, <2>1 DEF CallSeen
  <2> QED BY <1>2, <2>1, <2>2 DEF Browsing
<1>5. CASE ~UNCHANGED call
  <2>1. PICK kind \in {"get", "confirm", "login", "logout"} :
           /\ Send(c, kind) /\ UNCHANGED <<access, user>>
           /\ kind = "logout" => refresh # None
           /\ kind # "login" => user
           /\ kind = "login" => ~user /\ Settled
    BY <1>5 DEF Get, Login, Logout, browser
  <2>2. PICK q \in Call : q = Request(kind) /\ q # None
    <3>1. Request(kind) \in Call /\ Request(kind) # None
      BY <2>1, NewRequest DEF Kinds
    <3> QED BY <3>1
  <2>3. q.kind = kind /\ q.step \notin Turns
    BY <2>2 DEF Request, Turns, RotationSteps, RevocationSteps
  <2>4. q.heard
    BY <2>2, Zenon DEF Request
  <2>5. Puts(c, q) /\ call[c] = None
    BY <2>1, <2>2 DEF Send, Puts
  <2>6. /\ call'[c] = q /\ \A d \in Calls \ {c} : call'[d] = call[d]
    BY <2>5, PutCall DEF TypeInv
  <2>7. \A d \in Calls : call[d] # None => call[d].kind # "me"
    <3>1. ASSUME NEW d \in Calls, NEW r \in Call, call[d] = r PROVE r.kind # "me"
      <4>1. r # None /\ CallSeen(d, r)
        BY <1>3, <3>1
      <4>2. CASE kind # "login"
        BY <2>1, <4>1, <4>2 DEF CallSeen
      <4>3. CASE kind = "login"
        <5>1. r.kind \notin {"get", "confirm"} => ~r.heard
          BY <2>1, <3>1, <4>1, <4>3 DEF Settled
        <5>2. r.heard
          BY <4>1, Zenon DEF CallSeen
        <5> QED BY <5>1, <5>2
      <4> QED BY <4>2, <4>3
    <3> QED BY <3>1 DEF TypeInv, TypeOK
  <2>8. kind = "login" => refresh = None
    BY <1>2, <2>1, <2>7 DEF Browsing, Loading
  <2>9. CallSeen(c, q)'
    BY <1>2, <2>1, <2>3, <2>4, <2>8 DEF CallSeen
  <2>10. ASSUME NEW d \in Calls \ {c}, NEW r \in Call, call'[d] = r PROVE CallSeen(d, r)'
    <3>1. call[d] = r /\ CallSeen(d, r) /\ r # None
      BY <1>3, <2>6, <2>10
    <3>2. r.kind # "me"
      BY <2>7, <3>1
    <3> QED BY <1>2, <2>1, <3>1, <3>2 DEF CallSeen
  <2>11. \A d \in Calls, r \in Call : call'[d] = r => CallSeen(d, r)'
    BY <2>6, <2>9, <2>10
  <2>12. refresh' # None => user' \/ Loading'
    BY <1>2, <2>1, <2>7 DEF Browsing, Loading
  <2>13. access' = None <=> refresh' = None
    BY <1>2, <2>1 DEF Browsing
  <2> QED BY <2>11, <2>12, <2>13 DEF Browsing
<1> QED BY <1>4, <1>5

LEMMA BrowseOfReload ==
    ASSUME TypeInv, BrowseInv, NEW c \in Calls, Reload(c)
    PROVE  BrowseInv'
<1> SUFFICES ASSUME smooth' PROVE Browsing'
  BY DEF BrowseInv
<1>1. /\ smooth /\ UNCHANGED <<access, refresh>> /\ user' = FALSE
      /\ \A d \in Calls : ~Changing(d)
  BY DEF Reload
<1>2. Browsing
  BY <1>1 DEF BrowseInv
<1>3. PICK q \in Call : q = Request("me") /\ q # None
  BY NewRequest DEF Kinds
<1>4. q.kind = "me" /\ q.step \notin Turns
  BY <1>3 DEF Request, Turns, RotationSteps, RevocationSteps
<1>5. q.heard
  BY <1>3, Zenon DEF Request
<1>6. call' = [d \in Calls |-> IF access # None /\ d = c THEN q ELSE None]
  BY <1>1, <1>3 DEF Reload
<1>7. \A d \in Calls, r \in Call : call'[d] = r =>
         d = c /\ r = q /\ access # None /\ \A e \in Calls \ {c} : call'[e] = None
  BY <1>6, SessionsAssumption
<1>8. refresh # None <=> access # None
  BY <1>2 DEF Browsing
<1>9. \A d \in Calls, r \in Call : call'[d] = r => CallSeen(d, r)'
  <2> SUFFICES ASSUME NEW d \in Calls, NEW r \in Call, call'[d] = r PROVE CallSeen(d, r)'
    OBVIOUS
  <2> QED BY <1>1, <1>4, <1>5, <1>7, <1>8 DEF CallSeen
<1>10. refresh' # None => Loading'
  BY <1>1, <1>3, <1>4, <1>6, <1>8 DEF Loading
<1> QED BY <1>1, <1>8, <1>9, <1>10 DEF Browsing

\* The answer of a login, a logout or the one that loads the user.
LEMMA BrowseOfAnswered ==
    ASSUME TypeInv, QuietInv, BrowseInv, NEW c \in Calls, Answered(c) \/ Unheard(c)
    PROVE  BrowseInv'
<1> SUFFICES ASSUME smooth' PROVE Browsing'
  BY DEF BrowseInv
<1>1. smooth /\ Puts(c, None)
  BY DEF Answered, Unheard, history, Puts
<1>2. Browsing /\ Lone
  BY <1>1 DEF BrowseInv, QuietInv, EndInv
<1>3. PICK p \in Call : p = call[c] /\ p # None /\ CallSound(p) /\ CallSeen(c, p)
  BY <1>2, SessionsAssumption
     DEF Answered, Unheard, At, TypeInv, TypeOK, CallsSound, Browsing
<1>4. call'[c] = None /\ \A d \in Calls \ {c} : call'[d] = call[d]
  BY <1>1, PutCall DEF TypeInv
<1>5. p.heard
  BY <1>3, Zenon DEF CallSeen
<1>6. Answered(c)
  BY <1>3, <1>5 DEF Unheard
<1>7. ASSUME NEW d \in Calls, NEW r \in Call, call'[d] = r
      PROVE  d # c /\ call[d] = r /\ CallSeen(d, r) /\ r # None /\ r.kind # "me" /\ p.kind # "me"
  <2>1. d # c /\ call[d] = r /\ CallSeen(d, r) /\ r # None
    BY <1>2, <1>4, <1>7, SessionsAssumption DEF Browsing
  <2> QED BY <1>3, <2>1 DEF CallSeen
<1>8. CASE p.kind \in {"get", "confirm"} \/ (p.kind = "login" /\ p.step # "ok")
  <2>1. UNCHANGED browser
    BY <1>3, <1>6, <1>8 DEF Answered, At
  <2>2. ASSUME NEW d \in Calls, NEW r \in Call, call'[d] = r PROVE CallSeen(d, r)'
    BY <1>7, <2>1, <2>2 DEF CallSeen, browser
  <2>3. Loading => Loading'
    BY <1>3, <1>4, <1>8 DEF Loading
  <2> QED BY <1>2, <2>1, <2>2, <2>3 DEF Browsing, browser
<1>9. CASE p.kind = "login" /\ p.step = "ok"
  <2>1. access' = p.fresh /\ refresh' = p.fresh /\ user' = TRUE /\ p.fresh # None
    BY <1>3, <1>5, <1>6, <1>9 DEF Answered, At, CallSound
  <2>2. ASSUME NEW d \in Calls, NEW r \in Call, call'[d] = r PROVE CallSeen(d, r)'
    <3>1. d # c /\ call[d] = r /\ CallSeen(d, r) /\ r # None /\ r.kind # "me"
      BY <1>7, <2>2
    <3>2. r.kind # "login"
      BY <1>2, <1>3, <1>9, <3>1 DEF Lone, Changing
    <3> QED BY <2>1, <3>1, <3>2 DEF CallSeen
  <2> QED BY <2>1, <2>2 DEF Browsing
<1>10. CASE p.kind = "me" /\ p.step = "ok"
  <2>1. user' = TRUE /\ UNCHANGED <<access, refresh>>
    BY <1>3, <1>5, <1>6, <1>10 DEF Answered, At
  <2> QED BY <1>2, <1>7, <1>10, <2>1 DEF Browsing
<1>11. CASE p.kind = "logout" \/ (p.kind = "me" /\ p.step # "ok")
  <2>1. access' = None /\ refresh' = None /\ user' = FALSE
    BY <1>3, <1>5, <1>6, <1>11 DEF Answered, At
  <2>2. ASSUME NEW d \in Calls, NEW r \in Call, call'[d] = r PROVE CallSeen(d, r)'
    <3>1. d # c /\ call[d] = r /\ CallSeen(d, r) /\ r # None /\ r.kind # "me" /\ p.kind # "me"
      BY <1>7, <2>2
    <3>2. r.step \notin Turns
      BY <1>2, <1>3, <1>11, <3>1 DEF Lone, Changing, Rotating, Turns
    <3> QED BY <2>1, <3>1, <3>2 DEF CallSeen
  <2> QED BY <2>1, <2>2 DEF Browsing
<1> QED BY <1>8, <1>9, <1>10, <1>11 DEF Call, Kinds

LEMMA BrowseOfRefresh ==
    ASSUME TypeInv, QuietInv, BrowseInv, NEW c \in Calls,
           TryRefresh(c) \/ Refreshed(c) \/ NotRefreshed(c)
    PROVE  BrowseInv'
<1> SUFFICES ASSUME smooth' PROVE Browsing'
  BY DEF BrowseInv
<1>1. smooth /\ UNCHANGED user
  <2>1. smooth
    BY Zenon DEF TryRefresh, Refreshed, NotRefreshed, Apart, history
  <2> QED BY <2>1 DEF TryRefresh, Refreshed, NotRefreshed
<1>2. Browsing /\ Lone
  BY <1>1 DEF BrowseInv, QuietInv, EndInv
<1>3. PICK p \in Call : /\ p = call[c] /\ p # None /\ CallSound(p) /\ CallSeen(c, p)
                        /\ p.step \in {"401", "issued", "denied"}
  BY <1>2, SessionsAssumption
     DEF TryRefresh, Refreshed, NotRefreshed, At, TypeInv, TypeOK, CallsSound, Browsing
<1>4. CASE TryRefresh(c) /\ refresh = None
  <2>1. Goto(c, "failed") /\ access' = access /\ UNCHANGED refresh
    BY <1>2, <1>4 DEF TryRefresh, Browsing
  <2>2. PICK q \in Call : Puts(c, q) /\ q # None /\ Moved(q, p, "failed")
    BY <1>3, <2>1, GoesTo DEF Steps
  <2>3. q.kind = p.kind /\ q.heard = p.heard /\ q.step = "failed" /\ q.step \notin Turns
    BY <2>2 DEF Moved, Turns, RotationSteps, RevocationSteps
  <2>4. UNCHANGED <<refresh, user>> /\ (smooth' => smooth)
    BY <1>1, <2>1
  <2>5. BrowseInv'
    BY <1>3, <2>1, <2>2, <2>3, <2>4, BrowseGoes
  <2> QED BY <2>5 DEF BrowseInv
<1>5. CASE TryRefresh(c) /\ refresh # None
  <2>1. UNCHANGED <<access, refresh>>
    BY <1>5 DEF TryRefresh
  <2>2. PICK q \in Call : Puts(c, q) /\ q # None /\ q.kind = p.kind /\ q.heard = p.heard
    BY <1>3, <1>5, RefreshBegins
  <2>3. BrowseInv'
    BY <1>1, <1>3, <1>5, <2>1, <2>2, BrowseGoes
  <2> QED BY <2>3 DEF BrowseInv
<1>6. CASE Refreshed(c)
  <2>1. access' = p.fresh /\ refresh' = p.fresh /\ p.fresh # None /\ p.step = "issued"
    BY <1>3, <1>6 DEF Refreshed, At, CallSound, Replaced
  <2>2. PICK q \in Call : Puts(c, q) /\ q # None /\ q.kind = p.kind /\ q.heard = p.heard
                          /\ q.step = "sent"
    BY <1>3, <1>6, RefreshEnds
  <2>3. /\ call'[c] = q /\ \A d \in Calls \ {c} : call'[d] = call[d]
    BY <2>2, PutCall DEF TypeInv
  <2>4. Changing(c)
    BY <1>3, <2>1 DEF Changing, Rotating, RotationSteps
  <2>5. p.kind # "login"
    BY <1>3, <2>1 DEF CallSound, LoginSteps
  <2>6. CallSeen(c, q)'
    <3>1. q.heard
      BY <1>3, <2>2, Zenon DEF CallSeen
    <3> QED BY <1>1, <1>3, <2>1, <2>2, <2>3, <2>5, <3>1 DEF CallSeen
  <2>7. ASSUME NEW d \in Calls \ {c}, NEW r \in Call, call'[d] = r PROVE CallSeen(d, r)'
    <3>1. call[d] = r /\ CallSeen(d, r) /\ r # None
      BY <1>2, <2>3, <2>7, SessionsAssumption DEF Browsing
    <3>2. r.kind # "me"
      BY <1>3, <3>1 DEF CallSeen
    <3>3. r.kind # "login"
      BY <1>2, <2>4, <3>1 DEF Lone, Changing
    <3> QED BY <2>1, <3>1, <3>2, <3>3 DEF CallSeen
  <2>8. \A d \in Calls, r \in Call : call'[d] = r => CallSeen(d, r)'
    BY <2>3, <2>6, <2>7
  <2>9. user' \/ Loading'
    <3>1. refresh # None
      BY <1>3, <2>1 DEF CallSeen, Turns, RotationSteps
    <3>2. user \/ Loading
      BY <1>2, <3>1 DEF Browsing
    <3>3. Loading => Loading'
      BY <1>3, <2>2, <2>3 DEF Loading
    <3> QED BY <1>1, <3>2, <3>3
  <2> QED BY <2>1, <2>8, <2>9 DEF Browsing
<1>7. CASE NotRefreshed(c)
  <2>1. access' = None /\ refresh' = None /\ p.step = "denied" /\ Goto(c, "failed")
    BY <1>3, <1>7 DEF NotRefreshed, At
  <2>2. PICK q \in Call : Puts(c, q) /\ q # None /\ Moved(q, p, "failed")
    BY <1>3, <2>1, GoesTo DEF Steps
  <2>3. /\ call'[c] = q /\ \A d \in Calls \ {c} : call'[d] = call[d]
    BY <2>2, PutCall DEF TypeInv
  <2>4. Changing(c)
    BY <1>3, <2>1 DEF Changing, Rotating, RotationSteps
  <2>5. CallSeen(c, q)'
    <3>1. q.heard
      BY <1>3, <2>2, Zenon DEF CallSeen, Moved
    <3>2. q.step = "failed" /\ q.kind = p.kind /\ q.step \notin Turns
      BY <2>2 DEF Moved, Turns, RotationSteps, RevocationSteps
    <3> QED BY <1>1, <1>3, <2>1, <2>3, <3>1, <3>2 DEF CallSeen
  <2>6. ASSUME NEW d \in Calls \ {c}, NEW r \in Call, call'[d] = r PROVE CallSeen(d, r)'
    <3>1. call[d] = r /\ CallSeen(d, r) /\ r # None
      BY <1>2, <2>3, <2>6, SessionsAssumption DEF Browsing
    <3>2. r.kind # "me"
      BY <1>3, <3>1 DEF CallSeen
    <3>3. r.step \notin Turns
      BY <1>2, <2>4, <3>1 DEF Lone, Changing, Rotating, Turns
    <3> QED BY <1>1, <2>1, <3>1, <3>2, <3>3 DEF CallSeen
  <2>7. \A d \in Calls, r \in Call : call'[d] = r => CallSeen(d, r)'
    BY <2>3, <2>5, <2>6
  <2> QED BY <2>1, <2>7 DEF Browsing
<1> QED BY <1>4, <1>5, <1>6, <1>7

LEMMA BrowseOfBreaks ==
    ASSUME TypeInv, BrowseInv, NEW c \in Calls, Breaks(c)
    PROVE  BrowseInv'
<1>1. CASE ~smooth'
  BY <1>1 DEF BrowseInv
<1>2. CASE smooth'
  <2>1. UNCHANGED <<access, refresh, user, smooth>> /\ ~Changing(c)
    BY <1>2 DEF Breaks, Apart, browser
  <2>2. PICK p \in Call : p = call[c] /\ p # None
    BY DEF Breaks, TypeInv, TypeOK
  <2>3. Goto(c, "failed")
    BY <2>1, <2>2 DEF Breaks, Changing
  <2>4. PICK q \in Call : Puts(c, q) /\ q # None /\ Moved(q, p, "failed")
    BY <2>2, <2>3, GoesTo DEF Steps
  <2>5. q.kind = p.kind /\ q.heard = p.heard /\ q.step = "failed" /\ q.step \notin Turns
    BY <2>4 DEF Moved, Turns, RotationSteps, RevocationSteps
  <2> QED BY <2>1, <2>2, <2>4, <2>5, BrowseGoes
<1> QED BY <1>1, <1>2

LEMMA BrowseSame ==
    ASSUME BrowseInv, UNCHANGED <<call, access, refresh, user>>, smooth' => smooth
    PROVE  BrowseInv'
  BY DEF BrowseInv, Browsing, CallSeen, Loading

LEMMA BrowseInit == Init => BrowseInv
  BY SessionsAssumption DEF Init, BrowseInv, Browsing

LEMMA BrowseStep == TypeInv /\ QuietInv /\ BrowseInv /\ [Next]_authVars => BrowseInv'
<1> SUFFICES ASSUME TypeInv, QuietInv, BrowseInv, [Next]_authVars PROVE BrowseInv'
  OBVIOUS
<1>1. CASE UNCHANGED authVars \/ AccessExpires \/ Reset \/ Scan \/ ResetRevokes \/ ResetFails
  <2>1. UNCHANGED <<call, access, refresh, user>>
    BY <1>1 DEF authVars, AccessExpires, Reset, Scan, ResetRevokes, ResetFails, browser
  <2>2. smooth' => smooth
    BY <1>1, Zenon DEF authVars, AccessExpires, Reset, Scan, ResetRevokes, ResetFails, Apart, history
  <2> QED BY <2>1, <2>2, BrowseSame
<1>2. ASSUME NEW c \in Calls, Client(c) PROVE BrowseInv'
  BY <1>2, BrowseOfAnswered, BrowseOfRefresh DEF Client
<1> QED BY <1>1, <1>2, BrowseOfServer, BrowseOfBegin, BrowseOfReload, BrowseOfBreaks DEF Next

-----------------------------------------------------------------------------
(***************************************************************************)
(* Who is signed in stays so.  While nothing changes the session, the      *)
(* token the browser holds works, or its family was ended, or is about to  *)
(* be; and the family is the latest there is.                              *)
(***************************************************************************)
Opened(f) == \E t \in Tokens : family[t] = f
Latest(f) == f \in Families /\ Opened(f) /\ \A g \in Families : Opened(g) => g <= f

\* Families are opened in order, and marked; only a login may be about to.
Marked(q) ==
    /\ \A t \in Issued : \A g \in Families : g < family[t] => Opened(g)
    /\ \A f \in Families : mark[f] # None => Opened(f)
    /\ \A t \in Issued : mark[family[t]] = None =>
        q # None /\ q.step = "newZero" /\ family[q.fresh] = family[t]

Revoking(q, f) ==
    \/ q # None /\ q.step \in {"gang", "purge"} /\ family[q.token] = f
    \/ \E r \in Sweep : reset = r /\ r.step \in {"gang", "purge"} /\ family[r.token] = f

\* A token in use was not used before, nor revoked.
Unused(q) ==
    \A t \in live : t \notin used /\ (mark[family[t]] = "1" => Revoking(q, family[t]))

CallSigned(q) ==
    /\ q.step \in {"srem", "store"} => mark[family[q.token]] # "1"
    /\ q.step \in {"srem", "store", "sadd", "zero", "mark"} => q.token \notin live
    /\ q.step \in Replaced => q.fresh \in live /\ family[q.fresh] = family[q.token]
    /\ q.kind = "login" /\ q.step \in {"newZero", "newSadd", "ok"} =>
        q.fresh \in live /\ Latest(family[q.fresh])
    /\ q.kind # "logout" /\ q.step \in Turns =>
        /\ refresh # None /\ q.token = refresh /\ Latest(family[refresh])
        /\ q.step \in {"used", "get"} => refresh \in live \/ family[refresh] \in ended
        /\ q.step \in RevocationSteps \cup {"denied"} => family[refresh] \in ended

Holds ==
    /\ refresh # None =>
        /\ Latest(family[refresh])
        /\ \/ refresh \in live
           \/ family[refresh] \in ended
           \/ \E r \in Sweep : reset = r /\ family[refresh] \in r.doomed
    /\ user /\ refresh = None => \E f \in ended : Latest(f)

Signed(q) == Marked(q) /\ Unused(q) /\ (IF q = None THEN Holds ELSE CallSigned(q))

SignInv == smooth => \A q \in Call \cup {None} : Acts(q) => Signed(q)

LEMMA SignMoves ==
    ASSUME TypeInv, QuietInv, SignInv, NEW c \in Calls,
           NEW p \in Call \cup {None}, p = call[c], NEW q \in Call \cup {None}, Puts(c, q),
           UNCHANGED reset, smooth' => smooth,
           smooth' /\ Busy(q) /\ ~Busy(p) => reset = None /\ \A d \in Calls \ {c} : ~Changing(d),
           smooth' /\ Busy(q) /\ Busy(p) => (reset = None /\ Kept(p) /\ Signed(p) => Signed(q)'),
           smooth' /\ Busy(q) /\ ~Busy(p) => (reset = None /\ Signed(None) => Signed(q)'),
           smooth' /\ Busy(p) /\ ~Busy(q) => (reset = None /\ Kept(p) /\ Signed(p) => Signed(None)'),
           smooth' /\ ~Busy(p) /\ ~Busy(q) =>
                \A r \in Call \cup {None} : Acts(r) /\ Signed(r) => Signed(r)'
    PROVE  SignInv'
<1> SUFFICES ASSUME smooth' PROVE \A r \in Call \cup {None} : Acts(r)' => Signed(r)'
  BY DEF SignInv
<1>1. Lone /\ \A r \in Call \cup {None} : Acts(r) => Kept(r) /\ Signed(r)
  BY DEF QuietInv, EndInv, SignInv
<1>2. /\ Busy(p) => Acts(p) /\ reset = None
      /\ ~Busy(p) /\ Busy(q) => Acts(None)
      /\ Busy(q) => \A r : Acts(r)' => r = q
      /\ Busy(p) /\ ~Busy(q) => \A r : Acts(r)' => r = None
      /\ ~Busy(p) /\ ~Busy(q) => \A r : Acts(r)' => Acts(r)
  BY <1>1, ActorMoves
<1>3. CASE Busy(p)
  <2>1. Kept(p) /\ Signed(p) /\ reset = None
    BY <1>1, <1>2, <1>3
  <2>2. CASE Busy(q)
    BY <1>2, <1>3, <2>1, <2>2
  <2>3. CASE ~Busy(q)
    BY <1>2, <1>3, <2>1, <2>3
  <2> QED BY <2>2, <2>3
<1>4. CASE ~Busy(p) /\ Busy(q)
  <2>1. Signed(None) /\ reset = None
    BY <1>1, <1>2, <1>4
  <2>2. Signed(q)'
    BY <1>4, <2>1
  <2> QED BY <1>2, <1>4, <2>2
<1>5. CASE ~Busy(p) /\ ~Busy(q)
  BY <1>1, <1>2, <1>5
<1> QED BY <1>3, <1>4, <1>5

\* A step that leaves the store and what the browser has, and turns p into q.
LEMMA SignQuiet ==
    ASSUME TypeInv, QuietInv, SignInv, NEW c \in Calls,
           NEW p \in Call \cup {None}, p = call[c], NEW q \in Call \cup {None}, Puts(c, q),
           UNCHANGED <<live, family, mark, used, ended, reset, refresh, user>>, smooth' => smooth,
           smooth' /\ Busy(q) /\ ~Busy(p) => reset = None /\ \A d \in Calls \ {c} : ~Changing(d),
           smooth' /\ Busy(p) => p.step \notin {"newZero", "gang", "purge"},
           smooth' /\ Busy(q) /\ Busy(p) => (reset = None /\ Kept(p) /\ Signed(p) => CallSigned(q)),
           smooth' /\ Busy(q) /\ ~Busy(p) => (reset = None /\ Signed(None) => CallSigned(q)),
           smooth' /\ Busy(p) /\ ~Busy(q) => (reset = None /\ Kept(p) /\ Signed(p) => Holds)
    PROVE  SignInv'
<1>1. \A r \in Call \cup {None} : Signed(r) => Signed(r)'
  BY DEF Signed, Marked, Unused, Revoking, CallSigned, Holds, Latest, Opened, Issued
<1>2. ASSUME NEW r \in Call \cup {None}, r # None => r.step \notin {"newZero", "gang", "purge"},
             NEW s \in Call \cup {None}, Signed(r), IF s = None THEN Holds ELSE CallSigned(s)
      PROVE  Signed(s)
  BY <1>2 DEF Signed, Marked, Unused, Revoking
<1>3. ~Busy(None)
  BY DEF Busy
<1>4. ASSUME smooth', Busy(q), Busy(p), reset = None, Kept(p), Signed(p) PROVE Signed(q)'
  <2>1. Signed(q)
    BY <1>2, <1>3, <1>4
  <2> QED BY <1>1, <2>1
<1>5. ASSUME smooth', Busy(q), ~Busy(p), reset = None, Signed(None) PROVE Signed(q)'
  <2>1. Signed(q)
    BY <1>2, <1>3, <1>5
  <2> QED BY <1>1, <2>1
<1>6. ASSUME smooth', Busy(p), ~Busy(q), reset = None, Kept(p), Signed(p) PROVE Signed(None)'
  <2>1. Signed(None)
    BY <1>2, <1>6
  <2> QED BY <1>1, <2>1
<1> QED BY <1>1, <1>4, <1>5, <1>6, SignMoves

LEMMA SignSame ==
    ASSUME SignInv, UNCHANGED <<call, live, family, mark, used, ended, reset, refresh>>,
           user' => user, smooth' => smooth
    PROVE  SignInv'
<1> SUFFICES ASSUME smooth' PROVE \A r \in Call \cup {None} : Acts(r)' => Signed(r)'
  BY DEF SignInv
<1>1. \A r \in Call \cup {None} : Signed(r) => Signed(r)'
  BY DEF Signed, Marked, Unused, Revoking, CallSigned, Holds, Latest, Opened, Issued
<1>2. \A d : Changing(d)' <=> Changing(d)
  BY DEF Changing, Rotating
<1>3. \A r : Acts(r)' => Acts(r)
  BY <1>2 DEF Acts
<1> QED BY <1>1, <1>3 DEF SignInv

LEMMA SignOfBegin ==
    ASSUME TypeInv, QuietInv, SignInv, NEW c \in Calls, Get(c) \/ Login(c) \/ Logout(c)
    PROVE  SignInv'
<1>1. /\ UNCHANGED <<live, family, mark, used, ended, reset, refresh>> /\ (smooth' => smooth)
      /\ ~Get(c) => (smooth' => reset = None /\ \A d \in Calls : ~Changing(d)) \/ UNCHANGED call
      /\ UNCHANGED user \/ user' = FALSE
  BY DEF Get, Login, Logout, Apart, store, history, browser
<1>2. CASE UNCHANGED call
  BY <1>1, <1>2, SignSame
<1>3. CASE ~UNCHANGED call
  <2>1. PICK kind \in {"get", "confirm", "login", "logout"} :
           /\ Send(c, kind) /\ UNCHANGED user
           /\ kind = "logout" => refresh # None
           /\ kind \in {"get", "confirm"} \/ (smooth' => reset = None /\ \A d \in Calls : ~Changing(d))
    BY <1>1, <1>3 DEF Get, Login, Logout, browser
  <2>2. PICK q \in Call : q = Request(kind) /\ q # None
    <3>1. Request(kind) \in Call /\ Request(kind) # None
      BY <2>1, NewRequest DEF Kinds
    <3> QED BY <3>1
  <2>3. q.kind = kind /\ q.step = IF kind = "login" THEN "new" ELSE "sent"
    BY <2>2 DEF Request
  <2>4. Puts(c, q) /\ call[c] = None
    BY <2>1, <2>2 DEF Send, Puts
  <2>5. ~Busy(None) /\ (kind \in {"get", "confirm"} => ~Busy(q))
    BY <2>3 DEF Busy, RotationSteps, RevocationSteps
  <2>6. CallSigned(q)
    BY <2>3 DEF CallSigned, Replaced, Turns, RotationSteps, RevocationSteps
  <2> QED BY <1>1, <2>1, <2>4, <2>5, <2>6, SignQuiet
<1> QED BY <1>2, <1>3

LEMMA SignOfReload ==
    ASSUME TypeInv, QuietInv, SignInv, NEW c \in Calls, Reload(c)
    PROVE  SignInv'
<1> SUFFICES ASSUME smooth' PROVE \A r \in Call \cup {None} : Acts(r)' => Signed(r)'
  BY DEF SignInv
<1>1. UNCHANGED <<live, family, mark, used, ended, reset, refresh>> /\ user' = FALSE /\ smooth
  BY DEF Reload, store
<1>2. Signed(None)
  BY <1>1, ReloadActs DEF SignInv
<1>3. Signed(None)'
  BY <1>1, <1>2 DEF Signed, Marked, Unused, Revoking, Holds, Latest, Opened, Issued
<1> QED BY <1>3, ReloadActs

LEMMA SignOfBreaks ==
    ASSUME TypeInv, QuietInv, SignInv, NEW c \in Calls, Breaks(c)
    PROVE  SignInv'
<1>1. CASE ~smooth'
  BY <1>1 DEF SignInv
<1>2. CASE smooth'
  <2>1. UNCHANGED <<live, family, mark, used, ended, reset, refresh, user, smooth>> /\ ~Changing(c)
    BY <1>2 DEF Breaks, Apart, store, browser
  <2>2. PICK p \in Call : p = call[c] /\ p # None
    BY DEF Breaks, TypeInv, TypeOK
  <2>3. Goto(c, "failed") /\ ~Busy(p)
    BY <2>1, <2>2 DEF Breaks, Changing, Rotating, Busy
  <2>4. PICK q \in Call : Puts(c, q) /\ Moved(q, p, "failed")
    BY <2>2, <2>3, GoesTo DEF Steps
  <2>5. ~Busy(q)
    BY <2>2, <2>3, <2>4 DEF Busy, Moved, RotationSteps, RevocationSteps
  <2> QED BY <2>1, <2>2, <2>3, <2>4, <2>5, SignQuiet
<1> QED BY <1>1, <1>2

LEMMA SignOfAnswered ==
    ASSUME TypeInv, QuietInv, BrowseInv, SignInv, NEW c \in Calls, Answered(c) \/ Unheard(c)
    PROVE  SignInv'
<1>1. /\ UNCHANGED <<live, family, mark, used, ended, reset, smooth>> /\ Puts(c, None)
  BY DEF Answered, Unheard, store, history, Puts
<1>2. CASE ~smooth
  BY <1>1, <1>2 DEF SignInv
<1>3. CASE smooth
  <2>1. Browsing /\ Lone
    BY <1>3 DEF BrowseInv, QuietInv, EndInv
  <2>2. PICK p \in Call : p = call[c] /\ p # None /\ CallSound(p) /\ CallSeen(c, p)
    BY <2>1, SessionsAssumption
       DEF Answered, Unheard, At, TypeInv, TypeOK, CallsSound, Browsing
  <2>3. p.heard
    BY <2>2, Zenon DEF CallSeen
  <2>4. Answered(c) /\ p.step \in {"ok", "failed"}
    BY <2>2, <2>3 DEF Unheard, Answered, At
  <2>5. ~Busy(None)
    BY DEF Busy
  <2>6. Busy(p) <=> p.kind \in {"login", "logout"}
    BY <2>2, <2>4 DEF Busy, RotationSteps, RevocationSteps
  <2>7. CASE p.kind \in {"get", "confirm"} \/ (p.kind = "login" /\ p.step # "ok")
    <3>1. UNCHANGED <<refresh, user>>
      BY <2>2, <2>4, <2>7 DEF Answered, At, browser
    <3>2. p.kind = "login" => Holds
      BY <2>2 DEF CallSeen, Holds
    <3> QED BY <1>1, <1>3, <2>2, <2>4, <2>5, <2>6, <2>7, <3>1, <3>2, SignQuiet
  <2>8. CASE p.kind = "login" /\ p.step = "ok"
    <3>1. refresh' = p.fresh /\ p.fresh # None
      BY <2>2, <2>3, <2>4, <2>8 DEF Answered, At, CallSound
    <3>2. Signed(p) => Signed(None)'
      BY <1>1, <2>2, <2>8, <3>1
         DEF Signed, CallSigned, Marked, Unused, Revoking, Holds, Latest, Opened, Issued
    <3> QED BY <1>1, <1>3, <2>2, <2>5, <2>6, <2>8, <3>2, SignMoves
  <2>9. CASE p.kind = "logout" \/ (p.kind = "me" /\ p.step # "ok")
    <3>1. refresh' = None /\ user' = FALSE
      BY <2>2, <2>3, <2>4, <2>9 DEF Answered, At
    <3>2. \A r \in {p, None} : Signed(r) => Signed(None)'
      BY <1>1, <2>2, <2>4, <3>1
         DEF Signed, Marked, Unused, Revoking, Holds, Latest, Opened, Issued
    <3>3. ASSUME NEW r \in Call \cup {None}, Acts(r), p.kind = "me" PROVE r = None
      BY <2>2, <2>6, <3>3 DEF Acts, CallSeen, Changing, Rotating, Busy
    <3> QED BY <1>1, <1>3, <2>2, <2>5, <2>6, <2>9, <3>2, <3>3, SignMoves
  <2>10. CASE p.kind = "me" /\ p.step = "ok"
    <3>1. UNCHANGED refresh /\ refresh # None
      BY <2>2, <2>3, <2>4, <2>10 DEF Answered, At, CallSeen
    <3>2. Signed(None) => Signed(None)'
      BY <1>1, <3>1
         DEF Signed, Marked, Unused, Revoking, Holds, Latest, Opened, Issued
    <3>3. ASSUME NEW r \in Call \cup {None}, Acts(r) PROVE r = None
      BY <2>2, <2>6, <2>10, <3>3 DEF Acts, CallSeen, Changing, Rotating, Busy
    <3> QED BY <1>1, <1>3, <2>2, <2>5, <2>6, <2>10, <3>2, <3>3, SignMoves
  <2> QED BY <2>7, <2>8, <2>9, <2>10 DEF Call, Kinds
<1> QED BY <1>2, <1>3

LEMMA SignOfRefresh ==
    ASSUME TypeInv, QuietInv, BrowseInv, SignInv, NEW c \in Calls,
           TryRefresh(c) \/ Refreshed(c) \/ NotRefreshed(c)
    PROVE  SignInv'
<1>1. /\ UNCHANGED <<live, family, mark, used, ended, reset, user>>
      /\ smooth' => smooth
  <2>1. UNCHANGED <<live, family, mark, used, ended, reset, user>>
    BY DEF TryRefresh, Refreshed, NotRefreshed, store, history
  <2>2. smooth' => smooth
    BY Zenon DEF TryRefresh, Refreshed, NotRefreshed, Apart, history
  <2> QED BY <2>1, <2>2
<1>2. PICK p \in Call : /\ p = call[c] /\ p # None /\ CallSound(p)
                        /\ p.step \in {"401", "issued", "denied"}
  BY SessionsAssumption
     DEF TryRefresh, Refreshed, NotRefreshed, At, TypeInv, TypeOK, CallsSound
<1>3. CASE TryRefresh(c) /\ refresh = None
  <2>1. Goto(c, "failed") /\ UNCHANGED refresh /\ p.step = "401"
    BY <1>2, <1>3 DEF TryRefresh, At
  <2>2. PICK q \in Call : Puts(c, q) /\ q # None /\ Moved(q, p, "failed")
    BY <1>2, <2>1, GoesTo DEF Steps
  <2>3. /\ Busy(p) <=> p.kind \in {"login", "logout"}
        /\ Busy(q) <=> p.kind \in {"login", "logout"}
    BY <1>2, <2>1, <2>2 DEF Busy, Moved, RotationSteps, RevocationSteps
  <2>4. CallSigned(q)
    BY <2>2 DEF CallSigned, Moved, Replaced, Turns, RotationSteps, RevocationSteps
  <2> QED BY <1>1, <1>2, <2>1, <2>2, <2>3, <2>4, SignQuiet
<1>4. CASE TryRefresh(c) /\ refresh # None
  <2>1. UNCHANGED refresh /\ p.step = "401"
        /\ (smooth' => reset = None /\ \A d \in Calls \ {c} : ~Changing(d))
    BY <1>2, <1>4 DEF TryRefresh, Apart, At
  <2>2. PICK q \in Call : /\ Puts(c, q) /\ q # None /\ q.kind = p.kind
                          /\ q.step = "used" /\ q.token = refresh
    BY <1>2, <1>4, RefreshBegins
  <2>3. Busy(q)
    BY <2>2 DEF Busy, RotationSteps
  <2>4. p.kind # "login" /\ (Busy(p) => p.kind = "logout")
    BY <1>2, <2>1 DEF CallSound, Busy, LoginSteps, RotationSteps, RevocationSteps
  <2>5. p.kind = "logout" => CallSigned(q)
    BY <2>2 DEF CallSigned, Replaced
  <2>6. reset = None /\ Signed(None) => CallSigned(q)
    BY <1>4, <2>2, <2>4, SessionsAssumption DEF Signed, Holds, CallSigned, Replaced, RevocationSteps
  <2> QED BY <1>1, <1>2, <2>1, <2>2, <2>3, <2>4, <2>5, <2>6, SignQuiet
<1>5. CASE Refreshed(c)
  <2>1. refresh' = p.fresh /\ p.fresh # None /\ p.step = "issued"
    BY <1>2, <1>5 DEF Refreshed, At, CallSound, Replaced
  <2>2. PICK q \in Call : Puts(c, q) /\ q # None /\ q.kind = p.kind /\ q.step = "sent"
    BY <1>2, <1>5, RefreshEnds
  <2>3. Busy(p) /\ p.kind # "login" /\ (Busy(q) <=> p.kind = "logout")
    BY <1>2, <2>1, <2>2 DEF Busy, CallSound, LoginSteps, RotationSteps, RevocationSteps
  <2>4. ASSUME Signed(p) PROVE Marked(None)' /\ Unused(None)' /\ Marked(q)' /\ Unused(q)'
    BY <1>1, <1>2, <2>1, <2>4
       DEF Signed, Marked, Unused, Revoking, Opened, Issued
  <2>5. CallSigned(q)'
    BY <2>2, <2>3 DEF CallSigned, Replaced, Turns, RotationSteps, RevocationSteps
  <2>6. p.kind # "logout" /\ Signed(p) => Holds'
    BY <1>1, <1>2, <2>1
       DEF Signed, CallSigned, Replaced, Turns, RotationSteps, Holds, Latest, Opened
  <2> QED BY <1>1, <1>2, <2>2, <2>3, <2>4, <2>5, <2>6, SignMoves DEF Signed
<1>6. CASE NotRefreshed(c)
  <2>1. refresh' = None /\ p.step = "denied" /\ Goto(c, "failed")
    BY <1>2, <1>6 DEF NotRefreshed, At
  <2>2. PICK q \in Call : Puts(c, q) /\ q # None /\ Moved(q, p, "failed")
    BY <1>2, <2>1, GoesTo DEF Steps
  <2>3. Busy(p) /\ p.kind # "login" /\ (Busy(q) <=> p.kind = "logout")
    BY <1>2, <2>1, <2>2 DEF Busy, CallSound, Moved, LoginSteps, RotationSteps, RevocationSteps
  <2>4. ASSUME Signed(p) PROVE Marked(None)' /\ Unused(None)' /\ Marked(q)' /\ Unused(q)'
    BY <1>1, <1>2, <2>1, <2>4
       DEF Signed, Marked, Unused, Revoking, Opened, Issued
  <2>5. CallSigned(q)'
    BY <2>2, <2>3 DEF CallSigned, Moved, Replaced, Turns, RotationSteps, RevocationSteps
  <2>6. p.kind # "logout" /\ Signed(p) => Holds'
    BY <1>1, <1>2, <2>1
       DEF Signed, CallSigned, Turns, RotationSteps, Holds, Latest, Opened
  <2> QED BY <1>1, <1>2, <2>2, <2>3, <2>4, <2>5, <2>6, SignMoves DEF Signed
<1> QED BY <1>3, <1>4, <1>5, <1>6

LEMMA SignOfLook ==
    ASSUME TypeInv, QuietInv, SignInv, NEW c \in Calls, Validate(c) \/ Look(c)
    PROVE  SignInv'
<1>1. UNCHANGED <<live, family, mark, used, ended, reset, refresh, user, smooth>>
  BY DEF Validate, Look, store, serverRest, history, browser
<1>2. PICK p \in Call : p = call[c] /\ p # None /\ CallSound(p)
  BY Serving DEF Server
<1>3. PICK step \in Steps :
          /\ Goto(c, step)
          /\ \/ p.step = "sent" /\ step \in {"401", "logout", "ok", "failed"} /\ (step = "logout" => p.kind = "logout")
             \/ p.step = "used" /\ step = "revoke" /\ p.token \in used
             \/ p.step = "used" /\ step = "get"
             \/ p.step = "get" /\ step = "family"
             \/ p.step = "get" /\ step = "denied" /\ p.token \notin live
             \/ p.step = "family" /\ step = "revoke" /\ mark[family[p.token]] = "1"
             \/ p.step = "family" /\ step = "del"
  BY <1>2 DEF Validate, Look, At, Steps, RotationSteps, RevocationSteps, LogoutSteps
<1>4. PICK q \in Call : /\ Puts(c, q) /\ q # None /\ q.step = step
                        /\ q.kind = p.kind /\ q.token = p.token
  BY <1>2, <1>3, GoesTo DEF Moved
<1>5. /\ Busy(q) <=> Busy(p)
      /\ p.step = "sent" /\ Busy(p) => p.kind = "logout"
  BY <1>2, <1>3, <1>4
     DEF Busy, RotationSteps, RevocationSteps, CallSound, LoginSteps
<1>6. p.step # "sent" => p.kind # "login"
  BY <1>2, <1>3 DEF CallSound, LoginSteps
<1>7. ASSUME Busy(p), reset = None, Kept(p), Signed(p) PROVE CallSigned(q)
  <2>1. CASE p.kind = "logout"
    BY <1>3, <1>4, <2>1 DEF CallSigned, Replaced
  <2>2. CASE p.kind # "logout"
    <3>1. p.step \in {"used", "get", "family"}
      BY <1>3, <1>5, <1>7, <2>2
    <3>2. /\ refresh # None /\ p.token = refresh /\ Latest(family[refresh])
          /\ p.step \in {"used", "get"} => refresh \in live \/ family[refresh] \in ended
      BY <1>2, <1>7, <2>2, <3>1 DEF Signed, CallSigned, Turns, RotationSteps
    <3>3. ~(p.step = "family" /\ mark[family[p.token]] = "1")
      <4>1. p.step = "family" => p.token \in live
        BY <1>2, <1>7 DEF Kept, CallKept
      <4> QED BY <1>2, <1>7, <4>1, SessionsAssumption DEF Signed, Unused, Revoking
    <3>4. p.token \in used => refresh \notin live
      BY <1>7, <3>2 DEF Signed, Unused
    <3> QED BY <1>3, <1>4, <1>6, <3>1, <3>2, <3>3, <3>4
            DEF CallSigned, Replaced, RevocationSteps
  <2> QED BY <2>1, <2>2
<1> QED BY <1>1, <1>2, <1>3, <1>4, <1>5, <1>7, SignQuiet

LEMMA SignOfRotate ==
    ASSUME TypeInv, QuietInv, SignInv, NEW c \in Calls, Rotate(c)
    PROVE  SignInv'
<1>1. UNCHANGED <<reset, smooth, ended, refresh, user>>
  BY DEF Rotate, serverRest, history, browser
<1>2. PICK p \in Call : p = call[c] /\ p # None /\ CallSound(p)
  BY Serving DEF Server
<1>3. Busy(p) /\ p.step \in {"del", "srem", "store", "sadd", "zero", "mark"} /\ p.kind # "login"
  BY <1>2 DEF Rotate, At, Busy, RotationSteps, CallSound, LoginSteps
<1>4. PICK t \in Issued : t = p.token
  BY <1>2 DEF Rotate, At, CallSound, Consuming
<1>5. PICK f \in Families : f = family[t] /\ t \in Tokens
  BY <1>4 DEF Issued
<1>6. /\ live \cup used \subseteq Issued /\ mark \in [Families -> {None, "0", "1"}]
      /\ family \in [Tokens -> Families \cup {None}]
  BY DEF TypeInv, TypeOK
<1>7. ASSUME NEW q \in Call, Puts(c, q), q # None, q.step \in RotationSteps,
             reset = None /\ Kept(p) /\ Signed(p) => Signed(q)'
      PROVE  SignInv'
  <2>1. Busy(q)
    BY <1>7 DEF Busy
  <2> QED BY <1>1, <1>2, <1>3, <1>7, <2>1, SignMoves
<1>8. ASSUME Signed(p), reset = None
      PROVE  /\ \A s \in live : s \notin used /\ mark[family[s]] # "1"
             /\ Marked(None) /\ CallSigned(p)
             /\ p.kind # "logout" => refresh # None /\ p.token = refresh /\ Latest(family[refresh])
  <2>1. \A g : ~Revoking(p, g)
    BY <1>3, <1>8, SessionsAssumption DEF Revoking
  <2> QED BY <1>2, <1>3, <1>8, <2>1
          DEF Signed, Unused, Marked, CallSigned, Turns, RotationSteps
<1>9. ASSUME NEW step \in RotationSteps, Goto(c, step), UNCHANGED family,
             reset = None /\ Kept(p) /\ Signed(p) => Marked(None)' /\ Unused(None)',
             step \in {"srem", "store", "zero", "mark", "issued"},
             reset = None /\ Kept(p) /\ Signed(p) /\ step \in {"srem", "store"} => mark'[f] # "1",
             reset = None /\ Kept(p) /\ Signed(p) /\ step # "issued" => t \notin live',
             reset = None /\ Kept(p) /\ Signed(p) /\ step \in Replaced => 
                p.fresh \in live' /\ family[p.fresh] = f
      PROVE  SignInv'
  <2>1. PICK q \in Call : Puts(c, q) /\ q # None /\ Moved(q, p, step)
    BY <1>2, <1>9, GoesTo DEF Steps
  <2>2. ASSUME reset = None, Kept(p), Signed(p) PROVE Signed(q)'
    <3>1. CallSigned(q)'
      BY <1>1, <1>3, <1>4, <1>5, <1>8, <1>9, <2>1, <2>2
         DEF CallSigned, Moved, Latest, Opened, Replaced, RevocationSteps
    <3>2. Marked(q)' /\ Unused(q)'
      BY <1>9, <2>2 DEF Marked, Unused, Revoking
    <3> QED BY <2>1, <3>1, <3>2 DEF Signed
  <2> QED BY <1>7, <1>9, <2>1, <2>2 DEF Moved
<1>10. CASE At(c, "del")
  <2>1. Goto(c, "srem") /\ live' = live \ {t} /\ UNCHANGED <<family, mark, used>> /\ p.step = "del"
    BY <1>2, <1>4, <1>10 DEF Rotate, At
  <2>2. ASSUME reset = None, Kept(p), Signed(p) PROVE Marked(None)' /\ Unused(None)' /\ mark'[f] # "1"
    <3>1. t \in live
      BY <1>2, <1>4, <2>1, <2>2 DEF Kept, CallKept
    <3> QED BY <1>5, <1>8, <2>1, <2>2, <3>1 DEF Marked, Unused, Opened, Issued
  <2> QED BY <1>9, <2>1, <2>2 DEF RotationSteps, Replaced
<1>11. CASE At(c, "srem")
  <2>1. Goto(c, "store") /\ UNCHANGED <<live, family, mark, used>> /\ p.step = "srem"
    BY <1>2, <1>4, <1>11 DEF Rotate, At
  <2>2. ASSUME reset = None, Kept(p), Signed(p)
        PROVE  Marked(None)' /\ Unused(None)' /\ mark'[f] # "1" /\ t \notin live'
    BY <1>4, <1>5, <1>8, <2>1, <2>2 DEF Marked, Unused, Opened, Issued, CallSigned
  <2> QED BY <1>9, <2>1, <2>2 DEF RotationSteps, Replaced
<1>12. CASE At(c, "store")
  <2>1. PICK n \in Tokens : n = NewToken /\ family[n] = None
    BY <1>12, NewTokenIsFresh DEF Rotate, At
  <2>2. /\ GotoWithToken(c, "sadd", n) /\ p.step = "store"
        /\ live' = live \cup {n} /\ family' = [family EXCEPT ![n] = f]
        /\ UNCHANGED <<mark, used>>
    BY <1>2, <1>4, <1>5, <1>12, <2>1 DEF Rotate, At, GotoWithToken
  <2>3. n \notin Issued /\ Keeps /\ family'[n] = f /\ Issued' = Issued \cup {n}
    BY <2>1, <2>2, TokenIssued
  <2>4. PICK q \in Call :
              /\ Puts(c, q) /\ q # None /\ q.step = "sadd" /\ q.fresh = n /\ q.token = p.token
              /\ q.kind = p.kind
    <3>1. "sadd" \in Steps
      BY DEF Steps, RotationSteps
    <3> QED BY <1>2, <2>2, <3>1, GoesWithToken
  <2>5. ASSUME reset = None, Kept(p), Signed(p)
        PROVE  Signed(q)'
    <3>1. \A g \in Families : Opened(g)' <=> Opened(g)
      BY <1>5, <1>6, <2>1, <2>2, SessionsAssumption DEF Opened
    <3>2. mark[f] # "1" /\ mark[f] # None /\ t \notin live
      BY <1>4, <1>5, <1>8, <2>2, <2>5 DEF CallSigned, Marked
    <3>3. Marked(q)'
      BY <1>4, <1>5, <1>8, <2>2, <2>3, <2>5, <3>1, <3>2 DEF Marked, Keeps
    <3>4. Unused(q)'
      BY <1>6, <1>8, <2>2, <2>3, <2>5, <3>2 DEF Unused, Keeps
    <3>5. p.kind # "logout" => refresh \in Issued
      BY <1>4, <1>8, <2>5
    <3>6. p.kind # "logout" => Latest(family[refresh])'
      BY <1>1, <1>8, <2>3, <2>5, <3>1, <3>5 DEF Latest, Keeps
    <3>7. CallSigned(q)'
      BY <1>1, <1>3, <1>4, <1>5, <1>8, <2>2, <2>3, <2>4, <2>5, <3>2, <3>6
         DEF CallSigned, RevocationSteps, Keeps
    <3> QED BY <2>4, <3>3, <3>4, <3>7 DEF Signed
  <2> QED BY <1>7, <2>4, <2>5 DEF RotationSteps
<1>13. CASE At(c, "sadd")
  <2>1. Goto(c, "zero") /\ UNCHANGED <<live, family, mark, used>> /\ p.step = "sadd"
    BY <1>2, <1>4, <1>13 DEF Rotate, At
  <2>2. ASSUME reset = None, Kept(p), Signed(p)
        PROVE  Marked(None)' /\ Unused(None)' /\ t \notin live' /\ p.fresh \in live' /\ family[p.fresh] = f
    BY <1>4, <1>5, <1>8, <2>1, <2>2 DEF Marked, Unused, Opened, Issued, CallSigned, Replaced
  <2> QED BY <1>9, <2>1, <2>2 DEF RotationSteps
<1>14. CASE At(c, "zero")
  <2>1. /\ Goto(c, "mark") /\ mark' = [mark EXCEPT ![f] = "0"]
        /\ UNCHANGED <<live, family, used>> /\ p.step = "zero"
    BY <1>2, <1>4, <1>5, <1>14 DEF Rotate, At
  <2>2. ASSUME reset = None, Kept(p), Signed(p)
        PROVE  t \notin live' /\ p.fresh \in live' /\ family[p.fresh] = f
    BY <1>4, <1>5, <1>8, <2>1, <2>2 DEF CallSigned, Replaced
  <2>3. ASSUME reset = None, Kept(p), Signed(p)
        PROVE  Marked(None)'
    <3>1. Opened(f)
      BY <1>5 DEF Opened
    <3> QED BY <1>6, <1>8, <2>1, <2>3, <3>1, SessionsAssumption DEF Marked, Opened, Issued
  <2>4. ASSUME reset = None, Kept(p), Signed(p)
        PROVE  Unused(None)'
    BY <1>6, <1>8, <2>1, <2>4 DEF Unused
  <2> QED BY <1>9, <2>1, <2>2, <2>3, <2>4 DEF RotationSteps
<1>15. CASE At(c, "mark")
  <2>1. /\ Goto(c, "issued") /\ used' = used \cup {t}
        /\ UNCHANGED <<live, family, mark>> /\ p.step = "mark"
    BY <1>2, <1>4, <1>15 DEF Rotate, At
  <2>2. ASSUME reset = None, Kept(p), Signed(p)
        PROVE  Marked(None)' /\ Unused(None)' /\ p.fresh \in live' /\ family[p.fresh] = f
    BY <1>4, <1>5, <1>8, <2>1, <2>2 DEF Marked, Unused, Opened, Issued, CallSigned, Replaced
  <2> QED BY <1>9, <2>1, <2>2 DEF RotationSteps
<1> QED BY <1>10, <1>11, <1>12, <1>13, <1>14, <1>15 DEF Rotate

LEMMA SignOfRevoke ==
    ASSUME TypeInv, QuietInv, SignInv, NEW c \in Calls, Revoke(c)
    PROVE  SignInv'
<1>1. UNCHANGED <<reset, smooth, family, used, refresh, user>>
  BY DEF Revoke, serverRest, browser
<1>2. PICK p \in Call : p = call[c] /\ p # None /\ CallSound(p)
  BY Serving DEF Server
<1>3. PICK q \in Call, f \in Families :
              /\ f = family[p.token] /\ p.gang \in SUBSET Tokens
              /\ Puts(c, q) /\ q # None /\ q.step = After(p.step, "denied")
              /\ q.token = p.token /\ q.kind = p.kind
  BY <1>2, Revocation
<1>4. /\ p.step \in RevocationSteps /\ RevokeStep(p.step, f, p.gang)
      /\ ended \subseteq ended'
  BY <1>2, <1>3 DEF Revoke
<1>5. Busy(p) /\ Busy(q) /\ p.kind # "login"
  BY <1>2, <1>3, <1>4
     DEF Busy, After, RotationSteps, RevocationSteps, CallSound, LoginSteps
<1>6. /\ live \subseteq Issued /\ mark \in [Families -> {None, "0", "1"}]
      /\ \A t \in live : family[t] \in Families
  BY DEF TypeInv, TypeOK, Issued
<1>7. p.token \in Tokens
  BY <1>2, <1>4 DEF CallSound, Consuming, RevocationSteps, Issued
<1>8. ASSUME reset = None, Kept(p), Signed(p)
      PROVE  Signed(q)'
  <2>1. /\ \A t \in live : /\ t \notin used
                           /\ mark[family[t]] = "1" => p.step \in {"gang", "purge"} /\ family[t] = f
    BY <1>3, <1>8, SessionsAssumption DEF Signed, Unused, Revoking
  <2>2. Marked(None) /\ CallSigned(p)
    BY <1>2, <1>4, <1>8 DEF Signed, Marked, RevocationSteps
  <2>3. CallSigned(q)'
    BY <1>1, <1>3, <1>4, <1>5, <2>2
       DEF CallSigned, After, Replaced, Turns, RevocationSteps, RotationSteps, Latest, Opened
  <2>4. CASE p.step = "revoke"
    <3>1. UNCHANGED live /\ mark' = [mark EXCEPT ![f] = "1"] /\ q.step = "gang"
      BY <1>3, <1>4, <2>4 DEF RevokeStep, After
    <3>2. Opened(f)
      BY <1>3, <1>7 DEF Opened
    <3>3. Marked(q)'
      BY <1>1, <1>6, <2>2, <3>1, <3>2, SessionsAssumption DEF Marked, Opened, Issued
    <3>4. Unused(q)'
      BY <1>1, <1>3, <1>6, <2>1, <2>4, <3>1 DEF Unused, Revoking
    <3> QED BY <1>3, <2>3, <3>3, <3>4 DEF Signed
  <2>5. CASE p.step # "revoke"
    <3>1. /\ UNCHANGED mark /\ live' \subseteq live
          /\ p.step = "gang" => q.step = "purge"
      BY <1>3, <1>4, <2>5 DEF RevokeStep, After
    <3>2. p.step = "purge" => \A t \in live' : family[t] # f
      BY <1>2, <1>3, <1>4, <1>8 DEF Kept, CallKept, Revokes, RevokeStep
    <3>3. Marked(q)'
      BY <1>1, <2>2, <3>1 DEF Marked, Opened, Issued
    <3>4. Unused(q)'
      BY <1>1, <1>3, <2>1, <3>1, <3>2 DEF Unused, Revoking
    <3> QED BY <1>3, <2>3, <3>3, <3>4 DEF Signed
  <2> QED BY <2>4, <2>5
<1> QED BY <1>1, <1>2, <1>3, <1>5, <1>8, SignMoves

LEMMA SignOfIssue ==
    ASSUME TypeInv, QuietInv, SignInv, NEW c \in Calls, Issue(c)
    PROVE  SignInv'
<1>1. UNCHANGED <<reset, smooth, ended, refresh, user, used>>
  BY DEF Issue, serverRest, history, browser
<1>2. PICK p \in Call : p = call[c] /\ p # None /\ CallSound(p)
  BY Serving DEF Server
<1>3. p.kind = "login" /\ Busy(p) /\ p.step \in {"new", "newZero", "newSadd"}
  BY <1>2 DEF Issue, At, Busy, CallSound, LoginSteps
<1>4. /\ live \cup used \subseteq Issued /\ mark \in [Families -> {None, "0", "1"}]
      /\ family \in [Tokens -> Families \cup {None}]
  BY DEF TypeInv, TypeOK
<1>5. ASSUME NEW q \in Call, Puts(c, q), q # None, q.kind = "login",
             reset = None /\ Kept(p) /\ Signed(p) => Signed(q)'
      PROVE  SignInv'
  <2>1. Busy(q)
    BY <1>5 DEF Busy
  <2> QED BY <1>1, <1>2, <1>3, <1>5, <2>1, SignMoves
<1>6. ASSUME Signed(p), reset = None
      PROVE  /\ \A s \in live : s \notin used /\ mark[family[s]] # "1"
             /\ Marked(p) /\ CallSigned(p)
  <2>1. \A g : ~Revoking(p, g)
    BY <1>3, <1>6, SessionsAssumption DEF Revoking
  <2> QED BY <1>2, <1>6, <2>1 DEF Signed, Unused
<1>7. CASE At(c, "new")
  <2>1. PICK n \in Tokens : n = NewToken /\ family[n] = None
    BY <1>7, NewTokenIsFresh DEF Issue, At
  <2>2. PICK f \in NewFamily : family' = [family EXCEPT ![n] = f] /\ \A g \in NewFamily : f <= g
    BY <1>7, <2>1 DEF Issue, At
  <2>3. f \in Families /\ mark[f] = None /\ ~Opened(f)
    BY DEF NewFamily, Opened
  <2>4. /\ GotoWithToken(c, "newZero", n) /\ live' = live \cup {n} /\ UNCHANGED mark /\ p.step = "new"
    BY <1>2, <1>7, <2>1 DEF Issue, At, GotoWithToken
  <2>5. n \notin Issued /\ Keeps /\ family'[n] = f /\ Issued' = Issued \cup {n}
    BY <2>1, <2>2, <2>3, TokenIssued
  <2>6. PICK q \in Call :
              /\ Puts(c, q) /\ q # None /\ q.step = "newZero" /\ q.fresh = n /\ q.kind = p.kind
    <3>1. "newZero" \in Steps
      BY DEF Steps, LoginSteps
    <3> QED BY <1>2, <2>4, <3>1, GoesWithToken
  <2>7. ASSUME reset = None, Kept(p), Signed(p)
        PROVE  Signed(q)'
    <3>1. \A g \in Families : Opened(g)' <=> Opened(g) \/ g = f
      BY <1>4, <2>1, <2>2, <2>3, SessionsAssumption DEF Opened
    <3>2. \A g \in Families : g < f => Opened(g)
      <4> SUFFICES ASSUME NEW g \in Families, g < f PROVE Opened(g)
        OBVIOUS
      <4>1. g \notin NewFamily
        BY <2>2, <2>3, SessionsAssumption DEF Families
      <4>2. mark[g] # None \/ Opened(g)
        BY <4>1 DEF NewFamily, Opened
      <4> QED BY <1>6, <2>7, <4>2 DEF Marked
    <3>3. \A g \in Families : Opened(g) => g < f
      <4> SUFFICES ASSUME NEW g \in Families, Opened(g) PROVE g < f
        OBVIOUS
      <4>1. PICK t \in Issued : family[t] = g
        BY DEF Opened, Issued
      <4>2. ~(f < g)
        BY <1>6, <2>3, <2>7, <4>1 DEF Marked
      <4>3. f \in Nat /\ g \in Nat /\ g # f
        BY <2>3, SessionsAssumption DEF Families
      <4> QED BY <4>2, <4>3
    <3>4. \A t \in Issued : family'[t] = family[t] /\ family[t] \in Families /\ mark[family[t]] # None
      BY <1>6, <2>4, <2>5, <2>7 DEF Marked, Keeps, Issued
    <3>5. Marked(q)'
      <4>1. \A t \in Issued', g \in Families : g < family'[t] => Opened(g)'
        BY <1>6, <2>5, <2>7, <3>1, <3>2, <3>4 DEF Marked
      <4>2. \A g \in Families : mark'[g] # None => Opened(g)'
        BY <1>6, <2>4, <2>7, <3>1 DEF Marked
      <4>3. \A t \in Issued' : mark'[family'[t]] = None => family'[t] = family'[n]
        BY <2>4, <2>5, <3>4
      <4> QED BY <2>6, <4>1, <4>2, <4>3 DEF Marked
    <3>6. Unused(q)'
      BY <1>1, <1>4, <1>6, <2>3, <2>4, <2>5, <2>7, <3>4, SessionsAssumption DEF Unused
    <3>7. Latest(f)'
      <4>1. \A g \in Families : Opened(g)' => g <= f
        BY <2>3, <3>1, <3>3, SessionsAssumption DEF Families
      <4> QED BY <2>3, <3>1, <4>1 DEF Latest
    <3>8. CallSigned(q)'
      BY <1>3, <2>4, <2>5, <2>6, <3>7
         DEF CallSigned, Replaced, Turns, RotationSteps, RevocationSteps
    <3> QED BY <2>6, <3>5, <3>6, <3>8 DEF Signed
  <2> QED BY <1>3, <1>5, <2>6, <2>7
<1>8. CASE At(c, "newZero") \/ At(c, "newSadd")
  <2>1. PICK g \in Families : g = family[p.fresh]
    BY <1>2, <1>8 DEF At, CallSound, Issued
  <2>2. PICK step \in {"newSadd", "ok"} :
           /\ Goto(c, step) /\ UNCHANGED <<live, family>>
           /\ \/ p.step = "newZero" /\ mark' = [mark EXCEPT ![g] = "0"]
              \/ p.step = "newSadd" /\ UNCHANGED mark
    BY <1>2, <1>8, <2>1 DEF Issue, At
  <2>3. PICK q \in Call : Puts(c, q) /\ q # None /\ Moved(q, p, step)
    BY <1>2, <2>2, GoesTo DEF Steps, LoginSteps
  <2>4. ASSUME reset = None, Kept(p), Signed(p)
        PROVE  Signed(q)'
    <3>1. Opened(g)
      BY <1>2, <2>1, <2>2 DEF Opened, CallSound, Issued
    <3>2. \A h : Opened(h)' <=> Opened(h)
      BY <2>2 DEF Opened
    <3>3. /\ \A h \in Families : mark'[h] # None => mark[h] # None \/ h = g
          /\ \A h \in Families : mark'[h] = None => mark[h] = None /\ (p.step = "newZero" => h # g)
          /\ \A h \in Families : mark'[h] = "1" => mark[h] = "1"
      BY <1>4, <2>2, SessionsAssumption
    <3>4. Issued' = Issued /\ \A t \in Issued : family[t] \in Families
      BY <2>2 DEF Issued
    <3>5. Marked(q)'
      <4>1. \A t \in Issued, h \in Families : h < family[t] => Opened(h)'
        BY <1>6, <2>4, <3>2 DEF Marked
      <4>2. \A h \in Families : mark'[h] # None => Opened(h)'
        BY <1>6, <2>4, <3>1, <3>2, <3>3 DEF Marked
      <4>3. \A t \in Issued : mark'[family[t]] # None
        BY <1>6, <2>1, <2>2, <2>4, <3>3, <3>4 DEF Marked
      <4> QED BY <2>2, <3>4, <4>1, <4>2, <4>3 DEF Marked
    <3>6. Unused(q)'
      BY <1>1, <1>4, <1>6, <2>2, <2>4, <3>3, <3>4 DEF Unused
    <3>7. CallSigned(q)'
      BY <1>3, <1>6, <2>2, <2>3, <2>4, <3>2
         DEF CallSigned, Moved, Latest, Replaced, Turns, RotationSteps, RevocationSteps
    <3> QED BY <2>3, <3>5, <3>6, <3>7 DEF Signed
  <2> QED BY <1>3, <1>5, <2>3, <2>4 DEF Moved
<1> QED BY <1>7, <1>8 DEF Issue

LEMMA SignOfRevokeOne ==
    ASSUME TypeInv, QuietInv, SignInv, NEW c \in Calls, RevokeOne(c)
    PROVE  SignInv'
<1>1. /\ UNCHANGED <<reset, smooth, ended, family, mark, used, refresh, user>> /\ live' \subseteq live
  BY DEF RevokeOne, serverRest, history, browser
<1>2. PICK p \in Call : p = call[c] /\ p # None /\ CallSound(p)
  BY Serving DEF Server
<1>3. p.kind = "logout" /\ p.step \in LogoutSteps /\ Busy(p)
  BY <1>2 DEF RevokeOne, At, Busy, CallSound, LogoutSteps
<1>4. ASSUME NEW q \in Call, Puts(c, q), q # None, q.kind = "logout",
             q.step \in LogoutSteps \cup {"ok"}
      PROVE  SignInv'
  <2>1. Busy(q)
    BY <1>4 DEF Busy
  <2>2. ASSUME reset = None, Signed(p) PROVE Signed(q)'
    <3>1. Marked(q)' /\ Unused(q)'
      BY <1>1, <1>2, <1>3, <2>2, SessionsAssumption
         DEF Signed, Marked, Unused, Revoking, Opened, Issued, LogoutSteps
    <3>2. CallSigned(q)'
      BY <1>4 DEF CallSigned, LogoutSteps, Replaced
    <3> QED BY <1>4, <3>1, <3>2 DEF Signed
  <2> QED BY <1>1, <1>2, <1>3, <1>4, <2>1, <2>2, SignMoves
<1>5. CASE At(c, "logout")
  <2>1. PICK gang \in SUBSET Tokens, step \in Steps :
           gang = live \cap {p.body} /\ step = "logoutDel"
    BY DEF TypeInv, TypeOK, Steps, LogoutSteps
  <2>2. GotoWithGang(c, step, gang)
    BY <1>2, <1>5, <2>1 DEF RevokeOne, At, GotoWithGang
  <2>3. PICK q \in Call : Puts(c, q) /\ q # None /\ q.step = "logoutDel" /\ q.kind = p.kind
    BY <1>2, <2>1, <2>2, GoesWithGang
  <2> QED BY <1>3, <1>4, <2>3 DEF LogoutSteps
<1>6. CASE ~At(c, "logout")
  <2>1. PICK step \in {"ok", "logoutSrem"} : Goto(c, step)
    BY <1>6 DEF RevokeOne
  <2>2. PICK q \in Call : Puts(c, q) /\ q # None /\ Moved(q, p, step)
    BY <1>2, <2>1, GoesTo DEF Steps, LogoutSteps
  <2> QED BY <1>3, <1>4, <2>1, <2>2 DEF LogoutSteps, Moved
<1> QED BY <1>5, <1>6

\* A step of the reset, with no call that changes the session.
LEMMA SignSweeps ==
    ASSUME QuietInv, SignInv, UNCHANGED call, smooth' => smooth,
           smooth' => \A d \in Calls : ~Changing(d),
           smooth' /\ Kept(None) /\ Signed(None) => Signed(None)'
    PROVE  SignInv'
<1>1. \A d \in Calls : Changing(d)' <=> Changing(d)
  BY DEF Changing, Rotating
<1>2. smooth' => Acts(None) /\ \A r : Acts(r)' => r = None
  BY <1>1 DEF Acts
<1> QED BY <1>2 DEF SignInv, QuietInv, EndInv

LEMMA SignOfReset ==
    ASSUME TypeInv, QuietInv, SignInv, Reset \/ Scan \/ ResetRevokes \/ ResetFails
    PROVE  SignInv'
<1>1. UNCHANGED <<call, family, used, refresh, user>>
  BY DEF Reset, Scan, ResetRevokes, ResetFails, store, browser
<1>2. /\ live \subseteq Issued /\ mark \in [Families -> {None, "0", "1"}]
      /\ \A t \in live : family[t] \in Families
  BY DEF TypeInv, TypeOK, Issued
<1>3. CASE Reset
  <2>1. UNCHANGED <<live, mark, ended>> /\ reset = None /\ (smooth' => smooth)
        /\ (smooth' => \A d \in Calls : ~Changing(d))
    BY <1>3 DEF Reset, Apart, store
  <2>2. PICK r \in Sweep : reset' = r /\ r.step = "scan"
    BY <1>3, ResetEffect
  <2>3. Signed(None) => Signed(None)'
    BY <1>1, <2>1, <2>2, SessionsAssumption
       DEF Signed, Marked, Unused, Revoking, Holds, Latest, Opened, Issued
  <2> QED BY <1>1, <2>1, <2>3, SignSweeps
<1>4. CASE ResetFails
  BY <1>4 DEF ResetFails, Apart, SignInv
<1>5. ASSUME Scan \/ ResetRevokes
      PROVE  /\ smooth' => smooth
             /\ smooth' => \A d \in Calls : ~Changing(d)
  <2>1. smooth' => smooth
    BY <1>5, Zenon DEF Scan, ResetRevokes, history
  <2>2. reset # None
    BY <1>5 DEF Scan, ResetRevokes
  <2> QED BY <2>1, <2>2 DEF QuietInv, EndInv, Lone
<1>6. CASE Scan
  <2>1. UNCHANGED <<live, mark>>
    BY <1>6 DEF Scan, store
  <2>2. PICK p \in Sweep : p = reset /\ p # None /\ p.step = "scan"
    BY <1>6, ScanEffect
  <2>3. ASSUME Signed(None), NEW q \in Sweep, reset' = q, q # None, q.doomed = p.doomed
        PROVE  Signed(None)'
    <3>1. UNCHANGED ended
      BY <1>6, <2>3 DEF Scan
    <3>2. Marked(None)' /\ Unused(None)'
      BY <1>1, <2>1, <2>2, <2>3 DEF Signed, Marked, Unused, Revoking, Opened, Issued
    <3>3. Holds'
      BY <1>1, <2>1, <2>2, <2>3, <3>1 DEF Signed, Holds, Latest, Opened
    <3> QED BY <3>2, <3>3 DEF Signed
  <2>4. ASSUME Signed(None), reset' = None
        PROVE  Signed(None)'
    <3>1. ended' = ended \cup p.doomed
      BY <1>6, <2>2, <2>4 DEF Scan
    <3>2. Marked(None)' /\ Unused(None)'
      BY <1>1, <2>1, <2>2, <2>4 DEF Signed, Marked, Unused, Revoking, Opened, Issued
    <3>3. Holds'
      BY <1>1, <2>1, <2>2, <2>4, <3>1 DEF Signed, Holds, Latest, Opened
    <3> QED BY <3>2, <3>3 DEF Signed
  <2>5. Signed(None) => Signed(None)'
    BY <1>6, <2>2, <2>3, <2>4, ScanEffect
  <2> QED BY <1>1, <1>5, <1>6, <2>5, SignSweeps
<1>7. CASE ResetRevokes
  <2>1. UNCHANGED ended
    BY <1>7 DEF ResetRevokes, history
  <2>2. PICK p \in Sweep, q \in Sweep, f \in Families :
              /\ p = reset /\ p # None /\ p.step \in RevocationSteps
              /\ p.token \in Issued /\ f = family[p.token]
              /\ RevokeStep(p.step, f, p.gang)
              /\ reset' = q /\ q # None
              /\ q.step = After(p.step, "scan")
              /\ q.token = (IF p.step = "drop" THEN None ELSE p.token)
              /\ q.doomed = p.doomed
    BY <1>7, ResetRevokesEffect
  <2>3. ASSUME Kept(None), Signed(None)
        PROVE  Signed(None)'
    <3>1. SweepKept(p)
      BY <2>2, <2>3 DEF Kept
    <3>2. \A t \in live : /\ t \notin used
                          /\ mark[family[t]] = "1" => p.step \in {"gang", "purge"} /\ family[t] = f
      BY <2>2, <2>3 DEF Signed, Unused, Revoking
    <3>3. live' \subseteq live
      BY <2>2 DEF RevokeStep
    <3>4. Holds'
      BY <1>1, <2>1, <2>2, <2>3, <3>1 DEF Signed, Holds, Latest, Opened, SweepKept
    <3>5. CASE p.step = "revoke"
      <4>1. UNCHANGED live /\ mark' = [mark EXCEPT ![f] = "1"] /\ q.step = "gang" /\ q.token = p.token
        BY <2>2, <3>5 DEF RevokeStep, After
      <4>2. Opened(f)
        BY <2>2 DEF Opened, Issued
      <4>3. Marked(None)'
        BY <1>1, <1>2, <2>3, <4>1, <4>2, SessionsAssumption DEF Signed, Marked, Opened, Issued
      <4>4. Unused(None)'
        BY <1>1, <1>2, <2>2, <3>2, <3>5, <4>1 DEF Unused, Revoking
      <4> QED BY <3>4, <4>3, <4>4 DEF Signed
    <3>6. CASE p.step # "revoke"
      <4>1. /\ UNCHANGED mark
            /\ p.step = "gang" => q.step = "purge" /\ q.token = p.token
        BY <2>2, <3>6 DEF RevokeStep, After
      <4>2. p.step = "purge" => \A t \in live' : family[t] # f
        BY <2>2, <3>1 DEF SweepKept, Revokes, RevokeStep
      <4>3. Marked(None)'
        BY <1>1, <2>3, <4>1 DEF Signed, Marked, Opened, Issued
      <4>4. Unused(None)'
        BY <1>1, <2>2, <3>2, <3>3, <4>1, <4>2 DEF Unused, Revoking
      <4> QED BY <3>4, <4>3, <4>4 DEF Signed
    <3> QED BY <3>5, <3>6
  <2> QED BY <1>1, <1>5, <1>7, <2>3, SignSweeps
<1> QED BY <1>3, <1>4, <1>6, <1>7

LEMMA SignInit == Init => SignInv
<1> SUFFICES ASSUME Init PROVE SignInv
  OBVIOUS
<1>1. \A c \in Calls : ~Changing(c)
  BY DEF Init, Changing, Rotating
<1>2. \A r : Acts(r) => r = None
  BY <1>1 DEF Acts
<1>3. Signed(None)
  BY SessionsAssumption DEF Init, Signed, Marked, Unused, Holds, Issued
<1> QED BY <1>2, <1>3 DEF SignInv

LEMMA SignStep ==
    TypeInv /\ QuietInv /\ BrowseInv /\ SignInv /\ [Next]_authVars => SignInv'
<1> SUFFICES ASSUME TypeInv, QuietInv, BrowseInv, SignInv, [Next]_authVars PROVE SignInv'
  OBVIOUS
<1>1. CASE UNCHANGED authVars \/ AccessExpires
  <2>1. UNCHANGED <<call, live, family, mark, used, ended, reset, refresh, user>> /\ (smooth' => smooth)
    BY <1>1 DEF authVars, AccessExpires, store, history, browser
  <2> QED BY <2>1, SignSame
<1>2. ASSUME NEW c \in Calls, Server(c) PROVE SignInv'
  BY <1>2, SignOfLook, SignOfRotate, SignOfRevoke, SignOfIssue, SignOfRevokeOne DEF Server
<1>3. ASSUME NEW c \in Calls, Client(c) PROVE SignInv'
  BY <1>3, SignOfAnswered, SignOfRefresh DEF Client
<1> QED BY <1>1, <1>2, <1>3, SignOfBegin, SignOfReload, SignOfBreaks, SignOfReset DEF Next

\* Nobody is signed out by a call that finds the access token expired: at
\* rest, whoever is signed in holds a refresh token that works and that its
\* session knows, or the session was ended; whoever is not holds none.
THEOREM SignedInForGood == Spec => []StaysSignedIn
<1>1. TypeInv /\ QuietInv /\ BrowseInv /\ SignInv => StaysSignedIn
  <2> SUFFICES ASSUME TypeInv, QuietInv, BrowseInv, SignInv, smooth, AtRest
               PROVE  IF user THEN Usable(refresh) \/ Current \in ended ELSE refresh = None
    BY DEF StaysSignedIn
  <2>1. reset = None /\ Acts(None) /\ ~Loading
    BY DEF AtRest, Acts, Changing, Rotating, Loading
  <2>2. Kept(None) /\ Signed(None) /\ Browsing
    BY <2>1 DEF QuietInv, EndInv, SignInv, BrowseInv
  <2>3. \A f \in Families : mark[f] # None <=> Opened(f)
    BY <2>2 DEF Signed, Marked, Opened, Issued
  <2>4. ASSUME NEW f, Latest(f) PROVE Current = f
    <3>1. f \in Families /\ mark[f] # None /\ \A g \in Families : mark[g] # None => g <= f
      BY <2>3, <2>4 DEF Latest
    <3>2. PICK g : g = Current
      OBVIOUS
    <3>3. g \in Families /\ mark[g] # None /\ \A h \in Families : mark[h] # None => h <= g
      BY <3>1, <3>2, Zenon DEF Current
    <3>4. f <= g /\ g <= f /\ f \in Nat /\ g \in Nat
      BY <3>1, <3>3, SessionsAssumption DEF Families
    <3>5. f = g
      BY <3>4
    <3> QED BY <3>2, <3>5
  <2>5. CASE ~user
    BY <2>1, <2>2, <2>5 DEF Browsing
  <2>6. CASE user /\ refresh = None
    BY <2>2, <2>4, <2>6 DEF Signed, Holds
  <2>7. CASE user /\ refresh # None
    <3>1. /\ Latest(family[refresh])
          /\ refresh \in live \/ family[refresh] \in ended
      BY <2>1, <2>2, <2>7, SessionsAssumption DEF Signed, Holds
    <3>2. CASE refresh \in live
      <4>1. refresh \in members[family[refresh]]
        BY <2>2, <3>2 DEF Kept, Issuing
      <4> QED BY <2>7, <3>2, <4>1 DEF Usable
    <3>3. CASE family[refresh] \in ended
      BY <2>4, <2>7, <3>1, <3>3
    <3> QED BY <3>1, <3>2, <3>3
  <2> QED BY <2>5, <2>6, <2>7
<1> QED BY <1>1, InitTypes, TypesStep, QuietInit, QuietStep, BrowseInit, BrowseStep, SignInit, SignStep,
           PTL DEF Spec
=============================================================================
