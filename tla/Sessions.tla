------------------------------ MODULE Sessions ------------------------------
(***************************************************************************)
(* The session of one user: the refresh tokens in Redis                    *)
(* (RefreshTokenService), the endpoints of AuthService that issue, rotate  *)
(* and revoke them, and the browser that holds them (api, tryRefresh and   *)
(* AuthContext of the web client).  A rotation is a series of Redis        *)
(* commands; every command is a step of its own, and any of them may fail. *)
(* All calls of the browser share one pair of tokens.  An access token has *)
(* the number of the refresh token it was issued with.  Lifetimes of Redis *)
(* keys are left out: they are those of the tokens.                        *)
(***************************************************************************)
EXTENDS Naturals, FiniteSets

CONSTANTS
    Calls,          \* slots for requests of the browser
    Watched,        \* one of them, all being alike, for the liveness property
    MaxTokens,      \* bound: refresh tokens issued
    MaxFamilies,    \* bound: logins
    MaxRefusals,    \* bound: access tokens that expire, or that are valid
                    \* and answered with 401 by a handler
    None

Tokens   == 1 .. MaxTokens
Families == 1 .. MaxFamilies

VARIABLES
    live,       \* os:refresh:<hash>: the tokens that can be used
    family,     \* family[t]: in the session stored with t, None before
    mark,       \* os:refresh_family:<f>: None, "0" or "1"
    members,    \* os:refresh_family_members:<f>
    used        \* os:refresh_used:<hash>

VARIABLES
    access, refresh,    \* localStorage
    user,               \* AuthContext has a user
    call,               \* call[c]: a request of the browser
    reset,              \* the password reset under way
    expired,            \* expired access tokens
    refusals            \* how often that happened

VARIABLES               \* history, read by no action but in the bound MayBegin
    apart,      \* no rotation met another one or a revocation, nothing failed
    smooth,     \* and no answer that changes the session was lost
    ended       \* families whose end was completed: revoked, or reset

store    == <<live, family, mark, members, used>>
browser  == <<access, refresh, user>>
history  == <<apart, smooth, ended>>
authVars == <<store, browser, call, reset, expired, refusals, history>>

RotationSteps   == {"used", "get", "family", "del", "srem", "store", "sadd", "zero", "mark",
                    "issued", "denied"}
RevocationSteps == {"revoke", "gang", "purge", "drop"}
LoginSteps      == {"new", "newZero", "newSadd"}
LogoutSteps     == {"logout", "logoutDel", "logoutSrem"}
Kinds == {"get", "confirm", "me", "login", "logout"}
Steps == RotationSteps \cup RevocationSteps \cup LoginSteps \cup LogoutSteps
         \cup {"sent", "401", "ok", "failed"}

\* confirm: confirmEmailChange of a code that is wrong.
\* heard: the page that sent it is still there; access: sent along; body:
\* the token a logout names; token, fresh: what a rotation consumes, and
\* issues; gang: members read by a revocation.
Call == [kind : Kinds, heard : BOOLEAN, step : Steps,
         access : Tokens \cup {None}, body : Tokens \cup {None},
         token : Tokens \cup {None}, fresh : Tokens \cup {None}, gang : SUBSET Tokens]

\* todo, doomed: the tokens and families there were; token, gang: the token
\* whose family is being revoked, and its members.
Sweep == [step : {"scan"} \cup RevocationSteps, todo : SUBSET Tokens,
          token : Tokens \cup {None}, gang : SUBSET Tokens, doomed : SUBSET Families]

ASSUME SessionsAssumption ==
    /\ {MaxTokens, MaxFamilies, MaxRefusals} \subseteq Nat
    /\ None \notin Tokens \cup Families /\ None \notin {"0", "1"}
    /\ None \notin Call /\ None \notin Sweep

TypeOK ==
    /\ live \cup used \cup expired \subseteq Tokens
    /\ family \in [Tokens -> Families \cup {None}]
    /\ mark \in [Families -> {None, "0", "1"}]
    /\ members \in [Families -> SUBSET Tokens]
    /\ {access, refresh} \subseteq Tokens \cup {None}
    /\ user \in BOOLEAN /\ apart \in BOOLEAN /\ smooth \in BOOLEAN
    /\ call \in [Calls -> Call \cup {None}]
    /\ reset \in Sweep \cup {None}
    /\ refusals \in 0 .. MaxRefusals
    /\ ended \subseteq Families

Init ==
    /\ live = {} /\ family = [t \in Tokens |-> None]
    /\ mark = [f \in Families |-> None] /\ members = [f \in Families |-> {}]
    /\ used = {}
    /\ access = None /\ refresh = None /\ user = FALSE
    /\ call = [c \in Calls |-> None] /\ reset = None
    /\ expired = {} /\ refusals = 0
    /\ apart = TRUE /\ smooth = TRUE /\ ended = {}

Fresh       == {t \in Tokens : family[t] = None}
NewToken    == CHOOSE t \in Fresh : \A s \in Fresh : t <= s
NewFamily   == {f \in Families : mark[f] = None /\ \A t \in Tokens : family[t] # f}
At(c, step) == call[c] # None /\ call[c].step = step
Goto(c, step) == call' = [call EXCEPT ![c].step = step]

Rotating(c) == call[c] # None /\ call[c].step \in RotationSteps \cup RevocationSteps
Changing(c) ==
    \/ Rotating(c)
    \/ call[c] # None /\ call[c].kind \in {"login", "logout"}
Apart(b) == apart' = (apart /\ b) /\ smooth' = (smooth /\ b)

\* Bound: once disturbed, nothing new begins or fails; what is under way ends.
MayBegin == apart

AtRest == reset = None /\ \A c \in Calls : call[c] = None

-----------------------------------------------------------------------------
(***************************************************************************)
(* The browser.                                                            *)
(***************************************************************************)
Request(kind) ==
    [kind |-> kind, heard |-> TRUE, step |-> IF kind = "login" THEN "new" ELSE "sent",
     access |-> access, body |-> IF kind = "logout" THEN refresh ELSE None,
     token |-> None, fresh |-> None, gang |-> {}]

Send(c, kind) == call[c] = None /\ call' = [call EXCEPT ![c] = Request(kind)]

\* Nothing is under way that signs the user in or out.
Settled == \A c \in Calls :
    call[c] # None /\ call[c].kind \notin {"get", "confirm"} => ~call[c].heard

\* Any call of a page; on the profile page, the confirmation of an address.
Get(c) ==
    /\ MayBegin /\ user /\ \E kind \in {"get", "confirm"} : Send(c, kind)
    /\ UNCHANGED <<store, browser, reset, expired, refusals, history>>

\* login and register.
Login(c) ==
    /\ MayBegin /\ ~user /\ Settled /\ NewFamily # {}
    /\ Send(c, "login")
    /\ Apart(reset = None /\ \A d \in Calls : ~Changing(d))
    /\ UNCHANGED <<store, browser, reset, expired, refusals, ended>>

\* Without a token there is nothing to ask the server.
Logout(c) ==
    /\ MayBegin /\ user /\ Settled
    /\ IF refresh = None
       THEN access' = None /\ user' = FALSE /\ UNCHANGED <<call, apart, smooth>>
       ELSE /\ Send(c, "logout")
            /\ Apart(reset = None /\ \A d \in Calls : ~Changing(d))
            /\ UNCHANGED <<access, user>>
    /\ UNCHANGED <<store, refresh, reset, expired, refusals, ended>>

\* The page is loaded anew: the server goes on with what it was asked, and
\* refreshMe asks who the user is if there is an access token.
Reload(c) ==
    LET rest == [d \in Calls |-> IF Changing(d) THEN [call[d] EXCEPT !.heard = FALSE] ELSE None]
    IN  /\ MayBegin /\ user /\ rest[c] = None
        /\ user' = FALSE
        /\ call' = IF access = None THEN rest ELSE [rest EXCEPT ![c] = Request("me")]
        /\ smooth' = (smooth /\ \A d \in Calls : ~Changing(d))
        /\ UNCHANGED <<store, access, refresh, reset, expired, refusals, apart, ended>>

\* What the caller does once its request is over.
Answered(c) ==
    /\ At(c, "ok") \/ At(c, "failed")
    /\ LET kind == call[c].kind
           ok   == At(c, "ok")
       IN  \/ /\ ~call[c].heard \/ kind \in {"get", "confirm"} \/ (kind = "login" /\ ~ok)
              /\ UNCHANGED browser
           \/ /\ call[c].heard /\ kind = "login" /\ ok
              /\ access' = call[c].fresh /\ refresh' = call[c].fresh /\ user' = TRUE
           \/ /\ call[c].heard /\ kind = "me" /\ ok
              /\ user' = TRUE /\ UNCHANGED <<access, refresh>>
           \/ /\ call[c].heard /\ (kind = "logout" \/ (kind = "me" /\ ~ok))
              /\ access' = None /\ refresh' = None /\ user' = FALSE
    /\ call' = [call EXCEPT ![c] = None]
    /\ UNCHANGED <<store, reset, expired, refusals, history>>

\* Mutant: without a refresh token the call waits for somebody to sign in.
TryRefreshLater(c) ==
    /\ At(c, "401") /\ call[c].heard /\ refresh # None
    /\ call' = [call EXCEPT ![c].step = "used", ![c].token = refresh]
    /\ Apart(reset = None /\ \A d \in Calls \ {c} : ~Changing(d))
    /\ UNCHANGED <<store, browser, reset, expired, refusals, ended>>

\* 401: the call refreshes with the token the browser holds by now.
TryRefresh(c) ==
    /\ At(c, "401") /\ call[c].heard
    /\ IF refresh = None
       THEN Goto(c, "failed") /\ access' = None /\ UNCHANGED <<apart, smooth>>
       ELSE /\ call' = [call EXCEPT ![c].step = "used", ![c].token = refresh]
            /\ Apart(reset = None /\ \A d \in Calls \ {c} : ~Changing(d))
            /\ UNCHANGED access
    /\ UNCHANGED <<store, refresh, user, reset, expired, refusals, ended>>

\* Mutant: the new refresh token is not stored.
RefreshedAccess(c) ==
    /\ At(c, "issued") /\ call[c].heard
    /\ access' = call[c].fresh
    /\ call' = [call EXCEPT ![c].step = "sent", ![c].access = call[c].fresh,
                            ![c].token = None, ![c].fresh = None]
    /\ UNCHANGED <<store, refresh, user, reset, expired, refusals, history>>

\* The tokens are kept and the request is sent again ...
Refreshed(c) ==
    /\ At(c, "issued") /\ call[c].heard
    /\ access' = call[c].fresh /\ refresh' = call[c].fresh
    /\ call' = [call EXCEPT ![c].step = "sent", ![c].access = call[c].fresh,
                            ![c].token = None, ![c].fresh = None]
    /\ UNCHANGED <<store, user, reset, expired, refusals, history>>

\* ... or both are dropped, whatever they are by now.
NotRefreshed(c) ==
    /\ At(c, "denied") /\ call[c].heard
    /\ access' = None /\ refresh' = None
    /\ Goto(c, "failed")
    /\ UNCHANGED <<store, user, reset, expired, refusals, history>>

Unheard(c) ==
    /\ \E step \in {"401", "issued", "denied"} : At(c, step)
    /\ ~call[c].heard
    /\ call' = [call EXCEPT ![c] = None]
    /\ UNCHANGED <<store, browser, reset, expired, refusals, history>>

\* A request that reaches nobody, a throttler that refuses it (429), or a
\* command that fails: the rotation is
\* left where it is and counts as refused.
Breaks(c) ==
    /\ MayBegin /\ call[c] # None
    /\ IF Rotating(c) THEN call[c].step # "denied" /\ Goto(c, "denied")
       ELSE /\ call[c].step \in {"sent"} \cup LoginSteps \cup LogoutSteps
            /\ Goto(c, "failed")
    /\ Apart(~Changing(c))
    /\ UNCHANGED <<store, browser, reset, expired, refusals, ended>>

AccessExpires ==
    /\ MayBegin /\ access \notin expired \cup {None} /\ refusals < MaxRefusals
    /\ expired' = expired \cup {access} /\ refusals' = refusals + 1
    /\ UNCHANGED <<store, browser, call, reset, history>>

-----------------------------------------------------------------------------
(***************************************************************************)
(* The server.                                                             *)
(***************************************************************************)
serverRest == <<browser, reset, expired>>

\* JwtStrategy, on whose list of revoked access tokens nothing is ever put,
\* and then the handler: a wrong code is answered with 401 as well, and what
\* comes of asking again and again is that the throttler refuses (429).
Validate(c) ==
    LET q       == call[c]
        valid   == q.access \notin expired \cup {None}
        refuses == valid /\ q.kind = "confirm" /\ refusals < MaxRefusals
    IN  /\ At(c, "sent")
        /\ Goto(c, IF ~valid \/ refuses THEN "401" ELSE IF q.kind = "confirm" THEN "failed"
                   ELSE IF q.kind = "logout" THEN "logout" ELSE "ok")
        /\ refusals' = IF refuses THEN refusals + 1 ELSE refusals
        /\ UNCHANGED <<store, serverRest, history>>

\* rotate looks the token up ...
Look(c) ==
    LET t == call[c].token
    IN  /\ \/ At(c, "used") /\ Goto(c, IF t \in used THEN "revoke" ELSE "get")
           \/ At(c, "get") /\ Goto(c, IF t \in live THEN "family" ELSE "denied")
           \/ At(c, "family") /\ Goto(c, IF mark[family[t]] = "1" THEN "revoke" ELSE "del")
        /\ UNCHANGED <<store, serverRest, refusals, history>>

\* ... and replaces it.
Rotate(c) ==
    LET t == call[c].token
        f == family[t]
        Take(from, to) == At(c, from) /\ Goto(c, to)
    IN  /\ \/ /\ Take("del", "srem") /\ live' = live \ {t}
              /\ UNCHANGED <<family, mark, members, used>>
           \/ /\ Take("srem", "store") /\ members' = [members EXCEPT ![f] = @ \ {t}]
              /\ UNCHANGED <<live, family, mark, used>>
           \/ /\ At(c, "store") /\ Fresh # {}
              /\ call' = [call EXCEPT ![c].step = "sadd", ![c].fresh = NewToken]
              /\ live' = live \cup {NewToken} /\ family' = [family EXCEPT ![NewToken] = f]
              /\ UNCHANGED <<mark, members, used>>
           \/ /\ Take("sadd", "zero") /\ members' = [members EXCEPT ![f] = @ \cup {call[c].fresh}]
              /\ UNCHANGED <<live, family, mark, used>>
           \/ /\ Take("zero", "mark") /\ mark' = [mark EXCEPT ![f] = "0"]
              /\ UNCHANGED <<live, family, members, used>>
           \/ /\ Take("mark", "issued") /\ used' = used \cup {t}
              /\ UNCHANGED <<live, family, mark, members>>
        /\ UNCHANGED <<serverRest, refusals, history>>

\* Mutant: the index goes, the tokens it lists stay.
RevokeIndex(step, f, gang) ==
    \/ step = "revoke" /\ mark' = [mark EXCEPT ![f] = "1"] /\ UNCHANGED <<live, members>>
    \/ step \in {"gang", "purge"} /\ UNCHANGED <<live, mark, members>>
    \/ step = "drop" /\ members' = [members EXCEPT ![f] = {}] /\ UNCHANGED <<live, mark>>

\* revokeFamily, for a rotation or a password reset.
RevokeStep(step, f, gang) ==
    \/ step = "revoke" /\ mark' = [mark EXCEPT ![f] = "1"] /\ UNCHANGED <<live, members>>
    \/ step = "gang" /\ UNCHANGED <<live, mark, members>>
    \/ step = "purge" /\ live' = live \ gang /\ UNCHANGED <<mark, members>>
    \/ step = "drop" /\ members' = [members EXCEPT ![f] = {}] /\ UNCHANGED <<live, mark>>

After(step, end) ==
    IF step = "revoke" THEN "gang" ELSE IF step = "gang" THEN "purge"
    ELSE IF step = "purge" THEN "drop" ELSE end

Revoke(c) ==
    LET f == family[call[c].token]
    IN  /\ call[c] # None /\ call[c].step \in RevocationSteps
        /\ RevokeStep(call[c].step, f, call[c].gang)
        /\ call' = [call EXCEPT ![c].step = After(@, "denied"),
                                ![c].gang = IF call[c].step = "gang" THEN members[f] ELSE @]
        /\ ended' = IF call[c].step = "drop" THEN ended \cup {f} ELSE ended
        /\ UNCHANGED <<family, used, serverRest, refusals, apart, smooth>>

\* create.
Issue(c) ==
    /\ \/ /\ At(c, "new") /\ Fresh # {}
          /\ \E f \in NewFamily :
                /\ \A g \in NewFamily : f <= g
                /\ family' = [family EXCEPT ![NewToken] = f]
          /\ live' = live \cup {NewToken}
          /\ call' = [call EXCEPT ![c].step = "newZero", ![c].fresh = NewToken]
          /\ UNCHANGED <<mark, members, used>>
       \/ /\ At(c, "newZero") /\ Goto(c, "newSadd")
          /\ mark' = [mark EXCEPT ![family[call[c].fresh]] = "0"]
          /\ UNCHANGED <<live, family, members, used>>
       \/ /\ At(c, "newSadd") /\ Goto(c, "ok")
          /\ members' = [members EXCEPT ![family[call[c].fresh]] = @ \cup {call[c].fresh}]
          /\ UNCHANGED <<live, family, mark, used>>
    /\ UNCHANGED <<serverRest, refusals, history>>

\* revoke, of the token the logout names.
RevokeOne(c) ==
    LET t == call[c].body
    IN  /\ \/ /\ At(c, "logout")
              /\ call' = [call EXCEPT ![c].step = "logoutDel", ![c].gang = live \cap {t}]
              /\ UNCHANGED <<live, members>>
           \/ /\ At(c, "logoutDel") /\ Goto(c, IF call[c].gang = {} THEN "ok" ELSE "logoutSrem")
              /\ live' = live \ {t} /\ UNCHANGED members
           \/ /\ At(c, "logoutSrem") /\ Goto(c, "ok")
              /\ members' = [members EXCEPT ![family[t]] = @ \ {t}] /\ UNCHANGED live
        /\ UNCHANGED <<family, mark, used, serverRest, refusals, history>>

\* The password is reset: revokeAllForUser goes over the tokens there were,
\* and perhaps over new ones.
Reset ==
    /\ MayBegin /\ reset = None
    /\ reset' = [step |-> "scan", todo |-> live, token |-> None, gang |-> {},
                 doomed |-> {family[t] : t \in live}]
    /\ Apart(\A c \in Calls : ~Changing(c))
    /\ UNCHANGED <<store, browser, call, expired, refusals, ended>>

Scan ==
    /\ reset # None /\ reset.step = "scan"
    /\ \/ \E t \in reset.todo \cup live :
            reset' = IF t \in live THEN [reset EXCEPT !.todo = @ \ {t}, !.token = t, !.step = "revoke"]
                     ELSE [reset EXCEPT !.todo = @ \ {t}]
       \/ reset.todo = {} /\ reset' = None
    /\ ended' = IF reset' = None THEN ended \cup reset.doomed ELSE ended
    /\ UNCHANGED <<store, browser, call, expired, refusals, apart, smooth>>

ResetRevokes ==
    /\ reset # None /\ reset.step \in RevocationSteps
    /\ RevokeStep(reset.step, family[reset.token], reset.gang)
    /\ reset' = [reset EXCEPT !.step = After(@, "scan"),
                              !.gang = IF reset.step = "gang" THEN members[family[reset.token]] ELSE {},
                              !.token = IF reset.step = "drop" THEN None ELSE @]
    /\ UNCHANGED <<family, used, browser, call, expired, refusals, history>>

ResetFails ==
    /\ MayBegin /\ reset # None
    /\ reset' = None /\ Apart(FALSE)
    /\ UNCHANGED <<store, browser, call, expired, refusals, ended>>

Server(c) == Validate(c) \/ Look(c) \/ Rotate(c) \/ Revoke(c) \/ Issue(c) \/ RevokeOne(c)

Client(c) == Answered(c) \/ TryRefresh(c) \/ Refreshed(c) \/ NotRefreshed(c) \/ Unheard(c)

Next ==
    \/ \E c \in Calls :
        \/ Get(c) \/ Login(c) \/ Logout(c) \/ Reload(c) \/ Breaks(c)
        \/ Server(c) \/ Client(c)
    \/ AccessExpires \/ Reset \/ Scan \/ ResetRevokes \/ ResetFails

\* The server works and answers reach the browser.
Fairness == \A c \in Calls : WF_authVars(Server(c) \/ Client(c))

Spec == Init /\ [][Next]_authVars /\ Fairness

-----------------------------------------------------------------------------
(***************************************************************************)
(* Properties.                                                             *)
(***************************************************************************)
Current == CHOOSE f \in Families : mark[f] # None /\ \A g \in Families : mark[g] # None => g <= f

\* The index by which a session is revoked knows the token in use.
Usable(t) == t \in live /\ t \in members[family[t]]

\* Who signed in stays signed in, however many access tokens expire and
\* however many calls find that out, and who is not holds no token; as long
\* as no two calls refresh at once, none is cut off, and nobody reset the
\* password.
StaysSignedIn ==
    smooth /\ AtRest =>
        IF user THEN Usable(refresh) \/ Current \in ended ELSE refresh = None

\* A session ended by a reset of the password, or because a token was used
\* again after its answer was lost, stays ended: none of its tokens works,
\* and none will.  It takes that no rotation was under way when it was
\* ended, and that none was left half done before.
EndedForGood ==
    apart => \A t \in live : family[t] \notin ended

\* Every call of the client ends, with an answer or an error, however many
\* access tokens expire and other calls refresh; but for one that its
\* handler answers with 401, which nothing but the throttler ends.
CallsEnd ==
    call[Watched] # None /\ call[Watched].kind # "confirm" ~> call[Watched] = None

=============================================================================
