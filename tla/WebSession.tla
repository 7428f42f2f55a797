------------------------------ MODULE WebSession ------------------------------
(***************************************************************************)
(* web: one login shared by the tabs of a browser. The access token and    *)
(* the mark of a web session are in localStorage, the refresh token in a   *)
(* cookie, which every renewal rotates. A tab renews when the token is     *)
(* about to expire or was refused, one renewal at a time per tab, and a    *)
(* Web Lock keeps the tabs apart. The identity-service takes the previous  *)
(* refresh token too, for ten seconds after a rotation; after that it      *)
(* means theft, and the session is revoked.                                *)
(*                                                                         *)
(* Tokens are numbered in the order in which the session issues them; a    *)
(* rotation issues the access and the refresh token of one number. The     *)
(* CSRF pair, the gateway login without a cookie, and logging in again are *)
(* left out.                                                               *)
(***************************************************************************)
EXTENDS Naturals

CONSTANTS
    Tabs, NoTab,
    MaxRotations,   \* bound on the rotations of the session
    MaxFaults       \* responses that never reach their tab

SessionAssumption == NoTab \notin Tabs /\ MaxFaults \in Nat

VARIABLES
    token,     \* weav_token: the stored access token, or None
    aged,      \* the tokens up to here expire within two minutes, or have
    mark,      \* hasWebSession()
    cookie,    \* the refresh cookie, or None
    session,   \* the row of the identity-service
    lock,      \* holder of the Web Lock
    tab,       \* refreshAccessToken, per tab
    leaving,   \* the logout request
    stray,     \* a refresh request whose tab is gone, or None
    faults,
    cause      \* history: something that may end the session has happened

browser == <<token, mark, cookie>>
vars    == <<token, aged, mark, cookie, session, lock, tab, leaving, stray, faults, cause>>

None == 0

Idle == [pc |-> "idle", stale |-> None, sends |-> None, gets |-> None]
Here == [pc |-> "no", sends |-> None]

Init ==
    /\ token = 1 /\ aged = 0 /\ mark = TRUE /\ cookie = 1
    /\ session = [current |-> 1, previous |-> None, grace |-> FALSE, alive |-> TRUE]
    /\ lock = NoTab
    /\ tab = [t \in Tabs |-> Idle]
    /\ leaving = Here
    /\ stray = None
    /\ faults = MaxFaults
    /\ cause = FALSE

Fresh(n) == n > aged

-----------------------------------------------------------------------------
(* refreshIfExpiringSoon, or a request that is refused or, in a tab that   *)
(* does not know of a logout yet, has no token to send. The token is read  *)
(* before the lock is asked for.                                           *)
Start(t) ==
    /\ tab[t].pc = "idle"
    /\ \/ token # None /\ mark /\ ~Fresh(token)
       \/ token # None /\ ~session.alive
       \/ token = None /\ mark
    /\ tab' = [tab EXCEPT ![t] = [Idle EXCEPT !.pc = "waiting", !.stale = token]]
    /\ UNCHANGED <<browser, aged, session, lock, leaving, stray, faults, cause>>

NoLockDefect == TRUE

LockFree == lock = NoTab

(* With the lock: another tab may have renewed meanwhile, else the cookie  *)
(* is sent; a browser without a session is refused right away.             *)
Enter(t) ==
    /\ tab[t].pc = "waiting"
    /\ LockFree
    /\ lock' = t
    /\ tab' = [tab EXCEPT ![t].pc = IF token \notin {None, tab[t].stale} /\ Fresh(token) THEN "asking" ELSE "chosen"]
    /\ UNCHANGED <<browser, aged, session, leaving, stray, faults, cause>>

Unlock(t) == lock' = IF lock = t THEN NoTab ELSE lock

(* GET /api/auth/me with the token of the other tab.                       *)
UseOther(t) ==
    /\ tab[t].pc = "asking"
    /\ session.alive
    /\ tab' = [tab EXCEPT ![t] = Idle]
    /\ Unlock(t)
    /\ UNCHANGED <<browser, aged, session, leaving, stray, faults, cause>>

FallThrough(t) ==
    /\ tab[t].pc = "asking"
    /\ tab' = [tab EXCEPT ![t].pc = "chosen"]
    /\ UNCHANGED <<browser, aged, session, lock, leaving, stray, faults, cause>>

Send(t) ==
    /\ tab[t].pc = "chosen"
    /\ tab' = [tab EXCEPT ![t].pc = IF mark THEN "sent" ELSE "refused", ![t].sends = cookie]
    /\ UNCHANGED <<browser, aged, session, lock, leaving, stray, faults, cause>>

-----------------------------------------------------------------------------
(* RefreshSessionUseCase, one transaction under the lock of the user.      *)
Accepted(c) ==
    /\ session.alive
    /\ c = session.current \/ (c # None /\ c = session.previous /\ session.grace)

Stolen(c) == session.alive /\ c # None /\ c = session.previous /\ ~session.grace

Rotated ==
    [session EXCEPT !.current = @ + 1, !.previous = session.current, !.grace = TRUE]

Execute(c) ==
    session' = IF Accepted(c) THEN Rotated
               ELSE IF Stolen(c) THEN [session EXCEPT !.alive = FALSE] ELSE session

Refresh(t) ==
    /\ tab[t].pc = "sent"
    /\ session.current < MaxRotations
    /\ Execute(tab[t].sends)
    /\ tab' = [tab EXCEPT ![t].pc = "answered", ![t].gets = IF Accepted(tab[t].sends) THEN session'.current ELSE None]
    /\ UNCHANGED <<browser, aged, lock, leaving, stray, faults, cause>>

(* The browser takes the cookie of an answer before the tab sees it.       *)
Receive(t) ==
    /\ tab[t].pc = "answered"
    /\ cookie' = IF tab[t].gets = None THEN cookie ELSE tab[t].gets
    /\ tab' = [tab EXCEPT ![t].pc = IF tab[t].gets = None THEN "refused" ELSE "renewed"]
    /\ UNCHANGED <<token, mark, aged, session, lock, leaving, stray, faults, cause>>

(* storeWebLogin.                                                          *)
Store(t) ==
    /\ tab[t].pc = "renewed"
    /\ token' = tab[t].gets
    /\ mark' = TRUE
    /\ tab' = [tab EXCEPT ![t] = Idle]
    /\ Unlock(t)
    /\ UNCHANGED <<cookie, aged, session, leaving, stray, faults, cause>>

(* The request fails on its way: an error, which keeps the session.        *)
Fail(t) ==
    /\ tab[t].pc = "sent"
    /\ tab' = [tab EXCEPT ![t] = Idle]
    /\ Unlock(t)
    /\ UNCHANGED <<browser, aged, session, leaving, stray, faults, cause>>

(* The tab times out, or is reloaded or closed, which frees its lock: the  *)
(* request may still arrive, its answer is lost. That is a cause at once   *)
(* when the grace of the lost rotation is over, or when the cookie was     *)
(* behind already: a second answer lost before the first was made up for   *)
(* leaves the browser with a token that is not even the previous one.      *)
LosesTheCookie(t) ==
    IF tab[t].pc = "sent" THEN cookie # session.current
    ELSE tab[t].gets # None /\ (~session.grace \/ cookie # session.previous)

Abandon(t) ==
    /\ tab[t].pc \in {"sent", "answered"}
    /\ faults > 0 /\ stray = None
    /\ faults' = faults - 1
    /\ cause' = (cause \/ LosesTheCookie(t))
    /\ stray' = IF tab[t].pc = "sent" THEN tab[t].sends ELSE None
    /\ tab' = [tab EXCEPT ![t] = Idle]
    /\ Unlock(t)
    /\ UNCHANGED <<browser, aged, session, leaving>>

StrayArrives ==
    /\ stray # None
    /\ session.current < MaxRotations
    /\ Execute(stray)
    /\ stray' = None
    /\ UNCHANGED <<browser, aged, lock, tab, leaving, faults, cause>>

-----------------------------------------------------------------------------
(* authApi.logout: the token goes at once, the request carries the cookie, *)
(* and its end, good or bad, clears the mark.                              *)
SendLogout ==
    /\ token' = None
    /\ leaving' = IF mark /\ leaving.pc = "no" THEN [pc |-> "sent", sends |-> cookie] ELSE leaving

(* handleUnauthorized: only a refused credential ends the session.         *)
Refused(t) ==
    /\ tab[t].pc = "refused"
    /\ SendLogout
    /\ tab' = [tab EXCEPT ![t] = Idle]
    /\ Unlock(t)
    /\ UNCHANGED <<mark, cookie, aged, session, stray, faults, cause>>

Logout ==
    /\ token # None /\ mark
    /\ SendLogout
    /\ cause' = TRUE
    /\ UNCHANGED <<mark, cookie, aged, session, lock, tab, stray, faults>>

(* LogoutUseCase revokes by the current token only.                        *)
LogoutArrives ==
    /\ leaving.pc = "sent"
    /\ session' = [session EXCEPT !.alive = @ /\ leaving.sends # session.current]
    /\ leaving' = [leaving EXCEPT !.pc = "answered"]
    /\ UNCHANGED <<browser, aged, lock, tab, stray, faults, cause>>

LogoutEnds ==
    /\ leaving.pc \in {"sent", "answered"}
    /\ cookie' = IF leaving.pc = "answered" THEN None ELSE cookie
    /\ mark' = FALSE
    /\ leaving' = Here
    /\ UNCHANGED <<token, aged, session, lock, tab, stray, faults, cause>>

(* Somebody ends the session elsewhere: a new password, an administrator.  *)
Revoke ==
    /\ session.alive
    /\ session' = [session EXCEPT !.alive = FALSE]
    /\ cause' = TRUE
    /\ UNCHANGED <<browser, aged, lock, tab, leaving, stray, faults>>

-----------------------------------------------------------------------------
(* Thirteen minutes pass: the stored token is about to expire.             *)
TokenAges ==
    /\ token # None /\ Fresh(token)
    /\ session.current < MaxRotations
    /\ ~session.grace
    /\ aged' = token
    /\ UNCHANGED <<browser, session, lock, tab, leaving, stray, faults, cause>>

(* Ten seconds pass since the last rotation. When an answer was lost, this *)
(* is a cause if the browser has not got a new cookie by now, or the lost  *)
(* request is still on its way.                                            *)
Lost == faults < MaxFaults

GraceEnds ==
    /\ session.grace
    /\ session' = [session EXCEPT !.grace = FALSE]
    /\ cause' = (cause \/ (Lost /\ (cookie # session.current \/ stray # None)))
    /\ UNCHANGED <<browser, aged, lock, tab, leaving, stray, faults>>

Next ==
    \/ \E t \in Tabs :
         \/ Start(t) \/ Enter(t) \/ UseOther(t) \/ FallThrough(t) \/ Send(t)
         \/ Refresh(t) \/ Receive(t) \/ Store(t) \/ Fail(t) \/ Abandon(t) \/ Refused(t)
    \/ StrayArrives
    \/ Logout \/ LogoutArrives \/ LogoutEnds \/ Revoke
    \/ TokenAges \/ GraceEnds

Spec == Init /\ [][Next]_vars

-----------------------------------------------------------------------------
(* "Two concurrent rotations make the loser's cookie invalid (401) and log *)
(* every tab out" (auth.api.ts 519): this does not happen. Without a cause *)
(* the session lives, and the browser keeps its token and its mark; and a  *)
(* lost answer is no cause when a renewal follows it within the grace.     *)
NobodyIsLoggedOut == ~cause => session.alive /\ token # None /\ mark
=============================================================================
