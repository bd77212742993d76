--------------------------- MODULE BrowserSession ---------------------------
(***************************************************************************)
(* The browser's side of a session, composed with RefreshTokens            *)
(* (frontend/src/api/axios.ts, lib/auth.ts, user.controller.ts).           *)
(*                                                                         *)
(* Both tokens are cookies, set and cleared by answers of the server; the  *)
(* pages cannot read them and keep a flag in local storage.  When a        *)
(* request of a page is answered 401, the page refreshes the tokens once:  *)
(* the request that found out leads, those that follow are queued, and all *)
(* are sent again when the refresh is answered.  When it fails all are     *)
(* rejected and the page is left for the login form.                       *)
(*                                                                         *)
(* A refresh call is named by the request that leads it.                   *)
(***************************************************************************)
EXTENDS RefreshTokens

CONSTANTS
    MaxExpiries   \* bound on the access tokens that get 15 minutes old

ASSUME BrowserAssumption ==
    MaxExpiries \in Nat

VARIABLES
    access,      \* is there an access token cookie? (it expires with its token)
    refresh,     \* the refresh token cookie, 0: none
    flag,        \* splice_authenticated
    req,         \* where a request is
    fresh,       \* requests that were sent with an access token
    retried,     \* requests marked _retry
    refreshing,  \* isRefreshing
    logout,      \* where the logout call is
    leaving,     \* the refresh token it was sent with
    unheard,     \* logins whose page was left before their answer
    expiries

cookieVars == <<access, refresh, flag>>
pageVars == <<req, fresh, retried, refreshing>>
formVars == <<logout, leaving, unheard>>
vars == <<serverVars, cookieVars, pageVars, formVars, expiries>>

PageTypeOK ==
    /\ access \in BOOLEAN
    /\ refresh \in 0..Len(tokens)
    /\ flag \in BOOLEAN
    /\ req \in [Rotations -> {"idle", "sent", "queued", "leading"}]
    /\ fresh \subseteq Rotations
    /\ retried \subseteq Rotations
    /\ refreshing \in BOOLEAN
    /\ logout \in {"idle", "sent", "answered", "failed", "unheard"}
    /\ leaving \in 0..Len(tokens)
    /\ unheard \subseteq Logins
    /\ expiries \in 0..MaxExpiries

(* A page has one refresh at a time, and isRefreshing says so. *)
LeaderOK ==
    /\ \A r \in Rotations : req[r] = "leading" <=> pc[r] # "idle"
    /\ \A r \in Rotations : req[r] = "leading" => refreshing
    /\ refreshing => \E r \in Rotations : req[r] = "leading"
    /\ \A r, s \in Rotations :
          req[r] = "leading" /\ req[s] = "leading" => r = s

TypeOK == ServerTypeOK /\ PageTypeOK /\ LeaderOK

Init ==
    /\ ServerInit
    /\ access = FALSE
    /\ refresh = 0
    /\ flag = FALSE
    /\ req = [r \in Rotations |-> "idle"]
    /\ fresh = {}
    /\ retried = {}
    /\ refreshing = FALSE
    /\ logout = "idle"
    /\ leaving = 0
    /\ unheard = {}
    /\ expiries = 0

Queued == {r \in Rotations : req[r] = "queued"}

Server == ServerStep /\ UNCHANGED <<cookieVars, pageVars, formVars, expiries>>

AccessExpires ==
    /\ access
    /\ expiries < MaxExpiries
    /\ expiries' = expiries + 1
    /\ access' = FALSE
    /\ UNCHANGED <<serverVars, refresh, flag, pageVars, formVars>>

-----------------------------------------------------------------------------
(* Logging in and out.                                                     *)

(* The form is there once nobody is logged in, and shows its call pending. *)
LogIn(l) ==
    /\ ~flag
    /\ \A m \in Logins : pc[m] \in {"idle", "done"}
    /\ StartLogin(l)
    /\ UNCHANGED <<cookieVars, pageVars, formVars, expiries>>

SetCookies(c) ==
    /\ access' = TRUE
    /\ refresh' = new[c]

LoggedIn(l) ==
    /\ pc[l] = "granted"
    /\ l \notin unheard
    /\ SetCookies(l)
    /\ flag' = TRUE
    /\ End(l)
    /\ UNCHANGED <<pageVars, formVars, expiries>>

LoginFails(l) ==
    /\ pc[l] = "refused" \/ (pc[l] = "granted" /\ l \in unheard)
    /\ End(l)
    /\ UNCHANGED <<cookieVars, pageVars, formVars, expiries>>

LogOut ==
    /\ flag
    /\ logout = "idle"
    /\ logout' = "sent"
    /\ leaving' = refresh
    /\ UNCHANGED <<serverVars, cookieVars, pageVars, unheard, expiries>>

(* The server's handler: revokes the token it was sent, if there is one *)
Logout ==
    /\ logout \in {"sent", "unheard"}
    /\ IF leaving = 0 THEN UNCHANGED serverVars ELSE RevokeToken(leaving)
    /\ IF logout = "sent"
         THEN logout' = "answered" /\ UNCHANGED leaving
         ELSE logout' = "idle" /\ leaving' = 0
    /\ UNCHANGED <<cookieVars, pageVars, unheard, expiries>>

LogoutFails ==
    /\ logout \in {"sent", "answered"}
    /\ faults < MaxFaults
    /\ faults' = faults + 1
    /\ logout' = "failed"
    /\ UNCHANGED <<tokens, closed, pc, old, new, endings, cookieVars,
                   pageVars, leaving, unheard, expiries>>

(* The answer clears the cookies; the flag goes whatever the answer. *)
LoggedOut ==
    /\ logout \in {"answered", "failed"}
    /\ IF logout = "answered"
         THEN access' = FALSE /\ refresh' = 0
         ELSE UNCHANGED <<access, refresh>>
    /\ flag' = FALSE
    /\ logout' = "idle"
    /\ leaving' = 0
    /\ UNCHANGED <<serverVars, pageVars, unheard, expiries>>

-----------------------------------------------------------------------------
(* Requests.                                                               *)

Send(S) ==
    fresh' = IF access' THEN fresh \cup S ELSE fresh \ S

SendRequest(r) ==
    /\ flag
    /\ req[r] = "idle"
    /\ req' = [req EXCEPT ![r] = "sent"]
    /\ UNCHANGED <<serverVars, cookieVars, retried, refreshing, formVars,
                   expiries>>
    /\ Send({r})

(* Any answer but a 401, and a second 401, settles the request. *)
Answered(r) ==
    /\ req[r] = "sent"
    /\ r \in fresh \/ r \in retried
    /\ req' = [req EXCEPT ![r] = "idle"]
    /\ fresh' = fresh \ {r}
    /\ retried' = retried \ {r}
    /\ UNCHANGED <<serverVars, cookieVars, refreshing, formVars, expiries>>

Rejected401(r) == req[r] = "sent" /\ r \notin fresh /\ r \notin retried

(* 401 while the page refreshes: wait for it *)
Enqueue(r) ==
    /\ Rejected401(r)
    /\ refreshing
    /\ req' = [req EXCEPT ![r] = "queued"]
    /\ UNCHANGED <<serverVars, cookieVars, fresh, retried, refreshing,
                   formVars, expiries>>

(* Mutant: leads a refresh of its own though the page has one *)
LeadAlways(r) ==
    /\ Rejected401(r)
    /\ StartRotation(r, refresh)
    /\ req' = [req EXCEPT ![r] = "leading"]
    /\ retried' = retried \cup {r}
    /\ refreshing' = TRUE
    /\ UNCHANGED <<cookieVars, fresh, formVars, expiries>>

(* 401 otherwise: mark the request and call /user/refresh *)
Lead(r) ==
    /\ Rejected401(r)
    /\ ~refreshing
    /\ StartRotation(r, refresh)
    /\ req' = [req EXCEPT ![r] = "leading"]
    /\ retried' = retried \cup {r}
    /\ refreshing' = TRUE
    /\ UNCHANGED <<cookieVars, fresh, formVars, expiries>>

(* Mutant: the queue is forgotten *)
RefreshedLeaderOnly(r) ==
    /\ pc[r] = "granted"
    /\ End(r)
    /\ SetCookies(r)
    /\ req' = [req EXCEPT ![r] = "sent"]
    /\ Send({r})
    /\ refreshing' = FALSE
    /\ UNCHANGED <<flag, retried, formVars, expiries>>

(* Mutant: the rotated token is not handed to the browser *)
RefreshedAccessOnly(r) ==
    LET again == {r} \cup Queued
    IN  /\ pc[r] = "granted"
        /\ End(r)
        /\ access' = TRUE
        /\ req' = [s \in Rotations |-> IF s \in again THEN "sent" ELSE req[s]]
        /\ Send(again)
        /\ refreshing' = FALSE
        /\ UNCHANGED <<refresh, flag, retried, formVars, expiries>>

(* The answer sets the cookies; the queue and the leader are sent again. *)
Refreshed(r) ==
    LET again == {r} \cup Queued
    IN  /\ pc[r] = "granted"
        /\ End(r)
        /\ SetCookies(r)
        /\ req' = [s \in Rotations |-> IF s \in again THEN "sent" ELSE req[s]]
        /\ Send(again)
        /\ refreshing' = FALSE
        /\ UNCHANGED <<flag, retried, formVars, expiries>>

(* clearAuthAndRedirect: every request of the page is rejected or, still   *)
(* unanswered, gone with the page, and so are the answers to its forms.    *)
RefreshFails(r) ==
    /\ pc[r] = "refused"
    /\ End(r)
    /\ flag' = FALSE
    /\ req' = [s \in Rotations |-> "idle"]
    /\ fresh' = {}
    /\ retried' = {}
    /\ refreshing' = FALSE
    /\ unheard' = {l \in Logins : pc[l] # "idle"}
    /\ logout' = IF logout = "sent" THEN "unheard" ELSE "idle"
    /\ leaving' = IF logout = "sent" THEN leaving ELSE 0
    /\ UNCHANGED <<access, refresh, expiries>>

RequestStep(r) ==
    \/ Answered(r)
    \/ Enqueue(r)
    \/ Lead(r)
    \/ Refreshed(r)
    \/ RefreshFails(r)

Next ==
    \/ Server
    \/ AccessExpires
    \/ \E l \in Logins : LogIn(l) \/ LoggedIn(l) \/ LoginFails(l)
    \/ LogOut
    \/ Logout
    \/ LogoutFails
    \/ LoggedOut
    \/ \E r \in Rotations : SendRequest(r) \/ RequestStep(r)

Spec == Init /\ [][Next]_vars

(* The server answers what it is asked, and a page handles what it hears. *)
FairSpec ==
    /\ Spec
    /\ \A r \in Rotations :
          /\ WF_vars(RequestStep(r))
          /\ WF_vars(CallStep(r) /\ Server)

-----------------------------------------------------------------------------
(* Properties.                                                             *)

(* No request waits for ever: neither in a queue whose refresh has ended,  *)
(* nor for a refresh that waits for itself, nor in a circle of refreshes.  *)
EveryRequestSettles ==
    \A r \in Rotations : req[r] # "idle" ~> req[r] = "idle"

(* The browser and the server agree on which token is next: until a call   *)
(* fails or a session is ended, the live row is the cookie's or on its way *)
(* to become it.                                                           *)
LiveIsHeld ==
    faults = 0 /\ closed = {} =>
        \A i \in DOMAIN tokens :
            Live(i) => refresh = i \/ \E c \in Calls : new[c] = i

(* A refresh fails, and sends the user to the login form, only when its    *)
(* session is over, by logging out or after 30 days, or when a call        *)
(* failed; never because two refreshes got in each other's way.            *)
BouncedOnlyWhenOver ==
    [][\A r \in Rotations :
          RefreshFails(r) /\ old[r] # 0 =>
              faults > 0 \/ tokens[old[r]].owner \in closed]_vars
=============================================================================
