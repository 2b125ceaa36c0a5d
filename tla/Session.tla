------------------------------ MODULE Session -------------------------------
(***************************************************************************)
(* One user's tab from login to logout: LoginPage, the auth store and its  *)
(* copy in sessionStorage, the axios interceptors, the guarded routes, and *)
(* the API's answer to each request by the user's row at that moment.      *)
(***************************************************************************)
EXTENDS Naturals

CONSTANTS
    Polls,      \* requests the pages keep sending, each of which may be under way
    MaxLogins,  \* bound: successful logins
    None

VARIABLES
    active,  \* is_active of the user's row
    at,      \* the document shows "login" or, inside Layout, "app"
    token,   \* token of the store: the number of the login that issued it
    logins,
    leaving, \* logout() has started a navigation that has not committed yet
    login,   \* LoginPage's request: "none", "sent" or "accepted"
    poll     \* requests under way: the token they carry and how far they are

vars == <<active, at, token, logins, leaving, login, poll>>

NoPoll == [token |-> None, phase |-> "idle"]

NoPolls == [p \in Polls |-> NoPoll]

Init ==
    /\ active = TRUE
    /\ at = "login" /\ token = None
    /\ logins = 0 /\ leaving = FALSE /\ login = "none"
    /\ poll = NoPolls

----------------------------------------------------------------------------
(* Documents and routes *)

\* A document is loaded, by its address, anew, or because the navigation that logout
\* started commits (page = "login"): the store is read back from sessionStorage,
\* requests under way answer to nobody, PrivateRoute turns a visitor without a token
\* to /login.
Load(page) ==
    /\ at' = IF token = None THEN "login" ELSE page
    /\ leaving' = FALSE
    /\ login' = "none"
    /\ poll' = NoPolls
    /\ UNCHANGED <<active, token, logins>>

\* Mutant of Logout: the store is emptied, the document is not left.
LogoutInPlace == token' = None /\ at' = "login" /\ UNCHANGED <<leaving, login>>

\* logout() empties the store, so that PrivateRoute shows LoginPage, and starts the
\* navigation to /login.  Until that commits this document lives on: its requests
\* are answered, its form can be used.
Logout ==
    /\ token' = None /\ at' = "login"
    /\ leaving' = TRUE
    /\ UNCHANGED login

SignOut ==
    /\ at = "app"
    /\ Logout
    /\ UNCHANGED <<active, logins, poll>>

----------------------------------------------------------------------------
(* Login *)

\* /login is not guarded: its form is also there for somebody with a token.  The
\* button waits for the answer.
Submit ==
    /\ at = "login" /\ login = "none"
    /\ logins < MaxLogins
    /\ login' = "sent"
    /\ UNCHANGED <<active, at, token, logins, leaving, poll>>

\* The password is right and the user was active when the row was read.
LoginAccepted ==
    /\ login = "sent" /\ active
    /\ login' = "accepted"
    /\ UNCHANGED <<active, at, token, logins, leaving, poll>>

\* setAuth, and navigate('/') within the document.
LoginOk ==
    /\ login = "accepted"
    /\ login' = "none"
    /\ logins' = logins + 1
    /\ token' = logins + 1
    /\ at' = "app"
    /\ UNCHANGED <<active, leaving, poll>>

\* A wrong password, an inactive user, no answer: the form shows the error, and a
\* token that was there stays, as the interceptor leaves /auth/login alone.
LoginRefused ==
    /\ login \in {"sent", "accepted"}
    /\ login' = "none"
    /\ UNCHANGED <<active, at, token, logins, leaving, poll>>

----------------------------------------------------------------------------
(* Requests *)

\* The request interceptor takes the token of the moment.
SendPoll(p) ==
    /\ at = "app" /\ poll[p].phase = "idle"
    /\ poll' = [poll EXCEPT ![p] = [token |-> token, phase |-> "sent"]]
    /\ UNCHANGED <<active, at, token, logins, leaving, login>>

\* get_current_user by the row of the moment; the JWT, when it has expired, may
\* also be what is refused.
Authenticated(p) ==
    /\ poll[p].phase = "sent"
    /\ \E ok \in IF active THEN BOOLEAN ELSE {FALSE} :
        poll' = [poll EXCEPT ![p].phase = IF ok THEN "ok" ELSE "401"]
    /\ UNCHANGED <<active, at, token, logins, leaving, login>>

\* An answer of any kind but 401, or none within 15 s.
Settled(p) ==
    /\ poll[p].phase \in {"sent", "ok"}
    /\ poll' = [poll EXCEPT ![p] = NoPoll]
    /\ UNCHANGED <<active, at, token, logins, leaving, login>>

\* Mutant of Unauthorised: a 401 is the caller's affair.
UnauthorisedIgnored(p) ==
    /\ poll[p].phase = "401"
    /\ poll' = [poll EXCEPT ![p] = NoPoll]
    /\ UNCHANGED <<active, at, token, logins, leaving, login>>

\* The response interceptor: any 401 while the store has a token logs out.
Unauthorised(p) ==
    /\ poll[p].phase = "401"
    /\ poll' = [poll EXCEPT ![p] = NoPoll]
    /\ IF token # None THEN Logout ELSE UNCHANGED <<at, token, leaving, login>>
    /\ UNCHANGED <<active, logins>>

\* Another administrator's change of the user.
SetActive(b) ==
    /\ active # b
    /\ active' = b
    /\ UNCHANGED <<at, token, logins, leaving, login, poll>>

Next ==
    \/ \E page \in {"login", "app"} : Load(page)
    \/ SignOut \/ Submit \/ LoginAccepted \/ LoginOk \/ LoginRefused
    \/ \E p \in Polls : SendPoll(p) \/ Authenticated(p) \/ Settled(p) \/ Unauthorised(p)
    \/ \E b \in BOOLEAN : SetActive(b)

\* Layout's badge polls every minute on every page, an answer that arrived is
\* handled, and not every request is lost or reloaded away.
Fairness ==
    \A p \in Polls :
        /\ WF_vars(SendPoll(p)) /\ WF_vars(Settled(p))
        /\ SF_vars(Authenticated(p))
        /\ SF_vars(Unauthorised(p))

Spec == Init /\ [][Next]_vars
FairSpec == Spec /\ Fairness

----------------------------------------------------------------------------
(* Properties *)

\* The types of the variables, and that the pages behind PrivateRoute are only
\* shown with a token.
TypeOK ==
    /\ active \in BOOLEAN
    /\ at \in {"login", "app"}
    /\ logins \in 0..MaxLogins
    /\ leaving \in BOOLEAN
    /\ token \in 1..MaxLogins \cup {None}
    /\ at = "app" => token # None
    /\ login \in {"none", "sent", "accepted"}
    /\ poll \in [Polls -> [token : 1..MaxLogins \cup {None}, phase : {"idle", "sent", "ok", "401"}]]

\* A late 401 can end the session of a newer login, as the interceptor compares no
\* tokens, but only in the document that logged out and until its navigation commits:
\* no request outlives that.
RefusalsAreOwn ==
    \A p \in Polls : poll[p].phase # "idle" => poll[p].token = token \/ leaving

\* A user who is deactivated, stays so and does not go to /login is shown the
\* login page in the end, whatever is lost or reloaded meanwhile.
DeactivatedIsLoggedOut == (at = "app" /\ ~active) ~> (at = "login" \/ active)
=============================================================================
