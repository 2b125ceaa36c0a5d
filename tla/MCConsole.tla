----------------------------- MODULE MCConsole ------------------------------
(***************************************************************************)
(* The account table, the session, the administration pages and the log    *)
(* pages share no state: one run explores each of them by itself.          *)
(***************************************************************************)
EXTENDS Naturals

CONSTANTS
    Subjects,  \* those of Accounts, Session, AdminPages and LogPages to explore
    Users, Names, Polls, MaxLogins, Items, Requests, Devices, PageSize, MaxRows, MaxMoves, None

VARIABLES
    subject,
    role, active, taken, request,
    enabled, at, token, logins, leaving, login, poll,
    page, rows, list, fetch, req, modal, testing, unseen, wanted, deleted,
    count, view, cached, fetches, moves

accounts == <<role, active, taken, request>>
session == <<enabled, at, token, logins, leaving, login, poll>>
admin == <<page, rows, list, fetch, req, modal, testing, unseen, wanted, deleted>>
logs == <<count, view, cached, fetches, moves>>
vars == <<subject, accounts, session, admin, logs>>

A == INSTANCE Accounts WITH req <- request
S == INSTANCE Session WITH active <- enabled
P == INSTANCE AdminPages WITH cached <- list
L == INSTANCE LogPages WITH fetch <- fetches

\* None is no value of what it is told apart from.
ASSUME NoneIsNothing ==
    /\ None \notin Nat /\ None \notin {"toggle", "select", "delete", "test", "create"}
    /\ None \notin P!Row /\ None \notin P!Tables

ASSUME Bounds == {MaxLogins, MaxRows, MaxMoves} \subseteq Nat /\ PageSize \in Nat \ {0}

Init ==
    /\ subject \in Subjects
    /\ A!Init /\ S!Init /\ P!Init /\ L!Init
    /\ subject # "accounts" => \A u \in Users : role[u] = "admin" /\ active[u]
    /\ subject # "admin" => page = "users" /\ \A i \in Items : rows[i] = None

Next ==
    \/ subject = "accounts" /\ A!Next /\ UNCHANGED <<subject, session, admin, logs>>
    \/ subject = "session" /\ S!Next /\ UNCHANGED <<subject, accounts, admin, logs>>
    \/ subject = "admin" /\ P!Next /\ UNCHANGED <<subject, accounts, session, logs>>
    \/ subject = "logs" /\ L!Next /\ UNCHANGED <<subject, accounts, session, admin>>

\* S!Fairness and L!Fairness where those are what is explored.
Fairness ==
    /\ \A p \in Polls :
        /\ WF_session(subject = "session" /\ S!SendPoll(p))
        /\ WF_session(subject = "session" /\ S!Settled(p))
        /\ SF_session(subject = "session" /\ S!Authenticated(p))
        /\ SF_session(subject = "session" /\ S!Unauthorised(p))
    /\ WF_logs(subject = "logs" /\ L!Refetch(view))
    /\ SF_logs(subject = "logs" /\ L!Read(view))
    /\ SF_logs(subject = "logs" /\ L!Answer(view))

Spec == Init /\ [][Next]_vars
FairSpec == Spec /\ Fairness

\* The type invariants of the four.
TypeOK == A!TypeOK /\ S!TypeOK /\ P!TypeOK /\ L!TypeOK

\* Accounts: only a request that overlaps another, or names its own author by another
\* spelling, takes the last administrator away.
LastAdminFallsToAnOverlap == A!LastAdminFallsToAnOverlap

\* Session: a late 401 never ends the session of a newer login once the document that
\* logged out is left.
RefusalsAreOwn == S!RefusalsAreOwn

\* Session: a deactivated user is logged out in the end.
DeactivatedIsLoggedOut == S!DeactivatedIsLoggedOut

\* AdminPages: a page at rest shows the table.
QuietPageIsCurrent == P!QuietPageIsCurrent

\* AdminPages: clicks on one row's button take effect in their order.
LastToggleWins == P!LastToggleWins

\* AdminPages: what was answered as deleted is gone.
DeletedIsGone == P!DeletedIsGone

\* LogPages: the page shown comes to agree with the table.
PagesConverge == (subject = "logs") => L!PagesConverge
=============================================================================
