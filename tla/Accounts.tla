------------------------------ MODULE Accounts ------------------------------
(***************************************************************************)
(* The user table of the API under concurrent administrators: routes/      *)
(* users.py behind the dependencies of middleware/auth.py, one transaction *)
(* per request (db.py).  A request is suspended at every await, so its     *)
(* authentication, its handler and its commit are steps of their own.      *)
(***************************************************************************)
EXTENDS Naturals

CONSTANTS
    Users, Names,
    Requests,  \* requests that can be under way at once
    None

VARIABLES
    role, active,
    taken,     \* rows with each username of Names
    req

table == <<role, active, taken>>
vars == <<role, active, taken, req>>

\* What sets is_active to False: PATCH, or DELETE, with the user's id in its path as
\* the API writes it or in another spelling of that UUID.
Deactivations == {"deactivate", "delete", "deleteRespelled"}

\* PATCH with one attribute, DELETE, or POST; subject is a user or, to create
\* one, a username.
Ops == {"promote", "demote", "activate", "create"} \cup Deactivations

NoRequest == [actor |-> None, op |-> None, subject |-> None, phase |-> "idle"]

Init ==
    /\ role \in [Users -> {"admin", "viewer"}]
    /\ active \in [Users -> BOOLEAN]
    /\ \E u \in Users : role[u] = "admin" /\ active[u]
    /\ taken = [n \in Names |-> 0]
    /\ req = [r \in Requests |-> NoRequest]

ActiveAdmin(u) == role[u] = "admin" /\ active[u]

----------------------------------------------------------------------------

\* Anybody who was given a token sends a request; the token outlives the role and
\* the activity of its owner.
Send(r, u, op, s) ==
    /\ req[r].phase = "idle"
    /\ s \in (IF op = "create" THEN Names ELSE Users)
    /\ req' = [req EXCEPT ![r] = [actor |-> u, op |-> op, subject |-> s, phase |-> "sent"]]
    /\ UNCHANGED table

Advance(r, phase) == req' = [req EXCEPT ![r] = IF phase = "idle" THEN NoRequest ELSE [@ EXCEPT !.phase = phase]]

\* get_current_user and require_role: 401, 403 or the handler.
Authenticate(r) ==
    /\ req[r].phase = "sent"
    /\ Advance(r, IF ActiveAdmin(req[r].actor) THEN "authenticated" ELSE "idle")
    /\ UNCHANGED table

\* Mutant of OnOneself: a DELETE of oneself passes.
OnOneselfPatchOnly(q) == q.subject = q.actor /\ q.op \in {"demote", "deactivate"}

\* Cannot change your own role, cannot deactivate yourself.  PATCH compares the id of
\* the row it has found; DELETE compares the path, before db.get finds the row of any
\* spelling.
OnOneself(q) == q.subject = q.actor /\ q.op \in {"demote", "deactivate", "delete"}

\* The row as loaded has the value already, so the session has nothing to write.
\* One's own row is the one that authentication loaded, an active administrator's:
\* in the same session, db.get gives that object again.
Void(q) ==
    \/ q.op \in {"promote", "activate"} /\ q.subject = q.actor
    \/ q.op \in {"promote", "demote"} /\ (role[q.subject] = "admin") = (q.op = "promote")
    \/ q.op = "activate" /\ active[q.subject]
    \/ q.op \in Deactivations /\ q.subject # q.actor /\ ~active[q.subject]

\* The handler: refused with 400, or 409 for a username somebody has; otherwise
\* its change waits in the session, as that of an already authenticated request.
Handle(r) ==
    /\ req[r].phase = "authenticated"
    /\ LET q == req[r]
           refused == OnOneself(q) \/ (q.op = "create" /\ taken[q.subject] > 0)
       IN  Advance(r, IF refused \/ Void(q) THEN "idle" ELSE "handled")
    /\ UNCHANGED table

\* The unique index lets one of two inserts through; the other is rolled back.
Insert(n) == taken' = [taken EXCEPT ![n] = IF @ = 0 THEN 1 ELSE @]

\* get_db commits what the session holds: only the attributes that were set.
Commit(r) ==
    /\ req[r].phase = "handled"
    /\ LET s == req[r].subject
       IN  CASE req[r].op = "promote" -> role' = [role EXCEPT ![s] = "admin"] /\ UNCHANGED <<active, taken>>
             [] req[r].op = "demote" -> role' = [role EXCEPT ![s] = "viewer"] /\ UNCHANGED <<active, taken>>
             [] req[r].op = "activate" -> active' = [active EXCEPT ![s] = TRUE] /\ UNCHANGED <<role, taken>>
             [] req[r].op \in Deactivations ->
                    active' = [active EXCEPT ![s] = FALSE] /\ UNCHANGED <<role, taken>>
             [] req[r].op = "create" -> Insert(s) /\ UNCHANGED <<role, active>>
    /\ Advance(r, "idle")

Next ==
    \E r \in Requests :
        \/ \E u \in Users, op \in Ops, s \in Users \cup Names : Send(r, u, op, s)
        \/ Authenticate(r) \/ Handle(r) \/ Commit(r)

Spec == Init /\ [][Next]_vars

----------------------------------------------------------------------------
(* Properties *)

\* The types of the variables; no two rows have one username, although two requests
\* may both have found it free.
TypeOK ==
    /\ role \in [Users -> {"admin", "viewer"}]
    /\ active \in [Users -> BOOLEAN]
    /\ taken \in [Names -> 0..1]
    /\ req \in [Requests -> [actor : Users \cup {None}, op : Ops \cup {None},
                             subject : Users \cup Names \cup {None},
                             phase : {"idle", "sent", "authenticated", "handled"}]]
    /\ \A r \in Requests : req[r].phase # "idle" => req[r].actor \in Users /\ req[r].op \in Ops

SomeAdmin == \E u \in Users : ActiveAdmin(u)

\* The step that ends r after its handler: its commit.
Commits(r) == req[r].phase = "handled" /\ req'[r].phase = "idle"

\* The installation can lose its last active administrator, but only to a request
\* that an administrator got authenticated before being demoted or deactivated, or
\* to his own DELETE under another spelling of his id: as long as requests do not
\* overlap and ids are sent as they were received, the self-checks keep one.
LastAdminFallsToAnOverlap ==
    [][ (SomeAdmin /\ ~SomeAdmin') =>
            \E r \in Requests :
                /\ Commits(r)
                /\ \/ ~ActiveAdmin(req[r].actor)
                   \/ req[r].op = "deleteRespelled" /\ req[r].subject = req[r].actor ]_vars
=============================================================================
