----------------------------- MODULE AdminPages -----------------------------
(***************************************************************************)
(* UsersPage and WebhooksPage while an administrator stays on one of them: *)
(* a cached list, the requests of its buttons, each sent, committed and    *)
(* answered on its own, and the API's routes behind them.  Neither page    *)
(* polls: it learns of a change by its own mutations' invalidations only.  *)
(***************************************************************************)
EXTENDS Naturals, QueryCache

CONSTANTS
    Items,    \* users other than oneself, or webhooks
    Requests  \* requests of the page that can be under way at once

VARIABLES
    page,     \* "users" or "webhooks"
    rows,     \* the table as committed: None, or the row's is_active and role
    cached, fetch,
    req,      \* requests; seen: a mounted useMutation still shows this one
    modal,    \* "closed", "open", or "secret" when the webhook it created is shown
    testing,
    unseen,   \* something may have changed that no invalidation followed
    wanted,   \* is_active that the last click on each row's button asked for, if nothing but such clicks decides it
    deleted   \* rows whose deletion was answered with ok

list == <<cached, fetch>>
widgets == <<modal, testing>>
vars == <<page, rows, list, req, widgets, unseen, wanted, deleted>>

Roles == {"admin", "viewer"}
Row == [active : BOOLEAN, role : Roles]

NoRequest == [op |-> None, item |-> None, value |-> None, phase |-> "idle", seen |-> FALSE]

Patches == {"toggle", "select"}

Tables == [Items -> Row \cup {None}]

Init ==
    /\ page \in {"users", "webhooks"}
    /\ rows \in [Items -> {None, [active |-> TRUE, role |-> "admin"]}]
    /\ cached = None /\ fetch = Asked
    /\ req = [r \in Requests |-> NoRequest]
    /\ modal = "closed" /\ testing = None
    /\ unseen = FALSE /\ wanted = [i \in Items |-> None] /\ deleted = {}

Shown == IF cached = None THEN {} ELSE {i \in Items : cached[i] # None}

Pending(r) == req[r].phase # "idle"

Toggling(i) == \E r \in Requests : req[r].op = "toggle" /\ req[r].item = i

----------------------------------------------------------------------------
(* Clicks *)

\* mutate(): the useMutation forgets the request it showed before.
Start(r, ops, op, i, v) ==
    /\ req[r].phase = "idle"
    /\ req' = [q \in Requests |->
                IF q = r THEN [op |-> op, item |-> i, value |-> v, phase |-> "sent", seen |-> TRUE]
                ELSE [req[q] EXCEPT !.seen = @ /\ req[q].op \notin ops]]

\* Mutant of ToggleEnabled: the button is never disabled.
ToggleAlwaysEnabled == TRUE

\* On UsersPage disabled={patchMut.isPending}, of the last mutation that was started.
ToggleEnabled ==
    page = "users" => \A r \in Requests : ~(req[r].seen /\ req[r].op \in Patches)

\* Deactivate and Reactivate, Disable and Enable: the opposite of what is shown.
Toggle(r, i) ==
    /\ i \in Shown /\ ToggleEnabled
    /\ Start(r, Patches, "toggle", i, ~cached[i].active)
    /\ wanted' = [wanted EXCEPT ![i] = IF @ = None /\ Toggling(i) THEN None ELSE ~cached[i].active]
    /\ UNCHANGED <<page, rows, list, widgets, unseen, deleted>>

\* The role selector is there also while another change is pending.
SelectRole(r, i, role) ==
    /\ page = "users" /\ i \in Shown /\ cached[i].role # role
    /\ Start(r, Patches, "select", i, role)
    /\ wanted' = [j \in Items |-> IF Toggling(j) THEN None ELSE wanted[j]]
    /\ UNCHANGED <<page, rows, list, widgets, unseen, deleted>>

Delete(r, i) ==
    /\ page = "webhooks" /\ i \in Shown
    /\ Start(r, {"delete"}, "delete", i, None)
    /\ UNCHANGED <<page, rows, list, widgets, unseen, wanted, deleted>>

\* testHook: one testing for all rows.
Test(r, i) ==
    /\ page = "webhooks" /\ i \in Shown /\ testing # i
    /\ Start(r, {}, "test", i, None)
    /\ testing' = i
    /\ UNCHANGED <<page, rows, list, modal, unseen, wanted, deleted>>

OpenModal ==
    /\ modal = "closed" /\ modal' = "open"
    /\ UNCHANGED <<page, rows, list, req, testing, unseen, wanted, deleted>>

\* Mutant of Unmounted: the modal keeps its mutation when it is closed.
UnmountedNot == req

\* What the modal's own useMutation showed goes with it.
Unmounted == [r \in Requests |-> [req[r] EXCEPT !.seen = @ /\ req[r].op # "create"]]

\* Cancel or Done.
CloseModal ==
    /\ modal # "closed" /\ modal' = "closed"
    /\ req' = Unmounted
    /\ UNCHANGED <<page, rows, list, testing, unseen, wanted, deleted>>

\* disabled={mut.isPending || ...} of the modal that is open.
SaveEnabled == modal = "open" /\ \A q \in Requests : ~(req[q].seen /\ req[q].op = "create")

Create(r) ==
    /\ SaveEnabled
    /\ Start(r, {"create"}, "create", None, None)
    /\ UNCHANGED <<page, rows, list, widgets, unseen, wanted, deleted>>

----------------------------------------------------------------------------
(* The API *)

\* db.delete returns a coroutine that nobody awaits.
Written(q) ==
    CASE q.op = "toggle" -> {[rows EXCEPT ![q.item].active = q.value]}
      [] q.op = "select" -> {[rows EXCEPT ![q.item].role = q.value]}
      [] q.op = "create" -> {[rows EXCEPT ![i] = [active |-> TRUE, role |-> "admin"]] :
                                i \in {j \in Items : rows[j] = None}}
      [] q.op \in {"delete", "test"} -> {rows}

\* The handler and its commit; a page that gave up waiting hears nothing of it.
Commit(r) ==
    /\ req[r].phase \in {"sent", "orphan"}
    /\ rows' \in Written(req[r])
    /\ IF req[r].phase = "orphan"
       THEN req' = [req EXCEPT ![r] = NoRequest] /\ unseen' = TRUE
       ELSE req' = [req EXCEPT ![r].phase = "ok"] /\ UNCHANGED unseen
    /\ UNCHANGED <<page, list, widgets, wanted, deleted>>

\* Another administrator changes a row.
Foreign(i) ==
    /\ rows[i] # None
    /\ rows' = [rows EXCEPT ![i].active = ~@]
    /\ unseen' = TRUE
    /\ wanted' = [wanted EXCEPT ![i] = None]
    /\ UNCHANGED <<page, list, req, widgets, deleted>>

----------------------------------------------------------------------------
(* Answers *)

\* The finally of testHook.
TestDone(r, ok) == testing' = IF req[r].op = "test" THEN None ELSE testing

\* onCreate and onClose of the page: whichever modal is open by then is closed.
UserCreated(q) == modal' = "closed"

\* setCreated: the secret is shown once, if the modal that asked is still there.
WebhookCreated(q) == modal' = IF q.seen THEN "secret" ELSE modal

\* onSuccess: invalidate.  toggle, select and delete return the promise of the
\* refetch and stay pending for it, or until another invalidation cancels it.
Answer(r) ==
    /\ req[r].phase = "ok"
    /\ LET q == req[r]
           waits == q.op \in Patches \cup {"delete"}
           ended == [s \in Requests |->
                IF s = r THEN IF waits THEN [q EXCEPT !.phase = "refetching"] ELSE NoRequest
                ELSE IF req[s].phase = "refetching" /\ q.op # "test" THEN NoRequest
                ELSE IF q.op = "create" /\ page = "users" THEN Unmounted[s] ELSE req[s]]
       IN  /\ req' = ended
           /\ CASE q.op # "create" -> UNCHANGED modal
                [] q.op = "create" /\ page = "users" -> UserCreated(q)
                [] q.op = "create" /\ page = "webhooks" -> WebhookCreated(q)
           /\ deleted' = IF q.op = "delete" THEN deleted \cup {q.item} ELSE deleted
           /\ fetch' = IF q.op = "test" THEN fetch ELSE Invalidated(fetch, cached)
           /\ unseen' = (unseen \/ (q.op = "create" /\ cached = None))
    /\ TestDone(r, TRUE)
    /\ UNCHANGED <<page, rows, cached, wanted>>

\* Refused, a failing connection, or no answer within 15 s.  The request may be on
\* its way still; nothing is invalidated.
Fail(r) ==
    /\ req[r].phase \in {"sent", "ok"}
    /\ req' = [req EXCEPT ![r] = IF @.phase = "sent" /\ @.op # "test"
                                 THEN [@ EXCEPT !.phase = "orphan", !.seen = FALSE] ELSE NoRequest]
    /\ unseen' = TRUE
    /\ wanted' = [i \in Items |-> IF req[r].item = i THEN None ELSE wanted[i]]
    /\ TestDone(r, FALSE)
    /\ UNCHANGED <<page, rows, list, modal, deleted>>

OrphanRefused(r) ==
    /\ req[r].phase = "orphan"
    /\ req' = [req EXCEPT ![r] = NoRequest]
    /\ UNCHANGED <<page, rows, list, widgets, unseen, wanted, deleted>>

Read ==
    /\ fetch.phase = "asked"
    /\ fetch' = ReadBy(fetch, rows)
    /\ unseen' = FALSE
    /\ UNCHANGED <<page, rows, cached, req, widgets, wanted, deleted>>

Waiting == [r \in Requests |-> IF req[r].phase = "refetching" THEN NoRequest ELSE req[r]]

Listed ==
    /\ fetch.phase = "read"
    /\ cached' = fetch.rows /\ fetch' = NoFetch
    /\ req' = Waiting
    /\ UNCHANGED <<page, rows, widgets, unseen, wanted, deleted>>

FetchFails ==
    /\ fetch.phase # "idle"
    /\ fetch' = NoFetch
    /\ req' = Waiting
    /\ unseen' = TRUE
    /\ UNCHANGED <<page, rows, cached, widgets, wanted, deleted>>

Next ==
    \/ \E r \in Requests, i \in Items : Toggle(r, i) \/ Delete(r, i) \/ Test(r, i)
    \/ \E r \in Requests, i \in Items, role \in Roles : SelectRole(r, i, role)
    \/ OpenModal \/ CloseModal
    \/ \E r \in Requests : Create(r) \/ Commit(r) \/ Answer(r) \/ Fail(r) \/ OrphanRefused(r)
    \/ \E i \in Items : Foreign(i)
    \/ Read \/ Listed \/ FetchFails

Spec == Init /\ [][Next]_vars

----------------------------------------------------------------------------
(* Properties *)

Asking(ops, items, values) ==
    [op : ops, item : items, value : values,
     phase : {"idle", "sent", "ok", "orphan", "refetching"}, seen : BOOLEAN]

Request ==
    Asking({"toggle"}, Items, BOOLEAN) \cup Asking({"select"}, Items, Roles)
        \cup Asking({"delete", "test"}, Items, {None}) \cup Asking({"create", None}, {None}, {None})

\* The types of the variables; at most one create is shown, by the open modal.
TypeOK ==
    /\ page \in {"users", "webhooks"}
    /\ rows \in Tables
    /\ cached \in Tables \cup {None}
    /\ fetch.phase \in {"idle", "asked", "read"} /\ fetch.rows \in Tables \cup {None}
    /\ req \in [Requests -> Request]
    /\ modal \in {"closed", "open", "secret"} /\ testing \in Items \cup {None}
    /\ unseen \in BOOLEAN /\ wanted \in [Items -> BOOLEAN \cup {None}] /\ deleted \subseteq Items
    /\ \A r \in Requests : req[r].seen /\ req[r].op = "create" => modal = "open"

\* Once everything the page started has ended, it shows the table, unless another
\* administrator or a failure changed what no invalidation followed: a refetch
\* never brings back rows from before the change that asked for it.
QuietPageIsCurrent ==
    (~unseen /\ fetch.phase = "idle" /\ \A r \in Requests : ~Pending(r)) => cached = rows

\* Clicks on one row's button take effect in their order: when none of them is under
\* way, the row is what the last one asked for.  On WebhooksPage, which disables
\* nothing, and around a role selected meanwhile, this is not so.
LastToggleWins ==
    page = "users" =>
        \A i \in Items :
            (wanted[i] # None /\ ~Toggling(i)) => rows[i].active = wanted[i]

\* What webhooks.py:7 says of the route: a deletion that was answered with ok has
\* removed the webhook.
DeletedIsGone == \A i \in deleted : rows[i] = None
=============================================================================
