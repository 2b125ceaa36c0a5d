------------------------------- MODULE Alerts -------------------------------
(***************************************************************************)
(* Alerts from the request that creates them to the operator that resolves *)
(* them: routes/alerts.py and routes/stream.py in every worker process of  *)
(* the API, and one dashboard tab with its three event streams (badge,     *)
(* toasts, AlertsPage) over one cached list.                               *)
(***************************************************************************)
EXTENDS Naturals, FiniteSets, Sequences, QueryCache

CONSTANTS
    Alerts,
    Streams,     \* sets of event streams, of "badge", "toast" and "page", that a tab gets connected
    Resolvers,   \* resolve requests: the tab's mutation "me" and other operators'
    QueueSize,   \* maxsize of a subscriber's queue
    ToastSlots,  \* toasts shown at once
    ListLimit,   \* rows that GET /alerts returns at most
    Times,       \* the values of created_at, one for each alert or more
    MaxFaults    \* bound: streams broken, fetches failed, workers stopped

Listeners == {"badge", "toast", "page"}

ASSUME StreamsAreListeners == Streams \subseteq SUBSET Listeners
ASSUME Sizes == {QueueSize, ToastSlots, ListLimit} \subseteq Nat \ {0} /\ MaxFaults \in Nat
ASSUME TimesAreNumbers == Times \subseteq Nat \ {0}

VARIABLES
    row,        \* the alerts table as committed
    createdAt,  \* its column created_at; 0 of an alert that is not there
    stage,      \* the request that creates each alert, then its background tasks
    streams,    \* the tab's event streams that can connect at all
    link,       \* those that are connected, each to some worker process
    queue,      \* each one's queue there
    noticed,    \* alerts the badge's stream has brought
    liveCount,
    toasts,     \* newest first
    data, fetch,
    owed,       \* the news, of an alert and its status, the list is being refetched for
    req, answered,
    faults

table == <<row, createdAt, stage>>
stream == <<streams, link, queue>>
tab == <<noticed, liveCount, toasts>>
list == <<data, fetch, owed>>
resolve == <<req, answered>>
vars == <<table, stream, tab, list, resolve, faults>>

NoRequest == [alert |-> None, phase |-> "idle", after |-> FALSE]

Init ==
    /\ row = [a \in Alerts |-> "absent"]
    /\ createdAt = [a \in Alerts |-> 0]
    /\ stage = [a \in Alerts |-> "new"]
    /\ streams \in Streams
    /\ link = {}
    /\ queue = [l \in Listeners |-> <<>>]
    /\ noticed = {} /\ liveCount = 0 /\ toasts = <<>>
    /\ data = None /\ fetch = Asked /\ owed = {}
    /\ req = [r \in Resolvers |-> NoRequest]
    /\ answered = {}
    /\ faults = 0

----------------------------------------------------------------------------
(* Creating an alert *)

\* create_alert flushes, get_db commits when it has returned, the response is sent;
\* only then do the background tasks start.  created_at is stamped by the flush, from
\* the worker's clock: alerts need not be committed in its order.
Create(a) ==
    /\ stage[a] = "new"
    /\ row' = [row EXCEPT ![a] = "open"]
    /\ \E t \in Times \ {createdAt[b] : b \in Alerts} : createdAt' = [createdAt EXCEPT ![a] = t]
    /\ stage' = [stage EXCEPT ![a] = "tasks"]
    /\ UNCHANGED <<stream, tab, list, resolve, faults>>

\* After the webhooks, broadcast_alert in the process that served the request: it
\* reaches the streams connected to that process, and skips a full queue.
Broadcast(a) ==
    /\ stage[a] = "tasks"
    /\ stage' = [stage EXCEPT ![a] = "done"]
    /\ \E here \in SUBSET link :
        queue' = [l \in Listeners |->
            IF l \in here /\ Len(queue[l]) < QueueSize THEN Append(queue[l], a) ELSE queue[l]]
    /\ UNCHANGED <<row, createdAt, streams, link, tab, list, resolve, faults>>

\* The worker stops while the tasks run; they are nowhere recorded.
TasksLost(a) ==
    /\ stage[a] = "tasks" /\ faults < MaxFaults
    /\ faults' = faults + 1
    /\ stage' = [stage EXCEPT ![a] = "done"]
    /\ UNCHANGED <<row, createdAt, stream, tab, list, resolve>>

----------------------------------------------------------------------------
(* Event streams *)

\* EventSource connects, at first and after an error, to whichever worker answers:
\* an empty queue; nothing that was sent meanwhile is sent again.
Subscribe(l) ==
    /\ l \in streams \ link
    /\ link' = link \cup {l}
    /\ UNCHANGED <<table, streams, queue, tab, list, resolve, faults>>

\* The generator's finally removes the queue with what it holds.
StreamBreaks(l) ==
    /\ l \in link /\ faults < MaxFaults
    /\ faults' = faults + 1
    /\ link' = link \ {l}
    /\ queue' = [queue EXCEPT ![l] = <<>>]
    /\ UNCHANGED <<table, streams, tab, list, resolve>>

\* Mutant of AddToast: the slice keeps one more.
AddToastUnsliced(a) == toasts' = <<a>> \o toasts

AddToast(a) ==
    LET stacked == <<a>> \o toasts
    IN  toasts' = SubSeq(stacked, 1, IF Len(stacked) < ToastSlots THEN Len(stacked) ELSE ToastSlots)

\* invalidateQueries(['alerts']), after news that a has status s.
InvalidateAlerts(a, s) ==
    /\ fetch' = Invalidated(fetch, data)
    /\ owed' = IF fetch.phase # "idle" /\ data = None THEN owed ELSE owed \cup {[alert |-> a, status |-> s]}
    /\ UNCHANGED data

\* The alert reaches a listener's callback.
Notice(l) ==
    /\ queue[l] # <<>>
    /\ LET a == Head(queue[l])
       IN  CASE l = "badge" -> /\ liveCount' = liveCount + 1
                               /\ noticed' = noticed \cup {a}
                               /\ InvalidateAlerts(a, "open")
                               /\ UNCHANGED toasts
             [] l = "toast" -> AddToast(a) /\ UNCHANGED <<noticed, liveCount, list>>
             [] l = "page"  -> InvalidateAlerts(a, "open") /\ UNCHANGED tab
    /\ queue' = [queue EXCEPT ![l] = Tail(@)]
    /\ UNCHANGED <<table, streams, link, resolve, faults>>

\* The 8 s timer of the toast, or its close button: every toast has an id of its own.
Dismiss(i) ==
    /\ i \in DOMAIN toasts
    /\ toasts' = SubSeq(toasts, 1, i - 1) \o SubSeq(toasts, i + 1, Len(toasts))
    /\ UNCHANGED <<table, stream, noticed, liveCount, list, resolve, faults>>

----------------------------------------------------------------------------
(* The cached list *)

\* Mutant of Poll: no refetchInterval.
PollNever == fetch.phase = "idle" /\ data = None /\ fetch' = Asked /\ UNCHANGED <<table, stream, tab, data, owed, resolve, faults>>

Poll ==
    /\ fetch.phase = "idle"
    /\ fetch' = Asked
    /\ UNCHANGED <<table, stream, tab, data, owed, resolve, faults>>

Newer(a) == {b \in Alerts : row[b] # "absent" /\ createdAt[b] > createdAt[a]}

\* a is not among the first ListLimit rows of order_by(created_at.desc()).
Cut(a) == Cardinality(Newer(a)) >= ListLimit

NewestRows == [a \in Alerts |-> IF Cut(a) THEN "absent" ELSE row[a]]

ListAlerts ==
    /\ fetch.phase = "asked"
    /\ fetch' = ReadBy(fetch, NewestRows)
    /\ UNCHANGED <<table, stream, tab, data, owed, resolve, faults>>

\* Mutant of Listed: the list takes the live count's place.
ListedResetting ==
    /\ fetch.phase = "read"
    /\ data' = fetch.rows
    /\ fetch' = NoFetch /\ owed' = {} /\ liveCount' = 0
    /\ UNCHANGED <<table, stream, noticed, toasts, resolve, faults>>

Listed ==
    /\ fetch.phase = "read"
    /\ data' = fetch.rows
    /\ fetch' = NoFetch /\ owed' = {}
    /\ UNCHANGED <<table, stream, tab, resolve, faults>>

\* The request and its one retry failed: the old list stays until the next poll.
ListFails ==
    /\ fetch.phase # "idle" /\ faults < MaxFaults
    /\ faults' = faults + 1
    /\ fetch' = NoFetch /\ owed' = {}
    /\ UNCHANGED <<table, stream, tab, data, resolve>>

----------------------------------------------------------------------------
(* Resolving *)

\* The Resolve button of an alert the list shows as open; no button works while this
\* tab's mutation is pending (which the code stretches until the list is refetched).
Click(a) ==
    /\ "me" \in Resolvers /\ req["me"].phase = "idle"
    /\ data # None /\ data[a] = "open"
    /\ req' = [req EXCEPT !["me"] = [alert |-> a, phase |-> "sent", after |-> a \in answered]]
    /\ UNCHANGED <<table, stream, tab, list, answered, faults>>

\* Another operator, whose list may be arbitrarily old.
OtherClicks(r, a) ==
    /\ r # "me" /\ req[r].phase = "idle"
    /\ row[a] # "absent"
    /\ req' = [req EXCEPT ![r] = [alert |-> a, phase |-> "sent", after |-> a \in answered]]
    /\ UNCHANGED <<table, stream, tab, list, answered, faults>>

\* db.get and the test of resolved_at, without a lock.  A 409 changes nothing: the
\* mutation has no onError, the list stays as it is.
CheckUnresolved(r) ==
    /\ req[r].phase = "sent"
    /\ req' = [req EXCEPT ![r] = IF row[@.alert] = "resolved" THEN NoRequest
                                 ELSE [@ EXCEPT !.phase = "checked"]]
    /\ UNCHANGED <<table, stream, tab, list, answered, faults>>

CommitResolve(r) ==
    /\ req[r].phase = "checked"
    /\ row' = [row EXCEPT ![req[r].alert] = "resolved"]
    /\ req' = [req EXCEPT ![r].phase = "committed"]
    /\ UNCHANGED <<createdAt, stage, stream, tab, list, answered, faults>>

\* Mutant of AnswerOk: the response leaves before the commit.
AnswerOkEarly(r) ==
    /\ req[r].phase \in {"checked", "committed"}
    /\ req' = [req EXCEPT ![r] = NoRequest]
    /\ answered' = answered \cup {req[r].alert}
    /\ UNCHANGED <<table, stream, tab, list, faults>>

\* 200, after the commit: the tab's onSuccess invalidates the list.
AnswerOk(r) ==
    /\ req[r].phase = "committed"
    /\ req' = [req EXCEPT ![r] = NoRequest]
    /\ answered' = answered \cup {req[r].alert}
    /\ IF r = "me" THEN InvalidateAlerts(req[r].alert, "resolved") ELSE UNCHANGED list
    /\ UNCHANGED <<table, stream, tab, faults>>

----------------------------------------------------------------------------

Answering(r) == CheckUnresolved(r) \/ CommitResolve(r) \/ AnswerOk(r)

Fetching == Poll \/ ListAlerts \/ Listed

Next ==
    \/ \E a \in Alerts : Create(a) \/ Broadcast(a) \/ TasksLost(a) \/ Click(a)
    \/ \E l \in Listeners : Subscribe(l) \/ StreamBreaks(l) \/ Notice(l)
    \/ \E i \in DOMAIN toasts : Dismiss(i)
    \/ Fetching \/ ListFails
    \/ \E r \in Resolvers : Answering(r) \/ \E a \in Alerts : OtherClicks(r, a)

\* Requests under way and timers come to their end; the tab stays visible, so its
\* interval runs.  Nothing is assumed of operators or of the event streams.
Fairness ==
    /\ \A r \in Resolvers : WF_vars(Answering(r))
    /\ WF_vars(Fetching)

Spec == Init /\ [][Next]_vars

FairSpec == Spec /\ Fairness

----------------------------------------------------------------------------
(* Properties *)

Unresolved(rows) == {a \in Alerts : rows # None /\ rows[a] = "open"}

\* The number in the sidebar: unresolvedBase + liveCount.
Badge == Cardinality(Unresolved(data)) + liveCount

Status == {"absent", "open", "resolved"}
Rows == [Alerts -> Status] \cup {None}

\* The types of the variables, and the sizes of the queues and the toast stack.
TypeOK ==
    /\ row \in [Alerts -> Status]
    /\ createdAt \in [Alerts -> Times \cup {0}]
    /\ stage \in [Alerts -> {"new", "tasks", "done"}]
    /\ streams \subseteq Listeners /\ link \subseteq streams
    /\ queue \in [Listeners -> Seq(Alerts)] /\ \A l \in Listeners : Len(queue[l]) <= QueueSize
    /\ noticed \subseteq Alerts /\ liveCount \in Nat
    /\ toasts \in Seq(Alerts) /\ Len(toasts) <= ToastSlots
    /\ data \in Rows
    /\ fetch.phase \in {"idle", "asked", "read"} /\ fetch.rows \in Rows
    /\ owed \subseteq [alert : Alerts, status : Status] /\ answered \subseteq Alerts
    /\ req \in [Resolvers -> [alert : Alerts \cup {None}, after : BOOLEAN,
                              phase : {"idle", "sent", "checked", "committed"}]]
    /\ faults \in 0..MaxFaults

\* Once the list is loaded, the list that follows a notice or a resolve of this tab
\* is read after it: a fetch that was already under way is not taken for it.  Only an
\* alert that newer ones have pushed out of the list is not seen there.
RefetchSeesTheChange ==
    \A n \in owed :
        \/ fetch.phase = "asked"
        \/ fetch.phase = "read" /\ (fetch.rows[n.alert] \in {n.status, "resolved"} \/ Cut(n.alert))

\* The badge may count an alert twice but never misses an unresolved one that the
\* tab knows, from its list or from its event stream.
BadgeCoversKnownAlerts ==
    Badge >= Cardinality({a \in Alerts : row[a] = "open" /\ (a \in noticed \/ a \in Unresolved(data))})

\* A resolve that is sent after another one of the same alert was answered ok gets
\* the conflict; only requests that overlap can both be told that they resolved it.
LateResolveRefused ==
    \A r \in Resolvers : req[r].phase \in {"checked", "committed"} => ~req[r].after

\* Whatever the event streams lose - another worker's alerts, a full queue, a gap
\* between two connections - the list is that of the database in the end, as far as
\* it is listed.
ListConverges == <>[](data = NewestRows)
=============================================================================
