# Desktop-Monitoring-System: a TLA+ development

Specifications, model-checking configurations and machine-checked proofs for the
Remote Desktop Monitoring system in this repository: an agent on each monitored
machine, a signaling server that carries frames and WebRTC negotiation, a REST
backend, and a browser dashboard.  Every definition is written from the source; the
lines it stands for are in `PROJECT.json`, under `map`.

Contents: 1 the system, 2 the modules, 3 what is checked, 4 what is proved, 5 what the
models found, 6 what is left out, 7 the plan.

## 1. The system

### Signaling server (`signaling-server/src`, Node)

| part | state | operations |
| --- | --- | --- |
| `index.js` | `wss.clients`, `ws.isAlive`, the ping timer | `connection`, `pong`, `close`, timer tick, SIGTERM/SIGINT |
| `rateLimit.js` | `ipConns`: address -> live connections | `onConnect`, `onDisconnect` |
| `deviceManager.js` | `devices`, `viewers`, `viewerConns` | register, unregister, attach, detach |
| `signaling.js` | `role` and `entityId` in a closure per connection | one `message` listener, one `close` listener |
| `auth.js`, `turnCredentials.js` | none | verify a token, sign a TURN user name |

Node runs one callback at a time, so the server has no data races; what is hard is the
*order* of callbacks.  A close event arrives long after the peer is gone, a device may
have reconnected by then, a ping may be outstanding, the two maps that describe a watch
are changed by four different messages, and any of the parties can vanish without a
close.  Correct means: a slot of the limit is held exactly by a live connection; the
registry names live connections that are what they say; the two directions of the watch
relation agree; nobody waits for frames of a device that is gone without having been
told; and whoever vanishes is forgotten.

### Agent (`agent/src`, C++)

| part | state | operations |
| --- | --- | --- |
| `webrtc/signaling_client.cpp` | the connection, `backoff_ms` | connect, register, read, capture, close, back off |
| `main.cpp` | `g_running` | start the workers, run the loop, stop and join |
| `heartbeat/`, `activity/` | a thread and a `running_` flag each | post, sample, sleep, stop |
| `service/windows_service.cpp` | service status, `g_stop_event` | `SvcMain`, `SvcCtrlHandler`; nothing calls the dispatcher that would run them |
| `identity.cpp`, `config.cpp` | the identity file | load or create |
| `capture/`, `encoder/`, `webrtc/peer_connection.cpp` | pixels, media | capture, encode |

Three threads and a signal handler share flags; every network call blocks.  Correct
means: the loop comes back from every failure, waits longer after each one and not
longer than the maximum, stops when it is asked to, and no worker outlives the objects
it refers to.

### Backend (`backend-api/app`, FastAPI and SQLAlchemy)

| part | state | operations |
| --- | --- | --- |
| `routes/devices.py`, `routes/logs.py`, `db.py` | devices, activity logs | heartbeat (creates the row), bulk status, delete, ingest, pages |
| `routes/alerts.py`, `routes/stream.py` | alerts, subscriber queues | create, resolve, broadcast, two event streams |
| `routes/webhooks.py`, `services/webhook.py` | webhooks | create, update, delete, deliver after the commit |
| `routes/auth.py`, `routes/users.py`, `middleware/auth.py` | users, audit rows | login, tokens, create, update, deactivate |
| `routes/metrics.py`, `main.py` | none | counters, wiring |

Each request is a coroutine with a session of its own, committed when the handler
returns and rolled back when it raises, and any two requests interleave at their awaits.
Correct means: check-then-act pairs survive a concurrent request, an answer of success
means the row changed, audit rows survive the failures they describe, and a subscriber
sees the alerts it should.

### Dashboard (`frontend/src`, React)

| part | state | operations |
| --- | --- | --- |
| `hooks/useWebRTC.js`, `DeviceTile`, `DevicePage` | one socket per watched device, a status, an object URL | join and watch, frames, messages, clean-up |
| `hooks/useSSE.js`, `hooks/useAlertBadge.js`, `components/AlertToast.jsx`, `AlertsPage` | event streams, a counter, up to five toasts, a cached list | count, toast, refetch, resolve |
| `UsersPage`, `WebhooksPage` | a cached list, mutations, a modal | toggle, select a role, delete, test, create |
| `LogsPage` | a filter, a page number, a cached query for each | filter, turn pages, refetch |
| `App`, `LoginPage`, `store/auth.js`, `lib/api.js` | the token, in memory and in sessionStorage | log in, log out, guard, react to 401 |
| `DashboardPage`, `Layout` | none of their own | filter a polled list, link |

Handlers await between reading a message and acting on it; a component can be gone, or
stand for something else, when they go on.  Requests of one page overlap and their
answers arrive in any order, after other requests changed the rows again.  Correct
means: a view shows what it says, nothing it opened outlives it, and a page that has come
to rest shows the table.

### How the parts interact

- agent -> signaling server: WebSocket; `device_register`, then frames.  The server
  forwards `viewer_request`, `offer` and `ice_candidate` to it.
- dashboard -> signaling server: WebSocket; `viewer_join`, `viewer_watch`, then frames,
  `device_disconnected` and errors come back.
- agent -> backend: HTTP heartbeats and activity logs, from the heartbeat thread.
- dashboard -> backend: REST, and two server-sent event streams.
- backend -> outside: webhooks.  The two servers share only the signing secret.

## 2. The modules

| module | models | role |
| --- | --- | --- |
| `Connections` | `index.js`, `rateLimit.js` | component |
| `ConnSlots` | -- | what the limiter promises: slots, taken, refused, released |
| `DeviceManager` | `deviceManager.js` | the registry's maps and operations |
| `SignalingRouter` | `signaling.js` | component, over any behaviour of the sockets |
| `WatchService` | -- | what the registry promises: presence and watching |
| `SignalingServer` | the server process | composition of `Connections` and `SignalingRouter` |
| `AgentLink` | the agent process | component, over any server and network |
| `DeviceView` | `useWebRTC.js` in a `DeviceTile` or `DevicePage` | component, over the server as one viewer sees it |
| `QueryCache` | a query of TanStack Query 5 (external) | operators: asked, invalidated, read |
| `Alerts` | `routes/alerts.py`, `routes/stream.py`, `useSSE.js`, `useAlertBadge.js`, `AlertToast.jsx`, `AlertsPage.jsx` | API and tab together |
| `Accounts` | `routes/users.py`, `middleware/auth.py`, `db.py` | component: the user table |
| `Session` | `App.jsx`, `LoginPage.jsx`, `store/auth.js`, `lib/api.js`, `routes/auth.py` | API and tab together |
| `AdminPages` | `UsersPage.jsx`, `WebhooksPage.jsx`, `routes/users.py`, `routes/webhooks.py` | API and tab together |
| `LogPages` | `LogsPage.jsx`, `routes/logs.py` | API and tab together |
| `..._proofs` | -- | theorems about `Connections`, `SignalingRouter`, `SignalingServer`, `AgentLink`, `DeviceView`, `Alerts`, `Accounts`; `Console_proofs`: about `Session`, `AdminPages`, `LogPages` and the four under `MCConsole` |
| `MC...` | -- | what is added for TLC |

### Connections

One action per callback: `Accept`/`Reject` are the two outcomes of the `connection`
listener, `PingTick` is the interval, `Pong`, and a `CloseEvent` with its two causes.
`readyState` is the socket's; a connection stays in `wss.clients` (`Live`) until its
close event.  A refused connection was upgraded and is being closed: it is live, holds no
slot, has no `isAlive` (so the first tick terminates it) and no listener.  `peerUp` and
`pinged` are the far side: a peer that vanished never answers and never closes.

`clientIp` makes `''` of an `X-Forwarded-For` that begins with a comma (`EmptyIp`).
`onConnect` counts such a connection and returns `''`, and index.js:52 takes the falsy
result for a refusal: the connection is counted, closed with 1008, and no close listener
ever takes the count back.  `Reject` is both kinds of refusal; `from` is the address a
connection came with, `ip` the one its listeners keep, and `Named` the addresses one can
be let in under.
`Shutdown` clears the timer and leaves the clients connected, as `wss.close()` of ws 8
does; `ExitDrained` and `ExitForced` are the two ways out, `Crash` and `Restart` the
process's environment (compose restarts it).

### DeviceManager and SignalingRouter

`DeviceManager` writes each function of `deviceManager.js` as the change it makes to the
three maps; a missing viewer set and an empty one behave alike and are both `{}`.
`SignalingRouter` has one action per message type, with the guard the listener gives it.
ws 8 delivers text frames as `Buffer`s too, so every message of a connection that has
registered as a device takes the frame branch (`DeviceMessage`); the `switch` sees only
viewers and connections without a role (`Dispatched`).  Messages are received until the
socket has closed (`Receives`), a send reaches only an `OPEN` socket (`Sends`), and
`out` holds what the step sent.  A second `viewer_join` on one connection changes its id,
as in the code.  `told` remembers which viewers were sent `device_disconnected` since
they began to watch.

The environment of the router is any behaviour of sockets: open, refused, terminated
singly or together, closed, the process gone.  Three constants restrict the *clients*:

| constant | TRUE means | the shipped clients |
| --- | --- | --- |
| `OneIdentity` | one `device_register` or `viewer_join` per connection | agent and dashboard both keep to it |
| `OneWatch` | a viewer unwatches before it watches another device | the dashboard does: one socket per watched device |
| `NoOverlap` | a device reconnects only after its last connection closed at the server | the agent does **not** ensure it |

### SignalingServer

`SignalingServer` extends `Connections` and instantiates the router as `R` over the same
`readyState`: an accepted upgrade also runs `handleConnection`, a close event runs both
close listeners, a message needs a peer that is still there, and the end of the process
empties the registry.

### AgentLink

`pc` names the statement the main thread is at; each blocking call is a value of its
own.  `link` is what is true of the connection: `up`, `closed` (reads drain, then fail),
or `lost` (gone without a word: writes succeed into the kernel until retransmission gives
up, reads block).  `net` is what a connection attempt will meet, including a server at
its connection limit, which completes the handshake and then closes.  A throw anywhere
in the loop is the `catch` block: the stream is destroyed, the thread sleeps, the
back-off doubles.  `main` runs `rdm_run` directly, whether a user or the service manager
started the program.  The worker threads are their loops without the data; each is
stopped and joined before `rdm_run` returns.

### DeviceView

A *run* is one execution of the effect in `useWebRTC`.  What a run closes over is indexed
by it (`device`, `cancelled`, its socket's `phase`, the frames it is `decoding`); refs and
state (`wsRef`, `objUrl`, `status`) belong to the component and are shared by all runs,
which is where the difficulty lies.  `Retarget` and `Unmount` are the cleanup of the old
run with the `ws.close()` it contains; `Fetched` is the continuation after the credentials,
`Decoded` the one after `arrayBuffer()`, in any order.  The server's part is small: it
grants or refuses a watch, sends frames of a watched device, tells the watchers that a
device left, closes, and forgets.  `late` is a history variable: some frame was still
being decoded when its device or its run was left.

### Alerts

`stage` follows the request that creates an alert: committed, then its background tasks.
`created_at` is stamped before the commit, so the order of commits is any; no two alerts
share a time.  `GET /alerts` returns the newest `ListLimit` rows by it (500 in the code),
resolved or not: `NewestRows` leaves out what is `Cut`.
`Broadcast` puts the alert into the queues of the worker process that ran the request, so
a stream of the tab that hangs on another worker gets nothing.  A full queue drops the
alert, a broken stream loses its queue, an `EventSource` comes back without replay.  The
tab counts (`liveCount`), stacks toasts and invalidates the list, each from a stream of
its own; any toast of the stack can be dismissed; AlertsPage polls.  Resolving is the
three steps of a request -- look, commit, answer -- by this tab or another operator.  `owed` is a history variable: the news for
which the list is being refetched.

### Accounts, Session, AdminPages, LogPages

`Accounts` splits each request at its awaits: authenticated against the row of the moment,
handled against the rows it loads, committed by `get_db` after the handler returned; only
attributes that differ from the row as loaded are written -- one's own row being the one
that authentication loaded, as both share the request's session (`Void`).  `DELETE`
compares the id as the path spells it with the caller's before it looks the row up, and
the lookup accepts other spellings of a UUID; `deleteRespelled` is such a request, which
the self-check does not recognise as one on oneself.  The database's uniqueness is an insert that changes
nothing when the name is taken.

`Session` numbers the logins and remembers with each request the token it carries.
`Load` is any arrival at the application: it drops the requests under way and reads the
token back from `sessionStorage`.  `logout()` empties the store and starts a navigation;
until that commits (`Load`) the old document is `leaving`: it shows LoginPage, its form
works, and its requests are answered and may log out again.

`AdminPages` has one `req` per request under way: sent, committed, answered, and then, for
those whose `onSuccess` invalidates, a refetch.  `seen` says whether a mounted
`useMutation` still shows the request, which is what `isPending` means: a later `mutate()`
of the same hook takes it over.  `Unmounted` is what closing a modal does to its request.
Other administrators change rows at any time (`Foreign`).

`LogPages` has one cached query per filter and page.  A row count per filter stands for
the table: rows are only appended, newest first, so a page is determined by how many
rows matched its filter when it was read.  `MaxRows` bounds the table, and with it the
pages there can be.

`MCConsole` puts these four beside each other: they share no state, so a run chooses one
at the start and explores it alone.

## 3. What is checked

| run | module | states | question |
| --- | --- | --- | --- |
| `connections` | `MCConnections` | 130k | limiter and ping timer, safety and liveness |
| `connections_empty_address` | `MCConnections` | counterexample | a connection whose address comes out empty |
| `router_any_client` | `MCSignalingRouter` | 28k | what holds whatever clients send |
| `router_disciplined` | `MCSignalingRouter` | 22k | what disciplined clients get: the watch service |
| `router_overlap` | `MCSignalingRouter` | counterexample | reconnecting before the old close |
| `server_safety` | `MCSignalingServer` | 278k | the composition, overlapping reconnects beside a watching viewer included |
| `server_liveness` | `MCSignalingServer` | 18k | who vanishes is forgotten, and watchers learn it |
| `agent` | `MCAgentLink` | 5k | back-off, stopping, reconnecting |
| `device_view` | `MCDeviceView` | 143k | one view over changes of device, failures and late frames |
| `alerts` | `MCAlerts` | 673k | creation, streams, badge, the cut list and resolving |
| `console` | `MCConsole` | 419k | accounts, session, administration and log pages |
| `console_deletion` | `MCConsole` | counterexample | a deletion that was answered with ok |

States are distinct states, after symmetry where a configuration uses it (connections,
devices and viewers are interchangeable in the router; connections in the server's safety
run).  Runs that check liveness use no symmetry.

### The properties

*Connections.*  `SlotAccounting` relates two pieces of state that nothing in the code
relates: the count per address and the sockets that are open or closing -- for the
addresses in `Named`; for `''` it fails, which `IdleCountsNothing` of
`connections_empty_address` shows.  `SlotsSpec` is refinement: `held` is the set of holders
of each address, `refused` the sockets turned away with the address they came with, and
every step of the server is a step of `ConnSlots` -- so a connection with a name is refused
exactly when its address is full, one without always, and no address exceeds the limit.
`PromptPeersSurvive` says no tick ends a connection with no ping outstanding, the first
tick of its life included.  `DeadPeersReaped`: a vanished peer's slot comes back.
`ShutdownCompletes`: the process ends although its clients stay and the timer that would
reap them is cleared.

*Router, any client.*  `DeviceEntryOwned`: an entry is a live socket that registered as
this device.  `WatchedDevicesAreRegistered`: a viewer set is non-empty only under an
entry.  `NoSilentStarvation`: a reachable viewer that believes it watches a device is in
that device's set or has been told -- over all paths that shrink a set.

*Router, disciplined clients.*  `ConnectedDevicesListed`: who is connected is listed.
`ServiceSpec` is refinement of `WatchService`, where `serving` is the set of connections
that are a device, `listed` the devices with an entry, and `watching` the pairs of the
viewer sets.  Each discipline is needed: `router_overlap` drops `NoOverlap`; section 5
says what happens without the others.

*Server.*  `EntriesHoldSlots`: whoever is in the registry holds a slot, so the ping timer
sees it and the limit bounds it.  `WatchesOwned`: overlapping reconnects of a device
disturb no viewer: its entry is its own live connection (`ViewerEntryOwned`) and the two
directions of its watch agree (`WatchLinkAgrees`).  `RouterSpec`: the sockets of `Connections` are among the
environments `SignalingRouter` allows, so the router's theorems hold of the server.
`DeadDevicesUnlisted`, `WatchersLearn`: liveness through the ping timer, the close event
and the registry.

*Agent.*  `BackoffTracksFailures`: the next sleep is the first one doubled once for each
failure since the last handshake, capped -- over any mixture of failures.
`WorkersEndFirst`: no worker thread is left that uses the configuration, the identity or
the tracker of `rdm_run` after it returned.
`StopsUnlessReading`: a stop request is honoured from everywhere but a blocked read, and
then `rdm_run` returns, both workers joined.  `ReconnectsOnceReachable`: once the server
stays reachable the agent is connected again and again, but for a blocked read on a lost
link.

*Device view.*  `OneSocket`: however quickly the user moves on, only the current run has a
socket in use.  `NoLeakedUrl`: an object URL is revoked whichever of a cleanup and a late
frame comes first.  `LiveIsTrue`: "live" means that the picture is of this device and that
the server streams it or has already sent the news that it stopped -- with the exception
the code has, a frame caught in decoding.  `FramesGoLive`: a frame that has reached the view
makes it live, unless the watch ends; that frames come at all is not promised, as the
agent sends none for a screen that does not change.  `LeftViewsStopWatching`: the server stops streaming to a view that was left,
whatever state its socket was left in.

*Alerts.*  `RefetchSeesTheChange`: the list that is refetched because of a piece of news is
read after it, never a fetch that was under way already: it shows the change unless newer
alerts have pushed the alert out of the list.  `BadgeCoversKnownAlerts`: the
badge can count twice but misses no unresolved alert the tab knows.  `LateResolveRefused`:
only overlapping resolves of one alert can both succeed.  `ListConverges`: whatever the
streams lose, the list is the newest rows of the database in the end.

*Accounts.*  `LastAdminFallsToAnOverlap`: the last active administrator is lost only to a
request that was authenticated before its author lost the role, or to the author's own
DELETE with a respelled id -- but for that, the self-checks keep one as long as requests do
not overlap.  The type invariant says that no username is given
twice.

*Session.*  `RefusalsAreOwn`: no request outlives the login that sent it beyond the
document that is being left, so outside that window a late 401 cannot end the next
session (section 5 says what happens inside it).  `DeactivatedIsLoggedOut`: a deactivated user is shown the
login page in the end.

*AdminPages.*  `QuietPageIsCurrent`: once everything the page began has ended, it shows
the table, but for what others changed.  `LastToggleWins`: on UsersPage clicks on one
row's button take effect in their order.  The type invariant says that a create still
shown belongs to the modal that is open.

*LogPages.*  `PagesConverge`: the page the operator stays on comes to agree with the
table, although the table grew between the fetches of the pages.

### Bounds

- Three connections are the smallest number with a full address, a refusal and a
  connection elsewhere (limit 2, two addresses and the empty one); the shipped limit of 10 differs in
  nothing but size, and the theorems cover every limit.
- The router runs have three or four connections, up to two devices and two viewers: a
  device, its replacement and a viewer need three; two devices with a viewer on each
  need four.  The disciplined run has four.
- The server's safety run has three connections and a limit of three on their one address:
  an old device socket, its replacement and a watching viewer are there at once.  Its
  liveness run has two (a device and a viewer); refusals by the limit are in `connections`.
- A connection identity is used once, and `uuidv4` never repeats a viewer id: both sets
  bound the length of a run.  Process restarts are not bounded otherwise.
- The agent runs with its real back-off values, 1000 and 30000 ms; `FailureCap = 5`
  doublings pass the maximum.  `MaxInbox` is 1: a read takes one message, and whether there
  is another does not change what the loop does.

- A view has two runs of its effect, the smallest number with an old and a new one, and
  two frames per run, so that one can be decoded late and out of order; two devices.
- Two alerts are needed for an order of arrival and for a full queue (size 1, shipped
  100) and a full toast stack (1, shipped 5).  A tab has one of the three streams in each
  behaviour: they share the list alone, and what one does to it does not depend on the
  others.  `MaxFaults` is one broken stream, failed fetch or stopped worker.  Two
  resolvers: this tab and another operator.  `ListLimit` is 1, so a second alert pushes the
  first out of the list, or comes in behind it when its time is earlier; `Times` has one
  value for each alert.
- The console run has two users, one further username and two requests: an administrator
  who is demoted while the other's request waits.  The pages have one row and two
  requests: everything that couples two requests of a page goes by `isPending`, the test
  flag and the shared fetch, which do not depend on the row; two rows with two requests
  take too long.  `MaxLogins` is 3, one for each of two sessions that overlap by a request
  and one after.  Two devices and a table of up to two rows over pages of one row give every
  relation of a page to the table's end; three moves reach every page and come back.

### Fairness

Weak fairness, and only on what the program or the platform drives: the interval keeps
ticking while it is set, a close the server has begun completes (ws destroys the socket
after its close timeout), the 5 s exit timer fires, the agent's threads run, sleeps end,
requests end (curl's timeout), and TCP gives up on data that is never acknowledged.
In the dashboard: the event loop runs continuations that are due, a fetch that was sent is
answered or fails, `refetchInterval` fires while its page is shown, and requests are not
all lost (strong fairness of the answers in `Session` and `LogPages`, which also
says that a user does not reload the page for ever just before the answer).  Nothing is
assumed of operators, of event streams, of other administrators, or of devices: a watched
one may send no frame at all.
For the agent two things are assumed of the far side: an attempt to connect succeeds or
fails (a handshake that hangs with an acknowledged peer is not modelled), and a server
that is up answers a close frame, as ws 8 does.  Beyond that nothing is assumed of peers,
the network, operators, or who sends what: those actions have no fairness.

## 4. What is proved

Every invariant, every action property and every refinement that a passing run checks is
a theorem here; liveness alone is left to the runs.  The theorems hold for every value of
the constants that satisfies the assumptions named in the modules, which TLC evaluates in
the runs:

| assumption | says | because |
| --- | --- | --- |
| `ConnsAssumption`, `LimitAssumption`, `NoneAssumption` (`Connections`) | finitely many connections, a positive limit, `None` is no connection or address, the empty one included | the limit is 10; `None` is `undefined` |
| `NoneIsNothing` (`DeviceManager`), `NoneIsNoRole`, `DisciplineConstants` (`SignalingRouter`), `RouterConstants` (`SignalingServer`) | the disciplines are TRUE or FALSE; `None` is no connection, device, entry or role | the same, for the registry's maps |
| `BackoffAssumption`, `InboxAssumption` (`AgentLink`) | the first delay is no longer than the longest, which `FailureCap` doublings reach | 1000 ms, 30000 ms, 5 |
| `NoneIsNoDevice`, `BoundsAreNat` (`DeviceView`) | `None` is no device, the bounds allow one run and one frame | `None` is a view without a device |
| `StreamsAreListeners`, `Sizes`, `TimesAreNumbers` (`Alerts`) | the streams are the tab's; queue, toast stack and list have room for one; times are positive numbers | 100, 5 and 500 |
| `NoneIsNothing`, `Bounds` (`MCConsole`) | `None` is nothing else; pages have a row, bounds are numbers | 50 rows a page |

`Connections_proofs`:

| theorem | statement |
| --- | --- |
| `TypeCorrect`, `SlotsAccounted`, `LimitHolds` | the invariants `TypeOK`, `SlotAccounting`, `WithinLimit` |
| `PromptPeersSurviveHolds` | the action property |
| `SlotsImplemented` | `Spec => SlotsSpec`, the refinement of `ConnSlots` |

`SlotsAccounted` is about every address a connection can be let in under, in the presence
of connections that are counted and refused; `SlotsImplemented` maps those to refusals of
a `Nameless` address.  The inductive invariant is `IInv == TypeOK /\ NewIsUnaddressed /\ SlotAccounting /\
WithinLimit`.  `NewIsUnaddressed` (a connection has an address from its arrival on, and its
listeners no other) is needed because accounting alone does not say that an accepted connection was not counted
already; finiteness of the holders (`HoldersFinite`) is what makes cardinalities move by
one.  The lemmas give, per action, what happens to `Holders`: unchanged, one more, one
less, or none left.  `PromptPeersSurviveHolds` needs `AliveUnlessPinged`: an open socket
has its flag or a ping outstanding -- for a rejected socket this holds because it is
never open.  For the refinement each action is mapped to a step of `ConnSlots` or a
stutter.

`SignalingRouter_proofs`:

| theorem | statement | assumes of the clients |
| --- | --- | --- |
| `RouterTypeCorrect` | `TypeOK` | nothing |
| `DeviceEntriesOwned` | `DeviceEntryOwned` | nothing |
| `WatchesNeedDevices` | `WatchedDevicesAreRegistered` | nothing |
| `NobodyStarvesSilently` | `NoSilentStarvation` | nothing |
| `ViewerEntriesOwned` | `ViewerEntryOwned` | `OneIdentity` |
| `ConnectedDevicesAreListed` | `ConnectedDevicesListed` | `NoOverlap` |
| `WatchLinksAgree` | `WatchLinkAgrees`: both directions of the watch agree | `OneWatch` |
| `ServiceImplemented` | `Spec => ServiceSpec`, the refinement of `WatchService` | all three |

The inductive invariant `RInv` adds to the four properties `RoleTyped` (a connection's id
fits its role; only a connection with listeners has a role) and `EntriesHaveRole` (the
socket of a viewer entry is no newcomer: without it, a fresh connection that opens could
turn an unreachable watcher into a reachable one nobody told).  The lemma `Steps` reduces
the next-state relation, once for all invariants, to the few steps the registry can see.
`ConnectedDevicesAreListed` goes through `ListedAsOwn`: the entry is not just any but the
connection's own.

`WatchLinksAgree` rests on `ViewersKnown`: ids are handed out once, so that no
`viewer_join` resets the entry of somebody who is in a viewer set, and the entry of a live
viewer is its own, so that a close takes away what the same connection attached.  For the
refinement, a device is served by the connections that claim it, listed when it has an entry, and watched by its viewer set; each handler is then a step of
the service (`Arrive`, `Leave`, `Watch`, `Unwatch`, `Reset`) or none.  The hard case is a
close: only the last connection that serves a device may take its watchers along, which
the code ensures because, without an overlap, there is no other.

`SignalingServer_proofs`:

| theorem | statement | assumes of the clients |
| --- | --- | --- |
| `ServerImplementsConnections` | `ServerSpec => Spec` of `Connections` | nothing |
| `RouterImplemented` | `ServerSpec => RouterSpec` | nothing |
| `RegistryHoldsSlots` | `EntriesHoldSlots` | `OneIdentity` |
| `ServerWatchesOwned` | `WatchesOwned` | `OneIdentity`, `OneWatch` |
| `ServerServesWatches` | `ServerSpec => ServiceSpec` | all three |

The first two say that the composition is an environment each part was specified for:
every step of the server is a step, or a stutter, of the connections and of the router.
So both parts' theorems hold of the server.  `ServerInv` is the two inductive invariants
and `Admitted`: whoever has listeners or a role was given an address.  It is what relates
the registry to the limiter; neither invariant alone does.

`AgentLink_proofs`: `AgentTypeCorrect`, `BackoffFollowsFailures` (the delay is
`min(InitialBackoff * 2^failures, MaxBackoff)`) and `WorkersNeverOutlive`, for any bounds of
the back-off and any inbox.  The last one needs `JoinInv`, which says what each worker may
still be doing at each statement of the main thread: a stop has been told before a join is
reached, and the heartbeat has ended before the tracker is stopped.  The type invariant and the property are inductive together.  The property has a
power in it, which none of the provers computes with; the lemmas `SubsetsDouble`,
`PowerCounts` and `PowersDouble` derive that powers of two double from the library's
theorem on the cardinality of a power set, and `DoublingCaps` that doubling a capped delay
and capping again is doubling under the cap.

`DeviceView_proofs`: `DeviceViewTypeCorrect`, `OneSocketHolds`, `NoLeakedUrlHolds` and
`LiveIsTrueHolds`, for every number of devices, of runs and of frames.  The inductive
invariant `DInv` adds `RunsInOrder` to the first three: a run that has not begun has no
socket, and `wsRef` names nothing but the current run of a mounted view.  It is what makes
the check of `cancelled` after the await sufficient: the only run that passes it is the
current one, and while that one was fetching no other had a socket.  `CleanupLeaves` says
what a cleanup guarantees; `PhaseKeeps` covers all steps in a socket's life; `ServerKeeps`
all steps of the server.

`LiveIsTrueHolds` needs a second invariant, `Honest`, about what is on its way.
`FramesCovered`: once the server has ended a watch, every frame still on its way is
followed by the news of the end.  Without it a frame could arrive after the news and make
the view live for good.  `LiveView` says the promise of the frames being decoded as well
as of the status, as those become the status; `QuietBeforeOpen`, `LeftRunsClose` and
`OwnDevice` tie the run to its socket and to the component's device.

`Alerts_proofs`: `AlertsTypeCorrect`, `RefetchesSeeTheChange`, `LateResolvesRefused` and
`BadgeCoversKnown`, for any alerts, resolvers, streams and sizes.  The inductive invariant
`AlertInv` has three parts beside the properties.  Nothing is queued, listed or being
resolved that is not in the table (`StageFollowsRow`, `QueuedExist`, `ListedExist`,
`ResolvingExist`), and the table only ages (`TableAges`: absent, open, resolved), so what
was once read stays a lower bound.  `OwedTrue` says that the news the list is refetched
for is true: a fetch asked for after it therefore reads it.  `ResolvesCommitted` says that
what was answered was committed, so a request that looks after the answer finds the row
resolved and is refused.  `CutStays` carries what is cut over every step: alerts are never
deleted, so what newer ones have pushed out stays out.  For the badge, `NoticedCounted` bounds the alerts the tab was
told of by `liveCount`, and `FinitelyOpen` makes the two cardinalities of `BadgeCovers`
comparable.

`Accounts_proofs`: `AccountsTypeCorrect` and `LastAdminFallsToAnOverlapHolds`, for every
number of users and of requests under way.  The invariant needed beside the types is
`SelfChecked`: a request that waits for its commit is not on its own author.  A commit
that takes the last active administrator away is on that administrator (`CommitTable`),
who is its author only when the self-check did not recognise him (`deleteRespelled`, the
exception in the property); otherwise the author is no active administrator.

`Console_proofs`: `ConsoleTypeCorrect`, `RefusalsHitTheirOwnSession`,
`QuietPagesAreCurrent`, `LastTogglesWin` and `LastAdminFallsToAnOverlapOfRequests`, the
safety properties of the `console` run for any users, requests, rows, devices and bounds.
The four modules share nothing (`Apart`), so `CInv` is the conjunction of four invariants
that are inductive each for itself:

- `AP!AInv`, that of `Accounts_proofs`.
- `SInv` of `Session`: `RefusalsAreOwn` and `LoginIsQuiet`, that only a document that is
  being left shows the login page with a request of the pages under way.  A login changes
  the token, so it is the reason why no request keeps an older one elsewhere.
- `LInv` of `LogPages`: the types, with `CountsBounded`, that no device has more rows than
  the table; `PageInside` says that a full page leaves room for one more, so that the page
  number stays in range.
- `PInv` of `AdminPages`.  `ListCurrent` is the heart of `QuietPageIsCurrent`: a list
  (or a fetch that has read) which nothing overtook, and no change committed but not yet
  answered, is that of the table; an answer invalidates, and an invalidation puts the
  fetch under way aside.  `ToggleCarriesWish` is that of `LastToggleWins`: where clicks on a row's
  button alone decide, the toggle under way is the one the mutation shows -- so there is
  only one, as the button waits for it -- carries what the operator wants until its
  commit, and the row is what he wants from then on.  Both need `Clicked` (what is shown
  is under way, and of the patches one at most is shown), `RowsStay` and
  `OnlyCreatesBeforeList`, that nothing but a creation can begin before the first list.

Only model-checked: the liveness properties, since fairness and `ENABLED` are out of the
proof system's reach -- `DeadPeersReaped`, `ShutdownCompletes`, `DeadDevicesUnlisted`,
`WatchersLearn`, `StopsUnlessReading`, `ReconnectsOnceReachable`, `FramesGoLive`,
`LeftViewsStopWatching`, `ListConverges`, `DeactivatedIsLoggedOut`, `PagesConverge` -- and
the three counterexamples of section 5, which refute and need no proof.

## 5. What the models found

Each of these is a run that ends in a counterexample; the doc or comment it contradicts
is quoted in `PROJECT.json`.

- `router_overlap`: a device that loses its link reconnects before the server has seen
  the old connection close.  It registers (the entry now names the new socket), then the
  old socket's close listener removes the entry by id.  The device is connected, streams,
  and is in no list; its viewers were told it left.
- `connections_empty_address`: a connection whose `X-Forwarded-For` begins with a comma is
  counted under `''` (rateLimit.js:35), refused because `''` is falsy (index.js:52), and
  never uncounted: the count says one when nobody is connected.
- `console_deletion`: `AsyncSession.delete` is a coroutine and is not awaited
  (webhooks.py:109, devices.py:126).  The route answers ok, commits nothing, and the
  refetched list shows the row again.

What follows was met while modelling; each is in the model as the code has it, and no run
is kept for it.

*Signaling server.*  A viewer that watches A, then B, then unwatches stays in A's set and
keeps receiving A's frames (the dashboard never does this: one socket per view).  A
device's `answer` and `ice_candidate` are broadcast as frames to everybody who watches it:
with ws 8 text is a `Buffer` too, and the cases for them in the switch are dead code for
devices.  index.js:66 speaks of two missed pings; one unanswered ping is enough.  Once
`MAX_CONNS_PER_IP` empty addresses have been counted, further ones are refused by the limit;
either way they are refused, so nobody but the count is wrong.

*Agent.*  signaling_client.cpp:152 calls the read a non-blocking poll; it blocks.  The
agent captures one frame per message it receives, does not notice a stop while it waits,
and waits for ever on a link that was lost silently.  The installers register
`rdm-agent.exe` as a Windows service (install-service.ps1, installer.nsi), but `main` calls
`rdm_run` and nothing calls `StartServiceCtrlDispatcher`: `SvcMain` and `SvcCtrlHandler` of
windows_service.cpp never run.

*Device view.*  A frame decoded late sets "live" after `device_disconnected` set "idle",
or shows the old device in the new view until its first frame (the exception in
`LiveIsTrue`).  A socket that the cleanup aborts while it connects sets "error" in the new
run: the error listener does not look at `cancelled`.  A connection error ends as "idle",
because the close listener runs last.  A view whose device comes back does not watch
again.  Frames may be shown out of order.

*Alerts.*  The badge counts unresolved alerts in the newest 500, so older ones that are
unresolved are not counted, and AlertsPage does not show them (alerts.py:31);
useAlertBadge.js:2 speaks of the unresolved ones.  The badge counts an alert of its stream once more when the refetched list has
it, and `liveCount` never falls (useAlertBadge.js:33).  Two overlapping resolves both
answer ok.  stream.py:37 says an alert is pushed to all subscribers; the image starts two
worker processes (Dockerfile:10), each with subscribers of its own.

*Accounts.*  An administrator's DELETE of himself with his id spelled otherwise, without its
dashes for example, passes "Cannot deactivate yourself" (users.py:151) and deactivates him:
the last active administrator can go by one request.

*Session.*  Between `logout()` and the commit of its navigation a user can log in again, and
a 401 for a request of the old login that arrives then ends the new session: the
interceptor compares no tokens (api.js:17).

*Pages.*  `isPending` is that of the last `mutate()`: a role selected between two toggles,
or two clicks on WebhooksPage, let one toggle overtake another.  An item created while the
list is loading for the first time may be missing until the next visit: before the first
answer an invalidation joins the fetch under way.  A create whose modal was cancelled
closes the modal that is open when its answer arrives (users), or loses the secret that is
shown once (webhooks).  The test button reports success when the delivery failed.  These
pages do not poll, so changes of other administrators stay unseen.  LogsPage can show a
row twice, or skip one, across pages that were cached at different times.  /login is not
guarded: a user with a session can log in again.

One more disagreement needs no run: `rateLimit.js` says connections over the limit get
HTTP 429, while the upgrade completes and the socket is closed with 1008.  For the agent
that is a successful handshake, so its back-off starts over every time (in `AgentLink`,
`Connect` with `net = "full"`).

## 6. What is left out

- Tokens, SDP, candidates, JPEG bytes, host names: data no property tells apart.  A token
  is accepted or refused, nondeterministically.
- `auth.js`, `turnCredentials.js`: pure functions over libraries.
- `capture/`, `encoder/`: pixels and Windows media APIs.  `peer_connection.cpp` is not
  reached from `main.cpp`.  Nor is `service/windows_service.cpp` (section 5), so stopping the
  service is not modelled.
- HTTP routes of `index.js`, `routes/metrics.py`, `DashboardPage`: reads without state.
- What a device's message becomes (signaling.js:35) is one assignment, in the model as in
  the code; section 5 says which.
- Heartbeats, the bulk status update and the listing of devices (`routes/devices.py`):
  each writes or reads single rows in one transaction.  Two first heartbeats of one device
  leave one row; the other request fails on the primary key and the next heartbeat, 30 s
  later, succeeds.
- Audit rows.  tests/test_auth.py:72 and the comment at auth.py:56 say a failed login is
  recorded; the row is added to a session that the 401 rolls back, so it never is.  One
  request, no interleaving.
- The stream of device changes (stream.py:67): no page subscribes to it.  Webhook delivery
  leaves no state.
- The identity file (`identity.cpp`) is written once, at the first start, and nothing in
  the code handles a crash in between.
- The `offer` branch of `useWebRTC`: the server sends viewers no offers.
- Infrastructure files: configuration; the restart policy appears as `Restart`, the
  number of workers in `Broadcast`.

Database statements succeed or fail as a whole, and `get_db` commits before the response
is sent and before background tasks start, as FastAPI 0.111 does.

## 7. Plan

Nothing is left of the safety properties.  What would come next:

1. Safety cores of the liveness properties, as action properties that can be proved: what
   a watcher is owed is never taken back before it is delivered (`WatchersLearn`), and a
   page that has been asked for again is not put to rest by an older answer
   (`PagesConverge`).
2. A theorem that names the exact history behind `router_overlap`: a connected device is
   unlisted only after an older connection of the same device closed.
3. `Session` against an abstract login: a user, a token or none, and no request between.
