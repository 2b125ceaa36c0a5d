-------------------------- MODULE SignalingRouter --------------------------
(***************************************************************************)
(* signaling.js: what each connection is (role, entityId), what each       *)
(* message does to the registry, what it sends, and the close handler.     *)
(* The socket events come from the environment; SignalingServer replaces   *)
(* it by the connections of index.js.                                      *)
(*                                                                         *)
(* ws 8 hands text frames to the 'message' listener as Buffers too, so any *)
(* message of a connection whose role is device takes the first branch and *)
(* the switch below it sees only viewers and connections with no role yet. *)
(***************************************************************************)
EXTENDS DeviceManager

CONSTANTS
    OneIdentity,  \* clients send device_register or viewer_join once
    OneWatch,     \* a viewer unwatches before it watches another device
    NoOverlap     \* a device is back only after its last connection closed

ASSUME DisciplineConstants == {OneIdentity, OneWatch, NoOverlap} \subseteq BOOLEAN
ASSUME NoneIsNoRole == None \notin {"device", "viewer"}

VARIABLES
    readyState, \* of each ws
    attached,   \* connections handleConnection was called for
    role,       \* per connection: None, "device" or "viewer"
    entityId,   \* per connection: a device or viewer id, or None
    issued,     \* viewer ids handed out by uuidv4, which never repeats one
    told,       \* history: <<viewer, device>> told of the disconnect since it watched
    out         \* messages the step handed to OPEN sockets

routerVars == <<dmVars, attached, role, entityId, issued, told, out>>
vars       == <<readyState, routerVars>>

ReadyStates == {"NONE", "OPEN", "CLOSING", "CLOSED"}
Live(c)     == readyState[c] \in {"OPEN", "CLOSING"}

MessageTypes ==
    {"registered", "viewer_joined", "viewer_request", "offer", "answer",
     "ice_candidate", "frame", "device_disconnected", "viewer_unwatched",
     "device_list", "pong", "error"}

Messages == [to : Conns, type : MessageTypes, about : Devices \cup Viewers \cup {None}]

TypeOK ==
    /\ readyState \in [Conns -> ReadyStates]
    /\ RegistryTypeOK
    /\ attached \subseteq Conns
    /\ role \in [Conns -> {None, "device", "viewer"}]
    /\ entityId \in [Conns -> Devices \cup Viewers \cup {None}]
    /\ issued \subseteq Viewers
    /\ told \subseteq Viewers \X Devices
    /\ out \subseteq Messages

Init ==
    /\ readyState = [c \in Conns |-> "NONE"]
    /\ RegistryInit
    /\ attached = {}
    /\ role = [c \in Conns |-> None]
    /\ entityId = [c \in Conns |-> None]
    /\ issued = {}
    /\ told = {}
    /\ out = {}

Silent == out' = {}

----------------------------------------------------------------------------
(* The message listener: everything but readyState *)

\* 'message' is emitted until the socket has closed, also while it is CLOSING.
Receives(c) == c \in attached /\ Live(c)

\* Not caught by the Buffer branch.
Dispatched(c) == Receives(c) /\ role[c] # "device"

\* The Buffer branch: frames, and every other message of a device.  An answer
\* names a viewer in its body.
DeviceMessage(c, type, about) ==
    /\ Receives(c)
    /\ role[c] = "device" /\ entityId[c] # None
    /\ out' = SendToViewers(readyState, entityId[c], type, about)
    /\ UNCHANGED <<dmVars, attached, role, entityId, issued, told>>

\* Connections that are, or still count as, device d.
ClaimedBy(d) == {c \in Conns : role[c] = "device" /\ entityId[c] = d /\ readyState[c] # "CLOSED"}

\* Mutant of DeviceRegister: acknowledged without an entry.
DeviceRegisterUnlisted(c, d) ==
    /\ Dispatched(c)
    /\ OneIdentity => role[c] = None
    /\ NoOverlap => ClaimedBy(d) = {}
    /\ entityId' = [entityId EXCEPT ![c] = d]
    /\ role' = [role EXCEPT ![c] = "device"]
    /\ out' = Sends(readyState, c, "registered", d)
    /\ UNCHANGED <<dmVars, attached, issued, told>>

DeviceRegister(c, d) ==
    /\ Dispatched(c)
    /\ OneIdentity => role[c] = None
    /\ NoOverlap => ClaimedBy(d) = {}
    /\ entityId' = [entityId EXCEPT ![c] = d]
    /\ role' = [role EXCEPT ![c] = "device"]
    /\ registerDevice(d, c)
    /\ out' = Sends(readyState, c, "registered", d)
    /\ UNCHANGED <<attached, issued, told>>

ViewerJoin(c, v) ==
    /\ Dispatched(c)
    /\ OneIdentity => role[c] = None
    /\ v \notin issued
    /\ issued' = issued \cup {v}
    /\ entityId' = [entityId EXCEPT ![c] = v]
    /\ role' = [role EXCEPT ![c] = "viewer"]
    /\ registerViewer(v, c)
    /\ out' = Sends(readyState, c, "viewer_joined", v)
    /\ UNCHANGED <<attached, told>>

\* A viewer of some device, as its own connection sees it.
Watching(v) == IF viewerConns[v] = None THEN None ELSE viewerConns[v].deviceId

\* Mutant of ViewerWatch: the viewer is attached even if the device is unknown.
ViewerWatchUnchecked(c, d) ==
    /\ Dispatched(c) /\ role[c] = "viewer"
    /\ OneWatch => Watching(entityId[c]) \in {None, d}
    /\ attachViewerToDevice(entityId[c], d)
    /\ told' = told \ {<<entityId[c], d>>}
    /\ out' = {}
    /\ UNCHANGED <<attached, role, entityId, issued>>

ViewerWatch(c, d) ==
    /\ Dispatched(c) /\ role[c] = "viewer"
    /\ OneWatch => Watching(entityId[c]) \in {None, d}
    /\ IF devices[d] = None
       THEN /\ out' = Sends(readyState, c, "error", d)
            /\ UNCHANGED <<dmVars, told>>
       ELSE /\ attachViewerToDevice(entityId[c], d)
            /\ told' = told \ {<<entityId[c], d>>}
            /\ out' = Sends(readyState, devices[d], "viewer_request", entityId[c])
    /\ UNCHANGED <<attached, role, entityId, issued>>

\* offer and ice_candidate from a viewer; it need not be watching the device.
ViewerRelay(c, d, type) ==
    /\ Dispatched(c) /\ role[c] = "viewer"
    /\ out' = IF devices[d] = None THEN {} ELSE Sends(readyState, devices[d], type, entityId[c])
    /\ UNCHANGED <<dmVars, attached, role, entityId, issued, told>>

ViewerUnwatch(c) ==
    /\ Dispatched(c) /\ role[c] = "viewer"
    /\ detachViewerFromDevice(entityId[c])
    /\ out' = Sends(readyState, c, "viewer_unwatched", entityId[c])
    /\ UNCHANGED <<attached, role, entityId, issued, told>>

\* device_list, ping, and what cannot be parsed or has an unknown type.
Answered(c, type) ==
    /\ Dispatched(c)
    /\ type = "device_list" => role[c] = "viewer"
    /\ out' = Sends(readyState, c, type, None)
    /\ UNCHANGED <<dmVars, attached, role, entityId, issued, told>>

\* A token was refused: the error, then ws.close(4001).
AuthError(c) ==
    /\ Dispatched(c)
    /\ out' = Sends(readyState, c, "error", None)
    /\ UNCHANGED <<dmVars, attached, role, entityId, issued, told>>

Message(c) ==
    \/ \E v \in Viewers : \/ DeviceMessage(c, "answer", v)
                          \/ ViewerJoin(c, v)
    \/ \E d \in Devices : \/ DeviceMessage(c, "frame", d)
                          \/ DeviceRegister(c, d)
                          \/ ViewerWatch(c, d)
                          \/ ViewerRelay(c, d, "offer")
                          \/ ViewerRelay(c, d, "ice_candidate")
    \/ ViewerUnwatch(c)
    \/ \E type \in {"device_list", "pong", "error"} : Answered(c, type)

----------------------------------------------------------------------------
(* The close listener, and what a dead process leaves *)

\* Mutant of Unregister: a device's entry outlives its connection.
UnregisterViewersOnly(c) ==
    IF role[c] = "viewer"
    THEN unregisterViewer(entityId[c]) /\ UNCHANGED told /\ Silent
    ELSE UNCHANGED <<dmVars, told>> /\ Silent

\* Mutant of Unregister: viewers are deleted before they are told.
UnregisterUntold(c) ==
    /\ \/ role[c] = "device" /\ unregisterDevice(entityId[c])
       \/ role[c] = "viewer" /\ unregisterViewer(entityId[c])
       \/ role[c] = None /\ UNCHANGED dmVars
    /\ UNCHANGED told
    /\ Silent

\* The socket is CLOSED already when its 'close' event is emitted.
Unregister(c) ==
    \/ /\ role[c] = "device"
       /\ out' = SendToViewers(readyState', entityId[c], "device_disconnected", entityId[c])
       /\ told' = told \cup {<<v, entityId[c]>> : v \in Reachable(readyState', entityId[c])}
       /\ unregisterDevice(entityId[c])
    \/ /\ role[c] = "viewer"
       /\ unregisterViewer(entityId[c])
       /\ Silent
       /\ UNCHANGED told
    \/ /\ role[c] = None
       /\ Silent
       /\ UNCHANGED <<dmVars, told>>

CloseHandler(c) ==
    /\ Unregister(c)
    /\ UNCHANGED <<attached, role, entityId, issued>>

\* handleConnection: the listeners are installed, the closure starts empty.
HandleConnection(c) ==
    /\ attached' = attached \cup {c}
    /\ Silent
    /\ UNCHANGED <<dmVars, role, entityId, issued, told>>

ForgetAll ==
    /\ RegistryReset
    /\ attached' = {}
    /\ told' = {}
    /\ Silent
    /\ UNCHANGED <<role, entityId, issued>>

Idle ==
    /\ Silent
    /\ UNCHANGED <<dmVars, attached, role, entityId, issued, told>>

----------------------------------------------------------------------------
(* The environment: what index.js and the peers do to the sockets *)

Become(c, state) == readyState' = [readyState EXCEPT ![c] = state]

Connect(c) ==
    /\ readyState[c] = "NONE"
    /\ Become(c, "OPEN")
    /\ HandleConnection(c)

\* The connection limit: no listener is installed.
Refuse(c) ==
    /\ readyState[c] = "NONE"
    /\ Become(c, "CLOSING")
    /\ Idle

\* The ping timer: none, one or several OPEN sockets at once.
Terminate(S) ==
    /\ readyState' = [c \in Conns |-> IF c \in S THEN "CLOSING" ELSE readyState[c]]
    /\ Idle

\* The 'close' event; a refused connection has no listener.
Close(c) ==
    /\ Live(c)
    /\ Become(c, "CLOSED")
    /\ IF c \in attached THEN CloseHandler(c) ELSE Idle

AuthFailed(c) ==
    /\ AuthError(c)
    /\ Become(c, "CLOSING")

ProcessGone ==
    /\ readyState' = [c \in Conns |-> IF Live(c) THEN "CLOSED" ELSE readyState[c]]
    /\ ForgetAll

Next ==
    \/ \E c \in Conns : \/ Connect(c)
                        \/ Refuse(c)
                        \/ Close(c)
                        \/ AuthFailed(c)
                        \/ Message(c) /\ UNCHANGED readyState
    \/ \E S \in SUBSET {c \in Conns : readyState[c] = "OPEN"} : Terminate(S)
    \/ ProcessGone

Spec == Init /\ [][Next]_vars

----------------------------------------------------------------------------
(* Properties *)

\* A registry entry names a connection that registered as that device and has
\* not closed: frames and viewer requests never go to a socket the device left,
\* whatever a client sends in whatever order.
DeviceEntryOwned ==
    \A d \in Devices : devices[d] # None =>
        /\ Live(devices[d])
        /\ role[devices[d]] = "device"
        /\ entityId[devices[d]] = d

\* Every viewer entry names a connection that is this viewer and has not closed.
\* Holds when clients take one identity per connection.
ViewerEntryOwned ==
    \A v \in Viewers : viewerConns[v] # None =>
        /\ Live(viewerConns[v].ws)
        /\ role[viewerConns[v].ws] = "viewer"
        /\ entityId[viewerConns[v].ws] = v

\* A device with viewers attached is registered: a watch never outlives the entry
\* it was granted on, so no frame or notice is owed to a viewer of nobody.
WatchedDevicesAreRegistered == \A d \in Devices : viewers[d] # {} => devices[d] # None

\* A viewer that watches a device and can still be reached either receives the
\* device's frames or has been sent device_disconnected since it began to watch:
\* none of the paths that shrink a viewer set forgets to tell.
NoSilentStarvation ==
    \A v \in Viewers :
        viewerConns[v] # None /\ Watching(v) # None /\ readyState[viewerConns[v].ws] = "OPEN" =>
            v \in viewers[Watching(v)] \/ <<v, Watching(v)>> \in told

\* The two directions of the watch relation agree: a viewer in a device's set is
\* connected and watches that device.  Holds when viewers unwatch first.
WatchLinkAgrees ==
    \A d \in Devices : \A v \in viewers[d] : viewerConns[v] # None /\ Watching(v) = d

\* Every device whose connection is open and registered is in the registry, which
\* deviceManager.js:2 calls the registry of connected devices.  Holds when a device
\* reconnects only after the server saw its last connection close.
ConnectedDevicesListed ==
    \A c \in Conns :
        c \in attached /\ readyState[c] = "OPEN" /\ role[c] = "device" => devices[entityId[c]] # None

\* The registry implements the watch service: a device is listed while a
\* connection serves it, its watchers lose it when the last one leaves, and a
\* viewer watches at most one device, which is listed.  Holds for clients that
\* keep to all three disciplines.
Service == INSTANCE WatchService WITH
    serving <- [d \in Devices |-> ClaimedBy(d)],
    listed <- {d \in Devices : devices[d] # None},
    watching <- {w \in Viewers \X Devices : w[1] \in viewers[w[2]]}

ServiceSpec == Service!Spec
=============================================================================
