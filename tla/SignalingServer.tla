-------------------------- MODULE SignalingServer --------------------------
(***************************************************************************)
(* The signaling server whole: the connections of index.js (Connections)   *)
(* carry the messages of signaling.js (SignalingRouter, here R).  A close  *)
(* event runs both close listeners, an upgrade runs onConnect and          *)
(* handleConnection, and the end of the process empties the registry.      *)
(***************************************************************************)
EXTENDS Connections

CONSTANTS Devices, Viewers, OneIdentity, OneWatch, NoOverlap

VARIABLES devices, viewers, viewerConns, attached, role, entityId, issued, told, out

R == INSTANCE SignalingRouter

\* What SignalingRouter and DeviceManager assume of their constants.
ASSUME RouterConstants ==
    /\ {OneIdentity, OneWatch, NoOverlap} \subseteq BOOLEAN
    /\ None \notin {"device", "viewer"}
    /\ None \notin Conns \cup Devices \cup R!ViewerEntries

serverVars == <<connVars, R!routerVars>>

ServerInit == Init /\ R!Init

\* Mutant of Upgrade: no return after the refusal.
UpgradeNoReturn(c, i) == (Accept(c, i) \/ Reject(c, i)) /\ R!HandleConnection(c)

Upgrade(c, i) ==
    \/ Accept(c, i) /\ R!HandleConnection(c)
    \/ Reject(c, i) /\ R!Idle

\* A peer that is still there sends a message; the listener runs to its end.
Receive(c) ==
    /\ server # "exited"
    /\ peerUp[c]
    /\ R!Message(c)
    /\ UNCHANGED connVars

Unauthorised(c) ==
    /\ peerUp[c]
    /\ ServerClose(c)
    /\ R!AuthError(c)

\* Mutant of Closed: the router's close listener is not run.
ClosedUncleaned(c) ==
    /\ PeerCloses(c) \/ CloseCompletes(c)
    /\ R!Idle

\* Both close listeners, on the connections that have them.
Closed(c) ==
    /\ PeerCloses(c) \/ CloseCompletes(c)
    /\ IF c \in attached THEN R!CloseHandler(c) ELSE R!Idle

Reap == PingTick /\ R!Idle

Exit == (ExitDrained \/ ExitForced) /\ R!ForgetAll

Environment ==
    \/ \E c \in Conns : (Pong(c) \/ PeerVanishes(c)) /\ R!Idle
    \/ (Shutdown \/ Restart) /\ R!Idle
    \/ Crash /\ R!ForgetAll

ServerNext ==
    \/ \E c \in Conns, i \in IPs : Upgrade(c, i)
    \/ \E c \in Conns : Receive(c) \/ Unauthorised(c) \/ Closed(c)
    \/ Reap
    \/ Exit
    \/ Environment

\* As in Connections: the timer ticks, a close the server began completes, the
\* exit timer fires.  Nothing is assumed of devices, viewers or the network.
ServerFairness ==
    /\ WF_serverVars(Reap)
    /\ WF_serverVars(Exit)
    /\ \A c \in Conns : WF_serverVars(Closed(c) /\ readyState[c] = "CLOSING")

ServerSpec == ServerInit /\ [][ServerNext]_serverVars

FairServerSpec == ServerSpec /\ ServerFairness

----------------------------------------------------------------------------
(* Properties *)

\* Whoever is in the registry holds a slot of the connection limit and is known
\* to wss.clients, so the limit bounds the registry and the ping timer sees every
\* entry's socket.
EntriesHoldSlots ==
    /\ \A d \in Devices : devices[d] # None =>
            ip[devices[d]] # None /\ devices[d] \in Holders(ip[devices[d]])
    /\ \A v \in Viewers : viewerConns[v] # None =>
            ip[viewerConns[v].ws] # None /\ viewerConns[v].ws \in Holders(ip[viewerConns[v].ws])

\* Overlapping reconnects of a device disturb no viewer: its entry still names its
\* own live connection and the two directions of the watch relation agree.
WatchesOwned == R!ViewerEntryOwned /\ R!WatchLinkAgrees

\* The server as a whole behaves as the environment SignalingRouter assumes, so
\* what is proved of the router holds of the server.
RouterSpec == R!Spec

\* A device that disappears without closing leaves the registry, although nobody
\* but the ping timer can notice.
DeadDevicesUnlisted ==
    \A d \in Devices, c \in Conns : (devices[d] = c /\ ~peerUp[c]) ~> (devices[d] # c)

\* The watchers of a device that disappears do not wait for ever: each is told,
\* or has stopped watching, or is itself no longer connected.
WatchersLearn ==
    \A d \in Devices, v \in Viewers :
        (v \in viewers[d] /\ devices[d] # None /\ ~peerUp[devices[d]])
            ~> \/ <<v, d>> \in told
               \/ R!Watching(v) # d
               \/ readyState[viewerConns[v].ws] # "OPEN"
=============================================================================
