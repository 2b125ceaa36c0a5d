----------------------- MODULE SignalingServer_proofs -----------------------
(***************************************************************************)
(* Proofs about the signaling server whole.  It behaves as the connections *)
(* alone and as the router alone, so what is proved of either holds of     *)
(* both together; what relates the two parts is proved here.               *)
(***************************************************************************)
EXTENDS SignalingServer, Connections_proofs

\* The router's proofs, about this server's variables.
RP == INSTANCE SignalingRouter_proofs

----------------------------------------------------------------------------
(* The connections *)

\* A step of the server is a step of the connections, or leaves them alone.
LEMMA ServerNextConnections == [ServerNext]_serverVars => [Next]_connVars
    BY DEF ServerNext, serverVars, connVars, Next, Upgrade, Receive, Unauthorised, Closed, Reap, Exit,
           Environment

\* The server as a whole keeps to the connections' specification, so its slots are
\* accounted for and its limit holds whatever the messages do.
THEOREM ServerImplementsConnections == ServerSpec => Spec
<1>1. ServerInit => Init
    BY DEF ServerInit
<1>2. QED
    BY <1>1, ServerNextConnections, PTL DEF ServerSpec, Spec

----------------------------------------------------------------------------
(* The router *)

\* An idle router step that leaves the sockets alone terminates nobody.
LEMMA IdleTerminatesNobody ==
    ASSUME TypeOK, R!Idle, UNCHANGED readyState
    PROVE  R!Next
<1>1. readyState' = [c \in Conns |-> IF c \in {} THEN "CLOSING" ELSE readyState[c]]
    BY DEF TypeOK
<1>2. R!Terminate({})
    BY <1>1 DEF R!Terminate
<1>3. {} \in SUBSET {c \in Conns : readyState[c] = "OPEN"}
    OBVIOUS
<1>4. QED
    BY <1>2, <1>3 DEF R!Next

\* The ping timer terminates open sockets only, as far as anyone can see.
LEMMA ReapTerminates ==
    ASSUME TypeOK, Reap
    PROVE  R!Next
<1> DEFINE S == {c \in Conns : readyState[c] = "OPEN" /\ ~isAlive[c]}
<1>1. readyState' = [c \in Conns |-> IF c \in S THEN "CLOSING" ELSE readyState[c]]
    BY DEF TypeOK, Reap, PingTick, Stale, Live
<1>2. R!Terminate(S)
    BY <1>1 DEF Reap, R!Terminate
<1>3. S \in SUBSET {c \in Conns : readyState[c] = "OPEN"}
    OBVIOUS
<1>4. QED
    BY <1>2, <1>3 DEF R!Next

\* The end of the process closes every socket and empties the registry.
LEMMA ProcessGoneForgets ==
    ASSUME ProcessGone, R!ForgetAll
    PROVE  R!Next
<1>1. R!ProcessGone
    BY DEF ProcessGone, R!ProcessGone, Live, R!Live
<1>2. QED
    BY <1>1 DEF R!Next

\* Every step of the server is a step of the router under its own environment.
LEMMA ServerNextRouter == TypeOK /\ [ServerNext]_serverVars => [R!Next]_(R!vars)
<1> SUFFICES ASSUME TypeOK, [ServerNext]_serverVars PROVE [R!Next]_(R!vars)
    OBVIOUS
<1>1. ASSUME NEW c \in Conns, NEW i \in IPs, Upgrade(c, i) PROVE R!Next
    <2>1. CASE Accept(c, i) /\ R!HandleConnection(c)
        BY <2>1 DEF Accept, R!Next, R!Connect, R!Become
    <2>2. CASE Reject(c, i) /\ R!Idle
        BY <2>2 DEF Reject, R!Next, R!Refuse, R!Become
    <2>3. QED
        BY <1>1, <2>1, <2>2 DEF Upgrade
<1>2. ASSUME NEW c \in Conns, Receive(c) PROVE R!Next
    BY <1>2 DEF Receive, connVars, R!Next
<1>3. ASSUME NEW c \in Conns, Unauthorised(c) PROVE R!Next
    BY <1>3 DEF Unauthorised, ServerClose, R!Next, R!AuthFailed, R!Become
<1>4. ASSUME NEW c \in Conns, Closed(c) PROVE R!Next
    <2>1. Live(c) /\ readyState' = [readyState EXCEPT ![c] = "CLOSED"]
        BY <1>4 DEF Closed, PeerCloses, CloseCompletes, CloseEvent, Live
    <2>2. R!Close(c)
        BY <1>4, <2>1 DEF Closed, R!Close, R!Become, Live, R!Live
    <2>3. QED
        BY <2>2 DEF R!Next
<1>5. CASE Exit \/ (Crash /\ R!ForgetAll)
    BY <1>5, ProcessGoneForgets DEF Exit, ExitDrained, ExitForced, Crash
<1>6. CASE \/ \E c \in Conns : (Pong(c) \/ PeerVanishes(c)) /\ R!Idle
           \/ (Shutdown \/ Restart) /\ R!Idle
    BY <1>6, IdleTerminatesNobody DEF Pong, PeerVanishes, Shutdown, Restart
<1>7. CASE UNCHANGED serverVars
    BY <1>7 DEF serverVars, connVars, R!vars
<1>8. CASE Reap
    BY <1>8, ReapTerminates
<1>9. CASE ServerNext
    <2>1. CASE \E c \in Conns, i \in IPs : Upgrade(c, i)
        BY <1>1, <2>1
    <2>2. CASE \E c \in Conns : Receive(c) \/ Unauthorised(c) \/ Closed(c)
        BY <1>2, <1>3, <1>4, <2>2
    <2>3. CASE Environment
        BY <1>5, <1>6, <2>3 DEF Environment
    <2>4. QED
        BY <1>5, <1>8, <1>9, <2>1, <2>2, <2>3 DEF ServerNext
<1>10. QED
    BY <1>7, <1>9

\* The server as a whole is the environment the router assumes.
THEOREM RouterImplemented == ServerSpec => RouterSpec
<1>1. ServerInit => R!Init
    BY DEF ServerInit
<1>2. ServerSpec => []TypeOK
    BY ServerImplementsConnections, TypeCorrect
<1>3. QED
    BY <1>1, <1>2, ServerNextRouter, PTL DEF ServerSpec, RouterSpec, R!Spec
----------------------------------------------------------------------------
(* What the router's proofs say of the server *)

\* The proofs are about the same router.
LEMMA SameRouter == /\ R!Init => RP!Init
                    /\ [R!Next]_(R!vars) => [RP!Next]_(RP!vars)
<1>1. R!Init => RP!Init
    BY DEF R!Init, RP!Init, R!RegistryInit, RP!RegistryInit
<1>2. [R!Next]_(R!vars) => [RP!Next]_(RP!vars)
    BY
    DEF R!Connect, RP!Connect, R!Refuse, RP!Refuse, R!Close, RP!Close, R!AuthFailed,
        RP!AuthFailed, R!Terminate, RP!Terminate, R!ProcessGone, RP!ProcessGone,
        R!Become, RP!Become, R!HandleConnection, RP!HandleConnection, R!Idle, RP!Idle,
        R!Silent, RP!Silent, R!CloseHandler, RP!CloseHandler, R!ForgetAll, RP!ForgetAll,
        R!AuthError, RP!AuthError, R!RegistryReset, RP!RegistryReset, R!Live, RP!Live,
        R!Sends, RP!Sends, R!SendToViewers, RP!SendToViewers, R!Reachable, RP!Reachable,
        R!Receives, RP!Receives, R!Dispatched, RP!Dispatched, R!Unregister,
        RP!Unregister, R!unregisterDevice, RP!unregisterDevice, R!unregisterViewer,
        RP!unregisterViewer, R!WithoutViewer, RP!WithoutViewer, R!Message, RP!Message,
        R!DeviceMessage, RP!DeviceMessage, R!DeviceRegister, RP!DeviceRegister,
        R!ViewerJoin, RP!ViewerJoin, R!ViewerWatch, RP!ViewerWatch, R!ViewerRelay,
        RP!ViewerRelay, R!ViewerUnwatch, RP!ViewerUnwatch, R!Answered, RP!Answered,
        R!registerDevice, RP!registerDevice, R!registerViewer, RP!registerViewer,
        R!attachViewerToDevice, RP!attachViewerToDevice, R!detachViewerFromDevice,
        RP!detachViewerFromDevice, R!Watching, RP!Watching, R!ClaimedBy, RP!ClaimedBy,
        R!dmVars, RP!dmVars, R!routerVars, RP!routerVars, R!vars, RP!vars, R!Next,
        RP!Next
<1>3. QED
    BY <1>1, <1>2

\* Every step of the server is one of the router's proofs.
LEMMA ServerNextProved == TypeOK /\ [ServerNext]_serverVars => [RP!Next]_(RP!vars)
    BY ServerNextRouter, SameRouter

\* A connection the router handles, or has given a role, was admitted: it has the
\* address it was counted under.
Admitted == \A c \in Conns : c \in attached \/ role[c] # None => ip[c] # None

\* The inductive invariant for any client.
ServerInv ==
    /\ IInv
    /\ RP!RInv
    /\ Admitted

\* The empty server satisfies it.
LEMMA InitServerInv == ServerInit => ServerInv
<1> SUFFICES ASSUME ServerInit PROVE ServerInv
    OBVIOUS
<1>1. IInv
    BY InitIInv DEF ServerInit
<1>2. RP!RInv
    BY SameRouter, RouterConstants, RP!InitRInv DEF ServerInit, R!ViewerEntries, RP!ViewerEntries
<1>3. Admitted
    BY DEF ServerInit, R!Init, Admitted
<1>4. QED
    BY <1>1, <1>2, <1>3 DEF ServerInv

\* Listeners are installed and roles given after onConnect returned the address,
\* which is never taken back.
LEMMA NextAdmitted == ServerInv /\ [ServerNext]_serverVars => Admitted'
<1> SUFFICES ASSUME ServerInv, [ServerNext]_serverVars, NEW b \in Conns,
                    b \in attached' \/ role'[b] # None
             PROVE  ip'[b] # None
    BY DEF Admitted
<1> USE DEF ServerInv, IInv, Admitted
<1>1. ip[b] # None => ip'[b] # None
    BY NoneAssumption, ServerNextConnections
    DEF TypeOK, Next, Accept, Reject, Pong, ServerClose, PeerCloses, CloseCompletes, CloseEvent,
        PeerVanishes, PingTick, Shutdown, ExitDrained, ExitForced, Crash, ProcessGone, Restart, connVars
<1>2. ASSUME b \in attached \/ role[b] # None PROVE ip'[b] # None
    BY <1>1, <1>2
<1>3. ASSUME NEW c \in Conns, NEW i \in IPs, Upgrade(c, i) PROVE ip'[b] # None
    <2>1. CASE Accept(c, i) /\ R!HandleConnection(c)
        <3>1. CASE b = c
            BY <2>1, <3>1, NoneAssumption DEF Accept, TypeOK
        <3>2. CASE b # c
            BY <1>2, <2>1, <3>2 DEF R!HandleConnection
        <3>3. QED
            BY <3>1, <3>2
    <2>2. CASE Reject(c, i) /\ R!Idle
        BY <1>2, <2>2 DEF R!Idle
    <2>3. QED
        BY <1>3, <2>1, <2>2 DEF Upgrade
<1>4. ASSUME NEW c \in Conns, Receive(c) PROVE ip'[b] # None
    <2>1. attached' = attached
        BY <1>4 DEF Receive, R!Message, R!DeviceMessage, R!ViewerJoin, R!DeviceRegister, R!ViewerWatch,
                    R!ViewerRelay, R!ViewerUnwatch, R!Answered
    <2>2. R!Receives(c)
        BY <1>4 DEF Receive, R!Message, R!DeviceMessage, R!ViewerJoin, R!DeviceRegister, R!ViewerWatch,
                    R!ViewerRelay, R!ViewerUnwatch, R!Answered, R!Dispatched
    <2>3. role \in [Conns -> {None, "device", "viewer"}]
        BY DEF RP!RInv, RP!TypeOK
    <2>4. b # c => role'[b] = role[b]
        BY <1>4, <2>3 DEF Receive, R!Message, R!DeviceMessage, R!ViewerJoin, R!DeviceRegister, R!ViewerWatch,
                    R!ViewerRelay, R!ViewerUnwatch, R!Answered
    <2>5. QED
        BY <1>2, <2>1, <2>2, <2>4 DEF R!Receives
<1>5. ASSUME NEW c \in Conns, Unauthorised(c) \/ Closed(c) PROVE ip'[b] # None
    BY <1>2, <1>5 DEF Unauthorised, R!AuthError, Closed, R!CloseHandler, R!Idle
<1>6. CASE Reap \/ Exit \/ Environment
    BY <1>2, <1>6 DEF Reap, Exit, Environment, R!Idle, R!ForgetAll
<1>7. CASE UNCHANGED serverVars
    BY <1>2, <1>7 DEF serverVars, R!routerVars
<1>8. QED
    BY <1>3, <1>4, <1>5, <1>6, <1>7 DEF ServerNext

\* Every step preserves the invariant.
LEMMA NextServerInv == ServerInv /\ [ServerNext]_serverVars => ServerInv'
<1> SUFFICES ASSUME ServerInv, [ServerNext]_serverVars PROVE ServerInv'
    OBVIOUS
<1>1. TypeOK
    BY DEF ServerInv, IInv
<1>2. IInv'
    BY NextIInv, ServerNextConnections DEF ServerInv
<1>3. RP!RInv'
    BY <1>1, ServerNextProved, RouterConstants, RP!NextRInv DEF ServerInv, R!ViewerEntries, RP!ViewerEntries
<1>4. Admitted'
    BY NextAdmitted
<1>5. QED
    BY <1>2, <1>3, <1>4 DEF ServerInv

\* It holds in every reachable state of the server.
THEOREM ServerInvariance == ServerSpec => []ServerInv
    BY InitServerInv, NextServerInv, PTL DEF ServerSpec

----------------------------------------------------------------------------
(* What relates the two parts *)

\* Whoever is live, and handled or of some role, holds a slot.
LEMMA LiveRolesHoldSlots ==
    ASSUME ServerInv, NEW c \in Conns, Live(c), role[c] # None
    PROVE  ip[c] # None /\ c \in Holders(ip[c])
    BY DEF ServerInv, Admitted, Holders

\* If every connection takes one identity, whoever is in the registry holds a slot
\* of the limit: the registry never outgrows what MAX_CONNS_PER_IP admits.
THEOREM RegistryHoldsSlots ==
    ASSUME OneIdentity
    PROVE  ServerSpec => []EntriesHoldSlots
<1>1. ServerInit => RP!ViewerEntryOwned
    BY DEF ServerInit, R!Init, R!RegistryInit, RP!ViewerEntryOwned
<1>2. ServerInv /\ RP!ViewerEntryOwned /\ [ServerNext]_serverVars => RP!ViewerEntryOwned'
    BY OneIdentity, ServerNextProved, RouterConstants, RP!NextViewerEntryOwned
    DEF ServerInv, IInv, RP!RInv, R!ViewerEntries, RP!ViewerEntries
<1>3. ServerInv /\ RP!ViewerEntryOwned => EntriesHoldSlots
    <2> SUFFICES ASSUME ServerInv, RP!ViewerEntryOwned PROVE EntriesHoldSlots
        OBVIOUS
    <2>1. RP!TypeOK /\ RP!DeviceEntryOwned
        BY DEF ServerInv, RP!RInv
    <2>2. ASSUME NEW d \in Devices, devices[d] # None
          PROVE  ip[devices[d]] # None /\ devices[d] \in Holders(ip[devices[d]])
        <3>1. devices[d] \in Conns /\ Live(devices[d]) /\ role[devices[d]] = "device"
            BY <2>1, <2>2 DEF RP!TypeOK, RP!RegistryTypeOK, RP!DeviceEntryOwned, RP!Live, Live
        <3>2. QED
            BY <3>1, RouterConstants, LiveRolesHoldSlots
    <2>3. ASSUME NEW v \in Viewers, viewerConns[v] # None
          PROVE  ip[viewerConns[v].ws] # None /\ viewerConns[v].ws \in Holders(ip[viewerConns[v].ws])
        <3>1. viewerConns[v].ws \in Conns
            BY <2>1, <2>3 DEF RP!TypeOK, RP!RegistryTypeOK, RP!ViewerEntries
        <3>2. Live(viewerConns[v].ws) /\ role[viewerConns[v].ws] = "viewer"
            BY <2>3 DEF RP!ViewerEntryOwned, RP!Live, Live
        <3>3. QED
            BY <3>1, <3>2, RouterConstants, LiveRolesHoldSlots
    <2>4. QED
        BY <2>2, <2>3 DEF EntriesHoldSlots
<1>4. QED
    BY <1>1, <1>2, <1>3, ServerInvariance, PTL DEF ServerSpec

\* Under the viewers' two disciplines, and however devices reconnect, a viewer's
\* entry names its own live connection and both directions of the watch agree.
THEOREM ServerWatchesOwned ==
    ASSUME OneIdentity, OneWatch
    PROVE  ServerSpec => []WatchesOwned
<1> DEFINE WInv == RP!ViewerEntryOwned /\ RP!ViewersKnown /\ RP!WatchLinkAgrees
<1>1. ServerInit => WInv
    <2>1. ServerInit => RP!ViewersKnown /\ RP!WatchLinkAgrees
        BY SameRouter, RouterConstants, RP!InitViewersKnown
        DEF ServerInit, R!ViewerEntries, RP!ViewerEntries
    <2>2. ServerInit => RP!ViewerEntryOwned
        BY DEF ServerInit, R!Init, R!RegistryInit, RP!ViewerEntryOwned
    <2>3. QED
        BY <2>1, <2>2
<1>2. ServerInv /\ WInv /\ [ServerNext]_serverVars => WInv'
    <2> SUFFICES ASSUME ServerInv, WInv, [ServerNext]_serverVars PROVE WInv'
        OBVIOUS
    <2>1. RP!TypeOK /\ RP!RoleTyped /\ [RP!Next]_(RP!vars)
        BY ServerNextProved DEF ServerInv, IInv, RP!RInv
    <2>2. RP!ViewerEntryOwned'
        BY <2>1, OneIdentity, RouterConstants, RP!NextViewerEntryOwned
        DEF R!ViewerEntries, RP!ViewerEntries
    <2>3. RP!ViewersKnown'
        BY <2>1, RouterConstants, RP!NextViewersKnown DEF R!ViewerEntries, RP!ViewerEntries
    <2>4. RP!WatchLinkAgrees'
        BY <2>1, OneWatch, RouterConstants, RP!NextWatchLinkAgrees DEF R!ViewerEntries, RP!ViewerEntries
    <2>5. QED
        BY <2>2, <2>3, <2>4
<1>3. WInv => WatchesOwned
    BY DEF WatchesOwned, R!ViewerEntryOwned, RP!ViewerEntryOwned, R!WatchLinkAgrees, RP!WatchLinkAgrees,
           R!Live, RP!Live, R!Watching, RP!Watching
<1>4. QED
    BY <1>1, <1>2, <1>3, ServerInvariance, PTL DEF ServerSpec

\* When devices do not overlap either, the whole server is the watch service.
THEOREM ServerServesWatches ==
    ASSUME OneIdentity, OneWatch, NoOverlap
    PROVE  ServerSpec => R!ServiceSpec
<1>1. R!Spec => RP!Spec
    BY SameRouter, PTL DEF R!Spec, RP!Spec
<1>2. RP!Spec => RP!ServiceSpec
    BY RouterConstants, OneIdentity, OneWatch, NoOverlap, RP!ServiceImplemented
    DEF R!ViewerEntries, RP!ViewerEntries
<1>3. RP!ServiceSpec => R!ServiceSpec
    BY DEF R!Service!Arrive, RP!Service!Arrive, R!Service!Leave, RP!Service!Leave,
           R!Service!Watch, RP!Service!Watch, R!Service!Unwatch, RP!Service!Unwatch,
           R!Service!Reset, RP!Service!Reset, R!Service!Listing, RP!Service!Listing,
           R!Service!Of, RP!Service!Of, R!Service!Watchers, RP!Service!Watchers,
           R!Service!serviceVars, RP!Service!serviceVars, R!Service!Init, RP!Service!Init,
           R!Service!Next, RP!Service!Next, R!Service!Spec, RP!Service!Spec, R!ClaimedBy,
           RP!ClaimedBy, R!ServiceSpec, RP!ServiceSpec
<1>4. QED
    BY <1>1, <1>2, <1>3, RouterImplemented, PTL DEF RouterSpec
=============================================================================
