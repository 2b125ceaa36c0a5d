----------------------- MODULE SignalingRouter_proofs ----------------------
(***************************************************************************)
(* Proofs about SignalingRouter, for any connections, devices and viewers. *)
(* The first part assumes nothing of the clients; a theorem that needs     *)
(* them disciplined names the discipline.                                  *)
(***************************************************************************)
EXTENDS SignalingRouter, TLAPS

\* What a connection is agrees with what its id is, and only a connection whose
\* listeners are installed ever is anything.
RoleTyped ==
    \A c \in Conns :
        /\ role[c] = "device" => entityId[c] \in Devices
        /\ role[c] = "viewer" => entityId[c] \in Viewers
        /\ role[c] # None /\ Live(c) => c \in attached
        /\ readyState[c] = "NONE" => role[c] = None

\* The ws of a viewer entry joined as a viewer once, so it is no newcomer.
EntriesHaveRole == \A v \in Viewers : viewerConns[v] # None => role[viewerConns[v].ws] # None

\* The inductive invariant for any client.
RInv ==
    /\ TypeOK
    /\ RoleTyped
    /\ DeviceEntryOwned
    /\ WatchedDevicesAreRegistered
    /\ EntriesHaveRole
    /\ NoSilentStarvation

----------------------------------------------------------------------------
(* What the sends put out *)

\* A send to a connection is a message, or nothing.
LEMMA SendsTyped ==
    ASSUME NEW rs, NEW ws \in Conns, NEW type \in MessageTypes,
           NEW about \in Devices \cup Viewers \cup {None}
    PROVE  Sends(rs, ws, type, about) \subseteq Messages
    BY DEF Sends, Messages

\* A send to the viewers of a device puts out messages only.
LEMMA SendToViewersTyped ==
    ASSUME TypeOK, NEW rs, NEW d \in Devices, NEW type \in MessageTypes,
           NEW about \in Devices \cup Viewers \cup {None}
    PROVE  SendToViewers(rs, d, type, about) \subseteq Messages
<1>1. \A v \in Reachable(rs, d) : viewerConns[v].ws \in Conns
    BY DEF TypeOK, RegistryTypeOK, Reachable, ViewerEntries
<1>2. QED
    BY <1>1 DEF SendToViewers, Messages

----------------------------------------------------------------------------
(* Types *)

\* Every message keeps the types.
LEMMA MessageTyped ==
    ASSUME TypeOK, RoleTyped, NEW c \in Conns, Message(c), UNCHANGED readyState
    PROVE  TypeOK'
<1> USE DEF TypeOK, RegistryTypeOK
<1>1. ASSUME NEW type \in {"answer", "frame"}, NEW about \in Devices \cup Viewers,
             DeviceMessage(c, type, about)
      PROVE  TypeOK'
    <2>1. entityId[c] \in Devices
        BY <1>1 DEF DeviceMessage, RoleTyped
    <2>2. type \in MessageTypes
        BY DEF MessageTypes
    <2>3. out' \subseteq Messages
        BY <1>1, <2>1, <2>2, SendToViewersTyped DEF DeviceMessage
    <2>4. QED
        BY <1>1, <2>3 DEF DeviceMessage, dmVars
<1>2. ASSUME NEW v \in Viewers, ViewerJoin(c, v)
      PROVE  TypeOK'
    <2>1. out' \subseteq Messages
        BY <1>2, SendsTyped DEF ViewerJoin, MessageTypes
    <2>2. [ws |-> c, deviceId |-> None] \in ViewerEntries
        BY DEF ViewerEntries
    <2>3. QED
        BY <1>2, <2>1, <2>2 DEF ViewerJoin, registerViewer
<1>3. ASSUME NEW d \in Devices, DeviceRegister(c, d)
      PROVE  TypeOK'
    <2>1. out' \subseteq Messages
        BY <1>3, SendsTyped DEF DeviceRegister, MessageTypes
    <2>2. QED
        BY <1>3, <2>1 DEF DeviceRegister, registerDevice
<1>4. ASSUME NEW d \in Devices, ViewerWatch(c, d)
      PROVE  TypeOK'
    <2>1. entityId[c] \in Viewers
        BY <1>4 DEF ViewerWatch, RoleTyped
    <2>2. CASE devices[d] = None
        <3>1. out' = Sends(readyState, c, "error", d) /\ UNCHANGED <<dmVars, told>>
            BY <1>4, <2>2 DEF ViewerWatch
        <3>2. out' \subseteq Messages
            BY <3>1, SendsTyped DEF MessageTypes
        <3>3. QED
            BY <1>4, <3>1, <3>2 DEF ViewerWatch, dmVars
    <2>3. CASE devices[d] # None
        <3>0. out' = Sends(readyState, devices[d], "viewer_request", entityId[c])
            BY <1>4, <2>3 DEF ViewerWatch
        <3>1. out' \subseteq Messages
            BY <2>1, <2>3, <3>0, SendsTyped DEF MessageTypes
        <3>2. viewerConns' \in [Viewers -> ViewerEntries \cup {None}]
            BY <1>4, <2>1, <2>3 DEF ViewerWatch, attachViewerToDevice, ViewerEntries
        <3>3. viewers' \in [Devices -> SUBSET Viewers] /\ devices' = devices
            BY <1>4, <2>1, <2>3 DEF ViewerWatch, attachViewerToDevice
        <3>4. told' \subseteq Viewers \X Devices
            BY <1>4, <2>3 DEF ViewerWatch
        <3>5. QED
            BY <1>4, <3>1, <3>2, <3>3, <3>4 DEF ViewerWatch
    <2>4. QED
        BY <2>2, <2>3
<1>5. ASSUME NEW d \in Devices, NEW type \in {"offer", "ice_candidate"},
             ViewerRelay(c, d, type)
      PROVE  TypeOK'
    <2>1. entityId[c] \in Viewers
        BY <1>5 DEF ViewerRelay, RoleTyped
    <2>2. out' \subseteq Messages
        BY <1>5, <2>1, SendsTyped DEF ViewerRelay, MessageTypes
    <2>3. QED
        BY <1>5, <2>2 DEF ViewerRelay, dmVars
<1>6. CASE ViewerUnwatch(c)
    <2>1. entityId[c] \in Viewers
        BY <1>6 DEF ViewerUnwatch, RoleTyped
    <2>2. out' \subseteq Messages
        BY <1>6, <2>1, SendsTyped DEF ViewerUnwatch, MessageTypes
    <2>3. viewers' \in [Devices -> SUBSET Viewers]
        BY <1>6 DEF ViewerUnwatch, detachViewerFromDevice, WithoutViewer, ViewerEntries
    <2>4. viewerConns' \in [Viewers -> ViewerEntries \cup {None}] /\ devices' = devices
        BY <1>6, <2>1 DEF ViewerUnwatch, detachViewerFromDevice, ViewerEntries
    <2>5. QED
        BY <1>6, <2>2, <2>3, <2>4 DEF ViewerUnwatch
<1>7. ASSUME NEW type \in {"device_list", "pong", "error"}, Answered(c, type)
      PROVE  TypeOK'
    <2>1. out' \subseteq Messages
        BY <1>7, SendsTyped DEF Answered, MessageTypes
    <2>2. QED
        BY <1>7, <2>1 DEF Answered, dmVars
<1>8. QED
    BY <1>1, <1>2, <1>3, <1>4, <1>5, <1>6, <1>7 DEF Message

\* So does every close event.
LEMMA CloseTyped ==
    ASSUME TypeOK, RoleTyped, NEW c \in Conns, Close(c)
    PROVE  TypeOK'
<1> USE DEF TypeOK, RegistryTypeOK
<1>1. readyState' \in [Conns -> ReadyStates]
    BY DEF Close, Become, ReadyStates
<1>2. CASE c \notin attached
    BY <1>1, <1>2 DEF Close, Idle, Silent, dmVars
<1>3. CASE c \in attached /\ role[c] = "device" /\ CloseHandler(c)
    <2>1. entityId[c] \in Devices
        BY <1>3 DEF RoleTyped
    <2>2. "device_disconnected" \in MessageTypes
        BY DEF MessageTypes
    <2>3. out' \subseteq Messages
        BY <1>3, <2>1, <2>2, SendToViewersTyped, NoneIsNoRole DEF CloseHandler, Unregister
    <2>4. told' \subseteq Viewers \X Devices
        BY <1>3, <2>1, NoneIsNoRole DEF CloseHandler, Unregister, Reachable
    <2>5. QED
        BY <1>1, <1>3, <2>1, <2>3, <2>4, NoneIsNoRole DEF CloseHandler, Unregister, unregisterDevice
<1>4. CASE c \in attached /\ role[c] = "viewer" /\ CloseHandler(c)
    <2>1. entityId[c] \in Viewers
        BY <1>4 DEF RoleTyped
    <2>2. unregisterViewer(entityId[c]) /\ out' = {} /\ told' = told
        BY <1>4, NoneIsNoRole DEF CloseHandler, Unregister, Silent
    <2>3. viewers' \in [Devices -> SUBSET Viewers]
        BY <2>2 DEF unregisterViewer, WithoutViewer, ViewerEntries
    <2>4. QED
        BY <1>1, <1>4, <2>1, <2>2, <2>3 DEF CloseHandler, unregisterViewer
<1>5. CASE c \in attached /\ role[c] = None /\ CloseHandler(c)
    BY <1>1, <1>5, NoneIsNoRole DEF CloseHandler, Unregister, Silent, dmVars
<1>6. c \in attached => CloseHandler(c)
    BY DEF Close
<1>7. QED
    BY <1>2, <1>3, <1>4, <1>5, <1>6

\* Every step keeps the types.
LEMMA NextTyped == TypeOK /\ RoleTyped /\ [Next]_vars => TypeOK'
<1> SUFFICES ASSUME TypeOK, RoleTyped, [Next]_vars PROVE TypeOK'
    OBVIOUS
<1>1. CASE \E c \in Conns : Connect(c) \/ Refuse(c)
    BY <1>1 DEF TypeOK, RegistryTypeOK, Connect, Refuse, Become, HandleConnection, Idle, Silent,
                dmVars, ReadyStates
<1>2. ASSUME NEW c \in Conns, AuthFailed(c) PROVE TypeOK'
    <2>1. out' \subseteq Messages
        BY <1>2, SendsTyped DEF AuthFailed, AuthError, MessageTypes
    <2>2. QED
        BY <1>2, <2>1 DEF TypeOK, RegistryTypeOK, AuthFailed, AuthError, Become, dmVars, ReadyStates
<1>3. CASE \E c \in Conns : Message(c) /\ UNCHANGED readyState
    BY <1>3, MessageTyped
<1>4. CASE \E c \in Conns : Close(c)
    BY <1>4, CloseTyped
<1>5. CASE \E S \in SUBSET {c \in Conns : readyState[c] = "OPEN"} : Terminate(S)
    BY <1>5 DEF TypeOK, RegistryTypeOK, Terminate, Idle, Silent, dmVars, ReadyStates
<1>6. CASE ProcessGone
    BY <1>6 DEF TypeOK, RegistryTypeOK, ProcessGone, ForgetAll, RegistryReset, Silent, ReadyStates
<1>7. CASE UNCHANGED vars
    BY <1>7 DEF TypeOK, RegistryTypeOK, vars, routerVars, dmVars
<1>8. QED
    BY <1>1, <1>2, <1>3, <1>4, <1>5, <1>6, <1>7 DEF Next

----------------------------------------------------------------------------
(* What a step can do to the registry *)

\* A step that leaves the registry, the roles and the history alone.
Inert == UNCHANGED <<dmVars, role, entityId, issued, told>>

\* The steps other than joins, watches, unwatches, closes and the end of the
\* process are inert, and open or close no connection that has a role.
InertStep ==
    /\ Inert
    /\ attached \subseteq attached'
    /\ \A c \in Conns : role[c] # None => (Live(c)' <=> Live(c))
    /\ \A c \in Conns : role[c] # None /\ readyState'[c] = "OPEN" => readyState[c] = "OPEN"
    /\ \A c \in Conns : readyState'[c] = "NONE" => readyState[c] = "NONE"
    /\ \A c \in Conns : c \in attached' => c \in attached \/ role[c] = None

\* A close event, by the role of the connection.
CloseStep(c) ==
    /\ readyState' = [readyState EXCEPT ![c] = "CLOSED"]
    /\ Live(c)
    /\ UNCHANGED <<attached, role, entityId, issued>>
    /\ \/ role[c] = None /\ UNCHANGED <<dmVars, told>>
       \/ /\ role[c] = "device"
          /\ unregisterDevice(entityId[c])
          /\ told' = told \cup {<<v, entityId[c]>> : v \in Reachable(readyState', entityId[c])}
       \/ role[c] = "viewer" /\ unregisterViewer(entityId[c]) /\ UNCHANGED told

\* The steps of the router, as far as the registry can tell.
LEMMA Steps ==
    ASSUME TypeOK, RoleTyped, [Next]_vars
    PROVE  \/ InertStep
           \/ \E c \in Conns : CloseStep(c)
           \/ ProcessGone
           \/ \E c \in Conns : /\ UNCHANGED readyState
                               /\ \/ \E v \in Viewers : ViewerJoin(c, v)
                                  \/ \E d \in Devices : DeviceRegister(c, d)
                                  \/ \E d \in Devices : ViewerWatch(c, d) /\ devices[d] # None
                                  \/ ViewerUnwatch(c)
<1> USE NoneIsNoRole
<1>1. CASE \E c \in Conns : Connect(c) \/ Refuse(c)
    <2>1. PICK c \in Conns : Connect(c) \/ Refuse(c)
        BY <1>1
    <2>2. readyState[c] = "NONE" /\ role[c] = None
        BY <2>1 DEF Connect, Refuse, RoleTyped
    <2>3. Inert /\ attached' \in {attached, attached \cup {c}}
        BY <2>1 DEF Connect, Refuse, HandleConnection, Idle, Inert
    <2>4. \E s \in {"OPEN", "CLOSING"} : readyState' = [readyState EXCEPT ![c] = s]
        BY <2>1 DEF Connect, Refuse, Become
    <2>5. InertStep
        BY <2>2, <2>3, <2>4 DEF InertStep, TypeOK, Live
    <2>6. QED
        BY <2>5
<1>2. CASE \E c \in Conns : AuthFailed(c)
    <2>1. PICK c \in Conns : AuthFailed(c)
        BY <1>2
    <2>2. Live(c) /\ Inert /\ attached' = attached /\ readyState' = [readyState EXCEPT ![c] = "CLOSING"]
        BY <2>1 DEF AuthFailed, AuthError, Dispatched, Receives, Become, Inert
    <2>3. InertStep
        BY <2>2 DEF InertStep, TypeOK, Live
    <2>4. QED
        BY <2>3
<1>3. CASE \E c \in Conns : Close(c)
    <2>1. PICK c \in Conns : Close(c)
        BY <1>3
    <2>2. CASE c \in attached
        <3>1. Unregister(c) /\ UNCHANGED <<attached, role, entityId, issued>>
            BY <2>1, <2>2 DEF Close, CloseHandler
        <3>2. CloseStep(c)
            BY <2>1, <3>1 DEF Close, Become, Unregister, CloseStep
        <3>3. QED
            BY <3>2
    <2>3. CASE c \notin attached
        <3>1. role[c] = None
            BY <2>1, <2>3 DEF Close, RoleTyped
        <3>2. CloseStep(c)
            BY <2>1, <2>3, <3>1 DEF Close, Become, Idle, CloseStep
        <3>3. QED
            BY <3>2
    <2>4. QED
        BY <2>2, <2>3
<1>4. CASE \E S \in SUBSET {c \in Conns : readyState[c] = "OPEN"} : Terminate(S)
    <2>1. Inert /\ attached' = attached
        BY <1>4 DEF Terminate, Idle, Inert
    <2>2. \A c \in Conns :
            readyState'[c] = readyState[c] \/ (readyState[c] = "OPEN" /\ readyState'[c] = "CLOSING")
        BY <1>4 DEF Terminate
    <2>3. InertStep
        BY <2>1, <2>2 DEF InertStep, Live
    <2>4. QED
        BY <2>3
<1>5. CASE \E c \in Conns : Message(c) /\ UNCHANGED readyState
    <2>1. PICK c \in Conns : Message(c) /\ UNCHANGED readyState
        BY <1>5
    <2>2. ASSUME NEW type, NEW x, DeviceMessage(c, type, x) \/ ViewerRelay(c, x, type) \/ Answered(c, type)
          PROVE  InertStep
        BY <2>1, <2>2 DEF DeviceMessage, ViewerRelay, Answered, InertStep, Inert, Live
    <2>3. ASSUME NEW d \in Devices, ViewerWatch(c, d), devices[d] = None
          PROVE  InertStep
        BY <2>1, <2>3 DEF ViewerWatch, InertStep, Inert, Live
    <2>4. QED
        BY <2>1, <2>2, <2>3 DEF Message
<1>6. CASE UNCHANGED vars
    BY <1>6 DEF vars, routerVars, InertStep, Inert, Live
<1>7. QED
    BY <1>1, <1>2, <1>3, <1>4, <1>5, <1>6 DEF Next

----------------------------------------------------------------------------
(* The parts of the invariant *)

\* A connection's id fits its role.
LEMMA NextRoleTyped == TypeOK /\ RoleTyped /\ [Next]_vars => RoleTyped'
<1> SUFFICES ASSUME TypeOK, RoleTyped, [Next]_vars PROVE RoleTyped'
    OBVIOUS
<1> USE NoneIsNoRole DEF RoleTyped, TypeOK
<1>1. CASE InertStep
    BY <1>1 DEF InertStep, Inert, Live
<1>2. CASE \E c \in Conns : CloseStep(c)
    BY <1>2 DEF CloseStep, Live
<1>3. CASE ProcessGone
    BY <1>3 DEF ProcessGone, ForgetAll, Live
<1>4. ASSUME NEW c \in Conns, NEW v \in Viewers, ViewerJoin(c, v), UNCHANGED readyState
      PROVE  RoleTyped'
    BY <1>4 DEF ViewerJoin, Dispatched, Receives, Live
<1>5. ASSUME NEW c \in Conns, NEW d \in Devices, DeviceRegister(c, d), UNCHANGED readyState
      PROVE  RoleTyped'
    BY <1>5 DEF DeviceRegister, Dispatched, Receives, Live
<1>6. ASSUME NEW c \in Conns, UNCHANGED readyState,
             ViewerUnwatch(c) \/ \E d \in Devices : ViewerWatch(c, d)
      PROVE  RoleTyped'
    BY <1>6 DEF ViewerUnwatch, ViewerWatch, Live
<1>7. QED
    BY <1>1, <1>2, <1>3, <1>4, <1>5, <1>6, Steps

\* An entry belongs to a live connection of that device: only a device's own
\* register writes it, no message changes the role of a device, and its close
\* handler removes it.
LEMMA NextDeviceEntryOwned ==
    TypeOK /\ RoleTyped /\ DeviceEntryOwned /\ [Next]_vars => DeviceEntryOwned'
<1> SUFFICES ASSUME TypeOK, RoleTyped, DeviceEntryOwned, [Next]_vars,
                    NEW e \in Devices, devices'[e] # None
             PROVE  Live(devices[e])' /\ role'[devices'[e]] = "device" /\ entityId'[devices'[e]] = e
    BY DEF DeviceEntryOwned
<1> DEFINE Goal == Live(devices[e])' /\ role'[devices'[e]] = "device" /\ entityId'[devices'[e]] = e
<1> USE NoneIsNoRole DEF TypeOK, RegistryTypeOK, DeviceEntryOwned
<1>1. CASE InertStep
    BY <1>1 DEF InertStep, Inert, dmVars, Live
<1>2. ASSUME NEW c \in Conns, CloseStep(c) PROVE Goal
    <2>1. CASE role[c] = "device"
        <3>1. devices' = [devices EXCEPT ![entityId[c]] = None] /\ entityId[c] \in Devices
            BY <1>2, <2>1 DEF CloseStep, unregisterDevice, RoleTyped
        <3>2. devices'[e] = devices[e] /\ devices[e] # c
            BY <3>1
        <3>3. QED
            BY <1>2, <3>2 DEF CloseStep, Live
    <2>2. CASE role[c] # "device"
        <3>1. devices' = devices
            BY <1>2, <2>2 DEF CloseStep, unregisterViewer, dmVars
        <3>2. devices[e] # c
            BY <2>2, <3>1
        <3>3. QED
            BY <1>2, <3>1, <3>2 DEF CloseStep, Live
    <2>3. QED
        BY <2>1, <2>2
<1>3. CASE ProcessGone
    BY <1>3 DEF ProcessGone, ForgetAll, RegistryReset
<1>4. ASSUME NEW c \in Conns, NEW v \in Viewers, ViewerJoin(c, v), UNCHANGED readyState
      PROVE  Goal
    BY <1>4 DEF ViewerJoin, registerViewer, Dispatched, Live
<1>5. ASSUME NEW c \in Conns, NEW d \in Devices, DeviceRegister(c, d), UNCHANGED readyState
      PROVE  Goal
    BY <1>5 DEF DeviceRegister, registerDevice, Dispatched, Receives, Live
<1>6. ASSUME NEW c \in Conns, UNCHANGED readyState,
             \/ ViewerUnwatch(c)
             \/ \E d \in Devices : ViewerWatch(c, d) /\ devices[d] # None
      PROVE  Goal
    BY <1>6 DEF ViewerUnwatch, ViewerWatch, detachViewerFromDevice, attachViewerToDevice, Live
<1>7. QED
    BY <1>1, <1>2, <1>3, <1>4, <1>5, <1>6, Steps
\* A viewer set is not empty only while its device has an entry: a watch needs
\* the entry, and unregisterDevice removes both.
LEMMA NextWatchedDevices ==
    TypeOK /\ RoleTyped /\ WatchedDevicesAreRegistered /\ [Next]_vars => WatchedDevicesAreRegistered'
<1> SUFFICES ASSUME TypeOK, RoleTyped, WatchedDevicesAreRegistered, [Next]_vars,
                    NEW e \in Devices, devices'[e] = None
             PROVE  viewers'[e] = {}
    BY DEF WatchedDevicesAreRegistered
<1> USE DEF TypeOK, RegistryTypeOK, WatchedDevicesAreRegistered
<1>1. CASE InertStep
    BY <1>1 DEF InertStep, Inert, dmVars
<1>2. ASSUME NEW c \in Conns, CloseStep(c) PROVE viewers'[e] = {}
    <2>1. CASE UNCHANGED dmVars
        BY <2>1 DEF dmVars
    <2>2. CASE role[c] = "device" /\ unregisterDevice(entityId[c])
        BY <2>2 DEF unregisterDevice, RoleTyped
    <2>3. CASE unregisterViewer(entityId[c])
        BY <2>3 DEF unregisterViewer, WithoutViewer
    <2>4. QED
        BY <1>2, <2>1, <2>2, <2>3 DEF CloseStep
<1>3. CASE ProcessGone
    BY <1>3 DEF ProcessGone, ForgetAll, RegistryReset
<1>4. ASSUME NEW c \in Conns, NEW v \in Viewers, ViewerJoin(c, v) PROVE viewers'[e] = {}
    BY <1>4 DEF ViewerJoin, registerViewer
<1>5. ASSUME NEW c \in Conns, NEW d \in Devices, DeviceRegister(c, d) PROVE viewers'[e] = {}
    <2>1. c # None
        BY NoneIsNothing
    <2>2. QED
        BY <1>5, <2>1 DEF DeviceRegister, registerDevice
<1>6. ASSUME NEW c \in Conns, NEW d \in Devices, ViewerWatch(c, d), devices[d] # None
      PROVE  viewers'[e] = {}
    BY <1>6 DEF ViewerWatch, attachViewerToDevice
<1>7. ASSUME NEW c \in Conns, ViewerUnwatch(c) PROVE viewers'[e] = {}
    BY <1>7 DEF ViewerUnwatch, detachViewerFromDevice, WithoutViewer
<1>8. QED
    BY <1>1, <1>2, <1>3, <1>4, <1>5, <1>6, <1>7, Steps

\* Roles are never taken back, and only a join makes an entry.
LEMMA NextEntriesHaveRole ==
    TypeOK /\ RoleTyped /\ EntriesHaveRole /\ [Next]_vars => EntriesHaveRole'
<1> SUFFICES ASSUME TypeOK, RoleTyped, EntriesHaveRole, [Next]_vars,
                    NEW v \in Viewers, viewerConns'[v] # None
             PROVE  role'[viewerConns'[v].ws] # None
    BY DEF EntriesHaveRole
<1> DEFINE Goal == role'[viewerConns'[v].ws] # None
<1> USE NoneIsNoRole DEF TypeOK, RegistryTypeOK, EntriesHaveRole, ViewerEntries
<1>1. CASE InertStep
    BY <1>1 DEF InertStep, Inert, dmVars
<1>2. ASSUME NEW c \in Conns, CloseStep(c) PROVE Goal
    BY <1>2 DEF CloseStep, unregisterDevice, unregisterViewer, dmVars
<1>3. CASE ProcessGone
    BY <1>3 DEF ProcessGone, ForgetAll, RegistryReset
<1>4. ASSUME NEW c \in Conns, NEW w \in Viewers, ViewerJoin(c, w) PROVE Goal
    BY <1>4 DEF ViewerJoin, registerViewer
<1>5. ASSUME NEW c \in Conns, NEW d \in Devices, DeviceRegister(c, d) PROVE Goal
    BY <1>5 DEF DeviceRegister, registerDevice
<1>6. ASSUME NEW c \in Conns, NEW d \in Devices, ViewerWatch(c, d), devices[d] # None PROVE Goal
    BY <1>6 DEF ViewerWatch, attachViewerToDevice, RoleTyped
<1>7. ASSUME NEW c \in Conns, ViewerUnwatch(c) PROVE Goal
    BY <1>7 DEF ViewerUnwatch, detachViewerFromDevice, RoleTyped
<1>8. QED
    BY <1>1, <1>2, <1>3, <1>4, <1>5, <1>6, <1>7, Steps

\* A viewer leaves the set of the device it watches only by its own unwatch or
\* close, or in the step that tells it.
LEMMA NextNoSilentStarvation ==
    TypeOK /\ RoleTyped /\ EntriesHaveRole /\ NoSilentStarvation /\ [Next]_vars
        => NoSilentStarvation'
<1> SUFFICES ASSUME TypeOK, RoleTyped, EntriesHaveRole, NoSilentStarvation, [Next]_vars
             PROVE  NoSilentStarvation'
    OBVIOUS
<1> SUFFICES ASSUME NEW u \in Viewers, NEW e \in Devices,
                    viewerConns'[u] # None, viewerConns'[u].deviceId = e,
                    readyState'[viewerConns'[u].ws] = "OPEN"
             PROVE  u \in viewers'[e] \/ <<u, e>> \in told'
    <2>1. \A v \in Viewers : viewerConns'[v] # None /\ viewerConns'[v].deviceId # None =>
                viewerConns'[v].deviceId \in Devices
        BY NextTyped DEF TypeOK, RegistryTypeOK, ViewerEntries
    <2>2. QED
        BY <2>1 DEF NoSilentStarvation, Watching
<1> DEFINE Goal == u \in viewers'[e] \/ <<u, e>> \in told'
<1> USE NoneIsNothing
<1>1. ASSUME viewerConns'[u] = viewerConns[u], readyState[viewerConns[u].ws] = "OPEN"
      PROVE  u \in viewers[e] \/ <<u, e>> \in told
    BY <1>1 DEF NoSilentStarvation, Watching
<1>2. CASE InertStep
    <2>1. UNCHANGED <<viewers, viewerConns, told>>
        BY <1>2 DEF InertStep, Inert, dmVars
    <2>2. viewerConns[u].ws \in Conns /\ role[viewerConns[u].ws] # None
        BY <2>1 DEF EntriesHaveRole, TypeOK, RegistryTypeOK, ViewerEntries
    <2>3. readyState[viewerConns[u].ws] = "OPEN"
        BY <1>2, <2>1, <2>2 DEF InertStep
    <2>4. QED
        BY <1>1, <2>1, <2>3
<1>3. ASSUME NEW c \in Conns, CloseStep(c) PROVE Goal
    <2>1. ASSUME viewerConns'[u] = viewerConns[u] PROVE readyState[viewerConns[u].ws] = "OPEN"
        BY <1>3, <2>1 DEF CloseStep, TypeOK
    <2>2. CASE UNCHANGED <<dmVars, told>>
        BY <1>1, <2>1, <2>2 DEF dmVars
    <2>3. CASE role[c] = "device" /\ unregisterDevice(entityId[c])
        <3>1. viewerConns' = viewerConns
            BY <2>3 DEF unregisterDevice
        <3>2. u \in viewers[e] \/ <<u, e>> \in told
            BY <1>1, <2>1, <3>1
        <3>3. told' = told \cup {<<v, entityId[c]>> : v \in Reachable(readyState', entityId[c])}
            BY <1>3, <2>3, NoneIsNoRole DEF CloseStep
        <3>4. CASE e = entityId[c] /\ u \in viewers[e]
            <4>1. u \in Reachable(readyState', entityId[c])
                BY <3>1, <3>4 DEF Reachable
            <4>2. QED
                BY <3>3, <3>4, <4>1
        <3>5. CASE e # entityId[c] \/ u \notin viewers[e]
            BY <2>3, <3>2, <3>3, <3>5 DEF unregisterDevice, TypeOK, RegistryTypeOK
        <3>6. QED
            BY <3>4, <3>5
    <2>4. CASE role[c] = "viewer" /\ unregisterViewer(entityId[c]) /\ UNCHANGED told
        <3>1. u # entityId[c] /\ viewerConns'[u] = viewerConns[u]
            BY <2>4 DEF unregisterViewer, TypeOK, RegistryTypeOK
        <3>2. u \in viewers[e] => u \in viewers'[e]
            BY <2>4, <3>1 DEF unregisterViewer, WithoutViewer, TypeOK, RegistryTypeOK
        <3>3. QED
            BY <1>1, <2>1, <2>4, <3>1, <3>2
    <2>5. QED
        BY <1>3, <2>2, <2>3, <2>4 DEF CloseStep
<1>4. CASE ProcessGone
    BY <1>4 DEF ProcessGone, ForgetAll, RegistryReset
<1>5. ASSUME NEW c \in Conns, NEW v \in Viewers, ViewerJoin(c, v), UNCHANGED readyState PROVE Goal
    <2>1. u # v /\ viewerConns'[u] = viewerConns[u]
        BY <1>5 DEF ViewerJoin, registerViewer, TypeOK, RegistryTypeOK
    <2>2. QED
        BY <1>1, <1>5, <2>1 DEF ViewerJoin, registerViewer
<1>6. ASSUME NEW c \in Conns, NEW d \in Devices, DeviceRegister(c, d), UNCHANGED readyState PROVE Goal
    BY <1>1, <1>6 DEF DeviceRegister, registerDevice
<1>7. ASSUME NEW c \in Conns, NEW d \in Devices, ViewerWatch(c, d), devices[d] # None,
             UNCHANGED readyState
      PROVE  Goal
    <2>1. entityId[c] \in Viewers
        BY <1>7 DEF ViewerWatch, RoleTyped
    <2>2. viewers' = [viewers EXCEPT ![d] = @ \cup {entityId[c]}] /\ told' = told \ {<<entityId[c], d>>}
        BY <1>7 DEF ViewerWatch, attachViewerToDevice
    <2>3. CASE u = entityId[c]
        <3>1. e = d
            BY <1>7, <2>1, <2>3 DEF ViewerWatch, attachViewerToDevice, TypeOK, RegistryTypeOK,
                                    ViewerEntries
        <3>2. QED
            BY <2>2, <2>3, <3>1 DEF TypeOK, RegistryTypeOK
    <2>4. CASE u # entityId[c]
        <3>1. viewerConns'[u] = viewerConns[u]
            BY <1>7, <2>4 DEF ViewerWatch, attachViewerToDevice, TypeOK, RegistryTypeOK
        <3>2. QED
            BY <1>1, <1>7, <2>2, <2>4, <3>1 DEF TypeOK, RegistryTypeOK
    <2>5. QED
        BY <2>3, <2>4
<1>8. ASSUME NEW c \in Conns, ViewerUnwatch(c), UNCHANGED readyState PROVE Goal
    <2>1. entityId[c] \in Viewers
        BY <1>8 DEF ViewerUnwatch, RoleTyped
    <2>2. u # entityId[c]
        BY <1>8, <2>1 DEF ViewerUnwatch, detachViewerFromDevice, TypeOK, RegistryTypeOK, ViewerEntries
    <2>3. viewerConns'[u] = viewerConns[u]
        BY <1>8, <2>2 DEF ViewerUnwatch, detachViewerFromDevice, TypeOK, RegistryTypeOK
    <2>4. u \in viewers[e] => u \in viewers'[e]
        BY <1>8, <2>2 DEF ViewerUnwatch, detachViewerFromDevice, WithoutViewer, TypeOK, RegistryTypeOK
    <2>5. QED
        BY <1>1, <1>8, <2>3, <2>4 DEF ViewerUnwatch
<1>9. QED
    BY <1>2, <1>3, <1>4, <1>5, <1>6, <1>7, <1>8, Steps
----------------------------------------------------------------------------
(* What holds of any client *)

\* The empty server satisfies the invariant.
LEMMA InitRInv == Init => RInv
<1> SUFFICES ASSUME Init PROVE RInv
    OBVIOUS
<1> USE NoneIsNoRole DEF Init, RegistryInit
<1>1. TypeOK
    BY DEF TypeOK, RegistryTypeOK, ReadyStates
<1>2. RoleTyped
    BY DEF RoleTyped, Live
<1>3. DeviceEntryOwned /\ WatchedDevicesAreRegistered
    BY DEF DeviceEntryOwned, WatchedDevicesAreRegistered
<1>4. EntriesHaveRole /\ NoSilentStarvation
    BY DEF EntriesHaveRole, NoSilentStarvation
<1>5. QED
    BY <1>1, <1>2, <1>3, <1>4 DEF RInv

\* Every step preserves it.
LEMMA NextRInv == RInv /\ [Next]_vars => RInv'
    BY NextTyped, NextRoleTyped, NextDeviceEntryOwned, NextWatchedDevices, NextEntriesHaveRole,
       NextNoSilentStarvation
    DEF RInv

\* The invariant holds in every reachable state.
THEOREM RouterInvariance == Spec => []RInv
    BY InitRInv, NextRInv, PTL DEF Spec

\* Every variable keeps its type, and every message sent is one of the protocol.
THEOREM RouterTypeCorrect == Spec => []TypeOK
<1>1. RInv => TypeOK
    BY DEF RInv
<1>2. QED
    BY <1>1, RouterInvariance, PTL

\* A registry entry always names a live connection that registered as that device.
THEOREM DeviceEntriesOwned == Spec => []DeviceEntryOwned
<1>1. RInv => DeviceEntryOwned
    BY DEF RInv
<1>2. QED
    BY <1>1, RouterInvariance, PTL

\* Only registered devices have viewers attached.
THEOREM WatchesNeedDevices == Spec => []WatchedDevicesAreRegistered
<1>1. RInv => WatchedDevicesAreRegistered
    BY DEF RInv
<1>2. QED
    BY <1>1, RouterInvariance, PTL

\* A reachable viewer that no longer receives the device it watches has been told.
THEOREM NobodyStarvesSilently == Spec => []NoSilentStarvation
<1>1. RInv => NoSilentStarvation
    BY DEF RInv
<1>2. QED
    BY <1>1, RouterInvariance, PTL

----------------------------------------------------------------------------
(* What needs a disciplined client *)

\* Viewer entries, when each connection takes one identity.
LEMMA NextViewerEntryOwned ==
    ASSUME OneIdentity
    PROVE  TypeOK /\ RoleTyped /\ ViewerEntryOwned /\ [Next]_vars => ViewerEntryOwned'
<1> SUFFICES ASSUME TypeOK, RoleTyped, ViewerEntryOwned, [Next]_vars,
                    NEW u \in Viewers, viewerConns'[u] # None
             PROVE  /\ Live(viewerConns[u].ws)'
                    /\ role'[viewerConns'[u].ws] = "viewer"
                    /\ entityId'[viewerConns'[u].ws] = u
    BY DEF ViewerEntryOwned
<1> DEFINE Goal == /\ Live(viewerConns[u].ws)'
                   /\ role'[viewerConns'[u].ws] = "viewer"
                   /\ entityId'[viewerConns'[u].ws] = u
<1> USE NoneIsNoRole DEF TypeOK, RegistryTypeOK, ViewerEntryOwned, ViewerEntries
<1>1. CASE InertStep
    BY <1>1 DEF InertStep, Inert, dmVars, Live
<1>2. ASSUME NEW c \in Conns, CloseStep(c) PROVE Goal
    <2>1. CASE role[c] = "viewer"
        <3>1. viewerConns' = [viewerConns EXCEPT ![entityId[c]] = None] /\ entityId[c] \in Viewers
            BY <1>2, <2>1 DEF CloseStep, unregisterViewer, RoleTyped
        <3>2. viewerConns'[u] = viewerConns[u] /\ viewerConns[u].ws # c
            BY <3>1
        <3>3. QED
            BY <1>2, <3>2 DEF CloseStep, Live
    <2>2. CASE role[c] # "viewer"
        <3>1. viewerConns' = viewerConns
            BY <1>2, <2>2 DEF CloseStep, unregisterDevice, dmVars
        <3>2. viewerConns[u].ws # c
            BY <2>2, <3>1
        <3>3. QED
            BY <1>2, <3>1, <3>2 DEF CloseStep, Live
    <2>3. QED
        BY <2>1, <2>2
<1>3. CASE ProcessGone
    BY <1>3 DEF ProcessGone, ForgetAll, RegistryReset
<1>4. ASSUME NEW c \in Conns, NEW v \in Viewers, ViewerJoin(c, v), UNCHANGED readyState PROVE Goal
    <2>1. role[c] = None /\ Live(c)
        BY <1>4, OneIdentity DEF ViewerJoin, Dispatched, Receives
    <2>2. QED
        BY <1>4, <2>1 DEF ViewerJoin, registerViewer, Live
<1>5. ASSUME NEW c \in Conns, NEW d \in Devices, DeviceRegister(c, d), UNCHANGED readyState
      PROVE  Goal
    <2>1. role[c] = None
        BY <1>5, OneIdentity DEF DeviceRegister
    <2>2. QED
        BY <1>5, <2>1 DEF DeviceRegister, registerDevice, Live
<1>6. ASSUME NEW c \in Conns, NEW d \in Devices, ViewerWatch(c, d), devices[d] # None,
             UNCHANGED readyState
      PROVE  Goal
    BY <1>6 DEF ViewerWatch, attachViewerToDevice, RoleTyped, Live
<1>7. ASSUME NEW c \in Conns, ViewerUnwatch(c), UNCHANGED readyState PROVE Goal
    BY <1>7 DEF ViewerUnwatch, detachViewerFromDevice, RoleTyped, Live
<1>8. QED
    BY <1>1, <1>2, <1>3, <1>4, <1>5, <1>6, <1>7, Steps

\* If every connection takes one identity, each viewer entry names the live
\* connection that is this viewer.
THEOREM ViewerEntriesOwned ==
    ASSUME OneIdentity
    PROVE  Spec => []ViewerEntryOwned
<1>1. Init => ViewerEntryOwned
    BY DEF Init, RegistryInit, ViewerEntryOwned
<1>2. RInv => TypeOK /\ RoleTyped
    BY DEF RInv
<1>3. TypeOK /\ RoleTyped /\ ViewerEntryOwned /\ [Next]_vars => ViewerEntryOwned'
    BY OneIdentity, NextViewerEntryOwned
<1>4. QED
    BY <1>1, <1>2, <1>3, RouterInvariance, PTL DEF Spec

\* Stronger than ConnectedDevicesListed: the entry is the connection's own.
ListedAsOwn ==
    \A c \in Conns : Live(c) /\ role[c] = "device" => devices[entityId[c]] = c

\* Without overlap nobody else's register or close touches the entry of a device
\* that is still connected.
LEMMA NextListedAsOwn ==
    ASSUME NoOverlap
    PROVE  TypeOK /\ RoleTyped /\ ListedAsOwn /\ [Next]_vars => ListedAsOwn'
<1> SUFFICES ASSUME TypeOK, RoleTyped, ListedAsOwn, [Next]_vars,
                    NEW b \in Conns, Live(b)', role'[b] = "device"
             PROVE  devices'[entityId'[b]] = b
    BY DEF ListedAsOwn
<1> DEFINE Goal == devices'[entityId'[b]] = b
<1> USE NoneIsNoRole DEF TypeOK, RegistryTypeOK, ListedAsOwn
<1>1. CASE InertStep
    BY <1>1 DEF InertStep, Inert, dmVars
<1>2. ASSUME NEW c \in Conns, CloseStep(c) PROVE Goal
    <2>1. b # c /\ Live(b) /\ role[b] = "device" /\ entityId'[b] = entityId[b]
        BY <1>2 DEF CloseStep, Live
    <2>2. devices[entityId[b]] = b
        BY <2>1
    <2>3. CASE role[c] = "device"
        <3>1. devices[entityId[c]] = c /\ entityId[b] # entityId[c]
            BY <1>2, <2>1, <2>2, <2>3 DEF CloseStep
        <3>2. devices' = [devices EXCEPT ![entityId[c]] = None]
            BY <1>2, <2>3 DEF CloseStep, unregisterDevice
        <3>3. entityId[b] \in Devices
            BY <2>1 DEF RoleTyped
        <3>4. QED
            BY <2>1, <2>2, <3>1, <3>2, <3>3
    <2>4. CASE role[c] # "device"
        BY <1>2, <2>1, <2>2, <2>4 DEF CloseStep, unregisterViewer, dmVars
    <2>5. QED
        BY <2>3, <2>4
<1>3. CASE ProcessGone
    BY <1>3 DEF ProcessGone, Live
<1>4. ASSUME NEW c \in Conns, NEW v \in Viewers, ViewerJoin(c, v), UNCHANGED readyState PROVE Goal
    BY <1>4 DEF ViewerJoin, registerViewer, Live
<1>5. ASSUME NEW c \in Conns, NEW d \in Devices, DeviceRegister(c, d), UNCHANGED readyState
      PROVE  Goal
    <2>1. CASE b = c
        BY <1>5, <2>1 DEF DeviceRegister, registerDevice
    <2>2. CASE b # c
        <3>1. Live(b) /\ role[b] = "device" /\ entityId'[b] = entityId[b] /\ entityId[b] \in Devices
            BY <1>5, <2>2 DEF DeviceRegister, Live, RoleTyped
        <3>2. entityId[b] # d
            BY <1>5, <3>1, NoOverlap DEF DeviceRegister, ClaimedBy, Live
        <3>3. QED
            BY <1>5, <3>1, <3>2 DEF DeviceRegister, registerDevice
    <2>3. QED
        BY <2>1, <2>2
<1>6. ASSUME NEW c \in Conns, UNCHANGED readyState,
             ViewerUnwatch(c) \/ \E d \in Devices : ViewerWatch(c, d) /\ devices[d] # None
      PROVE  Goal
    BY <1>6 DEF ViewerUnwatch, ViewerWatch, detachViewerFromDevice, attachViewerToDevice, Live
<1>7. QED
    BY <1>1, <1>2, <1>3, <1>4, <1>5, <1>6, Steps

\* If a device reconnects only after its last connection closed, every connected
\* device is listed.
THEOREM ConnectedDevicesAreListed ==
    ASSUME NoOverlap
    PROVE  Spec => []ConnectedDevicesListed
<1>1. Init => ListedAsOwn
    BY NoneIsNoRole DEF Init, ListedAsOwn
<1>2. RInv => TypeOK /\ RoleTyped
    BY DEF RInv
<1>3. TypeOK /\ RoleTyped /\ ListedAsOwn /\ [Next]_vars => ListedAsOwn'
    BY NoOverlap, NextListedAsOwn
<1>4. ListedAsOwn => ConnectedDevicesListed
    BY NoneIsNothing DEF ListedAsOwn, ConnectedDevicesListed, Live
<1>5. QED
    BY <1>1, <1>2, <1>3, <1>4, RouterInvariance, PTL DEF Spec
----------------------------------------------------------------------------
(* The watch relation *)

\* A viewer id in use was handed out, so that a later viewer never gets it.
IdsIssued ==
    /\ \A v \in Viewers : viewerConns[v] # None => v \in issued
    /\ \A c \in Conns : role[c] = "viewer" => entityId[c] \in issued

\* The registry knows every connected viewer by its own connection.
ViewerListedAsOwn ==
    \A c \in Conns : Live(c) /\ role[c] = "viewer" =>
        viewerConns[entityId[c]] # None /\ viewerConns[entityId[c]].ws = c

\* What the watch relation rests on, for any client.
ViewersKnown == IdsIssued /\ ViewerListedAsOwn

\* Ids are handed out once and an entry lives until its own connection closes.
LEMMA NextViewersKnown ==
    TypeOK /\ RoleTyped /\ ViewersKnown /\ [Next]_vars => ViewersKnown'
<1> SUFFICES ASSUME TypeOK, RoleTyped, ViewersKnown, [Next]_vars PROVE ViewersKnown'
    OBVIOUS
<1> USE NoneIsNoRole
        DEF TypeOK, RegistryTypeOK, ViewerEntries, ViewersKnown, IdsIssued, ViewerListedAsOwn
<1>1. CASE InertStep
    <2>1. UNCHANGED <<viewerConns, role, entityId, issued>>
        BY <1>1 DEF InertStep, Inert, dmVars
    <2>2. \A c \in Conns : role[c] # None => (Live(c)' <=> Live(c))
        BY <1>1 DEF InertStep
    <2>3. QED
        BY <2>1, <2>2
<1>2. ASSUME NEW c \in Conns, CloseStep(c) PROVE ViewersKnown'
    <2>1. UNCHANGED <<role, entityId, issued>> /\ \A b \in Conns : Live(b)' <=> (b # c /\ Live(b))
        BY <1>2 DEF CloseStep, Live
    <2>2. CASE role[c] = "viewer"
        <3>1. viewerConns' = [viewerConns EXCEPT ![entityId[c]] = None] /\ entityId[c] \in Viewers
            BY <1>2, <2>2 DEF CloseStep, unregisterViewer, RoleTyped
        <3>2. IdsIssued'
            BY <2>1, <3>1
        <3>3. ASSUME NEW b \in Conns, Live(b)', role'[b] = "viewer"
              PROVE  viewerConns'[entityId'[b]] # None /\ viewerConns'[entityId'[b]].ws = b
            <4>1. viewerConns[entityId[b]] # None /\ viewerConns[entityId[b]].ws = b /\ entityId[b] \in Viewers
                BY <2>1, <3>3 DEF RoleTyped
            <4>2. entityId[b] # entityId[c]
                BY <1>2, <2>1, <2>2, <3>3, <4>1 DEF CloseStep
            <4>3. QED
                BY <2>1, <3>1, <4>1, <4>2
        <3>4. QED
            BY <3>2, <3>3
    <2>3. CASE role[c] # "viewer"
        <3>1. viewerConns' = viewerConns
            BY <1>2, <2>3 DEF CloseStep, unregisterDevice, dmVars
        <3>2. QED
            BY <2>1, <3>1
    <2>4. QED
        BY <2>2, <2>3
<1>3. CASE ProcessGone
    BY <1>3 DEF ProcessGone, ForgetAll, RegistryReset, Live
<1>4. ASSUME NEW c \in Conns, NEW v \in Viewers, ViewerJoin(c, v), UNCHANGED readyState
      PROVE  ViewersKnown'
    <2>1. /\ v \notin issued /\ issued' = issued \cup {v}
          /\ entityId' = [entityId EXCEPT ![c] = v]
          /\ role' = [role EXCEPT ![c] = "viewer"]
          /\ viewerConns' = [viewerConns EXCEPT ![v] = [ws |-> c, deviceId |-> None]]
        BY <1>4 DEF ViewerJoin, registerViewer
    <2>2. IdsIssued'
        BY <2>1
    <2>3. ASSUME NEW b \in Conns, Live(b)', role'[b] = "viewer"
          PROVE  viewerConns'[entityId'[b]] # None /\ viewerConns'[entityId'[b]].ws = b
        <3>1. CASE b = c
            <4>1. [ws |-> c, deviceId |-> None] # None
                BY NoneIsNothing
            <4>2. QED
                BY <2>1, <3>1, <4>1
        <3>2. CASE b # c
            <4>1. Live(b) /\ role[b] = "viewer" /\ entityId'[b] = entityId[b]
                BY <1>4, <2>1, <2>3, <3>2 DEF Live
            <4>2. entityId[b] # v
                BY <2>1, <4>1
            <4>3. QED
                BY <2>1, <4>1, <4>2 DEF RoleTyped
        <3>3. QED
            BY <3>1, <3>2
    <2>4. QED
        BY <2>2, <2>3
<1>5. ASSUME NEW c \in Conns, NEW d \in Devices, DeviceRegister(c, d), UNCHANGED readyState
      PROVE  ViewersKnown'
    BY <1>5 DEF DeviceRegister, registerDevice, Live
<1>6. ASSUME NEW c \in Conns, UNCHANGED readyState,
             ViewerUnwatch(c) \/ \E d \in Devices : ViewerWatch(c, d) /\ devices[d] # None
      PROVE  ViewersKnown'
    <2>1. UNCHANGED <<role, entityId, issued>> /\ entityId[c] \in Viewers
        BY <1>6 DEF ViewerUnwatch, ViewerWatch, RoleTyped
    <2>2. PICK e \in Devices \cup {None} :
            viewerConns' = IF viewerConns[entityId[c]] = None THEN viewerConns
                           ELSE [viewerConns EXCEPT ![entityId[c]].deviceId = e]
        BY <1>6 DEF ViewerUnwatch, ViewerWatch, attachViewerToDevice, detachViewerFromDevice
    <2>3. \A v \in Viewers : /\ viewerConns'[v] = None <=> viewerConns[v] = None
                             /\ viewerConns[v] # None => viewerConns'[v].ws = viewerConns[v].ws
        <3>1. CASE viewerConns[entityId[c]] = None
            BY <2>2, <3>1
        <3>2. CASE viewerConns[entityId[c]] # None
            <4>1. viewerConns' = [viewerConns EXCEPT ![entityId[c]].deviceId = e]
                BY <2>2, <3>2
            <4>2. viewerConns'[entityId[c]] \in ViewerEntries
                BY <2>1, <3>2, <4>1
            <4>3. viewerConns'[entityId[c]] # None
                BY <4>2, NoneIsNothing
            <4>4. viewerConns'[entityId[c]].ws = viewerConns[entityId[c]].ws
                BY <2>1, <3>2, <4>1
            <4>5. QED
                BY <2>1, <3>2, <4>1, <4>3, <4>4
        <3>3. QED
            BY <3>1, <3>2
    <2>4. IdsIssued'
        BY <2>1, <2>3
    <2>5. ASSUME NEW b \in Conns, Live(b)', role'[b] = "viewer"
          PROVE  viewerConns'[entityId'[b]] # None /\ viewerConns'[entityId'[b]].ws = b
        <3>1. Live(b) /\ role[b] = "viewer" /\ entityId[b] \in Viewers
            BY <1>6, <2>1, <2>5 DEF Live, RoleTyped
        <3>2. viewerConns[entityId[b]] # None /\ viewerConns[entityId[b]].ws = b
            BY <3>1
        <3>3. QED
            BY <2>1, <2>3, <3>1, <3>2
    <2>6. QED
        BY <2>4, <2>5
<1>7. QED
    BY <1>1, <1>2, <1>3, <1>4, <1>5, <1>6, Steps

\* If viewers unwatch first, whoever is in a device's viewer set is connected and
\* watches that device.
LEMMA NextWatchLinkAgrees ==
    ASSUME OneWatch
    PROVE  TypeOK /\ RoleTyped /\ ViewersKnown /\ WatchLinkAgrees /\ [Next]_vars => WatchLinkAgrees'
<1> SUFFICES ASSUME TypeOK, RoleTyped, ViewersKnown, WatchLinkAgrees, [Next]_vars
             PROVE  WatchLinkAgrees'
    OBVIOUS
<1> SUFFICES ASSUME NEW e \in Devices, NEW u \in Viewers, u \in viewers'[e]
             PROVE  viewerConns'[u] # None /\ viewerConns'[u].deviceId = e
    <2>1. \A d \in Devices : viewers'[d] \subseteq Viewers
        BY NextTyped DEF TypeOK, RegistryTypeOK
    <2>2. QED
        BY <2>1 DEF WatchLinkAgrees, Watching
<1> DEFINE Goal == viewerConns'[u] # None /\ viewerConns'[u].deviceId = e
<1> USE NoneIsNoRole, NoneIsNothing DEF TypeOK, RegistryTypeOK, ViewerEntries
<1>0. \A d \in Devices, v \in Viewers :
        v \in viewers[d] => viewerConns[v] # None /\ viewerConns[v].deviceId = d
    BY DEF WatchLinkAgrees, Watching
<1>1. CASE InertStep
    BY <1>0, <1>1 DEF InertStep, Inert, dmVars
<1>2. ASSUME NEW c \in Conns, CloseStep(c) PROVE Goal
    <2>1. CASE UNCHANGED dmVars
        BY <1>0, <2>1 DEF dmVars
    <2>2. CASE role[c] = "device" /\ unregisterDevice(entityId[c])
        BY <1>0, <2>2 DEF unregisterDevice
    <2>3. CASE role[c] = "viewer" /\ unregisterViewer(entityId[c])
        <3>1. entityId[c] \in Viewers
            BY <2>3 DEF RoleTyped
        <3>2. u # entityId[c] /\ u \in viewers[e]
            BY <1>0, <2>3, <3>1 DEF unregisterViewer, WithoutViewer
        <3>3. QED
            BY <1>0, <2>3, <3>1, <3>2 DEF unregisterViewer
    <2>4. QED
        BY <1>2, <2>1, <2>2, <2>3 DEF CloseStep
<1>3. CASE ProcessGone
    BY <1>3 DEF ProcessGone, ForgetAll, RegistryReset
<1>4. ASSUME NEW c \in Conns, NEW v \in Viewers, ViewerJoin(c, v) PROVE Goal
    <2>1. u \in viewers[e] /\ u # v
        BY <1>0, <1>4 DEF ViewerJoin, registerViewer, ViewersKnown, IdsIssued
    <2>2. QED
        BY <1>0, <1>4, <2>1 DEF ViewerJoin, registerViewer
<1>5. ASSUME NEW c \in Conns, NEW d \in Devices, DeviceRegister(c, d) PROVE Goal
    BY <1>0, <1>5 DEF DeviceRegister, registerDevice
<1>6. ASSUME NEW c \in Conns, NEW d \in Devices, ViewerWatch(c, d), devices[d] # None PROVE Goal
    <2>1. entityId[c] \in Viewers /\ Live(c) /\ role[c] = "viewer"
        BY <1>6 DEF ViewerWatch, Dispatched, Receives, RoleTyped
    <2>2. viewerConns[entityId[c]] # None
        BY <2>1 DEF ViewersKnown, ViewerListedAsOwn
    <2>3. viewerConns[entityId[c]].deviceId \in {None, d}
        BY <1>6, <2>2, OneWatch DEF ViewerWatch, Watching
    <2>4. /\ viewerConns' = [viewerConns EXCEPT ![entityId[c]].deviceId = d]
          /\ viewers' = [viewers EXCEPT ![d] = @ \cup {entityId[c]}]
        BY <1>6, <2>2 DEF ViewerWatch, attachViewerToDevice
    <2>5. CASE u = entityId[c]
        <3>1. e = d
            BY <1>0, <2>3, <2>4, <2>5
        <3>2. QED
            BY <2>1, <2>2, <2>4, <2>5, <3>1
    <2>6. CASE u # entityId[c]
        <3>1. u \in viewers[e]
            BY <2>4, <2>6
        <3>2. QED
            BY <1>0, <2>1, <2>4, <2>6, <3>1
    <2>7. QED
        BY <2>5, <2>6
<1>7. ASSUME NEW c \in Conns, ViewerUnwatch(c) PROVE Goal
    <2>1. entityId[c] \in Viewers
        BY <1>7 DEF ViewerUnwatch, RoleTyped
    <2>2. u # entityId[c] /\ u \in viewers[e]
        BY <1>0, <1>7, <2>1 DEF ViewerUnwatch, detachViewerFromDevice, WithoutViewer
    <2>3. QED
        BY <1>0, <1>7, <2>1, <2>2 DEF ViewerUnwatch, detachViewerFromDevice
<1>8. QED
    BY <1>1, <1>2, <1>3, <1>4, <1>5, <1>6, <1>7, Steps

\* No viewer is known or attached before the first one joins.
LEMMA InitViewersKnown == Init => ViewersKnown /\ WatchLinkAgrees
    BY NoneIsNoRole
    DEF Init, RegistryInit, ViewersKnown, IdsIssued, ViewerListedAsOwn, WatchLinkAgrees

\* The two directions of the watch relation agree, if a viewer unwatches one
\* device before it watches the next.
THEOREM WatchLinksAgree ==
    ASSUME OneWatch
    PROVE  Spec => []WatchLinkAgrees
<1>1. RInv => TypeOK /\ RoleTyped
    BY DEF RInv
<1>2. TypeOK /\ RoleTyped /\ ViewersKnown /\ WatchLinkAgrees /\ [Next]_vars => WatchLinkAgrees'
    BY OneWatch, NextWatchLinkAgrees
<1>3. QED
    BY <1>1, <1>2, InitViewersKnown, NextViewersKnown, RouterInvariance, PTL DEF Spec

----------------------------------------------------------------------------
(* The registry implements the watch service *)

\* What the abstract variables are here.
Serving      == [d \in Devices |-> ClaimedBy(d)]
Listed       == {d \in Devices : devices[d] # None}
WatchingBar  == {w \in Viewers \X Devices : w[1] \in viewers[w[2]]}

\* The inductive invariant for disciplined clients.
DisciplinedInv ==
    /\ RInv
    /\ ListedAsOwn
    /\ ViewersKnown
    /\ WatchLinkAgrees

\* A connection that counts as a device is exactly a live one.
LEMMA ClaimsAreLive ==
    ASSUME TypeOK, RoleTyped, NEW d \in Devices
    PROVE  ClaimedBy(d) = {c \in Conns : role[c] = "device" /\ entityId[c] = d /\ Live(c)}
<1>1. \A c \in Conns : role[c] = "device" => (readyState[c] # "CLOSED" <=> Live(c))
    BY NoneIsNoRole DEF TypeOK, RoleTyped, ReadyStates, Live
<1>2. QED
    BY <1>1 DEF ClaimedBy

\* A device is listed exactly while a connection serves it.
ListedWhileServed == Listed = {d \in Devices : Serving[d] # {}}

\* That follows from the invariant: the entry is a claiming connection's, and every
\* claiming connection has the entry.
LEMMA InvListedWhileServed == DisciplinedInv => ListedWhileServed
<1> SUFFICES ASSUME DisciplinedInv, NEW d \in Devices
             PROVE  devices[d] # None <=> ClaimedBy(d) # {}
    BY DEF ListedWhileServed, Listed, Serving
<1>1. ClaimedBy(d) = {c \in Conns : role[c] = "device" /\ entityId[c] = d /\ Live(c)}
    BY ClaimsAreLive DEF DisciplinedInv, RInv
<1>2. devices[d] # None => devices[d] \in ClaimedBy(d)
    BY <1>1 DEF DisciplinedInv, RInv, DeviceEntryOwned, TypeOK, RegistryTypeOK
<1>3. \A c \in ClaimedBy(d) : devices[d] = c /\ c # None
    BY <1>1, NoneIsNothing DEF DisciplinedInv, ListedAsOwn
<1>4. QED
    BY <1>2, <1>3

\* So listed follows serving in every step between such states.
LEMMA ListingFollows == DisciplinedInv' => Listed' = {d \in Devices : Serving'[d] # {}}
<1>1. DisciplinedInv' => ListedWhileServed'
    BY InvListedWhileServed, PTL
<1>2. QED
    BY <1>1 DEF ListedWhileServed

\* A device's viewer set, seen from the abstract relation.
LEMMA WatchingMembers ==
    ASSUME NEW v \in Viewers, NEW d \in Devices
    PROVE  <<v, d>> \in WatchingBar <=> v \in viewers[d]
    BY DEF WatchingBar

\* A register is an arrival.
LEMMA RegisterArrives ==
    ASSUME DisciplinedInv, DisciplinedInv', NEW c \in Conns, NEW d \in Devices,
           DeviceRegister(c, d), UNCHANGED readyState, OneIdentity
    PROVE  Service!Arrive(c, d)
<1> USE NoneIsNoRole DEF DisciplinedInv, RInv
<1>1. role[c] = None /\ Live(c)
    BY OneIdentity DEF DeviceRegister, Dispatched, Receives
<1>2. \A e \in Devices : ClaimedBy(e)' = IF e = d THEN ClaimedBy(e) \cup {c} ELSE ClaimedBy(e)
    BY <1>1 DEF DeviceRegister, ClaimedBy, TypeOK, Live
<1>3. Serving' = [Serving EXCEPT ![d] = @ \cup {c}]
    BY <1>2 DEF Serving
<1>4. Listed' = {e \in Devices : Serving'[e] # {}}
    BY ListingFollows
<1>5. WatchingBar' = WatchingBar
    BY DEF DeviceRegister, registerDevice, WatchingBar
<1>6. QED
    BY <1>3, <1>4, <1>5 DEF Service!Arrive, Service!Listing, Serving, Listed, WatchingBar

\* The close of a device's connection is its departure: it was the only one, so
\* its watchers go with it.
LEMMA DeviceCloseLeaves ==
    ASSUME DisciplinedInv, DisciplinedInv', NEW c \in Conns, CloseStep(c), role[c] = "device",
           NEW d \in Devices, d = entityId[c]
    PROVE  Service!Leave(c, d)
<1>1. TypeOK /\ RoleTyped /\ ListedAsOwn
    BY DEF DisciplinedInv, RInv
<1>2. Live(c)
    BY DEF CloseStep
<1>3. /\ readyState' = [readyState EXCEPT ![c] = "CLOSED"]
      /\ UNCHANGED <<role, entityId>>
      /\ unregisterDevice(d)
    BY NoneIsNoRole DEF CloseStep
<1>4. \A e \in Devices : ClaimedBy(e)' = IF e = d THEN ClaimedBy(e) \ {c} ELSE ClaimedBy(e)
    BY <1>1, <1>3 DEF ClaimedBy, TypeOK
<1>5. Serving' = [Serving EXCEPT ![d] = @ \ {c}]
    BY <1>4 DEF Serving
<1>6. \A b \in ClaimedBy(d) : b = c
    BY <1>1, <1>2, ClaimsAreLive DEF ListedAsOwn
<1>7. c \in Serving[d] /\ Serving'[d] = {}
    BY <1>1, <1>2, <1>4, <1>6, ClaimsAreLive DEF Serving
<1>8. WatchingBar' = WatchingBar \ (Viewers \X {d})
    <2>1. viewers' = [viewers EXCEPT ![d] = {}]
        BY <1>3 DEF unregisterDevice
    <2>2. QED
        BY <1>1, <1>2, <2>1 DEF WatchingBar, TypeOK, RegistryTypeOK
<1>9. QED
    BY <1>5, <1>7, <1>8, ListingFollows
    DEF Service!Leave, Service!Listing, Service!Watchers, Serving, Listed, WatchingBar

\* Without the registers and closes of devices, nobody's service changes.
LEMMA ServiceKept ==
    ASSUME TypeOK, UNCHANGED devices,
           \A c \in Conns : role[c] = "device" \/ role'[c] = "device" =>
                role'[c] = role[c] /\ entityId'[c] = entityId[c]
                    /\ (readyState'[c] = "CLOSED" <=> readyState[c] = "CLOSED")
    PROVE  UNCHANGED <<Serving, Listed>>
<1>1. \A d \in Devices : ClaimedBy(d)' = ClaimedBy(d)
    BY DEF ClaimedBy
<1>2. Serving' = Serving
    BY <1>1 DEF Serving
<1>3. QED
    BY <1>2 DEF Listed

\* A viewer watches at most one device, so that leaving that one's set is leaving
\* every set.
LEMMA OutOfEverySet ==
    ASSUME TypeOK, WatchLinkAgrees, NEW v \in Viewers, viewers' = WithoutViewer(v)
    PROVE  WatchingBar' = WatchingBar \ ({v} \X Devices)
<1>1. \A d \in Devices, u \in Viewers : u \in viewers[d] => viewerConns[u] # None /\ viewerConns[u].deviceId = d
    BY DEF WatchLinkAgrees, Watching
<1>2. ASSUME NEW d \in Devices, NEW u \in Viewers
      PROVE  u \in viewers'[d] <=> u \in viewers[d] /\ u # v
    <2>1. CASE viewerConns[v] # None /\ viewerConns[v].deviceId # None
        <3>1. viewerConns[v].deviceId \in Devices
            BY <2>1 DEF TypeOK, RegistryTypeOK, ViewerEntries
        <3>2. viewers' = [viewers EXCEPT ![viewerConns[v].deviceId] = @ \ {v}]
            BY <2>1 DEF WithoutViewer
        <3>3. QED
            BY <1>1, <3>1, <3>2 DEF TypeOK, RegistryTypeOK
    <2>2. CASE ~(viewerConns[v] # None /\ viewerConns[v].deviceId # None)
        BY <1>1, <2>2, NoneIsNothing DEF WithoutViewer
    <2>3. QED
        BY <2>1, <2>2
<1>3. QED
    BY <1>2 DEF WatchingBar

\* The close of a viewer's connection, and an unwatch, end its watch.
LEMMA ViewerLeavesUnwatch ==
    ASSUME DisciplinedInv, NEW c \in Conns,
           \/ CloseStep(c) /\ role[c] = "viewer"
           \/ ViewerUnwatch(c) /\ UNCHANGED readyState,
           NEW v \in Viewers, v = entityId[c]
    PROVE  Service!Unwatch(v)
<1>1. TypeOK /\ WatchLinkAgrees
    BY DEF DisciplinedInv, RInv
<1>2. viewers' = WithoutViewer(v) /\ UNCHANGED <<devices, role, entityId>>
    BY NoneIsNoRole DEF CloseStep, unregisterViewer, ViewerUnwatch, detachViewerFromDevice
<1>3. role[c] = "viewer" /\ \A b \in Conns : b # c => readyState'[b] = readyState[b]
    BY <1>1 DEF CloseStep, ViewerUnwatch, TypeOK
<1>4. UNCHANGED <<Serving, Listed>>
    BY <1>1, <1>2, <1>3, ServiceKept
<1>5. WatchingBar' = WatchingBar \ ({v} \X Devices)
    BY <1>1, <1>2, OutOfEverySet
<1>6. QED
    BY <1>4, <1>5 DEF Service!Unwatch, Service!Of, Serving, Listed, WatchingBar

\* A granted watch replaces whatever the viewer watched, which under the
\* discipline is nothing or the same device.
LEMMA WatchWatches ==
    ASSUME DisciplinedInv, NEW c \in Conns, NEW d \in Devices, ViewerWatch(c, d), devices[d] # None,
           UNCHANGED readyState, OneWatch, NEW v \in Viewers, v = entityId[c]
    PROVE  Service!Watch(v, d)
<1>1. TypeOK /\ WatchLinkAgrees
    BY DEF DisciplinedInv, RInv
<1>2. viewers' = [viewers EXCEPT ![d] = @ \cup {v}] /\ UNCHANGED <<devices, role, entityId>>
    BY DEF ViewerWatch, attachViewerToDevice
<1>3. \A e \in Devices : v \in viewers[e] => e = d
    BY <1>1, NoneIsNothing, OneWatch DEF WatchLinkAgrees, Watching, ViewerWatch
<1>4. WatchingBar' = (WatchingBar \ ({v} \X Devices)) \cup {<<v, d>>}
    <2>1. \A e \in Devices, u \in Viewers :
            u \in viewers'[e] <=> (u \in viewers[e] /\ u # v) \/ (u = v /\ e = d)
        BY <1>1, <1>2, <1>3 DEF TypeOK, RegistryTypeOK
    <2>2. QED
        BY <2>1 DEF WatchingBar
<1>5. UNCHANGED <<Serving, Listed>>
    BY <1>1, <1>2, ServiceKept
<1>6. d \in Listed
    BY DEF Listed
<1>7. QED
    BY <1>4, <1>5, <1>6 DEF Service!Watch, Service!Of, Serving, Listed, WatchingBar

\* The end of the process is the reset of the service.
LEMMA ProcessGoneResets ==
    ASSUME DisciplinedInv, DisciplinedInv', ProcessGone
    PROVE  Service!Reset
<1>1. \A d \in Devices : ClaimedBy(d)' = {}
    <2>1. TypeOK /\ RoleTyped
        BY DEF DisciplinedInv, RInv
    <2>2. \A c \in Conns : role[c] = "device" => readyState'[c] = "CLOSED"
        BY <2>1, NoneIsNoRole DEF ProcessGone, TypeOK, RoleTyped, ReadyStates, Live
    <2>3. QED
        BY <2>2 DEF ProcessGone, ForgetAll, ClaimedBy
<1>2. Serving' = [d \in Devices |-> {}]
    BY <1>1 DEF Serving
<1>3. WatchingBar' = {}
    BY DEF ProcessGone, ForgetAll, RegistryReset, WatchingBar
<1>4. QED
    BY <1>2, <1>3, ListingFollows DEF Service!Reset, Service!Listing, Serving, Listed, WatchingBar

\* The rest of the steps leave the service alone.
LEMMA ServiceStutters ==
    ASSUME DisciplinedInv, DisciplinedInv', OneIdentity,
           \/ InertStep
           \/ \E c \in Conns : CloseStep(c) /\ role[c] = None
           \/ \E c \in Conns, v \in Viewers : ViewerJoin(c, v) /\ UNCHANGED readyState
    PROVE  UNCHANGED <<Serving, Listed, WatchingBar>>
<1> USE NoneIsNoRole
<1>1. TypeOK /\ RoleTyped
    BY DEF DisciplinedInv, RInv
<1>2. CASE InertStep
    <2>1. UNCHANGED <<devices, viewers, role, entityId>>
        BY <1>2 DEF InertStep, Inert, dmVars
    <2>2. \A c \in Conns : role[c] = "device" => (Live(c)' <=> Live(c)) /\ readyState'[c] # "NONE"
        BY <1>1, <1>2 DEF InertStep, RoleTyped
    <2>3. \A c \in Conns : role[c] = "device" => (readyState'[c] = "CLOSED" <=> readyState[c] = "CLOSED")
        <3>1. \A c \in Conns : readyState[c] \in ReadyStates /\ readyState'[c] \in ReadyStates
            BY DEF DisciplinedInv, RInv, TypeOK
        <3>2. \A c \in Conns : role[c] = "device" => readyState[c] # "NONE"
            BY <1>1 DEF RoleTyped
        <3>3. QED
            BY <2>2, <3>1, <3>2 DEF ReadyStates, Live
    <2>4. UNCHANGED <<Serving, Listed>>
        BY <1>1, <2>1, <2>3, ServiceKept
    <2>5. QED
        BY <2>1, <2>4 DEF WatchingBar
<1>3. CASE \E c \in Conns : CloseStep(c) /\ role[c] = None
    <2>1. UNCHANGED <<devices, viewers, role, entityId>>
        BY <1>3 DEF CloseStep, dmVars
    <2>2. \A c \in Conns : role[c] = "device" => readyState'[c] = readyState[c]
        BY <1>1, <1>3 DEF CloseStep, TypeOK
    <2>3. QED
        BY <1>1, <2>1, <2>2, ServiceKept DEF WatchingBar
<1>4. ASSUME NEW c \in Conns, NEW v \in Viewers, ViewerJoin(c, v), UNCHANGED readyState
      PROVE  UNCHANGED <<Serving, Listed, WatchingBar>>
    <2>1. /\ role[c] = None /\ role' = [role EXCEPT ![c] = "viewer"]
          /\ entityId' = [entityId EXCEPT ![c] = v]
          /\ UNCHANGED <<devices, viewers>>
        BY <1>4, OneIdentity DEF ViewerJoin, registerViewer
    <2>2. \A b \in Conns : role[b] = "device" \/ role'[b] = "device" =>
                role'[b] = role[b] /\ entityId'[b] = entityId[b]
        BY <1>1, <2>1 DEF TypeOK
    <2>3. QED
        BY <1>1, <1>4, <2>1, <2>2, ServiceKept DEF WatchingBar
<1>5. QED
    BY <1>2, <1>3, <1>4

\* The invariant of disciplined clients is inductive.
LEMMA NextDisciplinedInv ==
    ASSUME OneIdentity, OneWatch, NoOverlap
    PROVE  DisciplinedInv /\ [Next]_vars => DisciplinedInv'
<1>1. RInv => TypeOK /\ RoleTyped
    BY DEF RInv
<1>2. QED
    BY <1>1, NextRInv, NextListedAsOwn, NextViewersKnown, NextWatchLinkAgrees,
       NoOverlap, OneWatch
    DEF DisciplinedInv

\* For clients that keep to the three disciplines the registry is the watch
\* service: presence is exactly what the connections claim, and a watch begins and
\* ends as the service says.
THEOREM ServiceImplemented ==
    ASSUME OneIdentity, OneWatch, NoOverlap
    PROVE  Spec => ServiceSpec
<1>1. Init => DisciplinedInv
    <2>1. Init => ListedAsOwn
        BY NoneIsNoRole DEF Init, ListedAsOwn
    <2>2. QED
        BY <2>1, InitRInv, InitViewersKnown DEF DisciplinedInv
<1>2. DisciplinedInv /\ [Next]_vars => DisciplinedInv'
    BY NextDisciplinedInv, OneIdentity, OneWatch, NoOverlap
<1>3. Init => Service!Init
    BY NoneIsNoRole DEF Init, RegistryInit, Service!Init, ClaimedBy
<1>4. DisciplinedInv /\ DisciplinedInv' /\ [Next]_vars => [Service!Next]_(Service!serviceVars)
    <2> SUFFICES ASSUME DisciplinedInv, DisciplinedInv', [Next]_vars
                 PROVE  Service!Next \/ UNCHANGED <<Serving, Listed, WatchingBar>>
        BY DEF Service!serviceVars, Serving, Listed, WatchingBar
    <2>1. TypeOK /\ RoleTyped
        BY DEF DisciplinedInv, RInv
    <2>2. CASE InertStep
        BY <2>2, ServiceStutters, OneIdentity
    <2>3. ASSUME NEW c \in Conns, CloseStep(c)
          PROVE  Service!Next \/ UNCHANGED <<Serving, Listed, WatchingBar>>
        <3>1. CASE role[c] = None
            BY <2>3, <3>1, ServiceStutters, OneIdentity
        <3>2. CASE role[c] = "device"
            <4>1. PICK d \in Devices : d = entityId[c]
                BY <2>1, <3>2 DEF RoleTyped
            <4>2. Service!Leave(c, d)
                BY <2>3, <3>2, <4>1, DeviceCloseLeaves
            <4>3. QED
                BY <4>2 DEF Service!Next
        <3>3. CASE role[c] = "viewer"
            <4>1. PICK v \in Viewers : v = entityId[c]
                BY <2>1, <3>3 DEF RoleTyped
            <4>2. Service!Unwatch(v)
                BY <2>3, <3>3, <4>1, ViewerLeavesUnwatch
            <4>3. QED
                BY <4>2 DEF Service!Next
        <3>4. QED
            BY <2>1, <3>1, <3>2, <3>3 DEF TypeOK
    <2>4. CASE ProcessGone
        BY <2>4, ProcessGoneResets DEF Service!Next
    <2>5. ASSUME NEW c \in Conns, NEW v \in Viewers, ViewerJoin(c, v), UNCHANGED readyState
          PROVE  UNCHANGED <<Serving, Listed, WatchingBar>>
        BY <2>5, ServiceStutters, OneIdentity
    <2>6. ASSUME NEW c \in Conns, NEW d \in Devices, DeviceRegister(c, d), UNCHANGED readyState
          PROVE  Service!Next
        BY <2>6, RegisterArrives, OneIdentity DEF Service!Next
    <2>7. ASSUME NEW c \in Conns, NEW d \in Devices, ViewerWatch(c, d), devices[d] # None,
                 UNCHANGED readyState
          PROVE  Service!Next
        <3>1. PICK v \in Viewers : v = entityId[c]
            BY <2>1, <2>7 DEF RoleTyped, ViewerWatch
        <3>2. Service!Watch(v, d)
            BY <2>7, <3>1, WatchWatches, OneWatch
        <3>3. QED
            BY <3>2 DEF Service!Next
    <2>8. ASSUME NEW c \in Conns, ViewerUnwatch(c), UNCHANGED readyState
          PROVE  Service!Next
        <3>1. PICK v \in Viewers : v = entityId[c]
            BY <2>1, <2>8 DEF RoleTyped, ViewerUnwatch
        <3>2. Service!Unwatch(v)
            BY <2>8, <3>1, ViewerLeavesUnwatch
        <3>3. QED
            BY <3>2 DEF Service!Next
    <2>9. QED
        BY <2>1, <2>2, <2>3, <2>4, <2>5, <2>6, <2>7, <2>8, Steps
<1>5. QED
    BY <1>1, <1>2, <1>3, <1>4, PTL DEF Spec, ServiceSpec, Service!Spec
=============================================================================
