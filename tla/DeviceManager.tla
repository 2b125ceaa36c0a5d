--------------------------- MODULE DeviceManager ---------------------------
(***************************************************************************)
(* deviceManager.js: the in-memory registry of devices and viewers.  Its   *)
(* operations are written as the changes they make to the three maps; the  *)
(* steps that call them are in SignalingRouter.  A viewer set that is      *)
(* absent and one that is empty behave alike, so both are {}; a device's   *)
(* meta is only displayed, so an entry is its ws.                          *)
(***************************************************************************)
EXTENDS Integers, FiniteSets

CONSTANTS
    Conns,    \* WebSocket connections
    Devices,  \* device identifiers
    Viewers,  \* identifiers uuidv4 may hand to viewers
    None      \* null / undefined / "no entry"

VARIABLES
    devices,      \* device_id -> ws, None if not registered
    viewers,      \* device_id -> set of viewer ids
    viewerConns   \* viewer_id -> [ws, deviceId], None if not registered

dmVars == <<devices, viewers, viewerConns>>

ViewerEntries == [ws : Conns, deviceId : Devices \cup {None}]

ASSUME NoneIsNothing == None \notin Conns \cup Devices \cup ViewerEntries

RegistryTypeOK ==
    /\ devices \in [Devices -> Conns \cup {None}]
    /\ viewers \in [Devices -> SUBSET Viewers]
    /\ viewerConns \in [Viewers -> ViewerEntries \cup {None}]

RegistryInit ==
    /\ devices = [d \in Devices |-> None]
    /\ viewers = [d \in Devices |-> {}]
    /\ viewerConns = [v \in Viewers |-> None]

\* ws.send happens only on an OPEN socket; rs is the readyState of every socket
\* at that moment, and what is sent is part of the step's output.
Sends(rs, ws, type, about) ==
    IF rs[ws] = "OPEN" THEN {[to |-> ws, type |-> type, about |-> about]} ELSE {}

\* The viewers of d that a send reaches.
Reachable(rs, d) ==
    {v \in viewers[d] : viewerConns[v] # None /\ rs[viewerConns[v].ws] = "OPEN"}

\* One message to every reachable viewer of d.
SendToViewers(rs, d, type, about) ==
    {[to |-> viewerConns[v].ws, type |-> type, about |-> about] : v \in Reachable(rs, d)}

----------------------------------------------------------------------------

\* devices.set overwrites whatever entry there was.
registerDevice(d, ws) ==
    /\ devices' = [devices EXCEPT ![d] = ws]
    /\ UNCHANGED <<viewers, viewerConns>>

\* Mutant of unregisterDevice: the viewer set outlives the device.
unregisterDeviceKeepViewers(d) ==
    /\ devices' = [devices EXCEPT ![d] = None]
    /\ UNCHANGED <<viewers, viewerConns>>

\* The entry goes, whichever ws it names; SendToViewers is the notice sent before
\* viewers.delete.
unregisterDevice(d) ==
    /\ devices' = [devices EXCEPT ![d] = None]
    /\ viewers' = [viewers EXCEPT ![d] = {}]
    /\ UNCHANGED viewerConns

\* Mutant of registerViewer: the arguments swapped where it is called.
registerViewerSwapped(v, ws) ==
    /\ viewerConns' = [viewerConns EXCEPT ![v] = [ws |-> v, deviceId |-> None]]
    /\ UNCHANGED <<devices, viewers>>

registerViewer(v, ws) ==
    /\ viewerConns' = [viewerConns EXCEPT ![v] = [ws |-> ws, deviceId |-> None]]
    /\ UNCHANGED <<devices, viewers>>

\* viewers.get(vc.deviceId)?.delete(viewerId), skipped when it watches nothing.
WithoutViewer(v) ==
    IF viewerConns[v] # None /\ viewerConns[v].deviceId # None
    THEN [viewers EXCEPT ![viewerConns[v].deviceId] = @ \ {v}]
    ELSE viewers

unregisterViewer(v) ==
    /\ viewers' = WithoutViewer(v)
    /\ viewerConns' = [viewerConns EXCEPT ![v] = None]
    /\ UNCHANGED devices

\* The previously watched device, if any, is not touched.
attachViewerToDevice(v, d) ==
    /\ viewerConns' = IF viewerConns[v] = None THEN viewerConns
                      ELSE [viewerConns EXCEPT ![v].deviceId = d]
    /\ viewers' = [viewers EXCEPT ![d] = @ \cup {v}]
    /\ UNCHANGED devices

\* Mutant of detachViewerFromDevice: only the entry is reset.
detachViewerEntryOnly(v) ==
    /\ viewerConns' = IF viewerConns[v] = None THEN viewerConns
                      ELSE [viewerConns EXCEPT ![v].deviceId = None]
    /\ UNCHANGED <<devices, viewers>>

detachViewerFromDevice(v) ==
    /\ viewers' = WithoutViewer(v)
    /\ viewerConns' = IF viewerConns[v] = None THEN viewerConns
                      ELSE [viewerConns EXCEPT ![v].deviceId = None]
    /\ UNCHANGED devices

\* The maps of a process that has just started.
RegistryReset ==
    /\ devices' = [d \in Devices |-> None]
    /\ viewers' = [d \in Devices |-> {}]
    /\ viewerConns' = [v \in Viewers |-> None]
=============================================================================
