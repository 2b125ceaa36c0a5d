----------------------------- MODULE DeviceView -----------------------------
(***************************************************************************)
(* One device view of the dashboard: the hook useWebRTC inside a           *)
(* DeviceTile or DevicePage.  Every run of the hook's effect fetches       *)
(* credentials, opens a WebSocket, watches its device and decodes the      *)
(* frames it is sent; the refs and the state belong to all runs together.  *)
(* The signaling server is the environment, as far as one viewer sees it.  *)
(***************************************************************************)
EXTENDS Naturals, Sequences

CONSTANTS
    Devices,
    MaxRuns,      \* bound: runs of the effect
    MaxInFlight,  \* bound: frames on their way or being decoded, per run
    None

ASSUME NoneIsNoDevice == None \notin Devices
ASSUME BoundsAreNat == MaxRuns \in Nat \ {0} /\ MaxInFlight \in Nat \ {0}

Runs == 1..MaxRuns

VARIABLES
    target,      \* deviceId of the component, None once it is unmounted
    run,         \* the current run of the effect
    device,      \* deviceId in the closure of each run
    cancelled,
    phase,       \* each run's credentials, then its WebSocket
    wsRef,
    decoding,    \* frames of a run that await arrayBuffer()
    objUrl,      \* objUrl.current is set
    liveUrls,    \* object URLs created and not revoked
    picture,     \* device whose frame the <img> holds
    status,
    registered,  \* server: devices it knows
    watching,    \* server: the watch of each run's viewer
    inbox,       \* messages on their way to each run's socket
    late         \* a frame was being decoded when its device or run was left

refVars == <<wsRef, objUrl, liveUrls>>
closureVars == <<target, run, device, cancelled>>
serverVars == <<registered, watching>>
vars == <<closureVars, phase, refVars, decoding, picture, status, serverVars, inbox, late>>

Message == {"frame", "error", "gone", "close"}

Init ==
    \E d \in Devices :
        /\ target = d
        /\ run = 1
        /\ device = [r \in Runs |-> IF r = 1 THEN d ELSE None]
        /\ cancelled = [r \in Runs |-> FALSE]
        /\ phase = [r \in Runs |-> IF r = 1 THEN "fetching" ELSE "none"]
        /\ wsRef = None
        /\ decoding = [r \in Runs |-> 0]
        /\ objUrl = FALSE /\ liveUrls = 0
        /\ picture = None
        /\ status = "connecting"
        /\ registered \in SUBSET Devices
        /\ watching = [r \in Runs |-> "no"]
        /\ inbox = [r \in Runs |-> <<>>]
        /\ late = FALSE

----------------------------------------------------------------------------
(* The effect and its cleanup *)

\* close() on the socket wsRef names: an open one shakes hands, one that is
\* still connecting fails.
CloseSocket(p) ==
    [r \in Runs |-> IF r # wsRef THEN p[r]
                    ELSE IF p[r] = "open" THEN "closing"
                    ELSE IF p[r] = "connecting" THEN "aborting" ELSE p[r]]

\* Mutant of Cleanup: the run is not told.
CleanupUncancelled ==
    /\ UNCHANGED cancelled
    /\ wsRef' = None
    /\ objUrl' = FALSE
    /\ liveUrls' = IF objUrl THEN liveUrls - 1 ELSE liveUrls

\* Mutant of Cleanup: the object URL is forgotten, not revoked.
CleanupUnrevoked ==
    /\ cancelled' = [cancelled EXCEPT ![run] = TRUE]
    /\ wsRef' = None
    /\ objUrl' = FALSE /\ UNCHANGED liveUrls

Cleanup ==
    /\ cancelled' = [cancelled EXCEPT ![run] = TRUE]
    /\ wsRef' = None
    /\ objUrl' = FALSE
    /\ liveUrls' = IF objUrl THEN liveUrls - 1 ELSE liveUrls

\* The component stays and the effect runs again: another deviceId on the same
\* route, another token, or the second run of StrictMode.
Retarget(d) ==
    /\ target # None /\ run < MaxRuns
    /\ Cleanup
    /\ target' = d
    /\ run' = run + 1
    /\ device' = [device EXCEPT ![run + 1] = d]
    /\ phase' = [CloseSocket(phase) EXCEPT ![run + 1] = "fetching"]
    /\ status' = "connecting"
    /\ late' = \E r \in Runs : decoding[r] > 0
    /\ UNCHANGED <<decoding, picture, serverVars, inbox>>

\* Mutant of Unmount: the cleanup forgets ws.close().
UnmountSocketOpen ==
    /\ target # None
    /\ Cleanup
    /\ target' = None
    /\ picture' = None
    /\ UNCHANGED <<run, device, phase, decoding, status, serverVars, inbox, late>>

\* The <img> and the component's state go with it.
Unmount ==
    /\ target # None
    /\ Cleanup
    /\ target' = None
    /\ picture' = None
    /\ phase' = CloseSocket(phase)
    /\ UNCHANGED <<run, device, decoding, status, serverVars, inbox, late>>

\* Mutant of Fetched: no look at cancelled after the await.
FetchedUnchecked(r) ==
    /\ phase[r] = "fetching"
    /\ phase' = [phase EXCEPT ![r] = "connecting"]
    /\ wsRef' = r
    /\ UNCHANGED <<closureVars, objUrl, liveUrls, decoding, picture, status, serverVars, inbox, late>>

\* The credentials arrived, or the static fallback took their place.
Fetched(r) ==
    /\ phase[r] = "fetching"
    /\ phase' = [phase EXCEPT ![r] = IF cancelled[r] THEN "closed" ELSE "connecting"]
    /\ wsRef' = IF cancelled[r] THEN wsRef ELSE r
    /\ UNCHANGED <<closureVars, objUrl, liveUrls, decoding, picture, status, serverVars, inbox, late>>

\* viewer_join and viewer_watch leave together.
Opened(r) ==
    /\ phase[r] = "connecting"
    /\ phase' = [phase EXCEPT ![r] = "open"]
    /\ watching' = [watching EXCEPT ![r] = "asked"]
    /\ UNCHANGED <<closureVars, refVars, decoding, picture, status, registered, inbox, late>>

----------------------------------------------------------------------------
(* What the socket brings *)

\* setStatus of a listener; nothing of an unmounted component changes.
SetStatus(s) == status' = IF target = None THEN status ELSE s

\* Mutant of Heard: device_disconnected leaves the status alone.
HeardGoneIgnored(r, m) ==
    CASE m = "frame" -> decoding' = [decoding EXCEPT ![r] = @ + 1] /\ UNCHANGED <<phase, status, late>>
      [] m = "error" -> SetStatus("error") /\ UNCHANGED <<phase, decoding, late>>
      [] m = "gone"  -> UNCHANGED <<phase, status, decoding, late>>
      [] m = "close" -> phase' = [phase EXCEPT ![r] = "closed"] /\ UNCHANGED <<status, decoding, late>>

Heard(r, m) ==
    CASE m = "frame" -> /\ decoding' = [decoding EXCEPT ![r] = @ + 1]
                        /\ UNCHANGED <<phase, status, late>>
      [] m = "error" -> /\ SetStatus("error")
                        /\ UNCHANGED <<phase, decoding, late>>
      [] m = "gone"  -> /\ SetStatus("idle")
                        /\ late' = (late \/ decoding[r] > 0)
                        /\ UNCHANGED <<phase, decoding>>
      [] m = "close" -> /\ phase' = [phase EXCEPT ![r] = "closed"]
                        /\ IF cancelled[r] THEN UNCHANGED status ELSE SetStatus("idle")
                        /\ late' = (late \/ decoding[r] > 0)
                        /\ UNCHANGED decoding

\* Only an open socket hands over what arrives.
Receive(r) ==
    /\ phase[r] = "open" /\ inbox[r] # <<>>
    /\ Heard(r, Head(inbox[r]))
    /\ inbox' = [inbox EXCEPT ![r] = Tail(@)]
    /\ UNCHANGED <<closureVars, refVars, picture, serverVars>>

\* Mutant of Decoded: the picture changes, the status does not.
DecodedUntold(r) ==
    /\ decoding[r] > 0 /\ target # None
    /\ decoding' = [decoding EXCEPT ![r] = @ - 1]
    /\ objUrl' = TRUE
    /\ liveUrls' = IF objUrl THEN liveUrls ELSE liveUrls + 1
    /\ picture' = device[r]
    /\ UNCHANGED <<closureVars, phase, wsRef, status, serverVars, inbox, late>>

\* The bytes of a frame are there, in no particular order among the frames: the
\* old object URL goes, the new one is shown.
Decoded(r) ==
    /\ decoding[r] > 0
    /\ decoding' = [decoding EXCEPT ![r] = @ - 1]
    /\ IF target = None
       THEN UNCHANGED <<objUrl, liveUrls, picture>>
       ELSE /\ objUrl' = TRUE
            /\ liveUrls' = IF objUrl THEN liveUrls ELSE liveUrls + 1
            /\ picture' = device[r]
    /\ SetStatus("live")
    /\ UNCHANGED <<closureVars, phase, wsRef, serverVars, inbox, late>>

\* The connection fails: the error and the close event in one task, the close
\* event's status last.
LinkLost(r) ==
    /\ phase[r] \in {"connecting", "open"}
    /\ phase' = [phase EXCEPT ![r] = "closed"]
    /\ inbox' = [inbox EXCEPT ![r] = <<>>]
    /\ SetStatus(IF cancelled[r] THEN "error" ELSE "idle")
    /\ late' = (late \/ decoding[r] > 0)
    /\ UNCHANGED <<closureVars, refVars, decoding, picture, serverVars>>

\* A socket closed while it was connecting: its error listener does not look at
\* cancelled, its close listener does.
Aborted(r) ==
    /\ phase[r] = "aborting"
    /\ phase' = [phase EXCEPT ![r] = "closed"]
    /\ SetStatus("error")
    /\ UNCHANGED <<closureVars, refVars, decoding, picture, serverVars, inbox, late>>

Closed(r) ==
    /\ phase[r] = "closing"
    /\ phase' = [phase EXCEPT ![r] = "closed"]
    /\ inbox' = [inbox EXCEPT ![r] = <<>>]
    /\ UNCHANGED <<closureVars, refVars, decoding, picture, status, serverVars, late>>

----------------------------------------------------------------------------
(* The signaling server, as a viewer sees it *)

ToViewers(rs, m) ==
    inbox' = [r \in Runs |-> IF r \in rs /\ phase[r] = "open" THEN Append(inbox[r], m) ELSE inbox[r]]

Watchers(d) == {r \in Runs : watching[r] = "yes" /\ device[r] = d}

ViewerWatch(r) ==
    /\ watching[r] = "asked"
    /\ IF device[r] \in registered
       THEN watching' = [watching EXCEPT ![r] = "yes"] /\ UNCHANGED inbox
       ELSE watching' = [watching EXCEPT ![r] = "no"] /\ ToViewers({r}, "error")
    /\ UNCHANGED <<closureVars, phase, refVars, decoding, picture, status, registered, late>>

\* A device sends whether or not anybody watches; only watched frames matter here.
Frame(d) ==
    /\ d \in registered
    /\ Watchers(d) # {}
    /\ \A r \in Watchers(d) : Len(inbox[r]) + decoding[r] < MaxInFlight
    /\ ToViewers(Watchers(d), "frame")
    /\ UNCHANGED <<closureVars, phase, refVars, decoding, picture, status, serverVars, late>>

DeviceGone(d) ==
    /\ d \in registered
    /\ registered' = registered \ {d}
    /\ watching' = [r \in Runs |-> IF r \in Watchers(d) THEN "no" ELSE watching[r]]
    /\ ToViewers(Watchers(d), "gone")
    /\ UNCHANGED <<closureVars, phase, refVars, decoding, picture, status, late>>

DeviceBack(d) ==
    /\ d \notin registered
    /\ registered' = registered \cup {d}
    /\ UNCHANGED <<closureVars, phase, refVars, decoding, picture, status, watching, inbox, late>>

\* The server closes a viewer it still serves: a refused token (the status its error
\* message sets is overwritten by the close), or a shutdown.
ServerCloses(r) ==
    /\ phase[r] = "open" /\ "close" \notin {inbox[r][i] : i \in DOMAIN inbox[r]}
    /\ watching' = [watching EXCEPT ![r] = "no"]
    /\ ToViewers({r}, "close")
    /\ UNCHANGED <<closureVars, phase, refVars, decoding, picture, status, registered, late>>

\* The server's close event, or its ping timer, removes the viewer.
ServerForgets(r) ==
    /\ phase[r] = "closed" /\ watching[r] # "no"
    /\ watching' = [watching EXCEPT ![r] = "no"]
    /\ UNCHANGED <<closureVars, phase, refVars, decoding, picture, status, registered, inbox, late>>

----------------------------------------------------------------------------

Browser(r) == Fetched(r) \/ Opened(r) \/ Receive(r) \/ Decoded(r) \/ Aborted(r) \/ Closed(r)

Server(r) == ViewerWatch(r) \/ ServerForgets(r)

Next ==
    \/ \E d \in Devices : Retarget(d) \/ Frame(d) \/ DeviceGone(d) \/ DeviceBack(d)
    \/ Unmount
    \/ \E r \in Runs : Browser(r) \/ Server(r) \/ LinkLost(r) \/ ServerCloses(r)

\* The event loop runs every task that is due, and the server answers.  Nothing is
\* assumed of the user, the network or the devices: an agent whose screen does not
\* change, or that waits for a message, sends no frame.
Fairness ==
    \A r \in Runs :
        /\ WF_vars(Fetched(r))
        /\ WF_vars(Opened(r))
        /\ WF_vars(Receive(r))
        /\ WF_vars(Decoded(r))
        /\ WF_vars(Aborted(r) \/ Closed(r))
        /\ WF_vars(Server(r))

Spec == Init /\ [][Next]_vars

FairSpec == Spec /\ Fairness

----------------------------------------------------------------------------
(* Properties *)

\* The types of the variables; exactly the runs that were left are cancelled.
TypeOK ==
    /\ target \in Devices \cup {None}
    /\ run \in Runs
    /\ device \in [Runs -> Devices \cup {None}]
    /\ cancelled = [r \in Runs |-> r < run \/ (r = run /\ target = None)]
    /\ phase \in [Runs -> {"none", "fetching", "connecting", "open", "closing", "aborting", "closed"}]
    /\ wsRef \in Runs \cup {None}
    /\ decoding \in [Runs -> Nat]
    /\ objUrl \in BOOLEAN /\ liveUrls \in Nat
    /\ picture \in Devices \cup {None}
    /\ status \in {"connecting", "live", "idle", "error"}
    /\ registered \subseteq Devices
    /\ watching \in [Runs -> {"no", "asked", "yes"}]
    /\ inbox \in [Runs -> Seq(Message)]
    /\ late \in BOOLEAN

\* However quickly the user moves on, a view has at most one socket in use: that
\* of its current run.  A run left while its credentials were still being fetched
\* never opens one.
OneSocket ==
    \A r \in Runs : phase[r] \in {"connecting", "open"} => wsRef = r /\ run = r /\ ~cancelled[r]

\* Every object URL is revoked in time: there is never more than the one on show,
\* and none outlives the component, whatever frames are still being decoded.
NoLeakedUrl ==
    /\ liveUrls = IF objUrl THEN 1 ELSE 0
    /\ target = None => liveUrls = 0

\* A view that shows a picture without a notice shows the device it stands for,
\* and the server streams that device to it or has already sent the news that it
\* stopped.  Only a frame caught in decoding when the device or the run was left
\* can break this.
LiveIsTrue ==
    (target # None /\ status = "live" /\ ~late) =>
        /\ picture = target
        /\ \/ watching[run] = "yes"
           \/ \E i \in DOMAIN inbox[run] : inbox[run][i] \in {"gone", "close"}

\* A frame has reached run r, or is being decoded for it.
FrameAhead(r) == decoding[r] > 0 \/ "frame" \in {inbox[r][i] : i \in DOMAIN inbox[r]}

\* A frame on its way to a view is shown and told: the status says live with that
\* device's picture, whatever arrives around it.  Only the end of the view, or of
\* the connection while the frame is still unread, loses it.
FramesGoLive ==
    \A r \in Runs : FrameAhead(r)
        ~> \/ status = "live" /\ picture = device[r]
           \/ phase[r] # "open" /\ decoding[r] = 0
           \/ target = None

\* Whatever a view was doing when it was left, the server ends its watch for good,
\* so no device streams to a page nobody looks at.
LeftViewsStopWatching ==
    \A r \in Runs : [](cancelled[r] => <>[](watching[r] = "no"))
=============================================================================
