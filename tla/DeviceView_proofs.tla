-------------------------- MODULE DeviceView_proofs --------------------------
(***************************************************************************)
(* Theorems about DeviceView, for any devices, any number of runs of the   *)
(* effect and any number of frames on their way.                           *)
(***************************************************************************)
EXTENDS DeviceView, TLAPS

\* A run that has not begun has no socket, and wsRef names nothing but the run that
\* is not cancelled: so a run that comes back from its fetch finds no socket open.
RunsInOrder ==
    /\ \A r \in Runs : r > run => phase[r] = "none"
    /\ wsRef # None => wsRef = run /\ target # None

DInv == TypeOK /\ OneSocket /\ NoLeakedUrl /\ RunsInOrder

Phases == {"none", "fetching", "connecting", "open", "closing", "aborting", "closed"}

\* What TypeOK says of a single run.
LEMMA CancelledRuns ==
    ASSUME TypeOK, NEW r \in Runs
    PROVE  cancelled[r] <=> r < run \/ (r = run /\ target = None)
  BY DEF TypeOK

\* The initial states satisfy the invariant.
LEMMA DInit == Init => DInv
  <1> SUFFICES ASSUME Init PROVE DInv OBVIOUS
  <1>1. Runs \subseteq Nat \ {0} /\ 1 \in Runs
    BY BoundsAreNat DEF Runs
  <1>2. TypeOK
    <2>1. target \in Devices /\ target # None /\ run = 1 /\ \A q \in Runs : ~(q < 1)
      BY <1>1, NoneIsNoDevice DEF Init
    <2>2. cancelled = [q \in Runs |-> q < run \/ (q = run /\ target = None)]
      <3>1. \A q \in Runs : FALSE = (q < run \/ (q = run /\ target = None))
        BY <2>1
      <3> QED BY <3>1 DEF Init
    <2>3. inbox \in [Runs -> Seq(Message)]
      BY DEF Init
    <2>4. device \in [Runs -> Devices \cup {None}] /\ registered \subseteq Devices
      BY DEF Init
    <2>5. /\ phase \in [Runs -> Phases] /\ watching \in [Runs -> {"no", "asked", "yes"}]
          /\ decoding \in [Runs -> Nat] /\ objUrl \in BOOLEAN /\ liveUrls \in Nat
      <3>1. phase \in [Runs -> Phases]
        BY DEF Init, Phases
      <3>2. watching \in [Runs -> {"no", "asked", "yes"}]
        BY DEF Init
      <3>3. decoding \in [Runs -> Nat] /\ objUrl \in BOOLEAN /\ liveUrls \in Nat
        <4>1. decoding = [q \in Runs |-> 0] /\ objUrl = FALSE /\ liveUrls = 0
          BY DEF Init
        <4> QED BY <4>1
      <3> QED BY <3>1, <3>2, <3>3
    <2>6. /\ picture = None /\ wsRef = None /\ status = "connecting" /\ late = FALSE
      BY DEF Init
    <2> QED BY <1>1, <2>1, <2>2, <2>3, <2>4, <2>5, <2>6 DEF TypeOK, Phases
  <1> QED BY <1>1, <1>2, NoneIsNoDevice DEF Init, DInv, OneSocket, NoLeakedUrl, RunsInOrder

\* What the cleanup leaves: no socket of any run in use and no object URL.
LEMMA CleanupLeaves ==
    ASSUME DInv, target # None, Cleanup
    PROVE  /\ cancelled' = [r \in Runs |-> r <= run]
           /\ wsRef' = None /\ objUrl' = FALSE /\ liveUrls' = 0
           /\ CloseSocket(phase) \in [Runs -> Phases]
           /\ \A r \in Runs : CloseSocket(phase)[r] \notin {"connecting", "open"}
           /\ \A r \in Runs : r > run => CloseSocket(phase)[r] = "none"
  <1>1. Runs \subseteq Nat /\ run \in Runs
    BY BoundsAreNat DEF Runs, DInv, TypeOK
  <1>2. cancelled' = [r \in Runs |-> r <= run]
    <2>1. cancelled' = [r \in Runs |-> IF r = run THEN TRUE ELSE cancelled[r]]
      BY <1>1 DEF DInv, TypeOK, Cleanup
    <2>2. ASSUME NEW r \in Runs
          PROVE  (IF r = run THEN TRUE ELSE cancelled[r]) = (r <= run)
      <3>1. cancelled[r] = (r < run \/ (r = run /\ target = None))
        BY DEF DInv, TypeOK
      <3>2. CASE r = run
        <4>1. (r <= run) = TRUE
          BY <1>1, <3>2
        <4> QED BY <3>2, <4>1
      <3>3. CASE r # run
        <4>1. (r < run \/ (r = run /\ target = None)) = (r <= run)
          BY <1>1, <3>3
        <4> QED BY <3>1, <3>3, <4>1
      <3> QED BY <3>2, <3>3
    <2> QED BY <2>1, <2>2
  <1>3. wsRef' = None /\ objUrl' = FALSE /\ liveUrls' = 0
    BY DEF DInv, NoLeakedUrl, Cleanup
  <1>4. CloseSocket(phase) \in [Runs -> Phases]
    BY DEF DInv, TypeOK, CloseSocket, Phases
  <1>5. \A r \in Runs : CloseSocket(phase)[r] \notin {"connecting", "open"}
    BY DEF DInv, TypeOK, OneSocket, CloseSocket
  <1>6. \A r \in Runs : r > run => CloseSocket(phase)[r] = "none"
    BY DEF DInv, RunsInOrder, CloseSocket
  <1> QED BY <1>2, <1>3, <1>4, <1>5, <1>6

\* Another device: the old run is closed, the new one begins to fetch.
LEMMA RetargetKeeps ==
    ASSUME DInv, NEW d \in Devices, Retarget(d)
    PROVE  DInv'
  <1>1. target # None /\ Cleanup
    BY DEF Retarget
  <1>2. Runs \subseteq Nat /\ run \in Runs /\ run' = run + 1 /\ run' \in Runs /\ target' = d /\ d # None
    BY BoundsAreNat, NoneIsNoDevice DEF Runs, DInv, TypeOK, Retarget
  <1>3. phase' = [CloseSocket(phase) EXCEPT ![run'] = "fetching"]
    BY <1>2 DEF Retarget
  <1>4. TypeOK'
    <2>1. cancelled' = [r \in Runs |-> r < run' \/ (r = run' /\ target' = None)]
      BY <1>1, <1>2, CleanupLeaves
    <2>2. phase' \in [Runs -> Phases]
      BY <1>1, <1>3, CleanupLeaves DEF Phases
    <2>3. device' \in [Runs -> Devices \cup {None}] /\ target' \in Devices \cup {None}
      BY <1>2 DEF DInv, TypeOK, Retarget
    <2>4. wsRef' = None /\ objUrl' \in BOOLEAN /\ liveUrls' \in Nat
      BY <1>1, CleanupLeaves
    <2> QED BY <1>2, <2>1, <2>2, <2>3, <2>4 DEF DInv, TypeOK, Retarget, Phases, serverVars
  <1>5. OneSocket'
    BY <1>1, <1>2, <1>3, CleanupLeaves DEF OneSocket
  <1>6. NoLeakedUrl'
    BY <1>1, CleanupLeaves DEF NoLeakedUrl
  <1>7. RunsInOrder'
    BY <1>1, <1>2, <1>3, CleanupLeaves DEF RunsInOrder
  <1> QED BY <1>4, <1>5, <1>6, <1>7 DEF DInv

\* Leaving the view: the same cleanup, and no further run.
LEMMA UnmountKeeps ==
    ASSUME DInv, Unmount
    PROVE  DInv'
  <1>1. target # None /\ Cleanup /\ target' = None /\ phase' = CloseSocket(phase) /\ run' = run
    BY DEF Unmount
  <1>2. Runs \subseteq Nat /\ run \in Runs
    BY BoundsAreNat DEF Runs, DInv, TypeOK
  <1>3. TypeOK'
    <2>1. cancelled' = [r \in Runs |-> r < run' \/ (r = run' /\ target' = None)]
      BY <1>1, <1>2, CleanupLeaves
    <2>2. wsRef' = None /\ objUrl' \in BOOLEAN /\ liveUrls' \in Nat /\ phase' \in [Runs -> Phases]
      BY <1>1, CleanupLeaves
    <2> QED BY <1>1, <1>2, <2>1, <2>2 DEF DInv, TypeOK, Unmount, Phases, serverVars
  <1>4. OneSocket' /\ NoLeakedUrl' /\ RunsInOrder'
    BY <1>1, CleanupLeaves DEF OneSocket, NoLeakedUrl, RunsInOrder
  <1> QED BY <1>3, <1>4 DEF DInv

\* The credentials: of the runs that fetch only the current one goes on, and then no
\* other run has a socket.
LEMMA FetchedKeeps ==
    ASSUME DInv, NEW r \in Runs, Fetched(r)
    PROVE  DInv'
  <1>1. Runs \subseteq Nat /\ run \in Runs /\ phase \in [Runs -> Phases] /\ phase[r] = "fetching"
    BY BoundsAreNat DEF Runs, DInv, TypeOK, Fetched, Phases
  <1>2. ~cancelled[r] => r = run /\ target # None
    <2>1. TypeOK /\ RunsInOrder BY DEF DInv
    <2>2. ~(r > run) BY <1>1, <2>1 DEF RunsInOrder
    <2>3. ~cancelled[r] => ~(r < run) /\ ~(r = run /\ target = None)
      BY <2>1, CancelledRuns
    <2> QED BY <1>1, <2>2, <2>3
  <1>3. \A q \in Runs : ~cancelled[r] => phase[q] \notin {"connecting", "open"}
    BY <1>1, <1>2 DEF DInv, OneSocket
  <1>4. TypeOK'
    BY <1>1 DEF DInv, TypeOK, Fetched, closureVars, serverVars
  <1>5. OneSocket'
    BY <1>1, <1>2, <1>3 DEF DInv, OneSocket, Fetched, closureVars
  <1>6. NoLeakedUrl'
    BY DEF DInv, NoLeakedUrl, Fetched, closureVars
  <1>7. RunsInOrder'
    BY <1>1, <1>2 DEF DInv, RunsInOrder, Fetched, closureVars
  <1> QED BY <1>4, <1>5, <1>6, <1>7 DEF DInv

\* The rest of a socket's life, as far as the invariant sees it: one run's phase moves
\* within the sockets in use or leaves them.
LEMMA PhaseKeeps ==
    ASSUME DInv, NEW r \in Runs, NEW p \in Phases \ {"connecting", "open"},
           phase[r] # "none",
           UNCHANGED <<closureVars, wsRef>>,
           phase' = phase \/ phase' = [phase EXCEPT ![r] = p]
                          \/ (phase[r] = "connecting" /\ phase' = [phase EXCEPT ![r] = "open"])
    PROVE  phase' \in [Runs -> Phases] /\ OneSocket' /\ RunsInOrder'
  <1>1. Runs \subseteq Nat /\ run \in Runs /\ phase \in [Runs -> Phases]
    BY BoundsAreNat DEF Runs, DInv, TypeOK, Phases
  <1>2. phase' \in [Runs -> Phases]
    BY <1>1 DEF Phases
  <1>3. OneSocket'
    BY <1>1 DEF DInv, OneSocket, closureVars
  <1>4. RunsInOrder'
    BY <1>1 DEF DInv, RunsInOrder, closureVars
  <1> QED BY <1>2, <1>3, <1>4

\* The socket opens and asks for the device.
LEMMA OpenedKeeps ==
    ASSUME DInv, NEW r \in Runs, Opened(r)
    PROVE  DInv'
  <1>1. phase' \in [Runs -> Phases] /\ OneSocket' /\ RunsInOrder'
    <2> "closed" \in Phases \ {"connecting", "open"} BY DEF Phases
    <2> QED BY PhaseKeeps DEF Opened, refVars
  <1> QED BY <1>1 DEF DInv, TypeOK, NoLeakedUrl, Opened, closureVars, refVars, Phases

\* What every message leaves: messages only touch the status, the frames under way
\* and the phase of their own socket.
LEMMA ReceiveKeeps ==
    ASSUME DInv, NEW r \in Runs, Receive(r)
    PROVE  DInv'
  <1> DEFINE m == Head(inbox[r])
  <1>1. m \in Message /\ inbox' \in [Runs -> Seq(Message)] /\ phase[r] = "open"
    BY DEF Receive, DInv, TypeOK
  <1>2. Heard(r, m) /\ UNCHANGED <<closureVars, refVars, picture, serverVars>>
    BY DEF Receive
  <1> HIDE DEF m
  <1>3. phase' = phase \/ phase' = [phase EXCEPT ![r] = "closed"]
    BY <1>1, <1>2 DEF Heard, Message
  <1>4. phase' \in [Runs -> Phases] /\ OneSocket' /\ RunsInOrder'
    <2> "closed" \in Phases \ {"connecting", "open"} BY DEF Phases
    <2> QED BY <1>1, <1>2, <1>3, PhaseKeeps DEF refVars
  <1>5. status' \in {"connecting", "live", "idle", "error"} /\ late' \in BOOLEAN
    <2>1. status' = status \/ status' \in {"error", "idle"}
      BY <1>1, <1>2 DEF Heard, SetStatus, Message
    <2>2. late' = late \/ late' = (late \/ decoding[r] > 0)
      BY <1>1, <1>2 DEF Heard, Message
    <2>3. (late \/ decoding[r] > 0) \in BOOLEAN
      OBVIOUS
    <2> QED BY <2>1, <2>2, <2>3 DEF DInv, TypeOK
  <1>6. decoding' \in [Runs -> Nat]
    <2>1. decoding' = decoding \/ decoding' = [decoding EXCEPT ![r] = @ + 1]
      BY <1>1, <1>2 DEF Heard, Message
    <2>2. decoding \in [Runs -> Nat]
      BY DEF DInv, TypeOK
    <2> QED BY <2>1, <2>2
  <1>7. TypeOK'
    BY <1>1, <1>2, <1>4, <1>5, <1>6 DEF DInv, TypeOK, closureVars, refVars, serverVars, Phases
  <1>8. NoLeakedUrl'
    BY <1>2 DEF DInv, NoLeakedUrl, closureVars, refVars
  <1> QED BY <1>4, <1>7, <1>8 DEF DInv

\* A frame's bytes: the URL of the frame before goes, unless nobody looks any more.
LEMMA DecodedKeeps ==
    ASSUME DInv, NEW r \in Runs, Decoded(r)
    PROVE  DInv'
  <1>1. TypeOK'
    <2>1. decoding' \in [Runs -> Nat]
      <3>1. decoding \in [Runs -> Nat] /\ decoding[r] > 0
        BY DEF DInv, TypeOK, Decoded
      <3>2. decoding[r] - 1 \in Nat
        BY <3>1
      <3>3. decoding' = [decoding EXCEPT ![r] = decoding[r] - 1]
        BY DEF Decoded
      <3> QED BY <3>1, <3>2, <3>3
    <2>2. status' \in {"connecting", "live", "idle", "error"}
      BY DEF DInv, TypeOK, Decoded, SetStatus
    <2>3. objUrl' \in BOOLEAN /\ liveUrls' \in Nat /\ picture' \in Devices \cup {None}
      <3>1. device[r] \in Devices \cup {None} /\ objUrl \in BOOLEAN /\ liveUrls \in Nat
            /\ picture \in Devices \cup {None}
        BY DEF DInv, TypeOK
      <3>2. CASE target = None
        BY <3>1, <3>2 DEF Decoded
      <3>3. CASE target # None
        <4>1. objUrl' = TRUE /\ picture' = device[r] /\ liveUrls' \in {liveUrls, liveUrls + 1}
          BY <3>3 DEF Decoded
        <4> QED BY <3>1, <4>1
      <3> QED BY <3>2, <3>3
    <2> QED BY <2>1, <2>2, <2>3 DEF DInv, TypeOK, Decoded, closureVars, serverVars
  <1>2. OneSocket' /\ RunsInOrder'
    BY DEF DInv, OneSocket, RunsInOrder, Decoded, closureVars
  <1>3. NoLeakedUrl'
    BY DEF DInv, TypeOK, NoLeakedUrl, Decoded, closureVars
  <1> QED BY <1>1, <1>2, <1>3 DEF DInv

\* The three ways a socket ends without a close message.
LEMMA EndKeeps ==
    ASSUME DInv, NEW r \in Runs, LinkLost(r) \/ Aborted(r) \/ Closed(r)
    PROVE  DInv'
  <1>1. /\ phase[r] # "none" /\ phase' = [phase EXCEPT ![r] = "closed"]
        /\ UNCHANGED <<closureVars, refVars, decoding, picture, serverVars>>
    BY DEF LinkLost, Aborted, Closed
  <1>2. phase' \in [Runs -> Phases] /\ OneSocket' /\ RunsInOrder'
    <2> "closed" \in Phases \ {"connecting", "open"} BY DEF Phases
    <2> QED BY <1>1, PhaseKeeps DEF refVars
  <1>3. status' \in {"connecting", "live", "idle", "error"} /\ late' \in BOOLEAN
    <2>1. status' = status \/ status' \in {"error", "idle"}
      BY DEF LinkLost, Aborted, Closed, SetStatus
    <2>2. late' = late \/ late' = (late \/ decoding[r] > 0)
      BY DEF LinkLost, Aborted, Closed
    <2>3. (late \/ decoding[r] > 0) \in BOOLEAN
      OBVIOUS
    <2> QED BY <2>1, <2>2, <2>3 DEF DInv, TypeOK
  <1>4. inbox' \in [Runs -> Seq(Message)]
    <2>1. inbox' = inbox \/ inbox' = [inbox EXCEPT ![r] = <<>>]
      BY DEF LinkLost, Aborted, Closed
    <2>2. inbox \in [Runs -> Seq(Message)] /\ <<>> \in Seq(Message)
      BY DEF DInv, TypeOK
    <2> QED BY <2>1, <2>2
  <1>5. TypeOK'
    BY <1>1, <1>2, <1>3, <1>4 DEF DInv, TypeOK, closureVars, refVars, serverVars, Phases
  <1>6. NoLeakedUrl'
    BY <1>1 DEF DInv, NoLeakedUrl, closureVars, refVars
  <1> QED BY <1>2, <1>5, <1>6 DEF DInv

\* The server changes its own tables and what is on its way.
LEMMA ServerKeeps ==
    ASSUME DInv,
           UNCHANGED <<closureVars, phase, refVars, decoding, picture, status, late>>,
           registered' \subseteq Devices,
           watching' \in [Runs -> {"no", "asked", "yes"}],
           inbox' \in [Runs -> Seq(Message)]
    PROVE  DInv'
  BY DEF DInv, TypeOK, OneSocket, NoLeakedUrl, RunsInOrder, closureVars, refVars

\* A message put on its way is one of the four.
LEMMA ToViewersTyped ==
    ASSUME TypeOK, NEW rs, NEW m \in Message, ToViewers(rs, m)
    PROVE  inbox' \in [Runs -> Seq(Message)]
  BY DEF ToViewers, TypeOK

\* Each step of the server.
LEMMA ServerSteps ==
    ASSUME DInv,
           \/ \E r \in Runs : ViewerWatch(r) \/ ServerForgets(r) \/ ServerCloses(r)
           \/ \E d \in Devices : Frame(d) \/ DeviceGone(d) \/ DeviceBack(d)
    PROVE  DInv'
  <1>0. TypeOK /\ {"frame", "error", "gone", "close"} \subseteq Message
    BY DEF DInv, Message
  <1>1. UNCHANGED <<closureVars, phase, refVars, decoding, picture, status, late>>
    BY DEF ViewerWatch, ServerForgets, ServerCloses, Frame, DeviceGone, DeviceBack
  <1>2. registered' \subseteq Devices
    BY <1>0 DEF TypeOK, ViewerWatch, ServerForgets, ServerCloses, Frame, DeviceGone, DeviceBack, serverVars
  <1>3. watching' \in [Runs -> {"no", "asked", "yes"}]
    BY <1>0 DEF TypeOK, ViewerWatch, ServerForgets, ServerCloses, Frame, DeviceGone, DeviceBack, serverVars
  <1>4. inbox' \in [Runs -> Seq(Message)]
    <2>1. inbox' = inbox \/ \E rs : \E m \in Message : ToViewers(rs, m)
      BY <1>0 DEF ViewerWatch, ServerForgets, ServerCloses, Frame, DeviceGone, DeviceBack
    <2> QED BY <1>0, <2>1, ToViewersTyped DEF TypeOK
  <1> QED BY <1>1, <1>2, <1>3, <1>4, ServerKeeps

\* Every step keeps the invariant.
LEMMA DNext == DInv /\ [Next]_vars => DInv'
  <1> SUFFICES ASSUME DInv, [Next]_vars PROVE DInv' OBVIOUS
  <1>1. ASSUME NEW d \in Devices, Retarget(d) \/ Frame(d) \/ DeviceGone(d) \/ DeviceBack(d)
        PROVE  DInv'
    BY <1>1, RetargetKeeps, ServerSteps
  <1>2. ASSUME NEW r \in Runs, Browser(r) \/ LinkLost(r)
        PROVE  DInv'
    BY <1>2, FetchedKeeps, OpenedKeeps, ReceiveKeeps, DecodedKeeps, EndKeeps DEF Browser
  <1>3. ASSUME NEW r \in Runs, Server(r) \/ ServerCloses(r)
        PROVE  DInv'
    BY <1>3, ServerSteps DEF Server
  <1>4. CASE UNCHANGED vars
    BY <1>4 DEF vars, closureVars, refVars, serverVars, DInv, TypeOK, OneSocket, NoLeakedUrl, RunsInOrder
  <1> QED BY <1>1, <1>2, <1>3, <1>4, UnmountKeeps DEF Next

\* The invariant holds of every reachable state.
THEOREM DeviceViewInvariant == Spec => []DInv
  BY DInit, DNext, PTL DEF Spec

\* The types of the view's state; exactly the runs that were left are cancelled.
THEOREM DeviceViewTypeCorrect == Spec => []TypeOK
  <1>1. DInv => TypeOK BY DEF DInv
  <1> QED BY <1>1, DeviceViewInvariant, PTL

\* However often and however quickly the device changes, one socket at most is in use.
THEOREM OneSocketHolds == Spec => []OneSocket
  <1>1. DInv => OneSocket BY DEF DInv
  <1> QED BY <1>1, DeviceViewInvariant, PTL

\* No object URL is forgotten, in whatever order frames are decoded.
THEOREM NoLeakedUrlHolds == Spec => []NoLeakedUrl
  <1>1. DInv => NoLeakedUrl BY DEF DInv
  <1> QED BY <1>1, DeviceViewInvariant, PTL

----------------------------------------------------------------------------
(* What the status promises *)

\* The messages after which no frames come, a queue that holds one of them, and one in
\* which every frame is followed by one.
Ends == {"gone", "close"}

Ended(s) == \E i \in DOMAIN s : s[i] \in Ends

Covered(s) == \A i \in DOMAIN s : s[i] = "frame" => \E j \in DOMAIN s : j > i /\ s[j] \in Ends

Streams(r) == watching[r] = "yes" \/ Ended(inbox[r])

\* Once the server has ended a watch, no frame is the last word on its way.
FramesCovered == \A r \in Runs : phase[r] = "open" /\ watching[r] # "yes" => Covered(inbox[r])

\* Nothing is on its way to a socket that has not opened; only a run that was left
\* closes its socket by itself; the current run is for the device of the component.
QuietBeforeOpen == \A r \in Runs : phase[r] \in {"none", "fetching", "connecting"} => inbox[r] = <<>>

LeftRunsClose == \A r \in Runs : phase[r] \in {"closing", "aborting"} => cancelled[r]

OwnDevice == target # None => device[run] = target

\* Unless a frame was caught in decoding, only the current run decodes; a live status,
\* and a frame that will bring it about, stand for a stream or for news on its way.
LiveView ==
    (target # None /\ ~late) =>
        /\ \A r \in Runs : decoding[r] > 0 => r = run
        /\ (status = "live" \/ decoding[run] > 0) => phase[run] = "open" /\ Streams(run)
        /\ status = "live" => picture = target

Honest == FramesCovered /\ QuietBeforeOpen /\ LeftRunsClose /\ OwnDevice /\ LiveView

\* A queue gets longer by one message.
LEMMA Appended ==
    ASSUME NEW s \in Seq(Message), NEW m \in Message
    PROVE  /\ m \in Ends => Covered(Append(s, m)) /\ Ended(Append(s, m))
           /\ m = "error" /\ Covered(s) => Covered(Append(s, m))
           /\ Ended(s) => Ended(Append(s, m))
  <1> DEFINE t == Append(s, m)
             n == Len(s)
  <1>1. /\ n \in Nat /\ DOMAIN s = 1..n /\ DOMAIN t = 1..(n + 1) /\ t[n + 1] = m
        /\ \A i \in 1..n : t[i] = s[i]
    OBVIOUS
  <1> HIDE DEF t, n
  <1>2. ASSUME m \in Ends PROVE Covered(t) /\ Ended(t)
    <2>1. \A i \in DOMAIN t : t[i] = "frame" => i # n + 1
      BY <1>1, <1>2 DEF Ends
    <2> QED BY <1>1, <1>2, <2>1 DEF Covered, Ended
  <1>3. ASSUME m = "error", Covered(s) PROVE Covered(t)
    <2>1. ASSUME NEW i \in DOMAIN t, t[i] = "frame" PROVE \E j \in DOMAIN t : j > i /\ t[j] \in Ends
      <3>1. i \in DOMAIN s /\ s[i] = "frame"
        BY <1>1, <1>3, <2>1
      <3>2. PICK j \in DOMAIN s : j > i /\ s[j] \in Ends
        BY <1>3, <3>1 DEF Covered
      <3> QED BY <1>1, <3>2
    <2> QED BY <2>1 DEF Covered
  <1>4. ASSUME Ended(s) PROVE Ended(t)
    BY <1>1, <1>4 DEF Ended
  <1> QED BY <1>2, <1>3, <1>4 DEF t

\* Its first message is taken.
LEMMA Taken ==
    ASSUME NEW s \in Seq(Message), s # <<>>
    PROVE  /\ Covered(s) => Covered(Tail(s))
           /\ Covered(s) /\ Head(s) = "frame" => Ended(Tail(s))
           /\ Ended(s) /\ Head(s) \notin Ends => Ended(Tail(s))
  <1> DEFINE t == Tail(s)
             n == Len(s)
  <1>1. /\ n \in Nat \ {0} /\ DOMAIN s = 1..n /\ DOMAIN t = 1..(n - 1) /\ s[1] = Head(s)
        /\ \A i \in 1..(n - 1) : t[i] = s[i + 1]
    OBVIOUS
  <1> HIDE DEF t, n
  <1>2. ASSUME NEW j \in DOMAIN s, j > 1 PROVE j - 1 \in DOMAIN t /\ t[j - 1] = s[j]
    BY <1>1, <1>2
  <1>3. ASSUME Covered(s) PROVE Covered(t)
    <2>1. ASSUME NEW i \in DOMAIN t, t[i] = "frame" PROVE \E j \in DOMAIN t : j > i /\ t[j] \in Ends
      <3>1. i + 1 \in DOMAIN s /\ s[i + 1] = "frame" /\ i \in Nat \ {0}
        BY <1>1, <2>1
      <3>2. PICK j \in DOMAIN s : j > i + 1 /\ s[j] \in Ends
        BY <1>3, <3>1 DEF Covered
      <3>3. j - 1 \in DOMAIN t /\ t[j - 1] \in Ends /\ j - 1 > i
        BY <1>1, <1>2, <3>1, <3>2
      <3> QED BY <3>3
    <2> QED BY <2>1 DEF Covered
  <1>4. ASSUME Covered(s), Head(s) = "frame" PROVE Ended(t)
    <2>1. 1 \in DOMAIN s /\ s[1] = "frame"
      BY <1>1, <1>4
    <2>2. PICK j \in DOMAIN s : j > 1 /\ s[j] \in Ends
      BY <1>4, <2>1 DEF Covered
    <2> QED BY <1>2, <2>2 DEF Ended
  <1>5. ASSUME Ended(s), Head(s) \notin Ends PROVE Ended(t)
    <2>1. PICK j \in DOMAIN s : s[j] \in Ends
      BY <1>5 DEF Ended
    <2>2. j > 1
      BY <1>1, <1>5, <2>1
    <2> QED BY <1>2, <2>1, <2>2 DEF Ended
  <1> QED BY <1>3, <1>4, <1>5 DEF t

\* An empty queue.
LEMMA EmptyCovered == Covered(<<>>)
  BY DEF Covered

\* The initial states keep the promise.
LEMMA HInit == Init => Honest
  <1> SUFFICES ASSUME Init PROVE Honest OBVIOUS
  <1>1. 1 \in Runs /\ target # None /\ device[1] = target /\ run = 1
    BY BoundsAreNat, NoneIsNoDevice DEF Init, Runs
  <1>2. \A r \in Runs : inbox[r] = <<>> /\ decoding[r] = 0 /\ phase[r] \in {"none", "fetching"}
    BY DEF Init
  <1>3. status = "connecting"
    BY DEF Init
  <1> QED BY <1>1, <1>2, <1>3 DEF Honest, FramesCovered, QuietBeforeOpen, LeftRunsClose, OwnDevice, LiveView

\* The cleanup closes the socket of the run that is left, and no other.
LEMMA CleanupCloses ==
    ASSUME DInv, Honest, target # None, Cleanup
    PROVE  \A r \in Runs :
            /\ CloseSocket(phase)[r] \in {"closing", "aborting"} => r <= run
            /\ CloseSocket(phase)[r] \in {"none", "fetching", "connecting"} => inbox[r] = <<>>
            /\ CloseSocket(phase)[r] # "open"
  <1>1. Runs \subseteq Nat /\ run \in Runs
    BY BoundsAreNat DEF Runs, DInv, TypeOK
  <1>2. \A r \in Runs : cancelled[r] => r <= run
    BY <1>1, CancelledRuns DEF DInv
  <1>4. ASSUME NEW r \in Runs, CloseSocket(phase)[r] \in {"closing", "aborting"} PROVE r <= run
    <2>1. phase[r] \in {"closing", "aborting"} \/ phase[r] \in {"connecting", "open"}
      BY <1>4 DEF CloseSocket
    <2>2. CASE phase[r] \in {"closing", "aborting"}
      BY <1>2, <2>2 DEF Honest, LeftRunsClose
    <2>3. CASE phase[r] \in {"connecting", "open"}
      BY <1>1, <2>3 DEF DInv, OneSocket
    <2> QED BY <2>1, <2>2, <2>3
  <1>5. \A r \in Runs : CloseSocket(phase)[r] \in {"none", "fetching", "connecting"} => inbox[r] = <<>>
    BY DEF CloseSocket, Honest, QuietBeforeOpen
  <1> QED BY <1>4, <1>5, CleanupLeaves

\* A new run: whoever saw a frame in decoding then is not asked about it any more.
LEMMA RetargetHonest ==
    ASSUME DInv, Honest, NEW d \in Devices, Retarget(d)
    PROVE  Honest'
  <1>1. target # None /\ Cleanup /\ target' = d /\ run' = run + 1 /\ run' \in Runs /\ device' = [device EXCEPT ![run + 1] = d]
        /\ phase' = [CloseSocket(phase) EXCEPT ![run + 1] = "fetching"]
        /\ status' = "connecting" /\ late' = (\E r \in Runs : decoding[r] > 0)
        /\ UNCHANGED <<decoding, watching, inbox>>
    BY BoundsAreNat DEF Retarget, serverVars, Runs, DInv, TypeOK
  <1>2. device' [run'] = d
    BY <1>1 DEF DInv, TypeOK
  <1>3. \A r \in Runs : phase'[r] = IF r = run' THEN "fetching" ELSE CloseSocket(phase)[r]
    BY <1>1 DEF CloseSocket
  <1>4. Runs \subseteq Nat /\ run \in Runs
    BY BoundsAreNat DEF Runs, DInv, TypeOK
  <1>5. inbox[run'] = <<>>
    <2>1. phase[run'] = "none"
      BY <1>1, <1>4 DEF DInv, RunsInOrder
    <2> QED BY <1>1, <2>1 DEF Honest, QuietBeforeOpen
  <1>6. \A r \in Runs : cancelled'[r] <=> r <= run
    BY <1>1, CleanupLeaves
  <1>7. FramesCovered' /\ QuietBeforeOpen' /\ LeftRunsClose'
    BY <1>1, <1>3, <1>5, <1>6, CleanupCloses DEF FramesCovered, QuietBeforeOpen, LeftRunsClose
  <1>8. OwnDevice'
    BY <1>1, <1>2 DEF OwnDevice
  <1>9. LiveView'
    BY <1>1 DEF LiveView
  <1> QED BY <1>7, <1>8, <1>9 DEF Honest

\* Nobody looks at a component that is gone.
LEMMA UnmountHonest ==
    ASSUME DInv, Honest, Unmount
    PROVE  Honest'
  <1>1. target # None /\ Cleanup /\ target' = None /\ phase' = CloseSocket(phase) /\ UNCHANGED <<watching, inbox>>
    BY DEF Unmount, serverVars
  <1>6. \A r \in Runs : cancelled'[r] <=> r <= run
    BY <1>1, CleanupLeaves
  <1>7. FramesCovered' /\ QuietBeforeOpen' /\ LeftRunsClose'
    BY <1>1, <1>6, CleanupCloses DEF FramesCovered, QuietBeforeOpen, LeftRunsClose
  <1> QED BY <1>1, <1>7 DEF Honest, OwnDevice, LiveView

\* The credentials, and the socket that opens: neither belongs to a view that is live,
\* or about to be.
LEMMA OpeningHonest ==
    ASSUME DInv, Honest, NEW r \in Runs, Fetched(r) \/ Opened(r)
    PROVE  Honest'
  <1>1. /\ UNCHANGED <<target, run, device, cancelled, decoding, picture, status, inbox, late>>
        /\ phase[r] \in {"fetching", "connecting"} /\ phase'[r] \in {"connecting", "open", "closed"}
        /\ \A q \in Runs \ {r} : phase'[q] = phase[q] /\ watching'[q] = watching[q]
    BY DEF Fetched, Opened, closureVars, serverVars, DInv, TypeOK
  <1>2. inbox[r] = <<>>
    BY <1>1 DEF Honest, QuietBeforeOpen
  <1>3. FramesCovered'
    BY <1>1, <1>2, EmptyCovered DEF Honest, FramesCovered
  <1>4. QuietBeforeOpen' /\ LeftRunsClose' /\ OwnDevice'
    BY <1>1, <1>2 DEF Honest, QuietBeforeOpen, LeftRunsClose, OwnDevice
  <1>5. LiveView'
    <2>1. phase[run] = "open" => run # r
      BY <1>1
    <2>2. run \in Runs
      BY DEF DInv, TypeOK
    <2> QED BY <1>1, <2>1, <2>2 DEF Honest, LiveView, Streams
  <1> QED BY <1>3, <1>4, <1>5 DEF Honest

\* The current run of a component that is there is not cancelled, and the socket of no
\* other run is in use.
LEMMA InUse ==
    ASSUME DInv, NEW r \in Runs, phase[r] \in {"connecting", "open"}
    PROVE  r = run /\ ~cancelled[r] /\ target # None
  <1>1. r = run /\ ~cancelled[r]
    BY DEF DInv, OneSocket
  <1>2. target # None
    BY <1>1, CancelledRuns DEF DInv
  <1> QED BY <1>1, <1>2

\* A message: a frame leaves either the watch or the news of its end behind; the news
\* of its end takes the status back.
LEMMA ReceiveHonest ==
    ASSUME DInv, Honest, NEW r \in Runs, Receive(r)
    PROVE  Honest'
  <1> DEFINE s == inbox[r]
             m == Head(s)
  <1>1. s \in Seq(Message) /\ s # <<>> /\ m \in Message /\ phase[r] = "open"
    BY DEF Receive, DInv, TypeOK
  <1>2. /\ Heard(r, m) /\ inbox' = [inbox EXCEPT ![r] = Tail(s)]
        /\ UNCHANGED <<target, run, device, cancelled, picture, watching>>
    BY DEF Receive, closureVars, serverVars
  <1>3. inbox'[r] = Tail(s) /\ \A q \in Runs \ {r} : inbox'[q] = inbox[q]
    BY <1>2 DEF DInv, TypeOK
  <1>4. r = run /\ ~cancelled[r] /\ target # None /\ target' # None
    BY <1>1, <1>2, InUse
  <1>5. /\ Covered(s) => Covered(Tail(s))
        /\ Covered(s) /\ m = "frame" => Ended(Tail(s))
        /\ Ended(s) /\ m \notin Ends => Ended(Tail(s))
    BY <1>1, Taken
  <1>6. watching[r] # "yes" => Covered(s)
    BY <1>1 DEF Honest, FramesCovered
  <1> HIDE DEF s, m
  <1>7. /\ phase'[r] = IF m = "close" THEN "closed" ELSE "open"
        /\ \A q \in Runs \ {r} : phase'[q] = phase[q]
    BY <1>1, <1>2 DEF Heard, Message, DInv, TypeOK
  <1>8. FramesCovered'
    BY <1>2, <1>3, <1>5, <1>6, <1>7 DEF Honest, FramesCovered
  <1>9. QuietBeforeOpen' /\ LeftRunsClose' /\ OwnDevice'
    BY <1>2, <1>3, <1>7 DEF Honest, QuietBeforeOpen, LeftRunsClose, OwnDevice
  <1>10. LiveView'
    <2>1. CASE m = "frame"
      <3>1. /\ UNCHANGED <<phase, status, late>> /\ \A q \in Runs \ {r} : decoding'[q] = decoding[q]
        BY <1>2, <2>1 DEF Heard, DInv, TypeOK
      <3>2. watching'[r] = "yes" \/ Ended(inbox'[r])
        BY <1>2, <1>3, <1>5, <1>6, <2>1
      <3> QED BY <1>1, <1>2, <1>4, <3>1, <3>2 DEF Honest, LiveView, Streams
    <2>2. CASE m = "error"
      <3>1. /\ UNCHANGED <<phase, late, decoding>> /\ status' = "error"
        BY <1>2, <1>4, <2>2 DEF Heard, SetStatus
      <3>2. Ended(s) => Ended(inbox'[r])
        BY <1>3, <1>5, <2>2 DEF Ends
      <3> QED BY <1>2, <1>4, <3>1, <3>2 DEF Honest, LiveView, Streams, s
    <2>3. CASE m \in {"gone", "close"}
      <3>1. UNCHANGED decoding /\ status' = "idle" /\ late' = (late \/ decoding[r] > 0)
        BY <1>2, <1>4, <2>3 DEF Heard, SetStatus
      <3>2. ASSUME ~late' PROVE ~late /\ ~(decoding[r] > 0)
        BY <3>1, <3>2
      <3> QED BY <1>2, <1>4, <3>1, <3>2 DEF Honest, LiveView
    <2> QED BY <1>1, <2>1, <2>2, <2>3 DEF Message
  <1> QED BY <1>8, <1>9, <1>10 DEF Honest

\* A frame is shown: of the current run, unless it was caught.
LEMMA DecodedHonest ==
    ASSUME DInv, Honest, NEW r \in Runs, Decoded(r)
    PROVE  Honest'
  <1>1. /\ decoding[r] > 0 /\ decoding' = [decoding EXCEPT ![r] = decoding[r] - 1]
        /\ UNCHANGED <<target, run, device, cancelled, phase, watching, inbox, late>>
        /\ target # None => picture' = device[r]
    BY DEF Decoded, closureVars, serverVars
  <1>2. FramesCovered' /\ QuietBeforeOpen' /\ LeftRunsClose' /\ OwnDevice'
    BY <1>1 DEF Honest, FramesCovered, QuietBeforeOpen, LeftRunsClose, OwnDevice
  <1>3. LiveView'
    <2>1. SUFFICES ASSUME target # None, ~late PROVE LiveView'
      BY <1>1 DEF LiveView
    <2>2. r = run /\ phase[run] = "open" /\ Streams(run) /\ device[r] = target
      BY <1>1, <2>1 DEF Honest, LiveView, OwnDevice
    <2>3. \A q \in Runs : decoding'[q] > 0 => decoding[q] > 0
      <3>1. decoding \in [Runs -> Nat]
        BY DEF DInv, TypeOK
      <3> QED BY <1>1, <3>1
    <2>4. \A q \in Runs : decoding'[q] > 0 => q = run
      BY <2>1, <2>3 DEF Honest, LiveView
    <2>5. Streams(run)'
      BY <1>1, <2>2 DEF Streams
    <2> QED BY <1>1, <2>1, <2>2, <2>4, <2>5 DEF LiveView
  <1> QED BY <1>2, <1>3 DEF Honest

\* A socket that ends: the current run's takes the status back, the others have none.
LEMMA EndHonest ==
    ASSUME DInv, Honest, NEW r \in Runs, LinkLost(r) \/ Aborted(r) \/ Closed(r)
    PROVE  Honest'
  <1>1. /\ UNCHANGED <<target, run, device, cancelled, decoding, picture, watching>>
        /\ phase' = [phase EXCEPT ![r] = "closed"] /\ inbox' \in {inbox, [inbox EXCEPT ![r] = <<>>]}
    BY DEF LinkLost, Aborted, Closed, closureVars, serverVars
  <1>2. /\ phase'[r] = "closed" /\ run \in Runs
        /\ \A q \in Runs \ {r} : phase'[q] = phase[q] /\ inbox'[q] = inbox[q]
    BY <1>1 DEF DInv, TypeOK
  <1>3. FramesCovered' /\ QuietBeforeOpen' /\ LeftRunsClose' /\ OwnDevice'
    BY <1>1, <1>2 DEF Honest, FramesCovered, QuietBeforeOpen, LeftRunsClose, OwnDevice
  <1>4. CASE LinkLost(r)
    <2>1. r = run /\ ~cancelled[r] /\ target # None
      BY <1>4, InUse DEF LinkLost
    <2>2. status' = "idle" /\ late' = (late \/ decoding[r] > 0)
      BY <1>4, <2>1 DEF LinkLost, SetStatus
    <2>3. ASSUME ~late' PROVE ~late /\ ~(decoding[r] > 0)
      BY <2>2, <2>3
    <2>4. LiveView'
      BY <1>1, <2>1, <2>2, <2>3 DEF Honest, LiveView
    <2> QED BY <1>3, <2>4 DEF Honest
  <1>5. CASE Aborted(r) \/ Closed(r)
    <2>1. phase[r] \in {"closing", "aborting"} /\ late' = late /\ status' \in {status, "error"}
      BY <1>5 DEF Aborted, Closed, SetStatus
    <2>2. target # None => r # run
      <3>1. cancelled[r]
        BY <2>1 DEF Honest, LeftRunsClose
      <3>2. Runs \subseteq Nat
        BY BoundsAreNat DEF Runs
      <3> QED BY <3>1, <3>2, CancelledRuns DEF DInv
    <2>3. LiveView'
      BY <1>1, <1>2, <2>1, <2>2 DEF Honest, LiveView, Streams
    <2> QED BY <1>3, <2>3 DEF Honest
  <1> QED BY <1>4, <1>5

\* What a step of the server does to one run: frames only to those it streams to, and
\* no end of a watch without news for an open socket.
ServerEffect(r) ==
    \/ inbox'[r] = inbox[r] /\ (watching'[r] = "yes" \/ watching[r] # "yes" \/ phase[r] # "open")
    \/ /\ phase[r] = "open"
       /\ \E m \in Message :
            /\ inbox'[r] = Append(inbox[r], m)
            /\ \/ m = "frame" /\ watching'[r] = "yes"
               \/ m \in Ends
               \/ m = "error" /\ watching[r] # "yes"

\* Where every run sees just that, the promise is kept.
LEMMA ServerHonest ==
    ASSUME DInv, Honest, \A r \in Runs : ServerEffect(r),
           UNCHANGED <<target, run, device, cancelled, phase, decoding, picture, status, late>>
    PROVE  Honest'
  <1>1. ASSUME NEW r \in Runs, phase[r] = "open"
        PROVE  /\ watching'[r] # "yes" => Covered(inbox'[r])
               /\ Streams(r) => Streams(r)'
    <2>1. inbox[r] \in Seq(Message)
      BY DEF DInv, TypeOK
    <2>2. watching[r] # "yes" => Covered(inbox[r])
      BY <1>1 DEF Honest, FramesCovered
    <2>3. CASE inbox'[r] = inbox[r] /\ (watching'[r] = "yes" \/ watching[r] # "yes")
      BY <2>2, <2>3 DEF Streams
    <2>4. ASSUME NEW m \in Message, inbox'[r] = Append(inbox[r], m),
                 \/ m = "frame" /\ watching'[r] = "yes"
                 \/ m \in Ends
                 \/ m = "error" /\ watching[r] # "yes"
          PROVE  /\ watching'[r] # "yes" => Covered(inbox'[r])
                 /\ Streams(r) => Streams(r)'
      BY <2>1, <2>2, <2>4, Appended DEF Streams
    <2> QED BY <1>1, <2>3, <2>4 DEF ServerEffect
  <1>2. \A r \in Runs : phase[r] # "open" => inbox'[r] = inbox[r]
    BY DEF ServerEffect
  <1>3. FramesCovered'
    BY <1>1 DEF FramesCovered
  <1>4. QuietBeforeOpen' /\ LeftRunsClose' /\ OwnDevice'
    BY <1>2 DEF Honest, QuietBeforeOpen, LeftRunsClose, OwnDevice
  <1>5. LiveView'
    <2>1. run \in Runs
      BY DEF DInv, TypeOK
    <2> QED BY <1>1, <2>1 DEF Honest, LiveView
  <1> QED BY <1>3, <1>4, <1>5 DEF Honest

\* Every step of the server has that effect.
LEMMA ServerEffects ==
    ASSUME DInv, NEW r \in Runs,
           \/ \E q \in Runs : ViewerWatch(q) \/ ServerForgets(q) \/ ServerCloses(q)
           \/ \E d \in Devices : Frame(d) \/ DeviceGone(d) \/ DeviceBack(d)
    PROVE  ServerEffect(r)
  <1>0. watching \in [Runs -> {"no", "asked", "yes"}] /\ inbox \in [Runs -> Seq(Message)]
    BY DEF DInv, TypeOK
  <1>1. ASSUME NEW q \in Runs, ViewerWatch(q) PROVE ServerEffect(r)
    <2>1. CASE device[q] \in registered
      BY <1>0, <1>1, <2>1 DEF ViewerWatch, ServerEffect
    <2>2. CASE device[q] \notin registered
      BY <1>0, <1>1, <2>2 DEF ViewerWatch, ServerEffect, ToViewers, Message
    <2> QED BY <2>1, <2>2
  <1>2. ASSUME NEW q \in Runs, ServerForgets(q) PROVE ServerEffect(r)
    BY <1>0, <1>2 DEF ServerForgets, ServerEffect
  <1>3. ASSUME NEW q \in Runs, ServerCloses(q) PROVE ServerEffect(r)
    BY <1>0, <1>3 DEF ServerCloses, ServerEffect, ToViewers, Message, Ends
  <1>4. ASSUME NEW d \in Devices, Frame(d) PROVE ServerEffect(r)
    BY <1>0, <1>4 DEF Frame, ServerEffect, ToViewers, Message, Watchers, serverVars
  <1>5. ASSUME NEW d \in Devices, DeviceGone(d) PROVE ServerEffect(r)
    BY <1>0, <1>5 DEF DeviceGone, ServerEffect, ToViewers, Message, Ends, Watchers
  <1>6. ASSUME NEW d \in Devices, DeviceBack(d) PROVE ServerEffect(r)
    BY <1>6 DEF DeviceBack, ServerEffect
  <1> QED BY <1>1, <1>2, <1>3, <1>4, <1>5, <1>6

\* Every step keeps the promise.
LEMMA HNext == DInv /\ Honest /\ [Next]_vars => Honest'
  <1> SUFFICES ASSUME DInv, Honest, [Next]_vars PROVE Honest' OBVIOUS
  <1>1. ASSUME \/ \E q \in Runs : ViewerWatch(q) \/ ServerForgets(q) \/ ServerCloses(q)
               \/ \E d \in Devices : Frame(d) \/ DeviceGone(d) \/ DeviceBack(d)
        PROVE  Honest'
    <2>1. UNCHANGED <<target, run, device, cancelled, phase, decoding, picture, status, late>>
      BY <1>1 DEF ViewerWatch, ServerForgets, ServerCloses, Frame, DeviceGone, DeviceBack, closureVars
    <2>2. \A r \in Runs : ServerEffect(r)
      BY <1>1, ServerEffects
    <2> QED BY <2>1, <2>2, ServerHonest
  <1>2. ASSUME NEW r \in Runs, Browser(r) \/ LinkLost(r) PROVE Honest'
    BY <1>2, OpeningHonest, ReceiveHonest, DecodedHonest, EndHonest DEF Browser
  <1>3. CASE UNCHANGED vars
    BY <1>3 DEF vars, closureVars, serverVars, Honest, FramesCovered, QuietBeforeOpen, LeftRunsClose,
                OwnDevice, LiveView, Streams
  <1> QED BY <1>1, <1>2, <1>3, RetargetHonest, UnmountHonest DEF Next, Server

\* A view that is live shows its own device, and the server streams that device to it
\* or has the news of its end on its way, unless a frame was caught in decoding.
THEOREM LiveIsTrueHolds == Spec => []LiveIsTrue
  <1>1. DInv /\ Honest => LiveIsTrue
    BY DEF Honest, LiveView, LiveIsTrue, Streams, Ended, Ends
  <1>2. Spec => []Honest
    BY HInit, HNext, DeviceViewInvariant, PTL DEF Spec
  <1> QED BY <1>1, <1>2, DeviceViewInvariant, PTL
=============================================================================
