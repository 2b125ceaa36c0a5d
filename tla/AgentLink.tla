----------------------------- MODULE AgentLink -----------------------------
(***************************************************************************)
(* The agent process: the signaling loop on the main thread                *)
(* (signaling_client.cpp, main.cpp) and the heartbeat and activity threads *)
(* it starts and joins.  The server and the network are the environment.   *)
(* Each blocking call is a value of pc.                                    *)
(***************************************************************************)
EXTENDS Integers

CONSTANTS
    InitialBackoff, MaxBackoff,  \* backoff_ms at first and at most
    FailureCap,                  \* bound of the failures history
    MaxInbox                     \* bound of server messages not yet read

ASSUME BackoffAssumption ==
    /\ {InitialBackoff, MaxBackoff, FailureCap} \subseteq Nat \ {0}
    /\ InitialBackoff <= MaxBackoff
    /\ MaxBackoff <= InitialBackoff * 2^FailureCap
ASSUME InboxAssumption == MaxInbox \in Nat \ {0}

VARIABLES
    pc,         \* where the main thread is
    running,    \* g_running
    backoff,    \* backoff_ms
    link,       \* "none", "up", "closed", or "lost": gone without a word
    unacked,    \* something was written to a lost link
    inbox,      \* messages from the server waiting to be read
    hb, hbRunning,  \* the heartbeat thread and its running_
    tr, trRunning,  \* the activity thread and its running_
    net,        \* what an attempt to connect meets: "open", "full" or "down"
    failures    \* history: sleeps since the last WebSocket handshake

mainVars   == <<pc, backoff, link, unacked, inbox, failures>>
workerVars == <<hb, hbRunning, tr, trRunning>>
agentVars  == <<mainVars, running, workerVars, net>>

Pcs == {"start", "loop", "connect", "register", "inner", "read", "capture", "pause",
        "close", "backoff", "stopHeartbeat", "joinHeartbeat", "stopTracker",
        "joinTracker", "done"}

TypeOK ==
    /\ pc \in Pcs
    /\ running \in BOOLEAN
    /\ backoff \in InitialBackoff..MaxBackoff
    /\ link \in {"none", "up", "closed", "lost"}
    /\ unacked \in BOOLEAN
    /\ inbox \in 0..MaxInbox
    /\ hb \in {"idle", "test", "heartbeat", "log", "sleep", "ended"}
    /\ tr \in {"idle", "test", "sample", "sleep", "ended"}
    /\ {hbRunning, trRunning} \subseteq BOOLEAN
    /\ net \in {"open", "full", "down"}
    /\ failures \in 0..FailureCap

Init ==
    /\ pc = "start" /\ running = TRUE
    /\ backoff = InitialBackoff
    /\ link = "none" /\ unacked = FALSE /\ inbox = 0
    /\ hb = "idle" /\ hbRunning = FALSE
    /\ tr = "idle" /\ trRunning = FALSE
    /\ net = "down"
    /\ failures = 0

Lesser(a, b) == IF a <= b THEN a ELSE b

----------------------------------------------------------------------------
(* connect_with_backoff *)

Goto(label) == pc' = label /\ UNCHANGED <<running, workerVars, net>>

\* Mutant of LoopTest: while (true).
LoopForever ==
    /\ pc = "loop"
    /\ Goto("connect")
    /\ UNCHANGED <<backoff, link, unacked, inbox, failures>>

LoopTest ==
    /\ pc = "loop"
    /\ Goto(IF running THEN "connect" ELSE "stopHeartbeat")
    /\ UNCHANGED <<backoff, link, unacked, inbox, failures>>

\* An exception: the stream is destroyed and the catch block sleeps.
Throw ==
    /\ Goto("backoff")
    /\ link' = "none" /\ unacked' = FALSE /\ inbox' = 0
    /\ UNCHANGED <<backoff, failures>>

\* Mutant of Handshake: the back-off is not reset on success.
HandshakeNoReset(after) ==
    /\ Goto("register")
    /\ link' = after /\ unacked' = FALSE /\ inbox' = 0
    /\ failures' = 0
    /\ UNCHANGED backoff

\* The WebSocket handshake returned: the back-off starts over.
Handshake(after) ==
    /\ Goto("register")
    /\ link' = after /\ unacked' = FALSE /\ inbox' = 0
    /\ backoff' = InitialBackoff /\ failures' = 0

Connect ==
    /\ pc = "connect"
    /\ \/ net = "open" /\ Handshake("up")
       \* At its connection limit the server accepts the upgrade and closes with 1008.
       \/ net = "full" /\ Handshake("closed")
       \/ net = "down" /\ Throw

\* ws.write succeeds into the kernel's buffer; on a dead link it may also throw.
Write(next) ==
    /\ \/ /\ Goto(next)
          /\ unacked' = (unacked \/ link = "lost")
          /\ UNCHANGED <<backoff, link, inbox, failures>>
       \/ link \in {"closed", "lost"} /\ Throw

Register == pc = "register" /\ Write("inner")

InnerTest ==
    /\ pc = "inner"
    /\ Goto(IF running THEN "read" ELSE "close")
    /\ UNCHANGED <<backoff, link, unacked, inbox, failures>>

\* ws.read_some blocks until there is a message or the stream has ended.
ReadSome ==
    /\ pc = "read"
    /\ \/ /\ inbox > 0
          /\ inbox' = inbox - 1
          /\ Goto("capture")
          /\ UNCHANGED <<backoff, link, unacked, failures>>
       \/ inbox = 0 /\ link = "closed" /\ Throw

\* Capture, encode, write one frame; with nothing captured it just goes on.
Capture ==
    /\ pc = "capture"
    /\ \/ Write("pause")
       \/ Goto("pause") /\ UNCHANGED <<backoff, link, unacked, inbox, failures>>

Pause ==
    /\ pc = "pause"
    /\ Goto("inner")
    /\ UNCHANGED <<backoff, link, unacked, inbox, failures>>

\* ws.close waits for the server's close frame.
Close ==
    /\ pc = "close"
    /\ \/ /\ link = "up"
          /\ Goto("loop")
          /\ link' = "none" /\ unacked' = FALSE /\ inbox' = 0
          /\ UNCHANGED <<backoff, failures>>
       \/ link = "closed" /\ Throw

\* Mutant of Backoff: the cap forgotten.
BackoffUncapped ==
    /\ pc = "backoff"
    /\ Goto("loop")
    /\ backoff' = backoff * 2
    /\ failures' = Lesser(failures + 1, FailureCap)
    /\ UNCHANGED <<link, unacked, inbox>>

\* Mutant of Backoff: the catch block outside the loop.
BackoffOnce ==
    /\ pc = "backoff"
    /\ Goto("stopHeartbeat")
    /\ backoff' = Lesser(backoff * 2, MaxBackoff)
    /\ failures' = Lesser(failures + 1, FailureCap)
    /\ UNCHANGED <<link, unacked, inbox>>

\* The sleep ends, then the next one is doubled.
Backoff ==
    /\ pc = "backoff"
    /\ Goto("loop")
    /\ backoff' = Lesser(backoff * 2, MaxBackoff)
    /\ failures' = Lesser(failures + 1, FailureCap)
    /\ UNCHANGED <<link, unacked, inbox>>

----------------------------------------------------------------------------
(* rdm_run around the loop *)

LinkUnchanged == UNCHANGED <<backoff, link, unacked, inbox, failures, running, net>>

\* Configuration and identity are there, the workers start; or return 1.
Start ==
    /\ pc = "start"
    /\ \/ /\ pc' = "loop"
          /\ hb' = "test" /\ hbRunning' = TRUE
          /\ tr' = "test" /\ trRunning' = TRUE
       \/ pc' = "done" /\ UNCHANGED workerVars
    /\ LinkUnchanged

\* stop(): clear the flag, then join.
StopHeartbeat ==
    /\ pc = "stopHeartbeat"
    /\ pc' = "joinHeartbeat" /\ hbRunning' = FALSE
    /\ UNCHANGED <<hb, tr, trRunning>>
    /\ LinkUnchanged

\* Mutant of JoinHeartbeat: the thread left to itself.
DetachHeartbeat ==
    /\ pc = "joinHeartbeat"
    /\ pc' = "stopTracker"
    /\ UNCHANGED workerVars
    /\ LinkUnchanged

JoinHeartbeat ==
    /\ pc = "joinHeartbeat" /\ hb = "ended"
    /\ pc' = "stopTracker"
    /\ UNCHANGED workerVars
    /\ LinkUnchanged

StopTracker ==
    /\ pc = "stopTracker"
    /\ pc' = "joinTracker" /\ trRunning' = FALSE
    /\ UNCHANGED <<hb, hbRunning, tr>>
    /\ LinkUnchanged

JoinTracker ==
    /\ pc = "joinTracker" /\ tr = "ended"
    /\ pc' = "done"
    /\ UNCHANGED workerVars
    /\ LinkUnchanged

Main ==
    \/ Start \/ LoopTest \/ Connect \/ Register \/ InnerTest \/ ReadSome \/ Capture
    \/ Pause \/ Close \/ Backoff
    \/ StopHeartbeat \/ JoinHeartbeat \/ StopTracker \/ JoinTracker

----------------------------------------------------------------------------
(* The worker threads; their requests end, curl has a 10 s timeout *)

HeartbeatThread ==
    /\ \/ hb = "test" /\ hb' = (IF hbRunning THEN "heartbeat" ELSE "ended")
       \/ hb = "heartbeat" /\ hb' = "log"
       \/ hb = "log" /\ hb' = "sleep"
       \/ hb = "sleep" /\ hb' = "test"
    /\ UNCHANGED <<mainVars, running, hbRunning, tr, trRunning, net>>

TrackerThread ==
    /\ \/ tr = "test" /\ tr' = (IF trRunning THEN "sample" ELSE "ended")
       \/ tr = "sample" /\ tr' = "sleep"
       \/ tr = "sleep" /\ tr' = "test"
    /\ UNCHANGED <<mainVars, running, hb, hbRunning, trRunning, net>>

----------------------------------------------------------------------------
(* Signals, server and network *)

Environ == UNCHANGED <<pc, backoff, failures, workerVars>>

\* signal_handler, once rdm_run has installed it.
Signal ==
    /\ pc \notin {"start", "done"}
    /\ running' = FALSE
    /\ Environ /\ UNCHANGED <<link, unacked, inbox, net>>

ServerSends ==
    /\ link = "up" /\ inbox < MaxInbox
    /\ inbox' = inbox + 1
    /\ Environ /\ UNCHANGED <<running, link, unacked, net>>

LinkBreaks ==
    /\ link = "up"
    /\ link' \in {"closed", "lost"}
    /\ Environ /\ UNCHANGED <<running, unacked, inbox, net>>

\* Retransmission of what was written gives up, or meets a reset.
LossDetected ==
    /\ link = "lost" /\ (unacked \/ pc = "close")
    /\ link' = "closed"
    /\ Environ /\ UNCHANGED <<running, unacked, inbox, net>>

NetChanges ==
    /\ net' \in {"open", "full", "down"} \ {net}
    /\ Environ /\ UNCHANGED <<running, link, unacked, inbox>>

Next ==
    \/ Main
    \/ HeartbeatThread \/ TrackerThread
    \/ Signal
    \/ ServerSends \/ LinkBreaks \/ LossDetected \/ NetChanges

\* Threads that can run do, sleeps and bounded calls end, TCP gives up in the end.
\* An attempt to connect succeeds or fails, and a server that is up answers a close;
\* nothing else is assumed of server and network, or of who asks the agent to stop.
Fairness ==
    /\ WF_agentVars(Main)
    /\ WF_agentVars(HeartbeatThread)
    /\ WF_agentVars(TrackerThread)
    /\ WF_agentVars(LossDetected)

Spec     == Init /\ [][Next]_agentVars
FairSpec == Spec /\ Fairness

----------------------------------------------------------------------------
(* Properties *)

\* The next sleep is the initial one doubled once per failure since the last
\* handshake, up to the maximum: no failure path skips or repeats the doubling.
BackoffTracksFailures == backoff = Lesser(InitialBackoff * 2^failures, MaxBackoff)

\* The workers end before rdm_run returns, and in an order the objects they use
\* allow: the heartbeat thread reads the activity tracker, so it is over before the
\* tracker's thread is, wherever each was when the loop left off.
WorkersEndFirst ==
    /\ tr = "ended" => hb = "ended"
    /\ pc = "done" => {hb, tr} \in {{"idle"}, {"ended"}}

\* A stop request is honoured from wherever the main thread is, except from a
\* read that nothing ends.
StopsUnlessReading == ~running ~> (pc = "done" \/ pc = "read")

\* Once the server stays reachable the agent is connected again and again, unless
\* it was stopped, never started, or sits in a read on a link that was lost: no
\* path through the catch block leaves the loop.
ReconnectsOnceReachable ==
    <>[](net = "open") =>
        []<>(\/ link = "up"
             \/ ~running
             \/ pc = "done" /\ hb = "idle"
             \/ pc = "read" /\ link = "lost")
=============================================================================
