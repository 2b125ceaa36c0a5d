---------------------------- MODULE Connections ----------------------------
(***************************************************************************)
(* The WebSocket endpoint of the signaling server: admission under a       *)
(* per-address limit (rateLimit.js), the ping timer that reaps silent      *)
(* peers, the close event, and process shutdown (index.js).  What the      *)
(* connections carry is in SignalingRouter; SignalingServer composes both. *)
(*                                                                         *)
(* A connection identity is used once.  Node runs one callback at a time,  *)
(* so each callback is one action.                                         *)
(***************************************************************************)
EXTENDS Integers, FiniteSets

CONSTANTS
    Conns,          \* connections that may ever be opened
    IPs,            \* client addresses, as clientIp derives them
    EmptyIp,        \* '', which clientIp makes of a header that begins with a comma
    MaxConnsPerIp,  \* MAX_CONNS_PER_IP
    None            \* stands for null / undefined / "no entry"

ASSUME ConnsAssumption == IsFiniteSet(Conns)
ASSUME LimitAssumption == MaxConnsPerIp \in Nat \ {0}
ASSUME NoneAssumption  == None \notin Conns \cup IPs \cup {EmptyIp}

\* The addresses a connection can be let in under.
Named == IPs \ {EmptyIp}

VARIABLES
    server,      \* "running", "closing" (after SIGTERM/SIGINT) or "exited"
    readyState,  \* of each ws; "NONE" before the upgrade request arrives
    from,        \* what clientIp derived from the request; None before it
    ip,          \* the address the listeners keep; None unless admitted
    ipConns,     \* address -> connections counted; 0 is "no entry"
    isAlive,     \* ws.isAlive; never set, hence falsy, on a rejected ws
    pinged,      \* a ping went out and no pong came back yet
    peerUp       \* FALSE once the remote end vanished without a close

connVars == <<server, readyState, from, ip, ipConns, isAlive, pinged, peerUp>>

ServerStates == {"running", "closing", "exited"}
ReadyStates  == {"NONE", "OPEN", "CLOSING", "CLOSED"}

TypeOK ==
    /\ server \in ServerStates
    /\ readyState \in [Conns -> ReadyStates]
    /\ from \in [Conns -> IPs \cup {None}]
    /\ ip \in [Conns -> Named \cup {None}]
    /\ ipConns \in [IPs -> Nat]
    /\ isAlive \in [Conns -> BOOLEAN]
    /\ pinged \in [Conns -> BOOLEAN]
    /\ peerUp \in [Conns -> BOOLEAN]

\* wss.clients: every ws whose 'close' event has not fired.
Live(c) == readyState[c] \in {"OPEN", "CLOSING"}

\* The connections that hold one of address i's slots.
Holders(i) == {c \in Conns : Live(c) /\ ip[c] = i}

Init ==
    /\ server = "running"
    /\ readyState = [c \in Conns |-> "NONE"]
    /\ from = [c \in Conns |-> None]
    /\ ip = [c \in Conns |-> None]
    /\ ipConns = [i \in IPs |-> 0]
    /\ isAlive = [c \in Conns |-> FALSE]
    /\ pinged = [c \in Conns |-> FALSE]
    /\ peerUp = [c \in Conns |-> FALSE]

----------------------------------------------------------------------------
(* rateLimit.js *)

\* Mutant of OverLimit: off by one the other way.
OverLimitStrict(i) == ipConns[i] + 1 >= MaxConnsPerIp

\* onConnect refuses when the count, this connection included, is above the limit.
OverLimit(i) == ipConns[i] + 1 > MaxConnsPerIp

\* onConnect, allowed.
CountUp(i) == [ipConns EXCEPT ![i] = @ + 1]

\* Mutant of CountDown: two connections left already count as the last one.
CountDownEarly(i) == [ipConns EXCEPT ![i] = IF @ <= 2 THEN 0 ELSE @ - 1]

\* Mutant of CountDown: the close listener installed twice.
CountDownTwice(i) == [ipConns EXCEPT ![i] = @ - 2]

\* onDisconnect: the last one out deletes the entry.
CountDown(i) == [ipConns EXCEPT ![i] = IF @ <= 1 THEN 0 ELSE @ - 1]

----------------------------------------------------------------------------
(* wss.on('connection') *)

\* Counted, named, and so let in: both listeners, then handleConnection.
Accept(c, i) ==
    /\ server = "running"
    /\ readyState[c] = "NONE"
    /\ ~OverLimit(i) /\ i # EmptyIp
    /\ ipConns' = CountUp(i)
    /\ from' = [from EXCEPT ![c] = i]
    /\ ip' = [ip EXCEPT ![c] = i]
    /\ readyState' = [readyState EXCEPT ![c] = "OPEN"]
    /\ isAlive' = [isAlive EXCEPT ![c] = TRUE]
    /\ peerUp' = [peerUp EXCEPT ![c] = TRUE]
    /\ UNCHANGED <<server, pinged>>

\* ws.close(1008) and return: no pong or close listener, no handleConnection.
\* onConnect returned null and counted nothing, or '' once it had counted it:
\* "if (!ip)" takes both for a refusal.
Reject(c, i) ==
    /\ server = "running"
    /\ readyState[c] = "NONE"
    /\ OverLimit(i) \/ i = EmptyIp
    /\ ipConns' = IF OverLimit(i) THEN ipConns ELSE CountUp(i)
    /\ from' = [from EXCEPT ![c] = i]
    /\ readyState' = [readyState EXCEPT ![c] = "CLOSING"]
    /\ peerUp' = [peerUp EXCEPT ![c] = TRUE]
    /\ UNCHANGED <<server, ip, isAlive, pinged>>

----------------------------------------------------------------------------
(* The ping timer *)

\* Mutant of Stale: the flag tested the wrong way round.
StaleInverted == {c \in Conns : Live(c) /\ isAlive[c]}

\* Mutant of Stale: the rejected ones, which never had the flag, are the only ones found.
StaleRejectedOnly == {c \in Conns : Live(c) /\ ip[c] = None}

\* Clients the next tick terminates.
Stale == {c \in Conns : Live(c) /\ ~isAlive[c]}

\* ws.ping() on a ws that is not OPEN sends nothing.
PingTick ==
    /\ server = "running"
    /\ readyState' = [c \in Conns |-> IF c \in Stale THEN "CLOSING" ELSE readyState[c]]
    /\ isAlive' = [c \in Conns |-> isAlive[c] /\ ~Live(c)]
    /\ pinged' = [c \in Conns |->
                    pinged[c] \/ (readyState[c] = "OPEN" /\ isAlive[c])]
    /\ UNCHANGED <<server, from, ip, ipConns, peerUp>>

\* The 'pong' listener.
Pong(c) ==
    /\ server # "exited"
    /\ Live(c) /\ peerUp[c] /\ pinged[c]
    /\ isAlive' = [isAlive EXCEPT ![c] = TRUE]
    /\ pinged' = [pinged EXCEPT ![c] = FALSE]
    /\ UNCHANGED <<server, readyState, from, ip, ipConns, peerUp>>

----------------------------------------------------------------------------
(* Closing *)

\* ws.close() by the server: the authentication failures of signaling.js.
ServerClose(c) ==
    /\ server # "exited"
    /\ Live(c) /\ ip[c] # None
    /\ readyState' = [readyState EXCEPT ![c] = "CLOSING"]
    /\ UNCHANGED <<server, from, ip, ipConns, isAlive, pinged, peerUp>>

\* The 'close' event: an admitted connection gives its slot back.
CloseEvent(c) ==
    /\ readyState' = [readyState EXCEPT ![c] = "CLOSED"]
    /\ ipConns' = IF ip[c] = None THEN ipConns ELSE CountDown(ip[c])
    /\ UNCHANGED <<server, from, ip, isAlive, pinged, peerUp>>

\* The peer closes, or its TCP connection is reset.
PeerCloses(c) ==
    /\ server # "exited"
    /\ readyState[c] = "OPEN" /\ peerUp[c]
    /\ CloseEvent(c)

\* A close the server began ends: close frame, close timeout or destroyed socket.
CloseCompletes(c) ==
    /\ server # "exited"
    /\ readyState[c] = "CLOSING"
    /\ CloseEvent(c)

\* The remote machine loses power or network: no close frame, no FIN.
PeerVanishes(c) ==
    /\ server # "exited"
    /\ Live(c) /\ peerUp[c]
    /\ peerUp' = [peerUp EXCEPT ![c] = FALSE]
    /\ UNCHANGED <<server, readyState, from, ip, ipConns, isAlive, pinged>>

----------------------------------------------------------------------------
(* The process *)

\* SIGTERM/SIGINT: clearInterval(pingTimer); wss.close() admits nobody any more
\* and leaves the clients connected.
Shutdown ==
    /\ server = "running"
    /\ server' = "closing"
    /\ UNCHANGED <<readyState, from, ip, ipConns, isAlive, pinged, peerUp>>

\* The process ends: its sockets and its memory are gone, no listener runs.
ProcessGone ==
    /\ server' = "exited"
    /\ readyState' = [c \in Conns |-> IF Live(c) THEN "CLOSED" ELSE readyState[c]]
    /\ ipConns' = [i \in IPs |-> 0]
    /\ UNCHANGED <<from, ip, isAlive, pinged, peerUp>>

\* Mutant of ExitForced: the timer only exits when nobody is connected.
ExitForcedIdle ==
    /\ server = "closing"
    /\ \A c \in Conns : ~Live(c)
    /\ ProcessGone

\* wss emitted 'close' (no client left), then server.close, then exit(0).
ExitDrained ==
    /\ server = "closing"
    /\ \A c \in Conns : ~Live(c)
    /\ ProcessGone

\* The 5 s timer: exit(1) with clients still connected.
ExitForced ==
    /\ server = "closing"
    /\ \E c \in Conns : Live(c)
    /\ ProcessGone

\* The process is killed.
Crash ==
    /\ server = "running"
    /\ ProcessGone

\* docker-compose "restart: unless-stopped".
Restart ==
    /\ server = "exited"
    /\ server' = "running"
    /\ UNCHANGED <<readyState, from, ip, ipConns, isAlive, pinged, peerUp>>

----------------------------------------------------------------------------

Next ==
    \/ \E c \in Conns, i \in IPs : Accept(c, i) \/ Reject(c, i)
    \/ \E c \in Conns : \/ Pong(c)
                        \/ ServerClose(c)
                        \/ PeerCloses(c)
                        \/ CloseCompletes(c)
                        \/ PeerVanishes(c)
    \/ PingTick
    \/ Shutdown
    \/ ExitDrained
    \/ ExitForced
    \/ Crash
    \/ Restart

\* setInterval keeps ticking, a close that began completes (ws bounds it with a
\* timer), the 5 s exit timer fires.  Nothing is assumed of the peers.
Fairness ==
    /\ WF_connVars(PingTick)
    /\ \A c \in Conns : WF_connVars(CloseCompletes(c))
    /\ WF_connVars(ExitForced)
    /\ WF_connVars(ExitDrained)

Spec == Init /\ [][Next]_connVars

FairSpec == Spec /\ Fairness

----------------------------------------------------------------------------
(* Properties *)

\* The count kept for an address is the number of its connections that are
\* still open or closing, whatever the order of connects, rejects, close
\* events and restarts: onDisconnect runs once for every connection let in and
\* never for a refused one.  Not so for the empty address: IdleCountsNothing.
SlotAccounting == \A i \in Named : ipConns[i] = Cardinality(Holders(i))

\* ipConns is "ip -> active connection count" (rateLimit.js:11): with nobody
\* connected it counts nobody.  The empty address refutes it: counted, refused
\* by "if (!ip)", and no close listener to count it down.
IdleCountsNothing == (\A c \in Conns : ~Live(c)) => \A i \in IPs : ipConns[i] = 0

\* No address ever holds more than MAX_CONNS_PER_IP connections at once.
WithinLimit == \A i \in Named : Cardinality(Holders(i)) <= MaxConnsPerIp

\* A peer that answered the last ping before the next tick is never terminated
\* by that tick, and neither is a connection that was never pinged.
PromptPeersSurvive ==
    [][PingTick => \A c \in Conns :
            readyState[c] = "OPEN" /\ ~pinged[c] => readyState'[c] = "OPEN"]_connVars

\* The limiter implements a table of slots: a slot is granted exactly when one
\* is free, a connection with a named address is refused exactly when none is,
\* one with the empty address always, and a slot returns when its connection
\* closes.
Slots == INSTANCE ConnSlots WITH
    held <- [i \in IPs |-> Holders(i)],
    refused <- {<<c, from[c]>> : c \in {d \in Conns : from[d] # None /\ ip[d] = None}},
    Nameless <- {EmptyIp},
    Max <- MaxConnsPerIp

SlotsSpec == Slots!Spec

\* A peer that disappears without closing is noticed: the ping timer, or the end
\* of the process, gets its connection closed and its slot returned.
DeadPeersReaped ==
    \A c \in Conns :
        (readyState[c] = "OPEN" /\ ~peerUp[c]) ~> (readyState[c] = "CLOSED")

\* A shutdown ends although wss.close() leaves clients connected and the ping
\* timer, which would reap them, has been cleared.
ShutdownCompletes == (server = "closing") ~> (server = "exited")
============================================================================
