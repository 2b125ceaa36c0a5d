------------------------- MODULE Connections_proofs ------------------------
(***************************************************************************)
(* Proofs about Connections, for any number of connections and addresses   *)
(* and any limit.                                                          *)
(***************************************************************************)
EXTENDS Connections, FiniteSetTheorems, TLAPS

\* A connection that has not arrived has no address, which makes Reject leave the
\* holders alone; one that was let in keeps the address clientIp gave it.
NewIsUnaddressed ==
    \A c \in Conns :
        /\ readyState[c] = "NONE" <=> from[c] = None
        /\ ip[c] # None => ip[c] = from[c]

\* The inductive invariant.
IInv == TypeOK /\ NewIsUnaddressed /\ SlotAccounting /\ WithinLimit

----------------------------------------------------------------------------

\* The holders of an address are finitely many.
LEMMA HoldersFinite ==
    ASSUME NEW i
    PROVE  IsFiniteSet(Holders(i)) /\ Cardinality(Holders(i)) \in Nat
<1>1. Holders(i) \in SUBSET Conns
    BY DEF Holders
<1>2. IsFiniteSet(Holders(i))
    BY <1>1, ConnsAssumption, FS_Subset
<1>3. QED
    BY <1>2, FS_CardinalityType

\* A step that neither changes who is live nor any address changes no count.
LEMMA SameHolders ==
    ASSUME IInv,
           ipConns' = ipConns, ip' = ip,
           \A c \in Conns : Live(c)' <=> Live(c)
    PROVE  SlotAccounting' /\ WithinLimit'
<1>1. \A i \in Named : Holders(i)' = Holders(i)
    BY DEF Holders
<1>2. QED
    BY <1>1 DEF IInv, SlotAccounting, WithinLimit

\* The close event gives back the slot of an admitted connection, exactly one.
LEMMA CloseEventStep ==
    ASSUME IInv, NEW c \in Conns, Live(c), CloseEvent(c)
    PROVE  IInv'
<1>1. TypeOK'
    BY DEF IInv, TypeOK, CloseEvent, CountDown, Named, ReadyStates, ServerStates
<1>2. NewIsUnaddressed'
    BY DEF IInv, TypeOK, CloseEvent, Live, NewIsUnaddressed
<1>3. ASSUME NEW i \in Named
      PROVE  Holders(i)' = Holders(i) \ {c}
    BY DEF IInv, TypeOK, CloseEvent, Holders, Live
<1>4. ASSUME NEW i \in Named
      PROVE  ipConns'[i] = Cardinality(Holders(i)') /\ Cardinality(Holders(i)') <= MaxConnsPerIp
    <2>1. ipConns[i] = Cardinality(Holders(i)) /\ Cardinality(Holders(i)) <= MaxConnsPerIp
        BY DEF IInv, SlotAccounting, WithinLimit
    <2>2. Cardinality(Holders(i)) \in Nat /\ IsFiniteSet(Holders(i))
        BY HoldersFinite
    <2>3. CASE ip[c] = i
        <3>1. c \in Holders(i)
            BY <2>3 DEF Holders
        <3>2. Cardinality(Holders(i)') = Cardinality(Holders(i)) - 1
            BY <1>3, <2>2, <3>1, FS_RemoveElement
        <3>3. Cardinality(Holders(i)) # 0
            BY <2>2, <3>1, FS_EmptySet
        <3>4. ipConns'[i] = IF ipConns[i] <= 1 THEN 0 ELSE ipConns[i] - 1
            BY <2>3, NoneAssumption DEF IInv, TypeOK, CloseEvent, CountDown, Named
        <3>5. MaxConnsPerIp \in Nat
            BY LimitAssumption
        <3>6. QED
            BY <2>1, <2>2, <3>2, <3>3, <3>4, <3>5
    <2>4. CASE ip[c] # i
        <3>1. Holders(i)' = Holders(i)
            BY <1>3, <2>4 DEF Holders
        <3>2. ipConns'[i] = ipConns[i]
            BY <2>4 DEF IInv, TypeOK, CloseEvent, CountDown, Named
        <3>3. QED
            BY <2>1, <3>1, <3>2
    <2>5. QED
        BY <2>3, <2>4
<1>5. QED
    BY <1>1, <1>2, <1>4 DEF IInv, SlotAccounting, WithinLimit

\* The end of the process empties every address.
LEMMA ProcessGoneStep ==
    ASSUME IInv, ProcessGone
    PROVE  IInv'
<1>1. TypeOK'
    BY DEF IInv, TypeOK, ProcessGone, ReadyStates, ServerStates
<1>2. NewIsUnaddressed'
    BY DEF IInv, TypeOK, ProcessGone, Live, NewIsUnaddressed
<1>3. \A i \in Named : Holders(i)' = {}
    BY DEF IInv, TypeOK, ProcessGone, Holders, Live
<1>4. \A i \in Named : ipConns'[i] = 0
    BY DEF ProcessGone, Named
<1>5. Cardinality({}) = 0 /\ 0 <= MaxConnsPerIp
    BY FS_EmptySet, LimitAssumption
<1>6. QED
    BY <1>1, <1>2, <1>3, <1>4, <1>5 DEF IInv, SlotAccounting, WithinLimit

\* An admitted connection takes one slot, which was free.
LEMMA AcceptStep ==
    ASSUME IInv, NEW c \in Conns, NEW i \in IPs, Accept(c, i)
    PROVE  IInv'
<1>1. TypeOK'
    BY DEF IInv, TypeOK, Accept, CountUp, Named, ReadyStates, ServerStates
<1>2. NewIsUnaddressed'
    BY NoneAssumption DEF IInv, TypeOK, Accept, NewIsUnaddressed
<1>3. ASSUME NEW j \in Named
      PROVE  ipConns'[j] = Cardinality(Holders(j)') /\ Cardinality(Holders(j)') <= MaxConnsPerIp
    <2>1. ipConns[j] = Cardinality(Holders(j)) /\ Cardinality(Holders(j)) <= MaxConnsPerIp
        BY DEF IInv, SlotAccounting, WithinLimit
    <2>2. Cardinality(Holders(j)) \in Nat /\ IsFiniteSet(Holders(j))
        BY HoldersFinite
    <2>3. c \notin Holders(j)
        BY DEF Accept, Holders, Live
    <2>4. CASE j = i
        <3>1. Holders(j)' = Holders(j) \cup {c}
            BY <2>4 DEF IInv, TypeOK, Accept, Holders, Live
        <3>2. Cardinality(Holders(j)') = Cardinality(Holders(j)) + 1
            BY <2>2, <2>3, <3>1, FS_AddElement
        <3>3. ipConns'[j] = ipConns[j] + 1
            BY <2>4 DEF IInv, TypeOK, Accept, CountUp, Named
        <3>4. ~(ipConns[j] + 1 > MaxConnsPerIp) /\ MaxConnsPerIp \in Nat
            BY <2>4, LimitAssumption DEF Accept, OverLimit
        <3>5. QED
            BY <2>1, <2>2, <3>2, <3>3, <3>4
    <2>5. CASE j # i
        <3>1. Holders(j)' = Holders(j)
            BY <2>5 DEF IInv, TypeOK, Accept, Holders, Live
        <3>2. ipConns'[j] = ipConns[j]
            BY <2>5 DEF IInv, TypeOK, Accept, CountUp, Named
        <3>3. QED
            BY <2>1, <3>1, <3>2
    <2>6. QED
        BY <2>4, <2>5
<1>4. QED
    BY <1>1, <1>2, <1>3 DEF IInv, SlotAccounting, WithinLimit

----------------------------------------------------------------------------

\* A refused connection is live and holds nothing; only the empty address, which
\* is not accounted for, can have been counted for it.
LEMMA RejectStep ==
    ASSUME IInv, NEW c \in Conns, NEW i \in IPs, Reject(c, i)
    PROVE  IInv'
<1>1. TypeOK'
    BY DEF IInv, TypeOK, Reject, CountUp, ReadyStates, ServerStates
<1>2. ip[c] = None
    BY DEF IInv, NewIsUnaddressed, Reject
<1>3. NewIsUnaddressed'
    BY <1>2, NoneAssumption DEF IInv, TypeOK, Reject, NewIsUnaddressed
<1>4. \A j \in Named : Holders(j)' = Holders(j)
    BY <1>2, NoneAssumption DEF IInv, TypeOK, Reject, Holders, Live, Named
<1>5. \A j \in Named : ipConns'[j] = ipConns[j]
    BY DEF IInv, TypeOK, Reject, CountUp, Named
<1>6. QED
    BY <1>1, <1>3, <1>4, <1>5 DEF IInv, SlotAccounting, WithinLimit

\* A tick moves stale clients from OPEN to CLOSING; each keeps its slot until
\* its close event.
LEMMA PingTickStep ==
    ASSUME IInv, PingTick
    PROVE  IInv'
<1>1. TypeOK'
    BY DEF IInv, TypeOK, PingTick, ReadyStates, ServerStates
<1>2. NewIsUnaddressed'
    BY DEF IInv, TypeOK, PingTick, Stale, Live, NewIsUnaddressed
<1>3. \A c \in Conns : Live(c)' <=> Live(c)
    BY DEF IInv, TypeOK, PingTick, Stale, Live
<1>4. ipConns' = ipConns /\ ip' = ip
    BY DEF PingTick
<1>5. SlotAccounting' /\ WithinLimit'
    BY <1>3, <1>4, SameHolders
<1>6. QED
    BY <1>1, <1>2, <1>5 DEF IInv

\* The steps that touch no slot: a pong, a close begun, a peer gone, and the
\* process told to stop or started again.
LEMMA SlotlessStep ==
    ASSUME IInv,
           \/ \E c \in Conns : Pong(c) \/ ServerClose(c) \/ PeerVanishes(c)
           \/ Shutdown
           \/ Restart
           \/ UNCHANGED connVars
    PROVE  IInv'
<1>1. CASE \E c \in Conns : Pong(c)
    <2>1. TypeOK' /\ NewIsUnaddressed'
        BY <1>1 DEF IInv, TypeOK, Pong, NewIsUnaddressed
    <2>2. QED
        BY <1>1, <2>1, SameHolders DEF IInv, Pong, Live
<1>2. CASE \E c \in Conns : ServerClose(c)
    <2>1. TypeOK' /\ NewIsUnaddressed'
        BY <1>2 DEF IInv, TypeOK, ServerClose, NewIsUnaddressed, ReadyStates
    <2>2. \A c \in Conns : Live(c)' <=> Live(c)
        BY <1>2 DEF IInv, TypeOK, ServerClose, Live
    <2>3. QED
        BY <1>2, <2>1, <2>2, SameHolders DEF IInv, ServerClose
<1>3. CASE \E c \in Conns : PeerVanishes(c)
    <2>1. TypeOK' /\ NewIsUnaddressed'
        BY <1>3 DEF IInv, TypeOK, PeerVanishes, NewIsUnaddressed
    <2>2. QED
        BY <1>3, <2>1, SameHolders DEF IInv, PeerVanishes, Live
<1>4. CASE Shutdown \/ Restart
    <2>1. TypeOK' /\ NewIsUnaddressed'
        BY <1>4 DEF IInv, TypeOK, Shutdown, Restart, NewIsUnaddressed, ServerStates
    <2>2. QED
        BY <1>4, <2>1, SameHolders DEF IInv, Shutdown, Restart, Live
<1>5. CASE UNCHANGED connVars
    <2>1. TypeOK' /\ NewIsUnaddressed'
        BY <1>5 DEF IInv, TypeOK, NewIsUnaddressed, connVars
    <2>2. QED
        BY <1>5, <2>1, SameHolders DEF IInv, connVars, Live
<1>6. QED
    BY <1>1, <1>2, <1>3, <1>4, <1>5

\* No connection, no count.
LEMMA InitIInv == Init => IInv
<1> SUFFICES ASSUME Init PROVE IInv
    OBVIOUS
<1>1. TypeOK /\ NewIsUnaddressed
    BY DEF Init, TypeOK, NewIsUnaddressed, ReadyStates, ServerStates
<1>2. \A i \in Named : Holders(i) = {} /\ ipConns[i] = 0
    BY DEF Init, Holders, Live, Named
<1>3. Cardinality({}) = 0 /\ 0 <= MaxConnsPerIp
    BY FS_EmptySet, LimitAssumption
<1>4. QED
    BY <1>1, <1>2, <1>3 DEF IInv, SlotAccounting, WithinLimit

\* Every step preserves the invariant, one case per action.
LEMMA NextIInv == IInv /\ [Next]_connVars => IInv'
<1> SUFFICES ASSUME IInv, [Next]_connVars PROVE IInv'
    OBVIOUS
<1>1. ASSUME NEW c \in Conns, NEW i \in IPs, Accept(c, i) PROVE IInv'
    BY <1>1, AcceptStep
<1>2. ASSUME NEW c \in Conns, NEW i \in IPs, Reject(c, i) PROVE IInv'
    BY <1>2, RejectStep
<1>3. ASSUME NEW c \in Conns, PeerCloses(c) PROVE IInv'
    <2>1. Live(c) /\ CloseEvent(c)
        BY <1>3 DEF PeerCloses, Live
    <2>2. QED
        BY <2>1, CloseEventStep
<1>4. ASSUME NEW c \in Conns, CloseCompletes(c) PROVE IInv'
    <2>1. Live(c) /\ CloseEvent(c)
        BY <1>4 DEF CloseCompletes, Live
    <2>2. QED
        BY <2>1, CloseEventStep
<1>5. CASE PingTick
    BY <1>5, PingTickStep
<1>6. CASE ExitDrained \/ ExitForced \/ Crash
    <2>1. ProcessGone
        BY <1>6 DEF ExitDrained, ExitForced, Crash
    <2>2. QED
        BY <2>1, ProcessGoneStep
<1>7. CASE \/ \E c \in Conns : Pong(c) \/ ServerClose(c) \/ PeerVanishes(c)
           \/ Shutdown
           \/ Restart
           \/ UNCHANGED connVars
    BY <1>7, SlotlessStep
<1>8. QED
    BY <1>1, <1>2, <1>3, <1>4, <1>5, <1>6, <1>7 DEF Next

\* The invariant holds in every reachable state.
THEOREM Invariance == Spec => []IInv
    BY InitIInv, NextIInv, PTL DEF Spec

\* Every variable keeps its type; the counters never go below zero.
THEOREM TypeCorrect == Spec => []TypeOK
<1>1. IInv => TypeOK
    BY DEF IInv
<1>2. QED
    BY <1>1, Invariance, PTL

\* The limiter's count of an address that is not empty is always the number of
\* connections it holds: onConnect and onDisconnect stay balanced over every order
\* of connects, refusals, terminations, close events and restarts.
THEOREM SlotsAccounted == Spec => []SlotAccounting
<1>1. IInv => SlotAccounting
    BY DEF IInv
<1>2. QED
    BY <1>1, Invariance, PTL

\* No address ever holds more than MAX_CONNS_PER_IP connections.
THEOREM LimitHolds == Spec => []WithinLimit
<1>1. IInv => WithinLimit
    BY DEF IInv
<1>2. QED
    BY <1>1, Invariance, PTL

----------------------------------------------------------------------------

\* An open connection was answered since its last ping, or that ping is out.
AliveUnlessPinged == \A c \in Conns : readyState[c] = "OPEN" => isAlive[c] \/ pinged[c]

\* Only Accept opens a connection, with the flag set; only a tick clears the flag,
\* and it pings.
LEMMA NextAlive == TypeOK /\ AliveUnlessPinged /\ [Next]_connVars => AliveUnlessPinged'
<1> SUFFICES ASSUME TypeOK, AliveUnlessPinged, [Next]_connVars,
                    NEW c \in Conns, readyState'[c] = "OPEN"
             PROVE  isAlive'[c] \/ pinged'[c]
    BY DEF AliveUnlessPinged
<1> USE DEF TypeOK, AliveUnlessPinged
<1>1. CASE \E d \in Conns, i \in IPs : Accept(d, i) \/ Reject(d, i)
    BY <1>1 DEF Accept, Reject
<1>2. CASE \E d \in Conns : Pong(d) \/ ServerClose(d) \/ PeerVanishes(d)
    BY <1>2 DEF Pong, ServerClose, PeerVanishes
<1>3. CASE \E d \in Conns : PeerCloses(d) \/ CloseCompletes(d)
    BY <1>3 DEF PeerCloses, CloseCompletes, CloseEvent
<1>4. CASE PingTick
    BY <1>4 DEF PingTick, Stale, Live
<1>5. CASE ExitDrained \/ ExitForced \/ Crash
    BY <1>5 DEF ExitDrained, ExitForced, Crash, ProcessGone, Live
<1>6. CASE Shutdown \/ Restart \/ UNCHANGED connVars
    BY <1>6 DEF Shutdown, Restart, connVars
<1>7. QED
    BY <1>1, <1>2, <1>3, <1>4, <1>5, <1>6 DEF Next

\* A peer with no ping outstanding survives every tick.
THEOREM PromptPeersSurviveHolds == Spec => PromptPeersSurvive
<1>1. Init => AliveUnlessPinged
    BY DEF Init, AliveUnlessPinged
<1>2. TypeOK /\ AliveUnlessPinged /\ [Next]_connVars =>
        [PingTick => \A c \in Conns :
            readyState[c] = "OPEN" /\ ~pinged[c] => readyState'[c] = "OPEN"]_connVars
    BY DEF TypeOK, AliveUnlessPinged, PingTick, Stale, connVars
<1>3. Spec => []TypeOK
    BY TypeCorrect
<1>4. QED
    BY <1>1, <1>2, <1>3, NextAlive, PTL DEF Spec, PromptPeersSurvive

----------------------------------------------------------------------------

\* What the abstract variables are here.
Held    == [i \in IPs |-> Holders(i)]
Refused == {<<c, from[c]>> : c \in {d \in Conns : from[d] # None /\ ip[d] = None}}

\* Who is live at which address, and who was refused, is all the abstract
\* specification sees.
LEMMA SlotsStutter ==
    ASSUME ip' = ip, from' = from,
           \A c \in Conns : Live(c)' <=> Live(c)
    PROVE  UNCHANGED <<Held, Refused>>
<1>1. \A i \in IPs : Holders(i)' = Holders(i)
    BY DEF Holders
<1>2. Held' = Held
    BY <1>1 DEF Held
<1>3. Refused' = Refused
    BY DEF Refused
<1>4. QED
    BY <1>2, <1>3

\* An admission takes a free slot.
LEMMA AcceptAcquires ==
    ASSUME IInv, NEW c \in Conns, NEW i \in IPs, Accept(c, i)
    PROVE  Slots!Acquire(c, i)
<1>1. \A j \in IPs : Holders(j)' = IF j = i THEN Holders(j) \cup {c} ELSE Holders(j)
    BY DEF IInv, TypeOK, Accept, Holders, Live
<1>2. Held' = [Held EXCEPT ![i] = @ \cup {c}]
    BY <1>1 DEF Held
<1>3. Refused' = Refused
    <2>1. from[c] = None
        BY DEF IInv, NewIsUnaddressed, Accept
    <2>2. {d \in Conns : from'[d] # None /\ ip'[d] = None} = {d \in Conns : from[d] # None /\ ip[d] = None}
        BY <2>1, NoneAssumption DEF IInv, TypeOK, Accept
    <2>3. \A d \in Conns : from[d] # None => from'[d] = from[d]
        BY <2>1 DEF IInv, TypeOK, Accept
    <2>4. QED
        BY <2>2, <2>3 DEF Refused
<1>4. Slots!Newcomer(c)
    BY DEF Slots!Newcomer, Accept, Holders, Live, IInv, NewIsUnaddressed
<1>5. Cardinality(Held[i]) < MaxConnsPerIp
    <2>1. ipConns[i] = Cardinality(Holders(i)) /\ Held[i] = Holders(i)
        BY DEF IInv, SlotAccounting, Held, Accept, Named
    <2>2. ~(ipConns[i] + 1 > MaxConnsPerIp) /\ ipConns[i] \in Nat /\ MaxConnsPerIp \in Nat
        BY LimitAssumption DEF IInv, TypeOK, Accept, OverLimit
    <2>3. QED
        BY <2>1, <2>2
<1>6. Slots!Cardinality(Held[i]) = Cardinality(Held[i])
    BY DEF Slots!Cardinality, Cardinality
<1>7. QED
    BY <1>2, <1>3, <1>4, <1>5, <1>6 DEF Slots!Acquire, Held, Refused, Accept

\* A refusal happens only when the address has no slot left, or is the empty one.
LEMMA RejectRefuses ==
    ASSUME IInv, NEW c \in Conns, NEW i \in IPs, Reject(c, i)
    PROVE  Slots!Refuse(c, i)
<1>1. ip[c] = None /\ from[c] = None
    BY DEF IInv, NewIsUnaddressed, Reject
<1>2. \A j \in IPs : Holders(j)' = Holders(j)
    BY <1>1, NoneAssumption DEF IInv, TypeOK, Reject, Holders, Live
<1>3. Held' = Held
    BY <1>2 DEF Held
<1>4. Refused' = Refused \cup {<<c, i>>}
    <2>1. {d \in Conns : from'[d] # None /\ ip'[d] = None} =
          {d \in Conns : from[d] # None /\ ip[d] = None} \cup {c}
        BY <1>1, NoneAssumption DEF IInv, TypeOK, Reject
    <2>2. from'[c] = i /\ \A d \in Conns : from[d] # None => from'[d] = from[d]
        BY <1>1 DEF IInv, TypeOK, Reject
    <2>3. QED
        BY <2>1, <2>2 DEF Refused
<1>5. Slots!Newcomer(c)
    BY <1>1 DEF Slots!Newcomer, Reject, Holders, Live
<1>6. i \in {EmptyIp} \/ Cardinality(Held[i]) >= MaxConnsPerIp
    <2>1. CASE i \in Named
        <3>1. ipConns[i] = Cardinality(Holders(i)) /\ Held[i] = Holders(i)
            BY <2>1 DEF IInv, SlotAccounting, Held
        <3>2. ipConns[i] + 1 > MaxConnsPerIp /\ ipConns[i] \in Nat /\ MaxConnsPerIp \in Nat
            BY <2>1, LimitAssumption DEF IInv, TypeOK, Reject, OverLimit, Named
        <3>3. QED
            BY <3>1, <3>2
    <2>2. QED
        BY <2>1 DEF Named
<1>7. Slots!Cardinality(Held[i]) = Cardinality(Held[i])
    BY DEF Slots!Cardinality, Cardinality
<1>8. QED
    BY <1>3, <1>4, <1>5, <1>6, <1>7 DEF Slots!Refuse, Held, Refused

\* A close event releases the slot, if the connection had one.
LEMMA CloseReleases ==
    ASSUME IInv, NEW c \in Conns, Live(c), CloseEvent(c)
    PROVE  (\E i \in IPs : Slots!Release(c, i)) \/ UNCHANGED <<Held, Refused>>
<1>1. Refused' = Refused
    BY DEF IInv, TypeOK, CloseEvent, Refused, Live
<1>2. \A i \in IPs : Holders(i)' = Holders(i) \ {c}
    BY DEF IInv, TypeOK, CloseEvent, Holders, Live
<1>3. CASE ip[c] = None
    <2>1. \A i \in IPs : c \notin Holders(i)
        BY <1>3, NoneAssumption DEF Holders
    <2>2. Held' = Held
        BY <1>2, <2>1 DEF Held
    <2>3. QED
        BY <1>1, <2>2
<1>4. CASE ip[c] # None
    <2>1. ip[c] \in IPs
        BY <1>4 DEF IInv, TypeOK, Named
    <2>2. c \in Holders(ip[c]) /\ \A i \in IPs : i # ip[c] => c \notin Holders(i)
        BY DEF Holders
    <2>3. Held' = [Held EXCEPT ![ip[c]] = @ \ {c}]
        BY <1>2, <2>1, <2>2 DEF Held
    <2>4. Slots!Release(c, ip[c])
        BY <1>1, <2>1, <2>2, <2>3 DEF Slots!Release, Held, Refused
    <2>5. QED
        BY <2>1, <2>4
<1>5. QED
    BY <1>3, <1>4

\* The end of the process releases everything.
LEMMA ProcessGoneReleasesAll ==
    ASSUME IInv, ProcessGone
    PROVE  Slots!ReleaseAll
<1>1. \A i \in IPs : Holders(i)' = {}
    BY DEF IInv, TypeOK, ProcessGone, Holders, Live
<1>2. Refused' = Refused
    BY DEF IInv, TypeOK, ProcessGone, Refused, Live
<1>3. QED
    BY <1>1, <1>2 DEF Slots!ReleaseAll, Held, Refused

\* The limiter implements ConnSlots.
THEOREM SlotsImplemented == Spec => SlotsSpec
<1>1. Init => Slots!Init
    BY DEF Init, Slots!Init, Holders, Live
<1>2. IInv /\ [Next]_connVars => [Slots!Next]_(Slots!slotVars)
    <2> SUFFICES ASSUME IInv, [Next]_connVars PROVE [Slots!Next]_(Slots!slotVars)
        OBVIOUS
    <2> USE DEF Slots!Next, Slots!slotVars
    <2>1. ASSUME NEW c \in Conns, NEW i \in IPs, Accept(c, i) PROVE Slots!Next
        BY <2>1, AcceptAcquires
    <2>2. ASSUME NEW c \in Conns, NEW i \in IPs, Reject(c, i) PROVE Slots!Next
        BY <2>2, RejectRefuses
    <2>3. ASSUME NEW c \in Conns, PeerCloses(c) \/ CloseCompletes(c)
          PROVE  Slots!Next \/ UNCHANGED <<Held, Refused>>
        <3>1. Live(c) /\ CloseEvent(c)
            BY <2>3 DEF PeerCloses, CloseCompletes, Live
        <3>2. QED
            BY <3>1, CloseReleases
    <2>4. CASE PingTick
        <3>1. UNCHANGED <<Held, Refused>>
            BY <2>4, SlotsStutter DEF IInv, TypeOK, PingTick, Stale, Live
        <3>2. QED
            BY <3>1 DEF Held, Refused
    <2>5. CASE ExitDrained \/ ExitForced \/ Crash
        BY <2>5, ProcessGoneReleasesAll DEF ExitDrained, ExitForced, Crash
    <2>6. CASE \/ \E c \in Conns : Pong(c) \/ ServerClose(c) \/ PeerVanishes(c)
               \/ Shutdown \/ Restart \/ UNCHANGED connVars
        <3>1. UNCHANGED <<Held, Refused>>
            BY <2>6, SlotsStutter
            DEF IInv, TypeOK, Pong, ServerClose, PeerVanishes, Shutdown, Restart, connVars, Live
        <3>2. QED
            BY <3>1 DEF Held, Refused
    <2>7. QED
        BY <2>1, <2>2, <2>3, <2>4, <2>5, <2>6 DEF Next, Held, Refused
<1>3. QED
    BY <1>1, <1>2, Invariance, PTL DEF Spec, SlotsSpec, Slots!Spec
=============================================================================
