--------------------------- MODULE AgentLink_proofs ---------------------------
(***************************************************************************)
(* Theorems about AgentLink, for any back-off bounds and any inbox.        *)
(***************************************************************************)
EXTENDS AgentLink, FiniteSetTheorems, TLAPS

\* The sets of numbers up to n + 1 are those up to n, each without n + 1 and with it.
LEMMA SubsetsDouble ==
    ASSUME NEW n \in Nat
    PROVE  Cardinality(SUBSET (1..(n + 1))) = 2 * Cardinality(SUBSET (1..n))
  <1> DEFINE A == SUBSET (1..n)
             B == {T \cup {n + 1} : T \in A}
             f == [T \in A |-> T \cup {n + 1}]
  <1>1. IsFiniteSet(A) /\ Cardinality(A) \in Nat
    <2>1. IsFiniteSet(1..n)
      BY FS_Interval
    <2> QED BY <2>1, FS_SUBSET, FS_CardinalityType
  <1>2. \A T \in A : n + 1 \notin T
    OBVIOUS
  <1>3. f \in Bijection(A, B)
    <2>1. f \in [A -> B] /\ \A b \in B : \E T \in A : f[T] = b
      OBVIOUS
    <2>2. ASSUME NEW T \in A, NEW U \in A, f[T] = f[U] PROVE T = U
      <3>1. T \cup {n + 1} = U \cup {n + 1}
        BY <2>2
      <3> QED BY <1>2, <3>1
    <2> HIDE DEF A, B, f
    <2> QED BY <2>1, <2>2 DEF Bijection, Injection, Surjection, IsInjective
  <1>4. IsFiniteSet(B) /\ Cardinality(B) = Cardinality(A)
    <2> HIDE DEF A, B, f
    <2>1. ExistsBijection(A, B)
      BY <1>3 DEF ExistsBijection
    <2> QED BY <1>1, <2>1, FS_Bijection
  <1>5. A \cap B = {}
    BY <1>2
  <1>6. SUBSET (1..(n + 1)) = A \cup B
    <2>1. ASSUME NEW T \in SUBSET (1..(n + 1)) PROVE T \in A \cup B
      <3>1. CASE n + 1 \in T
        <4>1. T \ {n + 1} \in A /\ T = (T \ {n + 1}) \cup {n + 1}
          BY <3>1
        <4> QED BY <4>1
      <3>2. CASE n + 1 \notin T
        BY <3>2
      <3> QED BY <3>1, <3>2
    <2>2. A \cup B \subseteq SUBSET (1..(n + 1))
      <3>1. 1..n \subseteq 1..(n + 1) /\ n + 1 \in 1..(n + 1)
        OBVIOUS
      <3>2. ASSUME NEW T \in A PROVE T \subseteq 1..(n + 1) /\ T \cup {n + 1} \subseteq 1..(n + 1)
        BY <3>1
      <3> QED BY <3>2
    <2> QED BY <2>1, <2>2
  <1> HIDE DEF A, B, f
  <1>7. Cardinality(A \cup B) = Cardinality(A) + Cardinality(B) - Cardinality(A \cap B)
    BY <1>1, <1>4, FS_Union
  <1>8. Cardinality(A \cap B) = 0
    BY <1>5, FS_EmptySet
  <1>9. Cardinality(SUBSET (1..(n + 1))) = 2 * Cardinality(A)
    <2>1. Cardinality(SUBSET (1..(n + 1))) = Cardinality(A \cup B)
      BY <1>6, Zenon
    <2> QED BY <1>1, <1>4, <1>7, <1>8, <2>1
  <1> QED BY <1>9 DEF A

\* 2^n counts the sets of the numbers up to n.
LEMMA PowerCounts ==
    ASSUME NEW n \in Nat
    PROVE  2^n = Cardinality(SUBSET (1..n)) /\ 2^n \in Nat
  <1>1. IsFiniteSet(1..n) /\ Cardinality(1..n) = n
    BY FS_Interval
  <1> QED BY <1>1, FS_SUBSET, FS_CardinalityType

\* Powers of two double.
LEMMA PowersDouble ==
    ASSUME NEW n \in Nat
    PROVE  2^n \in Nat /\ 2^(n + 1) = 2 * 2^n
  <1>1. n + 1 \in Nat
    OBVIOUS
  <1> QED BY <1>1, PowerCounts, SubsetsDouble

\* The delays before doubling and after it, both capped.
LEMMA DoublingCaps ==
    ASSUME NEW p \in Nat, NEW m \in Nat
    PROVE  Lesser(Lesser(p, m) * 2, m) = Lesser(2 * p, m)
  BY DEF Lesser

BInv == TypeOK /\ BackoffTracksFailures

\* The initial states satisfy the invariant.
LEMMA BInit == Init => BInv
  <1> SUFFICES ASSUME Init PROVE BInv OBVIOUS
  <1>1. InitialBackoff \in Nat /\ MaxBackoff \in Nat /\ FailureCap \in Nat /\ InitialBackoff <= MaxBackoff
    BY BackoffAssumption
  <1>2. TypeOK
    <2>1. backoff \in InitialBackoff..MaxBackoff /\ inbox \in 0..MaxInbox /\ failures \in 0..FailureCap
      BY <1>1, InboxAssumption DEF Init
    <2>2. {hbRunning, trRunning} \subseteq BOOLEAN /\ running \in BOOLEAN /\ unacked \in BOOLEAN
      BY Zenon DEF Init
    <2> QED BY <2>1, <2>2 DEF Init, TypeOK, Pcs
  <1>3. 2^0 = 1
    OBVIOUS
  <1>4. BackoffTracksFailures
    BY <1>1, <1>3 DEF Init, BackoffTracksFailures, Lesser
  <1> QED BY <1>2, <1>4 DEF BInv

\* A step of the main thread within the loop: what it may change has its type.
LEMMA LinkTyped ==
    ASSUME BInv, NEW label \in Pcs, Goto(label),
           link' \in {"none", "up", "closed", "lost"}, unacked' \in BOOLEAN, inbox' \in 0..MaxInbox,
           backoff' \in InitialBackoff..MaxBackoff, failures' \in 0..FailureCap
    PROVE  TypeOK'
  BY DEF Goto, workerVars, BInv, TypeOK

\* A fresh link.
LEMMA FreshLink == ASSUME unacked' = FALSE, inbox' = 0 PROVE unacked' \in BOOLEAN /\ inbox' \in 0..MaxInbox
  <1>1. unacked' \in BOOLEAN
    BY Zenon
  <1>2. inbox' \in 0..MaxInbox
    BY InboxAssumption
  <1> QED BY <1>1, <1>2

\* The sleep after a failure.
LEMMA BackoffKeeps == ASSUME BInv, Backoff PROVE BInv'
  <1> DEFINE t == 2^failures
  <1>1. /\ InitialBackoff \in Nat \ {0} /\ MaxBackoff \in Nat /\ FailureCap \in Nat
        /\ InitialBackoff <= MaxBackoff /\ MaxBackoff <= InitialBackoff * 2^FailureCap
        /\ failures \in 0..FailureCap /\ backoff \in InitialBackoff..MaxBackoff
    BY BackoffAssumption DEF BInv, TypeOK
  <1>2. t \in Nat /\ 2^(failures + 1) = 2 * t
    BY <1>1, PowersDouble
  <1>3. backoff = Lesser(InitialBackoff * t, MaxBackoff)
    BY DEF BInv, BackoffTracksFailures
  <1>4. backoff' = Lesser(backoff * 2, MaxBackoff) /\ failures' = Lesser(failures + 1, FailureCap)
    BY DEF Backoff
  <1>5. CASE failures < FailureCap
    <2>1. failures' = failures + 1
      BY <1>1, <1>4, <1>5 DEF Lesser
    <2>2. 2^failures' = 2 * t
      BY <1>2, <2>1
    <2> HIDE DEF t
    <2>3. InitialBackoff * t \in Nat /\ InitialBackoff * (2 * t) = 2 * (InitialBackoff * t)
      BY <1>1, <1>2
    <2>4. backoff' = Lesser(2 * (InitialBackoff * t), MaxBackoff)
      BY <1>1, <1>3, <1>4, <2>3, DoublingCaps
    <2>5. BackoffTracksFailures'
      BY <2>2, <2>3, <2>4 DEF BackoffTracksFailures
    <2>6. backoff' \in InitialBackoff..MaxBackoff /\ failures' \in 0..FailureCap
      BY <1>1, <1>4, <1>5, <2>1 DEF Lesser
    <2> QED BY <2>5, <2>6 DEF BInv, TypeOK, Backoff, Goto, workerVars, Pcs
  <1>6. CASE failures = FailureCap
    <2>1. failures' = failures
      BY <1>1, <1>4, <1>6 DEF Lesser
    <2>2. MaxBackoff <= InitialBackoff * t
      BY <1>1, <1>6
    <2> HIDE DEF t
    <2>3. InitialBackoff * t \in Nat
      BY <1>1, <1>2
    <2>4. backoff = MaxBackoff
      BY <1>1, <1>3, <2>2, <2>3 DEF Lesser
    <2>5. backoff' = MaxBackoff
      BY <1>1, <1>4, <2>4 DEF Lesser
    <2>6. BackoffTracksFailures'
      BY <2>1, <2>4, <2>5 DEF BInv, BackoffTracksFailures
    <2> QED BY <1>1, <2>1, <2>5, <2>6 DEF BInv, TypeOK, Backoff, Goto, workerVars, Pcs
  <1> QED BY <1>1, <1>5, <1>6

\* A handshake starts over.
LEMMA HandshakeKeeps ==
    ASSUME BInv, NEW after \in {"up", "closed"}, Handshake(after)
    PROVE  BInv'
  <1>1. /\ InitialBackoff \in Nat /\ MaxBackoff \in Nat /\ FailureCap \in Nat /\ InitialBackoff <= MaxBackoff
    BY BackoffAssumption
  <1>2. 2^0 = 1
    OBVIOUS
  <1>3. BackoffTracksFailures'
    BY <1>1, <1>2 DEF Handshake, BackoffTracksFailures, Lesser
  <1>4. TypeOK'
    <2>1. Goto("register") /\ "register" \in Pcs /\ link' \in {"none", "up", "closed", "lost"}
      BY DEF Handshake, Pcs
    <2>2. unacked' \in BOOLEAN /\ inbox' \in 0..MaxInbox
      BY FreshLink DEF Handshake
    <2>3. backoff' \in InitialBackoff..MaxBackoff /\ failures' \in 0..FailureCap
      BY <1>1 DEF Handshake
    <2> QED BY <2>1, <2>2, <2>3, LinkTyped
  <1> QED BY <1>3, <1>4 DEF BInv

\* What leaves back-off and failures alone has only its types to keep.
LEMMA OtherwiseKept ==
    ASSUME BInv, UNCHANGED <<backoff, failures>>, TypeOK'
    PROVE  BInv'
  BY DEF BInv, BackoffTracksFailures

\* An exception goes to the catch block.
LEMMA ThrowKeeps == ASSUME BInv, Throw PROVE BInv'
  <1>1. TypeOK'
    <2>1. Goto("backoff") /\ "backoff" \in Pcs /\ link' \in {"none", "up", "closed", "lost"}
      BY DEF Throw, Pcs
    <2>2. unacked' \in BOOLEAN /\ inbox' \in 0..MaxInbox
      BY FreshLink DEF Throw
    <2>3. backoff' \in InitialBackoff..MaxBackoff /\ failures' \in 0..FailureCap
      BY DEF Throw, BInv, TypeOK
    <2> QED BY <2>1, <2>2, <2>3, LinkTyped
  <1> QED BY <1>1, OtherwiseKept DEF Throw

\* A write goes through or throws.
LEMMA WriteKeeps == ASSUME BInv, NEW next \in Pcs, Write(next) PROVE BInv'
  <1>1. CASE Throw
    BY <1>1, ThrowKeeps
  <1>2. CASE Goto(next) /\ unacked' = (unacked \/ link = "lost") /\ UNCHANGED <<backoff, link, inbox, failures>>
    <2>1. TypeOK'
      BY <1>2 DEF Goto, workerVars, BInv, TypeOK
    <2> QED BY <1>2, <2>1, OtherwiseKept
  <1> QED BY <1>1, <1>2 DEF Write

\* The main thread.
LEMMA MainKeeps == ASSUME BInv, Main PROVE BInv'
  <1>1. CASE Connect
    BY <1>1, HandshakeKeeps, ThrowKeeps DEF Connect
  <1>2. CASE Register
    BY <1>2, WriteKeeps DEF Register, Pcs
  <1>3. CASE Capture
    <2>1. CASE Write("pause")
      BY <2>1, WriteKeeps DEF Pcs
    <2>2. CASE Goto("pause") /\ UNCHANGED <<backoff, link, unacked, inbox, failures>>
      <3>1. TypeOK'
        BY <2>2 DEF Goto, workerVars, BInv, TypeOK, Pcs
      <3> QED BY <2>2, <3>1, OtherwiseKept
    <2> QED BY <1>3, <2>1, <2>2 DEF Capture
  <1>4. CASE Backoff
    BY <1>4, BackoffKeeps
  <1>5. CASE ReadSome
    <2>1. CASE Throw
      BY <2>1, ThrowKeeps
    <2>2. CASE inbox > 0 /\ inbox' = inbox - 1 /\ Goto("capture") /\ UNCHANGED <<backoff, link, unacked, failures>>
      <3>1. TypeOK'
        BY <2>2, InboxAssumption DEF Goto, workerVars, BInv, TypeOK, Pcs
      <3> QED BY <2>2, <3>1, OtherwiseKept
    <2> QED BY <1>5, <2>1, <2>2 DEF ReadSome
  <1>6. CASE Close
    <2>1. CASE Throw
      BY <2>1, ThrowKeeps
    <2>2. CASE Goto("loop") /\ link' = "none" /\ unacked' = FALSE /\ inbox' = 0 /\ UNCHANGED <<backoff, failures>>
      <3>1. TypeOK'
        <4>1. "loop" \in Pcs /\ link' \in {"none", "up", "closed", "lost"}
          BY <2>2 DEF Pcs
        <4>2. unacked' \in BOOLEAN /\ inbox' \in 0..MaxInbox
          BY <2>2, FreshLink
        <4>3. backoff' \in InitialBackoff..MaxBackoff /\ failures' \in 0..FailureCap
          BY <2>2 DEF BInv, TypeOK
        <4> QED BY <2>2, <4>1, <4>2, <4>3, LinkTyped
      <3> QED BY <2>2, <3>1, OtherwiseKept
    <2> QED BY <1>6, <2>1, <2>2 DEF Close
  <1>7. CASE LoopTest \/ InnerTest \/ Pause
    <2>1. TypeOK' /\ UNCHANGED <<backoff, failures>>
      BY <1>7 DEF LoopTest, InnerTest, Pause, Goto, workerVars, BInv, TypeOK, Pcs
    <2> QED BY <2>1, OtherwiseKept
  <1>8. CASE Start \/ StopHeartbeat \/ JoinHeartbeat \/ StopTracker \/ JoinTracker
    <2>1. UNCHANGED <<backoff, link, unacked, inbox, failures, running, net>>
      BY <1>8 DEF Start, StopHeartbeat, JoinHeartbeat, StopTracker, JoinTracker, LinkUnchanged
    <2>2. /\ pc' \in Pcs /\ {hbRunning', trRunning'} \subseteq BOOLEAN
          /\ hb' \in {hb, "test"} /\ tr' \in {tr, "test"}
      BY <1>8 DEF Start, StopHeartbeat, JoinHeartbeat, StopTracker, JoinTracker, workerVars, BInv, TypeOK, Pcs
    <2>3. TypeOK'
      BY <2>1, <2>2 DEF BInv, TypeOK
    <2> QED BY <2>1, <2>3, OtherwiseKept
  <1> QED BY <1>1, <1>2, <1>3, <1>4, <1>5, <1>6, <1>7, <1>8 DEF Main

\* The worker threads.
LEMMA WorkersKeep == ASSUME BInv, HeartbeatThread \/ TrackerThread PROVE BInv'
  <1>1. TypeOK' /\ UNCHANGED <<backoff, failures>>
    BY DEF HeartbeatThread, TrackerThread, mainVars, BInv, TypeOK
  <1> QED BY <1>1, OtherwiseKept

\* Signals, server and network.
LEMMA EnvironmentKeeps ==
    ASSUME BInv, Signal \/ ServerSends \/ LinkBreaks \/ LossDetected \/ NetChanges
    PROVE  BInv'
  <1>1. UNCHANGED <<pc, backoff, failures, hb, hbRunning, tr, trRunning>>
    BY DEF Signal, ServerSends, LinkBreaks, LossDetected, NetChanges,
           Environ, workerVars
  <1>2. /\ link' \in {"none", "up", "closed", "lost"} /\ unacked' = unacked
        /\ net' \in {"open", "full", "down"}
    BY DEF Signal, ServerSends, LinkBreaks, LossDetected, NetChanges, BInv, TypeOK
  <1>4. inbox' \in 0..MaxInbox
    <2>1. inbox' = inbox \/ (inbox < MaxInbox /\ inbox' = inbox + 1)
      BY DEF Signal, ServerSends, LinkBreaks, LossDetected, NetChanges
    <2> QED BY <2>1, InboxAssumption DEF BInv, TypeOK
  <1>5. running' \in BOOLEAN
    <2>1. running' = running \/ running' = FALSE
      BY DEF Signal, ServerSends, LinkBreaks, LossDetected, NetChanges
    <2>2. FALSE \in BOOLEAN /\ running \in BOOLEAN
      BY DEF BInv, TypeOK
    <2> QED BY <2>1, <2>2, Zenon
  <1>3. TypeOK'
    BY <1>1, <1>2, <1>4, <1>5 DEF BInv, TypeOK
  <1> QED BY <1>1, <1>3, OtherwiseKept

\* Every step keeps the invariant.
LEMMA BNext == BInv /\ [Next]_agentVars => BInv'
  <1> SUFFICES ASSUME BInv, [Next]_agentVars PROVE BInv' OBVIOUS
  <1>1. CASE UNCHANGED agentVars
    <2>1. TypeOK' /\ UNCHANGED <<backoff, failures>>
      BY <1>1 DEF agentVars, mainVars, workerVars, BInv, TypeOK
    <2> QED BY <2>1, OtherwiseKept
  <1> QED BY <1>1, MainKeeps, WorkersKeep, EnvironmentKeeps DEF Next

\* Which thread is where, by the main thread's place: what makes the joins enough.
JoinInv ==
    /\ pc = "start" => hb = "idle" /\ tr = "idle"
    /\ pc \notin {"start", "joinTracker", "done"} => trRunning
    /\ tr = "ended" => pc \in {"joinTracker", "done"}
    /\ pc \in {"stopTracker", "joinTracker"} => hb = "ended"
    /\ pc = "done" => \/ hb = "idle" /\ tr = "idle"
                      \/ hb = "ended" /\ tr = "ended"

\* A move of the main thread within the loop, or into the stop calls, leaves the
\* workers running.
LEMMA LoopJoins ==
    ASSUME JoinInv, UNCHANGED workerVars,
           pc \notin {"start", "stopTracker", "joinTracker", "done"},
           pc' \notin {"start", "stopTracker", "joinTracker", "done"}
    PROVE  JoinInv'
  BY DEF JoinInv, workerVars

\* The main thread's own stops and joins.
LEMMA MainJoins == ASSUME TypeOK, JoinInv, Main PROVE JoinInv'
  <1>1. CASE Start
    BY <1>1 DEF Start, JoinInv, workerVars
  <1>2. CASE LoopTest \/ InnerTest \/ Pause
    BY <1>2, LoopJoins DEF LoopTest, InnerTest, Pause, Goto
  <1>3. CASE Connect \/ Register \/ ReadSome \/ Capture \/ Close \/ Backoff
    BY <1>3, LoopJoins
    DEF Connect, Register, ReadSome, Capture, Close, Backoff, Handshake, Throw, Write, Goto
  <1>4. CASE StopHeartbeat
    BY <1>4 DEF StopHeartbeat, JoinInv
  <1>5. CASE JoinHeartbeat
    BY <1>5 DEF JoinHeartbeat, JoinInv, workerVars
  <1>6. CASE StopTracker
    BY <1>6 DEF StopTracker, JoinInv
  <1>7. CASE JoinTracker
    BY <1>7 DEF JoinTracker, JoinInv, workerVars
  <1> QED BY <1>1, <1>2, <1>3, <1>4, <1>5, <1>6, <1>7 DEF Main

\* A worker ends only when told to, and one that has ended or never began stays so.
LEMMA NextJoins == TypeOK /\ JoinInv /\ [Next]_agentVars => JoinInv'
  <1> SUFFICES ASSUME TypeOK, JoinInv, [Next]_agentVars PROVE JoinInv' OBVIOUS
  <1>1. CASE Main
    BY <1>1, MainJoins
  <1>2. CASE HeartbeatThread
    BY <1>2 DEF HeartbeatThread, mainVars, JoinInv
  <1>3. CASE TrackerThread
    BY <1>3 DEF TrackerThread, mainVars, JoinInv
  <1>4. CASE Signal \/ ServerSends \/ LinkBreaks \/ LossDetected \/ NetChanges
    BY <1>4 DEF Signal, ServerSends, LinkBreaks, LossDetected, NetChanges, Environ, workerVars, JoinInv
  <1>5. CASE UNCHANGED agentVars
    BY <1>5 DEF agentVars, mainVars, workerVars, JoinInv
  <1> QED BY <1>1, <1>2, <1>3, <1>4, <1>5 DEF Next

\* Every reachable state of the agent satisfies it.
THEOREM AgentInvariant == Spec => []BInv
  BY BInit, BNext, PTL DEF Spec

\* The agent's variables keep their types; its back-off stays within its bounds.
THEOREM AgentTypeCorrect == Spec => []TypeOK
  <1>1. BInv => TypeOK BY DEF BInv
  <1> QED BY <1>1, AgentInvariant, PTL

\* The next sleep is the initial one doubled once per failure since the last handshake,
\* up to the maximum, along every path through the catch block.
THEOREM BackoffFollowsFailures == Spec => []BackoffTracksFailures
  <1>1. BInv => BackoffTracksFailures BY DEF BInv
  <1> QED BY <1>1, AgentInvariant, PTL

\* No worker outlives rdm_run, and the heartbeat thread never outlives the
\* activity tracker it reads.
THEOREM WorkersNeverOutlive == Spec => []WorkersEndFirst
  <1>1. Init => JoinInv
    BY DEF Init, JoinInv
  <1>2. JoinInv => WorkersEndFirst
    BY DEF JoinInv, WorkersEndFirst
  <1> QED BY <1>1, <1>2, NextJoins, AgentTypeCorrect, PTL DEF Spec
=============================================================================
