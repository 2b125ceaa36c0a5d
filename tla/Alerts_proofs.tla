---------------------------- MODULE Alerts_proofs ----------------------------
(***************************************************************************)
(* Theorems about Alerts, for any alerts, resolve requests, streams and    *)
(* sizes of the queues and of the toast stack.                             *)
(***************************************************************************)
EXTENDS Alerts, SequenceTheorems, FiniteSetTheorems, TLAPS

\* An alert is in the table once the request that creates it has committed.
StageFollowsRow == \A a \in Alerts : stage[a] = "new" <=> row[a] = "absent"

\* Nothing is queued, listed or being resolved that is not in the table.
QueuedExist == \A l \in Listeners : \A i \in DOMAIN queue[l] : row[queue[l][i]] # "absent"

ListedExist ==
    \A rows \in {data, fetch.rows} :
        rows # None => \A a \in Alerts : rows[a] # "absent" => row[a] # "absent"

ResolvingExist ==
    \A r \in Resolvers : req[r].phase # "idle" => req[r].alert \in Alerts /\ row[req[r].alert] # "absent"

\* The news the list is refetched for is true of the table.
OwedTrue == \A n \in owed : n.status \in {"open", "resolved"} /\ row[n.alert] \in {n.status, "resolved"}

\* What was answered was committed, and a request knows no later answer than it can.
ResolvesCommitted ==
    /\ \A a \in answered : row[a] = "resolved"
    /\ \A r \in Resolvers :
        /\ req[r].phase = "committed" => row[req[r].alert] = "resolved"
        /\ req[r].phase # "idle" /\ req[r].after => req[r].alert \in answered

\* The live count counts every alert the badge was told of.
NoticedCounted == IsFiniteSet(noticed) /\ Cardinality(noticed) <= liveCount

Existing == {a \in Alerts : row[a] # "absent"}

\* There are finitely many alerts in the table, and so in every list of it.
FinitelyOpen ==
    /\ IsFiniteSet(Existing)
    /\ IsFiniteSet(Unresolved(fetch.rows)) /\ IsFiniteSet(Unresolved(data))

AlertInv ==
    /\ TypeOK
    /\ StageFollowsRow /\ QueuedExist /\ ListedExist /\ ResolvingExist
    /\ OwedTrue /\ RefetchSeesTheChange
    /\ ResolvesCommitted /\ LateResolveRefused
    /\ NoticedCounted /\ FinitelyOpen

\* A row is inserted as open and becomes resolved; it never goes back.
RowsAge ==
    \A a \in Alerts :
        \/ row'[a] = row[a]
        \/ row[a] = "absent" /\ row'[a] = "open"
        \/ row[a] # "absent" /\ row'[a] = "resolved"

\* The table's columns, and that a row keeps its created_at.
TableFits ==
    /\ row \in [Alerts -> Status] /\ createdAt \in [Alerts -> Times \cup {0}]
    /\ stage \in [Alerts -> {"new", "tasks", "done"}] /\ StageFollowsRow

StampsStay == \A a \in Alerts : row[a] # "absent" => createdAt'[a] = createdAt[a]

\* Every step ages the table, and only Create and CommitResolve change it.
LEMMA TableAges ==
    ASSUME AlertInv, Next
    PROVE  RowsAge /\ StampsStay /\ TableFits'
  <1> USE DEF AlertInv, TypeOK, Status, TableFits, StampsStay
  <1>1. ASSUME NEW a \in Alerts, Create(a) PROVE RowsAge /\ StampsStay /\ TableFits'
    <2>1. PICK t \in Times : createdAt' = [createdAt EXCEPT ![a] = t]
      BY <1>1 DEF Create
    <2>2. row[a] = "absent" /\ row' = [row EXCEPT ![a] = "open"] /\ stage' = [stage EXCEPT ![a] = "tasks"]
      BY <1>1 DEF Create, StageFollowsRow
    <2>3. RowsAge /\ StampsStay
      BY <2>1, <2>2 DEF RowsAge
    <2>4. TableFits'
      BY <2>1, <2>2 DEF StageFollowsRow
    <2> QED BY <2>3, <2>4
  <1>2. ASSUME NEW a \in Alerts, Broadcast(a) \/ TasksLost(a)
        PROVE RowsAge /\ StampsStay /\ TableFits'
    BY <1>2 DEF Broadcast, TasksLost, StageFollowsRow, RowsAge
  <1>3. ASSUME NEW r \in Resolvers, CommitResolve(r)
        PROVE RowsAge /\ StampsStay /\ TableFits'
    <2>1. req[r].alert \in Alerts /\ row[req[r].alert] # "absent"
      BY <1>3 DEF CommitResolve, ResolvingExist
    <2> QED BY <1>3, <2>1 DEF CommitResolve, StageFollowsRow, RowsAge
  <1>4. CASE UNCHANGED table
    BY <1>4 DEF table, StageFollowsRow, RowsAge
  <1>5. \/ \E a \in Alerts : Create(a) \/ Broadcast(a) \/ TasksLost(a)
        \/ \E r \in Resolvers : CommitResolve(r)
        \/ UNCHANGED table
    <2>1. \A a \in Alerts : Click(a) \/ (\E r \in Resolvers : OtherClicks(r, a)) => UNCHANGED table
      BY DEF Click, OtherClicks
    <2>2. \A l \in Listeners : Subscribe(l) \/ StreamBreaks(l) \/ Notice(l) => UNCHANGED table
      BY DEF Subscribe, StreamBreaks, Notice
    <2>3. \A i \in DOMAIN toasts : Dismiss(i) => UNCHANGED table
      BY DEF Dismiss
    <2>4. Fetching \/ ListFails => UNCHANGED table
      BY DEF Fetching, Poll, ListAlerts, Listed, ListFails
    <2>5. \A r \in Resolvers : CheckUnresolved(r) \/ AnswerOk(r) => UNCHANGED table
      BY DEF CheckUnresolved, AnswerOk
    <2> QED BY <2>1, <2>2, <2>3, <2>4, <2>5 DEF Next, Answering
  <1> QED BY <1>1, <1>2, <1>3, <1>4, <1>5

\* The queue of a stream has room for what it holds, all of it alerts of the table.
QueuesFit ==
    /\ queue \in [Listeners -> Seq(Alerts)]
    /\ \A l \in Listeners : Len(queue[l]) <= QueueSize
    /\ QueuedExist

\* A broadcast appends where there is room; a notice takes the head.
LEMMA QueuesKept ==
    ASSUME AlertInv, Next
    PROVE  QueuesFit'
  <1>0. QueuesFit /\ QueueSize \in Nat
    BY Sizes DEF AlertInv, TypeOK, QueuesFit
  <1>1. \A a \in Alerts : row[a] # "absent" => row'[a] # "absent"
    BY TableAges DEF RowsAge
  <1>2. ASSUME UNCHANGED queue PROVE QueuesFit'
    <2>1. ASSUME NEW l \in Listeners, NEW i \in DOMAIN queue[l] PROVE queue[l][i] \in Alerts
      <3> queue[l] \in Seq(Alerts) BY <1>0 DEF QueuesFit, QueuedExist
      <3> QED BY ElementOfSeq, LenProperties
    <2> QED BY <1>0, <1>1, <1>2, <2>1 DEF QueuesFit, QueuedExist
  <1>3. ASSUME NEW a \in Alerts, Broadcast(a) PROVE QueuesFit'
    <2>1. row[a] # "absent" /\ row' = row
      BY <1>3 DEF Broadcast, AlertInv, StageFollowsRow
    <2>2. PICK here \in SUBSET link :
            queue' = [l \in Listeners |->
                IF l \in here /\ Len(queue[l]) < QueueSize THEN Append(queue[l], a) ELSE queue[l]]
      BY <1>3 DEF Broadcast
    <2>3. ASSUME NEW l \in Listeners
          PROVE  queue'[l] \in Seq(Alerts) /\ Len(queue'[l]) <= QueueSize
                 /\ \A i \in DOMAIN queue'[l] : row'[queue'[l][i]] # "absent"
      <3>1. CASE queue'[l] = queue[l]
        BY <1>0, <2>1, <3>1 DEF QueuesFit, QueuedExist
      <3>2. CASE queue'[l] = Append(queue[l], a) /\ Len(queue[l]) < QueueSize
        <4>1. queue[l] \in Seq(Alerts) BY <1>0 DEF QueuesFit, QueuedExist
        <4> DEFINE s == queue[l]
        <4>2. Append(s, a) \in Seq(Alerts) /\ Len(Append(s, a)) = Len(s) + 1
              /\ \A i \in 1 .. Len(s) + 1 : Append(s, a)[i] = s[i] \/ Append(s, a)[i] = a
          BY <4>1
        <4>3. Len(s) \in Nat BY <4>1
        <4>4. \A i \in 1 .. Len(s) + 1 : row[Append(s, a)[i]] # "absent"
          <5>1. \A i \in 1 .. Len(s) : row[s[i]] # "absent"
            BY <1>0, <4>1 DEF QueuesFit, QueuedExist
          <5>2. \A i \in 1 .. Len(s) : Append(s, a)[i] = s[i]
            BY <4>1
          <5>3. Append(s, a)[Len(s) + 1] = a BY <4>1
          <5> QED BY <2>1, <4>3, <5>1, <5>2, <5>3
        <4>5. DOMAIN Append(s, a) = 1 .. Len(s) + 1 BY <4>1
        <4> QED BY <1>0, <2>1, <3>2, <4>2, <4>3, <4>4, <4>5
      <3> QED BY <2>2, <3>1, <3>2
    <2>4. queue' \in [Listeners -> Seq(Alerts)]
      <3>1. \A l \in Listeners : queue'[l] \in Seq(Alerts) BY <2>3
      <3> QED BY <2>2, <3>1
    <2> QED BY <2>3, <2>4 DEF QueuesFit, QueuedExist
  <1>4. ASSUME NEW l \in Listeners, StreamBreaks(l) \/ Notice(l) PROVE QueuesFit'
    <2>1. row' = row
      BY <1>4 DEF StreamBreaks, Notice, table
    <2>2. PICK s \in {<<>>, Tail(queue[l])} : queue' = [queue EXCEPT ![l] = s] /\ (s = <<>> \/ queue[l] # <<>>)
      BY <1>4 DEF StreamBreaks, Notice
    <2>3. s \in Seq(Alerts) /\ Len(s) <= QueueSize /\ \A i \in DOMAIN s : row[s[i]] # "absent"
      <3>1. CASE s = <<>>
        BY <1>0, <3>1
      <3>2. CASE s = Tail(queue[l]) /\ queue[l] # <<>>
        <4>1. queue[l] \in Seq(Alerts) /\ Len(queue[l]) <= QueueSize
              /\ \A i \in DOMAIN queue[l] : row[queue[l][i]] # "absent"
          BY <1>0 DEF QueuesFit, QueuedExist
        <4>2. s \in Seq(Alerts) /\ Len(s) = Len(queue[l]) - 1 /\ \A i \in 1 .. Len(s) : s[i] = queue[l][i + 1]
          BY <3>2, <4>1, HeadTailProperties
        <4>3. Len(s) \in Nat /\ Len(queue[l]) \in Nat /\ DOMAIN s = 1 .. Len(s) /\ DOMAIN queue[l] = 1 .. Len(queue[l])
          BY <4>1, <4>2
        <4>4. \A i \in 1 .. Len(s) : i + 1 \in DOMAIN queue[l]
          BY <4>2, <4>3
        <4> QED BY <1>0, <4>1, <4>2, <4>3, <4>4
      <3> QED BY <2>2, <3>1, <3>2
    <2> QED BY <1>0, <2>1, <2>2, <2>3 DEF QueuesFit, QueuedExist
  <1>5. \/ \E a \in Alerts : Broadcast(a)
        \/ \E l \in Listeners : StreamBreaks(l) \/ Notice(l)
        \/ UNCHANGED queue
    <2>1. \A a \in Alerts : Create(a) \/ TasksLost(a) \/ Click(a) \/ (\E r \in Resolvers : OtherClicks(r, a))
                            => UNCHANGED queue
      BY DEF Create, TasksLost, Click, OtherClicks, stream
    <2>2. \A l \in Listeners : Subscribe(l) => UNCHANGED queue
      BY DEF Subscribe
    <2>3. \A i \in DOMAIN toasts : Dismiss(i) => UNCHANGED queue
      BY DEF Dismiss, stream
    <2>4. Fetching \/ ListFails => UNCHANGED queue
      BY DEF Fetching, Poll, ListAlerts, Listed, ListFails, stream
    <2>5. \A r \in Resolvers : CheckUnresolved(r) \/ CommitResolve(r) \/ AnswerOk(r) => UNCHANGED queue
      BY DEF CheckUnresolved, CommitResolve, AnswerOk, stream
    <2> QED BY <2>1, <2>2, <2>3, <2>4, <2>5 DEF Next, Answering
  <1> QED BY <1>2, <1>3, <1>4, <1>5

\* The cached list and its fetch, by what is in the table.
ListFits ==
    /\ data \in Rows /\ fetch.phase \in {"idle", "asked", "read"} /\ fetch.rows \in Rows
    /\ owed \subseteq [alert : Alerts, status : Status]
    /\ ListedExist /\ OwedTrue /\ RefetchSeesTheChange /\ FinitelyOpen

\* Every list of a table with finitely many rows has finitely many open ones.
LEMMA UnresolvedFinite ==
    ASSUME IsFiniteSet(Existing), NEW rows,
           rows # None => \A a \in Alerts : rows[a] # "absent" => row[a] # "absent"
    PROVE  IsFiniteSet(Unresolved(rows))
  <1>1. Unresolved(rows) \subseteq Existing
    BY DEF Unresolved, Existing
  <1> QED BY <1>1, FS_Subset

\* What is pushed out of the list stays out: newer rows are only added.
LEMMA CutStays ==
    ASSUME RowsAge, StampsStay, IsFiniteSet(Existing'), NEW a \in Alerts, row[a] # "absent", Cut(a)
    PROVE  Cut(a)'
  <1>1. Newer(a) \subseteq Newer(a)' /\ Newer(a)' \subseteq Existing'
    BY DEF Newer, Existing, RowsAge, StampsStay
  <1>2. IsFiniteSet(Newer(a)') /\ IsFiniteSet(Newer(a)) /\ Cardinality(Newer(a)) <= Cardinality(Newer(a)')
    BY <1>1, FS_Subset
  <1>3. Cardinality(Newer(a)) \in Nat /\ Cardinality(Newer(a)') \in Nat /\ ListLimit \in Nat
    BY <1>2, FS_CardinalityType, Sizes
  <1> QED BY <1>2, <1>3 DEF Cut

\* While the list rests, it goes on fitting the table that ages.
LEMMA ListOutlivesTable ==
    ASSUME AlertInv, RowsAge, StampsStay, UNCHANGED list, IsFiniteSet(Existing')
    PROVE  ListFits'
  <1>1. Unresolved(data)' = Unresolved(data) /\ Unresolved(fetch.rows)' = Unresolved(fetch.rows)
    BY DEF list, Unresolved
  <1>2. ListedExist'
    BY DEF AlertInv, ListedExist, RowsAge, list
  <1>3. OwedTrue'
    <2>1. ASSUME NEW n \in owed PROVE n.status \in {"open", "resolved"} /\ row'[n.alert] \in {n.status, "resolved"}
      <3>1. n.alert \in Alerts /\ n.status \in {"open", "resolved"} /\ row[n.alert] \in {n.status, "resolved"}
        BY <2>1 DEF AlertInv, TypeOK, OwedTrue
      <3> QED BY <3>1 DEF RowsAge
    <2> QED BY <2>1 DEF OwedTrue, list
  <1>4. RefetchSeesTheChange'
    <2>1. ASSUME NEW n \in owed, Cut(n.alert) PROVE Cut(n.alert)'
      <3>1. n.alert \in Alerts /\ row[n.alert] # "absent"
        BY <2>1 DEF AlertInv, TypeOK, OwedTrue
      <3> QED BY <2>1, <3>1, CutStays
    <2>2. \A n \in owed : Cut(n.alert) => Cut(n.alert)'
      BY <2>1
    <2> QED BY <2>2 DEF AlertInv, RefetchSeesTheChange, list
  <1> QED BY <1>1, <1>2, <1>3, <1>4 DEF AlertInv, TypeOK, ListFits, FinitelyOpen, list

\* Asking again owes the news, which is true of the table.
LEMMA InvalidateKeeps ==
    ASSUME AlertInv, NEW a \in Alerts, NEW s \in {"open", "resolved"},
           row[a] \in {s, "resolved"}, UNCHANGED <<row, createdAt>>, InvalidateAlerts(a, s)
    PROVE  ListFits'
  <1>1. ListFits
    BY DEF AlertInv, TypeOK, ListFits
  <1>2. data' = data /\ Unresolved(data)' = Unresolved(data) /\ Existing' = Existing
    BY DEF InvalidateAlerts, Unresolved, Existing
  <1>3. CASE fetch.phase # "idle" /\ data = None
    <2>1. UNCHANGED list
      BY <1>3 DEF InvalidateAlerts, Invalidated, list
    <2>2. RowsAge /\ StampsStay BY DEF RowsAge, StampsStay
    <2> QED BY <1>1, <1>2, <2>1, <2>2, ListOutlivesTable DEF ListFits, FinitelyOpen
  <1>4. CASE ~(fetch.phase # "idle" /\ data = None)
    <2>1. fetch' = Asked /\ owed' = owed \cup {[alert |-> a, status |-> s]}
      BY <1>4 DEF InvalidateAlerts, Invalidated
    <2>2. fetch'.phase = "asked" /\ fetch'.rows = None
      BY <2>1 DEF Asked
    <2>3. OwedTrue' /\ owed' \subseteq [alert : Alerts, status : Status]
      BY <1>1, <2>1 DEF ListFits, OwedTrue, Status
    <2>4. IsFiniteSet(Unresolved(fetch.rows)')
      <3>1. Unresolved(fetch.rows)' = {} BY <2>2 DEF Unresolved
      <3> QED BY <3>1, FS_EmptySet
    <2>5. ListedExist'
      BY <1>1, <1>2, <2>2 DEF ListFits, ListedExist
    <2> QED BY <1>1, <1>2, <2>2, <2>3, <2>4, <2>5 DEF ListFits, FinitelyOpen, RefetchSeesTheChange, Rows
  <1> QED BY <1>3, <1>4

\* A created alert is one row more; every other step adds none.
LEMMA ExistingStaysFinite ==
    ASSUME AlertInv, Next
    PROVE  IsFiniteSet(Existing')
  <1>0. IsFiniteSet(Existing)
    BY DEF AlertInv, FinitelyOpen
  <1>1. ASSUME NEW a \in Alerts, Create(a) PROVE IsFiniteSet(Existing')
    <2>1. Existing' \subseteq Existing \cup {a}
      BY <1>1 DEF Create, Existing, AlertInv, TypeOK
    <2> QED BY <1>0, <2>1, FS_AddElement, FS_Subset
  <1>2. ASSUME \A a \in Alerts : ~Create(a) PROVE IsFiniteSet(Existing')
    <2>1. Existing' \subseteq Existing
      <3>1. \A a \in Alerts : Broadcast(a) \/ TasksLost(a) \/ Click(a) \/ (\E r \in Resolvers : OtherClicks(r, a))
                => UNCHANGED row
        BY DEF Broadcast, TasksLost, Click, OtherClicks, table
      <3>2. \A l \in Listeners : Subscribe(l) \/ StreamBreaks(l) \/ Notice(l) => UNCHANGED row
        BY DEF Subscribe, StreamBreaks, Notice, table
      <3>3. \A i \in DOMAIN toasts : Dismiss(i) => UNCHANGED row
        BY DEF Dismiss, table
      <3>4. Fetching \/ ListFails => UNCHANGED row
        BY DEF Fetching, Poll, ListAlerts, Listed, ListFails, table
      <3>5. \A r \in Resolvers : CheckUnresolved(r) \/ AnswerOk(r) => UNCHANGED row
        BY DEF CheckUnresolved, AnswerOk, table
      <3>6. ASSUME NEW r \in Resolvers, CommitResolve(r) PROVE Existing' \subseteq Existing
        BY <3>6 DEF CommitResolve, Existing, AlertInv, TypeOK, ResolvingExist
      <3>7. UNCHANGED row => Existing' = Existing
        BY DEF Existing
      <3> QED BY <1>2, <3>1, <3>2, <3>3, <3>4, <3>5, <3>6, <3>7 DEF Next, Answering
    <2> QED BY <1>0, <2>1, FS_Subset
  <1> QED BY <1>1, <1>2

\* Every step leaves a list that fits the table.
LEMMA ListKept ==
    ASSUME AlertInv, Next
    PROVE  ListFits'
  <1>0. ListFits /\ IsFiniteSet(Existing') /\ RowsAge /\ StampsStay
    BY ExistingStaysFinite, TableAges DEF AlertInv, TypeOK, ListFits
  <1>1. CASE UNCHANGED list
    BY <1>0, <1>1, ListOutlivesTable
  <1>2. CASE Poll
    <2>1. fetch' = Asked /\ UNCHANGED <<row, data, owed>> /\ Unresolved(data)' = Unresolved(data)
      BY <1>2 DEF Poll, table, Unresolved
    <2>2. fetch'.phase = "asked" /\ fetch'.rows = None /\ Unresolved(fetch.rows)' = {}
      BY <2>1 DEF Asked, Unresolved
    <2> QED BY <1>0, <2>1, <2>2, FS_EmptySet
            DEF ListFits, ListedExist, OwedTrue, RefetchSeesTheChange, FinitelyOpen, Rows
  <1>3. CASE ListAlerts
    <2>1. fetch'.phase = "read" /\ fetch'.rows = NewestRows /\ UNCHANGED <<row, createdAt, data, owed>>
          /\ Unresolved(data)' = Unresolved(data)
      BY <1>3 DEF ListAlerts, ReadBy, table, Unresolved
    <2>2. \A a \in Alerts : NewestRows[a] = row[a] \/ (NewestRows[a] = "absent" /\ Cut(a))
      BY DEF NewestRows
    <2>3. NewestRows \in [Alerts -> Status]
      BY DEF NewestRows, AlertInv, TypeOK, Status
    <2>4. \A a \in Alerts : Cut(a)' = Cut(a)
      BY <2>1 DEF Cut, Newer
    <2>5. RefetchSeesTheChange'
      <3>1. ASSUME NEW n \in owed PROVE NewestRows[n.alert] \in {n.status, "resolved"} \/ Cut(n.alert)'
        <4>1. n.alert \in Alerts /\ row[n.alert] \in {n.status, "resolved"}
          BY <1>0 DEF ListFits, OwedTrue
        <4> QED BY <2>2, <2>4, <4>1
      <3> QED BY <2>1, <3>1 DEF RefetchSeesTheChange
    <2>6. ListedExist'
      BY <1>0, <2>1, <2>2 DEF ListFits, ListedExist
    <2>7. IsFiniteSet(Unresolved(fetch.rows)')
      <3>1. IsFiniteSet(Unresolved(NewestRows))
        BY <2>2, UnresolvedFinite DEF AlertInv, FinitelyOpen
      <3>2. Unresolved(fetch.rows)' = Unresolved(NewestRows)
        BY <2>1 DEF Unresolved
      <3> QED BY <3>1, <3>2
    <2> QED BY <1>0, <2>1, <2>3, <2>5, <2>6, <2>7 DEF ListFits, OwedTrue, FinitelyOpen, Rows
  <1>4. CASE Listed \/ ListFails
    <2>1. fetch' = NoFetch /\ owed' = {} /\ row' = row /\ (data' = data \/ data' = fetch.rows)
      BY <1>4 DEF Listed, ListFails, table
    <2>2. fetch'.phase = "idle" /\ fetch'.rows = None /\ Unresolved(fetch.rows)' = {}
      BY <2>1 DEF NoFetch, Unresolved
    <2>3. Unresolved(data)' = Unresolved(data) \/ Unresolved(data)' = Unresolved(fetch.rows)
      BY <2>1 DEF Unresolved
    <2>4. ListedExist' /\ data' \in Rows
      BY <1>0, <2>1, <2>2 DEF ListFits, ListedExist
    <2> QED BY <1>0, <2>1, <2>2, <2>3, <2>4, FS_EmptySet
            DEF ListFits, OwedTrue, RefetchSeesTheChange, FinitelyOpen, Rows
  <1>5. ASSUME NEW l \in Listeners, Notice(l) PROVE ListFits'
    <2> DEFINE a == Head(queue[l])
    <2>1. a \in Alerts /\ row[a] \in {"open", "resolved"} /\ UNCHANGED <<row, createdAt>>
      <3>1. queue[l] \in Seq(Alerts) /\ queue[l] # <<>> /\ UNCHANGED <<row, createdAt>>
        BY <1>5 DEF Notice, AlertInv, TypeOK, table
      <3>2. a \in Alerts /\ a = queue[l][1] /\ 1 \in DOMAIN queue[l]
        BY <3>1
      <3>3. row[a] # "absent"
        BY <3>2 DEF AlertInv, QueuedExist
      <3> QED BY <3>1, <3>2, <3>3 DEF AlertInv, TypeOK, Status
    <2>2. UNCHANGED list \/ InvalidateAlerts(a, "open")
      BY <1>5 DEF Notice, Listeners
    <2> QED BY <1>1, <2>1, <2>2, InvalidateKeeps
  <1>6. ASSUME NEW r \in Resolvers, AnswerOk(r) PROVE ListFits'
    <2>1. req[r].alert \in Alerts /\ row[req[r].alert] = "resolved" /\ UNCHANGED <<row, createdAt>>
      BY <1>6 DEF AnswerOk, AlertInv, ResolvingExist, ResolvesCommitted, table
    <2>2. UNCHANGED list \/ InvalidateAlerts(req[r].alert, "resolved")
      BY <1>6 DEF AnswerOk
    <2> QED BY <1>1, <2>1, <2>2, InvalidateKeeps
  <1>7. \/ UNCHANGED list \/ Poll \/ ListAlerts \/ Listed \/ ListFails
        \/ \E l \in Listeners : Notice(l)
        \/ \E r \in Resolvers : AnswerOk(r)
    <2>1. \A a \in Alerts : Create(a) \/ Broadcast(a) \/ TasksLost(a) \/ Click(a) \/ (\E r \in Resolvers : OtherClicks(r, a))
              => UNCHANGED list
      BY DEF Create, Broadcast, TasksLost, Click, OtherClicks
    <2>2. \A l \in Listeners : Subscribe(l) \/ StreamBreaks(l) => UNCHANGED list
      BY DEF Subscribe, StreamBreaks
    <2>3. \A i \in DOMAIN toasts : Dismiss(i) => UNCHANGED list
      BY DEF Dismiss
    <2>4. \A r \in Resolvers : CheckUnresolved(r) \/ CommitResolve(r) => UNCHANGED list
      BY DEF CheckUnresolved, CommitResolve
    <2> QED BY <2>1, <2>2, <2>3, <2>4 DEF Next, Answering, Fetching
  <1> QED BY <1>1, <1>2, <1>3, <1>4, <1>5, <1>6, <1>7

ReqType == [alert : Alerts \cup {None}, after : BOOLEAN, phase : {"idle", "sent", "checked", "committed"}]

\* The requests that resolve, by what is in the table and what was answered.
ResolvesFit ==
    /\ req \in [Resolvers -> ReqType] /\ answered \subseteq Alerts
    /\ ResolvingExist /\ ResolvesCommitted /\ LateResolveRefused

\* What was resolved stays so, and what exists stays in the table.
LEMMA ResolvesOutliveTable ==
    ASSUME AlertInv, RowsAge, UNCHANGED resolve
    PROVE  ResolvesFit'
  <1>1. ASSUME NEW r \in Resolvers, req[r].phase # "idle"
        PROVE  req[r].alert \in Alerts /\ row'[req[r].alert] # "absent"
               /\ (row[req[r].alert] = "resolved" => row'[req[r].alert] = "resolved")
    <2>1. req[r].alert \in Alerts /\ row[req[r].alert] # "absent"
      BY <1>1 DEF AlertInv, ResolvingExist
    <2> QED BY <2>1 DEF RowsAge
  <1>2. ResolvingExist'
    BY <1>1 DEF ResolvingExist, resolve
  <1>3. \A a \in answered : row'[a] = "resolved"
    BY DEF AlertInv, TypeOK, ResolvesCommitted, RowsAge
  <1>4. ResolvesCommitted'
    <2>1. ASSUME NEW r \in Resolvers, req[r].phase = "committed" PROVE row'[req[r].alert] = "resolved"
      BY <1>1, <2>1 DEF AlertInv, ResolvesCommitted
    <2> QED BY <1>3, <2>1 DEF AlertInv, ResolvesCommitted, resolve
  <1> QED BY <1>2, <1>4 DEF AlertInv, TypeOK, ResolvesFit, ReqType, LateResolveRefused, resolve

\* One request becomes q, of an alert of the table; the others stay.
LEMMA RequestBecomes ==
    ASSUME AlertInv, RowsAge, NEW r \in Resolvers, NEW q \in ReqType,
           req' = [req EXCEPT ![r] = q], answered \subseteq answered', answered' \subseteq Alerts,
           \A a \in answered' : row'[a] = "resolved",
           q.phase # "idle" => q.alert \in Alerts /\ row'[q.alert] # "absent",
           q.phase = "committed" => row'[q.alert] = "resolved",
           q.phase # "idle" /\ q.after => q.alert \in answered',
           q.phase \in {"checked", "committed"} => ~q.after
    PROVE  ResolvesFit'
  <1>1. req \in [Resolvers -> ReqType] /\ req' \in [Resolvers -> ReqType] /\ req'[r] = q
    BY DEF AlertInv, TypeOK, ReqType
  <1>2. \A s \in Resolvers \ {r} : req'[s] = req[s]
    BY <1>1
  <1>3. ASSUME NEW s \in Resolvers \ {r}, req[s].phase # "idle"
        PROVE  /\ req[s].alert \in Alerts /\ row'[req[s].alert] # "absent"
               /\ req[s].phase = "committed" => row'[req[s].alert] = "resolved"
               /\ req[s].after => req[s].alert \in answered'
    <2>1. req[s].alert \in Alerts /\ row[req[s].alert] # "absent"
      BY <1>3 DEF AlertInv, ResolvingExist
    <2>2. (req[s].phase = "committed" => row[req[s].alert] = "resolved")
          /\ (req[s].after => req[s].alert \in answered)
      BY <1>3 DEF AlertInv, ResolvesCommitted
    <2> QED BY <2>1, <2>2 DEF RowsAge
  <1>4. ResolvingExist'
    BY <1>1, <1>2, <1>3 DEF ResolvingExist
  <1>5. ResolvesCommitted'
    BY <1>1, <1>2, <1>3 DEF ResolvesCommitted
  <1>6. LateResolveRefused'
    BY <1>1, <1>2 DEF AlertInv, LateResolveRefused
  <1> QED BY <1>1, <1>4, <1>5, <1>6 DEF ResolvesFit

\* Every step keeps the requests in order: a request that passes the check finds its
\* alert open, so that none of it was answered before.
LEMMA ResolvesKept ==
    ASSUME AlertInv, Next
    PROVE  ResolvesFit'
  <1>0. RowsAge
    BY TableAges
  <1>1. CASE UNCHANGED resolve
    BY <1>0, <1>1, ResolvesOutliveTable
  <1>2. \A a \in answered : a \in Alerts /\ row[a] = "resolved" /\ row'[a] = "resolved"
    <2>1. \A a \in answered : a \in Alerts /\ row[a] = "resolved"
      BY DEF AlertInv, TypeOK, ResolvesCommitted
    <2> QED BY <1>0, <2>1 DEF RowsAge
  <1>3. req \in [Resolvers -> ReqType]
    BY DEF AlertInv, TypeOK, ReqType
  <1>4. ASSUME NEW r \in Resolvers, NEW a \in Alerts, row[a] # "absent", row' = row, answered' = answered,
               req' = [req EXCEPT ![r] = [alert |-> a, phase |-> "sent", after |-> a \in answered]]
        PROVE  ResolvesFit'
    <2> DEFINE q == [alert |-> a, phase |-> "sent", after |-> a \in answered]
    <2>1. q \in ReqType /\ q.alert = a /\ q.phase = "sent"
      BY DEF ReqType
    <2>2. q.after => a \in answered
      OBVIOUS
    <2> HIDE DEF q
    <2>3. req' = [req EXCEPT ![r] = q]
      BY <1>4 DEF q
    <2>4. answered' \subseteq Alerts /\ \A b \in answered' : row'[b] = "resolved"
      BY <1>2, <1>4
    <2>5. (q.phase # "idle" => q.alert \in Alerts /\ row'[q.alert] # "absent") /\ (q.after => q.alert \in answered')
      BY <1>4, <2>1, <2>2
    <2> QED BY <1>0, <1>4, <2>1, <2>3, <2>4, <2>5, RequestBecomes
  <1>5. ASSUME NEW a \in Alerts, Click(a) PROVE ResolvesFit'
    <2>1. row[a] # "absent" /\ row' = row
      BY <1>5 DEF Click, AlertInv, ListedExist, table
    <2> QED BY <1>4, <1>5, <2>1 DEF Click
  <1>6. ASSUME NEW a \in Alerts, NEW r \in Resolvers, OtherClicks(r, a) PROVE ResolvesFit'
    BY <1>4, <1>6 DEF OtherClicks, table
  <1>7. NoRequest \in ReqType /\ NoRequest.phase = "idle"
    BY DEF ReqType, NoRequest
  <1>8. ASSUME NEW r \in Resolvers, CheckUnresolved(r) PROVE ResolvesFit'
    <2>1. req[r].phase = "sent" /\ row' = row /\ answered' = answered /\ req[r] \in ReqType
          /\ req[r].alert \in Alerts /\ row[req[r].alert] # "absent"
      BY <1>3, <1>8 DEF CheckUnresolved, AlertInv, ResolvingExist, table
    <2>2. CASE row[req[r].alert] = "resolved"
      <3>1. req' = [req EXCEPT ![r] = NoRequest]
        BY <1>8, <2>2 DEF CheckUnresolved
      <3> QED BY <1>0, <1>2, <1>7, <2>1, <3>1, RequestBecomes DEF AlertInv, TypeOK
    <2>3. CASE row[req[r].alert] # "resolved"
      <3> DEFINE q == [req[r] EXCEPT !.phase = "checked"]
      <3>1. req' = [req EXCEPT ![r] = q]
        BY <1>8, <2>3 DEF CheckUnresolved
      <3>2. q \in ReqType /\ q.phase = "checked" /\ q.alert = req[r].alert /\ q.after = req[r].after
        BY <2>1 DEF ReqType
      <3>3. req[r].alert \notin answered
        BY <1>2, <2>3
      <3>4. ~req[r].after
        BY <2>1, <3>3 DEF AlertInv, ResolvesCommitted
      <3> HIDE DEF q
      <3>5. q.phase # "idle" => q.alert \in Alerts /\ row'[q.alert] # "absent"
        BY <2>1, <3>2
      <3>6. answered' \subseteq Alerts /\ \A a \in answered' : row'[a] = "resolved"
        BY <1>2, <2>1
      <3> QED BY <1>0, <2>1, <3>1, <3>2, <3>4, <3>5, <3>6, RequestBecomes
    <2> QED BY <2>2, <2>3
  <1>9. ASSUME NEW r \in Resolvers, CommitResolve(r) PROVE ResolvesFit'
    <2> DEFINE q == [req[r] EXCEPT !.phase = "committed"]
    <2>1. req[r].phase = "checked" /\ answered' = answered /\ req[r] \in ReqType
          /\ req[r].alert \in Alerts /\ req' = [req EXCEPT ![r] = q]
      BY <1>3, <1>9 DEF CommitResolve, AlertInv, ResolvingExist
    <2>2. row'[req[r].alert] = "resolved"
      BY <1>9, <2>1 DEF CommitResolve, AlertInv, TypeOK
    <2>3. q \in ReqType /\ q.phase = "committed" /\ q.alert = req[r].alert /\ q.after = req[r].after
      BY <2>1 DEF ReqType
    <2>4. ~req[r].after
      BY <2>1 DEF AlertInv, LateResolveRefused
    <2> HIDE DEF q
    <2>5. answered' \subseteq Alerts /\ \A a \in answered' : row'[a] = "resolved"
      BY <1>2, <2>1
    <2> QED BY <1>0, <2>1, <2>2, <2>3, <2>4, <2>5, RequestBecomes
  <1>10. ASSUME NEW r \in Resolvers, AnswerOk(r) PROVE ResolvesFit'
    <2>1. req' = [req EXCEPT ![r] = NoRequest] /\ answered' = answered \cup {req[r].alert} /\ row' = row
          /\ req[r].alert \in Alerts /\ row[req[r].alert] = "resolved"
      BY <1>10 DEF AnswerOk, AlertInv, ResolvingExist, ResolvesCommitted, table
    <2>2. answered' \subseteq Alerts /\ \A a \in answered' : row'[a] = "resolved"
      BY <1>2, <2>1
    <2> QED BY <1>0, <1>7, <2>1, <2>2, RequestBecomes
  <1>11. \/ UNCHANGED resolve
         \/ \E a \in Alerts : Click(a) \/ \E r \in Resolvers : OtherClicks(r, a)
         \/ \E r \in Resolvers : CheckUnresolved(r) \/ CommitResolve(r) \/ AnswerOk(r)
    <2>1. \A a \in Alerts : Create(a) \/ Broadcast(a) \/ TasksLost(a) => UNCHANGED resolve
      BY DEF Create, Broadcast, TasksLost
    <2>2. \A l \in Listeners : Subscribe(l) \/ StreamBreaks(l) \/ Notice(l) => UNCHANGED resolve
      BY DEF Subscribe, StreamBreaks, Notice
    <2>3. \A i \in DOMAIN toasts : Dismiss(i) => UNCHANGED resolve
      BY DEF Dismiss
    <2>4. Fetching \/ ListFails => UNCHANGED resolve
      BY DEF Fetching, Poll, ListAlerts, Listed, ListFails
    <2> QED BY <2>1, <2>2, <2>3, <2>4 DEF Next, Answering
  <1> QED BY <1>1, <1>5, <1>6, <1>8, <1>9, <1>10, <1>11

\* What the badge and the toasts hold: alerts, of which the badge missed none.
TabFits ==
    /\ noticed \subseteq Alerts /\ liveCount \in Nat
    /\ toasts \in Seq(Alerts) /\ Len(toasts) <= ToastSlots
    /\ NoticedCounted

\* The slice keeps the stack within its slots.
LEMMA ToastSliced ==
    ASSUME TabFits, NEW a \in Alerts, AddToast(a)
    PROVE  toasts' \in Seq(Alerts) /\ Len(toasts') <= ToastSlots
  <1> DEFINE stacked == <<a>> \o toasts
             n == IF Len(stacked) < ToastSlots THEN Len(stacked) ELSE ToastSlots
  <1>1. stacked \in Seq(Alerts) /\ ToastSlots \in Nat /\ Len(stacked) \in Nat
    <2>1. <<a>> \in Seq(Alerts) /\ toasts \in Seq(Alerts)
      BY DEF TabFits
    <2>2. stacked \in Seq(Alerts)
      BY <2>1, ConcatProperties
    <2> QED BY <2>2, Sizes, LenProperties
  <1>2. n \in Nat /\ n <= Len(stacked) /\ n <= ToastSlots
    BY <1>1
  <1>3. \A i \in 1 .. n : stacked[i] \in Alerts
    BY <1>1, <1>2, ElementOfSeq
  <1>4. toasts' = SubSeq(stacked, 1, n)
    BY DEF AddToast
  <1> HIDE DEF stacked, n
  <1>5. SubSeq(stacked, 1, n) \in Seq(Alerts) /\ Len(SubSeq(stacked, 1, n)) = IF 1 <= n THEN n - 1 + 1 ELSE 0
    BY <1>2, <1>3, SubSeqProperties
  <1> QED BY <1>1, <1>2, <1>4, <1>5

\* A dismissed toast leaves the others.
LEMMA ToastDismissed ==
    ASSUME TabFits, NEW i \in DOMAIN toasts, Dismiss(i)
    PROVE  toasts' \in Seq(Alerts) /\ Len(toasts') <= ToastSlots
  <1> DEFINE n == Len(toasts)
             before == SubSeq(toasts, 1, i - 1)
             behind == SubSeq(toasts, i + 1, n)
  <1>1. toasts \in Seq(Alerts) /\ n \in Nat /\ n <= ToastSlots /\ i \in 1 .. n /\ ToastSlots \in Nat
    BY Sizes, LenProperties DEF TabFits
  <1>2. \A j \in 1 .. n : toasts[j] \in Alerts
    BY <1>1, ElementOfSeq
  <1>3. before \in Seq(Alerts) /\ Len(before) = i - 1
    <2>1. \A j \in 1 .. (i - 1) : toasts[j] \in Alerts
      BY <1>1, <1>2
    <2>2. before \in Seq(Alerts) /\ Len(before) = IF 1 <= i - 1 THEN i - 1 - 1 + 1 ELSE 0
      BY <1>1, <2>1, SubSeqProperties
    <2> QED BY <1>1, <2>2
  <1>4. behind \in Seq(Alerts) /\ Len(behind) = n - i
    <2>1. \A j \in (i + 1) .. n : toasts[j] \in Alerts
      BY <1>1, <1>2
    <2>2. behind \in Seq(Alerts) /\ Len(behind) = IF i + 1 <= n THEN n - (i + 1) + 1 ELSE 0
      BY <1>1, <2>1, SubSeqProperties
    <2> QED BY <1>1, <2>2
  <1>5. before \o behind \in Seq(Alerts) /\ Len(before \o behind) = Len(before) + Len(behind)
    BY <1>3, <1>4, ConcatProperties
  <1>6. toasts' = before \o behind
    BY DEF Dismiss
  <1> HIDE DEF before, behind
  <1> QED BY <1>1, <1>3, <1>4, <1>5, <1>6

\* Every step keeps the count of the badge's stream up with its notices.
LEMMA TabKept ==
    ASSUME AlertInv, Next
    PROVE  TabFits'
  <1>0. TabFits
    BY DEF AlertInv, TypeOK, TabFits
  <1>1. CASE UNCHANGED tab
    BY <1>0, <1>1 DEF TabFits, NoticedCounted, tab
  <1>2. ASSUME NEW l \in Listeners, Notice(l) PROVE TabFits'
    <2> DEFINE a == Head(queue[l])
    <2>1. a \in Alerts
      <3> queue[l] \in Seq(Alerts) /\ queue[l] # <<>>
        BY <1>2 DEF Notice, AlertInv, TypeOK
      <3> QED OBVIOUS
    <2>2. CASE l = "badge"
      <3>1. liveCount' = liveCount + 1 /\ noticed' = noticed \cup {a} /\ toasts' = toasts
        BY <1>2, <2>2 DEF Notice
      <3>2. IsFiniteSet(noticed) /\ Cardinality(noticed) \in Nat /\ Cardinality(noticed) <= liveCount /\ liveCount \in Nat
        BY <1>0, FS_CardinalityType DEF TabFits, NoticedCounted
      <3>3. IsFiniteSet(noticed \cup {a}) /\ Cardinality(noticed \cup {a}) <= Cardinality(noticed) + 1
        BY <3>2, FS_AddElement
      <3>4. Cardinality(noticed \cup {a}) \in Nat
        BY <3>3, FS_CardinalityType
      <3>5. NoticedCounted'
        BY <3>1, <3>2, <3>3, <3>4 DEF NoticedCounted
      <3> QED BY <1>0, <2>1, <3>1, <3>2, <3>5 DEF TabFits
    <2>3. CASE l = "toast"
      <3>1. AddToast(a) /\ UNCHANGED <<noticed, liveCount>>
        BY <1>2, <2>3 DEF Notice
      <3>2. toasts' \in Seq(Alerts) /\ Len(toasts') <= ToastSlots
        BY <1>0, <2>1, <3>1, ToastSliced
      <3> QED BY <1>0, <3>1, <3>2 DEF TabFits, NoticedCounted
    <2>4. CASE l = "page"
      <3>1. UNCHANGED tab
        BY <1>2, <2>4 DEF Notice
      <3> QED BY <1>1, <3>1
    <2> QED BY <2>2, <2>3, <2>4 DEF Listeners
  <1>3. ASSUME NEW i \in DOMAIN toasts, Dismiss(i) PROVE TabFits'
    <2>1. toasts' \in Seq(Alerts) /\ Len(toasts') <= ToastSlots
      BY <1>0, <1>3, ToastDismissed
    <2> QED BY <1>0, <1>3, <2>1 DEF Dismiss, TabFits, NoticedCounted
  <1>4. \/ UNCHANGED tab
        \/ \E l \in Listeners : Notice(l)
        \/ \E i \in DOMAIN toasts : Dismiss(i)
    <2>1. \A a \in Alerts : Create(a) \/ Broadcast(a) \/ TasksLost(a) \/ Click(a) \/ (\E r \in Resolvers : OtherClicks(r, a))
              => UNCHANGED tab
      BY DEF Create, Broadcast, TasksLost, Click, OtherClicks
    <2>2. \A l \in Listeners : Subscribe(l) \/ StreamBreaks(l) => UNCHANGED tab
      BY DEF Subscribe, StreamBreaks
    <2>3. Fetching \/ ListFails => UNCHANGED tab
      BY DEF Fetching, Poll, ListAlerts, Listed, ListFails
    <2>4. \A r \in Resolvers : CheckUnresolved(r) \/ CommitResolve(r) \/ AnswerOk(r) => UNCHANGED tab
      BY DEF CheckUnresolved, CommitResolve, AnswerOk
    <2> QED BY <2>1, <2>2, <2>3, <2>4 DEF Next, Answering
  <1> QED BY <1>1, <1>2, <1>3, <1>4

\* Streams connect among those that can; faults stay within their bound.
LEMMA LinksKept ==
    ASSUME AlertInv, Next
    PROVE  streams' \subseteq Listeners /\ link' \subseteq streams' /\ faults' \in 0 .. MaxFaults
  <1>0. streams \subseteq Listeners /\ link \subseteq streams /\ faults \in 0 .. MaxFaults /\ MaxFaults \in Nat
    BY Sizes DEF AlertInv, TypeOK
  <1>1. \A a \in Alerts : Create(a) \/ Broadcast(a) \/ Click(a) \/ (\E r \in Resolvers : OtherClicks(r, a))
            => UNCHANGED <<streams, link, faults>>
    BY DEF Create, Broadcast, Click, OtherClicks, stream
  <1>2. \A a \in Alerts : TasksLost(a) => faults < MaxFaults /\ faults' = faults + 1 /\ UNCHANGED <<streams, link>>
    BY DEF TasksLost, stream
  <1>3. \A l \in Listeners : Subscribe(l) => link' \subseteq streams /\ UNCHANGED <<streams, faults>>
    BY <1>0 DEF Subscribe
  <1>4. \A l \in Listeners : StreamBreaks(l) =>
            faults < MaxFaults /\ faults' = faults + 1 /\ link' \subseteq link /\ UNCHANGED streams
    BY DEF StreamBreaks
  <1>5. \A l \in Listeners : Notice(l) => UNCHANGED <<streams, link, faults>>
    BY DEF Notice
  <1>6. \A i \in DOMAIN toasts : Dismiss(i) => UNCHANGED <<streams, link, faults>>
    BY DEF Dismiss, stream
  <1>7. Fetching => UNCHANGED <<streams, link, faults>>
    BY DEF Fetching, Poll, ListAlerts, Listed, stream
  <1>8. ListFails => faults < MaxFaults /\ faults' = faults + 1 /\ UNCHANGED <<streams, link>>
    BY DEF ListFails, stream
  <1>9. \A r \in Resolvers : Answering(r) => UNCHANGED <<streams, link, faults>>
    BY DEF Answering, CheckUnresolved, CommitResolve, AnswerOk, stream
  <1>10. \/ UNCHANGED <<streams, link, faults>>
         \/ UNCHANGED <<streams, faults>> /\ link' \subseteq streams
         \/ faults < MaxFaults /\ faults' = faults + 1 /\ link' \subseteq link /\ UNCHANGED streams
    BY <1>1, <1>2, <1>3, <1>4, <1>5, <1>6, <1>7, <1>8, <1>9 DEF Next
  <1> QED BY <1>0, <1>10

\* The initial states satisfy the invariant.
LEMMA AlertInit == Init => AlertInv
  <1> SUFFICES ASSUME Init PROVE AlertInv OBVIOUS
  <1>1. TypeOK
    <2>1. streams \subseteq Listeners
      BY StreamsAreListeners DEF Init
    <2>2. row \in [Alerts -> Status] /\ createdAt \in [Alerts -> Times \cup {0}]
          /\ stage \in [Alerts -> {"new", "tasks", "done"}]
      BY DEF Init, Status
    <2>3. queue \in [Listeners -> Seq(Alerts)] /\ \A l \in Listeners : Len(queue[l]) <= QueueSize
      BY Sizes DEF Init
    <2>4. toasts \in Seq(Alerts) /\ Len(toasts) <= ToastSlots
      BY Sizes DEF Init
    <2>5. data \in Rows /\ fetch.phase \in {"idle", "asked", "read"} /\ fetch.rows \in Rows
      BY DEF Init, Asked, Rows
    <2>6. req \in [Resolvers -> [alert : Alerts \cup {None}, after : BOOLEAN,
                                 phase : {"idle", "sent", "checked", "committed"}]]
      BY DEF Init, NoRequest
    <2>7. faults \in 0 .. MaxFaults
      BY Sizes DEF Init
    <2> QED BY <2>1, <2>2, <2>3, <2>4, <2>5, <2>6, <2>7 DEF Init, TypeOK
  <1>2. StageFollowsRow /\ ListedExist
    BY DEF Init, StageFollowsRow, ListedExist, Asked
  <1>3. QueuedExist
    BY DEF Init, QueuedExist
  <1>4. ResolvingExist /\ ResolvesCommitted /\ LateResolveRefused
    BY DEF Init, NoRequest, ResolvingExist, ResolvesCommitted, LateResolveRefused
  <1>5. OwedTrue /\ RefetchSeesTheChange
    BY DEF Init, OwedTrue, RefetchSeesTheChange
  <1>6. NoticedCounted
    BY FS_EmptySet DEF Init, NoticedCounted
  <1>7. FinitelyOpen
    <2>1. Existing = {} /\ Unresolved(fetch.rows) = {} /\ Unresolved(data) = {}
      BY DEF Init, Existing, Unresolved, Asked
    <2> QED BY <2>1, FS_EmptySet DEF FinitelyOpen
  <1> QED BY <1>1, <1>2, <1>3, <1>4, <1>5, <1>6, <1>7 DEF AlertInv

\* Every step keeps the invariant.
LEMMA AlertNext == AlertInv /\ [Next]_vars => AlertInv'
  <1> SUFFICES ASSUME AlertInv, [Next]_vars PROVE AlertInv' OBVIOUS
  <1>1. CASE Next
    <2>1. TableFits'
      BY <1>1, TableAges
    <2>2. QueuesFit'
      BY <1>1, QueuesKept
    <2>3. ListFits'
      BY <1>1, ListKept
    <2>4. ResolvesFit'
      BY <1>1, ResolvesKept
    <2>5. TabFits'
      BY <1>1, TabKept
    <2>6. streams' \subseteq Listeners /\ link' \subseteq streams' /\ faults' \in 0 .. MaxFaults
      BY <1>1, LinksKept
    <2>7. TypeOK'
      BY <2>1, <2>2, <2>3, <2>4, <2>5, <2>6 DEF TypeOK, TableFits, QueuesFit, ListFits, ResolvesFit, ReqType, TabFits
    <2> QED BY <2>1, <2>2, <2>3, <2>4, <2>5, <2>7 DEF AlertInv, TableFits, QueuesFit, ListFits, ResolvesFit, TabFits
  <1>2. CASE UNCHANGED vars
    <2>1. UNCHANGED <<row, createdAt, stage, streams, link, queue, noticed, liveCount, toasts, data, fetch, owed, req, answered, faults>>
      BY <1>2 DEF vars, table, stream, tab, list, resolve
    <2>2. TypeOK' /\ StageFollowsRow' /\ QueuedExist' /\ ListedExist' /\ ResolvingExist'
      BY <2>1 DEF AlertInv, TypeOK, StageFollowsRow, QueuedExist, ListedExist, ResolvingExist
    <2>3. OwedTrue' /\ RefetchSeesTheChange' /\ ResolvesCommitted' /\ LateResolveRefused' /\ NoticedCounted'
      BY <2>1 DEF AlertInv, OwedTrue, RefetchSeesTheChange, Cut, Newer, ResolvesCommitted, LateResolveRefused, NoticedCounted
    <2>4. FinitelyOpen'
      <3>1. Existing' = Existing /\ Unresolved(fetch.rows)' = Unresolved(fetch.rows) /\ Unresolved(data)' = Unresolved(data)
        BY <2>1 DEF Existing, Unresolved
      <3> QED BY <3>1 DEF AlertInv, FinitelyOpen
    <2> QED BY <2>2, <2>3, <2>4 DEF AlertInv
  <1> QED BY <1>1, <1>2

\* Every reachable state satisfies the invariant.
THEOREM AlertsInvariant == Spec => []AlertInv
  BY AlertInit, AlertNext, PTL DEF Spec

\* Alerts' TypeOK: whatever is broadcast and shown, no subscriber's queue outgrows its
\* maxsize and no stack of toasts its slots.
THEOREM AlertsTypeCorrect == Spec => []TypeOK
  <1>1. AlertInv => TypeOK BY DEF AlertInv
  <1> QED BY <1>1, AlertsInvariant, PTL

\* A list that answers a notice or a resolve was read after it.
THEOREM RefetchesSeeTheChange == Spec => []RefetchSeesTheChange
  <1>1. AlertInv => RefetchSeesTheChange BY DEF AlertInv
  <1> QED BY <1>1, AlertsInvariant, PTL

\* A resolve sent after another one was answered is refused.
THEOREM LateResolvesRefused == Spec => []LateResolveRefused
  <1>1. AlertInv => LateResolveRefused BY DEF AlertInv
  <1> QED BY <1>1, AlertsInvariant, PTL

\* The number in the sidebar is at least the number of unresolved alerts the tab knows of:
\* each of them is listed as open or was counted when it was noticed.
LEMMA BadgeCovers == AlertInv => BadgeCoversKnownAlerts
  <1> SUFFICES ASSUME AlertInv PROVE BadgeCoversKnownAlerts OBVIOUS
  <1> DEFINE known == {a \in Alerts : row[a] = "open" /\ (a \in noticed \/ a \in Unresolved(data))}
             listed == Unresolved(data)
  <1>1. IsFiniteSet(noticed) /\ IsFiniteSet(listed) /\ Cardinality(noticed) <= liveCount /\ liveCount \in Nat
    BY DEF AlertInv, TypeOK, NoticedCounted, FinitelyOpen
  <1>2. known \subseteq noticed \cup listed
    OBVIOUS
  <1> HIDE DEF known, listed
  <1>3. IsFiniteSet(noticed \cup listed) /\ IsFiniteSet(noticed \cap listed)
        /\ Cardinality(noticed \cup listed) = Cardinality(noticed) + Cardinality(listed) - Cardinality(noticed \cap listed)
    BY <1>1, FS_Union, FS_Intersection
  <1>4. IsFiniteSet(known) /\ Cardinality(known) <= Cardinality(noticed \cup listed)
    BY <1>2, <1>3, FS_Subset
  <1>5. Cardinality(noticed) \in Nat /\ Cardinality(listed) \in Nat /\ Cardinality(noticed \cap listed) \in Nat
        /\ Cardinality(known) \in Nat
    BY <1>1, <1>3, <1>4, FS_CardinalityType
  <1>6. Cardinality(listed) + liveCount >= Cardinality(known)
    BY <1>1, <1>3, <1>4, <1>5
  <1> QED BY <1>6 DEF BadgeCoversKnownAlerts, Badge, known, listed

\* It may count an alert twice, but never misses one.
THEOREM BadgeCoversKnown == Spec => []BadgeCoversKnownAlerts
  BY BadgeCovers, AlertsInvariant, PTL
=============================================================================
