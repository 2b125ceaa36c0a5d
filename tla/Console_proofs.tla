---------------------------- MODULE Console_proofs ----------------------------
(***************************************************************************)
(* Theorems about Accounts, Session, AdminPages and LogPages as MCConsole  *)
(* explores them, for any sets of users, requests, rows and devices and    *)
(* any bounds.                                                             *)
(***************************************************************************)
EXTENDS MCConsole, TLAPS

\* What is proved of the account table by itself.
AP == INSTANCE Accounts_proofs WITH req <- request

\* Session: only a document that is being left shows the login page with a request of
\* the pages under way, and LoginPage's own request is there only on that page.
LoginIsQuiet ==
    /\ at = "login" /\ ~leaving => \A p \in Polls : poll[p].phase = "idle"
    /\ login # "none" => at = "login" /\ logins < MaxLogins

SInv == S!TypeOK /\ LoginIsQuiet /\ RefusalsAreOwn

\* LogPages: no device has more rows than the table.
CountsBounded == \A f \in L!Filters : count[f] <= count[L!All]

LInv == L!TypeOK /\ CountsBounded

\* AdminPages.  Rows stay: what the list shows, what a patch is sent for and what a
\* button asked for is a row of the table.
RowsStay ==
    /\ \A table \in {list, fetch.rows} :
        table # None => \A i \in Items : table[i] # None => rows[i] # None
    /\ \A r \in Requests : req[r].op \in P!Patches => rows[req[r].item] # None
    /\ \A i \in Items : wanted[i] # None => rows[i] # None

\* A request has an operation as long as it is under way; the page that gave up on it
\* shows it no more; of the patches, and of the creations, one at most is shown.
Clicked ==
    /\ \A r \in Requests : req[r].op = None <=> req[r].phase = "idle"
    /\ \A r \in Requests : req[r].phase \in {"idle", "orphan"} => ~req[r].seen
    /\ \A q, r \in Requests :
        req[q].seen /\ req[r].seen /\ (\/ {req[q].op, req[r].op} \subseteq P!Patches
                                       \/ req[q].op = "create" /\ req[r].op = "create") => q = r

\* Before the first list there are no rows to click at.
OnlyCreatesBeforeList ==
    list = None => \A r \in Requests : req[r].op \in {"create", None}

\* A change was committed whose answer has not come.
Unanswered == \E r \in Requests : req[r].phase = "ok" /\ req[r].op # "test"

\* A list that nothing has overtaken is that of the table.
ListCurrent ==
    ~unseen /\ ~Unanswered =>
        /\ fetch.phase = "idle" => list = rows
        /\ fetch.phase = "read" => fetch.rows = rows

\* UsersPage: where only clicks on a row's button decide, the toggle under way is the
\* one shown, so that there is only one; until its commit it carries what is wanted,
\* and from then on the row is what is wanted.
ToggleCarriesWish ==
    page = "users" =>
        \A i \in Items : wanted[i] # None =>
            \A r \in Requests : req[r].op = "toggle" /\ req[r].item = i =>
                /\ req[r].seen
                /\ req[r].phase = "sent" => req[r].value = wanted[i]
                /\ req[r].phase # "sent" => rows[i].active = wanted[i]

\* A list that is being fetched, or read, or none; data of a fetch only once it is read.
FetchesHoldRows == (fetch.phase = "read") <=> (fetch.rows # None)

PInv ==
    /\ P!TypeOK
    /\ RowsStay /\ Clicked /\ OnlyCreatesBeforeList /\ FetchesHoldRows
    /\ ListCurrent /\ ToggleCarriesWish /\ LastToggleWins

CInv == AP!AInv /\ SInv /\ LInv /\ PInv

----------------------------------------------------------------------------
(* Session *)

\* The initial states satisfy Session's invariant.
LEMMA SInit == S!Init => SInv
  <1> SUFFICES ASSUME S!Init PROVE SInv OBVIOUS
  <1>1. poll = [p \in Polls |-> [token |-> None, phase |-> "idle"]]
    BY DEF S!Init, S!NoPolls, S!NoPoll
  <1>2. S!TypeOK
    <2>1. poll \in [Polls -> [token : 1..MaxLogins \cup {None}, phase : {"idle", "sent", "ok", "401"}]]
      BY <1>1
    <2>2. logins \in 0..MaxLogins
      BY Bounds DEF S!Init
    <2>3. enabled \in BOOLEAN /\ leaving \in BOOLEAN
      BY DEF S!Init
    <2> QED BY <2>1, <2>2, <2>3 DEF S!Init, S!TypeOK
  <1>3. LoginIsQuiet /\ RefusalsAreOwn
    BY <1>1 DEF S!Init, LoginIsQuiet, RefusalsAreOwn, S!RefusalsAreOwn
  <1> QED BY <1>2, <1>3 DEF SInv

\* Leaving the document takes its requests along.
LEMMA SNoPolls ==
    ASSUME poll' = S!NoPolls
    PROVE  /\ poll' \in [Polls -> [token : 1..MaxLogins \cup {None}, phase : {"idle", "sent", "ok", "401"}]]
           /\ \A p \in Polls : poll'[p].phase = "idle"
  BY DEF S!NoPolls, S!NoPoll

\* A request of the pages changes by itself only.
LEMMA SPollKeeps ==
    ASSUME SInv, NEW p \in Polls, at = "app" \/ leaving, UNCHANGED <<at, token, logins, leaving, login>>, enabled' \in BOOLEAN,
           NEW q \in [token : 1..MaxLogins \cup {None}, phase : {"idle", "sent", "ok", "401"}],
           poll' = [poll EXCEPT ![p] = q], q.phase # "idle" => q.token = token \/ leaving
    PROVE  SInv'
  <1>1. poll \in [Polls -> [token : 1..MaxLogins \cup {None}, phase : {"idle", "sent", "ok", "401"}]]
    BY DEF SInv, S!TypeOK
  <1>2. poll' \in [Polls -> [token : 1..MaxLogins \cup {None}, phase : {"idle", "sent", "ok", "401"}]]
    BY <1>1
  <1>3. \A r \in Polls : poll'[r].phase # "idle" => poll'[r].token = token \/ leaving
    BY <1>1 DEF SInv, RefusalsAreOwn, S!RefusalsAreOwn
  <1> QED BY <1>2, <1>3 DEF SInv, S!TypeOK, LoginIsQuiet, RefusalsAreOwn, S!RefusalsAreOwn

\* Every step of Session keeps its invariant.
LEMMA SNext == SInv /\ [S!Next]_session => SInv'
  <1> SUFFICES ASSUME SInv, [S!Next]_session PROVE SInv' OBVIOUS
  <1> DEFINE Asked == [token : 1..MaxLogins \cup {None}, phase : {"idle", "sent", "ok", "401"}]
  <1>0. poll \in [Polls -> Asked] /\ token \in 1..MaxLogins \cup {None} /\ logins \in 0..MaxLogins /\ MaxLogins \in Nat
    BY Bounds DEF SInv, S!TypeOK
  <1>1. ASSUME NEW p \in {"login", "app"}, S!Load(p) PROVE SInv'
    <2>1. poll' \in [Polls -> Asked] /\ \A r \in Polls : poll'[r].phase = "idle"
      BY <1>1, SNoPolls DEF S!Load
    <2> QED BY <1>1, <2>1 DEF S!Load, SInv, S!TypeOK, LoginIsQuiet, RefusalsAreOwn, S!RefusalsAreOwn
  <1>2. ASSUME S!Logout, UNCHANGED <<enabled, logins>>, poll' \in [Polls -> Asked] PROVE SInv'
    BY <1>2 DEF S!Logout, SInv, S!TypeOK, LoginIsQuiet, RefusalsAreOwn, S!RefusalsAreOwn
  <1>3. CASE S!SignOut
    BY <1>0, <1>2, <1>3 DEF S!SignOut
  <1>4. CASE S!Submit \/ S!LoginAccepted \/ S!LoginRefused
    <2>1. UNCHANGED <<enabled, at, token, logins, leaving, poll>> /\ login' \in {"none", "sent", "accepted"}
      BY <1>4 DEF S!Submit, S!LoginAccepted, S!LoginRefused
    <2>2. login' # "none" => at = "login" /\ logins < MaxLogins
      BY <1>0, <1>4 DEF S!Submit, S!LoginAccepted, S!LoginRefused, SInv, LoginIsQuiet
    <2> QED BY <2>1, <2>2 DEF SInv, S!TypeOK, LoginIsQuiet, RefusalsAreOwn, S!RefusalsAreOwn
  <1>5. CASE S!LoginOk
    <2>1. at = "login" /\ logins < MaxLogins /\ (~leaving => \A p \in Polls : poll[p].phase = "idle")
      BY <1>5 DEF S!LoginOk, SInv, LoginIsQuiet
    <2>2. logins' \in 0..MaxLogins /\ token' \in 1..MaxLogins /\ token' # None
      BY <1>0, <1>5, <2>1, NoneIsNothing DEF S!LoginOk
    <2> QED BY <1>5, <2>1, <2>2 DEF S!LoginOk, SInv, S!TypeOK, LoginIsQuiet, RefusalsAreOwn, S!RefusalsAreOwn
  <1>6. ASSUME NEW p \in Polls, S!SendPoll(p) PROVE SInv'
    <2> DEFINE q == [token |-> token, phase |-> "sent"]
    <2>1. q \in Asked /\ q.token = token /\ poll' = [poll EXCEPT ![p] = q] /\ at = "app"
      BY <1>0, <1>6 DEF S!SendPoll
    <2>2. UNCHANGED <<enabled, at, token, logins, leaving, login>> /\ enabled' \in BOOLEAN
      BY <1>6 DEF S!SendPoll, SInv, S!TypeOK
    <2> HIDE DEF q
    <2> QED BY <2>1, <2>2, SPollKeeps
  <1>7. ASSUME NEW p \in Polls, S!Authenticated(p) \/ S!Settled(p) \/ (S!Unauthorised(p) /\ token = None)
        PROVE  SInv'
    <2>1. poll[p].phase # "idle" /\ UNCHANGED <<enabled, at, token, logins, leaving, login>>
      BY <1>7 DEF S!Authenticated, S!Settled, S!Unauthorised
    <2>2. at = "app" \/ leaving
      BY <2>1 DEF SInv, LoginIsQuiet, S!TypeOK
    <2>3. PICK q \in {[poll[p] EXCEPT !.phase = "ok"], [poll[p] EXCEPT !.phase = "401"], S!NoPoll} :
            poll' = [poll EXCEPT ![p] = q]
      BY <1>7 DEF S!Authenticated, S!Settled, S!Unauthorised
    <2>4. q \in Asked /\ (q.phase # "idle" => q.token = poll[p].token)
      BY <1>0, <2>3 DEF S!NoPoll
    <2>5. poll[p].token = token \/ leaving
      BY <2>1 DEF SInv, RefusalsAreOwn, S!RefusalsAreOwn
    <2>6. enabled' \in BOOLEAN
      BY <2>1 DEF SInv, S!TypeOK
    <2> QED BY <2>1, <2>2, <2>3, <2>4, <2>5, <2>6, SPollKeeps
  <1>8. ASSUME NEW p \in Polls, S!Unauthorised(p), token # None PROVE SInv'
    <2>1. poll' \in [Polls -> Asked]
      BY <1>0, <1>8 DEF S!Unauthorised, S!NoPoll
    <2> QED BY <1>2, <1>8, <2>1 DEF S!Unauthorised
  <1>9. ASSUME NEW b \in BOOLEAN, S!SetActive(b) PROVE SInv'
    BY <1>9 DEF S!SetActive, SInv, S!TypeOK, LoginIsQuiet, RefusalsAreOwn, S!RefusalsAreOwn
  <1>10. CASE UNCHANGED session
    BY <1>10 DEF session, SInv, S!TypeOK, LoginIsQuiet, RefusalsAreOwn, S!RefusalsAreOwn
  <1> QED BY <1>1, <1>3, <1>4, <1>5, <1>6, <1>7, <1>8, <1>9, <1>10 DEF S!Next

----------------------------------------------------------------------------
(* LogPages *)

\* A full page of the rows that were counted is not the last page there can be.
LEMMA PageInside ==
    ASSUME NEW n \in 0..MaxRows, NEW p \in Nat \ {0}, L!Cut(n, p) >= PageSize
    PROVE  p <= MaxRows \div PageSize
  <1>1. PageSize \in Nat \ {0} /\ MaxRows \in Nat /\ n \in Nat /\ n <= MaxRows
    BY Bounds
  <1>2. (p - 1) * PageSize \in Nat
    BY <1>1
  <1>3. n - (p - 1) * PageSize >= PageSize
    BY <1>1, <1>2 DEF L!Cut
  <1>4. p * PageSize = (p - 1) * PageSize + PageSize
    BY <1>1
  <1>5. p * PageSize <= MaxRows
    BY <1>1, <1>2, <1>3, <1>4
  <1> QED BY <1>1, <1>5

\* The initial states satisfy LogPages' invariant.
LEMMA LInit == L!Init => LInv
  <1> SUFFICES ASSUME L!Init PROVE LInv OBVIOUS
  <1>1. {MaxRows, MaxMoves} \subseteq Nat /\ L!MaxPage \in Nat \ {0}
    BY Bounds DEF L!MaxPage
  <1>2. view \in L!Keys
    BY <1>1 DEF L!Init, L!Keys, L!Filters
  <1>3. count \in [L!Filters -> 0..MaxRows] /\ moves \in 0..MaxMoves
    BY <1>1 DEF L!Init
  <1>4. fetches \in [L!Keys -> [phase : {"idle", "asked", "read"}, rows : 0..MaxRows \cup {None}]]
    BY DEF L!Init, L!Asked, L!NoFetch
  <1>5. cached \in [L!Keys -> 0..MaxRows \cup {None}]
    BY DEF L!Init
  <1>6. CountsBounded
    BY DEF L!Init, CountsBounded, L!Filters
  <1> QED BY <1>2, <1>3, <1>4, <1>5, <1>6 DEF LInv, L!TypeOK

\* Another filter or page within the pages there are.
LEMMA LShowKeeps ==
    ASSUME LInv, NEW f \in L!Filters, NEW p \in 1..L!MaxPage, L!Show(f, p)
    PROVE  LInv'
  <1>1. view' \in L!Keys
    BY DEF L!Show, L!Keys
  <1>2. moves' \in 0..MaxMoves
    BY Bounds DEF L!Show, LInv, L!TypeOK
  <1>3. fetches' = fetches \/ fetches' = [fetches EXCEPT ![view'] = L!Asked]
    BY DEF L!Show
  <1>4. fetches' \in [L!Keys -> [phase : {"idle", "asked", "read"}, rows : 0..MaxRows \cup {None}]]
    BY <1>1, <1>3 DEF LInv, L!TypeOK, L!Asked
  <1> QED BY <1>1, <1>2, <1>4 DEF L!Show, LInv, L!TypeOK, CountsBounded

\* Every step of LogPages keeps its invariant.
LEMMA LNext == LInv /\ [L!Next]_logs => LInv'
  <1> SUFFICES ASSUME LInv, [L!Next]_logs PROVE LInv' OBVIOUS
  <1>0. /\ count \in [L!Filters -> 0..MaxRows] /\ view \in L!Keys
        /\ cached \in [L!Keys -> 0..MaxRows \cup {None}]
        /\ fetches \in [L!Keys -> [phase : {"idle", "asked", "read"}, rows : 0..MaxRows \cup {None}]]
        /\ MaxRows \in Nat /\ L!MaxPage \in Nat \ {0} /\ L!All \in L!Filters
    <2>1. MaxRows \in Nat /\ L!MaxPage \in Nat \ {0}
      BY Bounds DEF L!MaxPage
    <2>2. L!All \in L!Filters
      BY DEF L!Filters
    <2> QED BY <2>1, <2>2 DEF LInv, L!TypeOK
  <1>1. ASSUME NEW d \in Devices, L!Ingest(d) PROVE LInv'
    <2>1. \A f \in L!Filters : count[f] <= count[L!All] /\ count[f] \in Nat /\ count[L!All] \in Nat
      BY <1>0 DEF LInv, CountsBounded
    <2>2. \A f \in L!Filters : count'[f] = count[f] \/ (count'[f] = count[f] + 1)
      BY <1>1 DEF L!Ingest
    <2>3. count[L!All] < MaxRows /\ count'[L!All] = count[L!All] + 1
      BY <1>0, <1>1 DEF L!Ingest
    <2>4. \A f \in L!Filters : count'[f] <= count'[L!All] /\ count'[f] \in 0..MaxRows
      BY <1>0, <2>1, <2>2, <2>3
    <2>5. count' \in [L!Filters -> 0..MaxRows]
      BY <1>1, <2>4 DEF L!Ingest
    <2> QED BY <1>1, <2>4, <2>5 DEF L!Ingest, LInv, L!TypeOK, CountsBounded
  <1>2. ASSUME NEW f \in L!Filters, L!SelectDevice(f) PROVE LInv'
    BY <1>0, <1>2, LShowKeeps DEF L!SelectDevice
  <1>3. view.filter \in L!Filters /\ view.page \in 1..L!MaxPage
    BY <1>0 DEF L!Keys
  <1>4. CASE L!Previous
    <2>1. view.page - 1 \in 1..L!MaxPage /\ L!Show(view.filter, view.page - 1)
      BY <1>0, <1>3, <1>4 DEF L!Previous
    <2> QED BY <1>3, <2>1, LShowKeeps
  <1>5. CASE L!NextPage
    <2>1. L!Show(view.filter, view.page + 1) /\ L!Shown >= PageSize
      BY <1>5 DEF L!NextPage
    <2>2. cached[view] # None
      BY <2>1, Bounds DEF L!Shown
    <2>3. cached[view] \in 0..MaxRows /\ L!Cut(cached[view], view.page) >= PageSize
      BY <1>0, <2>1, <2>2 DEF L!Shown
    <2>4. view.page <= MaxRows \div PageSize /\ view.page \in Nat \ {0}
      <3>1. view.page \in Nat \ {0}
        BY <1>0, <1>3
      <3> QED BY <2>3, <3>1, PageInside
    <2>5. MaxRows \div PageSize \in Nat
      BY Bounds
    <2>6. view.page + 1 \in 1..L!MaxPage
      BY <2>4, <2>5 DEF L!MaxPage
    <2> QED BY <1>3, <2>1, <2>6, LShowKeeps
  <1>6. ASSUME NEW k \in L!Keys, L!Refetch(k) \/ L!Read(k) \/ L!Fails(k) PROVE LInv'
    <2>1. UNCHANGED <<count, view, cached, moves>>
      BY <1>6 DEF L!Refetch, L!Read, L!Fails
    <2>2. k.filter \in L!Filters
      BY DEF L!Keys
    <2>3. fetches' \in [L!Keys -> [phase : {"idle", "asked", "read"}, rows : 0..MaxRows \cup {None}]]
      BY <1>0, <1>6, <2>2 DEF L!Refetch, L!Read, L!Fails, L!Asked, L!ReadBy, L!NoFetch
    <2> QED BY <2>1, <2>3 DEF LInv, L!TypeOK, CountsBounded
  <1>7. ASSUME NEW k \in L!Keys, L!Answer(k) PROVE LInv'
    <2>1. UNCHANGED <<count, view, moves>>
      BY <1>7 DEF L!Answer
    <2>2. fetches' \in [L!Keys -> [phase : {"idle", "asked", "read"}, rows : 0..MaxRows \cup {None}]]
      BY <1>0, <1>7 DEF L!Answer, L!NoFetch
    <2>3. cached' \in [L!Keys -> 0..MaxRows \cup {None}]
      BY <1>0, <1>7 DEF L!Answer
    <2> QED BY <2>1, <2>2, <2>3 DEF LInv, L!TypeOK, CountsBounded
  <1>8. CASE UNCHANGED logs
    BY <1>8 DEF logs, LInv, L!TypeOK, CountsBounded
  <1> QED BY <1>1, <1>2, <1>4, <1>5, <1>6, <1>7, <1>8 DEF L!Next

----------------------------------------------------------------------------
(* AdminPages *)

Phases == {"idle", "sent", "ok", "orphan", "refetching"}

\* Two states of one request: the same but for its phase and its visibility.
SameRequest(p, q) == p.op = q.op /\ p.item = q.item /\ p.value = q.value

\* A request that is shown or not is the same request.
LEMMA SeenChanged ==
    ASSUME NEW q \in P!Request, NEW b \in BOOLEAN
    PROVE  /\ [q EXCEPT !.seen = b] \in P!Request
           /\ SameRequest([q EXCEPT !.seen = b], q)
           /\ [q EXCEPT !.seen = b].seen = b /\ [q EXCEPT !.seen = b].phase = q.phase
  <1>1. CASE q \in P!Asking({"toggle"}, Items, BOOLEAN)
    BY <1>1 DEF P!Request, P!Asking, Phases, SameRequest
  <1>2. CASE q \in P!Asking({"select"}, Items, P!Roles)
    BY <1>2 DEF P!Request, P!Asking, Phases, SameRequest
  <1>3. CASE q \in P!Asking({"delete", "test"}, Items, {None})
    BY <1>3 DEF P!Request, P!Asking, Phases, SameRequest
  <1>4. CASE q \in P!Asking({"create", None}, {None}, {None})
    BY <1>4 DEF P!Request, P!Asking, Phases, SameRequest
  <1> QED BY <1>1, <1>2, <1>3, <1>4 DEF P!Request

\* A request that goes on is the same request.
LEMMA PhaseChanged ==
    ASSUME NEW q \in P!Request, NEW ph \in Phases
    PROVE  /\ [q EXCEPT !.phase = ph] \in P!Request
           /\ SameRequest([q EXCEPT !.phase = ph], q)
           /\ [q EXCEPT !.phase = ph].seen = q.seen /\ [q EXCEPT !.phase = ph].phase = ph
  <1>1. CASE q \in P!Asking({"toggle"}, Items, BOOLEAN)
    BY <1>1 DEF P!Request, P!Asking, Phases, SameRequest
  <1>2. CASE q \in P!Asking({"select"}, Items, P!Roles)
    BY <1>2 DEF P!Request, P!Asking, Phases, SameRequest
  <1>3. CASE q \in P!Asking({"delete", "test"}, Items, {None})
    BY <1>3 DEF P!Request, P!Asking, Phases, SameRequest
  <1>4. CASE q \in P!Asking({"create", None}, {None}, {None})
    BY <1>4 DEF P!Request, P!Asking, Phases, SameRequest
  <1> QED BY <1>1, <1>2, <1>3, <1>4 DEF P!Request

\* The phase and the visibility of a request.
LEMMA RequestFields ==
    ASSUME NEW q \in P!Request
    PROVE  q.phase \in Phases /\ q.seen \in BOOLEAN
  BY DEF P!Request, P!Asking, Phases

\* What a request can ask of a row.
LEMMA RequestValues ==
    ASSUME NEW q \in P!Request
    PROVE  /\ q.op = "toggle" => q.item \in Items /\ q.value \in BOOLEAN
           /\ q.op = "select" => q.item \in Items /\ q.value \in P!Roles
           /\ q.op \in {"delete", "test"} => q.item \in Items
           /\ q.op \in {"toggle", "select", "delete", "test", "create", None}
  BY NoneIsNothing DEF P!Request, P!Asking

\* No request is a request that is idle.
LEMMA NoRequestIsIdle ==
    /\ P!NoRequest \in P!Request /\ P!NoRequest.op = None /\ P!NoRequest.phase = "idle"
    /\ P!NoRequest.seen = FALSE
  BY DEF P!NoRequest, P!Request, P!Asking

\* A click starts one request; those its useMutation showed are shown no more.
LEMMA Started ==
    ASSUME PInv, NEW r \in Requests, NEW ops, NEW op, NEW i, NEW v, P!Start(r, ops, op, i, v),
           [op |-> op, item |-> i, value |-> v, phase |-> "sent", seen |-> TRUE] \in P!Request
    PROVE  /\ req' \in [Requests -> P!Request]
           /\ req[r].phase = "idle" /\ req[r].op = None
           /\ req'[r] = [op |-> op, item |-> i, value |-> v, phase |-> "sent", seen |-> TRUE]
           /\ \A s \in Requests \ {r} :
                /\ SameRequest(req'[s], req[s]) /\ req'[s].phase = req[s].phase
                /\ req'[s].seen <=> req[s].seen /\ req[s].op \notin ops
  <1>1. req \in [Requests -> P!Request]
    BY DEF PInv, P!TypeOK
  <1>2. req[r].phase = "idle" /\ req[r].op = None
    BY DEF P!Start, PInv, Clicked
  <1>3. req'[r] = [op |-> op, item |-> i, value |-> v, phase |-> "sent", seen |-> TRUE]
    BY DEF P!Start
  <1>4. ASSUME NEW s \in Requests \ {r}
        PROVE  /\ req'[s] \in P!Request
               /\ SameRequest(req'[s], req[s]) /\ req'[s].phase = req[s].phase
               /\ req'[s].seen <=> req[s].seen /\ req[s].op \notin ops
    <2> DEFINE b == req[s].seen /\ req[s].op \notin ops
    <2>1. req'[s] = [req[s] EXCEPT !.seen = b]
      BY DEF P!Start
    <2>2. b \in BOOLEAN /\ req[s] \in P!Request
      BY <1>1, RequestFields
    <2> HIDE DEF b
    <2>4. req'[s] \in P!Request /\ SameRequest(req'[s], req[s]) /\ req'[s].phase = req[s].phase /\ req'[s].seen = b
      BY <2>1, <2>2, SeenChanged
    <2> QED BY <2>4 DEF b
  <1>5. req' \in [Requests -> P!Request]
    <2>1. \A s \in Requests : req'[s] \in P!Request
      BY <1>3, <1>4
    <2> QED BY <2>1 DEF P!Start
  <1> QED BY <1>2, <1>3, <1>4, <1>5

\* A step without a click: every request goes on as it was, less visible at most, or is
\* no more.
Onward(s) ==
    \/ req'[s] = P!NoRequest
    \/ /\ SameRequest(req'[s], req[s])
       /\ req'[s].seen => req[s].seen
       /\ req'[s].phase = "idle" <=> req[s].phase = "idle"
       /\ req'[s].phase = "orphan" => ~req'[s].seen

NoClick == req' \in [Requests -> P!Request] /\ \A s \in Requests : Onward(s)

\* Then the requests stay in order.
LEMMA NoClickKeeps ==
    ASSUME PInv, NoClick
    PROVE  /\ Clicked'
           /\ (list' = None => list = None) => OnlyCreatesBeforeList'
           /\ \A s \in Requests : req'[s].op # None => SameRequest(req'[s], req[s])
  <1>1. ASSUME NEW s \in Requests
        PROVE  /\ req'[s].op = None <=> req'[s].phase = "idle"
               /\ req'[s].phase \in {"idle", "orphan"} => ~req'[s].seen
               /\ req'[s].seen => req[s].seen /\ SameRequest(req'[s], req[s])
               /\ req'[s].op # None => SameRequest(req'[s], req[s])
    <2>1. CASE req'[s] = P!NoRequest
      BY <2>1, NoRequestIsIdle
    <2>2. CASE req'[s] # P!NoRequest
      <3>1. /\ SameRequest(req'[s], req[s])
            /\ req'[s].seen => req[s].seen
            /\ req'[s].phase = "idle" <=> req[s].phase = "idle"
            /\ req'[s].phase = "orphan" => ~req'[s].seen
        BY <2>2 DEF NoClick, Onward
      <3>2. /\ req[s].op = None <=> req[s].phase = "idle"
            /\ req[s].phase = "idle" => ~req[s].seen
        BY DEF PInv, Clicked
      <3> QED BY <3>1, <3>2 DEF SameRequest
    <2> QED BY <2>1, <2>2
  <1>2. ASSUME NEW q \in Requests, NEW r \in Requests, req'[q].seen, req'[r].seen,
               \/ {req'[q].op, req'[r].op} \subseteq P!Patches
               \/ req'[q].op = "create" /\ req'[r].op = "create"
        PROVE  q = r
    <2>1. req[q].seen /\ req[r].seen /\ req'[q].op = req[q].op /\ req'[r].op = req[r].op
      BY <1>1, <1>2 DEF SameRequest
    <2> QED BY <1>2, <2>1 DEF PInv, Clicked
  <1>3. Clicked'
    BY <1>1, <1>2 DEF Clicked
  <1>4. ASSUME list' = None => list = None PROVE OnlyCreatesBeforeList'
    BY <1>1, <1>4 DEF OnlyCreatesBeforeList, PInv, SameRequest
  <1> QED BY <1>1, <1>3, <1>4

\* No row is removed: db.delete is not awaited, and nothing else deletes.
RowsKeep == \A i \in Items : rows[i] # None => rows'[i] # None

\* So a step without a click keeps what is listed and asked for within the table.
LEMMA RowsStayKept ==
    ASSUME PInv, NoClick, RowsKeep,
           list' \in {list, fetch.rows}, fetch'.rows \in {fetch.rows, None, rows},
           \A i \in Items : wanted'[i] \in {wanted[i], None}
    PROVE  RowsStay'
  <1>1. ASSUME NEW table \in {list', fetch'.rows}, table # None, NEW i \in Items, table[i] # None
        PROVE  rows'[i] # None
    <2>1. table \in {list, fetch.rows, rows}
      BY <1>1
    <2> QED BY <1>1, <2>1 DEF PInv, RowsStay, RowsKeep
  <1>2. ASSUME NEW r \in Requests, req'[r].op \in P!Patches PROVE rows'[req'[r].item] # None
    <2>1. req'[r].op # None
      BY <1>2, NoneIsNothing DEF P!Patches
    <2>2. req[r].op \in P!Patches /\ req'[r].item = req[r].item /\ rows[req[r].item] # None
      BY <1>2, <2>1, NoClickKeeps DEF SameRequest, PInv, RowsStay
    <2>3. req[r].item \in Items
      BY <2>2, RequestValues DEF PInv, P!TypeOK, P!Patches
    <2> QED BY <2>2, <2>3 DEF RowsKeep
  <1>3. ASSUME NEW i \in Items, wanted'[i] # None PROVE rows'[i] # None
    BY <1>3 DEF PInv, RowsStay, RowsKeep
  <1> QED BY <1>1, <1>2, <1>3 DEF RowsStay

\* A wish that stays meets the same row and the same toggle, or one that has committed
\* and is no more.
WishesStay ==
    /\ \A i \in Items : wanted'[i] # None => wanted'[i] = wanted[i] /\ rows'[i].active = rows[i].active
    /\ \A r \in Requests : req[r].op = "toggle" /\ wanted'[req[r].item] # None =>
        \/ req'[r] = P!NoRequest /\ req[r].phase # "sent"
        \/ /\ SameRequest(req'[r], req[r])
           /\ req[r].seen => req'[r].seen
           /\ req'[r].phase = "sent" <=> req[r].phase = "sent"

\* Such a step keeps the toggles in their order.
LEMMA WishesKept ==
    ASSUME PInv, NoClick, page' = page, WishesStay
    PROVE  ToggleCarriesWish' /\ LastToggleWins'
  <1>1. ASSUME page = "users", NEW i \in Items, wanted'[i] # None, NEW r \in Requests,
               req'[r].op = "toggle", req'[r].item = i
        PROVE  /\ req'[r].seen
               /\ req'[r].phase = "sent" => req'[r].value = wanted'[i]
               /\ req'[r].phase # "sent" => rows'[i].active = wanted'[i]
    <2>1. req'[r].op # None
      BY <1>1, NoneIsNothing
    <2>2. SameRequest(req'[r], req[r])
      BY <2>1, NoClickKeeps
    <2>3. req[r].op = "toggle" /\ req[r].item = i
      BY <1>1, <2>2 DEF SameRequest
    <2>4. req'[r] # P!NoRequest
      BY <2>1, NoRequestIsIdle
    <2>5. (req[r].seen => req'[r].seen) /\ (req'[r].phase = "sent" <=> req[r].phase = "sent")
      BY <1>1, <2>3, <2>4 DEF WishesStay
    <2>6. wanted'[i] = wanted[i] /\ rows'[i].active = rows[i].active
      BY <1>1 DEF WishesStay
    <2>7. /\ req[r].seen
          /\ req[r].phase = "sent" => req[r].value = wanted[i]
          /\ req[r].phase # "sent" => rows[i].active = wanted[i]
      BY <1>1, <2>3, <2>6 DEF PInv, ToggleCarriesWish
    <2> QED BY <2>2, <2>5, <2>6, <2>7 DEF SameRequest
  <1>2. ASSUME page = "users", NEW i \in Items, wanted'[i] # None,
               \A r \in Requests : ~(req'[r].op = "toggle" /\ req'[r].item = i)
        PROVE  rows'[i].active = wanted'[i]
    <2>1. wanted'[i] = wanted[i] /\ rows'[i].active = rows[i].active
      BY <1>2 DEF WishesStay
    <2>2. CASE \A r \in Requests : ~(req[r].op = "toggle" /\ req[r].item = i)
      BY <1>2, <2>1, <2>2 DEF PInv, LastToggleWins, P!LastToggleWins, P!Toggling
    <2>3. CASE \E r \in Requests : req[r].op = "toggle" /\ req[r].item = i
      <3>1. PICK r \in Requests : req[r].op = "toggle" /\ req[r].item = i
        BY <2>3
      <3>2. ~SameRequest(req'[r], req[r])
        BY <1>2, <3>1 DEF SameRequest
      <3>3. req[r].phase # "sent"
        BY <1>2, <3>1, <3>2 DEF WishesStay
      <3> QED BY <1>2, <2>1, <3>1, <3>3 DEF PInv, ToggleCarriesWish
    <2> QED BY <2>2, <2>3
  <1> QED BY <1>1, <1>2 DEF ToggleCarriesWish, LastToggleWins, P!LastToggleWins, P!Toggling

\* What a step without a click has to show.
LEMMA NoClickInv ==
    ASSUME PInv, NoClick, page' = page, rows' \in P!Tables, RowsKeep,
           list' \in {list, fetch.rows}, list' = None => list = None,
           fetch'.rows \in {fetch.rows, None, rows}, fetch'.phase \in {"idle", "asked", "read"},
           FetchesHoldRows', ListCurrent',
           modal' \in {"closed", "open", "secret"}, testing' \in Items \cup {None},
           unseen' \in BOOLEAN, deleted' \subseteq Items,
           wanted' \in [Items -> BOOLEAN \cup {None}], \A i \in Items : wanted'[i] \in {wanted[i], None},
           \A r \in Requests : req'[r].seen /\ req'[r].op = "create" => modal' = "open",
           ToggleCarriesWish' /\ LastToggleWins'
    PROVE  PInv'
  <1>1. RowsStay' /\ Clicked' /\ OnlyCreatesBeforeList'
    BY RowsStayKept, NoClickKeeps
  <1>2. list' \in P!Tables \cup {None} /\ fetch'.rows \in P!Tables \cup {None} /\ page' \in {"users", "webhooks"}
    BY DEF PInv, P!TypeOK
  <1>3. P!TypeOK'
    BY <1>2 DEF P!TypeOK, NoClick
  <1> QED BY <1>1, <1>3 DEF PInv

\* A request that does not change.
LEMMA StillOnward ==
    ASSUME PInv, NEW s \in Requests, req'[s] = req[s]
    PROVE  req'[s] \in P!Request /\ Onward(s)
  BY DEF PInv, P!TypeOK, Clicked, Onward, SameRequest

\* A request that ends.
LEMMA EndsOnward ==
    ASSUME NEW s \in Requests, req'[s] = P!NoRequest
    PROVE  req'[s] \in P!Request /\ Onward(s)
  BY NoRequestIsIdle DEF Onward

\* A request whose modal was closed.
LEMMA UnmountedOnward ==
    ASSUME PInv, NEW s \in Requests, req'[s] = P!Unmounted[s]
    PROVE  /\ req'[s] \in P!Request /\ Onward(s) /\ SameRequest(req'[s], req[s])
           /\ req'[s].phase = req[s].phase
           /\ req'[s].seen <=> req[s].seen /\ req[s].op # "create"
  <1> DEFINE b == req[s].seen /\ req[s].op # "create"
  <1>1. req[s] \in P!Request /\ b \in BOOLEAN
    BY RequestFields DEF PInv, P!TypeOK
  <1>2. req'[s] = [req[s] EXCEPT !.seen = b]
    BY DEF P!Unmounted
  <1> HIDE DEF b
  <1>3. req'[s] \in P!Request /\ SameRequest(req'[s], req[s]) /\ req'[s].phase = req[s].phase /\ req'[s].seen = b
    BY <1>1, <1>2, SeenChanged
  <1>4. req'[s].seen <=> req[s].seen /\ req[s].op # "create"
    BY <1>3 DEF b
  <1>5. req[s].phase = "orphan" => ~req[s].seen
    BY DEF PInv, Clicked
  <1> QED BY <1>3, <1>4, <1>5 DEF Onward

\* A request that goes on to a phase in which it stays shown.
LEMMA PhaseOnward ==
    ASSUME PInv, NEW s \in Requests, NEW ph \in {"ok", "refetching"}, req[s].phase # "idle",
           req'[s] = [req[s] EXCEPT !.phase = ph]
    PROVE  /\ req'[s] \in P!Request /\ Onward(s) /\ SameRequest(req'[s], req[s])
           /\ req'[s].phase = ph /\ req'[s].seen = req[s].seen
  <1>1. req[s] \in P!Request /\ ph \in Phases
    BY DEF PInv, P!TypeOK, Phases
  <1>2. req'[s] \in P!Request /\ SameRequest(req'[s], req[s]) /\ req'[s].phase = ph /\ req'[s].seen = req[s].seen
    BY <1>1, PhaseChanged
  <1> QED BY <1>2 DEF Onward

\* The modal opens.
LEMMA OpenModalKeeps == ASSUME PInv, P!OpenModal PROVE PInv'
  <1>1. UNCHANGED <<page, rows, list, fetch, req, testing, unseen, wanted, deleted>> /\ modal' = "open"
    BY DEF P!OpenModal, P!list
  <1>2. P!TypeOK'
    BY <1>1 DEF PInv, P!TypeOK
  <1>3. RowsStay' /\ Clicked' /\ OnlyCreatesBeforeList' /\ FetchesHoldRows'
    BY <1>1 DEF PInv, RowsStay, Clicked, OnlyCreatesBeforeList, FetchesHoldRows
  <1>4. ListCurrent'
    BY <1>1 DEF PInv, ListCurrent, Unanswered
  <1>5. ToggleCarriesWish' /\ LastToggleWins'
    BY <1>1 DEF PInv, ToggleCarriesWish, LastToggleWins, P!LastToggleWins, P!Toggling
  <1> QED BY <1>2, <1>3, <1>4, <1>5 DEF PInv

\* The modal closes and takes its mutation along.
LEMMA CloseModalKeeps == ASSUME PInv, P!CloseModal PROVE PInv'
  <1>1. UNCHANGED <<page, rows, list, fetch, testing, unseen, wanted, deleted>> /\ modal' = "closed" /\ req' = P!Unmounted
    BY DEF P!CloseModal, P!list
  <1>2. \A s \in Requests :
            /\ req'[s] \in P!Request /\ Onward(s) /\ SameRequest(req'[s], req[s])
            /\ req'[s].phase = req[s].phase
            /\ req'[s].seen <=> req[s].seen /\ req[s].op # "create"
    BY <1>1, UnmountedOnward
  <1>3. NoClick
    <2>1. DOMAIN P!Unmounted = Requests /\ P!Unmounted = [s \in Requests |-> P!Unmounted[s]]
      BY DEF P!Unmounted
    <2> QED BY <1>1, <1>2, <2>1 DEF NoClick
  <1>4. \A r \in Requests : req'[r].seen /\ req'[r].op = "create" => modal' = "open"
    BY <1>2 DEF SameRequest
  <1>5. ListCurrent' /\ FetchesHoldRows'
    <2>1. Unanswered => Unanswered'
      BY <1>2 DEF Unanswered, SameRequest
    <2> QED BY <1>1, <2>1 DEF PInv, ListCurrent, FetchesHoldRows
  <1>6. WishesStay
    <2>1. \A r \in Requests : req[r].op = "toggle" => SameRequest(req'[r], req[r]) /\ (req[r].seen => req'[r].seen)
            /\ req'[r].phase = req[r].phase
      BY <1>2
    <2> QED BY <1>1, <2>1 DEF WishesStay
  <1>7. ToggleCarriesWish' /\ LastToggleWins'
    BY <1>1, <1>3, <1>6, WishesKept
  <1>8. RowsKeep /\ rows' \in P!Tables /\ wanted' \in [Items -> BOOLEAN \cup {None}] /\ deleted' \subseteq Items
        /\ testing' \in Items \cup {None} /\ unseen' \in BOOLEAN /\ fetch'.phase \in {"idle", "asked", "read"}
    BY <1>1 DEF PInv, P!TypeOK, RowsKeep
  <1> QED BY <1>1, <1>3, <1>4, <1>5, <1>7, <1>8, NoClickInv

\* What the API does to the table for a request it was sent.
LEMMA WrittenRows ==
    ASSUME PInv, NEW r \in Requests, req[r].phase \in {"sent", "orphan"}, rows' \in P!Written(req[r])
    PROVE  /\ rows' \in P!Tables /\ RowsKeep
           /\ req[r].op = "test" => rows' = rows
           /\ \A i \in Items : wanted[i] # None =>
                \/ req[r].op = "toggle" /\ req[r].item = i /\ rows'[i].active = req[r].value
                \/ ~(req[r].op = "toggle" /\ req[r].item = i) /\ rows'[i].active = rows[i].active
  <1> DEFINE q == req[r]
  <1>1. rows \in P!Tables /\ q \in P!Request /\ q.op # None
    BY DEF PInv, P!TypeOK, Clicked
  <1>2. ASSUME NEW i \in Items, rows[i] # None PROVE rows[i] \in P!Row
    BY <1>1, <1>2 DEF P!Tables
  <1>3. \A x \in P!Row : x # None
    BY NoneIsNothing
  <1>4. \A i \in Items : wanted[i] # None => rows[i] # None
    BY DEF PInv, RowsStay
  <1>5. CASE q.op = "toggle"
    <2>1. q.item \in Items /\ q.value \in BOOLEAN /\ rows[q.item] \in P!Row
      BY <1>1, <1>2, <1>5, RequestValues DEF PInv, RowsStay, P!Patches
    <2>2. rows' = [rows EXCEPT ![q.item] = [rows[q.item] EXCEPT !.active = q.value]]
      BY <1>5 DEF P!Written
    <2>3. [rows[q.item] EXCEPT !.active = q.value] \in P!Row /\ [rows[q.item] EXCEPT !.active = q.value].active = q.value
      BY <2>1 DEF P!Row
    <2>4. rows' \in P!Tables /\ rows'[q.item] \in P!Row /\ rows'[q.item].active = q.value
          /\ \A i \in Items \ {q.item} : rows'[i] = rows[i]
      BY <1>1, <2>1, <2>2, <2>3 DEF P!Tables
    <2> QED BY <1>3, <1>5, <2>1, <2>4 DEF RowsKeep
  <1>6. CASE q.op = "select"
    <2>1. q.item \in Items /\ q.value \in P!Roles /\ rows[q.item] \in P!Row
      BY <1>1, <1>2, <1>6, RequestValues DEF PInv, RowsStay, P!Patches
    <2>2. rows' = [rows EXCEPT ![q.item] = [rows[q.item] EXCEPT !.role = q.value]]
      BY <1>6 DEF P!Written
    <2>3. [rows[q.item] EXCEPT !.role = q.value] \in P!Row /\ [rows[q.item] EXCEPT !.role = q.value].active = rows[q.item].active
      BY <2>1 DEF P!Row
    <2>4. rows' \in P!Tables /\ rows'[q.item] \in P!Row /\ rows'[q.item].active = rows[q.item].active
          /\ \A i \in Items \ {q.item} : rows'[i] = rows[i]
      BY <1>1, <2>1, <2>2, <2>3 DEF P!Tables
    <2> QED BY <1>3, <1>6, <2>1, <2>4 DEF RowsKeep
  <1>7. CASE q.op = "create"
    <2>1. PICK i \in Items : rows[i] = None /\ rows' = [rows EXCEPT ![i] = [active |-> TRUE, role |-> "admin"]]
      BY <1>7 DEF P!Written
    <2>2. [active |-> TRUE, role |-> "admin"] \in P!Row
      BY DEF P!Row, P!Roles
    <2>3. rows' \in P!Tables /\ rows'[i] \in P!Row /\ \A j \in Items \ {i} : rows'[j] = rows[j]
      BY <1>1, <2>1, <2>2 DEF P!Tables
    <2> QED BY <1>3, <1>4, <1>7, <2>1, <2>3 DEF RowsKeep
  <1>8. CASE q.op \in {"delete", "test"}
    <2>1. rows' = rows
      BY <1>8 DEF P!Written
    <2> QED BY <1>1, <1>8, <2>1 DEF RowsKeep
  <1> QED BY <1>1, <1>5, <1>6, <1>7, <1>8, RequestValues

\* A commit: what was wanted of a row is so from then on.
LEMMA CommitKeeps == ASSUME PInv, NEW r \in Requests, P!Commit(r) PROVE PInv'
  <1>1. /\ req[r].phase \in {"sent", "orphan"}
        /\ UNCHANGED <<page, list, fetch, modal, testing, wanted, deleted>>
    BY DEF P!Commit, P!list, P!widgets
  <1>2. /\ rows' \in P!Tables /\ RowsKeep
        /\ req[r].op = "test" => rows' = rows
        /\ \A i \in Items : wanted[i] # None =>
             \/ req[r].op = "toggle" /\ req[r].item = i /\ rows'[i].active = req[r].value
             \/ ~(req[r].op = "toggle" /\ req[r].item = i) /\ rows'[i].active = rows[i].active
    BY <1>1, WrittenRows DEF P!Commit
  <1>3. req \in [Requests -> P!Request]
    BY DEF PInv, P!TypeOK
  <1>4. FetchesHoldRows' /\ wanted' \in [Items -> BOOLEAN \cup {None}] /\ deleted' \subseteq Items
        /\ testing' \in Items \cup {None} /\ fetch'.phase \in {"idle", "asked", "read"}
        /\ modal' \in {"closed", "open", "secret"}
    BY <1>1 DEF PInv, P!TypeOK, FetchesHoldRows
  <1>5. CASE req[r].phase = "orphan"
    <2>1. req' = [req EXCEPT ![r] = P!NoRequest] /\ unseen' = TRUE
      BY <1>5 DEF P!Commit
    <2>2. req'[r] = P!NoRequest /\ \A s \in Requests \ {r} : req'[s] = req[s]
      BY <1>3, <2>1
    <2>3. NoClick
      <3>1. \A s \in Requests : req'[s] \in P!Request /\ Onward(s)
        BY <2>2, StillOnward, EndsOnward
      <3> QED BY <1>3, <2>1, <3>1 DEF NoClick
    <2>4. ~req[r].seen
      BY <1>5 DEF PInv, Clicked
    <2>5. ASSUME page = "users" PROVE WishesStay
      <3>1. ASSUME NEW i \in Items, wanted[i] # None, req[r].op = "toggle", req[r].item = i PROVE FALSE
        BY <2>4, <2>5, <3>1 DEF PInv, ToggleCarriesWish
      <3> QED BY <1>1, <1>2, <1>5, <2>2, <3>1 DEF WishesStay, SameRequest
    <2>6. ToggleCarriesWish' /\ LastToggleWins'
      <3>1. CASE page = "users"
        BY <1>1, <2>3, <2>5, <3>1, WishesKept
      <3>2. CASE page # "users"
        BY <1>1, <3>2 DEF ToggleCarriesWish, LastToggleWins, P!LastToggleWins
      <3> QED BY <3>1, <3>2
    <2>7. \A s \in Requests : req'[s].seen /\ req'[s].op = "create" => modal' = "open"
      BY <1>1, <2>2, NoRequestIsIdle DEF PInv, P!TypeOK
    <2>8. ListCurrent' /\ unseen' \in BOOLEAN
      BY <2>1 DEF ListCurrent
    <2> QED BY <1>1, <1>2, <1>4, <2>3, <2>6, <2>7, <2>8, NoClickInv
  <1>6. CASE req[r].phase = "sent"
    <2>1. req' = [req EXCEPT ![r] = [req[r] EXCEPT !.phase = "ok"]] /\ unseen' = unseen
      BY <1>6 DEF P!Commit
    <2>2. req'[r] = [req[r] EXCEPT !.phase = "ok"] /\ \A s \in Requests \ {r} : req'[s] = req[s]
      BY <1>3, <2>1
    <2>3. /\ req'[r] \in P!Request /\ Onward(r) /\ SameRequest(req'[r], req[r])
          /\ req'[r].phase = "ok" /\ req'[r].seen = req[r].seen
      BY <1>6, <2>2, PhaseOnward
    <2>4. NoClick
      <3>1. \A s \in Requests : req'[s] \in P!Request /\ Onward(s)
        BY <2>2, <2>3, StillOnward
      <3> QED BY <1>3, <2>1, <3>1 DEF NoClick
    <2>5. \A s \in Requests : SameRequest(req'[s], req[s]) /\ req'[s].seen = req[s].seen
      BY <2>2, <2>3 DEF SameRequest
    <2>6. ASSUME page = "users", NEW i \in Items, wanted[i] # None, req[r].op = "toggle", req[r].item = i
          PROVE  /\ rows'[i].active = wanted[i]
                 /\ \A s \in Requests : req[s].op = "toggle" /\ req[s].item = i => s = r
      <3>1. rows'[i].active = req[r].value /\ req[r].value = wanted[i]
        BY <1>2, <1>6, <2>6 DEF PInv, ToggleCarriesWish
      <3>2. ASSUME NEW s \in Requests, req[s].op = "toggle", req[s].item = i PROVE s = r
        <4>1. req[s].seen /\ req[r].seen
          BY <2>6, <3>2 DEF PInv, ToggleCarriesWish
        <4>2. {req[s].op, req[r].op} \subseteq P!Patches
          BY <2>6, <3>2 DEF P!Patches
        <4> QED BY <4>1, <4>2 DEF PInv, Clicked
      <3> QED BY <3>1, <3>2
    <2>7. ASSUME page = "users", NEW i \in Items, wanted[i] # None, ~(req[r].op = "toggle" /\ req[r].item = i)
          PROVE  rows'[i].active = rows[i].active
      BY <1>2, <2>7
    <2>8. ToggleCarriesWish'
      <3>1. ASSUME page = "users", NEW i \in Items, wanted[i] # None, NEW s \in Requests,
                   req'[s].op = "toggle", req'[s].item = i
            PROVE  /\ req'[s].seen
                   /\ req'[s].phase = "sent" => req'[s].value = wanted[i]
                   /\ req'[s].phase # "sent" => rows'[i].active = wanted[i]
        <4>1. req[s].op = "toggle" /\ req[s].item = i /\ req'[s].value = req[s].value /\ req'[s].seen = req[s].seen
          BY <2>5, <3>1 DEF SameRequest
        <4>2. /\ req[s].seen
              /\ req[s].phase = "sent" => req[s].value = wanted[i]
              /\ req[s].phase # "sent" => rows[i].active = wanted[i]
          BY <3>1, <4>1 DEF PInv, ToggleCarriesWish
        <4>3. CASE s = r
          BY <2>3, <2>6, <3>1, <4>1, <4>2, <4>3
        <4>4. CASE s # r
          <5>1. ~(req[r].op = "toggle" /\ req[r].item = i)
            BY <2>6, <3>1, <4>1, <4>4
          <5> QED BY <2>2, <2>7, <3>1, <4>1, <4>2, <4>4, <5>1
        <4> QED BY <4>3, <4>4
      <3> QED BY <1>1, <3>1 DEF ToggleCarriesWish
    <2>9. LastToggleWins'
      <3>1. ASSUME page = "users", NEW i \in Items, wanted[i] # None,
                   \A s \in Requests : ~(req'[s].op = "toggle" /\ req'[s].item = i)
            PROVE  rows'[i].active = wanted[i]
        <4>1. \A s \in Requests : ~(req[s].op = "toggle" /\ req[s].item = i)
          BY <2>5, <3>1 DEF SameRequest
        <4>2. rows[i].active = wanted[i]
          BY <3>1, <4>1 DEF PInv, LastToggleWins, P!LastToggleWins, P!Toggling
        <4> QED BY <2>7, <3>1, <4>1, <4>2
      <3> QED BY <1>1, <3>1 DEF LastToggleWins, P!LastToggleWins, P!Toggling
    <2>10. \A s \in Requests : req'[s].seen /\ req'[s].op = "create" => modal' = "open"
      BY <1>1, <2>5 DEF SameRequest, PInv, P!TypeOK
    <2>11. ListCurrent'
      <3>1. CASE req[r].op # "test"
        <4>1. Unanswered'
          BY <2>3, <3>1 DEF Unanswered, SameRequest
        <4> QED BY <4>1 DEF ListCurrent
      <3>2. CASE req[r].op = "test"
        <4>1. Unanswered => Unanswered'
          BY <2>2, <3>2 DEF Unanswered
        <4>2. rows' = rows
          BY <1>2, <3>2
        <4> QED BY <1>1, <2>1, <4>1, <4>2 DEF PInv, ListCurrent
      <3> QED BY <3>1, <3>2
    <2>12. unseen' \in BOOLEAN
      BY <2>1 DEF PInv, P!TypeOK
    <2> QED BY <1>1, <1>2, <1>4, <2>4, <2>8, <2>9, <2>10, <2>11, <2>12, NoClickInv
  <1> QED BY <1>1, <1>5, <1>6

\* An answer: its list is asked for again, so that what is shown is not from before it.
LEMMA AnswerKeeps == ASSUME PInv, NEW r \in Requests, P!Answer(r) PROVE PInv'
  <1> DEFINE q == req[r]
             waits == q.op \in P!Patches \cup {"delete"}
             closes == q.op = "create" /\ page = "users"
  <1>1. /\ q.phase = "ok" /\ q.op # None
        /\ UNCHANGED <<page, rows, list, wanted>>
    BY DEF P!Answer, PInv, Clicked
  <1>2. req' = [s \in Requests |->
                IF s = r THEN IF waits THEN [q EXCEPT !.phase = "refetching"] ELSE P!NoRequest
                ELSE IF req[s].phase = "refetching" /\ q.op # "test" THEN P!NoRequest
                ELSE IF closes THEN P!Unmounted[s] ELSE req[s]]
    BY DEF P!Answer
  <1>3. ASSUME NEW s \in Requests
        PROVE  /\ req'[s] \in P!Request /\ Onward(s)
               /\ \/ req'[s] = P!NoRequest /\ req[s].phase # "sent" /\ (s = r \/ req[s].phase = "refetching")
                  \/ /\ SameRequest(req'[s], req[s])
                     /\ req'[s].phase = IF s = r THEN "refetching" ELSE req[s].phase
                     /\ req'[s].seen => req[s].seen
                     /\ req[s].op # "create" /\ req[s].seen => req'[s].seen
                     /\ closes => ~(req'[s].seen /\ req'[s].op = "create")
                     /\ s = r => q.op # "create"
    <2>1. CASE req'[s] = P!NoRequest /\ (s = r \/ req[s].phase = "refetching")
      BY <1>1, <2>1, EndsOnward
    <2>2. CASE s = r /\ waits /\ req'[s] = [q EXCEPT !.phase = "refetching"]
      <3>1. q.op # "create"
        BY <2>2 DEF P!Patches
      <3> QED BY <1>1, <2>2, <3>1, PhaseOnward DEF SameRequest
    <2>3. CASE s # r /\ closes /\ req'[s] = P!Unmounted[s]
      BY <2>3, UnmountedOnward DEF SameRequest
    <2>4. CASE s # r /\ ~closes /\ req'[s] = req[s]
      BY <2>4, StillOnward DEF SameRequest
    <2> QED BY <1>2, <2>1, <2>2, <2>3, <2>4
  <1>4. NoClick
    BY <1>2, <1>3 DEF NoClick
  <1>5. WishesStay
    <2>1. \A s \in Requests : req[s].op = "toggle" =>
            \/ req'[s] = P!NoRequest /\ req[s].phase # "sent"
            \/ /\ SameRequest(req'[s], req[s])
               /\ req[s].seen => req'[s].seen
               /\ req'[s].phase = "sent" <=> req[s].phase = "sent"
      BY <1>1, <1>3
    <2> QED BY <1>1, <2>1 DEF WishesStay
  <1>6. ToggleCarriesWish' /\ LastToggleWins'
    BY <1>1, <1>4, <1>5, WishesKept
  <1>7. /\ modal' \in {"closed", "open", "secret"}
        /\ \A s \in Requests : req'[s].seen /\ req'[s].op = "create" => modal' = "open"
    <2>0. page \in {"users", "webhooks"} /\ modal \in {"closed", "open", "secret"}
          /\ \A s \in Requests : req[s].seen /\ req[s].op = "create" => modal = "open"
      BY DEF PInv, P!TypeOK
    <2>1. \A s \in Requests : req'[s].seen /\ req'[s].op = "create" =>
            s # r /\ ~closes /\ req[s].seen /\ req[s].op = "create"
      BY <1>3, NoRequestIsIdle DEF SameRequest
    <2>2. CASE q.op # "create"
      <3>1. modal' = modal
        BY <2>2 DEF P!Answer
      <3> QED BY <2>0, <2>1, <3>1
    <2>3. CASE q.op = "create" /\ page = "users"
      <3>1. modal' = "closed"
        BY <2>3 DEF P!Answer, P!UserCreated
      <3> QED BY <2>1, <2>3, <3>1
    <2>4. CASE q.op = "create" /\ page = "webhooks"
      <3>1. modal' = IF q.seen THEN "secret" ELSE modal
        BY <2>4 DEF P!Answer, P!WebhookCreated
      <3>2. ASSUME NEW s \in Requests, req'[s].seen, req'[s].op = "create" PROVE ~q.seen
        BY <2>1, <2>4, <3>2 DEF PInv, Clicked
      <3> QED BY <2>0, <2>1, <3>1, <3>2
    <2> QED BY <2>0, <2>2, <2>3, <2>4
  <1>8. deleted' \subseteq Items
    <2>1. q \in P!Request /\ deleted \subseteq Items
      BY DEF PInv, P!TypeOK
    <2>2. deleted' = IF q.op = "delete" THEN deleted \cup {q.item} ELSE deleted
      BY DEF P!Answer
    <2>3. q.op = "delete" => q.item \in Items
      BY <2>1, RequestValues
    <2> QED BY <2>1, <2>2, <2>3
  <1>9. testing' \in Items \cup {None}
    <2>1. testing' \in {None, testing}
      BY DEF P!Answer, P!TestDone
    <2> QED BY <2>1 DEF PInv, P!TypeOK
  <1>10. fetch' = (IF q.op = "test" THEN fetch ELSE P!Invalidated(fetch, list))
         /\ unseen' = (unseen \/ (q.op = "create" /\ list = None))
    BY DEF P!Answer
  <1>11. P!Asked.phase = "asked" /\ P!Asked.rows = None
    BY DEF P!Asked
  <1>12. fetch' \in {fetch, P!Asked}
    BY <1>10 DEF P!Invalidated
  <1>13. /\ fetch'.rows \in {fetch.rows, None, rows} /\ fetch'.phase \in {"idle", "asked", "read"}
         /\ FetchesHoldRows'
    BY <1>11, <1>12 DEF PInv, P!TypeOK, FetchesHoldRows
  <1>14. ListCurrent'
    <2>1. CASE q.op = "test"
      <3>1. fetch' = fetch /\ (unseen' <=> unseen)
        BY <1>10, <2>1
      <3>2. Unanswered => Unanswered'
        <4>1. ASSUME NEW s \in Requests, req[s].phase = "ok", req[s].op # "test"
              PROVE  req'[s].phase = "ok" /\ req'[s].op # "test"
          <5>1. s # r BY <2>1, <4>1
          <5>2. ~(req'[s] = P!NoRequest /\ req[s].phase # "sent" /\ (s = r \/ req[s].phase = "refetching"))
            BY <4>1, <5>1
          <5> QED BY <1>3, <4>1, <5>1, <5>2 DEF SameRequest
        <4> QED BY <4>1 DEF Unanswered
      <3> QED BY <1>1, <3>1, <3>2 DEF PInv, ListCurrent
    <2>2. CASE q.op # "test" /\ fetch' = P!Asked
      BY <1>11, <2>2 DEF ListCurrent
    <2>3. CASE q.op # "test" /\ fetch' # P!Asked
      <3>1. list = None
        BY <1>10, <2>3 DEF P!Invalidated
      <3>2. q.op = "create"
        BY <1>1, <3>1 DEF PInv, OnlyCreatesBeforeList
      <3>3. unseen'
        BY <1>10, <3>1, <3>2
      <3> QED BY <3>3 DEF ListCurrent
    <2> QED BY <2>1, <2>2, <2>3
  <1>15. unseen' \in BOOLEAN
    BY <1>10
  <1>16. RowsKeep /\ rows' \in P!Tables /\ wanted' \in [Items -> BOOLEAN \cup {None}]
    BY <1>1 DEF PInv, P!TypeOK, RowsKeep
  <1> QED BY <1>1, <1>4, <1>6, <1>7, <1>8, <1>9, <1>13, <1>14, <1>15, <1>16, NoClickInv

\* A failure: the page knows of no change, and wants nothing any more of that row.
LEMMA FailKeeps == ASSUME PInv, NEW r \in Requests, P!Fail(r) PROVE PInv'
  <1>1. /\ req[r].phase \in {"sent", "ok"} /\ unseen' = TRUE
        /\ UNCHANGED <<page, rows, list, fetch, modal, deleted>>
        /\ wanted' = [i \in Items |-> IF req[r].item = i THEN None ELSE wanted[i]]
        /\ testing' \in {None, testing}
    BY DEF P!Fail, P!list, P!TestDone
  <1>2. req \in [Requests -> P!Request]
    BY DEF PInv, P!TypeOK
  <1>3. req' = [req EXCEPT ![r] = IF req[r].phase = "sent" /\ req[r].op # "test"
                                 THEN [req[r] EXCEPT !.phase = "orphan", !.seen = FALSE] ELSE P!NoRequest]
    BY DEF P!Fail
  <1>4. \A s \in Requests \ {r} : req'[s] = req[s]
    BY <1>2, <1>3
  <1>5. req'[r] \in P!Request /\ Onward(r) /\ ~req'[r].seen
    <2>1. CASE req'[r] = P!NoRequest
      BY <2>1, EndsOnward, NoRequestIsIdle
    <2>2. CASE req'[r] = [req[r] EXCEPT !.phase = "orphan", !.seen = FALSE]
      <3>5. req'[r] \in P!Request /\ SameRequest(req'[r], req[r]) /\ ~req'[r].seen /\ req'[r].phase = "orphan"
        <4>1. CASE req[r] \in P!Asking({"toggle"}, Items, BOOLEAN)
          BY <2>2, <4>1 DEF P!Request, P!Asking, SameRequest
        <4>2. CASE req[r] \in P!Asking({"select"}, Items, P!Roles)
          BY <2>2, <4>2 DEF P!Request, P!Asking, SameRequest
        <4>3. CASE req[r] \in P!Asking({"delete", "test"}, Items, {None})
          BY <2>2, <4>3 DEF P!Request, P!Asking, SameRequest
        <4>4. CASE req[r] \in P!Asking({"create", None}, {None}, {None})
          BY <2>2, <4>4 DEF P!Request, P!Asking, SameRequest
        <4> QED BY <1>2, <4>1, <4>2, <4>3, <4>4 DEF P!Request
      <3> QED BY <1>1, <3>5 DEF Onward
    <2> QED BY <1>2, <1>3, <2>1, <2>2
  <1>6. NoClick
    <2>1. \A s \in Requests : req'[s] \in P!Request /\ Onward(s)
      BY <1>4, <1>5, StillOnward
    <2> QED BY <1>2, <1>3, <2>1 DEF NoClick
  <1>7. WishesStay
    <2>1. \A i \in Items : wanted'[i] # None => wanted'[i] = wanted[i] /\ req[r].item # i
      BY <1>1
    <2>2. ASSUME NEW s \in Requests, req[s].op = "toggle", wanted'[req[s].item] # None PROVE s # r
      <3>1. req[s].item \in Items
        BY <1>2, <2>2, RequestValues
      <3> QED BY <2>1, <2>2, <3>1
    <2> QED BY <1>1, <1>4, <2>1, <2>2 DEF WishesStay, SameRequest
  <1>8. ToggleCarriesWish' /\ LastToggleWins'
    BY <1>1, <1>6, <1>7, WishesKept
  <1>9. \A s \in Requests : req'[s].seen /\ req'[s].op = "create" => modal' = "open"
    BY <1>1, <1>4, <1>5 DEF PInv, P!TypeOK
  <1>10. ListCurrent' /\ FetchesHoldRows'
    BY <1>1 DEF PInv, ListCurrent, FetchesHoldRows
  <1>11. wanted' \in [Items -> BOOLEAN \cup {None}] /\ \A i \in Items : wanted'[i] \in {wanted[i], None}
    BY <1>1 DEF PInv, P!TypeOK
  <1>12. RowsKeep /\ rows' \in P!Tables /\ deleted' \subseteq Items /\ testing' \in Items \cup {None}
         /\ fetch'.phase \in {"idle", "asked", "read"} /\ modal' \in {"closed", "open", "secret"}
    BY <1>1 DEF PInv, P!TypeOK, RowsKeep
  <1> QED BY <1>1, <1>6, <1>8, <1>9, <1>10, <1>11, <1>12, NoClickInv

\* What was given up is refused: nothing changes but that it is over.
LEMMA OrphanRefusedKeeps == ASSUME PInv, NEW r \in Requests, P!OrphanRefused(r) PROVE PInv'
  <1>1. /\ req[r].phase = "orphan" /\ req' = [req EXCEPT ![r] = P!NoRequest]
        /\ UNCHANGED <<page, rows, list, fetch, modal, testing, unseen, wanted, deleted>>
    BY DEF P!OrphanRefused, P!list, P!widgets
  <1>2. req \in [Requests -> P!Request]
    BY DEF PInv, P!TypeOK
  <1>3. req'[r] = P!NoRequest /\ \A s \in Requests \ {r} : req'[s] = req[s]
    BY <1>1, <1>2
  <1>4. NoClick
    <2>1. \A s \in Requests : req'[s] \in P!Request /\ Onward(s)
      BY <1>3, StillOnward, EndsOnward
    <2> QED BY <1>1, <1>2, <2>1 DEF NoClick
  <1>5. WishesStay
    BY <1>1, <1>3 DEF WishesStay, SameRequest
  <1>6. ToggleCarriesWish' /\ LastToggleWins'
    BY <1>1, <1>4, <1>5, WishesKept
  <1>7. \A s \in Requests : req'[s].seen /\ req'[s].op = "create" => modal' = "open"
    BY <1>1, <1>3, NoRequestIsIdle DEF PInv, P!TypeOK
  <1>8. ListCurrent' /\ FetchesHoldRows'
    <2>1. Unanswered => Unanswered'
      <3>1. \A s \in Requests : req[s].phase = "ok" => s # r
        BY <1>1
      <3> QED BY <1>3, <3>1 DEF Unanswered
    <2> QED BY <1>1, <2>1 DEF PInv, ListCurrent, FetchesHoldRows
  <1>9. RowsKeep /\ rows' \in P!Tables /\ deleted' \subseteq Items /\ testing' \in Items \cup {None}
        /\ fetch'.phase \in {"idle", "asked", "read"} /\ modal' \in {"closed", "open", "secret"}
        /\ wanted' \in [Items -> BOOLEAN \cup {None}] /\ unseen' \in BOOLEAN
    BY <1>1 DEF PInv, P!TypeOK, RowsKeep
  <1> QED BY <1>1, <1>4, <1>6, <1>7, <1>8, <1>9, NoClickInv

\* Another administrator's change, which decides the row from then on.
LEMMA ForeignKeeps == ASSUME PInv, NEW i \in Items, P!Foreign(i) PROVE PInv'
  <1>1. /\ rows[i] # None /\ rows' = [rows EXCEPT ![i] = [rows[i] EXCEPT !.active = ~rows[i].active]]
        /\ unseen' = TRUE /\ wanted' = [wanted EXCEPT ![i] = None]
        /\ UNCHANGED <<page, list, fetch, req, modal, testing, deleted>>
    BY DEF P!Foreign, P!list, P!widgets
  <1>2. rows \in P!Tables /\ wanted \in [Items -> BOOLEAN \cup {None}] /\ rows[i] \in P!Row
    BY <1>1 DEF PInv, P!TypeOK, P!Tables
  <1>3. [rows[i] EXCEPT !.active = ~rows[i].active] \in P!Row
    <2>1. rows[i].active \in BOOLEAN
      BY <1>2 DEF P!Row
    <2>2. (~rows[i].active) \in BOOLEAN
      BY <2>1
    <2> DEFINE b == ~rows[i].active
    <2> HIDE DEF b
    <2>3. b \in BOOLEAN BY <2>2 DEF b
    <2>4. [rows[i] EXCEPT !.active = b] \in P!Row
      BY <1>2, <2>3 DEF P!Row
    <2> QED BY <2>4 DEF b
  <1>4. rows' \in P!Tables /\ rows'[i] # None /\ \A j \in Items \ {i} : rows'[j] = rows[j]
    BY <1>1, <1>2, <1>3, NoneIsNothing DEF P!Tables
  <1>5. NoClick
    BY <1>1, StillOnward DEF NoClick, PInv, P!TypeOK
  <1>6. wanted' \in [Items -> BOOLEAN \cup {None}] /\ wanted'[i] = None /\ \A j \in Items \ {i} : wanted'[j] = wanted[j]
    BY <1>1, <1>2
  <1>7. WishesStay
    BY <1>1, <1>4, <1>6 DEF WishesStay, SameRequest
  <1>8. ToggleCarriesWish' /\ LastToggleWins'
    BY <1>1, <1>5, <1>7, WishesKept
  <1>9. ListCurrent' /\ FetchesHoldRows'
    BY <1>1 DEF PInv, ListCurrent, FetchesHoldRows
  <1>10. RowsKeep
    BY <1>4 DEF RowsKeep
  <1>11. /\ deleted' \subseteq Items /\ testing' \in Items \cup {None}
         /\ fetch'.phase \in {"idle", "asked", "read"} /\ modal' \in {"closed", "open", "secret"}
         /\ \A s \in Requests : req'[s].seen /\ req'[s].op = "create" => modal' = "open"
    BY <1>1 DEF PInv, P!TypeOK
  <1>12. \A j \in Items : wanted'[j] \in {wanted[j], None}
    BY <1>6
  <1> QED BY <1>1, <1>4, <1>5, <1>6, <1>8, <1>9, <1>10, <1>11, <1>12, NoClickInv

\* When a refetch has ended, whatever waited for it is over.
LEMMA WaitingOver ==
    ASSUME PInv, req' = P!Waiting
    PROVE  /\ NoClick
           /\ \A s \in Requests : \/ req'[s] = req[s]
                                  \/ req'[s] = P!NoRequest /\ req[s].phase = "refetching"
  <1>1. \A s \in Requests : \/ req'[s] = req[s]
                            \/ req'[s] = P!NoRequest /\ req[s].phase = "refetching"
    BY DEF P!Waiting
  <1>2. \A s \in Requests : req'[s] \in P!Request /\ Onward(s)
    BY <1>1, StillOnward, EndsOnward
  <1>3. DOMAIN req' = Requests /\ req' = [s \in Requests |-> req'[s]]
    BY DEF P!Waiting
  <1> QED BY <1>1, <1>2, <1>3 DEF NoClick

\* Whether the fetch read, brought its list or failed, what is not said of it here stays.
LEMMA FetchKeeps ==
    ASSUME PInv, UNCHANGED <<page, rows, modal, testing, wanted, deleted>>,
           req' = req \/ req' = P!Waiting, unseen' \in BOOLEAN,
           list' \in {list, fetch.rows}, list' = None => list = None,
           fetch'.rows \in {fetch.rows, None, rows}, fetch'.phase \in {"idle", "asked", "read"},
           FetchesHoldRows', ListCurrent'
    PROVE  PInv'
  <1>1. NoClick /\ \A s \in Requests : \/ req'[s] = req[s]
                                       \/ req'[s] = P!NoRequest /\ req[s].phase = "refetching"
    <2>1. CASE req' = P!Waiting
      BY <2>1, WaitingOver
    <2>2. CASE req' = req
      BY <2>2, StillOnward DEF NoClick, PInv, P!TypeOK
    <2> QED BY <2>1, <2>2
  <1>2. WishesStay
    BY <1>1 DEF WishesStay, SameRequest
  <1>3. ToggleCarriesWish' /\ LastToggleWins'
    BY <1>1, <1>2, WishesKept
  <1>4. \A s \in Requests : req'[s].seen /\ req'[s].op = "create" => modal' = "open"
    BY <1>1, NoRequestIsIdle DEF PInv, P!TypeOK
  <1>5. RowsKeep /\ rows' \in P!Tables /\ deleted' \subseteq Items /\ testing' \in Items \cup {None}
        /\ modal' \in {"closed", "open", "secret"} /\ wanted' \in [Items -> BOOLEAN \cup {None}]
    BY DEF PInv, P!TypeOK, RowsKeep
  <1> QED BY <1>1, <1>3, <1>4, <1>5, NoClickInv

\* The list is read as committed.
LEMMA ReadKeeps == ASSUME PInv, P!Read PROVE PInv'
  <1>1. /\ UNCHANGED <<page, rows, list, req, modal, testing, wanted, deleted>> /\ unseen' = FALSE
        /\ fetch' = [phase |-> "read", rows |-> rows]
    BY DEF P!Read, P!ReadBy, P!widgets
  <1>2. rows # None
    BY NoneIsNothing DEF PInv, P!TypeOK
  <1>3. FetchesHoldRows' /\ ListCurrent'
    BY <1>1, <1>2 DEF FetchesHoldRows, ListCurrent
  <1> QED BY <1>1, <1>3, FetchKeeps

\* What was read is shown; the requests that waited for it are over.
LEMMA ListedKeeps == ASSUME PInv, P!Listed PROVE PInv'
  <1>1. /\ UNCHANGED <<page, rows, modal, testing, wanted, deleted, unseen>>
        /\ fetch.phase = "read" /\ list' = fetch.rows /\ req' = P!Waiting
        /\ fetch'.phase = "idle" /\ fetch'.rows = None
    BY DEF P!Listed, P!NoFetch, P!widgets
  <1>2. list' # None
    BY <1>1 DEF PInv, FetchesHoldRows
  <1>3. Unanswered => Unanswered'
    <2>1. \A s \in Requests : req[s].phase = "ok" => req'[s] = req[s]
      BY <1>1, WaitingOver
    <2> QED BY <2>1 DEF Unanswered
  <1>4. ListCurrent'
    BY <1>1, <1>3 DEF PInv, ListCurrent
  <1>5. FetchesHoldRows' /\ unseen' \in BOOLEAN
    BY <1>1 DEF FetchesHoldRows, PInv, P!TypeOK
  <1> QED BY <1>1, <1>2, <1>4, <1>5, FetchKeeps

\* No list came; what it would have shown is not known.
LEMMA FetchFailsKeeps == ASSUME PInv, P!FetchFails PROVE PInv'
  <1>1. /\ UNCHANGED <<page, rows, list, modal, testing, wanted, deleted>> /\ unseen' = TRUE
        /\ req' = P!Waiting /\ fetch'.phase = "idle" /\ fetch'.rows = None
    BY DEF P!FetchFails, P!NoFetch, P!widgets
  <1>2. FetchesHoldRows' /\ ListCurrent'
    BY <1>1 DEF FetchesHoldRows, ListCurrent
  <1> QED BY <1>1, <1>2, FetchKeeps

\* What a click has to show: that it starts the only one of its kind that is shown, on
\* a row of the table, and what it does to the wishes.
LEMMA ClickKeeps ==
    ASSUME PInv, NEW r \in Requests, NEW ops, NEW op, NEW i, NEW v, P!Start(r, ops, op, i, v),
           [op |-> op, item |-> i, value |-> v, phase |-> "sent", seen |-> TRUE] \in P!Request,
           UNCHANGED <<page, rows, list, fetch, modal, unseen, deleted>>,
           testing' \in Items \cup {None}, op # None,
           op \in P!Patches => rows[i] # None,
           \A s \in Requests : req[s].seen /\ req[s].op \notin ops =>
                /\ ~({op, req[s].op} \subseteq P!Patches)
                /\ ~(op = "create" /\ req[s].op = "create"),
           list = None => op = "create",
           op = "create" => modal = "open",
           wanted' \in [Items -> BOOLEAN \cup {None}],
           \A j \in Items : wanted'[j] # None => rows[j] # None,
           ToggleCarriesWish' /\ LastToggleWins'
    PROVE  PInv'
  <1>1. req' \in [Requests -> P!Request] /\ req[r].phase = "idle" /\ req[r].op = None
    BY Started
  <1>2. req'[r].op = op /\ req'[r].item = i /\ req'[r].phase = "sent" /\ req'[r].seen
    <2>1. req'[r] = [op |-> op, item |-> i, value |-> v, phase |-> "sent", seen |-> TRUE]
      BY Started
    <2> QED BY <2>1
  <1>3. \A s \in Requests \ {r} :
            /\ SameRequest(req'[s], req[s]) /\ req'[s].phase = req[s].phase
            /\ req'[s].seen <=> req[s].seen /\ req[s].op \notin ops
    BY Started
  <1>4. P!TypeOK'
    <2>1. \A s \in Requests : req'[s].seen /\ req'[s].op = "create" => modal' = "open"
      BY <1>2, <1>3 DEF SameRequest, PInv, P!TypeOK
    <2> QED BY <1>1, <2>1 DEF PInv, P!TypeOK
  <1>5. RowsStay'
    <2>1. \A s \in Requests : req'[s].op \in P!Patches => rows'[req'[s].item] # None
      BY <1>2, <1>3 DEF SameRequest, PInv, RowsStay
    <2>2. \A table \in {list', fetch'.rows} :
            table # None => \A j \in Items : table[j] # None => rows'[j] # None
      BY DEF PInv, RowsStay
    <2> QED BY <2>1, <2>2 DEF RowsStay
  <1>6. Clicked'
    <2>1. \A s \in Requests : /\ req'[s].op = None <=> req'[s].phase = "idle"
                              /\ req'[s].phase \in {"idle", "orphan"} => ~req'[s].seen
      BY <1>2, <1>3 DEF SameRequest, PInv, Clicked
    <2>2. ASSUME NEW p \in Requests, NEW q \in Requests, req'[p].seen, req'[q].seen,
                 \/ {req'[p].op, req'[q].op} \subseteq P!Patches
                 \/ req'[p].op = "create" /\ req'[q].op = "create"
          PROVE  p = q
      <3>1. CASE p # r /\ q # r
        BY <1>3, <2>2, <3>1 DEF SameRequest, PInv, Clicked
      <3>2. ASSUME NEW s \in Requests \ {r}, req'[s].seen
            PROVE  /\ ~({op, req'[s].op} \subseteq P!Patches)
                   /\ ~(op = "create" /\ req'[s].op = "create")
        BY <1>3, <3>2 DEF SameRequest
      <3> QED BY <1>2, <2>2, <3>1, <3>2
    <2> QED BY <2>1, <2>2 DEF Clicked
  <1>7. OnlyCreatesBeforeList'
    BY <1>2, <1>3 DEF SameRequest, PInv, OnlyCreatesBeforeList
  <1>8. ListCurrent' /\ FetchesHoldRows'
    <2>1. Unanswered => Unanswered'
      BY <1>1, <1>3 DEF SameRequest, Unanswered
    <2> QED BY <2>1 DEF PInv, ListCurrent, FetchesHoldRows
  <1> QED BY <1>4, <1>5, <1>6, <1>7, <1>8 DEF PInv

\* A row that is shown is one of the table.
LEMMA ShownRow ==
    ASSUME PInv, NEW i \in P!Shown
    PROVE  i \in Items /\ list # None /\ list[i] \in P!Row /\ rows[i] # None
  BY DEF PInv, P!TypeOK, RowsStay, P!Shown, P!Tables

\* The button of a row: UsersPage enables it when no patch is shown.
LEMMA ToggleKeeps == ASSUME PInv, NEW r \in Requests, NEW i \in Items, P!Toggle(r, i) PROVE PInv'
  <1> DEFINE v == ~list[i].active
  <1>1. i \in P!Shown /\ P!ToggleEnabled /\ P!Start(r, P!Patches, "toggle", i, v)
        /\ wanted' = [wanted EXCEPT ![i] = IF wanted[i] = None /\ P!Toggling(i) THEN None ELSE v]
        /\ UNCHANGED <<page, rows, list, fetch, modal, testing, unseen, deleted>>
    BY DEF P!Toggle, P!list, P!widgets
  <1>2. list # None /\ list[i] \in P!Row /\ rows[i] # None
    BY <1>1, ShownRow
  <1>3. v \in BOOLEAN
    BY <1>2 DEF P!Row
  <1> HIDE DEF v
  <1>4. [op |-> "toggle", item |-> i, value |-> v, phase |-> "sent", seen |-> TRUE] \in P!Request
    BY <1>3 DEF P!Request, P!Asking
  <1>5. /\ wanted' \in [Items -> BOOLEAN \cup {None}]
        /\ wanted'[i] \in {None, v} /\ (wanted[i] = None /\ P!Toggling(i) => wanted'[i] = None)
        /\ \A j \in Items \ {i} : wanted'[j] = wanted[j]
    BY <1>1, <1>3 DEF PInv, P!TypeOK
  <1>6. req[r].op = None
    BY <1>1, <1>4, Started
  <1>7. /\ req'[r].op = "toggle" /\ req'[r].item = i /\ req'[r].value = v
        /\ req'[r].phase = "sent" /\ req'[r].seen
    <2>1. req'[r] = [op |-> "toggle", item |-> i, value |-> v, phase |-> "sent", seen |-> TRUE]
      BY <1>1, <1>4, Started
    <2> QED BY <2>1
  <1>8. \A s \in Requests \ {r} : SameRequest(req'[s], req[s])
    BY <1>1, <1>4, Started
  <1>9. ASSUME page = "users", NEW j \in Items, wanted'[j] # None,
               NEW s \in Requests, req[s].op = "toggle", req[s].item = j
        PROVE  FALSE
    <2>1. ~req[s].seen
      BY <1>1, <1>9 DEF P!ToggleEnabled, P!Patches
    <2>2. wanted[j] = None
      BY <1>9, <2>1 DEF PInv, ToggleCarriesWish
    <2>3. j = i
      BY <1>5, <1>9, <2>2
    <2> QED BY <1>5, <1>9, <2>2, <2>3 DEF P!Toggling
  <1>10. ToggleCarriesWish'
    <2>1. ASSUME page = "users", NEW j \in Items, wanted'[j] # None,
                 NEW s \in Requests, req'[s].op = "toggle", req'[s].item = j
          PROVE  s = r /\ j = i
      BY <1>7, <1>8, <1>9, <2>1 DEF SameRequest
    <2> QED BY <1>1, <1>5, <1>7, <2>1 DEF ToggleCarriesWish
  <1>11. LastToggleWins'
    <2>1. ASSUME page = "users", NEW j \in Items, wanted'[j] # None,
                 \A s \in Requests : ~(req'[s].op = "toggle" /\ req'[s].item = j)
          PROVE  rows[j].active = wanted'[j]
      <3>1. j # i
        BY <1>7, <2>1
      <3>2. \A s \in Requests : ~(req[s].op = "toggle" /\ req[s].item = j)
        BY <1>9, <2>1
      <3> QED BY <1>5, <2>1, <3>1, <3>2 DEF PInv, LastToggleWins, P!LastToggleWins, P!Toggling
    <2> QED BY <1>1, <2>1 DEF LastToggleWins, P!LastToggleWins, P!Toggling
  <1>12. \A j \in Items : wanted'[j] # None => rows[j] # None
    BY <1>2, <1>5 DEF PInv, RowsStay
  <1>13. testing' \in Items \cup {None}
    BY <1>1 DEF PInv, P!TypeOK
  <1>14. \A s \in Requests : req[s].seen /\ req[s].op \notin P!Patches =>
            ~({"toggle", req[s].op} \subseteq P!Patches) /\ ~("toggle" = "create" /\ req[s].op = "create")
    OBVIOUS
  <1>15. "toggle" # None
    BY NoneIsNothing
  <1> QED BY <1>1, <1>2, <1>4, <1>5, <1>10, <1>11, <1>12, <1>13, <1>14, <1>15, ClickKeeps

\* The role selector: it takes back what was wanted of a row whose toggle is under way.
LEMMA SelectKeeps ==
    ASSUME PInv, NEW r \in Requests, NEW i \in Items, NEW v \in P!Roles, P!SelectRole(r, i, v)
    PROVE  PInv'
  <1>1. i \in P!Shown /\ P!Start(r, P!Patches, "select", i, v)
        /\ wanted' = [j \in Items |-> IF P!Toggling(j) THEN None ELSE wanted[j]]
        /\ UNCHANGED <<page, rows, list, fetch, modal, testing, unseen, deleted>>
    BY DEF P!SelectRole, P!list, P!widgets
  <1>2. list # None /\ rows[i] # None
    BY <1>1, ShownRow
  <1>4. [op |-> "select", item |-> i, value |-> v, phase |-> "sent", seen |-> TRUE] \in P!Request
    BY DEF P!Request, P!Asking
  <1>5. /\ wanted' \in [Items -> BOOLEAN \cup {None}]
        /\ \A j \in Items : wanted'[j] # None => wanted'[j] = wanted[j] /\ ~P!Toggling(j)
    BY <1>1 DEF PInv, P!TypeOK
  <1>7. req'[r].op = "select"
    <2>1. req'[r] = [op |-> "select", item |-> i, value |-> v, phase |-> "sent", seen |-> TRUE]
      BY <1>1, <1>4, Started
    <2> QED BY <2>1
  <1>8. \A s \in Requests \ {r} : SameRequest(req'[s], req[s])
    BY <1>1, <1>4, Started
  <1>10. ToggleCarriesWish'
    BY <1>1, <1>5, <1>7, <1>8 DEF ToggleCarriesWish, P!Toggling, SameRequest
  <1>11. LastToggleWins'
    BY <1>1, <1>5 DEF PInv, LastToggleWins, P!LastToggleWins
  <1>12. \A j \in Items : wanted'[j] # None => rows[j] # None
    BY <1>5 DEF PInv, RowsStay
  <1>13. testing' \in Items \cup {None}
    BY <1>1 DEF PInv, P!TypeOK
  <1>14. \A s \in Requests : req[s].seen /\ req[s].op \notin P!Patches =>
            ~({"select", req[s].op} \subseteq P!Patches) /\ ~("select" = "create" /\ req[s].op = "create")
    OBVIOUS
  <1>15. "select" # None
    BY NoneIsNothing
  <1> QED BY <1>1, <1>2, <1>4, <1>5, <1>10, <1>11, <1>12, <1>13, <1>14, <1>15, ClickKeeps

\* A webhook's deletion and its test: nothing of UsersPage.
LEMMA WebhookClickKeeps ==
    ASSUME PInv, NEW r \in Requests, NEW i \in Items, P!Delete(r, i) \/ P!Test(r, i)
    PROVE  PInv'
  <1>1. PICK ops \in {{}, {"delete"}}, op \in {"delete", "test"} : P!Start(r, ops, op, i, None)
    BY DEF P!Delete, P!Test
  <1>2. /\ page = "webhooks" /\ i \in P!Shown
        /\ UNCHANGED <<page, rows, list, fetch, modal, wanted, unseen, deleted>>
        /\ testing' \in {testing, i}
    BY DEF P!Delete, P!Test, P!list, P!widgets
  <1>3. list # None
    BY <1>2, ShownRow
  <1>4. [op |-> op, item |-> i, value |-> None, phase |-> "sent", seen |-> TRUE] \in P!Request
    BY DEF P!Request, P!Asking
  <1>5. ToggleCarriesWish' /\ LastToggleWins'
    BY <1>2 DEF ToggleCarriesWish, LastToggleWins, P!LastToggleWins
  <1>6. /\ wanted' \in [Items -> BOOLEAN \cup {None}] /\ testing' \in Items \cup {None}
        /\ \A j \in Items : wanted'[j] # None => rows[j] # None
    BY <1>2 DEF PInv, P!TypeOK, RowsStay
  <1>7. op \notin P!Patches /\ op # "create" /\ op # None
    BY NoneIsNothing DEF P!Patches
  <1> QED BY <1>1, <1>2, <1>3, <1>4, <1>5, <1>6, <1>7, ClickKeeps

\* Save: disabled as long as this modal's creation is pending.
LEMMA CreateKeeps == ASSUME PInv, NEW r \in Requests, P!Create(r) PROVE PInv'
  <1>1. /\ modal = "open" /\ \A s \in Requests : ~(req[s].seen /\ req[s].op = "create")
        /\ P!Start(r, {"create"}, "create", None, None)
        /\ UNCHANGED <<page, rows, list, fetch, modal, testing, unseen, wanted, deleted>>
    BY DEF P!Create, P!SaveEnabled, P!list, P!widgets
  <1>4. [op |-> "create", item |-> None, value |-> None, phase |-> "sent", seen |-> TRUE] \in P!Request
    BY DEF P!Request, P!Asking
  <1>6. req[r].op = None
    BY <1>1, <1>4, Started
  <1>7. req'[r].op = "create"
    <2>1. req'[r] = [op |-> "create", item |-> None, value |-> None, phase |-> "sent", seen |-> TRUE]
      BY <1>1, <1>4, Started
    <2> QED BY <2>1
  <1>8. \A s \in Requests \ {r} :
            /\ SameRequest(req'[s], req[s]) /\ req'[s].phase = req[s].phase
            /\ req'[s].seen <=> req[s].seen /\ req[s].op \notin {"create"}
    BY <1>1, <1>4, Started
  <1>9. ToggleCarriesWish'
    <2>1. ASSUME NEW s \in Requests, req'[s].op = "toggle"
          PROVE  SameRequest(req'[s], req[s]) /\ req'[s].phase = req[s].phase /\ (req[s].seen => req'[s].seen)
      BY <1>7, <1>8, <2>1 DEF SameRequest
    <2> QED BY <1>1, <2>1 DEF PInv, ToggleCarriesWish, SameRequest
  <1>10. LastToggleWins'
    <2>1. \A j \in Items : P!Toggling(j) => P!Toggling(j)'
      <3>1. ASSUME NEW j \in Items, NEW s \in Requests, req[s].op = "toggle", req[s].item = j
            PROVE  req'[s].op = "toggle" /\ req'[s].item = j
        <4>1. s # r
          BY <1>6, <3>1, NoneIsNothing
        <4> QED BY <1>8, <3>1, <4>1 DEF SameRequest
      <3> QED BY <3>1 DEF P!Toggling
    <2> QED BY <1>1, <2>1 DEF PInv, LastToggleWins, P!LastToggleWins
  <1>11. /\ wanted' \in [Items -> BOOLEAN \cup {None}] /\ testing' \in Items \cup {None}
         /\ \A j \in Items : wanted'[j] # None => rows[j] # None
    BY <1>1 DEF PInv, P!TypeOK, RowsStay
  <1>12. "create" \notin P!Patches /\ "create" # None
    BY NoneIsNothing DEF P!Patches
  <1> QED BY <1>1, <1>4, <1>9, <1>10, <1>11, <1>12, ClickKeeps

\* The initial states satisfy AdminPages' invariant.
LEMMA PInit == P!Init => PInv
  <1> SUFFICES ASSUME P!Init PROVE PInv OBVIOUS
  <1>1. /\ page \in {"users", "webhooks"} /\ list = None /\ fetch.phase = "asked" /\ fetch.rows = None
        /\ modal = "closed" /\ testing = None /\ unseen = FALSE /\ deleted = {}
        /\ wanted = [i \in Items |-> None] /\ req = [r \in Requests |-> P!NoRequest]
    BY DEF P!Init, P!Asked
  <1>2. rows \in P!Tables
    <2>1. [active |-> TRUE, role |-> "admin"] \in P!Row
      BY DEF P!Row, P!Roles
    <2> QED BY <2>1 DEF P!Init, P!Tables
  <1>3. \A r \in Requests : req[r] = P!NoRequest
    BY <1>1
  <1>4. \A i \in Items : wanted[i] = None
    BY <1>1
  <1>5. P!TypeOK
    BY <1>1, <1>2, <1>3, NoRequestIsIdle DEF P!TypeOK
  <1>6. RowsStay /\ Clicked /\ OnlyCreatesBeforeList /\ FetchesHoldRows
    BY <1>1, <1>3, <1>4, NoRequestIsIdle, NoneIsNothing
       DEF RowsStay, Clicked, OnlyCreatesBeforeList, FetchesHoldRows, P!Patches
  <1>7. ListCurrent /\ ToggleCarriesWish /\ LastToggleWins
    BY <1>1, <1>4 DEF ListCurrent, ToggleCarriesWish, LastToggleWins, P!LastToggleWins
  <1> QED BY <1>5, <1>6, <1>7 DEF PInv

\* Every step of AdminPages keeps its invariant.
LEMMA PNext == PInv /\ [P!Next]_admin => PInv'
  <1> SUFFICES ASSUME PInv, [P!Next]_admin PROVE PInv' OBVIOUS
  <1>1. CASE \E r \in Requests, i \in Items : P!Toggle(r, i) \/ P!Delete(r, i) \/ P!Test(r, i)
    BY <1>1, ToggleKeeps, WebhookClickKeeps
  <1>2. CASE \E r \in Requests, i \in Items, v \in P!Roles : P!SelectRole(r, i, v)
    BY <1>2, SelectKeeps
  <1>3. CASE P!OpenModal \/ P!CloseModal
    BY <1>3, OpenModalKeeps, CloseModalKeeps
  <1>4. CASE \E r \in Requests : P!Create(r) \/ P!Commit(r) \/ P!Answer(r) \/ P!Fail(r) \/ P!OrphanRefused(r)
    BY <1>4, CreateKeeps, CommitKeeps, AnswerKeeps, FailKeeps, OrphanRefusedKeeps
  <1>5. CASE \E i \in Items : P!Foreign(i)
    BY <1>5, ForeignKeeps
  <1>6. CASE P!Read \/ P!Listed \/ P!FetchFails
    BY <1>6, ReadKeeps, ListedKeeps, FetchFailsKeeps
  <1>7. CASE UNCHANGED admin
    <2>1. UNCHANGED <<page, rows, list, fetch, req, modal, testing, unseen, wanted, deleted>>
      BY <1>7 DEF admin
    <2>2. ListCurrent'
      BY <2>1 DEF PInv, ListCurrent, Unanswered
    <2>3. FetchesHoldRows' /\ unseen' \in BOOLEAN /\ fetch'.phase \in {"idle", "asked", "read"}
      BY <2>1 DEF PInv, P!TypeOK, FetchesHoldRows
    <2> QED BY <2>1, <2>2, <2>3, FetchKeeps
  <1> QED BY <1>1, <1>2, <1>3, <1>4, <1>5, <1>6, <1>7 DEF P!Next
----------------------------------------------------------------------------
(* All of them *)

\* The definitions of Accounts are those that its theorems are about.
LEMMA AccountsTheSame ==
    /\ A!Init => AP!Init
    /\ [A!Next]_accounts => [AP!Next]_(AP!vars)
    /\ AP!TypeOK => A!TypeOK
  <1>1. A!Init => AP!Init
    BY DEF A!Init, AP!Init, A!NoRequest, AP!NoRequest
  <1>2. AP!TypeOK => A!TypeOK
    BY DEF A!TypeOK, AP!TypeOK, A!Ops, AP!Ops, A!Deactivations, AP!Deactivations
  <1>3. A!Next => AP!Next
    BY DEF A!Next, AP!Next, A!Send, AP!Send, A!Authenticate, AP!Authenticate, A!Handle, AP!Handle,
           A!Commit, AP!Commit, A!Advance, AP!Advance, A!NoRequest, AP!NoRequest, A!OnOneself, AP!OnOneself,
           A!Void, AP!Void, A!Insert, AP!Insert, A!Ops, AP!Ops, A!table, AP!table,
           A!Deactivations, AP!Deactivations, A!ActiveAdmin, AP!ActiveAdmin
  <1>4. UNCHANGED accounts => UNCHANGED AP!vars
    BY DEF accounts, AP!vars
  <1> QED BY <1>1, <1>2, <1>3, <1>4

\* A step of one of the four is no step of the others.
LEMMA Apart ==
    [Next]_vars => [A!Next]_accounts /\ [S!Next]_session /\ [P!Next]_admin /\ [L!Next]_logs
  BY DEF Next, vars

\* The initial states satisfy the invariant of the four.
LEMMA CInit == Init => CInv
  BY AccountsTheSame, AP!AInit, SInit, PInit, LInit DEF Init, CInv

\* Every step keeps it.
LEMMA CNext == CInv /\ [Next]_vars => CInv'
  <1> SUFFICES ASSUME CInv, [Next]_vars PROVE CInv' OBVIOUS
  <1>1. [A!Next]_accounts /\ [S!Next]_session /\ [P!Next]_admin /\ [L!Next]_logs
    BY Apart
  <1>2. AP!AInv'
    BY <1>1, AccountsTheSame, AP!ANext DEF CInv
  <1>3. SInv'
    BY <1>1, SNext DEF CInv
  <1>4. PInv'
    BY <1>1, PNext DEF CInv
  <1>5. LInv'
    BY <1>1, LNext DEF CInv
  <1> QED BY <1>2, <1>3, <1>4, <1>5 DEF CInv

\* Every reachable state of the four satisfies it.
THEOREM ConsoleInvariant == Spec => []CInv
  BY CInit, CNext, PTL DEF Spec

\* The state variables of the four keep their types, and the counters their bounds.
THEOREM ConsoleTypeCorrect == Spec => []TypeOK
  <1>1. CInv => TypeOK
    BY AccountsTheSame DEF CInv, AP!AInv, SInv, LInv, PInv, TypeOK
  <1> QED BY <1>1, ConsoleInvariant, PTL

\* A 401 is for the token that is still in use, so that the interceptor's logout ends no
\* session of a newer login, except in a document that a logout is about to leave: the
\* navigation takes the requests along when it commits, not when it is started.
THEOREM RefusalsHitTheirOwnSession == Spec => []RefusalsAreOwn
  <1>1. CInv => RefusalsAreOwn
    BY DEF CInv, SInv
  <1> QED BY <1>1, ConsoleInvariant, PTL

\* UsersPage and WebhooksPage at rest show the table, however requests and refetches
\* overlapped, unless a failure or another administrator intervened.
THEOREM QuietPagesAreCurrent == Spec => []QuietPageIsCurrent
  <1>1. CInv => QuietPageIsCurrent
    <2>1. (\A r \in Requests : ~P!Pending(r)) => ~Unanswered
      BY DEF P!Pending, Unanswered
    <2> QED BY <2>1 DEF CInv, PInv, ListCurrent, QuietPageIsCurrent, P!QuietPageIsCurrent
  <1> QED BY <1>1, ConsoleInvariant, PTL

\* Clicks on one row's button of UsersPage take effect in their order, because only the
\* toggle that is shown can be under way.
THEOREM LastTogglesWin == Spec => []LastToggleWins
  <1>1. CInv => LastToggleWins
    BY DEF CInv, PInv
  <1> QED BY <1>1, ConsoleInvariant, PTL

\* The last active administrator goes only by a commit of a request that was
\* authenticated before its own author stopped being one, or that was his own DELETE
\* under another spelling of his id.
THEOREM LastAdminFallsToAnOverlapOfRequests == Spec => LastAdminFallsToAnOverlap
  <1>1. ASSUME CInv, [Next]_vars, A!SomeAdmin, ~A!SomeAdmin'
        PROVE  \E r \in Requests :
                /\ A!Commits(r)
                /\ \/ ~A!ActiveAdmin(request[r].actor)
                   \/ request[r].op = "deleteRespelled" /\ request[r].subject = request[r].actor
    <2>1. AP!AInv /\ [AP!Next]_(AP!vars)
      BY <1>1, Apart, AccountsTheSame DEF CInv
    <2>2. AP!SomeAdmin /\ ~AP!SomeAdmin'
      BY <1>1 DEF A!SomeAdmin, AP!SomeAdmin, A!ActiveAdmin, AP!ActiveAdmin
    <2>3. \E r \in Requests :
                /\ AP!Commits(r)
                /\ \/ ~AP!ActiveAdmin(request[r].actor)
                   \/ request[r].op = "deleteRespelled" /\ request[r].subject = request[r].actor
      BY <2>1, <2>2, AP!LastAdminStep
    <2> QED BY <2>3 DEF A!Commits, AP!Commits, A!ActiveAdmin, AP!ActiveAdmin
  <1>2. CInv /\ [Next]_vars =>
          [ (A!SomeAdmin /\ ~A!SomeAdmin') =>
              \E r \in Requests :
                /\ A!Commits(r)
                /\ \/ ~A!ActiveAdmin(request[r].actor)
                   \/ request[r].op = "deleteRespelled" /\ request[r].subject = request[r].actor ]_(A!vars)
    BY <1>1
  <1> QED BY <1>2, ConsoleInvariant, PTL DEF Spec, LastAdminFallsToAnOverlap, A!LastAdminFallsToAnOverlap
=============================================================================
