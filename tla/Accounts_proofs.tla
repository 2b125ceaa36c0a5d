--------------------------- MODULE Accounts_proofs ---------------------------
(***************************************************************************)
(* Theorems about Accounts, for any users, usernames and requests.         *)
(***************************************************************************)
EXTENDS Accounts, TLAPS

\* The self-check stands between a request and its commit.
SelfChecked == \A r \in Requests : req[r].phase = "handled" => ~OnOneself(req[r])

AInv == TypeOK /\ SelfChecked

\* What a request can become in one step.
LEMMA AdvanceTyped ==
    ASSUME TypeOK, NEW r \in Requests, NEW p \in {"idle", "sent", "authenticated", "handled"},
           req[r].phase # "idle", Advance(r, p)
    PROVE  /\ req' \in [Requests -> [actor : Users \cup {None}, op : Ops \cup {None},
                             subject : Users \cup Names \cup {None},
                             phase : {"idle", "sent", "authenticated", "handled"}]]
           /\ \A q \in Requests : req'[q].phase # "idle" =>
                req'[q].actor \in Users /\ req'[q].op \in Ops
           /\ req'[r].phase = p
           /\ p # "idle" => req'[r] = [req[r] EXCEPT !.phase = p]
           /\ \A q \in Requests \ {r} : req'[q] = req[q]
  BY DEF Advance, TypeOK, NoRequest

\* The initial states satisfy the invariant.
LEMMA AInit == Init => AInv
  BY DEF Init, AInv, TypeOK, SelfChecked, NoRequest

\* Sending a request keeps it.
LEMMA SendKeeps ==
    ASSUME AInv, NEW r \in Requests, NEW u \in Users, NEW op \in Ops, NEW s \in Users \cup Names,
           Send(r, u, op, s)
    PROVE  AInv'
  BY DEF AInv, TypeOK, SelfChecked, OnOneself, Send, table

\* So does its authentication.
LEMMA AuthenticateKeeps ==
    ASSUME AInv, NEW r \in Requests, Authenticate(r)
    PROVE  AInv'
  <1>1. TypeOK /\ req[r].phase # "idle"
    BY DEF AInv, Authenticate
  <1>2. PICK p \in {"authenticated", "idle"} : Advance(r, p)
    BY DEF Authenticate
  <1>3. TypeOK'
    BY <1>1, <1>2, AdvanceTyped DEF TypeOK, Authenticate, table
  <1>5. SelfChecked'
    <2>1. \A q \in Requests : req'[q].phase = "handled" => q # r /\ req'[q] = req[q]
      BY <1>1, <1>2, AdvanceTyped
    <2> QED BY <2>1 DEF AInv, SelfChecked, OnOneself
  <1> QED BY <1>3, <1>5 DEF AInv

\* The handler lets nothing through that is on oneself.
LEMMA HandleKeeps ==
    ASSUME AInv, NEW r \in Requests, Handle(r)
    PROVE  AInv'
  <1>1. TypeOK /\ req[r].phase # "idle"
    BY DEF AInv, Handle
  <1>2. PICK p \in {"idle", "handled"} : Advance(r, p) /\ (p = "handled" => ~OnOneself(req[r]))
    BY DEF Handle
  <1>3. TypeOK'
    BY <1>1, <1>2, AdvanceTyped DEF TypeOK, Handle, table
  <1>5. SelfChecked'
    <2>1. \A q \in Requests \ {r} : req'[q] = req[q]
      BY <1>1, <1>2, AdvanceTyped
    <2>2. req'[r].phase = "handled" => req'[r] = [req[r] EXCEPT !.phase = "handled"] /\ ~OnOneself(req[r])
      BY <1>1, <1>2, AdvanceTyped
    <2>3. req[r] \in [actor : Users \cup {None}, op : Ops \cup {None},
                      subject : Users \cup Names \cup {None},
                      phase : {"idle", "sent", "authenticated", "handled"}]
      BY <1>1 DEF TypeOK
    <2>4. req'[r].phase = "handled" => ~OnOneself(req'[r])
      BY <2>2, <2>3 DEF OnOneself
    <2> QED BY <2>1, <2>4 DEF AInv, SelfChecked, OnOneself
  <1> QED BY <1>3, <1>5 DEF AInv

\* What a commit does to the table, by the request it ends.
LEMMA CommitTable ==
    ASSUME TypeOK, NEW r \in Requests, Commit(r)
    PROVE  /\ role' \in [Users -> {"admin", "viewer"}]
           /\ active' \in [Users -> BOOLEAN]
           /\ taken' \in [Names -> 0..1]
           /\ \A u \in Users : ActiveAdmin(u) /\ ~ActiveAdmin(u)' =>
                u = req[r].subject /\ req[r].op \in {"demote"} \cup Deactivations
  <1> DEFINE s == req[r].subject
  <1>1. req[r].op \in Ops
    BY DEF TypeOK, Commit
  <1>2. CASE req[r].op \in {"promote", "demote"}
    BY <1>2 DEF Commit, TypeOK, ActiveAdmin
  <1>3. CASE req[r].op \in {"activate"} \cup Deactivations
    BY <1>3 DEF Commit, TypeOK, ActiveAdmin, Deactivations
  <1>4. CASE req[r].op = "create"
    BY <1>4 DEF Commit, Insert, TypeOK, ActiveAdmin
  <1> QED BY <1>1, <1>2, <1>3, <1>4 DEF Ops, Deactivations

\* A commit ends its request.
LEMMA CommitKeeps ==
    ASSUME AInv, NEW r \in Requests, Commit(r)
    PROVE  AInv'
  <1>1. TypeOK /\ req[r].phase # "idle" /\ Advance(r, "idle")
    BY DEF AInv, Commit
  <1>2. TypeOK'
    BY <1>1, AdvanceTyped, CommitTable DEF TypeOK
  <1>4. SelfChecked'
    <2>1. \A q \in Requests : req'[q].phase = "handled" => q # r /\ req'[q] = req[q]
      BY <1>1, AdvanceTyped
    <2> QED BY <2>1 DEF AInv, SelfChecked, OnOneself
  <1> QED BY <1>2, <1>4 DEF AInv

\* Every step keeps the invariant.
LEMMA ANext == AInv /\ [Next]_vars => AInv'
  <1> SUFFICES ASSUME AInv, [Next]_vars PROVE AInv' OBVIOUS
  <1>1. CASE Next
    BY <1>1, SendKeeps, AuthenticateKeeps, HandleKeeps, CommitKeeps DEF Next
  <1>2. CASE UNCHANGED vars
    BY <1>2 DEF vars, table, AInv, TypeOK, SelfChecked, OnOneself
  <1> QED BY <1>1, <1>2

\* Every reachable state is typed, and no request to commit is on its own author.
THEOREM AccountsInvariant == Spec => []AInv
  BY AInit, ANext, PTL DEF Spec

\* Accounts' TypeOK holds of every reachable state.
THEOREM AccountsTypeCorrect == Spec => []TypeOK
  <1>1. AInv => TypeOK BY DEF AInv
  <1> QED BY <1>1, AccountsInvariant, PTL

\* Whoever takes the last administrator away is the last one's victim too, or himself
\* the last one: a step that leaves no active administrator commits a request whose
\* author is none any more, or who wrote his own id in another way.
LEMMA LastAdminStep ==
    ASSUME AInv, [Next]_vars, SomeAdmin, ~SomeAdmin'
    PROVE  \E r \in Requests :
                /\ Commits(r)
                /\ \/ ~ActiveAdmin(req[r].actor)
                   \/ req[r].op = "deleteRespelled" /\ req[r].subject = req[r].actor
  <1>1. <<role, active>>' # <<role, active>>
    BY DEF SomeAdmin, ActiveAdmin
  <1>2. PICK r \in Requests : Commit(r)
    BY <1>1 DEF Next, Send, Authenticate, Handle, vars, table
  <1>3. PICK u \in Users : ActiveAdmin(u)
    BY DEF SomeAdmin
  <1>4. TypeOK /\ req[r].phase = "handled" /\ ~OnOneself(req[r]) /\ req[r].actor \in Users
    BY <1>2 DEF AInv, SelfChecked, TypeOK, Commit
  <1>5. \A v \in Users : ActiveAdmin(v) =>
            v = req[r].subject /\ req[r].op \in {"demote"} \cup Deactivations
    BY <1>2, <1>4, CommitTable DEF SomeAdmin
  <1>6. req[r].subject # req[r].actor \/ req[r].op = "deleteRespelled"
    BY <1>3, <1>4, <1>5 DEF OnOneself, Deactivations
  <1>7. Commits(r)
    BY <1>2, <1>4, AdvanceTyped DEF Commit, Commits
  <1> QED BY <1>4, <1>5, <1>6, <1>7

\* The action property, for any number of users and of requests under way.
THEOREM LastAdminFallsToAnOverlapHolds == Spec => LastAdminFallsToAnOverlap
  <1>1. AInv /\ [Next]_vars =>
          [ (SomeAdmin /\ ~SomeAdmin') =>
              \E r \in Requests :
                /\ Commits(r)
                /\ \/ ~ActiveAdmin(req[r].actor)
                   \/ req[r].op = "deleteRespelled" /\ req[r].subject = req[r].actor ]_vars
    BY LastAdminStep
  <1> QED BY <1>1, AccountsInvariant, PTL DEF Spec, LastAdminFallsToAnOverlap
=============================================================================
