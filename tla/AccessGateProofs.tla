-------------------------- MODULE AccessGateProofs --------------------------
(***************************************************************************)
(* Proofs about AccessGate, for any number of users, tabs and               *)
(* administrators, any TTL and any fault: the staleness bound of the gate,  *)
(* and that the users table implements AccessRow.                           *)
(***************************************************************************)
EXTENDS AccessGate, FiniteSets, FiniteSetTheorems, TLAPS

USE AccessAssumption DEF Decided, Status, Error, CacheEntry, FaultKinds, tabVars, decVars, histVars

\* What may happen to the users table in one step.
RowStep ==
  \/ UNCHANGED <<access, leftAt>>
  \/ \E u \in Users, s \in Status : SetRow(u, s)

\* Changing a row keeps the table and its history well-typed.
LEMMA RowStepType ==
  ASSUME TypeOK, RowStep
  PROVE  access' \in [Users -> Status] /\ leftAt' \in [Users -> [Status -> Int]]
<1>1. CASE UNCHANGED <<access, leftAt>>
  BY <1>1 DEF TypeOK
<1>2. ASSUME NEW u \in Users, NEW s \in Status, SetRow(u, s)
      PROVE  access' \in [Users -> Status] /\ leftAt' \in [Users -> [Status -> Int]]
  <2>1. access' \in [Users -> Status]
    BY <1>2 DEF SetRow, TypeOK
  <2>2. [leftAt[u] EXCEPT ![access[u]] = now] \in [Status -> Int]
    BY DEF TypeOK
  <2>3. leftAt' \in [Users -> [Status -> Int]]
    BY <1>2, <2>2 DEF SetRow, TypeOK
  <2> QED BY <2>1, <2>3
<1> QED BY <1>1, <1>2 DEF RowStep

\* What was true since an instant in the past stays so.
LEMMA Stable ==
  ASSUME TypeOK, RowStep, NEW u \in Users, NEW s \in Status,
         NEW since \in Int, since <= now, TrueSince(u, s, since)
  PROVE  TrueSince(u, s, since)'
<1>1. CASE UNCHANGED <<access, leftAt>>
  BY <1>1 DEF TrueSince
<1>2. ASSUME NEW v \in Users, NEW r \in Status, SetRow(v, r)
      PROVE  TrueSince(u, s, since)'
  <2>1. CASE u # v
    BY <1>2, <2>1 DEF SetRow, TrueSince, TypeOK
  <2>2. CASE u = v /\ r = access[v]
    BY <1>2, <2>2 DEF SetRow, TrueSince, TypeOK
  <2>3. CASE u = v /\ r # access[v]
    <3>1. leftAt'[u] = [leftAt[u] EXCEPT ![access[u]] = now]
      BY <1>2, <2>3 DEF SetRow, TypeOK
    <3>2. leftAt[u] \in [Status -> Int] /\ access[u] \in Status
      BY DEF TypeOK
    <3>3. CASE s = access[u]
      BY <3>1, <3>2, <3>3 DEF TrueSince
    <3>4. CASE s # access[u]
      BY <3>1, <3>2, <3>4 DEF TrueSince
    <3> QED BY <3>3, <3>4
  <2> QED BY <2>1, <2>2, <2>3
<1> QED BY <1>1, <1>2 DEF RowStep

\* Time does not run backwards, and the rows change one at a time.
Moves == RowStep /\ now' \in Nat /\ now <= now'

\* A cache that is left alone, or loses an entry, stays recent.
LEMMA CacheFrame ==
  ASSUME IInv, Moves,
         \/ UNCHANGED cache
         \/ \E u \in Users : DropEntry(u)
  PROVE  CacheIsRecent' /\ cache' \in [Users -> CacheEntry \cup {None}]
<1>1. cache' \in [Users -> CacheEntry \cup {None}]
  BY DEF IInv, TypeOK, DropEntry
<1>2. SUFFICES ASSUME NEW u \in Users, cache'[u] # None
               PROVE  /\ cache'[u].at <= now'
                      /\ access'[u] = cache'[u].status \/ leftAt'[u][cache'[u].status] >= cache'[u].at
  BY <1>1 DEF CacheIsRecent, TrueSince
<1>3. cache'[u] = cache[u] /\ cache[u] # None /\ cache[u] \in CacheEntry
  BY <1>2 DEF IInv, TypeOK, DropEntry
<1>4. cache[u].at <= now /\ TrueSince(u, cache[u].status, cache[u].at)
  BY <1>3 DEF IInv, CacheIsRecent
<1>5. PICK s \in Status, since \in Nat : s = cache[u].status /\ since = cache[u].at
  BY <1>3
<1>6. access'[u] = s \/ leftAt'[u][s] >= since
  BY <1>4, <1>5, Stable DEF IInv, TypeOK, Moves, TrueSince
<1> QED BY <1>3, <1>4, <1>5, <1>6 DEF Moves, IInv, TypeOK

\* What IInv says of one request, and of one administrator's.
TabOK(t) ==
  /\ asked[t] <= now
  /\ pc[t] = "put" => answer[t] # Error /\ TrueSince(UserOf[t], answer[t], asked[t])
  /\ pc[t] = "answered" /\ answer[t] # Error =>
       \/ ByConfig(UserOf[t], preview[t]) /\ answer[t] = "approved"
       \/ TrueSince(UserOf[t], answer[t], asked[t] - TTL)
  /\ pc[t] = "passed" =>
       \/ ByConfig(UserOf[t], preview[t])
       \/ TrueSince(UserOf[t], "approved", asked[t] - TTL)

DecOK(d) ==
  /\ dpc[d] # "idle" =>
       /\ target[d] \in Users
       /\ found[d] => TrueSince(target[d], decision[d], 0)
       /\ found[d] => decision[d] \in Decided
       /\ dpc[d] = "mail" => found[d]

\* IInv is these, a recent cache and the types.
LEMMA Split ==
  IInv <=> /\ TypeOK /\ CacheIsRecent
           /\ \A t \in Tabs : TabOK(t)
           /\ \A d \in Deciders : DecOK(d)
  BY DEF IInv, LetInOnlyIfRecentlyApproved, MailedDecisionWasStored,
         AnswersAreRecent, DecisionsAreStored, TabOK, DecOK

\* The same for the next state.
LEMMA Join ==
  ASSUME TypeOK', CacheIsRecent',
         \A t \in Tabs : TabOK(t)',
         \A d \in Deciders : DecOK(d)'
  PROVE  IInv'
  BY DEF IInv, LetInOnlyIfRecentlyApproved, MailedDecisionWasStored,
         AnswersAreRecent, DecisionsAreStored, TabOK, DecOK

\* A request that does not move stays as recent as it was.
LEMMA OtherTab ==
  ASSUME IInv, Moves, NEW t \in Tabs,
         pc'[t] = pc[t], asked'[t] = asked[t], answer'[t] = answer[t], preview'[t] = preview[t]
  PROVE  TabOK(t)'
<1>1. TabOK(t) /\ TypeOK
  BY Split
<1>2. UserOf[t] \in Users /\ asked[t] \in Nat /\ answer[t] \in Status \cup {Error}
  BY <1>1 DEF TypeOK
<1>3. \A s \in Status, since \in Int :
        since <= now /\ TrueSince(UserOf[t], s, since) =>
          access'[UserOf[t]] = s \/ leftAt'[UserOf[t]][s] >= since
  BY <1>1, <1>2, Stable DEF Moves, TrueSince
<1>4. asked[t] <= now /\ asked[t] - TTL <= now /\ asked[t] - TTL \in Int /\ now <= now' /\ now' \in Nat /\ now \in Nat
  BY <1>1, <1>2 DEF Moves, TabOK, TypeOK
<1> QED BY <1>1, <1>2, <1>3, <1>4 DEF TabOK, TrueSince, ByConfig

\* An administrator's request that does not move keeps what it knows.
LEMMA OtherDecider ==
  ASSUME IInv, Moves, NEW d \in Deciders,
         dpc'[d] = dpc[d], target'[d] = target[d], decision'[d] = decision[d], found'[d] = found[d]
  PROVE  DecOK(d)'
<1>1. DecOK(d) /\ TypeOK
  BY Split
<1>2. \A u \in Users, s \in Status :
        TrueSince(u, s, 0) => access'[u] = s \/ leftAt'[u][s] >= 0
  BY <1>1, Stable DEF Moves, TrueSince, TypeOK
<1> QED BY <1>1, <1>2 DEF DecOK, TrueSince

\* A step of requests only leaves the administrators alone, and the other way round.
LEMMA DecFrame ==
  ASSUME IInv, Moves, UNCHANGED decVars
  PROVE  \A d \in Deciders : DecOK(d)'
  BY OtherDecider

\* A step of administrators, of the environment or of time leaves the requests alone.
LEMMA TabFrame ==
  ASSUME IInv, Moves, UNCHANGED tabVars
  PROVE  \A t \in Tabs : TabOK(t)'
  BY OtherTab

-----------------------------------------------------------------------------

\* Nobody has asked, nothing is cached.
LEMMA InitInv == Init => IInv
<1> SUFFICES ASSUME Init PROVE IInv
  OBVIOUS
<1>1. TypeOK
  BY DEF Init, TypeOK, Never
<1>2. CacheIsRecent
  BY DEF Init, CacheIsRecent
<1>3. \A t \in Tabs : TabOK(t)
  BY DEF Init, TabOK
<1>4. \A d \in Deciders : DecOK(d)
  BY DEF Init, DecOK
<1> QED BY <1>1, <1>2, <1>3, <1>4, Split

-----------------------------------------------------------------------------
(* One lemma per action *)
\* A request begins with the clock it will be judged by.
LEMMA AskInv ==
  ASSUME IInv, NEW t \in Tabs, NEW k \in {"field", "access"}, NEW p \in BOOLEAN, Ask(t, k, p)
  PROVE  IInv'
<1>0. TypeOK /\ CacheIsRecent /\ TabOK(t) /\ UserOf[t] \in Users
  BY Split
<1>1. Moves
  BY <1>0 DEF Ask, Go, Moves, RowStep, TypeOK
<1>2. TypeOK'
  BY <1>0 DEF Ask, Go, TypeOK
<1>3. CacheIsRecent'
  BY <1>1, CacheFrame DEF Ask, Go
<1>4. ASSUME NEW r \in Tabs PROVE TabOK(r)'
  <2>1. CASE r # t
    <3>1. pc'[r] = pc[r] /\ asked'[r] = asked[r] /\ answer'[r] = answer[r] /\ preview'[r] = preview[r]
      BY <1>0, <2>1 DEF Ask, Go, TypeOK
    <3> QED BY <1>1, <3>1, OtherTab
  <2>2. CASE r = t
    BY <1>0, <2>2 DEF Ask, Go, TabOK, TypeOK, ByConfig
  <2> QED BY <2>1, <2>2
<1>5. \A d \in Deciders : DecOK(d)'
  BY <1>1, DecFrame DEF Ask, Go
<1> QED BY <1>2, <1>3, <1>4, <1>5, Join

\* A cached answer is at most TTL older than the request.
LEMMA LookUpInv ==
  ASSUME IInv, NEW t \in Tabs, LookUp(t)
  PROVE  IInv'
<1>0. TypeOK /\ CacheIsRecent /\ TabOK(t) /\ UserOf[t] \in Users
  BY Split
<1>1. Moves
  BY <1>0 DEF LookUp, Go, Moves, RowStep, TypeOK
<1>2. TypeOK'
  <2>1. pc' \in [Tabs -> {"idle", "lookup", "read", "put", "answered", "passed", "refused", "insert", "drop", "mail"}]
    BY <1>0 DEF LookUp, Go, TypeOK
  <2>2. answer' \in [Tabs -> Status \cup {Error}]
    <3>1. CASE Hit(UserOf[t], asked[t])
      <4>1. cache[UserOf[t]].status \in Status
        BY <1>0, <3>1 DEF Hit, TypeOK
      <4> QED BY <1>0, <3>1, <4>1 DEF LookUp, TypeOK
    <3>2. CASE ~Hit(UserOf[t], asked[t])
      BY <1>0, <3>2 DEF LookUp, TypeOK
    <3> QED BY <3>1, <3>2
  <2> QED BY <1>0, <2>1, <2>2 DEF LookUp, TypeOK
<1>3. CacheIsRecent'
  BY <1>1, CacheFrame DEF LookUp, Go
<1>4. ASSUME NEW r \in Tabs PROVE TabOK(r)'
  <2>1. CASE r # t
    <3>1. pc'[r] = pc[r] /\ asked'[r] = asked[r] /\ answer'[r] = answer[r] /\ preview'[r] = preview[r]
      BY <1>0, <2>1 DEF LookUp, Go, TypeOK
    <3> QED BY <1>1, <3>1, OtherTab
  <2>2. CASE r = t
    <3>1. CASE pc'[t] = "read"
      BY <1>0, <2>2, <3>1 DEF LookUp, Go, TabOK, TypeOK
    <3>2. CASE Hit(UserOf[t], asked[t]) /\ pc'[t] = "answered" /\ answer' = [answer EXCEPT ![t] = cache[UserOf[t]].status]
      <4>1. PICK s \in Status, at \in Nat : s = cache[UserOf[t]].status /\ at = cache[UserOf[t]].at
        BY <1>0, <3>2 DEF Hit, TypeOK
      <4>2. TrueSince(UserOf[t], s, at)
        BY <1>0, <3>2, <4>1 DEF Hit, CacheIsRecent
      <4>3. asked[t] \in Nat /\ at >= asked[t] - TTL
        BY <1>0, <3>2, <4>1 DEF Hit, Fresh, TypeOK
      <4>4. leftAt[UserOf[t]][s] \in Int
        BY <1>0 DEF TypeOK
      <4>5. TrueSince(UserOf[t], s, asked[t] - TTL)
        BY <4>2, <4>3, <4>4 DEF TrueSince
      <4>6. answer'[t] = s /\ asked' = asked /\ access' = access /\ leftAt' = leftAt /\ now' = now
        BY <1>0, <3>2, <4>1 DEF LookUp, TypeOK
      <4> QED BY <1>0, <2>2, <3>2, <4>5, <4>6 DEF TabOK, TrueSince
    <3> QED BY <1>0, <3>1, <3>2 DEF LookUp, Go, TypeOK
  <2> QED BY <2>1, <2>2
<1>5. \A d \in Deciders : DecOK(d)'
  BY <1>1, DecFrame DEF LookUp, Go
<1> QED BY <1>2, <1>3, <1>4, <1>5, Join

\* What is read is true now.
LEMMA GetUserAccessInv ==
  ASSUME IInv, NEW t \in Tabs, GetUserAccess(t)
  PROVE  IInv'
<1>0. TypeOK /\ CacheIsRecent /\ TabOK(t) /\ UserOf[t] \in Users
  BY Split
<1>1. Moves
  BY <1>0 DEF GetUserAccess, Go, Moves, RowStep, TypeOK
<1>2. TypeOK'
  <2>1. pc' \in [Tabs -> {"idle", "lookup", "read", "put", "answered", "passed", "refused", "insert", "drop", "mail"}]
    BY <1>0 DEF GetUserAccess, Go, TypeOK
  <2>2. answer' \in [Tabs -> Status \cup {Error}]
    BY <1>0 DEF GetUserAccess, StatusRead, TypeOK
  <2> QED BY <1>0, <2>1, <2>2 DEF GetUserAccess, TypeOK
<1>3. CacheIsRecent'
  BY <1>1, CacheFrame DEF GetUserAccess, Go
<1>4. ASSUME NEW r \in Tabs PROVE TabOK(r)'
  <2>1. CASE r # t
    <3>1. pc'[r] = pc[r] /\ asked'[r] = asked[r] /\ answer'[r] = answer[r] /\ preview'[r] = preview[r]
      BY <1>0, <2>1 DEF GetUserAccess, Go, TypeOK
    <3> QED BY <1>1, <3>1, OtherTab
  <2>2. CASE r = t
    <3>1. CASE pc'[t] = "put" /\ answer'[t] = access[UserOf[t]]
      <4>1. answer'[t] \in Status /\ answer'[t] # Error /\ access' = access /\ asked' = asked /\ now' = now
        BY <1>0, <3>1 DEF GetUserAccess, TypeOK
      <4> QED BY <1>0, <2>2, <3>1, <4>1 DEF TabOK, TrueSince, TypeOK
    <3>2. CASE pc'[t] = "answered" /\ answer'[t] = Error
      BY <1>0, <2>2, <3>2 DEF GetUserAccess, TabOK, TypeOK
    <3> QED BY <1>0, <3>1, <3>2 DEF GetUserAccess, Go, StatusRead, TypeOK
  <2> QED BY <2>1, <2>2
<1>5. \A d \in Deciders : DecOK(d)'
  BY <1>1, DecFrame DEF GetUserAccess, Go
<1> QED BY <1>2, <1>3, <1>4, <1>5, Join

\* The entry is stamped with a time before the read.
LEMMA PutInv ==
  ASSUME IInv, NEW t \in Tabs, Put(t)
  PROVE  IInv'
<1>0. TypeOK /\ CacheIsRecent /\ TabOK(t) /\ UserOf[t] \in Users
  BY Split
<1>1. Moves
  BY <1>0 DEF Put, Go, Moves, RowStep, TypeOK
<1>2. TypeOK'
  <2>1. answer[t] \in Status /\ asked[t] \in Nat
    BY <1>0 DEF Put, Go, TabOK, TypeOK
  <2> QED BY <1>0, <2>1 DEF Put, Go, StampOf, TypeOK
<1>3. CacheIsRecent'
  <2>1. answer[t] \in Status /\ asked[t] \in Nat /\ asked[t] <= now /\ TrueSince(UserOf[t], answer[t], asked[t])
    BY <1>0 DEF Put, Go, TabOK, TypeOK
  <2>2. \A u \in Users : cache'[u] = IF u = UserOf[t] THEN [status |-> answer[t], at |-> asked[t]] ELSE cache[u]
    BY <1>0 DEF Put, StampOf, TypeOK
  <2> QED BY <1>0, <2>1, <2>2 DEF Put, CacheIsRecent, TrueSince
<1>4. ASSUME NEW r \in Tabs PROVE TabOK(r)'
  <2>1. CASE r # t
    <3>1. pc'[r] = pc[r] /\ asked'[r] = asked[r] /\ answer'[r] = answer[r] /\ preview'[r] = preview[r]
      BY <1>0, <2>1 DEF Put, Go, TypeOK
    <3> QED BY <1>1, <3>1, OtherTab
  <2>2. CASE r = t
    <3>1. answer[t] \in Status /\ asked[t] \in Nat /\ TrueSince(UserOf[t], answer[t], asked[t])
      BY <1>0 DEF Put, Go, TabOK, TypeOK
    <3>2. leftAt[UserOf[t]][answer[t]] \in Int
      BY <1>0, <3>1 DEF TypeOK
    <3>3. TrueSince(UserOf[t], answer[t], asked[t] - TTL)
      BY <3>1, <3>2 DEF TrueSince
    <3> QED BY <1>0, <2>2, <3>3 DEF Put, Go, TabOK, TrueSince, TypeOK
  <2> QED BY <2>1, <2>2
<1>5. \A d \in Deciders : DecOK(d)'
  BY <1>1, DecFrame DEF Put, Go
<1> QED BY <1>2, <1>3, <1>4, <1>5, Join

\* Only an approval passes, and an error is none.
LEMMA GateInv ==
  ASSUME IInv, NEW t \in Tabs, Gate(t)
  PROVE  IInv'
<1>0. TypeOK /\ CacheIsRecent /\ TabOK(t) /\ UserOf[t] \in Users
  BY Split
<1>1. Moves
  BY <1>0 DEF Gate, Go, Moves, RowStep, TypeOK
<1>2. TypeOK'
  BY <1>0 DEF Gate, Go, TypeOK
<1>3. CacheIsRecent'
  BY <1>1, CacheFrame DEF Gate, Go
<1>4. ASSUME NEW r \in Tabs PROVE TabOK(r)'
  <2>1. CASE r # t
    <3>1. pc'[r] = pc[r] /\ asked'[r] = asked[r] /\ answer'[r] = answer[r] /\ preview'[r] = preview[r]
      BY <1>0, <2>1 DEF Gate, Go, TypeOK
    <3> QED BY <1>1, <3>1, OtherTab
  <2>2. CASE r = t
    BY <1>0, <2>2 DEF Gate, Go, Passes, TabOK, TrueSince, TypeOK
  <2> QED BY <2>1, <2>2
<1>5. \A d \in Deciders : DecOK(d)'
  BY <1>1, DecFrame DEF Gate, Go
<1> QED BY <1>2, <1>3, <1>4, <1>5, Join

\* The answer leaves the server.
LEMMA RespondInv ==
  ASSUME IInv, NEW t \in Tabs, Respond(t)
  PROVE  IInv'
<1>0. TypeOK /\ CacheIsRecent /\ TabOK(t) /\ UserOf[t] \in Users
  BY Split
<1>1. Moves
  BY <1>0 DEF Respond, Return, Go, Moves, RowStep, TypeOK
<1>2. TypeOK'
  BY <1>0 DEF Respond, Return, Go, TypeOK
<1>3. CacheIsRecent'
  BY <1>1, CacheFrame DEF Respond, Return, Go
<1>4. ASSUME NEW r \in Tabs PROVE TabOK(r)'
  <2>1. CASE r # t
    <3>1. pc'[r] = pc[r] /\ asked'[r] = asked[r] /\ answer'[r] = answer[r] /\ preview'[r] = preview[r]
      BY <1>0, <2>1 DEF Respond, Return, Go, TypeOK
    <3> QED BY <1>1, <3>1, OtherTab
  <2>2. CASE r = t
    BY <1>0, <2>2 DEF Respond, Return, Go, TabOK, TypeOK
  <2> QED BY <2>1, <2>2
<1>5. \A d \in Deciders : DecOK(d)'
  BY <1>1, DecFrame DEF Respond, Return, Go
<1> QED BY <1>2, <1>3, <1>4, <1>5, Join

\* Asking for access never passes the gate.
LEMMA RequestAccessInv ==
  ASSUME IInv, NEW t \in Tabs, RequestAccess(t)
  PROVE  IInv'
<1>0. TypeOK /\ CacheIsRecent /\ TabOK(t) /\ UserOf[t] \in Users
  BY Split
<1>1. Moves
  BY <1>0 DEF RequestAccess, Return, Go, Moves, RowStep, TypeOK
<1>2. TypeOK'
  <2>1. CASE Return(t, "answered")
    BY <1>0, <2>1 DEF RequestAccess, Return, Go, TypeOK
  <2>2. CASE Go(t, "answered", "insert") /\ UNCHANGED <<asked, asking, preview, answer, created>>
    BY <1>0, <2>2 DEF RequestAccess, Go, TypeOK
  <2> QED BY <2>1, <2>2 DEF RequestAccess
<1>3. CacheIsRecent'
  BY <1>1, CacheFrame DEF RequestAccess, Return, Go
<1>4. ASSUME NEW r \in Tabs PROVE TabOK(r)'
  <2>1. CASE r # t
    <3>1. pc'[r] = pc[r] /\ asked'[r] = asked[r] /\ answer'[r] = answer[r] /\ preview'[r] = preview[r]
      BY <1>0, <2>1 DEF RequestAccess, Return, Go, TypeOK
    <3> QED BY <1>1, <3>1, OtherTab
  <2>2. CASE r = t
    BY <1>0, <2>2 DEF RequestAccess, Return, Go, TabOK, TypeOK
  <2> QED BY <2>1, <2>2
<1>5. \A d \in Deciders : DecOK(d)'
  BY <1>1, DecFrame DEF RequestAccess, Return, Go
<1> QED BY <1>2, <1>3, <1>4, <1>5, Join

\* The insert changes the row at most from none to pending.
LEMMA InsertAccessRequestInv ==
  ASSUME IInv, NEW t \in Tabs, InsertAccessRequest(t)
  PROVE  IInv'
<1>0. TypeOK /\ CacheIsRecent /\ TabOK(t) /\ UserOf[t] \in Users
  BY Split
<1>1. Moves
  BY <1>0 DEF InsertAccessRequest, InsertPending, Moves, RowStep, TypeOK
<1>2. TypeOK'
  <2>1. access' \in [Users -> Status] /\ leftAt' \in [Users -> [Status -> Int]]
    BY <1>0, <1>1, RowStepType DEF Moves
  <2> QED BY <1>0, <2>1 DEF InsertAccessRequest, Go, RowCreated, TypeOK
<1>3. CacheIsRecent'
  BY <1>1, CacheFrame DEF InsertAccessRequest, Go
<1>4. ASSUME NEW r \in Tabs PROVE TabOK(r)'
  <2>1. CASE r # t
    <3>1. pc'[r] = pc[r] /\ asked'[r] = asked[r] /\ answer'[r] = answer[r] /\ preview'[r] = preview[r]
      BY <1>0, <2>1 DEF InsertAccessRequest, Go, TypeOK
    <3> QED BY <1>1, <3>1, OtherTab
  <2>2. CASE r = t
    BY <1>0, <2>2 DEF InsertAccessRequest, Go, TabOK, TypeOK
  <2> QED BY <2>1, <2>2
<1>5. \A d \in Deciders : DecOK(d)'
  BY <1>1, DecFrame DEF InsertAccessRequest, Go
<1> QED BY <1>2, <1>3, <1>4, <1>5, Join

\* A dropped entry answers nobody.
LEMMA DropRequesterInv ==
  ASSUME IInv, NEW t \in Tabs, DropRequester(t)
  PROVE  IInv'
<1>0. TypeOK /\ CacheIsRecent /\ TabOK(t) /\ UserOf[t] \in Users
  BY Split
<1>1. Moves
  BY <1>0 DEF DropRequester, Return, Go, Moves, RowStep, TypeOK
<1>2. TypeOK'
  <2>0. cache' \in [Users -> CacheEntry \cup {None}]
    BY <1>0 DEF DropRequester, DropEntry, TypeOK
  <2>1. CASE Return(t, "drop")
    BY <1>0, <2>0, <2>1 DEF DropRequester, Return, Go, TypeOK
  <2>2. CASE Go(t, "drop", "mail") /\ UNCHANGED <<asked, asking, preview, answer, created>>
    BY <1>0, <2>0, <2>2 DEF DropRequester, Go, TypeOK
  <2> QED BY <2>1, <2>2 DEF DropRequester
<1>3. CacheIsRecent'
  BY <1>1, CacheFrame DEF DropRequester, Return, Go
<1>4. ASSUME NEW r \in Tabs PROVE TabOK(r)'
  <2>1. CASE r # t
    <3>1. pc'[r] = pc[r] /\ asked'[r] = asked[r] /\ answer'[r] = answer[r] /\ preview'[r] = preview[r]
      BY <1>0, <2>1 DEF DropRequester, Return, Go, TypeOK
    <3> QED BY <1>1, <3>1, OtherTab
  <2>2. CASE r = t
    BY <1>0, <2>2 DEF DropRequester, Return, Go, TabOK, TypeOK
  <2> QED BY <2>1, <2>2
<1>5. \A d \in Deciders : DecOK(d)'
  BY <1>1, DecFrame DEF DropRequester, Return, Go
<1> QED BY <1>2, <1>3, <1>4, <1>5, Join

\* The mail to the administrators changes no row.
LEMMA MailAdminsInv ==
  ASSUME IInv, NEW t \in Tabs, MailAdmins(t)
  PROVE  IInv'
<1>0. TypeOK /\ CacheIsRecent /\ TabOK(t) /\ UserOf[t] \in Users
  BY Split
<1>1. Moves
  BY <1>0 DEF MailAdmins, Return, Go, Moves, RowStep, TypeOK
<1>2. TypeOK'
  BY <1>0 DEF MailAdmins, Return, Go, TypeOK
<1>3. CacheIsRecent'
  BY <1>1, CacheFrame DEF MailAdmins, Return, Go
<1>4. ASSUME NEW r \in Tabs PROVE TabOK(r)'
  <2>1. CASE r # t
    <3>1. pc'[r] = pc[r] /\ asked'[r] = asked[r] /\ answer'[r] = answer[r] /\ preview'[r] = preview[r]
      BY <1>0, <2>1 DEF MailAdmins, Return, Go, TypeOK
    <3> QED BY <1>1, <3>1, OtherTab
  <2>2. CASE r = t
    BY <1>0, <2>2 DEF MailAdmins, Return, Go, TabOK, TypeOK
  <2> QED BY <2>1, <2>2
<1>5. \A d \in Deciders : DecOK(d)'
  BY <1>1, DecFrame DEF MailAdmins, Return, Go
<1> QED BY <1>2, <1>3, <1>4, <1>5, Join

\* The decision is stored before its entry is dropped and its mail is sent.
LEMMA DecideInv ==
  ASSUME IInv, NEW d \in Deciders, NEW u \in Users, NEW s \in Outcomes, Decide(d, u, s)
  PROVE  IInv'
<1>0. TypeOK /\ DecOK(d)
  BY Split
<1>1. Moves
  BY <1>0 DEF Decide, SetUserAccessStatus, Moves, RowStep, TypeOK
<1>2. TypeOK'
  <2>1. access' \in [Users -> Status] /\ leftAt' \in [Users -> [Status -> Int]]
    BY <1>0, <1>1, RowStepType DEF Moves
  <2> QED BY <1>0, <2>1 DEF Decide, DGo, Matches, TypeOK
<1>3. CacheIsRecent'
  BY <1>1, <1>0, CacheFrame DEF Decide, DGo, DecOK
<1>4. \A t \in Tabs : TabOK(t)'
  BY <1>1, TabFrame DEF Decide, DGo
<1>5. ASSUME NEW e \in Deciders PROVE DecOK(e)'
  <2>1. CASE e # d
    <3>1. dpc'[e] = dpc[e] /\ target'[e] = target[e] /\ decision'[e] = decision[e] /\ found'[e] = found[e]
      BY <1>0, <2>1 DEF Decide, DGo, TypeOK
    <3> QED BY <1>1, <3>1, OtherDecider
  <2>2. CASE e = d
    <3>1. dpc'[d] = "drop" /\ target'[d] = u /\ decision'[d] = s /\ s \in Decided
      BY <1>0 DEF Decide, DGo, TypeOK
    <3>2. CASE found'[d]
      <4>1. SetUserAccessStatus(u, s) /\ access[u] # "none"
        BY <1>0, <3>2 DEF Decide, Matches, TypeOK
      <4>2. access'[u] = s
        BY <1>0, <4>1 DEF SetUserAccessStatus, SetRow, TypeOK
      <4> QED BY <2>2, <3>1, <4>2 DEF DecOK, TrueSince
    <3>3. CASE ~found'[d]
      BY <2>2, <3>1, <3>3 DEF DecOK
    <3> QED BY <3>2, <3>3
  <2> QED BY <2>1, <2>2
<1> QED BY <1>2, <1>3, <1>4, <1>5, Join

\* A deletion is a change of one row.
LEMMA ResetUserInv ==
  ASSUME IInv, NEW d \in Deciders, NEW u \in Users, ResetUser(d, u)
  PROVE  IInv'
<1>0. TypeOK /\ DecOK(d)
  BY Split
<1>1. Moves
  BY <1>0 DEF ResetUser, DeleteRow, Moves, RowStep, TypeOK
<1>2. TypeOK'
  <2>1. access' \in [Users -> Status] /\ leftAt' \in [Users -> [Status -> Int]]
    BY <1>0, <1>1, RowStepType DEF Moves
  <2>2. resets' \in [Users -> Nat]
    <3>1. UNCHANGED resets \/ resets' = [resets EXCEPT ![u] = @ + 1]
      BY DEF ResetUser, DeleteRow
    <3>2. resets \in [Users -> Nat]
      BY <1>0 DEF TypeOK
    <3> QED BY <3>1, <3>2
  <2>3. dpc' \in [Deciders -> {"idle", "drop", "mail"}] /\ target' \in [Deciders -> Users \cup {None}]
    BY <1>0 DEF ResetUser, DGo, TypeOK
  <2> QED BY <1>0, <2>1, <2>2, <2>3 DEF ResetUser, TypeOK
<1>3. CacheIsRecent'
  BY <1>1, <1>0, CacheFrame DEF ResetUser, DGo, DecOK
<1>4. \A t \in Tabs : TabOK(t)'
  BY <1>1, TabFrame DEF ResetUser, DGo
<1>5. ASSUME NEW e \in Deciders PROVE DecOK(e)'
  <2>1. CASE e # d
    <3>1. dpc'[e] = dpc[e] /\ target'[e] = target[e] /\ decision'[e] = decision[e] /\ found'[e] = found[e]
      BY <1>0, <2>1 DEF ResetUser, DGo, TypeOK
    <3> QED BY <1>1, <3>1, OtherDecider
  <2>2. CASE e = d
    BY <1>0, <2>2 DEF ResetUser, DGo, DecOK, TypeOK
  <2> QED BY <2>1, <2>2
<1> QED BY <1>2, <1>3, <1>4, <1>5, Join

\* The entry is dropped, the decision kept for its mail.
LEMMA DropTargetInv ==
  ASSUME IInv, NEW d \in Deciders, DropTarget(d)
  PROVE  IInv'
<1>0. TypeOK /\ DecOK(d)
  BY Split
<1>1. Moves
  BY <1>0 DEF DropTarget, DReturn, DGo, Moves, RowStep, TypeOK
<1>2. TypeOK'
  <2>0. cache' \in [Users -> CacheEntry \cup {None}]
    BY <1>0 DEF DropTarget, DropEntry, TypeOK
  <2>1. CASE DReturn(d, "drop")
    BY <1>0, <2>0, <2>1 DEF DropTarget, DReturn, DGo, TypeOK
  <2>2. CASE DGo(d, "drop", "mail") /\ UNCHANGED <<target, decision, found>>
    BY <1>0, <2>0, <2>2 DEF DropTarget, DGo, TypeOK
  <2> QED BY <2>1, <2>2 DEF DropTarget
<1>3. CacheIsRecent'
  BY <1>1, <1>0, CacheFrame DEF DropTarget, DReturn, DGo, DecOK
<1>4. \A t \in Tabs : TabOK(t)'
  BY <1>1, TabFrame DEF DropTarget, DReturn, DGo
<1>5. ASSUME NEW e \in Deciders PROVE DecOK(e)'
  <2>1. CASE e # d
    <3>1. dpc'[e] = dpc[e] /\ target'[e] = target[e] /\ decision'[e] = decision[e] /\ found'[e] = found[e]
      BY <1>0, <2>1 DEF DropTarget, DReturn, DGo, TypeOK
    <3> QED BY <1>1, <3>1, OtherDecider
  <2>2. CASE e = d
    BY <1>0, <2>2 DEF DropTarget, ToldByMail, DReturn, DGo, DecOK, TrueSince, TypeOK
  <2> QED BY <2>1, <2>2
<1> QED BY <1>2, <1>3, <1>4, <1>5, Join

\* After the mail the locals are gone.
LEMMA MailDecisionInv ==
  ASSUME IInv, NEW d \in Deciders, MailDecision(d)
  PROVE  IInv'
<1>0. TypeOK /\ DecOK(d)
  BY Split
<1>1. Moves
  BY <1>0 DEF MailDecision, DReturn, DGo, Moves, RowStep, TypeOK
<1>2. TypeOK'
  BY <1>0 DEF MailDecision, DReturn, DGo, TypeOK
<1>3. CacheIsRecent'
  BY <1>1, <1>0, CacheFrame DEF MailDecision, DReturn, DGo, DecOK
<1>4. \A t \in Tabs : TabOK(t)'
  BY <1>1, TabFrame DEF MailDecision, DReturn, DGo
<1>5. ASSUME NEW e \in Deciders PROVE DecOK(e)'
  <2>1. CASE e # d
    <3>1. dpc'[e] = dpc[e] /\ target'[e] = target[e] /\ decision'[e] = decision[e] /\ found'[e] = found[e]
      BY <1>0, <2>1 DEF MailDecision, DReturn, DGo, TypeOK
    <3> QED BY <1>1, <3>1, OtherDecider
  <2>2. CASE e = d
    BY <1>0, <2>2 DEF MailDecision, DReturn, DGo, DecOK, TypeOK
  <2> QED BY <2>1, <2>2
<1> QED BY <1>2, <1>3, <1>4, <1>5, Join

\* A change by hand is a change of one row.
LEMMA EditByHandInv ==
  ASSUME IInv, NEW u \in Users, EditByHand(u)
  PROVE  IInv'
<1>0. TypeOK
  BY Split
<1>1. Moves
  BY <1>0 DEF EditByHand, DeleteRow, Moves, RowStep, TypeOK
<1>2. TypeOK'
  <2>1. access' \in [Users -> Status] /\ leftAt' \in [Users -> [Status -> Int]]
    BY <1>0, <1>1, RowStepType DEF Moves
  <2> QED BY <1>0, <2>1 DEF EditByHand, DeleteRow, TypeOK
<1>3. CacheIsRecent'
  BY <1>1, CacheFrame DEF EditByHand
<1>4. \A t \in Tabs : TabOK(t)'
  BY <1>1, TabFrame DEF EditByHand
<1>5. \A d \in Deciders : DecOK(d)'
  BY <1>1, DecFrame DEF EditByHand
<1> QED BY <1>2, <1>3, <1>4, <1>5, Join

\* Time only grows.
LEMMA TickInv ==
  ASSUME IInv, Tick
  PROVE  IInv'
<1>0. TypeOK
  BY Split
<1>1. Moves
  BY <1>0 DEF Tick, Moves, RowStep, TypeOK
<1>2. TypeOK'
  BY <1>0 DEF Tick, TypeOK
<1>3. CacheIsRecent'
  BY <1>1, CacheFrame DEF Tick
<1>4. \A t \in Tabs : TabOK(t)'
  BY <1>1, TabFrame DEF Tick
<1>5. \A d \in Deciders : DecOK(d)'
  BY <1>1, DecFrame DEF Tick
<1> QED BY <1>2, <1>3, <1>4, <1>5, Join

\* IInv is inductive.
LEMMA StepInv == IInv /\ [Next]_vars => IInv'
<1> SUFFICES ASSUME IInv, [Next]_vars PROVE IInv'
  OBVIOUS
<1>1. ASSUME NEW t \in Tabs, Request(t) PROVE IInv'
  BY <1>1, AskInv, LookUpInv, GetUserAccessInv, PutInv, GateInv, RespondInv,
     RequestAccessInv, InsertAccessRequestInv, DropRequesterInv, MailAdminsInv DEF Request
<1>2. ASSUME NEW d \in Deciders, Decision(d) PROVE IInv'
  BY <1>2, DecideInv, ResetUserInv, DropTargetInv, MailDecisionInv DEF Decision
<1>3. ASSUME NEW u \in Users, EditByHand(u) PROVE IInv'
  BY <1>3, EditByHandInv
<1>4. CASE Tick
  BY <1>4, TickInv
<1>5. CASE UNCHANGED vars
  <2>1. Moves /\ TypeOK'
    BY <1>5 DEF vars, IInv, TypeOK, Moves, RowStep
  <2>2. CacheIsRecent'
    BY <1>5, <2>1, CacheFrame DEF vars
  <2>3. \A t \in Tabs : TabOK(t)'
    BY <1>5, <2>1, TabFrame DEF vars
  <2>4. \A d \in Deciders : DecOK(d)'
    BY <1>5, <2>1, DecFrame DEF vars
  <2> QED BY <2>1, <2>2, <2>3, <2>4, Join
<1> QED BY <1>1, <1>2, <1>3, <1>4, <1>5 DEF Next

-----------------------------------------------------------------------------
(* The theorems *)

\* Everything IInv says holds in every reachable state.
THEOREM Invariance == Spec => []IInv
<1> QED BY InitInv, StepInv, PTL DEF Spec

\* Rows, cache and locals are well-typed.
THEOREM TypeCorrect == Spec => []TypeOK
<1>1. IInv => TypeOK
  BY DEF IInv
<1> QED BY Invariance, <1>1, PTL

\* However lookups, decisions and changes by hand interleave, nobody passes the
\* gate who was not approved within the last TTL before asking (or is an
\* administrator), and an error of the database lets nobody in.
THEOREM StalenessIsBounded == Spec => []LetInOnlyIfRecentlyApproved
<1>1. IInv => LetInOnlyIfRecentlyApproved
  BY DEF IInv
<1> QED BY Invariance, <1>1, PTL

\* A person is told only of a decision that was stored.
THEOREM MailsAreTrue == Spec => []MailedDecisionWasStored
<1>1. IInv => MailedDecisionWasStored
  BY DEF IInv
<1> QED BY Invariance, <1>1, PTL

\* A change of one row that AccessRow allows.
LEMMA RowChange ==
  ASSUME TypeOK, NEW u \in Users, NEW s \in Status, SetRow(u, s),
         \/ access[u] = "none" /\ s = "pending"
         \/ access[u] # "none" /\ s \in Decided \cup {"none"}
  PROVE  Row!RowNext
<1>1. CASE access[u] = "none" /\ s = "pending"
  BY <1>1 DEF SetRow, Row!RowNext, Row!Request, Row!Set
<1>2. CASE access[u] # "none" /\ s = "none"
  BY <1>2 DEF SetRow, Row!RowNext, Row!Forget, Row!Set
<1>3. CASE access[u] # "none" /\ s \in Decided
  BY <1>3 DEF SetRow, Row!RowNext, Row!Settle, Row!Outcome, Row!Set
<1> QED BY <1>1, <1>2, <1>3

\* Every step is a step of AccessRow or leaves the table alone.
LEMMA RowRefined == IInv /\ [Next]_vars => [Row!RowNext]_access
<1> SUFFICES ASSUME IInv, [Next]_vars PROVE [Row!RowNext]_access
  OBVIOUS
<1>0. TypeOK
  BY DEF IInv
<1>1. ASSUME NEW t \in Tabs, Request(t) PROVE [Row!RowNext]_access
  <2>1. CASE InsertAccessRequest(t)
    <3>1. CASE UNCHANGED access
      BY <3>1
    <3>2. CASE access[UserOf[t]] = "none" /\ SetRow(UserOf[t], "pending")
      BY <1>0, <3>2, RowChange
    <3> QED BY <2>1, <3>1, <3>2 DEF InsertAccessRequest, InsertPending
  <2>2. CASE UNCHANGED access
    BY <2>2
  <2> QED BY <1>1, <2>1, <2>2 DEF Request, Ask, LookUp, GetUserAccess, Put, Gate,
       Respond, RequestAccess, DropRequester, MailAdmins
<1>2. ASSUME NEW d \in Deciders, Decision(d) PROVE [Row!RowNext]_access
  <2>1. ASSUME NEW u \in Users, NEW s \in Outcomes, Decide(d, u, s) PROVE [Row!RowNext]_access
    BY <1>0, <2>1, RowChange DEF Decide, SetUserAccessStatus
  <2>2. ASSUME NEW u \in Users, ResetUser(d, u) PROVE [Row!RowNext]_access
    BY <1>0, <2>2, RowChange DEF ResetUser, DeleteRow
  <2>3. CASE UNCHANGED access
    BY <2>3
  <2> QED BY <1>2, <2>1, <2>2, <2>3 DEF Decision, DropTarget, MailDecision
<1>3. ASSUME NEW u \in Users, EditByHand(u) PROVE [Row!RowNext]_access
  BY <1>0, <1>3, RowChange DEF EditByHand, DeleteRow
<1>4. CASE Tick
  BY <1>4 DEF Tick
<1>5. CASE UNCHANGED vars
  BY <1>5 DEF vars
<1> QED BY <1>1, <1>2, <1>3, <1>4, <1>5 DEF Next

\* The users table, under stale statuses and lost answers, implements AccessRow:
\* a decision starts from a request and only forgetting the row undoes it.
THEOREM Refinement == Spec => ImplementsAccessRow
<1>1. Init => Row!RowInit
  BY DEF Init, Row!RowInit
<1> QED BY <1>1, Invariance, RowRefined, PTL DEF Spec, ImplementsAccessRow, Row!RowSpec

-----------------------------------------------------------------------------
(* One mail to the administrators for each row that was created.  A request    *)
(* that created one owes them a mail until it returns; mails sent and mails    *)
(* owed together are no more than the rows created, of which all but one are   *)
(* deleted again.                                                              *)

RowsCreated(u) == resets[u] + IF access[u] = "none" THEN 0 ELSE 1

Owing(u) == {t \in Tabs : UserOf[t] = u /\ created[t]}

MailsFit(u) ==
  /\ IsFiniteSet(Owing(u))
  /\ adminMails[u] + Cardinality(Owing(u)) <= RowsCreated(u)

\* Between the insert and the mail a request knows that it created the row, and
\* nowhere else does it claim so.
OwingPlace(t) ==
  /\ created[t] => pc[t] \in {"drop", "mail"}
  /\ pc[t] = "mail" => created[t]

MailInv == (\A u \in Users : MailsFit(u)) /\ (\A t \in Tabs : OwingPlace(t))

\* No row appears but by a request, and a row goes only by a reset.
LEMMA RowsAreCounted ==
  ASSUME IInv, [Next]_vars, NEW u \in Users
  PROVE  /\ RowsCreated(u)' >= RowsCreated(u)
         /\ \A t \in Tabs : InsertAccessRequest(t) /\ created'[t] /\ UserOf[t] = u =>
              RowsCreated(u)' = RowsCreated(u) + 1
<1>1. TypeOK
  BY DEF IInv
<1>2. resets[u] \in Nat /\ access[u] \in Status
  BY <1>1 DEF TypeOK
<1>3. ASSUME NEW v \in Users, NEW s \in Status, SetRow(v, s), UNCHANGED resets, s # "none"
      PROVE  RowsCreated(u)' >= RowsCreated(u)
  BY <1>1, <1>2, <1>3 DEF SetRow, RowsCreated, TypeOK
<1>4. ASSUME NEW v \in Users, DeleteRow(v) PROVE RowsCreated(u)' >= RowsCreated(u)
  <2>1. /\ access[v] # "none" /\ access' = [access EXCEPT ![v] = "none"]
        /\ resets' = [resets EXCEPT ![v] = @ + 1]
    BY <1>4 DEF DeleteRow, SetRow
  <2>2. CASE u = v
    <3>1. access'[u] = "none" /\ resets'[u] = resets[u] + 1
      BY <1>1, <2>1, <2>2 DEF TypeOK
    <3> QED BY <1>2, <2>1, <2>2, <3>1 DEF RowsCreated
  <2>3. CASE u # v
    BY <1>1, <1>2, <2>1, <2>3 DEF RowsCreated, TypeOK
  <2> QED BY <2>2, <2>3
<1>5. ASSUME UNCHANGED <<access, resets>> PROVE RowsCreated(u)' >= RowsCreated(u)
  BY <1>2, <1>5 DEF RowsCreated
<1>6. ASSUME NEW t \in Tabs, InsertAccessRequest(t)
      PROVE  /\ RowsCreated(u)' >= RowsCreated(u)
             /\ created'[t] /\ UserOf[t] = u => RowsCreated(u)' = RowsCreated(u) + 1
  <2>1. UserOf[t] \in Users /\ UNCHANGED resets
    BY <1>6 DEF InsertAccessRequest
  <2>2. RowsCreated(u)' >= RowsCreated(u)
    BY <1>3, <1>5, <1>6, <2>1 DEF InsertAccessRequest, InsertPending
  <2>3. ASSUME created'[t], UserOf[t] = u PROVE RowsCreated(u)' = RowsCreated(u) + 1
    <3>1. access[u] = "none" /\ SetRow(u, "pending")
      BY <1>1, <1>6, <2>3 DEF InsertAccessRequest, InsertPending, RowCreated, TypeOK
    <3>2. access'[u] = "pending"
      BY <1>1, <3>1 DEF SetRow, TypeOK
    <3> QED BY <1>2, <2>1, <3>1, <3>2 DEF RowsCreated
  <2> QED BY <2>2, <2>3
<1>7. ASSUME NEW d \in Deciders, Decision(d) PROVE RowsCreated(u)' >= RowsCreated(u)
  BY <1>3, <1>4, <1>5, <1>7
     DEF Decision, Decide, SetUserAccessStatus, ResetUser, DropTarget, MailDecision
<1>8. ASSUME NEW v \in Users, EditByHand(v) PROVE RowsCreated(u)' >= RowsCreated(u)
  BY <1>3, <1>4, <1>8 DEF EditByHand
<1>9. ASSUME NEW t \in Tabs, Request(t), ~InsertAccessRequest(t) PROVE UNCHANGED <<access, resets>>
  BY <1>9 DEF Request, Ask, LookUp, GetUserAccess, Put, Gate, Respond, RequestAccess, DropRequester, MailAdmins
<1>10. RowsCreated(u)' >= RowsCreated(u)
  BY <1>5, <1>6, <1>7, <1>8, <1>9 DEF Next, Tick, vars
<1> QED BY <1>6, <1>10

\* A step that makes no mail, and after which no more is owed.
LEMMA FewerOwe ==
  ASSUME IInv, [Next]_vars, NEW u \in Users, MailsFit(u), Owing(u)' \subseteq Owing(u), UNCHANGED adminMails
  PROVE  MailsFit(u)'
<1>1. IsFiniteSet(Owing(u)') /\ Cardinality(Owing(u)') <= Cardinality(Owing(u))
  BY FS_Subset DEF MailsFit
<1>2. Cardinality(Owing(u)) \in Nat /\ Cardinality(Owing(u)') \in Nat
  BY <1>1, FS_CardinalityType DEF MailsFit
<1>3. adminMails[u] \in Nat /\ RowsCreated(u) \in Int /\ RowsCreated(u)' \in Int
  BY StepInv DEF IInv, TypeOK, RowsCreated
<1>4. RowsCreated(u)' >= RowsCreated(u)
  BY RowsAreCounted
<1> QED BY <1>1, <1>2, <1>3, <1>4 DEF MailsFit

\* The request that creates a row owes one mail more.
LEMMA InsertOwes ==
  ASSUME IInv, [Next]_vars, NEW t \in Tabs, InsertAccessRequest(t), NEW u \in Users, MailsFit(u), OwingPlace(t)
  PROVE  MailsFit(u)'
<1>1. /\ pc[t] = "insert" /\ UNCHANGED adminMails
      /\ created \in [Tabs -> BOOLEAN]
      /\ \A q \in Tabs : q # t => created'[q] = created[q]
  BY DEF InsertAccessRequest, Go, IInv, TypeOK
<1>2. CASE UserOf[t] = u /\ created'[t]
  <2>1. Owing(u)' = Owing(u) \cup {t} /\ t \notin Owing(u)
    BY <1>1, <1>2 DEF Owing, OwingPlace
  <2>2. IsFiniteSet(Owing(u)') /\ Cardinality(Owing(u)') = Cardinality(Owing(u)) + 1
    BY <2>1, FS_AddElement DEF MailsFit
  <2>3. RowsCreated(u)' = RowsCreated(u) + 1
    BY <1>2, RowsAreCounted
  <2>4. adminMails[u] \in Nat /\ RowsCreated(u) \in Int
    BY DEF IInv, TypeOK, RowsCreated
  <2>5. Cardinality(Owing(u)) \in Nat
    BY FS_CardinalityType DEF MailsFit
  <2> QED BY <1>1, <2>2, <2>3, <2>4, <2>5 DEF MailsFit
<1>3. CASE ~(UserOf[t] = u /\ created'[t])
  <2>1. Owing(u)' \subseteq Owing(u)
    BY <1>1, <1>3 DEF Owing
  <2> QED BY <1>1, <2>1, FewerOwe
<1> QED BY <1>2, <1>3

\* The mail is the one that was owed.
LEMMA MailIsOwed ==
  ASSUME IInv, [Next]_vars, NEW t \in Tabs, MailAdmins(t), NEW u \in Users, MailsFit(u), OwingPlace(t)
  PROVE  MailsFit(u)'
<1>1. /\ created[t] /\ created \in [Tabs -> BOOLEAN] /\ adminMails \in [Users -> Nat]
      /\ created' = [created EXCEPT ![t] = FALSE]
      /\ adminMails' = [adminMails EXCEPT ![UserOf[t]] = @ + 1]
  BY DEF MailAdmins, Return, Go, OwingPlace, IInv, TypeOK
<1>2. CASE UserOf[t] = u
  <2>1. Owing(u)' = Owing(u) \ {t} /\ t \in Owing(u)
    BY <1>1, <1>2 DEF Owing
  <2>2. IsFiniteSet(Owing(u)') /\ Cardinality(Owing(u)') = Cardinality(Owing(u)) - 1
    BY <2>1, FS_RemoveElement DEF MailsFit
  <2>3. adminMails'[u] = adminMails[u] + 1 /\ adminMails[u] \in Nat
    BY <1>1, <1>2
  <2>4. RowsCreated(u)' >= RowsCreated(u) /\ RowsCreated(u) \in Int /\ RowsCreated(u)' \in Int
    BY RowsAreCounted, StepInv DEF IInv, TypeOK, RowsCreated
  <2>5. Cardinality(Owing(u)) \in Nat
    BY FS_CardinalityType DEF MailsFit
  <2> QED BY <2>2, <2>3, <2>4, <2>5 DEF MailsFit
<1>3. CASE UserOf[t] # u
  <2>1. Owing(u)' = Owing(u) /\ adminMails'[u] = adminMails[u]
    BY <1>1, <1>3 DEF Owing
  <2>2. RowsCreated(u)' >= RowsCreated(u) /\ RowsCreated(u) \in Int /\ RowsCreated(u)' \in Int
    BY RowsAreCounted, StepInv DEF IInv, TypeOK, RowsCreated
  <2>3. Cardinality(Owing(u)) \in Nat /\ adminMails[u] \in Nat
    BY <1>1, FS_CardinalityType DEF MailsFit
  <2> QED BY <2>1, <2>2, <2>3 DEF MailsFit
<1> QED BY <1>2, <1>3

\* The other steps send no mail and create no row.
LEMMA MailFrame ==
  ASSUME IInv, [Next]_vars, \A t \in Tabs : ~InsertAccessRequest(t) /\ ~MailAdmins(t)
  PROVE  /\ UNCHANGED adminMails
         /\ \A t \in Tabs : created'[t] => created[t]
         /\ (\A t \in Tabs : OwingPlace(t)) => \A t \in Tabs : OwingPlace(t)'
<1>1. TypeOK
  BY DEF IInv
<1>2. CASE UNCHANGED <<pc, created, adminMails>>
  BY <1>2 DEF OwingPlace
<1>3. ASSUME NEW t \in Tabs, \E from \in {"answered", "passed", "refused", "drop"} : Return(t, from),
             UNCHANGED adminMails
      PROVE  /\ \A q \in Tabs : created'[q] => created[q]
             /\ (\A q \in Tabs : OwingPlace(q)) => \A q \in Tabs : OwingPlace(q)'
  BY <1>1, <1>3 DEF Return, Go, OwingPlace, TypeOK
<1>4. ASSUME NEW t \in Tabs, NEW from, NEW to, Go(t, from, to), UNCHANGED <<created, adminMails>>,
             from \notin {"drop", "mail"}, to # "mail"
      PROVE  /\ \A q \in Tabs : created'[q] => created[q]
             /\ (\A q \in Tabs : OwingPlace(q)) => \A q \in Tabs : OwingPlace(q)'
  BY <1>1, <1>4 DEF Go, OwingPlace, TypeOK
<1>5. ASSUME NEW t \in Tabs, DropRequester(t), created[t]
      PROVE  /\ \A q \in Tabs : created'[q] => created[q]
             /\ (\A q \in Tabs : OwingPlace(q)) => \A q \in Tabs : OwingPlace(q)'
  BY <1>1, <1>5 DEF DropRequester, Go, OwingPlace, TypeOK
<1>6. ASSUME NEW t \in Tabs, Request(t) PROVE UNCHANGED adminMails
  BY <1>6 DEF Request, Ask, LookUp, GetUserAccess, Put, Gate, Respond, RequestAccess, DropRequester
<1>7. ASSUME NEW t \in Tabs, Request(t)
      PROVE  /\ \A q \in Tabs : created'[q] => created[q]
             /\ (\A q \in Tabs : OwingPlace(q)) => \A q \in Tabs : OwingPlace(q)'
  <2>1. CASE \E k \in {"field", "access"}, p \in BOOLEAN : Ask(t, k, p)
    BY <1>4, <1>6, <1>7, <2>1 DEF Ask
  <2>2. CASE LookUp(t) \/ GetUserAccess(t) \/ Put(t) \/ Gate(t)
    BY <1>4, <1>6, <1>7, <2>2 DEF LookUp, GetUserAccess, Put, Gate
  <2>3. CASE Respond(t)
    BY <1>3, <1>6, <1>7, <2>3 DEF Respond
  <2>4. CASE RequestAccess(t)
    BY <1>3, <1>4, <1>6, <1>7, <2>4 DEF RequestAccess
  <2>5. CASE DropRequester(t)
    BY <1>3, <1>5, <1>6, <1>7, <2>5 DEF DropRequester
  <2> QED BY <1>7, <2>1, <2>2, <2>3, <2>4, <2>5 DEF Request
<1>8. ASSUME NEW d \in Deciders, Decision(d) PROVE UNCHANGED <<pc, created, adminMails>>
  BY <1>8 DEF Decision, Decide, ResetUser, DropTarget, MailDecision
<1>9. ASSUME NEW u \in Users, EditByHand(u) PROVE UNCHANGED <<pc, created, adminMails>>
  BY <1>9 DEF EditByHand
<1> QED BY <1>2, <1>6, <1>7, <1>8, <1>9 DEF Next, Tick, vars

LEMMA StepMail == IInv /\ MailInv /\ [Next]_vars => MailInv'
<1> SUFFICES ASSUME IInv, MailInv, [Next]_vars PROVE MailInv'
  OBVIOUS
<1>1. ASSUME NEW t \in Tabs, InsertAccessRequest(t) PROVE MailInv'
  <2>1. \A u \in Users : MailsFit(u)'
    BY <1>1, InsertOwes DEF MailInv
  <2>2. \A q \in Tabs : OwingPlace(q)'
    BY <1>1 DEF MailInv, OwingPlace, InsertAccessRequest, Go, IInv, TypeOK
  <2> QED BY <2>1, <2>2 DEF MailInv
<1>2. ASSUME NEW t \in Tabs, MailAdmins(t) PROVE MailInv'
  <2>1. \A u \in Users : MailsFit(u)'
    BY <1>2, MailIsOwed DEF MailInv
  <2>2. \A q \in Tabs : OwingPlace(q)'
    BY <1>2 DEF MailInv, OwingPlace, MailAdmins, Return, Go, IInv, TypeOK
  <2> QED BY <2>1, <2>2 DEF MailInv
<1>3. CASE \A t \in Tabs : ~InsertAccessRequest(t) /\ ~MailAdmins(t)
  <2>1. /\ UNCHANGED adminMails /\ \A t \in Tabs : created'[t] => created[t]
        /\ \A t \in Tabs : OwingPlace(t)'
    BY <1>3, MailFrame DEF MailInv
  <2>2. \A u \in Users : Owing(u)' \subseteq Owing(u)
    BY <2>1 DEF Owing
  <2>3. \A u \in Users : MailsFit(u)'
    BY <2>1, <2>2, FewerOwe DEF MailInv
  <2> QED BY <2>1, <2>3 DEF MailInv
<1> QED BY <1>1, <1>2, <1>3

LEMMA InitMail == Init => MailInv
<1> SUFFICES ASSUME Init PROVE MailInv
  OBVIOUS
<1>1. ASSUME NEW u \in Users PROVE MailsFit(u)
  <2>1. \A t \in Tabs : ~created[t]
    BY DEF Init
  <2>2. Owing(u) = {}
    BY <2>1 DEF Owing
  <2>3. adminMails[u] = 0 /\ RowsCreated(u) = 0
    BY DEF Init, RowsCreated
  <2> QED BY <2>2, <2>3, FS_EmptySet DEF MailsFit
<1> QED BY <1>1 DEF Init, MailInv, OwingPlace

\* However often somebody clicks, in however many tabs, and whatever answers are
\* lost, the administrators get one mail for each time the row was created.
THEOREM OneMailPerRow == Spec => []OneAdminMailPerRequest
<1>1. IInv /\ MailInv => OneAdminMailPerRequest
  <2> SUFFICES ASSUME IInv, MailInv, NEW u \in Users PROVE adminMails[u] <= 1 + resets[u]
    BY DEF OneAdminMailPerRequest
  <2>1. MailsFit(u) /\ adminMails[u] \in Nat /\ resets[u] \in Nat
    BY DEF IInv, TypeOK, MailInv
  <2>2. Cardinality(Owing(u)) \in Nat
    BY <2>1, FS_CardinalityType DEF MailsFit
  <2> QED BY <2>1, <2>2 DEF MailsFit, RowsCreated
<1>2. Spec => []MailInv
  BY InitMail, StepMail, Invariance, PTL DEF Spec
<1> QED BY <1>1, <1>2, Invariance, PTL
=============================================================================
