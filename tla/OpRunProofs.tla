---------------------------- MODULE OpRunProofs -----------------------------
(***************************************************************************)
(* The subscriptions of clients: interactive operations (OpRun) run as      *)
(* planned and one at a time per assignment, for any number of              *)
(* subscriptions, keys, plans and configurations; and, at the end, streams  *)
(* of reports, checks and overviews (Streams).                              *)
(***************************************************************************)
EXTENDS OpRun, Streams, SequenceTheorems, FiniteSetTheorems, TLAPS

\* A line goes into the channel, from it into the hand, and from there to the
\* client: nothing is lost and no order changed.
LEMMA QueuePuts ==
  \A q, b \in Seq(Level), l \in Level : q \o Append(b, l) = Append(q \o b, l)
<1> TAKE q, b \in Seq(Level), l \in Level
<1>1. q \o b \in Seq(Level) /\ <<l>> \in Seq(Level)
  BY ConcatProperties
<1>2. Append(b, l) = b \o <<l>> /\ Append(q \o b, l) = (q \o b) \o <<l>>
  BY <1>1, AppendIsConcat
<1> QED BY <1>1, <1>2, ConcatAssociative

LEMMA QueueTakes ==
  \A g, b \in Seq(Level) : b # <<>> => (g \o <<Head(b)>>) \o Tail(b) = (g \o <<>>) \o b
<1> SUFFICES ASSUME NEW g \in Seq(Level), NEW b \in Seq(Level), b # <<>>
             PROVE  (g \o <<Head(b)>>) \o Tail(b) = (g \o <<>>) \o b
  OBVIOUS
<1>1. Head(b) \in Level /\ Tail(b) \in Seq(Level) /\ <<Head(b)>> \in Seq(Level)
  BY HeadTailProperties
<1>2. <<Head(b)>> \o Tail(b) = b
  <2>1. /\ <<Head(b)>> \o Tail(b) \in Seq(Level) /\ Len(<<Head(b)>> \o Tail(b)) = Len(b)
        /\ \A i \in 1..Len(b) : (<<Head(b)>> \o Tail(b))[i] = b[i]
    BY <1>1
  <2> QED BY <2>1, SeqEqual
<1>3. (g \o <<Head(b)>>) \o Tail(b) = g \o b
  BY <1>1, <1>2, ConcatAssociative
<1> QED BY <1>3, ConcatEmptySeq

LEMMA QueueGives ==
  \A g, b \in Seq(Level), h \in Level : (Append(g, h) \o <<>>) \o b = (g \o <<h>>) \o b
<1> TAKE g, b \in Seq(Level), h \in Level
<1>1. Append(g, h) \in Seq(Level) /\ Append(g, h) = g \o <<h>>
  BY AppendIsConcat, AppendProperties
<1> QED BY <1>1, ConcatEmptySeq

USE OpRunAssumption DEF Level, RunPc, HoldPc, EmitPc, PreflightPc

\* TypeOK in three parts, which the steps change apart from each other.
EnvTypes ==
  /\ now \in Nat /\ config \in [Keys -> Versions \cup {None}]
  /\ pat \in [Owners -> BOOLEAN] /\ issued \subseteq Token /\ busy \subseteq Keys

CheckTypes ==
  /\ pc \in [Runs -> RunPc] /\ tok \in [Runs -> Token \cup {None}]
  /\ phrase \in [Runs -> BOOLEAN] /\ opened \in [Runs -> Nat]
  /\ cfg \in [Runs -> Versions \cup {None}]

StreamTypes ==
  /\ status \in [Runs -> {"done", "failed", None}] /\ lines \in [Runs -> Nat]
  /\ buf \in [Runs -> Seq(Level)] /\ fwd \in [Runs -> {"off", "receive", "send", "stopped"}]
  /\ held \in [Runs -> Level \cup {None}] /\ connected \in [Runs -> BOOLEAN]
  /\ sent \in [Runs -> Seq(Level)] /\ got \in [Runs -> Seq(Level)]
  /\ HandIsFull

LEMMA Types == IInv => EnvTypes /\ CheckTypes /\ StreamTypes
BY DEF IInv, TypeOK, EnvTypes, CheckTypes, StreamTypes

LEMMA TypesAfter ==
  ASSUME EnvTypes', CheckTypes', StreamTypes'
  PROVE  TypeOK' /\ HandIsFull'
BY DEF TypeOK, EnvTypes, CheckTypes, StreamTypes

LEMMA InitIInv == Init => IInv
<1> SUFFICES ASSUME Init PROVE IInv
  OBVIOUS
<1>1. TypeOK /\ HandIsFull
  BY DEF Init, TypeOK, HandIsFull
<1>2. \A r \in Runs : pc[r] = "idle"
  BY DEF Init
<1>3. GuardMatchesRuns
  BY <1>2 DEF Init, GuardMatchesRuns, Holds
<1> QED BY <1>1, <1>2, <1>3 DEF IInv, PlanInHand

----------------------------------------------------------------------------
(* Frames: what a step of one subscription leaves alone *)

Same(q) ==
  /\ pc'[q] = pc[q] /\ tok'[q] = tok[q] /\ phrase'[q] = phrase[q]
  /\ opened'[q] = opened[q] /\ cfg'[q] = cfg[q]

\* The plans of the others stay in their hands.
LEMMA OthersKeepPlans ==
  ASSUME IInv, issued \subseteq issued', NEW r, \A q \in Runs : q # r => Same(q),
         r \in Runs => PlanInHand(r)'
  PROVE  \A q \in Runs : PlanInHand(q)'
<1> SUFFICES ASSUME NEW q \in Runs, q # r PROVE PlanInHand(q)'
  OBVIOUS
<1>1. PlanInHand(q) /\ Same(q)
  BY DEF IInv
<1> QED BY <1>1 DEF PlanInHand, Same

\* If the same subscriptions hold the same tokens, the guard fits them as before.
LEMMA GuardStays ==
  ASSUME GuardMatchesRuns, busy' = busy,
         \A q \in Runs : (Holds(q)' <=> Holds(q)) /\ (Holds(q) => tok'[q] = tok[q])
  PROVE  GuardMatchesRuns'
<1>1. {KeyOf(q)' : q \in {p \in Runs : Holds(p)'}} = {KeyOf(q) : q \in {p \in Runs : Holds(p)}}
  BY DEF KeyOf
<1>2. \A r, q \in Runs : Holds(r)' /\ Holds(q)' /\ KeyOf(r)' = KeyOf(q)' => r = q
  BY DEF GuardMatchesRuns, KeyOf
<1> QED BY <1>1, <1>2 DEF GuardMatchesRuns

\* A slot that is free is taken by one more.
LEMMA GuardGrows ==
  ASSUME GuardMatchesRuns, NEW r \in Runs, ~Holds(r), Holds(r)', KeyOf(r) \notin busy,
         busy' = busy \cup {KeyOf(r)}, tok' = tok,
         \A q \in Runs : q # r => (Holds(q)' <=> Holds(q))
  PROVE  GuardMatchesRuns'
<1>1. busy' = {KeyOf(q)' : q \in {p \in Runs : Holds(p)'}}
  BY DEF GuardMatchesRuns, KeyOf
<1>2. \A p, q \in Runs : Holds(p)' /\ Holds(q)' /\ KeyOf(p)' = KeyOf(q)' => p = q
  <2> SUFFICES ASSUME NEW p \in Runs, NEW q \in Runs, Holds(p)', Holds(q)', KeyOf(p) = KeyOf(q), p # q
               PROVE  FALSE
    BY DEF KeyOf
  <2>1. CASE p = r
    BY <2>1 DEF GuardMatchesRuns
  <2>2. CASE q = r
    BY <2>2 DEF GuardMatchesRuns
  <2> QED BY <2>1, <2>2 DEF GuardMatchesRuns
<1> QED BY <1>1, <1>2 DEF GuardMatchesRuns

\* A slot is given back by the one that has it.
LEMMA GuardShrinks ==
  ASSUME GuardMatchesRuns, NEW r \in Runs, Holds(r), ~Holds(r)', busy' = busy \ {KeyOf(r)},
         \A q \in Runs : q # r => (Holds(q)' <=> Holds(q)) /\ tok'[q] = tok[q]
  PROVE  GuardMatchesRuns'
<1>1. \A q \in Runs : q # r => KeyOf(q)' = KeyOf(q)
  BY DEF KeyOf
<1>2. busy' = {KeyOf(q)' : q \in {p \in Runs : Holds(p)'}}
  BY <1>1 DEF GuardMatchesRuns
<1>3. \A p, q \in Runs : Holds(p)' /\ Holds(q)' /\ KeyOf(p)' = KeyOf(q)' => p = q
  BY <1>1 DEF GuardMatchesRuns
<1> QED BY <1>2, <1>3 DEF GuardMatchesRuns

----------------------------------------------------------------------------
(* The steps that go through no check *)

LEMMA Unmoved ==
  ASSUME IInv, TypeOK', HandIsFull', issued \subseteq issued', UNCHANGED <<busy, pc, tok, phrase, opened, cfg>>
  PROVE  IInv'
<1>1. GuardMatchesRuns'
  BY GuardStays DEF IInv, Holds
<1>2. \A q \in Runs : Same(q)
  BY DEF Same
<1>3. \A q \in Runs : PlanInHand(q)'
  BY <1>2, IInv, issued \subseteq issued' DEF IInv, PlanInHand, Same
<1> QED BY <1>1, <1>3 DEF IInv

\* The operation goes on, between two places that both hold the slot or both do
\* not, and where the same is known of the plan.
LEMMA Moved ==
  ASSUME IInv, TypeOK', HandIsFull', NEW r \in Runs, NEW from, NEW to, Go(r, from, to),
         from \notin {"idle", "resolve"}, to # "idle", from \in HoldPc <=> to \in HoldPc,
         UNCHANGED <<busy, issued, tok, phrase, opened, cfg>>
  PROVE  IInv'
<1>1. pc \in [Runs -> RunPc]
  BY DEF IInv, TypeOK
<1>2. pc[r] = from /\ pc'[r] = to /\ \A q \in Runs : q # r => pc'[q] = pc[q]
  BY <1>1 DEF Go
<1>3. GuardMatchesRuns'
  <2>1. \A q \in Runs : Holds(q)' <=> Holds(q)
    BY <1>2 DEF Holds
  <2> QED BY <2>1, GuardStays DEF IInv
<1>4. PlanInHand(r)'
  BY <1>2 DEF IInv, PlanInHand
<1>5. \A q \in Runs : PlanInHand(q)'
  BY <1>2, <1>4, OthersKeepPlans DEF Same
<1> QED BY <1>3, <1>5 DEF IInv

\* The environment.
LEMMA EnvSteps ==
  ASSUME IInv, Tick \/ (\E k \in Keys : EditConfig(k) \/ PlanOp(k)) \/ (\E o \in Owners : ChangePAT(o))
  PROVE  IInv'
<1>1. EnvTypes /\ CheckTypes /\ StreamTypes
  BY Types
<1>2. CASE Tick
  <2>1. EnvTypes' /\ CheckTypes' /\ StreamTypes'
    BY <1>1, <1>2 DEF Tick, EnvTypes, CheckTypes, StreamTypes, HandIsFull, checkVars, streamVars
  <2> QED BY <1>2, <2>1, TypesAfter, Unmoved DEF Tick, checkVars
<1>3. ASSUME NEW k \in Keys, EditConfig(k) PROVE IInv'
  <2>1. EnvTypes'
    BY <1>1, <1>3 DEF EditConfig, EnvTypes
  <2>2. CheckTypes' /\ StreamTypes'
    BY <1>1, <1>3 DEF EditConfig, CheckTypes, StreamTypes, HandIsFull, checkVars, streamVars
  <2> QED BY <1>3, <2>1, <2>2, TypesAfter, Unmoved DEF EditConfig, checkVars
<1>4. ASSUME NEW k \in Keys, PlanOp(k) PROVE IInv'
  <2>1. EnvTypes'
    BY <1>1, <1>4 DEF PlanOp, EnvTypes, Token
  <2>2. CheckTypes' /\ StreamTypes'
    BY <1>1, <1>4 DEF PlanOp, CheckTypes, StreamTypes, HandIsFull, checkVars, streamVars
  <2> QED BY <1>4, <2>1, <2>2, TypesAfter, Unmoved DEF PlanOp, checkVars
<1>5. ASSUME NEW o \in Owners, ChangePAT(o) PROVE IInv'
  <2>1. EnvTypes'
    BY <1>1, <1>5 DEF ChangePAT, EnvTypes
  <2>2. CheckTypes' /\ StreamTypes'
    BY <1>1, <1>5 DEF ChangePAT, CheckTypes, StreamTypes, HandIsFull, checkVars, streamVars
  <2> QED BY <1>5, <2>1, <2>2, TypesAfter, Unmoved DEF ChangePAT, checkVars
<1> QED BY <1>2, <1>3, <1>4, <1>5

\* The forwarder and the client touch only the stream.
LEMMA ForwardSteps ==
  ASSUME IInv, NEW r \in Runs, Forwarder(r) \/ Disconnect(r)
  PROVE  IInv'
<1>1. EnvTypes /\ CheckTypes /\ StreamTypes
  BY Types
<1>2. StreamTypes'
  <2>1. CASE Receive(r)
    BY <1>1, <2>1 DEF Receive, StreamTypes, HandIsFull
  <2>2. CASE Deliver(r)
    <3>1. held[r] \in Level
      BY <1>1, <2>2 DEF Deliver, StreamTypes, HandIsFull
    <3> QED BY <1>1, <2>2, <3>1 DEF Deliver, StreamTypes, HandIsFull
  <2>3. CASE StopForwarding(r)
    BY <1>1, <2>3 DEF StopForwarding, StreamTypes, HandIsFull
  <2>4. CASE Disconnect(r)
    BY <1>1, <2>4 DEF Disconnect, StreamTypes, HandIsFull
  <2> QED BY <2>1, <2>2, <2>3, <2>4 DEF Forwarder
<1>3. UNCHANGED <<envVars, busy, pc, checkVars>>
  BY DEF Forwarder, Receive, Deliver, StopForwarding, Disconnect
<1>4. EnvTypes' /\ CheckTypes'
  BY <1>1, <1>3 DEF EnvTypes, CheckTypes, envVars, checkVars
<1>5. TypeOK' /\ HandIsFull'
  BY <1>2, <1>4, TypesAfter
<1>6. issued' = issued /\ UNCHANGED <<busy, pc, tok, phrase, opened, cfg>>
  BY <1>3 DEF envVars, checkVars
<1> QED BY <1>5, <1>6, Unmoved

----------------------------------------------------------------------------
(* The operation *)

LEMMA Emitted ==
  ASSUME StreamTypes, NEW r \in Runs, NEW l \in Level, Emit(r, l), UNCHANGED status,
         lines' \in [Runs -> Nat]
  PROVE  StreamTypes'
<1>1. buf' \in [Runs -> Seq(Level)]
  <2>1. CASE buf' = [buf EXCEPT ![r] = Append(@, l)]
    BY <2>1 DEF StreamTypes
  <2> QED BY <2>1 DEF Emit, Send, StreamTypes
<1>2. sent' \in [Runs -> Seq(Level)]
  BY DEF Emit, StreamTypes
<1> QED BY <1>1, <1>2 DEF Emit, StreamTypes, HandIsFull

LEMMA MovedTypes ==
  ASSUME CheckTypes, NEW r \in Runs, NEW from, NEW to \in RunPc, Go(r, from, to), UNCHANGED checkVars
  PROVE  CheckTypes'
BY DEF CheckTypes, Go, checkVars

LEMMA EnvSame ==
  ASSUME EnvTypes, UNCHANGED <<envVars, busy>>
  PROVE  EnvTypes'
BY DEF EnvTypes, envVars

LEMMA StreamSame ==
  ASSUME StreamTypes, UNCHANGED <<status, lines, streamVars>>
  PROVE  StreamTypes'
BY DEF StreamTypes, HandIsFull, streamVars

\* A step of the operation that leaves the guard alone: it emits a line, or none.
LEMMA OperationMoves ==
  ASSUME IInv, NEW r \in Runs, NEW from, NEW to \in RunPc, Go(r, from, to),
         from \notin {"idle", "resolve"}, to # "idle", from \in HoldPc <=> to \in HoldPc,
         UNCHANGED <<envVars, busy, checkVars>>, StreamTypes'
  PROVE  IInv'
<1>1. EnvTypes /\ CheckTypes
  BY Types
<1>2. EnvTypes'
  BY <1>1, EnvSame
<1>3. CheckTypes'
  BY <1>1, MovedTypes
<1>4. TypeOK' /\ HandIsFull'
  BY <1>2, <1>3, TypesAfter
<1>5. UNCHANGED <<busy, issued, tok, phrase, opened, cfg>>
  BY DEF envVars, checkVars
<1> QED BY <1>4, <1>5, Moved

LEMMA OperationSteps ==
  ASSUME IInv, NEW r \in Runs, Operation(r)
  PROVE  IInv'
<1>1. EnvTypes /\ CheckTypes /\ StreamTypes
  BY Types
<1>2. lines \in [Runs -> Nat]
  BY <1>1 DEF StreamTypes
<1>3. CASE Start(r)
  <2>1. Go(r, "start", "exec") /\ Emit(r, "INFO") /\ UNCHANGED <<envVars, busy, checkVars, status, lines>>
    BY <1>3 DEF Start
  <2>2. StreamTypes'
    BY <1>1, <1>2, <2>1, Emitted
  <2> QED BY <2>1, <2>2, OperationMoves
<1>4. CASE Report(r)
  <2>1. Emit(r, "PROGRESS") /\ UNCHANGED <<envVars, busy, pc, checkVars, status>>
    BY <1>4 DEF Report
  <2>2. lines' \in [Runs -> Nat]
    BY <1>2, <1>4 DEF Report
  <2>3. StreamTypes'
    BY <1>1, <2>1, <2>2, Emitted
  <2>4. EnvTypes' /\ CheckTypes'
    BY <1>1, <2>1 DEF EnvTypes, CheckTypes, envVars, checkVars
  <2>5. TypeOK' /\ HandIsFull'
    BY <2>3, <2>4, TypesAfter
  <2>6. issued \subseteq issued' /\ UNCHANGED <<busy, pc, tok, phrase, opened, cfg>>
    BY <2>1 DEF envVars, checkVars
  <2> QED BY <2>5, <2>6, Unmoved
<1>5. CASE OpReturns(r)
  <2>1. Go(r, "exec", "outcome") /\ UNCHANGED <<envVars, busy, checkVars>>
    BY <1>5 DEF OpReturns
  <2>2. StreamTypes'
    BY <1>1, <1>5 DEF OpReturns, StreamTypes, HandIsFull, streamVars
  <2> QED BY <2>1, <2>2, OperationMoves
<1>6. CASE EmitOutcome(r)
  <2>1. Go(r, "outcome", "record") /\ Emit(r, OutcomeLine(r))
        /\ UNCHANGED <<envVars, busy, checkVars, status, lines>>
    BY <1>6 DEF EmitOutcome
  <2>2. OutcomeLine(r) \in Level
    BY DEF OutcomeLine
  <2>3. StreamTypes'
    BY <1>1, <1>2, <2>1, <2>2, Emitted
  <2> QED BY <2>1, <2>3, OperationMoves
<1>7. CASE RecordOp(r)
  <2>1. UNCHANGED <<envVars, busy, checkVars, status, lines, streamVars>>
    BY <1>7 DEF RecordOp
  <2>2. StreamTypes'
    BY <1>1, <2>1, StreamSame
  <2>3. CASE Go(r, "record", "done")
    BY <2>1, <2>2, <2>3, OperationMoves
  <2>4. CASE Go(r, "record", "warn")
    BY <2>1, <2>2, <2>4, OperationMoves
  <2> QED BY <1>7, <2>3, <2>4 DEF RecordOp
<1>8. CASE Warn(r)
  <2>1. Go(r, "warn", "done") /\ Emit(r, "WARN") /\ UNCHANGED <<envVars, busy, checkVars, status, lines>>
    BY <1>8 DEF Warn
  <2>2. StreamTypes'
    BY <1>1, <1>2, <2>1, Emitted
  <2> QED BY <2>1, <2>2, OperationMoves
<1>9. CASE EmitDone(r)
  <2>1. Go(r, "done", "release") /\ Emit(r, "DONE") /\ UNCHANGED <<envVars, busy, checkVars, status, lines>>
    BY <1>9 DEF EmitDone
  <2>2. StreamTypes'
    BY <1>1, <1>2, <2>1, Emitted
  <2> QED BY <2>1, <2>2, OperationMoves
<1>10. CASE Release(r)
  <2>1. Go(r, "release", "close") /\ busy' = busy \ {KeyOf(r)}
        /\ UNCHANGED <<envVars, checkVars, status, lines, streamVars>>
    BY <1>10 DEF Release
  <2>2. pc[r] = "release" /\ pc'[r] = "close" /\ \A q \in Runs : q # r => pc'[q] = pc[q]
    BY <1>1, <2>1 DEF Go, CheckTypes
  <2>3. EnvTypes'
    BY <1>1, <2>1 DEF EnvTypes, envVars
  <2>4. CheckTypes'
    BY <1>1, <2>1, MovedTypes
  <2>5. StreamTypes'
    BY <1>1, <2>1, StreamSame
  <2>6. GuardMatchesRuns'
    <3>1. Holds(r) /\ ~Holds(r)' /\ \A q \in Runs : q # r => (Holds(q)' <=> Holds(q)) /\ tok'[q] = tok[q]
      BY <2>1, <2>2 DEF Holds, checkVars
    <3>2. GuardMatchesRuns
      BY DEF IInv
    <3> QED BY <2>1, <3>1, <3>2, GuardShrinks
  <2>7. \A q \in Runs : PlanInHand(q)'
    <3>1. PlanInHand(r)'
      BY <2>1, <2>2 DEF IInv, PlanInHand, envVars, checkVars
    <3>2. issued \subseteq issued' /\ \A q \in Runs : q # r => Same(q)
      BY <2>1, <2>2 DEF Same, envVars, checkVars
    <3> QED BY <3>1, <3>2, OthersKeepPlans
  <2> QED BY <2>3, <2>4, <2>5, <2>6, <2>7, TypesAfter DEF IInv
<1>11. CASE Close(r)
  <2>1. Go(r, "close", "closed") /\ UNCHANGED <<envVars, busy, checkVars, status, lines, streamVars>>
    BY <1>11 DEF Close
  <2>2. StreamTypes'
    BY <1>1, <2>1, StreamSame
  <2> QED BY <2>1, <2>2, OperationMoves
<1> QED BY <1>3, <1>4, <1>5, <1>6, <1>7, <1>8, <1>9, <1>10, <1>11 DEF Operation

----------------------------------------------------------------------------
(* The checks before it *)

LEMMA ForgetTypes ==
  ASSUME CheckTypes, NEW r \in Runs, NEW from, Go(r, from, "idle"), Forget(r)
  PROVE  CheckTypes' /\ pc'[r] = "idle" /\ \A q \in Runs : q # r => Same(q)
BY DEF CheckTypes, Go, Forget, Same

\* A subscription that is over has no plan in its hand.
LEMMA ForgetPlans ==
  ASSUME IInv, issued \subseteq issued', NEW r \in Runs, NEW from, Go(r, from, "idle"), Forget(r)
  PROVE  CheckTypes' /\ \A q \in Runs : PlanInHand(q)'
<1>1. CheckTypes' /\ pc'[r] = "idle" /\ \A q \in Runs : q # r => Same(q)
  BY Types, ForgetTypes
<1>2. PlanInHand(r)'
  BY <1>1 DEF PlanInHand
<1> QED BY <1>1, <1>2, OthersKeepPlans

LEMMA GuardRejects ==
  ASSUME IInv, NEW r \in Runs, NEW from, from \notin HoldPc, Go(r, from, "idle"), Forget(r), busy' = busy
  PROVE  GuardMatchesRuns'
<1>1. pc[r] = from /\ pc'[r] = "idle" /\ \A q \in Runs : q # r => Same(q)
  BY Types, ForgetTypes DEF Go
<1>2. \A q \in Runs : (Holds(q)' <=> Holds(q)) /\ (Holds(q) => tok'[q] = tok[q])
  BY <1>1 DEF Holds, Same
<1> QED BY <1>2, GuardStays DEF IInv

LEMMA Connected ==
  ASSUME StreamTypes, NEW r \in Runs, NEW b \in BOOLEAN, connected' = [connected EXCEPT ![r] = b],
         UNCHANGED <<status, lines, buf, fwd, held, sent, got>>
  PROVE  StreamTypes'
BY DEF StreamTypes, HandIsFull

LEMMA OpenStep ==
  ASSUME IInv, NEW r \in Runs, OpenOpToken(r)
  PROVE  IInv'
<1>1. EnvTypes /\ CheckTypes /\ StreamTypes
  BY Types
<1>2. PICK t \in issued, p \in BOOLEAN :
        /\ Accepts(r, t)
        /\ tok' = [tok EXCEPT ![r] = t] /\ phrase' = [phrase EXCEPT ![r] = p]
  BY DEF OpenOpToken
<1>3. /\ Go(r, "idle", "resolve") /\ opened' = [opened EXCEPT ![r] = now]
      /\ connected' = [connected EXCEPT ![r] = TRUE]
      /\ UNCHANGED <<envVars, busy, cfg, status, lines, buf, fwd, held, sent, got>>
  BY DEF OpenOpToken
<1>4. EnvTypes'
  BY <1>1, <1>3, EnvSame
<1>5. StreamTypes'
  BY <1>1, <1>3, Connected
<1>6. CheckTypes'
  BY <1>1, <1>2, <1>3 DEF CheckTypes, EnvTypes, Go
<1>7. pc[r] = "idle" /\ pc'[r] = "resolve" /\ tok'[r] = t /\ opened'[r] = now
      /\ \A q \in Runs : q # r => Same(q)
  BY <1>1, <1>2, <1>3 DEF CheckTypes, Go, Same
<1>8. GuardMatchesRuns'
  <2>1. \A q \in Runs : (Holds(q)' <=> Holds(q)) /\ (Holds(q) => tok'[q] = tok[q])
    BY <1>7 DEF Holds, Same
  <2> QED BY <1>3, <2>1, GuardStays DEF IInv
<1>9. PlanInHand(r)'
  BY <1>2, <1>3, <1>7 DEF PlanInHand, Accepts, envVars
<1>10. \A q \in Runs : PlanInHand(q)'
  <2>1. issued \subseteq issued'
    BY <1>3 DEF envVars
  <2> QED BY <1>7, <1>9, <2>1, OthersKeepPlans
<1> QED BY <1>4, <1>5, <1>6, <1>8, <1>10, TypesAfter DEF IInv

LEMMA ResolveStep ==
  ASSUME IInv, NEW r \in Runs, ResolveConfig(r)
  PROVE  IInv'
<1>1. EnvTypes /\ CheckTypes /\ StreamTypes
  BY Types
<1>2. UNCHANGED <<envVars, busy, status, lines, buf, fwd, held, sent, got>>
  BY DEF ResolveConfig
<1>3. EnvTypes' /\ issued \subseteq issued'
  BY <1>1, <1>2, EnvSame DEF envVars
<1>4. CASE /\ MayRun(r, config[KeyOf(r)]) /\ Go(r, "resolve", "lock")
           /\ cfg' = [cfg EXCEPT ![r] = config[KeyOf(r)]]
           /\ UNCHANGED <<tok, phrase, opened, connected>>
  <2>1. StreamTypes'
    BY <1>1, <1>2, <1>4 DEF StreamTypes, HandIsFull
  <2>2. PlanInHand(r) /\ pc[r] = "resolve"
    BY <1>4 DEF IInv, Go
  <2>3. KeyOf(r) \in Keys
    BY <1>1, <2>2 DEF PlanInHand, EnvTypes, Token, KeyOf
  <2>4. CheckTypes'
    BY <1>1, <1>4, <2>3 DEF CheckTypes, EnvTypes, Go
  <2>5. pc'[r] = "lock" /\ cfg'[r] = config[KeyOf(r)] /\ \A q \in Runs : q # r => Same(q)
    BY <1>1, <1>4 DEF CheckTypes, Go, Same
  <2>6. GuardMatchesRuns'
    <3>1. \A q \in Runs : (Holds(q)' <=> Holds(q)) /\ (Holds(q) => tok'[q] = tok[q])
      BY <1>4, <2>2, <2>5 DEF Holds, Same
    <3> QED BY <1>2, <3>1, GuardStays DEF IInv
  <2>7. PlanInHand(r)'
    BY <1>2, <1>4, <2>2, <2>5 DEF PlanInHand, MayRun, envVars
  <2>8. \A q \in Runs : PlanInHand(q)'
    BY <1>3, <2>5, <2>7, OthersKeepPlans
  <2> QED BY <1>3, <2>1, <2>4, <2>6, <2>8, TypesAfter DEF IInv
<1>5. CASE Reject(r, "resolve")
  <2>1. Go(r, "resolve", "idle") /\ Forget(r) /\ connected' = [connected EXCEPT ![r] = FALSE]
    BY <1>5 DEF Reject
  <2>2. StreamTypes'
    BY <1>1, <1>2, <2>1, Connected
  <2>3. CheckTypes' /\ \A q \in Runs : PlanInHand(q)'
    BY <1>3, <2>1, ForgetPlans
  <2>4. GuardMatchesRuns'
    BY <1>2, <2>1, GuardRejects
  <2> QED BY <1>3, <2>2, <2>3, <2>4, TypesAfter DEF IInv
<1> QED BY <1>4, <1>5 DEF ResolveConfig

LEMMA BeginStep ==
  ASSUME IInv, NEW r \in Runs, TryBegin(r)
  PROVE  IInv'
<1>1. EnvTypes /\ CheckTypes /\ StreamTypes
  BY Types
<1>2. UNCHANGED <<envVars, status, lines, buf, fwd, held, sent, got>>
  BY DEF TryBegin
<1>3. issued \subseteq issued'
  BY <1>2 DEF envVars
<1>4. CASE /\ Free(KeyOf(r)) /\ Go(r, "lock", "client") /\ busy' = busy \cup {KeyOf(r)}
           /\ UNCHANGED <<checkVars, connected>>
  <2>1. StreamTypes'
    BY <1>1, <1>2, <1>4 DEF StreamTypes, HandIsFull
  <2>2. CheckTypes'
    BY <1>1, <1>4, MovedTypes
  <2>3. pc[r] = "lock" /\ pc'[r] = "client" /\ \A q \in Runs : q # r => Same(q)
    BY <1>1, <1>4 DEF CheckTypes, Go, Same, checkVars
  <2>4. PlanInHand(r)
    BY DEF IInv
  <2>5. KeyOf(r) \in Keys
    BY <1>1, <2>3, <2>4 DEF PlanInHand, EnvTypes, Token, KeyOf
  <2>6. EnvTypes'
    BY <1>1, <1>2, <1>4, <2>5 DEF EnvTypes, envVars
  <2>7. GuardMatchesRuns'
    <3>1. ~Holds(r) /\ Holds(r)' /\ tok' = tok /\ \A q \in Runs : q # r => (Holds(q)' <=> Holds(q))
      BY <1>4, <2>3 DEF Holds, Same, checkVars
    <3>2. GuardMatchesRuns /\ KeyOf(r) \notin busy
      BY <1>4 DEF IInv, Free
    <3> QED BY <1>4, <3>1, <3>2, GuardGrows
  <2>8. PlanInHand(r)'
    BY <1>2, <1>4, <2>3, <2>4 DEF PlanInHand, envVars, checkVars
  <2>9. \A q \in Runs : PlanInHand(q)'
    BY <1>3, <2>3, <2>8, OthersKeepPlans
  <2> QED BY <2>1, <2>2, <2>6, <2>7, <2>9, TypesAfter DEF IInv
<1>5. CASE Reject(r, "lock") /\ UNCHANGED busy
  <2>1. Go(r, "lock", "idle") /\ Forget(r) /\ connected' = [connected EXCEPT ![r] = FALSE]
    BY <1>5 DEF Reject
  <2>2. StreamTypes' /\ EnvTypes'
    BY <1>1, <1>2, <1>5, <2>1, Connected, EnvSame
  <2>3. CheckTypes' /\ \A q \in Runs : PlanInHand(q)'
    BY <1>3, <2>1, ForgetPlans
  <2>4. GuardMatchesRuns'
    BY <1>5, <2>1, GuardRejects
  <2> QED BY <2>2, <2>3, <2>4, TypesAfter DEF IInv
<1> QED BY <1>4, <1>5 DEF TryBegin

LEMMA ClientStep ==
  ASSUME IInv, NEW r \in Runs, GitlabClientFor(r)
  PROVE  IInv'
<1>1. EnvTypes /\ CheckTypes /\ StreamTypes
  BY Types
<1>2. UNCHANGED <<envVars, status, lines, buf, held>>
  BY DEF GitlabClientFor
<1>3. issued \subseteq issued'
  BY <1>2 DEF envVars
<1>4. CASE /\ Go(r, "client", "start") /\ fwd' = [fwd EXCEPT ![r] = "receive"]
           /\ sent' = [sent EXCEPT ![r] = <<>>] /\ got' = [got EXCEPT ![r] = <<>>]
           /\ UNCHANGED <<busy, checkVars, connected>>
  <2>1. StreamTypes'
    BY <1>1, <1>2, <1>4 DEF StreamTypes, HandIsFull
  <2> QED BY <1>2, <1>4, <2>1, OperationMoves
<1>5. CASE busy' = ReleaseOnError(r) /\ Reject(r, "client") /\ UNCHANGED <<fwd, sent, got>>
  <2>1. Go(r, "client", "idle") /\ Forget(r) /\ connected' = [connected EXCEPT ![r] = FALSE]
        /\ busy' = busy \ {KeyOf(r)}
    BY <1>5 DEF Reject, ReleaseOnError
  <2>2. StreamTypes'
    BY <1>1, <1>2, <1>5, <2>1, Connected
  <2>3. EnvTypes'
    BY <1>1, <1>2, <2>1 DEF EnvTypes, envVars
  <2>4. CheckTypes' /\ \A q \in Runs : PlanInHand(q)'
    BY <1>3, <2>1, ForgetPlans
  <2>5. pc[r] = "client" /\ pc'[r] = "idle" /\ \A q \in Runs : q # r => Same(q)
    BY <1>1, <2>1, ForgetTypes DEF Go
  <2>6. GuardMatchesRuns'
    <3>1. Holds(r) /\ ~Holds(r)' /\ \A q \in Runs : q # r => (Holds(q)' <=> Holds(q)) /\ tok'[q] = tok[q]
      BY <2>5 DEF Holds, Same
    <3>2. GuardMatchesRuns
      BY DEF IInv
    <3> QED BY <2>1, <3>1, <3>2, GuardShrinks
  <2> QED BY <2>2, <2>3, <2>4, <2>6, TypesAfter DEF IInv
<1> QED BY <1>4, <1>5 DEF GitlabClientFor

LEMMA EndedStep ==
  ASSUME IInv, NEW r \in Runs, Ended(r)
  PROVE  IInv'
<1>1. EnvTypes /\ CheckTypes /\ StreamTypes
  BY Types
<1>2. Go(r, "closed", "idle") /\ Forget(r) /\ UNCHANGED <<envVars, busy>>
  BY DEF Ended
<1>3. StreamTypes'
  BY <1>1 DEF Ended, StreamTypes, HandIsFull
<1>4. EnvTypes' /\ issued \subseteq issued'
  BY <1>1, <1>2, EnvSame DEF envVars
<1>5. CheckTypes' /\ \A q \in Runs : PlanInHand(q)'
  BY <1>2, <1>4, ForgetPlans
<1>6. GuardMatchesRuns'
  BY <1>2, GuardRejects
<1> QED BY <1>3, <1>4, <1>5, <1>6, TypesAfter DEF IInv

LEMMA CrashStep == ASSUME IInv, Crash PROVE IInv'
<1>1. EnvTypes /\ CheckTypes /\ StreamTypes
  BY Types
<1>2. EnvTypes'
  BY <1>1 DEF Crash, EnvTypes, envVars
<1>3. CheckTypes'
  BY DEF Crash, CheckTypes
<1>4. StreamTypes'
  BY DEF Crash, StreamTypes, HandIsFull
<1>5. busy' = {} /\ \A r \in Runs : pc'[r] = "idle"
  BY DEF Crash
<1>6. GuardMatchesRuns' /\ \A r \in Runs : PlanInHand(r)'
  BY <1>5 DEF GuardMatchesRuns, Holds, PlanInHand
<1> QED BY <1>2, <1>3, <1>4, <1>6, TypesAfter DEF IInv

----------------------------------------------------------------------------

LEMMA NextIInv == IInv /\ [Next]_vars => IInv'
<1> SUFFICES ASSUME IInv, [Next]_vars PROVE IInv'
  OBVIOUS
<1>1. CASE UNCHANGED vars
  <2>1. EnvTypes' /\ CheckTypes' /\ StreamTypes'
    BY <1>1, Types DEF vars, envVars, checkVars, streamVars, EnvTypes, CheckTypes, StreamTypes, HandIsFull
  <2>2. issued \subseteq issued' /\ UNCHANGED <<busy, pc, tok, phrase, opened, cfg>>
    BY <1>1 DEF vars, envVars, checkVars
  <2> QED BY <2>1, <2>2, TypesAfter, Unmoved
<1>2. ASSUME NEW r \in Runs, Preflight(r) PROVE IInv'
  BY <1>2, OpenStep, ResolveStep, BeginStep, ClientStep DEF Preflight
<1>3. ASSUME NEW r \in Runs, Operation(r) PROVE IInv'
  BY <1>3, OperationSteps
<1>4. ASSUME NEW r \in Runs, Forwarder(r) \/ Disconnect(r) PROVE IInv'
  BY <1>4, ForwardSteps
<1>5. ASSUME NEW r \in Runs, Ended(r) PROVE IInv'
  BY <1>5, EndedStep
<1> QED BY <1>1, <1>2, <1>3, <1>4, <1>5, EnvSteps, CrashStep DEF Next

\* The inductive invariant of interactive operations (run_op.go, exclusive.go).
THEOREM Invariance == Spec => []IInv
BY InitIInv, NextIInv, PTL DEF Spec

\* What RunOp's locals, the guard and the channels hold is of its type.
THEOREM TypeCorrect == Spec => []TypeOK
<1>1. IInv => TypeOK
  BY DEF IInv
<1> QED BY <1>1, Invariance, PTL

\* The guard's slots are those of the operations between tryBegin and release,
\* one each (exclusive.go).
THEOREM OneEach == Spec => []GuardMatchesRuns
<1>1. IInv => GuardMatchesRuns
  BY DEF IInv
<1> QED BY <1>1, Invariance, PTL

\* An operation runs what its owner was shown and confirmed (op_plan.go,
\* run_op.go), whatever is edited, expires or fails meanwhile.
THEOREM OnlyAsPlanned == Spec => []RunsThePlan
<1>1. IInv => RunsThePlan
  BY DEF IInv, PlanInHand, RunsThePlan
<1> QED BY <1>1, Invariance, PTL

----------------------------------------------------------------------------
(* What a client that stays connected gets.  The lines received, the one in    *)
(* the forwarder's hand and those in the channel are, in this order, the lines *)
(* sent.                                                                       *)

InOrder(r) == (got[r] \o InHand(r)) \o buf[r] = sent[r]

AfterOutcome == {"record", "warn", "done", "release", "close", "closed"}
AfterDone == {"release", "close", "closed"}

\* The stream exists while the operation does, and what was sent by then.
StreamPlace(r) ==
  /\ (fwd[r] = "off") <=> (pc[r] \in {"idle", "resolve", "lock", "client"})
  /\ fwd[r] = "off" => buf[r] = <<>>
  /\ (held[r] = None) <=> (fwd[r] # "send")
  /\ fwd[r] = "stopped" /\ connected[r] => pc[r] = "closed" /\ buf[r] = <<>>
  /\ pc[r] \in AfterOutcome => \E j \in 1..Len(sent[r]) : sent[r][j] = OutcomeLine(r)
  /\ pc[r] \in AfterDone => Len(sent[r]) > 0 /\ sent[r][Len(sent[r])] = "DONE"

StreamFits(r) == StreamPlace(r) /\ (connected[r] /\ fwd[r] # "off" => InOrder(r))

Still(q) ==
  /\ pc'[q] = pc[q] /\ status'[q] = status[q] /\ buf'[q] = buf[q] /\ fwd'[q] = fwd[q]
  /\ held'[q] = held[q] /\ connected'[q] = connected[q] /\ sent'[q] = sent[q] /\ got'[q] = got[q]

LEMMA StillFits == ASSUME NEW q, StreamFits(q), Still(q) PROVE StreamFits(q)'
BY DEF StreamFits, StreamPlace, InOrder, InHand, OutcomeLine, Still

LEMMA OthersFit ==
  ASSUME \A q \in Runs : StreamFits(q), NEW r \in Runs, StreamFits(r)', \A q \in Runs : q # r => Still(q)
  PROVE  \A q \in Runs : StreamFits(q)'
BY StillFits

LEMMA HandTypes == ASSUME StreamTypes, NEW r \in Runs PROVE InHand(r) \in Seq(Level)
<1>1. CASE held[r] = None
  BY <1>1, EmptySeq DEF InHand
<1>2. CASE held[r] # None
  BY <1>2 DEF InHand, StreamTypes
<1> QED BY <1>1, <1>2

\* A line that is sent is the last one; it is lost only for a client that left.
LEMMA EmitFits ==
  ASSUME StreamTypes, CheckTypes, NEW r \in Runs, StreamFits(r), NEW l \in Level, Emit(r, l),
         pc[r] \notin {"idle", "resolve", "lock", "client", "closed"}
  PROVE  /\ fwd'[r] = fwd[r] /\ held'[r] = held[r] /\ connected'[r] = connected[r] /\ fwd[r] # "off"
         /\ fwd[r] = "stopped" => ~connected[r]
         /\ Len(sent'[r]) = Len(sent[r]) + 1 /\ sent'[r][Len(sent[r]) + 1] = l
         /\ \A j \in 1..Len(sent[r]) : sent'[r][j] = sent[r][j]
         /\ connected'[r] => InOrder(r)'
<1>1. /\ buf[r] \in Seq(Level) /\ sent[r] \in Seq(Level) /\ got[r] \in Seq(Level)
      /\ UNCHANGED <<fwd, held, connected, got>>
      /\ sent'[r] = Append(sent[r], l)
  BY DEF StreamTypes, Emit
<1>2. /\ Len(sent[r]) \in Nat /\ Len(sent'[r]) = Len(sent[r]) + 1 /\ sent'[r][Len(sent[r]) + 1] = l
      /\ \A j \in 1..Len(sent[r]) : sent'[r][j] = sent[r][j]
  BY <1>1
<1>3. fwd[r] # "off" /\ (fwd[r] = "stopped" => ~connected[r])
  BY DEF StreamFits, StreamPlace
<1>4. ASSUME connected'[r] PROVE InOrder(r)'
  <2>1. buf'[r] = Append(buf[r], l) /\ InOrder(r)
    BY <1>1, <1>3, <1>4 DEF Emit, Send, StreamTypes, StreamFits
  <2>2. InHand(r)' = InHand(r) /\ got'[r] = got[r]
    BY <1>1 DEF InHand
  <2>3. got[r] \o InHand(r) \in Seq(Level)
    BY <1>1, HandTypes, ConcatProperties
  <2>4. (got[r] \o InHand(r)) \o Append(buf[r], l) = Append((got[r] \o InHand(r)) \o buf[r], l)
    BY <1>1, <2>3, QueuePuts
  <2>5. (got[r] \o InHand(r)) \o Append(buf[r], l) = Append(sent[r], l)
    BY <2>1, <2>4, Zenon DEF InOrder
  <2> QED BY <1>1, <2>1, <2>2, <2>5, Zenon DEF InOrder
<1> QED BY <1>1, <1>2, <1>3, <1>4

LEMMA InitFits == Init => \A r \in Runs : StreamFits(r)
BY DEF Init, StreamFits, StreamPlace, AfterOutcome, AfterDone

\* Places from which nothing was promised yet, or that were passed before.
LEMMA OperationFits ==
  ASSUME IInv, NEW r \in Runs, StreamFits(r), Operation(r)
  PROVE  StreamFits(r)' /\ \A q \in Runs : q # r => Still(q)
<1>1. CheckTypes /\ StreamTypes
  BY Types
<1>2. \A q \in Runs : q # r => Still(q)
  <2>1. /\ UNCHANGED <<held, got, fwd, connected>>
        /\ status' = status \/ \E v \in {"done", "failed"} : status' = [status EXCEPT ![r] = v]
        /\ pc' = pc \/ \E to \in RunPc : pc' = [pc EXCEPT ![r] = to]
        /\ buf' = buf \/ \E l \in Level : buf' = [buf EXCEPT ![r] = Append(@, l)]
        /\ sent' = sent \/ \E l \in Level : sent' = [sent EXCEPT ![r] = Append(@, l)]
    <3>1. \A l \in Level : Emit(r, l) =>
            /\ UNCHANGED <<held, got, fwd, connected>>
            /\ buf' = buf \/ buf' = [buf EXCEPT ![r] = Append(@, l)]
            /\ sent' = [sent EXCEPT ![r] = Append(@, l)]
      BY DEF Emit, Send
    <3>2. OutcomeLine(r) \in Level
      BY DEF OutcomeLine
    <3>3. CASE Start(r) \/ Report(r)
      BY <3>1, <3>3 DEF Start, Report, Go
    <3>4. CASE EmitOutcome(r)
      BY <3>1, <3>2, <3>4 DEF EmitOutcome, Go
    <3>5. CASE Warn(r) \/ EmitDone(r)
      BY <3>1, <3>5 DEF Warn, EmitDone, Go
    <3>6. CASE OpReturns(r) \/ RecordOp(r) \/ Release(r) \/ Close(r)
      BY <3>6 DEF OpReturns, RecordOp, Release, Close, Go, streamVars
    <3> QED BY <3>3, <3>4, <3>5, <3>6 DEF Operation
  <2> SUFFICES ASSUME NEW q \in Runs, q # r PROVE Still(q)
    OBVIOUS
  <2>2. pc'[q] = pc[q] /\ status'[q] = status[q]
    BY <1>1, <2>1 DEF CheckTypes, StreamTypes
  <2>3. buf'[q] = buf[q]
    BY <1>1, <2>1 DEF StreamTypes
  <2>4. sent'[q] = sent[q]
    BY <1>1, <2>1 DEF StreamTypes
  <2> QED BY <2>1, <2>2, <2>3, <2>4 DEF Still
<1>3. sent[r] \in Seq(Level) /\ Len(sent[r]) \in Nat
  BY <1>1 DEF StreamTypes
<1>4. CASE Start(r) \/ Report(r) \/ Warn(r)
  <2>1. PICK l \in Level : Emit(r, l)
    BY <1>4 DEF Start, Report, Warn
  <2>2. /\ pc[r] \in {"start", "exec", "warn"} /\ pc'[r] \in {"exec", "done"} /\ status' = status
        /\ pc'[r] = "done" => pc[r] = "warn"
    BY <1>1, <1>4 DEF Start, Report, Warn, Go, CheckTypes
  <2>3. /\ fwd'[r] = fwd[r] /\ held'[r] = held[r] /\ connected'[r] = connected[r] /\ fwd[r] # "off"
        /\ fwd[r] = "stopped" => ~connected[r]
        /\ Len(sent'[r]) = Len(sent[r]) + 1
        /\ \A j \in 1..Len(sent[r]) : sent'[r][j] = sent[r][j]
        /\ connected'[r] => InOrder(r)'
    BY <1>1, <2>1, <2>2, EmitFits
  <2> QED BY <1>2, <1>3, <2>2, <2>3 DEF StreamFits, StreamPlace, AfterOutcome, AfterDone, OutcomeLine
<1>5. CASE EmitOutcome(r)
  <2>1. Emit(r, OutcomeLine(r)) /\ OutcomeLine(r) \in Level /\ OutcomeLine(r)' = OutcomeLine(r)
    BY <1>5 DEF EmitOutcome, OutcomeLine
  <2>2. pc[r] = "outcome" /\ pc'[r] = "record"
    BY <1>1, <1>5 DEF EmitOutcome, Go, CheckTypes
  <2>3. /\ fwd'[r] = fwd[r] /\ held'[r] = held[r] /\ connected'[r] = connected[r] /\ fwd[r] # "off"
        /\ fwd[r] = "stopped" => ~connected[r]
        /\ Len(sent'[r]) = Len(sent[r]) + 1 /\ sent'[r][Len(sent[r]) + 1] = OutcomeLine(r)
        /\ connected'[r] => InOrder(r)'
    BY <1>1, <2>1, <2>2, EmitFits
  <2> QED BY <1>2, <1>3, <2>1, <2>2, <2>3 DEF StreamFits, StreamPlace, AfterOutcome, AfterDone
<1>6. CASE EmitDone(r)
  <2>1. Emit(r, "DONE") /\ status' = status
    BY <1>6 DEF EmitDone
  <2>2. pc[r] = "done" /\ pc'[r] = "release" /\ OutcomeLine(r)' = OutcomeLine(r)
    BY <1>1, <1>6 DEF EmitDone, Go, CheckTypes, OutcomeLine
  <2>3. /\ fwd'[r] = fwd[r] /\ held'[r] = held[r] /\ connected'[r] = connected[r] /\ fwd[r] # "off"
        /\ fwd[r] = "stopped" => ~connected[r]
        /\ Len(sent'[r]) = Len(sent[r]) + 1 /\ sent'[r][Len(sent[r]) + 1] = "DONE"
        /\ \A j \in 1..Len(sent[r]) : sent'[r][j] = sent[r][j]
        /\ connected'[r] => InOrder(r)'
    BY <1>1, <2>1, <2>2, EmitFits
  <2> QED BY <1>2, <1>3, <2>2, <2>3 DEF StreamFits, StreamPlace, AfterOutcome, AfterDone
<1>7. CASE OpReturns(r)
  <2>1. UNCHANGED streamVars /\ pc[r] = "exec" /\ pc'[r] = "outcome"
    BY <1>1, <1>7 DEF OpReturns, Go, CheckTypes
  <2> QED BY <1>2, <2>1 DEF StreamFits, StreamPlace, AfterOutcome, AfterDone, InOrder, InHand, streamVars
<1>8. CASE RecordOp(r) \/ Release(r) \/ Close(r)
  <2>1. /\ UNCHANGED <<status, streamVars>>
        /\ \/ pc[r] = "record" /\ pc'[r] \in {"done", "warn"}
           \/ pc[r] = "release" /\ pc'[r] = "close"
           \/ pc[r] = "close" /\ pc'[r] = "closed"
    BY <1>1, <1>8 DEF RecordOp, Release, Close, Go, CheckTypes
  <2> QED BY <1>2, <2>1
      DEF StreamFits, StreamPlace, AfterOutcome, AfterDone, InOrder, InHand, OutcomeLine, streamVars
<1> QED BY <1>2, <1>4, <1>5, <1>6, <1>7, <1>8 DEF Operation

LEMMA ForwardFits ==
  ASSUME IInv, NEW r \in Runs, StreamFits(r), Forwarder(r) \/ Disconnect(r)
  PROVE  StreamFits(r)' /\ \A q \in Runs : q # r => Still(q)
<1>1. CheckTypes /\ StreamTypes
  BY Types
<1>2. UNCHANGED <<pc, status, sent>>
  BY DEF Forwarder, Receive, Deliver, StopForwarding, Disconnect
<1>3. \A q \in Runs : q # r => Still(q)
  BY <1>1, <1>2 DEF Forwarder, Receive, Deliver, StopForwarding, Disconnect, Still, StreamTypes
<1>4. buf[r] \in Seq(Level) /\ got[r] \in Seq(Level) /\ sent[r] \in Seq(Level) /\ held[r] \in Level \cup {None}
  BY <1>1 DEF StreamTypes
<1>5. CASE Receive(r)
  <2>1. /\ fwd[r] = "receive" /\ buf[r] # <<>> /\ fwd'[r] = "send" /\ held'[r] = Head(buf[r])
        /\ buf'[r] = Tail(buf[r]) /\ connected'[r] = connected[r] /\ got'[r] = got[r] /\ held[r] = None
    BY <1>1, <1>5 DEF Receive, StreamTypes, StreamFits, StreamPlace
  <2>2. HandIsFull'
    BY IInv, <1>5, ForwardSteps DEF Forwarder, IInv
  <2>3. held'[r] # None
    BY <2>1, <2>2 DEF HandIsFull
  <2>4. InOrder(r) => InOrder(r)'
    <3>1. InHand(r) = <<>> /\ InHand(r)' = <<Head(buf[r])>>
      BY <2>1, <2>3 DEF InHand
    <3>2. (got[r] \o <<Head(buf[r])>>) \o Tail(buf[r]) = (got[r] \o <<>>) \o buf[r]
      BY <1>4, <2>1, QueueTakes
    <3> QED BY <1>2, <2>1, <3>1, <3>2, Zenon DEF InOrder
  <2> QED BY <1>2, <1>3, <2>1, <2>3, <2>4 DEF StreamFits, StreamPlace, OutcomeLine
<1>6. CASE Deliver(r)
  <2>1. /\ fwd[r] = "send" /\ fwd'[r] = "receive" /\ held[r] # None /\ held'[r] = None
        /\ got'[r] = Append(got[r], held[r]) /\ buf'[r] = buf[r] /\ connected'[r] = connected[r]
    BY <1>1, <1>6 DEF Deliver, StreamTypes, StreamFits, StreamPlace
  <2>2. InOrder(r) => InOrder(r)'
    <3>1. InHand(r) = <<held[r]>> /\ InHand(r)' = <<>> /\ held[r] \in Level
      BY <1>4, <2>1 DEF InHand
    <3>2. (Append(got[r], held[r]) \o <<>>) \o buf[r] = (got[r] \o <<held[r]>>) \o buf[r]
      BY <1>4, <3>1, QueueGives
    <3> QED BY <1>2, <2>1, <3>1, <3>2, Zenon DEF InOrder
  <2> QED BY <1>2, <1>3, <2>1, <2>2 DEF StreamFits, StreamPlace, OutcomeLine
<1>7. CASE StopForwarding(r)
  <2>1. /\ \/ fwd[r] = "receive" /\ buf[r] = <<>> /\ pc[r] = "closed"
           \/ fwd[r] = "send" /\ ~connected[r]
        /\ fwd'[r] = "stopped" /\ held'[r] = None /\ UNCHANGED <<buf, connected, got>>
    BY <1>1, <1>7 DEF StopForwarding, StreamTypes
  <2>2. connected[r] => held'[r] = held[r]
    BY <2>1 DEF StreamFits, StreamPlace
  <2>3. connected'[r] => InOrder(r)'
    BY <1>2, <2>1, <2>2 DEF StreamFits, InOrder, InHand
  <2> QED BY <1>2, <1>3, <2>1, <2>3 DEF StreamFits, StreamPlace, OutcomeLine
<1>8. CASE Disconnect(r)
  <2>1. connected'[r] = FALSE /\ UNCHANGED <<buf, fwd, held, got>>
    BY <1>1, <1>8 DEF Disconnect, StreamTypes
  <2> QED BY <1>2, <1>3, <2>1 DEF StreamFits, StreamPlace, OutcomeLine
<1> QED BY <1>5, <1>6, <1>7, <1>8 DEF Forwarder

\* A subscription that begins, is refused or is over has no stream.
LEMMA CheckFits ==
  ASSUME IInv, NEW r \in Runs, StreamFits(r), Preflight(r) \/ Ended(r)
  PROVE  StreamFits(r)' /\ \A q \in Runs : q # r => Still(q)
<1>1. CheckTypes /\ StreamTypes
  BY Types
<1>2. CASE GitlabClientFor(r)
  <2>1. \A q \in Runs : q # r => Still(q)
    BY <1>1, <1>2 DEF GitlabClientFor, Reject, Go, Still, CheckTypes, StreamTypes
  <2>2. pc[r] = "client" /\ fwd[r] = "off" /\ buf[r] = <<>> /\ held[r] = None /\ UNCHANGED <<status, buf, held>>
    BY <1>2 DEF GitlabClientFor, Reject, Go, StreamFits, StreamPlace
  <2>3. \/ pc'[r] = "start" /\ fwd'[r] = "receive" /\ sent'[r] = <<>> /\ got'[r] = <<>>
        \/ pc'[r] = "idle" /\ fwd'[r] = "off" /\ UNCHANGED <<sent, got>>
    BY <1>1, <1>2, <2>2 DEF GitlabClientFor, Reject, Go, CheckTypes, StreamTypes
  <2>4. fwd'[r] = "receive" => InOrder(r)'
    BY <2>2, <2>3, ConcatEmptySeq, EmptySeq DEF InOrder, InHand
  <2> QED BY <2>1, <2>2, <2>3, <2>4 DEF StreamFits, StreamPlace, AfterOutcome, AfterDone
<1>3. CASE OpenOpToken(r) \/ ResolveConfig(r) \/ TryBegin(r)
  <2>1. \A q \in Runs : q # r => Still(q)
    BY <1>1, <1>3 DEF OpenOpToken, ResolveConfig, TryBegin, Reject, Go, Still, CheckTypes, StreamTypes
  <2>2. /\ pc[r] \in {"idle", "resolve", "lock"} /\ pc'[r] \in {"idle", "resolve", "lock", "client"}
        /\ UNCHANGED <<status, buf, fwd, held, sent, got>>
    BY <1>1, <1>3 DEF OpenOpToken, ResolveConfig, TryBegin, Reject, Go, CheckTypes
  <2> QED BY <2>1, <2>2 DEF StreamFits, StreamPlace, AfterOutcome, AfterDone
<1>4. CASE Ended(r)
  <2>1. \A q \in Runs : q # r => Still(q)
    BY <1>1, <1>4 DEF Ended, Go, Still, CheckTypes, StreamTypes
  <2>2. /\ pc'[r] = "idle" /\ fwd'[r] = "off" /\ buf'[r] = <<>> /\ held'[r] = None
    BY <1>1, <1>4 DEF Ended, Go, CheckTypes, StreamTypes, StreamFits, StreamPlace
  <2> QED BY <2>1, <2>2 DEF StreamFits, StreamPlace, AfterOutcome, AfterDone
<1> QED BY <1>2, <1>3, <1>4 DEF Preflight

LEMMA NextFits == IInv /\ (\A r \in Runs : StreamFits(r)) /\ [Next]_vars => (\A r \in Runs : StreamFits(r))'
<1> SUFFICES ASSUME IInv, \A r \in Runs : StreamFits(r), [Next]_vars PROVE \A r \in Runs : StreamFits(r)'
  OBVIOUS
<1>1. CASE UNCHANGED vars \/ Tick \/ (\E k \in Keys : EditConfig(k) \/ PlanOp(k)) \/ (\E o \in Owners : ChangePAT(o))
  <2>1. \A q \in Runs : Still(q)
    BY <1>1 DEF vars, Tick, EditConfig, PlanOp, ChangePAT, streamVars, Still
  <2> QED BY <2>1, StillFits
<1>2. CASE Crash
  BY <1>2 DEF Crash, StreamFits, StreamPlace, AfterOutcome, AfterDone
<1>3. ASSUME NEW r \in Runs, Preflight(r) \/ Operation(r) \/ Forwarder(r) \/ Disconnect(r) \/ Ended(r)
      PROVE  \A q \in Runs : StreamFits(q)'
  <2>1. StreamFits(r)' /\ \A q \in Runs : q # r => Still(q)
    BY <1>3, OperationFits, ForwardFits, CheckFits
  <2> QED BY <2>1, OthersFit
<1> QED BY <1>1, <1>2, <1>3 DEF Next

LEMMA FitsIsEnough == ASSUME IInv, \A r \in Runs : StreamFits(r) PROVE StreamIsComplete
<1> SUFFICES ASSUME NEW r \in Runs, connected[r], fwd[r] # "off"
             PROVE  /\ got[r] \o InHand(r) \o buf[r] = sent[r]
                    /\ fwd[r] = "stopped" =>
                         /\ got[r] # <<>> /\ got[r][Len(got[r])] = "DONE"
                         /\ OutcomeLine(r) \in {got[r][i] : i \in 1..Len(got[r])}
  BY DEF StreamIsComplete
<1>1. /\ buf[r] \in Seq(Level) /\ got[r] \in Seq(Level) /\ sent[r] \in Seq(Level) /\ held[r] \in Level \cup {None}
      /\ Len(buf[r]) \in Nat /\ Len(got[r]) \in Nat /\ Len(sent[r]) \in Nat
  BY Types DEF StreamTypes
<1>2. InOrder(r) /\ StreamPlace(r)
  BY DEF StreamFits
<1>3. got[r] \o InHand(r) \o buf[r] = sent[r]
  BY <1>2 DEF InOrder
<1>4. CASE fwd[r] = "stopped"
  <2>1. held[r] = None /\ buf[r] = <<>> /\ pc[r] = "closed"
    BY <1>2, <1>4 DEF StreamPlace
  <2>2. InHand(r) = <<>> /\ (got[r] \o <<>>) \o <<>> = got[r]
    BY <1>1, <2>1, ConcatEmptySeq DEF InHand
  <2>3. got[r] = sent[r]
    BY <1>3, <2>1, <2>2
  <2>4. Len(got[r]) > 0 /\ got[r][Len(got[r])] = "DONE"
    BY <1>2, <2>1, <2>3 DEF StreamPlace, AfterDone
  <2>5. OutcomeLine(r) \in {got[r][i] : i \in 1..Len(got[r])}
    BY <1>2, <2>1, <2>3 DEF StreamPlace, AfterOutcome
  <2>6. got[r] # <<>>
    BY <2>4, EmptySeq
  <2> QED BY <1>3, <2>4, <2>5, <2>6
<1> QED BY <1>3, <1>4

\* A client that stays connected misses no line of its operation, in order, and
\* its stream ends with the outcome and DONE (op.resolvers.go, run_op.go), for a
\* channel of any size and however slowly it reads.
THEOREM NoLineIsLost == Spec => []StreamIsComplete
<1>1. Spec => [](\A r \in Runs : StreamFits(r))
  BY InitFits, NextFits, Invariance, PTL DEF Spec
<1>2. IInv /\ (\A r \in Runs : StreamFits(r)) => StreamIsComplete
  BY FitsIsEnough
<1> QED BY <1>1, <1>2, Invariance, PTL

----------------------------------------------------------------------------
(* Streams, the other kind of subscription: a stream ends with exactly one    *)
(* done event, and the semaphore of the overview counts and bounds the        *)
(* listings, for any number of assignments, slots and lines.                  *)

HIDE OpRunAssumption DEF Level, RunPc, HoldPc, EmitPc, PreflightPc

Holders == {a \in Assignments : work[a] \in {"list", "send", "release"}}

\* The part of the producers: EventsOK and where the goroutines are.
ProducerOK ==
  /\ kind \in {"report", "overview", "refused"} /\ left \in BOOLEAN
  /\ main \in {"fetch", "line", "wait", "done", "closed"} /\ produced \in 0..MaxProgress
  /\ work \in [Assignments -> {"start", "list", "send", "release", "end"}]
  /\ sem \in 0..RepoOverviewConcurrency /\ sem = Cardinality(Holders)
  /\ main = "line" => produced < MaxProgress
  /\ main # "wait" => \A a \in Assignments : work[a] = "end"

\* The part of the forwarder and the client.
StreamOK ==
  /\ forwarder \in {"recv", "send", "closed"} /\ inFlight \in Event \cup {NoEvent} /\ received \in Seq(Event)
  /\ (inFlight # NoEvent) = (forwarder = "send")
  /\ \A j \in DOMAIN received : received[j] = Done => j = Len(received) /\ inFlight = NoEvent
  /\ Done \in Got \cup {inFlight} => main = "closed"

LEMMA Parts == StreamsInv <=> ProducerOK /\ StreamOK
BY DEF StreamsInv, EventsOK, DoneIsLast, ProducerOK, StreamOK, Holders

LEMMA PartsAfter == ASSUME ProducerOK', StreamOK' PROVE StreamsInv'
BY DEF StreamsInv, EventsOK, DoneIsLast, ProducerOK, StreamOK, Holders

LEMMA InitStreams == ASSUME Subscribe PROVE StreamsInv
<1>1. Holders = {}
  BY DEF Subscribe, Holders
<1>2. Cardinality(Holders) = 0
  BY <1>1, FS_EmptySet
<1>3. ProducerOK
  <2>1. kind \in {"report", "overview", "refused"} /\ sem = 0 /\ produced = 0 /\ left = FALSE
    BY DEF Subscribe
  <2>2. main \in {"fetch", "wait", "done"} /\ (main # "wait" => kind # "overview")
    BY <2>1 DEF Subscribe
  <2>3. /\ work \in [Assignments -> {"start", "list", "send", "release", "end"}]
        /\ kind # "overview" => \A a \in Assignments : work[a] = "end"
    BY DEF Subscribe
  <2>4. sem \in 0..RepoOverviewConcurrency /\ produced \in 0..MaxProgress
    BY <2>1, StreamsAssumption
  <2>5. main # "wait" => \A a \in Assignments : work[a] = "end"
    BY <2>2, <2>3
  <2> QED BY <1>2, <2>1, <2>2, <2>3, <2>4, <2>5 DEF ProducerOK
<1>4. StreamOK
  BY StreamsAssumption DEF Subscribe, StreamOK, Got, Event, Done
<1> QED BY <1>3, <1>4, Parts

----------------------------------------------------------------------------
(* The forwarder *)

\* An event that is sent before the end, or is the end itself.
LEMMA Sent ==
  ASSUME StreamOK, NEW ev \in Event, SendEvent(ev), UNCHANGED received,
         main # "closed", ev = Done => main' = "closed"
  PROVE  StreamOK'
<1>1. Done \notin Got \cup {inFlight}
  BY DEF StreamOK
<1>2. CASE Handover(ev)
  <2>1. inFlight' = ev /\ forwarder' = "send" /\ Got' = Got
    BY <1>2 DEF Handover, Got
  <2>2. ev # NoEvent
    BY StreamsAssumption
  <2> QED BY <1>1, <2>1, <2>2 DEF StreamOK, Got
<1>3. CASE UNCHANGED <<inFlight, forwarder>>
  BY <1>1, <1>3 DEF StreamOK, Got
<1> QED BY <1>2, <1>3 DEF SendEvent

LEMMA EventsSame ==
  ASSUME StreamOK, UNCHANGED <<main, forwarder, inFlight, received>>
  PROVE  StreamOK'
BY DEF StreamOK, Got

LEMMA ProducerSame ==
  ASSUME ProducerOK, UNCHANGED <<kind, producer>>, left' \in BOOLEAN
  PROVE  ProducerOK'
BY DEF ProducerOK, producer, Holders

LEMMA ReadStep == ASSUME StreamsInv, Read PROVE StreamsInv'
<1>1. ProducerOK /\ StreamOK
  BY Parts
<1>2. inFlight \in Event /\ inFlight # NoEvent
  BY <1>1 DEF Read, StreamOK
<1>3. received' = Append(received, inFlight) /\ received \in Seq(Event) /\ inFlight' = NoEvent /\ forwarder' = "recv"
  BY <1>1 DEF Read, StreamOK
<1>4. \A j \in DOMAIN received : received[j] # Done
  BY <1>1, <1>2 DEF StreamOK
<1>5. /\ received' \in Seq(Event) /\ Len(received') = Len(received) + 1
      /\ \A j \in DOMAIN received' : j = Len(received) + 1 \/ (j \in DOMAIN received /\ received'[j] = received[j])
      /\ received'[Len(received) + 1] = inFlight
  BY <1>2, <1>3
<1>6. main' = main /\ UNCHANGED <<kind, producer>> /\ left' = left
  BY DEF Read, producer
<1>7. Done \in Got' => Done = inFlight
  BY <1>4, <1>5 DEF Got
<1>8. StreamOK'
  <2>1. \A j \in DOMAIN received' : received'[j] = Done => j = Len(received') /\ inFlight' = NoEvent
    BY <1>3, <1>4, <1>5
  <2>2. Done \in Got' \cup {inFlight'} => main' = "closed"
    BY <1>1, <1>3, <1>6, <1>7, StreamsAssumption DEF StreamOK, Event
  <2> QED BY <1>3, <1>5, <2>1, <2>2 DEF StreamOK
<1>9. ProducerOK'
  BY <1>1, <1>6, ProducerSame DEF ProducerOK
<1> QED BY <1>8, <1>9, PartsAfter

LEMMA EventSteps == ASSUME StreamsInv, Forward \/ Leave PROVE StreamsInv'
<1>1. ProducerOK /\ StreamOK
  BY Parts
<1>2. main' = main /\ UNCHANGED <<kind, producer>> /\ left' \in BOOLEAN /\ received' = received
  BY <1>1 DEF Forward, ForwardLeaves, ForwardEnds, Leave, producer, ProducerOK
<1>3. ProducerOK'
  BY <1>1, <1>2, ProducerSame
<1>4. StreamOK'
  <2>1. CASE ForwardLeaves
    BY <1>1, <1>2, <2>1, StreamsAssumption DEF ForwardLeaves, StreamOK, Got, Event
  <2>2. CASE ForwardEnds
    BY <1>1, <1>2, <2>2 DEF ForwardEnds, StreamOK, Got
  <2>3. CASE Leave
    BY <1>1, <1>2, <2>3 DEF Leave, StreamOK, Got
  <2> QED BY <2>1, <2>2, <2>3 DEF Forward
<1> QED BY <1>3, <1>4, PartsAfter

----------------------------------------------------------------------------
(* The goroutines *)

LEMMA MainStep == ASSUME StreamsInv, Main PROVE StreamsInv'
<1>1. ProducerOK /\ StreamOK
  BY Parts
<1>2. CASE Progress
  <2>1. ProducerOK' /\ StreamOK'
    BY <1>1, <1>2 DEF Progress, ProducerOK, StreamOK, Holders, Got
  <2> QED BY <2>1, PartsAfter
<1>3. CASE SendLine
  <2>1. produced + 1 \in Lines
    BY <1>1, <1>3, StreamsAssumption DEF SendLine, ProducerOK, Lines
  <2>2. Item(produced + 1) \in Event /\ Item(produced + 1) # Done
    BY <2>1 DEF Event, Item, Done
  <2>3. ProducerOK'
    BY <1>1, <1>3, <2>1 DEF SendLine, ProducerOK, Holders, Lines
  <2>4. StreamOK'
    BY <1>1, <1>3, <2>2, Sent DEF SendLine
  <2> QED BY <2>3, <2>4, PartsAfter
<1>4. CASE Fetched
  <2>1. ProducerOK' /\ StreamOK'
    BY <1>1, <1>4 DEF Fetched, ProducerOK, StreamOK, Holders, Got
  <2> QED BY <2>1, PartsAfter
<1>5. CASE AllListed
  <2>1. ProducerOK' /\ StreamOK'
    BY <1>1, <1>5 DEF AllListed, ProducerOK, StreamOK, Holders, Got
  <2> QED BY <2>1, PartsAfter
<1>6. CASE SendDone
  <2>1. ProducerOK'
    BY <1>1, <1>6 DEF SendDone, ProducerOK, Holders
  <2>2. StreamOK'
    BY <1>1, <1>6, Sent DEF SendDone, Event
  <2> QED BY <2>1, <2>2, PartsAfter
<1> QED BY <1>2, <1>3, <1>4, <1>5, <1>6 DEF Main

\* One assignment's goroutine moves, with its slot.
Moves(a, to) == work' = [work EXCEPT ![a] = to] /\ UNCHANGED <<kind, left, main, produced>>

LEMMA Slots ==
  ASSUME ProducerOK, NEW a \in Assignments, NEW to \in {"list", "send", "release", "end"},
         Moves(a, to), main = "wait",
         \/ work[a] \in {"list", "send"} /\ to # "end" /\ sem' = sem
         \/ work[a] = "start" /\ to = "list" /\ sem < RepoOverviewConcurrency /\ sem' = sem + 1
         \/ work[a] = "release" /\ to = "end" /\ sem' = sem - 1
  PROVE  ProducerOK'
<1>1. /\ work' \in [Assignments -> {"start", "list", "send", "release", "end"}]
      /\ work'[a] = to /\ \A b \in Assignments : b # a => work'[b] = work[b]
  BY DEF ProducerOK, Moves
<1>2. IsFiniteSet(Holders)
  BY FS_Subset, StreamsAssumption DEF Holders
<1>3. sem' \in 0..RepoOverviewConcurrency /\ sem' = Cardinality(Holders')
  <2>1. CASE work[a] \in {"list", "send"} /\ to # "end" /\ sem' = sem
    <3>1. Holders' = Holders
      BY <1>1, <2>1 DEF Holders
    <3> QED BY <2>1, <3>1 DEF ProducerOK
  <2>2. CASE work[a] = "start" /\ to = "list" /\ sem < RepoOverviewConcurrency /\ sem' = sem + 1
    <3>1. Holders' = Holders \cup {a} /\ a \notin Holders
      BY <1>1, <2>2 DEF Holders
    <3>2. Cardinality(Holders') = Cardinality(Holders) + 1
      BY <1>2, <3>1, FS_AddElement
    <3> QED BY <2>2, <3>2, StreamsAssumption DEF ProducerOK
  <2>3. CASE work[a] = "release" /\ to = "end" /\ sem' = sem - 1
    <3>1. Holders' = Holders \ {a} /\ a \in Holders
      BY <1>1, <2>3 DEF Holders
    <3>2. Cardinality(Holders') = Cardinality(Holders) - 1 /\ IsFiniteSet(Holders')
      BY <1>2, <3>1, FS_RemoveElement
    <3>3. Cardinality(Holders') \in Nat
      BY <3>2, FS_CardinalityType
    <3> QED BY <2>3, <3>2, <3>3, StreamsAssumption DEF ProducerOK
  <2> QED BY <2>1, <2>2, <2>3
<1> QED BY <1>1, <1>3 DEF ProducerOK, Moves

LEMMA WorkStep == ASSUME StreamsInv, NEW a \in Assignments, Work(a) PROVE StreamsInv'
<1>1. ProducerOK /\ StreamOK
  BY Parts
<1>2. main = "wait"
  BY <1>1 DEF Work, Acquire, Listed, SendItem, ReleaseSlot, ProducerOK
<1>3. CASE Acquire(a)
  <2>1. ProducerOK'
    BY <1>1, <1>2, <1>3, Slots DEF Acquire, Moves
  <2>2. StreamOK'
    BY <1>1, <1>3, EventsSame DEF Acquire
  <2> QED BY <2>1, <2>2, PartsAfter
<1>4. CASE Listed(a)
  <2>1. ProducerOK'
    BY <1>1, <1>2, <1>4, Slots DEF Listed, Moves
  <2>2. StreamOK'
    BY <1>1, <1>4, EventsSame DEF Listed
  <2> QED BY <2>1, <2>2, PartsAfter
<1>5. CASE SendItem(a)
  <2>1. ProducerOK'
    BY <1>1, <1>2, <1>5, Slots DEF SendItem, Moves
  <2>2. Item(a) \in Event /\ Item(a) # Done
    BY DEF Event, Item, Done
  <2>3. StreamOK'
    BY <1>1, <1>2, <1>5, <2>2, Sent DEF SendItem
  <2> QED BY <2>1, <2>3, PartsAfter
<1>6. CASE ReleaseSlot(a)
  <2>1. ProducerOK'
    BY <1>1, <1>2, <1>6, Slots DEF ReleaseSlot, Moves
  <2>2. StreamOK'
    BY <1>1, <1>6, EventsSame DEF ReleaseSlot
  <2> QED BY <2>1, <2>2, PartsAfter
<1> QED BY <1>3, <1>4, <1>5, <1>6 DEF Work

LEMMA NextStreams == ASSUME StreamsInv, [StreamStep]_streamsVars PROVE StreamsInv'
<1>1. CASE UNCHANGED streamsVars
  <2>1. ProducerOK /\ StreamOK
    BY Parts
  <2>2. ProducerOK' /\ StreamOK'
    BY <1>1, <2>1, ProducerSame, EventsSame DEF streamsVars, producer, ProducerOK
  <2> QED BY <2>2, PartsAfter
<1> QED BY <1>1, MainStep, WorkStep, ReadStep, EventSteps DEF StreamStep

\* The inductive invariant of the streams (report_stream.go, repos_overview.go).
THEOREM StreamsInvariance == Streaming => []StreamsInv
<1>1. Subscribe => StreamsInv
  BY InitStreams
<1>2. StreamsInv /\ [StreamStep]_streamsVars => StreamsInv'
  BY NextStreams
<1> QED BY <1>1, <1>2, PTL DEF Streaming

\* The events and the goroutines are as they may be, and no more listings run at
\* once than there are slots.
THEOREM StreamsTypeCorrect == Streaming => []EventsOK
<1>1. StreamsInv => EventsOK
  BY DEF StreamsInv
<1> QED BY <1>1, StreamsInvariance, PTL

\* "ending with exactly one done event" (report_stream.go), however many
\* goroutines send and whenever the client leaves.
THEOREM OneDoneEvent == Streaming => []DoneIsLast
<1>1. StreamsInv => DoneIsLast
  BY DEF StreamsInv
<1> QED BY <1>1, StreamsInvariance, PTL

----------------------------------------------------------------------------
(* What a client that stays gets: the events on their way, those received and  *)
(* the one the forwarder holds, are what was produced so far.                  *)

Count == Len(received) + (IF inFlight = NoEvent THEN 0 ELSE 1)
At(j) == IF j <= Len(received) THEN received[j] ELSE inFlight
OnTheWay == Got \cup (IF inFlight = NoEvent THEN {} ELSE {inFlight})
Ends == IF main = "closed" THEN 1 ELSE 0
Out == {a \in Assignments : work[a] \in {"release", "end"}}

\* Which goroutines a stream of each kind has.
KindOK ==
  /\ kind = "report" => main # "wait"
  /\ kind = "refused" => main \in {"done", "closed"} /\ produced = 0
  /\ kind = "overview" => main \in {"wait", "done", "closed"}
  /\ kind # "overview" => main # "wait"

LinesOnTheWay ==
  Count = produced + Ends /\ \A j \in 1..Count : At(j) = (IF j <= produced THEN Item(j) ELSE Done)

ItemsOnTheWay ==
  /\ OnTheWay = {Item(a) : a \in Out} \cup (IF main = "closed" THEN {Done} ELSE {})
  /\ Count = Cardinality(Out) + Ends

Complete ==
  /\ KindOK
  /\ ~left => IF kind = "overview" THEN ItemsOnTheWay ELSE LinesOnTheWay

LEMMA InitComplete == Subscribe => Complete
<1> SUFFICES ASSUME Subscribe PROVE Complete
  OBVIOUS
<1>1. received = <<>> /\ inFlight = NoEvent /\ produced = 0 /\ kind \in {"report", "overview", "refused"}
  BY DEF Subscribe
<1>2. main = (IF kind = "report" THEN "fetch" ELSE IF kind = "overview" THEN "wait" ELSE "done")
  BY <1>1 DEF Subscribe
<1>3. Count = 0 /\ OnTheWay = {} /\ Ends = 0
  BY <1>1, <1>2 DEF Count, OnTheWay, Got, Ends
<1>4. kind = "overview" => Out = {}
  BY DEF Subscribe, Out
<1>5. Cardinality({}) = 0
  BY FS_EmptySet
<1>6. kind = "overview" => ItemsOnTheWay
  BY <1>2, <1>3, <1>4, <1>5 DEF ItemsOnTheWay
<1>7. kind # "overview" => LinesOnTheWay
  BY <1>1, <1>3 DEF LinesOnTheWay
<1> QED BY <1>1, <1>2, <1>6, <1>7 DEF Complete, KindOK

\* A handover puts its event at the end.
LEMMA HandoverAdds ==
  ASSUME StreamOK, NEW ev \in Event, Handover(ev), received' = received
  PROVE  /\ Count \in Nat /\ Count' = Count + 1
         /\ \A j \in 1..(Count + 1) : At(j)' = (IF j <= Count THEN At(j) ELSE ev)
         /\ OnTheWay' = OnTheWay \cup {ev}
<1>1. inFlight = NoEvent /\ inFlight' = ev /\ ev # NoEvent /\ Len(received) \in Nat
  BY StreamsAssumption DEF Handover, StreamOK
<1>2. Count = Len(received) /\ Count' = Len(received) + 1
  BY <1>1 DEF Count
<1>3. OnTheWay' = OnTheWay \cup {ev}
  BY <1>1 DEF OnTheWay, Got
<1> QED BY <1>1, <1>2, <1>3 DEF At

\* Reading changes nothing about what is on the way.
LEMMA ReadKeeps ==
  ASSUME StreamOK, Read
  PROVE  /\ Count \in Nat /\ Count' = Count /\ OnTheWay' = OnTheWay
         /\ \A j \in 1..Count : At(j)' = At(j)
<1>1. inFlight \in Event /\ inFlight # NoEvent /\ received' = Append(received, inFlight) /\ inFlight' = NoEvent
  BY DEF Read, StreamOK
<1>2. received \in Seq(Event) /\ Len(received) \in Nat
  BY DEF StreamOK
<1>3. /\ Len(received') = Len(received) + 1 /\ received'[Len(received) + 1] = inFlight
      /\ \A j \in 1..Len(received) : received'[j] = received[j]
  BY <1>1, <1>2
<1>4. Count = Len(received) + 1 /\ Count' = Len(received) + 1
  BY <1>1, <1>3 DEF Count
<1>5. \A j \in 1..Count : At(j)' = At(j)
  BY <1>2, <1>3, <1>4 DEF At
<1>6. Got' = Got \cup {inFlight}
  BY <1>1, <1>2, <1>3 DEF Got
<1> QED BY <1>1, <1>2, <1>4, <1>5, <1>6 DEF OnTheWay

\* The steps that neither send nor end anything.
LEMMA CompleteSame ==
  ASSUME StreamsInv, Complete, UNCHANGED <<kind, produced, received, inFlight>>, left' = left \/ left',
         main' = main \/ (main # "closed" /\ main' # "closed"), KindOK', Out' = Out
  PROVE  Complete'
<1>1. Count' = Count /\ OnTheWay' = OnTheWay /\ \A j \in 1..Count : At(j)' = At(j)
  BY DEF Count, OnTheWay, Got, At
<1>2. Ends' = Ends /\ (main' = "closed") = (main = "closed")
  BY DEF Ends
<1>3. ~left' => ~left
  OBVIOUS
<1>4. ItemsOnTheWay => ItemsOnTheWay'
  BY <1>1, <1>2 DEF ItemsOnTheWay
<1>5. LinesOnTheWay => LinesOnTheWay'
  BY <1>1, <1>2 DEF LinesOnTheWay
<1> QED BY <1>3, <1>4, <1>5 DEF Complete

LEMMA CompleteStep ==
  ASSUME StreamsInv, Complete, [StreamStep]_streamsVars
  PROVE  Complete'
<1>0. ProducerOK /\ StreamOK
  BY Parts
<1>1. CASE UNCHANGED streamsVars
  BY <1>1, CompleteSame DEF streamsVars, Out, KindOK, Complete
<1>2. CASE Progress \/ Fetched
  BY <1>0, <1>2, CompleteSame DEF Progress, Fetched, Out, KindOK, Complete, ProducerOK
<1>3. CASE AllListed
  BY <1>0, <1>3, CompleteSame DEF AllListed, Out, KindOK, Complete, ProducerOK
<1>4. CASE SendLine
  <2>1. KindOK' /\ kind = "report" /\ kind' = kind
    BY <1>0, <1>4 DEF SendLine, KindOK, Complete, ProducerOK
  <2>2. SUFFICES ASSUME ~left' PROVE LinesOnTheWay'
    BY <2>1, <2>2 DEF Complete
  <2>3. ~left /\ LinesOnTheWay /\ Handover(Item(produced + 1)) /\ produced' = produced + 1 /\ Ends = 0 /\ Ends' = 0
    BY <1>4, <2>1, <2>2 DEF SendLine, SendEvent, Complete, Ends
  <2>4. produced \in Nat /\ produced + 1 \in Lines
    BY <1>0, <1>4, StreamsAssumption DEF SendLine, ProducerOK, Lines
  <2>5. Item(produced + 1) \in Event /\ received' = received
    BY <1>4, <2>4 DEF Event, SendLine
  <2>6. /\ Count \in Nat /\ Count' = Count + 1
        /\ \A j \in 1..(Count + 1) : At(j)' = (IF j <= Count THEN At(j) ELSE Item(produced + 1))
    BY <1>0, <2>3, <2>5, HandoverAdds
  <2>7. Count = produced /\ Count' = produced' + Ends'
    BY <2>3, <2>4, <2>6 DEF LinesOnTheWay
  <2>8. \A j \in 1..(Count + 1) : At(j)' = (IF j <= produced' THEN Item(j) ELSE Done)
    BY <2>3, <2>4, <2>6, <2>7 DEF LinesOnTheWay
  <2> QED BY <2>6, <2>7, <2>8 DEF LinesOnTheWay
<1>5. CASE SendDone
  <2>1. KindOK' /\ kind' = kind /\ UNCHANGED <<produced, work, received>> /\ Ends = 0 /\ Ends' = 1
        /\ main # "closed" /\ main' = "closed"
    BY <1>5 DEF SendDone, KindOK, Complete, Ends
  <2>2. SUFFICES ASSUME ~left' PROVE IF kind = "overview" THEN ItemsOnTheWay' ELSE LinesOnTheWay'
    BY <2>1, <2>2 DEF Complete
  <2>3. ~left /\ Handover(Done) /\ Done \in Event
    BY <1>5, <2>2 DEF SendDone, SendEvent, Event
  <2>4. /\ Count \in Nat /\ Count' = Count + 1 /\ OnTheWay' = OnTheWay \cup {Done}
        /\ \A j \in 1..(Count + 1) : At(j)' = (IF j <= Count THEN At(j) ELSE Done)
    BY <1>0, <2>1, <2>3, HandoverAdds
  <2>5. CASE kind = "overview"
    <3>1. ItemsOnTheWay /\ Out' = Out
      BY <2>1, <2>3, <2>5 DEF Complete, Out
    <3>2. {Item(a) : a \in Out'} = {Item(a) : a \in Out} /\ Cardinality(Out') = Cardinality(Out)
      BY <3>1
    <3>3. Cardinality(Out) \in Nat
      BY FS_Subset, FS_CardinalityType, StreamsAssumption DEF Out
    <3>4. OnTheWay' = {Item(a) : a \in Out} \cup {Done}
      BY <2>1, <2>4, <3>1 DEF ItemsOnTheWay
    <3>5. Count' = Cardinality(Out) + Ends'
      BY <2>1, <2>4, <3>1, <3>3 DEF ItemsOnTheWay
    <3>6. ItemsOnTheWay'
      BY <2>1, <3>2, <3>4, <3>5 DEF ItemsOnTheWay
    <3> QED BY <2>5, <3>6
  <2>6. CASE kind # "overview"
    <3>1. LinesOnTheWay /\ produced \in Nat
      BY <1>0, <2>1, <2>3, <2>6, StreamsAssumption DEF Complete, ProducerOK
    <3>2. Count = produced /\ Count' = produced' + Ends' /\ produced' = produced
      BY <2>1, <2>4, <3>1 DEF LinesOnTheWay
    <3>3. \A j \in 1..(Count + 1) : At(j)' = (IF j <= produced' THEN Item(j) ELSE Done)
      BY <2>4, <3>1, <3>2 DEF LinesOnTheWay
    <3>4. LinesOnTheWay'
      BY <2>4, <3>2, <3>3 DEF LinesOnTheWay
    <3> QED BY <2>6, <3>4
  <2> QED BY <2>5, <2>6
<1>6. ASSUME NEW a \in Assignments, Acquire(a) \/ Listed(a) \/ ReleaseSlot(a) PROVE Complete'
  <2>1. Out' = Out
    BY <1>0, <1>6 DEF Acquire, Listed, ReleaseSlot, Out, ProducerOK
  <2> QED BY <1>6, <2>1, CompleteSame DEF Acquire, Listed, ReleaseSlot, KindOK, Complete
<1>7. ASSUME NEW a \in Assignments, SendItem(a) PROVE Complete'
  <2>1. KindOK' /\ kind = "overview" /\ kind' = kind /\ main = "wait" /\ main' = main /\ received' = received
    BY <1>0, <1>7 DEF SendItem, KindOK, Complete, ProducerOK
  <2>2. SUFFICES ASSUME ~left' PROVE ItemsOnTheWay'
    BY <2>1, <2>2 DEF Complete
  <2>3. ~left /\ ItemsOnTheWay /\ Handover(Item(a)) /\ Item(a) \in Event
    BY <1>7, <2>1, <2>2 DEF SendItem, SendEvent, Complete, Event
  <2>4. Count \in Nat /\ Count' = Count + 1 /\ OnTheWay' = OnTheWay \cup {Item(a)}
    BY <1>0, <2>1, <2>3, HandoverAdds
  <2>5. Out' = Out \cup {a} /\ a \notin Out
    BY <1>0, <1>7 DEF SendItem, Out, ProducerOK
  <2>6. IsFiniteSet(Out)
    BY FS_Subset, StreamsAssumption DEF Out
  <2>7. Cardinality(Out') = Cardinality(Out) + 1 /\ Cardinality(Out) \in Nat
    BY <2>5, <2>6, FS_AddElement, FS_CardinalityType
  <2> QED BY <2>1, <2>3, <2>4, <2>5, <2>7 DEF ItemsOnTheWay, Ends
<1>8. CASE Read
  <2>1. KindOK' /\ UNCHANGED <<kind, left, main, produced, work>>
    BY <1>8 DEF Read, producer, KindOK, Complete
  <2>2. /\ Count' = Count /\ OnTheWay' = OnTheWay /\ \A j \in 1..Count : At(j)' = At(j)
        /\ Ends' = Ends /\ Out' = Out
    BY <1>0, <1>8, <2>1, ReadKeeps DEF Ends, Out
  <2>3. (ItemsOnTheWay => ItemsOnTheWay') /\ (LinesOnTheWay => LinesOnTheWay')
    BY <2>1, <2>2 DEF ItemsOnTheWay, LinesOnTheWay
  <2> QED BY <2>1, <2>3 DEF Complete
<1>9. CASE ForwardLeaves
  BY <1>9 DEF ForwardLeaves, Complete, KindOK, producer
<1>10. CASE ForwardEnds \/ Leave
  BY <1>10, CompleteSame DEF ForwardEnds, Leave, Out, KindOK, Complete, producer
<1> QED BY <1>1, <1>2, <1>3, <1>4, <1>5, <1>6, <1>7, <1>8, <1>9, <1>10 DEF StreamStep, Main, Work, Forward

LEMMA CompleteIsEnough == ASSUME StreamsInv, Complete PROVE DoneMeansAll
<1> SUFFICES ASSUME Done \in Got, ~left
             PROVE  /\ kind = "report" => received = [j \in 1..(produced + 1) |->
                                                              IF j <= produced THEN Item(j) ELSE Done]
                    /\ kind = "overview" => /\ Got = {Item(a) : a \in Assignments} \cup {Done}
                                            /\ Len(received) = Cardinality(Assignments) + 1
                    /\ kind = "refused" => received = <<Done>>
  BY DEF DoneMeansAll
<1>0. ProducerOK /\ StreamOK
  BY Parts
<1>1. main = "closed" /\ inFlight = NoEvent /\ received \in Seq(Event) /\ Len(received) \in Nat
  BY <1>0 DEF StreamOK, Got
<1>2. Count = Len(received) /\ OnTheWay = Got /\ Ends = 1 /\ produced \in Nat
  BY <1>0, <1>1, StreamsAssumption DEF Count, OnTheWay, Ends, ProducerOK
<1>3. Out = Assignments
  BY <1>0, <1>1 DEF Out, ProducerOK
<1>4. CASE kind = "overview"
  BY <1>1, <1>2, <1>3, <1>4 DEF Complete, ItemsOnTheWay
<1>5. CASE kind # "overview"
  <2>1. /\ Len(received) = produced + 1
        /\ \A j \in 1..(produced + 1) : received[j] = (IF j <= produced THEN Item(j) ELSE Done)
    BY <1>1, <1>2, <1>5 DEF Complete, LinesOnTheWay, At
  <2>2. received = [j \in 1..(produced + 1) |-> IF j <= produced THEN Item(j) ELSE Done]
    BY <1>1, <2>1
  <2>3. kind = "refused" => received = <<Done>>
    <3>1. kind = "refused" => produced = 0
      BY DEF Complete, KindOK
    <3> QED BY <1>1, <2>1, <3>1
  <2> QED BY <1>5, <2>2, <2>3
<1> QED BY <1>4, <1>5

\* A client that stays has every line, in its order, or every assignment once,
\* when the done event comes, and that is the last one (report_stream.go,
\* repos_overview.go).
THEOREM NothingIsMissing == Streaming => []DoneIsHonest
<1>1. StreamsInv /\ Complete => DoneIsHonest
  BY CompleteIsEnough DEF StreamsInv, DoneIsHonest
<1>2. Streaming => []Complete
  <2>1. StreamsInv /\ Complete /\ [StreamStep]_streamsVars => Complete'
    BY CompleteStep
  <2> QED BY <2>1, InitComplete, StreamsInvariance, PTL DEF Streaming
<1> QED BY <1>1, <1>2, StreamsInvariance, PTL
=============================================================================
