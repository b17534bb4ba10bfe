------------------------------- MODULE OpRun -------------------------------
(***************************************************************************)
(* Interactive operations: the confirm token of web/app/op_plan.go, RunOp   *)
(* with its pre-flight checks and its detached goroutine                    *)
(* (web/app/run_op.go), the per-assignment guard (web/app/exclusive.go) and *)
(* the forwarder of the subscription (web/graph/op.resolvers.go).  Each     *)
(* statement against the database, each critical section and each channel   *)
(* operation is one step.  The guard is for these operations only: the      *)
(* scheduled runner (JobRunner) does not ask it.                            *)
(***************************************************************************)
EXTENDS Integers, Sequences, FiniteSets

CONSTANTS
  Keys,            \* (owner, course, assignment)
  Owners,
  OwnerOf,         \* OwnerOf[k]: the owner in k
  Runs,            \* runOp subscriptions at the same time
  UserOf,          \* UserOf[r]: who opens r
  Versions,        \* resolved configurations, told apart by hash
  SeederVersions,  \* those that configure a seeder
  Destructive,     \* which kinds of operation are planned
  TTL,             \* opTokenTTL
  Cap,             \* capacity of the events channel
  MaxLines,        \* bound: progress lines of one operation
  MaxPlans,        \* bound: the plans a client holds
  MaxTime,         \* bound: the clock stops here
  Env,             \* bound: what may happen around the operations
  None

Level == {"INFO", "PROGRESS", "ERROR", "RESULT", "WARN", "DONE"}

ASSUME OpRunAssumption ==
  /\ OwnerOf \in [Keys -> Owners] /\ UserOf \in [Runs -> Owners]
  /\ SeederVersions \subseteq Versions /\ Destructive \subseteq BOOLEAN
  /\ TTL \in Nat /\ Cap \in Nat \ {0} /\ MaxLines \in Nat /\ MaxPlans \in Nat /\ MaxTime \in Nat
  /\ Env \subseteq {"crash", "db", "edit", "pat"}
  /\ None \notin Versions /\ None \notin Level

VARIABLES
  now,
  config, pat,       \* what a key resolves to, whether an owner has a GitLab token
  issued,            \* the plan tokens clients hold; they can be used again
  busy,              \* opGuard.busy
  pc, tok, phrase, opened, cfg, status, lines,  \* of RunOp and its goroutine
  buf,               \* the events channel
  fwd, held,         \* the forwarder and the line in its hand
  connected,         \* the subscription's context is not done
  sent, got          \* history: the lines emitted, the lines the client received

envVars    == <<now, config, pat, issued>>
streamVars == <<buf, fwd, held, connected, sent, got>>
checkVars  == <<tok, phrase, opened, cfg>>
vars == <<envVars, busy, pc, checkVars, status, lines, streamVars>>

Token == [owner : Owners, key : Keys, destructive : BOOLEAN, hash : Versions, exp : Nat]

PreflightPc == {"resolve", "lock"}
EmitPc      == {"start", "exec", "outcome", "record", "warn", "done"}
HoldPc      == {"client", "release"} \cup EmitPc
RunPc       == {"idle", "close", "closed"} \cup PreflightPc \cup HoldPc

KeyOf(r) == tok[r].key
Go(r, from, to) == pc[r] = from /\ pc' = [pc EXCEPT ![r] = to]

----------------------------------------------------------------------------
(* Owners, time, planning *)

Tick ==
  /\ now < MaxTime
  /\ now' = now + 1
  /\ UNCHANGED <<config, pat, issued, busy, pc, checkVars, status, lines, streamVars>>

EditConfig(k) ==
  /\ "edit" \in Env
  /\ config' \in {[config EXCEPT ![k] = v] : v \in Versions \cup {None}}
  /\ UNCHANGED <<now, pat, issued, busy, pc, checkVars, status, lines, streamVars>>

ChangePAT(o) ==
  /\ "pat" \in Env
  /\ pat' = [pat EXCEPT ![o] = ~@]
  /\ UNCHANGED <<now, config, issued, busy, pc, checkVars, status, lines, streamVars>>

PlanOp(k) ==
  /\ config[k] # None /\ Cardinality(issued) < MaxPlans
  /\ \E d \in Destructive :
       issued' = issued \cup {[owner |-> OwnerOf[k], key |-> k, destructive |-> d,
                               hash |-> config[k], exp |-> now + TTL]}
  /\ UNCHANGED <<now, config, pat, busy, pc, checkVars, status, lines, streamVars>>

----------------------------------------------------------------------------
(* RunOp up to the start of the goroutine.  A check that fails is an error to
   the client, and the subscription is over. *)

Forget(r) ==
  /\ tok'    = [tok EXCEPT ![r] = None]
  /\ phrase' = [phrase EXCEPT ![r] = FALSE]
  /\ opened' = [opened EXCEPT ![r] = 0]
  /\ cfg'    = [cfg EXCEPT ![r] = None]

Reject(r, from) ==
  /\ Go(r, from, "idle")
  /\ Forget(r)
  /\ connected' = [connected EXCEPT ![r] = FALSE]

Accepts(r, t) == t.owner = UserOf[r] /\ now <= t.exp

OpenOpToken(r) ==
  /\ Go(r, "idle", "resolve")
  /\ \E t \in issued, p \in BOOLEAN :
       /\ Accepts(r, t)
       /\ tok'    = [tok EXCEPT ![r] = t]
       /\ phrase' = [phrase EXCEPT ![r] = p]
  /\ opened'    = [opened EXCEPT ![r] = now]
  /\ connected' = [connected EXCEPT ![r] = TRUE]
  /\ UNCHANGED <<envVars, busy, cfg, status, lines, buf, fwd, held, sent, got>>

\* Mutant: the phrase is asked for every operation but the destructive ones.
MayRunWithoutPhrase(r, v) == v = tok[r].hash /\ v \notin SeederVersions
\* The re-resolved configuration v passes the checks.
MayRun(r, v) ==
  /\ v = tok[r].hash
  /\ v \notin SeederVersions
  /\ tok[r].destructive => phrase[r]

ResolveConfig(r) ==
  /\ pc[r] = "resolve"
  /\ \/ /\ MayRun(r, config[KeyOf(r)])
        /\ Go(r, "resolve", "lock")
        /\ cfg' = [cfg EXCEPT ![r] = config[KeyOf(r)]]
        /\ UNCHANGED <<tok, phrase, opened, connected>>
     \/ /\ ~MayRun(r, config[KeyOf(r)]) \/ "db" \in Env \/ ~connected[r]
        /\ Reject(r, "resolve")
  /\ UNCHANGED <<envVars, busy, status, lines, buf, fwd, held, sent, got>>

Free(k) == k \notin busy

TryBegin(r) ==
  /\ pc[r] = "lock"
  /\ \/ /\ Free(KeyOf(r))
        /\ Go(r, "lock", "client")
        /\ busy' = busy \cup {KeyOf(r)}
        /\ UNCHANGED <<checkVars, connected>>
     \/ /\ ~Free(KeyOf(r))
        /\ Reject(r, "lock")
        /\ UNCHANGED busy
  /\ UNCHANGED <<envVars, status, lines, buf, fwd, held, sent, got>>

\* Mutant: the slot stays taken when there is no client.
KeepOnError(r) == busy
ReleaseOnError(r) == busy \ {KeyOf(r)}

\* With a client the goroutine and the forwarder start.
GitlabClientFor(r) ==
  /\ pc[r] = "client"
  /\ \/ /\ pat[UserOf[r]]
        /\ Go(r, "client", "start")
        /\ fwd'  = [fwd EXCEPT ![r] = "receive"]
        /\ sent' = [sent EXCEPT ![r] = <<>>]
        /\ got'  = [got EXCEPT ![r] = <<>>]
        /\ UNCHANGED <<busy, checkVars, connected>>
     \/ /\ ~pat[UserOf[r]] \/ "db" \in Env
        /\ busy' = ReleaseOnError(r)
        /\ Reject(r, "client")
        /\ UNCHANGED <<fwd, sent, got>>
  /\ UNCHANGED <<envVars, status, lines, buf, held>>

----------------------------------------------------------------------------
(* The goroutine: executeOp and the lines it reports *)

\* Mutants: the send blocks, or gives up, without asking the context.
SendOrBlock(r, l) == Len(buf[r]) < Cap /\ buf' = [buf EXCEPT ![r] = Append(@, l)]
SendOrDrop(r, l) ==
  \/ Len(buf[r]) < Cap /\ buf' = [buf EXCEPT ![r] = Append(@, l)]
  \/ Len(buf[r]) = Cap /\ UNCHANGED buf
\* select between the send and ctx.Done(), either one when both are ready
Send(r, l) ==
  \/ Len(buf[r]) < Cap /\ buf' = [buf EXCEPT ![r] = Append(@, l)]
  \/ ~connected[r] /\ UNCHANGED buf

Emit(r, l) ==
  /\ Send(r, l)
  /\ sent' = [sent EXCEPT ![r] = Append(@, l)]
  /\ UNCHANGED <<fwd, held, connected, got>>

Start(r) ==
  /\ Go(r, "start", "exec")
  /\ Emit(r, "INFO")
  /\ UNCHANGED <<envVars, busy, checkVars, status, lines>>

\* A line of the GitLab client's progress.
Report(r) ==
  /\ pc[r] = "exec"
  /\ lines[r] < MaxLines
  /\ lines' = [lines EXCEPT ![r] = @ + 1]
  /\ Emit(r, "PROGRESS")
  /\ UNCHANGED <<envVars, busy, pc, checkVars, status>>

OpReturns(r) ==
  /\ Go(r, "exec", "outcome")
  /\ \E s \in {"done", "failed"} : status' = [status EXCEPT ![r] = s]
  /\ UNCHANGED <<envVars, busy, checkVars, lines, streamVars>>

OutcomeLine(r) == IF status[r] = "failed" THEN "ERROR" ELSE "RESULT"

EmitOutcome(r) ==
  /\ Go(r, "outcome", "record")
  /\ Emit(r, OutcomeLine(r))
  /\ UNCHANGED <<envVars, busy, checkVars, status, lines>>

\* recordOp and recordEvent; only the activity log's failure is told.
RecordOp(r) ==
  /\ \/ Go(r, "record", "done")
     \/ "db" \in Env /\ Go(r, "record", "warn")
  /\ UNCHANGED <<envVars, busy, checkVars, status, lines, streamVars>>

Warn(r) ==
  /\ Go(r, "warn", "done")
  /\ Emit(r, "WARN")
  /\ UNCHANGED <<envVars, busy, checkVars, status, lines>>

EmitDone(r) ==
  /\ Go(r, "done", "release")
  /\ Emit(r, "DONE")
  /\ UNCHANGED <<envVars, busy, checkVars, status, lines>>

\* The deferred calls, last one first.
Release(r) ==
  /\ Go(r, "release", "close")
  /\ busy' = busy \ {KeyOf(r)}
  /\ UNCHANGED <<envVars, checkVars, status, lines, streamVars>>

Close(r) ==
  /\ Go(r, "close", "closed")
  /\ UNCHANGED <<envVars, busy, checkVars, status, lines, streamVars>>

----------------------------------------------------------------------------
(* The forwarder and the client *)

Receive(r) ==
  /\ fwd[r] = "receive" /\ buf[r] # <<>>
  /\ fwd'  = [fwd EXCEPT ![r] = "send"]
  /\ held' = [held EXCEPT ![r] = Head(buf[r])]
  /\ buf'  = [buf EXCEPT ![r] = Tail(@)]
  /\ UNCHANGED <<envVars, busy, pc, checkVars, status, lines, connected, sent, got>>

Deliver(r) ==
  /\ fwd[r] = "send" /\ connected[r]
  /\ fwd'  = [fwd EXCEPT ![r] = "receive"]
  /\ got'  = [got EXCEPT ![r] = Append(@, held[r])]
  /\ held' = [held EXCEPT ![r] = None]
  /\ UNCHANGED <<envVars, busy, pc, checkVars, status, lines, buf, connected, sent>>

\* The range ends: the channel is closed and empty, or the client is gone.
StopForwarding(r) ==
  /\ \/ fwd[r] = "receive" /\ buf[r] = <<>> /\ pc[r] = "closed"
     \/ fwd[r] = "send" /\ ~connected[r]
  /\ fwd'  = [fwd EXCEPT ![r] = "stopped"]
  /\ held' = [held EXCEPT ![r] = None]
  /\ UNCHANGED <<envVars, busy, pc, checkVars, status, lines, buf, connected, sent, got>>

Disconnect(r) ==
  /\ connected[r]
  /\ connected' = [connected EXCEPT ![r] = FALSE]
  /\ UNCHANGED <<envVars, busy, pc, checkVars, status, lines, buf, fwd, held, sent, got>>

\* Both goroutines are gone; r stands for another subscription from now on.
Ended(r) ==
  /\ Go(r, "closed", "idle") /\ fwd[r] = "stopped"
  /\ Forget(r)
  /\ status' = [status EXCEPT ![r] = None]
  /\ lines' = [lines EXCEPT ![r] = 0]
  /\ buf'   = [buf EXCEPT ![r] = <<>>]
  /\ fwd'   = [fwd EXCEPT ![r] = "off"]
  /\ connected' = [connected EXCEPT ![r] = FALSE]
  /\ sent'  = [sent EXCEPT ![r] = <<>>]
  /\ got'   = [got EXCEPT ![r] = <<>>]
  /\ UNCHANGED <<envVars, busy, held>>

\* The process ends; an operation that panics takes it down as well.
Crash ==
  /\ "crash" \in Env
  /\ busy' = {}
  /\ pc' = [r \in Runs |-> "idle"]
  /\ tok' = [r \in Runs |-> None] /\ cfg' = [r \in Runs |-> None]
  /\ status' = [r \in Runs |-> None] /\ lines' = [r \in Runs |-> 0]
  /\ buf' = [r \in Runs |-> <<>>] /\ fwd' = [r \in Runs |-> "off"]
  /\ held' = [r \in Runs |-> None] /\ connected' = [r \in Runs |-> FALSE]
  /\ sent' = [r \in Runs |-> <<>>] /\ got' = [r \in Runs |-> <<>>]
  /\ phrase' = [r \in Runs |-> FALSE] /\ opened' = [r \in Runs |-> 0]
  /\ UNCHANGED envVars

----------------------------------------------------------------------------

Init ==
  /\ now = 0
  /\ config \in [Keys -> Versions]
  /\ pat = [o \in Owners |-> TRUE]
  /\ issued = {}
  /\ busy = {}
  /\ pc = [r \in Runs |-> "idle"]
  /\ tok = [r \in Runs |-> None]
  /\ phrase = [r \in Runs |-> FALSE]
  /\ opened = [r \in Runs |-> 0]
  /\ cfg = [r \in Runs |-> None]
  /\ status = [r \in Runs |-> None]
  /\ lines = [r \in Runs |-> 0]
  /\ buf = [r \in Runs |-> <<>>]
  /\ fwd = [r \in Runs |-> "off"]
  /\ held = [r \in Runs |-> None]
  /\ connected = [r \in Runs |-> FALSE]
  /\ sent = [r \in Runs |-> <<>>]
  /\ got = [r \in Runs |-> <<>>]

Preflight(r) == OpenOpToken(r) \/ ResolveConfig(r) \/ TryBegin(r) \/ GitlabClientFor(r)
Operation(r) ==
  \/ Start(r) \/ Report(r) \/ OpReturns(r) \/ EmitOutcome(r) \/ RecordOp(r)
  \/ Warn(r) \/ EmitDone(r) \/ Release(r) \/ Close(r)
Forwarder(r) == Receive(r) \/ Deliver(r) \/ StopForwarding(r)

Next ==
  \/ Tick \/ Crash
  \/ \E k \in Keys : EditConfig(k) \/ PlanOp(k)
  \/ \E o \in Owners : ChangePAT(o)
  \/ \E r \in Runs : Preflight(r) \/ Operation(r) \/ Forwarder(r) \/ Disconnect(r) \/ Ended(r)

Spec == Init /\ [][Next]_vars

(***************************************************************************)
(* Fairness.  A goroutine that can run does, an operation on GitLab         *)
(* returns, and a client that stays connected reads.                        *)
(***************************************************************************)
Fairness == \A r \in Runs :
  /\ WF_vars(Preflight(r) /\ pc[r] # "idle")
  /\ WF_vars(Operation(r))
  /\ WF_vars(Forwarder(r))

FairSpec == Spec /\ Fairness

----------------------------------------------------------------------------
(* Correctness *)

\* Type invariant: what RunOp's locals, the guard and the channels hold.
TypeOK ==
  /\ now \in Nat
  /\ config \in [Keys -> Versions \cup {None}]
  /\ pat \in [Owners -> BOOLEAN]
  /\ issued \subseteq Token
  /\ busy \subseteq Keys
  /\ pc \in [Runs -> RunPc]
  /\ tok \in [Runs -> Token \cup {None}]
  /\ phrase \in [Runs -> BOOLEAN]
  /\ opened \in [Runs -> Nat]
  /\ cfg \in [Runs -> Versions \cup {None}]
  /\ status \in [Runs -> {"done", "failed", None}]
  /\ lines \in [Runs -> Nat]
  /\ buf \in [Runs -> Seq(Level)]
  /\ fwd \in [Runs -> {"off", "receive", "send", "stopped"}]
  /\ held \in [Runs -> Level \cup {None}]
  /\ connected \in [Runs -> BOOLEAN]
  /\ sent \in [Runs -> Seq(Level)]
  /\ got \in [Runs -> Seq(Level)]

Holds(r) == pc[r] \in HoldPc

\* exclusive.go: "The caller must call release exactly once": the guard's slots
\* are those of the subscriptions between tryBegin and release, each of them has
\* one, and none is left behind by a check that fails or a client that leaves.
GuardMatchesRuns ==
  /\ busy = {KeyOf(r) : r \in {q \in Runs : Holds(q)}}
  /\ \A r, q \in Runs : Holds(r) /\ Holds(q) /\ KeyOf(r) = KeyOf(q) => r = q

\* An operation runs only as its owner planned it and before the plan expired:
\* on the planned configuration, without a seeder, a destructive one with its
\* phrase, however the configuration changes meanwhile.
RunsThePlan ==
  \A r \in Runs : pc[r] \in EmitPc =>
    /\ tok[r] \in issued
    /\ tok[r].owner = UserOf[r]
    /\ opened[r] <= tok[r].exp
    /\ cfg[r] = tok[r].hash /\ cfg[r] \notin SeederVersions
    /\ tok[r].destructive => phrase[r]

InHand(r) == IF held[r] = None THEN <<>> ELSE <<held[r]>>

\* A client that stays connected misses no line and sees them in order; a closed
\* stream ends with DONE, after the line that tells the outcome.
StreamIsComplete ==
  \A r \in Runs : connected[r] /\ fwd[r] # "off" =>
    /\ got[r] \o InHand(r) \o buf[r] = sent[r]
    /\ fwd[r] = "stopped" =>
         /\ got[r] # <<>> /\ got[r][Len(got[r])] = "DONE"
         /\ OutcomeLine(r) \in {got[r][i] : i \in 1..Len(got[r])}

\* "closing the browser tab cancels the subscription [...] but the operation keeps
\* running to completion": the operation ends and frees its assignment, whatever
\* the client does and however full the channel is; then the goroutine that sends
\* to the client ends as well.
OperationFreesAssignment ==
  \A r \in Runs :
    /\ Holds(r) ~> ~Holds(r)
    /\ fwd[r] = "receive" ~> fwd[r] \in {"stopped", "off"}

----------------------------------------------------------------------------
(* The inductive strengthening of GuardMatchesRuns and RunsThePlan *)

\* What a subscription holds at each place: since it was opened a token of its
\* own, still good then, and behind the checks the configuration of the plan.
PlanInHand(r) ==
  /\ pc[r] # "idle" =>
       tok[r] \in issued /\ tok[r].owner = UserOf[r] /\ opened[r] <= tok[r].exp
  /\ pc[r] \notin {"idle", "resolve"} =>
       /\ cfg[r] = tok[r].hash /\ cfg[r] \notin SeederVersions
       /\ tok[r].destructive => phrase[r]

\* The forwarder that sends has a line in its hand.
HandIsFull == \A r \in Runs : fwd[r] = "send" => held[r] \in Level

IInv ==
  /\ TypeOK /\ HandIsFull
  /\ GuardMatchesRuns
  /\ \A r \in Runs : PlanInHand(r)
=============================================================================
