-------------------------- MODULE JobRunnerProofs --------------------------
(***************************************************************************)
(* Proofs about JobRunner, for any number of jobs, instances and owners,    *)
(* any retention and any set of faults: IInv is inductive, so the safety    *)
(* invariants hold in every reachable state, JobRunner implements           *)
(* JobLifecycle, and a single instance mails no job it has marked.          *)
(***************************************************************************)
EXTENDS JobRunner, TLAPS

\* Updating a function inside its range keeps its type.
LEMMA Update ==
  ASSUME NEW S, NEW T, NEW f \in [S -> T], NEW x, NEW v \in T
  PROVE  [f EXCEPT ![x] = v] \in [S -> T]
  OBVIOUS

USE RunnerAssumption
    DEF Go, NoTime, Never, JobRow, JobStatus, TerminalStatus, MailedStatus, RunnerPc, HoldingPc,
        envVars, tableVars, jobVars, loopVars, opVars

----------------------------------------------------------------------------
(* IInv = TypeOK /\ TableInv /\ RunnerInv is preserved by every action. *)

\* No job is scheduled and every runner is about to claim.
LEMMA InitInv == Init => IInv
<1> SUFFICES ASSUME Init PROVE IInv
  OBVIOUS
<1>1. TypeOK
  BY DEF Init, TypeOK
<1>2. TableInv
  BY DEF Init, TableInv, FiredAtMostOnce, StatusTellsWhetherItRan, RanAsPlanned, Punctual, JournalAgrees, NotifiedMeansMailed, Unfinished
<1>3. RunnerInv
  BY DEF Init, RunnerInv, Owned, Progress, VerdictIsTrue, MailQueue
<1> QED BY <1>1, <1>2, <1>3 DEF IInv

\* Steps that leave the rows and their effects alone preserve TableInv: time
\* only grows, and all TableInv says of it is that a start is not early.
LEMMA TableFrame ==
  ASSUME TypeOK, TableInv, now' \in Nat, now' >= now,
         UNCHANGED <<tableVars, opVars, mails, journal>>
  PROVE  TableInv'
<1>1. Punctual'
  BY DEF TypeOK, TableInv, Punctual, StatusTellsWhetherItRan
<1> QED BY <1>1 DEF TableInv, FiredAtMostOnce, StatusTellsWhetherItRan, RanAsPlanned, Punctual, JournalAgrees, NotifiedMeansMailed, Unfinished

\* A new row is pending: no runner, mail or start knows it yet.
LEMMA ScheduleOpInv ==
  ASSUME IInv, NEW o \in Owners, NEW j \in Jobs, ScheduleOp(o, j)
  PROVE  IInv'
<1>0. TypeOK /\ TableInv /\ RunnerInv
  BY DEF IInv
<1>1. TypeOK'
  BY <1>0 DEF ScheduleOp, GraceOf, TypeOK, RunnerInv, Owned, VerdictIsTrue, MailQueue
<1>2. TableInv'
  BY <1>0 DEF ScheduleOp, GraceOf, TooLate, TypeOK, RunnerInv, Owned, Progress,
    VerdictIsTrue, MailQueue, TableInv, FiredAtMostOnce, StatusTellsWhetherItRan,
    RanAsPlanned, Punctual, JournalAgrees, NotifiedMeansMailed, Unfinished
<1>3. RunnerInv'
  BY <1>0 DEF ScheduleOp, GraceOf, TooLate, TypeOK, RunnerInv, Owned, Progress,
    VerdictIsTrue, MailQueue, TableInv, StatusTellsWhetherItRan, NotifiedMeansMailed,
    Unfinished
<1> QED BY <1>1, <1>2, <1>3 DEF IInv

\* A cancelled job was pending, so nobody holds it.
LEMMA CancelScheduledJobInv ==
  ASSUME IInv, NEW o \in Owners, NEW j \in Jobs, CancelScheduledJob(o, j)
  PROVE  IInv'
<1>0. TypeOK /\ TableInv /\ RunnerInv
  BY DEF IInv
<1>1. TypeOK'
  BY <1>0 DEF CancelScheduledJob, Cancellable, SetFinished, TypeOK, RunnerInv, Owned,
    VerdictIsTrue, MailQueue
<1>2. TableInv'
  <2>1. FiredAtMostOnce'
    BY <1>0 DEF CancelScheduledJob, Cancellable, SetFinished, TypeOK, RunnerInv, Owned,
      Progress, VerdictIsTrue, MailQueue, TooLate, TableInv, FiredAtMostOnce,
      StatusTellsWhetherItRan
  <2>2. StatusTellsWhetherItRan'
    BY <1>0 DEF CancelScheduledJob, Cancellable, SetFinished, TypeOK, RunnerInv, Owned,
      Progress, VerdictIsTrue, MailQueue, TooLate, TableInv, StatusTellsWhetherItRan
  <2>3. RanAsPlanned'
    BY <1>0 DEF CancelScheduledJob, Cancellable, SetFinished, TypeOK, RunnerInv, Owned,
      Progress, VerdictIsTrue, MailQueue, TooLate, TableInv, RanAsPlanned,
      StatusTellsWhetherItRan
  <2>4. Punctual'
    BY <1>0 DEF CancelScheduledJob, Cancellable, SetFinished, TypeOK, RunnerInv, Owned,
      Progress, VerdictIsTrue, MailQueue, TooLate, TableInv, Punctual,
      StatusTellsWhetherItRan
  <2>5. JournalAgrees'
    BY <1>0 DEF CancelScheduledJob, Cancellable, SetFinished, TypeOK, RunnerInv, Owned,
      Progress, VerdictIsTrue, MailQueue, TooLate, TableInv, JournalAgrees,
      StatusTellsWhetherItRan
  <2>6. NotifiedMeansMailed'
    BY <1>0 DEF CancelScheduledJob, Cancellable, SetFinished, TypeOK, RunnerInv, Owned,
      Progress, VerdictIsTrue, MailQueue, TooLate, TableInv, NotifiedMeansMailed,
      StatusTellsWhetherItRan
  <2>7. Unfinished'
    BY <1>0 DEF CancelScheduledJob, Cancellable, SetFinished, TypeOK, RunnerInv, Owned,
      Progress, VerdictIsTrue, MailQueue, TooLate, TableInv, Unfinished,
      StatusTellsWhetherItRan
  <2> QED BY <2>1, <2>2, <2>3, <2>4, <2>5, <2>6, <2>7 DEF TableInv
<1>3. RunnerInv'
  <2>1. Owned'
    BY <1>0 DEF CancelScheduledJob, Cancellable, SetFinished, TypeOK, TableInv, RunnerInv,
      Owned, VerdictIsTrue, Unfinished
  <2>2. Progress'
    BY <1>0 DEF CancelScheduledJob, Cancellable, SetFinished, TypeOK, TableInv, RunnerInv,
      Progress, Rejected, StatusTellsWhetherItRan, Owned, Unfinished
  <2>3. VerdictIsTrue'
    BY <1>0 DEF CancelScheduledJob, Cancellable, SetFinished, TypeOK, TableInv, RunnerInv,
      VerdictIsTrue, Progress, Owned, TooLate, Unfinished
  <2>4. MailQueue'
    BY <1>0 DEF CancelScheduledJob, Cancellable, SetFinished, TypeOK, TableInv, RunnerInv,
      MailQueue, Unnotified, NotifiedMeansMailed, Owned, VerdictIsTrue
  <2> QED BY <2>1, <2>2, <2>3, <2>4 DEF RunnerInv
<1> QED BY <1>1, <1>2, <1>3 DEF IInv

\* Runners have copied the configuration they run.
LEMMA EditConfigInv ==
  ASSUME IInv, NEW o \in Owners, EditConfig(o)
  PROVE  IInv'
<1>0. TypeOK /\ TableInv /\ RunnerInv
  BY DEF IInv
<1>1. TypeOK'
  BY <1>0 DEF EditConfig, TypeOK, RunnerInv, Owned, VerdictIsTrue, MailQueue
<1>2. TableInv'
  BY <1>0, <1>1, TableFrame DEF EditConfig, TypeOK
<1>3. RunnerInv'
  BY <1>0 DEF EditConfig, TooLate, TypeOK, RunnerInv, Owned, Progress, VerdictIsTrue,
    MailQueue, TableInv, StatusTellsWhetherItRan, NotifiedMeansMailed, Unfinished
<1> QED BY <1>1, <1>2, <1>3 DEF IInv

\* The token is read once, and no invariant mentions it.
LEMMA ChangePATInv ==
  ASSUME IInv, NEW o \in Owners, ChangePAT(o)
  PROVE  IInv'
<1>0. TypeOK /\ TableInv /\ RunnerInv
  BY DEF IInv
<1>1. TypeOK'
  BY <1>0 DEF ChangePAT, TypeOK, RunnerInv, Owned, VerdictIsTrue, MailQueue
<1>2. TableInv'
  BY <1>0, <1>1, TableFrame DEF ChangePAT, TypeOK
<1>3. RunnerInv'
  BY <1>0 DEF ChangePAT, TooLate, TypeOK, RunnerInv, Owned, Progress, VerdictIsTrue,
    MailQueue, TableInv, StatusTellsWhetherItRan, NotifiedMeansMailed, Unfinished
<1> QED BY <1>1, <1>2, <1>3 DEF IInv

\* Time only grows: what was due or late stays so.
LEMMA TickInv ==
  ASSUME IInv, Tick
  PROVE  IInv'
<1>0. TypeOK /\ TableInv /\ RunnerInv
  BY DEF IInv
<1>1. TypeOK'
  BY <1>0 DEF Tick, TypeOK, RunnerInv, Owned, VerdictIsTrue, MailQueue
<1>2. TableInv'
  BY <1>0, <1>1, TableFrame DEF Tick, TypeOK
<1>3. RunnerInv'
  BY <1>0 DEF Tick, TooLate, TypeOK, RunnerInv, Owned, Progress, VerdictIsTrue, MailQueue,
    TableInv, StatusTellsWhetherItRan, NotifiedMeansMailed, Unfinished
<1> QED BY <1>1, <1>2, <1>3 DEF IInv

\* The claimed job was pending: no other runner holds it.
LEMMA ClaimDueJobInv ==
  ASSUME IInv, NEW w \in Workers, ClaimDueJob(w)
  PROVE  IInv'
<1>0. TypeOK /\ TableInv /\ RunnerInv
  BY DEF IInv
<1>1. TypeOK'
  BY <1>0 DEF ClaimDueJob, OldestDue, Due, FlipToRunning, TypeOK, RunnerInv, Owned,
    VerdictIsTrue, MailQueue
<1>2. TableInv'
  BY <1>0 DEF ClaimDueJob, OldestDue, Due, FlipToRunning, TooLate, TypeOK, RunnerInv,
    Owned, Progress, VerdictIsTrue, MailQueue, TableInv, FiredAtMostOnce,
    StatusTellsWhetherItRan, RanAsPlanned, Punctual, JournalAgrees, NotifiedMeansMailed,
    Unfinished
<1>3. RunnerInv'
  BY <1>0 DEF ClaimDueJob, OldestDue, Due, FlipToRunning, TooLate, TypeOK, RunnerInv,
    Owned, Progress, VerdictIsTrue, MailQueue, TableInv, StatusTellsWhetherItRan,
    NotifiedMeansMailed, Unfinished
<1> QED BY <1>1, <1>2, <1>3 DEF IInv

\* Going on to the mails changes no row.
LEMMA NoDueJobInv ==
  ASSUME IInv, NEW w \in Workers, NoDueJob(w)
  PROVE  IInv'
<1>0. TypeOK /\ TableInv /\ RunnerInv
  BY DEF IInv
<1>1. TypeOK'
  BY <1>0 DEF NoDueJob, TypeOK, RunnerInv, Owned, VerdictIsTrue, MailQueue
<1>2. TableInv'
  BY <1>0, <1>1, TableFrame DEF NoDueJob, TypeOK
<1>3. RunnerInv'
  BY <1>0 DEF NoDueJob, TooLate, TypeOK, RunnerInv, Owned, Progress, VerdictIsTrue,
    MailQueue, TableInv, StatusTellsWhetherItRan, NotifiedMeansMailed, Unfinished
<1> QED BY <1>1, <1>2, <1>3 DEF IInv

\* A claim whose answer is lost leaves a running row that no runner holds.
LEMMA ClaimErrorInv ==
  ASSUME IInv, NEW w \in Workers, ClaimError(w)
  PROVE  IInv'
<1>0. TypeOK /\ TableInv /\ RunnerInv
  BY DEF IInv
<1>1. TypeOK'
  <2>1. CASE UNCHANGED tableVars
    BY <1>0, <2>1 DEF ClaimError, TypeOK
  <2>2. CASE \E j \in Jobs : OldestDue(j) /\ FlipToRunning(j, w)
    BY <1>0, <2>2 DEF ClaimError, OldestDue, Due, FlipToRunning, TypeOK
  <2> QED BY <2>1, <2>2 DEF ClaimError
<1>2. TableInv'
  <2>1. FiredAtMostOnce'
    BY <1>0 DEF ClaimError, OldestDue, Due, FlipToRunning, TypeOK, RunnerInv, Owned,
      Progress, VerdictIsTrue, MailQueue, TooLate, TableInv, FiredAtMostOnce,
      StatusTellsWhetherItRan
  <2>2. StatusTellsWhetherItRan'
    BY <1>0 DEF ClaimError, OldestDue, Due, FlipToRunning, TypeOK, RunnerInv, Owned,
      Progress, VerdictIsTrue, MailQueue, TooLate, TableInv, StatusTellsWhetherItRan
  <2>3. RanAsPlanned'
    BY <1>0 DEF ClaimError, OldestDue, Due, FlipToRunning, TypeOK, RunnerInv, Owned,
      Progress, VerdictIsTrue, MailQueue, TooLate, TableInv, RanAsPlanned,
      StatusTellsWhetherItRan
  <2>4. Punctual'
    BY <1>0 DEF ClaimError, OldestDue, Due, FlipToRunning, TypeOK, RunnerInv, Owned,
      Progress, VerdictIsTrue, MailQueue, TooLate, TableInv, Punctual,
      StatusTellsWhetherItRan
  <2>5. JournalAgrees'
    BY <1>0 DEF ClaimError, OldestDue, Due, FlipToRunning, TypeOK, RunnerInv, Owned,
      Progress, VerdictIsTrue, MailQueue, TooLate, TableInv, JournalAgrees,
      StatusTellsWhetherItRan
  <2>6. NotifiedMeansMailed'
    BY <1>0 DEF ClaimError, OldestDue, Due, FlipToRunning, TypeOK, RunnerInv, Owned,
      Progress, VerdictIsTrue, MailQueue, TooLate, TableInv, NotifiedMeansMailed,
      StatusTellsWhetherItRan
  <2>7. Unfinished'
    BY <1>0 DEF ClaimError, OldestDue, Due, FlipToRunning, TypeOK, RunnerInv, Owned,
      Progress, VerdictIsTrue, MailQueue, TooLate, TableInv, Unfinished,
      StatusTellsWhetherItRan
  <2> QED BY <2>1, <2>2, <2>3, <2>4, <2>5, <2>6, <2>7 DEF TableInv
<1>3. RunnerInv'
  <2>1. Owned'
    BY <1>0 DEF ClaimError, OldestDue, Due, FlipToRunning, TypeOK, TableInv, RunnerInv,
      Owned, VerdictIsTrue, Unfinished
  <2>2. Progress'
    BY <1>0 DEF ClaimError, OldestDue, Due, FlipToRunning, TypeOK, TableInv, RunnerInv,
      Progress, Rejected, StatusTellsWhetherItRan, Owned, Unfinished
  <2>3. VerdictIsTrue'
    BY <1>0 DEF ClaimError, OldestDue, Due, FlipToRunning, TypeOK, TableInv, RunnerInv,
      VerdictIsTrue, Progress, Owned, TooLate, Unfinished
  <2>4. MailQueue'
    BY <1>0 DEF ClaimError, OldestDue, Due, FlipToRunning, TypeOK, TableInv, RunnerInv,
      MailQueue, Unnotified, NotifiedMeansMailed, Owned, VerdictIsTrue
  <2> QED BY <2>1, <2>2, <2>3, <2>4 DEF RunnerInv
<1> QED BY <1>1, <1>2, <1>3 DEF IInv

\* Expired is the verdict of a job that never started.
LEMMA CheckGraceInv ==
  ASSUME IInv, NEW w \in Workers, CheckGrace(w)
  PROVE  IInv'
<1>0. TypeOK /\ TableInv /\ RunnerInv
  BY DEF IInv
<1>1. TypeOK'
  <2>1. pc' \in [Workers -> RunnerPc] /\ outcome' \in [Workers -> MailedStatus \cup {None}]
    BY <1>0 DEF CheckGrace, Verdict, TypeOK
  <2> QED BY <1>0, <2>1 DEF CheckGrace, TypeOK
<1>2. TableInv'
  BY <1>0, <1>1, TableFrame DEF CheckGrace, TypeOK
<1>3. RunnerInv'
  BY <1>0 DEF CheckGrace, Verdict, TooLate, TypeOK, RunnerInv, Owned, Progress,
    VerdictIsTrue, MailQueue, TableInv, StatusTellsWhetherItRan, NotifiedMeansMailed,
    Unfinished
<1> QED BY <1>1, <1>2, <1>3 DEF IInv

\* The runner keeps the configuration it compared.
LEMMA ResolveConfigInv ==
  ASSUME IInv, NEW w \in Workers, ResolveConfig(w)
  PROVE  IInv'
<1>0. TypeOK /\ TableInv /\ RunnerInv
  BY DEF IInv
<1>1. TypeOK'
  <2>1. pc[w] = "resolve" /\ cur[w] \in Jobs /\ row[cur[w]] \in JobRow
    BY <1>0 DEF ResolveConfig, TypeOK, RunnerInv, Owned
  <2>2. config[row[cur[w]].owner] \in Versions \cup {None}
    BY <1>0, <2>1 DEF TypeOK
  <2>3. /\ cfg' \in [Workers -> Versions \cup {None}]
        /\ outcome' \in [Workers -> MailedStatus \cup {None}]
        /\ pc' \in [Workers -> RunnerPc]
    BY <1>0, <2>2 DEF ResolveConfig, Verdict, Rejected, TypeOK
  <2> QED BY <1>0, <2>3 DEF ResolveConfig, TypeOK
<1>2. TableInv'
  BY <1>0, <1>1, TableFrame DEF ResolveConfig, TypeOK
<1>3. RunnerInv'
  <2>1. Owned'
    BY <1>0 DEF ResolveConfig, Verdict, Rejected, TypeOK, TableInv, RunnerInv, Owned,
      VerdictIsTrue, Unfinished
  <2>2. Progress'
    BY <1>0 DEF ResolveConfig, Verdict, Rejected, TypeOK, TableInv, RunnerInv, Progress,
      StatusTellsWhetherItRan, Owned, Unfinished
  <2>3. VerdictIsTrue'
    BY <1>0 DEF ResolveConfig, Verdict, Rejected, TypeOK, TableInv, RunnerInv,
      VerdictIsTrue, Progress, Owned, TooLate, Unfinished
  <2>4. MailQueue'
    BY <1>0 DEF ResolveConfig, Verdict, Rejected, TypeOK, TableInv, RunnerInv, MailQueue,
      Unnotified, NotifiedMeansMailed, Owned, VerdictIsTrue
  <2> QED BY <2>1, <2>2, <2>3, <2>4 DEF RunnerInv
<1> QED BY <1>1, <1>2, <1>3 DEF IInv

\* A missing token is the verdict failed, before any start.
LEMMA GitlabClientForInv ==
  ASSUME IInv, NEW w \in Workers, GitlabClientFor(w)
  PROVE  IInv'
<1>0. TypeOK /\ TableInv /\ RunnerInv
  BY DEF IInv
<1>1. TypeOK'
  <2>1. pc' \in [Workers -> RunnerPc] /\ outcome' \in [Workers -> MailedStatus \cup {None}]
    BY <1>0 DEF GitlabClientFor, Verdict, TypeOK
  <2> QED BY <1>0, <2>1 DEF GitlabClientFor, TypeOK
<1>2. TableInv'
  BY <1>0, <1>1, TableFrame DEF GitlabClientFor, TypeOK
<1>3. RunnerInv'
  BY <1>0 DEF GitlabClientFor, Verdict, TooLate, TypeOK, RunnerInv, Owned, Progress,
    VerdictIsTrue, MailQueue, TableInv, StatusTellsWhetherItRan, NotifiedMeansMailed,
    Unfinished
<1> QED BY <1>1, <1>2, <1>3 DEF IInv

\* The start is the first: Progress says none happened before.
LEMMA ExecuteOpInv ==
  ASSUME IInv, NEW w \in Workers, ExecuteOp(w)
  PROVE  IInv'
<1>0. TypeOK /\ TableInv /\ RunnerInv
  BY DEF IInv
<1>1. TypeOK'
  BY <1>0 DEF ExecuteOp, TypeOK, RunnerInv, Owned, VerdictIsTrue, MailQueue
<1>2. TableInv'
  BY <1>0 DEF ExecuteOp, TooLate, TypeOK, RunnerInv, Owned, Progress, VerdictIsTrue,
    MailQueue, TableInv, FiredAtMostOnce, StatusTellsWhetherItRan, RanAsPlanned, Punctual,
    JournalAgrees, NotifiedMeansMailed, Unfinished
<1>3. RunnerInv'
  BY <1>0 DEF ExecuteOp, TooLate, TypeOK, RunnerInv, Owned, Progress, VerdictIsTrue,
    MailQueue, TableInv, StatusTellsWhetherItRan, NotifiedMeansMailed, Unfinished
<1> QED BY <1>1, <1>2, <1>3 DEF IInv

\* done is the verdict of a job that started.
LEMMA OpReturnsInv ==
  ASSUME IInv, NEW w \in Workers, OpReturns(w)
  PROVE  IInv'
<1>0. TypeOK /\ TableInv /\ RunnerInv
  BY DEF IInv
<1>1. TypeOK'
  BY <1>0 DEF OpReturns, Verdict, TypeOK, RunnerInv, Owned, VerdictIsTrue, MailQueue
<1>2. TableInv'
  BY <1>0, <1>1, TableFrame DEF OpReturns, TypeOK
<1>3. RunnerInv'
  BY <1>0 DEF OpReturns, Verdict, TooLate, TypeOK, RunnerInv, Owned, Progress,
    VerdictIsTrue, MailQueue, TableInv, StatusTellsWhetherItRan, NotifiedMeansMailed,
    Unfinished
<1> QED BY <1>1, <1>2, <1>3 DEF IInv

\* Only the owner of a running row writes its outcome.
LEMMA FinishJobInv ==
  ASSUME IInv, NEW w \in Workers, FinishJob(w)
  PROVE  IInv'
<1>0. TypeOK /\ TableInv /\ RunnerInv
  BY DEF IInv
<1>1. TypeOK'
  BY <1>0 DEF FinishJob, SetFinished, TypeOK, RunnerInv, Owned, VerdictIsTrue, MailQueue
<1>2. TableInv'
  <2>1. FiredAtMostOnce'
    BY <1>0 DEF FinishJob, SetFinished, TypeOK, RunnerInv, Owned, Progress, VerdictIsTrue,
      MailQueue, TooLate, TableInv, FiredAtMostOnce, StatusTellsWhetherItRan
  <2>2. StatusTellsWhetherItRan'
    BY <1>0 DEF FinishJob, SetFinished, TypeOK, RunnerInv, Owned, Progress, VerdictIsTrue,
      MailQueue, TooLate, TableInv, StatusTellsWhetherItRan
  <2>3. RanAsPlanned'
    BY <1>0 DEF FinishJob, SetFinished, TypeOK, RunnerInv, Owned, Progress, VerdictIsTrue,
      MailQueue, TooLate, TableInv, RanAsPlanned, StatusTellsWhetherItRan
  <2>4. Punctual'
    BY <1>0 DEF FinishJob, SetFinished, TypeOK, RunnerInv, Owned, Progress, VerdictIsTrue,
      MailQueue, TooLate, TableInv, Punctual, StatusTellsWhetherItRan
  <2>5. JournalAgrees'
    BY <1>0 DEF FinishJob, SetFinished, TypeOK, RunnerInv, Owned, Progress, VerdictIsTrue,
      MailQueue, TooLate, TableInv, JournalAgrees, StatusTellsWhetherItRan
  <2>6. NotifiedMeansMailed'
    BY <1>0 DEF FinishJob, SetFinished, TypeOK, RunnerInv, Owned, Progress, VerdictIsTrue,
      MailQueue, TooLate, TableInv, NotifiedMeansMailed, StatusTellsWhetherItRan
  <2>7. Unfinished'
    BY <1>0 DEF FinishJob, SetFinished, TypeOK, RunnerInv, Owned, Progress, VerdictIsTrue,
      MailQueue, TooLate, TableInv, Unfinished, StatusTellsWhetherItRan
  <2> QED BY <2>1, <2>2, <2>3, <2>4, <2>5, <2>6, <2>7 DEF TableInv
<1>3. RunnerInv'
  <2>1. Owned'
    BY <1>0 DEF FinishJob, SetFinished, TypeOK, TableInv, RunnerInv, Owned, VerdictIsTrue,
      Unfinished
  <2>2. Progress'
    BY <1>0 DEF FinishJob, SetFinished, TypeOK, TableInv, RunnerInv, Progress, Rejected,
      StatusTellsWhetherItRan, Owned, Unfinished
  <2>3. VerdictIsTrue'
    BY <1>0 DEF FinishJob, SetFinished, TypeOK, TableInv, RunnerInv, VerdictIsTrue,
      Progress, Owned, TooLate, Unfinished
  <2>4. MailQueue'
    <3>1. \A j \in Jobs : status'[j] = status[j] \/ status'[j] \in MailedStatus
      BY <1>0 DEF FinishJob, SetFinished, TypeOK, RunnerInv, VerdictIsTrue
    <3>2. \A v \in Workers : pc'[v] = "mark" => pc[v] = "mark"
      BY <1>0 DEF FinishJob, TypeOK
    <3>3. UNCHANGED <<todo, cur, mails>>
      BY DEF FinishJob
    <3>4. todo \in [Workers -> SUBSET Jobs] /\ MailQueue
      BY <1>0 DEF TypeOK, RunnerInv
    <3> QED BY <3>1, <3>2, <3>3, <3>4 DEF MailQueue
  <2> QED BY <2>1, <2>2, <2>3, <2>4 DEF RunnerInv
<1> QED BY <1>1, <1>2, <1>3 DEF IInv

\* The journal entry is written once, by the runner whose name is in the row.
LEMMA RecordOutcomeInv ==
  ASSUME IInv, NEW w \in Workers, RecordOutcome(w)
  PROVE  IInv'
<1>0. TypeOK /\ TableInv /\ RunnerInv
  BY DEF IInv
<1>a. pc[w] = "record" /\ cur[w] \in Jobs /\ outcome[w] \in MailedStatus
  BY <1>0 DEF RecordOutcome, RunnerInv, VerdictIsTrue
<1>b. journal[cur[w]] \cup {outcome[w]} \in SUBSET MailedStatus
  BY <1>0, <1>a DEF TypeOK
<1>c. \A j \in Jobs : j # cur[w] => journal'[j] = journal[j]
  BY <1>0, <1>a DEF RecordOutcome, TypeOK
<1>d. journal'[cur[w]] \in {{}, {outcome[w]}}
  BY <1>0, <1>a DEF RecordOutcome, TypeOK, RunnerInv, VerdictIsTrue
<1>1. TypeOK'
  <2>1. CASE journal' = [journal EXCEPT ![cur[w]] = @ \cup {outcome[w]}]
    <3>1. journal' \in [Jobs -> SUBSET MailedStatus]
      BY <1>0, <2>1, <1>b, Update, Zenon DEF TypeOK
    <3> QED BY <1>0, <1>a, <3>1 DEF RecordOutcome, TypeOK
  <2>2. CASE journal' = journal
    BY <1>0, <1>a, <2>2 DEF RecordOutcome, TypeOK
  <2> QED BY <2>1, <2>2 DEF RecordOutcome
<1>2. TableInv'
  <2>1. FiredAtMostOnce'
    BY <1>0 DEF RecordOutcome, TypeOK, RunnerInv, Owned, Progress, VerdictIsTrue,
      MailQueue, TooLate, TableInv, FiredAtMostOnce, StatusTellsWhetherItRan
  <2>2. StatusTellsWhetherItRan'
    BY <1>0 DEF RecordOutcome, TypeOK, RunnerInv, Owned, Progress, VerdictIsTrue,
      MailQueue, TooLate, TableInv, StatusTellsWhetherItRan
  <2>3. RanAsPlanned'
    BY <1>0 DEF RecordOutcome, TypeOK, RunnerInv, Owned, Progress, VerdictIsTrue,
      MailQueue, TooLate, TableInv, RanAsPlanned, StatusTellsWhetherItRan
  <2>4. Punctual'
    BY <1>0 DEF RecordOutcome, TypeOK, RunnerInv, Owned, Progress, VerdictIsTrue,
      MailQueue, TooLate, TableInv, Punctual, StatusTellsWhetherItRan
  <2>5. JournalAgrees'
    BY <1>0, <1>a, <1>c, <1>d
      DEF RecordOutcome, TypeOK, RunnerInv, VerdictIsTrue, TableInv, JournalAgrees
  <2>6. NotifiedMeansMailed'
    BY <1>0 DEF RecordOutcome, TypeOK, RunnerInv, Owned, Progress, VerdictIsTrue,
      MailQueue, TooLate, TableInv, NotifiedMeansMailed, StatusTellsWhetherItRan
  <2>7. Unfinished'
    BY <1>0, <1>a, <1>c
      DEF RecordOutcome, TypeOK, RunnerInv, VerdictIsTrue, TableInv, Unfinished
  <2> QED BY <2>1, <2>2, <2>3, <2>4, <2>5, <2>6, <2>7 DEF TableInv
<1>3. RunnerInv'
  <2>1. Owned'
    BY <1>0 DEF RecordOutcome, TypeOK, TableInv, RunnerInv, Owned, VerdictIsTrue,
      Unfinished
  <2>2. Progress'
    BY <1>0, <1>a, <1>c
      DEF RecordOutcome, TypeOK, RunnerInv, Owned, Progress, VerdictIsTrue
  <2>3. VerdictIsTrue'
    BY <1>0, <1>a, <1>c
      DEF RecordOutcome, TypeOK, RunnerInv, VerdictIsTrue, TooLate
  <2>4. MailQueue'
    BY <1>0 DEF RecordOutcome, TypeOK, TableInv, RunnerInv, MailQueue, Unnotified,
      NotifiedMeansMailed, Owned, VerdictIsTrue
  <2> QED BY <2>1, <2>2, <2>3, <2>4 DEF RunnerInv
<1> QED BY <1>1, <1>2, <1>3 DEF IInv

\* Everything listed has ended.
LEMMA ListUnnotifiedInv ==
  ASSUME IInv, NEW w \in Workers, ListUnnotified(w)
  PROVE  IInv'
<1>0. TypeOK /\ TableInv /\ RunnerInv
  BY DEF IInv
<1>1. TypeOK'
  <2>1. Unnotified \in SUBSET Jobs
    BY DEF Unnotified
  <2>2. todo' \in [Workers -> SUBSET Jobs]
    BY <1>0, <2>1 DEF ListUnnotified, TypeOK
  <2> QED BY <1>0, <2>2 DEF ListUnnotified, TypeOK
<1>2. TableInv'
  BY <1>0, <1>1, TableFrame DEF ListUnnotified, TypeOK
<1>3. RunnerInv'
  BY <1>0 DEF ListUnnotified, Unnotified, TooLate, TypeOK, RunnerInv, Owned, Progress,
    VerdictIsTrue, MailQueue, TableInv, StatusTellsWhetherItRan, NotifiedMeansMailed,
    Unfinished
<1> QED BY <1>1, <1>2, <1>3 DEF IInv

\* A mail goes to a job whose outcome is recorded.
LEMMA SendJobMailInv ==
  ASSUME IInv, NEW w \in Workers, NEW j \in Jobs, SendJobMail(w, j)
  PROVE  IInv'
<1>0. TypeOK /\ TableInv /\ RunnerInv
  BY DEF IInv
<1>1. TypeOK'
  BY <1>0 DEF SendJobMail, FirstToMail, TypeOK, RunnerInv, Owned, VerdictIsTrue, MailQueue
<1>2. TableInv'
  BY <1>0 DEF SendJobMail, FirstToMail, TooLate, TypeOK, RunnerInv, Owned, Progress,
    VerdictIsTrue, MailQueue, TableInv, FiredAtMostOnce, StatusTellsWhetherItRan,
    RanAsPlanned, Punctual, JournalAgrees, NotifiedMeansMailed, Unfinished
<1>3. RunnerInv'
  BY <1>0 DEF SendJobMail, FirstToMail, TooLate, TypeOK, RunnerInv, Owned, Progress,
    VerdictIsTrue, MailQueue, TableInv, StatusTellsWhetherItRan, NotifiedMeansMailed,
    Unfinished
<1> QED BY <1>1, <1>2, <1>3 DEF IInv

\* A mail that fails leaves the queue of this tick.
LEMMA SendFailsInv ==
  ASSUME IInv, NEW w \in Workers, NEW j \in Jobs, SendFails(w, j)
  PROVE  IInv'
<1>0. TypeOK /\ TableInv /\ RunnerInv
  BY DEF IInv
<1>1. TypeOK'
  BY <1>0 DEF SendFails, FirstToMail, TypeOK, RunnerInv, Owned, VerdictIsTrue, MailQueue
<1>2. TableInv'
  BY <1>0, <1>1, TableFrame DEF SendFails, TypeOK
<1>3. RunnerInv'
  BY <1>0 DEF SendFails, FirstToMail, TooLate, TypeOK, RunnerInv, Owned, Progress,
    VerdictIsTrue, MailQueue, TableInv, StatusTellsWhetherItRan, NotifiedMeansMailed,
    Unfinished
<1> QED BY <1>1, <1>2, <1>3 DEF IInv

\* The mark follows the mail of the job in cur.
LEMMA MarkNotifiedInv ==
  ASSUME IInv, NEW w \in Workers, MarkNotified(w)
  PROVE  IInv'
<1>0. TypeOK /\ TableInv /\ RunnerInv
  BY DEF IInv
<1>1. TypeOK'
  <2>1. todo[w] \ {cur[w]} \in SUBSET Jobs
    BY <1>0 DEF TypeOK
  <2>2. todo' \in [Workers -> SUBSET Jobs]
    BY <1>0, <2>1, Update, Zenon DEF MarkNotified, TypeOK
  <2>3. CASE notified' = [notified EXCEPT ![cur[w]] = TRUE]
    <3>1. notified' \in [Jobs -> BOOLEAN]
      BY <1>0, <2>3, Zenon DEF TypeOK
    <3> QED BY <1>0, <2>2, <3>1 DEF MarkNotified, TypeOK
  <2>4. CASE notified' = notified
    BY <1>0, <2>2, <2>4 DEF MarkNotified, TypeOK
  <2> QED BY <2>3, <2>4 DEF MarkNotified
<1>2. TableInv'
  BY <1>0 DEF MarkNotified, TooLate, TypeOK, RunnerInv, Owned, Progress, VerdictIsTrue,
    MailQueue, TableInv, FiredAtMostOnce, StatusTellsWhetherItRan, RanAsPlanned, Punctual,
    JournalAgrees, NotifiedMeansMailed, Unfinished
<1>3. RunnerInv'
  BY <1>0 DEF MarkNotified, TooLate, TypeOK, RunnerInv, Owned, Progress, VerdictIsTrue,
    MailQueue, TableInv, StatusTellsWhetherItRan, NotifiedMeansMailed, Unfinished
<1> QED BY <1>1, <1>2, <1>3 DEF IInv

\* An empty queue changes no row.
LEMMA AllMailedInv ==
  ASSUME IInv, NEW w \in Workers, AllMailed(w)
  PROVE  IInv'
<1>0. TypeOK /\ TableInv /\ RunnerInv
  BY DEF IInv
<1>1. TypeOK'
  BY <1>0 DEF AllMailed, TypeOK, RunnerInv, Owned, VerdictIsTrue, MailQueue
<1>2. TableInv'
  BY <1>0, <1>1, TableFrame DEF AllMailed, TypeOK
<1>3. RunnerInv'
  BY <1>0 DEF AllMailed, TooLate, TypeOK, RunnerInv, Owned, Progress, VerdictIsTrue,
    MailQueue, TableInv, StatusTellsWhetherItRan, NotifiedMeansMailed, Unfinished
<1> QED BY <1>1, <1>2, <1>3 DEF IInv

\* Only rows with a finish time are deleted: nobody holds them.
LEMMA ReapExpiredInv ==
  ASSUME IInv, NEW w \in Workers, ReapExpired(w)
  PROVE  IInv'
<1>0. TypeOK /\ TableInv /\ RunnerInv
  BY DEF IInv
<1>1. TypeOK'
  BY <1>0 DEF ReapExpired, Reapable, TypeOK, RunnerInv, Owned, VerdictIsTrue, MailQueue
<1>2. TableInv'
  BY <1>0 DEF ReapExpired, Reapable, TooLate, TypeOK, RunnerInv, Owned, Progress,
    VerdictIsTrue, MailQueue, TableInv, FiredAtMostOnce, StatusTellsWhetherItRan,
    RanAsPlanned, Punctual, JournalAgrees, NotifiedMeansMailed, Unfinished
<1>3. RunnerInv'
  <2>1. Owned'
    BY <1>0 DEF ReapExpired, Reapable, TypeOK, TableInv, RunnerInv, Owned, VerdictIsTrue,
      Unfinished
  <2>2. Progress'
    BY <1>0 DEF ReapExpired, Reapable, TypeOK, TableInv, RunnerInv, Progress, Rejected,
      StatusTellsWhetherItRan, Owned, Unfinished
  <2>3. VerdictIsTrue'
    BY <1>0 DEF ReapExpired, Reapable, TypeOK, TableInv, RunnerInv, VerdictIsTrue,
      Progress, Owned, TooLate, Unfinished
  <2>4. MailQueue'
    BY <1>0 DEF ReapExpired, Reapable, TypeOK, TableInv, RunnerInv, MailQueue, Unnotified,
      NotifiedMeansMailed, Owned, VerdictIsTrue
  <2> QED BY <2>1, <2>2, <2>3, <2>4 DEF RunnerInv
<1> QED BY <1>1, <1>2, <1>3 DEF IInv

\* No sweep, no change.
LEMMA SkipReapInv ==
  ASSUME IInv, NEW w \in Workers, SkipReap(w)
  PROVE  IInv'
<1>0. TypeOK /\ TableInv /\ RunnerInv
  BY DEF IInv
<1>1. TypeOK'
  BY <1>0 DEF SkipReap, TypeOK, RunnerInv, Owned, VerdictIsTrue, MailQueue
<1>2. TableInv'
  BY <1>0, <1>1, TableFrame DEF SkipReap, TypeOK
<1>3. RunnerInv'
  BY <1>0 DEF SkipReap, TooLate, TypeOK, RunnerInv, Owned, Progress, VerdictIsTrue,
    MailQueue, TableInv, StatusTellsWhetherItRan, NotifiedMeansMailed, Unfinished
<1> QED BY <1>1, <1>2, <1>3 DEF IInv

\* The tick of the poll loop changes no row.
LEMMA NextPollInv ==
  ASSUME IInv, NEW w \in Workers, NextPoll(w)
  PROVE  IInv'
<1>0. TypeOK /\ TableInv /\ RunnerInv
  BY DEF IInv
<1>1. TypeOK'
  BY <1>0 DEF NextPoll, TypeOK, RunnerInv, Owned, VerdictIsTrue, MailQueue
<1>2. TableInv'
  BY <1>0, <1>1, TableFrame DEF NextPoll, TypeOK
<1>3. RunnerInv'
  BY <1>0 DEF NextPoll, TooLate, TypeOK, RunnerInv, Owned, Progress, VerdictIsTrue,
    MailQueue, TableInv, StatusTellsWhetherItRan, NotifiedMeansMailed, Unfinished
<1> QED BY <1>1, <1>2, <1>3 DEF IInv

\* A crash forgets the locals; the invariants of the table do not need them.
LEMMA CrashInv ==
  ASSUME IInv, NEW w \in Workers, Crash(w)
  PROVE  IInv'
<1>0. TypeOK /\ TableInv /\ RunnerInv
  BY DEF IInv
<1>1. TypeOK'
  BY <1>0 DEF Crash, TypeOK, RunnerInv, Owned, VerdictIsTrue, MailQueue
<1>2. TableInv'
  BY <1>0, <1>1, TableFrame DEF Crash, TypeOK
<1>3. RunnerInv'
  BY <1>0 DEF Crash, TooLate, TypeOK, RunnerInv, Owned, Progress, VerdictIsTrue, MailQueue,
    TableInv, StatusTellsWhetherItRan, NotifiedMeansMailed, Unfinished
<1> QED BY <1>1, <1>2, <1>3 DEF IInv

\* A restarted runner holds nothing.
LEMMA RestartInv ==
  ASSUME IInv, NEW w \in Workers, Restart(w)
  PROVE  IInv'
<1>0. TypeOK /\ TableInv /\ RunnerInv
  BY DEF IInv
<1>1. TypeOK'
  BY <1>0 DEF Restart, TypeOK, RunnerInv, Owned, VerdictIsTrue, MailQueue
<1>2. TableInv'
  BY <1>0, <1>1, TableFrame DEF Restart, TypeOK
<1>3. RunnerInv'
  BY <1>0 DEF Restart, TooLate, TypeOK, RunnerInv, Owned, Progress, VerdictIsTrue,
    MailQueue, TableInv, StatusTellsWhetherItRan, NotifiedMeansMailed, Unfinished
<1> QED BY <1>1, <1>2, <1>3 DEF IInv

\* IInv is inductive.
LEMMA StepInv == IInv /\ [Next]_vars => IInv'
<1> SUFFICES ASSUME IInv, [Next]_vars PROVE IInv'
  OBVIOUS
<1>1. ASSUME NEW o \in Owners, NEW j \in Jobs, ScheduleOp(o, j) PROVE IInv'
  BY <1>1, ScheduleOpInv
<1>2. ASSUME NEW o \in Owners, NEW j \in Jobs, CancelScheduledJob(o, j) PROVE IInv'
  BY <1>2, CancelScheduledJobInv
<1>3. ASSUME NEW o \in Owners, EditConfig(o) PROVE IInv'
  BY <1>3, EditConfigInv
<1>4. ASSUME NEW o \in Owners, ChangePAT(o) PROVE IInv'
  BY <1>4, ChangePATInv
<1>5. CASE Tick
  BY <1>5, TickInv
<1>6. ASSUME NEW w \in Workers, ClaimDueJob(w) PROVE IInv'
  BY <1>6, ClaimDueJobInv
<1>7. ASSUME NEW w \in Workers, NoDueJob(w) PROVE IInv'
  BY <1>7, NoDueJobInv
<1>8. ASSUME NEW w \in Workers, ClaimError(w) PROVE IInv'
  BY <1>8, ClaimErrorInv
<1>9. ASSUME NEW w \in Workers, CheckGrace(w) PROVE IInv'
  BY <1>9, CheckGraceInv
<1>10. ASSUME NEW w \in Workers, ResolveConfig(w) PROVE IInv'
  BY <1>10, ResolveConfigInv
<1>11. ASSUME NEW w \in Workers, GitlabClientFor(w) PROVE IInv'
  BY <1>11, GitlabClientForInv
<1>12. ASSUME NEW w \in Workers, ExecuteOp(w) PROVE IInv'
  BY <1>12, ExecuteOpInv
<1>13. ASSUME NEW w \in Workers, OpReturns(w) PROVE IInv'
  BY <1>13, OpReturnsInv
<1>14. ASSUME NEW w \in Workers, FinishJob(w) PROVE IInv'
  BY <1>14, FinishJobInv
<1>15. ASSUME NEW w \in Workers, RecordOutcome(w) PROVE IInv'
  BY <1>15, RecordOutcomeInv
<1>16. ASSUME NEW w \in Workers, ListUnnotified(w) PROVE IInv'
  BY <1>16, ListUnnotifiedInv
<1>17. ASSUME NEW w \in Workers, NEW j \in Jobs, SendJobMail(w, j) PROVE IInv'
  BY <1>17, SendJobMailInv
<1>18. ASSUME NEW w \in Workers, NEW j \in Jobs, SendFails(w, j) PROVE IInv'
  BY <1>18, SendFailsInv
<1>19. ASSUME NEW w \in Workers, MarkNotified(w) PROVE IInv'
  BY <1>19, MarkNotifiedInv
<1>20. ASSUME NEW w \in Workers, AllMailed(w) PROVE IInv'
  BY <1>20, AllMailedInv
<1>21. ASSUME NEW w \in Workers, ReapExpired(w) PROVE IInv'
  BY <1>21, ReapExpiredInv
<1>22. ASSUME NEW w \in Workers, SkipReap(w) PROVE IInv'
  BY <1>22, SkipReapInv
<1>23. ASSUME NEW w \in Workers, NextPoll(w) PROVE IInv'
  BY <1>23, NextPollInv
<1>24. ASSUME NEW w \in Workers, Crash(w) PROVE IInv'
  BY <1>24, CrashInv
<1>25. ASSUME NEW w \in Workers, Restart(w) PROVE IInv'
  BY <1>25, RestartInv
<1>26. CASE UNCHANGED vars
  <2>1. TypeOK'
    BY <1>26 DEF vars, IInv, TypeOK
  <2>2. TableInv'
    BY <1>26 DEF vars, IInv, TableInv, FiredAtMostOnce, StatusTellsWhetherItRan, RanAsPlanned, Punctual, JournalAgrees, NotifiedMeansMailed, Unfinished
  <2>3. RunnerInv'
    BY <1>26 DEF vars, IInv, TooLate, RunnerInv, Owned, Progress, VerdictIsTrue, MailQueue
  <2> QED BY <2>1, <2>2, <2>3 DEF IInv
<1> QED
  BY <1>1, <1>2, <1>3, <1>4, <1>5, <1>6, <1>7, <1>8, <1>9, <1>10, <1>11, <1>12, <1>13, <1>14, <1>15, <1>16, <1>17, <1>18, <1>19, <1>20, <1>21, <1>22, <1>23, <1>24, <1>25, <1>26
  DEF Next, Runner, RunDueJobs, NotifyFinishedJobs

\* Every reachable state satisfies IInv: the table, the runners' locals and what
\* happened on GitLab agree, whatever crashes, fails or interleaves.
THEOREM Invariance == Spec => []IInv
  BY InitInv, StepInv, PTL DEF Spec

\* Type correctness of the table and of the runners' locals.
THEOREM TypeCorrect == Spec => []TypeOK
<1>1. IInv => TypeOK
  BY DEF IInv, TableInv, RunnerInv
<1> QED BY <1>1, Invariance, PTL

\* No operation is ever started twice for a job, by any number of instances.
THEOREM AtMostOnce == Spec => []FiredAtMostOnce
<1>1. IInv => FiredAtMostOnce
  BY DEF IInv, TableInv, RunnerInv
<1> QED BY <1>1, Invariance, PTL

\* A job under work is running in the table, in the name of its one runner.
THEOREM OneOwner == Spec => []Owned
<1>1. IInv => Owned
  BY DEF IInv, TableInv, RunnerInv
<1> QED BY <1>1, Invariance, PTL

\* Waiting, cancelled and expired jobs never touched GitLab; done ones did.
THEOREM HonestStatus == Spec => []StatusTellsWhetherItRan
<1>1. IInv => StatusTellsWhetherItRan
  BY DEF IInv, TableInv, RunnerInv
<1> QED BY <1>1, Invariance, PTL

\* What runs is what was planned, without a seeder.
THEOREM PlannedOnly == Spec => []RanAsPlanned
<1>1. IInv => RanAsPlanned
  BY DEF IInv, TableInv, RunnerInv
<1> QED BY <1>1, Invariance, PTL

\* No job starts before runAt, none expires inside its grace window.
THEOREM OnTime == Spec => []Punctual
<1>1. IInv => Punctual
  BY DEF IInv, TableInv, RunnerInv
<1> QED BY <1>1, Invariance, PTL

\* The activity log, the event log, the row and GitLab tell the same outcome.
THEOREM OneStory == Spec => []JournalAgrees
<1>1. IInv => JournalAgrees
  BY DEF IInv, TableInv, RunnerInv
<1> QED BY <1>1, Invariance, PTL

\* The mark never precedes the mail, and only recorded outcomes are mailed.
THEOREM NoMailLostByMark == Spec => []NotifiedMeansMailed
<1>1. IInv => NotifiedMeansMailed
  BY DEF IInv, TableInv, RunnerInv
<1> QED BY <1>1, Invariance, PTL

----------------------------------------------------------------------------
(* Mails of one instance *)

\* What it has listed and not mailed yet is not marked.
ListIsCurrent == \A w \in Workers : \A j \in todo[w] : ~notified[j]

LEMMA ListStaysCurrent ==
  ASSUME \A v, w \in Workers : v = w, TypeOK, ListIsCurrent, [Next]_vars
  PROVE  ListIsCurrent'
<1>1. ASSUME UNCHANGED notified, \A w \in Workers : todo'[w] \subseteq todo[w] PROVE ListIsCurrent'
  BY <1>1 DEF ListIsCurrent
<1>2. ASSUME UNCHANGED <<notified, todo>> PROVE ListIsCurrent'
  BY <1>1, <1>2
<1>3. ASSUME NEW w \in Workers, ListUnnotified(w) PROVE ListIsCurrent'
  BY <1>3 DEF ListUnnotified, Unnotified, TypeOK, ListIsCurrent
<1>4. ASSUME NEW w \in Workers, MarkNotified(w) PROVE ListIsCurrent'
  <2>1. todo'[w] = todo[w] \ {cur[w]} /\ \A j \in Jobs : j # cur[w] => notified'[j] = notified[j]
    BY <1>4 DEF MarkNotified, TypeOK
  <2> QED BY <2>1 DEF ListIsCurrent, TypeOK
<1>5. ASSUME NEW w \in Workers, NEW j \in Jobs, SendFails(w, j) PROVE ListIsCurrent'
  BY <1>1, <1>5 DEF SendFails, TypeOK
<1>6. ASSUME NEW w \in Workers, Crash(w) PROVE ListIsCurrent'
  BY <1>1, <1>6 DEF Crash, TypeOK
<1>7. ASSUME NEW o \in Owners, NEW j \in Jobs, ScheduleOp(o, j) \/ CancelScheduledJob(o, j) PROVE ListIsCurrent'
  BY <1>2, <1>7 DEF ScheduleOp, CancelScheduledJob, SetFinished
<1>8. ASSUME NEW w \in Workers, RunDueJobs(w) PROVE ListIsCurrent'
  BY <1>2, <1>8 DEF RunDueJobs, ClaimDueJob, NoDueJob, ClaimError, FlipToRunning, CheckGrace, ResolveConfig,
    GitlabClientFor, ExecuteOp, OpReturns, FinishJob, SetFinished, RecordOutcome
<1>9. ASSUME NEW w \in Workers,
             \/ AllMailed(w) \/ ReapExpired(w) \/ SkipReap(w) \/ NextPoll(w) \/ Restart(w)
             \/ \E j \in Jobs : SendJobMail(w, j)
      PROVE  ListIsCurrent'
  BY <1>2, <1>9 DEF AllMailed, ReapExpired, SkipReap, NextPoll, Restart, SendJobMail
<1>10. CASE Tick \/ (\E o \in Owners : EditConfig(o) \/ ChangePAT(o)) \/ UNCHANGED vars
  BY <1>2, <1>10 DEF Tick, EditConfig, ChangePAT, vars
<1> QED BY <1>3, <1>4, <1>5, <1>6, <1>7, <1>8, <1>9, <1>10 DEF Next, Runner, NotifyFinishedJobs

\* jobs_pg.go: the mark is there "so a restart [...] does not send it twice": a
\* single instance never mails what is marked, whatever crashes or fails.
THEOREM MarkedIsNotMailed ==
  ASSUME \A v, w \in Workers : v = w
  PROVE  Spec => NoMailAfterMark
<1>1. Init => ListIsCurrent
  BY DEF Init, ListIsCurrent
<1>2. IInv => TypeOK
  BY DEF IInv
<1>3. TypeOK /\ ListIsCurrent /\ [Next]_vars => ListIsCurrent'
  BY ListStaysCurrent
<1>4. TypeOK /\ ListIsCurrent /\ [Next]_vars =>
        [\A w \in Workers : pc[w] = "mail" /\ pc'[w] = "mark" => ~notified[cur'[w]]]_vars
  <2> SUFFICES ASSUME TypeOK, ListIsCurrent, Next, NEW w \in Workers, pc[w] = "mail", pc'[w] = "mark"
               PROVE  ~notified[cur'[w]]
    BY DEF vars
  <2>1. \E v \in Workers : Runner(v) \/ Crash(v) \/ Restart(v)
    BY DEF Next, Tick, EditConfig, ChangePAT, ScheduleOp, CancelScheduledJob
  <2>2. Runner(w) \/ Crash(w) \/ Restart(w)
    BY <2>1
  <2>3. \E j \in Jobs : SendJobMail(w, j)
    BY <2>2 DEF TypeOK, Runner, Crash, Restart, RunDueJobs, ClaimDueJob, NoDueJob, ClaimError, CheckGrace,
      ResolveConfig, GitlabClientFor, ExecuteOp, OpReturns, FinishJob, RecordOutcome, NotifyFinishedJobs,
      ListUnnotified, MarkNotified, AllMailed, SendFails, ReapExpired, SkipReap, NextPoll
  <2> QED BY <2>3 DEF SendJobMail, FirstToMail, TypeOK, ListIsCurrent
<1> QED BY <1>1, <1>2, <1>3, <1>4, Invariance, PTL DEF Spec, NoMailAfterMark

----------------------------------------------------------------------------
(* JobRunner implements JobLifecycle: every step is a step of the life cycle
   on (status, fired), or leaves both alone. *)

\* Every step of the runner is a step of JobLifecycle or leaves it alone.
LEMMA LifecycleStep ==
  IInv /\ [Next]_vars => [Lifecycle!LifecycleNext]_<<status, fired>>
<1> SUFFICES ASSUME IInv, [Next]_vars, ~UNCHANGED <<status, fired>>
             PROVE  Lifecycle!LifecycleNext
  OBVIOUS
<1> USE DEF Lifecycle!LifecycleNext, Lifecycle!Move
<1>0. TypeOK /\ TableInv /\ RunnerInv
  BY DEF IInv
<1>1. ASSUME NEW o \in Owners, NEW j \in Jobs, ScheduleOp(o, j) PROVE Lifecycle!Schedule(j)
  BY <1>0, <1>1 DEF ScheduleOp, TypeOK, Lifecycle!Schedule
<1>2. ASSUME NEW o \in Owners, NEW j \in Jobs, CancelScheduledJob(o, j) PROVE Lifecycle!Cancel(j)
  BY <1>0, <1>2 DEF CancelScheduledJob, Cancellable, SetFinished, TypeOK, Lifecycle!Cancel
<1>3. ASSUME NEW w \in Workers, ClaimDueJob(w) PROVE \E j \in Jobs : Lifecycle!Claim(j)
  BY <1>0, <1>3 DEF ClaimDueJob, OldestDue, Due, FlipToRunning, TypeOK, Lifecycle!Claim
<1>4. ASSUME NEW w \in Workers, ClaimError(w) PROVE \E j \in Jobs : Lifecycle!Claim(j)
  BY <1>0, <1>4 DEF ClaimError, OldestDue, Due, FlipToRunning, TypeOK, Lifecycle!Claim
<1>5. ASSUME NEW w \in Workers, ExecuteOp(w) PROVE cur[w] \in Jobs /\ Lifecycle!Start(cur[w])
  <2>1. cur[w] \in Jobs /\ status[cur[w]] = "running" /\ fired[cur[w]] = 0
    BY <1>0, <1>5 DEF ExecuteOp, RunnerInv, Owned, Progress
  <2>2. fired' = [fired EXCEPT ![cur[w]] = 1] /\ UNCHANGED status
    BY <2>1, <1>5 DEF ExecuteOp
  <2> QED BY <2>1, <2>2 DEF Lifecycle!Start
<1>6. ASSUME NEW w \in Workers, FinishJob(w) PROVE cur[w] \in Jobs /\ Lifecycle!Finish(cur[w])
  BY <1>0, <1>6 DEF FinishJob, SetFinished, TypeOK, RunnerInv, Owned, VerdictIsTrue,
    Lifecycle!Finish
<1>7. ASSUME NEW w \in Workers, ReapExpired(w)
      PROVE  \E S \in SUBSET Jobs : Lifecycle!Reap(S)
  <2>1. status' = [j \in Jobs |-> IF Reapable(j) THEN "reaped" ELSE status[j]] /\ UNCHANGED fired
    BY <1>7 DEF ReapExpired
  <2>2. \A j \in Jobs : Reapable(j) => status[j] \in Lifecycle!TerminalStatus
    BY <1>0 DEF Reapable, TypeOK, TableInv, Unfinished, Lifecycle!TerminalStatus,
      Lifecycle!MailedStatus
  <2>3. Lifecycle!Reap({j \in Jobs : Reapable(j)})
    BY <2>1, <2>2 DEF Lifecycle!Reap
  <2> QED BY <2>3
<1>8. ASSUME NEW w \in Workers,
             \/ NoDueJob(w) \/ CheckGrace(w) \/ ResolveConfig(w) \/ GitlabClientFor(w)
             \/ OpReturns(w) \/ RecordOutcome(w) \/ NotifyFinishedJobs(w)
             \/ SkipReap(w) \/ NextPoll(w) \/ Crash(w) \/ Restart(w)
      PROVE  UNCHANGED <<status, fired>>
  BY <1>8 DEF NoDueJob, CheckGrace, ResolveConfig, GitlabClientFor, OpReturns, RecordOutcome,
    NotifyFinishedJobs, ListUnnotified, MarkNotified, AllMailed, SendJobMail, SendFails,
    SkipReap, NextPoll, Crash, Restart
<1>9. Tick \/ (\E o \in Owners : EditConfig(o) \/ ChangePAT(o)) \/ UNCHANGED vars
      => UNCHANGED <<status, fired>>
  BY DEF Tick, EditConfig, ChangePAT, vars
<1>10. CASE \E w \in Workers : Runner(w) \/ Crash(w) \/ Restart(w)
  <2>1. PICK w \in Workers : Runner(w) \/ Crash(w) \/ Restart(w)
    BY <1>10
  <2> QED BY <2>1, <1>3, <1>4, <1>5, <1>6, <1>7, <1>8 DEF Runner, RunDueJobs
<1>11. CASE \E o \in Owners, j \in Jobs : ScheduleOp(o, j) \/ CancelScheduledJob(o, j)
  BY <1>11, <1>1, <1>2
<1> QED BY <1>9, <1>10, <1>11 DEF Next

\* Seen from the owner, the runner is the life cycle of web/db/jobs.go: statuses
\* move along its edges only, no operation starts twice, nothing but a finished
\* job is deleted.
THEOREM Refinement == Spec => ImplementsLifecycle
<1>1. Init => Lifecycle!LifecycleInit
  BY DEF Init, Lifecycle!LifecycleInit
<1> QED BY <1>1, LifecycleStep, Invariance, PTL
        DEF Spec, ImplementsLifecycle, Lifecycle!LifecycleSpec, Lifecycle!lifecycleVars
=============================================================================
