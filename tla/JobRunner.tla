----------------------------- MODULE JobRunner -----------------------------
(***************************************************************************)
(* The scheduled-job runner: the scheduled_jobs table (web/db), the owners  *)
(* who schedule and cancel (web/app/schedule.go), and one poll loop per     *)
(* server instance (web/app/runner.go, web/app/mail.go) against the shared  *)
(* database.  A statement against the database is one step; between two     *)
(* statements anything may happen: a configuration edit, a removed token,   *)
(* another instance, a crash.                                               *)
(***************************************************************************)
EXTENDS Integers

CONSTANTS
  Jobs,            \* job ids (random, never used twice)
  Workers,         \* server instances, each with one runner
  Owners,
  Versions,        \* resolved assignment configurations, told apart by hash
  SeederVersions,  \* those that configure a seeder
  Graces,          \* graceMinutes values a client sends
  DefaultGrace,
  Retention,       \* jobRetention
  ReapInterval,
  MaxTime,         \* bound: the clock stops here
  MaxMails,        \* bound: mails are counted up to here
  Mailer,          \* SMTP is configured
  Faults,          \* which faults the environment may inject
  None

FaultKinds == {"crash", "db", "lostReply", "smtp"}

ASSUME RunnerAssumption ==
  /\ MaxTime \in Nat /\ Retention \in Nat /\ ReapInterval \in Nat
  /\ MaxMails \in Nat \ {0} /\ DefaultGrace \in Nat /\ Graces \subseteq Int
  /\ Mailer \in BOOLEAN /\ Faults \subseteq FaultKinds
  /\ SeederVersions \subseteq Versions
  /\ None \notin Jobs \cup Versions \cup Workers

VARIABLES
  now,
  \* what the owner edits while jobs wait
  config,      \* config[o]: what the assignment resolves to, None if it does not
  pat,         \* pat[o]: a GitLab token is stored
  \* table scheduled_jobs
  status, row, finishedAt, notified, workerID,
  \* the locals of each runner
  pc, cur, cfg, outcome, todo, lastReap,
  \* effects outside the table: starts of an operation on GitLab and the
  \* configuration they used, mails sent, and the outcomes the activity log and
  \* the event log (one verdict, written to both) report for a job
  fired, ranWith, mails, journal

envVars   == <<now, config, pat>>
tableVars == <<status, row, finishedAt, notified, workerID>>
jobVars   == <<cur, cfg, outcome>>
loopVars  == <<todo, lastReap>>
opVars    == <<fired, ranWith>>
vars      == <<envVars, tableVars, pc, jobVars, loopVars, opVars, mails, journal>>

MailedStatus   == {"done", "failed", "expired"}
TerminalStatus == MailedStatus \cup {"cancelled"}
JobStatus      == {"absent", "pending", "running", "reaped"} \cup TerminalStatus
JobRow == [owner : Owners, runAt : Nat, grace : Nat, hash : Versions]

HoldingPc == {"grace", "resolve", "client", "execute", "executing", "finish"}
RunnerPc  == HoldingPc \cup {"claim", "record", "notify", "mail", "mark", "reap", "wait", "down"}

NoTime == -1
Never  == -ReapInterval   \* the zero lastReap: any interval has passed since

----------------------------------------------------------------------------
(* The statements of queries/jobs.sql *)

\* Mutants: ignore runAt, miss the exact instant.
DueAtOnce(j)    == status[j] = "pending"
DueStrictly(j)  == status[j] = "pending" /\ row[j].runAt < now

Due(j) == status[j] = "pending" /\ row[j].runAt <= now

OldestDue(j) == Due(j) /\ \A k \in Jobs : Due(k) => row[j].runAt <= row[k].runAt

FlipToRunning(j, w) ==
  /\ status'   = [status EXCEPT ![j] = "running"]
  /\ workerID' = [workerID EXCEPT ![j] = w]
  /\ UNCHANGED <<row, finishedAt, notified>>

\* `where id = $1`: a row that is gone matches nothing, which is no error.
SetFinished(j, s) ==
  /\ IF status[j] = "reaped"
     THEN UNCHANGED <<status, finishedAt>>
     ELSE /\ status'     = [status EXCEPT ![j] = s]
          /\ finishedAt' = [finishedAt EXCEPT ![j] = now]
  /\ UNCHANGED <<row, notified, workerID>>

\* Mutant: a running job can be cancelled.
CancellableUntilEnd(o, j) == status[j] \in {"pending", "running"} /\ row[j].owner = o
Cancellable(o, j) == status[j] = "pending" /\ row[j].owner = o

\* Mutants: the sweep reads cancelled jobs, mailed ones, or only good news.
UnnotifiedTerminal == {j \in Jobs : status[j] \in TerminalStatus /\ ~notified[j]}
MailedOrNot        == {j \in Jobs : status[j] \in MailedStatus}
UnnotifiedSuccess  == {j \in Jobs : status[j] = "done" /\ ~notified[j]}
Unnotified == {j \in Jobs : status[j] \in MailedStatus /\ ~notified[j]}

\* Mutant: a null finished_at counts as ancient.
ReapableByAge(j) == status[j] \notin {"absent", "reaped"} /\ finishedAt[j] < now - Retention
\* finished_at is null for pending and running jobs, which excludes them.
Reapable(j) ==
  /\ status[j] \notin {"absent", "reaped"}
  /\ finishedAt[j] # NoTime
  /\ finishedAt[j] < now - Retention

----------------------------------------------------------------------------
(* Owners and time *)

GraceOf(g) == IF g = None THEN DefaultGrace ELSE IF g < 0 THEN 0 ELSE g

\* The confirm token carries the hash of the configuration it was planned for;
\* scheduling neither resolves again nor looks for a seeder, and runAt may lie
\* in the past.  The event and the confirmation mail are best effort and nothing
\* reads them.
ScheduleOp(o, j) ==
  /\ status[j] = "absent"
  /\ pat[o]
  /\ \E h \in Versions, r \in 0..MaxTime, g \in Graces \cup {None} :
       row' = [row EXCEPT ![j] = [owner |-> o, runAt |-> r, grace |-> GraceOf(g), hash |-> h]]
  /\ status' = [status EXCEPT ![j] = "pending"]
  /\ UNCHANGED <<envVars, finishedAt, notified, workerID, pc, jobVars, loopVars, opVars, mails, journal>>

CancelScheduledJob(o, j) ==
  /\ Cancellable(o, j)
  /\ SetFinished(j, "cancelled")
  /\ UNCHANGED <<envVars, pc, jobVars, loopVars, opVars, mails, journal>>

EditConfig(o) ==
  /\ config' \in {[config EXCEPT ![o] = v] : v \in Versions \cup {None}}
  /\ UNCHANGED <<now, pat, tableVars, pc, jobVars, loopVars, opVars, mails, journal>>

\* SetGitLabToken and RemoveGitLabToken
ChangePAT(o) ==
  /\ pat' = [pat EXCEPT ![o] = ~@]
  /\ UNCHANGED <<now, config, tableVars, pc, jobVars, loopVars, opVars, mails, journal>>

Tick ==
  /\ now < MaxTime
  /\ now' = now + 1
  /\ UNCHANGED <<config, pat, tableVars, pc, jobVars, loopVars, opVars, mails, journal>>

----------------------------------------------------------------------------
(* runDueJobs and runJob *)

Go(w, from, to) == pc[w] = from /\ pc' = [pc EXCEPT ![w] = to]

ClaimDueJob(w) ==
  /\ Go(w, "claim", "grace")
  /\ \E j \in Jobs :
       /\ OldestDue(j)
       /\ FlipToRunning(j, w)
       /\ cur' = [cur EXCEPT ![w] = j]
  /\ UNCHANGED <<envVars, cfg, outcome, loopVars, opVars, mails, journal>>

NoDueJob(w) ==
  /\ Go(w, "claim", "notify")
  /\ \A j \in Jobs : ~Due(j)
  /\ UNCHANGED <<envVars, tableVars, jobVars, loopVars, opVars, mails, journal>>

\* An error ends the round.  The update may have been committed all the same,
\* when only the answer was lost or the returned row cannot be decoded.
ClaimError(w) ==
  /\ Go(w, "claim", "notify")
  /\ \/ "db" \in Faults /\ UNCHANGED tableVars
     \/ /\ "lostReply" \in Faults
        /\ \E j \in Jobs : OldestDue(j) /\ FlipToRunning(j, w)
  /\ UNCHANGED <<envVars, jobVars, loopVars, opVars, mails, journal>>

\* finishJob is entered with the status to record.
Verdict(w, s) == outcome' = [outcome EXCEPT ![w] = s]

TooLate(j) == now > row[j].runAt + row[j].grace

CheckGrace(w) ==
  /\ \/ Go(w, "grace", "finish") /\ TooLate(cur[w]) /\ Verdict(w, "expired")
     \/ Go(w, "grace", "resolve") /\ ~TooLate(cur[w]) /\ UNCHANGED outcome
  /\ UNCHANGED <<envVars, tableVars, cur, cfg, loopVars, opVars, mails, journal>>

\* Mutant: the hash is not looked at.
RejectedIfUnresolved(v, j) == v = None \/ v \in SeederVersions
\* The re-resolved configuration v may not be run for job j.
Rejected(v, j) == v = None \/ v # row[j].hash \/ v \in SeederVersions

ResolveConfig(w) ==
  LET v == config[row[cur[w]].owner] IN
  /\ \/ /\ Go(w, "resolve", "finish")
        /\ Rejected(v, cur[w]) \/ "db" \in Faults
        /\ Verdict(w, "failed")
        /\ UNCHANGED cfg
     \/ /\ Go(w, "resolve", "client")
        /\ ~Rejected(v, cur[w])
        /\ cfg' = [cfg EXCEPT ![w] = v]
        /\ UNCHANGED outcome
  /\ UNCHANGED <<envVars, tableVars, cur, loopVars, opVars, mails, journal>>

GitlabClientFor(w) ==
  /\ \/ /\ Go(w, "client", "finish")
        /\ ~pat[row[cur[w]].owner] \/ "db" \in Faults
        /\ Verdict(w, "failed")
     \/ /\ Go(w, "client", "execute")
        /\ pat[row[cur[w]].owner]
        /\ UNCHANGED outcome
  /\ UNCHANGED <<envVars, tableVars, cur, cfg, loopVars, opVars, mails, journal>>

\* executeOp runs on the configuration resolved above, whatever it is now.
ExecuteOp(w) ==
  /\ Go(w, "execute", "executing")
  /\ fired' = [fired EXCEPT ![cur[w]] = @ + 1]
  /\ ranWith' = [ranWith EXCEPT ![cur[w]] = cfg[w]]
  /\ UNCHANGED <<envVars, tableVars, jobVars, loopVars, mails, journal>>

\* It returns, returns an error, or panics (recovered as a failure).
OpReturns(w) ==
  /\ Go(w, "executing", "finish")
  /\ \E s \in {"done", "failed"} : Verdict(w, s)
  /\ UNCHANGED <<envVars, tableVars, cur, cfg, loopVars, opVars, mails, journal>>

\* finishJob: a write that fails is only logged, and the loop moves on.
FinishJob(w) ==
  /\ Go(w, "finish", "record")
  /\ \/ SetFinished(cur[w], outcome[w])
     \/ "db" \in Faults /\ UNCHANGED tableVars
  /\ UNCHANGED <<envVars, jobVars, loopVars, opVars, mails, journal>>

\* recordOp and recordEvent, best effort; then the next claim.
RecordOutcome(w) ==
  /\ Go(w, "record", "claim")
  /\ \/ journal' = [journal EXCEPT ![cur[w]] = @ \cup {outcome[w]}]
     \/ "db" \in Faults /\ UNCHANGED journal
  /\ cur' = [cur EXCEPT ![w] = None]
  /\ cfg' = [cfg EXCEPT ![w] = None]
  /\ outcome' = [outcome EXCEPT ![w] = None]
  /\ UNCHANGED <<envVars, tableVars, loopVars, opVars, mails>>

----------------------------------------------------------------------------
(* notifyFinishedJobs *)

ListUnnotified(w) ==
  /\ \/ /\ Mailer
        /\ Go(w, "notify", "mail")
        /\ todo' = [todo EXCEPT ![w] = Unnotified]
     \/ /\ ~Mailer \/ "db" \in Faults
        /\ Go(w, "notify", "reap")
        /\ UNCHANGED todo
  /\ UNCHANGED <<envVars, tableVars, jobVars, lastReap, opVars, mails, journal>>

FirstToMail(w, j) ==
  j \in todo[w] /\ \A k \in todo[w] : finishedAt[j] <= finishedAt[k]

SendJobMail(w, j) ==
  /\ FirstToMail(w, j)
  /\ Go(w, "mail", "mark")
  /\ cur' = [cur EXCEPT ![w] = j]
  /\ mails' = [mails EXCEPT ![j] = IF @ < MaxMails THEN @ + 1 ELSE @]
  /\ UNCHANGED <<envVars, tableVars, cfg, outcome, loopVars, opVars, journal>>

\* Left unnotified for the next tick; the mails after it are still tried.
SendFails(w, j) ==
  /\ "smtp" \in Faults
  /\ pc[w] = "mail"
  /\ FirstToMail(w, j)
  /\ todo' = [todo EXCEPT ![w] = @ \ {j}]
  /\ UNCHANGED <<envVars, tableVars, pc, jobVars, lastReap, opVars, mails, journal>>

MarkNotified(w) ==
  /\ Go(w, "mark", "mail")
  /\ \/ /\ status[cur[w]] # "reaped"
        /\ notified' = [notified EXCEPT ![cur[w]] = TRUE]
     \/ status[cur[w]] = "reaped" /\ UNCHANGED notified
     \/ "db" \in Faults /\ UNCHANGED notified
  /\ todo' = [todo EXCEPT ![w] = @ \ {cur[w]}]
  /\ cur' = [cur EXCEPT ![w] = None]
  /\ UNCHANGED <<envVars, status, row, finishedAt, workerID, cfg, outcome, lastReap, opVars, mails, journal>>

AllMailed(w) ==
  /\ Go(w, "mail", "reap")
  /\ todo[w] = {}
  /\ UNCHANGED <<envVars, tableVars, jobVars, loopVars, opVars, mails, journal>>

----------------------------------------------------------------------------
(* The rest of the poll loop *)

ReapDue(w) == now - lastReap[w] >= ReapInterval

\* lastReap advances whether or not the delete succeeded.
ReapExpired(w) ==
  /\ Go(w, "reap", "wait")
  /\ ReapDue(w)
  /\ \/ status' = [j \in Jobs |-> IF Reapable(j) THEN "reaped" ELSE status[j]]
     \/ "db" \in Faults /\ UNCHANGED status
  /\ lastReap' = [lastReap EXCEPT ![w] = now]
  /\ UNCHANGED <<envVars, row, finishedAt, notified, workerID, jobVars, todo, opVars, mails, journal>>

SkipReap(w) ==
  /\ Go(w, "reap", "wait")
  /\ ~ReapDue(w)
  /\ UNCHANGED <<envVars, tableVars, jobVars, loopVars, opVars, mails, journal>>

NextPoll(w) ==
  /\ Go(w, "wait", "claim")
  /\ UNCHANGED <<envVars, tableVars, jobVars, loopVars, opVars, mails, journal>>

\* The process ends, by a crash or a SIGTERM: nothing waits for the runner,
\* whose context is never cancelled.  Its locals are gone, the table stays.
Crash(w) ==
  /\ "crash" \in Faults
  /\ pc[w] # "down"
  /\ pc' = [pc EXCEPT ![w] = "down"]
  /\ cur' = [cur EXCEPT ![w] = None]
  /\ cfg' = [cfg EXCEPT ![w] = None]
  /\ outcome' = [outcome EXCEPT ![w] = None]
  /\ todo' = [todo EXCEPT ![w] = {}]
  /\ lastReap' = [lastReap EXCEPT ![w] = Never]
  /\ UNCHANGED <<envVars, tableVars, opVars, mails, journal>>

Restart(w) ==
  /\ Go(w, "down", "claim")
  /\ UNCHANGED <<envVars, tableVars, jobVars, loopVars, opVars, mails, journal>>

----------------------------------------------------------------------------

Init ==
  /\ now = 0
  /\ config \in [Owners -> Versions]
  /\ pat = [o \in Owners |-> TRUE]
  /\ status = [j \in Jobs |-> "absent"]
  /\ row = [j \in Jobs |-> None]
  /\ finishedAt = [j \in Jobs |-> NoTime]
  /\ notified = [j \in Jobs |-> FALSE]
  /\ workerID = [j \in Jobs |-> None]
  /\ pc = [w \in Workers |-> "claim"]
  /\ cur = [w \in Workers |-> None]
  /\ cfg = [w \in Workers |-> None]
  /\ outcome = [w \in Workers |-> None]
  /\ todo = [w \in Workers |-> {}]
  /\ lastReap = [w \in Workers |-> Never]
  /\ fired = [j \in Jobs |-> 0]
  /\ ranWith = [j \in Jobs |-> None]
  /\ mails = [j \in Jobs |-> 0]
  /\ journal = [j \in Jobs |-> {}]

RunDueJobs(w) ==
  \/ ClaimDueJob(w) \/ NoDueJob(w) \/ ClaimError(w)
  \/ CheckGrace(w) \/ ResolveConfig(w) \/ GitlabClientFor(w)
  \/ ExecuteOp(w) \/ OpReturns(w) \/ FinishJob(w) \/ RecordOutcome(w)

NotifyFinishedJobs(w) ==
  \/ ListUnnotified(w) \/ MarkNotified(w) \/ AllMailed(w)
  \/ \E j \in Jobs : SendJobMail(w, j) \/ SendFails(w, j)

\* StartJobRunner: one turn of the loop after another
Runner(w) ==
  RunDueJobs(w) \/ NotifyFinishedJobs(w) \/ ReapExpired(w) \/ SkipReap(w) \/ NextPoll(w)

Next ==
  \/ Tick
  \/ \E o \in Owners : EditConfig(o) \/ ChangePAT(o)
  \/ \E o \in Owners, j \in Jobs : ScheduleOp(o, j) \/ CancelScheduledJob(o, j)
  \/ \E w \in Workers : Runner(w) \/ Crash(w) \/ Restart(w)

Spec == Init /\ [][Next]_vars

(***************************************************************************)
(* Fairness.  A process that is up keeps executing, one that is down is     *)
(* restarted, an operation started on GitLab returns, and time passes.      *)
(* Faults are transient: a claim, a listing, a mail or a mark that is tried *)
(* again and again is not cut off by an error or a crash for ever.          *)
(***************************************************************************)
Fairness ==
  /\ WF_vars(Tick)
  /\ \A w \in Workers :
       /\ WF_vars(Runner(w))
       /\ WF_vars(Restart(w))
       /\ SF_vars(ClaimDueJob(w))
       /\ SF_vars(NoDueJob(w))
       /\ SF_vars(ListUnnotified(w) /\ pc'[w] = "mail")
       /\ SF_vars(MarkNotified(w) /\ notified' # notified)
       /\ \A j \in Jobs : SF_vars(SendJobMail(w, j))

FairSpec == Spec /\ Fairness

----------------------------------------------------------------------------
(* Correctness *)

\* Type invariant: the table rows, the runner locals and the counters hold what
\* ScheduledJob, the loop's variables and the columns of the table hold.
TypeOK ==
  /\ now \in Nat
  /\ config \in [Owners -> Versions \cup {None}]
  /\ pat \in [Owners -> BOOLEAN]
  /\ status \in [Jobs -> JobStatus]
  /\ row \in [Jobs -> JobRow \cup {None}]
  /\ \A j \in Jobs : status[j] # "absent" => row[j] \in JobRow
  /\ finishedAt \in [Jobs -> Int]
  /\ notified \in [Jobs -> BOOLEAN]
  /\ workerID \in [Jobs -> Workers \cup {None}]
  /\ pc \in [Workers -> RunnerPc]
  /\ cur \in [Workers -> Jobs \cup {None}]
  /\ cfg \in [Workers -> Versions \cup {None}]
  /\ outcome \in [Workers -> MailedStatus \cup {None}]
  /\ todo \in [Workers -> SUBSET Jobs]
  /\ lastReap \in [Workers -> Int]
  /\ fired \in [Jobs -> Nat]
  /\ ranWith \in [Jobs -> Versions \cup {None}]
  /\ mails \in [Jobs -> Nat]
  /\ journal \in [Jobs -> SUBSET MailedStatus]

\* "Exactly one runner ever owns a given job": whatever crashes and interleaves,
\* a job a runner works on is running in the table, in this runner's name.
Owned ==
  \A w \in Workers : pc[w] \in HoldingPc =>
    cur[w] \in Jobs /\ status[cur[w]] = "running" /\ workerID[cur[w]] = w

\* An operation is started on GitLab at most once for a job, by whichever
\* instance, across restarts, lost answers and failed writes.
FiredAtMostOnce == \A j \in Jobs : fired[j] <= 1

\* The recorded status tells the owner whether GitLab was touched: a job that is
\* waiting, cancelled or expired never started; a done one did.
StatusTellsWhetherItRan ==
  \A j \in Jobs :
    /\ status[j] \in {"absent", "pending", "cancelled", "expired"} => fired[j] = 0
    /\ status[j] = "done" => fired[j] = 1

\* A job runs only the configuration it was planned with, and never one with a
\* seeder, even when the configuration is edited while the runner is at work.
RanAsPlanned ==
  \A j \in Jobs : fired[j] > 0 =>
    ranWith[j] = row[j].hash /\ ranWith[j] \notin SeederVersions

\* A job starts no earlier than runAt, and is given up only after its grace
\* window: no schedule and no outage moves a start before the owner's time.
Punctual ==
  \A j \in Jobs :
    /\ fired[j] > 0 => row[j].runAt <= now
    /\ status[j] = "expired" => finishedAt[j] > row[j].runAt + row[j].grace

\* The journal tells one story: at most one outcome is reported for a job, it is
\* what the row says wherever the row has an outcome, and it is true of GitLab.
JournalAgrees ==
  \A j \in Jobs : \A s \in journal[j] :
    /\ journal[j] = {s}
    /\ status[j] \in {"running", s, "reaped"}
    /\ s = "done" => fired[j] = 1
    /\ s = "expired" => fired[j] = 0

\* No mail is lost by the mark: a row is flagged notified only after its mail
\* went out, and only outcomes the owner did not cause are mailed.
NotifiedMeansMailed ==
  \A j \in Jobs :
    /\ notified[j] => mails[j] > 0
    /\ mails[j] > 0 => status[j] \in MailedStatus \cup {"reaped"}

\* The table and GitLab together behave as JobLifecycle says: statuses move only
\* along its edges, terminal ones are final, only finished jobs are deleted.
Lifecycle == INSTANCE JobLifecycle WITH starts <- fired
ImplementsLifecycle == Lifecycle!LifecycleSpec

\* A job whose time has come does not wait for ever, whatever crashes.
DueJobLeavesPending ==
  \A j \in Jobs : (status[j] = "pending" /\ row[j].runAt <= now) ~> status[j] # "pending"

\* Every recorded outcome reaches its owner by mail before retention deletes it:
\* failed sends, failed marks and restarts only delay it.
OutcomeIsMailed ==
  \A j \in Jobs : status[j] \in MailedStatus ~> (notified[j] \/ status[j] = "reaped")

\* jobs_pg.go: the mark is there "so a restart [...] does not send it twice": what
\* one instance has marked it never mails again, across crashes and restarts.
NoMailAfterMark ==
  [][\A w \in Workers : pc[w] = "mail" /\ pc'[w] = "mark" => ~notified[cur'[w]]]_vars

----------------------------------------------------------------------------
(* What has to be known of the runners' locals for the invariants above to be
   inductive; JobRunnerProofs proves that it is. *)

\* While a runner works on a job, what it is about to do has not been done.
Progress ==
  \A w \in Workers :
    /\ pc[w] \in {"grace", "resolve", "client", "execute"} => fired[cur[w]] = 0
    /\ pc[w] = "executing" => fired[cur[w]] = 1
    /\ pc[w] \in {"client", "execute"} =>
         cfg[w] = row[cur[w]].hash /\ cfg[w] \notin SeederVersions
    /\ pc[w] \in HoldingPc => row[cur[w]].runAt <= now /\ journal[cur[w]] = {}

\* The verdict a runner is about to record is true of what it did.
VerdictIsTrue ==
  \A w \in Workers : pc[w] \in {"finish", "record"} =>
    /\ cur[w] \in Jobs
    /\ workerID[cur[w]] = w
    /\ outcome[w] \in MailedStatus
    /\ outcome[w] = "done" => fired[cur[w]] = 1
    /\ outcome[w] = "expired" => fired[cur[w]] = 0 /\ TooLate(cur[w])
    /\ journal[cur[w]] = {}
    /\ status[cur[w]] \in {"running", outcome[w], "reaped"}

\* What waits to be mailed or marked has ended, and what is marked was mailed.
MailQueue ==
  \A w \in Workers :
    /\ \A j \in todo[w] : status[j] \in MailedStatus \cup {"reaped"}
    /\ pc[w] = "mark" => cur[w] \in Jobs /\ mails[cur[w]] > 0

\* A row nobody has finished has no finish time, no journal and no mail.
Unfinished ==
  \A j \in Jobs :
    /\ status[j] \in {"absent", "pending", "running"} => finishedAt[j] = NoTime
    /\ status[j] \in {"absent", "pending", "cancelled"} => journal[j] = {}

\* What holds of the table, of GitLab and of the mail server ...
TableInv ==
  /\ FiredAtMostOnce
  /\ StatusTellsWhetherItRan
  /\ RanAsPlanned
  /\ Punctual
  /\ JournalAgrees
  /\ NotifiedMeansMailed
  /\ Unfinished

\* ... and of the runners' locals in relation to them.
RunnerInv ==
  /\ Owned
  /\ Progress
  /\ VerdictIsTrue
  /\ MailQueue

\* The inductive strengthening of every safety invariant of this module.
IInv == TypeOK /\ TableInv /\ RunnerInv
=============================================================================
