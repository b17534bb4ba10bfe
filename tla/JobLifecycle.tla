---------------------------- MODULE JobLifecycle ----------------------------
(***************************************************************************)
(* What a scheduled job promises, independent of runners, clocks and       *)
(* tables: the status machine of web/db/jobs.go and the one fact an owner   *)
(* cares about, whether the operation was started on GitLab.  JobRunner is  *)
(* shown to implement this module.                                          *)
(***************************************************************************)
CONSTANT Jobs

VARIABLES
  status,   \* status[j]: "absent" before scheduling, "reaped" after retention
  starts    \* starts[j]: how often the operation of j was started on GitLab

lifecycleVars == <<status, starts>>

LiveStatus     == {"absent", "pending", "running"}
MailedStatus   == {"done", "failed", "expired"}
TerminalStatus == MailedStatus \cup {"cancelled"}
JobStatus      == LiveStatus \cup TerminalStatus \cup {"reaped"}

Move(j, from, to) ==
  /\ status[j] = from
  /\ status' = [status EXCEPT ![j] = to]
  /\ UNCHANGED starts

Schedule(j) == Move(j, "absent", "pending")
Cancel(j)   == Move(j, "pending", "cancelled")
Claim(j)    == Move(j, "pending", "running")

\* The operation starts at most once, and only while the job is running.
Start(j) ==
  /\ status[j] = "running"
  /\ starts[j] = 0
  /\ starts' = [starts EXCEPT ![j] = 1]
  /\ UNCHANGED status

\* Done needs a started operation, expired one that was never started.
Finish(j) ==
  \/ starts[j] = 1 /\ Move(j, "running", "done")
  \/ Move(j, "running", "failed")
  \/ starts[j] = 0 /\ Move(j, "running", "expired")

\* One sweep deletes any number of finished jobs.
Reap(S) ==
  /\ \A j \in S : status[j] \in TerminalStatus
  /\ status' = [j \in Jobs |-> IF j \in S THEN "reaped" ELSE status[j]]
  /\ UNCHANGED starts

LifecycleInit ==
  /\ status = [j \in Jobs |-> "absent"]
  /\ starts = [j \in Jobs |-> 0]

LifecycleNext ==
  \/ \E j \in Jobs : Schedule(j) \/ Cancel(j) \/ Claim(j) \/ Start(j) \/ Finish(j)
  \/ \E S \in SUBSET Jobs : Reap(S)

LifecycleSpec == LifecycleInit /\ [][LifecycleNext]_lifecycleVars
=============================================================================
