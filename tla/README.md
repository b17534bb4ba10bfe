# A verification of glabs in TLA+

glabs manages GitLab repositories for programming courses: a command line
(`cmd/`) and a web server (`web/`) share one configuration package (`config/`)
and one GitLab package (`gitlab/`). This directory holds TLA+ modules of the
parts where order, time, failure or several actors decide whether the program
is right, the TLC configurations that check them, and TLAPS proofs of what
matters most. `PROJECT.json` lists components, runs, mutants (for every checked
property a plausible bug the run detects), the source lines of every
definition, the hazards and the theorems.

    tlc -workers 2 -config JobRunner_safety.cfg MCJobRunner.tla
    tlapm JobRunnerProofs.tla

## Inventory

What the system consists of, what each part keeps, what it does, what is hard
about it, and what it must guarantee.

| Part | State | Operations | Hard because | Must guarantee |
|---|---|---|---|---|
| Scheduled-job runner (`web/app/runner.go`, `mail.go`, `web/db/jobs_pg.go`) | table `scheduled_jobs`; per instance the loop's locals, `lastReap` | claim, grace check, re-resolve, execute, finish, record, mail sweep, retention sweep | several instances, crashes between any two statements, lost answers, wall clock, configuration edited while a job waits | an operation starts at most once, only as planned, only in its window; status, logs and mails tell the truth; due jobs and outcomes do not get stuck |
| Scheduling (`web/app/schedule.go`) | rows of the same table | schedule, cancel | races with the claim | a cancelled job never runs |
| Interactive operations (`web/app/run_op.go`, `op_plan.go`, `exclusive.go`, `web/graph/op.resolvers.go`) | sealed plan tokens, `opGuard.busy`, one goroutine and one buffered channel per operation, one forwarder per subscription | plan, run, forward, disconnect | tokens go stale and expire, clients leave, the channel fills up | runs what was planned, one operation per assignment, no lost line, no hang |
| Access gate (`web/app/access.go`, `web/graph/access_gate.go`, `web/db/users_pg.go`) | table `users`, status cache with TTL | gate a field, request access, decide, reset | cache against table, several tabs, several administrators, changes by hand | nobody passes who was not approved within the TTL; one mail per request; errors let nobody in |
| Course store (`web/app/courses.go`, `web/db/courses_pg.go`) | table `courses`, each row a source and its YAML | import, create, edit, rename, delete | read-modify-write without a lock, rename in two statements | the YAML decodes to the source, no course is lost, an edit touches its part only |
| Assignment editing and resolution (`web/app/assignments.go`, `config/resolve.go`, `config/inheritance.go`) | the assignments of a course, `extends` between them | set, copy, rename, delete, import, resolve | inheritance chains, names compared in two ways | editing one assignment does not break another, resolution is a function |
| Nightly summary (`web/app/summary.go`, `web/db/system_pg.go`) | marker `last_summary_at`, the event log | wait for the hour, collect a window, mail every recipient, advance the marker | restarts, partial failures, events written late, change of daylight saving time | no event is skipped while the marker can be read, none is mailed twice |
| Event and activity logs (`web/app/events.go`, `activity.go`) | append-only tables | record (best effort), prune, login throttle | best effort by design | a failed write never breaks an operation |
| Personal GitLab token (`web/app/gitlab_token.go`, `web/secrets`) | sealed token per owner | set, remove, unseal | removed while operations wait | an operation without a token does not start |
| GitLab operations (`gitlab/generate.go`, `projects.go`, `setaccess.go`, `protect.go`, `branches.go`, `issues.go`, `archive.go`, `delete.go`, `update.go`, `push.go`) | none of its own; projects, members, branches and issues on GitLab | generate, protect, set access, replicate issues, archive, delete, update | a sequence of calls each of which can fail; run again after a failure | students keep their work and nobody else gets access; an operation that no call failed in is complete; no error means protected; a repeated protect gets through |
| Report and check streams (`web/app/report_stream.go`, `check.go`) | one unbuffered channel per stream, one goroutine per assignment of an overview | produce, forward, cancel | the consumer leaves in the middle, goroutines end in any order | every goroutine ends; done comes once, last and after everything |
| Command line, GraphQL mapping, mail templates, observability, database set-up, start-up, generated code | - | - | - | see "Not modelled" |

**How the parts interact.** The resolvers of `web/graph` call `web/app`; every
application call reads and writes the database by single statements (there is
no transaction that spans two of them). `RunOp` and the runner both end in
`executeOp`, which calls the GitLab package with a client built from the owner's
token. Events and activities are written by all parts and read only by the
administrator's views and the nightly summary. The graph's field middleware asks
the access gate before every resolver. The runner, the summary mailer and the
server are goroutines of one process; several processes may share one database.

## The modules

Every family has an MC module and a configuration for TLC; proofs are in a
`...Proofs` module of their own.

| Modules | Of | Abstract specification or reference | Proved |
|---|---|---|---|
| `JobRunner`, `JobLifecycle` | scheduled jobs | `JobLifecycle`, implemented by `JobRunner` | all safety invariants, the refinement |
| `AccessGate`, `AccessRow` | access requests and the gate | `AccessRow`, implemented by `AccessGate` | safety invariants, the refinement |
| `OpRun` | interactive operations | - | the guard, what runs is what was planned, no line is lost |
| `CourseStore` | courses in the database | - | the YAML decodes to the source; requests that come one at a time lose no course |
| `SummaryMailer` | the nightly digest | - | nothing is skipped but by runs without a marker; no night is reported twice |
| `Repositories` | generate, set access, update, push, archive, unarchive, delete | - | access, students' work, deletes; what nothing disturbs is complete |
| `IssueReplication` | issues of the starter code in a new project | - | none again once answered, the right parent; all is copied if nothing fails |
| `Streams` | reports, checks, overview | - | one done event, at the end, after everything (in `OpRunProofs`) |
| `BranchRules`, `ProtectBranch` | branches, protection, approvals | the rules as written, against their resolution and what GitLab ends with | all its safety properties, and how the lists of branches resolve |
| `Assignments` | assignments of a course, inheritance | inheritance as an author thinks of it (`ResolvesAsWritten`) | all its properties (in `CourseStoreProofs`) |
| `Roster` | who gets which repository | - | `OneRepositoryEach`, of `Assignments` (in `CourseStoreProofs`) |

`JobRunner`, `OpRun` and `Repositories` meet at one point: the operation that the
first two start and wait for is a run of the third, and since the scheduled
runner does not ask the guard of the interactive operations, `Repositories` lets two
operations run on one assignment. `Repositories` has the branch rules and the
issues of a new project as one step; `ProtectBranch` and `IssueReplication` are
what that step consists of.

## How they correspond to the code

Common conventions. A statement against the database, a mail, a call of GitLab
and a read of the clock are one step each; nothing else of a function is, so
between two of them every other actor may act. An error the environment may
inject is an element of `Faults` (`Env` in `OpRun`): `db`, a statement fails;
`lostReply`/`lost`, it commits and the answer does not arrive; `smtp`, a mail
fails; `crash`, the process ends and loses its locals; `byHand`, somebody edits
the table. Definitions named after a `Mutant:` comment are the plausible bugs of
`PROJECT.json`; no action uses them. Variables called history or ghost in their
comment are read by properties and bounds, never by a guard.

### JobLifecycle, JobRunner

`JobLifecycle` is the promise of `web/db/jobs.go`: the edges of the status
machine, and that an operation starts on GitLab at most once and only from
`running`.

`JobRunner` is the table (`status`, `row`, `finishedAt`, `notified`,
`workerID`, the columns the code writes after the insert), the owners
(`ScheduleOp`, `CancelScheduledJob`, a configuration edit, a token that comes
and goes) and one loop per instance. `pc[w]` is the statement of the loop that
comes next; `cur`, `cfg`, `outcome`, `todo` and `lastReap` are its locals.

| Code | Actions |
|---|---|
| `runDueJobs` and the claim of `jobs.sql` | `ClaimDueJob`, `NoDueJob`, `ClaimError` |
| `runJob` | `CheckGrace`, `ResolveConfig`, `GitlabClientFor`, `ExecuteOp`, `OpReturns` |
| `finishJob`, `recordOp`, `recordEvent` | `FinishJob`, `RecordOutcome` |
| `notifyFinishedJobs` | `ListUnnotified`, `SendJobMail`, `SendFails`, `MarkNotified`, `AllMailed` |
| the sweep and the ticker of `StartJobRunner` | `ReapExpired`, `SkipReap`, `NextPoll` |
| end and start of a process | `Crash`, `Restart` |

Two writes are one step here: the activity log and the event log get the same
verdict in the same best-effort way, one after the other, and nothing reads the
one without the other.

### AccessRow, AccessGate

`AccessRow` is what a row of `users` may do: be created as pending, be decided,
be deleted. `AccessGate` is the table (`access`), the status cache, the requests
(`Tabs`), each a thread that asks the gate for a field or asks for access, and
the administrators (`Deciders`). The lookup is the code's: `Ask` reads the clock,
`LookUp` looks into the cache under its mutex, `GetUserAccess` reads the row,
`Put` stores what was read under the clock of the beginning. `InsertAccessRequest`
creates or finds the row; `Decide` and `ResetUser` write it, `DropTarget` and
`DropRequester` drop the cache entry after the write, the mails follow.
`EditByHand` is a change of the table by somebody else.

### OpRun

A subscription `r` of `runOp`: `OpenOpToken`, `ResolveConfig`, `TryBegin` and
`GitlabClientFor` are the checks of `RunOp` in their order; a check that fails
ends the subscription, and after `tryBegin` gives the slot back. Then two
goroutines run: the operation (`Start` to `Close`, one action per line it emits
and per deferred call) and the forwarder of the resolver (`Receive`, `Deliver`,
`StopForwarding`). `buf[r]` is the channel, `connected[r]` the context of the
subscription; a send on a full channel waits for room or for the context. Plan
tokens are records that clients hold and may use again; sealing is taken as
what it is for, a token that cannot be forged or altered. What the operation
does to GitLab is the one step `OpReturns`.

### CourseStore

A request is its first read, then (`RenameCourse`) the check of the new name,
the save, an upsert on owner and name, and the delete of the old row. A course
is its parts (settings, roster, assignments), the YAML stored beside them, and a
ghost id that tells which course it is. A file (`File`) names its course in the top-level key
and has a text for each part. `Decode` takes a text to its value and drops what the
structs of `config/` do not keep, unknown keys and an explicit `false`; `Encode` writes the
one text the encoder makes of a value. An uploaded course (`ImportedRow`) is kept as the
file it came in beside what was decoded from it, so its YAML may say more than its
source; every other save encodes the source again, which is when the rest is lost.
An imported block of YAML is the one edit that starts from the stored YAML instead of
the stored source, so the one has to decode to the other.

### SummaryMailer

Each instance computes the next run (`Arm`), wakes (`Wake`), reads the marker
(`SystemState`), collects the events of the half-open window (`EventsBetween`),
mails one recipient after the other (`Send`, `AllSent`) and stores the marker
(`SetSummarySentAt`); any error ends the run. Time is counted in hours and may
be shifted once against local time. An event is stamped (`StampEvent`) and
inserted later (`RecordEvent`). `timely` remembers which events came into the
log before a window that contains them was read. A run that has no marker, on a fresh
install or because it could not be read, takes the last day for its window (`blind`)
and then moves the marker to its end: `leftOut` remembers the instants in between,
whose events no later window has. The promise of the code can only be about what is
in the first and not in the second, and `NothingIsSkipped` says that it holds of all of that.

### Repositories

`run[w]` is an operation under way: its `pc`, the target it is at (`t`), the
project it found or made (`found`, with the id GitLab gave it), whether it made
it (`mine`), and what is left of its inner loops. `w` is an interactive or a
scheduled operation; both may run at once. A project has its branches, each with what was
pushed last (`base`) and whether students have committed to it since (`work`), whether it is set up and
archived, the images in its registry and the level of each user. Students commit on the
branch of the starter code and on the one deferred branches go to (`deferred`), which may be the same.

A student is looked up by a search (`Finds`), and the only hit is taken without a look at
who it is (`Single`); with none or several the student is invited by mail, if there is an
address (`Invited`). `grant` is the account a member was taken for. `LevelsSet` says what adding,
editing or inviting leaves: an owner stays one, a level that comes from a parent group
cannot be edited. In `SetMember` the look-up of the member and the call
that follows it are one step, as either way the level asked for is set.

| Code | Actions |
|---|---|
| `Generate` and the other entry points, the group and the clone | `Start`, `FindGroup`, `Done` |
| `generateProject`, `getProjectByName` | `CreateProject`, `SearchProject` |
| `pushStartercode`, the branch rules and issues | `PushStarter`, `SetUp` |
| `setaccess.go`, `users.go` | `GetProject`, `FindUser`, `SetMember`, `MembersSet` |
| `push.go`, `git/push.go` | `SearchProject`, `PushDeferred` |
| `update.go`, `archive.go` | `GetProject`, `PushStarter`, `Archive` |
| `delete.go` | `SearchGroup`, `ListImages`, `DeleteImage` (tag by tag), `DeleteProject` |
| students, pipelines, the process | `Commit`, `PushImage`, `Crash` |

Each call may fail, with its effect or without it; a crash ends all operations.

### ProtectBranch, BranchRules

One project, its branches, protections, approval rules and approval settings. A
run is `syncConfiguredBranches` and the protect operation, call by call; its
locals are what the code reads at the beginning of each part and uses later
(`read`, `listed`, `byName`, `anyRef`). The configuration comes through
`BranchRules`, the translation of `resolveBranches`, `resolveApprovalRules` and
`branch_access.go`, whose several entries for one branch and legacy keys are the
hard part. A call fails, fails with its effect, or is refused; somebody changes
protections by hand.

### IssueReplication

The plan (`queue`, `ordered`, `parentOf`: a breadth-first walk over the child
tasks of the configured issues), one copy per planned issue with its bare retry
and the close, and at the end the attachment of children. `PrepareMetadata` is the look-up of
assignees and labels, which leaves out what it cannot determine (an issue's
labels go by name and are sent in any case). A create that is answered 429 or 5xx is sent again by
the client itself (`Resend`, up to `MaxResends` times), with or without having made an issue the
first time; the code sees the last answer only, and then repeats the create without
metadata. `created` is what the code remembers; `copies` is what the new project has: they
differ after such an answer, and `lost` counts those that made a copy. `Edit` is the lecturer who moves a child while the plan is made.

### Streams

`main` is the goroutine that produces and closes the channel, `work` one per
assignment of the overview, `forwarder` the goroutine of the resolver and `inFlight` the
event it holds, `left` the context. A channel without buffer makes a send and its receive one step, and
every send gives up when the client has left. The overview starts a goroutine per
assignment and has slots (`sem`) for the listings.

### Assignments, Roster

`course` is the YAML of a course: the own keys of each assignment. Three fields
stand for the fields an assignment may have: a flag and the url and tag of the starter
code, which is a nested block. Every edit is decode, change, encode, validate, as
in `assignments.go`; resolution is on the YAML, as in `resolve.go`: look up
without regard to case, walk up, merge down, check. Results of
resolution are sets, because a look-up among names that differ in case only has
several outcomes. `Roster` has pure functions: repository names with the slug
GitLab makes, the rosters of a course and of its assignments under patterns, and
the check of a course. `OneRepositoryEach` states what they promise together; it says
nothing of a state, and the run evaluates it over small rosters. What an edit may do to
the assignments it is not about is one action property, `EditsKeepTheRest`, of four named
parts: nothing outside of what is below the edited one changes its meaning
(`StaysBelow`), a rename leaves every meaning as it was (`RenameKeepsAll`), a copy means
what its original means (`CopyIsTheSame`), and no edit closes a circle of concrete
assignments (`NoNewCycle`). Each says for which courses: not for one whose names differ in case
only, for instance, where a look-up has several outcomes.

## What the runs check

| Run | Instance | Question | Distinct states |
|---|---|---|---|
| `safety` | two instances, one job, two configurations one of which has a seeder, every fault | is the table true of GitLab, journal and mails, and does it implement the life cycle | 904,314 |
| `progress` | one instance, two jobs, transient faults, crashes | do due jobs leave `pending`, do outcomes get mailed, and not again once marked | 43,904 |
| `access` | two tabs of a configured administrator, another administrator, every fault, changes by hand | does the gate let in only who was approved within the TTL, is a request announced once, does nothing undo a decision | 1,080,527 |
| `oprun_guard` | two subscriptions, two owners, plans that expire, edits, crashes | is the guard's state that of the operations, does what runs equal what was planned | 611,244 |
| `oprun_stream` | one subscription, a channel of two, a client that leaves | is no line lost, does neither operation nor forwarder hang | 37,880 |
| `courses_one` | one request, three names, texts that say more than their value, every fault | is no course lost, does the YAML decode to the source | 112,630 |
| `summary_nights` | one instance, two recipients, two events, three nights, with a marker or without one, every fault | is nothing skipped but what a run without a marker passed over, nothing below the marker mailed again, is the hour right | 670,195 |
| `repositories` | two of seven operations, one after the other or at once, two projects, four accounts, two branches, one fault | is work kept, who is let in and why, is only a target deleted; is what ends without a failure complete | 1,216,892 |
| `protection` | two runs on one project, seven configurations, leftover rules of either kind, one fault, one change by hand | is no branch opened by an update, does "no error" mean protected and approved, does a repetition succeed | 358,020 |
| `issues` | four issues, three hierarchies, three faults, one resend by the client, one edit of the source | is an issue copied again only if the answer said it failed, is it below its parent, and is all copied if nothing fails | 531,880 |
| `assignments` | four names, three edits of three courses; all small rosters | does an edit reach only what it should, does what lint passes resolve; names, patterns, groups | 86,195 |
| `streams` | a report, an overview of four assignments with two slots, a refusal | is done sent once, last and after everything, is nothing left running | 8,735 |

`QuietOpsComplete`, `OkMeansConfigured`, `ResolvesAsWritten`, `EditsKeepTheRest`,
`OneRepositoryEach`, `OncePerNight` and `DoneIsHonest` are conjunctions of named
parts, one per operation or promise. Type invariants and the other invariants
that are proved for every instance are not checked again in the runs.

Every property has a mutant in `PROJECT.json`: a change of one mapped
definition, the way a bug would change it, that makes TLC find the property
violated in the same run.

**Bounds and why they suffice.** Every race of the job table is between two
statements on one row, so two instances and one job show it (`safety`); the order
in which several jobs are claimed and mailed and their waiting for each other
need two jobs and one instance (`progress`). Times are compared with `runAt`,
`runAt + grace`, the retention and the sweep interval only: a clock of 0 and 1
puts every one of them before, at and after (in `safety` the sent grace is
negative, which the code clamps to 0, or missing, which gives 1). Mails are counted up to
`MaxMails`; properties ask for none or some. In `access` a TTL of 0 and a clock
of 0 and 1 have entries that are as old as the TTL and older, on both sides of
the comparison. `OpRun` has a channel of two with up to seven lines, so it fills
up, and a guard with a second key nobody of the same owner may use.
`CourseStore` has three names, so that a rename may
meet a free name and a taken one. `SummaryMailer` counts days of three hours:
before, at and after the hour; three nights suffice for a night that sets the marker, one that is
missed and one that makes up for it or, without a marker, passes it over. `Repositories` has two projects because a search for
the first finds the second as well, and two operations because every property
there relates an operation to one before or beside it. Of its four users the search for one
is ambiguous, that for another finds somebody else, one has a level from the parent group
and one is found by nobody; owners are not in the run (`Owners` is empty), for them
the proof stands. The deferred branch is one of its own or that of the starter code. The two
workers are interchangeable, so the run has them as a symmetry. `ProtectBranch` has one
project, as the code handles them one by one, and configurations and leftover
rules chosen so that each kind of rule, several entries for one branch, the legacy keys, two rules
of one name and a rule found of another kind than configured occur. `IssueReplication` has a chain of three, siblings, and a
number configured twice or below another; three faults are needed for a create, the client's
resend and a retry that are all answered as failed, and one resend per call (`MaxResends`; the
client has more) shows a copy that nobody asked for. `Assignments` needs two steps to spoil a course and one
that reads it; its names have a pair that differs in case and a padded
reference. What these small instances leave open is, for the modules
with proofs, what the proofs settle, for every number of actors.

`VIEW` in `oprun_guard` leaves out the history variables `sent` and `got`, which no
guard and no property of the run reads. `CHECK_DEADLOCK FALSE` is said where
the model stops because a bound is reached or a finite task is done: the clock
of the summary, the courses and edits made, the runs and operations started, the
replication, a stream that has ended.

**Fairness.** Liveness is checked in `progress`, `oprun_stream` and `streams`.
`JobRunner`: time passes; a process that is up executes its loop (a goroutine
and a ticker), one that is down is restarted, an operation on GitLab returns. The last is
an assumption about GitLab: most calls have no timeout, and one that hangs for
ever stops the loop of that instance and the jobs only it would take. For claims, listings, mails and marks strong fairness says
that faults are transient: what is tried again and again on every tick is not cut
off by an error or a crash for ever. A database that is down for good stops
every job, and no code could help it. `OpRun`: a goroutine that can run does, an
operation returns, and a client that stays connected reads; the last one is an
assumption about clients and not a consequence of the code, which has no timeout
for one that does not. `Streams` does not assume that the client reads, only
that goroutines run and calls return. The other modules promise nothing about
time: each of their operations is a finite loop over calls.

## What is proved

TLAPS proves the following for every value of the constants that meets the named
assumption of the module (types of the constants, `None` not among the values
or the kinds of line).
The proofs are in the `...Proofs` modules; each starts with the lemmas about
helpers, has one lemma per action, and ends with the induction.

- **JobRunnerProofs**: type correctness, `Owned`, `FiredAtMostOnce`,
  `StatusTellsWhetherItRan`, `RanAsPlanned`, `Punctual`, `JournalAgrees`,
  `NotifiedMeansMailed`, that `JobRunner` implements `JobLifecycle`, and, for a single
  instance (two may mail one job), `NoMailAfterMark`. None of
  them is inductive: that a job is not started twice needs that the runner holding it is alone
  (`Owned`) and has not started it yet (`Progress`); that the status is true needs
  that the verdict in the runner's hand is (`VerdictIsTrue`); that a mark means a
  mail needs that what waits to be mailed has ended (`MailQueue`); that a marked job is
  not mailed again needs that a job on the list of a runner is not marked until that
  runner has mailed it (`ListIsCurrent`). `IInv` joins
  these with the properties. The refinement follows from `IInv` and one step
  simulation per action.
- **AccessGateProofs**: type correctness, `LetInOnlyIfRecentlyApproved`,
  `MailedDecisionWasStored`, `OneAdminMailPerRequest`, and that the table implements
  `AccessRow`. The strengthening says that a cached status was true at some instant no earlier than its stamp
  (`CacheIsRecent`), that so is a status in a request's hand between read and put
  (`AnswersAreRecent`), and that a decision about to be mailed was stored. It
  explains why stamping an entry with the clock from before the read is what bounds the
  staleness, whatever races. One mail per row is a counting argument (`MailInv`): the
  mails sent about a user and the requests that still owe one are together never more than the
  rows created, because only the request whose insert created the row owes one.
- **CourseStoreProofs**: type correctness and `RawMatchesRow`. It rests on
  `RoundTripAssumption`: what the encoder makes of a source decodes to that source, which
  `config/decode_test.go` (`TestRoundTripAllFixtures`) tests; nothing is assumed of the
  other direction. The strengthening (`LocalsMatch`) says that the row a request holds is consistent however long
  ago it was read, so that saving it late is a lost update but never a mixed row.
  `NoCourseIsLost` is proved for requests that come one at a time
  (`\A r, q \in Requests : r = q`, the run's instance; two at once may overwrite each
  other): what the request has read is still so, what it found free still is, and
  between the two halves of a rename both names hold the course (`Current`). It needs that `None`
  is no row, which the assumption of the module says.

  The second half of the module is about what a course says, its assignments and its
  students. `ResolvesAsWritten` compares `mergeAssignment`, which walks up a chain while
  it keeps the names it has seen, with the value an author reads off the YAML (`AsWritten`):
  the one written nearest on the way up, and an error where the way has no end. They
  agree because the walk, started at a key with some names seen already, gives what is written
  exactly if the chain ends and meets none of those names. That is an induction on how many names
  have not been seen, done with a least counterexample (`Least`, `Counting`, `MoreSeen`), and what
  is above an assignment (`Above`) is a least closed set. For the edits, the draft that is
  validated has to be the course with the edit applied, so `CourseOK` is strengthened by
  `DraftHeld`. `EditsKeepTheRest` follows from one argument: two courses whose chains look
  alike, name by name and up to a renaming (`Mirrored`), resolve to the same. An edit
  leaves what is not below the edited assignment mirrored as it is, a rename mirrors
  the whole course, a copy is mirrored by its original. If there is a circle after an edit
  that validated, the edited assignment is not on it, so the circle was there before
  (`CircleWasThere`). All this is for any course, any number of edits and any finite set
  of names (`AssignmentsAssumption`).

  `OneRepositoryEach` is proved for all rosters, patterns and groups (`OneRepositoryEverywhere`;
  `EachHasItsRepository` is about the three parts of it). They need of the names that GitLab leaves as it is what it
  made (`RosterAssumption`), and of the groups that there are finitely many: a student in two
  groups then has two places, which the check of the course would have reported.
- **SummaryMailerProofs**: type correctness and `NothingIsSkipped`, with any marker at
  the start or none and every fault, the failed read of the marker included. The strengthening
  (`WindowsAreComplete`) says that everything before a window in progress has
  been mailed to all or was left out by a run without a marker, and everything in it is
  in the digest; it holds for any
  number of instances. `OncePerNight` is proved with one instance and `Shift = 0`: two instances may report one night, and a clock that is put
  back has an hour twice. Its invariant (`LoopInv`) ties the window in hand to the
  marker and the wake-up to the instant it was computed at; that the hour comes
  up between the two at the end only is arithmetic of remainders, done as lemmas
  (`DivMod`, `NextHour`).

- **OpRunProofs**: type correctness, `GuardMatchesRuns`, `RunsThePlan` and
  `StreamIsComplete`, for any number of subscriptions, keys and owners and a channel
  of any size. `RunsThePlan` speaks of operations
  that run; what makes it inductive is what a subscription holds at each check
  before (`PlanInHand`): its own token, unexpired when it was opened, and behind
  `ResolveConfig` the configuration of the plan. `StreamIsComplete` needs
  `StreamFits`: which places of the operation have a forwarder, which lines were
  sent by then, and that while the client stays, what it has, what the forwarder
  holds and what the channel holds are together what was sent (`InOrder`); three
  lemmas on sequences carry a line from the sender to the client.
  `Streams` is the other kind of subscription and is proved about in the second half of
  this module: type correctness (`StreamsTypeCorrect`), which includes that no more listings run
  than there are slots, `DoneIsLast` and `DoneIsHonest`, for any number of
  assignments, slots and lines. The strengthening is that the producer leaves
  `wait` only when every goroutine of an assignment has ended, and (`Complete`)
  that what a client that stays has, together with what is on its way, is what was
  produced so far: each assignment once, or the lines in their order.
- **IssueReplicationProofs**: type correctness, `PlannedOnce`, `CopiedOnce`,
  `ChildBelowItsParent`, `QuietCopiesAll`, for every hierarchy (circles included), every list of numbers and
  every number of faults. The strengthening says how far the plan is carried
  out (`CopiesFollowThePlan`: a copy is of an issue before the current one), that the issue at hand has
  no more copies than creates were answered as failed (`lost`) and were sent (`SentBefore`), and
  that nothing is attached before all is copied. `CopiedOnce` (`NoneAgainOnceAnswered`) follows:
  at the answer that says an issue was made, the code goes on to the next one. For `QuietCopiesAll` the plan has to be the right one, too: in a
  replication that nothing has gone wrong in (`QuietInv`) an issue is in it only if it is
  configured or below one that is, and the children of each issue read so far are in
  it or on their way, so that the plan that has been read to the end is `Wanted`, the least set
  that holds the configured issues and all below each of its members.
- **RepositoriesProofs**: type correctness, `AccessOnlyAsConfigured`, `WorkIsKept`,
  `DeletesOnlyTargets`, `QuietOpsComplete`, for any number of operations at once, projects, users
  and faults. The strengthening is `RunStraight` (an operation holds the project of its
  target, or one a search took for it) and `StillEmpty`: until its first push a
  generate that nothing ran beside has let nobody in, so that its project is as it was made and
  there is no work to overwrite. It is `alone` that cannot be dropped from it. Access rests on `grant`:
  whom a step lets in was taken for a member of the target the operation is at. `QuietOpsComplete` is about the
  end of an operation, so its strengthening says what is true on the way there, in
  an operation that no call has failed in and nothing runs beside (`QuietInv`): every target
  before the one at hand is `Settled`, and the project at hand is as far as the
  operation has come (`AtHand`: a member is set or still to be set, the images left
  are those still to be deleted or came late). Two facts about the projects carry it:
  owners stay owners and only who has one keeps an inherited level (`OwnersStay`), and in the first operation a project that is not set
  up yet is the one in hand (`FirstSetsUp`). Students and pipelines go on beside it.

- **ProtectBranchProofs**: type correctness, `NoExtraPushers`, `OkMeansConfigured`,
  `SecondRunSucceeds`, `ForeignRulesStay`, for any configuration, leftover rules,
  number of runs and faults. `NoExtraPushers` needs that what was read of a protection
  is still so when it is updated (`BranchInv`), so that an update puts the configured levels in the place
  of exactly those that are there. For `OkMeansConfigured` each part of a run
  has its own invariant: the branches before the one at hand are as configured
  (`BranchInv`), so are the rules of the items before the one at hand, and what was listed
  is still true of those after it (`ItemsInv`); there is one any-approver rule and the run has its
  name (`RulesInv`); no rule with a configured name changes its kind (`KindInv`), so that
  the last step renames no rule an item has just set (`AnyRefInv`). For `SecondRunSucceeds`: a run that
  nobody disturbs and that fails can only have failed at that last step (`RefusedAtAny`), when all
  rules that items delete are gone already (`UnwellInv`), so that the next run deletes
  none, the one it has listed neither. The attempt to prove these two showed that both need `KindsAgree`
  (see below). `BranchesAsWritten` is about values: `resolveBranches` is a fold over the list
  of entries, and what it says of a branch is what the entries that name it
  add up to, in whatever order and however often they come (`EntriesAddUp`), for lists of any
  length, by counting along the list. It has the hypothesis that some entry has a name: a list without one
  counts as no list at all, and then the older keys of a configuration apply.

**Model-checked only.** Liveness (`DueJobLeavesPending`, `OutcomeIsMailed`,
`OperationFreesAssignment`, `NoGoroutineIsLeft`), which is beyond the proof system. Every
invariant and every action property that a run checks is also a theorem. The induction
theorems of the library take an operator as a parameter and cannot be used here; where a
theorem is about a list or a chain of any length, the induction is done with the
least element of a set of numbers or by counting the elements of a finite set.

## Where code and documentation disagree

What the models have because the code does it, although a comment or a document
says otherwise. The properties are stated so that they are true of the code; what
they leave out for that reason is here.

Jobs and operations

- An instance that dies while a job runs leaves it `running` for ever, and its
  owner is not told; `web/db/jobs.go:8` says a job ends in exactly one terminal state.
- The runner does not ask `opGuard`; `web/app/exclusive.go:5` says a second
  operation on the same assignment is rejected.
- A job is mailed twice when two instances list it or a process ends between
  mail and mark (against `web/app/runner.go:35`); a failed retention sweep waits for a
  whole interval (`:64`).

Access

- A lookup that read the row before a decision puts the old status into the
  cache after the decision dropped the entry, for up to the TTL;
  `web/app/access.go:28` says a decision takes effect at once in this process.

Courses and assignments

- A create or rename overwrites a course that another request makes between its
  check and its save; `web/app/courses.go:91` and `:245` say it fails if there is
  one. Of two edits of one course the later save wins (`:140`).
- A rename repoints only siblings that spell the old name byte for byte, while
  the resolver trims and folds case (`web/app/assignments.go:705`). Of names equal
  but for case the order of a Go map decides; `config/resolve.go:14` speaks of a
  pure function.
- Deleting or changing a base breaks its children silently: set validates the edited
  assignment only, copy, rename and delete none, and an abstract one is not
  validated. A copy or rename to a name that a dangling `extends` waits for can
  close a circle.
- An uploaded course keeps its file as it is, and plans, previews and downloads read that
  file: until its first edit in the web it may say more than the editor shows, and the edit of
  any part drops that (`web/db/courses.go:13` says so of comments and order of keys only).
- An explicit `false` in an uploaded course that overrides an inherited `true`
  is lost with any edit, and the editor cannot write one (`config/resolve.go:18`).
- Lint compares `extends` exactly, reports an inherited url of the starter code
  as missing, and does not look for circles.
- A draft with some of the `approvals.` keys drops the settings and rules it
  does not name (`web/app/assignments.go:415`), although the comment at `:268`
  says nested blocks are carried over.
- Two patterns of `onlyFor` that overlap, or a student in the rosters of both the
  course and the assignment, list the student twice. With
  `useEmailDomainAsSuffix: false` students with the same local part share a
  repository, as does a user named `a_at_b` with the address. The check of a
  course sees the groups of the course only.

Digest

- A digest that was mailed and not marked is mailed again (`web/app/summary.go:208`).
- A missed night is not always folded into the next run (`:210`): on a fresh install
  whose first night fails, or when the marker cannot be read after a missed
  night, the window is the last day and the marker moves past everything before it
  (`:245` to `:257`). An event that is stored late is missing from every digest, too.
- After a change of daylight saving time one digest is an hour off (`:231`).

GitLab

- `generate` applies approvals only if there are branches: the call of
  `syncConfiguredBranches` is behind that condition, which makes the case without
  branches in `gitlab/branches.go:12` unreachable from there.
- A project whose starter code could not be pushed is never completed by another
  `generate`. Two at once may let students in before the other's forced push.
- A search for a project with one hit is taken without comparing its path, and so is one for
  a user without comparing name or address (`gitlab/users.go:45`): whoever it finds is let in
  for the student.
- A search for a user that fails is meant to end the program (`gitlab/users.go:33`), but the
  call there does nothing: it counts as nobody found and the student is invited by mail.
- Deferred branches are pushed by force, as `docs/commands.md:274` says; what students committed on
  the branch they go to is lost.
- An up-to-date starter branch is an error to git as well: a generate gives up a project that an
  update has pushed to meanwhile, without letting its students in.
- `additionalBranches` are not mirrored (against `docs/configuration.md:291`): the clone has a
  single branch (`git/sourcerepo.go:73`), and what is not in it is not pushed
  (`gitlab/starterrepo.go:92`), unless it is the cloned branch; this rests on what go-git does and no property is about it.
- The client sends a create again that is answered 5xx (`gitlab/gitlab.go:75`, off in tests
  only), so an issue may have several copies, of which the code knows the last.
- git reports a branch that is up to date as an error and `push` ends with the
  first one, so a repeated push that is not an orphan never reaches the projects
  the first did not.
- Between unprotect and protect a branch nobody may push to is open. A recreated
  protection drops out of the scope of approval rules. The any-approver rule is
  updated by the id of one just deleted: that run fails and the next succeeds.
  Rules are looked up by name and not by kind: an any-approver rule with the name
  of an item that names approvers is taken for that item's rule, and renamed away at the end of a
  run that says it succeeded; a rule that names people and has the name of the
  any-approver rule makes every run fail. `KindsAgree` leaves these cases out of
  `OkMeansConfigured` and `SecondRunSucceeds`.
  Two unnamed approval rules on one branch share a name. Lists without options
  read their first page only.
- A label that was created although the answer was lost is left out of the tasks.
- The default branch of the legacy keys is `devBranch` (`config/resolve.go:402`),
  against `docs/migration.md:89`.
- Leaving an overview does not stop its calls of GitLab.

## Not modelled

- Text: the layout of mails and digests, reports, HTML, schemas of the editors,
  validation messages, `show`, URLs. No property is about them.
- Sealing of tokens and secrets, authentication by header: taken as given.
- Generated code (gqlgen, sqlc): half of the lines of the repository, with no
  decision of its own. The statements are modelled from `web/db/queries/*.sql`.
- The command line: one operation per process, no concurrency of its own; its
  operations are those of `Repositories` and `ProtectBranch`.
- Set-up, migrations, observability, the seeder's local command, the clone and
  the keys of go-git, the content of reports.
- The login throttle: one check and one assignment under a mutex, whose only
  reader is a list.
- The approval keys and the branches of a draft, and the fields of an
  assignment beyond three: they are handled as the three are, apart from the
  approvals above.
