---------------------------- MODULE Repositories ----------------------------
(***************************************************************************)
(* The operations of glabs on the repositories of one assignment            *)
(* (gitlab/generate.go, projects.go, setaccess.go, users.go, update.go,     *)
(* push.go, archive.go, delete.go): each walks over the targets of the      *)
(* assignment, one project after the other, each call of GitLab a step.     *)
(* Two operations may run at once, an interactive and a scheduled one       *)
(* (OpRun); students commit and pipelines push images meanwhile.  Branch    *)
(* rules and issues of a new project are ProtectBranch and                  *)
(* IssueReplication; here they are one step.                                *)
(***************************************************************************)
EXTENDS Integers, Sequences, FiniteSets

CONSTANTS
  Names,        \* names of projects in the assignment's GitLab group
  Matches,      \* Matches[n]: the names a search for n finds
  TargetLists,  \* sequences of [name, members]: what an assignment expands to
  Users,
  Finds,        \* Finds[u]: the accounts a search for the student u finds
  Invitable,    \* students known by their mail address
  Owners,       \* users who own every project of the group
  Inheriting,   \* users who have another level than the configured one from a parent group
  Workers,      \* operations at the same time
  Ops,          \* operations that are run
  Branches, Main, \* Main: of the starter code (startercode.toBranch)
  Deferreds,    \* [to, orphan]: where a deferred branch goes, and whether as a new commit each time
  None,
  MaxOps,       \* bound: operations started
  MaxFaults,    \* bound: failing calls and crashes
  MaxImages     \* bound: container images in one project

Target == [name : Names, members : SUBSET Users]

ASSUME RepositoriesAssumption ==
  /\ IsFiniteSet(Names) /\ IsFiniteSet(Users) /\ Matches \in [Names -> SUBSET Names] /\ \A n \in Names : n \in Matches[n]
  /\ \A list \in TargetLists :
       /\ list \in Seq(Target)
       /\ \A j, k \in DOMAIN list : j # k => list[j].name # list[k].name
  /\ Finds \in [Users -> SUBSET Users] /\ Invitable \subseteq Users
  /\ Owners \subseteq Users /\ Inheriting \subseteq Users \ Owners
  /\ Main \in Branches /\ Deferreds \subseteq [to : Branches, orphan : BOOLEAN]
  /\ Ops \subseteq {"generate", "setaccess", "update", "push", "archive", "unarchive", "delete"}
  /\ MaxOps \in Nat /\ MaxFaults \in Nat /\ MaxImages \in Nat

\* A branch is what was last pushed to it, and what students committed since.
\* setup: branch rules and issues were dealt with.
Content == [base : {"empty", "starter", "deferred"}, work : BOOLEAN]
Levels == {"none", "configured", "other", "inherited", "owner"}
Project == [id : Nat, branch : [Branches -> Content], setup : BOOLEAN,
            level : [Users -> Levels], archived : BOOLEAN, images : Nat]

\* An operation: t is the target at hand, found the project it works on, mine
\* whether this very call created it, todo the members still to be set, grant the
\* account that the member at hand was taken for.
Found == [name : Names, id : Nat]
Grant == [who : Users, byMail : BOOLEAN]
Run == [op : Ops, invite : BOOLEAN, pc : {"group", "target", "search", "push", "setup", "members",
                                          "member", "archive", "list", "images", "delete"},
        t : Nat \ {0}, found : Found \cup {None}, mine : BOOLEAN, todo : SUBSET Users,
        grant : Grant \cup {None}, images : Nat, remotes : SUBSET Names, quiet : BOOLEAN, alone : BOOLEAN]

ASSUME RepositoriesNone == None \notin Project /\ None \notin Run /\ None \notin Found /\ None \notin Grant

VARIABLES
  targets,    \* of the assignment
  deferred,   \* its deferred branch
  group,      \* its GitLab group exists
  projects,   \* of the group, by name
  run,        \* per worker: its operation, or None
  ids, ops, faults,
  astray,     \* history: <<taken, wanted>> of searches that took another project
  late        \* history: projects that got an image during a delete

vars == <<targets, deferred, group, projects, run, ids, ops, faults, astray, late>>

----------------------------------------------------------------------------

Active == {w \in Workers : run[w] # None}
At(w, pc) == run[w] # None /\ run[w].pc = pc
In(w, some) == run[w] # None /\ run[w].op \in some
HasTarget(w) == run[w] # None /\ run[w].t \in DOMAIN targets
This(w) == targets[run[w].t]
Exists(n) == projects[n] # None

\* The project an operation holds by its id is still there.
There(w) == Exists(run[w].found.name) /\ projects[run[w].found.name].id = run[w].found.id

Becomes(w, r) == run' = [run EXCEPT ![w] = r] /\ UNCHANGED faults
Goto(w, pc) == [run[w] EXCEPT !.pc = pc]
NextTarget(w) == [run[w] EXCEPT !.pc = "target", !.t = @ + 1, !.found = None,
                                !.mine = FALSE, !.todo = {}, !.grant = None, !.images = 0]

\* A call fails, with or without its effect; the operation goes on as r.
Fault(w, r) ==
  /\ faults < MaxFaults
  /\ faults' = faults + 1
  /\ run' = [run EXCEPT ![w] = IF r = None THEN None ELSE [r EXCEPT !.quiet = FALSE]]

\* The level of somebody whom nobody let in.
LevelBefore(u) == IF u \in Owners THEN "owner" ELSE IF u \in Inheriting THEN "inherited" ELSE "none"

Pushed(base) == [base |-> base, work |-> FALSE]

Project0(id) ==
  [id |-> id, branch |-> [b \in Branches |-> Pushed("empty")], setup |-> FALSE,
   level |-> [u \in Users |-> LevelBefore(u)], archived |-> FALSE, images |-> 0]

Put(p, project) == projects' = [projects EXCEPT ![p] = project]

Fixed == /\ UNCHANGED <<targets, deferred, ops, ids>>
         /\ late' = IF \A w \in Workers : run'[w] = None THEN {} ELSE late

----------------------------------------------------------------------------
(* Every operation *)

\* invite is FALSE for a generate without invitations (skipInvite).
Start(w, op, invite) ==
  /\ run[w] = None /\ ops < MaxOps
  /\ ~invite => op = "generate"
  /\ ops' = ops + 1
  /\ run' = [v \in Workers |->
       IF v = w
       THEN [op |-> op, invite |-> invite, pc |-> IF op = "push" THEN "target" ELSE "group", t |-> 1,
             found |-> None, mine |-> FALSE, todo |-> {}, grant |-> None, images |-> 0, remotes |-> {},
             quiet |-> TRUE, alone |-> Active = {}]
       ELSE IF run[v] = None THEN None ELSE [run[v] EXCEPT !.alone = FALSE]]
  /\ UNCHANGED <<targets, deferred, group, projects, ids, faults, astray, late>>

\* Only generate creates the group; then it clones the starter code.  An error
\* ends the operation.
FindGroup(w) ==
  /\ At(w, "group")
  /\ \/ group /\ (Becomes(w, Goto(w, "target")) \/ Fault(w, None)) /\ UNCHANGED group
     \/ ~group /\ ~In(w, {"generate"}) /\ Becomes(w, None) /\ UNCHANGED group
     \/ /\ ~group /\ In(w, {"generate"})
        /\ \/ group' = TRUE /\ (Becomes(w, Goto(w, "target")) \/ Fault(w, None))
           \/ Fault(w, None) /\ UNCHANGED group
  /\ Fixed /\ UNCHANGED <<projects, astray>>

Done(w) ==
  /\ At(w, "target") /\ ~HasTarget(w)
  /\ Becomes(w, None)
  /\ Fixed /\ UNCHANGED <<group, projects, astray>>

----------------------------------------------------------------------------
(* generate.go, projects.go *)

\* Mutant: a project that exists counts as generated.
CreateOrTake(w) ==
  /\ At(w, "target") /\ In(w, {"generate"}) /\ HasTarget(w)
  /\ LET n == This(w).name
         mine(id) == [Goto(w, "push") EXCEPT !.found = [name |-> n, id |-> id], !.mine = TRUE]
     IN \/ ~Exists(n) /\ ids' = ids + 1 /\ Put(n, Project0(ids + 1))
           /\ Becomes(w, mine(ids + 1))
        \/ Exists(n) /\ Becomes(w, mine(projects[n].id)) /\ UNCHANGED <<projects, ids>>
  /\ UNCHANGED <<targets, deferred, ops, group, astray, late>>

\* Any error is taken for "exists already".
CreateProject(w) ==
  /\ At(w, "target") /\ In(w, {"generate"}) /\ HasTarget(w)
  /\ LET n == This(w).name
         mine == [Goto(w, "push") EXCEPT !.found = [name |-> n, id |-> ids + 1], !.mine = TRUE]
     IN \/ /\ ~Exists(n)
           /\ ids' = ids + 1
           /\ Put(n, Project0(ids + 1))
           /\ Becomes(w, mine) \/ Fault(w, Goto(w, "search"))
        \/ Exists(n) /\ Becomes(w, Goto(w, "search")) /\ UNCHANGED <<projects, ids>>
        \/ ~Exists(n) /\ Fault(w, Goto(w, "search")) /\ UNCHANGED <<projects, ids>>
  /\ UNCHANGED <<targets, deferred, ops, group, astray, late>>

Hits(n) == {p \in Matches[n] : Exists(p)}

\* Mutant: the first hit is taken.
FirstHit(n) == IF Hits(n) = {} THEN {} ELSE {CHOOSE p \in Hits(n) : p # n \/ Hits(n) = {n}}

\* getProjectByName: a single hit is taken as it is, several are told apart by path.
Chosen(n) == IF Cardinality(Hits(n)) = 1 THEN Hits(n) ELSE Hits(n) \cap {n}

SearchProject(w) ==
  /\ At(w, "search") \/ (At(w, "target") /\ In(w, {"push"}))
  /\ HasTarget(w)
  /\ LET n == This(w).name
         failed == IF In(w, {"push"}) THEN None ELSE NextTarget(w)
     IN \/ \E p \in Chosen(n) :
             /\ Becomes(w, [Goto(w, IF In(w, {"push"}) THEN "push" ELSE "members") EXCEPT
                              !.found = [name |-> p, id |-> projects[p].id],
                              !.todo = IF run[w].invite /\ In(w, {"generate"}) THEN This(w).members ELSE {}])
             /\ astray' = astray \cup (IF p # n /\ ~Exists(n) THEN {<<p, n>>} ELSE {})
        \/ Chosen(n) = {} /\ Becomes(w, failed) /\ UNCHANGED astray
        \/ Fault(w, failed) /\ UNCHANGED astray
  /\ Fixed /\ UNCHANGED <<group, projects>>

\* pushStartercode, with force.  A branch that is up to date is an error, as the
\* starter code may have changed since or not; a failed push of the tag after it is
\* a push that fails with its effect.  generate gives the project up, and its
\* members.  The clone has no other branch, so additionalBranches push nothing.
PushStarter(w) ==
  /\ At(w, "push") /\ In(w, {"generate", "update"})
  /\ LET p == run[w].found.name
         next == IF In(w, {"generate"}) THEN Goto(w, "setup") ELSE NextTarget(w)
     IN \/ /\ There(w) /\ ~projects[p].archived
           /\ Put(p, [projects[p] EXCEPT !.branch[Main] = Pushed("starter")])
           /\ Becomes(w, next) \/ Fault(w, NextTarget(w))
        \/ /\ There(w) => projects[p].archived \/ projects[p].branch[Main] = Pushed("starter")
           /\ Becomes(w, NextTarget(w)) /\ UNCHANGED projects
        \/ Fault(w, NextTarget(w)) /\ UNCHANGED projects
  /\ Fixed /\ UNCHANGED <<group, astray>>

\* syncConfiguredBranches and the issues: their errors are only reported.
SetUp(w) ==
  /\ At(w, "setup")
  /\ LET p == run[w].found.name
         next == [Goto(w, "members") EXCEPT !.todo = IF run[w].invite THEN This(w).members ELSE {}]
     IN \/ There(w) /\ Put(p, [projects[p] EXCEPT !.setup = TRUE]) /\ Becomes(w, next)
        \/ ~There(w) /\ Becomes(w, next) /\ UNCHANGED projects
        \/ Fault(w, next) /\ UNCHANGED projects
  /\ Fixed /\ UNCHANGED <<group, astray>>

----------------------------------------------------------------------------
(* setaccess.go, users.go *)

\* getUser takes the only hit of a search as it is: nothing compares it with the
\* student.
Single(m) == IF Cardinality(Finds[m]) = 1 THEN Finds[m] ELSE {}

\* Without a single hit the student is invited by mail, if there is an address.
Invited(m) == {m} \cap Invitable

\* A search that fails has found nobody (its error ends nothing: users.go:36).
FindUser(w) ==
  /\ At(w, "members")
  /\ \E m \in run[w].todo :
       LET rest == [run[w] EXCEPT !.todo = @ \ {m}]
           take(u, byMail) == [rest EXCEPT !.pc = "member", !.grant = [who |-> u, byMail |-> byMail]]
       IN \/ \E u \in Single(m) : Becomes(w, take(u, FALSE))
          \/ Single(m) = {} /\ \E u \in Invited(m) : Becomes(w, take(u, TRUE))
          \/ Single(m) = {} /\ Invited(m) = {} /\ Becomes(w, rest)
          \/ \E u \in Invited(m) : Fault(w, take(u, TRUE))
          \/ Invited(m) = {} /\ Fault(w, rest)
  /\ Fixed /\ UNCHANGED <<group, projects, astray>>

\* An owner stays one.  A level from a parent group cannot be edited; an invitation
\* sets the configured one beside it, unless it is lower.
LevelsSet(level, byMail) ==
  IF level = "owner" THEN {"owner"}
  ELSE IF level # "inherited" THEN {"configured"}
  ELSE IF byMail THEN {"inherited", "configured"} ELSE {"inherited"}

\* addMember or inviteByEmail.  The look-up that decides between adding a member
\* and editing one is part of the step, as both set the same level; one that fails
\* counts as no member, and then the adding fails if there is one.
SetMember(w) ==
  /\ At(w, "member")
  /\ LET p == run[w].found.name
         u == run[w].grant.who
         next == [run[w] EXCEPT !.pc = "members", !.grant = None]
     IN \/ /\ There(w)
           /\ \E level \in LevelsSet(projects[p].level[u], run[w].grant.byMail) :
                Put(p, [projects[p] EXCEPT !.level[u] = level])
           /\ Becomes(w, next) \/ Fault(w, next)
        \/ ~There(w) /\ Becomes(w, next) /\ UNCHANGED projects
        \/ Fault(w, next) /\ UNCHANGED projects
  /\ Fixed /\ UNCHANGED <<group, astray>>

MembersSet(w) ==
  /\ At(w, "members") /\ run[w].todo = {}
  /\ Becomes(w, NextTarget(w))
  /\ Fixed /\ UNCHANGED <<group, projects, astray>>

----------------------------------------------------------------------------
(* setaccess, update and archive look a project up by its path and skip a      *)
(* missing one                                                                 *)

GetProject(w) ==
  /\ At(w, "target") /\ In(w, {"setaccess", "update", "archive", "unarchive"}) /\ HasTarget(w)
  /\ LET n == This(w).name
         pc == IF In(w, {"setaccess"}) THEN "members" ELSE IF In(w, {"update"}) THEN "push" ELSE "archive"
     IN \/ /\ Exists(n)
           /\ Becomes(w, [Goto(w, pc) EXCEPT !.found = [name |-> n, id |-> projects[n].id],
                                             !.todo = IF pc = "members" THEN This(w).members ELSE {}])
        \/ ~Exists(n) /\ Becomes(w, NextTarget(w))
        \/ Fault(w, NextTarget(w))
  /\ Fixed /\ UNCHANGED <<group, projects, astray>>

Archive(w) ==
  /\ At(w, "archive")
  /\ \/ /\ There(w)
        /\ Put(run[w].found.name, [projects[run[w].found.name] EXCEPT !.archived = In(w, {"archive"})])
        /\ Becomes(w, NextTarget(w)) \/ Fault(w, NextTarget(w))
     \/ ~There(w) /\ Becomes(w, NextTarget(w)) /\ UNCHANGED projects
     \/ Fault(w, NextTarget(w)) /\ UNCHANGED projects
  /\ Fixed /\ UNCHANGED <<group, astray>>

----------------------------------------------------------------------------
(* push.go, git/push.go: the first error ends the operation.  The source       *)
(* repository gets one remote per project name.  The branch is overwritten by  *)
(* force, whatever is on it; git reports one that is up to date as an error.   *)

\* Mutant: a project that cannot be pushed to is skipped.
SkipOnError(w) == NextTarget(w)

OnPushError(w) == None

UpToDate(p) == projects[p].branch[deferred.to] = Pushed("deferred") /\ ~deferred.orphan

PushDeferred(w) ==
  /\ At(w, "push") /\ In(w, {"push"})
  /\ LET p == run[w].found.name
         possible == There(w) /\ ~projects[p].archived /\ p \notin run[w].remotes /\ ~UpToDate(p)
         next == [NextTarget(w) EXCEPT !.remotes = @ \cup {p}]
     IN \/ /\ possible
           /\ Put(p, [projects[p] EXCEPT !.branch[deferred.to] = Pushed("deferred")])
           /\ Becomes(w, next) \/ Fault(w, OnPushError(w))
        \/ ~possible /\ Becomes(w, OnPushError(w)) /\ UNCHANGED projects
        \/ Fault(w, OnPushError(w)) /\ UNCHANGED projects
  /\ Fixed /\ UNCHANGED <<group, astray>>

----------------------------------------------------------------------------
(* delete.go *)

\* Mutant: whatever the search finds is deleted.
AnyHit(n) == Hits(n)

ToDelete(n) == Hits(n) \cap {n}

SearchGroup(w) ==
  /\ At(w, "target") /\ In(w, {"delete"}) /\ HasTarget(w)
  /\ LET n == This(w).name
     IN \/ \E p \in ToDelete(n) : Becomes(w, [Goto(w, "list") EXCEPT !.found = [name |-> p, id |-> projects[p].id]])
        \/ ToDelete(n) = {} /\ Becomes(w, NextTarget(w))
        \/ Fault(w, NextTarget(w))
  /\ Fixed /\ UNCHANGED <<group, projects, astray>>

\* deleteRegistryTags: the tags are listed before any is deleted.  Repositories
\* that cannot be listed count as none, tags that cannot be listed are an error.
ListImages(w) ==
  /\ At(w, "list")
  /\ \/ There(w) /\ Becomes(w, [Goto(w, "images") EXCEPT !.images = projects[run[w].found.name].images])
     \/ ~There(w) /\ Becomes(w, Goto(w, "delete"))
     \/ Fault(w, Goto(w, "delete"))
     \/ Fault(w, NextTarget(w))
  /\ Fixed /\ UNCHANGED <<group, projects, astray>>

\* One by one; a tag that is gone is an error.
DeleteImage(w) ==
  /\ At(w, "images")
  /\ LET p == run[w].found.name
         next == [run[w] EXCEPT !.images = @ - 1]
     IN \/ run[w].images = 0 /\ Becomes(w, Goto(w, "delete")) /\ UNCHANGED projects
        \/ /\ run[w].images > 0 /\ There(w) /\ projects[p].images > 0
           /\ Put(p, [projects[p] EXCEPT !.images = @ - 1])
           /\ Becomes(w, next) \/ Fault(w, NextTarget(w))
        \/ /\ run[w].images > 0 /\ (There(w) => projects[p].images = 0)
           /\ Becomes(w, NextTarget(w)) /\ UNCHANGED projects
        \/ run[w].images > 0 /\ Fault(w, NextTarget(w)) /\ UNCHANGED projects
  /\ Fixed /\ UNCHANGED <<group, astray>>

\* GitLab refuses while there are images.
DeleteProject(w) ==
  /\ At(w, "delete")
  /\ LET p == run[w].found.name
     IN \/ /\ There(w) /\ projects[p].images = 0
           /\ Put(p, None)
           /\ Becomes(w, NextTarget(w)) \/ Fault(w, NextTarget(w))
        \/ (There(w) => projects[p].images > 0) /\ Becomes(w, NextTarget(w)) /\ UNCHANGED projects
        \/ Fault(w, NextTarget(w)) /\ UNCHANGED projects
  /\ Fixed /\ UNCHANGED <<group, astray>>

----------------------------------------------------------------------------
(* Around the operations *)

\* Somebody who was let in commits, on a branch that some operation pushes to.
Commit(p, b) ==
  /\ Exists(p) /\ ~projects[p].archived /\ b \in {Main, deferred.to}
  /\ \E u \in Users : projects[p].level[u] \in {"configured", "other"}
  /\ Put(p, [projects[p] EXCEPT !.branch[b].work = TRUE])
  /\ UNCHANGED <<targets, deferred, group, run, ids, ops, faults, astray, late>>

\* A pipeline pushes an image; an archived project can only be read.
PushImage(p) ==
  /\ Exists(p) /\ ~projects[p].archived /\ projects[p].images < MaxImages
  /\ Put(p, [projects[p] EXCEPT !.images = @ + 1])
  /\ late' = IF \E w \in Workers : In(w, {"delete"}) THEN late \cup {p} ELSE late
  /\ UNCHANGED <<targets, deferred, group, run, ids, ops, faults, astray>>

Crash ==
  /\ faults < MaxFaults /\ Active # {}
  /\ faults' = faults + 1
  /\ run' = [w \in Workers |-> None] /\ late' = {}
  /\ UNCHANGED <<targets, deferred, group, projects, ids, ops, astray>>

\* A project an earlier generate made: with work in it, and members as they were.
Earlier(n) ==
  [Project0(0) EXCEPT
     !.branch[Main] = [base |-> "starter", work |-> TRUE], !.setup = TRUE,
     !.level = [u \in Users |->
       IF /\ LevelBefore(u) = "none"
          /\ \E k \in DOMAIN targets : targets[k].name = n /\ \E m \in targets[k].members : u \in Single(m)
       THEN "other" ELSE LevelBefore(u)]]

Init ==
  /\ targets \in TargetLists /\ deferred \in Deferreds
  /\ group \in BOOLEAN
  /\ \E old \in SUBSET Names :
       /\ old # {} => group
       /\ projects = [n \in Names |-> IF n \in old THEN Earlier(n) ELSE None]
  /\ run = [w \in Workers |-> None]
  /\ ids = 0 /\ ops = 0 /\ faults = 0 /\ astray = {} /\ late = {}

Step(w) ==
  \/ FindGroup(w) \/ Done(w) \/ CreateProject(w) \/ SearchProject(w) \/ PushStarter(w) \/ SetUp(w)
  \/ FindUser(w) \/ SetMember(w) \/ MembersSet(w) \/ GetProject(w) \/ Archive(w) \/ PushDeferred(w)
  \/ SearchGroup(w) \/ ListImages(w) \/ DeleteImage(w) \/ DeleteProject(w)

Next ==
  \/ \E w \in Workers : Step(w) \/ \E op \in Ops, invite \in BOOLEAN : Start(w, op, invite)
  \/ \E p \in Names : PushImage(p) \/ \E b \in Branches : Commit(p, b)
  \/ Crash

Spec == Init /\ [][Next]_vars

----------------------------------------------------------------------------
(* Properties *)

\* What an operation holds agrees with where it is.
Holding == {"push", "setup", "members", "member", "archive", "list", "images", "delete"}
RunFits(r) ==
  /\ r.pc \in Holding \cup {"search"} => r.t \in DOMAIN targets
  /\ r.pc \in Holding <=> r.found # None
  /\ r.pc = "member" <=> r.grant # None
  /\ r.found # None => r.found.id <= ids
  /\ r.pc \in {"group", "target"} => ~r.mine /\ r.todo = {}

\* Type correctness.
TypeOK ==
  /\ targets \in TargetLists /\ deferred \in Deferreds /\ group \in BOOLEAN
  /\ projects \in [Names -> Project \cup {None}]
  /\ run \in [Workers -> Run \cup {None}]
  /\ ids \in Nat /\ ops \in 0..MaxOps /\ faults \in 0..MaxFaults
  /\ astray \subseteq Names \X Names /\ late \subseteq Names
  /\ \A w \in Active : RunFits(run[w])
  /\ \A n \in Names : Exists(n) => projects[n].id <= ids

HasWork(p, b) == Exists(p) /\ projects[p].branch[b].work

\* What students committed is overwritten only where an operation is there for it:
\* on the starter code's branch by an update, on the deferred one by a push ("always
\* pushed with --force").  generate pushes to a project only if this very call
\* created it (generate.go: "not trying to push startercode to existing project"),
\* which keeps the work safe unless another operation let students in meanwhile.
WorkIsKept ==
  [][\A p \in Names, b \in Branches :
       HasWork(p, b) /\ projects'[p] # None /\ projects'[p].id = projects[p].id /\ ~projects'[p].branch[b].work
       => \E w \in Active :
            /\ run[w].found # None /\ run[w].found.name = p
            /\ \/ run[w].op = "push" /\ b = deferred.to
               \/ run[w].op = "update" /\ b = Main
               \/ run[w].op = "generate" /\ ~run[w].alone /\ b = Main]_vars

\* The accounts that students are taken for.
MayBe(members) == {u \in Users : \E m \in members : u \in Single(m) \cup Invited(m)}

\* Who has access to a project was taken for a student of its target: by a search
\* that found nobody else, which need not be the student, or by the mail address.
\* The target is the project's own or one whose project did not exist when a search
\* took this one for it; never one whose project is there.
AccessOnlyAsConfigured ==
  \A p \in Names : Exists(p) =>
    \A u \in Users : projects[p].level[u] = "configured" =>
      \E k \in DOMAIN targets :
        /\ u \in MayBe(targets[k].members)
        /\ targets[k].name = p \/ <<p, targets[k].name>> \in astray

\* An operation works on the project of its target, generate and push also on one
\* a search took for it; members are those of the target, and who is let in was
\* taken for one of them; only a delete deletes.
RunStraight(r) ==
  /\ r.pc = "search" => r.op = "generate"
  /\ r.pc \in {"list", "images", "delete"} => r.op = "delete"
  /\ r.found # None =>
       /\ r.todo \subseteq targets[r.t].members
       /\ r.grant # None => r.grant.who \in MayBe(targets[r.t].members)
       /\ \/ r.found.name = targets[r.t].name
          \/ r.op \in {"generate", "push"} /\ <<r.found.name, targets[r.t].name>> \in astray

\* Before its first push a generate that nothing ran beside has nobody let in, and
\* its project is as it was made.
StillEmpty(w) ==
  run[w].op = "generate" /\ run[w].pc = "push" /\ run[w].alone /\ There(w) =>
    LET project == projects[run[w].found.name]
    IN /\ \A b \in Branches : project.branch[b] = Pushed("empty")
       /\ \A u \in Users : project.level[u] \notin {"configured", "other"}

\* Why access stays as configured, work is kept and only targets are deleted.
IInv ==
  /\ TypeOK /\ AccessOnlyAsConfigured
  /\ \A w \in Active :
       RunStraight(run[w]) /\ (run[w].alone => Active = {w}) /\ StillEmpty(w)

\* Only a delete removes a project, and only that of one of its targets.
DeletesOnlyTargets ==
  [][\A p \in Names : Exists(p) /\ projects'[p] = None =>
       \E w \in Active : run[w].op = "delete" /\ HasTarget(w) /\ This(w).name = p]_vars

\* An operation that returns: the step before it was not a failing call.
Ends(w, op) == run[w] # None /\ run'[w] = None /\ run[w].op = op /\ run[w].quiet /\ run[w].alone /\ faults' = faults

\* A generate that no call failed and nothing ran beside leaves every target with
\* its project, and one it made with the starter code and set up.
GenerateCompletes ==
  [][\A w \in Workers : Ends(w, "generate") =>
       \A k \in DOMAIN targets :
         /\ Exists(targets[k].name)
         /\ faults = 0 /\ ops = 1 => projects[targets[k].name].setup]_vars

\* Whom a member is taken for if the search does not fail.
TakenFor(m) == IF Single(m) = {} THEN Invited(m) ELSE Single(m)

\* ... and, as a setaccess, whomever its members are taken for with the configured
\* access, whatever access they had before; owners stay owners, and a level from a
\* parent group may stand.
AccessIsSet ==
  [][\A w \in Workers :
       Ends(w, "setaccess") \/ (Ends(w, "generate") /\ run[w].invite) =>
         \A k \in DOMAIN targets : Exists(targets[k].name) /\ group =>
           \A m \in targets[k].members : \A u \in TakenFor(m) \ Inheriting :
             projects[targets[k].name].level[u] = IF u \in Owners THEN "owner" ELSE "configured"]_vars

\* A push that returns without an error reached every target.  As it ends with
\* the first error, the targets after it are those it did not reach.
PushReachesAll ==
  [][\A w \in Workers : Ends(w, "push") =>
       \/ run[w].t \in DOMAIN targets
       \/ \A k \in DOMAIN targets : /\ Exists(targets[k].name)
                                  /\ projects[targets[k].name].branch[deferred.to].base = "deferred"
       \/ astray # {}]_vars

\* A delete that no call failed leaves no project of a target behind, whatever
\* images it had, unless a pipeline pushed one meanwhile: GitLab refuses then.
DeleteCompletes ==
  [][\A w \in Workers : Ends(w, "delete") /\ group =>
       \A k \in DOMAIN targets : Exists(targets[k].name) => targets[k].name \in late]_vars

\* What the line an operation ends with promises, if nothing went wrong.
QuietOpsComplete == GenerateCompletes /\ AccessIsSet /\ PushReachesAll /\ DeleteCompletes
=============================================================================
