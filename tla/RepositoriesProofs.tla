------------------------- MODULE RepositoriesProofs -------------------------
(***************************************************************************)
(* However two operations of an assignment run beside each other and fail:  *)
(* access is given as configured, work is kept, only targets are deleted.   *)
(* One that nothing failed in and nothing ran beside does all of its work.  *)
(***************************************************************************)
EXTENDS Repositories, FiniteSetTheorems, TLAPS

\* RunFits and RunStraight of an operation, of the state they speak about only.
Good(r, list, n, taken) ==
  /\ r \in Run
  /\ r.pc \in Holding \cup {"search"} => r.t \in DOMAIN list
  /\ r.pc \in Holding <=> r.found # None
  /\ r.pc = "member" <=> r.grant # None
  /\ r.found # None => r.found.id <= n
  /\ r.pc \in {"group", "target"} => ~r.mine /\ r.todo = {}
  /\ r.pc = "search" => r.op = "generate"
  /\ r.pc \in {"list", "images", "delete"} => r.op = "delete"
  /\ r.found # None =>
       /\ r.todo \subseteq list[r.t].members
       /\ r.grant # None => r.grant.who \in MayBe(list[r.t].members)
       /\ \/ r.found.name = list[r.t].name
          \/ r.op \in {"generate", "push"} /\ <<r.found.name, list[r.t].name>> \in taken

StateOK ==
  /\ targets \in TargetLists /\ deferred \in Deferreds /\ group \in BOOLEAN
  /\ ids \in Nat /\ ops \in 0..MaxOps /\ faults \in 0..MaxFaults
  /\ astray \subseteq Names \X Names /\ late \subseteq Names

ProjectsOK ==
  /\ projects \in [Names -> Project \cup {None}]
  /\ \A n \in Names : Exists(n) => projects[n].id <= ids
  /\ AccessOnlyAsConfigured

RunsOK ==
  /\ run \in [Workers -> Run \cup {None}]
  /\ \A w \in Workers : run[w] # None => Good(run[w], targets, ids, astray)
  /\ \A w \in Workers : run[w] # None /\ run[w].alone => \A v \in Workers : run[v] # None => v = w

FreshOK == \A w \in Workers : run[w] # None => StillEmpty(w)

LEMMA Parts == IInv <=> StateOK /\ ProjectsOK /\ RunsOK /\ FreshOK
<1>1. ASSUME IInv PROVE StateOK /\ ProjectsOK /\ RunsOK /\ FreshOK
  <2>1. StateOK /\ ProjectsOK /\ run \in [Workers -> Run \cup {None}]
    BY <1>1, Zenon DEF IInv, TypeOK, StateOK, ProjectsOK
  <2>2. \A w \in Workers : run[w] # None =>
          /\ RunFits(run[w]) /\ RunStraight(run[w]) /\ StillEmpty(w)
          /\ run[w].alone => \A v \in Workers : run[v] # None => v = w
    BY <1>1 DEF IInv, TypeOK, Active
  <2>3. \A w \in Workers : run[w] # None => Good(run[w], targets, ids, astray)
    BY <2>1, <2>2 DEF Good, RunFits, RunStraight
  <2> QED BY <2>1, <2>2, <2>3, Zenon DEF RunsOK, FreshOK
<1>2. ASSUME StateOK, ProjectsOK, RunsOK, FreshOK PROVE IInv
  <2>1. \A w \in Workers : run[w] # None => RunFits(run[w]) /\ RunStraight(run[w])
    BY <1>2 DEF RunsOK, Good, RunFits, RunStraight
  <2>2. TypeOK
    BY <1>2, <2>1, Zenon DEF TypeOK, StateOK, ProjectsOK, RunsOK, Active
  <2>3. \A w \in Active : run[w].alone => Active = {w}
    BY <1>2 DEF RunsOK, Active
  <2> QED BY <1>2, <2>1, <2>2, <2>3 DEF IInv, Active, FreshOK, ProjectsOK
<1> QED BY <1>1, <1>2

LEMMA PartsAfter == ASSUME StateOK', ProjectsOK', RunsOK', FreshOK' PROVE IInv'
<1>1. (StateOK /\ ProjectsOK /\ RunsOK /\ FreshOK => IInv)'
  BY Parts, PTL
<1> QED BY <1>1

----------------------------------------------------------------------------
(* A step of an operation *)

\* It goes on as x, or ends.
Moves(w, x) == Becomes(w, x) \/ Fault(w, x)

LEMMA FaultsBounded ==
  ASSUME StateOK, NEW w, NEW x, Moves(w, x) PROVE faults' \in 0..MaxFaults
<1>1. faults \in 0..MaxFaults /\ MaxFaults \in Nat
  BY RepositoriesAssumption, Zenon DEF StateOK
<1>2. faults' = faults \/ (faults < MaxFaults /\ faults' = faults + 1)
  BY DEF Moves, Becomes, Fault
<1> QED BY <1>1, <1>2

LEMMA QuietIsFree ==
  ASSUME NEW x \in Run, NEW list, NEW n, NEW taken, Good(x, list, n, taken)
  PROVE  /\ [x EXCEPT !.quiet = FALSE] \in Run /\ Good([x EXCEPT !.quiet = FALSE], list, n, taken)
         /\ [x EXCEPT !.quiet = FALSE].alone = x.alone
<1>1. [x EXCEPT !.quiet = FALSE] \in Run
  BY DEF Run
<1>2. LET y == [x EXCEPT !.quiet = FALSE]
      IN /\ y.op = x.op /\ y.pc = x.pc /\ y.t = x.t /\ y.found = x.found /\ y.mine = x.mine
         /\ y.todo = x.todo /\ y.grant = x.grant /\ y.alone = x.alone
  BY DEF Run
<1> HIDE DEF Run
<1> DEFINE y == [x EXCEPT !.quiet = FALSE]
<1> HIDE DEF y
<1>3. y \in Run /\ Good(y, list, n, taken) /\ y.alone = x.alone
  BY <1>1, <1>2 DEF Good, y
<1> QED BY <1>3 DEF y

LEMMA MoveKeepsRuns ==
  ASSUME RunsOK, StateOK, NEW w \in Workers, run[w] # None, UNCHANGED targets,
         ids' \in Nat, ids <= ids', astray \subseteq astray',
         NEW x, Moves(w, x),
         x # None => Good(x, targets, ids', astray') /\ (x.alone => run[w].alone)
  PROVE  /\ RunsOK'
         /\ \A v \in Workers : v # w => run'[v] = run[v]
         /\ x = None => run'[w] = None
         /\ x # None => run'[w] = x \/ run'[w] = [x EXCEPT !.quiet = FALSE]
<1>1. PICK y : /\ run' = [run EXCEPT ![w] = y]
               /\ y = x \/ (x # None /\ y = [x EXCEPT !.quiet = FALSE])
  <2>1. CASE Becomes(w, x)
    BY <2>1, Zenon DEF Becomes
  <2>2. CASE Fault(w, x)
    <3> DEFINE y == IF x = None THEN None ELSE [x EXCEPT !.quiet = FALSE]
    <3>1. run' = [run EXCEPT ![w] = y]
      BY <2>2, Zenon DEF Fault
    <3>2. y = x \/ (x # None /\ y = [x EXCEPT !.quiet = FALSE])
      OBVIOUS
    <3> QED BY <3>1, <3>2, Zenon
  <2> QED BY <2>1, <2>2, Zenon DEF Moves
<1>2. x # None => x \in Run
  BY DEF Good
<1>3. y = None \/ (y \in Run /\ Good(y, targets, ids', astray') /\ (y.alone => run[w].alone))
  <2>1. CASE x = None
    BY <1>1, <2>1
  <2>2. CASE x # None /\ y = x
    BY <1>2, <2>2
  <2>3. CASE x # None /\ y = [x EXCEPT !.quiet = FALSE]
    <3>1. x \in Run /\ Good(x, targets, ids', astray') /\ (x.alone => run[w].alone)
      BY <1>2, <2>3
    <3> QED BY <2>3, <3>1, QuietIsFree
  <2> QED BY <1>1, <2>1, <2>2, <2>3
<1>4. run' \in [Workers -> Run \cup {None}]
  BY <1>1, <1>3 DEF RunsOK
<1>5. run'[w] = y /\ \A v \in Workers : v # w => run'[v] = run[v]
  BY <1>1 DEF RunsOK
<1>6. \A v \in Workers : run'[v] # None => Good(run'[v], targets', ids', astray')
  <2> SUFFICES ASSUME NEW v \in Workers, run'[v] # None PROVE Good(run'[v], targets', ids', astray')
    OBVIOUS
  <2>1. CASE v = w
    BY <1>3, <1>5, <2>1
  <2>2. CASE v # w
    <3>1. Good(run[v], targets, ids, astray) /\ run'[v] = run[v]
      BY <1>5, <2>2 DEF RunsOK
    <3>2. run[v].found # None => run[v].found.id \in Nat
      BY <3>1 DEF Good, Run, Found
    <3> QED BY <3>1, <3>2 DEF Good, StateOK
  <2> QED BY <2>1, <2>2
<1>7. \A v \in Workers : run'[v] # None /\ run'[v].alone => \A u \in Workers : run'[u] # None => u = v
  BY <1>3, <1>5 DEF RunsOK
<1>8. x = None => y = None
  BY <1>1
<1> QED BY <1>1, <1>4, <1>5, <1>6, <1>7, <1>8 DEF RunsOK
\* The other operation, if there is one, keeps this one from being alone.
LEMMA FreshAfter ==
  ASSUME RunsOK, NEW w \in Workers, run[w] # None, \A v \in Workers : v # w => run'[v] = run[v],
         run'[w] # None => StillEmpty(w)'
  PROVE  FreshOK'
<1> SUFFICES ASSUME NEW v \in Workers, run'[v] # None PROVE StillEmpty(v)'
  BY DEF FreshOK
<1>1. CASE v = w
  BY <1>1
<1>2. CASE v # w
  <2>1. run'[v] = run[v] /\ ~run[v].alone
    BY <1>2 DEF RunsOK
  <2> QED BY <2>1 DEF StillEmpty
<1> QED BY <1>1, <1>2

\* What a step does to its operation, when it creates no project.
LEMMA StepKeeps ==
  ASSUME StateOK, RunsOK, NEW w \in Workers, run[w] # None, Fixed, group' \in BOOLEAN, ProjectsOK',
         astray \subseteq astray', astray' \subseteq Names \X Names,
         NEW x, Moves(w, x),
         x # None => /\ Good(x, targets, ids, astray') /\ (x.alone => run[w].alone)
                     /\ ~(x.op = "generate" /\ x.pc = "push")
  PROVE  IInv'
<1>1. UNCHANGED <<targets, deferred, ops, ids>> /\ late' \in {{}, late} /\ ids \in Nat /\ ids' \in Nat /\ ids <= ids'
  BY DEF Fixed, StateOK
<1>2. faults' \in 0..MaxFaults
  BY FaultsBounded
<1>3. StateOK'
  BY <1>1, <1>2, Zenon DEF StateOK
<1>4. /\ RunsOK'
      /\ \A v \in Workers : v # w => run'[v] = run[v]
      /\ x = None => run'[w] = None
      /\ x # None => run'[w] = x \/ run'[w] = [x EXCEPT !.quiet = FALSE]
  BY <1>1, MoveKeepsRuns
<1>5. run'[w] # None => ~(run'[w].op = "generate" /\ run'[w].pc = "push")
  <2>1. CASE x = None
    BY <1>4, <2>1
  <2>2. CASE x # None
    <3>1. x \in Run
      BY <2>2 DEF Good
    <3>2. [x EXCEPT !.quiet = FALSE].op = x.op /\ [x EXCEPT !.quiet = FALSE].pc = x.pc
      BY <3>1 DEF Run
    <3> QED BY <1>4, <2>2, <3>2
  <2> QED BY <2>1, <2>2
<1>6. run'[w] # None => StillEmpty(w)'
  BY <1>5 DEF StillEmpty
<1>7. FreshOK'
  BY <1>4, <1>6, FreshAfter
<1> QED BY <1>3, <1>4, <1>7, PartsAfter

----------------------------------------------------------------------------
(* The projects *)

LEMMA SameProjects ==
  ASSUME StateOK, ProjectsOK, UNCHANGED <<projects, targets, ids>>, astray \subseteq astray' PROVE ProjectsOK'
<1>1. AccessOnlyAsConfigured'
  BY DEF ProjectsOK, AccessOnlyAsConfigured, Exists
<1> QED BY <1>1 DEF ProjectsOK, Exists

\* Who had no access to a project still has none, or the project is gone.
LEMMA ProjectEdited ==
  ASSUME StateOK, ProjectsOK, UNCHANGED <<targets, ids>>, astray \subseteq astray',
         NEW p \in Names, NEW q, Put(p, q),
         \/ q = None
         \/ /\ Exists(p) /\ q \in Project /\ q.id = projects[p].id
            /\ \A u \in Users : q.level[u] = "configured" =>
                 \/ projects[p].level[u] = "configured"
                 \/ \E j \in DOMAIN targets : /\ u \in MayBe(targets[j].members)
                                              /\ targets[j].name = p \/ <<p, targets[j].name>> \in astray
  PROVE  ProjectsOK'
<1>1. projects' \in [Names -> Project \cup {None}]
  BY DEF ProjectsOK, Put
<1>2. projects'[p] = q /\ \A n \in Names : n # p => projects'[n] = projects[n]
  BY DEF ProjectsOK, Put
<1>3. \A n \in Names : projects'[n] # None => projects'[n].id <= ids'
  BY <1>2 DEF ProjectsOK, Exists
<1>4. AccessOnlyAsConfigured'
  <2> SUFFICES ASSUME NEW n \in Names, projects'[n] # None, NEW u \in Users, projects'[n].level[u] = "configured"
               PROVE  \E j \in DOMAIN targets : /\ u \in MayBe(targets[j].members)
                                                /\ targets[j].name = n \/ <<n, targets[j].name>> \in astray'
    BY DEF AccessOnlyAsConfigured, Exists
  <2>1. CASE n = p /\ projects[p].level[u] # "configured"
    BY <1>2, <2>1
  <2>2. CASE projects[n] # None /\ projects[n].level[u] = "configured"
    BY <2>2 DEF ProjectsOK, AccessOnlyAsConfigured, Exists
  <2> QED BY <1>2, <2>1, <2>2 DEF Exists
<1> QED BY <1>1, <1>3, <1>4 DEF ProjectsOK, Exists

----------------------------------------------------------------------------
(* Where operations go *)

LEMMA GotoGood ==
  ASSUME RunsOK, NEW w \in Workers, run[w] # None,
         NEW pc \in {"target", "search", "push", "setup", "members", "archive", "list", "images", "delete"},
         pc \in Holding <=> run[w].pc \in Holding, run[w].pc # "member",
         pc \in Holding \cup {"search"} => HasTarget(w),
         pc = "target" => run[w].pc = "group",
         pc = "search" => run[w].op = "generate",
         pc \in {"list", "images", "delete"} => run[w].op = "delete"
  PROVE  /\ Good(Goto(w, pc), targets, ids, astray)
         /\ Goto(w, pc).alone = run[w].alone /\ Goto(w, pc).op = run[w].op /\ Goto(w, pc).pc = pc
<1>1. Good(run[w], targets, ids, astray) /\ run[w] \in Run
  BY DEF RunsOK, Good
<1> DEFINE x == Goto(w, pc)
<1>2. x \in Run
  BY <1>1 DEF Goto, Run
<1>3. /\ x.op = run[w].op /\ x.pc = pc /\ x.t = run[w].t /\ x.found = run[w].found /\ x.mine = run[w].mine
      /\ x.todo = run[w].todo /\ x.grant = run[w].grant /\ x.alone = run[w].alone
  BY <1>1 DEF Goto, Run
<1> HIDE DEF x
<1>4. Good(x, targets, ids, astray)
  BY <1>1, <1>2, <1>3 DEF Good, HasTarget
<1> QED BY <1>3, <1>4 DEF x

LEMMA NextTargetGood ==
  ASSUME RunsOK, NEW w \in Workers, run[w] # None
  PROVE  /\ Good(NextTarget(w), targets, ids, astray)
         /\ NextTarget(w).alone = run[w].alone /\ NextTarget(w).pc = "target"
<1>1. run[w] \in Run
  BY DEF RunsOK
<1> DEFINE x == NextTarget(w)
<1>2. run[w].t + 1 \in Nat \ {0}
  BY <1>1 DEF Run
<1>3. x \in Run
  BY <1>1, <1>2 DEF NextTarget, Run
<1>4. /\ x.pc = "target" /\ x.found = None /\ x.mine = FALSE /\ x.todo = {} /\ x.grant = None
      /\ x.alone = run[w].alone
  BY <1>1 DEF NextTarget, Run
<1> HIDE DEF x
<1>5. Good(x, targets, ids, astray)
  BY <1>3, <1>4 DEF Good, Holding
<1> QED BY <1>4, <1>5 DEF x
\* On to the next target, or to the end: the projects may be edited.
LEMMA LeavesTarget ==
  ASSUME StateOK, RunsOK, NEW w \in Workers, run[w] # None, Fixed, group' \in BOOLEAN, ProjectsOK',
         UNCHANGED astray, Moves(w, NextTarget(w)) \/ Moves(w, None)
  PROVE  IInv'
<1>1. /\ Good(NextTarget(w), targets, ids, astray)
      /\ NextTarget(w).alone = run[w].alone /\ NextTarget(w).pc = "target"
  BY NextTargetGood
<1>2. astray' = astray /\ astray' \subseteq Names \X Names
  BY DEF StateOK
<1>3. CASE Moves(w, NextTarget(w))
  <2> DEFINE x == NextTarget(w)
  <2>1. Good(x, targets, ids, astray') /\ (x.alone => run[w].alone) /\ ~(x.op = "generate" /\ x.pc = "push")
    BY <1>1, <1>2
  <2>2. Moves(w, x)
    BY <1>3
  <2> HIDE DEF x
  <2> QED BY <1>2, <2>1, <2>2, StepKeeps
<1>4. CASE Moves(w, None)
  BY <1>2, <1>4, StepKeeps
<1> QED BY <1>3, <1>4

\* On within the target.
LEMMA GoesTo ==
  ASSUME StateOK, RunsOK, NEW w \in Workers, run[w] # None, Fixed, group' \in BOOLEAN, ProjectsOK', UNCHANGED astray,
         NEW pc \in {"target", "search", "setup", "members", "archive", "list", "images", "delete"},
         pc \in Holding <=> run[w].pc \in Holding, run[w].pc # "member",
         pc \in Holding \cup {"search"} => HasTarget(w),
         pc = "target" => run[w].pc = "group",
         pc = "search" => run[w].op = "generate",
         pc \in {"list", "images", "delete"} => run[w].op = "delete",
         Moves(w, Goto(w, pc))
  PROVE  IInv'
<1> DEFINE x == Goto(w, pc)
<1>1. Good(x, targets, ids, astray) /\ x.alone = run[w].alone /\ x.pc = pc
  BY GotoGood
<1>2. astray' = astray /\ astray' \subseteq Names \X Names /\ Moves(w, x)
  BY DEF StateOK
<1> HIDE DEF x
<1>3. Good(x, targets, ids, astray') /\ (x.alone => run[w].alone) /\ ~(x.op = "generate" /\ x.pc = "push")
  BY <1>1, <1>2
<1> QED BY <1>2, <1>3, StepKeeps

----------------------------------------------------------------------------
(* Every action *)

LEMMA StepFindGroup == ASSUME IInv, NEW w \in Workers, FindGroup(w) PROVE IInv'
<1>0. StateOK /\ ProjectsOK /\ RunsOK /\ FreshOK
  BY Parts
<1>1. run[w] # None /\ run[w].pc = "group" /\ Fixed /\ UNCHANGED <<projects, astray>>
  BY DEF FindGroup, At
<1>2. group' \in BOOLEAN
  BY <1>0 DEF FindGroup, StateOK
<1>3. ProjectsOK'
  BY <1>0, <1>1, SameProjects DEF Fixed
<1>4. Moves(w, Goto(w, "target")) \/ Moves(w, None)
  BY DEF FindGroup, Moves
<1>5. CASE Moves(w, Goto(w, "target"))
  BY <1>0, <1>1, <1>2, <1>3, <1>5, GoesTo DEF Holding
<1>6. CASE Moves(w, None)
  BY <1>0, <1>1, <1>2, <1>3, <1>6, LeavesTarget
<1> QED BY <1>4, <1>5, <1>6

LEMMA StepDone == ASSUME IInv, NEW w \in Workers, Done(w) PROVE IInv'
<1>0. StateOK /\ ProjectsOK /\ RunsOK /\ FreshOK
  BY Parts
<1>1. run[w] # None /\ Fixed /\ UNCHANGED <<group, projects, astray>> /\ Moves(w, None)
  BY DEF Done, At, Moves
<1>2. group' \in BOOLEAN
  BY <1>0, <1>1 DEF StateOK
<1>3. ProjectsOK'
  BY <1>0, <1>1, SameProjects DEF Fixed
<1> QED BY <1>0, <1>1, <1>2, <1>3, LeavesTarget

LEMMA FreshProject ==
  ASSUME NEW id \in Nat
  PROVE  Project0(id) \in Project /\ Project0(id).id = id /\ \A u \in Users : Project0(id).level[u] # "configured"
<1>1. PICK branch : branch = [b \in Branches |-> Pushed("empty")]
  OBVIOUS
<1>2. branch \in [Branches -> Content]
  BY <1>1 DEF Pushed, Content
<1>3. PICK level : level = [u \in Users |-> LevelBefore(u)]
  OBVIOUS
<1>4. level \in [Users -> Levels] /\ \A u \in Users : level[u] # "configured"
  BY <1>3 DEF LevelBefore, Levels
<1>5. Project0(id) = [id |-> id, branch |-> branch, setup |-> FALSE, level |-> level, archived |-> FALSE, images |-> 0]
  BY <1>1, <1>3 DEF Project0
<1> QED BY <1>2, <1>4, <1>5 DEF Project

\* A project under the name of the target that did not exist.
LEMMA ProjectCreated ==
  ASSUME StateOK, ProjectsOK, UNCHANGED <<targets, astray>>, NEW n \in Names, ids' = ids + 1, Put(n, Project0(ids + 1))
  PROVE  ProjectsOK'
<1> DEFINE q == Project0(ids + 1)
<1>1. q \in Project /\ q.id = ids + 1 /\ \A u \in Users : q.level[u] # "configured"
  BY FreshProject DEF StateOK
<1>2. projects' = [projects EXCEPT ![n] = q]
  BY DEF Put
<1> HIDE DEF q
<1>3. projects' \in [Names -> Project \cup {None}]
  BY <1>1, <1>2 DEF ProjectsOK
<1>4. projects'[n] = q /\ \A m \in Names : m # n => projects'[m] = projects[m]
  BY <1>2 DEF ProjectsOK
<1>5. \A m \in Names : projects'[m] # None => projects'[m].id <= ids'
  <2> SUFFICES ASSUME NEW m \in Names, projects'[m] # None PROVE projects'[m].id <= ids'
    OBVIOUS
  <2>1. CASE m = n
    BY <1>1, <1>4, <2>1 DEF StateOK
  <2>2. CASE m # n
    <3>1. projects[m] \in Project /\ projects[m].id <= ids
      BY <1>4, <2>2 DEF ProjectsOK, Exists
    <3>2. projects[m].id \in Nat
      BY <3>1 DEF Project
    <3> QED BY <1>4, <2>2, <3>1, <3>2 DEF StateOK
  <2> QED BY <2>1, <2>2
<1>6. AccessOnlyAsConfigured'
  <2> SUFFICES ASSUME NEW m \in Names, projects'[m] # None, NEW u \in Users, projects'[m].level[u] = "configured"
               PROVE  \E j \in DOMAIN targets : /\ u \in MayBe(targets[j].members)
                                                /\ targets[j].name = m \/ <<m, targets[j].name>> \in astray
    BY DEF AccessOnlyAsConfigured, Exists
  <2>1. m # n /\ projects[m] # None /\ projects[m].level[u] = "configured"
    BY <1>1, <1>4
  <2> QED BY <2>1 DEF ProjectsOK, AccessOnlyAsConfigured, Exists
<1> QED BY <1>3, <1>5, <1>6 DEF ProjectsOK, Exists
LEMMA TargetFacts ==
  ASSUME StateOK, NEW w, HasTarget(w)
  PROVE  This(w).name \in Names /\ This(w).members \subseteq Users /\ run[w].t \in DOMAIN targets
<1>1. targets \in Seq(Target)
  BY RepositoriesAssumption, Zenon DEF StateOK
<1>2. run[w].t \in DOMAIN targets
  BY DEF HasTarget
<1>3. targets[run[w].t] \in Target
  BY <1>1, <1>2
<1> QED BY <1>2, <1>3 DEF This, Target

LEMMA StepCreateProject == ASSUME IInv, NEW w \in Workers, CreateProject(w) PROVE IInv'
<1>0. StateOK /\ ProjectsOK /\ RunsOK /\ FreshOK
  BY Parts
<1>1. /\ run[w] # None /\ run[w].pc = "target" /\ run[w].op = "generate" /\ HasTarget(w)
      /\ UNCHANGED <<targets, deferred, ops, group, astray, late>>
  BY DEF CreateProject, At, In
<1> DEFINE n == This(w).name
<1> DEFINE mine == [Goto(w, "push") EXCEPT !.found = [name |-> n, id |-> ids + 1], !.mine = TRUE]
<1>2. n \in Names /\ run[w].t \in DOMAIN targets
  BY <1>0, <1>1, TargetFacts
<1>3. ids \in Nat /\ ids + 1 \in Nat /\ ids < ids + 1
  BY <1>0 DEF StateOK
<1>4. Good(run[w], targets, ids, astray) /\ run[w] \in Run /\ run[w].todo = {} /\ run[w].grant = None
  BY <1>0, <1>1 DEF RunsOK, Good
<1>5. /\ mine \in Run
      /\ mine.op = "generate" /\ mine.pc = "push" /\ mine.t = run[w].t /\ mine.todo = {} /\ mine.alone = run[w].alone
      /\ mine.grant = None /\ mine.found = [name |-> n, id |-> ids + 1]
  <2>1. [name |-> n, id |-> ids + 1] \in Found
    BY <1>2, <1>3 DEF Found
  <2> QED BY <1>1, <1>4, <2>1 DEF Goto, Run
<1>6. Good(Goto(w, "search"), targets, ids, astray) /\ Goto(w, "search").alone = run[w].alone
      /\ Goto(w, "search").pc = "search"
  BY <1>0, <1>1, GotoGood DEF Holding
<1>7. mine.found # None /\ mine.found.id = ids + 1 /\ mine.found.name = n
  BY <1>5, <1>2, <1>3, RepositoriesNone DEF Found
<1> HIDE DEF mine
<1>8. Good(mine, targets, ids + 1, astray)
  <2>1. mine.found.name = targets[mine.t].name
    BY <1>5, <1>7 DEF This
  <2> QED BY <1>2, <1>3, <1>5, <1>7, <2>1 DEF Good, Holding
<1>9. ASSUME ids' = ids + 1, Put(n, Project0(ids + 1)), NEW x, Moves(w, x), x = mine \/ x = Goto(w, "search")
      PROVE  IInv'
  <2>1. faults' \in 0..MaxFaults
    BY <1>0, <1>9, FaultsBounded
  <2>2. StateOK'
    BY <1>0, <1>1, <1>3, <1>9, <2>1, Zenon DEF StateOK
  <2>3. ProjectsOK'
    BY <1>0, <1>1, <1>2, <1>9, ProjectCreated
  <2>4. Good(x, targets, ids', astray') /\ (x.alone => run[w].alone) /\ x # None
    <3>1. CASE x = mine
      BY <1>1, <1>5, <1>8, <1>9, <3>1, RepositoriesNone
    <3>2. CASE x = Goto(w, "search")
      <4>1. Good(x, targets, ids, astray) /\ x \in Run /\ x.found = None
        BY <1>6, <3>2 DEF Good, Holding
      <4>2. Good(x, targets, ids + 1, astray)
        BY <4>1 DEF Good
      <4> QED BY <1>1, <1>6, <1>9, <3>2, <4>1, <4>2, RepositoriesNone
    <3> QED BY <1>9, <3>1, <3>2
  <2>5. /\ RunsOK'
        /\ \A v \in Workers : v # w => run'[v] = run[v]
        /\ run'[w] = x \/ run'[w] = [x EXCEPT !.quiet = FALSE]
    BY <1>0, <1>1, <1>3, <1>9, <2>4, MoveKeepsRuns
  <2>6. run'[w] # None => StillEmpty(w)'
    <3>1. CASE x = mine
      <4>1. run'[w].pc = "push" /\ run'[w].found = mine.found
        BY <1>5, <2>5, <3>1 DEF Run
      <4>2. projects'[n] = Project0(ids + 1)
        BY <1>0, <1>2, <1>9 DEF ProjectsOK, Put
      <4>3. /\ \A b \in Branches : projects'[n].branch[b] = Pushed("empty")
            /\ \A u \in Users : projects'[n].level[u] \notin {"configured", "other"}
        BY <4>2 DEF Project0, Pushed, LevelBefore
      <4> QED BY <1>7, <4>1, <4>3 DEF StillEmpty
    <3>2. CASE x = Goto(w, "search")
      <4>1. x \in Run /\ x.pc = "search"
        BY <1>6, <3>2 DEF Good
      <4>2. run'[w].pc = "search"
        BY <2>5, <4>1 DEF Run
      <4> QED BY <4>2 DEF StillEmpty
    <3> QED BY <1>9, <3>1, <3>2
  <2>7. FreshOK'
    BY <1>0, <1>1, <2>5, <2>6, FreshAfter
  <2> QED BY <2>2, <2>3, <2>5, <2>7, PartsAfter
<1>10. ASSUME UNCHANGED <<projects, ids>>, Moves(w, Goto(w, "search"))
       PROVE  IInv'
  <2>1. ProjectsOK'
    BY <1>0, <1>1, <1>10, SameProjects
  <2>2. StateOK'
    <3>1. faults' \in 0..MaxFaults
      BY <1>0, <1>10, FaultsBounded
    <3> QED BY <1>0, <1>1, <1>10, <3>1, Zenon DEF StateOK
  <2> DEFINE x == Goto(w, "search")
  <2>3. x \in Run /\ x # None
    BY <1>6, RepositoriesNone DEF Good
  <2>4. Good(x, targets, ids', astray') /\ (x.alone => run[w].alone) /\ x.pc = "search" /\ Moves(w, x)
    BY <1>1, <1>6, <1>10
  <2> HIDE DEF x
  <2>5. /\ RunsOK'
        /\ \A v \in Workers : v # w => run'[v] = run[v]
        /\ run'[w] = x \/ run'[w] = [x EXCEPT !.quiet = FALSE]
    BY <1>0, <1>1, <1>3, <1>10, <2>3, <2>4, MoveKeepsRuns
  <2>6. run'[w].pc = "search"
    BY <2>3, <2>4, <2>5 DEF Run
  <2>7. FreshOK'
    BY <1>0, <1>1, <2>5, <2>6, FreshAfter DEF StillEmpty
  <2> QED BY <2>1, <2>2, <2>5, <2>7, PartsAfter
<1>11. \/ ids' = ids + 1 /\ Put(n, Project0(ids + 1)) /\ (Moves(w, mine) \/ Moves(w, Goto(w, "search")))
       \/ UNCHANGED <<projects, ids>> /\ Moves(w, Goto(w, "search"))
  BY DEF CreateProject, Moves, mine
<1> QED BY <1>9, <1>10, <1>11
\* Only a project that is found alone is taken under another name, and then the
\* right one does not exist.
LEMMA ChosenFacts ==
  ASSUME ProjectsOK, NEW n \in Names, NEW p \in Chosen(n)
  PROVE  p \in Names /\ Exists(p) /\ (p # n => ~Exists(n))
<1>1. Hits(n) \subseteq Names /\ \A q \in Hits(n) : Exists(q)
  BY RepositoriesAssumption DEF Hits
<1>2. p \in Hits(n)
  BY DEF Chosen
<1>3. ASSUME p # n PROVE ~Exists(n)
  <2>1. Cardinality(Hits(n)) = 1
    BY <1>3 DEF Chosen
  <2>2. IsFiniteSet(Hits(n))
    BY <1>1, RepositoriesAssumption, FS_Subset
  <2>3. \E q : Hits(n) = {q}
    BY <2>1, <2>2, FS_Singleton
  <2>4. Exists(n) => n \in Hits(n)
    BY RepositoriesAssumption DEF Hits
  <2> QED BY <1>2, <1>3, <2>3, <2>4
<1> QED BY <1>1, <1>2, <1>3

Taking(w, pc, p, todo) ==
  [Goto(w, pc) EXCEPT !.found = [name |-> p, id |-> projects[p].id], !.todo = todo]

LEMMA NoGrant == ASSUME RunsOK, NEW w \in Workers, run[w] # None, run[w].pc # "member" PROVE run[w].grant = None
BY DEF RunsOK, Good

MayTake(w, pc, p, todo, taken) ==
  /\ run[w] # None /\ HasTarget(w) /\ run[w].grant = None
  /\ pc \in {"push", "members", "archive", "list"} /\ (pc = "list" => run[w].op = "delete")
  /\ p \in Names /\ Exists(p) /\ todo \subseteq This(w).members
  /\ p = This(w).name \/ (run[w].op \in {"generate", "push"} /\ <<p, This(w).name>> \in taken)

\* An operation that found a project for its target.
LEMMA FoundGood ==
  ASSUME StateOK, ProjectsOK, RunsOK, NEW w \in Workers, NEW pc, NEW p, NEW todo, NEW taken,
         MayTake(w, pc, p, todo, taken), NEW x, x = Taking(w, pc, p, todo)
  PROVE  Good(x, targets, ids, taken) /\ x.alone = run[w].alone /\ x.pc = pc /\ x.op = run[w].op
<1> USE DEF MayTake
<1> DEFINE found == [name |-> p, id |-> projects[p].id]
<1>1. run[w] \in Run /\ run[w].t \in DOMAIN targets /\ This(w).members \subseteq Users /\ run[w].grant = None
  BY TargetFacts DEF RunsOK, Good
<1>2. projects[p] \in Project /\ projects[p].id \in Nat /\ projects[p].id <= ids
  BY DEF ProjectsOK, Exists, Project
<1>3. found \in Found /\ found # None /\ found.name = p /\ found.id <= ids
  BY <1>2, RepositoriesNone DEF Found
<1>6. x = [Goto(w, pc) EXCEPT !.found = found, !.todo = todo]
  BY DEF Taking
<1> HIDE DEF found
<1>4. /\ x \in Run
      /\ x.op = run[w].op /\ x.pc = pc /\ x.t = run[w].t /\ x.found = found /\ x.todo = todo /\ x.grant = None
      /\ x.alone = run[w].alone
  <2>1. Goto(w, pc) \in Run
    BY <1>1 DEF Goto, Run
  <2>2. x \in Run
    BY <1>1, <1>3, <1>6, <2>1 DEF Run
  <2>3. /\ x.op = run[w].op /\ x.pc = pc /\ x.t = run[w].t /\ x.found = found /\ x.todo = todo
        /\ x.grant = run[w].grant /\ x.alone = run[w].alone
    BY <1>1, <1>6 DEF Goto, Run
  <2> QED BY <1>1, <2>2, <2>3
<1>5. Good(x, targets, ids, taken)
  BY <1>1, <1>3, <1>4 DEF Good, Holding, This
<1> QED BY <1>4, <1>5

LEMMA StepSearchProject == ASSUME IInv, NEW w \in Workers, SearchProject(w) PROVE IInv'
<1>0. StateOK /\ ProjectsOK /\ RunsOK /\ FreshOK
  BY Parts
<1> DEFINE n == This(w).name
<1>1. /\ run[w] # None /\ HasTarget(w) /\ Fixed /\ UNCHANGED <<group, projects>>
      /\ run[w].pc = "search" \/ (run[w].pc = "target" /\ run[w].op = "push")
  BY DEF SearchProject, At, In
<1>2. n \in Names /\ group' \in BOOLEAN
  BY <1>0, <1>1, TargetFacts DEF StateOK
<1>3. ASSUME UNCHANGED astray PROVE ProjectsOK'
  BY <1>0, <1>1, <1>3, SameProjects DEF Fixed
<1>4. ASSUME NEW p \in Chosen(n), NEW pc \in {"push", "members"}, pc = "push" => run[w].op = "push",
             NEW todo, todo \subseteq This(w).members,
             Moves(w, Taking(w, pc, p, todo)),
             astray' = astray \cup (IF p # n /\ ~Exists(n) THEN {<<p, n>>} ELSE {}),
             run[w].op \in {"generate", "push"}
      PROVE  IInv'
  <2> DEFINE x == Taking(w, pc, p, todo)
  <2>1. p \in Names /\ Exists(p) /\ (p # n => ~Exists(n))
    BY <1>0, <1>2, ChosenFacts
  <2>2. astray \subseteq astray' /\ astray' \subseteq Names \X Names
    BY <1>0, <1>2, <1>4, <2>1 DEF StateOK
  <2>3. p = n \/ <<p, n>> \in astray'
    BY <1>4, <2>1
  <2>8. x = Taking(w, pc, p, todo)
    OBVIOUS
  <2> HIDE DEF x
  <2>4. Good(x, targets, ids, astray') /\ x.alone = run[w].alone /\ x.pc = pc /\ x.op = run[w].op
    <3>1. pc \in {"push", "members", "archive", "list"} /\ (pc = "list" => run[w].op = "delete")
      OBVIOUS
    <3>2. p = This(w).name \/ (run[w].op \in {"generate", "push"} /\ <<p, This(w).name>> \in astray')
      BY <1>4, <2>3
    <3>3. /\ p \in Names /\ Exists(p) /\ todo \subseteq This(w).members /\ run[w] # None /\ HasTarget(w)
          /\ run[w].grant = None
      BY <1>0, <1>1, <1>4, <2>1, NoGrant
    <3>4. MayTake(w, pc, p, todo, astray')
      BY <3>1, <3>2, <3>3 DEF MayTake
    <3> QED BY <1>0, <2>8, <3>4, FoundGood
  <2>5. ProjectsOK'
    BY <1>0, <1>1, <2>2, SameProjects DEF Fixed
  <2>6. Moves(w, x)
    BY <1>4, <2>8
  <2>7. ~(x.op = "generate" /\ x.pc = "push")
    BY <1>4, <2>4
  <2> QED BY <1>0, <1>1, <1>2, <2>2, <2>4, <2>5, <2>6, <2>7, StepKeeps
<1>5. CASE UNCHANGED astray /\ (Moves(w, NextTarget(w)) \/ Moves(w, None))
  BY <1>0, <1>1, <1>2, <1>3, <1>5, LeavesTarget
<1>6. CASE \E p \in Chosen(n) :
             /\ Becomes(w, [Goto(w, IF In(w, {"push"}) THEN "push" ELSE "members") EXCEPT
                              !.found = [name |-> p, id |-> projects[p].id],
                              !.todo = IF run[w].invite /\ In(w, {"generate"}) THEN This(w).members ELSE {}])
             /\ astray' = astray \cup (IF p # n /\ ~Exists(n) THEN {<<p, n>>} ELSE {})
  <2>1. run[w].op \in {"generate", "push"}
    BY <1>0, <1>1 DEF RunsOK, Good
  <2> DEFINE pc == IF In(w, {"push"}) THEN "push" ELSE "members"
  <2> DEFINE todo == IF run[w].invite /\ In(w, {"generate"}) THEN This(w).members ELSE {}
  <2>2. pc \in {"push", "members"} /\ (pc = "push" => run[w].op = "push") /\ todo \subseteq This(w).members
    BY DEF In
  <2>3. PICK p \in Chosen(n) :
           /\ Moves(w, Taking(w, pc, p, todo))
           /\ astray' = astray \cup (IF p # n /\ ~Exists(n) THEN {<<p, n>>} ELSE {})
    BY <1>6 DEF Moves, Taking
  <2> HIDE DEF pc, todo
  <2> QED BY <1>4, <2>1, <2>2, <2>3
<1> QED BY <1>5, <1>6 DEF SearchProject, Moves
\* What an operation knows that holds a project.
LEMMA HoldFacts ==
  ASSUME StateOK, ProjectsOK, RunsOK, NEW w \in Workers, run[w] # None, run[w].pc \in Holding
  PROVE  /\ run[w] \in Run /\ run[w].found # None /\ run[w].found \in Found /\ run[w].found.name \in Names
         /\ HasTarget(w) /\ run[w].t \in DOMAIN targets /\ run[w].todo \subseteq targets[run[w].t].members
         /\ run[w].pc = "member" <=> run[w].grant # None
         /\ run[w].grant # None => run[w].grant.who \in MayBe(targets[run[w].t].members)
         /\ There(w) => projects[run[w].found.name] \in Project
         /\ \/ run[w].found.name = targets[run[w].t].name
            \/ <<run[w].found.name, targets[run[w].t].name>> \in astray
<1>1. Good(run[w], targets, ids, astray)
  BY DEF RunsOK
<1>2. run[w] \in Run /\ run[w].found # None /\ run[w].t \in DOMAIN targets
  BY <1>1 DEF Good
<1>3. run[w].found \in Found
  BY <1>2 DEF Run
<1>4. run[w].found.name \in Names
  BY <1>3 DEF Found
<1>5. There(w) => projects[run[w].found.name] \in Project
  BY <1>4 DEF There, Exists, ProjectsOK
<1> QED BY <1>1, <1>2, <1>3, <1>4, <1>5 DEF Good, HasTarget

\* An operation goes on with the project it holds.
LEMMA HoldsOn ==
  ASSUME StateOK, RunsOK, NEW w \in Workers, run[w] # None, run[w].pc \in Holding,
         Fixed, UNCHANGED <<group, astray>>, ProjectsOK',
         NEW x \in Run, x.op = run[w].op, x.t = run[w].t, x.found = run[w].found, x.alone = run[w].alone,
         x.pc \in Holding \ {"push"}, x.pc \in {"list", "images", "delete"} => run[w].op = "delete",
         x.todo \subseteq targets[run[w].t].members, x.pc = "member" <=> x.grant # None,
         x.grant # None => x.grant.who \in MayBe(targets[run[w].t].members),
         Moves(w, x)
  PROVE  IInv'
<1>1. Good(run[w], targets, ids, astray)
  BY DEF RunsOK
<1>2. Good(x, targets, ids, astray')
  BY <1>1 DEF Good, Holding
<1>3. group' \in BOOLEAN /\ astray' = astray /\ astray' \subseteq Names \X Names
  BY DEF StateOK
<1>4. x # None
  BY RepositoriesNone
<1> QED BY <1>2, <1>3, <1>4, StepKeeps

\* The project at hand is edited, and nobody gets access.
LEMMA HeldEdited ==
  ASSUME StateOK, ProjectsOK, RunsOK, Fixed, UNCHANGED astray,
         NEW p \in Names, Exists(p), NEW q \in Project, q.id = projects[p].id, q.level = projects[p].level, Put(p, q)
  PROVE  ProjectsOK'
BY ProjectEdited DEF Fixed

\* A push changes one branch.
LEMMA PushedBranch ==
  ASSUME NEW q \in Project, NEW b \in Branches, NEW base \in {"starter", "deferred"},
         NEW pushed, pushed = [q EXCEPT !.branch[b] = Pushed(base)]
  PROVE  /\ pushed \in Project /\ pushed.id = q.id /\ pushed.level = q.level /\ pushed.setup = q.setup
         /\ ~pushed.branch[b].work /\ pushed.branch[b].base = base
         /\ \A c \in Branches : c # b => pushed.branch[c] = q.branch[c]
<1>1. PICK branch : branch = [q.branch EXCEPT ![b] = Pushed(base)]
  OBVIOUS
<1>2. q.branch \in [Branches -> Content] /\ Pushed(base) \in Content
  BY DEF Project, Content, Pushed
<1>3. /\ branch \in [Branches -> Content] /\ branch[b] = Pushed(base)
      /\ \A c \in Branches : c # b => branch[c] = q.branch[c]
  BY <1>1, <1>2
<1>4. pushed = [q EXCEPT !.branch = branch]
  BY <1>1 DEF Project
<1>5. pushed \in Project /\ pushed.branch = branch /\ pushed.id = q.id /\ pushed.level = q.level /\ pushed.setup = q.setup
  BY <1>3, <1>4 DEF Project
<1>6. ~pushed.branch[b].work /\ pushed.branch[b].base = base
  BY <1>3, <1>5 DEF Pushed
<1> QED BY <1>3, <1>5, <1>6

LEMMA StepPushStarter == ASSUME IInv, NEW w \in Workers, PushStarter(w) PROVE IInv'
<1>0. StateOK /\ ProjectsOK /\ RunsOK /\ FreshOK
  BY Parts
<1>1. run[w] # None /\ run[w].pc = "push" /\ Fixed /\ UNCHANGED <<group, astray>> /\ run[w].pc \in Holding
  BY DEF PushStarter, At, Holding
<1> DEFINE p == run[w].found.name
<1>2. p \in Names /\ HasTarget(w) /\ (There(w) => Exists(p) /\ projects[p] \in Project)
  BY <1>0, <1>1, HoldFacts DEF There
<1>3. UNCHANGED projects \/ (There(w) /\ Put(p, [projects[p] EXCEPT !.branch[Main] = Pushed("starter")]))
  BY DEF PushStarter
<1>4. ProjectsOK'
  <2>1. CASE UNCHANGED projects
    BY <1>0, <1>1, <2>1, SameProjects DEF Fixed
  <2>2. CASE There(w) /\ Put(p, [projects[p] EXCEPT !.branch[Main] = Pushed("starter")])
    <3> DEFINE q == [projects[p] EXCEPT !.branch[Main] = Pushed("starter")]
    <3>1. Main \in Branches /\ projects[p] \in Project
      BY <1>2, <2>2, RepositoriesAssumption
    <3>2. q \in Project /\ q.id = projects[p].id /\ q.level = projects[p].level
      BY <3>1, PushedBranch
    <3> HIDE DEF q
    <3>3. Put(p, q)
      BY <2>2 DEF q
    <3> QED BY <1>0, <1>1, <1>2, <2>2, <3>2, <3>3, HeldEdited
  <2> QED BY <1>3, <2>1, <2>2
<1>5. group' \in BOOLEAN
  BY <1>0, <1>1 DEF StateOK
<1>6. CASE Moves(w, NextTarget(w))
  BY <1>0, <1>1, <1>4, <1>5, <1>6, LeavesTarget
<1>7. CASE Moves(w, Goto(w, "setup"))
  BY <1>0, <1>1, <1>2, <1>4, <1>5, <1>7, GoesTo DEF Holding
<1>8. Moves(w, NextTarget(w)) \/ Moves(w, Goto(w, "setup"))
  BY DEF PushStarter, Moves
<1> QED BY <1>6, <1>7, <1>8

LEMMA StepSetUp == ASSUME IInv, NEW w \in Workers, SetUp(w) PROVE IInv'
<1>0. StateOK /\ ProjectsOK /\ RunsOK /\ FreshOK
  BY Parts
<1>1. run[w] # None /\ run[w].pc = "setup" /\ Fixed /\ UNCHANGED <<group, astray>> /\ run[w].pc \in Holding
  BY DEF SetUp, At, Holding
<1> DEFINE p == run[w].found.name
<1>2. /\ run[w] \in Run /\ p \in Names /\ HasTarget(w) /\ (There(w) => Exists(p) /\ projects[p] \in Project)
      /\ This(w).members \subseteq Users /\ run[w].grant = None
  BY <1>0, <1>1, HoldFacts, TargetFacts DEF There
<1>3. ProjectsOK'
  <2>1. CASE UNCHANGED projects
    BY <1>0, <1>1, <2>1, SameProjects DEF Fixed
  <2>2. CASE There(w) /\ Put(p, [projects[p] EXCEPT !.setup = TRUE])
    <3> DEFINE q == [projects[p] EXCEPT !.setup = TRUE]
    <3>1. q \in Project /\ q.id = projects[p].id /\ q.level = projects[p].level
      BY <1>2, <2>2 DEF Project
    <3> HIDE DEF q
    <3>2. Put(p, q)
      BY <2>2 DEF q
    <3> QED BY <1>0, <1>1, <1>2, <2>2, <3>1, <3>2, HeldEdited
  <2> QED BY <2>1, <2>2 DEF SetUp
<1>4. PICK x : x = [Goto(w, "members") EXCEPT !.todo = IF run[w].invite THEN This(w).members ELSE {}]
  OBVIOUS
<1>5. /\ x \in Run /\ x.op = run[w].op /\ x.t = run[w].t /\ x.found = run[w].found /\ x.alone = run[w].alone
      /\ x.pc = "members" /\ x.todo \subseteq This(w).members /\ x.grant = None
  BY <1>2, <1>4 DEF Goto, Run
<1>6. Moves(w, x)
  BY <1>4 DEF SetUp, Moves
<1> QED BY <1>0, <1>1, <1>3, <1>5, <1>6, HoldsOn DEF Holding, This
LEMMA StepFindUser == ASSUME IInv, NEW w \in Workers, FindUser(w) PROVE IInv'
<1>0. StateOK /\ ProjectsOK /\ RunsOK /\ FreshOK
  BY Parts
<1>1. /\ run[w] # None /\ run[w].pc = "members" /\ Fixed /\ UNCHANGED <<group, projects, astray>>
      /\ run[w].pc \in Holding
  BY DEF FindUser, At, Holding
<1>2. /\ run[w] \in Run /\ run[w].t \in DOMAIN targets /\ run[w].grant = None /\ targets[run[w].t].members \subseteq Users
      /\ run[w].todo \subseteq targets[run[w].t].members
  BY <1>0, <1>1, HoldFacts, TargetFacts DEF This
<1>3. ProjectsOK'
  BY <1>0, <1>1, SameProjects DEF Fixed
<1>4. PICK m \in run[w].todo :
        \/ Moves(w, [run[w] EXCEPT !.todo = @ \ {m}])
        \/ \E u \in Single(m) \cup Invited(m), byMail \in BOOLEAN :
             Moves(w, [[run[w] EXCEPT !.todo = @ \ {m}] EXCEPT !.pc = "member",
                                                               !.grant = [who |-> u, byMail |-> byMail]])
  BY DEF FindUser, Moves
<1>5. PICK rest : rest = [run[w] EXCEPT !.todo = @ \ {m}]
  OBVIOUS
<1>6. /\ rest \in Run /\ rest.op = run[w].op /\ rest.t = run[w].t /\ rest.found = run[w].found
      /\ rest.alone = run[w].alone /\ rest.pc = "members" /\ rest.todo \subseteq targets[run[w].t].members
      /\ rest.grant = None
  BY <1>1, <1>2, <1>5 DEF Run
<1>7. CASE Moves(w, rest)
  BY <1>0, <1>1, <1>3, <1>6, <1>7, HoldsOn DEF Holding
<1>8. ASSUME NEW u \in Single(m) \cup Invited(m), NEW byMail \in BOOLEAN,
             Moves(w, [rest EXCEPT !.pc = "member", !.grant = [who |-> u, byMail |-> byMail]])
      PROVE  IInv'
  <2>1. u \in Users /\ u \in MayBe(targets[run[w].t].members)
    <3>1. m \in targets[run[w].t].members /\ m \in Users
      BY <1>2
    <3>2. Single(m) \cup Invited(m) \subseteq Users
      BY <3>1, RepositoriesAssumption DEF Single, Invited
    <3> QED BY <3>1, <3>2 DEF MayBe
  <2>2. PICK grant : grant = [who |-> u, byMail |-> byMail]
    OBVIOUS
  <2>3. grant \in Grant /\ grant # None /\ grant.who = u
    BY <2>1, <2>2, RepositoriesNone DEF Grant
  <2>4. PICK x : x = [rest EXCEPT !.pc = "member", !.grant = grant]
    OBVIOUS
  <2>5. /\ x \in Run /\ x.op = run[w].op /\ x.t = run[w].t /\ x.found = run[w].found /\ x.alone = run[w].alone
        /\ x.pc = "member" /\ x.todo \subseteq targets[run[w].t].members /\ x.grant = grant
    BY <1>6, <2>3, <2>4 DEF Run
  <2>6. Moves(w, x)
    BY <1>8, <2>2, <2>4
  <2> QED BY <1>0, <1>1, <1>3, <2>1, <2>3, <2>5, <2>6, HoldsOn DEF Holding
<1> QED BY <1>4, <1>5, <1>7, <1>8

\* Only somebody without a higher level gets the configured one.
LEMMA LevelsSetFacts ==
  ASSUME NEW level \in Levels, NEW byMail \in BOOLEAN, NEW new \in LevelsSet(level, byMail)
  PROVE  new \in Levels /\ (level = "owner" => new = "owner")
         /\ (level \notin {"owner", "inherited"} => new = "configured")
         /\ (new \in {"owner", "inherited"} => level = new)
BY DEF LevelsSet, Levels

LEMMA StepSetMember == ASSUME IInv, NEW w \in Workers, SetMember(w) PROVE IInv'
<1>0. StateOK /\ ProjectsOK /\ RunsOK /\ FreshOK
  BY Parts
<1>1. run[w] # None /\ run[w].pc = "member" /\ Fixed /\ UNCHANGED <<group, astray>> /\ run[w].pc \in Holding
  BY DEF SetMember, At, Holding
<1> DEFINE p == run[w].found.name
<1> DEFINE u == run[w].grant.who
<1>2. /\ run[w] \in Run /\ p \in Names /\ run[w].t \in DOMAIN targets /\ run[w].grant # None
      /\ run[w].todo \subseteq targets[run[w].t].members
      /\ u \in MayBe(targets[run[w].t].members)
      /\ (There(w) => Exists(p) /\ projects[p] \in Project)
      /\ targets[run[w].t].name = p \/ <<p, targets[run[w].t].name>> \in astray
  BY <1>0, <1>1, HoldFacts DEF There
<1>3. u \in Users /\ run[w].grant.byMail \in BOOLEAN
  BY <1>2 DEF Run, Grant
<1>4. UNCHANGED projects \/ (There(w) /\ \E level \in LevelsSet(projects[p].level[u], run[w].grant.byMail) :
                                          Put(p, [projects[p] EXCEPT !.level[u] = level]))
  BY DEF SetMember
<1>5. ProjectsOK'
  <2>1. CASE UNCHANGED projects
    BY <1>0, <1>1, <2>1, SameProjects DEF Fixed
  <2>2. ASSUME There(w), NEW new \in LevelsSet(projects[p].level[u], run[w].grant.byMail),
               Put(p, [projects[p] EXCEPT !.level[u] = new])
        PROVE  ProjectsOK'
    <3>1. PICK level : level = [projects[p].level EXCEPT ![u] = new]
      OBVIOUS
    <3>2. projects[p].level \in [Users -> Levels]
      BY <1>2, <2>2 DEF Project
    <3>3. new \in Levels
      BY <1>3, <3>2, LevelsSetFacts
    <3>4. level \in [Users -> Levels] /\ \A v \in Users : v # u => level[v] = projects[p].level[v]
      BY <3>1, <3>2, <3>3
    <3>5. PICK q : q = [projects[p] EXCEPT !.level = level]
      OBVIOUS
    <3>6. q \in Project /\ q.id = projects[p].id /\ q.level = level
      BY <1>2, <2>2, <3>4, <3>5 DEF Project
    <3>7. Put(p, q)
      BY <1>2, <2>2, <3>1, <3>5 DEF Project
    <3>8. \A v \in Users : q.level[v] = "configured" =>
            \/ projects[p].level[v] = "configured"
            \/ \E j \in DOMAIN targets : /\ v \in MayBe(targets[j].members)
                                         /\ targets[j].name = p \/ <<p, targets[j].name>> \in astray
      BY <1>2, <3>4, <3>6
    <3> QED BY <1>0, <1>1, <1>2, <2>2, <3>6, <3>7, <3>8, ProjectEdited DEF Fixed
  <2> QED BY <1>4, <2>1, <2>2
<1>6. PICK x : x = [run[w] EXCEPT !.pc = "members", !.grant = None]
  OBVIOUS
<1>7. /\ x \in Run /\ x.op = run[w].op /\ x.t = run[w].t /\ x.found = run[w].found /\ x.alone = run[w].alone
      /\ x.pc = "members" /\ x.todo \subseteq targets[run[w].t].members /\ x.grant = None
  BY <1>2, <1>6 DEF Run
<1>8. Moves(w, x)
  BY <1>6 DEF SetMember, Moves
<1> QED BY <1>0, <1>1, <1>5, <1>7, <1>8, HoldsOn DEF Holding

LEMMA StepMembersSet == ASSUME IInv, NEW w \in Workers, MembersSet(w) PROVE IInv'
<1>0. StateOK /\ ProjectsOK /\ RunsOK /\ FreshOK
  BY Parts
<1>1. run[w] # None /\ Fixed /\ UNCHANGED <<group, projects, astray>> /\ Moves(w, NextTarget(w))
  BY DEF MembersSet, At, Moves
<1>2. group' \in BOOLEAN
  BY <1>0, <1>1 DEF StateOK
<1>3. ProjectsOK'
  BY <1>0, <1>1, SameProjects DEF Fixed
<1> QED BY <1>0, <1>1, <1>2, <1>3, LeavesTarget

LEMMA StepGetProject == ASSUME IInv, NEW w \in Workers, GetProject(w) PROVE IInv'
<1>0. StateOK /\ ProjectsOK /\ RunsOK /\ FreshOK
  BY Parts
<1> DEFINE n == This(w).name
<1>1. /\ run[w] # None /\ run[w].pc = "target" /\ HasTarget(w) /\ Fixed /\ UNCHANGED <<group, projects, astray>>
      /\ run[w].op \in {"setaccess", "update", "archive", "unarchive"}
  BY DEF GetProject, At, In
<1>2. group' \in BOOLEAN /\ astray' = astray /\ astray' \subseteq Names \X Names
  BY <1>0, <1>1 DEF StateOK
<1>3. ProjectsOK'
  BY <1>0, <1>1, SameProjects DEF Fixed
<1>4. n \in Names
  BY <1>0, <1>1, TargetFacts
<1>5. CASE Moves(w, NextTarget(w))
  BY <1>0, <1>1, <1>2, <1>3, <1>5, LeavesTarget
<1> DEFINE pc == IF In(w, {"setaccess"}) THEN "members" ELSE IF In(w, {"update"}) THEN "push" ELSE "archive"
<1> DEFINE todo == IF pc = "members" THEN This(w).members ELSE {}
<1>6. pc \in {"push", "members", "archive", "list"} /\ pc # "list" /\ todo \subseteq This(w).members
  OBVIOUS
<1>7. (Exists(n) /\ Moves(w, Taking(w, pc, n, todo))) \/ Moves(w, NextTarget(w))
  BY DEF GetProject, Moves, Taking
<1> HIDE DEF pc, todo
<1>8. ASSUME Exists(n), Moves(w, Taking(w, pc, n, todo)) PROVE IInv'
  <2> DEFINE x == Taking(w, pc, n, todo)
  <2>1. x = Taking(w, pc, n, todo)
    OBVIOUS
  <2> HIDE DEF x
  <2>2. Good(x, targets, ids, astray) /\ x.alone = run[w].alone /\ x.pc = pc /\ x.op = run[w].op
    <3>1. pc \in {"push", "members", "archive", "list"} /\ (pc = "list" => run[w].op = "delete")
      BY <1>6
    <3>2. /\ n \in Names /\ Exists(n) /\ todo \subseteq This(w).members /\ run[w] # None /\ HasTarget(w)
          /\ run[w].grant = None
      BY <1>0, <1>1, <1>4, <1>6, <1>8, NoGrant
    <3>3. n = This(w).name \/ (run[w].op \in {"generate", "push"} /\ <<n, This(w).name>> \in astray)
      OBVIOUS
    <3> HIDE DEF n
    <3>4. MayTake(w, pc, n, todo, astray)
      BY <3>1, <3>2, <3>3 DEF MayTake
    <3> QED BY <1>0, <2>1, <3>4, FoundGood
  <2>3. Moves(w, x) /\ ~(x.op = "generate" /\ x.pc = "push")
    BY <1>1, <1>8, <2>1, <2>2
  <2> QED BY <1>0, <1>1, <1>2, <1>3, <2>2, <2>3, StepKeeps
<1> QED BY <1>5, <1>7, <1>8

LEMMA StepArchive == ASSUME IInv, NEW w \in Workers, Archive(w) PROVE IInv'
<1>0. StateOK /\ ProjectsOK /\ RunsOK /\ FreshOK
  BY Parts
<1>1. run[w] # None /\ Fixed /\ UNCHANGED <<group, astray>> /\ run[w].pc \in Holding
  BY DEF Archive, At, Holding
<1> DEFINE p == run[w].found.name
<1>2. p \in Names /\ (There(w) => Exists(p) /\ projects[p] \in Project)
  BY <1>0, <1>1, HoldFacts DEF There
<1>3. ProjectsOK'
  <2>1. CASE UNCHANGED projects
    BY <1>0, <1>1, <2>1, SameProjects DEF Fixed
  <2>2. CASE There(w) /\ Put(p, [projects[p] EXCEPT !.archived = In(w, {"archive"})])
    <3>1. PICK b \in BOOLEAN : b = In(w, {"archive"})
      BY DEF In
    <3>2. PICK q : q = [projects[p] EXCEPT !.archived = b]
      OBVIOUS
    <3>3. q \in Project /\ q.id = projects[p].id /\ q.level = projects[p].level
      BY <1>2, <2>2, <3>2 DEF Project
    <3>4. Put(p, q)
      BY <2>2, <3>1, <3>2
    <3> QED BY <1>0, <1>1, <1>2, <2>2, <3>3, <3>4, HeldEdited
  <2> QED BY <2>1, <2>2 DEF Archive
<1>4. group' \in BOOLEAN /\ Moves(w, NextTarget(w))
  BY <1>0, <1>1 DEF StateOK, Archive, Moves
<1> QED BY <1>0, <1>1, <1>3, <1>4, LeavesTarget

LEMMA DeferredFits == ASSUME StateOK PROVE deferred.to \in Branches
BY RepositoriesAssumption DEF StateOK

LEMMA StepPushDeferred == ASSUME IInv, NEW w \in Workers, PushDeferred(w) PROVE IInv'
<1>0. StateOK /\ ProjectsOK /\ RunsOK /\ FreshOK
  BY Parts
<1>1. run[w] # None /\ Fixed /\ UNCHANGED <<group, astray>> /\ run[w].pc \in Holding
  BY DEF PushDeferred, At, Holding
<1> DEFINE p == run[w].found.name
<1>2. p \in Names /\ (There(w) => Exists(p) /\ projects[p] \in Project)
  BY <1>0, <1>1, HoldFacts DEF There
<1>3. ProjectsOK'
  <2>1. CASE UNCHANGED projects
    BY <1>0, <1>1, <2>1, SameProjects DEF Fixed
  <2>2. CASE There(w) /\ Put(p, [projects[p] EXCEPT !.branch[deferred.to] = Pushed("deferred")])
    <3> DEFINE q == [projects[p] EXCEPT !.branch[deferred.to] = Pushed("deferred")]
    <3>1. q \in Project /\ q.id = projects[p].id /\ q.level = projects[p].level
      BY <1>0, <1>2, <2>2, PushedBranch, DeferredFits
    <3> HIDE DEF q
    <3>2. Put(p, q)
      BY <2>2 DEF q
    <3> QED BY <1>0, <1>1, <1>2, <2>2, <3>1, <3>2, HeldEdited
  <2> QED BY <2>1, <2>2 DEF PushDeferred
<1>4. group' \in BOOLEAN /\ astray' = astray /\ astray' \subseteq Names \X Names
  BY <1>0, <1>1 DEF StateOK
<1>5. CASE Moves(w, None)
  BY <1>0, <1>1, <1>3, <1>4, <1>5, LeavesTarget
<1>6. CASE Moves(w, [NextTarget(w) EXCEPT !.remotes = @ \cup {p}])
  <2>1. PICK y : y = NextTarget(w)
    OBVIOUS
  <2>2. Good(y, targets, ids, astray) /\ y.alone = run[w].alone /\ y.pc = "target" /\ y \in Run
    BY <1>0, <1>1, <2>1, NextTargetGood DEF Good
  <2>7. y.remotes \cup {p} \in SUBSET Names
    BY <1>2, <2>2 DEF Run
  <2>8. PICK remotes \in SUBSET Names : remotes = y.remotes \cup {p}
    BY <2>7
  <2>3. PICK x : x = [y EXCEPT !.remotes = remotes]
    OBVIOUS
  <2>4. /\ x \in Run /\ x.op = y.op /\ x.pc = y.pc /\ x.t = y.t /\ x.found = y.found /\ x.mine = y.mine
        /\ x.todo = y.todo /\ x.grant = y.grant /\ x.alone = y.alone
    BY <2>2, <2>3 DEF Run
  <2>5. Good(x, targets, ids, astray') /\ x.alone = run[w].alone /\ x.pc = "target"
    BY <1>4, <2>2, <2>4 DEF Good
  <2>6. Moves(w, x)
    BY <1>6, <2>1, <2>3, <2>8
  <2> QED BY <1>0, <1>1, <1>3, <1>4, <2>5, <2>6, StepKeeps
<1>7. Moves(w, None) \/ Moves(w, [NextTarget(w) EXCEPT !.remotes = @ \cup {p}])
  BY DEF PushDeferred, OnPushError, Moves
<1> QED BY <1>5, <1>6, <1>7
LEMMA StepSearchGroup == ASSUME IInv, NEW w \in Workers, SearchGroup(w) PROVE IInv'
<1>0. StateOK /\ ProjectsOK /\ RunsOK /\ FreshOK
  BY Parts
<1> DEFINE n == This(w).name
<1>1. /\ run[w] # None /\ run[w].pc = "target" /\ HasTarget(w) /\ Fixed /\ UNCHANGED <<group, projects, astray>>
      /\ run[w].op = "delete"
  BY DEF SearchGroup, At, In
<1>2. group' \in BOOLEAN /\ astray' = astray /\ astray' \subseteq Names \X Names
  BY <1>0, <1>1 DEF StateOK
<1>3. ProjectsOK'
  BY <1>0, <1>1, SameProjects DEF Fixed
<1>4. n \in Names
  BY <1>0, <1>1, TargetFacts
<1>5. CASE Moves(w, NextTarget(w))
  BY <1>0, <1>1, <1>2, <1>3, <1>5, LeavesTarget
<1>6. ASSUME Exists(n), Moves(w, [Goto(w, "list") EXCEPT !.found = [name |-> n, id |-> projects[n].id]])
      PROVE  IInv'
  <2> DEFINE found == [name |-> n, id |-> projects[n].id]
  <2>1. projects[n].id \in Nat /\ projects[n].id <= ids
    BY <1>0, <1>4, <1>6 DEF ProjectsOK, Exists, Project
  <2>2. found \in Found /\ found # None /\ found.name = n /\ found.id <= ids
    BY <1>4, <2>1, RepositoriesNone DEF Found
  <2>3. PICK x : x = [Goto(w, "list") EXCEPT !.found = found]
    OBVIOUS
  <2>4. Moves(w, x)
    BY <1>6, <2>3
  <2> HIDE DEF found
  <2>5. Good(run[w], targets, ids, astray) /\ run[w] \in Run /\ run[w].todo = {} /\ run[w].grant = None
    BY <1>0, <1>1 DEF RunsOK, Good
  <2>6. /\ x \in Run /\ x.op = "delete" /\ x.pc = "list" /\ x.t = run[w].t /\ x.found = found /\ x.todo = {}
        /\ x.grant = None /\ x.alone = run[w].alone
    BY <1>1, <2>2, <2>3, <2>5 DEF Goto, Run
  <2>7. Good(x, targets, ids, astray')
    BY <1>1, <2>2, <2>6 DEF Good, Holding, HasTarget, This
  <2> QED BY <1>0, <1>1, <1>2, <1>3, <2>4, <2>6, <2>7, StepKeeps
<1>7. \/ Exists(n) /\ Moves(w, [Goto(w, "list") EXCEPT !.found = [name |-> n, id |-> projects[n].id]])
      \/ Moves(w, NextTarget(w))
  <2>1. \A p \in ToDelete(n) : p = n /\ Exists(p)
    BY DEF ToDelete, Hits
  <2> QED BY <2>1 DEF SearchGroup, Moves
<1> QED BY <1>5, <1>6, <1>7

LEMMA StepListImages == ASSUME IInv, NEW w \in Workers, ListImages(w) PROVE IInv'
<1>0. StateOK /\ ProjectsOK /\ RunsOK /\ FreshOK
  BY Parts
<1>1. /\ run[w] # None /\ run[w].pc = "list" /\ Fixed /\ UNCHANGED <<group, projects, astray>> /\ run[w].pc \in Holding
  BY DEF ListImages, At, Holding
<1>2. group' \in BOOLEAN /\ run[w].op = "delete"
  BY <1>0, <1>1 DEF StateOK, RunsOK, Good
<1>3. ProjectsOK'
  BY <1>0, <1>1, SameProjects DEF Fixed
<1>4. /\ run[w] \in Run /\ HasTarget(w) /\ run[w].found.name \in Names /\ run[w].todo \subseteq targets[run[w].t].members
      /\ run[w].grant = None /\ (There(w) => projects[run[w].found.name] \in Project)
  BY <1>0, <1>1, HoldFacts
<1>5. CASE Moves(w, NextTarget(w))
  BY <1>0, <1>1, <1>2, <1>3, <1>5, LeavesTarget
<1>6. CASE Moves(w, Goto(w, "delete"))
  BY <1>0, <1>1, <1>2, <1>3, <1>4, <1>6, GoesTo DEF Holding
<1>7. CASE There(w) /\ Moves(w, [Goto(w, "images") EXCEPT !.images = projects[run[w].found.name].images])
  <2>1. PICK count \in Nat : count = projects[run[w].found.name].images
    BY <1>4, <1>7 DEF Project
  <2>2. PICK x : x = [Goto(w, "images") EXCEPT !.images = count]
    OBVIOUS
  <2>3. /\ x \in Run /\ x.op = run[w].op /\ x.t = run[w].t /\ x.found = run[w].found /\ x.alone = run[w].alone
        /\ x.pc = "images" /\ x.todo = run[w].todo /\ x.grant = None
    BY <1>4, <2>2 DEF Goto, Run
  <2>4. Moves(w, x)
    BY <1>7, <2>1, <2>2
  <2> QED BY <1>0, <1>1, <1>2, <1>3, <1>4, <2>3, <2>4, HoldsOn DEF Holding
<1>8. \/ There(w) /\ Moves(w, [Goto(w, "images") EXCEPT !.images = projects[run[w].found.name].images])
      \/ Moves(w, Goto(w, "delete")) \/ Moves(w, NextTarget(w))
  BY DEF ListImages, Moves
<1> QED BY <1>5, <1>6, <1>7, <1>8

LEMMA StepDeleteImage == ASSUME IInv, NEW w \in Workers, DeleteImage(w) PROVE IInv'
<1>0. StateOK /\ ProjectsOK /\ RunsOK /\ FreshOK
  BY Parts
<1>1. /\ run[w] # None /\ run[w].pc = "images" /\ Fixed /\ UNCHANGED <<group, astray>> /\ run[w].pc \in Holding
  BY DEF DeleteImage, At, Holding
<1> DEFINE p == run[w].found.name
<1>2. group' \in BOOLEAN /\ run[w].op = "delete"
  BY <1>0, <1>1 DEF StateOK, RunsOK, Good
<1>3. /\ run[w] \in Run /\ HasTarget(w) /\ p \in Names /\ run[w].todo \subseteq targets[run[w].t].members
      /\ run[w].grant = None /\ (There(w) => Exists(p) /\ projects[p] \in Project)
  BY <1>0, <1>1, HoldFacts DEF There
<1>4. ProjectsOK'
  <2>1. CASE UNCHANGED projects
    BY <1>0, <1>1, <2>1, SameProjects DEF Fixed
  <2>2. CASE There(w) /\ projects[p].images > 0 /\ Put(p, [projects[p] EXCEPT !.images = @ - 1])
    <3>1. projects[p].images \in Nat /\ projects[p] \in Project /\ Exists(p)
      BY <1>3, <2>2 DEF Project
    <3>2. PICK count \in Nat : count = projects[p].images - 1
      BY <2>2, <3>1
    <3>3. PICK q : q = [projects[p] EXCEPT !.images = count]
      OBVIOUS
    <3>4. q \in Project /\ q.id = projects[p].id /\ q.level = projects[p].level
      BY <3>1, <3>3 DEF Project
    <3>5. Put(p, q)
      BY <2>2, <3>2, <3>3
    <3> QED BY <1>0, <1>1, <1>3, <3>1, <3>4, <3>5, HeldEdited
  <2> QED BY <2>1, <2>2 DEF DeleteImage
<1>5. CASE Moves(w, NextTarget(w))
  BY <1>0, <1>1, <1>2, <1>4, <1>5, LeavesTarget
<1>6. CASE Moves(w, Goto(w, "delete"))
  BY <1>0, <1>1, <1>2, <1>3, <1>4, <1>6, GoesTo DEF Holding
<1>7. CASE run[w].images > 0 /\ Moves(w, [run[w] EXCEPT !.images = @ - 1])
  <2>1. run[w].images \in Nat
    BY <1>3 DEF Run
  <2>2. PICK count \in Nat : count = run[w].images - 1
    BY <1>7, <2>1
  <2>3. PICK x : x = [run[w] EXCEPT !.images = count]
    OBVIOUS
  <2>4. /\ x \in Run /\ x.op = run[w].op /\ x.t = run[w].t /\ x.found = run[w].found /\ x.alone = run[w].alone
        /\ x.pc = "images" /\ x.todo = run[w].todo /\ x.grant = None
    BY <1>1, <1>3, <2>3 DEF Run
  <2>5. Moves(w, x)
    BY <1>7, <2>2, <2>3
  <2> QED BY <1>0, <1>1, <1>2, <1>3, <1>4, <2>4, <2>5, HoldsOn DEF Holding
<1>8. \/ run[w].images > 0 /\ Moves(w, [run[w] EXCEPT !.images = @ - 1])
      \/ Moves(w, Goto(w, "delete")) \/ Moves(w, NextTarget(w))
  BY DEF DeleteImage, Moves
<1> QED BY <1>5, <1>6, <1>7, <1>8

LEMMA StepDeleteProject == ASSUME IInv, NEW w \in Workers, DeleteProject(w) PROVE IInv'
<1>0. StateOK /\ ProjectsOK /\ RunsOK /\ FreshOK
  BY Parts
<1>1. run[w] # None /\ Fixed /\ UNCHANGED <<group, astray>> /\ run[w].pc \in Holding
  BY DEF DeleteProject, At, Holding
<1> DEFINE p == run[w].found.name
<1>2. group' \in BOOLEAN /\ p \in Names
  BY <1>0, <1>1, HoldFacts DEF StateOK
<1>3. ProjectsOK'
  <2>1. CASE UNCHANGED projects
    BY <1>0, <1>1, <2>1, SameProjects DEF Fixed
  <2>2. CASE Put(p, None)
    BY <1>0, <1>1, <1>2, <2>2, ProjectEdited DEF Fixed
  <2> QED BY <2>1, <2>2 DEF DeleteProject
<1>4. Moves(w, NextTarget(w))
  BY DEF DeleteProject, Moves
<1> QED BY <1>0, <1>1, <1>2, <1>3, <1>4, LeavesTarget
----------------------------------------------------------------------------
(* Around the operations *)

LEMMA StepStart ==
  ASSUME IInv, NEW w \in Workers, NEW op \in Ops, NEW invite \in BOOLEAN, Start(w, op, invite) PROVE IInv'
<1>0. StateOK /\ ProjectsOK /\ RunsOK /\ FreshOK
  BY Parts
<1>1. PICK alone \in BOOLEAN : alone = (Active = {})
  OBVIOUS
<1>2. PICK new : new = [op |-> op, invite |-> invite, pc |-> IF op = "push" THEN "target" ELSE "group", t |-> 1,
                        found |-> None, mine |-> FALSE, todo |-> {}, grant |-> None, images |-> 0, remotes |-> {},
                        quiet |-> TRUE, alone |-> alone]
  OBVIOUS
<1>3. run[w] = None /\ ops < MaxOps /\ ops' = ops + 1
      /\ UNCHANGED <<targets, deferred, group, projects, ids, faults, astray, late>>
  BY DEF Start
<1>4. run' = [v \in Workers |-> IF v = w THEN new ELSE IF run[v] = None THEN None ELSE [run[v] EXCEPT !.alone = FALSE]]
  BY <1>1, <1>2 DEF Start
<1>5. StateOK'
  <2>1. ops \in 0..MaxOps /\ MaxOps \in Nat
    BY <1>0, RepositoriesAssumption, Zenon DEF StateOK
  <2>2. ops' \in 0..MaxOps
    BY <1>3, <2>1
  <2> QED BY <1>0, <1>3, <2>2, Zenon DEF StateOK
<1>6. ProjectsOK'
  BY <1>0, <1>3, SameProjects
<1>7. /\ new \in Run /\ new.pc \in {"group", "target"} /\ new.found = None /\ new.todo = {} /\ new.mine = FALSE
      /\ new.grant = None /\ new.alone = alone
  BY <1>2 DEF Run
<1>8. Good(new, targets, ids, astray)
  BY <1>7 DEF Good, Holding
<1>9. ASSUME NEW r \in Run, Good(r, targets, ids, astray), NEW q, q = [r EXCEPT !.alone = FALSE]
      PROVE  q \in Run /\ Good(q, targets, ids, astray) /\ q.alone = FALSE
  <2>1. /\ q \in Run /\ q.alone = FALSE /\ q.op = r.op /\ q.pc = r.pc /\ q.t = r.t /\ q.found = r.found
        /\ q.mine = r.mine /\ q.todo = r.todo /\ q.grant = r.grant
    BY <1>9 DEF Run
  <2> QED BY <1>9, <2>1 DEF Good
<1>10. \A v \in Workers : v # w /\ run'[v] # None =>
         run'[v] \in Run /\ Good(run'[v], targets, ids, astray) /\ run'[v].alone = FALSE
  <2> SUFFICES ASSUME NEW v \in Workers, v # w, run'[v] # None
               PROVE  run'[v] \in Run /\ Good(run'[v], targets, ids, astray) /\ run'[v].alone = FALSE
    OBVIOUS
  <2>1. run[v] # None /\ run'[v] = [run[v] EXCEPT !.alone = FALSE]
    BY <1>4
  <2>2. run[v] \in Run /\ Good(run[v], targets, ids, astray)
    BY <1>0, <2>1 DEF RunsOK
  <2> QED BY <1>9, <2>1, <2>2
<1>11. RunsOK'
  <2>1. run'[w] = new
    BY <1>4
  <2>2. run' \in [Workers -> Run \cup {None}]
    BY <1>4, <1>7, <1>10, <2>1
  <2>3. \A v \in Workers : run'[v] # None => Good(run'[v], targets', ids', astray')
    BY <1>3, <1>8, <1>10, <2>1
  <2>4. alone => \A v \in Workers : v # w => run'[v] = None
    BY <1>1, <1>4 DEF Active
  <2>5. \A v \in Workers : run'[v] # None /\ run'[v].alone => \A u \in Workers : run'[u] # None => u = v
    BY <1>7, <1>10, <2>1, <2>4
  <2> QED BY <2>2, <2>3, <2>5 DEF RunsOK
<1>12. FreshOK'
  <2>1. run'[w].pc # "push"
    BY <1>4, <1>7
  <2> QED BY <1>10, <2>1 DEF FreshOK, StillEmpty
<1> QED BY <1>5, <1>6, <1>11, <1>12, PartsAfter

\* A project is edited by somebody else.
LEMMA EditedAround ==
  ASSUME StateOK, ProjectsOK, RunsOK, FreshOK, UNCHANGED <<targets, deferred, group, run, ids, ops, faults, astray>>,
         late' \subseteq Names,
         NEW p \in Names, Exists(p), NEW q \in Project, q.id = projects[p].id, q.level = projects[p].level, Put(p, q),
         q.branch = projects[p].branch \/ \E u \in Users : projects[p].level[u] \in {"configured", "other"}
  PROVE  IInv'
<1>1. StateOK'
  BY Zenon DEF StateOK
<1>2. ProjectsOK'
  BY ProjectEdited
<1>3. RunsOK'
  BY DEF RunsOK
<1>4. projects'[p] = q /\ q # None /\ \A n \in Names : n # p => projects'[n] = projects[n]
  BY RepositoriesNone DEF ProjectsOK, Put
<1>5. FreshOK'
  <2> SUFFICES ASSUME NEW w \in Workers, run[w] # None, run[w].op = "generate", run[w].pc = "push", run[w].alone,
                      projects'[run[w].found.name] # None, projects'[run[w].found.name].id = run[w].found.id
               PROVE  /\ \A b \in Branches : projects'[run[w].found.name].branch[b] = Pushed("empty")
                      /\ \A u \in Users : projects'[run[w].found.name].level[u] \notin {"configured", "other"}
    BY DEF FreshOK, StillEmpty, There, Exists
  <2>1. run[w].found.name \in Names
    BY HoldFacts DEF Holding
  <2>2. There(w)
    BY <1>4, <2>1 DEF There, Exists
  <2>3. /\ \A b \in Branches : projects[run[w].found.name].branch[b] = Pushed("empty")
        /\ \A u \in Users : projects[run[w].found.name].level[u] \notin {"configured", "other"}
    BY <2>2 DEF FreshOK, StillEmpty
  <2> QED BY <1>4, <2>1, <2>3
<1> QED BY <1>1, <1>2, <1>3, <1>5, PartsAfter

LEMMA StepCommit == ASSUME IInv, NEW p \in Names, NEW b \in Branches, Commit(p, b) PROVE IInv'
<1>0. StateOK /\ ProjectsOK /\ RunsOK /\ FreshOK
  BY Parts
<1>1. projects[p] \in Project /\ Exists(p)
  BY <1>0 DEF Commit, ProjectsOK, Exists
<1>2. PICK branch : branch = [projects[p].branch EXCEPT ![b].work = TRUE]
  OBVIOUS
<1>3. branch \in [Branches -> Content]
  <2>1. projects[p].branch \in [Branches -> Content]
    BY <1>1 DEF Project
  <2>2. [projects[p].branch[b] EXCEPT !.work = TRUE] \in Content
    BY <2>1 DEF Content
  <2> QED BY <1>2, <2>1, <2>2
<1>4. PICK q : q = [projects[p] EXCEPT !.branch = branch]
  OBVIOUS
<1>5. q \in Project /\ q.id = projects[p].id /\ q.level = projects[p].level
  BY <1>1, <1>3, <1>4 DEF Project
<1>6. Put(p, q)
  BY <1>1, <1>2, <1>4 DEF Commit, Project
<1>7. /\ UNCHANGED <<targets, deferred, group, run, ids, ops, faults, astray, late>>
      /\ \E u \in Users : projects[p].level[u] \in {"configured", "other"}
  BY DEF Commit
<1>8. late' \subseteq Names
  BY <1>0, <1>7 DEF StateOK
<1> QED BY <1>0, <1>1, <1>5, <1>6, <1>7, <1>8, EditedAround

LEMMA StepPushImage == ASSUME IInv, NEW p \in Names, PushImage(p) PROVE IInv'
<1>0. StateOK /\ ProjectsOK /\ RunsOK /\ FreshOK
  BY Parts
<1>1. projects[p] \in Project /\ Exists(p) /\ projects[p].images \in Nat
  BY <1>0 DEF PushImage, ProjectsOK, Exists, Project
<1>2. PICK count \in Nat : count = projects[p].images + 1
  BY <1>1
<1>3. PICK q : q = [projects[p] EXCEPT !.images = count]
  OBVIOUS
<1>4. q \in Project /\ q.id = projects[p].id /\ q.level = projects[p].level /\ q.branch = projects[p].branch
  BY <1>1, <1>3 DEF Project
<1>5. Put(p, q) /\ UNCHANGED <<targets, deferred, group, run, ids, ops, faults, astray>>
  BY <1>2, <1>3 DEF PushImage
<1>6. late' \subseteq Names
  BY <1>0 DEF PushImage, StateOK
<1> QED BY <1>0, <1>1, <1>4, <1>5, <1>6, EditedAround

LEMMA StepCrash == ASSUME IInv, Crash PROVE IInv'
<1>0. StateOK /\ ProjectsOK /\ RunsOK /\ FreshOK
  BY Parts
<1>1. /\ faults < MaxFaults /\ faults' = faults + 1 /\ run' = [w \in Workers |-> None] /\ late' = {}
      /\ UNCHANGED <<targets, deferred, group, projects, ids, ops, astray>>
  BY DEF Crash
<1>2. StateOK'
  <2>1. faults \in 0..MaxFaults /\ MaxFaults \in Nat
    BY <1>0, RepositoriesAssumption, Zenon DEF StateOK
  <2>2. faults' \in 0..MaxFaults
    BY <1>1, <2>1
  <2> QED BY <1>0, <1>1, <2>2, Zenon DEF StateOK
<1>3. ProjectsOK'
  BY <1>0, <1>1, SameProjects
<1>4. RunsOK' /\ FreshOK'
  BY <1>1 DEF RunsOK, FreshOK
<1> QED BY <1>2, <1>3, <1>4, PartsAfter
----------------------------------------------------------------------------
(* The invariant *)

LEMMA EarlierProject ==
  ASSUME NEW n
  PROVE  Earlier(n) \in Project /\ Earlier(n).id = 0 /\ \A u \in Users : Earlier(n).level[u] # "configured"
<1>1. PICK level : level = [u \in Users |->
                     IF /\ LevelBefore(u) = "none"
                        /\ \E k \in DOMAIN targets : targets[k].name = n /\ \E m \in targets[k].members : u \in Single(m)
                     THEN "other" ELSE LevelBefore(u)]
  OBVIOUS
<1>2. level \in [Users -> Levels] /\ \A u \in Users : level[u] # "configured"
  BY <1>1 DEF LevelBefore, Levels
<1>3. PICK old : old = Project0(0)
  OBVIOUS
<1>4. old \in Project /\ old.id = 0
  BY <1>3, FreshProject
<1>5. PICK branch : branch = [old.branch EXCEPT ![Main] = [base |-> "starter", work |-> TRUE]]
  OBVIOUS
<1>6. branch \in [Branches -> Content]
  BY <1>4, <1>5, RepositoriesAssumption DEF Project, Content
<1>7. Earlier(n) = [old EXCEPT !.branch = branch, !.setup = TRUE, !.level = level]
  BY <1>1, <1>3, <1>4, <1>5 DEF Earlier, Project
<1> QED BY <1>2, <1>4, <1>6, <1>7 DEF Project

LEMMA InitIInv == Init => IInv
<1> SUFFICES ASSUME Init PROVE IInv
  OBVIOUS
<1>1. StateOK
  BY RepositoriesAssumption DEF Init, StateOK
<1>2. PICK old \in SUBSET Names : projects = [n \in Names |-> IF n \in old THEN Earlier(n) ELSE None]
  BY DEF Init
<1>3. ASSUME NEW n \in Names
      PROVE  Earlier(n) \in Project /\ Earlier(n).id = 0 /\ \A u \in Users : Earlier(n).level[u] # "configured"
  BY EarlierProject
<1>4. \A n \in Names : projects[n] # None => projects[n] = Earlier(n)
  BY <1>2
<1>5. projects \in [Names -> Project \cup {None}]
  BY <1>2, <1>3
<1>6. ProjectsOK
  <2>1. \A n \in Names : projects[n] # None => projects[n].id <= ids
    BY <1>3, <1>4 DEF Init
  <2>2. AccessOnlyAsConfigured
    BY <1>3, <1>4 DEF AccessOnlyAsConfigured, Exists
  <2> QED BY <1>5, <2>1, <2>2 DEF ProjectsOK, Exists
<1>7. RunsOK /\ FreshOK
  BY DEF Init, RunsOK, FreshOK
<1> QED BY <1>1, <1>6, <1>7, Parts

LEMMA StepStutter == ASSUME IInv, UNCHANGED vars PROVE IInv'
<1>0. StateOK /\ ProjectsOK /\ RunsOK /\ FreshOK
  BY Parts
<1> USE DEF vars
<1>1. StateOK'
  BY <1>0, Zenon DEF StateOK
<1>2. ProjectsOK'
  BY <1>0, SameProjects
<1>3. RunsOK'
  BY <1>0 DEF RunsOK
<1>4. FreshOK'
  BY <1>0 DEF FreshOK, StillEmpty, There, Exists
<1> QED BY <1>1, <1>2, <1>3, <1>4, PartsAfter

LEMMA NextKeepsIInv == IInv /\ [Next]_vars => IInv'
<1> SUFFICES ASSUME IInv, [Next]_vars PROVE IInv'
  OBVIOUS
<1>1. ASSUME NEW w \in Workers, Step(w) PROVE IInv'
  BY <1>1, StepFindGroup, StepDone, StepCreateProject, StepSearchProject, StepPushStarter, StepSetUp,
     StepFindUser, StepSetMember, StepMembersSet, StepGetProject, StepArchive, StepPushDeferred, StepSearchGroup,
     StepListImages, StepDeleteImage, StepDeleteProject DEF Step
<1>2. ASSUME NEW w \in Workers, NEW op \in Ops, NEW invite \in BOOLEAN, Start(w, op, invite) PROVE IInv'
  BY <1>2, StepStart
<1>3. ASSUME NEW p \in Names, NEW b \in Branches, Commit(p, b) PROVE IInv'
  BY <1>3, StepCommit
<1>6. ASSUME NEW p \in Names, PushImage(p) PROVE IInv'
  BY <1>6, StepPushImage
<1>4. CASE Crash
  BY <1>4, StepCrash
<1>5. CASE UNCHANGED vars
  BY <1>5, StepStutter
<1> QED BY <1>1, <1>2, <1>3, <1>4, <1>5, <1>6 DEF Next

----------------------------------------------------------------------------
(* What happens to a project that exists *)

KeepsWork(old, q) == \A b \in Branches : old.branch[b].work => q.branch[b].work

Untouched(p) == projects'[p] # None /\ KeepsWork(projects[p], projects'[p])

LEMMA PutElsewhere ==
  ASSUME ProjectsOK, NEW n \in Names, NEW q, Put(n, q), NEW p \in Names, Exists(p),
         p = n => q \in Project /\ KeepsWork(projects[p], q)
  PROVE  Untouched(p)
<1>1. projects'[n] = q /\ \A m \in Names : m # n => projects'[m] = projects[m]
  BY DEF ProjectsOK, Put
<1>2. KeepsWork(projects[p], projects[p])
  BY DEF KeepsWork
<1>3. CASE p = n
  BY <1>1, <1>3, RepositoriesNone DEF Untouched
<1>4. CASE p # n
  BY <1>1, <1>2, <1>4 DEF Untouched, Exists
<1> QED BY <1>3, <1>4

\* An edit of the project an operation holds.
LEMMA HeldUntouched ==
  ASSUME StateOK, ProjectsOK, RunsOK, NEW w \in Workers, run[w] # None, run[w].pc \in Holding, There(w),
         NEW p \in Names, Exists(p), NEW q, Put(run[w].found.name, q),
         projects[run[w].found.name] \in Project => q \in Project /\ q.branch = projects[run[w].found.name].branch
  PROVE  Untouched(p)
<1>1. run[w].found.name \in Names /\ projects[run[w].found.name] \in Project
  BY HoldFacts
<1>2. KeepsWork(projects[run[w].found.name], q)
  BY <1>1 DEF KeepsWork
<1> QED BY <1>1, <1>2, PutElsewhere

LEMMA OthersLeaveIt ==
  ASSUME IInv, NEW w \in Workers, Step(w), ~PushStarter(w), ~PushDeferred(w), ~DeleteProject(w), NEW p \in Names, Exists(p)
  PROVE  Untouched(p)
<1>0. StateOK /\ ProjectsOK /\ RunsOK /\ FreshOK
  BY Parts
<1>1. CASE UNCHANGED projects
  BY <1>1 DEF Untouched, Exists, KeepsWork
<1>2. CASE CreateProject(w)
  <2>1. This(w).name \in Names
    BY <1>0, <1>2, TargetFacts DEF CreateProject
  <2>2. CASE ~Exists(This(w).name) /\ Put(This(w).name, Project0(ids + 1))
    BY <1>0, <2>1, <2>2, PutElsewhere
  <2> QED BY <1>1, <1>2, <2>2 DEF CreateProject
<1> DEFINE n == run[w].found.name
<1>3. CASE SetUp(w)
  <2>1. CASE There(w) /\ Put(n, [projects[n] EXCEPT !.setup = TRUE])
    <3>1. PICK q : q = [projects[n] EXCEPT !.setup = TRUE]
      OBVIOUS
    <3>2. projects[n] \in Project => q \in Project /\ q.branch = projects[n].branch
      BY <3>1 DEF Project
    <3> QED BY <1>0, <1>3, <2>1, <3>1, <3>2, HeldUntouched DEF SetUp, At, Holding
  <2> QED BY <1>1, <1>3, <2>1 DEF SetUp
<1>4. CASE SetMember(w)
  <2> DEFINE u == run[w].grant.who
  <2>1. run[w] # None /\ run[w].pc = "member" /\ run[w].pc \in Holding
    BY <1>4 DEF SetMember, At, Holding
  <2>2. u \in Users /\ run[w].grant.byMail \in BOOLEAN /\ n \in Names /\ (There(w) => projects[n] \in Project)
    BY <1>0, <2>1, HoldFacts DEF Run, Grant
  <2> HIDE DEF u
  <2>3. UNCHANGED projects \/ (There(w) /\ \E new \in LevelsSet(projects[n].level[u], run[w].grant.byMail) :
                                            Put(n, [projects[n] EXCEPT !.level[u] = new]))
    BY <1>4 DEF SetMember, u
  <2>4. ASSUME There(w), NEW new \in LevelsSet(projects[n].level[u], run[w].grant.byMail),
               Put(n, [projects[n] EXCEPT !.level[u] = new])
        PROVE  Untouched(p)
    <3>1. projects[n] \in Project /\ projects[n].level \in [Users -> Levels]
      BY <2>2, <2>4 DEF Project
    <3>2. new \in Levels
      BY <2>2, <3>1, LevelsSetFacts
    <3>3. PICK level : level = [projects[n].level EXCEPT ![u] = new]
      OBVIOUS
    <3>4. PICK q : q = [projects[n] EXCEPT !.level = level]
      OBVIOUS
    <3>5. q \in Project /\ q.branch = projects[n].branch
      BY <3>1, <3>2, <3>3, <3>4 DEF Project
    <3>6. Put(n, q)
      BY <2>4, <3>1, <3>3, <3>4 DEF Project
    <3> QED BY <1>0, <2>1, <2>4, <3>5, <3>6, HeldUntouched
  <2> QED BY <1>1, <2>3, <2>4
<1>5. CASE Archive(w)
  <2>1. CASE There(w) /\ Put(n, [projects[n] EXCEPT !.archived = In(w, {"archive"})])
    <3>1. PICK b \in BOOLEAN : b = In(w, {"archive"})
      BY DEF In
    <3>2. PICK q : q = [projects[n] EXCEPT !.archived = b]
      OBVIOUS
    <3>3. projects[n] \in Project => q \in Project /\ q.branch = projects[n].branch
      BY <3>2 DEF Project
    <3>4. Put(n, q)
      BY <2>1, <3>1, <3>2
    <3> QED BY <1>0, <1>5, <2>1, <3>3, <3>4, HeldUntouched DEF Archive, At, Holding
  <2> QED BY <1>1, <1>5, <2>1 DEF Archive
<1>6. CASE DeleteImage(w)
  <2>1. CASE There(w) /\ projects[n].images > 0 /\ Put(n, [projects[n] EXCEPT !.images = @ - 1])
    <3>1. run[w] # None /\ run[w].pc \in Holding
      BY <1>6 DEF DeleteImage, At, Holding
    <3>2. projects[n] \in Project
      BY <1>0, <2>1, <3>1, HoldFacts
    <3>3. PICK count \in Nat : count = projects[n].images - 1
      BY <2>1, <3>2 DEF Project
    <3>4. PICK q : q = [projects[n] EXCEPT !.images = count]
      OBVIOUS
    <3>5. q \in Project /\ q.branch = projects[n].branch
      BY <3>2, <3>4 DEF Project
    <3>6. Put(n, q)
      BY <2>1, <3>3, <3>4
    <3> QED BY <1>0, <2>1, <3>1, <3>5, <3>6, HeldUntouched
  <2> QED BY <1>1, <1>6, <2>1 DEF DeleteImage
<1>7. CASE FindGroup(w) \/ Done(w) \/ SearchProject(w) \/ FindUser(w) \/ MembersSet(w) \/ GetProject(w)
           \/ SearchGroup(w) \/ ListImages(w)
  BY <1>1, <1>7 DEF FindGroup, Done, SearchProject, FindUser, MembersSet, GetProject, SearchGroup, ListImages
<1> QED BY <1>2, <1>3, <1>4, <1>5, <1>6, <1>7 DEF Step

\* Work goes by a push or with its project.
LEMMA ProjectSteps ==
  ASSUME IInv, [Next]_vars, NEW p \in Names, Exists(p)
  PROVE  \/ Untouched(p)
         \/ \E w \in Workers : run[w] # None /\ (PushStarter(w) \/ PushDeferred(w) \/ DeleteProject(w)) /\ run[w].found.name = p
<1>0. StateOK /\ ProjectsOK /\ RunsOK /\ FreshOK
  BY Parts
<1>1. ASSUME UNCHANGED projects PROVE Untouched(p)
  BY <1>1 DEF Untouched, Exists, KeepsWork
<1>2. ASSUME NEW w \in Workers, Step(w)
      PROVE  Untouched(p) \/ (run[w] # None /\ (PushStarter(w) \/ PushDeferred(w) \/ DeleteProject(w)) /\ run[w].found.name = p)
  <2>1. CASE PushStarter(w) \/ PushDeferred(w) \/ DeleteProject(w)
    <3>1. run[w] # None /\ run[w].pc \in Holding
      BY <2>1 DEF PushStarter, PushDeferred, DeleteProject, At, Holding
    <3>2. run[w].found.name \in Names
      BY <1>0, <3>1, HoldFacts
    <3>3. UNCHANGED projects \/ \E q : Put(run[w].found.name, q)
      BY <2>1 DEF PushStarter, PushDeferred, DeleteProject
    <3>4. run[w].found.name # p => projects'[p] = projects[p]
      BY <1>0, <3>2, <3>3 DEF ProjectsOK, Put
    <3> QED BY <2>1, <3>1, <3>4 DEF Untouched, Exists, KeepsWork
  <2>2. CASE ~PushStarter(w) /\ ~PushDeferred(w) /\ ~DeleteProject(w)
    BY <1>2, <2>2, OthersLeaveIt
  <2> QED BY <2>1, <2>2
<1>3. ASSUME NEW w \in Workers, NEW op \in Ops, NEW invite \in BOOLEAN, Start(w, op, invite) PROVE Untouched(p)
  BY <1>1, <1>3 DEF Start
<1>4. ASSUME NEW n \in Names, NEW b \in Branches, Commit(n, b) PROVE Untouched(p)
  <2>1. projects[n] \in Project
    BY <1>0, <1>4 DEF Commit, ProjectsOK, Exists
  <2>2. PICK branch : branch = [projects[n].branch EXCEPT ![b].work = TRUE]
    OBVIOUS
  <2>3. branch \in [Branches -> Content] /\ \A c \in Branches : projects[n].branch[c].work => branch[c].work
    <3>1. projects[n].branch \in [Branches -> Content]
      BY <2>1 DEF Project
    <3>2. [projects[n].branch[b] EXCEPT !.work = TRUE] \in Content /\ [projects[n].branch[b] EXCEPT !.work = TRUE].work
      BY <3>1 DEF Content
    <3> QED BY <2>2, <3>1, <3>2
  <2>4. PICK q : q = [projects[n] EXCEPT !.branch = branch]
    OBVIOUS
  <2>5. q \in Project /\ q.branch = branch
    BY <2>1, <2>3, <2>4 DEF Project
  <2>6. Put(n, q)
    BY <1>4, <2>1, <2>2, <2>4 DEF Commit, Project
  <2>7. KeepsWork(projects[n], q)
    BY <2>3, <2>5 DEF KeepsWork
  <2> QED BY <1>0, <2>5, <2>6, <2>7, PutElsewhere
<1>5. ASSUME NEW n \in Names, PushImage(n) PROVE Untouched(p)
  <2>1. projects[n] \in Project /\ projects[n].images \in Nat
    BY <1>0, <1>5 DEF PushImage, ProjectsOK, Exists, Project
  <2>2. PICK count \in Nat : count = projects[n].images + 1
    BY <2>1
  <2>3. PICK q : q = [projects[n] EXCEPT !.images = count]
    OBVIOUS
  <2>4. q \in Project /\ KeepsWork(projects[n], q)
    BY <2>1, <2>3 DEF Project, KeepsWork
  <2>5. Put(n, q)
    BY <1>5, <2>2, <2>3 DEF PushImage
  <2> QED BY <1>0, <2>4, <2>5, PutElsewhere
<1>6. CASE Crash
  BY <1>1, <1>6 DEF Crash
<1>7. CASE UNCHANGED vars
  BY <1>1, <1>7 DEF vars
<1> QED BY <1>2, <1>3, <1>4, <1>5, <1>6, <1>7 DEF Next

\* What a push leaves.
LEMMA PushLeaves ==
  ASSUME ProjectsOK, NEW p \in Names, Exists(p), NEW to \in Branches, NEW base \in {"starter", "deferred"},
         Put(p, [projects[p] EXCEPT !.branch[to] = Pushed(base)])
  PROVE  projects'[p] # None /\ \A b \in Branches : b # to => projects'[p].branch[b] = projects[p].branch[b]
<1>1. projects[p] \in Project
  BY DEF ProjectsOK, Exists
<1>2. PICK q : q = [projects[p] EXCEPT !.branch[to] = Pushed(base)]
  OBVIOUS
<1>3. q \in Project /\ \A b \in Branches : b # to => q.branch[b] = projects[p].branch[b]
  BY <1>1, <1>2, PushedBranch
<1>4. projects'[p] = q
  BY <1>2 DEF ProjectsOK, Put
<1> QED BY <1>3, <1>4, RepositoriesNone

LEMMA WorkStays ==
  ASSUME IInv, [Next]_vars, NEW p \in Names, NEW b \in Branches, HasWork(p, b),
         projects'[p] # None, projects'[p].id = projects[p].id, ~projects'[p].branch[b].work
  PROVE  \E w \in Active : /\ run[w].found # None /\ run[w].found.name = p
                           /\ \/ run[w].op = "push" /\ b = deferred.to
                              \/ run[w].op = "update" /\ b = Main
                              \/ run[w].op = "generate" /\ ~run[w].alone /\ b = Main
<1>0. StateOK /\ ProjectsOK /\ RunsOK /\ FreshOK
  BY Parts
<1>1. ~Untouched(p) /\ Exists(p) /\ projects[p].branch[b].work
  BY DEF Untouched, HasWork, KeepsWork
<1>2. PICK w \in Workers : /\ run[w] # None /\ run[w].found.name = p
                           /\ PushStarter(w) \/ PushDeferred(w) \/ DeleteProject(w)
  BY <1>1, ProjectSteps
<1>3. run[w].pc \in Holding /\ run[w].found # None
  BY <1>0, <1>2, HoldFacts DEF PushStarter, PushDeferred, DeleteProject, At, Holding
<1>4. projects' # projects
  BY <1>1 DEF HasWork
<1>5. ~DeleteProject(w)
  <2>1. DeleteProject(w) => UNCHANGED projects \/ Put(p, None)
    BY <1>2 DEF DeleteProject
  <2> QED BY <1>0, <1>4, <2>1 DEF ProjectsOK, Put
<1>6. CASE PushDeferred(w)
  <2>1. There(w) /\ run[w].op = "push" /\ Put(p, [projects[p] EXCEPT !.branch[deferred.to] = Pushed("deferred")])
    BY <1>2, <1>4, <1>6 DEF PushDeferred, In
  <2>2. b = deferred.to
    BY <1>0, <1>1, <2>1, DeferredFits, PushLeaves
  <2> QED BY <1>2, <1>3, <2>1, <2>2 DEF Active
<1>7. CASE PushStarter(w)
  <2>1. /\ There(w) /\ run[w].pc = "push" /\ run[w].op \in {"generate", "update"}
        /\ Put(p, [projects[p] EXCEPT !.branch[Main] = Pushed("starter")])
    BY <1>2, <1>4, <1>7 DEF PushStarter, At, In
  <2>2. Main \in Branches
    BY RepositoriesAssumption
  <2>3. b = Main
    BY <1>0, <1>1, <2>1, <2>2, PushLeaves
  <2>4. run[w].op = "generate" => ~run[w].alone
    BY <1>0, <1>1, <1>2, <2>1 DEF FreshOK, StillEmpty, Pushed
  <2> QED BY <1>2, <1>3, <2>1, <2>3, <2>4 DEF Active
<1> QED BY <1>2, <1>5, <1>6, <1>7

LEMMA DeletedIsTarget ==
  ASSUME IInv, [Next]_vars, NEW p \in Names, Exists(p), projects'[p] = None
  PROVE  \E w \in Active : run[w].op = "delete" /\ HasTarget(w) /\ This(w).name = p
<1>0. StateOK /\ ProjectsOK /\ RunsOK /\ FreshOK
  BY Parts
<1>1. PICK w \in Workers : /\ run[w] # None /\ run[w].found.name = p
                           /\ PushStarter(w) \/ PushDeferred(w) \/ DeleteProject(w)
  BY ProjectSteps DEF Untouched
<1>2. /\ run[w].pc \in Holding /\ HasTarget(w) /\ Good(run[w], targets, ids, astray)
  BY <1>0, <1>1, HoldFacts DEF PushStarter, PushDeferred, DeleteProject, At, Holding, RunsOK
<1>3. Main \in Branches /\ deferred.to \in Branches
  BY <1>0, RepositoriesAssumption, DeferredFits
<1>4. projects' # projects
  BY DEF Exists
<1>5. ~PushStarter(w)
  <2>1. PushStarter(w) => Put(p, [projects[p] EXCEPT !.branch[Main] = Pushed("starter")])
    BY <1>1, <1>4 DEF PushStarter
  <2> QED BY <1>0, <1>3, <2>1, PushLeaves
<1>6. ~PushDeferred(w)
  <2>1. PushDeferred(w) => Put(p, [projects[p] EXCEPT !.branch[deferred.to] = Pushed("deferred")])
    BY <1>1, <1>4 DEF PushDeferred
  <2> QED BY <1>0, <1>3, <2>1, PushLeaves
<1>7. run[w].pc = "delete"
  BY <1>1, <1>5, <1>6 DEF DeleteProject, At
<1>8. run[w].op = "delete" /\ run[w].found.name = targets[run[w].t].name
  BY <1>2, <1>7 DEF Good, Holding
<1> QED BY <1>1, <1>2, <1>8 DEF Active, This

----------------------------------------------------------------------------
(* An operation that nothing failed in and nothing ran beside *)

IsSet(project, u) == project.level[u] = IF u \in Owners THEN "owner" ELSE "configured"

\* Whomever the members are taken for has the configured access, except the one at
\* hand; owners stay owners.
AllSet(project, members, grant) ==
  \A m \in members : \A u \in TakenFor(m) \ Inheriting : IsSet(project, u) \/ (grant # None /\ grant.who = u)

SetsAccess(r) == r.op = "setaccess" \/ (r.op = "generate" /\ r.invite)

\* What it leaves of a target it is done with.
Settled(r, target, table, taken, spared) ==
  LET n == target.name
  IN /\ r.op = "generate" => table[n] # None
     /\ SetsAccess(r) /\ table[n] # None => AllSet(table[n], target.members, None)
     /\ r.op = "push" /\ taken = {} => table[n] # None /\ table[n].branch[deferred.to].base = "deferred"
     /\ r.op = "delete" /\ table[n] # None => n \in spared

\* The project it is at is still there, and so far as the operation has come.
AtHand(r, target, table, spared) ==
  /\ r.pc = "search" => table[target.name] # None
  /\ r.found # None =>
       LET project == table[r.found.name]
       IN /\ project # None /\ project.id = r.found.id
          /\ r.op = "generate" => r.found.name = target.name
          /\ r.op = "generate" /\ r.pc = "push" => ~project.archived
          /\ SetsAccess(r) /\ r.pc \in {"members", "member"} => AllSet(project, target.members \ r.todo, r.grant)
          /\ r.pc = "images" => project.images = r.images \/ r.found.name \in spared
          /\ r.pc = "delete" => project.images = 0 \/ r.found.name \in spared

Fits(r) ==
  /\ r.pc = "group" => r.op # "push"
  /\ r.pc = "setup" => r.op = "generate"
  /\ r.pc \in {"members", "member"} => r.op \in {"generate", "setaccess"}
  /\ r.pc = "archive" => r.op \in {"archive", "unarchive"}

Progress(r, list, table, taken, spared) ==
  /\ Fits(r)
  /\ \A k \in DOMAIN list : k < r.t => Settled(r, list[k], table, taken, spared)
  /\ r.t \in DOMAIN list => AtHand(r, list[r.t], table, spared)

Clean(w) == run[w] # None /\ run[w].quiet /\ run[w].alone

CleanOK == \A w \in Workers : Clean(w) => Progress(run[w], targets, projects, astray, late)

OwnersStay == \A p \in Names : Exists(p) =>
  \A u \in Users : /\ projects[p].level[u] = "owner" <=> u \in Owners
                   /\ projects[p].level[u] = "inherited" => u \in Inheriting

\* Up to the end of the first operation, projects are set up or about to be.
FirstSetsUp ==
  faults = 0 /\ ops <= 1 =>
    /\ ops = 0 => \A w \in Workers : run[w] = None
    /\ \A w \in Workers : run[w] # None => run[w].quiet /\ run[w].alone
    /\ \A p \in Names : Exists(p) /\ ~projects[p].setup =>
         \E w \in Workers : /\ run[w] # None /\ run[w].op = "generate" /\ run[w].pc \in {"push", "setup"}
                            /\ run[w].found.name = p

QuietInv == OwnersStay /\ FirstSetsUp /\ CleanOK

LEMMA ListFacts ==
  ASSUME StateOK, NEW j \in DOMAIN targets
  PROVE  /\ targets[j].name \in Names /\ targets[j].members \subseteq Users
         /\ \A k \in DOMAIN targets : targets[k].name = targets[j].name => k = j
<1>1. /\ targets \in Seq(Target)
      /\ \A i, k \in DOMAIN targets : i # k => targets[i].name # targets[k].name
  BY RepositoriesAssumption, Zenon DEF StateOK
<1>2. targets[j] \in Target
  BY <1>1
<1> QED BY <1>1, <1>2 DEF Target

\* What is settled stays so while its project is not touched.
LEMMA SettledStays ==
  ASSUME NEW r, NEW x, x.op = r.op, x.invite = r.invite, NEW target,
         NEW table, NEW after, NEW taken, NEW more, taken \subseteq more, NEW spared,
         after[target.name] = table[target.name] \/ (x.op = "push" /\ more # {}),
         Settled(r, target, table, taken, spared)
  PROVE  Settled(x, target, after, more, spared)
BY DEF Settled, SetsAccess

\* An operation goes on: what it did to the project at hand is in after.
LEMMA Went ==
  ASSUME StateOK, RunsOK, NEW w \in Workers, run[w] # None,
         Progress(run[w], targets, projects, astray, late),
         NEW x, x.op = run[w].op, x.invite = run[w].invite, Fits(x),
         NEW after, NEW more, astray \subseteq more,
         \A n \in Names : \/ after[n] = projects[n]
                          \/ HasTarget(w) /\ n = This(w).name
                          \/ x.op = "push" /\ more # {},
         \/ x.t = run[w].t /\ (HasTarget(w) => AtHand(x, This(w), after, late))
         \/ /\ HasTarget(w) /\ x.t = run[w].t + 1 /\ x.found = None /\ x.pc = "target"
            /\ Settled(x, This(w), after, more, late)
  PROVE  Progress(x, targets, after, more, late)
<1>1. run[w].t \in Nat /\ targets \in Seq(Target)
  <2>1. targets \in Seq(Target)
    BY RepositoriesAssumption, Zenon DEF StateOK
  <2> QED BY <2>1 DEF RunsOK, Run
<1>2. ASSUME NEW j \in DOMAIN targets, j < run[w].t PROVE Settled(x, targets[j], after, more, late)
  <2>1. targets[j].name \in Names /\ (HasTarget(w) => targets[j].name # This(w).name)
    <3>1. targets[j].name \in Names /\ \A i \in DOMAIN targets : targets[i].name = targets[j].name => i = j
      BY ListFacts
    <3>2. j # run[w].t
      BY <1>1, <1>2
    <3> QED BY <3>1, <3>2 DEF This, HasTarget
  <2>2. after[targets[j].name] = projects[targets[j].name] \/ (x.op = "push" /\ more # {})
    BY <2>1
  <2>3. Settled(run[w], targets[j], projects, astray, late)
    BY <1>2 DEF Progress
  <2> QED BY <2>2, <2>3, SettledStays
<1>3. CASE x.t = run[w].t /\ (HasTarget(w) => AtHand(x, This(w), after, late))
  BY <1>2, <1>3 DEF Progress, HasTarget, This
<1>4. CASE /\ HasTarget(w) /\ x.t = run[w].t + 1 /\ x.found = None /\ x.pc = "target"
           /\ Settled(x, This(w), after, more, late)
  <2>1. AtHand(x, targets[x.t], after, late)
    BY <1>4 DEF AtHand
  <2>2. ASSUME NEW j \in DOMAIN targets, j < x.t PROVE Settled(x, targets[j], after, more, late)
    <3>1. j < run[w].t \/ j = run[w].t
      BY <1>1, <1>4, <2>2
    <3> QED BY <1>2, <1>4, <3>1 DEF This
  <2> QED BY <2>1, <2>2 DEF Progress
<1> QED BY <1>3, <1>4

\* What a call without a failure makes of its operation.
Same(w, x) ==
  /\ x # None /\ x.op = run[w].op /\ x.invite = run[w].invite /\ x.quiet = run[w].quiet /\ x.alone = run[w].alone

LEMMA SameGoto ==
  ASSUME RunsOK, NEW w \in Workers, run[w] # None,
         NEW pc \in {"target", "search", "push", "setup", "members", "archive", "list", "images", "delete"}
  PROVE  /\ Same(w, Goto(w, pc)) /\ Goto(w, pc) \in Run /\ Goto(w, pc).pc = pc
         /\ Goto(w, pc).t = run[w].t /\ Goto(w, pc).found = run[w].found /\ Goto(w, pc).images = run[w].images
<1>1. run[w] \in Run
  BY DEF RunsOK
<1> DEFINE x == Goto(w, pc)
<1>2. x \in Run
  BY <1>1 DEF Goto, Run
<1>3. x.op = run[w].op /\ x.invite = run[w].invite /\ x.quiet = run[w].quiet /\ x.alone = run[w].alone
      /\ x.pc = pc /\ x.t = run[w].t /\ x.found = run[w].found /\ x.images = run[w].images
  BY <1>1 DEF Goto, Run
<1> HIDE DEF x
<1>4. x # None
  BY <1>2, RepositoriesNone
<1> QED BY <1>2, <1>3, <1>4 DEF Same, x

LEMMA SameNext ==
  ASSUME RunsOK, NEW w \in Workers, run[w] # None
  PROVE  /\ Same(w, NextTarget(w)) /\ NextTarget(w) \in Run /\ NextTarget(w).pc = "target"
         /\ NextTarget(w).t = run[w].t + 1 /\ NextTarget(w).found = None
<1>1. run[w] \in Run
  BY DEF RunsOK
<1> DEFINE x == NextTarget(w)
<1>2. run[w].t + 1 \in Nat \ {0}
  BY <1>1 DEF Run
<1>3. x \in Run
  BY <1>1, <1>2 DEF NextTarget, Run
<1>4. x.op = run[w].op /\ x.invite = run[w].invite /\ x.quiet = run[w].quiet /\ x.alone = run[w].alone
      /\ x.pc = "target" /\ x.t = run[w].t + 1 /\ x.found = None
  BY <1>1 DEF NextTarget, Run
<1> HIDE DEF x
<1>5. x # None
  BY <1>3, RepositoriesNone
<1> QED BY <1>3, <1>4, <1>5 DEF Same, x

LEMMA SameTaking ==
  ASSUME StateOK, ProjectsOK, RunsOK, NEW w \in Workers, run[w] # None, HasTarget(w),
         NEW pc \in {"push", "members", "archive", "list"}, NEW p \in Names, Exists(p),
         NEW todo, todo \subseteq This(w).members, NEW x, x = Taking(w, pc, p, todo)
  PROVE  /\ Same(w, x) /\ x \in Run /\ x.pc = pc /\ x.t = run[w].t
         /\ x.found # None /\ x.found.name = p /\ x.found.id = projects[p].id /\ x.todo = todo
<1> DEFINE found == [name |-> p, id |-> projects[p].id]
<1>1. run[w] \in Run /\ todo \subseteq Users
  BY TargetFacts DEF RunsOK
<1>2. projects[p].id \in Nat
  BY DEF ProjectsOK, Exists, Project
<1>3. found \in Found /\ found # None /\ found.name = p /\ found.id = projects[p].id
  BY <1>2, RepositoriesNone DEF Found
<1>4. x = [Goto(w, pc) EXCEPT !.found = found, !.todo = todo]
  BY DEF Taking
<1> HIDE DEF found
<1>5. x \in Run /\ x.op = run[w].op /\ x.invite = run[w].invite /\ x.quiet = run[w].quiet /\ x.alone = run[w].alone
  BY <1>1, <1>3, <1>4 DEF Goto, Run
<1>6. x.pc = pc /\ x.t = run[w].t /\ x.found = found /\ x.todo = todo
  BY <1>1, <1>3, <1>4 DEF Goto, Run
<1>7. x # None
  BY <1>5, RepositoriesNone
<1> QED BY <1>3, <1>5, <1>6, <1>7 DEF Same

\* A call that fails counts.
LEMMA NoFault == ASSUME StateOK, faults' = faults, NEW w, NEW x PROVE ~Fault(w, x)
<1>1. faults \in Nat
  BY RepositoriesAssumption DEF StateOK
<1> QED BY <1>1 DEF Fault

\* A step of w that no call failed in, and that w goes on after.
GoesOn(w) == run[w] # None /\ run'[w] # None /\ faults' = faults

LEMMA GoesOnAs ==
  ASSUME StateOK, RunsOK, NEW w \in Workers, GoesOn(w), NEW x, Moves(w, x) PROVE run'[w] = x /\ x # None
<1>1. Becomes(w, x)
  BY NoFault DEF GoesOn, Moves
<1>2. run'[w] = x
  BY <1>1 DEF Becomes, RunsOK
<1> QED BY <1>2 DEF GoesOn

\* Only the project of the target at hand differs, or one a search took for it.
OnlyAtHand(w, after, more) ==
  \A n \in Names : \/ after[n] = projects[n]
                   \/ HasTarget(w) /\ n = This(w).name
                   \/ run[w].op = "push" /\ more # {}

Going(w) == run[w] # None /\ Progress(run[w], targets, projects, astray, late)

LEMMA StaysAt ==
  ASSUME StateOK, RunsOK, NEW w \in Workers, Going(w),
         NEW x, Same(w, x), Fits(x), x.t = run[w].t,
         NEW after, NEW more, astray \subseteq more, OnlyAtHand(w, after, more),
         HasTarget(w) => AtHand(x, This(w), after, late)
  PROVE  Progress(x, targets, after, more, late)
<1>1. x.op = run[w].op /\ x.invite = run[w].invite
  BY DEF Same
<1> QED BY <1>1, Went DEF OnlyAtHand, Going

LEMMA Leaves ==
  ASSUME StateOK, RunsOK, NEW w \in Workers, Going(w), HasTarget(w),
         NEW after, NEW more, astray \subseteq more, OnlyAtHand(w, after, more),
         Settled(run[w], This(w), after, more, late)
  PROVE  Progress(NextTarget(w), targets, after, more, late)
<1> DEFINE x == NextTarget(w)
<1>1. /\ x.op = run[w].op /\ x.invite = run[w].invite /\ x.pc = "target"
      /\ x.t = run[w].t + 1 /\ x.found = None
  BY SameNext DEF Same, Going
<1> HIDE DEF x
<1>2. Settled(x, This(w), after, more, late)
  BY <1>1 DEF Settled, SetsAccess
<1>3. Fits(x)
  BY <1>1 DEF Fits
<1>4. Progress(x, targets, after, more, late)
  BY <1>1, <1>2, <1>3, Went DEF OnlyAtHand, Going
<1> QED BY <1>4 DEF x

\* The project in hand is there.
LEMMA HeldNow ==
  ASSUME StateOK, ProjectsOK, RunsOK, NEW w \in Workers, Going(w), run[w].pc \in Holding
  PROVE  LET p == run[w].found.name
         IN /\ There(w) /\ HasTarget(w) /\ p \in Names /\ projects[p] \in Project /\ run[w].found # None
            /\ AtHand(run[w], This(w), projects, late) /\ Fits(run[w])
            /\ p = This(w).name \/ (run[w].op = "push" /\ astray # {})
<1>1. /\ run[w].found # None /\ run[w].found.name \in Names /\ HasTarget(w)
      /\ There(w) => projects[run[w].found.name] \in Project
      /\ Good(run[w], targets, ids, astray)
  BY HoldFacts DEF Going, RunsOK
<1>2. AtHand(run[w], This(w), projects, late) /\ Fits(run[w])
  BY <1>1 DEF Going, Progress, HasTarget, This
<1>3. There(w)
  BY <1>1, <1>2 DEF AtHand, There, Exists
<1>4. run[w].found.name = This(w).name \/ (run[w].op = "push" /\ astray # {})
  BY <1>1, <1>2 DEF Good, AtHand, This
<1> QED BY <1>1, <1>2, <1>3, <1>4

LEMMA PutAtHand ==
  ASSUME StateOK, ProjectsOK, RunsOK, NEW w \in Workers, Going(w), run[w].pc \in Holding,
         NEW q, Put(run[w].found.name, q)
  PROVE  projects'[run[w].found.name] = q /\ OnlyAtHand(w, projects', astray)
<1>1. run[w].found.name \in Names /\ HasTarget(w)
      /\ (run[w].found.name = This(w).name \/ (run[w].op = "push" /\ astray # {}))
  BY HeldNow
<1> QED BY <1>1 DEF ProjectsOK, Put, OnlyAtHand

\* Nothing is touched.
LEMMA NothingTouched == ASSUME NEW w PROVE OnlyAtHand(w, projects, astray) /\ astray \subseteq astray
BY DEF OnlyAtHand

----------------------------------------------------------------------------
(* Every action once more, in an operation that nothing went wrong in *)

LEMMA CleanFindGroup ==
  ASSUME IInv, NEW w \in Workers, Going(w), GoesOn(w), FindGroup(w)
  PROVE  Progress(run'[w], targets, projects', astray', late)
<1>0. StateOK /\ ProjectsOK /\ RunsOK
  BY Parts
<1>1. run[w] # None /\ run[w].pc = "group" /\ UNCHANGED <<projects, astray>>
  BY DEF FindGroup, At
<1>2. run[w].found = None
  BY <1>0, <1>1 DEF RunsOK, Good, Holding
<1>3. Moves(w, Goto(w, "target")) \/ Moves(w, None)
  BY DEF FindGroup, Moves
<1>4. run'[w] = Goto(w, "target")
  BY <1>0, <1>3, GoesOnAs
<1>5. PICK x : x = Goto(w, "target")
  OBVIOUS
<1>6. Same(w, x) /\ x.pc = "target" /\ x.t = run[w].t /\ x.found = None
  BY <1>0, <1>1, <1>2, <1>5, SameGoto
<1>7. Fits(x) /\ AtHand(x, This(w), projects, late)
  BY <1>6 DEF Fits, AtHand
<1>8. Progress(x, targets, projects, astray, late)
  BY <1>0, <1>6, <1>7, NothingTouched, StaysAt
<1> QED BY <1>1, <1>4, <1>5, <1>8

\* What a create that did not fail leaves.
LEMMA Created ==
  ASSUME StateOK, ProjectsOK, RunsOK, NEW w \in Workers, CreateProject(w), ~Exists(This(w).name), faults' = faults
  PROVE  LET n == This(w).name
         IN /\ Same(w, run'[w]) /\ run'[w].pc = "push" /\ run'[w].t = run[w].t
            /\ run'[w].found # None /\ run'[w].found.name = n /\ run'[w].found.id = ids + 1
            /\ \A m \in Names : m # n => projects'[m] = projects[m]
            /\ projects'[n] # None /\ projects'[n].id = ids + 1 /\ ~projects'[n].archived
<1> DEFINE n == This(w).name
<1> DEFINE found == [name |-> n, id |-> ids + 1]
<1> DEFINE mine == [Goto(w, "push") EXCEPT !.found = found, !.mine = TRUE]
<1>1. run[w] # None /\ HasTarget(w) /\ n \in Names /\ ids \in Nat /\ run[w] \in Run
  BY TargetFacts DEF CreateProject, At, StateOK, RunsOK
<1>2. Put(n, Project0(ids + 1)) /\ Becomes(w, mine)
  BY NoFault DEF CreateProject
<1>3. run'[w] = mine
  BY <1>2 DEF Becomes, RunsOK
<1>4. found \in Found /\ found # None /\ found.name = n /\ found.id = ids + 1
  BY <1>1, RepositoriesNone DEF Found
<1> HIDE DEF found
<1>5. PICK x : x = mine
  OBVIOUS
<1>6. /\ x \in Run /\ x.op = run[w].op /\ x.invite = run[w].invite /\ x.quiet = run[w].quiet
      /\ x.alone = run[w].alone
  BY <1>1, <1>4, <1>5 DEF Goto, Run
<1>7. x.t = run[w].t /\ x.pc = "push" /\ x.found = found
  BY <1>1, <1>4, <1>5 DEF Goto, Run
<1>8. Same(w, x)
  BY <1>6, RepositoriesNone DEF Same
<1>9. projects'[n] = Project0(ids + 1) /\ \A m \in Names : m # n => projects'[m] = projects[m]
  BY <1>1, <1>2 DEF ProjectsOK, Put
<1>10. Project0(ids + 1) # None /\ Project0(ids + 1).id = ids + 1 /\ ~Project0(ids + 1).archived
  <2>1. Project0(ids + 1) \in Project
    BY <1>1, FreshProject
  <2> QED BY <2>1, RepositoriesNone DEF Project0
<1> QED BY <1>3, <1>4, <1>5, <1>7, <1>8, <1>9, <1>10

LEMMA CleanCreateProject ==
  ASSUME IInv, NEW w \in Workers, Going(w), GoesOn(w), CreateProject(w)
  PROVE  Progress(run'[w], targets, projects', astray', late)
<1>0. StateOK /\ ProjectsOK /\ RunsOK
  BY Parts
<1> DEFINE n == This(w).name
<1>1. run[w] # None /\ run[w].pc = "target" /\ run[w].op = "generate" /\ HasTarget(w) /\ UNCHANGED astray
  BY DEF CreateProject, At, In
<1>2. n \in Names /\ ids \in Nat /\ run[w] \in Run /\ run[w].found = None
  BY <1>0, <1>1, TargetFacts DEF StateOK, RunsOK, Good, Holding
<1>3. CASE Exists(n)
  <2>1. UNCHANGED projects /\ Moves(w, Goto(w, "search"))
    BY <1>3 DEF CreateProject, Moves
  <2>2. run'[w] = Goto(w, "search")
    BY <1>0, <2>1, GoesOnAs
  <2>3. PICK x : x = Goto(w, "search")
    OBVIOUS
  <2>4. Same(w, x) /\ x.pc = "search" /\ x.t = run[w].t /\ x.found = None
    BY <1>0, <1>1, <1>2, <2>3, SameGoto
  <2>5. Fits(x) /\ AtHand(x, This(w), projects, late)
    BY <1>3, <2>4 DEF Fits, AtHand, Exists
  <2>6. Progress(x, targets, projects, astray, late)
    BY <1>0, <2>4, <2>5, NothingTouched, StaysAt
  <2> QED BY <1>1, <2>1, <2>2, <2>3, <2>6
<1>4. CASE ~Exists(n)
  <2>1. PICK x : x = run'[w]
    OBVIOUS
  <2>2. /\ Same(w, x) /\ x.pc = "push" /\ x.t = run[w].t
        /\ x.found # None /\ x.found.name = n /\ x.found.id = ids + 1
        /\ projects'[n] # None /\ projects'[n].id = ids + 1 /\ ~projects'[n].archived
        /\ OnlyAtHand(w, projects', astray)
    BY <1>0, <1>1, <1>4, <2>1, Created DEF OnlyAtHand, GoesOn
  <2>3. Fits(x) /\ AtHand(x, This(w), projects', late)
    BY <2>2 DEF Fits, AtHand
  <2>4. Progress(x, targets, projects', astray, late)
    BY <1>0, <2>2, <2>3, StaysAt
  <2> QED BY <1>1, <2>1, <2>4
<1> QED BY <1>3, <1>4

LEMMA ChosenIfThere == ASSUME NEW n \in Names, Exists(n) PROVE n \in Chosen(n)
BY RepositoriesAssumption DEF Chosen, Hits

LEMMA CleanSearchProject ==
  ASSUME IInv, NEW w \in Workers, Going(w), GoesOn(w), SearchProject(w)
  PROVE  Progress(run'[w], targets, projects', astray', late)
<1>0. StateOK /\ ProjectsOK /\ RunsOK
  BY Parts
<1> DEFINE n == This(w).name
<1>1. /\ run[w] # None /\ HasTarget(w) /\ UNCHANGED projects
      /\ run[w].pc = "search" \/ (run[w].op = "push" /\ run[w].pc = "target")
  BY DEF SearchProject, At, In
<1>2. /\ n \in Names
      /\ run[w].pc = "search" => run[w].op = "generate"
      /\ run[w].pc = "search" => Exists(n) /\ n \in Chosen(n)
  BY <1>0, <1>1, TargetFacts, ChosenIfThere DEF RunsOK, Good, Going, Progress, AtHand, HasTarget, This, Exists
<1> DEFINE pc == IF run[w].op = "push" THEN "push" ELSE "members"
<1> DEFINE todo == IF run[w].invite /\ run[w].op = "generate" THEN This(w).members ELSE {}
<1>4. PICK p \in Chosen(n) :
         Moves(w, Taking(w, pc, p, todo)) /\ astray \subseteq astray' /\ (p # n /\ ~Exists(n) => astray' # {})
  <2>1. ~Fault(w, IF In(w, {"push"}) THEN None ELSE NextTarget(w))
    BY <1>0, NoFault DEF GoesOn
  <2>2. ~(Chosen(n) = {} /\ Becomes(w, IF In(w, {"push"}) THEN None ELSE NextTarget(w)))
    <3>1. ASSUME Becomes(w, None) PROVE FALSE
      BY <1>0, <3>1, GoesOnAs DEF Moves
    <3> QED BY <1>1, <1>2, <3>1 DEF In
  <2> QED BY <1>1, <2>1, <2>2 DEF SearchProject, Moves, Taking, In
<1> HIDE DEF pc, todo
<1>5. p \in Names /\ Exists(p) /\ (p # n => ~Exists(n))
  BY <1>0, <1>2, ChosenFacts
<1>6. pc \in {"push", "members"} /\ todo \subseteq This(w).members
      /\ (pc = "push" <=> run[w].op = "push") /\ (run[w].invite /\ run[w].op = "generate" => todo = This(w).members)
  BY DEF pc, todo
<1>7. PICK x : x = Taking(w, pc, p, todo)
  OBVIOUS
<1>8. /\ Same(w, x) /\ x.pc = pc /\ x.t = run[w].t
      /\ x.found # None /\ x.found.name = p /\ x.found.id = projects[p].id /\ x.todo = todo
  BY <1>0, <1>1, <1>5, <1>6, <1>7, SameTaking
<1>9. run'[w] = x
  BY <1>0, <1>4, <1>7, GoesOnAs
<1>10. run[w].op \in {"generate", "push"} /\ (run[w].op = "generate" => p = n)
  BY <1>1, <1>2, <1>5
<1>11. Fits(x)
  BY <1>6, <1>8, <1>10 DEF Fits, Same
<1>12. AtHand(x, This(w), projects, late)
  <2>1. SetsAccess(x) => AllSet(projects[p], This(w).members \ x.todo, x.grant)
    BY <1>6, <1>8, <1>10 DEF SetsAccess, AllSet, Same
  <2> QED BY <1>5, <1>6, <1>8, <1>10, <2>1 DEF AtHand, Exists, Same
<1>13. OnlyAtHand(w, projects, astray')
  BY DEF OnlyAtHand
<1>14. Progress(x, targets, projects, astray', late)
  BY <1>0, <1>4, <1>8, <1>11, <1>12, <1>13, StaysAt
<1> QED BY <1>1, <1>9, <1>14

\* A push of the starter code, or the rules and issues, that did not fail.
LEMMA StarterPushed ==
  ASSUME StateOK, ProjectsOK, RunsOK, FreshOK, NEW w \in Workers, Going(w), run[w].alone, PushStarter(w), faults' = faults
  PROVE  \/ Moves(w, NextTarget(w)) /\ run[w].op = "update"
         \/ /\ Moves(w, Goto(w, "setup")) /\ run[w].op = "generate"
            /\ Put(run[w].found.name, [projects[run[w].found.name] EXCEPT !.branch[Main] = Pushed("starter")])
<1>1. run[w].pc = "push" /\ run[w].pc \in Holding /\ run[w].op \in {"generate", "update"}
  BY DEF PushStarter, At, In, Holding
<1>2. There(w) /\ run[w].found # None /\ AtHand(run[w], This(w), projects, late)
  BY <1>1, HeldNow
<1>3. run[w].op = "generate" => ~projects[run[w].found.name].archived
  BY <1>1, <1>2 DEF AtHand
<1>4. run[w].op = "generate" => projects[run[w].found.name].branch[Main] # Pushed("starter")
  BY <1>1, <1>2, RepositoriesAssumption DEF FreshOK, StillEmpty, Going, Pushed
<1>5. \A x : ~Fault(w, x)
  BY NoFault
<1> QED BY <1>1, <1>2, <1>3, <1>4, <1>5 DEF PushStarter, Moves, In

LEMMA SetUpMade ==
  ASSUME StateOK, ProjectsOK, RunsOK, NEW w \in Workers, Going(w), SetUp(w), faults' = faults
  PROVE  Put(run[w].found.name, [projects[run[w].found.name] EXCEPT !.setup = TRUE])
<1>1. run[w].pc \in Holding
  BY DEF SetUp, At, Holding
<1>2. There(w)
  BY <1>1, HeldNow
<1>3. \A x : ~Fault(w, x)
  BY NoFault
<1> QED BY <1>2, <1>3 DEF SetUp

LEMMA CleanPushStarter ==
  ASSUME IInv, NEW w \in Workers, Going(w), GoesOn(w), run[w].alone, PushStarter(w)
  PROVE  Progress(run'[w], targets, projects', astray', late)
<1>0. StateOK /\ ProjectsOK /\ RunsOK /\ FreshOK
  BY Parts
<1> DEFINE p == run[w].found.name
<1>1. run[w] # None /\ run[w].pc = "push" /\ run[w].pc \in Holding /\ run[w].op \in {"generate", "update"} /\ UNCHANGED astray
  BY DEF PushStarter, At, In, Holding
<1>2. /\ There(w) /\ HasTarget(w) /\ projects[p] \in Project /\ run[w].found # None
      /\ AtHand(run[w], This(w), projects, late) /\ p = This(w).name
  BY <1>0, <1>1, HeldNow
<1>3. OnlyAtHand(w, projects', astray)
  BY <1>0, <1>1, NothingTouched, PutAtHand DEF PushStarter
<1>4. CASE Moves(w, NextTarget(w)) /\ run[w].op = "update"
  <2>1. Settled(run[w], This(w), projects', astray, late)
    BY <1>4 DEF Settled, SetsAccess
  <2> QED BY <1>0, <1>1, <1>2, <1>3, <1>4, <2>1, Leaves, GoesOnAs
<1>5. CASE /\ Moves(w, Goto(w, "setup")) /\ run[w].op = "generate"
           /\ Put(p, [projects[p] EXCEPT !.branch[Main] = Pushed("starter")])
  <2>1. PICK x : x = Goto(w, "setup")
    OBVIOUS
  <2>2. Same(w, x) /\ x.pc = "setup" /\ x.t = run[w].t /\ x.found = run[w].found
    BY <1>0, <1>1, <2>1, SameGoto
  <2>3. PICK q : q = [projects[p] EXCEPT !.branch[Main] = Pushed("starter")]
    OBVIOUS
  <2>4. q \in Project /\ q.id = projects[p].id
    <3>1. Main \in Branches
      BY RepositoriesAssumption
    <3> QED BY <1>2, <2>3, <3>1, PushedBranch
  <2>5. projects'[p] = q
    BY <1>0, <1>1, <1>5, <2>3, PutAtHand
  <2>6. AtHand(x, This(w), projects', late)
    BY <1>2, <2>2, <2>4, <2>5, RepositoriesNone DEF AtHand
  <2>7. Fits(x)
    BY <1>5, <2>2 DEF Fits, Same
  <2>8. Progress(x, targets, projects', astray, late)
    BY <1>0, <1>3, <2>2, <2>6, <2>7, StaysAt
  <2> QED BY <1>0, <1>1, <1>5, <2>1, <2>8, GoesOnAs
<1> QED BY <1>0, <1>4, <1>5, StarterPushed DEF GoesOn

LEMMA CleanSetUp ==
  ASSUME IInv, NEW w \in Workers, Going(w), GoesOn(w), SetUp(w)
  PROVE  Progress(run'[w], targets, projects', astray', late)
<1>0. StateOK /\ ProjectsOK /\ RunsOK
  BY Parts
<1> DEFINE p == run[w].found.name
<1>1. run[w] # None /\ run[w].pc = "setup" /\ run[w].pc \in Holding /\ run[w] \in Run /\ UNCHANGED astray
  BY <1>0 DEF SetUp, At, Holding, RunsOK
<1>2. /\ There(w) /\ HasTarget(w) /\ projects[p] \in Project /\ run[w].found # None /\ Fits(run[w])
      /\ AtHand(run[w], This(w), projects, late) /\ This(w).members \subseteq Users
  BY <1>0, <1>1, HeldNow, TargetFacts
<1>3. run[w].op = "generate"
  BY <1>1, <1>2 DEF Fits
<1>4. PICK x : x = [Goto(w, "members") EXCEPT !.todo = IF run[w].invite THEN This(w).members ELSE {}]
  OBVIOUS
<1>5. /\ x \in Run /\ x.op = run[w].op /\ x.invite = run[w].invite /\ x.quiet = run[w].quiet /\ x.alone = run[w].alone
      /\ x.pc = "members" /\ x.t = run[w].t /\ x.found = run[w].found
      /\ x.todo = IF run[w].invite THEN This(w).members ELSE {}
  BY <1>1, <1>2, <1>4 DEF Goto, Run
<1>6. Moves(w, x)
  BY <1>4 DEF SetUp, Moves
<1>7. run'[w] = x
  BY <1>0, <1>6, GoesOnAs
<1>8. Put(p, [projects[p] EXCEPT !.setup = TRUE])
  BY <1>0, SetUpMade DEF GoesOn
<1>9. PICK q : q = [projects[p] EXCEPT !.setup = TRUE]
  OBVIOUS
<1>10. q \in Project /\ q.id = projects[p].id /\ projects'[p] = q /\ OnlyAtHand(w, projects', astray)
  BY <1>0, <1>1, <1>2, <1>8, <1>9, PutAtHand DEF Project
<1>11. AtHand(x, This(w), projects', late)
  <2>1. SetsAccess(x) => AllSet(q, This(w).members \ x.todo, x.grant)
    BY <1>3, <1>5 DEF SetsAccess, AllSet
  <2> QED BY <1>2, <1>5, <1>10, <2>1, RepositoriesNone DEF AtHand
<1>12. Same(w, x) /\ Fits(x)
  BY <1>3, <1>5, RepositoriesNone DEF Same, Fits
<1>13. Progress(x, targets, projects', astray, late)
  BY <1>0, <1>5, <1>10, <1>11, <1>12, StaysAt
<1> QED BY <1>1, <1>7, <1>13

\* A search that did not fail takes a member for one account at most.
LEMMA TakenForOne ==
  ASSUME NEW m \in Users
  PROVE  /\ TakenFor(m) \subseteq Users /\ \A u, v \in TakenFor(m) : u = v
         /\ Single(m) # {} => TakenFor(m) = Single(m)
         /\ Single(m) = {} => TakenFor(m) = Invited(m)
<1>1. Finds[m] \subseteq Users /\ IsFiniteSet(Finds[m])
  <2>1. Finds[m] \subseteq Users /\ IsFiniteSet(Users)
    BY RepositoriesAssumption
  <2> QED BY <2>1, FS_Subset
<1>2. Single(m) \subseteq Users /\ \A u, v \in Single(m) : u = v
  BY <1>1, FS_Singleton DEF Single
<1> QED BY <1>2 DEF TakenFor, Invited

LEMMA CleanFindUser ==
  ASSUME IInv, NEW w \in Workers, Going(w), GoesOn(w), FindUser(w)
  PROVE  Progress(run'[w], targets, projects', astray', late)
<1>0. StateOK /\ ProjectsOK /\ RunsOK
  BY Parts
<1> DEFINE p == run[w].found.name
<1>1. /\ run[w] # None /\ run[w].pc = "members" /\ run[w].pc \in Holding /\ run[w] \in Run
      /\ UNCHANGED <<projects, astray>> /\ run[w].grant = None
  BY <1>0, NoGrant DEF FindUser, At, Holding, RunsOK
<1>2. /\ There(w) /\ HasTarget(w) /\ run[w].found # None /\ Fits(run[w])
      /\ AtHand(run[w], This(w), projects, late) /\ This(w).members \subseteq Users
  BY <1>0, <1>1, HeldNow, TargetFacts
<1>3. \A y : ~Fault(w, y)
  BY <1>0, NoFault DEF GoesOn
<1>4. PICK m \in run[w].todo :
        \/ Moves(w, [run[w] EXCEPT !.todo = @ \ {m}]) /\ TakenFor(m) = {}
        \/ \E u \in TakenFor(m), byMail \in BOOLEAN :
             Moves(w, [[run[w] EXCEPT !.todo = @ \ {m}] EXCEPT !.pc = "member",
                                                               !.grant = [who |-> u, byMail |-> byMail]])
  BY <1>3 DEF FindUser, Moves, TakenFor
<1>5. m \in Users /\ TakenFor(m) \subseteq Users /\ \A u, v \in TakenFor(m) : u = v
  BY <1>1, TakenForOne DEF Run
<1>6. PICK rest : rest = [run[w] EXCEPT !.todo = @ \ {m}]
  OBVIOUS
<1>7. /\ rest \in Run /\ rest.op = run[w].op /\ rest.invite = run[w].invite /\ rest.quiet = run[w].quiet
      /\ rest.alone = run[w].alone /\ rest.pc = "members" /\ rest.t = run[w].t /\ rest.found = run[w].found
      /\ rest.todo = run[w].todo \ {m} /\ rest.grant = None
  BY <1>1, <1>6 DEF Run
<1>8. SetsAccess(run[w]) =>
        \A v \in This(w).members \ run[w].todo : \A u \in TakenFor(v) \ Inheriting : IsSet(projects[p], u)
  BY <1>1, <1>2 DEF AtHand, AllSet
\* Whatever it goes on as, the members done with and m are set, or m is at hand.
<1>9. ASSUME NEW x \in Run, x.op = run[w].op, x.invite = run[w].invite, x.quiet = run[w].quiet, x.alone = run[w].alone,
             x.pc \in {"members", "member"}, x.t = run[w].t, x.found = run[w].found, x.todo = run[w].todo \ {m},
             \A u \in TakenFor(m) : x.grant # None /\ x.grant.who = u, run'[w] = x
      PROVE  Progress(run'[w], targets, projects', astray', late)
  <2>1. Same(w, x) /\ Fits(x)
    BY <1>1, <1>2, <1>9, RepositoriesNone DEF Same, Fits
  <2>2. SetsAccess(x) => AllSet(projects[p], This(w).members \ x.todo, x.grant)
    <3> SUFFICES ASSUME SetsAccess(x), NEW v \in This(w).members \ x.todo, NEW u \in TakenFor(v) \ Inheriting
                 PROVE  IsSet(projects[p], u) \/ (x.grant # None /\ x.grant.who = u)
      BY DEF AllSet
    <3>1. CASE v = m
      BY <1>9, <3>1
    <3>2. CASE v # m
      BY <1>8, <1>9, <3>2 DEF SetsAccess
    <3> QED BY <3>1, <3>2
  <2>3. AtHand(x, This(w), projects, late)
    BY <1>1, <1>2, <1>9, <2>2 DEF AtHand
  <2>4. Progress(x, targets, projects, astray, late)
    BY <1>0, <1>9, <2>1, <2>3, NothingTouched, StaysAt
  <2> QED BY <1>1, <1>9, <2>4
<1>10. CASE Moves(w, rest) /\ TakenFor(m) = {}
  <2>1. run'[w] = rest
    BY <1>0, <1>10, GoesOnAs
  <2> QED BY <1>7, <1>9, <1>10, <2>1
<1>11. ASSUME NEW u \in TakenFor(m), NEW byMail \in BOOLEAN,
              Moves(w, [rest EXCEPT !.pc = "member", !.grant = [who |-> u, byMail |-> byMail]])
       PROVE  Progress(run'[w], targets, projects', astray', late)
  <2>1. PICK grant : grant = [who |-> u, byMail |-> byMail]
    OBVIOUS
  <2>2. grant \in Grant /\ grant # None /\ grant.who = u
    BY <1>5, <2>1, RepositoriesNone DEF Grant
  <2>3. PICK x : x = [rest EXCEPT !.pc = "member", !.grant = grant]
    OBVIOUS
  <2>4. /\ x \in Run /\ x.op = run[w].op /\ x.invite = run[w].invite /\ x.quiet = run[w].quiet
        /\ x.alone = run[w].alone /\ x.pc = "member" /\ x.t = run[w].t /\ x.found = run[w].found
        /\ x.todo = run[w].todo \ {m} /\ x.grant = grant
    BY <1>7, <2>2, <2>3 DEF Run
  <2>5. run'[w] = x
    BY <1>0, <1>11, <2>1, <2>3, GoesOnAs
  <2>6. \A v \in TakenFor(m) : x.grant # None /\ x.grant.who = v
    BY <1>5, <2>2, <2>4
  <2> QED BY <1>9, <2>4, <2>5, <2>6
<1> QED BY <1>4, <1>6, <1>10, <1>11

LEMMA CleanSetMember ==
  ASSUME IInv, OwnersStay, NEW w \in Workers, Going(w), GoesOn(w), SetMember(w)
  PROVE  Progress(run'[w], targets, projects', astray', late)
<1>0. StateOK /\ ProjectsOK /\ RunsOK
  BY Parts
<1> DEFINE p == run[w].found.name
<1> DEFINE u == run[w].grant.who
<1>1. run[w] # None /\ run[w].pc = "member" /\ run[w].pc \in Holding /\ run[w] \in Run /\ UNCHANGED astray
  BY <1>0 DEF SetMember, At, Holding, RunsOK
<1>2. /\ There(w) /\ HasTarget(w) /\ projects[p] \in Project /\ run[w].found # None /\ Fits(run[w]) /\ p \in Names
      /\ AtHand(run[w], This(w), projects, late) /\ This(w).members \subseteq Users
  BY <1>0, <1>1, HeldNow, TargetFacts
<1>3. u \in Users /\ run[w].grant.byMail \in BOOLEAN /\ run[w].grant # None
  BY <1>0, <1>1, HoldFacts DEF Run, Grant
<1> HIDE DEF u
<1>4. PICK new \in LevelsSet(projects[p].level[u], run[w].grant.byMail) :
        /\ Moves(w, [run[w] EXCEPT !.pc = "members", !.grant = None])
        /\ Put(p, [projects[p] EXCEPT !.level[u] = new])
  <2>1. \A y : ~Fault(w, y)
    BY <1>0, NoFault DEF GoesOn
  <2> QED BY <1>2, <2>1 DEF SetMember, Moves, u
<1>5. PICK x : x = [run[w] EXCEPT !.pc = "members", !.grant = None]
  OBVIOUS
<1>6. /\ x \in Run /\ x.op = run[w].op /\ x.invite = run[w].invite /\ x.quiet = run[w].quiet /\ x.alone = run[w].alone
      /\ x.pc = "members" /\ x.t = run[w].t /\ x.found = run[w].found /\ x.todo = run[w].todo /\ x.grant = None
  BY <1>1, <1>5 DEF Run
<1>7. run'[w] = x
  BY <1>0, <1>4, <1>5, GoesOnAs
<1>8. Same(w, x) /\ Fits(x)
  BY <1>1, <1>2, <1>6, RepositoriesNone DEF Same, Fits
<1>9. SetsAccess(run[w]) => AllSet(projects[p], This(w).members \ run[w].todo, run[w].grant)
  BY <1>1, <1>2 DEF AtHand
<1>10. SetsAccess(x) <=> SetsAccess(run[w])
  BY <1>6 DEF SetsAccess
<1>11. PICK level : level = [projects[p].level EXCEPT ![u] = new]
  OBVIOUS
<1>12. projects[p].level \in [Users -> Levels]
  BY <1>2 DEF Project
<1>13. new \in Levels /\ (u \notin Inheriting => new = IF u \in Owners THEN "owner" ELSE "configured")
  <2>1. projects[p].level[u] \in Levels
    BY <1>3, <1>12
  <2>2. /\ projects[p].level[u] = "owner" <=> u \in Owners
        /\ projects[p].level[u] = "inherited" => u \in Inheriting
    BY <1>2, <1>3, RepositoriesNone DEF OwnersStay, Exists
  <2> QED BY <1>3, <2>1, <2>2, LevelsSetFacts
<1>14. /\ level \in [Users -> Levels] /\ level[u] = new
       /\ \A v \in Users : v # u => level[v] = projects[p].level[v]
  BY <1>3, <1>11, <1>12, <1>13
<1>15. PICK q : q = [projects[p] EXCEPT !.level = level]
  OBVIOUS
<1>16. q \in Project /\ q.id = projects[p].id /\ q.level = level
  BY <1>2, <1>14, <1>15 DEF Project
<1>17. Put(p, q)
  BY <1>2, <1>4, <1>11, <1>15 DEF Project
<1>18. projects'[p] = q /\ OnlyAtHand(w, projects', astray)
  BY <1>0, <1>1, <1>17, PutAtHand
<1>19. SetsAccess(x) => AllSet(q, This(w).members \ x.todo, x.grant)
  <2> SUFFICES ASSUME SetsAccess(x), NEW m \in This(w).members \ x.todo, NEW v \in TakenFor(m) \ Inheriting
               PROVE  IsSet(q, v)
    BY DEF AllSet
  <2>1. v \in Users /\ m \in This(w).members \ run[w].todo
    BY <1>2, <1>6, TakenForOne
  <2>2. CASE v = u
    BY <1>13, <1>14, <1>16, <2>2 DEF IsSet
  <2>3. CASE v # u
    <3>1. IsSet(projects[p], v)
      BY <1>9, <1>10, <2>1, <2>3 DEF AllSet, u
    <3> QED BY <1>14, <1>16, <2>1, <2>3, <3>1 DEF IsSet
  <2> QED BY <2>2, <2>3
<1>20. AtHand(x, This(w), projects', late)
  BY <1>1, <1>2, <1>6, <1>16, <1>18, <1>19, RepositoriesNone DEF AtHand
<1>21. Progress(x, targets, projects', astray, late)
  BY <1>0, <1>6, <1>8, <1>18, <1>20, StaysAt
<1> QED BY <1>1, <1>7, <1>21

LEMMA CleanMembersSet ==
  ASSUME IInv, NEW w \in Workers, Going(w), GoesOn(w), MembersSet(w)
  PROVE  Progress(run'[w], targets, projects', astray', late)
<1>0. StateOK /\ ProjectsOK /\ RunsOK
  BY Parts
<1> DEFINE p == run[w].found.name
<1>1. /\ run[w] # None /\ run[w].pc = "members" /\ run[w].pc \in Holding /\ run[w].todo = {} /\ run[w].grant = None
      /\ UNCHANGED <<projects, astray>> /\ Moves(w, NextTarget(w))
  BY <1>0, NoGrant DEF MembersSet, At, Holding, Moves
<1>2. /\ HasTarget(w) /\ run[w].found # None /\ Fits(run[w]) /\ AtHand(run[w], This(w), projects, late)
      /\ p = This(w).name \/ run[w].op = "push"
  BY <1>0, <1>1, HeldNow
<1>3. run[w].op \in {"generate", "setaccess"} /\ p = This(w).name
  BY <1>1, <1>2 DEF Fits
<1>4. This(w).members \ run[w].todo = This(w).members
  BY <1>1
<1>5. Settled(run[w], This(w), projects, astray, late)
  BY <1>1, <1>2, <1>3, <1>4 DEF Settled, AtHand
<1>6. Progress(NextTarget(w), targets, projects, astray, late)
  BY <1>0, <1>2, <1>5, NothingTouched, Leaves
<1> QED BY <1>0, <1>1, <1>6, GoesOnAs

LEMMA CleanGetProject ==
  ASSUME IInv, NEW w \in Workers, Going(w), GoesOn(w), GetProject(w)
  PROVE  Progress(run'[w], targets, projects', astray', late)
<1>0. StateOK /\ ProjectsOK /\ RunsOK
  BY Parts
<1> DEFINE n == This(w).name
<1>1. /\ run[w] # None /\ HasTarget(w) /\ UNCHANGED <<projects, astray>>
      /\ run[w].op \in {"setaccess", "update", "archive", "unarchive"} /\ n \in Names
  BY <1>0, TargetFacts DEF GetProject, At, In
<1> DEFINE pc == IF run[w].op = "setaccess" THEN "members" ELSE IF run[w].op = "update" THEN "push" ELSE "archive"
<1> DEFINE todo == IF pc = "members" THEN This(w).members ELSE {}
<1>2. \/ Exists(n) /\ Moves(w, Taking(w, pc, n, todo))
      \/ ~Exists(n) /\ Moves(w, NextTarget(w))
  <2>1. ~Fault(w, NextTarget(w))
    BY <1>0, NoFault DEF GoesOn
  <2> QED BY <1>1, <2>1 DEF GetProject, Moves, Taking, In
<1>3. /\ pc \in {"push", "members", "archive"} /\ todo \subseteq This(w).members
      /\ pc = "members" => run[w].op = "setaccess" /\ todo = This(w).members
      /\ pc = "archive" => run[w].op \in {"archive", "unarchive"}
  BY <1>1
<1> HIDE DEF pc, todo
<1>4. CASE Exists(n) /\ Moves(w, Taking(w, pc, n, todo))
  <2>1. PICK x : x = Taking(w, pc, n, todo)
    OBVIOUS
  <2>2. /\ Same(w, x) /\ x.pc = pc /\ x.t = run[w].t
        /\ x.found # None /\ x.found.name = n /\ x.found.id = projects[n].id /\ x.todo = todo
    BY <1>0, <1>1, <1>3, <1>4, <2>1, SameTaking
  <2>3. Fits(x)
    BY <1>3, <2>2 DEF Fits, Same
  <2>4. SetsAccess(x) /\ pc = "members" => AllSet(projects[n], This(w).members \ x.todo, x.grant)
    BY <1>3, <2>2 DEF AllSet
  <2>5. AtHand(x, This(w), projects, late)
    BY <1>1, <1>3, <1>4, <2>2, <2>4 DEF AtHand, Exists, Same
  <2>6. Progress(x, targets, projects, astray, late)
    BY <1>0, <2>2, <2>3, <2>5, NothingTouched, StaysAt
  <2> QED BY <1>0, <1>1, <1>4, <2>1, <2>6, GoesOnAs
<1>5. CASE ~Exists(n) /\ Moves(w, NextTarget(w))
  <2>1. Settled(run[w], This(w), projects, astray, late)
    BY <1>1, <1>5 DEF Settled, SetsAccess, Exists
  <2>2. Progress(NextTarget(w), targets, projects, astray, late)
    BY <1>0, <1>1, <2>1, NothingTouched, Leaves
  <2> QED BY <1>0, <1>1, <1>5, <2>2, GoesOnAs
<1> QED BY <1>2, <1>4, <1>5

LEMMA CleanArchive ==
  ASSUME IInv, NEW w \in Workers, Going(w), GoesOn(w), Archive(w)
  PROVE  Progress(run'[w], targets, projects', astray', late)
<1>0. StateOK /\ ProjectsOK /\ RunsOK
  BY Parts
<1>1. run[w] # None /\ run[w].pc = "archive" /\ run[w].pc \in Holding /\ UNCHANGED astray /\ Moves(w, NextTarget(w))
  BY DEF Archive, At, Holding, Moves
<1>2. HasTarget(w) /\ Fits(run[w])
  BY <1>0, <1>1, HeldNow
<1>3. OnlyAtHand(w, projects', astray)
  BY <1>0, <1>1, NothingTouched, PutAtHand DEF Archive
<1>4. Settled(run[w], This(w), projects', astray, late)
  BY <1>1, <1>2 DEF Fits, Settled, SetsAccess
<1>5. Progress(NextTarget(w), targets, projects', astray, late)
  BY <1>0, <1>2, <1>3, <1>4, Leaves
<1> QED BY <1>0, <1>1, <1>5, GoesOnAs

LEMMA CleanPushDeferred ==
  ASSUME IInv, NEW w \in Workers, Going(w), GoesOn(w), PushDeferred(w)
  PROVE  Progress(run'[w], targets, projects', astray', late)
<1>0. StateOK /\ ProjectsOK /\ RunsOK
  BY Parts
<1> DEFINE p == run[w].found.name
<1>1. run[w] # None /\ run[w].op = "push" /\ run[w].pc \in Holding /\ run[w] \in Run /\ UNCHANGED astray
  BY <1>0 DEF PushDeferred, At, In, Holding, RunsOK
<1>2. HasTarget(w) /\ projects[p] \in Project /\ (p = This(w).name \/ astray # {})
  BY <1>0, <1>1, HeldNow
<1>3. PICK x : x = [NextTarget(w) EXCEPT !.remotes = @ \cup {p}]
  OBVIOUS
<1>4. Moves(w, x) /\ Put(p, [projects[p] EXCEPT !.branch[deferred.to] = Pushed("deferred")])
  <2>1. ~Fault(w, None)
    BY <1>0, NoFault DEF GoesOn
  <2>2. ~Becomes(w, None)
    BY <1>0, GoesOnAs DEF Moves
  <2> QED BY <1>3, <2>1, <2>2 DEF PushDeferred, OnPushError, Moves
<1>5. PICK q : q = [projects[p] EXCEPT !.branch[deferred.to] = Pushed("deferred")]
  OBVIOUS
<1>6. q \in Project /\ q.branch[deferred.to].base = "deferred" /\ projects'[p] = q /\ OnlyAtHand(w, projects', astray)
  <2>1. q \in Project /\ q.branch[deferred.to].base = "deferred"
    BY <1>0, <1>2, <1>5, DeferredFits, PushedBranch
  <2>2. projects'[p] = q /\ OnlyAtHand(w, projects', astray)
    BY <1>0, <1>1, <1>4, <1>5, PutAtHand
  <2> QED BY <2>1, <2>2
<1>7. /\ x.op = run[w].op /\ x.invite = run[w].invite
      /\ x.pc = "target" /\ x.t = run[w].t + 1 /\ x.found = None
  BY <1>1, <1>3 DEF NextTarget, Run
<1>8. Settled(x, This(w), projects', astray, late)
  BY <1>1, <1>2, <1>6, <1>7, RepositoriesNone DEF Settled, SetsAccess
<1>9. Fits(x)
  BY <1>7 DEF Fits
<1>10. Progress(x, targets, projects', astray, late)
  BY <1>0, <1>1, <1>2, <1>6, <1>7, <1>8, <1>9, Went DEF OnlyAtHand, Going
<1> QED BY <1>0, <1>1, <1>4, <1>10, GoesOnAs

LEMMA CleanSearchGroup ==
  ASSUME IInv, NEW w \in Workers, Going(w), GoesOn(w), SearchGroup(w)
  PROVE  Progress(run'[w], targets, projects', astray', late)
<1>0. StateOK /\ ProjectsOK /\ RunsOK
  BY Parts
<1> DEFINE n == This(w).name
<1>1. /\ run[w] # None /\ run[w].pc = "target" /\ HasTarget(w) /\ run[w].op = "delete" /\ UNCHANGED <<projects, astray>>
      /\ n \in Names /\ run[w].todo = {} /\ run[w] \in Run
  BY <1>0, TargetFacts DEF SearchGroup, At, In, RunsOK, Good
<1>2. CASE \E p \in ToDelete(n) : Moves(w, [Goto(w, "list") EXCEPT !.found = [name |-> p, id |-> projects[p].id]])
  <2>1. PICK x : x = Taking(w, "list", n, {})
    OBVIOUS
  <2>2. Exists(n) /\ Moves(w, [Goto(w, "list") EXCEPT !.found = [name |-> n, id |-> projects[n].id]])
    BY <1>2 DEF ToDelete, Hits
  <2>3. /\ Same(w, x) /\ x.pc = "list" /\ x.t = run[w].t
        /\ x.found # None /\ x.found.name = n /\ x.found.id = projects[n].id
    BY <1>0, <1>1, <2>1, <2>2, SameTaking
  <2>4. [Goto(w, "list") EXCEPT !.found = [name |-> n, id |-> projects[n].id]] = x
    <3>1. PICK found : found = [name |-> n, id |-> projects[n].id]
      OBVIOUS
    <3>2. [Goto(w, "list") EXCEPT !.found = found] = [Goto(w, "list") EXCEPT !.found = found, !.todo = {}]
      BY <1>1 DEF Goto, Run
    <3> QED BY <2>1, <3>1, <3>2 DEF Taking
  <2>5. Fits(x) /\ AtHand(x, This(w), projects, late)
    BY <1>1, <2>2, <2>3 DEF Fits, AtHand, Exists, Same
  <2>6. Progress(x, targets, projects, astray, late)
    BY <1>0, <2>3, <2>5, NothingTouched, StaysAt
  <2> QED BY <1>0, <1>1, <2>2, <2>4, <2>6, GoesOnAs
<1>3. CASE ToDelete(n) = {} /\ Moves(w, NextTarget(w))
  <2>1. ~Exists(n)
    BY <1>1, <1>3, RepositoriesAssumption DEF ToDelete, Hits
  <2>2. Settled(run[w], This(w), projects, astray, late)
    BY <1>1, <2>1 DEF Settled, SetsAccess, Exists
  <2>3. Progress(NextTarget(w), targets, projects, astray, late)
    BY <1>0, <1>1, <2>2, NothingTouched, Leaves
  <2> QED BY <1>0, <1>1, <1>3, <2>3, GoesOnAs
<1>4. ~Fault(w, NextTarget(w))
  BY <1>0, NoFault DEF GoesOn
<1> QED BY <1>2, <1>3, <1>4 DEF SearchGroup, Moves

LEMMA CleanListImages ==
  ASSUME IInv, NEW w \in Workers, Going(w), GoesOn(w), ListImages(w)
  PROVE  Progress(run'[w], targets, projects', astray', late)
<1>0. StateOK /\ ProjectsOK /\ RunsOK
  BY Parts
<1> DEFINE p == run[w].found.name
<1>1. /\ run[w] # None /\ run[w].pc = "list" /\ run[w].pc \in Holding /\ run[w] \in Run /\ run[w].op = "delete"
      /\ UNCHANGED <<projects, astray>>
  BY <1>0 DEF ListImages, At, Holding, RunsOK, Good
<1>2. /\ There(w) /\ HasTarget(w) /\ projects[p] \in Project /\ run[w].found # None
      /\ AtHand(run[w], This(w), projects, late)
  BY <1>0, <1>1, HeldNow
<1>3. Moves(w, [Goto(w, "images") EXCEPT !.images = projects[p].images])
  <2>1. ~Fault(w, NextTarget(w)) /\ ~Fault(w, Goto(w, "delete"))
    BY <1>0, NoFault DEF GoesOn
  <2> QED BY <1>2, <2>1 DEF ListImages, Moves
<1>4. PICK x : x = [Goto(w, "images") EXCEPT !.images = projects[p].images]
  OBVIOUS
<1>5. projects[p].images \in Nat
  BY <1>2 DEF Project
<1>6. /\ x \in Run /\ x.op = run[w].op /\ x.invite = run[w].invite /\ x.quiet = run[w].quiet /\ x.alone = run[w].alone
      /\ x.pc = "images" /\ x.t = run[w].t /\ x.found = run[w].found /\ x.images = projects[p].images
  BY <1>1, <1>4, <1>5 DEF Goto, Run
<1>7. Same(w, x) /\ Fits(x) /\ AtHand(x, This(w), projects, late)
  BY <1>1, <1>2, <1>6, RepositoriesNone DEF Same, Fits, AtHand
<1>8. Progress(x, targets, projects, astray, late)
  BY <1>0, <1>6, <1>7, NothingTouched, StaysAt
<1> QED BY <1>0, <1>1, <1>3, <1>4, <1>8, GoesOnAs

LEMMA CleanDeleteImage ==
  ASSUME IInv, NEW w \in Workers, Going(w), GoesOn(w), DeleteImage(w)
  PROVE  Progress(run'[w], targets, projects', astray', late)
<1>0. StateOK /\ ProjectsOK /\ RunsOK
  BY Parts
<1> DEFINE p == run[w].found.name
<1>1. /\ run[w] # None /\ run[w].pc = "images" /\ run[w].pc \in Holding /\ run[w] \in Run /\ run[w].op = "delete"
      /\ UNCHANGED astray
  BY <1>0 DEF DeleteImage, At, Holding, RunsOK, Good
<1>2. /\ There(w) /\ HasTarget(w) /\ projects[p] \in Project /\ run[w].found # None /\ p = This(w).name
      /\ AtHand(run[w], This(w), projects, late)
  BY <1>0, <1>1, HeldNow
<1>3. projects[p].images = run[w].images \/ p \in late
  BY <1>1, <1>2 DEF AtHand
<1>4. run[w].images \in Nat /\ projects[p].images \in Nat
  BY <1>1, <1>2 DEF Project, Run
<1>5. CASE run[w].images = 0 /\ Moves(w, Goto(w, "delete")) /\ UNCHANGED projects
  <2>1. PICK x : x = Goto(w, "delete")
    OBVIOUS
  <2>2. Same(w, x) /\ x.pc = "delete" /\ x.t = run[w].t /\ x.found = run[w].found
    BY <1>0, <1>1, <2>1, SameGoto
  <2>3. Fits(x) /\ AtHand(x, This(w), projects, late)
    BY <1>1, <1>2, <1>3, <1>5, <2>2 DEF Fits, AtHand, Same
  <2>4. Progress(x, targets, projects, astray, late)
    BY <1>0, <2>2, <2>3, NothingTouched, StaysAt
  <2> QED BY <1>0, <1>1, <1>5, <2>1, <2>4, GoesOnAs
<1>6. CASE /\ run[w].images > 0 /\ projects[p].images > 0
           /\ Put(p, [projects[p] EXCEPT !.images = @ - 1])
           /\ Moves(w, [run[w] EXCEPT !.images = @ - 1])
  <2>1. PICK x : x = [run[w] EXCEPT !.images = @ - 1]
    OBVIOUS
  <2>2. run[w].images - 1 \in Nat /\ projects[p].images - 1 \in Nat
    BY <1>4, <1>6
  <2>3. /\ x \in Run /\ x.op = run[w].op /\ x.invite = run[w].invite /\ x.quiet = run[w].quiet /\ x.alone = run[w].alone
        /\ x.pc = "images" /\ x.t = run[w].t /\ x.found = run[w].found /\ x.images = run[w].images - 1
    BY <1>1, <2>1, <2>2 DEF Run
  <2>4. PICK q : q = [projects[p] EXCEPT !.images = @ - 1]
    OBVIOUS
  <2>5. q \in Project /\ q.id = projects[p].id /\ q.images = projects[p].images - 1
    BY <1>2, <2>2, <2>4 DEF Project
  <2>6. projects'[p] = q /\ OnlyAtHand(w, projects', astray)
    BY <1>0, <1>1, <1>6, <2>4, PutAtHand
  <2>7. AtHand(x, This(w), projects', late)
    <3>1. q.images = x.images \/ p \in late
      BY <1>3, <2>3, <2>5
    <3> QED BY <1>1, <1>2, <2>3, <2>5, <2>6, <3>1, RepositoriesNone DEF AtHand
  <2>8. Same(w, x) /\ Fits(x)
    BY <1>1, <2>3, RepositoriesNone DEF Same, Fits
  <2>9. Progress(x, targets, projects', astray, late)
    BY <1>0, <2>3, <2>6, <2>7, <2>8, StaysAt
  <2> QED BY <1>0, <1>1, <1>6, <2>1, <2>9, GoesOnAs
<1>7. CASE run[w].images > 0 /\ projects[p].images = 0 /\ Moves(w, NextTarget(w)) /\ UNCHANGED projects
  <2>1. Settled(run[w], This(w), projects, astray, late)
    BY <1>1, <1>2, <1>3, <1>4, <1>7 DEF Settled, SetsAccess
  <2>2. Progress(NextTarget(w), targets, projects, astray, late)
    BY <1>0, <1>2, <2>1, NothingTouched, Leaves
  <2> QED BY <1>0, <1>1, <1>7, <2>2, GoesOnAs
<1>8. ~Fault(w, NextTarget(w))
  BY <1>0, NoFault DEF GoesOn
<1> QED BY <1>2, <1>5, <1>6, <1>7, <1>8 DEF DeleteImage, Moves

LEMMA CleanDeleteProject ==
  ASSUME IInv, NEW w \in Workers, Going(w), GoesOn(w), DeleteProject(w)
  PROVE  Progress(run'[w], targets, projects', astray', late)
<1>0. StateOK /\ ProjectsOK /\ RunsOK
  BY Parts
<1> DEFINE p == run[w].found.name
<1>1. /\ run[w] # None /\ run[w].pc = "delete" /\ run[w].pc \in Holding /\ run[w] \in Run /\ run[w].op = "delete"
      /\ UNCHANGED astray /\ Moves(w, NextTarget(w))
  BY <1>0 DEF DeleteProject, At, Holding, RunsOK, Good, Moves
<1>2. /\ There(w) /\ HasTarget(w) /\ projects[p] \in Project /\ run[w].found # None /\ p = This(w).name
      /\ AtHand(run[w], This(w), projects, late)
  BY <1>0, <1>1, HeldNow
<1>3. projects[p].images \in Nat /\ (projects[p].images = 0 \/ p \in late)
  BY <1>1, <1>2 DEF AtHand, Project
<1>4. OnlyAtHand(w, projects', astray) /\ (projects'[p] # None => p \in late)
  <2>1. CASE Put(p, None)
    BY <1>0, <1>1, <2>1, PutAtHand
  <2>2. CASE projects[p].images > 0 /\ UNCHANGED projects
    BY <1>3, <2>2, NothingTouched
  <2>3. ~Fault(w, NextTarget(w))
    BY <1>0, NoFault DEF GoesOn
  <2> QED BY <1>2, <2>1, <2>2, <2>3 DEF DeleteProject
<1>5. Settled(run[w], This(w), projects', astray, late)
  BY <1>1, <1>2, <1>4 DEF Settled, SetsAccess
<1>6. Progress(NextTarget(w), targets, projects', astray, late)
  BY <1>0, <1>2, <1>4, <1>5, Leaves
<1> QED BY <1>0, <1>1, <1>6, GoesOnAs

----------------------------------------------------------------------------
(* What any step does to its operation *)

\* Only these can end an operation.
MayEnd(w) == FindGroup(w) \/ Done(w) \/ In(w, {"push"})

Shaped(w) == \E x : /\ Moves(w, x)
                    /\ x # None => x \in Run /\ Same(w, x)
                    /\ x = None => MayEnd(w)

LEMMA ShapedBy ==
  ASSUME NEW w, NEW x, Moves(w, x), x \in Run, x.op = run[w].op, x.invite = run[w].invite, x.quiet = run[w].quiet,
         x.alone = run[w].alone
  PROVE  Shaped(w)
<1>1. x # None /\ Same(w, x)
  BY RepositoriesNone DEF Same
<1> QED BY <1>1 DEF Shaped

LEMMA ShapedNext == ASSUME RunsOK, NEW w \in Workers, run[w] # None, Moves(w, NextTarget(w)) PROVE Shaped(w)
BY SameNext DEF Shaped, Same

LEMMA ShapedGoto ==
  ASSUME RunsOK, NEW w \in Workers, run[w] # None,
         NEW pc \in {"target", "search", "push", "setup", "members", "archive", "list", "images", "delete"},
         Moves(w, Goto(w, pc))
  PROVE  Shaped(w)
BY SameGoto DEF Shaped, Same

LEMMA ShapedTaking ==
  ASSUME StateOK, ProjectsOK, RunsOK, NEW w \in Workers, run[w] # None, HasTarget(w),
         NEW pc \in {"push", "members", "archive", "list"}, NEW p \in Names, Exists(p),
         NEW todo, todo \subseteq This(w).members, Moves(w, Taking(w, pc, p, todo))
  PROVE  Shaped(w)
<1>1. PICK x : x = Taking(w, pc, p, todo)
  OBVIOUS
<1>2. Same(w, x) /\ x \in Run
  BY <1>1, SameTaking
<1> QED BY <1>1, <1>2 DEF Shaped, Same

LEMMA ShapedEnd == ASSUME NEW w, Moves(w, None), MayEnd(w) PROVE Shaped(w)
BY DEF Shaped

LEMMA Shapes == ASSUME IInv, NEW w \in Workers, Step(w) PROVE Shaped(w) /\ run[w] # None
<1>0. StateOK /\ ProjectsOK /\ RunsOK
  BY Parts
<1>1. run[w] # None
  BY DEF Step, FindGroup, Done, CreateProject, SearchProject, PushStarter, SetUp, FindUser, SetMember, MembersSet,
         GetProject, Archive, PushDeferred, SearchGroup, ListImages, DeleteImage, DeleteProject, At, HasTarget
<1>2. run[w] \in Run
  BY <1>0, <1>1 DEF RunsOK
<1> DEFINE p == run[w].found.name
<1>3. CASE FindGroup(w)
  <2>1. Moves(w, Goto(w, "target")) \/ Moves(w, None)
    BY <1>3 DEF FindGroup, Moves
  <2> QED BY <1>0, <1>1, <1>3, <2>1, ShapedGoto, ShapedEnd DEF MayEnd
<1>4. CASE Done(w)
  BY <1>4, ShapedEnd, <1>1 DEF Done, Moves, MayEnd
<1>5. CASE CreateProject(w)
  <2> DEFINE found == [name |-> This(w).name, id |-> ids + 1]
  <2> DEFINE mine == [Goto(w, "push") EXCEPT !.found = found, !.mine = TRUE]
  <2>1. This(w).name \in Names /\ ids + 1 \in Nat
    BY <1>0, <1>5, TargetFacts DEF CreateProject, StateOK
  <2>2. found \in Found
    BY <2>1 DEF Found
  <2>3. Moves(w, mine) \/ Moves(w, Goto(w, "search"))
    BY <1>5 DEF CreateProject, Moves
  <2> HIDE DEF found
  <2>4. PICK x : x = mine
    OBVIOUS
  <2>5. /\ x \in Run /\ x.op = run[w].op /\ x.invite = run[w].invite /\ x.quiet = run[w].quiet
        /\ x.alone = run[w].alone
    BY <1>2, <2>2, <2>4 DEF Goto, Run
  <2> QED BY <1>0, <1>1, <2>3, <2>4, <2>5, ShapedBy, ShapedGoto
<1>6. CASE SearchProject(w)
  <2>1. HasTarget(w) /\ This(w).name \in Names
    BY <1>0, <1>6, TargetFacts DEF SearchProject
  <2> DEFINE pc == IF In(w, {"push"}) THEN "push" ELSE "members"
  <2> DEFINE todo == IF run[w].invite /\ In(w, {"generate"}) THEN This(w).members ELSE {}
  <2>2. pc \in {"push", "members"} /\ todo \subseteq This(w).members
    OBVIOUS
  <2>3. \/ \E n \in Chosen(This(w).name) : Moves(w, Taking(w, pc, n, todo))
        \/ Moves(w, NextTarget(w))
        \/ In(w, {"push"}) /\ Moves(w, None)
    BY <1>6 DEF SearchProject, Moves, Taking
  <2> HIDE DEF pc, todo
  <2>4. ASSUME NEW n \in Chosen(This(w).name), Moves(w, Taking(w, pc, n, todo)) PROVE Shaped(w)
    <3>1. n \in Names /\ Exists(n)
      BY <1>0, <2>1, ChosenFacts
    <3> QED BY <1>0, <1>1, <2>1, <2>2, <2>4, <3>1, ShapedTaking
  <2> QED BY <1>0, <1>1, <2>3, <2>4, ShapedNext, ShapedEnd DEF MayEnd
<1>7. CASE PushStarter(w)
  <2>1. Moves(w, NextTarget(w)) \/ Moves(w, Goto(w, "setup"))
    BY <1>7 DEF PushStarter, Moves
  <2> QED BY <1>0, <1>1, <2>1, ShapedNext, ShapedGoto
<1>8. CASE SetUp(w)
  <2>1. run[w].pc \in Holding
    BY <1>8 DEF SetUp, At, Holding
  <2>2. This(w).members \subseteq Users
    BY <1>0, <1>1, <2>1, HoldFacts, TargetFacts
  <2>3. PICK x : x = [Goto(w, "members") EXCEPT !.todo = IF run[w].invite THEN This(w).members ELSE {}]
    OBVIOUS
  <2>4. /\ x \in Run /\ x.op = run[w].op /\ x.invite = run[w].invite /\ x.quiet = run[w].quiet
        /\ x.alone = run[w].alone
    BY <1>2, <2>2, <2>3 DEF Goto, Run
  <2>5. Moves(w, x)
    BY <1>8, <2>3 DEF SetUp, Moves
  <2> QED BY <1>1, <2>4, <2>5, ShapedBy
<1>9. CASE SetMember(w)
  <2>1. Moves(w, [run[w] EXCEPT !.pc = "members", !.grant = None])
    BY <1>9 DEF SetMember, Moves
  <2>2. PICK x : x = [run[w] EXCEPT !.pc = "members", !.grant = None]
    OBVIOUS
  <2>3. /\ x \in Run /\ x.op = run[w].op /\ x.invite = run[w].invite /\ x.quiet = run[w].quiet
        /\ x.alone = run[w].alone
    BY <1>2, <2>2 DEF Run
  <2> QED BY <1>1, <2>1, <2>2, <2>3, ShapedBy
<1>10. CASE MembersSet(w) \/ Archive(w) \/ DeleteProject(w)
  <2>1. Moves(w, NextTarget(w))
    BY <1>10 DEF MembersSet, Archive, DeleteProject, Moves
  <2> QED BY <1>0, <1>1, <2>1, ShapedNext
<1>11. CASE GetProject(w)
  <2> DEFINE pc == IF In(w, {"setaccess"}) THEN "members" ELSE IF In(w, {"update"}) THEN "push" ELSE "archive"
  <2> DEFINE todo == IF pc = "members" THEN This(w).members ELSE {}
  <2>1. HasTarget(w) /\ This(w).name \in Names
    BY <1>0, <1>11, TargetFacts DEF GetProject
  <2>2. \/ Exists(This(w).name) /\ Moves(w, Taking(w, pc, This(w).name, todo))
        \/ Moves(w, NextTarget(w))
    BY <1>11 DEF GetProject, Moves, Taking
  <2>3. pc \in {"push", "members", "archive"} /\ todo \subseteq This(w).members
    OBVIOUS
  <2> HIDE DEF pc, todo
  <2> QED BY <1>0, <1>1, <2>1, <2>2, <2>3, ShapedTaking, ShapedNext
<1>12. CASE PushDeferred(w)
  <2>1. run[w].pc \in Holding /\ In(w, {"push"})
    BY <1>12 DEF PushDeferred, At, Holding
  <2>2. p \in Names
    BY <1>0, <1>1, <2>1, HoldFacts
  <2>3. PICK x : x = [NextTarget(w) EXCEPT !.remotes = @ \cup {p}]
    OBVIOUS
  <2>4. NextTarget(w) \in Run /\ Same(w, NextTarget(w))
    BY <1>0, <1>1, SameNext
  <2>5. /\ x \in Run /\ x.op = run[w].op /\ x.invite = run[w].invite /\ x.quiet = run[w].quiet
        /\ x.alone = run[w].alone
    BY <2>2, <2>3, <2>4 DEF Run, Same
  <2>6. Moves(w, x) \/ Moves(w, None)
    BY <1>12, <2>3 DEF PushDeferred, Moves, OnPushError
  <2> QED BY <1>1, <2>1, <2>5, <2>6, ShapedBy, ShapedEnd DEF MayEnd
<1>13. CASE SearchGroup(w)
  <2> DEFINE found(n) == [name |-> n, id |-> projects[n].id]
  <2>1. (\E n \in ToDelete(This(w).name) : Moves(w, [Goto(w, "list") EXCEPT !.found = found(n)])) \/ Moves(w, NextTarget(w))
    BY <1>13 DEF SearchGroup, Moves
  <2>2. ASSUME NEW n \in ToDelete(This(w).name), Moves(w, [Goto(w, "list") EXCEPT !.found = found(n)]) PROVE Shaped(w)
    <3>1. This(w).name \in Names
      BY <1>0, <1>13, TargetFacts DEF SearchGroup
    <3>2. n \in Names /\ Exists(n)
      BY <3>1, RepositoriesAssumption DEF ToDelete, Hits
    <3>3. PICK f : f = found(n)
      OBVIOUS
    <3>4. f \in Found
      BY <1>0, <3>2, <3>3 DEF Found, ProjectsOK, Exists, Project
    <3>5. PICK x : x = [Goto(w, "list") EXCEPT !.found = f]
      OBVIOUS
    <3>6. /\ x \in Run /\ x.op = run[w].op /\ x.invite = run[w].invite /\ x.quiet = run[w].quiet
          /\ x.alone = run[w].alone
      BY <1>2, <3>4, <3>5 DEF Goto, Run
    <3> QED BY <1>1, <2>2, <3>3, <3>5, <3>6, ShapedBy
  <2> QED BY <1>0, <1>1, <2>1, <2>2, ShapedNext
<1>14. CASE ListImages(w)
  <2>1. \/ There(w) /\ Moves(w, [Goto(w, "images") EXCEPT !.images = projects[p].images])
        \/ Moves(w, Goto(w, "delete"))
        \/ Moves(w, NextTarget(w))
    BY <1>14 DEF ListImages, Moves
  <2>2. ASSUME There(w), Moves(w, [Goto(w, "images") EXCEPT !.images = projects[p].images]) PROVE Shaped(w)
    <3>1. projects[p] \in Project
      BY <1>0, <1>1, <1>14, <2>2, HoldFacts DEF ListImages, At, Holding
    <3>2. PICK count \in Nat : count = projects[p].images
      BY <3>1 DEF Project
    <3>3. PICK x : x = [Goto(w, "images") EXCEPT !.images = count]
      OBVIOUS
    <3>4. /\ x \in Run /\ x.op = run[w].op /\ x.invite = run[w].invite /\ x.quiet = run[w].quiet
          /\ x.alone = run[w].alone
      BY <1>2, <3>2, <3>3 DEF Goto, Run
    <3> QED BY <1>1, <2>2, <3>2, <3>3, <3>4, ShapedBy
  <2> QED BY <1>0, <1>1, <2>1, <2>2, ShapedNext, ShapedGoto
<1>15. CASE DeleteImage(w)
  <2>1. \/ run[w].images > 0 /\ Moves(w, [run[w] EXCEPT !.images = @ - 1])
        \/ Moves(w, Goto(w, "delete"))
        \/ Moves(w, NextTarget(w))
    BY <1>15 DEF DeleteImage, Moves
  <2>2. ASSUME run[w].images > 0, Moves(w, [run[w] EXCEPT !.images = @ - 1]) PROVE Shaped(w)
    <3>1. run[w].images \in Nat
      BY <1>2 DEF Run
    <3>2. PICK count \in Nat : count = run[w].images - 1
      BY <2>2, <3>1
    <3>3. PICK x : x = [run[w] EXCEPT !.images = count]
      OBVIOUS
    <3>4. /\ x \in Run /\ x.op = run[w].op /\ x.invite = run[w].invite /\ x.quiet = run[w].quiet
          /\ x.alone = run[w].alone
      BY <1>2, <3>2, <3>3 DEF Run
    <3> QED BY <1>1, <2>2, <3>2, <3>3, <3>4, ShapedBy
  <2> QED BY <1>0, <1>1, <2>1, <2>2, ShapedNext, ShapedGoto
<1>16. CASE FindUser(w)
  <2>1. PICK m \in run[w].todo :
          \/ Moves(w, [run[w] EXCEPT !.todo = @ \ {m}])
          \/ \E u \in Single(m) \cup Invited(m), byMail \in BOOLEAN :
               Moves(w, [[run[w] EXCEPT !.todo = @ \ {m}] EXCEPT !.pc = "member",
                                                                 !.grant = [who |-> u, byMail |-> byMail]])
    BY <1>16 DEF FindUser, Moves
  <2>2. m \in Users /\ Single(m) \cup Invited(m) \subseteq Users
    BY <1>2, RepositoriesAssumption DEF Run, Single, Invited
  <2>3. PICK rest : rest = [run[w] EXCEPT !.todo = @ \ {m}]
    OBVIOUS
  <2>4. /\ rest \in Run /\ rest.op = run[w].op /\ rest.invite = run[w].invite /\ rest.quiet = run[w].quiet
        /\ rest.alone = run[w].alone
    BY <1>2, <2>3 DEF Run
  <2>5. CASE Moves(w, rest)
    BY <1>1, <2>4, <2>5, ShapedBy
  <2>6. ASSUME NEW u \in Single(m) \cup Invited(m), NEW byMail \in BOOLEAN,
               Moves(w, [rest EXCEPT !.pc = "member", !.grant = [who |-> u, byMail |-> byMail]])
        PROVE  Shaped(w)
    <3>1. PICK grant : grant = [who |-> u, byMail |-> byMail]
      OBVIOUS
    <3>2. grant \in Grant
      BY <2>2, <3>1 DEF Grant
    <3>3. PICK x : x = [rest EXCEPT !.pc = "member", !.grant = grant]
      OBVIOUS
    <3>4. /\ x \in Run /\ x.op = run[w].op /\ x.invite = run[w].invite /\ x.quiet = run[w].quiet
          /\ x.alone = run[w].alone
      BY <2>4, <3>2, <3>3 DEF Run
    <3> QED BY <1>1, <2>6, <3>1, <3>3, <3>4, ShapedBy
  <2> QED BY <1>1, <2>1, <2>3, <2>5, <2>6
<1> QED BY <1>1, <1>3, <1>4, <1>5, <1>6, <1>7, <1>8, <1>9, <1>10, <1>11, <1>12, <1>13, <1>14, <1>15, <1>16 DEF Step

\* After a step an operation is clean only if it was, and the call did not fail.
LEMMA CleanAfter ==
  ASSUME IInv, NEW w \in Workers, Step(w), NEW v \in Workers, run'[v] # None, run'[v].quiet, run'[v].alone
  PROVE  v = w /\ Clean(w) /\ GoesOn(w)
<1>0. StateOK /\ RunsOK
  BY Parts
<1>1. PICK x : Moves(w, x) /\ (x # None => x \in Run /\ Same(w, x))
  BY Shapes DEF Shaped
<1>2. run[w] # None
  BY Shapes
<1>3. \/ run'[w] = x /\ UNCHANGED faults
      \/ run'[w] = None
      \/ x # None /\ run'[w] = [x EXCEPT !.quiet = FALSE]
  BY <1>0, <1>1 DEF Moves, Becomes, Fault, RunsOK
<1>4. \A u \in Workers : u # w => run'[u] = run[u]
  BY <1>0, <1>1 DEF Moves, Becomes, Fault, RunsOK
<1>5. v = w
  BY <1>0, <1>2, <1>4 DEF RunsOK
<1>6. x # None => [x EXCEPT !.quiet = FALSE].quiet = FALSE
  BY <1>1 DEF Run
<1>7. run'[w] = x /\ UNCHANGED faults
  BY <1>3, <1>5, <1>6
<1> QED BY <1>1, <1>2, <1>5, <1>7 DEF Clean, GoesOn, Same

\* The deferred branch is never another.
LEMMA ProgressAfter ==
  ASSUME deferred' = deferred, NEW w, Progress(run'[w], targets', projects', astray', late')
  PROVE  Progress(run[w], targets, projects, astray, late)'
BY DEF Progress, Settled

LEMMA CleanStep ==
  ASSUME IInv, OwnersStay, NEW w \in Workers, Going(w), GoesOn(w), run[w].alone, Step(w)
  PROVE  Progress(run[w], targets, projects, astray, late)'
<1>0. StateOK /\ RunsOK
  BY Parts
<1>1. ~Done(w)
  BY <1>0, GoesOnAs DEF Done, Moves
<1>2. Progress(run'[w], targets, projects', astray', late)
  BY <1>1, CleanFindGroup, CleanCreateProject, CleanSearchProject, CleanPushStarter, CleanSetUp, CleanFindUser,
     CleanSetMember, CleanMembersSet, CleanGetProject, CleanArchive, CleanPushDeferred, CleanSearchGroup, CleanListImages,
     CleanDeleteImage, CleanDeleteProject DEF Step
<1>3. Fixed => targets' = targets /\ deferred' = deferred /\ late' = late
  BY DEF Fixed, GoesOn
<1>4. CreateProject(w) => targets' = targets /\ deferred' = deferred /\ late' = late
  BY DEF CreateProject
<1>5. targets' = targets /\ deferred' = deferred /\ late' = late
  BY <1>3, <1>4 DEF Step, FindGroup, Done, SearchProject, PushStarter, SetUp, FindUser, SetMember, MembersSet,
     GetProject, Archive, PushDeferred, SearchGroup, ListImages, DeleteImage, DeleteProject
<1> QED BY <1>2, <1>5, ProgressAfter

----------------------------------------------------------------------------
(* What any step does to a project *)

OwnersFit(project) ==
  \A u \in Users : /\ project.level[u] = "owner" <=> u \in Owners
                   /\ project.level[u] = "inherited" => u \in Inheriting

\* Owners stay, and what was set up stays so.
Kept(n) == projects'[n] # None =>
  /\ OwnersFit(projects'[n])
  /\ projects'[n].setup \/ (Exists(n) /\ ~projects[n].setup)

LEMMA PutKeeps ==
  ASSUME ProjectsOK, OwnersStay, NEW m \in Names, NEW q, Put(m, q),
         q # None => OwnersFit(q) /\ (q.setup \/ (Exists(m) /\ ~projects[m].setup))
  PROVE  \A n \in Names : Kept(n)
<1>1. projects'[m] = q /\ \A n \in Names : n # m => projects'[n] = projects[n]
  BY DEF ProjectsOK, Put
<1>2. \A n \in Names : Exists(n) => OwnersFit(projects[n]) /\ projects[n].setup \in BOOLEAN
  BY DEF OwnersStay, OwnersFit, ProjectsOK, Exists, Project
<1> QED BY <1>1, <1>2 DEF Kept, Exists

LEMMA SameKeeps == ASSUME ProjectsOK, OwnersStay, UNCHANGED projects PROVE \A n \in Names : Kept(n)
<1>1. \A n \in Names : Exists(n) => OwnersFit(projects[n]) /\ projects[n].setup \in BOOLEAN
  BY DEF OwnersStay, OwnersFit, ProjectsOK, Exists, Project
<1> QED BY <1>1 DEF Kept, Exists

\* An edit that leaves the members alone.
LEMMA EditKeeps ==
  ASSUME ProjectsOK, OwnersStay, NEW m \in Names, Exists(m), NEW q, Put(m, q),
         q.level = projects[m].level, q.setup \in {projects[m].setup, TRUE}
  PROVE  \A n \in Names : Kept(n)
<1>1. OwnersFit(projects[m]) /\ projects[m].setup \in BOOLEAN
  BY DEF OwnersStay, OwnersFit, ProjectsOK, Exists, Project
<1>2. OwnersFit(q) /\ (q.setup \/ ~projects[m].setup)
  BY <1>1 DEF OwnersFit
<1> QED BY <1>2, PutKeeps

LEMMA StepKeepsProjects ==
  ASSUME IInv, OwnersStay, NEW w \in Workers, Step(w), ~CreateProject(w) PROVE \A n \in Names : Kept(n)
<1>0. StateOK /\ ProjectsOK /\ RunsOK
  BY Parts
<1> DEFINE p == run[w].found.name
<1>1. run[w] # None
  BY Shapes
<1>2. CASE UNCHANGED projects
  BY <1>0, <1>2, SameKeeps
<1>3. ASSUME run[w].pc \in Holding, There(w) PROVE p \in Names /\ Exists(p) /\ projects[p] \in Project
  BY <1>0, <1>1, <1>3, HoldFacts DEF There
<1>4. CASE SetMember(w)
  <2> DEFINE u == run[w].grant.who
  <2>1. run[w].pc = "member" /\ run[w].pc \in Holding
    BY <1>4 DEF SetMember, At, Holding
  <2>2. u \in Users /\ run[w].grant.byMail \in BOOLEAN
    BY <1>0, <1>1, <2>1, HoldFacts DEF Run, Grant
  <2> HIDE DEF u
  <2>3. UNCHANGED projects \/ (There(w) /\ \E new \in LevelsSet(projects[p].level[u], run[w].grant.byMail) :
                                            Put(p, [projects[p] EXCEPT !.level[u] = new]))
    BY <1>4 DEF SetMember, u
  <2>4. ASSUME There(w), NEW new \in LevelsSet(projects[p].level[u], run[w].grant.byMail),
               Put(p, [projects[p] EXCEPT !.level[u] = new])
        PROVE  \A n \in Names : Kept(n)
    <3>1. p \in Names /\ Exists(p) /\ projects[p] \in Project /\ projects[p].level \in [Users -> Levels]
      BY <1>3, <2>1, <2>4 DEF Project
    <3>2. PICK level : level = [projects[p].level EXCEPT ![u] = new]
      OBVIOUS
    <3>3. PICK q : q = [projects[p] EXCEPT !.level = level]
      OBVIOUS
    <3>4. OwnersFit(projects[p]) /\ projects[p].setup \in BOOLEAN
      BY <3>1 DEF OwnersFit, OwnersStay, Project
    <3>5. q.level = level /\ q.setup = projects[p].setup
      BY <3>1, <3>3 DEF Project
    <3>6. /\ level[u] = new /\ \A v \in Users : v # u => level[v] = projects[p].level[v]
          /\ projects[p].level[u] \in Levels
      BY <2>2, <3>1, <3>2
    <3>7. /\ projects[p].level[u] = "owner" => new = "owner"
          /\ new \in {"owner", "inherited"} => projects[p].level[u] = new
      BY <2>2, <2>4, <3>6, LevelsSetFacts
    <3>8. OwnersFit(q)
      BY <3>4, <3>5, <3>6, <3>7 DEF OwnersFit
    <3>9. Put(p, q)
      BY <2>4, <3>1, <3>2, <3>3 DEF Project
    <3> QED BY <1>0, <3>1, <3>4, <3>5, <3>8, <3>9, PutKeeps
  <2> QED BY <1>2, <2>3, <2>4
<1>5. ASSUME run[w].pc \in Holding, There(w), NEW q, Put(p, q),
             projects[p] \in Project => q.level = projects[p].level /\ q.setup \in {projects[p].setup, TRUE}
      PROVE  \A n \in Names : Kept(n)
  <2>1. p \in Names /\ Exists(p) /\ projects[p] \in Project
    BY <1>3, <1>5
  <2> QED BY <1>0, <1>5, <2>1, EditKeeps
<1>6. CASE PushStarter(w)
  <2>1. CASE There(w) /\ Put(p, [projects[p] EXCEPT !.branch[Main] = Pushed("starter")])
    <3>1. PICK q : q = [projects[p] EXCEPT !.branch[Main] = Pushed("starter")]
      OBVIOUS
    <3>2. projects[p] \in Project => q.level = projects[p].level /\ q.setup \in {projects[p].setup, TRUE}
      BY <3>1, PushedBranch, RepositoriesAssumption
    <3> QED BY <1>5, <1>6, <2>1, <3>1, <3>2 DEF PushStarter, At, Holding
  <2> QED BY <1>2, <1>6, <2>1 DEF PushStarter
<1>7. CASE SetUp(w)
  <2>1. CASE There(w) /\ Put(p, [projects[p] EXCEPT !.setup = TRUE])
    <3>1. PICK q : q = [projects[p] EXCEPT !.setup = TRUE]
      OBVIOUS
    <3>2. projects[p] \in Project => q.level = projects[p].level /\ q.setup \in {projects[p].setup, TRUE}
      BY <3>1 DEF Project
    <3> QED BY <1>5, <1>7, <2>1, <3>1, <3>2 DEF SetUp, At, Holding
  <2> QED BY <1>2, <1>7, <2>1 DEF SetUp
<1>8. CASE Archive(w)
  <2>1. CASE There(w) /\ Put(p, [projects[p] EXCEPT !.archived = In(w, {"archive"})])
    <3>1. PICK q : q = [projects[p] EXCEPT !.archived = In(w, {"archive"})]
      OBVIOUS
    <3>2. projects[p] \in Project => q.level = projects[p].level /\ q.setup \in {projects[p].setup, TRUE}
      BY <3>1 DEF Project
    <3> QED BY <1>5, <1>8, <2>1, <3>1, <3>2 DEF Archive, At, Holding
  <2> QED BY <1>2, <1>8, <2>1 DEF Archive
<1>9. CASE PushDeferred(w)
  <2>1. CASE There(w) /\ Put(p, [projects[p] EXCEPT !.branch[deferred.to] = Pushed("deferred")])
    <3>1. PICK q : q = [projects[p] EXCEPT !.branch[deferred.to] = Pushed("deferred")]
      OBVIOUS
    <3>2. projects[p] \in Project => q.level = projects[p].level /\ q.setup \in {projects[p].setup, TRUE}
      BY <1>0, <3>1, PushedBranch, DeferredFits
    <3> QED BY <1>5, <1>9, <2>1, <3>1, <3>2 DEF PushDeferred, At, Holding
  <2> QED BY <1>2, <1>9, <2>1 DEF PushDeferred
<1>10. CASE DeleteImage(w)
  <2>1. CASE There(w) /\ Put(p, [projects[p] EXCEPT !.images = @ - 1])
    <3>1. PICK q : q = [projects[p] EXCEPT !.images = @ - 1]
      OBVIOUS
    <3>2. projects[p] \in Project => q.level = projects[p].level /\ q.setup \in {projects[p].setup, TRUE}
      BY <3>1 DEF Project
    <3> QED BY <1>5, <1>10, <2>1, <3>1, <3>2 DEF DeleteImage, At, Holding
  <2> QED BY <1>2, <1>10, <2>1 DEF DeleteImage
<1>11. CASE DeleteProject(w)
  <2>1. CASE There(w) /\ Put(p, None)
    <3>1. p \in Names
      BY <1>3, <1>11, <2>1 DEF DeleteProject, At, Holding
    <3> QED BY <1>0, <2>1, <3>1, PutKeeps
  <2> QED BY <1>2, <1>11, <2>1 DEF DeleteProject
<1>12. CASE FindGroup(w) \/ Done(w) \/ SearchProject(w) \/ FindUser(w) \/ MembersSet(w) \/ GetProject(w)
            \/ SearchGroup(w) \/ ListImages(w)
  BY <1>2, <1>12 DEF FindGroup, Done, SearchProject, FindUser, MembersSet, GetProject, SearchGroup, ListImages
<1> QED BY <1>4, <1>6, <1>7, <1>8, <1>9, <1>10, <1>11, <1>12 DEF Step

\* A project that is created belongs to its owners, and is not set up.
LEMMA CreateKeeps ==
  ASSUME IInv, OwnersStay, NEW w \in Workers, CreateProject(w), NEW n \in Names
  PROVE  Kept(n) \/ (n = This(w).name /\ ~Exists(n) /\ projects'[n] # None /\ OwnersFit(projects'[n]))
<1>0. StateOK /\ ProjectsOK /\ RunsOK
  BY Parts
<1>1. CASE UNCHANGED projects
  BY <1>0, <1>1, SameKeeps
<1>2. CASE ~Exists(This(w).name) /\ Put(This(w).name, Project0(ids + 1))
  <2>1. This(w).name \in Names
    BY <1>0, TargetFacts DEF CreateProject
  <2>2. projects'[This(w).name] = Project0(ids + 1) /\ \A m \in Names : m # This(w).name => projects'[m] = projects[m]
    BY <1>0, <1>2, <2>1 DEF ProjectsOK, Put
  <2>3. Project0(ids + 1) \in Project /\ OwnersFit(Project0(ids + 1))
    <3>1. Project0(ids + 1) \in Project
      BY <1>0, FreshProject DEF StateOK
    <3>2. \A u \in Users : Project0(ids + 1).level[u] = LevelBefore(u)
      BY DEF Project0
    <3> QED BY <3>1, <3>2 DEF OwnersFit, LevelBefore
  <2>4. CASE n = This(w).name
    BY <1>2, <2>2, <2>3, <2>4, RepositoriesNone
  <2>5. CASE n # This(w).name
    <3>1. Exists(n) => OwnersFit(projects[n]) /\ projects[n].setup \in BOOLEAN
      BY <1>0 DEF OwnersStay, OwnersFit, ProjectsOK, Exists, Project
    <3> QED BY <2>2, <2>5, <3>1 DEF Kept, Exists
  <2> QED BY <2>4, <2>5
<1> QED BY <1>1, <1>2 DEF CreateProject

----------------------------------------------------------------------------
(* QuietInv is inductive *)

LEMMA FaultsCount ==
  ASSUME StateOK, NEW w, NEW x, Moves(w, x), faults' = 0 PROVE faults = 0 /\ faults' = faults
<1>1. faults \in Nat
  BY RepositoriesAssumption DEF StateOK
<1> QED BY <1>1 DEF Moves, Becomes, Fault

LEMMA StepSetsUp == ASSUME IInv, QuietInv, NEW w \in Workers, Step(w) PROVE FirstSetsUp'
<1>0. StateOK /\ ProjectsOK /\ RunsOK /\ FreshOK /\ OwnersStay
  BY Parts DEF QuietInv
<1> SUFFICES ASSUME faults' = 0, ops' <= 1
    PROVE  /\ ops' = 0 => \A v \in Workers : run'[v] = None
           /\ \A v \in Workers : run'[v] # None => run'[v].quiet /\ run'[v].alone
           /\ \A n \in Names : projects'[n] # None /\ ~projects'[n].setup =>
                \E v \in Workers : /\ run'[v] # None /\ run'[v].op = "generate" /\ run'[v].pc \in {"push", "setup"}
                                   /\ run'[v].found.name = n
  BY Zenon DEF FirstSetsUp, Exists
<1>1. PICK x : /\ Moves(w, x) /\ (x # None => x \in Run /\ Same(w, x)) /\ (x = None => MayEnd(w))
               /\ run[w] # None
  BY Shapes DEF Shaped
<1>2. faults = 0 /\ faults' = faults
  BY <1>0, <1>1, FaultsCount
<1>3. Becomes(w, x)
  BY <1>0, <1>1, <1>2, NoFault DEF Moves
<1>4. run'[w] = x /\ \A v \in Workers : v # w => run'[v] = run[v]
  BY <1>0, <1>3 DEF Becomes, RunsOK
<1>5. ops' = ops
  BY DEF Step, FindGroup, Done, CreateProject, SearchProject, PushStarter, SetUp, FindUser, SetMember, MembersSet,
         GetProject, Archive, PushDeferred, SearchGroup, ListImages, DeleteImage, DeleteProject, Fixed
<1>6. /\ ops = 0 => \A v \in Workers : run[v] = None
      /\ \A v \in Workers : run[v] # None => run[v].quiet /\ run[v].alone
      /\ \A n \in Names : Exists(n) /\ ~projects[n].setup =>
           \E v \in Workers : /\ run[v] # None /\ run[v].op = "generate" /\ run[v].pc \in {"push", "setup"}
                              /\ run[v].found.name = n
  BY <1>2, <1>5, Zenon DEF QuietInv, FirstSetsUp
<1>7. ops' # 0
  BY <1>1, <1>5, <1>6
<1>8. \A v \in Workers : run[v] # None => v = w
  BY <1>0, <1>1, <1>6 DEF RunsOK
<1>9. Going(w)
  BY <1>1, <1>6 DEF QuietInv, CleanOK, Clean, Going
<1>10. \A v \in Workers : run'[v] # None => run'[v].quiet /\ run'[v].alone
  BY <1>1, <1>4, <1>6, <1>8 DEF Same
<1>11. ASSUME NEW n \in Names, projects'[n] # None, ~projects'[n].setup
       PROVE  run'[w] # None /\ run'[w].op = "generate" /\ run'[w].pc \in {"push", "setup"} /\ run'[w].found.name = n
  <2>1. CASE CreateProject(w) /\ n = This(w).name /\ ~Exists(n)
    <3>1. run[w].op = "generate"
      BY <2>1 DEF CreateProject, In
    <3>2. Same(w, run'[w]) /\ run'[w].pc = "push" /\ run'[w].found.name = n
      BY <1>0, <1>2, <2>1, Created
    <3> QED BY <3>1, <3>2 DEF Same
  <2>2. CASE Kept(n)
    <3>1. Exists(n) /\ ~projects[n].setup
      BY <1>11, <2>2 DEF Kept
    <3>2. run[w].op = "generate" /\ run[w].pc \in {"push", "setup"} /\ run[w].found.name = n
      BY <1>6, <1>8, <3>1
    <3>3. PushStarter(w) \/ SetUp(w)
      BY <3>2 DEF Step, FindGroup, Done, CreateProject, SearchProject, FindUser, SetMember, MembersSet, GetProject,
         Archive, PushDeferred, SearchGroup, ListImages, DeleteImage, DeleteProject, At, In
    <3>4. ~SetUp(w)
      <4>1. ASSUME SetUp(w) PROVE Put(n, [projects[n] EXCEPT !.setup = TRUE])
        BY <1>0, <1>2, <1>9, <3>2, <4>1, SetUpMade
      <4>2. PICK q : q = [projects[n] EXCEPT !.setup = TRUE]
        OBVIOUS
      <4>3. q.setup = TRUE
        BY <1>0, <3>1, <4>2 DEF ProjectsOK, Exists, Project
      <4>4. Put(n, q) => projects'[n] = q
        BY <1>0 DEF ProjectsOK, Put
      <4> QED BY <1>11, <4>1, <4>2, <4>3, <4>4
    <3>5. Moves(w, Goto(w, "setup"))
      BY <1>0, <1>1, <1>2, <1>6, <1>9, <3>2, <3>3, <3>4, StarterPushed
    <3>6. PICK y : y = Goto(w, "setup")
      OBVIOUS
    <3>7. y # None /\ y.op = "generate" /\ y.pc = "setup" /\ y.found = run[w].found
      BY <1>0, <1>1, <3>2, <3>6, SameGoto DEF Same
    <3>8. run'[w] = y
      <4>1. Becomes(w, y)
        BY <1>0, <1>2, <3>5, <3>6, NoFault DEF Moves
      <4> QED BY <1>0, <4>1 DEF Becomes, RunsOK
    <3> QED BY <3>2, <3>7, <3>8
  <2> QED BY <1>0, <2>1, <2>2, CreateKeeps, StepKeepsProjects
<1> QED BY <1>7, <1>10, <1>11

LEMMA StepQuiet == ASSUME IInv, QuietInv, NEW w \in Workers, Step(w) PROVE QuietInv'
<1>1. OwnersStay
  BY DEF QuietInv
<1>2. \A n \in Names : projects'[n] # None => OwnersFit(projects'[n])
  <2>1. CASE CreateProject(w)
    BY <1>1, <2>1, CreateKeeps DEF Kept
  <2>2. CASE ~CreateProject(w)
    BY <1>1, <2>2, StepKeepsProjects DEF Kept
  <2> QED BY <2>1, <2>2
<1>3. OwnersStay'
  BY <1>2 DEF OwnersStay, OwnersFit, Exists
<1>4. CleanOK'
  <2> SUFFICES ASSUME NEW v \in Workers, run'[v] # None, run'[v].quiet, run'[v].alone
               PROVE  Progress(run[v], targets, projects, astray, late)'
    BY DEF CleanOK, Clean
  <2>1. v = w /\ Clean(w) /\ GoesOn(w)
    BY CleanAfter
  <2>2. Going(w) /\ run[w].alone
    BY <2>1 DEF QuietInv, CleanOK, Clean, Going
  <2> QED BY <1>1, <2>1, <2>2, CleanStep
<1> QED BY <1>3, <1>4, StepSetsUp DEF QuietInv

\* A new operation has done nothing yet, and another one is no longer alone.
LEMMA StartQuiet ==
  ASSUME IInv, QuietInv, NEW w \in Workers, NEW op \in Ops, NEW invite \in BOOLEAN, Start(w, op, invite)
  PROVE  QuietInv'
<1>0. StateOK /\ ProjectsOK /\ RunsOK
  BY Parts
<1> DEFINE x == [op |-> op, invite |-> invite, pc |-> IF op = "push" THEN "target" ELSE "group", t |-> 1,
                 found |-> None, mine |-> FALSE, todo |-> {}, grant |-> None, images |-> 0, remotes |-> {},
                 quiet |-> TRUE, alone |-> Active = {}]
<1>1. /\ ops' = ops + 1 /\ run[w] = None
      /\ run' = [v \in Workers |-> IF v = w THEN x ELSE IF run[v] = None THEN None ELSE [run[v] EXCEPT !.alone = FALSE]]
      /\ UNCHANGED <<targets, deferred, projects, faults, astray, late>>
  BY DEF Start
<1>2. /\ x.pc = "group" => x.op # "push"
      /\ x.pc \in {"group", "target"} /\ x.t = 1 /\ x.found = None /\ x.quiet = TRUE /\ x.alone = (Active = {})
  OBVIOUS
<1> HIDE DEF x
<1>3. run'[w] = x
  BY <1>1
<1>4. ASSUME NEW v \in Workers, v # w, run'[v] # None PROVE run[v] # None /\ run'[v].alone = FALSE
  <2>1. run[v] # None /\ run'[v] = [run[v] EXCEPT !.alone = FALSE]
    BY <1>1, <1>4
  <2>2. run[v] \in Run
    BY <1>0, <2>1 DEF RunsOK
  <2> QED BY <2>1, <2>2 DEF Run
<1>5. OwnersStay'
  BY <1>1 DEF QuietInv, OwnersStay, Exists
<1>6. Progress(x, targets, projects, astray, late)
  <2>1. \A k \in DOMAIN targets : ~(k < x.t)
    <3>1. targets \in Seq(Target)
      BY <1>0, RepositoriesAssumption, Zenon DEF StateOK
    <3> QED BY <1>2, <3>1
  <2>2. Fits(x)
    BY <1>2 DEF Fits
  <2>3. \A target : AtHand(x, target, projects, late)
    BY <1>2 DEF AtHand
  <2> QED BY <2>1, <2>2, <2>3 DEF Progress
<1>7. CleanOK'
  <2> SUFFICES ASSUME NEW v \in Workers, run'[v] # None, run'[v].quiet, run'[v].alone
               PROVE  Progress(run[v], targets, projects, astray, late)'
    BY DEF CleanOK, Clean
  <2>1. v = w
    BY <1>4
  <2> QED BY <1>1, <1>3, <1>6, <2>1, ProgressAfter
<1>8. FirstSetsUp'
  <2> SUFFICES ASSUME faults' = 0, ops' <= 1
      PROVE  /\ ops' # 0
             /\ \A v \in Workers : run'[v] # None => run'[v].quiet /\ run'[v].alone
             /\ \A n \in Names : projects'[n] # None => projects'[n].setup
    BY Zenon DEF FirstSetsUp, Exists
  <2>1. ops = 0 /\ faults = 0
    BY <1>0, <1>1, RepositoriesAssumption DEF StateOK
  <2>2. (\A v \in Workers : run[v] = None) /\ \A n \in Names : Exists(n) => projects[n].setup
    BY <2>1 DEF QuietInv, FirstSetsUp
  <2>3. Active = {}
    BY <2>2 DEF Active
  <2>4. \A v \in Workers : run'[v] # None => v = w
    BY <1>4, <2>2
  <2>5. ops' # 0
    BY <1>1, <2>1
  <2>6. run'[w].quiet /\ run'[w].alone
    BY <1>2, <1>3, <2>3
  <2>7. \A n \in Names : projects'[n] # None => projects'[n].setup
    BY <1>1, <2>2 DEF Exists
  <2> QED BY <2>4, <2>5, <2>6, <2>7
<1> QED BY <1>5, <1>7, <1>8 DEF QuietInv

\* What students and pipelines do beside an operation.
Alike(n) ==
  /\ projects'[n] = None <=> projects[n] = None
  /\ projects[n] # None =>
       /\ projects'[n].id = projects[n].id /\ projects'[n].level = projects[n].level
       /\ \A b \in Branches : projects'[n].branch[b].base = projects[n].branch[b].base
       /\ projects'[n].setup = projects[n].setup /\ projects'[n].archived = projects[n].archived

LEMMA BesideQuiet ==
  ASSUME IInv, QuietInv, UNCHANGED <<targets, deferred, run, ops, faults, astray>>, late \subseteq late',
         \A n \in Names : Alike(n),
         \A n \in Names : \/ projects'[n] # None => projects'[n].images = projects[n].images
                          \/ n \in late'
                          \/ \A w \in Workers : ~In(w, {"delete"})
  PROVE  QuietInv'
<1>0. StateOK /\ ProjectsOK /\ RunsOK
  BY Parts
<1>1. OwnersStay'
  BY DEF QuietInv, OwnersStay, Exists, Alike
<1>2. FirstSetsUp'
  BY DEF QuietInv, FirstSetsUp, Exists, Alike
<1>3. ASSUME NEW n \in Names, NEW some, NEW grant
      PROVE  projects[n] # None /\ AllSet(projects[n], some, grant) => AllSet(projects'[n], some, grant)
  BY DEF Alike, AllSet, IsSet
<1>4. ASSUME NEW w \in Workers, Clean(w) PROVE Progress(run[w], targets, projects', astray, late')
  <2>1. /\ Fits(run[w])
        /\ \A j \in DOMAIN targets : j < run[w].t => Settled(run[w], targets[j], projects, astray, late)
        /\ run[w].t \in DOMAIN targets => AtHand(run[w], targets[run[w].t], projects, late)
    BY <1>4, Zenon DEF QuietInv, CleanOK, Progress
  <2>2. ASSUME NEW j \in DOMAIN targets, Settled(run[w], targets[j], projects, astray, late)
        PROVE  Settled(run[w], targets[j], projects', astray, late')
    <3>1. targets[j].name \in Names
      BY <1>0, ListFacts
    <3>2. Alike(targets[j].name)
      BY <3>1
    <3>3. deferred.to \in Branches
      BY <1>0, DeferredFits
    <3> QED BY <1>3, <2>2, <3>1, <3>2, <3>3 DEF Settled, Alike
  <2>3. ASSUME NEW j \in DOMAIN targets, j = run[w].t, AtHand(run[w], targets[j], projects, late)
        PROVE  AtHand(run[w], targets[j], projects', late')
    <3>1. targets[j].name \in Names /\ Alike(targets[j].name)
      BY <1>0, ListFacts
    <3>2. CASE run[w].found = None
      BY <2>3, <3>1, <3>2 DEF AtHand, Alike
    <3>3. CASE run[w].found # None
      <4> DEFINE p == run[w].found.name
      <4>1. p \in Names /\ (run[w].pc \in {"images", "delete"} => run[w].op = "delete")
        BY <1>0, <1>4, <3>3 DEF Clean, RunsOK, Good, Run, Found
      <4>2. Alike(p) /\ projects[p] # None
        BY <2>3, <3>3, <4>1 DEF AtHand
      <4>3. run[w].pc \in {"images", "delete"} => projects'[p].images = projects[p].images \/ p \in late'
        BY <1>4, <4>1, <4>2 DEF In, Clean, Alike
      <4> QED BY <1>3, <2>3, <3>1, <3>3, <4>1, <4>2, <4>3 DEF AtHand, Alike
    <3> QED BY <3>2, <3>3
  <2> QED BY <2>1, <2>2, <2>3 DEF Progress
<1>5. CleanOK'
  <2> SUFFICES ASSUME NEW v \in Workers, run'[v] # None, run'[v].quiet, run'[v].alone
               PROVE  Progress(run[v], targets, projects, astray, late)'
    BY DEF CleanOK, Clean
  <2> QED BY <1>4, ProgressAfter DEF Clean
<1> QED BY <1>1, <1>2, <1>5 DEF QuietInv

LEMMA CommitQuiet == ASSUME IInv, QuietInv, NEW p \in Names, NEW b \in Branches, Commit(p, b) PROVE QuietInv'
<1>0. ProjectsOK
  BY Parts
<1>1. projects[p] \in Project /\ Put(p, [projects[p] EXCEPT !.branch[b].work = TRUE])
      /\ UNCHANGED <<targets, deferred, run, ops, faults, astray, late>>
  BY <1>0 DEF Commit, ProjectsOK, Exists
<1>2. PICK branch : branch = [projects[p].branch EXCEPT ![b].work = TRUE]
  OBVIOUS
<1>3. branch \in [Branches -> Content] /\ \A c \in Branches : branch[c].base = projects[p].branch[c].base
  <2>1. projects[p].branch \in [Branches -> Content]
    BY <1>1 DEF Project
  <2>2. PICK content : content = [projects[p].branch[b] EXCEPT !.work = TRUE]
    OBVIOUS
  <2>3. content \in Content /\ content.base = projects[p].branch[b].base
    BY <2>1, <2>2 DEF Content
  <2>4. branch = [projects[p].branch EXCEPT ![b] = content]
    BY <1>2, <2>1, <2>2
  <2> QED BY <2>1, <2>3, <2>4
<1>4. PICK q : q = [projects[p] EXCEPT !.branch = branch]
  OBVIOUS
<1>5. /\ q \in Project /\ q.id = projects[p].id /\ q.level = projects[p].level /\ q.branch = branch
      /\ q.setup = projects[p].setup /\ q.archived = projects[p].archived /\ q.images = projects[p].images
  BY <1>1, <1>3, <1>4 DEF Project
<1>6. Put(p, q)
  BY <1>1, <1>2, <1>4 DEF Project
<1>7. projects'[p] = q /\ \A n \in Names : n # p => projects'[n] = projects[n]
  BY <1>0, <1>6 DEF ProjectsOK, Put
<1>8. \A n \in Names : Alike(n) /\ projects'[n].images = projects[n].images
  BY <1>1, <1>3, <1>5, <1>7, RepositoriesNone DEF Alike
<1> QED BY <1>1, <1>8, BesideQuiet

LEMMA PushImageQuiet == ASSUME IInv, QuietInv, NEW p \in Names, PushImage(p) PROVE QuietInv'
<1>0. ProjectsOK
  BY Parts
<1>1. /\ projects[p] \in Project /\ Put(p, [projects[p] EXCEPT !.images = @ + 1])
      /\ UNCHANGED <<targets, deferred, run, ops, faults, astray>>
      /\ late' = IF \E w \in Workers : In(w, {"delete"}) THEN late \cup {p} ELSE late
  BY <1>0 DEF PushImage, ProjectsOK, Exists
<1>2. PICK q : q = [projects[p] EXCEPT !.images = @ + 1]
  OBVIOUS
<1>3. /\ q \in Project /\ q.id = projects[p].id /\ q.level = projects[p].level /\ q.branch = projects[p].branch
      /\ q.setup = projects[p].setup /\ q.archived = projects[p].archived
  BY <1>1, <1>2 DEF Project
<1>4. projects'[p] = q /\ \A n \in Names : n # p => projects'[n] = projects[n]
  BY <1>0, <1>1, <1>2 DEF ProjectsOK, Put
<1>5. \A n \in Names : Alike(n) /\ (n # p => projects'[n].images = projects[n].images)
  BY <1>1, <1>3, <1>4, RepositoriesNone DEF Alike
<1>6. late \subseteq late' /\ (p \in late' \/ \A w \in Workers : ~In(w, {"delete"}))
  BY <1>1
<1> QED BY <1>1, <1>5, <1>6, BesideQuiet

LEMMA InitQuiet == Init => QuietInv
<1> SUFFICES ASSUME Init PROVE QuietInv
  OBVIOUS
<1>1. PICK old \in SUBSET Names : projects = [n \in Names |-> IF n \in old THEN Earlier(n) ELSE None]
  BY DEF Init
<1>2. ASSUME NEW n \in Names PROVE OwnersFit(Earlier(n)) /\ Earlier(n).setup = TRUE
  <2>1. PICK level : level = [u \in Users |->
                       IF /\ LevelBefore(u) = "none"
                          /\ \E k \in DOMAIN targets : targets[k].name = n /\ \E m \in targets[k].members : u \in Single(m)
                       THEN "other" ELSE LevelBefore(u)]
    OBVIOUS
  <2>2. \A u \in Users : level[u] = LevelBefore(u) \/ (level[u] = "other" /\ LevelBefore(u) = "none")
    BY <2>1
  <2>3. PICK fresh : fresh = Project0(0)
    OBVIOUS
  <2>4. PICK branch : branch = [fresh.branch EXCEPT ![Main] = [base |-> "starter", work |-> TRUE]]
    OBVIOUS
  <2>5. fresh \in Project
    BY <2>3, FreshProject
  <2>6. Earlier(n) = [fresh EXCEPT !.branch = branch, !.setup = TRUE, !.level = level]
    BY <2>1, <2>3, <2>4, <2>5 DEF Earlier, Project
  <2>7. Earlier(n).level = level /\ Earlier(n).setup = TRUE
    BY <2>5, <2>6 DEF Project
  <2> QED BY <2>2, <2>7 DEF OwnersFit, LevelBefore
<1>3. \A n \in Names : projects[n] # None => projects[n] = Earlier(n)
  BY <1>1
<1>4. OwnersStay
  BY <1>2, <1>3 DEF OwnersStay, OwnersFit, Exists
<1>5. FirstSetsUp /\ CleanOK
  BY <1>2, <1>3 DEF Init, FirstSetsUp, CleanOK, Clean, Exists
<1> QED BY <1>4, <1>5 DEF QuietInv

LEMMA NextKeepsQuiet == IInv /\ QuietInv /\ [Next]_vars => QuietInv'
<1> SUFFICES ASSUME IInv, QuietInv, [Next]_vars PROVE QuietInv'
  OBVIOUS
<1>1. ASSUME NEW w \in Workers, Step(w) PROVE QuietInv'
  BY <1>1, StepQuiet
<1>2. ASSUME NEW w \in Workers, NEW op \in Ops, NEW invite \in BOOLEAN, Start(w, op, invite) PROVE QuietInv'
  BY <1>2, StartQuiet
<1>3. ASSUME NEW p \in Names, PushImage(p) \/ \E b \in Branches : Commit(p, b) PROVE QuietInv'
  BY <1>3, CommitQuiet, PushImageQuiet
<1>4. CASE Crash
  <2>1. faults \in Nat /\ (\A w \in Workers : run'[w] = None) /\ faults' = faults + 1 /\ UNCHANGED projects
    BY <1>4, Parts, RepositoriesAssumption DEF Crash, StateOK
  <2>2. OwnersStay'
    BY <2>1 DEF QuietInv, OwnersStay, Exists
  <2>3. faults' # 0
    BY <2>1
  <2>4. FirstSetsUp' /\ CleanOK'
    BY <2>1, <2>3 DEF FirstSetsUp, CleanOK, Clean
  <2> QED BY <2>2, <2>4 DEF QuietInv
<1>5. CASE UNCHANGED vars
  <2>1. OwnersStay' /\ FirstSetsUp'
    BY <1>5 DEF vars, QuietInv, OwnersStay, FirstSetsUp, Exists
  <2>2. CleanOK'
    BY <1>5 DEF vars, QuietInv, CleanOK, Clean, Progress, Settled
  <2> QED BY <2>1, <2>2 DEF QuietInv
<1> QED BY <1>1, <1>2, <1>3, <1>4, <1>5 DEF Next

----------------------------------------------------------------------------
(* How an operation that nothing went wrong in ends *)

\* After the last target; or, but for a generate, because there is no group; or, a
\* push, at the target it could not push to.
LEMMA WaysToEnd ==
  ASSUME IInv, QuietInv, [Next]_vars, NEW w \in Workers, NEW op, Ends(w, op)
  PROVE  /\ Going(w) /\ run[w].op = op
         /\ \/ run[w].pc = "target" /\ ~HasTarget(w)
            \/ ~group /\ op \notin {"generate", "push"}
            \/ op = "push" /\ HasTarget(w)
<1>0. StateOK /\ ProjectsOK /\ RunsOK
  BY Parts
<1>1. run[w] # None /\ run'[w] = None /\ run[w].op = op /\ faults' = faults /\ run[w] \in Run
  BY <1>0 DEF Ends, RunsOK
<1>2. Going(w)
  BY DEF Ends, QuietInv, CleanOK, Clean, Going
<1>3. ASSUME NEW v \in Workers, NEW p, NEW invite, Start(v, p, invite) PROVE FALSE
  <2>1. v # w /\ run'[w] = [run[w] EXCEPT !.alone = FALSE]
    BY <1>1, <1>3 DEF Start
  <2>2. [run[w] EXCEPT !.alone = FALSE] \in Run
    BY <1>1 DEF Run
  <2> QED BY <1>1, <2>1, <2>2, RepositoriesNone
<1>4. ~Crash
  BY <1>0, <1>1, RepositoriesAssumption DEF Crash, StateOK
<1>5. ASSUME NEW v \in Workers, Step(v) PROVE v = w
  <2>1. PICK x : Moves(v, x)
    BY <1>5, Shapes DEF Shaped
  <2>2. v # w => run'[w] = run[w]
    BY <1>0, <2>1 DEF Moves, Becomes, Fault, RunsOK
  <2> QED BY <1>1, <2>2
<1>6. Step(w)
  BY <1>1, <1>3, <1>4, <1>5 DEF Next, Commit, PushImage, vars
<1>7. MayEnd(w)
  <2>1. PICK x : Moves(w, x) /\ (x = None => MayEnd(w))
    BY <1>6, Shapes DEF Shaped
  <2>2. Becomes(w, x)
    BY <1>0, <1>1, <2>1, NoFault DEF Moves
  <2> QED BY <1>0, <1>1, <2>1, <2>2 DEF Becomes, RunsOK
<1>8. CASE Done(w)
  BY <1>1, <1>2, <1>8 DEF Done, At
<1>9. CASE FindGroup(w)
  <2>1. Goto(w, "target") # None
    BY <1>0, <1>1, SameGoto DEF Same
  <2>2. ~Becomes(w, Goto(w, "target"))
    BY <1>0, <1>1, <2>1 DEF Becomes, RunsOK
  <2>3. ~Fault(w, None)
    BY <1>0, <1>1, NoFault
  <2>4. ~group /\ run[w].op # "generate" /\ run[w].pc = "group"
    BY <1>1, <1>9, <2>2, <2>3 DEF FindGroup, In, At
  <2>5. run[w].op # "push"
    BY <1>2, <2>4 DEF Going, Progress, Fits
  <2> QED BY <1>1, <1>2, <2>4, <2>5
<1>10. CASE ~Done(w) /\ ~FindGroup(w)
  <2>1. op = "push"
    BY <1>1, <1>7, <1>10 DEF MayEnd, In
  <2>2. HasTarget(w) \/ run[w].pc \in Holding
    BY <1>6, <1>10 DEF Step, CreateProject, SearchProject, PushStarter, SetUp, FindUser, SetMember, MembersSet, GetProject,
       Archive, PushDeferred, SearchGroup, ListImages, DeleteImage, DeleteProject, At, Holding
  <2>3. HasTarget(w)
    BY <1>0, <1>1, <2>2, HoldFacts
  <2> QED BY <1>1, <1>2, <2>1, <2>3
<1> QED BY <1>8, <1>9, <1>10

\* Behind the last target every one is settled.
LEMMA AllSettled ==
  ASSUME StateOK, RunsOK, NEW w \in Workers, Going(w), ~HasTarget(w), NEW k \in DOMAIN targets
  PROVE  Settled(run[w], targets[k], projects, astray, late)
<1>1. targets \in Seq(Target) /\ run[w].t \in Nat \ {0} /\ run[w].t \notin DOMAIN targets
  <2>1. targets \in Seq(Target)
    BY RepositoriesAssumption, Zenon DEF StateOK
  <2>2. run[w].t \in Nat \ {0}
    BY DEF Going, RunsOK, Run
  <2> QED BY <2>1, <2>2 DEF HasTarget, Going
<1>2. k < run[w].t
  BY <1>1
<1> QED BY <1>2 DEF Going, Progress

LEMMA GenerateEnds ==
  ASSUME IInv, QuietInv, [Next]_vars, NEW w \in Workers, Ends(w, "generate"), NEW k \in DOMAIN targets
  PROVE  /\ Exists(targets[k].name)
         /\ faults = 0 /\ ops = 1 => projects[targets[k].name].setup
<1>0. StateOK /\ ProjectsOK /\ RunsOK
  BY Parts
<1>1. Going(w) /\ run[w].op = "generate" /\ run[w].pc = "target" /\ ~HasTarget(w)
  BY WaysToEnd
<1>2. Settled(run[w], targets[k], projects, astray, late)
  BY <1>0, <1>1, AllSettled
<1>3. Exists(targets[k].name) /\ targets[k].name \in Names
  BY <1>0, <1>1, <1>2, ListFacts DEF Settled, Exists
<1>4. ASSUME faults = 0, ops = 1, ~projects[targets[k].name].setup PROVE FALSE
  <2>1. PICK v \in Workers : run[v] # None /\ run[v].pc \in {"push", "setup"}
    BY <1>3, <1>4 DEF QuietInv, FirstSetsUp
  <2>2. v = w
    BY <1>0, <2>1 DEF RunsOK, Ends
  <2> QED BY <1>1, <2>1, <2>2
<1> QED BY <1>3, <1>4

LEMMA AccessEnds ==
  ASSUME IInv, QuietInv, [Next]_vars, NEW w \in Workers,
         Ends(w, "setaccess") \/ (Ends(w, "generate") /\ run[w].invite),
         NEW k \in DOMAIN targets, Exists(targets[k].name), group,
         NEW m \in targets[k].members, NEW u \in TakenFor(m) \ Inheriting
  PROVE  projects[targets[k].name].level[u] = IF u \in Owners THEN "owner" ELSE "configured"
<1>0. StateOK /\ RunsOK
  BY Parts
<1>1. Going(w) /\ ~HasTarget(w) /\ SetsAccess(run[w])
  BY WaysToEnd DEF SetsAccess
<1>2. Settled(run[w], targets[k], projects, astray, late)
  BY <1>0, <1>1, AllSettled
<1> QED BY <1>1, <1>2 DEF Settled, AllSet, IsSet, Exists

LEMMA PushEnds ==
  ASSUME IInv, QuietInv, [Next]_vars, NEW w \in Workers, Ends(w, "push"),
         run[w].t \notin DOMAIN targets, astray = {}, NEW k \in DOMAIN targets
  PROVE  Exists(targets[k].name) /\ projects[targets[k].name].branch[deferred.to].base = "deferred"
<1>0. StateOK /\ RunsOK
  BY Parts
<1>1. Going(w) /\ ~HasTarget(w) /\ run[w].op = "push"
  BY WaysToEnd DEF HasTarget
<1>2. Settled(run[w], targets[k], projects, astray, late)
  BY <1>0, <1>1, AllSettled
<1> QED BY <1>1, <1>2 DEF Settled, Exists

LEMMA DeleteEnds ==
  ASSUME IInv, QuietInv, [Next]_vars, NEW w \in Workers, Ends(w, "delete"), group,
         NEW k \in DOMAIN targets, Exists(targets[k].name)
  PROVE  targets[k].name \in late
<1>0. StateOK /\ RunsOK
  BY Parts
<1>1. Going(w) /\ ~HasTarget(w) /\ run[w].op = "delete"
  BY WaysToEnd
<1>2. Settled(run[w], targets[k], projects, astray, late)
  BY <1>0, <1>1, AllSettled
<1> QED BY <1>1, <1>2 DEF Settled, Exists
----------------------------------------------------------------------------

\* The inductive invariant holds however operations run beside each other.
THEOREM Invariance == Spec => []IInv
BY InitIInv, NextKeepsIInv, PTL DEF Spec

\* The state is well typed, and what an operation holds agrees with where it is.
THEOREM TypeCorrect == Spec => []TypeOK
<1>1. IInv => TypeOK
  BY DEF IInv
<1> QED BY <1>1, Invariance, PTL

\* Who has access to a project was taken for a student of its target, or for one of a
\* target whose project did not exist when a search took this one for it.
THEOREM NoOtherAccess == Spec => []AccessOnlyAsConfigured
<1>1. IInv => AccessOnlyAsConfigured
  BY DEF IInv
<1> QED BY <1>1, Invariance, PTL

\* Only an update overwrites what students committed on the starter code's branch,
\* or a generate that another operation ran beside; only a push on the deferred one.
THEOREM WorkIsSafe == Spec => WorkIsKept
<1>1. IInv /\ [Next]_vars =>
        [\A p \in Names, b \in Branches :
           HasWork(p, b) /\ projects'[p] # None /\ projects'[p].id = projects[p].id /\ ~projects'[p].branch[b].work
           => \E w \in Active :
                /\ run[w].found # None /\ run[w].found.name = p
                /\ \/ run[w].op = "push" /\ b = deferred.to
                   \/ run[w].op = "update" /\ b = Main
                   \/ run[w].op = "generate" /\ ~run[w].alone /\ b = Main]_vars
  BY WorkStays
<1> QED BY <1>1, Invariance, PTL DEF Spec, WorkIsKept

\* A project disappears only in a delete that has it as its target.
THEOREM OnlyTargetsGo == Spec => DeletesOnlyTargets
<1>1. IInv /\ [Next]_vars =>
        [\A p \in Names : Exists(p) /\ projects'[p] = None =>
           \E w \in Active : run[w].op = "delete" /\ HasTarget(w) /\ This(w).name = p]_vars
  <2> SUFFICES ASSUME IInv, [Next]_vars, NEW p \in Names, Exists(p), projects'[p] = None
               PROVE  \E w \in Active : run[w].op = "delete" /\ HasTarget(w) /\ This(w).name = p
    OBVIOUS
  <2> QED BY DeletedIsTarget
<1> QED BY <1>1, Invariance, PTL DEF Spec, DeletesOnlyTargets

\* An operation that no call failed in and nothing ran beside did all of what it
\* promises: a generate left every project there and set up, a setaccess and a
\* generate the configured access, a push the branch everywhere, a delete nothing.
THEOREM NothingHalfDone == Spec => QuietOpsComplete
<1>1. Spec => [](IInv /\ QuietInv)
  BY InitQuiet, NextKeepsQuiet, Invariance, PTL DEF Spec
<1>2. IInv /\ QuietInv /\ [Next]_vars =>
        [\A w \in Workers : Ends(w, "generate") =>
           \A k \in DOMAIN targets :
             /\ Exists(targets[k].name)
             /\ faults = 0 /\ ops = 1 => projects[targets[k].name].setup]_vars
  BY GenerateEnds
<1>3. IInv /\ QuietInv /\ [Next]_vars =>
        [\A w \in Workers :
           Ends(w, "setaccess") \/ (Ends(w, "generate") /\ run[w].invite) =>
             \A k \in DOMAIN targets : Exists(targets[k].name) /\ group =>
               \A m \in targets[k].members : \A u \in TakenFor(m) \ Inheriting :
                 projects[targets[k].name].level[u] = IF u \in Owners THEN "owner" ELSE "configured"]_vars
  BY AccessEnds
<1>4. IInv /\ QuietInv /\ [Next]_vars =>
        [\A w \in Workers : Ends(w, "push") =>
           \/ run[w].t \in DOMAIN targets
           \/ \A k \in DOMAIN targets : /\ Exists(targets[k].name)
                                      /\ projects[targets[k].name].branch[deferred.to].base = "deferred"
           \/ astray # {}]_vars
  BY PushEnds
<1>5. IInv /\ QuietInv /\ [Next]_vars =>
        [\A w \in Workers : Ends(w, "delete") /\ group =>
           \A k \in DOMAIN targets : Exists(targets[k].name) => targets[k].name \in late]_vars
  BY DeleteEnds
<1>6. Spec => GenerateCompletes
  BY <1>1, <1>2, PTL DEF Spec, GenerateCompletes
<1>7. Spec => AccessIsSet
  BY <1>1, <1>3, PTL DEF Spec, AccessIsSet
<1>8. Spec => PushReachesAll
  BY <1>1, <1>4, PTL DEF Spec, PushReachesAll
<1>9. Spec => DeleteCompletes
  BY <1>1, <1>5, PTL DEF Spec, DeleteCompletes
<1> QED BY <1>6, <1>7, <1>8, <1>9 DEF QuietOpsComplete
=============================================================================
