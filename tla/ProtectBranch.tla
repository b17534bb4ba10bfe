--------------------------- MODULE ProtectBranch ---------------------------
(***************************************************************************)
(* The branches, the branch protection and the merge request approvals of   *)
(* one project: syncConfiguredBranches (gitlab/branches.go), the protect    *)
(* operation (gitlab/protect.go) and the approval rules                     *)
(* (gitlab/approvals.go).  Each call of the GitLab API is one step, because *)
(* it may fail, may take effect and lose its answer, and because people     *)
(* change protections by hand between two calls.  The operations handle one *)
(* project after the other and go on after an error, so one project is      *)
(* enough.                                                                  *)
(***************************************************************************)
EXTENDS BranchRules

CONSTANTS
  Branches,
  Base,         \* the branch the push or the seeder left, or "main"
  Configs,      \* [entries, code, branches, items, settings, per]: configurations,
                \* as written (entries, code) and resolved
  MemberCounts,
  RuleNames,    \* names of approval rules
  Approvers,    \* users and groups that may be asked to approve
  Leftovers,    \* approval rules a project may have before
  None,
  MaxRuns,      \* bound: runs on the project
  MaxFaults,    \* bound: failing calls
  MaxHand       \* bound: changes by hand

Item == [name : RuleNames, branch : Branches, multiOnly : BOOLEAN, required : Nat, who : SUBSET Approvers]
NamesDiffer(list) == \A j, k \in DOMAIN list : j # k => list[j].name # list[k].name
Configured(c) ==
  /\ c.entries \in Seq(BranchRule(Branches \cup {Unset}))
  /\ c.code \in Startercode(Branches \cup {Unset}) \cup {Unset}
  /\ c.branches = ResolveBranches(c.entries, c.code)
  /\ c.items \in Seq(Item)
  /\ c.settings \in {None, "configured"} /\ c.per \in {"student", "group"}

\* Who a protected branch names: roles, or a person ("user").
Who == Access \cup {"user"}
Protection == [push : SUBSET Who, merge : SUBSET Who]
Rule == [any : BOOLEAN, required : Nat, who : SUBSET Approvers, scope : SUBSET Branches]
Rules == [RuleNames -> Rule \cup {None}]

\* GitLab keeps one any-approver rule per project.
OneAnyRule(r) == \A m, n \in RuleNames : r[m] # None /\ r[n] # None /\ r[m].any /\ r[n].any => m = n

ASSUME ProtectBranchAssumption ==
  /\ Base \in Branches /\ Unset \notin Branches \cup Access /\ (\A c \in Configs : Configured(c)) /\ MemberCounts \subseteq Nat
  /\ Leftovers \subseteq Rules /\ \A r \in Leftovers : OneAnyRule(r)
  /\ MaxRuns \in Nat /\ MaxFaults \in Nat /\ MaxHand \in Nat
  /\ None \notin Protection /\ None \notin Rule /\ None \notin RuleNames
  /\ None \notin [name : RuleNames, required : Nat, scope : SUBSET Branches]

VARIABLES
  cfg, members,
  existing, default, prot, rules, settings,    \* the project at GitLab
  pc, i,                                       \* where the run is
  read,                                        \* the protection GetProtectedBranch returned
  listed, byName, anyRef,                      \* protected branches, rule names and any-approver rule as listed
  anyCfg,                                      \* the any-approver rule collected so far
  outcome, runs, faults, hand,
  before, found, disturbed, unwell             \* history

projectVars == <<existing, default, prot, rules, settings>>
localVars == <<read, listed, byName, anyRef, anyCfg>>
vars == <<cfg, members, projectVars, pc, i, localVars, outcome, runs, faults, hand, before, found, disturbed, unwell>>

Pc == {"idle", "create", "default", "guard", "get", "update", "unprotect", "protect",
       "settings", "listBranches", "listRules", "items", "any"}

ProtectedRules == {k \in DOMAIN cfg.branches : Protected(cfg.branches[k])}

----------------------------------------------------------------------------
(* Calls: every call of the run ends in one of three ways *)

\* Mutant: what the run collected outlives it.
FinishDirty(o) == pc' = "idle" /\ outcome' = o /\ i' = 1 /\ UNCHANGED localVars

Finish(o) ==
  /\ pc' = "idle" /\ outcome' = o
  /\ i' = 1 /\ read' = None /\ listed' = {} /\ byName' = {} /\ anyRef' = None /\ anyCfg' = None

\* An error of the transport or of GitLab, or the end of the process.
Fails ==
  /\ faults < MaxFaults
  /\ faults' = faults + 1
  /\ Finish("failed") /\ disturbed' = TRUE /\ unwell' = FALSE

\* GitLab refuses the call, or the code gives up.
Refused == Finish("failed") /\ unwell' = ~disturbed /\ UNCHANGED <<faults, disturbed>>

\* The run returns nil.
Returns == Finish("ok") /\ unwell' = FALSE /\ UNCHANGED <<faults, disturbed>>

Goto(next) == pc' = next /\ UNCHANGED <<outcome, faults, disturbed, unwell>>

Fixed == UNCHANGED <<cfg, members, runs, hand, before, found>>

----------------------------------------------------------------------------
(* gitlab/branches.go *)

\* syncConfiguredBranches is called once, by the generate that created the project.
Start(from) ==
  /\ pc = "idle" /\ runs < MaxRuns /\ (from = "create" => runs = 0 /\ cfg.branches # <<>>)
  /\ pc' = from /\ runs' = runs + 1
  /\ before' = prot /\ found' = rules /\ disturbed' = FALSE /\ outcome' = "none"
  /\ UNCHANGED <<cfg, members, projectVars, i, localVars, faults, hand, unwell>>

\* An "already exists" of a branch is no error.
CreateBranch ==
  /\ pc = "create" /\ i <= Len(cfg.branches)
  /\ \/ /\ existing' = existing \cup {cfg.branches[i].name}
        /\ \/ Goto("create") /\ i' = i + 1 /\ UNCHANGED localVars
           \/ cfg.branches[i].name # Base /\ Fails
     \/ cfg.branches[i].name # Base /\ Fails /\ UNCHANGED existing
  /\ Fixed /\ UNCHANGED <<default, prot, rules, settings>>

BranchesCreated ==
  /\ pc = "create" /\ i > Len(cfg.branches)
  /\ Goto("default") /\ i' = 1
  /\ Fixed /\ UNCHANGED <<projectVars, localVars>>

SwitchDefault ==
  /\ pc = "default"
  /\ \/ /\ default' = DefaultBranchName(cfg.branches, Base)
        /\ \/ Goto("guard") /\ UNCHANGED <<i, localVars>>
           \/ Fails
     \/ Fails /\ UNCHANGED default
  /\ Fixed /\ UNCHANGED <<existing, prot, rules, settings>>

----------------------------------------------------------------------------
(* gitlab/protect.go *)

HasApprovalConfig == cfg.items # <<>> \/ cfg.settings # None

ProtectBranchForMemberCount ==
  /\ pc = "guard"
  /\ IF ProtectedRules = {} /\ ~HasApprovalConfig
     THEN Returns
     ELSE Goto("get") /\ UNCHANGED <<i, localVars>>
  /\ Fixed /\ UNCHANGED projectVars

SkipUnprotected ==
  /\ pc = "get" /\ i \in DOMAIN cfg.branches \ ProtectedRules
  /\ Goto("get") /\ i' = i + 1
  /\ Fixed /\ UNCHANGED <<projectVars, localVars>>

Branch == cfg.branches[i].name
Wanted == [push |-> {PushLevel(cfg.branches[i])}, merge |-> {MergeLevel(cfg.branches[i])}]
\* Mutant: every protection is recreated.
AlwaysRecreate == TRUE

NeedsRecreate == NoOne \in Wanted.push \cup Wanted.merge

GetProtectedBranch ==
  /\ pc = "get" /\ i \in ProtectedRules
  /\ \/ /\ IF prot[Branch] = None \/ NeedsRecreate
           THEN Goto("unprotect") /\ UNCHANGED read
           ELSE Goto("update") /\ read' = prot[Branch]
        /\ UNCHANGED <<i, listed, byName, anyRef, anyCfg>>
     \/ Fails
  /\ Fixed /\ UNCHANGED projectVars

\* replaceBranchPermissions: the ids to destroy come from what was read; a
\* level that was read is kept, one that was not is added.
\* Mutant: the entries of people are left alone.
OnlyRolesDestroyed(was, want) == (was \cap Access) \ want

Destroyed(was, want) == was \ want

\* Mutant: the level is added although the branch has it.
AddedAgain(was, want) == want

Added(was, want) == want \ was

\* GitLab refuses a level that is taken, before it destroys, and an id that is gone.
Replaceable(now, was, want) == Destroyed(was, want) \subseteq now /\ Added(was, want) \cap now = {}
Replaced(now, was, want) == (now \ Destroyed(was, want)) \cup Added(was, want)

UpdateProtectedBranch ==
  /\ pc = "update"
  /\ LET now == prot[Branch]
     IN \/ /\ now # None
           /\ Replaceable(now.push, read.push, Wanted.push)
           /\ Replaceable(now.merge, read.merge, Wanted.merge)
           /\ prot' = [prot EXCEPT ![Branch] =
                         [push |-> Replaced(now.push, read.push, Wanted.push),
                          merge |-> Replaced(now.merge, read.merge, Wanted.merge)]]
           /\ \/ Goto("get") /\ i' = i + 1 /\ read' = None
                 /\ UNCHANGED <<listed, byName, anyRef, anyCfg>>
              \/ Fails
        \/ /\ \/ now = None
              \/ now # None /\ ~Replaceable(now.push, read.push, Wanted.push)
              \/ now # None /\ ~Replaceable(now.merge, read.merge, Wanted.merge)
           /\ Refused /\ UNCHANGED prot
        \/ Fails /\ UNCHANGED prot
  /\ Fixed /\ UNCHANGED <<existing, default, rules, settings>>

\* A branch without a protection is no error.  The rules scoped to the
\* protection lose it with the protection.
UnprotectRepositoryBranches ==
  /\ pc = "unprotect"
  /\ \/ /\ prot' = [prot EXCEPT ![Branch] = None]
        /\ rules' = [n \in RuleNames |->
                       IF rules[n] = None THEN None ELSE [rules[n] EXCEPT !.scope = @ \ {Branch}]]
        /\ \/ Goto("protect") /\ UNCHANGED <<i, localVars>>
           \/ Fails
     \/ Fails /\ UNCHANGED <<prot, rules>>
  /\ Fixed /\ UNCHANGED <<existing, default, settings>>

ProtectRepositoryBranches ==
  /\ pc = "protect"
  /\ \/ /\ prot[Branch] = None
        /\ prot' = [prot EXCEPT ![Branch] = Wanted]
        /\ \/ Goto("get") /\ i' = i + 1 /\ UNCHANGED localVars
           \/ Fails
     \/ prot[Branch] # None /\ Refused /\ UNCHANGED prot
     \/ Fails /\ UNCHANGED prot
  /\ Fixed /\ UNCHANGED <<existing, default, rules, settings>>

BranchesProtected ==
  /\ pc = "get" /\ i > Len(cfg.branches)
  /\ \/ cfg.settings # None /\ Goto("settings") /\ i' = 1 /\ UNCHANGED localVars
     \/ cfg.settings = None /\ cfg.items # <<>> /\ Goto("listBranches") /\ i' = 1 /\ UNCHANGED localVars
     \/ cfg.settings = None /\ cfg.items = <<>> /\ Returns
  /\ Fixed /\ UNCHANGED projectVars

----------------------------------------------------------------------------
(* gitlab/approvals.go *)

ApplySettings ==
  /\ pc = "settings"
  /\ \/ /\ settings' = cfg.settings
        /\ \/ cfg.items # <<>> /\ Goto("listBranches") /\ UNCHANGED <<i, localVars>>
           \/ cfg.items = <<>> /\ Returns
           \/ Fails
     \/ Fails /\ UNCHANGED settings
  /\ Fixed /\ UNCHANGED <<existing, default, prot, rules>>

ListProtectedBranches ==
  /\ pc = "listBranches"
  /\ \/ /\ Goto("listRules")
        /\ listed' = {b \in Branches : prot[b] # None}
        /\ UNCHANGED <<i, read, byName, anyRef, anyCfg>>
     \/ Fails
  /\ Fixed /\ UNCHANGED projectVars

\* Mutant: the first rule of any kind is taken for the any-approver rule.
AllRules == {n \in RuleNames : rules[n] # None}

AnyRules == {n \in RuleNames : rules[n] # None /\ rules[n].any}

GetProjectApprovalRules ==
  /\ pc = "listRules"
  /\ \/ /\ Goto("items")
        /\ byName' = {n \in RuleNames : rules[n] # None}
        /\ \/ AnyRules = {} /\ anyRef' = None
           \/ \E n \in AnyRules : anyRef' = n
        /\ UNCHANGED <<i, read, listed, anyCfg>>
     \/ Fails
  /\ Fixed /\ UNCHANGED projectVars

This == cfg.items[i]
AtItem == pc = "items" /\ i \in DOMAIN cfg.items

Applied == Applies(This, cfg.per, members)
IsAny == This.who = {}
IsClear == This.required = 0 /\ IsAny
NextItem == Goto("items") /\ i' = i + 1 /\ UNCHANGED <<read, listed, anyRef>>

\* The rule does not apply, or asks for nothing: an existing one is deleted.
ToDelete == ~Applied \/ (This.branch \in listed /\ IsClear)

DeleteRule ==
  /\ AtItem /\ ToDelete
  /\ \/ This.name \notin byName /\ NextItem /\ UNCHANGED <<rules, byName, anyCfg>>
     \/ /\ This.name \in byName /\ rules[This.name] # None
        /\ rules' = [rules EXCEPT ![This.name] = None]
        /\ \/ NextItem /\ byName' = byName \ {This.name} /\ UNCHANGED anyCfg
           \/ Fails
     \/ This.name \in byName /\ rules[This.name] = None /\ Refused /\ UNCHANGED rules
     \/ This.name \in byName /\ Fails /\ UNCHANGED rules
  /\ Fixed /\ UNCHANGED <<existing, default, prot, settings>>

\* Only a warning: the branch is not protected.  The groups of an applicable
\* rule are looked up first, which may fail.
SkipItem ==
  /\ AtItem /\ Applied /\ This.branch \notin listed
  /\ \/ NextItem /\ UNCHANGED <<byName, anyCfg>>
     \/ Fails
  /\ Fixed /\ UNCHANGED projectVars

\* Rules that name nobody become one any-approver rule.
CollectAny ==
  /\ AtItem /\ Applied /\ This.branch \in listed /\ IsAny /\ ~IsClear
  /\ \/ /\ anyCfg = None
        /\ anyCfg' = [name |-> This.name, required |-> This.required, scope |-> {This.branch}]
        /\ NextItem /\ UNCHANGED byName
     \/ /\ anyCfg # None /\ anyCfg.required = This.required
        /\ anyCfg' = [anyCfg EXCEPT !.scope = @ \cup {This.branch}]
        /\ NextItem /\ UNCHANGED byName
     \/ anyCfg # None /\ anyCfg.required # This.required /\ Refused
  /\ Fixed /\ UNCHANGED projectVars

\* byName is what was listed, not what this run created: a second item of the
\* same name is created again, and GitLab refuses a name that is taken.
SetRule ==
  /\ AtItem /\ Applied /\ This.branch \in listed /\ ~IsAny
  /\ LET known == This.name \in byName
         there == rules[This.name] # None
     IN \/ /\ known = there
           /\ rules' = [rules EXCEPT ![This.name] =
                          [any |-> IF known THEN @.any ELSE FALSE, required |-> This.required,
                           who |-> This.who, scope |-> {This.branch}]]
           /\ \/ NextItem /\ UNCHANGED <<byName, anyCfg>>
              \/ Fails
        \/ known # there /\ Refused /\ UNCHANGED rules
        \/ Fails /\ UNCHANGED rules
  /\ Fixed /\ UNCHANGED <<existing, default, prot, settings>>

ItemsDone ==
  /\ pc = "items" /\ i > Len(cfg.items)
  /\ IF anyCfg = None THEN Returns ELSE Goto("any") /\ UNCHANGED <<i, localVars>>
  /\ Fixed /\ UNCHANGED projectVars

AnyRule == [any |-> TRUE, required |-> anyCfg.required, who |-> {}, scope |-> anyCfg.scope]

\* The listed any-approver rule is updated by its id, and renamed, even when an
\* item deleted it meanwhile; GitLab keeps one such rule per project.
SetAnyRule ==
  /\ pc = "any"
  /\ LET free == \A n \in {anyCfg.name} \ {anyRef} : rules[n] = None
         possible == free /\ IF anyRef = None THEN AnyRules = {} ELSE rules[anyRef] # None
     IN \/ /\ possible
           /\ rules' = [n \in RuleNames |->
                          IF n = anyCfg.name THEN AnyRule ELSE IF n = anyRef THEN None ELSE rules[n]]
           /\ Returns \/ Fails
        \/ ~possible /\ Refused /\ UNCHANGED rules
        \/ Fails /\ UNCHANGED rules
  /\ Fixed /\ UNCHANGED <<existing, default, prot, settings>>

----------------------------------------------------------------------------
(* People, at any time *)

ByHand ==
  /\ hand < MaxHand
  /\ hand' = hand + 1
  /\ \/ /\ \E b \in Branches, p \in {None, [push |-> {Maintainer}, merge |-> {Maintainer, "user"}],
                                     [push |-> {Developer, "user"}, merge |-> {Developer}]} :
             p # prot[b] /\ prot' = [prot EXCEPT ![b] = p]
        /\ UNCHANGED rules
     \/ /\ \E n \in RuleNames : rules[n] # None /\ rules' = [rules EXCEPT ![n] = None]
        /\ UNCHANGED prot
  /\ disturbed' = TRUE /\ unwell' = FALSE
  /\ UNCHANGED <<cfg, members, existing, default, settings, pc, i, localVars, outcome, runs, faults, before, found>>

Step ==
  \/ CreateBranch \/ BranchesCreated \/ SwitchDefault \/ ProtectBranchForMemberCount
  \/ SkipUnprotected \/ GetProtectedBranch \/ UpdateProtectedBranch
  \/ UnprotectRepositoryBranches \/ ProtectRepositoryBranches \/ BranchesProtected
  \/ ApplySettings \/ ListProtectedBranches \/ GetProjectApprovalRules
  \/ DeleteRule \/ SkipItem \/ CollectAny \/ SetRule \/ ItemsDone \/ SetAnyRule

Init ==
  /\ cfg \in Configs /\ members \in MemberCounts
  /\ existing = {Base} /\ default = Base /\ settings = "inherited"
  /\ prot \in [Branches -> {None, [push |-> {Maintainer}, merge |-> {Maintainer}]}]
  /\ rules \in Leftovers
  /\ pc = "idle" /\ i = 1
  /\ read = None /\ listed = {} /\ byName = {} /\ anyRef = None /\ anyCfg = None
  /\ outcome = "none" /\ runs = 0 /\ faults = 0 /\ hand = 0
  /\ before = prot /\ found = rules /\ disturbed = FALSE /\ unwell = FALSE

Next == Step \/ ByHand \/ \E from \in {"create", "guard"} : Start(from)

Spec == Init /\ [][Next]_vars

----------------------------------------------------------------------------
(* Properties *)

\* Type correctness of the project, the run's locals and the history; a run
\* starts with nothing of the run before.
TypeOK ==
  /\ cfg \in Configs /\ members \in MemberCounts
  /\ existing \subseteq Branches /\ default \in Branches
  /\ prot \in [Branches -> Protection \cup {None}] /\ rules \in Rules
  /\ settings \in {"inherited", "configured"}
  /\ pc \in Pc /\ i \in Nat \ {0}
  /\ read \in Protection \cup {None}
  /\ listed \subseteq Branches /\ byName \subseteq RuleNames /\ anyRef \in RuleNames \cup {None}
  /\ anyCfg \in [name : RuleNames, required : Nat, scope : SUBSET Branches] \cup {None}
  /\ read # None => pc = "update"
  /\ pc = "idle" => i = 1 /\ listed = {} /\ byName = {} /\ anyRef = None /\ anyCfg = None
  /\ outcome \in {"none", "ok", "failed"}
  /\ runs \in 0..MaxRuns /\ faults \in 0..MaxFaults /\ hand \in 0..MaxHand
  /\ before \in [Branches -> Protection \cup {None}] /\ found \in Rules
  /\ disturbed \in BOOLEAN /\ unwell \in BOOLEAN

\* Who can push to a branch with protection p; without one, every developer.
Pushers(p) ==
  IF p = None THEN {Developer, Maintainer}
  ELSE (p.push \ {NoOne}) \cup IF Developer \in p.push THEN {Maintainer} ELSE {}

ConfiguredPushers(b) ==
  UNION {Pushers([push |-> {PushLevel(cfg.branches[k])}]) :
           k \in {k \in ProtectedRules : cfg.branches[k].name = b}}

\* Recreating a protection opens the branch for one call, and leaves it open
\* when that call fails: only branches for which nobody may push or merge.
Recreated(b) == \E k \in ProtectedRules :
  cfg.branches[k].name = b /\ NoOne \in {PushLevel(cfg.branches[k]), MergeLevel(cfg.branches[k])}

\* A run on a protected branch never lets anyone push who could not before and
\* is not meant to: in place updates never open a branch, not even when they
\* fail (gitlab/protect.go, protectSingleBranch).
NoExtraPushers ==
  \A b \in Branches :
    pc # "idle" /\ hand = 0 /\ ~Recreated(b) =>
      Pushers(prot[b]) \subseteq Pushers(before[b]) \cup ConfiguredPushers(b)

NamesDistinct == NamesDiffer(cfg.items)

\* The rules the run found under a configured name are of the configured kind:
\* any-approver rules where nobody is named, others where somebody is.  The code
\* looks rules up by name and does not see their kind.
KindsAgree ==
  \A k \in DOMAIN cfg.items :
    found[cfg.items[k].name] # None => found[cfg.items[k].name].any = (cfg.items[k].who = {})

AnyItems == {k \in DOMAIN cfg.items :
               /\ Applies(cfg.items[k], cfg.per, members) /\ prot[cfg.items[k].branch] # None
               /\ cfg.items[k].who = {} /\ cfg.items[k].required > 0}

ItemConfigured(item) ==
  LET applies == Applies(item, cfg.per, members)
  IN /\ ~applies => rules[item.name] = None
     /\ applies /\ prot[item.branch] # None /\ item.who = {} /\ item.required = 0 =>
          rules[item.name] = None
     /\ applies /\ prot[item.branch] # None /\ item.who # {} =>
          /\ rules[item.name] # None
          /\ rules[item.name].required = item.required /\ rules[item.name].who = item.who
          /\ rules[item.name].scope = {item.branch}

EntriesOf(b) == {k \in DOMAIN cfg.entries : cfg.entries[k].name = b}

\* The last of the entries for b that says something about a level decides.
LevelOf(b, field) ==
  LET said == {k \in EntriesOf(b) : cfg.entries[k][field] # Unset}
  IN IF said # {}
     THEN cfg.entries[CHOOSE k \in said : \A j \in said : j <= k][field]
     ELSE IF \A k \in EntriesOf(b) : ~cfg.entries[k].mergeOnly THEN Maintainer
     ELSE IF field = "push" THEN NoOne ELSE Developer

\* Entries for one branch add up, in whatever order they are written: the branch
\* is protected if one of them protects it, at the levels given last, and some
\* branch is the default (config/resolve.go, resolveBranches).
BranchesAsWritten ==
  /\ (\E k \in DOMAIN cfg.entries : cfg.entries[k].name # Unset) =>
       \A b \in Branches :
         LET of == {k \in DOMAIN cfg.branches : cfg.branches[k].name = b}
         IN /\ Cardinality(of) = (IF EntriesOf(b) = {} THEN 0 ELSE 1)
            /\ \A k \in of :
                 /\ Protected(cfg.branches[k]) = \E j \in EntriesOf(b) : Protected(cfg.entries[j])
                 /\ PushLevel(cfg.branches[k]) = LevelOf(b, "push")
                 /\ MergeLevel(cfg.branches[k]) = LevelOf(b, "merge")
  /\ cfg.branches # <<>> => \E k \in DOMAIN cfg.branches : cfg.branches[k].default

\* A run nobody disturbed that returns without an error has left every branch
\* it protects with exactly the configured levels, and nobody else's entries.
OkMeansProtected ==
  pc = "idle" /\ outcome = "ok" /\ ~disturbed =>
    \A k \in ProtectedRules :
      prot[cfg.branches[k].name] = [push |-> {PushLevel(cfg.branches[k])},
                                    merge |-> {MergeLevel(cfg.branches[k])}]

\* ... and every approval rule asks the configured approvers, on the branch as
\* it is protected now: what a recreated protection took from a rule is put
\* back by the same run (gitlab/approvals.go).
OkMeansApprovals ==
  pc = "idle" /\ outcome = "ok" /\ ~disturbed /\ NamesDistinct /\ KindsAgree =>
    /\ \A k \in DOMAIN cfg.items : ItemConfigured(cfg.items[k])
    /\ AnyItems # {} =>
         \E n \in AnyRules : /\ rules[n].scope = {cfg.items[k].branch : k \in AnyItems}
                             /\ \A k \in AnyItems : rules[n].required = cfg.items[k].required
    /\ cfg.settings # None => settings = cfg.settings

\* "ok" means that the project is as it was configured.
OkMeansConfigured == OkMeansProtected /\ OkMeansApprovals

\* Two any-approver counts, or two items with one name, fail for good: they are
\* mistakes of the configuration.
Sound ==
  /\ NamesDistinct
  /\ \A j, k \in DOMAIN cfg.items :
       cfg.items[j].who = {} /\ cfg.items[k].who = {}
       /\ cfg.items[j].required > 0 /\ cfg.items[k].required > 0
         => cfg.items[j].required = cfg.items[k].required

\* A run may fail on its own, because it updates the any-approver rule it has
\* just deleted; then the next one, undisturbed, succeeds.  Where a rule of
\* another kind has the name of the any-approver rule, no run does.
SecondRunSucceeds ==
  [][Sound /\ KindsAgree /\ unwell /\ pc # "idle" /\ pc' = "idle" /\ ~disturbed' => outcome' = "ok"]_vars

\* No run changes an approval rule it has no item for, except that it renames
\* the any-approver rule and takes unprotected branches out of a scope.
ForeignRulesStay ==
  [][hand' = hand =>
       \A n \in RuleNames :
         /\ rules[n] # None /\ ~rules[n].any
         /\ \A k \in DOMAIN cfg.items : cfg.items[k].name # n
         => /\ rules'[n] # None
            /\ rules'[n].who = rules[n].who /\ rules'[n].required = rules[n].required]_vars

=============================================================================
