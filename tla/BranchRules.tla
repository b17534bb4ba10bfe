---------------------------- MODULE BranchRules ----------------------------
(***************************************************************************)
(* What a course file says about branches and approvals, and what it means: *)
(* resolveBranches and resolveApprovalRules (config/resolve.go), the access *)
(* levels (config/branch_access.go), the default branch and the names and   *)
(* the applicability of approval rules (gitlab/branches.go, approvals.go).  *)
(* Names are trimmed already; Unset is an empty name or value.              *)
(***************************************************************************)
EXTENDS Integers, Sequences, FiniteSets, SequencesExt

CONSTANT Unset

NoOne == "noOne"
Developer == "developer"
Maintainer == "maintainer"
Access == {NoOne, Developer, Maintainer}

\* One entry of `branches:`.
BranchRule(names) ==
  [name : names, protect : BOOLEAN, mergeOnly : BOOLEAN,
   push : Access \cup {Unset}, merge : Access \cup {Unset}, default : BOOLEAN]

Named(name) == [name |-> name, protect |-> FALSE, mergeOnly |-> FALSE,
                push |-> Unset, merge |-> Unset, default |-> FALSE]

----------------------------------------------------------------------------
(* config/branch_access.go *)

Protected(rule) == rule.protect \/ rule.mergeOnly \/ rule.push # Unset \/ rule.merge # Unset

PushLevel(rule) ==
  IF rule.push # Unset THEN rule.push ELSE IF rule.mergeOnly THEN NoOne ELSE Maintainer

MergeLevel(rule) ==
  IF rule.merge # Unset THEN rule.merge ELSE IF rule.mergeOnly THEN Developer ELSE Maintainer

----------------------------------------------------------------------------
(* config/resolve.go: branches *)

LastSet(old, new) == IF new # Unset THEN new ELSE old

\* Mutant: an entry for a branch that has one replaces it.
ReplaceRule(old, new) == new

MergeRule(old, new) ==
  [name |-> old.name,
   protect |-> old.protect \/ new.protect,
   mergeOnly |-> old.mergeOnly \/ new.mergeOnly,
   push |-> LastSet(old.push, new.push),
   merge |-> LastSet(old.merge, new.merge),
   default |-> old.default \/ new.default]

AppendOrMerge(rules, rule) ==
  IF rule.name = Unset THEN rules
  ELSE IF \E i \in DOMAIN rules : rules[i].name = rule.name
       THEN [i \in DOMAIN rules |->
               IF rules[i].name = rule.name THEN MergeRule(rules[i], rule) ELSE rules[i]]
       ELSE Append(rules, rule)

\* The branch keys of `startercode:`.
Startercode(names) ==
  [toBranch : names, devBranch : names, additional : Seq(names), protectTo : BOOLEAN, protectDev : BOOLEAN]

\* They are used when no `branches:` are configured.
LegacyRules(code) ==
  LET target == LastSet(code.toBranch, code.devBranch)
  IN <<[Named(code.toBranch) EXCEPT !.default = TRUE],
       [Named(code.devBranch) EXCEPT !.default = TRUE]>>
     \o [i \in DOMAIN code.additional |-> Named(code.additional[i])]
     \o (IF code.protectTo THEN <<[Named(code.toBranch) EXCEPT !.protect = TRUE]>> ELSE <<>>)
     \o (IF code.protectDev THEN <<[Named(target) EXCEPT !.mergeOnly = TRUE]>> ELSE <<>>)

Resolved(list) ==
  LET rules[n \in 0..Len(list)] == IF n = 0 THEN <<>> ELSE AppendOrMerge(rules[n - 1], list[n])
  IN rules[Len(list)]

\* entries: `branches:`; code: `startercode:` or Unset.
ResolveBranches(entries, code) ==
  LET given == Resolved(entries)
      rules == IF given = <<>> /\ code # Unset THEN Resolved(LegacyRules(code)) ELSE given
  IN IF rules = <<>> \/ \E i \in DOMAIN rules : rules[i].default
     THEN rules
     ELSE [rules EXCEPT ![1].default = TRUE]

\* gitlab/branches.go; the resolved rules name their branches.
DefaultBranchName(rules, fallback) ==
  IF \E i \in DOMAIN rules : rules[i].default
  THEN rules[CHOOSE i \in DOMAIN rules :
               /\ rules[i].default
               /\ \A k \in DOMAIN rules : rules[k].default => i <= k].name
  ELSE fallback

----------------------------------------------------------------------------
(* Approval rules: config/resolve.go and gitlab/approvals.go *)

\* One rule: [name, multiOnly, required, who, branches], branches without
\* duplicates.  A rule without branches is dropped (resolveApprovalRules); any
\* other is handled branch by branch, under a name of its own per branch.
ApprovalRuleName(rule, branch) ==
  IF rule.name = Unset THEN <<"glabs-approval", branch>>
  ELSE IF Len(rule.branches) <= 1 THEN <<rule.name>>
  ELSE <<rule.name, branch>>

ApprovalItems(rules) ==
  LET Items(rule) == [k \in DOMAIN rule.branches |->
        [name |-> ApprovalRuleName(rule, rule.branches[k]), branch |-> rule.branches[k],
         multiOnly |-> rule.multiOnly, required |-> rule.required, who |-> rule.who]]
  IN FlattenSeq([j \in DOMAIN rules |-> Items(rules[j])])

\* approvalRuleAppliesForMemberCount
Applies(item, per, members) == item.multiOnly => per = "group" /\ members > 1
=============================================================================
