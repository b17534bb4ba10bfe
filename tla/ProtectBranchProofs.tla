------------------------ MODULE ProtectBranchProofs ------------------------
(***************************************************************************)
(* What a run of the protect operation leaves at GitLab, for any            *)
(* configuration, any project, any number of runs, of failing calls and of  *)
(* changes by hand: updates open no branch, an "ok" is true, nobody else's  *)
(* approval rule changes, and a run that failed on its own may be repeated. *)
(***************************************************************************)
EXTENDS ProtectBranch, WellFoundedInduction, FiniteSetTheorems, TLAPS

----------------------------------------------------------------------------
(* Numbers *)

\* A nonempty set of numbers has a least one.
LEMMA Least ==
  ASSUME NEW S \in SUBSET Nat, S # {}
  PROVE  \E m \in S : \A n \in S : m <= n
<1>1. PICK m \in S : \A n \in S : ~(<<n, m>> \in OpToRel(<, Nat))
  BY WFMin, NatLessThanWellFounded, Zenon
<1>2. \A n \in S : ~(n < m)
  BY <1>1 DEF OpToRel
<1> QED BY <1>2

\* A set that has 0, and with each number the next, has them all.
LEMMA Counting ==
  ASSUME NEW S, 0 \in S, \A n \in Nat : n \in S => n + 1 \in S
  PROVE  Nat \subseteq S
<1> SUFFICES ASSUME Nat \ S # {} PROVE FALSE
  OBVIOUS
<1>1. PICK m \in Nat \ S : \A n \in Nat \ S : m <= n
  BY Least
<1>2. m - 1 \in Nat /\ m - 1 \notin Nat \ S
  BY <1>1
<1> QED BY <1>1, <1>2

----------------------------------------------------------------------------
(* Entries of branches add up *)

\* What has been resolved after each entry, from none to n of them.
Resolving(r, list, n) ==
  r = [m \in 0..n |-> IF m = 0 THEN <<>> ELSE AppendOrMerge(r[m - 1], list[m])]

LEMMA ResolvingGoesOn ==
  ASSUME NEW list, NEW n \in Nat
  PROVE  \E r : Resolving(r, list, n)
<1> DEFINE S == {k \in Nat : \E r : Resolving(r, list, k)}
<1>1. 0 \in S
  <2> DEFINE r == [m \in 0..0 |-> <<>>]
  <2>1. r = [m \in 0..0 |-> IF m = 0 THEN <<>> ELSE AppendOrMerge(r[m - 1], list[m])]
    OBVIOUS
  <2> QED BY <2>1 DEF Resolving
<1>2. ASSUME NEW k \in Nat, k \in S PROVE k + 1 \in S
  <2>1. PICK r : Resolving(r, list, k)
    BY <1>2
  <2> DEFINE last == AppendOrMerge(r[k], list[k + 1])
             next == [m \in 0..(k + 1) |-> IF m = k + 1 THEN last ELSE r[m]]
  <2>2. ASSUME NEW m \in 0..(k + 1)
        PROVE  next[m] = IF m = 0 THEN <<>> ELSE AppendOrMerge(next[m - 1], list[m])
    <3>1. CASE m = k + 1
      BY <3>1
    <3>2. CASE m # k + 1
      <4>1. m \in 0..k /\ (m # 0 => m - 1 \in 0..k /\ next[m - 1] = r[m - 1])
        BY <3>2
      <4>2. r[m] = IF m = 0 THEN <<>> ELSE AppendOrMerge(r[m - 1], list[m])
        BY <2>1, <4>1 DEF Resolving
      <4> QED BY <3>2, <4>1, <4>2
    <3> QED BY <3>1, <3>2
  <2>3. next = [m \in 0..(k + 1) |-> next[m]]
    OBVIOUS
  <2> HIDE DEF next
  <2>4. Resolving(next, list, k + 1)
    BY <2>2, <2>3 DEF Resolving
  <2> QED BY <2>4
<1> HIDE DEF S
<1>3. Nat \subseteq S
  BY <1>1, <1>2, Counting
<1> QED BY <1>3 DEF S

LEMMA ResolvedInSteps ==
  ASSUME NEW list, Len(list) \in Nat
  PROVE  \E r : Resolving(r, list, Len(list)) /\ Resolved(list) = r[Len(list)]
<1> DEFINE r == CHOOSE r : Resolving(r, list, Len(list))
<1>1. Resolving(r, list, Len(list))
  BY ResolvingGoesOn
<1>2. Resolved(list) = r[Len(list)]
  BY Zenon DEF Resolved, Resolving
<1> QED BY <1>1, <1>2

Written == BranchRule(Branches \cup {Unset})

\* The entries for a branch among the first n.
For(list, n, b) == {j \in 1..n : list[j].name = b}

\* A level is the last one given for the branch.
LastGiven(level, list, of, field) ==
  \/ level = Unset /\ \A j \in of : list[j][field] = Unset
  \/ \E j \in of : /\ level = list[j][field] /\ level # Unset
                   /\ \A k \in of : list[k][field] # Unset => k <= j

\* A rule is the sum of entries for its branch.
SumOf(rule, list, of) ==
  /\ rule.protect = (\E j \in of : list[j].protect)
  /\ rule.mergeOnly = (\E j \in of : list[j].mergeOnly)
  /\ rule.default = (\E j \in of : list[j].default)
  /\ LastGiven(rule.push, list, of, "push") /\ LastGiven(rule.merge, list, of, "merge")

\* What the made are after the first n entries.
SumsOf(made, list, n) ==
  /\ made \in Seq(BranchRule(Branches)) /\ NamesDiffer(made)
  /\ \A b \in Branches : For(list, n, b) # {} <=> \E k \in DOMAIN made : made[k].name = b
  /\ \A k \in DOMAIN made : SumOf(made[k], list, For(list, n, made[k].name))

\* One more entry for a branch.
LEMMA OneMoreGiven ==
  ASSUME NEW list, NEW of \in SUBSET Nat, NEW n \in Nat, \A j \in of : j < n, NEW field, NEW level,
         LastGiven(level, list, of, field)
  PROVE  LastGiven(LastSet(level, list[n][field]), list, of \cup {n}, field)
<1>1. CASE list[n][field] = Unset
  BY <1>1 DEF LastGiven, LastSet
<1>2. CASE list[n][field] # Unset
  <2>1. \A k \in of \cup {n} : k <= n
    OBVIOUS
  <2> QED BY <1>2, <2>1 DEF LastGiven, LastSet
<1> QED BY <1>1, <1>2

LEMMA OneMoreEntry ==
  ASSUME NEW list, NEW of \in SUBSET Nat, NEW n \in Nat, \A j \in of : j < n,
         NEW rule \in BranchRule(Branches), list[n] \in Written, SumOf(rule, list, of)
  PROVE  /\ SumOf(MergeRule(rule, list[n]), list, of \cup {n})
         /\ MergeRule(rule, list[n]) \in BranchRule(Branches)
         /\ MergeRule(rule, list[n]).name = rule.name
<1> DEFINE new == MergeRule(rule, list[n])
<1>1. LastGiven(new.push, list, of \cup {n}, "push")
  <2>1. LastGiven(LastSet(rule.push, list[n]["push"]), list, of \cup {n}, "push")
    BY OneMoreGiven DEF SumOf
  <2> QED BY <2>1 DEF MergeRule
<1>2. LastGiven(new.merge, list, of \cup {n}, "merge")
  <2>1. LastGiven(LastSet(rule.merge, list[n]["merge"]), list, of \cup {n}, "merge")
    BY OneMoreGiven DEF SumOf
  <2> QED BY <2>1 DEF MergeRule
<1>3. /\ new.protect = (\E j \in of \cup {n} : list[j].protect)
      /\ new.mergeOnly = (\E j \in of \cup {n} : list[j].mergeOnly)
      /\ new.default = (\E j \in of \cup {n} : list[j].default)
  BY DEF SumOf, MergeRule, Written, BranchRule
<1>4. new \in BranchRule(Branches) /\ new.name = rule.name
  BY DEF MergeRule, LastSet, Written, BranchRule
<1> QED BY <1>1, <1>2, <1>3, <1>4 DEF SumOf

LEMMA FirstEntry ==
  ASSUME NEW list, NEW n \in Nat, list[n] \in Written, list[n].name # Unset
  PROVE  SumOf(list[n], list, {n}) /\ list[n] \in BranchRule(Branches)
<1>1. LastGiven(list[n].push, list, {n}, "push") /\ LastGiven(list[n].merge, list, {n}, "merge")
  BY DEF LastGiven
<1>2. list[n] \in BranchRule(Branches)
  BY DEF Written, BranchRule
<1>3. /\ list[n].protect = (\E j \in {n} : list[j].protect)
      /\ list[n].mergeOnly = (\E j \in {n} : list[j].mergeOnly)
      /\ list[n].default = (\E j \in {n} : list[j].default)
  BY <1>2 DEF BranchRule
<1> QED BY <1>1, <1>2, <1>3 DEF SumOf

LEMMA SumsGoOn ==
  ASSUME NEW list \in Seq(Written), NEW n \in 1..Len(list), NEW made, SumsOf(made, list, n - 1)
  PROVE  SumsOf(AppendOrMerge(made, list[n]), list, n)
<1> DEFINE b == list[n].name
           new == AppendOrMerge(made, list[n])
<1>1. /\ list[n] \in Written /\ n \in Nat /\ n - 1 \in Nat
      /\ made \in Seq(BranchRule(Branches)) /\ NamesDiffer(made)
      /\ DOMAIN made = 1..Len(made) /\ Len(made) \in Nat
      /\ \A k \in DOMAIN made : made[k] \in BranchRule(Branches) /\ made[k].name \in Branches
  <2>1. made \in Seq(BranchRule(Branches)) /\ NamesDiffer(made)
    BY DEF SumsOf
  <2>2. \A k \in DOMAIN made : made[k] \in BranchRule(Branches)
    BY <2>1
  <2>3. \A k \in DOMAIN made : made[k].name \in Branches
    BY <2>2 DEF BranchRule
  <2> QED BY <2>1, <2>2, <2>3
<1>2. \A a : For(list, n, a) = For(list, n - 1, a) \cup (IF a = b THEN {n} ELSE {})
  BY DEF For
<1>3. \A a : /\ For(list, n - 1, a) \in SUBSET Nat
             /\ \A j \in For(list, n - 1, a) : j < n
  BY DEF For
<1>4. CASE b = Unset
  <2>1. new = made
    BY <1>4 DEF AppendOrMerge
  <2>2. \A a \in Branches : For(list, n, a) = For(list, n - 1, a)
    BY <1>2, <1>4, ProtectBranchAssumption
  <2> QED BY <1>1, <2>1, <2>2 DEF SumsOf
<1>5. CASE b # Unset /\ \E k \in DOMAIN made : made[k].name = b
  <2>1. new = [k \in DOMAIN made |-> IF made[k].name = b THEN MergeRule(made[k], list[n]) ELSE made[k]]
    BY <1>5 DEF AppendOrMerge
  <2>2. ASSUME NEW k \in DOMAIN made
        PROVE  /\ new[k] \in BranchRule(Branches) /\ new[k].name = made[k].name
               /\ SumOf(new[k], list, For(list, n, made[k].name))
    <3>1. SumOf(made[k], list, For(list, n - 1, made[k].name))
      BY DEF SumsOf
    <3>2. CASE made[k].name = b
      <4>1. For(list, n, made[k].name) = For(list, n - 1, made[k].name) \cup {n}
        BY <1>2, <3>2
      <4>2. new[k] = MergeRule(made[k], list[n])
        BY <2>1, <3>2
      <4>3. /\ SumOf(MergeRule(made[k], list[n]), list, For(list, n - 1, made[k].name) \cup {n})
            /\ MergeRule(made[k], list[n]) \in BranchRule(Branches)
            /\ MergeRule(made[k], list[n]).name = made[k].name
        BY <1>1, <1>3, <3>1, OneMoreEntry
      <4> QED BY <4>1, <4>2, <4>3
    <3>3. CASE made[k].name # b
      <4>1. For(list, n, made[k].name) = For(list, n - 1, made[k].name)
        BY <1>2, <3>3
      <4> QED BY <1>1, <2>1, <3>1, <3>3, <4>1
    <3> QED BY <3>2, <3>3
  <2>3. DOMAIN new = DOMAIN made /\ new = [k \in 1..Len(made) |-> new[k]]
    BY <1>1, <2>1
  <2> HIDE DEF new
  <2>4. new \in Seq(BranchRule(Branches))
    BY <1>1, <2>2, <2>3
  <2>5. NamesDiffer(new)
    BY <1>1, <2>2, <2>3 DEF NamesDiffer
  <2>6. ASSUME NEW a \in Branches
        PROVE  For(list, n, a) # {} <=> \E k \in DOMAIN new : new[k].name = a
    <3>1. For(list, n - 1, a) # {} <=> \E k \in DOMAIN made : made[k].name = a
      BY DEF SumsOf
    <3> QED BY <1>2, <1>5, <2>2, <2>3, <3>1
  <2>7. \A k \in DOMAIN new : SumOf(new[k], list, For(list, n, new[k].name))
    BY <2>2, <2>3
  <2> QED BY <2>4, <2>5, <2>6, <2>7 DEF SumsOf, new
<1>6. CASE b # Unset /\ \A k \in DOMAIN made : made[k].name # b
  <2>1. new = Append(made, list[n])
    BY <1>6 DEF AppendOrMerge
  <2>2. SumOf(list[n], list, {n}) /\ list[n] \in BranchRule(Branches)
    BY <1>1, <1>6, FirstEntry
  <2>3. b \in Branches
    BY <2>2 DEF BranchRule
  <2>4. For(list, n - 1, b) = {} /\ For(list, n, b) = {n}
    <3>1. For(list, n - 1, b) = {}
      BY <1>6, <2>3 DEF SumsOf
    <3> QED BY <1>2, <3>1
  <2>5. /\ new \in Seq(BranchRule(Branches)) /\ DOMAIN new = 1..(Len(made) + 1)
        /\ \A k \in DOMAIN made : new[k] = made[k]
        /\ new[Len(made) + 1] = list[n]
    BY <1>1, <2>1, <2>2
  <2> HIDE DEF new
  <2>6. \A k \in DOMAIN new : k \in DOMAIN made \/ k = Len(made) + 1
    BY <1>1, <2>5
  <2>7. NamesDiffer(new)
    BY <1>1, <1>6, <2>5, <2>6 DEF NamesDiffer
  <2>8. ASSUME NEW a \in Branches
        PROVE  For(list, n, a) # {} <=> \E k \in DOMAIN new : new[k].name = a
    <3>1. For(list, n - 1, a) # {} <=> \E k \in DOMAIN made : made[k].name = a
      BY DEF SumsOf
    <3>2. DOMAIN made \subseteq DOMAIN new /\ Len(made) + 1 \in DOMAIN new
      BY <1>1, <2>5
    <3> QED BY <1>2, <2>5, <2>6, <3>1, <3>2
  <2>9. ASSUME NEW k \in DOMAIN new PROVE SumOf(new[k], list, For(list, n, new[k].name))
    <3>1. CASE k \in DOMAIN made
      <4>1. For(list, n, made[k].name) = For(list, n - 1, made[k].name)
        BY <1>2, <1>6, <3>1
      <4> QED BY <2>5, <3>1, <4>1 DEF SumsOf
    <3>2. CASE k = Len(made) + 1
      BY <2>2, <2>4, <2>5, <3>2
    <3> QED BY <2>6, <3>1, <3>2
  <2> QED BY <2>5, <2>7, <2>8, <2>9 DEF SumsOf, new
<1> QED BY <1>4, <1>5, <1>6

LEMMA ResolvedSums ==
  ASSUME NEW list \in Seq(Written)
  PROVE  SumsOf(Resolved(list), list, Len(list))
<1>1. Len(list) \in Nat
  OBVIOUS
<1>2. PICK r : Resolving(r, list, Len(list)) /\ Resolved(list) = r[Len(list)]
  BY <1>1, ResolvedInSteps
<1> DEFINE S == {n \in Nat : n <= Len(list) => SumsOf(r[n], list, n)}
<1>3. 0 \in S
  <2>1. r[0] = <<>>
    BY <1>1, <1>2 DEF Resolving
  <2>2. \A b : For(list, 0, b) = {}
    BY DEF For
  <2>3. <<>> \in Seq(BranchRule(Branches)) /\ DOMAIN <<>> = {}
    OBVIOUS
  <2> QED BY <2>1, <2>2, <2>3 DEF SumsOf, NamesDiffer
<1>4. ASSUME NEW n \in Nat, n \in S PROVE n + 1 \in S
  <2> SUFFICES ASSUME n + 1 <= Len(list) PROVE SumsOf(r[n + 1], list, n + 1)
    OBVIOUS
  <2>1. n + 1 \in 1..Len(list) /\ (n + 1) - 1 = n
    BY <1>1
  <2>2. SumsOf(r[n], list, n)
    BY <1>1, <1>4
  <2>3. r[n + 1] = AppendOrMerge(r[n], list[n + 1])
    BY <1>1, <1>2, <2>1 DEF Resolving
  <2>4. SumsOf(AppendOrMerge(r[n], list[n + 1]), list, n + 1)
    BY <2>1, <2>2, SumsGoOn
  <2> QED BY <2>3, <2>4
<1> HIDE DEF S
<1>5. Nat \subseteq S
  BY <1>3, <1>4, Counting
<1> QED BY <1>1, <1>2, <1>5 DEF S

LEMMA ShortLists ==
  ASSUME NEW S, NEW x \in S, NEW y \in S
  PROVE  <<>> \in Seq(S) /\ <<x>> \in Seq(S) /\ <<x, y>> \in Seq(S)
OBVIOUS

LEMMA LegacyIsWritten ==
  ASSUME NEW code \in Startercode(Branches \cup {Unset})
  PROVE  LegacyRules(code) \in Seq(Written)
<1> DEFINE names == Branches \cup {Unset}
           target == LastSet(code.toBranch, code.devBranch)
           one == <<[Named(code.toBranch) EXCEPT !.default = TRUE],
                    [Named(code.devBranch) EXCEPT !.default = TRUE]>>
           two == [k \in DOMAIN code.additional |-> Named(code.additional[k])]
           three == IF code.protectTo THEN <<[Named(code.toBranch) EXCEPT !.protect = TRUE]>> ELSE <<>>
           four == IF code.protectDev THEN <<[Named(target) EXCEPT !.mergeOnly = TRUE]>> ELSE <<>>
<1>1. code.toBranch \in names /\ code.devBranch \in names /\ code.additional \in Seq(names)
  BY DEF Startercode
<1>2. target \in names
  BY <1>1 DEF LastSet
<1>3. ASSUME NEW b \in names
      PROVE  /\ Named(b) \in Written /\ [Named(b) EXCEPT !.default = TRUE] \in Written
             /\ [Named(b) EXCEPT !.protect = TRUE] \in Written /\ [Named(b) EXCEPT !.mergeOnly = TRUE] \in Written
  BY DEF Named, Written, BranchRule
<1>4. one \in Seq(Written)
  BY <1>1, <1>3, ShortLists
<1>5. two \in Seq(Written)
  <2>1. DOMAIN code.additional = 1..Len(code.additional) /\ Len(code.additional) \in Nat
        /\ \A k \in DOMAIN code.additional : code.additional[k] \in names
    BY <1>1
  <2>2. \A k \in DOMAIN code.additional : Named(code.additional[k]) \in Written
    BY <1>3, <2>1
  <2> QED BY <2>1, <2>2
<1>6. three \in Seq(Written)
  BY <1>1, <1>3, ShortLists
<1>7. four \in Seq(Written)
  BY <1>2, <1>3, ShortLists
<1>8. LegacyRules(code) = one \o two \o three \o four
  BY DEF LegacyRules
<1> HIDE DEF one, two, three, four
<1> QED BY <1>4, <1>5, <1>6, <1>7, <1>8

\* Rules one of which is the default.
Finished(made, result) ==
  /\ result \in Seq(BranchRule(Branches)) /\ DOMAIN result = DOMAIN made
  /\ \A k \in DOMAIN made : \E d \in BOOLEAN : result[k] = [made[k] EXCEPT !.default = d]
  /\ result # <<>> => \E k \in DOMAIN result : result[k].default

\* What resolution returns: the rules of `branches:`, else those of the legacy
\* keys, one of which is the default.
LEMMA ResolvedRules ==
  ASSUME NEW entries \in Seq(Written), NEW code \in Startercode(Branches \cup {Unset}) \cup {Unset}
  PROVE  \E list, made :
           /\ list \in Seq(Written) /\ SumsOf(made, list, Len(list))
           /\ (\E k \in DOMAIN entries : entries[k].name # Unset) => list = entries
           /\ Finished(made, ResolveBranches(entries, code))
<1> DEFINE given == Resolved(entries)
           legacy == Resolved(LegacyRules(code))
           list == IF given = <<>> /\ code # Unset THEN LegacyRules(code) ELSE entries
           made == Resolved(list)
           result == ResolveBranches(entries, code)
<1>1. list \in Seq(Written)
  BY LegacyIsWritten
<1>2. SumsOf(made, list, Len(list)) /\ SumsOf(given, entries, Len(entries))
  BY <1>1, ResolvedSums
<1>3. ASSUME NEW k \in DOMAIN entries, entries[k].name # Unset PROVE given # <<>>
  <2>1. entries[k] \in Written /\ k \in 1..Len(entries)
    OBVIOUS
  <2>2. entries[k].name \in Branches
    BY <1>3, <2>1 DEF Written, BranchRule
  <2>3. For(entries, Len(entries), entries[k].name) # {}
    BY <2>1 DEF For
  <2>4. \E m \in DOMAIN given : given[m].name = entries[k].name
    BY <1>2, <2>2, <2>3 DEF SumsOf
  <2> QED BY <2>4
<1>4. made \in Seq(BranchRule(Branches))
  BY <1>2 DEF SumsOf
<1>5. result = IF made = <<>> \/ \E k \in DOMAIN made : made[k].default
               THEN made ELSE [made EXCEPT ![1].default = TRUE]
  BY Zenon DEF ResolveBranches
<1>6. (\E k \in DOMAIN entries : entries[k].name # Unset) => list = entries
  BY <1>3
<1> HIDE DEF made, result, list
<1>7. \A k \in DOMAIN made : made[k] \in BranchRule(Branches)
  BY <1>4
<1>8. \A k \in DOMAIN made : made[k].default \in BOOLEAN /\ made[k] = [made[k] EXCEPT !.default = made[k].default]
  BY <1>7 DEF BranchRule
<1>9. ASSUME made = <<>> \/ \E k \in DOMAIN made : made[k].default PROVE Finished(made, result)
  <2>1. result = made
    BY <1>5, <1>9
  <2>2. made # <<>> => \E k \in DOMAIN made : made[k].default
    BY <1>9
  <2> QED BY <1>4, <1>8, <2>1, <2>2 DEF Finished
<1>10. ASSUME ~(made = <<>> \/ \E k \in DOMAIN made : made[k].default) PROVE Finished(made, result)
  <2>1. result = [made EXCEPT ![1].default = TRUE]
    BY <1>5, <1>10
  <2>2. DOMAIN made = 1..Len(made) /\ Len(made) \in Nat /\ 1 \in DOMAIN made
    BY <1>4, <1>10
  <2>3. DOMAIN result = DOMAIN made /\ result = [k \in 1..Len(made) |-> result[k]]
    BY <2>1, <2>2
  <2>4. result[1] = [made[1] EXCEPT !.default = TRUE] /\ \A k \in DOMAIN made : k # 1 => result[k] = made[k]
    BY <2>1, <2>2
  <2>5. \A k \in DOMAIN made : \E d \in BOOLEAN : result[k] = [made[k] EXCEPT !.default = d]
    BY <1>8, <2>4
  <2>6. \A k \in DOMAIN made, d \in BOOLEAN : [made[k] EXCEPT !.default = d] \in BranchRule(Branches)
    BY <1>7 DEF BranchRule
  <2>7. \A k \in DOMAIN made : result[k] \in BranchRule(Branches)
    BY <2>5, <2>6
  <2>8. result \in Seq(BranchRule(Branches))
    BY <2>2, <2>3, <2>7
  <2>9. result[1].default
    BY <1>7, <2>2, <2>4 DEF BranchRule
  <2> QED BY <2>2, <2>3, <2>5, <2>8, <2>9 DEF Finished
<1>11. Finished(made, result)
  BY <1>9, <1>10
<1> QED BY <1>1, <1>2, <1>6, <1>11 DEF result

----------------------------------------------------------------------------
(* What is configured are the entries added up *)

\* The rules of a configuration are the sums of the entries, if some have names.
WrittenAs(c, list, made) ==
  /\ list \in Seq(Written) /\ SumsOf(made, list, Len(list))
  /\ (\E k \in DOMAIN c.entries : c.entries[k].name # Unset) => list = c.entries
  /\ Finished(made, c.branches)

LEMMA ConfigurationsAreWritten ==
  ASSUME NEW c \in Configs
  PROVE  \E list, made : WrittenAs(c, list, made)
<1> DEFINE entries == c.entries
           code == c.code
<1>1. /\ entries \in Seq(Written) /\ code \in Startercode(Branches \cup {Unset}) \cup {Unset}
      /\ c.branches = ResolveBranches(entries, code)
  BY ProtectBranchAssumption DEF Configured, Written
<1> HIDE DEF entries, code
<1>2. PICK list, made :
           /\ list \in Seq(Written) /\ SumsOf(made, list, Len(list))
           /\ (\E k \in DOMAIN entries : entries[k].name # Unset) => list = entries
           /\ Finished(made, ResolveBranches(entries, code))
  BY <1>1, ResolvedRules
<1>3. Finished(made, c.branches)
  BY <1>1, <1>2
<1>4. (\E k \in DOMAIN c.entries : c.entries[k].name # Unset) => list = c.entries
  BY <1>2 DEF entries
<1> QED BY <1>2, <1>3, <1>4 DEF WrittenAs

\* Of a rule only whether it is the default changes at the end.
LEMMA FinishedRules ==
  ASSUME NEW c, NEW list, NEW made, WrittenAs(c, list, made)
  PROVE  /\ DOMAIN c.branches = DOMAIN made
         /\ \A k \in DOMAIN made :
              /\ c.branches[k].name = made[k].name /\ c.branches[k].protect = made[k].protect
              /\ c.branches[k].mergeOnly = made[k].mergeOnly
              /\ c.branches[k].push = made[k].push /\ c.branches[k].merge = made[k].merge
<1>1. made \in Seq(BranchRule(Branches)) /\ Finished(made, c.branches)
  BY DEF WrittenAs, SumsOf
<1>2. \A k \in DOMAIN made : made[k] \in BranchRule(Branches)
  BY <1>1
<1>3. ASSUME NEW k \in DOMAIN made
      PROVE  /\ c.branches[k].name = made[k].name /\ c.branches[k].protect = made[k].protect
             /\ c.branches[k].mergeOnly = made[k].mergeOnly
             /\ c.branches[k].push = made[k].push /\ c.branches[k].merge = made[k].merge
  <2>1. PICK d \in BOOLEAN : c.branches[k] = [made[k] EXCEPT !.default = d]
    BY <1>1 DEF Finished
  <2>2. made[k] \in BranchRule(Branches)
    BY <1>2
  <2> QED BY <2>1, <2>2 DEF BranchRule
<1> QED BY <1>1, <1>3 DEF Finished

LEMMA ConfiguredBranches ==
  ASSUME NEW c \in Configs
  PROVE  c.branches \in Seq(BranchRule(Branches)) /\ NamesDiffer(c.branches)
<1>1. PICK list, made : WrittenAs(c, list, made)
  BY ConfigurationsAreWritten
<1>2. c.branches \in Seq(BranchRule(Branches)) /\ NamesDiffer(made)
  BY <1>1 DEF WrittenAs, SumsOf, Finished
<1>3. DOMAIN c.branches = DOMAIN made /\ \A k \in DOMAIN made : c.branches[k].name = made[k].name
  BY <1>1, FinishedRules
<1> QED BY <1>2, <1>3 DEF NamesDiffer

Saying(list, of, field) == {k \in of : list[k][field] # Unset}
LastOne(numbers) == CHOOSE k \in numbers : \A j \in numbers : j <= k

\* The last entry that gives a level decides.
LEMMA LastDecides ==
  ASSUME NEW list, NEW of \in SUBSET Nat, NEW field, NEW level, LastGiven(level, list, of, field)
  PROVE  IF Saying(list, of, field) = {} THEN level = Unset
         ELSE level = list[LastOne(Saying(list, of, field))][field] /\ level # Unset
<1> DEFINE said == Saying(list, of, field)
<1>0. said = {k \in of : list[k][field] # Unset}
  BY DEF Saying
<1> HIDE DEF said
<1>1. CASE said = {}
  BY <1>0, <1>1 DEF LastGiven, said
<1>2. CASE said # {}
  <2>1. PICK k \in of : /\ level = list[k][field] /\ level # Unset
                        /\ \A j \in of : list[j][field] # Unset => j <= k
    BY <1>0, <1>2 DEF LastGiven
  <2>2. k \in said /\ \A j \in said : j <= k
    BY <1>0, <2>1
  <2> DEFINE last == CHOOSE m \in said : \A j \in said : j <= m
  <2>3. last \in said /\ \A j \in said : j <= last
    BY <2>2
  <2>4. last = k
    <3> HIDE DEF last
    <3>1. last \in Nat /\ k \in Nat
      BY <1>0, <2>2, <2>3
    <3>2. last <= k /\ k <= last
      BY <2>2, <2>3
    <3> QED BY <3>1, <3>2
  <2>5. level = list[last][field] /\ level # Unset
    BY <2>1, <2>4
  <2> HIDE DEF last
  <2>6. list[LastOne(said)][field] = level
    BY <2>5 DEF last, LastOne
  <2> QED BY <1>2, <2>5, <2>6 DEF said
<1> QED BY <1>1, <1>2 DEF said

LEMMA RulesAreAsWritten ==
  ASSUME cfg \in Configs
  PROVE  BranchesAsWritten
<1>1. PICK list, made : WrittenAs(cfg, list, made)
  BY ConfigurationsAreWritten
<1>2. /\ DOMAIN cfg.branches = DOMAIN made
      /\ \A k \in DOMAIN made :
           /\ cfg.branches[k].name = made[k].name /\ cfg.branches[k].protect = made[k].protect
           /\ cfg.branches[k].mergeOnly = made[k].mergeOnly
           /\ cfg.branches[k].push = made[k].push /\ cfg.branches[k].merge = made[k].merge
  BY <1>1, FinishedRules
<1>3. cfg.branches # <<>> => \E k \in DOMAIN cfg.branches : cfg.branches[k].default
  BY <1>1 DEF WrittenAs, Finished
<1>4. ASSUME \E k \in DOMAIN cfg.entries : cfg.entries[k].name # Unset, NEW b \in Branches,
             NEW of, of = {k \in DOMAIN cfg.branches : cfg.branches[k].name = b}
      PROVE  /\ Cardinality(of) = (IF EntriesOf(b) = {} THEN 0 ELSE 1)
             /\ \A k \in of :
                  /\ Protected(cfg.branches[k]) = \E j \in EntriesOf(b) : Protected(cfg.entries[j])
                  /\ PushLevel(cfg.branches[k]) = LevelOf(b, "push")
                  /\ MergeLevel(cfg.branches[k]) = LevelOf(b, "merge")
  <2>1. /\ cfg.entries = list /\ list \in Seq(Written) /\ Len(list) \in Nat
        /\ DOMAIN cfg.entries = 1..Len(list)
    BY <1>1, <1>4 DEF WrittenAs
  <2>2. EntriesOf(b) = For(list, Len(list), b) /\ EntriesOf(b) \in SUBSET Nat
    BY <2>1 DEF EntriesOf, For
  <2>3. NamesDiffer(made) /\ (EntriesOf(b) # {} <=> \E k \in DOMAIN made : made[k].name = b)
    BY <1>1, <2>2 DEF WrittenAs, SumsOf
  <2>4. Cardinality(of) = (IF EntriesOf(b) = {} THEN 0 ELSE 1)
    <3>1. CASE EntriesOf(b) = {}
      <4>1. of = {}
        BY <1>2, <1>4, <2>3, <3>1
      <4> QED BY <3>1, <4>1, FS_EmptySet
    <3>2. CASE EntriesOf(b) # {}
      <4>1. PICK k \in DOMAIN made : made[k].name = b
        BY <2>3, <3>2
      <4>2. of = {k}
        BY <1>2, <1>4, <2>3, <4>1 DEF NamesDiffer
      <4> QED BY <3>2, <4>2, FS_Singleton
    <3> QED BY <3>1, <3>2
  <2>5. ASSUME NEW k \in of
        PROVE  /\ Protected(cfg.branches[k]) = \E j \in EntriesOf(b) : Protected(cfg.entries[j])
               /\ PushLevel(cfg.branches[k]) = LevelOf(b, "push")
               /\ MergeLevel(cfg.branches[k]) = LevelOf(b, "merge")
    <3> DEFINE rule == cfg.branches[k]
               some == EntriesOf(b)
               entries == cfg.entries
    <3>1. k \in DOMAIN made /\ made[k].name = b
      BY <1>2, <1>4, <2>5
    <3>2. SumOf(made[k], entries, some)
      BY <1>1, <2>1, <2>2, <3>1 DEF WrittenAs, SumsOf
    <3>3. /\ rule.protect = (\E j \in some : entries[j].protect)
          /\ rule.mergeOnly = (\E j \in some : entries[j].mergeOnly)
          /\ LastGiven(rule.push, entries, some, "push") /\ LastGiven(rule.merge, entries, some, "merge")
      BY <1>2, <3>1, <3>2 DEF SumOf
    <3>4. some \in SUBSET Nat
      BY <2>2
    <3>5. LevelOf(b, "push") = PushLevel(rule)
      <4> DEFINE said == Saying(entries, some, "push")
      <4>1. LevelOf(b, "push") = IF said # {} THEN entries[LastOne(said)]["push"]
                               ELSE IF \A m \in some : ~entries[m].mergeOnly THEN Maintainer ELSE NoOne
        BY DEF LevelOf, LastOne, Saying
      <4> HIDE DEF rule, some, entries
      <4>2. IF said = {} THEN rule.push = Unset
            ELSE rule.push = entries[LastOne(said)]["push"] /\ rule.push # Unset
        BY <3>3, <3>4, LastDecides
      <4> HIDE DEF said
      <4> QED BY <3>3, <4>1, <4>2 DEF PushLevel
    <3>6. LevelOf(b, "merge") = MergeLevel(rule)
      <4> DEFINE said == Saying(entries, some, "merge")
      <4>1. LevelOf(b, "merge") = IF said # {} THEN entries[LastOne(said)]["merge"]
                               ELSE IF \A m \in some : ~entries[m].mergeOnly THEN Maintainer ELSE Developer
        BY DEF LevelOf, LastOne, Saying
      <4> HIDE DEF rule, some, entries
      <4>2. IF said = {} THEN rule.merge = Unset
            ELSE rule.merge = entries[LastOne(said)]["merge"] /\ rule.merge # Unset
        BY <3>3, <3>4, LastDecides
      <4> HIDE DEF said
      <4> QED BY <3>3, <4>1, <4>2 DEF MergeLevel
    <3>7. Protected(rule) = \E j \in some : Protected(cfg.entries[j])
      <4>1. rule.push # Unset <=> \E j \in some : entries[j].push # Unset
        BY <3>3 DEF LastGiven
      <4>2. rule.merge # Unset <=> \E j \in some : entries[j].merge # Unset
        BY <3>3 DEF LastGiven
      <4>3. \A j \in some : entries[j] \in Written
        BY <2>1, <2>2 DEF For
      <4>4. Protected(rule) <=> \E j \in some : Protected(entries[j])
        BY <3>3, <4>1, <4>2 DEF Protected
      <4> QED BY <2>1, <4>4 DEF Protected
    <3> QED BY <3>5, <3>6, <3>7
  <2> QED BY <2>4, <2>5
<1> QED BY <1>3, <1>4 DEF BranchesAsWritten

----------------------------------------------------------------------------
(* What a configuration is *)

LEMMA LevelsOfARule ==
  ASSUME NEW rule \in BranchRule(Branches)
  PROVE  rule.name \in Branches /\ PushLevel(rule) \in Access /\ MergeLevel(rule) \in Access
BY DEF BranchRule, PushLevel, MergeLevel, Access

LEMMA BranchesOf ==
  ASSUME cfg \in Configs
  PROVE  /\ DOMAIN cfg.branches = 1..Len(cfg.branches) /\ Len(cfg.branches) \in Nat
         /\ \A k \in DOMAIN cfg.branches :
              /\ cfg.branches[k].name \in Branches
              /\ PushLevel(cfg.branches[k]) \in Access /\ MergeLevel(cfg.branches[k]) \in Access
         /\ NamesDiffer(cfg.branches)
<1>1. cfg.branches \in Seq(BranchRule(Branches)) /\ NamesDiffer(cfg.branches)
  BY ConfiguredBranches
<1>2. \A k \in DOMAIN cfg.branches : cfg.branches[k] \in BranchRule(Branches)
  BY <1>1
<1> QED BY <1>1, <1>2, LevelsOfARule

LEMMA ItemsOf ==
  ASSUME cfg \in Configs
  PROVE  /\ DOMAIN cfg.items = 1..Len(cfg.items) /\ Len(cfg.items) \in Nat
         /\ \A k \in DOMAIN cfg.items :
              /\ cfg.items[k].name \in RuleNames /\ cfg.items[k].branch \in Branches
              /\ cfg.items[k].required \in Nat /\ cfg.items[k].who \in SUBSET Approvers
         /\ cfg.settings \in {None, "configured"}
<1>1. cfg.items \in Seq(Item) /\ cfg.settings \in {None, "configured"}
  BY ProtectBranchAssumption DEF Configured
<1>2. \A k \in DOMAIN cfg.items : cfg.items[k] \in Item
  BY <1>1
<1> QED BY <1>1, <1>2 DEF Item

LEMMA DefaultIsABranch ==
  ASSUME cfg \in Configs
  PROVE  DefaultBranchName(cfg.branches, Base) \in Branches
<1> DEFINE D == {k \in DOMAIN cfg.branches : cfg.branches[k].default}
<1>1. CASE D = {}
  BY <1>1, ProtectBranchAssumption DEF DefaultBranchName
<1>2. CASE D # {}
  <2>1. D \in SUBSET Nat
    BY BranchesOf
  <2>2. PICK m \in D : \A n \in D : m <= n
    BY <1>2, <2>1, Least
  <2> DEFINE d == CHOOSE k \in DOMAIN cfg.branches :
                    /\ cfg.branches[k].default
                    /\ \A n \in DOMAIN cfg.branches : cfg.branches[n].default => k <= n
  <2>3. d \in DOMAIN cfg.branches
    BY <2>2
  <2>4. DefaultBranchName(cfg.branches, Base) = cfg.branches[d].name
    BY <1>2 DEF DefaultBranchName
  <2> QED BY <2>3, <2>4, BranchesOf
<1> QED BY <1>1, <1>2

----------------------------------------------------------------------------
(* Types and control *)

USE DEF Goto, Fixed, Finish, Fails, Refused, Returns, projectVars, localVars

Shared == Protection \cup {None}
Collected == [name : RuleNames, required : Nat, scope : SUBSET Branches]

ProjectOK ==
  /\ existing \subseteq Branches /\ default \in Branches
  /\ prot \in [Branches -> Shared] /\ rules \in Rules
  /\ settings \in {"inherited", "configured"}

LocalsOK ==
  /\ pc \in Pc /\ i \in Nat \ {0}
  /\ read \in Shared /\ (read # None <=> pc = "update")
  /\ listed \subseteq Branches /\ byName \subseteq RuleNames /\ anyRef \in RuleNames \cup {None}
  /\ anyCfg \in Collected \cup {None}
  /\ pc = "idle" => i = 1 /\ listed = {} /\ byName = {} /\ anyRef = None /\ anyCfg = None

HistoryOK ==
  /\ cfg \in Configs /\ members \in MemberCounts
  /\ outcome \in {"none", "ok", "failed"}
  /\ runs \in 0..MaxRuns /\ faults \in 0..MaxFaults /\ hand \in 0..MaxHand
  /\ before \in [Branches -> Shared] /\ found \in Rules
  /\ disturbed \in BOOLEAN /\ unwell \in BOOLEAN

Branching == {"update", "unprotect", "protect"}
Approving == {"items", "any"}

\* Where the index stands, and what is in the run's hand where.
Control ==
  /\ pc \in Branching => i \in ProtectedRules
  /\ pc \in {"default", "guard", "settings", "listBranches", "listRules"} => i = 1
  /\ pc = "settings" => cfg.settings # None
  /\ pc = "any" => anyCfg # None /\ i > Len(cfg.items)
  /\ pc \notin Approving => anyCfg = None
  /\ pc # "idle" /\ hand = 0 => ~disturbed

WantedOf(k) == [push |-> {PushLevel(cfg.branches[k])}, merge |-> {MergeLevel(cfg.branches[k])}]

Typed == ProjectOK /\ LocalsOK /\ HistoryOK /\ Control

LEMMA TypedIsTypeOK == Typed => TypeOK
BY DEF Typed, ProjectOK, LocalsOK, HistoryOK, TypeOK, Shared, Collected

LEMMA InitTyped == Init => Typed
<1> SUFFICES ASSUME Init PROVE Typed
  OBVIOUS
<1>1. [push |-> {Maintainer}, merge |-> {Maintainer}] \in Protection
  BY DEF Protection, Who, Access
<1>2. prot \in [Branches -> Shared]
  BY <1>1 DEF Init, Shared
<1>3. rules \in Rules
  BY ProtectBranchAssumption DEF Init
<1>4. 0 \in 0..MaxRuns /\ 0 \in 0..MaxFaults /\ 0 \in 0..MaxHand
  BY ProtectBranchAssumption
<1>5. HistoryOK
  BY <1>2, <1>3, <1>4 DEF Init, HistoryOK
<1>6. ProjectOK
  BY <1>2, <1>3, ProtectBranchAssumption DEF Init, ProjectOK
<1>7. LocalsOK
  BY DEF Init, LocalsOK, Shared, Pc
<1>8. Control
  BY DEF Init, Control, Branching, Approving
<1> QED BY <1>5, <1>6, <1>7, <1>8 DEF Typed

\* The steps of a run change its history only by ending it.
RunEnds == (Fails \/ Refused \/ Returns)
RunGoesOn == UNCHANGED <<outcome, faults, disturbed, unwell>> /\ pc' # "idle"

LEMMA HistoryOfAStep ==
  ASSUME Typed, Fixed, RunEnds \/ RunGoesOn, pc # "idle"
  PROVE  HistoryOK' /\ (pc' # "idle" /\ hand' = 0 => ~disturbed')
<1> USE DEF Typed, HistoryOK, Control, RunEnds, RunGoesOn
<1>1. cfg' \in Configs /\ members' \in MemberCounts /\ runs' \in 0..MaxRuns /\ hand' \in 0..MaxHand
  OBVIOUS
<1>2. before' \in [Branches -> Shared] /\ found' \in Rules
  OBVIOUS
<1>3. faults' \in 0..MaxFaults
  BY ProtectBranchAssumption
<1>4. outcome' \in {"none", "ok", "failed"} /\ disturbed' \in BOOLEAN /\ unwell' \in BOOLEAN
  OBVIOUS
<1>5. pc' # "idle" /\ hand' = 0 => ~disturbed'
  OBVIOUS
<1> QED BY <1>1, <1>2, <1>3, <1>4, <1>5

LEMMA EndIsClean ==
  ASSUME RunEnds, Fixed PROVE LocalsOK' /\ (HistoryOK' /\ ProjectOK' => Typed')
BY DEF RunEnds, LocalsOK, Typed, Control, Branching, Approving, Shared, Pc

\* A step of the run keeps all of this if it keeps the project well formed and, where
\* the run goes on, its locals.
LEMMA StepTyped ==
  ASSUME Typed, Fixed, RunEnds \/ RunGoesOn, pc # "idle", ProjectOK',
         RunGoesOn => LocalsOK' /\ Control'
  PROVE  Typed'
<1>1. HistoryOK'
  BY HistoryOfAStep
<1>2. CASE RunEnds
  BY <1>1, <1>2, EndIsClean
<1>3. CASE RunGoesOn
  BY <1>1, <1>3 DEF Typed
<1> QED BY <1>2, <1>3

LEMMA StartTyped == ASSUME Typed, NEW from \in {"create", "guard"}, Start(from) PROVE Typed'
<1> USE DEF Typed, Start
<1>1. ProjectOK'
  BY DEF ProjectOK
<1>2. HistoryOK'
  <2>1. runs' \in 0..MaxRuns
    BY ProtectBranchAssumption DEF HistoryOK
  <2>2. before' \in [Branches -> Shared] /\ found' \in Rules
    BY DEF ProjectOK
  <2> QED BY <2>1, <2>2 DEF HistoryOK
<1>3. LocalsOK'
  BY DEF LocalsOK, Pc
<1>4. Control'
  BY DEF Control, Branching, Approving, LocalsOK, HistoryOK
<1> QED BY <1>1, <1>2, <1>3, <1>4

LEMMA CreateBranchTyped == ASSUME Typed, CreateBranch PROVE Typed'
<1> USE DEF Typed, CreateBranch
<1>1. pc = "create" /\ i \in DOMAIN cfg.branches
  BY BranchesOf DEF LocalsOK, HistoryOK
<1>2. cfg.branches[i].name \in Branches
  BY <1>1, BranchesOf DEF HistoryOK
<1>3. ProjectOK'
  BY <1>2 DEF ProjectOK
<1>4. RunEnds \/ RunGoesOn
  BY DEF RunEnds, RunGoesOn
<1>5. ASSUME RunGoesOn PROVE LocalsOK' /\ Control'
  BY <1>5 DEF RunGoesOn, LocalsOK, Control, Branching, Approving
<1> QED BY <1>1, <1>3, <1>4, <1>5, StepTyped

LEMMA BranchesCreatedTyped == ASSUME Typed, BranchesCreated PROVE Typed'
<1> USE DEF Typed, BranchesCreated
<1>1. ProjectOK' /\ RunGoesOn
  BY DEF ProjectOK, RunGoesOn
<1>2. LocalsOK' /\ Control'
  BY DEF LocalsOK, Control, Branching, Approving, Pc
<1> QED BY <1>1, <1>2, StepTyped

LEMMA SwitchDefaultTyped == ASSUME Typed, SwitchDefault PROVE Typed'
<1> USE DEF Typed, SwitchDefault
<1>1. ProjectOK'
  BY DefaultIsABranch DEF ProjectOK, HistoryOK
<1>2. RunEnds \/ RunGoesOn
  BY DEF RunEnds, RunGoesOn
<1>3. ASSUME RunGoesOn PROVE LocalsOK' /\ Control'
  BY <1>3 DEF RunGoesOn, LocalsOK, Control, Branching, Approving, Pc
<1> QED BY <1>1, <1>2, <1>3, StepTyped

LEMMA GuardTyped == ASSUME Typed, ProtectBranchForMemberCount PROVE Typed'
<1> USE DEF Typed, ProtectBranchForMemberCount
<1>1. ProjectOK'
  BY DEF ProjectOK
<1>2. RunEnds \/ RunGoesOn
  BY DEF RunEnds, RunGoesOn
<1>3. ASSUME RunGoesOn PROVE LocalsOK' /\ Control'
  BY <1>3 DEF RunGoesOn, LocalsOK, Control, Branching, Approving, Pc
<1> QED BY <1>1, <1>2, <1>3, StepTyped

LEMMA SkipUnprotectedTyped == ASSUME Typed, SkipUnprotected PROVE Typed'
<1> USE DEF Typed, SkipUnprotected
<1>1. ProjectOK' /\ RunGoesOn
  BY DEF ProjectOK, RunGoesOn
<1>2. LocalsOK' /\ Control'
  BY DEF LocalsOK, Control, Branching, Approving, Pc
<1> QED BY <1>1, <1>2, StepTyped

\* The branch at hand, and what it is to be protected with.
LEMMA AtBranch ==
  ASSUME Typed, i \in ProtectedRules
  PROVE  /\ i \in DOMAIN cfg.branches /\ Branch \in Branches /\ Wanted \in Protection /\ Wanted = WantedOf(i)
         /\ Wanted.push = {PushLevel(cfg.branches[i])} /\ Wanted.merge = {MergeLevel(cfg.branches[i])}
         /\ prot[Branch] \in Shared
<1>1. i \in DOMAIN cfg.branches
  BY DEF ProtectedRules
<1>2. /\ cfg.branches[i].name \in Branches
      /\ PushLevel(cfg.branches[i]) \in Access /\ MergeLevel(cfg.branches[i]) \in Access
  BY <1>1, BranchesOf DEF Typed, HistoryOK
<1> QED BY <1>1, <1>2 DEF Branch, Wanted, WantedOf, Protection, Who, Typed, ProjectOK

LEMMA GetProtectedBranchTyped == ASSUME Typed, GetProtectedBranch PROVE Typed'
<1> USE DEF Typed, GetProtectedBranch
<1>1. ProjectOK'
  BY DEF ProjectOK
<1>2. RunEnds \/ RunGoesOn
  BY DEF RunEnds, RunGoesOn
<1>3. ASSUME RunGoesOn PROVE LocalsOK' /\ Control'
  <2>1. prot[Branch] \in Shared
    BY AtBranch
  <2>2. LocalsOK'
    BY <1>3, <2>1 DEF RunGoesOn, LocalsOK, Pc
  <2>3. Control'
    BY <1>3 DEF RunGoesOn, Control, Branching, Approving, ProtectedRules
  <2> QED BY <2>2, <2>3
<1> QED BY <1>1, <1>2, <1>3, StepTyped

LEMMA UpdateProtectedBranchTyped == ASSUME Typed, UpdateProtectedBranch PROVE Typed'
<1> USE DEF Typed
<1>1. /\ i \in ProtectedRules /\ read \in Protection
      /\ Wanted \in Protection /\ Branch \in Branches /\ prot[Branch] \in Shared
  BY AtBranch DEF UpdateProtectedBranch, LocalsOK, Control, Shared, Branching
<1>2. prot' \in [Branches -> Shared]
  <2>1. CASE UNCHANGED prot
    BY <2>1 DEF ProjectOK
  <2>2. CASE /\ prot[Branch] # None
             /\ prot' = [prot EXCEPT ![Branch] =
                           [push |-> Replaced(prot[Branch].push, read.push, Wanted.push),
                            merge |-> Replaced(prot[Branch].merge, read.merge, Wanted.merge)]]
    <3>1. prot[Branch] \in Protection
      BY <1>1, <2>2 DEF Shared
    <3>2. [push |-> Replaced(prot[Branch].push, read.push, Wanted.push),
           merge |-> Replaced(prot[Branch].merge, read.merge, Wanted.merge)] \in Protection
      BY <1>1, <3>1 DEF Replaced, Destroyed, Added, Protection
    <3> QED BY <2>2, <3>2 DEF ProjectOK, Shared
  <2> QED BY <2>1, <2>2 DEF UpdateProtectedBranch
<1>3. ProjectOK'
  BY <1>2 DEF ProjectOK, UpdateProtectedBranch
<1>4. RunEnds \/ RunGoesOn
  BY DEF RunEnds, RunGoesOn, UpdateProtectedBranch
<1>5. ASSUME RunGoesOn PROVE LocalsOK' /\ Control'
  BY <1>5 DEF UpdateProtectedBranch, RunGoesOn, LocalsOK, Control, Branching, Approving, Pc, Shared
<1> QED BY <1>3, <1>4, <1>5, StepTyped DEF UpdateProtectedBranch

\* The rules with one branch taken out of their scopes.
Unscoped(r, b) == [n \in RuleNames |-> IF r[n] = None THEN None ELSE [r[n] EXCEPT !.scope = @ \ {b}]]

LEMMA UnscopedRule ==
  ASSUME NEW r \in Rule, NEW b
  PROVE  LET s == [r EXCEPT !.scope = @ \ {b}]
         IN s \in Rule /\ s # None /\ s.any = r.any /\ s.who = r.who /\ s.required = r.required
BY ProtectBranchAssumption DEF Rule

LEMMA UnscopedRules ==
  ASSUME NEW r \in Rules, NEW b
  PROVE  /\ Unscoped(r, b) \in Rules
         /\ \A n \in RuleNames :
              /\ Unscoped(r, b)[n] = None <=> r[n] = None
              /\ r[n] # None => /\ Unscoped(r, b)[n].any = r[n].any /\ Unscoped(r, b)[n].who = r[n].who
                                /\ Unscoped(r, b)[n].required = r[n].required
<1>1. \A n \in RuleNames : r[n] # None => r[n] \in Rule
  BY DEF Rules
<1> QED BY <1>1, UnscopedRule DEF Unscoped, Rules

LEMMA UnprotectTyped == ASSUME Typed, UnprotectRepositoryBranches PROVE Typed'
<1> USE DEF Typed, UnprotectRepositoryBranches
<1>1. rules' \in Rules
  <2>1. rules' \in {rules, Unscoped(rules, Branch)}
    BY DEF Unscoped
  <2> QED BY <2>1, UnscopedRules DEF ProjectOK
<1>2. ProjectOK'
  BY <1>1 DEF ProjectOK, Shared
<1>3. RunEnds \/ RunGoesOn
  BY DEF RunEnds, RunGoesOn
<1>4. ASSUME RunGoesOn PROVE LocalsOK' /\ Control'
  BY <1>4 DEF RunGoesOn, LocalsOK, Control, Branching, Approving, Pc, ProtectedRules
<1> QED BY <1>2, <1>3, <1>4, StepTyped

LEMMA ProtectTyped == ASSUME Typed, ProtectRepositoryBranches PROVE Typed'
<1> USE DEF Typed, ProtectRepositoryBranches
<1>1. Wanted \in Protection
  BY AtBranch DEF Control, Branching
<1>2. ProjectOK'
  BY <1>1 DEF ProjectOK, Shared
<1>3. RunEnds \/ RunGoesOn
  BY DEF RunEnds, RunGoesOn
<1>4. ASSUME RunGoesOn PROVE LocalsOK' /\ Control'
  BY <1>4 DEF RunGoesOn, LocalsOK, Control, Branching, Approving, Pc
<1> QED BY <1>2, <1>3, <1>4, StepTyped

LEMMA BranchesProtectedTyped == ASSUME Typed, BranchesProtected PROVE Typed'
<1> USE DEF Typed, BranchesProtected
<1>1. ProjectOK'
  BY DEF ProjectOK
<1>2. RunEnds \/ RunGoesOn
  BY DEF RunEnds, RunGoesOn
<1>3. ASSUME RunGoesOn PROVE LocalsOK' /\ Control'
  BY <1>3 DEF RunGoesOn, LocalsOK, Control, Branching, Approving, Pc
<1> QED BY <1>1, <1>2, <1>3, StepTyped

----------------------------------------------------------------------------
(* Types and control: approvals *)

LEMMA ApplySettingsTyped == ASSUME Typed, ApplySettings PROVE Typed'
<1> USE DEF Typed, ApplySettings
<1>1. cfg.settings = "configured"
  BY ItemsOf DEF Control, HistoryOK
<1>2. ProjectOK'
  BY <1>1 DEF ProjectOK
<1>3. RunEnds \/ RunGoesOn
  BY DEF RunEnds, RunGoesOn
<1>4. ASSUME RunGoesOn PROVE LocalsOK' /\ Control'
  BY <1>4 DEF RunGoesOn, LocalsOK, Control, Branching, Approving, Pc
<1> QED BY <1>2, <1>3, <1>4, StepTyped

LEMMA ListProtectedBranchesTyped == ASSUME Typed, ListProtectedBranches PROVE Typed'
<1> USE DEF Typed, ListProtectedBranches
<1>1. ProjectOK'
  BY DEF ProjectOK
<1>2. RunEnds \/ RunGoesOn
  BY DEF RunEnds, RunGoesOn
<1>3. ASSUME RunGoesOn PROVE LocalsOK' /\ Control'
  BY <1>3 DEF RunGoesOn, LocalsOK, Control, Branching, Approving, Pc
<1> QED BY <1>1, <1>2, <1>3, StepTyped

LEMMA GetProjectApprovalRulesTyped == ASSUME Typed, GetProjectApprovalRules PROVE Typed'
<1> USE DEF Typed, GetProjectApprovalRules
<1>1. ProjectOK'
  BY DEF ProjectOK
<1>2. RunEnds \/ RunGoesOn
  BY DEF RunEnds, RunGoesOn
<1>3. ASSUME RunGoesOn PROVE LocalsOK' /\ Control'
  <2>1. byName' \subseteq RuleNames /\ anyRef' \in RuleNames \cup {None}
    BY <1>3 DEF RunGoesOn, AnyRules
  <2> QED BY <1>3, <2>1 DEF RunGoesOn, LocalsOK, Control, Branching, Approving, Pc
<1> QED BY <1>1, <1>2, <1>3, StepTyped

\* The item at hand.
LEMMA TheItem ==
  ASSUME Typed, AtItem
  PROVE  /\ i \in DOMAIN cfg.items /\ i <= Len(cfg.items) /\ This = cfg.items[i]
         /\ This.name \in RuleNames /\ This.branch \in Branches /\ This.required \in Nat
         /\ This.who \in SUBSET Approvers
BY ItemsOf DEF Typed, HistoryOK, AtItem, This

\* What stays and what is typed when an item is done.
LEMMA NextItemTyped ==
  ASSUME Typed, pc = "items", Fixed, NextItem, ProjectOK', byName' \subseteq RuleNames, anyCfg' \in Collected \cup {None}
  PROVE  Typed'
<1> USE DEF Typed, NextItem
<1>1. RunGoesOn
  BY DEF RunGoesOn
<1>2. LocalsOK' /\ Control'
  BY DEF LocalsOK, Control, Branching, Approving, Pc
<1> QED BY <1>1, <1>2, StepTyped

LEMMA EndTyped ==
  ASSUME Typed, pc # "idle", Fixed, RunEnds, ProjectOK'
  PROVE  Typed'
BY HistoryOfAStep, EndIsClean

LEMMA DeleteRuleTyped == ASSUME Typed, DeleteRule PROVE Typed'
<1>1. rules' \in Rules
  <2>1. rules' \in {rules, [rules EXCEPT ![This.name] = None]}
    BY DEF DeleteRule
  <2> QED BY <2>1 DEF Typed, ProjectOK, Rules
<1>2. ProjectOK'
  BY <1>1 DEF DeleteRule, Typed, ProjectOK
<1>3. pc = "items" /\ Fixed
  BY DEF DeleteRule, AtItem
<1>4. CASE RunEnds
  BY <1>2, <1>3, <1>4, EndTyped
<1>5. CASE NextItem /\ byName' \subseteq byName /\ anyCfg' = anyCfg
  BY <1>2, <1>3, <1>5, NextItemTyped DEF Typed, LocalsOK
<1> QED BY <1>4, <1>5 DEF DeleteRule, RunEnds, NextItem

LEMMA SkipItemTyped == ASSUME Typed, SkipItem PROVE Typed'
<1>1. ProjectOK'
  BY DEF SkipItem, Typed, ProjectOK
<1>2. pc = "items" /\ Fixed
  BY DEF SkipItem, AtItem
<1>3. CASE RunEnds
  BY <1>1, <1>2, <1>3, EndTyped
<1>4. CASE NextItem /\ UNCHANGED <<byName, anyCfg>>
  BY <1>1, <1>2, <1>4, NextItemTyped DEF Typed, LocalsOK
<1> QED BY <1>3, <1>4 DEF SkipItem, RunEnds

LEMMA CollectAnyTyped == ASSUME Typed, CollectAny PROVE Typed'
<1>1. ProjectOK'
  BY DEF CollectAny, Typed, ProjectOK
<1>2. pc = "items" /\ Fixed
  BY DEF CollectAny, AtItem
<1>3. CASE Refused
  BY <1>1, <1>2, <1>3, EndTyped DEF RunEnds
<1>4. CASE NextItem /\ UNCHANGED byName
  <2>1. anyCfg' \in Collected
    <3>1. CASE anyCfg' = [name |-> This.name, required |-> This.required, scope |-> {This.branch}]
      BY <3>1, TheItem DEF CollectAny, Collected
    <3>2. CASE anyCfg # None /\ anyCfg' = [anyCfg EXCEPT !.scope = @ \cup {This.branch}]
      BY <3>2, TheItem DEF CollectAny, Collected, Typed, LocalsOK
    <3> QED BY <1>4, <3>1, <3>2 DEF CollectAny, NextItem
  <2> QED BY <1>1, <1>2, <1>4, <2>1, NextItemTyped DEF Typed, LocalsOK
<1> QED BY <1>3, <1>4 DEF CollectAny

\* What SetRule makes of a rule.
RuleSet(known) ==
  [any |-> IF known THEN rules[This.name].any ELSE FALSE, required |-> This.required,
   who |-> This.who, scope |-> {This.branch}]

LEMMA RuleSetIsARule ==
  ASSUME Typed, AtItem, NEW known \in BOOLEAN, known => rules[This.name] # None
  PROVE  RuleSet(known) \in Rule
<1>1. known => rules[This.name] \in Rule
  BY TheItem DEF Typed, ProjectOK, Rules
<1>2. (IF known THEN rules[This.name].any ELSE FALSE) \in BOOLEAN
  BY <1>1 DEF Rule
<1> QED BY <1>2, TheItem DEF RuleSet, Rule

LEMMA SetRuleTyped == ASSUME Typed, SetRule PROVE Typed'
<1> DEFINE known == This.name \in byName
<1>1. rules' \in Rules
  <2>1. CASE UNCHANGED rules
    BY <2>1 DEF Typed, ProjectOK
  <2>2. CASE /\ known = (rules[This.name] # None)
             /\ rules' = [rules EXCEPT ![This.name] =
                            [any |-> IF known THEN @.any ELSE FALSE, required |-> This.required,
                             who |-> This.who, scope |-> {This.branch}]]
    <3>1. rules' = [rules EXCEPT ![This.name] = RuleSet(known)]
      BY <2>2 DEF RuleSet
    <3>2. RuleSet(known) \in Rule
      BY <2>2, RuleSetIsARule DEF SetRule
    <3> QED BY <3>1, <3>2 DEF Typed, ProjectOK, Rules
  <2> QED BY <2>1, <2>2 DEF SetRule
<1>2. ProjectOK'
  BY <1>1 DEF SetRule, Typed, ProjectOK
<1>3. pc = "items" /\ Fixed
  BY DEF SetRule, AtItem
<1>4. CASE RunEnds
  BY <1>2, <1>3, <1>4, EndTyped
<1>5. CASE NextItem /\ UNCHANGED <<byName, anyCfg>>
  BY <1>2, <1>3, <1>5, NextItemTyped DEF Typed, LocalsOK
<1> QED BY <1>4, <1>5 DEF SetRule, RunEnds

LEMMA ItemsDoneTyped == ASSUME Typed, ItemsDone PROVE Typed'
<1> USE DEF Typed, ItemsDone
<1>1. ProjectOK'
  BY DEF ProjectOK
<1>2. RunEnds \/ RunGoesOn
  BY DEF RunEnds, RunGoesOn
<1>3. ASSUME RunGoesOn PROVE LocalsOK' /\ Control'
  BY <1>3 DEF RunGoesOn, LocalsOK, Control, Branching, Approving, Pc
<1> QED BY <1>1, <1>2, <1>3, StepTyped

\* The rules when the any-approver rule was set.
WithAnyRule ==
  [n \in RuleNames |-> IF n = anyCfg.name THEN AnyRule ELSE IF n = anyRef THEN None ELSE rules[n]]

LEMMA AnyRuleIsARule ==
  ASSUME Typed, pc = "any"
  PROVE  AnyRule \in Rule /\ anyCfg.name \in RuleNames /\ WithAnyRule \in Rules
<1>1. anyCfg \in Collected
  BY DEF Typed, LocalsOK, Control
<1>2. AnyRule \in Rule /\ anyCfg.name \in RuleNames
  BY <1>1 DEF Collected, AnyRule, Rule
<1> QED BY <1>2 DEF WithAnyRule, Rules, Typed, ProjectOK

LEMMA SetAnyRuleTyped == ASSUME Typed, SetAnyRule PROVE Typed'
<1>1. rules' \in Rules
  <2>1. rules' \in {rules, WithAnyRule}
    BY DEF SetAnyRule, WithAnyRule
  <2> QED BY <2>1, AnyRuleIsARule DEF SetAnyRule, Typed, ProjectOK
<1>2. ProjectOK'
  BY <1>1 DEF SetAnyRule, Typed, ProjectOK
<1>3. RunEnds
  BY DEF SetAnyRule, RunEnds
<1> QED BY <1>2, <1>3, EndTyped DEF SetAnyRule

LEMMA ByHandTyped == ASSUME Typed, ByHand PROVE Typed'
<1> USE DEF Typed, ByHand
<1>1. prot' \in [Branches -> Shared] /\ rules' \in Rules
  <2>1. /\ [push |-> {Maintainer}, merge |-> {Maintainer, "user"}] \in Shared
        /\ [push |-> {Developer, "user"}, merge |-> {Developer}] \in Shared /\ None \in Shared
    BY DEF Shared, Protection, Who, Access
  <2>2. prot' \in [Branches -> Shared]
    BY <2>1 DEF ProjectOK
  <2>3. rules' \in Rules
    BY DEF ProjectOK, Rules
  <2> QED BY <2>2, <2>3
<1>2. ProjectOK'
  BY <1>1 DEF ProjectOK
<1>3. hand' \in 1..MaxHand
  BY ProtectBranchAssumption DEF HistoryOK
<1>4. HistoryOK'
  <2>1. hand' \in 0..MaxHand
    BY <1>3
  <2> QED BY <2>1 DEF HistoryOK
<1>5. LocalsOK'
  BY DEF LocalsOK
<1>6. Control'
  BY <1>3 DEF Control, ProtectedRules
<1> QED BY <1>2, <1>4, <1>5, <1>6

LEMMA StutterTyped == ASSUME Typed, UNCHANGED vars PROVE Typed'
BY DEF Typed, vars, ProjectOK, LocalsOK, HistoryOK, Control, ProtectedRules

LEMMA NextTyped == ASSUME Typed, [Next]_vars PROVE Typed'
<1>1. CASE Step
  BY <1>1, CreateBranchTyped, BranchesCreatedTyped, SwitchDefaultTyped, GuardTyped, SkipUnprotectedTyped,
     GetProtectedBranchTyped, UpdateProtectedBranchTyped, UnprotectTyped, ProtectTyped, BranchesProtectedTyped,
     ApplySettingsTyped, ListProtectedBranchesTyped, GetProjectApprovalRulesTyped, DeleteRuleTyped, SkipItemTyped,
     CollectAnyTyped, SetRuleTyped, ItemsDoneTyped, SetAnyRuleTyped
     DEF Step
<1> QED BY <1>1, ByHandTyped, StartTyped, StutterTyped DEF Next

\* Every variable has its type in every reachable state.
THEOREM TypeCorrect == Spec => []TypeOK
<1>1. Init => Typed
  BY InitTyped
<1>2. Typed /\ [Next]_vars => Typed'
  BY NextTyped
<1>3. Typed => TypeOK
  BY TypedIsTypeOK
<1> QED BY <1>1, <1>2, <1>3, PTL DEF Spec

\* Whatever `branches:` and the legacy keys say, in whatever order and however
\* often they name a branch: there is one rule for each branch with an entry, it
\* protects if one of the entries does, at the levels given last, and some
\* branch is the default (config/resolve.go, resolveBranches).
THEOREM EntriesAddUp == Spec => []BranchesAsWritten
<1>1. Typed => BranchesAsWritten
  BY RulesAreAsWritten DEF Typed, HistoryOK
<1>2. Init => Typed
  BY InitTyped
<1>3. Typed /\ [Next]_vars => Typed'
  BY NextTyped
<1> QED BY <1>1, <1>2, <1>3, PTL DEF Spec

----------------------------------------------------------------------------
(* Protections *)

Looping == {"get"} \cup Branching
Listing == {"settings", "listBranches", "listRules"}
Later == Listing \cup Approving

ProtectedBelow(m) == \A k \in ProtectedRules : k < m => prot[cfg.branches[k].name] = WantedOf(k)

AllProtected == \A k \in ProtectedRules : prot[cfg.branches[k].name] = WantedOf(k)

\* Unless something came in between, what was read is still so, a protection is
\* taken away to be put back only where that is needed, and the branches before the one
\* at hand are as configured.
BranchInv ==
  ~disturbed =>
    /\ pc = "update" => read = prot[Branch]
    /\ pc = "unprotect" => prot[Branch] = None \/ NeedsRecreate
    /\ pc = "protect" => prot[Branch] = None
    /\ pc \in Looping => ProtectedBelow(i)
    /\ pc \in Later \/ (pc = "idle" /\ outcome = "ok") => AllProtected

LEMMA BranchInvGivesProtected == BranchInv => OkMeansProtected
BY DEF BranchInv, OkMeansProtected, AllProtected, WantedOf

\* Nothing is claimed of a run that was disturbed or refused.
LEMMA BadEnd == ASSUME Fails \/ Refused PROVE BranchInv'
BY DEF BranchInv, Looping, Branching, Listing, Later, Approving

LEMMA BranchesFirst ==
  ASSUME pc' \in {"create", "default", "guard"} PROVE BranchInv'
BY DEF BranchInv, Looping, Branching, Listing, Later, Approving

LEMMA ApprovalsLeaveBranches ==
  ASSUME Typed, BranchInv, pc \in Later, UNCHANGED <<cfg, prot>>, disturbed' = disturbed, pc' \in Later \cup {"idle"}
  PROVE  BranchInv'
<1>1. ~disturbed' => AllProtected'
  BY DEF BranchInv, AllProtected, ProtectedRules, WantedOf
<1> QED BY <1>1 DEF BranchInv, Looping, Branching, Listing, Later, Approving

\* The branch at hand is the only one of its name.
LEMMA OtherBranches ==
  ASSUME Typed, i \in ProtectedRules, NEW k \in ProtectedRules, k # i
  PROVE  cfg.branches[k].name # Branch /\ cfg.branches[k].name \in Branches
BY BranchesOf DEF Typed, HistoryOK, ProtectedRules, Branch, NamesDiffer

\* One more branch is as configured.
LEMMA BranchDone ==
  ASSUME Typed, BranchInv, ~disturbed, pc \in Branching, UNCHANGED <<cfg, disturbed>>,
         prot' = [prot EXCEPT ![Branch] = Wanted], i' = i + 1, pc' = "get"
  PROVE  BranchInv'
<1>1. i \in ProtectedRules /\ i \in Nat /\ ProtectedBelow(i)
  BY DEF Typed, Control, LocalsOK, BranchInv, Looping
<1>2. \A k \in ProtectedRules : k \in Nat
  BY BranchesOf DEF Typed, HistoryOK, ProtectedRules
<1>3. ASSUME NEW k \in ProtectedRules, k < i + 1
      PROVE  prot'[cfg.branches[k].name] = WantedOf(k)
  <2>1. CASE k = i
    BY <1>1, <2>1, AtBranch DEF Branch, Typed, ProjectOK
  <2>2. CASE k # i
    <3>1. k < i
      BY <1>1, <1>2, <1>3, <2>2
    <3>2. cfg.branches[k].name # Branch
      BY <1>1, <2>2, OtherBranches
    <3> QED BY <1>1, <3>1, <3>2 DEF ProtectedBelow, Typed, ProjectOK
  <2> QED BY <2>1, <2>2
<1>4. ProtectedBelow(i)'
  BY <1>3 DEF ProtectedBelow, ProtectedRules, WantedOf
<1> QED BY <1>4 DEF BranchInv, Looping, Branching, Listing, Later, Approving

LEMMA GuardBranches == ASSUME Typed, BranchInv, ProtectBranchForMemberCount PROVE BranchInv'
<1> USE DEF ProtectBranchForMemberCount
<1>1. CASE Returns
  <2>1. ProtectedRules = {} /\ UNCHANGED cfg
    BY <1>1
  <2>2. AllProtected'
    BY <2>1 DEF AllProtected, ProtectedRules
  <2> QED BY <1>1, <2>2 DEF BranchInv, Looping, Branching, Listing, Later, Approving
<1>2. CASE pc' = "get" /\ i' = i
  <2>1. i' = 1 /\ \A k \in ProtectedRules' : k \in Nat /\ k >= 1
    BY <1>2, BranchesOf DEF Typed, HistoryOK, ProtectedRules, Control
  <2>2. ProtectedBelow(i)'
    BY <2>1 DEF ProtectedBelow
  <2> QED BY <1>2, <2>2 DEF BranchInv, Looping, Branching, Listing, Later, Approving
<1> QED BY <1>1, <1>2

LEMMA SkipBranches == ASSUME Typed, BranchInv, SkipUnprotected PROVE BranchInv'
<1> USE DEF SkipUnprotected
<1>1. \A k \in ProtectedRules : k \in Nat /\ k # i
  BY BranchesOf DEF Typed, HistoryOK, ProtectedRules
<1>2. ~disturbed => ProtectedBelow(i) /\ i \in Nat
  BY DEF BranchInv, Looping, Typed, LocalsOK
<1>3. ~disturbed => \A k \in ProtectedRules : k < i + 1 => prot[cfg.branches[k].name] = WantedOf(k)
  BY <1>1, <1>2 DEF ProtectedBelow
<1>4. ~disturbed => ProtectedBelow(i)'
  BY <1>3 DEF ProtectedBelow, ProtectedRules, WantedOf
<1> QED BY <1>4 DEF BranchInv, Looping, Branching, Listing, Later, Approving

LEMMA GetBranches == ASSUME Typed, BranchInv, GetProtectedBranch PROVE BranchInv'
<1> USE DEF GetProtectedBranch
<1>1. CASE Fails
  BY <1>1, BadEnd
<1>2. CASE ~Fails
  <2>1. ~disturbed => ProtectedBelow(i)'
    BY <1>2 DEF BranchInv, Looping, ProtectedBelow, ProtectedRules, WantedOf
  <2>2. /\ UNCHANGED <<cfg, prot, i, disturbed>>
        /\ \/ pc' = "unprotect" /\ (prot[Branch] = None \/ NeedsRecreate)
           \/ pc' = "update" /\ read' = prot[Branch]
    BY <1>2
  <2>3. Branch' = Branch /\ NeedsRecreate' = NeedsRecreate
    BY <2>2 DEF Branch, NeedsRecreate, Wanted
  <2> QED BY <2>1, <2>2, <2>3 DEF BranchInv, Looping, Branching, Listing, Later, Approving
<1> QED BY <1>1, <1>2

LEMMA UpdateBranches == ASSUME Typed, BranchInv, UpdateProtectedBranch PROVE BranchInv'
<1>1. CASE Fails \/ Refused
  BY <1>1, BadEnd
<1>2. CASE ~Fails /\ ~Refused
  <2>1. /\ pc = "update" /\ pc' = "get" /\ i' = i + 1 /\ UNCHANGED <<cfg, disturbed>>
        /\ prot[Branch] # None
        /\ prot' = [prot EXCEPT ![Branch] =
                      [push |-> Replaced(prot[Branch].push, read.push, Wanted.push),
                       merge |-> Replaced(prot[Branch].merge, read.merge, Wanted.merge)]]
    BY <1>2 DEF UpdateProtectedBranch
  <2>2. CASE disturbed
    BY <2>1, <2>2 DEF BranchInv
  <2>3. CASE ~disturbed
    <3>1. read = prot[Branch]
      BY <2>1, <2>3 DEF BranchInv
    <3>2. \A was, want : Replaced(was, was, want) = want
      BY DEF Replaced, Destroyed, Added
    <3>3. [push |-> Wanted.push, merge |-> Wanted.merge] = Wanted
      BY DEF Wanted
    <3>4. prot' = [prot EXCEPT ![Branch] = Wanted]
      BY <2>1, <3>1, <3>2, <3>3
    <3> QED BY <2>1, <2>3, <3>4, BranchDone DEF Branching
  <2> QED BY <2>2, <2>3
<1> QED BY <1>1, <1>2

LEMMA UnprotectBranches == ASSUME Typed, BranchInv, UnprotectRepositoryBranches PROVE BranchInv'
<1> USE DEF UnprotectRepositoryBranches
<1>1. CASE Fails
  BY <1>1, BadEnd
<1>2. CASE ~Fails
  <2>1. /\ pc' = "protect" /\ UNCHANGED <<cfg, disturbed, i>> /\ prot' = [prot EXCEPT ![Branch] = None]
        /\ i \in ProtectedRules
    BY <1>2 DEF Typed, Control, Branching
  <2>2. Branch' = Branch /\ prot'[Branch] = None
    BY <2>1, AtBranch DEF Branch, Typed, ProjectOK
  <2>3. \A k \in ProtectedRules : k < i => k # i
    BY BranchesOf DEF Typed, HistoryOK, LocalsOK, ProtectedRules
  <2>4. \A k \in ProtectedRules : k < i => prot'[cfg.branches[k].name] = prot[cfg.branches[k].name]
    BY <2>1, <2>3, OtherBranches DEF Typed, ProjectOK
  <2>5. ~disturbed => ProtectedBelow(i)'
    BY <2>1, <2>4 DEF BranchInv, Looping, Branching, ProtectedBelow, ProtectedRules, WantedOf
  <2> QED BY <2>1, <2>2, <2>5 DEF BranchInv, Looping, Branching, Listing, Later, Approving
<1> QED BY <1>1, <1>2

LEMMA ProtectBranches == ASSUME Typed, BranchInv, ProtectRepositoryBranches PROVE BranchInv'
<1>1. CASE Fails \/ Refused
  BY <1>1, BadEnd
<1>2. CASE ~Fails /\ ~Refused
  <2>1. /\ pc \in Branching /\ pc' = "get" /\ i' = i + 1 /\ UNCHANGED <<cfg, disturbed>>
        /\ prot' = [prot EXCEPT ![Branch] = Wanted]
    BY <1>2 DEF ProtectRepositoryBranches, Branching
  <2>2. CASE disturbed
    BY <2>1, <2>2 DEF BranchInv
  <2>3. CASE ~disturbed
    BY <2>1, <2>3, BranchDone
  <2> QED BY <2>2, <2>3
<1> QED BY <1>1, <1>2

LEMMA BranchesProtectedBranches == ASSUME Typed, BranchInv, BranchesProtected PROVE BranchInv'
<1> USE DEF BranchesProtected
<1>1. \A k \in ProtectedRules : k < i
  BY BranchesOf DEF Typed, HistoryOK, LocalsOK, ProtectedRules
<1>2. ~disturbed => AllProtected'
  BY <1>1 DEF BranchInv, Looping, ProtectedBelow, AllProtected, ProtectedRules, WantedOf
<1>3. UNCHANGED disturbed /\ pc' \in Later \cup {"idle"}
  BY DEF Later, Listing
<1> QED BY <1>2, <1>3 DEF BranchInv, Looping, Branching, Listing, Later, Approving

\* The steps that set approval rules.
Approve ==
  \/ ApplySettings \/ ListProtectedBranches \/ GetProjectApprovalRules
  \/ DeleteRule \/ SkipItem \/ CollectAny \/ SetRule \/ ItemsDone \/ SetAnyRule

LEMMA ApproveFacts ==
  ASSUME Approve
  PROVE  /\ pc \in Later /\ pc' \in Later \cup {"idle"} /\ Fixed
         /\ UNCHANGED <<existing, default, prot>>
         /\ Fails \/ disturbed' = disturbed
<1> USE DEF Later, Listing, Approving
<1>1. CASE ApplySettings \/ ListProtectedBranches \/ GetProjectApprovalRules
  BY <1>1 DEF ApplySettings, ListProtectedBranches, GetProjectApprovalRules
<1>2. CASE DeleteRule \/ SkipItem \/ CollectAny \/ SetRule
  BY <1>2 DEF DeleteRule, SkipItem, CollectAny, SetRule, AtItem, NextItem
<1>3. CASE ItemsDone \/ SetAnyRule
  BY <1>3 DEF ItemsDone, SetAnyRule
<1> QED BY <1>1, <1>2, <1>3 DEF Approve

LEMMA NextBranchInv == ASSUME Typed, BranchInv, [Next]_vars PROVE BranchInv'
<1>1. CASE Approve
  BY <1>1, ApproveFacts, ApprovalsLeaveBranches, BadEnd
<1>2. CASE CreateBranch \/ BranchesCreated \/ SwitchDefault
  <2>1. (Fails \/ Refused) \/ pc' \in {"create", "default", "guard"}
    BY <1>2 DEF CreateBranch, BranchesCreated, SwitchDefault
  <2> QED BY <2>1, BadEnd, BranchesFirst
<1>3. CASE \E from \in {"create", "guard"} : Start(from)
  BY <1>3, BranchesFirst DEF Start
<1>4. CASE ByHand
  BY <1>4 DEF ByHand, BranchInv
<1>5. CASE UNCHANGED vars
  BY <1>5 DEF vars, BranchInv, ProtectedBelow, AllProtected, ProtectedRules, WantedOf, Branch, NeedsRecreate, Wanted
<1> QED BY <1>1, <1>2, <1>3, <1>4, <1>5, GuardBranches, SkipBranches, GetBranches, UpdateBranches,
           UnprotectBranches, ProtectBranches, BranchesProtectedBranches
        DEF Next, Step, Approve

LEMMA InitBranchInv == Init => BranchInv
BY DEF Init, BranchInv, Looping, Branching, Listing, Later, Approving

----------------------------------------------------------------------------
(* Who can push *)

\* Who pushes where the levels for pushing are S.
PushersAt(S) == (S \ {NoOne}) \cup IF Developer \in S THEN {Maintainer} ELSE {}

\* Where a protection has the configured levels, only the configured people push.
LEMMA WantedPushers ==
  ASSUME Typed, i \in ProtectedRules
  PROVE  Pushers(Wanted) \subseteq ConfiguredPushers(Branch)
<1> DEFINE q == [push |-> {PushLevel(cfg.branches[i])}]
<1>1. Wanted # None
  BY AtBranch, ProtectBranchAssumption
<1>2. Pushers(Wanted) = PushersAt(Wanted.push)
  BY <1>1 DEF Pushers, PushersAt
<1>3. q.push = Wanted.push
  BY AtBranch
<1>4. PushersAt(q.push) \subseteq Pushers(q)
  <2>1. PushLevel(cfg.branches[i]) \in Access
    BY BranchesOf DEF Typed, HistoryOK, ProtectedRules
  <2>2. PushersAt(q.push) \subseteq {Developer, Maintainer}
    BY <2>1 DEF PushersAt, NoOne, Developer, Maintainer, Access
  <2>3. CASE q = None
    BY <2>2, <2>3 DEF Pushers
  <2>4. CASE q # None
    BY <2>4 DEF Pushers, PushersAt
  <2> QED BY <2>3, <2>4
<1>5. Pushers(q) \subseteq ConfiguredPushers(Branch)
  BY DEF ConfiguredPushers, Branch
<1> QED BY <1>2, <1>3, <1>4, <1>5

LEMMA NextPushers ==
  ASSUME Typed, BranchInv, NoExtraPushers, [Next]_vars
  PROVE  NoExtraPushers'
<1>1. SUFFICES ASSUME NEW b \in Branches, pc' # "idle", hand' = 0, ~Recreated(b)'
               PROVE  Pushers(prot'[b]) \subseteq Pushers(before'[b]) \cup ConfiguredPushers(b)'
  BY DEF NoExtraPushers
<1>2. hand = 0 /\ (pc # "idle" => ~disturbed) /\ UNCHANGED cfg
  <2>1. UNCHANGED cfg /\ (hand' = hand \/ ByHand)
    BY DEF Next, Step, vars, Start, CreateBranch, BranchesCreated, SwitchDefault, ProtectBranchForMemberCount,
           SkipUnprotected, GetProtectedBranch, UpdateProtectedBranch, UnprotectRepositoryBranches,
           ProtectRepositoryBranches, BranchesProtected, ApplySettings, ListProtectedBranches,
           GetProjectApprovalRules, DeleteRule, SkipItem, CollectAny, SetRule, ItemsDone, SetAnyRule, ByHand
  <2>2. ~ByHand
    BY <1>1 DEF ByHand, Typed, HistoryOK
  <2> QED BY <1>1, <2>1, <2>2 DEF Typed, Control
<1>3. ConfiguredPushers(b)' = ConfiguredPushers(b) /\ ~Recreated(b)
  BY <1>1, <1>2 DEF ConfiguredPushers, Recreated, ProtectedRules
<1>4. CASE UNCHANGED <<prot, before>> /\ pc # "idle"
  BY <1>2, <1>3, <1>4 DEF NoExtraPushers
<1>5. CASE \E from \in {"create", "guard"} : Start(from)
  BY <1>5 DEF Start
<1>6. CASE UpdateProtectedBranch \/ ProtectRepositoryBranches
  <2>1. i \in ProtectedRules /\ UNCHANGED before /\ pc # "idle"
    BY <1>6 DEF UpdateProtectedBranch, ProtectRepositoryBranches, Typed, Control, Branching
  <2>2. UNCHANGED prot \/ prot' = [prot EXCEPT ![Branch] = Wanted]
    <3>1. CASE ProtectRepositoryBranches
      BY <3>1 DEF ProtectRepositoryBranches
    <3>2. CASE UpdateProtectedBranch
      <4>1. read = prot[Branch]
        BY <1>2, <3>2 DEF UpdateProtectedBranch, BranchInv
      <4>2. \A was, want : Replaced(was, was, want) = want
        BY DEF Replaced, Destroyed, Added
      <4>3. [push |-> Wanted.push, merge |-> Wanted.merge] = Wanted
        BY DEF Wanted
      <4>4. \/ UNCHANGED prot
            \/ prot' = [prot EXCEPT ![Branch] =
                          [push |-> Replaced(prot[Branch].push, read.push, Wanted.push),
                           merge |-> Replaced(prot[Branch].merge, read.merge, Wanted.merge)]]
        BY <3>2 DEF UpdateProtectedBranch
      <4> QED BY <4>1, <4>2, <4>3, <4>4
    <3> QED BY <1>6, <3>1, <3>2
  <2>3. CASE prot'[b] = prot[b]
    BY <1>2, <1>3, <2>1, <2>3 DEF NoExtraPushers
  <2>4. CASE b = Branch /\ prot'[b] = Wanted
    BY <1>3, <2>1, <2>4, WantedPushers
  <2> QED BY <2>2, <2>3, <2>4 DEF Typed, ProjectOK
<1>7. CASE UnprotectRepositoryBranches
  <2>1. /\ pc = "unprotect" /\ i \in ProtectedRules /\ UNCHANGED before /\ ~disturbed
        /\ UNCHANGED prot \/ prot' = [prot EXCEPT ![Branch] = None]
    BY <1>2, <1>7 DEF UnprotectRepositoryBranches, Typed, Control, Branching
  <2>2. NeedsRecreate => Recreated(Branch)
    BY <2>1, AtBranch DEF NeedsRecreate, Recreated, Branch
  <2>3. prot'[b] = prot[b]
    <3>1. CASE b # Branch
      BY <2>1, <3>1 DEF Typed, ProjectOK
    <3>2. CASE b = Branch
      BY <1>3, <2>1, <2>2, <3>2 DEF BranchInv, Typed, ProjectOK
    <3> QED BY <3>1, <3>2
  <2> QED BY <1>2, <1>3, <2>1, <2>3 DEF NoExtraPushers
<1>8. CASE Approve \/ CreateBranch \/ BranchesCreated \/ SwitchDefault \/ ProtectBranchForMemberCount
           \/ SkipUnprotected \/ GetProtectedBranch \/ BranchesProtected
  <2>1. CASE Approve
    BY <1>4, <2>1, ApproveFacts DEF Later, Listing, Approving
  <2>2. CASE ~Approve
    BY <1>4, <1>8, <2>2 DEF CreateBranch, BranchesCreated, SwitchDefault, ProtectBranchForMemberCount,
                           SkipUnprotected, GetProtectedBranch, BranchesProtected
  <2> QED BY <2>1, <2>2
<1>9. CASE UNCHANGED vars
  BY <1>1, <1>4, <1>9 DEF vars
<1>10. ~ByHand
  BY <1>1 DEF ByHand, Typed, HistoryOK
<1> QED BY <1>5, <1>6, <1>7, <1>8, <1>9, <1>10 DEF Next, Step, Approve

\* No run lets anyone push to a branch it need not recreate who could not push before and
\* is not meant to: in place updates open no branch, not even for one call.
THEOREM UpdatesOpenNothing == Spec => []NoExtraPushers
<1> DEFINE Inv == Typed /\ BranchInv /\ NoExtraPushers
<1>1. Init => Inv
  BY InitTyped, InitBranchInv DEF Init, NoExtraPushers
<1>2. Inv /\ [Next]_vars => Inv'
  BY NextTyped, NextBranchInv, NextPushers
<1>3. Inv => NoExtraPushers
  OBVIOUS
<1> QED BY <1>1, <1>2, <1>3, PTL DEF Spec

----------------------------------------------------------------------------
(* Approval rules *)

ThisApplies(k) == Applies(cfg.items[k], cfg.per, members)

\* Which rule of the project is the any-approver rule, and what the run takes for it;
\* the one the run is going to set is that of an item.
RulesInv ==
  /\ OneAnyRule(rules)
  /\ pc \in Approving =>
       /\ AnyRules \subseteq {anyRef}
       /\ anyRef # None =>
            \/ rules[anyRef] = None
            \/ rules[anyRef].any
            \/ \E k \in DOMAIN cfg.items : cfg.items[k].name = anyRef
  /\ anyCfg # None =>
       \E k \in DOMAIN cfg.items :
         /\ cfg.items[k].name = anyCfg.name /\ cfg.items[k].who = {} /\ cfg.items[k].required > 0
         /\ cfg.items[k].required = anyCfg.required
         /\ ThisApplies(k)

LEMMA InitRulesInv == Init => RulesInv
BY ProtectBranchAssumption DEF Init, RulesInv, Approving

\* Rules go or stay of their kind.
Thinner == \A n \in RuleNames : rules'[n] # None => rules[n] # None /\ rules'[n].any = rules[n].any

LEMMA ThinnerKeeps ==
  ASSUME Thinner, RulesInv, UNCHANGED <<cfg, members>>, LocalsOK,
         (UNCHANGED <<anyRef, anyCfg>> /\ pc \in Approving) \/ pc' \notin Approving,
         anyCfg' \in {anyCfg, None}
  PROVE  RulesInv'
<1>1. OneAnyRule(rules)'
  BY DEF Thinner, RulesInv, OneAnyRule
<1>2. ASSUME pc' \in Approving
      PROVE  /\ AnyRules' \subseteq {anyRef'}
             /\ anyRef' # None =>
                  \/ rules'[anyRef'] = None
                  \/ rules'[anyRef'].any
                  \/ \E k \in DOMAIN cfg'.items : cfg'.items[k].name = anyRef'
  <2>1. pc \in Approving /\ anyRef' = anyRef
    BY <1>2
  <2>2. AnyRules' \subseteq AnyRules
    BY DEF AnyRules, Thinner
  <2>3. anyRef # None => anyRef \in RuleNames
    BY DEF LocalsOK
  <2> QED BY <2>1, <2>2, <2>3 DEF RulesInv, Thinner
<1>3. anyCfg' # None =>
        \E k \in DOMAIN cfg'.items :
          /\ cfg'.items[k].name = anyCfg'.name /\ cfg'.items[k].who = {} /\ cfg'.items[k].required > 0
          /\ cfg'.items[k].required = anyCfg'.required
          /\ ThisApplies(k)'
  BY DEF RulesInv, ThisApplies
<1> QED BY <1>1, <1>2, <1>3 DEF RulesInv

LEMMA ListRules == ASSUME Typed, RulesInv, GetProjectApprovalRules PROVE RulesInv'
<1> USE DEF GetProjectApprovalRules
<1>1. CASE Fails
  <2>1. Thinner /\ UNCHANGED <<cfg, members>> /\ pc' \notin Approving /\ anyCfg' = None
    BY <1>1 DEF Thinner, Approving
  <2> QED BY <2>1, ThinnerKeeps DEF Typed
<1>2. CASE ~Fails
  <2>1. /\ UNCHANGED <<cfg, members, rules>> /\ anyCfg' = anyCfg
        /\ \/ AnyRules = {} /\ anyRef' = None
           \/ anyRef' \in AnyRules
    BY <1>2
  <2>2. OneAnyRule(rules)' /\ AnyRules' = AnyRules
    BY <2>1 DEF RulesInv, OneAnyRule, AnyRules
  <2>3. AnyRules' \subseteq {anyRef'}
    BY <2>1, <2>2 DEF RulesInv, OneAnyRule, AnyRules
  <2>4. anyRef' # None => rules'[anyRef'].any
    BY <2>1 DEF AnyRules
  <2>5. anyCfg' = None
    BY <2>1 DEF Typed, Control, Approving
  <2> QED BY <2>2, <2>3, <2>4, <2>5 DEF RulesInv
<1> QED BY <1>1, <1>2

LEMMA DeleteRules == ASSUME Typed, RulesInv, DeleteRule PROVE RulesInv'
<1>1. Thinner
  BY TheItem DEF DeleteRule, Thinner, Typed, ProjectOK, Rules
<1>2. /\ UNCHANGED <<cfg, members>> /\ pc \in Approving
      /\ UNCHANGED <<anyRef, anyCfg>> \/ (pc' \notin Approving /\ anyCfg' = None)
  BY DEF DeleteRule, AtItem, NextItem, Approving
<1> QED BY <1>1, <1>2, ThinnerKeeps DEF Typed

LEMMA CollectRules == ASSUME Typed, RulesInv, CollectAny PROVE RulesInv'
<1> USE DEF CollectAny
<1>1. CASE Refused
  <2>1. Thinner /\ UNCHANGED <<cfg, members>> /\ pc' \notin Approving /\ anyCfg' = None
    BY <1>1 DEF Thinner, Approving
  <2> QED BY <2>1, ThinnerKeeps DEF Typed
<1>2. CASE ~Refused
  <2>1. UNCHANGED <<cfg, members, rules, anyRef>> /\ pc = "items"
    BY <1>2 DEF NextItem, AtItem
  <2>2. anyCfg' # None =>
          \E k \in DOMAIN cfg.items :
            /\ cfg.items[k].name = anyCfg'.name /\ cfg.items[k].who = {} /\ cfg.items[k].required > 0
            /\ cfg.items[k].required = anyCfg'.required
            /\ ThisApplies(k)
    <3>1. CASE anyCfg' = [name |-> This.name, required |-> This.required, scope |-> {This.branch}]
      <4>1. This.required > 0 /\ This.who = {} /\ ThisApplies(i)
        BY TheItem DEF IsAny, IsClear, Applied, ThisApplies
      <4> QED BY <3>1, <4>1, TheItem
    <3>2. CASE anyCfg # None /\ anyCfg' = [anyCfg EXCEPT !.scope = @ \cup {This.branch}]
      <4>1. anyCfg'.name = anyCfg.name /\ anyCfg'.required = anyCfg.required
        BY <3>2 DEF Typed, LocalsOK, Collected
      <4> QED BY <3>2, <4>1 DEF RulesInv
    <3> QED BY <1>2, <3>1, <3>2
  <2>3. AnyRules' = AnyRules /\ OneAnyRule(rules)'
    BY <2>1 DEF AnyRules, RulesInv, OneAnyRule
  <2>4. /\ AnyRules' \subseteq {anyRef'}
        /\ anyRef' # None =>
             \/ rules'[anyRef'] = None
             \/ rules'[anyRef'].any
             \/ \E k \in DOMAIN cfg'.items : cfg'.items[k].name = anyRef'
    BY <2>1, <2>3 DEF RulesInv, Approving
  <2>5. anyCfg' # None =>
          \E k \in DOMAIN cfg'.items :
            /\ cfg'.items[k].name = anyCfg'.name /\ cfg'.items[k].who = {} /\ cfg'.items[k].required > 0
          /\ cfg'.items[k].required = anyCfg'.required
            /\ ThisApplies(k)'
    BY <2>1, <2>2 DEF ThisApplies
  <2> QED BY <2>3, <2>4, <2>5 DEF RulesInv
<1> QED BY <1>1, <1>2

\* What SetRule makes of the rules: one rule is set, and is of the kind it was.
LEMMA SetRuleEffect ==
  ASSUME Typed, SetRule
  PROVE  \/ UNCHANGED rules
         \/ /\ rules' = [rules EXCEPT ![This.name] = RuleSet(This.name \in byName)]
            /\ This.name \in byName <=> rules[This.name] # None
            /\ RuleSet(This.name \in byName) \in Rule /\ RuleSet(This.name \in byName) # None
<1>1. CASE UNCHANGED rules
  BY <1>1
<1>2. CASE /\ (This.name \in byName) = (rules[This.name] # None)
           /\ rules' = [rules EXCEPT ![This.name] =
                          [any |-> IF This.name \in byName THEN @.any ELSE FALSE, required |-> This.required,
                           who |-> This.who, scope |-> {This.branch}]]
  BY <1>2, RuleSetIsARule, ProtectBranchAssumption DEF RuleSet, SetRule
<1> QED BY <1>1, <1>2 DEF SetRule

LEMMA SetRules == ASSUME Typed, RulesInv, SetRule PROVE RulesInv'
<1>1. /\ UNCHANGED <<cfg, members>> /\ pc \in Approving
      /\ UNCHANGED <<anyRef, anyCfg>> \/ (pc' \notin Approving /\ anyCfg' = None)
  BY DEF SetRule, AtItem, NextItem, Approving
<1>2. CASE UNCHANGED rules
  BY <1>1, <1>2, ThinnerKeeps DEF Thinner, Typed
<1>3. CASE ~UNCHANGED rules
  <2>1. \A n \in RuleNames :
          /\ n # This.name => rules'[n] = rules[n]
          /\ rules'[n] # None /\ rules'[n].any => rules[n] # None /\ rules[n].any
    <3> DEFINE known == This.name \in byName
    <3>1. rules' = [rules EXCEPT ![This.name] = RuleSet(known)] /\ (known <=> rules[This.name] # None)
      BY <1>3, SetRuleEffect
    <3>2. RuleSet(known).any = IF known THEN rules[This.name].any ELSE FALSE
      BY DEF RuleSet
    <3>3. DOMAIN rules = RuleNames /\ This.name \in RuleNames
      BY TheItem DEF SetRule, Typed, ProjectOK, Rules
    <3>4. rules'[This.name] = RuleSet(known) /\ \A n \in RuleNames : n # This.name => rules'[n] = rules[n]
      BY <3>1, <3>3
    <3> HIDE DEF known
    <3> QED BY <3>1, <3>2, <3>4
  <2>2. AnyRules' \subseteq AnyRules /\ OneAnyRule(rules)'
    BY <2>1 DEF AnyRules, RulesInv, OneAnyRule
  <2>3. \E k \in DOMAIN cfg.items : cfg.items[k].name = This.name
    BY TheItem DEF SetRule
  <2>4. ASSUME pc' \in Approving
        PROVE  /\ AnyRules' \subseteq {anyRef'}
               /\ anyRef' # None =>
                    \/ rules'[anyRef'] = None
                    \/ rules'[anyRef'].any
                    \/ \E k \in DOMAIN cfg'.items : cfg'.items[k].name = anyRef'
    <3>1. anyRef' = anyRef /\ (anyRef # None => anyRef \in RuleNames)
      BY <1>1, <2>4 DEF Typed, LocalsOK
    <3> QED BY <1>1, <2>1, <2>2, <2>3, <3>1 DEF RulesInv
  <2>5. anyCfg' # None =>
          \E k \in DOMAIN cfg'.items :
            /\ cfg'.items[k].name = anyCfg'.name /\ cfg'.items[k].who = {} /\ cfg'.items[k].required > 0
          /\ cfg'.items[k].required = anyCfg'.required
            /\ ThisApplies(k)'
    BY <1>1 DEF ThisApplies, RulesInv
  <2> QED BY <2>2, <2>4, <2>5 DEF RulesInv
<1> QED BY <1>2, <1>3

LEMMA SetAnyEffect ==
  ASSUME Typed, SetAnyRule
  PROVE  /\ pc = "any" /\ pc' = "idle" /\ anyCfg' = None /\ UNCHANGED <<cfg, members, prot>>
         /\ \/ UNCHANGED rules
            \/ rules' = WithAnyRule
BY DEF SetAnyRule, WithAnyRule

LEMMA SetAnyRules == ASSUME Typed, RulesInv, SetAnyRule PROVE RulesInv'
<1>1. CASE UNCHANGED rules
  BY <1>1, SetAnyEffect, ThinnerKeeps DEF Thinner, Typed, Approving
<1>2. CASE rules' = WithAnyRule
  <2>1. \A n \in RuleNames : rules'[n] # None /\ rules'[n].any => n = anyCfg.name
    BY <1>2, SetAnyEffect DEF WithAnyRule, RulesInv, AnyRules, Approving
  <2> QED BY <2>1, SetAnyEffect DEF RulesInv, OneAnyRule, Approving
<1> QED BY <1>1, <1>2, SetAnyEffect

LEMMA OtherRules ==
  ASSUME Typed, RulesInv, [Next]_vars,
         ~(GetProjectApprovalRules \/ DeleteRule \/ CollectAny \/ SetRule \/ SetAnyRule)
  PROVE  RulesInv'
<1>1. CASE UnprotectRepositoryBranches
  <2>1. rules' \in {rules, Unscoped(rules, Branch)}
    BY <1>1 DEF UnprotectRepositoryBranches, Unscoped
  <2>2. Thinner
    BY <2>1, UnscopedRules DEF Thinner, Typed, ProjectOK
  <2>3. UNCHANGED <<cfg, members>> /\ pc' \notin Approving /\ anyCfg' \in {anyCfg, None}
    BY <1>1 DEF UnprotectRepositoryBranches, Approving
  <2> QED BY <2>2, <2>3, ThinnerKeeps DEF Typed
<1>2. CASE ByHand
  <2>1. Thinner
    BY <1>2 DEF ByHand, Thinner, Typed, ProjectOK, Rules
  <2>2. UNCHANGED <<cfg, members, pc, anyRef, anyCfg>>
    BY <1>2 DEF ByHand
  <2> QED BY <2>1, <2>2, ThinnerKeeps DEF Typed
<1>3. CASE UNCHANGED <<cfg, members, rules, anyCfg, anyRef, pc>>
  BY <1>3, ThinnerKeeps DEF Typed, Thinner
<1>4. CASE SkipItem \/ ItemsDone
  <2>1. /\ UNCHANGED <<cfg, members, rules>> /\ pc \in Approving
        /\ \/ UNCHANGED <<anyRef, anyCfg>>
           \/ pc' \notin Approving /\ anyCfg' = None
    BY <1>4 DEF SkipItem, ItemsDone, NextItem, AtItem, Approving
  <2> QED BY <2>1, ThinnerKeeps DEF Typed, Thinner
<1>5. CASE CreateBranch \/ BranchesCreated \/ SwitchDefault \/ ProtectBranchForMemberCount
           \/ SkipUnprotected \/ GetProtectedBranch \/ UpdateProtectedBranch \/ ProtectRepositoryBranches
           \/ BranchesProtected \/ ApplySettings \/ ListProtectedBranches
  <2>1. UNCHANGED <<cfg, members, rules>> /\ pc' \notin Approving /\ anyCfg' \in {anyCfg, None}
    BY <1>5 DEF CreateBranch, BranchesCreated, SwitchDefault, ProtectBranchForMemberCount, SkipUnprotected,
       GetProtectedBranch, UpdateProtectedBranch, ProtectRepositoryBranches, BranchesProtected, ApplySettings,
       ListProtectedBranches, Approving
  <2> QED BY <2>1, ThinnerKeeps DEF Typed, Thinner
<1>6. CASE \E from \in {"create", "guard"} : Start(from)
  <2>1. UNCHANGED <<cfg, members, rules, anyCfg>> /\ pc' \notin Approving
    BY <1>6 DEF Start, Approving
  <2> QED BY <2>1, ThinnerKeeps DEF Typed, Thinner
<1> QED BY <1>1, <1>2, <1>3, <1>4, <1>5, <1>6 DEF Next, Step, vars

LEMMA NextRulesInv == ASSUME Typed, RulesInv, [Next]_vars PROVE RulesInv'
BY ListRules, DeleteRules, CollectRules, SetRules, SetAnyRules, OtherRules

\* A rule no item names is left as it is.
LEMMA NextForeign ==
  ASSUME Typed, RulesInv, [Next]_vars, hand' = hand, NEW n \in RuleNames,
         rules[n] # None, ~rules[n].any, \A k \in DOMAIN cfg.items : cfg.items[k].name # n
  PROVE  rules'[n] # None /\ rules'[n].who = rules[n].who /\ rules'[n].required = rules[n].required
<1>1. CASE UNCHANGED rules
  BY <1>1
<1>2. CASE UnprotectRepositoryBranches
  <2>1. rules' \in {rules, Unscoped(rules, Branch)}
    BY <1>2 DEF UnprotectRepositoryBranches, Unscoped
  <2> QED BY <2>1, UnscopedRules DEF Typed, ProjectOK
<1>3. CASE DeleteRule \/ SetRule
  <2>1. This.name # n /\ \A m \in RuleNames : m # This.name => rules'[m] = rules[m]
    BY <1>3, TheItem DEF DeleteRule, SetRule, Typed, ProjectOK, Rules
  <2> QED BY <2>1
<1>4. CASE SetAnyRule
  <2>1. n # anyCfg.name /\ n # anyRef
    <3>1. pc = "any" /\ anyCfg # None
      BY <1>4, SetAnyEffect DEF Typed, Control
    <3>2. n # anyCfg.name
      BY <3>1 DEF RulesInv
    <3>3. n # None
      BY ProtectBranchAssumption
    <3>4. n # anyRef
      BY <3>1, <3>3 DEF RulesInv, Approving
    <3> QED BY <3>2, <3>4
  <2> QED BY <1>4, <2>1, SetAnyEffect DEF WithAnyRule
<1>5. CASE ByHand
  BY <1>5 DEF ByHand, Typed, HistoryOK
<1>6. CASE CreateBranch \/ BranchesCreated \/ SwitchDefault \/ ProtectBranchForMemberCount
           \/ SkipUnprotected \/ GetProtectedBranch \/ UpdateProtectedBranch \/ ProtectRepositoryBranches
           \/ BranchesProtected \/ ApplySettings \/ ListProtectedBranches \/ GetProjectApprovalRules
           \/ SkipItem \/ CollectAny \/ ItemsDone \/ (\E from \in {"create", "guard"} : Start(from))
  BY <1>1, <1>6 DEF CreateBranch, BranchesCreated, SwitchDefault, ProtectBranchForMemberCount, SkipUnprotected,
     GetProtectedBranch, UpdateProtectedBranch, ProtectRepositoryBranches, BranchesProtected, ApplySettings,
     ListProtectedBranches, GetProjectApprovalRules, SkipItem, CollectAny, ItemsDone, Start
<1> QED BY <1>1, <1>2, <1>3, <1>4, <1>5, <1>6 DEF Next, Step, vars

\* No run changes an approval rule it has no item for.
THEOREM OthersRulesStay == Spec => ForeignRulesStay
<1> DEFINE Inv == Typed /\ RulesInv
<1>1. Init => Inv
  BY InitTyped, InitRulesInv
<1>2. Inv /\ [Next]_vars => Inv'
  BY NextTyped, NextRulesInv
<1> DEFINE Kept ==
      hand' = hand =>
        \A n \in RuleNames :
          /\ rules[n] # None /\ ~rules[n].any
          /\ \A k \in DOMAIN cfg.items : cfg.items[k].name # n
          => /\ rules'[n] # None
             /\ rules'[n].who = rules[n].who /\ rules'[n].required = rules[n].required
<1>3. Inv /\ [Next]_vars => [Kept]_vars
  BY NextForeign
<1>4. Spec => [][Kept]_vars
  <2> HIDE DEF Inv, Kept
  <2> QED BY <1>1, <1>2, <1>3, PTL DEF Spec
<1> QED BY <1>4 DEF ForeignRulesStay

----------------------------------------------------------------------------
(* The kinds of the rules *)

\* A rule with a configured name stays of the kind the run found it of.
KindInv ==
  NamesDistinct /\ KindsAgree =>
    \A k \in DOMAIN cfg.items :
      rules[cfg.items[k].name] # None => rules[cfg.items[k].name].any = (cfg.items[k].who = {})

LEMMA InitKindInv == Init => KindInv
BY DEF Init, KindInv, KindsAgree

LEMMA ThinnerKinds ==
  ASSUME Typed, KindInv, Thinner, UNCHANGED <<cfg, found>> PROVE KindInv'
<1>1. NamesDistinct' = NamesDistinct /\ KindsAgree' = KindsAgree
  BY DEF NamesDistinct, KindsAgree
<1>2. \A k \in DOMAIN cfg.items : cfg.items[k].name \in RuleNames
  BY ItemsOf DEF Typed, HistoryOK
<1> QED BY <1>1, <1>2 DEF KindInv, Thinner

LEMMA SetRuleKinds == ASSUME Typed, KindInv, SetRule PROVE KindInv'
<1>1. UNCHANGED <<cfg, found>> /\ NamesDistinct' = NamesDistinct /\ KindsAgree' = KindsAgree
  BY DEF SetRule, NamesDistinct, KindsAgree
<1>2. CASE UNCHANGED rules
  BY <1>1, <1>2, ThinnerKinds DEF Thinner
<1>3. CASE ~UNCHANGED rules
  <2> DEFINE known == This.name \in byName
  <2>1. rules' = [rules EXCEPT ![This.name] = RuleSet(known)] /\ (known <=> rules[This.name] # None)
    BY <1>3, SetRuleEffect
  <2>2. RuleSet(known).any = IF known THEN rules[This.name].any ELSE FALSE
    BY DEF RuleSet
  <2>3. DOMAIN rules = RuleNames /\ This.name \in RuleNames /\ This = cfg.items[i] /\ i \in DOMAIN cfg.items
    BY TheItem DEF SetRule, Typed, ProjectOK, Rules
  <2>4. rules'[This.name] = RuleSet(known) /\ \A n \in RuleNames : n # This.name => rules'[n] = rules[n]
    BY <2>1, <2>3
  <2>5. This.who # {}
    BY DEF SetRule, IsAny
  <2>6. ASSUME NamesDistinct, KindsAgree, NEW k \in DOMAIN cfg.items, rules'[cfg.items[k].name] # None
        PROVE  rules'[cfg.items[k].name].any = (cfg.items[k].who = {})
    <3> HIDE DEF known
    <3>1. CASE k = i
      <4>1. known => rules[This.name].any = (This.who = {})
        BY <2>1, <2>3, <2>6 DEF KindInv
      <4>2. (This.who = {}) = FALSE
        BY <2>5
      <4>3. RuleSet(known).any = FALSE
        BY <2>2, <4>1, <4>2
      <4> QED BY <2>3, <2>4, <3>1, <4>2, <4>3
    <3>2. CASE k # i
      <4>1. cfg.items[k].name # This.name /\ cfg.items[k].name \in RuleNames
        BY <2>3, <2>6, <3>2, ItemsOf DEF NamesDistinct, NamesDiffer, Typed, HistoryOK
      <4>2. rules'[cfg.items[k].name] = rules[cfg.items[k].name]
        BY <2>4, <4>1
      <4> QED BY <2>6, <4>2 DEF KindInv
    <3> QED BY <3>1, <3>2
  <2> QED BY <1>1, <2>6 DEF KindInv
<1> QED BY <1>2, <1>3

LEMMA SetAnyKinds == ASSUME Typed, RulesInv, KindInv, SetAnyRule PROVE KindInv'
<1>1. UNCHANGED <<cfg, found>> /\ NamesDistinct' = NamesDistinct /\ KindsAgree' = KindsAgree
  BY DEF SetAnyRule, NamesDistinct, KindsAgree
<1>2. CASE UNCHANGED rules
  BY <1>1, <1>2, ThinnerKinds DEF Thinner
<1>3. CASE rules' = WithAnyRule
  <2>1. PICK j \in DOMAIN cfg.items : cfg.items[j].name = anyCfg.name /\ cfg.items[j].who = {}
    BY SetAnyEffect DEF RulesInv, Typed, Control
  <2>2. ASSUME NamesDistinct, KindsAgree, NEW k \in DOMAIN cfg.items, rules'[cfg.items[k].name] # None
        PROVE  rules'[cfg.items[k].name].any = (cfg.items[k].who = {})
    <3>1. cfg.items[k].name \in RuleNames
      BY ItemsOf DEF Typed, HistoryOK
    <3>2. CASE k = j
      <4>1. rules'[cfg.items[k].name].any = TRUE
        BY <1>3, <2>1, <3>1, <3>2 DEF WithAnyRule, AnyRule
      <4> QED BY <2>1, <3>2, <4>1
    <3>3. CASE k # j
      <4>1. cfg.items[k].name # anyCfg.name
        BY <2>1, <2>2, <3>3 DEF NamesDistinct, NamesDiffer
      <4>2. rules'[cfg.items[k].name] = rules[cfg.items[k].name]
        BY <1>3, <2>2, <3>1, <4>1 DEF WithAnyRule
      <4> QED BY <2>2, <4>2 DEF KindInv
    <3> QED BY <3>2, <3>3
  <2> QED BY <1>1, <2>2 DEF KindInv
<1> QED BY <1>2, <1>3, SetAnyEffect

\* What the other steps do to the rules.
LEMMA OthersThin ==
  ASSUME Typed, Step \/ ByHand \/ UNCHANGED vars, ~SetRule, ~SetAnyRule
  PROVE  Thinner /\ UNCHANGED <<cfg, members, found>>
<1>1. CASE UnprotectRepositoryBranches
  <2>1. rules' \in {rules, Unscoped(rules, Branch)} /\ UNCHANGED <<cfg, members, found>>
    BY <1>1 DEF UnprotectRepositoryBranches, Unscoped
  <2> QED BY <2>1, UnscopedRules DEF Thinner, Typed, ProjectOK
<1>2. CASE ByHand
  BY <1>2 DEF ByHand, Thinner, Typed, ProjectOK, Rules
<1>3. CASE DeleteRule
  BY <1>3, TheItem DEF DeleteRule, Thinner, Typed, ProjectOK, Rules
<1>4. CASE CreateBranch \/ BranchesCreated \/ SwitchDefault \/ ProtectBranchForMemberCount
           \/ SkipUnprotected \/ GetProtectedBranch \/ UpdateProtectedBranch \/ ProtectRepositoryBranches
           \/ BranchesProtected \/ ApplySettings \/ ListProtectedBranches \/ GetProjectApprovalRules
           \/ SkipItem \/ CollectAny \/ ItemsDone \/ UNCHANGED vars
  <2>1. UNCHANGED <<rules, cfg, members, found>>
    BY <1>4 DEF CreateBranch, BranchesCreated, SwitchDefault, ProtectBranchForMemberCount, SkipUnprotected,
       GetProtectedBranch, UpdateProtectedBranch, ProtectRepositoryBranches, BranchesProtected, ApplySettings,
       ListProtectedBranches, GetProjectApprovalRules, SkipItem, CollectAny, ItemsDone, vars
  <2> QED BY <2>1 DEF Thinner
<1> QED BY <1>1, <1>2, <1>3, <1>4 DEF Step

LEMMA NextKindInv == ASSUME Typed, RulesInv, KindInv, [Next]_vars PROVE KindInv'
<1>1. CASE \E from \in {"create", "guard"} : Start(from)
  BY <1>1 DEF Start, KindInv, KindsAgree, NamesDistinct
<1>2. CASE (Step \/ ByHand \/ UNCHANGED vars) /\ ~SetRule /\ ~SetAnyRule
  BY <1>2, OthersThin, ThinnerKinds
<1> QED BY <1>1, <1>2, SetRuleKinds, SetAnyKinds DEF Next

----------------------------------------------------------------------------
(* Which items are carried out *)

AnyBelow(m) == {k \in AnyItems : k < m}

\* The rules below the item at hand are as configured, and what was listed is true
\* of those above.
ItemsInv ==
  ~disturbed =>
    /\ pc \in {"listRules"} \cup Approving => listed = {b \in Branches : prot[b] # None}
    /\ NamesDistinct /\ pc \in Approving =>
         /\ \A k \in DOMAIN cfg.items :
              /\ k >= i => (cfg.items[k].name \in byName <=> rules[cfg.items[k].name] # None)
              /\ k < i => ItemConfigured(cfg.items[k])
         /\ anyCfg = None => AnyBelow(i) = {}
         /\ anyCfg # None =>
              /\ anyCfg.scope = {cfg.items[k].branch : k \in AnyBelow(i)}
              /\ \A k \in AnyBelow(i) : anyCfg.required = cfg.items[k].required

LEMMA InitItemsInv == Init => ItemsInv
BY DEF Init, ItemsInv, Approving

\* Only the steps of the approvals say anything of the items.
LEMMA NotApproving ==
  ASSUME pc' \notin {"listRules"} \cup Approving PROVE ItemsInv'
BY DEF ItemsInv

\* A rule is as configured while the rule and the protections stay.
LEMMA ConfiguredStays ==
  ASSUME NEW k, ItemConfigured(cfg.items[k]), UNCHANGED <<cfg, members, prot>>,
         rules'[cfg.items[k].name] = rules[cfg.items[k].name]
  PROVE  ItemConfigured(cfg.items[k])'
BY DEF ItemConfigured

\* Items whose rules are of one kind only, by where they are.
LEMMA AnyItemsStay ==
  ASSUME UNCHANGED <<cfg, members, prot>> PROVE AnyItems' = AnyItems
BY DEF AnyItems

LEMMA ListItems == ASSUME Typed, ItemsInv, ListProtectedBranches PROVE ItemsInv'
BY DEF ListProtectedBranches, ItemsInv, Approving

LEMMA ListRulesItems == ASSUME Typed, ItemsInv, GetProjectApprovalRules PROVE ItemsInv'
<1> USE DEF GetProjectApprovalRules
<1>1. CASE Fails
  BY <1>1, NotApproving DEF Approving
<1>2. CASE ~Fails
  <2>1. /\ UNCHANGED <<cfg, members, prot, rules, listed, disturbed, anyCfg, i>> /\ pc = "listRules"
        /\ i = 1 /\ anyCfg = None /\ byName' = {n \in RuleNames : rules[n] # None}
    BY <1>2 DEF Typed, Control, Approving
  <2>2. ~disturbed => listed' = {b \in Branches : prot'[b] # None}
    BY <2>1 DEF ItemsInv
  <2>3. \A k \in DOMAIN cfg.items : k \in Nat /\ k >= 1 /\ cfg.items[k].name \in RuleNames
    BY ItemsOf DEF Typed, HistoryOK
  <2>4. AnyBelow(i)' = {}
    BY <2>1, <2>3 DEF AnyBelow, AnyItems
  <2>5. \A k \in DOMAIN cfg'.items :
          /\ k >= i' => (cfg'.items[k].name \in byName' <=> rules'[cfg'.items[k].name] # None)
          /\ k < i' => ItemConfigured(cfg.items[k])'
    BY <2>1, <2>3
  <2> QED BY <2>1, <2>2, <2>4, <2>5 DEF ItemsInv
<1> QED BY <1>1, <1>2

\* The next item: the rules of the others stay, that of this one is as configured, and
\* the any-approver rule has been added to if the item adds to it.
LEMMA ItemDone ==
  ASSUME Typed, ItemsInv, AtItem, NextItem, UNCHANGED <<cfg, members, prot, disturbed>>,
         NamesDistinct /\ ~disturbed =>
           /\ \A k \in DOMAIN cfg.items : k # i => rules'[cfg.items[k].name] = rules[cfg.items[k].name]
           /\ \A k \in DOMAIN cfg.items : k # i => (cfg.items[k].name \in byName' <=> cfg.items[k].name \in byName)
           /\ \A k \in DOMAIN cfg.items : k = i => ItemConfigured(cfg.items[k])'
           /\ \/ anyCfg' = anyCfg /\ i \notin AnyItems
              \/ /\ i \in AnyItems /\ anyCfg' # None /\ anyCfg'.required = This.required
                 /\ \/ anyCfg = None /\ anyCfg'.scope = {This.branch}
                    \/ /\ anyCfg # None /\ anyCfg.required = This.required
                       /\ anyCfg'.scope = anyCfg.scope \cup {This.branch}
  PROVE  ItemsInv'
<1>1. pc = "items" /\ i' = i + 1 /\ UNCHANGED <<listed, cfg>> /\ pc' = "items"
  BY DEF AtItem, NextItem
<1>2. ~disturbed => listed' = {b \in Branches : prot'[b] # None}
  BY <1>1 DEF ItemsInv, Approving
<1>3. ASSUME ~disturbed, NamesDistinct
      PROVE  /\ \A k \in DOMAIN cfg.items :
                  /\ k >= i + 1 => (cfg.items[k].name \in byName' <=> rules'[cfg.items[k].name] # None)
                  /\ k < i + 1 => ItemConfigured(cfg.items[k])'
             /\ anyCfg' = None => AnyBelow(i + 1) = {}
             /\ anyCfg' # None =>
                  /\ anyCfg'.scope = {cfg.items[k].branch : k \in AnyBelow(i + 1)}
                  /\ \A k \in AnyBelow(i + 1) : anyCfg'.required = cfg.items[k].required
  <2>1. i \in Nat /\ DOMAIN cfg.items \subseteq Nat /\ i \in DOMAIN cfg.items /\ This = cfg.items[i]
    BY TheItem, ItemsOf DEF Typed, LocalsOK, HistoryOK
  <2>2. /\ \A k \in DOMAIN cfg.items :
             /\ k >= i => (cfg.items[k].name \in byName <=> rules[cfg.items[k].name] # None)
             /\ k < i => ItemConfigured(cfg.items[k])
        /\ anyCfg = None => AnyBelow(i) = {}
        /\ anyCfg # None =>
             /\ anyCfg.scope = {cfg.items[k].branch : k \in AnyBelow(i)}
             /\ \A k \in AnyBelow(i) : anyCfg.required = cfg.items[k].required
    BY <1>1, <1>3 DEF ItemsInv, Approving
  <2>3. ASSUME NEW k \in DOMAIN cfg.items
        PROVE  /\ k >= i + 1 => (cfg.items[k].name \in byName' <=> rules'[cfg.items[k].name] # None)
               /\ k < i + 1 => ItemConfigured(cfg.items[k])'
    <3>1. ASSUME k >= i + 1 PROVE cfg.items[k].name \in byName' <=> rules'[cfg.items[k].name] # None
      <4>1. k # i /\ k >= i
        BY <2>1, <3>1
      <4> QED BY <1>3, <2>2, <4>1
    <3>2. ASSUME k < i + 1, k # i PROVE ItemConfigured(cfg.items[k])'
      <4>1. k < i
        BY <2>1, <3>2
      <4> QED BY <1>3, <2>2, <3>2, <4>1, ConfiguredStays
    <3>3. ASSUME k = i PROVE ItemConfigured(cfg.items[k])'
      BY <1>3, <3>3
    <3> QED BY <3>1, <3>2, <3>3
  <2>4. AnyItems \subseteq DOMAIN cfg.items
    BY DEF AnyItems
  <2>5. AnyBelow(i + 1) = AnyBelow(i) \cup (AnyItems \cap {i})
    BY <2>1, <2>4 DEF AnyBelow
  <2>6. CASE anyCfg' = anyCfg /\ i \notin AnyItems
    <3>1. AnyBelow(i + 1) = AnyBelow(i)
      BY <2>5, <2>6
    <3> QED BY <2>2, <2>3, <2>6, <3>1
  <2>7. CASE /\ i \in AnyItems /\ anyCfg' # None /\ anyCfg'.required = This.required
             /\ \/ anyCfg = None /\ anyCfg'.scope = {This.branch}
                \/ /\ anyCfg # None /\ anyCfg.required = This.required
                   /\ anyCfg'.scope = anyCfg.scope \cup {This.branch}
    <3>1. AnyBelow(i + 1) = AnyBelow(i) \cup {i}
      BY <2>5, <2>7
    <3>2. anyCfg'.scope = {cfg.items[k].branch : k \in AnyBelow(i + 1)}
      BY <2>1, <2>2, <2>7, <3>1
    <3>3. \A k \in AnyBelow(i + 1) : anyCfg'.required = cfg.items[k].required
      BY <2>1, <2>2, <2>7, <3>1
    <3> QED BY <2>3, <2>7, <3>2, <3>3
  <2> QED BY <1>3, <2>6, <2>7
<1>4. AnyBelow(i)' = AnyBelow(i + 1)
  BY <1>1, AnyItemsStay DEF AnyBelow
<1>5. NamesDistinct' = NamesDistinct
  BY DEF NamesDistinct
<1> QED BY <1>1, <1>2, <1>3, <1>4, <1>5 DEF ItemsInv

\* The other items have other names.
LEMMA OtherItems ==
  ASSUME Typed, AtItem, NamesDistinct, NEW k \in DOMAIN cfg.items, k # i
  PROVE  cfg.items[k].name # This.name /\ cfg.items[k].name \in RuleNames
BY TheItem, ItemsOf DEF NamesDistinct, NamesDiffer, Typed, HistoryOK

\* The item at hand, in the words of the properties.
LEMMA ThisItem ==
  ASSUME Typed, ItemsInv, AtItem, ~disturbed
  PROVE  /\ Applied = ThisApplies(i)
         /\ This.branch \in listed <=> prot[This.branch] # None
         /\ i \in AnyItems <=> Applied /\ This.branch \in listed /\ IsAny /\ ~IsClear
<1>1. This.branch \in listed <=> prot[This.branch] # None
  BY TheItem DEF ItemsInv, Approving, AtItem
<1>2. This.required > 0 <=> This.required # 0
  BY TheItem
<1> QED BY <1>1, <1>2, TheItem DEF Applied, ThisApplies, AnyItems, IsAny, IsClear

LEMMA DeleteItems == ASSUME Typed, ItemsInv, DeleteRule PROVE ItemsInv'
<1>1. CASE Fails \/ Refused
  BY <1>1, NotApproving DEF Approving
<1>2. CASE ~(Fails \/ Refused)
  <2>1. /\ AtItem /\ NextItem /\ UNCHANGED <<cfg, members, prot, disturbed, anyCfg>> /\ ToDelete
        /\ \/ This.name \notin byName /\ UNCHANGED <<rules, byName>>
           \/ rules' = [rules EXCEPT ![This.name] = None] /\ byName' = byName \ {This.name}
    BY <1>2 DEF DeleteRule, NextItem
  <2>2. ASSUME NamesDistinct, ~disturbed, NEW k \in DOMAIN cfg.items, k # i
        PROVE  /\ rules'[cfg.items[k].name] = rules[cfg.items[k].name]
               /\ cfg.items[k].name \in byName' <=> cfg.items[k].name \in byName
    BY <2>1, <2>2, OtherItems DEF Typed, ProjectOK, Rules
  <2>3. ASSUME NamesDistinct, ~disturbed
        PROVE  rules'[This.name] = None
    <3>1. This.name \in byName <=> rules[This.name] # None
      BY <2>1, <2>3, TheItem DEF ItemsInv, Approving, AtItem, Typed, LocalsOK
    <3> QED BY <2>1, <3>1, TheItem DEF Typed, ProjectOK, Rules
  <2>4. ASSUME ~disturbed PROVE i \notin AnyItems /\ ~(ThisApplies(i) /\ prot[This.branch] # None /\ This.who # {})
    BY <2>1, <2>4, ThisItem DEF ToDelete, IsClear, IsAny
  <2>5. ASSUME NamesDistinct, ~disturbed, NEW k \in DOMAIN cfg.items, k = i
        PROVE  ItemConfigured(cfg.items[k])'
    <3>1. cfg.items[k] = This /\ cfg' = cfg /\ members' = members /\ prot' = prot
      BY <2>1, <2>5, TheItem
    <3>2. rules'[cfg.items[k].name] = None
      BY <2>3, <2>5, <3>1
    <3>3. ~(ThisApplies(k) /\ prot[cfg.items[k].branch] # None /\ cfg.items[k].who # {})
      BY <2>4, <2>5, <3>1
    <3> QED BY <3>1, <3>2, <3>3 DEF ItemConfigured, ThisApplies
  <2> QED BY <2>1, <2>2, <2>4, <2>5, ItemDone
<1> QED BY <1>1, <1>2

LEMMA SkipItems == ASSUME Typed, ItemsInv, SkipItem PROVE ItemsInv'
<1>1. CASE Fails
  BY <1>1, NotApproving DEF Approving
<1>2. CASE ~Fails
  <2>1. /\ AtItem /\ NextItem /\ UNCHANGED <<cfg, members, prot, disturbed, anyCfg, rules, byName>>
        /\ Applied /\ This.branch \notin listed
    BY <1>2 DEF SkipItem, NextItem
  <2>2. ASSUME ~disturbed, NEW k \in DOMAIN cfg.items, k = i
        PROVE  ItemConfigured(cfg.items[k])'
    <3>1. cfg.items[k] = This /\ ThisApplies(k) /\ prot[cfg.items[k].branch] = None
      BY <2>1, <2>2, TheItem, ThisItem
    <3> QED BY <2>1, <3>1 DEF ItemConfigured, ThisApplies
  <2>3. ~disturbed => i \notin AnyItems
    BY <2>1, ThisItem
  <2> QED BY <2>1, <2>2, <2>3, ItemDone
<1> QED BY <1>1, <1>2

LEMMA CollectItems == ASSUME Typed, ItemsInv, CollectAny PROVE ItemsInv'
<1>1. CASE Refused
  BY <1>1, NotApproving DEF Approving
<1>2. CASE ~Refused
  <2>1. /\ AtItem /\ NextItem /\ UNCHANGED <<cfg, members, prot, disturbed, rules, byName>>
        /\ Applied /\ This.branch \in listed /\ IsAny /\ ~IsClear
    BY <1>2 DEF CollectAny, NextItem
  <2>2. ASSUME NEW k \in DOMAIN cfg.items, k = i
        PROVE  ItemConfigured(cfg.items[k])'
    <3>1. cfg.items[k] = This /\ ThisApplies(k) /\ cfg.items[k].who = {} /\ cfg.items[k].required # 0
      BY <2>1, <2>2, TheItem DEF Applied, ThisApplies, IsAny, IsClear
    <3> QED BY <2>1, <3>1 DEF ItemConfigured, ThisApplies
  <2>3. ~disturbed => i \in AnyItems
    BY <2>1, ThisItem
  <2>4. /\ anyCfg' # None /\ anyCfg'.required = This.required
        /\ \/ anyCfg = None /\ anyCfg'.scope = {This.branch}
           \/ /\ anyCfg # None /\ anyCfg.required = This.required
              /\ anyCfg'.scope = anyCfg.scope \cup {This.branch}
    <3>1. CASE anyCfg = None /\ anyCfg' = [name |-> This.name, required |-> This.required, scope |-> {This.branch}]
      <4>1. anyCfg' \in Collected
        BY <2>1, <3>1, TheItem DEF Collected
      <4> QED BY <3>1, <4>1, ProtectBranchAssumption DEF Collected
    <3>2. CASE /\ anyCfg # None /\ anyCfg.required = This.required
               /\ anyCfg' = [anyCfg EXCEPT !.scope = @ \cup {This.branch}]
      <4>1. anyCfg \in Collected
        BY <3>2 DEF Typed, LocalsOK
      <4>2. anyCfg' \in Collected /\ anyCfg'.required = anyCfg.required /\ anyCfg'.scope = anyCfg.scope \cup {This.branch}
        BY <2>1, <3>2, <4>1, TheItem DEF Collected
      <4> QED BY <3>2, <4>2, ProtectBranchAssumption DEF Collected
    <3> QED BY <1>2, <3>1, <3>2 DEF CollectAny
  <2> QED BY <2>1, <2>2, <2>3, <2>4, ItemDone
<1> QED BY <1>1, <1>2

LEMMA SetItems == ASSUME Typed, ItemsInv, SetRule PROVE ItemsInv'
<1>1. CASE Fails \/ Refused
  BY <1>1, NotApproving DEF Approving
<1>2. CASE ~(Fails \/ Refused)
  <2>1. /\ AtItem /\ NextItem /\ UNCHANGED <<cfg, members, prot, disturbed, byName, anyCfg>>
        /\ Applied /\ This.branch \in listed /\ ~IsAny
    BY <1>2 DEF SetRule, NextItem
  <2>2. rules' = [rules EXCEPT ![This.name] = RuleSet(This.name \in byName)]
    BY <1>2 DEF SetRule, RuleSet
  <2>3. This.name \in byName => rules[This.name] # None
    BY <1>2 DEF SetRule
  <2>4. RuleSet(This.name \in byName) \in Rule
    <3> DEFINE known == This.name \in byName
    <3>1. known \in BOOLEAN /\ (known => rules[This.name] # None)
      BY <2>3
    <3> HIDE DEF known
    <3>2. RuleSet(known) \in Rule
      BY <2>1, <3>1, RuleSetIsARule
    <3> QED BY <3>2 DEF known
  <2>5. rules'[This.name] = RuleSet(This.name \in byName) /\ rules'[This.name] # None
    BY <2>1, <2>2, <2>4, TheItem, ProtectBranchAssumption DEF Typed, ProjectOK, Rules
  <2>6. ASSUME NamesDistinct, NEW k \in DOMAIN cfg.items, k # i
        PROVE  rules'[cfg.items[k].name] = rules[cfg.items[k].name]
    BY <2>1, <2>2, <2>6, OtherItems DEF Typed, ProjectOK, Rules
  <2>7. ASSUME NEW k \in DOMAIN cfg.items, k = i
        PROVE  ItemConfigured(cfg.items[k])'
    <3>1. cfg.items[k] = This /\ ThisApplies(k) /\ cfg.items[k].who # {}
      BY <2>1, <2>7, TheItem DEF Applied, ThisApplies, IsAny
    <3>2. /\ rules'[cfg.items[k].name] # None
          /\ rules'[cfg.items[k].name].required = cfg.items[k].required
          /\ rules'[cfg.items[k].name].who = cfg.items[k].who
          /\ rules'[cfg.items[k].name].scope = {cfg.items[k].branch}
      <4>1. \A known : /\ RuleSet(known).required = This.required /\ RuleSet(known).who = This.who
                       /\ RuleSet(known).scope = {This.branch}
        BY DEF RuleSet
      <4> QED BY <2>5, <3>1, <4>1
    <3> QED BY <2>1, <3>1, <3>2 DEF ItemConfigured, ThisApplies
  <2>8. ~disturbed => i \notin AnyItems
    BY <2>1, ThisItem
  <2> QED BY <2>1, <2>6, <2>7, <2>8, ItemDone
<1> QED BY <1>1, <1>2

LEMMA ItemsDoneItems == ASSUME Typed, ItemsInv, ItemsDone PROVE ItemsInv'
<1>1. CASE pc' = "idle"
  BY <1>1, NotApproving DEF Approving
<1>2. CASE pc' # "idle"
  <2>1. UNCHANGED <<cfg, members, prot, disturbed, rules, byName, anyCfg, i, listed>> /\ pc \in Approving
    BY <1>2 DEF ItemsDone, Approving
  <2>2. NamesDistinct' = NamesDistinct /\ AnyBelow(i)' = AnyBelow(i)
    BY <2>1, AnyItemsStay DEF NamesDistinct, AnyBelow
  <2>3. \A k \in DOMAIN cfg.items : ItemConfigured(cfg.items[k]) => ItemConfigured(cfg.items[k])'
    BY <2>1, ConfiguredStays
  <2> QED BY <2>1, <2>2, <2>3 DEF ItemsInv
<1> QED BY <1>1, <1>2

LEMMA NextItemsInv == ASSUME Typed, ItemsInv, [Next]_vars PROVE ItemsInv'
<1>1. CASE ByHand
  BY <1>1 DEF ByHand, ItemsInv
<1>2. CASE UNCHANGED vars
  <2>1. UNCHANGED <<cfg, members, prot, disturbed, rules, byName, anyCfg, i, listed, pc>>
    BY <1>2 DEF vars
  <2>2. NamesDistinct' = NamesDistinct /\ AnyBelow(i)' = AnyBelow(i)
    BY <2>1, AnyItemsStay DEF NamesDistinct, AnyBelow
  <2>3. \A k \in DOMAIN cfg.items : ItemConfigured(cfg.items[k]) => ItemConfigured(cfg.items[k])'
    BY <2>1, ConfiguredStays
  <2> QED BY <2>1, <2>2, <2>3 DEF ItemsInv
<1>3. CASE CreateBranch \/ BranchesCreated \/ SwitchDefault \/ ProtectBranchForMemberCount
           \/ SkipUnprotected \/ GetProtectedBranch \/ UpdateProtectedBranch \/ UnprotectRepositoryBranches
           \/ ProtectRepositoryBranches \/ BranchesProtected \/ ApplySettings \/ SetAnyRule
           \/ (\E from \in {"create", "guard"} : Start(from))
  BY <1>3, NotApproving
     DEF CreateBranch, BranchesCreated, SwitchDefault, ProtectBranchForMemberCount, SkipUnprotected,
         GetProtectedBranch, UpdateProtectedBranch, UnprotectRepositoryBranches, ProtectRepositoryBranches,
         BranchesProtected, ApplySettings, SetAnyRule, Start, Approving
<1> QED BY <1>1, <1>2, <1>3, ListItems, ListRulesItems, DeleteItems, SkipItems, CollectItems, SetItems,
           ItemsDoneItems
        DEF Next, Step

----------------------------------------------------------------------------
(* What "ok" means *)

SettingsInv ==
  pc \in {"listBranches", "listRules"} \cup Approving /\ cfg.settings # None => settings = cfg.settings

LEMMA NextSettingsInv == ASSUME Typed, SettingsInv, [Next]_vars PROVE SettingsInv'
<1>1. CASE \E from \in {"create", "guard"} : Start(from)
  BY <1>1 DEF Start, SettingsInv, Approving
<1>2. CASE CreateBranch \/ BranchesCreated \/ SwitchDefault \/ ProtectBranchForMemberCount
           \/ SkipUnprotected \/ GetProtectedBranch \/ UpdateProtectedBranch \/ UnprotectRepositoryBranches
           \/ ProtectRepositoryBranches \/ BranchesProtected
  BY <1>2 DEF CreateBranch, BranchesCreated, SwitchDefault, ProtectBranchForMemberCount, SkipUnprotected,
     GetProtectedBranch, UpdateProtectedBranch, UnprotectRepositoryBranches, ProtectRepositoryBranches,
     BranchesProtected, SettingsInv, Approving
<1>3. CASE ApplySettings
  BY <1>3 DEF ApplySettings, SettingsInv, Approving
<1>4. CASE Approve /\ ~ApplySettings
  <2>1. UNCHANGED <<cfg, settings>> /\ pc \in {"listBranches", "listRules"} \cup Approving
    BY <1>4 DEF Approve, ListProtectedBranches, GetProjectApprovalRules, DeleteRule, SkipItem, CollectAny, SetRule,
       ItemsDone, SetAnyRule, AtItem, Approving
  <2>2. pc' \in {"listBranches", "listRules"} \cup Approving \cup {"idle"}
    BY <1>4, ApproveFacts, <2>1 DEF Approve, ListProtectedBranches, GetProjectApprovalRules, DeleteRule, SkipItem,
       CollectAny, SetRule, ItemsDone, SetAnyRule, NextItem, AtItem, Approving
  <2> QED BY <2>1, <2>2 DEF SettingsInv
<1>5. CASE ByHand
  BY <1>5 DEF ByHand, SettingsInv
<1>6. CASE UNCHANGED vars
  BY <1>6 DEF vars, SettingsInv
<1> QED BY <1>1, <1>2, <1>3, <1>4, <1>5, <1>6 DEF Next, Step, Approve

\* The rule that is taken for the any-approver rule is not that of an item that names
\* somebody.
AnyRefInv ==
  pc \in Approving /\ anyRef # None /\ NamesDistinct /\ KindsAgree =>
    \A k \in DOMAIN cfg.items : cfg.items[k].name = anyRef => cfg.items[k].who = {}

LEMMA NextAnyRefInv == ASSUME Typed, KindInv, AnyRefInv, [Next]_vars PROVE AnyRefInv'
<1>1. CASE GetProjectApprovalRules
  <2>1. CASE Fails
    BY <2>1 DEF AnyRefInv, Approving
  <2>2. CASE ~Fails
    <3>1. /\ UNCHANGED <<cfg, found>>
          /\ anyRef' = None \/ anyRef' \in AnyRules
      BY <1>1, <2>2 DEF GetProjectApprovalRules
    <3>2. NamesDistinct' = NamesDistinct /\ KindsAgree' = KindsAgree
      BY <3>1 DEF NamesDistinct, KindsAgree
    <3>3. ASSUME NamesDistinct, KindsAgree, anyRef' \in AnyRules, NEW k \in DOMAIN cfg.items,
                 cfg.items[k].name = anyRef'
          PROVE  cfg.items[k].who = {}
      <4>1. rules[cfg.items[k].name] # None /\ rules[cfg.items[k].name].any
        BY <3>3 DEF AnyRules
      <4>2. rules[cfg.items[k].name].any = (cfg.items[k].who = {})
        BY <3>3, <4>1 DEF KindInv
      <4> QED BY <4>1, <4>2
    <3> QED BY <3>1, <3>2, <3>3 DEF AnyRefInv
  <2> QED BY <2>1, <2>2
<1>2. CASE pc' \notin Approving
  BY <1>2 DEF AnyRefInv
<1>3. CASE UNCHANGED <<cfg, found, anyRef>> /\ pc \in Approving
  BY <1>3 DEF AnyRefInv, NamesDistinct, KindsAgree
<1>4. CASE DeleteRule \/ SkipItem \/ CollectAny \/ SetRule \/ ItemsDone \/ SetAnyRule
  <2>1. pc' \notin Approving \/ (UNCHANGED <<cfg, found, anyRef>> /\ pc \in Approving)
    BY <1>4 DEF DeleteRule, SkipItem, CollectAny, SetRule, ItemsDone, SetAnyRule, NextItem, AtItem, Approving
  <2> QED BY <1>2, <1>3, <2>1
<1>5. CASE CreateBranch \/ BranchesCreated \/ SwitchDefault \/ ProtectBranchForMemberCount
           \/ SkipUnprotected \/ GetProtectedBranch \/ UpdateProtectedBranch \/ UnprotectRepositoryBranches
           \/ ProtectRepositoryBranches \/ BranchesProtected \/ ApplySettings \/ ListProtectedBranches
           \/ (\E from \in {"create", "guard"} : Start(from))
  BY <1>2, <1>5
     DEF CreateBranch, BranchesCreated, SwitchDefault, ProtectBranchForMemberCount, SkipUnprotected,
         GetProtectedBranch, UpdateProtectedBranch, UnprotectRepositoryBranches, ProtectRepositoryBranches,
         BranchesProtected, ApplySettings, ListProtectedBranches, Start, Approving
<1>6. CASE ByHand \/ UNCHANGED vars
  <2>1. UNCHANGED <<cfg, found, anyRef, pc>>
    BY <1>6 DEF ByHand, vars
  <2> QED BY <1>2, <1>3, <2>1
<1> QED BY <1>1, <1>4, <1>5, <1>6 DEF Next, Step

\* The rules are as configured.
ApprovalsSet ==
  /\ \A k \in DOMAIN cfg.items : ItemConfigured(cfg.items[k])
  /\ AnyItems # {} =>
       \E n \in AnyRules : /\ rules[n].scope = {cfg.items[k].branch : k \in AnyItems}
                           /\ \A k \in AnyItems : rules[n].required = cfg.items[k].required
  /\ cfg.settings # None => settings = cfg.settings

\* Everything that is true of a run.
Inv == Typed /\ BranchInv /\ RulesInv /\ KindInv /\ ItemsInv /\ SettingsInv /\ AnyRefInv

LEMMA InitOfInv == Init => Inv
BY InitTyped, InitBranchInv, InitRulesInv, InitKindInv, InitItemsInv
   DEF Inv, Init, SettingsInv, AnyRefInv, Approving

LEMMA NextInv == ASSUME Inv, [Next]_vars PROVE Inv'
BY NextTyped, NextBranchInv, NextRulesInv, NextKindInv, NextItemsInv, NextSettingsInv,
   NextAnyRefInv DEF Inv

\* When all items are done, all is as configured but for the any-approver rule.
LEMMA AllItemsDone ==
  ASSUME Inv, pc \in Approving, i > Len(cfg.items), NamesDistinct, ~disturbed
  PROVE  /\ \A k \in DOMAIN cfg.items : ItemConfigured(cfg.items[k])
         /\ anyCfg = None => AnyItems = {}
         /\ anyCfg # None => /\ anyCfg.scope = {cfg.items[k].branch : k \in AnyItems}
                             /\ \A k \in AnyItems : anyCfg.required = cfg.items[k].required
<1>1. \A k \in DOMAIN cfg.items : k < i
  BY ItemsOf DEF Inv, Typed, HistoryOK, LocalsOK
<1>2. AnyBelow(i) = AnyItems
  BY <1>1 DEF AnyBelow, AnyItems
<1> QED BY <1>1, <1>2 DEF Inv, ItemsInv

LEMMA ItemsDoneOk ==
  ASSUME Inv, ItemsDone, pc' = "idle", NamesDistinct, ~disturbed
  PROVE  ApprovalsSet'
<1>1. UNCHANGED <<cfg, members, prot, rules, settings>> /\ pc = "items" /\ i > Len(cfg.items) /\ anyCfg = None
  BY DEF ItemsDone
<1>2. /\ \A k \in DOMAIN cfg.items : ItemConfigured(cfg.items[k])
      /\ AnyItems = {}
  BY <1>1, AllItemsDone DEF Approving
<1>3. \A k \in DOMAIN cfg.items : ItemConfigured(cfg.items[k])'
  BY <1>1, <1>2, ConfiguredStays
<1>4. AnyItems' = {}
  BY <1>1, <1>2, AnyItemsStay
<1>5. cfg.settings # None => settings = cfg.settings
  BY <1>1 DEF Inv, SettingsInv, Approving
<1> QED BY <1>1, <1>3, <1>4, <1>5 DEF ApprovalsSet

\* Setting the any-approver rule takes nothing from the items: it is the rule of one that
\* names nobody, and so is the rule that it takes the place of.
LEMMA SetAnyOk ==
  ASSUME Inv, SetAnyRule, rules' = WithAnyRule, NamesDistinct, KindsAgree, ~disturbed
  PROVE  ApprovalsSet'
<1>1. UNCHANGED <<cfg, members, prot, settings>> /\ pc = "any" /\ i > Len(cfg.items) /\ anyCfg # None
  BY SetAnyEffect DEF SetAnyRule, Inv, Typed, Control
<1>2. /\ \A k \in DOMAIN cfg.items : ItemConfigured(cfg.items[k])
      /\ anyCfg.scope = {cfg.items[k].branch : k \in AnyItems}
      /\ \A k \in AnyItems : anyCfg.required = cfg.items[k].required
  BY <1>1, AllItemsDone DEF Approving
<1>3. anyCfg.name \in RuleNames
  BY <1>1, AnyRuleIsARule DEF Inv
<1>4. /\ rules'[anyCfg.name] = AnyRule
      /\ \A n \in RuleNames : n # anyCfg.name => rules'[n] = IF n = anyRef THEN None ELSE rules[n]
  BY <1>3 DEF WithAnyRule
<1>5. PICK j \in DOMAIN cfg.items : /\ cfg.items[j].name = anyCfg.name /\ cfg.items[j].who = {}
                                    /\ cfg.items[j].required > 0 /\ ThisApplies(j)
  BY <1>1 DEF Inv, RulesInv
<1>6. ASSUME NEW k \in DOMAIN cfg.items PROVE ItemConfigured(cfg.items[k])'
  <2>1. CASE k = j
    <3>1. ThisApplies(k) /\ cfg.items[k].who = {} /\ cfg.items[k].required # 0
      BY <1>5, <2>1, ItemsOf DEF Inv, Typed, HistoryOK
    <3> QED BY <1>1, <3>1 DEF ItemConfigured, ThisApplies
  <2>2. CASE k # j
    <3>1. cfg.items[k].name # anyCfg.name /\ cfg.items[k].name \in RuleNames
      BY <1>5, <2>2, ItemsOf DEF NamesDistinct, NamesDiffer, Inv, Typed, HistoryOK
    <3>2. CASE cfg.items[k].name # anyRef
      <4>1. rules'[cfg.items[k].name] = rules[cfg.items[k].name]
        BY <1>4, <3>1, <3>2
      <4> QED BY <1>1, <1>2, <4>1, ConfiguredStays
    <3>3. CASE cfg.items[k].name = anyRef
      <4>1. rules'[cfg.items[k].name] = None
        BY <1>4, <3>1, <3>3
      <4>2. anyRef # None
        BY <3>1, <3>3, ProtectBranchAssumption
      <4>3. cfg.items[k].who = {}
        BY <1>1, <3>3, <4>2 DEF Inv, AnyRefInv, Approving
      <4> QED BY <1>1, <4>1, <4>3 DEF ItemConfigured, ThisApplies
    <3> QED BY <3>2, <3>3
  <2> QED BY <2>1, <2>2
<1>7. AnyItems' = AnyItems
  BY <1>1, AnyItemsStay
<1>8. /\ anyCfg.name \in AnyRules'
      /\ rules'[anyCfg.name].scope = {cfg.items[k].branch : k \in AnyItems}
      /\ \A k \in AnyItems : rules'[anyCfg.name].required = cfg.items[k].required
  <2>1. AnyRule \in Rule /\ AnyRule # None
    BY <1>1, AnyRuleIsARule, ProtectBranchAssumption DEF Inv
  <2> QED BY <1>2, <1>3, <1>4, <2>1 DEF AnyRules, AnyRule
<1>9. cfg.settings # None => settings = cfg.settings
  BY <1>1 DEF Inv, SettingsInv, Approving
<1> QED BY <1>1, <1>6, <1>7, <1>8, <1>9 DEF ApprovalsSet

LEMMA NoItemsOk ==
  ASSUME cfg'.items = <<>>, cfg'.settings # None => settings' = cfg'.settings
  PROVE  ApprovalsSet'
<1>1. DOMAIN cfg'.items = {}
  OBVIOUS
<1>2. AnyItems' = {}
  BY <1>1 DEF AnyItems
<1> QED BY <1>1, <1>2 DEF ApprovalsSet

LEMMA NextApprovals ==
  ASSUME Inv, OkMeansApprovals, [Next]_vars
  PROVE  OkMeansApprovals'
<1>1. SUFFICES ASSUME pc' = "idle", outcome' = "ok", ~disturbed', NamesDistinct', KindsAgree'
               PROVE  ApprovalsSet'
  BY DEF OkMeansApprovals, ApprovalsSet
<1>2. CASE ItemsDone
  <2>1. NamesDistinct /\ ~disturbed
    BY <1>1, <1>2 DEF ItemsDone, NamesDistinct
  <2> QED BY <1>1, <1>2, <2>1, ItemsDoneOk
<1>3. CASE SetAnyRule
  <2>1. NamesDistinct /\ KindsAgree /\ ~disturbed /\ rules' = WithAnyRule
    BY <1>1, <1>3 DEF SetAnyRule, NamesDistinct, KindsAgree, WithAnyRule
  <2> QED BY <1>3, <2>1, SetAnyOk
<1>4. CASE ProtectBranchForMemberCount
  <2>1. cfg'.items = <<>> /\ cfg'.settings = None
    BY <1>1, <1>4 DEF ProtectBranchForMemberCount, HasApprovalConfig
  <2> QED BY <2>1, NoItemsOk
<1>5. CASE BranchesProtected
  <2>1. cfg'.items = <<>> /\ cfg'.settings = None
    BY <1>1, <1>5 DEF BranchesProtected
  <2> QED BY <2>1, NoItemsOk
<1>6. CASE ApplySettings
  <2>1. cfg'.items = <<>> /\ settings' = cfg'.settings
    BY <1>1, <1>6 DEF ApplySettings
  <2> QED BY <2>1, NoItemsOk
<1>7. CASE CreateBranch \/ BranchesCreated \/ SwitchDefault \/ SkipUnprotected \/ GetProtectedBranch
           \/ UpdateProtectedBranch \/ UnprotectRepositoryBranches \/ ProtectRepositoryBranches
           \/ ListProtectedBranches \/ GetProjectApprovalRules \/ DeleteRule \/ SkipItem \/ CollectAny \/ SetRule
           \/ ByHand \/ (\E from \in {"create", "guard"} : Start(from))
  BY <1>1, <1>7
     DEF CreateBranch, BranchesCreated, SwitchDefault, SkipUnprotected, GetProtectedBranch, UpdateProtectedBranch,
         UnprotectRepositoryBranches, ProtectRepositoryBranches, ListProtectedBranches, GetProjectApprovalRules,
         DeleteRule, SkipItem, CollectAny, SetRule, NextItem, ByHand, Start
<1>8. CASE UNCHANGED vars
  <2>1. UNCHANGED <<cfg, members, prot, rules, settings, pc, outcome, disturbed, found>>
    BY <1>8 DEF vars
  <2>2. ApprovalsSet
    BY <1>1, <2>1 DEF OkMeansApprovals, ApprovalsSet, NamesDistinct, KindsAgree
  <2>3. AnyItems' = AnyItems /\ AnyRules' = AnyRules
    BY <2>1, AnyItemsStay DEF AnyRules
  <2>4. \A k \in DOMAIN cfg.items : ItemConfigured(cfg.items[k])'
    BY <2>1, <2>2, ConfiguredStays DEF ApprovalsSet
  <2> QED BY <2>1, <2>2, <2>3, <2>4 DEF ApprovalsSet
<1> QED BY <1>2, <1>3, <1>4, <1>5, <1>6, <1>7, <1>8 DEF Next, Step

\* A run nobody disturbed that returns without an error has left the
\* protections, the approval rules and the settings as they are configured.
THEOREM OkIsTrue == Spec => []OkMeansConfigured
<1> DEFINE OkInv == Inv /\ OkMeansApprovals
<1>1. Init => OkInv
  BY InitOfInv DEF Init, OkMeansApprovals
<1>2. OkInv /\ [Next]_vars => OkInv'
  BY NextInv, NextApprovals
<1>3. OkInv => OkMeansConfigured
  BY BranchInvGivesProtected DEF Inv, OkMeansConfigured
<1> QED BY <1>1, <1>2, <1>3, PTL DEF Spec

----------------------------------------------------------------------------
(* The second run *)

\* A branch that is protected, or will be when the run has protected the branches.
WillBe(b) == prot[b] # None \/ \E k \in ProtectedRules : cfg.branches[k].name = b

\* Items whose rules are deleted.
ToGo(k) ==
  \/ ~ThisApplies(k)
  \/ cfg.items[k].who = {} /\ cfg.items[k].required = 0 /\ WillBe(cfg.items[k].branch)

\* After a run that failed on its own the rules that items delete are gone, so that the
\* next run deletes none, the any-approver rule it has listed neither.
UnwellInv ==
  unwell =>
    /\ ~disturbed
    /\ Sound =>
         /\ \A k \in DOMAIN cfg.items : ToGo(k) => rules[cfg.items[k].name] = None
         /\ pc \in Approving /\ anyRef # None => rules[anyRef] # None

LEMMA InitUnwellInv == Init => UnwellInv
BY DEF Init, UnwellInv

\* Where a run that nobody disturbed is refused.
LEMMA RefusedAtAny ==
  ASSUME Inv, Step, Refused, ~disturbed, Sound
  PROVE  SetAnyRule
<1> USE DEF Inv
<1>1. CASE UpdateProtectedBranch
  <2>1. pc = "update" /\ read = prot[Branch] /\ read # None
    BY <1>1 DEF UpdateProtectedBranch, BranchInv, Typed, LocalsOK
  <2>2. \A was, want : Replaceable(was, was, want)
    BY DEF Replaceable, Destroyed, Added
  <2> QED BY <1>1, <2>1, <2>2 DEF UpdateProtectedBranch
<1>2. CASE ProtectRepositoryBranches
  BY <1>2 DEF ProtectRepositoryBranches, BranchInv
<1>3. CASE DeleteRule
  <2>1. This.name \in byName <=> rules[This.name] # None
    BY <1>3, TheItem DEF DeleteRule, ItemsInv, Approving, AtItem, Sound, Typed, LocalsOK
  <2> QED BY <1>3, <2>1 DEF DeleteRule, NextItem
<1>4. CASE CollectAny
  <2>1. anyCfg # None /\ anyCfg.required # This.required
    BY <1>4 DEF CollectAny, NextItem
  <2>2. PICK k \in DOMAIN cfg.items : /\ cfg.items[k].who = {} /\ cfg.items[k].required > 0
                                      /\ cfg.items[k].required = anyCfg.required
    BY <2>1 DEF RulesInv
  <2>3. i \in DOMAIN cfg.items /\ cfg.items[i].who = {} /\ cfg.items[i].required > 0
    BY <1>4, TheItem DEF CollectAny, IsAny, IsClear
  <2> QED BY <1>4, <2>1, <2>2, <2>3, TheItem DEF Sound, CollectAny
<1>5. CASE SetRule
  <2>1. This.name \in byName <=> rules[This.name] # None
    BY <1>5, TheItem DEF SetRule, ItemsInv, Approving, AtItem, Sound, Typed, LocalsOK
  <2>2. (This.name \in byName) = (rules[This.name] # None)
    BY <2>1
  <2> QED BY <1>5, <2>2 DEF SetRule, NextItem
<1>6. CASE CreateBranch \/ BranchesCreated \/ SwitchDefault \/ ProtectBranchForMemberCount \/ SkipUnprotected
           \/ GetProtectedBranch \/ UnprotectRepositoryBranches \/ BranchesProtected \/ ApplySettings
           \/ ListProtectedBranches \/ GetProjectApprovalRules \/ SkipItem \/ ItemsDone
  BY <1>6 DEF CreateBranch, BranchesCreated, SwitchDefault, ProtectBranchForMemberCount, SkipUnprotected,
     GetProtectedBranch, UnprotectRepositoryBranches, BranchesProtected, ApplySettings, ListProtectedBranches,
     GetProjectApprovalRules, SkipItem, ItemsDone, NextItem
<1> QED BY <1>1, <1>2, <1>3, <1>4, <1>5, <1>6 DEF Step

LEMMA StepIsFixed == ASSUME Step PROVE Fixed
BY DEF Step, CreateBranch, BranchesCreated, SwitchDefault, ProtectBranchForMemberCount, SkipUnprotected,
   GetProtectedBranch, UpdateProtectedBranch, UnprotectRepositoryBranches, ProtectRepositoryBranches,
   BranchesProtected, ApplySettings, ListProtectedBranches, GetProjectApprovalRules, DeleteRule, SkipItem,
   CollectAny, SetRule, ItemsDone, SetAnyRule

\* How a step leaves unwell TRUE.
LEMMA UnwellSteps ==
  ASSUME Inv, Step, unwell'
  PROVE  (Refused /\ ~disturbed) \/ UNCHANGED <<disturbed, unwell>>
<1>1. Fails \/ Refused \/ Returns \/ UNCHANGED <<disturbed, unwell>>
  BY DEF Step, CreateBranch, BranchesCreated, SwitchDefault, ProtectBranchForMemberCount, SkipUnprotected,
     GetProtectedBranch, UpdateProtectedBranch, UnprotectRepositoryBranches, ProtectRepositoryBranches,
     BranchesProtected, ApplySettings, ListProtectedBranches, GetProjectApprovalRules, DeleteRule, SkipItem,
     CollectAny, SetRule, ItemsDone, SetAnyRule, NextItem
<1> QED BY <1>1

LEMMA SoundStays == ASSUME UNCHANGED cfg PROVE Sound' = Sound
BY DEF Sound, NamesDistinct

\* No branch is protected in the end that is not meant to be.
LEMMA WillBeStays ==
  ASSUME Inv, Step, NEW b \in Branches, WillBe(b)'
  PROVE  WillBe(b)
<1>1. UNCHANGED cfg
  BY StepIsFixed
<1>2. CASE UpdateProtectedBranch \/ UnprotectRepositoryBranches \/ ProtectRepositoryBranches
  <2>1. i \in ProtectedRules
    BY <1>2 DEF UpdateProtectedBranch, UnprotectRepositoryBranches, ProtectRepositoryBranches, Inv, Typed, Control,
       Branching
  <2>2. b # Branch => prot'[b] = prot[b]
    BY <1>2 DEF UpdateProtectedBranch, UnprotectRepositoryBranches, ProtectRepositoryBranches, Inv, Typed, ProjectOK
  <2> QED BY <1>1, <2>1, <2>2 DEF WillBe, ProtectedRules, Branch
<1>3. CASE UNCHANGED prot
  BY <1>1, <1>3 DEF WillBe, ProtectedRules
<1> QED BY <1>2, <1>3 DEF Step, CreateBranch, BranchesCreated, SwitchDefault, ProtectBranchForMemberCount,
     SkipUnprotected, GetProtectedBranch, BranchesProtected, ApplySettings, ListProtectedBranches,
     GetProjectApprovalRules, DeleteRule, SkipItem, CollectAny, SetRule, ItemsDone, SetAnyRule

LEMMA RefusedUnwell ==
  ASSUME Inv, SetAnyRule, Refused, ~disturbed
  PROVE  UnwellInv'
<1>1. /\ pc = "any" /\ pc' = "idle" /\ UNCHANGED <<cfg, members, prot, rules, disturbed>>
      /\ i > Len(cfg.items)
  BY DEF SetAnyRule, Inv, Typed, Control
<1>2. ASSUME Sound, NEW k \in DOMAIN cfg.items, ToGo(k)
      PROVE  rules[cfg.items[k].name] = None
  <2>1. ItemConfigured(cfg.items[k])
    BY <1>1, <1>2, AllItemsDone DEF Approving, Sound
  <2>2. CASE ~ThisApplies(k)
    BY <2>1, <2>2 DEF ItemConfigured, ThisApplies
  <2>3. CASE ThisApplies(k) /\ cfg.items[k].who = {} /\ cfg.items[k].required = 0 /\ WillBe(cfg.items[k].branch)
    <3>1. prot[cfg.items[k].branch] # None
      <4>1. ASSUME NEW j \in ProtectedRules PROVE prot[cfg.branches[j].name] # None
        <5>1. prot[cfg.branches[j].name] = WantedOf(j)
          BY <1>1 DEF Inv, BranchInv, AllProtected, Later, Approving
        <5>2. WantedOf(j) \in Protection
          BY BranchesOf DEF WantedOf, Protection, Who, ProtectedRules, Inv, Typed, HistoryOK
        <5> QED BY <5>1, <5>2, ProtectBranchAssumption
      <4> QED BY <2>3, <4>1 DEF WillBe
    <3> QED BY <2>1, <2>3, <3>1 DEF ItemConfigured, ThisApplies
  <2> QED BY <1>2, <2>2, <2>3 DEF ToGo
<1>3. Sound' = Sound /\ \A k \in DOMAIN cfg.items : ToGo(k)' = ToGo(k)
  BY <1>1, SoundStays DEF ToGo, ThisApplies, WillBe, ProtectedRules
<1> QED BY <1>1, <1>2, <1>3 DEF UnwellInv, Approving

\* Only rules that are to go are deleted; none of them is set.
LEMMA DeletedIsToGo ==
  ASSUME Inv, AtItem, ToDelete, ~disturbed
  PROVE  ToGo(i)
BY TheItem, ThisItem DEF Inv, ToDelete, IsClear, IsAny, ToGo, ThisApplies, WillBe

LEMMA SetIsNotToGo ==
  ASSUME Inv, SetRule, Sound, NEW k \in DOMAIN cfg.items, ToGo(k)
  PROVE  cfg.items[k].name # This.name
<1>1. ~ToGo(i)
  BY TheItem DEF Inv, SetRule, IsAny, Applied, ToGo, ThisApplies
<1> QED BY <1>1, OtherItems DEF Inv, Sound, SetRule

\* What a run that follows on an unwell one does to the rules before its last step.
LEMMA RulesOfTheSecondRun ==
  ASSUME Inv, UnwellInv, Step, unwell', Sound, ~Refused
  PROVE  /\ \A k \in DOMAIN cfg.items : ToGo(k) => rules'[cfg.items[k].name] = None
         /\ pc \in Approving => \A n \in RuleNames : rules[n] # None => rules'[n] # None
<1>1. /\ UNCHANGED <<disturbed, unwell>> /\ ~disturbed
      /\ \A k \in DOMAIN cfg.items : ToGo(k) => rules[cfg.items[k].name] = None
  BY UnwellSteps DEF UnwellInv
<1>2. \A k \in DOMAIN cfg.items : cfg.items[k].name \in RuleNames
  BY ItemsOf DEF Inv, Typed, HistoryOK
<1>3. CASE SetAnyRule
  BY <1>1, <1>3 DEF SetAnyRule
<1>4. CASE SetRule
  <2>1. AtItem /\ (UNCHANGED rules \/ rules' = [rules EXCEPT ![This.name] = RuleSet(This.name \in byName)])
    BY <1>4, SetRuleEffect DEF Inv, SetRule
  <2>2. RuleSet(This.name \in byName) # None \/ UNCHANGED rules
    BY <1>4, SetRuleEffect DEF Inv
  <2>3. \A n \in RuleNames : /\ rules[n] # None => rules'[n] # None
                             /\ n # This.name => rules'[n] = rules[n]
    BY <2>1, <2>2 DEF Inv, Typed, ProjectOK, Rules
  <2>4. \A k \in DOMAIN cfg.items : ToGo(k) => rules'[cfg.items[k].name] = None
    BY <1>1, <1>2, <1>4, <2>3, SetIsNotToGo
  <2> QED BY <2>3, <2>4
<1>5. CASE ~SetRule /\ ~SetAnyRule
  <2>1. \A k \in DOMAIN cfg.items : ToGo(k) => rules'[cfg.items[k].name] = None
    BY <1>1, <1>2, <1>5, OthersThin DEF Inv, Thinner
  <2>2. ASSUME pc \in Approving PROVE UNCHANGED rules
    <3>1. CASE DeleteRule
      <4>1. rules[This.name] = None
        BY <1>1, <3>1, TheItem, DeletedIsToGo DEF DeleteRule, Inv
      <4> QED BY <1>1, <3>1, <4>1 DEF DeleteRule
    <3>2. CASE SkipItem \/ CollectAny \/ ItemsDone
      BY <3>2 DEF SkipItem, CollectAny, ItemsDone
    <3> QED BY <1>5, <2>2, <3>1, <3>2
        DEF Step, Approving, CreateBranch, BranchesCreated, SwitchDefault, ProtectBranchForMemberCount,
            SkipUnprotected, GetProtectedBranch, UpdateProtectedBranch, UnprotectRepositoryBranches,
            ProtectRepositoryBranches, BranchesProtected, ApplySettings, ListProtectedBranches,
            GetProjectApprovalRules
  <2> QED BY <2>1, <2>2
<1> QED BY <1>3, <1>4, <1>5

LEMMA StepUnwell ==
  ASSUME Inv, UnwellInv, Step, unwell', ~Refused
  PROVE  UnwellInv'
<1>1. UNCHANGED <<disturbed, unwell, cfg, members>>
  BY UnwellSteps, StepIsFixed
<1>2. ~disturbed'
  BY <1>1 DEF UnwellInv
<1>3. ASSUME Sound
      PROVE  /\ \A k \in DOMAIN cfg.items : ToGo(k)' => rules'[cfg.items[k].name] = None
             /\ pc' \in Approving /\ anyRef' # None => rules'[anyRef'] # None
  <2>1. \A k \in DOMAIN cfg.items : ToGo(k)' => ToGo(k)
    BY <1>1, WillBeStays, ItemsOf DEF ToGo, ThisApplies, Inv, Typed, HistoryOK
  <2>2. \A k \in DOMAIN cfg.items : ToGo(k)' => rules'[cfg.items[k].name] = None
    BY <1>3, <2>1, RulesOfTheSecondRun
  <2>3. ASSUME pc' \in Approving, anyRef' # None PROVE rules'[anyRef'] # None
    <3>1. CASE GetProjectApprovalRules
      BY <2>3, <3>1 DEF GetProjectApprovalRules, Approving, AnyRules
    <3>2. CASE ~GetProjectApprovalRules
      <4>1. pc \in Approving /\ anyRef' = anyRef
        BY <2>3, <3>2 DEF Step, Approving, CreateBranch, BranchesCreated, SwitchDefault,
           ProtectBranchForMemberCount, SkipUnprotected, GetProtectedBranch, UpdateProtectedBranch,
           UnprotectRepositoryBranches, ProtectRepositoryBranches, BranchesProtected, ApplySettings,
           ListProtectedBranches, AtItem, DeleteRule, SkipItem, CollectAny, SetRule, ItemsDone, SetAnyRule,
           NextItem
      <4>2. rules[anyRef] # None
        BY <1>1, <1>3, <2>3, <4>1 DEF UnwellInv
      <4>3. anyRef \in RuleNames
        BY <2>3, <4>1 DEF Inv, Typed, LocalsOK
      <4> QED BY <1>3, <4>1, <4>2, <4>3, RulesOfTheSecondRun
    <3> QED BY <3>1, <3>2
  <2> QED BY <2>2, <2>3
<1> QED BY <1>1, <1>2, <1>3, SoundStays DEF UnwellInv

LEMMA NextUnwell == ASSUME Inv, UnwellInv, [Next]_vars PROVE UnwellInv'
<1>1. SUFFICES ASSUME unwell' PROVE UnwellInv'
  BY DEF UnwellInv
<1>2. CASE Step
  <2>1. CASE Refused
    <3>1. ~disturbed
      BY <1>1, <2>1
    <3>2. CASE Sound
      BY <1>2, <2>1, <3>1, <3>2, RefusedAtAny, RefusedUnwell
    <3>3. CASE ~Sound
      <4>1. UNCHANGED <<cfg, disturbed>>
        BY <1>2, <2>1, StepIsFixed
      <4> QED BY <3>1, <3>3, <4>1, SoundStays DEF UnwellInv
    <3> QED BY <3>2, <3>3
  <2> QED BY <1>1, <1>2, <2>1, StepUnwell
<1>3. CASE \E from \in {"create", "guard"} : Start(from)
  <2>1. UNCHANGED <<cfg, members, prot, rules, unwell>> /\ pc' \in {"create", "guard"} /\ ~disturbed'
    BY <1>3 DEF Start
  <2>2. Sound' = Sound /\ \A k \in DOMAIN cfg.items : ToGo(k)' = ToGo(k)
    BY <2>1, SoundStays DEF ToGo, ThisApplies, WillBe, ProtectedRules
  <2> QED BY <1>1, <2>1, <2>2 DEF UnwellInv, Approving
<1>4. CASE ByHand
  BY <1>1, <1>4 DEF ByHand
<1>5. CASE UNCHANGED vars
  <2>1. UNCHANGED <<cfg, members, prot, rules, unwell, disturbed, pc, anyRef>>
    BY <1>5 DEF vars
  <2>2. Sound' = Sound /\ \A k \in DOMAIN cfg.items : ToGo(k)' = ToGo(k)
    BY <2>1, SoundStays DEF ToGo, ThisApplies, WillBe, ProtectedRules
  <2> QED BY <1>1, <2>1, <2>2 DEF UnwellInv
<1> QED BY <1>2, <1>3, <1>4, <1>5 DEF Next

\* After an unwell run the any-approver rule can be set.
LEMMA SecondIsPossible ==
  ASSUME Inv, UnwellInv, SetAnyRule, unwell, Sound, KindsAgree
  PROVE  /\ \A n \in {anyCfg.name} \ {anyRef} : rules[n] = None
         /\ IF anyRef = None THEN AnyRules = {} ELSE rules[anyRef] # None
<1>1. pc \in Approving /\ anyCfg # None
  BY DEF SetAnyRule, Inv, Typed, Control, Approving
<1>2. AnyRules \subseteq {anyRef}
  BY <1>1 DEF Inv, RulesInv
<1>3. PICK k \in DOMAIN cfg.items : cfg.items[k].name = anyCfg.name /\ cfg.items[k].who = {}
  BY <1>1 DEF Inv, RulesInv
<1>4. cfg.items[k].name \in RuleNames
  BY ItemsOf DEF Inv, Typed, HistoryOK
<1>5. ASSUME anyCfg.name # anyRef PROVE rules[anyCfg.name] = None
  <2>1. SUFFICES ASSUME rules[anyCfg.name] # None PROVE FALSE
    OBVIOUS
  <2>2. rules[anyCfg.name].any = (cfg.items[k].who = {})
    BY <1>3, <2>1 DEF Inv, KindInv, Sound
  <2>3. anyCfg.name \in AnyRules
    BY <1>3, <1>4, <2>1, <2>2 DEF AnyRules
  <2> QED BY <1>2, <1>5, <2>3
<1>6. CASE anyRef = None
  <2>1. AnyRules = {}
    BY <1>2, <1>6, ProtectBranchAssumption DEF AnyRules
  <2> QED BY <1>5, <1>6, <2>1
<1>7. CASE anyRef # None
  BY <1>1, <1>5, <1>7 DEF UnwellInv
<1> QED BY <1>6, <1>7

LEMMA NextSecond ==
  ASSUME Inv, UnwellInv, [Next]_vars,
         Sound, KindsAgree, unwell, pc # "idle", pc' = "idle", ~disturbed'
  PROVE  outcome' = "ok"
<1>1. Step
  BY DEF Next, ByHand, Start, vars
<1>2. Refused \/ Returns
  BY <1>1 DEF Step, CreateBranch, BranchesCreated, SwitchDefault, ProtectBranchForMemberCount, SkipUnprotected,
     GetProtectedBranch, UpdateProtectedBranch, UnprotectRepositoryBranches, ProtectRepositoryBranches,
     BranchesProtected, ApplySettings, ListProtectedBranches, GetProjectApprovalRules, DeleteRule, SkipItem,
     CollectAny, SetRule, ItemsDone, SetAnyRule, NextItem, AtItem
<1>3. CASE Refused
  <2>1. SetAnyRule
    BY <1>1, <1>3, RefusedAtAny
  <2> QED BY <1>3, <2>1, SecondIsPossible DEF SetAnyRule
<1> QED BY <1>2, <1>3

\* Where the configuration is sound and the kinds of the rules agree, the run after
\* one that failed on its own does not fail unless it is disturbed.
THEOREM SecondRunWorks == Spec => SecondRunSucceeds
<1> DEFINE FullInv == Inv /\ UnwellInv
<1>1. Init => FullInv
  BY InitOfInv, InitUnwellInv
<1>2. FullInv /\ [Next]_vars => FullInv'
  BY NextInv, NextUnwell
<1> DEFINE Works ==
      Sound /\ KindsAgree /\ unwell /\ pc # "idle" /\ pc' = "idle" /\ ~disturbed' => outcome' = "ok"
<1>3. FullInv /\ [Next]_vars => [Works]_vars
  BY NextSecond
<1>4. Spec => [][Works]_vars
  <2> HIDE DEF FullInv, Works
  <2> QED BY <1>1, <1>2, <1>3, PTL DEF Spec
<1> QED BY <1>4 DEF SecondRunSucceeds
=============================================================================
