----------------------- MODULE IssueReplicationProofs -----------------------
(***************************************************************************)
(* However the issues of a starter code hang together and whichever calls   *)
(* fail, the plan holds each issue once, a copy is repeated only where one  *)
(* was made and answered as failed, and a child hangs below its parent's.   *)
(***************************************************************************)
EXTENDS IssueReplication, FiniteSetTheorems, TLAPS

\* The source and the histories.
SourceOK ==
  /\ children \in Forests /\ configured \in {ResolveIssues(n) : n \in Numbers} /\ include \in BOOLEAN
  /\ faults \in 0..MaxFaults /\ edits \in 0..MaxEdits /\ quiet \in BOOLEAN /\ lost \in [Issues -> Nat]

\* The plan and the place in it.
PlanOK ==
  /\ pc \in {"start", "plan", "load", "meta", "create", "retry", "close", "attach", "done"}
  /\ queue \in Seq(Issues) /\ ordered \in Seq(Issues) /\ parentOf \in [Issues -> Issues \cup {None}]
  /\ PlannedOnce
  /\ k \in 1..(Len(ordered) + 1)
  /\ pc \in {"meta", "create", "retry", "close"} => k <= Len(ordered)

\* What a create carries, and how often it was sent.
SendOK ==
  /\ sent \subseteq Kinds /\ tries \in 0..MaxResends
  /\ pc \in {"create", "retry"} => sent \subseteq Metadata[This]
  /\ pc = "retry" => sent # {}

\* There are no more copies of the issue at hand than creates answered as failed.
AtHandOK ==
  pc \in {"create", "retry"} =>
    Cardinality(CopiesOf(This)) <= lost[This] /\ Cardinality(CopiesOf(This)) <= SentBefore

\* How often an issue was copied.
CountOK ==
  /\ copies \in Seq(Copy)
  /\ CopiedOnce /\ CopiesFollowThePlan
  /\ pc \in {"start", "plan"} => copies = <<>>
  /\ AtHandOK
  /\ \A c \in DOMAIN copies : copies[c].task = IsChild(copies[c].of)

\* By which copy an issue is known, and what hangs below what.
LinksOK ==
  /\ created \in [Issues -> Nat \cup {None}] /\ toAttach \subseteq Issues
  /\ \A i \in Issues : created[i] # None => created[i] \in CopiesOf(i)
  /\ pc = "close" => created[This] # None
  /\ pc \notin {"attach", "done"} => toAttach = {} /\ \A c \in DOMAIN copies : copies[c].parent = None
  /\ \A i \in toAttach : IsChild(i)
  /\ ChildBelowItsParent

LEMMA Parts == IInv <=> SourceOK /\ PlanOK /\ SendOK /\ CountOK /\ LinksOK
BY Zenon DEF IInv, TypeOK, SourceOK, PlanOK, SendOK, AtHandOK, CountOK, LinksOK

LEMMA PartsAfter == ASSUME SourceOK', PlanOK', SendOK', CountOK', LinksOK' PROVE IInv'
BY Zenon DEF IInv, TypeOK, SourceOK, PlanOK, SendOK, AtHandOK, CountOK, LinksOK

USE IssueReplicationAssumption

LEMMA InitIInv == Init => IInv
<1> SUFFICES ASSUME Init PROVE IInv
  OBVIOUS
<1>1. configured \in Seq(Issues)
  <2>1. PICK n \in Numbers : configured = ResolveIssues(n)
    BY Zenon DEF Init
  <2>2. n \in Seq(Issues) /\ <<First>> \in Seq(Issues)
    OBVIOUS
  <2> QED BY <2>1, <2>2, Zenon DEF ResolveIssues
<1>2. SourceOK
  BY DEF Init, SourceOK
<1>3. PlanOK
  BY <1>1 DEF Init, PlanOK, PlannedOnce
<1>4. DOMAIN copies = {} /\ \A i \in Issues : CopiesOf(i) = {}
  BY DEF Init, CopiesOf
<1>5. \A i \in Issues : Cardinality(CopiesOf(i)) = 0
  BY <1>4, FS_EmptySet
<1>6. CountOK
  <2>1. copies \in Seq(Copy)
    BY DEF Init
  <2>2. CopiedOnce
    BY <1>2, <1>5 DEF CopiedOnce, Sends, SourceOK
  <2>3. AtHandOK
    BY DEF Init, AtHandOK
  <2> QED BY <1>4, <2>1, <2>2, <2>3 DEF Init, CountOK, CopiesFollowThePlan
<1>7. LinksOK
  BY <1>4 DEF Init, LinksOK, ChildBelowItsParent
<1>8. SendOK
  BY DEF Init, SendOK
<1> QED BY <1>2, <1>3, <1>6, <1>7, <1>8, Parts

----------------------------------------------------------------------------
(* What does not disturb the invariant *)

LEMMA SameHistory == ASSUME SourceOK, Ok, Fixed PROVE SourceOK'
BY DEF SourceOK, Ok, Fixed

LEMMA FaultHistory ==
  ASSUME SourceOK, Fault, Fixed, lost' \in [Issues -> Nat] PROVE SourceOK'
<1>0. faults \in 0..MaxFaults /\ faults < MaxFaults /\ faults' = faults + 1 /\ quiet' = FALSE
  BY Zenon DEF SourceOK, Fault
<1> MaxFaults \in Nat
  BY Zenon DEF IssueReplicationAssumption
<1>1. faults' \in 0..MaxFaults
  BY <1>0
<1>3. quiet' \in BOOLEAN
  BY <1>0
<1>2. UNCHANGED <<children, configured, include, edits>>
  BY DEF Fixed
<1> QED BY <1>1, <1>2, <1>3, Zenon DEF SourceOK

\* Nothing is sent.
LEMMA SameSend ==
  ASSUME SendOK, UNCHANGED <<sent, tries>>, pc' \notin {"create", "retry"}
  PROVE  SendOK'
BY DEF SendOK

\* Nothing is copied, and no create is at hand afterwards.
LEMMA SameCopies ==
  ASSUME CountOK, UNCHANGED <<copies, ordered, parentOf, lost>>, k <= k', k' \in Int, k \in Int,
         pc' \notin {"start", "plan", "create", "retry"},
         k' > k \/ pc \notin {"create", "retry", "close"}
  PROVE  CountOK'
<1>1. copies' \in Seq(Copy) /\ CopiedOnce'
  BY DEF CountOK, CopiedOnce, CopiesOf
<1>2. CopiesFollowThePlan'
  BY DEF CountOK, CopiesFollowThePlan
<1>4. AtHandOK'
  BY DEF AtHandOK
<1>5. (\A c \in DOMAIN copies : copies[c].task = IsChild(copies[c].of))'
  BY DEF CountOK, IsChild
<1> QED BY <1>1, <1>2, <1>4, <1>5 DEF CountOK

LEMMA SameLinks ==
  ASSUME LinksOK, UNCHANGED <<created, copies, parentOf, toAttach>>,
         pc' # "close" \/ (pc = "close" /\ UNCHANGED <<k, ordered>>),
         pc \in {"attach", "done"} => pc' \in {"attach", "done"}
  PROVE  LinksOK'
<1>1. \A i : CopiesOf(i)' = CopiesOf(i)
  BY DEF CopiesOf
<1> QED BY <1>1 DEF LinksOK, IsChild, ChildBelowItsParent, This

----------------------------------------------------------------------------
(* The plan *)

LEMMA StepStart == ASSUME IInv, GetStartercodeProject PROVE IInv'
<1> USE DEF GetStartercodeProject, planVars, createVars
<1>0. SourceOK /\ PlanOK /\ SendOK /\ CountOK /\ LinksOK
  BY Parts
<1>1. SourceOK'
  BY <1>0, SameHistory, FaultHistory DEF SourceOK
<1>2. PlanOK'
  BY <1>0 DEF PlanOK, PlannedOnce
<1>3. copies = <<>>
  BY <1>0 DEF CountOK
<1>4. CountOK'
  BY <1>3, <1>0 DEF CountOK, CopiedOnce, CopiesOf, CopiesFollowThePlan, AtHandOK, Ok
<1>5. LinksOK'
  BY <1>0, SameLinks
<1>6. SendOK'
  BY <1>0, SameSend
<1> QED BY <1>1, <1>2, <1>4, <1>5, <1>6, PartsAfter

\* While the plan is made nothing is copied, so it may change as it likes.
LEMMA NothingCopied ==
  ASSUME CountOK, LinksOK, pc = "plan", pc' \in {"plan", "load", "done"}, lost' \in [Issues -> Nat],
         UNCHANGED <<k, created, copies, toAttach>>
  PROVE  CountOK' /\ LinksOK'
<1>1. copies = <<>> /\ copies' = <<>> /\ DOMAIN copies = {} /\ \A i : CopiesOf(i) = {} /\ CopiesOf(i)' = {}
  BY DEF CountOK, CopiesOf
<1>2. \A i : Cardinality(CopiesOf(i)') = 0
  BY <1>1, FS_EmptySet
<1>3. CopiedOnce'
  <2> SUFFICES ASSUME NEW i \in Issues
               PROVE  Cardinality(CopiesOf(i)') <= lost'[i] + 1 /\ Cardinality(CopiesOf(i)') <= Sends(i)
    BY DEF CopiedOnce, Sends
  <2> QED BY <1>2 DEF Sends
<1>4. CountOK'
  BY <1>1, <1>3 DEF CountOK, CopiesFollowThePlan, AtHandOK
<1>5. \A i \in Issues : created[i] = None
  BY <1>1 DEF LinksOK
<1>6. toAttach = {}
  BY DEF LinksOK
<1>7. LinksOK'
  BY <1>1, <1>5, <1>6 DEF LinksOK, ChildBelowItsParent
<1> QED BY <1>4, <1>7

LEMMA OrderIsASequence ==
  ASSUME NEW some \in SUBSET Issues, NEW list \in Orders(some) PROVE list \in Seq(Issues)
<1>1. Cardinality(some) \in Nat
  BY FS_Subset, FS_CardinalityType
<1>2. list \in [1..Cardinality(some) -> some]
  BY DEF Orders
<1>3. list \in Seq(some)
  BY <1>1, <1>2
<1> QED BY <1>3

LEMMA PlanGrows ==
  ASSUME PlanOK, NEW i \in Issues, ~Seen(i), pc = "plan", ordered' = Append(ordered, i), UNCHANGED <<pc, k>>,
         queue' \in Seq(Issues), parentOf' \in [Issues -> Issues \cup {None}]
  PROVE  PlanOK'
<1>1. \A j \in DOMAIN ordered : ordered[j] # i
  BY DEF Seen, Listed
<1>2. ordered \in Seq(Issues) /\ ordered' \in Seq(Issues) /\ Len(ordered') = Len(ordered) + 1
  BY DEF PlanOK
<1>3. \A j \in DOMAIN ordered' : (j \in DOMAIN ordered /\ ordered'[j] = ordered[j]) \/ (j = Len(ordered) + 1 /\ ordered'[j] = i)
  BY <1>2
<1>4. PlannedOnce'
  BY <1>1, <1>3 DEF PlanOK, PlannedOnce
<1> QED BY <1>2, <1>4 DEF PlanOK

LEMMA StepPlan == ASSUME IInv, PlanIssue PROVE IInv'
<1>0. SourceOK /\ PlanOK /\ SendOK /\ CountOK /\ LinksOK
  BY Parts
<1>1. /\ pc = "plan" /\ queue # <<>> /\ Fixed /\ UNCHANGED lost
      /\ UNCHANGED <<k, sent, tries, created, copies, toAttach>> /\ pc' \in {"plan", "done"}
  BY DEF PlanIssue, createVars, Ok
<1>2. CountOK' /\ LinksOK' /\ SendOK'
  BY <1>0, <1>1, NothingCopied, SameSend DEF SourceOK
<1>3. SourceOK'
  BY <1>0, <1>1, SameHistory, FaultHistory DEF PlanIssue, SourceOK, planVars, Ok
<1> DEFINE i == Head(queue)
<1>4. queue \in Seq(Issues) /\ i \in Issues /\ Tail(queue) \in Seq(Issues)
  BY <1>0, <1>1 DEF PlanOK
<1>5. PlanOK'
  <2>1. CASE Seen(i) /\ queue' = Tail(queue) /\ UNCHANGED <<ordered, parentOf, pc>>
    BY <1>0, <1>1, <1>4, <2>1 DEF PlanOK, PlannedOnce
  <2>2. CASE ~Seen(i) /\ queue' = Tail(queue) /\ ordered' = Append(ordered, i) /\ UNCHANGED <<parentOf, pc>>
    <3>1. parentOf' \in [Issues -> Issues \cup {None}]
      BY <1>0, <2>2 DEF PlanOK
    <3> QED BY <1>0, <1>1, <1>4, <2>2, <3>1, PlanGrows
  <2>3. ASSUME ~Seen(i), NEW kids \in ChildrenFound(i), ordered' = Append(ordered, i), UNCHANGED pc,
               NEW list \in Orders({c \in kids : ~Seen(c) /\ c # i}),
               queue' = Tail(queue) \o list, parentOf' = FirstParent(kids, i)
        PROVE  PlanOK'
    <3>1. children \in [Issues -> SUBSET Issues]
      BY <1>0 DEF SourceOK
    <3>2. kids \subseteq Issues
      BY <1>4, <2>3, <3>1 DEF ChildrenFound
    <3>3. {c \in kids : ~Seen(c) /\ c # i} \in SUBSET Issues
      BY <3>2
    <3>4. list \in Seq(Issues)
      BY <2>3, <3>3, OrderIsASequence
    <3>5. queue' \in Seq(Issues)
      BY <1>4, <2>3, <3>4
    <3>6. parentOf' \in [Issues -> Issues \cup {None}]
      BY <1>0, <1>4, <2>3 DEF PlanOK, FirstParent
    <3> QED BY <1>0, <1>1, <1>4, <2>3, <3>5, <3>6, PlanGrows
  <2>4. CASE pc' = "done" /\ UNCHANGED <<queue, ordered, parentOf>>
    BY <1>0, <1>1, <2>4 DEF PlanOK, PlannedOnce
  <2> QED BY <2>1, <2>2, <2>3, <2>4 DEF PlanIssue, planVars
<1> QED BY <1>2, <1>3, <1>5, PartsAfter

LEMMA StepPlanDone == ASSUME IInv, PlanDone PROVE IInv'
<1> USE DEF PlanDone, planVars, createVars
<1>0. SourceOK /\ PlanOK /\ SendOK /\ CountOK /\ LinksOK
  BY Parts
<1>1. SourceOK'
  BY <1>0, SameHistory
<1>2. PlanOK'
  BY <1>0 DEF PlanOK, PlannedOnce
<1>3. CountOK' /\ LinksOK' /\ SendOK'
  BY <1>0, NothingCopied, SameSend DEF SourceOK, Ok
<1> QED BY <1>1, <1>2, <1>3, PartsAfter

----------------------------------------------------------------------------
(* The copies *)

\* The next index into the plan.
LEMMA PlanKeeps ==
  ASSUME PlanOK, UNCHANGED <<queue, ordered, parentOf>>,
         \/ k' = k /\ pc' \in {"load", "meta", "create", "retry", "close", "attach", "done"}
            /\ (pc' \in {"meta", "create", "retry", "close"} => k <= Len(ordered))
         \/ NextIssue /\ k <= Len(ordered)
  PROVE  PlanOK'
<1>1. Len(ordered) \in Nat
  BY DEF PlanOK
<1>2. PlannedOnce'
  BY DEF PlanOK, PlannedOnce
<1> QED BY <1>1, <1>2 DEF PlanOK, NextIssue

LEMMA ThisIsAnIssue ==
  ASSUME PlanOK, k <= Len(ordered) PROVE This \in Issues /\ This = ordered[k] /\ k \in DOMAIN ordered
BY DEF PlanOK, This

\* One more copy, of the issue at hand.
LEMMA OneMore ==
  ASSUME PlanOK, CountOK, NEW i \in Issues, NEW meta \in SUBSET Kinds,
         copies' = Append(copies, NewCopy(i, meta)), NEW n, n = Len(copies) + 1
  PROVE  /\ n \in Nat /\ n \notin DOMAIN copies
         /\ copies' \in Seq(Copy) /\ DOMAIN copies' = DOMAIN copies \cup {n}
         /\ \A c \in DOMAIN copies : copies'[c] = copies[c]
         /\ copies'[n].of = i /\ copies'[n].task = IsChild(i) /\ copies'[n].parent = None
         /\ CopiesOf(i)' = CopiesOf(i) \cup {n}
         /\ \A j \in Issues : j # i => CopiesOf(j)' = CopiesOf(j)
         /\ Cardinality(CopiesOf(i)') = Cardinality(CopiesOf(i)) + 1
         /\ Cardinality(CopiesOf(i)) \in Nat
<1>2. copies \in Seq(Copy) /\ Len(copies) \in Nat /\ DOMAIN copies = 1..Len(copies)
  BY DEF CountOK
<1>3. NewCopy(i, meta) \in Copy
  BY DEF NewCopy, Copy, IsChild
<1>4. /\ copies' \in Seq(Copy) /\ DOMAIN copies' = DOMAIN copies \cup {n} /\ n \in Nat /\ n \notin DOMAIN copies
      /\ \A c \in DOMAIN copies : copies'[c] = copies[c]
      /\ copies'[n] = NewCopy(i, meta)
  BY <1>2, <1>3
<1>5. copies'[n].of = i /\ copies'[n].task = IsChild(i) /\ copies'[n].parent = None
  BY <1>4 DEF NewCopy
<1>6. \A j \in Issues : j # i => CopiesOf(j)' = CopiesOf(j)
  BY <1>4, <1>5 DEF CopiesOf
<1>7. CopiesOf(i)' = CopiesOf(i) \cup {n}
  BY <1>4, <1>5 DEF CopiesOf
<1>8. IsFiniteSet(CopiesOf(i)) /\ n \notin CopiesOf(i)
  <2>1. IsFiniteSet(DOMAIN copies)
    BY <1>2, FS_Interval
  <2> QED BY <2>1, <1>4, FS_Subset DEF CopiesOf
<1>9. Cardinality(CopiesOf(i) \cup {n}) = Cardinality(CopiesOf(i)) + 1 /\ Cardinality(CopiesOf(i)) \in Nat
  BY <1>8, FS_AddElement, FS_CardinalityType
<1>10. Cardinality(CopiesOf(i)') = Cardinality(CopiesOf(i)) + 1
  BY <1>7, <1>9
<1> QED BY <1>4, <1>5, <1>6, <1>7, <1>9, <1>10

\* Until its create is sent there is no copy of the issue at hand.
LEMMA NotYetCopied ==
  ASSUME PlanOK, CountOK, k <= Len(ordered), pc = "meta"
  PROVE  Cardinality(CopiesOf(This)) = 0
<1>1. k \in DOMAIN ordered /\ ordered[k] = This
  BY ThisIsAnIssue
<1>2. \A c \in DOMAIN copies : \E j \in 1..Len(ordered) : copies[c].of = ordered[j] /\ j < k
  BY DEF CountOK, CopiesFollowThePlan
<1>3. \A j \in 1..Len(ordered) : j < k => ordered[j] # This
  BY <1>1 DEF PlanOK, PlannedOnce
<1>4. CopiesOf(This) = {}
  BY <1>2, <1>3 DEF CopiesOf
<1> QED BY <1>4, FS_EmptySet

\* Where a create answered as failed leads: it is sent again, by the client or
\* without its metadata, or the issue is given up.
SentAgain ==
  \/ pc' = pc /\ k' = k /\ tries < MaxResends /\ tries' = tries + 1 /\ UNCHANGED sent
  \/ pc = "create" /\ pc' = "retry" /\ k' = k /\ tries' = 0 /\ sent # {} /\ UNCHANGED sent
GivenUp == pc' = "load" /\ k' = k + 1 /\ UNCHANGED <<sent, tries>>

LEMMA SendAfter ==
  ASSUME PlanOK, SendOK, pc \in {"create", "retry"}, UNCHANGED ordered,
         SentAgain \/ (pc' \in {"load", "close"} /\ UNCHANGED <<sent, tries>>)
  PROVE  SendOK'
<1>1. CASE SentAgain
  <2>1. k' = k
    BY <1>1 DEF SentAgain
  <2>2. This' = This
    BY <2>1 DEF This
  <2> QED BY <1>1, <2>2 DEF SentAgain, SendOK
<1>2. CASE pc' \in {"load", "close"} /\ UNCHANGED <<sent, tries>>
  BY <1>2, SameSend
<1> QED BY <1>1, <1>2

\* The creates sent so far and one more are within what is sent for an issue.
LEMMA WithinSends ==
  ASSUME PlanOK, SendOK, k <= Len(ordered), pc \in {"create", "retry"}
  PROVE  /\ SentBefore \in Nat /\ SentBefore + 1 <= Sends(This)
         /\ SentAgain => SentBefore + 1 <= SentBefore'
<1>1. tries \in 0..MaxResends /\ MaxResends \in Nat
  BY DEF SendOK
<1>2. CASE pc = "create"
  <2>1. SentAgain => tries + 1 <= SentBefore'
    BY <1>1, <1>2 DEF SentAgain, SentBefore
  <2> QED BY <1>1, <1>2, <2>1 DEF SentBefore, Sends
<1>3. CASE pc = "retry"
  <2>1. Metadata[This] # {}
    BY <1>3 DEF SendOK
  <2>2. Sends(This) = 2 * (MaxResends + 1)
    BY <2>1 DEF Sends
  <2>3. SentAgain => tries' = tries + 1 /\ pc' = "retry"
    BY <1>3 DEF SentAgain
  <2> QED BY <1>1, <1>3, <2>2, <2>3 DEF SentBefore
<1> QED BY <1>2, <1>3

\* The counts after one more copy, whether its number is known or not.
LEMMA CountAfter ==
  ASSUME PlanOK, SendOK, CountOK, lost \in [Issues -> Nat], k <= Len(ordered), pc \in {"create", "retry"},
         NEW i \in Issues, i = This,
         NEW meta \in SUBSET Kinds, copies' = Append(copies, NewCopy(i, meta)),
         UNCHANGED <<queue, ordered, parentOf>>,
         \/ lost' = lost /\ ((pc' = "load" /\ k' = k + 1) \/ (pc' = "close" /\ k' = k))
         \/ lost' = [lost EXCEPT ![i] = @ + 1] /\ (SentAgain \/ GivenUp)
  PROVE  CountOK'
<1> DEFINE n == Len(copies) + 1
<1>1. /\ n \in Nat /\ n \notin DOMAIN copies
      /\ copies' \in Seq(Copy) /\ DOMAIN copies' = DOMAIN copies \cup {n}
      /\ \A c \in DOMAIN copies : copies'[c] = copies[c]
      /\ copies'[n].of = i /\ copies'[n].task = IsChild(i)
      /\ \A j \in Issues : j # i => CopiesOf(j)' = CopiesOf(j)
      /\ Cardinality(CopiesOf(i)') = Cardinality(CopiesOf(i)) + 1
      /\ Cardinality(CopiesOf(i)) \in Nat
  BY OneMore
<1>2. Cardinality(CopiesOf(i)) <= lost[i] /\ Cardinality(CopiesOf(i)) <= SentBefore
  BY DEF CountOK, AtHandOK
<1>3. /\ SentBefore \in Nat /\ SentBefore + 1 <= Sends(i)
      /\ SentAgain => SentBefore + 1 <= SentBefore'
  BY WithinSends
<1>4. CopiedOnce'
  <2> SUFFICES ASSUME NEW j \in Issues
               PROVE  Cardinality(CopiesOf(j)') <= lost'[j] + 1 /\ Cardinality(CopiesOf(j)') <= Sends(j)
    BY DEF CopiedOnce, Sends
  <2>1. CASE j = i
    <3>1. lost[i] \in Nat /\ lost'[i] \in {lost[i], lost[i] + 1}
      OBVIOUS
    <3>2. Sends(i) \in Nat
      BY DEF Sends
    <3> QED BY <2>1, <3>1, <3>2, <1>1, <1>2, <1>3
  <2>2. CASE j # i
    <3>1. Cardinality(CopiesOf(j)) <= lost[j] + 1 /\ Cardinality(CopiesOf(j)) <= Sends(j)
      BY DEF CountOK, CopiedOnce
    <3> QED BY <3>1, <2>2, <1>1
  <2> QED BY <2>1, <2>2
<1>5. CopiesFollowThePlan'
  <2>1. k \in 1..Len(ordered) /\ ordered[k] = i
    BY ThisIsAnIssue DEF PlanOK
  <2>2. (k' = k + 1) \/ (k' = k /\ pc' \in {"create", "retry", "close"})
    BY DEF SentAgain, GivenUp
  <2> SUFFICES ASSUME NEW c \in DOMAIN copies'
               PROVE  \E j \in 1..Len(ordered) :
                        copies'[c].of = ordered[j] /\ (j < k' \/ (j = k' /\ pc' \in {"create", "retry", "close"}))
    BY DEF CopiesFollowThePlan
  <2>3. CASE c = n
    BY <1>1, <2>1, <2>2, <2>3
  <2>4. CASE c \in DOMAIN copies
    <3>1. PICK j \in 1..Len(ordered) :
            copies[c].of = ordered[j] /\ (j < k \/ (j = k /\ pc \in {"create", "retry", "close"}))
      BY <2>4 DEF CountOK, CopiesFollowThePlan
    <3>2. j < k' \/ (j = k' /\ pc' \in {"create", "retry", "close"})
      BY <2>1, <2>2, <3>1
    <3>3. copies'[c].of = ordered[j]
      BY <1>1, <2>4, <3>1
    <3> QED BY <3>1, <3>2, <3>3
  <2> QED BY <1>1, <2>3, <2>4
<1>6. AtHandOK'
  <2> SUFFICES ASSUME pc' \in {"create", "retry"}
               PROVE  (Cardinality(CopiesOf(This)) <= lost[This] /\ Cardinality(CopiesOf(This)) <= SentBefore)'
    BY DEF AtHandOK
  <2>1. SentAgain /\ lost'[i] = lost[i] + 1 /\ lost[i] \in Nat /\ k' = k
    BY DEF SentAgain, GivenUp
  <2>2. This' = i
    BY <2>1 DEF This
  <2>3. CopiesOf(This)' = CopiesOf(i)'
    BY <2>2 DEF CopiesOf
  <2>4. SentBefore' \in Int
    BY <2>1 DEF SentAgain, SentBefore, SendOK
  <2> QED BY <1>1, <1>2, <1>3, <2>1, <2>2, <2>3, <2>4
<1>7. (\A c \in DOMAIN copies : copies[c].task = IsChild(copies[c].of))'
  BY <1>1 DEF CountOK, IsChild
<1>8. pc' \notin {"start", "plan"}
  BY DEF SentAgain, GivenUp
<1> QED BY <1>1, <1>4, <1>5, <1>6, <1>7, <1>8 DEF CountOK

\* The counts when a create that made nothing is sent again.
LEMMA CountStays ==
  ASSUME PlanOK, SendOK, CountOK, lost \in [Issues -> Nat], k <= Len(ordered), pc \in {"create", "retry"},
         UNCHANGED <<copies, lost, queue, ordered, parentOf>>, SentAgain
  PROVE  CountOK'
<1>1. k' = k /\ pc' \in {"create", "retry"}
  BY DEF SentAgain
<1>2. This' = This /\ This \in Issues
  BY <1>1, ThisIsAnIssue DEF This
<1>3. CopiesOf(This)' = CopiesOf(This)
  BY <1>2 DEF CopiesOf
<1>4. IsFiniteSet(CopiesOf(This)) /\ Cardinality(CopiesOf(This)) \in Nat
  <2>1. IsFiniteSet(DOMAIN copies)
    BY FS_Interval DEF CountOK
  <2>2. IsFiniteSet(CopiesOf(This))
    BY <2>1, FS_Subset DEF CopiesOf
  <2> QED BY <2>2, FS_CardinalityType
<1>5. SentBefore \in Nat /\ SentBefore + 1 <= SentBefore' /\ SentBefore' \in Int
  BY WithinSends DEF SentAgain, SentBefore, SendOK
<1>6. AtHandOK'
  BY <1>2, <1>3, <1>4, <1>5 DEF CountOK, AtHandOK
<1>7. CopiedOnce'
  BY DEF CountOK, CopiedOnce, CopiesOf, Sends
<1>8. CopiesFollowThePlan' /\ (\A c \in DOMAIN copies : copies[c].task = IsChild(copies[c].of))'
  BY <1>1 DEF CountOK, CopiesFollowThePlan, IsChild
<1> QED BY <1>1, <1>6, <1>7, <1>8 DEF CountOK

\* The copy is known by its number, or its answer was lost.
LEMMA LinksAfter ==
  ASSUME PlanOK, CountOK, LinksOK, k <= Len(ordered), pc \in {"create", "retry"},
         NEW i \in Issues, i = This,
         NEW meta \in SUBSET Kinds, copies' = Append(copies, NewCopy(i, meta)),
         UNCHANGED <<queue, ordered, parentOf, toAttach>>,
         \/ UNCHANGED created /\ pc' \in {"load", "create", "retry"}
         \/ created' = [created EXCEPT ![i] = Len(copies) + 1] /\ (pc' = "load" \/ (pc' = "close" /\ k' = k))
  PROVE  LinksOK'
<1> DEFINE n == Len(copies) + 1
<1>1. /\ n \in Nat /\ n \notin DOMAIN copies /\ DOMAIN copies' = DOMAIN copies \cup {n}
      /\ \A c \in DOMAIN copies : copies'[c] = copies[c]
      /\ copies'[n].parent = None
      /\ CopiesOf(i)' = CopiesOf(i) \cup {n}
      /\ \A j \in Issues : j # i => CopiesOf(j)' = CopiesOf(j)
  BY OneMore
<1>2. toAttach = {} /\ \A c \in DOMAIN copies : copies[c].parent = None
  BY DEF LinksOK
<1>3. \A c \in DOMAIN copies' : copies'[c].parent = None
  BY <1>1, <1>2
<1>4. created' \in [Issues -> Nat \cup {None}]
  BY <1>1 DEF LinksOK
<1>5. \A j \in Issues : created'[j] # None => created'[j] \in CopiesOf(j)'
  BY <1>1 DEF LinksOK
<1>6. pc' = "close" => created'[i] # None /\ This' = i
  BY <1>1 DEF LinksOK, This
<1>7. (pc = "close" => created[This] # None)'
  BY <1>6
<1>8. ChildBelowItsParent'
  BY <1>3 DEF ChildBelowItsParent
<1> QED BY <1>2, <1>3, <1>4, <1>5, <1>7, <1>8 DEF LinksOK

LEMMA StepLoad == ASSUME IInv, LoadIssue PROVE IInv'
<1> USE DEF LoadIssue, planVars, createVars
<1>0. SourceOK /\ PlanOK /\ SendOK /\ CountOK /\ LinksOK
  BY Parts
<1>1. SourceOK'
  BY <1>0, SameHistory, FaultHistory DEF SourceOK
<1>2. PlanOK'
  BY <1>0, PlanKeeps
<1>3. k \in Int /\ k' \in Int /\ k <= k'
  BY <1>0 DEF PlanOK, NextIssue
<1>4. CountOK'
  BY <1>0, <1>3, SameCopies DEF NextIssue, Ok
<1>5. LinksOK'
  BY <1>0, SameLinks DEF NextIssue
<1>6. SendOK'
  BY <1>0, SameSend DEF NextIssue
<1> QED BY <1>1, <1>2, <1>4, <1>5, <1>6, PartsAfter

LEMMA StepMetadata == ASSUME IInv, PrepareMetadata PROVE IInv'
<1>0. SourceOK /\ PlanOK /\ SendOK /\ CountOK /\ LinksOK
  BY Parts
<1>1. /\ pc = "meta" /\ pc' = "create" /\ tries' = 0 /\ Fixed /\ k <= Len(ordered)
      /\ UNCHANGED <<queue, ordered, parentOf, k, created, copies, toAttach>>
  BY <1>0 DEF PrepareMetadata, planVars, PlanOK
<1>2. PICK failed \in SUBSET Metadata[This] :
        /\ sent' = Metadata[This] \ (IF IsChild(This) THEN failed ELSE failed \ {"labels"})
        /\ IF failed = {} THEN Ok ELSE Fault /\ UNCHANGED lost
  BY Zenon DEF PrepareMetadata
<1>3. This \in Issues /\ This' = This
  BY <1>0, <1>1, ThisIsAnIssue DEF This
<1>4. sent' \subseteq Metadata[This] /\ UNCHANGED lost
  BY <1>2 DEF Ok
<1>5. SourceOK'
  BY <1>0, <1>1, <1>2, SameHistory, FaultHistory DEF SourceOK
<1>6. PlanOK'
  BY <1>0, <1>1, PlanKeeps
<1>7. SendOK'
  BY <1>1, <1>3, <1>4 DEF SendOK
<1>8. CountOK'
  <2>1. CopiesOf(This)' = CopiesOf(This)
    BY <1>1, <1>3 DEF CopiesOf
  <2>2. Cardinality(CopiesOf(This)') = 0 /\ SentBefore' = 0
    BY <1>0, <1>1, <2>1, NotYetCopied DEF SentBefore
  <2>3. AtHandOK'
    BY <1>0, <1>3, <1>4, <2>2 DEF AtHandOK, SourceOK
  <2>4. CopiedOnce' /\ CopiesFollowThePlan' /\ (\A c \in DOMAIN copies : copies[c].task = IsChild(copies[c].of))'
    BY <1>0, <1>1, <1>4 DEF CountOK, CopiedOnce, CopiesOf, Sends, CopiesFollowThePlan, IsChild
  <2> QED BY <1>0, <1>1, <2>3, <2>4 DEF CountOK
<1>9. LinksOK'
  BY <1>0, <1>1, SameLinks
<1> QED BY <1>5, <1>6, <1>7, <1>8, <1>9, PartsAfter

LEMMA StepCopy == ASSUME IInv, CreateIssue \/ RetryBare PROVE IInv'
<1>0. SourceOK /\ PlanOK /\ SendOK /\ CountOK /\ LinksOK /\ lost \in [Issues -> Nat]
  BY Parts DEF SourceOK
<1>1. /\ pc \in {"create", "retry"} /\ k <= Len(ordered) /\ Fixed
      /\ UNCHANGED <<queue, ordered, parentOf, toAttach>>
  BY <1>0 DEF CreateIssue, RetryBare, planVars, PlanOK
<1> DEFINE i == This
<1>2. i \in Issues
  BY <1>0, <1>1, ThisIsAnIssue
<1>3. ASSUME NEW meta \in SUBSET Kinds, copies' = Append(copies, NewCopy(i, meta)), CopyMade, Ok,
             UNCHANGED <<sent, tries>>
      PROVE  IInv'
  <2>1. ((pc' = "load" /\ k' = k + 1) \/ (pc' = "close" /\ k' = k)) /\ lost' = lost
    BY <1>3 DEF CopyMade, NextIssue, Ok
  <2>2. PlanOK'
    BY <1>0, <1>1, <2>1, PlanKeeps DEF NextIssue
  <2>3. CountOK'
    BY <1>0, <1>1, <1>2, <1>3, <2>1, CountAfter
  <2>4. created' = [created EXCEPT ![i] = Len(copies) + 1]
    BY <1>3 DEF CopyMade
  <2>5. LinksOK'
    BY <1>0, <1>1, <1>2, <1>3, <2>1, <2>4, LinksAfter
  <2>6. SendOK'
    BY <1>0, <1>1, <1>3, <2>1, SendAfter
  <2>7. SourceOK'
    BY <1>0, <1>1, <1>3, SameHistory
  <2> QED BY <2>2, <2>3, <2>5, <2>6, <2>7, PartsAfter
<1>4. ASSUME NEW meta \in SUBSET Kinds, Unanswered(meta), SentAgain \/ GivenUp
      PROVE  IInv'
  <2>1. PlanOK'
    BY <1>0, <1>1, <1>4, PlanKeeps DEF SentAgain, GivenUp, NextIssue
  <2>2. SendOK'
    BY <1>0, <1>1, <1>4, SendAfter DEF GivenUp
  <2>3. UNCHANGED created /\ pc' \in {"load", "create", "retry"} /\ (pc' = pc \/ pc' \in {"load", "retry"})
    BY <1>1, <1>4 DEF Unanswered, SentAgain, GivenUp
  <2>4. CASE copies' = Append(copies, NewCopy(i, meta)) /\ lost' = [lost EXCEPT ![i] = @ + 1]
    <3>1. CountOK'
      BY <1>0, <1>1, <1>2, <1>4, <2>4, CountAfter
    <3>2. LinksOK'
      BY <1>0, <1>1, <1>2, <2>3, <2>4, LinksAfter
    <3>3. lost' \in [Issues -> Nat]
      BY <1>0, <1>2, <2>4
    <3>4. SourceOK'
      BY <1>0, <1>1, <1>4, <3>3, FaultHistory DEF Unanswered
    <3> QED BY <2>1, <2>2, <3>1, <3>2, <3>4, PartsAfter
  <2>5. CASE UNCHANGED <<copies, lost>>
    <3>1. CountOK'
      <4>1. CASE SentAgain
        BY <1>0, <1>1, <2>5, <4>1, CountStays
      <4>2. CASE GivenUp
        <5>1. k \in Int /\ k' \in Int /\ k < k' /\ pc' = "load"
          BY <1>0, <4>2 DEF PlanOK, GivenUp
        <5> QED BY <1>0, <1>1, <2>5, <5>1, SameCopies
      <4> QED BY <1>4, <4>1, <4>2
    <3>2. LinksOK'
      BY <1>0, <1>1, <2>3, <2>5, SameLinks
    <3>3. SourceOK'
      BY <1>0, <1>1, <1>4, <2>5, FaultHistory DEF Unanswered
    <3> QED BY <2>1, <2>2, <3>1, <3>2, <3>3, PartsAfter
  <2> QED BY <1>4, <2>4, <2>5 DEF Unanswered
<1>5. sent \in SUBSET Kinds /\ {} \in SUBSET Kinds
  BY <1>0 DEF SendOK
<1>6. CASE CreateIssue
  <2>1. CASE copies' = Append(copies, NewCopy(This, sent)) /\ CopyMade /\ Ok /\ UNCHANGED createVars
    BY <2>1, <1>3, <1>5 DEF createVars
  <2>2. CASE Resend(sent)
    BY <2>2, <1>4, <1>5 DEF Resend, SentAgain
  <2>3. CASE Unanswered(sent) /\ sent # {} /\ pc' = "retry" /\ tries' = 0 /\ UNCHANGED <<k, sent>>
    <3>1. pc = "create"
      BY <1>6 DEF CreateIssue
    <3> QED BY <2>3, <3>1, <1>4, <1>5 DEF SentAgain
  <2>4. CASE Unanswered(sent) /\ sent = {} /\ NextIssue /\ UNCHANGED createVars
    BY <2>4, <1>4, <1>5 DEF GivenUp, NextIssue, createVars
  <2> QED BY <1>6, <2>1, <2>2, <2>3, <2>4, Zenon DEF CreateIssue
<1>7. CASE RetryBare
  <2>1. CASE copies' = Append(copies, NewCopy(This, {})) /\ CopyMade /\ Ok /\ UNCHANGED createVars
    BY <2>1, <1>3, <1>5 DEF createVars
  <2>2. CASE Resend({})
    BY <2>2, <1>4, <1>5 DEF Resend, SentAgain
  <2>3. CASE Unanswered({}) /\ NextIssue /\ UNCHANGED createVars
    BY <2>3, <1>4, <1>5 DEF GivenUp, NextIssue, createVars
  <2> QED BY <1>7, <2>1, <2>2, <2>3, Zenon DEF RetryBare
<1> QED BY <1>6, <1>7

LEMMA CopyReplaced ==
  ASSUME NEW s \in Seq(Copy), NEW n \in DOMAIN s, NEW x \in Copy
  PROVE  [s EXCEPT ![n] = x] \in Seq(Copy) /\ DOMAIN [s EXCEPT ![n] = x] = DOMAIN s
<1>1. s \in [1..Len(s) -> Copy] /\ Len(s) \in Nat
  OBVIOUS
<1>2. [s EXCEPT ![n] = x] \in [1..Len(s) -> Copy]
  BY <1>1
<1> QED BY <1>1, <1>2

LEMMA StepClose == ASSUME IInv, CloseIssue PROVE IInv'
<1>0. SourceOK /\ PlanOK /\ SendOK /\ CountOK /\ LinksOK
  BY Parts
<1>1. /\ pc = "close" /\ NextIssue /\ Fixed /\ (Ok \/ Fault) /\ UNCHANGED lost
      /\ UNCHANGED <<queue, ordered, parentOf, sent, tries, created, toAttach>>
  BY DEF CloseIssue, planVars, createVars, Ok
<1>2. k <= Len(ordered) /\ k \in Int /\ k' = k + 1
  BY <1>0, <1>1 DEF PlanOK, NextIssue
<1>3. SourceOK'
  BY <1>0, <1>1, SameHistory, FaultHistory DEF SourceOK
<1>4. PlanOK'
  BY <1>0, <1>1, <1>2, PlanKeeps
<1> DEFINE n == created[This]
<1>5. This \in Issues
  BY <1>0, <1>2, ThisIsAnIssue
<1>6. n \in CopiesOf(This) /\ n \in DOMAIN copies
  BY <1>0, <1>1, <1>5 DEF LinksOK, CopiesOf
<1>7. /\ copies' \in Seq(Copy) /\ DOMAIN copies' = DOMAIN copies
      /\ \A c \in DOMAIN copies : /\ copies'[c].of = copies[c].of /\ copies'[c].task = copies[c].task
                                  /\ copies'[c].parent = copies[c].parent
  <2>1. CASE copies' = [copies EXCEPT ![n].closed = TRUE]
    <3>1. copies \in Seq(Copy) /\ copies[n] \in Copy
      BY <1>0, <1>6 DEF CountOK
    <3>2. [copies[n] EXCEPT !.closed = TRUE] \in Copy
      BY <3>1 DEF Copy
    <3> HIDE DEF n
    <3>3. copies' \in Seq(Copy) /\ DOMAIN copies' = DOMAIN copies
      BY <1>6, <2>1, <3>1, <3>2, CopyReplaced
    <3>4. \A c \in DOMAIN copies : copies[c] \in Copy
      BY <3>1
    <3>5. \A c \in DOMAIN copies : copies'[c] = IF c = n THEN [copies[n] EXCEPT !.closed = TRUE] ELSE copies[c]
      BY <2>1, <3>1
    <3>6. /\ [copies[n] EXCEPT !.closed = TRUE].of = copies[n].of
          /\ [copies[n] EXCEPT !.closed = TRUE].task = copies[n].task
          /\ [copies[n] EXCEPT !.closed = TRUE].parent = copies[n].parent
      BY <3>1 DEF Copy
    <3> QED BY <3>3, <3>5, <3>6
  <2>2. CASE UNCHANGED copies
    BY <1>0, <2>2 DEF CountOK
  <2> QED BY <2>1, <2>2 DEF CloseIssue, CloseCopy
<1>8. \A i : CopiesOf(i)' = CopiesOf(i)
  BY <1>7 DEF CopiesOf
<1>9. CountOK'
  <2>1. CopiesFollowThePlan'
    BY <1>0, <1>1, <1>2, <1>7 DEF CountOK, CopiesFollowThePlan, NextIssue
  <2>2. (\A c \in DOMAIN copies : copies[c].task = IsChild(copies[c].of))'
    BY <1>0, <1>1, <1>7 DEF CountOK, IsChild
  <2>3. CopiedOnce'
    BY <1>0, <1>1, <1>8 DEF CountOK, CopiedOnce, Sends
  <2> QED BY <1>1, <1>7, <2>1, <2>2, <2>3 DEF CountOK, AtHandOK, NextIssue
<1>10. LinksOK'
  <2>1. \A c \in DOMAIN copies' : copies'[c].parent = None
    BY <1>0, <1>1, <1>7 DEF LinksOK
  <2>2. ChildBelowItsParent'
    BY <2>1 DEF ChildBelowItsParent
  <2> QED BY <1>0, <1>1, <1>8, <2>1, <2>2 DEF LinksOK, NextIssue
<1>11. SendOK'
  BY <1>0, <1>1, SameSend DEF NextIssue
<1> QED BY <1>3, <1>4, <1>9, <1>10, <1>11, PartsAfter

----------------------------------------------------------------------------
(* The attachments *)

LEMMA StepCopiesDone == ASSUME IInv, CopiesDone PROVE IInv'
<1> USE DEF CopiesDone, planVars, createVars
<1>0. SourceOK /\ PlanOK /\ SendOK /\ CountOK /\ LinksOK
  BY Parts
<1>1. SourceOK'
  BY <1>0, SameHistory
<1>2. PlanOK'
  BY <1>0, PlanKeeps
<1>3. CountOK'
  <2>1. k \in Int
    BY <1>0 DEF PlanOK
  <2> QED BY <1>0, <2>1, SameCopies DEF Ok
<1>4. \A i : CopiesOf(i)' = CopiesOf(i)
  BY DEF CopiesOf
<1>5. toAttach' \subseteq Issues /\ \A i \in toAttach' : IsChild(i)'
  BY DEF IsChild
<1>6. LinksOK'
  BY <1>0, <1>4, <1>5 DEF LinksOK, ChildBelowItsParent
<1>7. SendOK'
  BY <1>0, SameSend
<1> QED BY <1>1, <1>2, <1>3, <1>6, <1>7, PartsAfter

LEMMA StepAttach == ASSUME IInv, AttachChild PROVE IInv'
<1>0. SourceOK /\ PlanOK /\ SendOK /\ CountOK /\ LinksOK
  BY Parts
<1>1. PICK i \in toAttach :
       /\ toAttach' = toAttach \ {i}
       /\ LET both == created[i] # None /\ ParentCopy(i) # None
          IN \/ both /\ copies' = [copies EXCEPT ![created[i]].parent = ParentCopy(i)] /\ Ok
             \/ both /\ copies' = [copies EXCEPT ![created[i]].parent = ParentCopy(i)] /\ Fault /\ UNCHANGED lost
             \/ ~both /\ Ok /\ UNCHANGED copies
             \/ both /\ Fault /\ UNCHANGED <<copies, lost>>
  BY DEF AttachChild, AttachBelow
<1>2. pc = "attach" /\ Fixed /\ UNCHANGED <<pc, queue, ordered, parentOf, k, sent, tries, created>>
  BY DEF AttachChild, planVars, createVars
<1>3. (Ok \/ Fault) /\ UNCHANGED lost
  BY <1>1 DEF Ok
<1>4. SourceOK'
  BY <1>0, <1>2, <1>3, SameHistory, FaultHistory DEF SourceOK
<1>5. PlanOK' /\ SendOK'
  BY <1>0, <1>2, PlanKeeps, SameSend
<1>6. i \in Issues /\ IsChild(i) /\ toAttach' \subseteq toAttach
  BY <1>0, <1>1 DEF LinksOK
<1>7. CASE UNCHANGED copies
  <2>1. CountOK'
    <3>1. k \in Int
      BY <1>0 DEF PlanOK
    <3> QED BY <1>0, <1>2, <1>3, <1>7, <3>1, SameCopies
  <2>2. LinksOK'
    <3>1. \A j : CopiesOf(j)' = CopiesOf(j)
      BY <1>7 DEF CopiesOf
    <3> QED BY <1>0, <1>2, <1>6, <1>7, <3>1 DEF LinksOK, ChildBelowItsParent, IsChild
  <2> QED BY <1>4, <1>5, <2>1, <2>2, PartsAfter
<1>8. ASSUME created[i] # None, ParentCopy(i) # None,
             copies' = [copies EXCEPT ![created[i]].parent = ParentCopy(i)]
      PROVE  IInv'
  <2> DEFINE n == created[i]
  <2> DEFINE p == parentOf[i]
  <2>1. n \in CopiesOf(i) /\ n \in DOMAIN copies /\ copies[n].of = i
    BY <1>0, <1>6, <1>8 DEF LinksOK, CopiesOf
  <2>2. p \in Issues /\ created[p] \in CopiesOf(p) /\ created[p] \in DOMAIN copies /\ created[p] \in Nat /\ copies[created[p]].of = p
    <3>1. p \in Issues
      BY <1>0, <1>6 DEF PlanOK, IsChild
    <3>2. created[p] # None
      BY <1>8 DEF ParentCopy
    <3> QED BY <1>0, <3>1, <3>2 DEF LinksOK, CopiesOf
  <2>3. copies' = [copies EXCEPT ![n] = [copies[n] EXCEPT !.parent = created[p]]]
    BY <1>8 DEF ParentCopy
  <2>4. copies \in Seq(Copy) /\ copies[n] \in Copy
    BY <1>0, <2>1 DEF CountOK
  <2>5. [copies[n] EXCEPT !.parent = created[p]] \in Copy
    BY <2>2, <2>4 DEF Copy
  <2>6. copies' \in Seq(Copy) /\ DOMAIN copies' = DOMAIN copies
    BY <2>1, <2>3, <2>4, <2>5, CopyReplaced
  <2>7. \A c \in DOMAIN copies : copies'[c] = IF c = n THEN [copies[n] EXCEPT !.parent = created[p]] ELSE copies[c]
    BY <2>3, <2>4
  <2>8. /\ [copies[n] EXCEPT !.parent = created[p]].of = copies[n].of
        /\ [copies[n] EXCEPT !.parent = created[p]].task = copies[n].task
        /\ [copies[n] EXCEPT !.parent = created[p]].parent = created[p]
    BY <2>4 DEF Copy
  <2>9. \A c \in DOMAIN copies : copies'[c].of = copies[c].of /\ copies'[c].task = copies[c].task
    BY <2>7, <2>8
  <2>10. \A j : CopiesOf(j)' = CopiesOf(j)
    BY <2>6, <2>9 DEF CopiesOf
  <2>11. CountOK'
    <3>1. CopiesFollowThePlan'
      BY <1>0, <1>2, <2>6, <2>9 DEF CountOK, CopiesFollowThePlan
    <3>2. (\A c \in DOMAIN copies : copies[c].task = IsChild(copies[c].of))'
      BY <1>0, <1>2, <2>6, <2>9 DEF CountOK, IsChild
    <3>3. CopiedOnce'
      BY <1>0, <1>3, <2>10 DEF CountOK, CopiedOnce, Sends
    <3> QED BY <1>2, <2>6, <3>1, <3>2, <3>3 DEF CountOK, AtHandOK
  <2>12. copies[n].task
    BY <1>0, <1>6, <2>1 DEF CountOK
  <2>13. ChildBelowItsParent'
    <3> SUFFICES ASSUME NEW c \in DOMAIN copies, copies'[c].parent # None
                 PROVE  /\ copies'[c].task /\ created[copies'[c].of] = c
                        /\ copies'[c].parent = created[parentOf[copies'[c].of]]
                        /\ copies'[copies'[c].parent].of = parentOf[copies'[c].of]
      BY <1>2, <2>6 DEF ChildBelowItsParent
    <3>1. CASE c = n
      <4>1. copies'[c].parent = created[p] /\ copies'[c].of = i /\ copies'[c].task
        BY <2>1, <2>7, <2>8, <2>12, <3>1
      <4> QED BY <2>2, <2>9, <3>1, <4>1
    <3>2. CASE c # n
      <4>1. copies'[c] = copies[c]
        BY <2>7, <3>2
      <4>2. /\ copies[c].task /\ created[copies[c].of] = c
            /\ copies[c].parent = created[parentOf[copies[c].of]]
            /\ copies[copies[c].parent].of = parentOf[copies[c].of]
        BY <1>0, <4>1 DEF LinksOK, ChildBelowItsParent
      <4>3. copies[c].of \in Issues /\ parentOf[copies[c].of] \in Issues
        <5>1. copies[c] \in Copy
          BY <2>4
        <5>2. copies[c].of \in Issues /\ IsChild(copies[c].of)
          BY <1>0, <4>2, <5>1 DEF CountOK, Copy
        <5> QED BY <1>0, <5>2 DEF PlanOK, IsChild
      <4>4. copies[c].parent \in DOMAIN copies
        BY <1>0, <4>1, <4>2, <4>3 DEF LinksOK, CopiesOf
      <4> QED BY <2>9, <4>1, <4>2, <4>4
    <3> QED BY <3>1, <3>2
  <2>14. LinksOK'
    BY <1>0, <1>2, <1>6, <2>10, <2>13 DEF LinksOK, IsChild
  <2> QED BY <1>4, <1>5, <2>11, <2>14, PartsAfter
<1> QED BY <1>1, <1>7, <1>8

LEMMA StepAllAttached == ASSUME IInv, AllAttached PROVE IInv'
<1> USE DEF AllAttached, planVars, createVars
<1>0. SourceOK /\ PlanOK /\ SendOK /\ CountOK /\ LinksOK
  BY Parts
<1>1. SourceOK'
  BY <1>0, SameHistory
<1>2. PlanOK'
  BY <1>0, PlanKeeps
<1>3. k \in Int
  BY <1>0 DEF PlanOK
<1>4. CountOK'
  BY <1>0, <1>3, SameCopies DEF Ok
<1>5. LinksOK'
  BY <1>0, SameLinks
<1>6. SendOK'
  BY <1>0, SameSend
<1> QED BY <1>1, <1>2, <1>4, <1>5, <1>6, PartsAfter

----------------------------------------------------------------------------

LEMMA StepEdit == ASSUME IInv, Edit PROVE IInv'
<1>0. SourceOK /\ PlanOK /\ SendOK /\ CountOK /\ LinksOK
  BY Parts
<1>1. /\ edits < MaxEdits /\ edits' = edits + 1 /\ quiet' = FALSE /\ children' \in Forests
      /\ UNCHANGED <<configured, include, pc, queue, ordered, parentOf, k, sent, tries, created, copies, toAttach>>
      /\ UNCHANGED <<faults, lost>>
  BY DEF Edit, planVars, createVars
<1>2. SourceOK'
  <2>1. edits \in 0..MaxEdits /\ MaxEdits \in Nat
    BY <1>0, Zenon DEF SourceOK, IssueReplicationAssumption
  <2>2. edits' \in 0..MaxEdits
    BY <1>1, <2>1
  <2> QED BY <1>0, <1>1, <2>2, Zenon DEF SourceOK
<1>3. PlanOK'
  BY <1>0, <1>1 DEF PlanOK, PlannedOnce
<1>4. k \in Int
  BY <1>0 DEF PlanOK
<1>5. CountOK'
  BY <1>0, <1>1 DEF CountOK, CopiedOnce, CopiesOf, Sends, CopiesFollowThePlan, AtHandOK, SentBefore, This, IsChild
<1>6. LinksOK'
  BY <1>0, <1>1, SameLinks
<1>7. SendOK'
  BY <1>0, <1>1 DEF SendOK, This
<1> QED BY <1>2, <1>3, <1>5, <1>6, <1>7, PartsAfter

LEMMA NextKeepsIInv == IInv /\ [Next]_vars => IInv'
<1> SUFFICES ASSUME IInv, [Next]_vars PROVE IInv'
  OBVIOUS
<1>1. CASE UNCHANGED vars
  <2>0. SourceOK /\ PlanOK /\ SendOK /\ CountOK /\ LinksOK
    BY Parts
  <2>1. SourceOK'
    BY <2>0, <1>1 DEF vars, SourceOK
  <2>2. PlanOK'
    BY <2>0, <1>1 DEF vars, planVars, PlanOK, PlannedOnce
  <2>3. CountOK'
    BY <2>0, <1>1 DEF vars, planVars, createVars, CountOK, CopiedOnce, CopiesOf, Sends, CopiesFollowThePlan,
       AtHandOK, SentBefore, This, IsChild
  <2>4. LinksOK'
    BY <2>0, <1>1, SameLinks DEF vars, planVars
  <2>5. SendOK'
    BY <2>0, <1>1 DEF vars, planVars, createVars, SendOK, This
  <2> QED BY <2>1, <2>2, <2>3, <2>4, <2>5, PartsAfter
<1>2. CASE Step
  BY <1>2, StepStart, StepPlan, StepPlanDone, StepLoad, StepMetadata, StepCopy, StepClose, StepCopiesDone, StepAttach,
     StepAllAttached DEF Step
<1>3. CASE Edit
  BY <1>3, StepEdit
<1> QED BY <1>1, <1>2, <1>3 DEF Next

----------------------------------------------------------------------------

\* The inductive invariant holds of every replication.
THEOREM Invariance == Spec => []IInv
BY InitIInv, NextKeepsIInv, PTL DEF Spec

\* The state is well typed, and the copy an issue is known by is one of it.
THEOREM TypeCorrect == Spec => []TypeOK
<1>1. IInv => TypeOK
  BY DEF IInv
<1> QED BY <1>1, Invariance, PTL

\* However often an issue is configured or found as a child, it is planned once.
THEOREM PlanIsASet == Spec => []PlannedOnce
<1>1. IInv => PlannedOnce
  BY DEF IInv
<1> QED BY <1>1, Invariance, PTL

\* Whatever GitLab answers and however often the client sends again, an issue that
\* GitLab said it made is not made a second time: the other copies are of creates
\* answered as failed, and no more than are sent for one place in the plan.
THEOREM NoneAgainOnceAnswered == Spec => []CopiedOnce
<1>1. IInv => CopiedOnce
  BY DEF IInv
<1> QED BY <1>1, Invariance, PTL

\* A copy is attached to the copy of the issue that was planned as its parent.
THEOREM RightParent == Spec => []ChildBelowItsParent
<1>1. IInv => ChildBelowItsParent
  BY DEF IInv
<1> QED BY <1>1, Invariance, PTL

----------------------------------------------------------------------------
(* The least set.  What is wanted is closed under children and no larger than *)
(* it must be, so a plan that follows the children is all of it and no more.   *)

LEMMA ListedOnes ==
  ASSUME NEW s \in Seq(Issues)
  PROVE  /\ Listed(s) \subseteq Issues
         /\ s = <<>> => Listed(s) = {}
         /\ s # <<>> => Listed(s) = {Head(s)} \cup Listed(Tail(s))
<1>1. Listed(s) \subseteq Issues /\ (s = <<>> => Listed(s) = {})
  BY DEF Listed
<1>2. ASSUME s # <<>> PROVE Listed(s) = {Head(s)} \cup Listed(Tail(s))
  <2>1. /\ Len(s) \in Nat /\ Len(s) >= 1 /\ DOMAIN s = 1..Len(s) /\ Head(s) = s[1]
        /\ DOMAIN Tail(s) = 1..(Len(s) - 1) /\ \A j \in 1..(Len(s) - 1) : Tail(s)[j] = s[j + 1]
    BY <1>2
  <2>2. Listed(s) \subseteq {Head(s)} \cup Listed(Tail(s))
    <3> SUFFICES ASSUME NEW j \in DOMAIN s, j # 1 PROVE s[j] \in Listed(Tail(s))
      BY <2>1 DEF Listed
    <3>1. j - 1 \in 1..(Len(s) - 1) /\ (j - 1) + 1 = j
      BY <2>1
    <3>2. Tail(s)[j - 1] = s[j] /\ j - 1 \in DOMAIN Tail(s)
      BY <2>1, <3>1
    <3> QED BY <3>2 DEF Listed
  <2>3. Listed(Tail(s)) \subseteq Listed(s)
    <3> SUFFICES ASSUME NEW j \in 1..(Len(s) - 1) PROVE Tail(s)[j] \in Listed(s)
      BY <2>1 DEF Listed
    <3>1. j + 1 \in DOMAIN s /\ Tail(s)[j] = s[j + 1]
      BY <2>1
    <3> QED BY <3>1 DEF Listed
  <2>4. Head(s) \in Listed(s)
    <3>1. 1 \in DOMAIN s /\ Head(s) = s[1]
      BY <2>1
    <3> QED BY <3>1, Zenon DEF Listed
  <2> QED BY <2>2, <2>3, <2>4
<1> QED BY <1>1, <1>2

LEMMA ListedMore ==
  ASSUME NEW s \in Seq(Issues), NEW i \in Issues
  PROVE  Listed(Append(s, i)) = Listed(s) \cup {i}
<1>1. /\ DOMAIN Append(s, i) = DOMAIN s \cup {Len(s) + 1} /\ Append(s, i)[Len(s) + 1] = i
      /\ \A j \in DOMAIN s : Append(s, i)[j] = s[j]
  OBVIOUS
<1> QED BY <1>1 DEF Listed

LEMMA ListedBoth ==
  ASSUME NEW s \in Seq(Issues), NEW t \in Seq(Issues)
  PROVE  Listed(s \o t) = Listed(s) \cup Listed(t)
<1>1. /\ DOMAIN (s \o t) = 1..(Len(s) + Len(t)) /\ DOMAIN s = 1..Len(s) /\ DOMAIN t = 1..Len(t)
      /\ Len(s) \in Nat /\ Len(t) \in Nat
      /\ \A j \in 1..Len(s) : (s \o t)[j] = s[j]
      /\ \A j \in 1..Len(t) : (s \o t)[j + Len(s)] = t[j]
  OBVIOUS
<1>2. ASSUME NEW j \in DOMAIN (s \o t) PROVE (s \o t)[j] \in Listed(s) \cup Listed(t)
  <2>1. CASE j <= Len(s)
    BY <1>1, <2>1 DEF Listed
  <2>2. CASE j > Len(s)
    <3>1. j - Len(s) \in 1..Len(t) /\ (j - Len(s)) + Len(s) = j
      BY <1>1, <2>2
    <3>2. (s \o t)[j] = t[j - Len(s)]
      BY <1>1, <3>1
    <3> QED BY <1>1, <3>1, <3>2 DEF Listed
  <2> QED BY <1>1, <2>1, <2>2
<1>3. ASSUME NEW j \in DOMAIN s PROVE s[j] \in Listed(s \o t)
  <2>1. j \in DOMAIN (s \o t) /\ (s \o t)[j] = s[j]
    BY <1>1
  <2> QED BY <2>1 DEF Listed
<1>4. ASSUME NEW j \in DOMAIN t PROVE t[j] \in Listed(s \o t)
  <2>1. j + Len(s) \in DOMAIN (s \o t) /\ (s \o t)[j + Len(s)] = t[j]
    BY <1>1
  <2> QED BY <2>1 DEF Listed
<1>5. Listed(s \o t) \subseteq Listed(s) \cup Listed(t)
  BY <1>2 DEF Listed
<1>6. Listed(s) \subseteq Listed(s \o t)
  BY <1>3 DEF Listed
<1>7. Listed(t) \subseteq Listed(s \o t)
  BY <1>4 DEF Listed
<1> QED BY <1>5, <1>6, <1>7

LEMMA ConfiguredAreIssues == ASSUME SourceOK PROVE Listed(configured) \subseteq Issues
<1>1. PICK n \in Numbers : configured = ResolveIssues(n)
  BY Zenon DEF SourceOK
<1>2. n \in Seq(Issues) /\ <<First>> \in Seq(Issues)
  OBVIOUS
<1>3. configured \in Seq(Issues)
  BY <1>1, <1>2, Zenon DEF ResolveIssues
<1> QED BY <1>3, ListedOnes

LEMMA WantedIsLeast ==
  ASSUME SourceOK
  PROVE  /\ Listed(configured) \subseteq Wanted /\ Wanted \subseteq Issues
         /\ include => \A i \in Wanted : children[i] \subseteq Wanted
         /\ include => \A some \in SUBSET Issues : HoldsAllBelow(some) => Wanted \subseteq some
         /\ ~include => Wanted = Listed(configured)
<1>1. Listed(configured) \subseteq Issues
  BY ConfiguredAreIssues
<1>2. children \in [Issues -> SUBSET Issues]
  BY DEF SourceOK
<1>3. ASSUME NEW i \in Below PROVE children[i] \subseteq Below
  <2> SUFFICES ASSUME NEW c \in children[i], NEW some \in SUBSET Issues, HoldsAllBelow(some)
               PROVE  c \in some
    BY <1>2, <1>3 DEF Below
  <2>1. i \in some
    BY <1>3 DEF Below
  <2> QED BY <2>1 DEF HoldsAllBelow
<1>4. Listed(configured) \subseteq Below
  BY <1>1 DEF Below, HoldsAllBelow
<1>5. \A some \in SUBSET Issues : HoldsAllBelow(some) => Below \subseteq some
  BY DEF Below
<1>6. Below \subseteq Issues
  BY DEF Below
<1> QED BY <1>1, <1>3, <1>4, <1>5, <1>6 DEF Wanted

LEMMA WantedStays == ASSUME Fixed PROVE Wanted' = Wanted
BY DEF Fixed, Wanted, Below, HoldsAllBelow, Listed

----------------------------------------------------------------------------
(* A replication in which nothing fails and nobody edits the source           *)

\* The plan has what is configured, in the queue or behind it, and the children of
\* what it has planned; nothing else, and each child under the parent it has there.
QuietPlan ==
  /\ Listed(queue) \cup Listed(ordered) \subseteq Wanted
  /\ Listed(configured) \subseteq Listed(queue) \cup Listed(ordered)
  /\ include => \A i \in Listed(ordered) : children[i] \subseteq Listed(queue) \cup Listed(ordered)
  /\ \A c \in Issues :
       IF parentOf[c] = None THEN include => \A p \in Listed(ordered) : c \notin children[p]
       ELSE include /\ parentOf[c] \in Listed(ordered) /\ c \in children[parentOf[c]]
  /\ pc \notin {"start", "plan"} => queue = <<>>

\* The copies are in the order of the plan, and an issue is known by its own.
CopyInPlace(c) ==
  /\ copies[c].of = ordered[c] /\ created[ordered[c]] = c
  /\ copies[c].meta = Metadata[ordered[c]]
  /\ copies[c].closed = (ordered[c] \in ClosedIssues /\ ~(pc = "close" /\ c = k))

QuietCopies ==
  /\ pc # "retry" /\ (pc \in {"start", "plan"} => k = 1)
  /\ pc = "create" => sent = Metadata[This]
  /\ Len(copies) = IF pc = "close" THEN k ELSE k - 1
  /\ pc \in {"attach", "done"} => k = Len(ordered) + 1
  /\ pc = "close" => This \in ClosedIssues
  /\ \A c \in DOMAIN copies : CopyInPlace(c)

QuietLinks ==
  /\ pc \in {"attach", "done"} =>
       \A i \in Issues \ toAttach : IsChild(i) => copies[created[i]].parent = created[parentOf[i]]
  /\ pc = "done" => toAttach = {}

QuietInv == quiet => QuietPlan /\ QuietCopies /\ QuietLinks

\* Once the queue is empty, the plan is what is wanted.
LEMMA PlanIsWanted ==
  ASSUME SourceOK, PlanOK, QuietPlan, queue = <<>>
  PROVE  Listed(ordered) = Wanted
<1>1. Listed(queue) = {}
  BY DEF Listed
<1>2. Listed(ordered) \subseteq Issues
  BY ListedOnes DEF PlanOK
<1>3. CASE include
  <2>1. HoldsAllBelow(Listed(ordered))
    BY <1>1, <1>3 DEF QuietPlan, HoldsAllBelow
  <2> QED BY <1>1, <1>2, <1>3, <2>1, WantedIsLeast DEF QuietPlan
<1>4. CASE ~include
  BY <1>1, <1>4, WantedIsLeast DEF QuietPlan
<1> QED BY <1>3, <1>4

LEMMA InitQuiet == ASSUME Init PROVE QuietInv
<1>0. SourceOK /\ PlanOK
  BY InitIInv, Parts
<1>1. Listed(queue) = Listed(configured) /\ Listed(ordered) = {}
  BY DEF Init, Listed
<1>2. QuietPlan
  BY <1>0, <1>1, WantedIsLeast DEF Init, QuietPlan
<1>3. QuietCopies
  BY DEF Init, QuietCopies
<1>4. QuietLinks
  BY DEF Init, QuietLinks
<1> QED BY <1>2, <1>3, <1>4 DEF QuietInv

\* The plan is not touched, and no longer needed once it is made.
LEMMA SamePlan ==
  ASSUME QuietPlan, Fixed, UNCHANGED <<queue, ordered, parentOf>>,
         pc \in {"start", "plan"} /\ pc' \notin {"start", "plan"} => queue = <<>>
  PROVE  QuietPlan'
<1>1. UNCHANGED <<Wanted, children, configured, include>>
  BY WantedStays DEF Fixed
<1>2. /\ Listed(queue)' = Listed(queue) /\ Listed(ordered)' = Listed(ordered)
      /\ Listed(configured)' = Listed(configured)
  BY <1>1 DEF Listed
<1> QED BY <1>1, <1>2 DEF QuietPlan

\* One issue is taken from the queue; with its children, if they are wanted.
LEMMA QuietPlanIssue ==
  ASSUME IInv, QuietPlan, PlanIssue, quiet'
  PROVE  QuietPlan' /\ pc' = "plan"
<1>0. SourceOK /\ PlanOK /\ Fixed /\ pc = "plan" /\ queue # <<>>
  BY Parts DEF PlanIssue
<1> DEFINE i == Head(queue)
<1>1. /\ i \in Issues /\ Tail(queue) \in Seq(Issues) /\ ordered \in Seq(Issues)
      /\ Listed(queue) = {i} \cup Listed(Tail(queue))
      /\ children \in [Issues -> SUBSET Issues] /\ i # None
  BY <1>0, ListedOnes DEF PlanOK, SourceOK
<1>2. Wanted' = Wanted /\ children' = children /\ configured' = configured /\ include' = include
  BY <1>0, WantedStays DEF Fixed
<1>3. Listed(configured)' = Listed(configured)
  BY <1>2 DEF Listed
<1>4. ~Fault
  BY DEF Fault
<1> DEFINE all == Listed(queue) \cup Listed(ordered)
<1> HIDE DEF i
<1>5. CASE Seen(i) /\ queue' = Tail(queue) /\ UNCHANGED <<ordered, parentOf, pc>>
  <2>1. Listed(queue)' = Listed(Tail(queue)) /\ Listed(ordered)' = Listed(ordered)
    BY <1>5 DEF Listed
  <2>2. all' = all
    BY <1>1, <1>5, <2>1 DEF Seen
  <2> QED BY <1>0, <1>2, <1>3, <1>5, <2>1, <2>2 DEF QuietPlan
<1>6. CASE ~include /\ queue' = Tail(queue) /\ ordered' = Append(ordered, i) /\ UNCHANGED <<parentOf, pc>>
  <2>1. Listed(queue)' = Listed(Tail(queue)) /\ Listed(ordered)' = Listed(ordered) \cup {i}
    <3>1. Listed(ordered)' = Listed(Append(ordered, i)) /\ Listed(queue)' = Listed(Tail(queue))
      BY <1>6 DEF Listed
    <3> QED BY <1>1, <3>1, ListedMore
  <2>2. all' = all
    BY <1>1, <2>1
  <2> QED BY <1>0, <1>2, <1>3, <1>6, <2>2 DEF QuietPlan
<1>7. ASSUME include, NEW list \in Orders({c \in children[i] : ~Seen(c) /\ c # i}),
             queue' = Tail(queue) \o list, ordered' = Append(ordered, i),
             parentOf' = FirstParent(children[i], i), UNCHANGED pc
      PROVE  QuietPlan'
  <2>1. children[i] \subseteq Issues
    BY <1>1
  <2>2. list \in Seq(Issues)
    <3>1. {c \in children[i] : ~Seen(c) /\ c # i} \in SUBSET Issues
      BY <2>1
    <3> QED BY <1>7, <3>1, OrderIsASequence
  <2>3. Listed(list) = {c \in children[i] : ~Seen(c) /\ c # i}
    BY <1>7 DEF Orders
  <2>4. Listed(queue)' = Listed(Tail(queue)) \cup Listed(list)
    <3>1. Listed(queue)' = Listed(Tail(queue) \o list)
      BY <1>7 DEF Listed
    <3> QED BY <1>1, <2>2, <3>1, ListedBoth
  <2>5. Listed(ordered)' = Listed(ordered) \cup {i}
    <3>1. Listed(ordered)' = Listed(Append(ordered, i))
      BY <1>7 DEF Listed
    <3> QED BY <1>1, <3>1, ListedMore
  <2>6. all' = all \cup children[i]
    BY <1>1, <2>3, <2>4, <2>5 DEF Seen
  <2>7. children[i] \subseteq Wanted
    BY <1>0, <1>1, <1>7, WantedIsLeast DEF QuietPlan
  <2>8. all' \subseteq Wanted'
    BY <1>2, <2>6, <2>7 DEF QuietPlan
  <2>9. Listed(configured)' \subseteq all'
    BY <1>3, <2>6 DEF QuietPlan
  <2>10. \A j \in Listed(ordered)' : children'[j] \subseteq all'
    BY <1>2, <1>7, <2>5, <2>6 DEF QuietPlan
  <2>11. ASSUME NEW c \in Issues
         PROVE  IF parentOf'[c] = None THEN \A p \in Listed(ordered)' : c \notin children'[p]
                ELSE parentOf'[c] \in Listed(ordered)' /\ c \in children'[parentOf'[c]]
    <3>1. parentOf'[c] = IF c \in children[i] /\ parentOf[c] = None THEN i ELSE parentOf[c]
      BY <1>7 DEF FirstParent
    <3>2. IF parentOf[c] = None THEN \A p \in Listed(ordered) : c \notin children[p]
          ELSE parentOf[c] \in Listed(ordered) /\ c \in children[parentOf[c]]
      BY <1>7 DEF QuietPlan
    <3> QED BY <1>1, <1>2, <2>5, <3>1, <3>2
  <2> QED BY <1>0, <1>2, <1>7, <2>8, <2>9, <2>10, <2>11 DEF QuietPlan
<1> QED
  <2>1. CASE Seen(i)
    BY <1>0, <1>5, <2>1 DEF PlanIssue, i
  <2>2. CASE ~Seen(i) /\ ~include
    BY <1>0, <1>6, <2>2 DEF PlanIssue, i
  <2>3. CASE ~Seen(i) /\ include
    <3>1. PICK kids \in ChildrenFound(i) :
            /\ kids = children[i]
            /\ \E list \in Orders({c \in kids : ~Seen(c) /\ c # i}) : queue' = Tail(queue) \o list
            /\ parentOf' = FirstParent(kids, i) /\ ordered' = Append(ordered, i) /\ UNCHANGED pc
      BY <1>4, <2>3 DEF PlanIssue, i
    <3> QED BY <1>0, <1>7, <2>3, <3>1
  <2> QED BY <2>1, <2>2, <2>3

----------------------------------------------------------------------------
(* The copies of a quiet replication                                          *)

LEMMA SameQuietCopies ==
  ASSUME QuietCopies, CountOK, UNCHANGED <<copies, created>>,
         \/ UNCHANGED <<k, ordered>> /\ (pc = "close" <=> pc' = "close")
            /\ pc' # "retry" /\ (pc' = "create" => sent' = Metadata[This])
            /\ (pc' \in {"start", "plan"} => pc \in {"start", "plan"})
            /\ (pc' \in {"attach", "done"} => k = Len(ordered) + 1)
         \/ copies = <<>> /\ UNCHANGED k /\ pc = "plan" /\ pc' = "plan"
  PROVE  QuietCopies'
<1>1. DOMAIN <<>> = {} /\ Len(<<>>) = 0
  OBVIOUS
<1> QED BY <1>1 DEF QuietCopies, CopyInPlace, This

\* One more copy, in the place that its issue has in the plan.
LEMMA QuietCreate ==
  ASSUME IInv, QuietCopies, pc = "create", quiet', CreateIssue
  PROVE  QuietCopies' /\ pc' \in {"load", "close"} /\ UNCHANGED <<queue, ordered, parentOf, toAttach>> /\ Fixed
<1>0. PlanOK /\ CountOK /\ LinksOK /\ k <= Len(ordered) /\ ~Fault
  BY Parts DEF PlanOK, Fault
<1>1. /\ copies' = Append(copies, NewCopy(This, sent)) /\ CopyMade
      /\ UNCHANGED <<queue, ordered, parentOf, toAttach>> /\ Fixed
  BY <1>0, Zenon DEF CreateIssue, Resend, Unanswered, planVars
<1> DEFINE new == NewCopy(This, sent)
<1>2. /\ copies \in Seq(Copy) /\ Len(copies) = k - 1 /\ k \in Nat
      /\ This = ordered[k] /\ This \in Issues /\ k \in DOMAIN ordered
  BY <1>0, ThisIsAnIssue DEF CountOK, QuietCopies, PlanOK
<1>3. new.of = ordered[k] /\ new.closed = FALSE /\ new.meta = Metadata[ordered[k]] /\ new \in Copy
  <2>1. sent = Metadata[This] /\ sent \subseteq Kinds
    BY <1>2 DEF QuietCopies
  <2> QED BY <1>2, <2>1 DEF NewCopy, Copy, IsChild
<1> HIDE DEF new
<1>4. /\ DOMAIN copies' = (1..(k - 1)) \cup {k} /\ Len(copies') = k
      /\ \A c \in 1..(k - 1) : copies'[c] = copies[c]
      /\ copies'[k] = new /\ DOMAIN copies = 1..(k - 1)
  BY <1>1, <1>2, <1>3 DEF new
<1>5. created' = [created EXCEPT ![ordered[k]] = k] /\ created \in [Issues -> Nat \cup {None}]
  <2>1. created' = [created EXCEPT ![This] = Len(copies) + 1]
    BY <1>1, Zenon DEF CopyMade
  <2>2. Len(copies) + 1 = k
    BY <1>2
  <2>3. created \in [Issues -> Nat \cup {None}]
    BY <1>0, Zenon DEF LinksOK
  <2> QED BY <1>2, <2>1, <2>2, <2>3
<1>6. \A c \in 1..(k - 1) : c \in DOMAIN ordered /\ ordered[c] # ordered[k] /\ ordered[c] \in Issues
  BY <1>0, <1>2 DEF PlanOK, PlannedOnce
<1>7. ASSUME NEW c \in 1..(k - 1)
      PROVE  /\ copies'[c].of = ordered[c] /\ created'[ordered[c]] = c
             /\ copies'[c].meta = Metadata[ordered[c]]
             /\ copies'[c].closed = (ordered[c] \in ClosedIssues)
  BY <1>4, <1>5, <1>6 DEF QuietCopies, CopyInPlace
<1>8. created'[ordered[k]] = k
  BY <1>2, <1>5
<1>9. CASE This \in ClosedIssues /\ pc' = "close" /\ UNCHANGED k
  <2>1. k' = k /\ This' = This /\ ordered' = ordered
    BY <1>1, <1>9 DEF This
  <2>2. copies'[k].closed = (ordered[k] \in ClosedIssues /\ ~(pc' = "close" /\ k = k'))
    BY <1>3, <1>4, <1>9, <2>1
  <2>3. \A c \in 1..(k - 1) : copies'[c].closed = (ordered[c] \in ClosedIssues /\ ~(pc' = "close" /\ c = k'))
    BY <1>2, <1>7, <2>1
  <2>4. ASSUME NEW c \in DOMAIN copies' PROVE CopyInPlace(c)'
    <3>1. CASE c = k
      BY <1>3, <1>4, <1>8, <2>1, <2>2, <3>1 DEF CopyInPlace
    <3>2. CASE c \in 1..(k - 1)
      BY <1>7, <2>1, <2>3, <3>2 DEF CopyInPlace
    <3> QED BY <1>4, <3>1, <3>2
  <2> QED BY <1>1, <1>4, <1>9, <2>1, <2>4 DEF QuietCopies
<1>10. CASE This \notin ClosedIssues /\ NextIssue
  <2>1. k' = k + 1 /\ pc' = "load" /\ ordered' = ordered
    BY <1>1, <1>10 DEF NextIssue
  <2>2. copies'[k].closed = FALSE /\ ordered[k] \notin ClosedIssues
    BY <1>2, <1>3, <1>4, <1>10
  <2>3. ASSUME NEW c \in DOMAIN copies' PROVE CopyInPlace(c)'
    <3>1. CASE c = k
      BY <1>3, <1>4, <1>8, <2>1, <2>2, <3>1 DEF CopyInPlace
    <3>2. CASE c \in 1..(k - 1)
      BY <1>7, <2>1, <3>2 DEF CopyInPlace
    <3> QED BY <1>4, <3>1, <3>2
  <2> QED BY <1>1, <1>2, <1>4, <2>1, <2>3 DEF QuietCopies
<1> QED BY <1>1, <1>9, <1>10 DEF CopyMade, NextIssue

LEMMA QuietClose ==
  ASSUME IInv, QuietCopies, quiet', CloseIssue
  PROVE  QuietCopies' /\ pc' = "load" /\ UNCHANGED <<queue, ordered, parentOf, toAttach>> /\ Fixed
<1>0. PlanOK /\ CountOK /\ LinksOK /\ pc = "close" /\ k <= Len(ordered) /\ ~Fault
  BY Parts DEF PlanOK, Fault, CloseIssue
<1>1. /\ copies' = [copies EXCEPT ![created[This]].closed = TRUE] /\ NextIssue /\ Fixed
      /\ UNCHANGED <<queue, ordered, parentOf, created, toAttach>>
  BY <1>0, Zenon DEF CloseIssue, CloseCopy, planVars
<1>2. copies \in Seq(Copy) /\ Len(copies) = k /\ k \in Nat /\ k >= 1 /\ This = ordered[k] /\ k \in DOMAIN copies
  BY <1>0, ThisIsAnIssue DEF CountOK, QuietCopies, PlanOK
<1>3. created[This] = k
  BY <1>2 DEF QuietCopies, CopyInPlace
<1>4. copies' = [copies EXCEPT ![k] = [copies[k] EXCEPT !.closed = TRUE]] /\ copies[k] \in Copy
  BY <1>1, <1>2, <1>3
<1>5. /\ [copies[k] EXCEPT !.closed = TRUE] \in Copy
      /\ [copies[k] EXCEPT !.closed = TRUE].of = copies[k].of
      /\ [copies[k] EXCEPT !.closed = TRUE].meta = copies[k].meta
      /\ [copies[k] EXCEPT !.closed = TRUE].closed = TRUE
  BY <1>4 DEF Copy
<1>6. copies' \in Seq(Copy) /\ DOMAIN copies' = DOMAIN copies
  BY <1>2, <1>4, <1>5, CopyReplaced
<1>7. \A c \in DOMAIN copies : copies'[c] = IF c = k THEN [copies[k] EXCEPT !.closed = TRUE] ELSE copies[c]
  BY <1>2, <1>4
<1>8. Len(copies') = k
  BY <1>2, <1>6
<1>9. ordered[k] \in ClosedIssues
  BY <1>0, <1>2 DEF QuietCopies
<1>10. \A c \in DOMAIN copies' :
         /\ copies'[c].of = ordered[c] /\ created[ordered[c]] = c
         /\ copies'[c].meta = Metadata[ordered[c]]
         /\ copies'[c].closed = (ordered[c] \in ClosedIssues)
  <2> SUFFICES ASSUME NEW c \in DOMAIN copies
               PROVE  /\ copies'[c].of = ordered[c] /\ created[ordered[c]] = c
                      /\ copies'[c].meta = Metadata[ordered[c]]
                      /\ copies'[c].closed = (ordered[c] \in ClosedIssues)
    BY <1>6
  <2>1. /\ copies[c].of = ordered[c] /\ created[ordered[c]] = c
        /\ copies[c].meta = Metadata[ordered[c]]
        /\ copies[c].closed = (ordered[c] \in ClosedIssues /\ ~(pc = "close" /\ c = k))
    BY DEF QuietCopies, CopyInPlace
  <2>2. CASE c = k
    <3>1. copies'[c].closed = TRUE
      BY <1>5, <1>7, <2>2
    <3> QED BY <1>5, <1>7, <1>9, <2>1, <2>2, <3>1
  <2>3. CASE c # k
    <3>1. copies'[c] = copies[c]
      BY <1>7, <2>3
    <3>2. copies[c].closed = (ordered[c] \in ClosedIssues)
      BY <2>1, <2>3
    <3> QED BY <2>1, <3>1, <3>2
  <2> QED BY <2>2, <2>3
<1>11. k' = k + 1 /\ pc' = "load" /\ ordered' = ordered /\ created' = created
  BY <1>1 DEF NextIssue
<1>12. ASSUME NEW c \in DOMAIN copies' PROVE CopyInPlace(c)'
  BY <1>10, <1>11 DEF CopyInPlace
<1> QED BY <1>1, <1>2, <1>8, <1>11, <1>12 DEF QuietCopies

----------------------------------------------------------------------------
(* The attachments of a quiet replication                                     *)

\* When the copies are done, what is wanted has a copy and is known by it.
LEMMA WantedAreKnown ==
  ASSUME SourceOK, PlanOK, CountOK, QuietPlan, QuietCopies, pc \in {"attach", "done"}, NEW i \in Wanted
  PROVE  created[i] \in DOMAIN copies /\ copies[created[i]].of = i
<1>1. queue = <<>> /\ k = Len(ordered) + 1 /\ Len(copies) = k - 1
  BY DEF QuietPlan, QuietCopies
<1>2. i \in Listed(ordered)
  BY <1>1, PlanIsWanted
<1>3. PICK c \in DOMAIN ordered : ordered[c] = i
  BY <1>2 DEF Listed
<1>4. DOMAIN copies = DOMAIN ordered
  BY <1>1 DEF PlanOK, CountOK
<1> QED BY <1>3, <1>4 DEF QuietCopies, CopyInPlace

\* A child and its parent are both wanted.
LEMMA FamilyIsWanted ==
  ASSUME SourceOK, PlanOK, QuietPlan, queue = <<>>, NEW i \in Issues, IsChild(i)
  PROVE  include /\ i \in Wanted /\ parentOf[i] \in Wanted /\ i \in children[parentOf[i]]
<1>1. include /\ parentOf[i] \in Listed(ordered) /\ i \in children[parentOf[i]]
  BY DEF QuietPlan, IsChild
<1>2. Listed(ordered) = Wanted
  BY PlanIsWanted
<1> QED BY <1>1, <1>2, WantedIsLeast

LEMMA QuietAttach ==
  ASSUME IInv, QuietPlan, QuietCopies, QuietLinks, AttachChild, quiet'
  PROVE  QuietPlan' /\ QuietCopies' /\ QuietLinks'
<1>0. SourceOK /\ PlanOK /\ CountOK /\ LinksOK /\ pc = "attach" /\ Fixed /\ queue = <<>>
  BY Parts DEF AttachChild, QuietPlan
<1>1. UNCHANGED <<pc, queue, ordered, parentOf, k, created>> /\ ~Fault
  BY DEF AttachChild, planVars, Fault
<1>2. QuietPlan'
  BY <1>0, <1>1, SamePlan
<1>3. PICK i \in toAttach :
        /\ toAttach' = toAttach \ {i}
        /\ \/ created[i] # None /\ ParentCopy(i) # None
              /\ copies' = [copies EXCEPT ![created[i]].parent = ParentCopy(i)]
           \/ created[i] = None \/ ParentCopy(i) = None
  BY <1>1, Zenon DEF AttachChild, AttachBelow
<1>4. i \in Issues /\ IsChild(i)
  BY <1>0, <1>3 DEF LinksOK
<1>5. i \in Wanted /\ parentOf[i] \in Wanted
  BY <1>0, <1>4, FamilyIsWanted
<1>6. /\ created[i] \in DOMAIN copies /\ copies[created[i]].of = i
      /\ created[parentOf[i]] \in DOMAIN copies
  BY <1>0, <1>5, WantedAreKnown
<1> DEFINE n == created[i]
           row == [copies[n] EXCEPT !.parent = created[parentOf[i]]]
<1>7. copies \in Seq(Copy) /\ copies[n] \in Copy /\ created[parentOf[i]] \in Nat /\ n \in Nat
  BY <1>0, <1>6 DEF CountOK
<1>8. None \notin Nat
  OBVIOUS
<1>9. copies' = [copies EXCEPT ![n] = row]
  BY <1>3, <1>7, <1>8 DEF ParentCopy
<1>10. /\ row \in Copy /\ row.of = copies[n].of /\ row.meta = copies[n].meta
       /\ row.closed = copies[n].closed /\ row.parent = created[parentOf[i]]
  BY <1>7 DEF Copy
<1> HIDE DEF n, row
<1>11. copies' \in Seq(Copy) /\ DOMAIN copies' = DOMAIN copies
  BY <1>6, <1>7, <1>9, <1>10, CopyReplaced DEF n
<1>12. \A c \in DOMAIN copies : copies'[c] = IF c = n THEN row ELSE copies[c]
  BY <1>7, <1>9
<1>13. Len(copies') = Len(copies)
  BY <1>7, <1>11
<1>14. QuietCopies'
  <2>1. ASSUME NEW c \in DOMAIN copies' PROVE CopyInPlace(c)'
    <3>1. CopyInPlace(c)
      BY <1>11, <2>1 DEF QuietCopies
    <3>2. copies'[c].of = copies[c].of /\ copies'[c].meta = copies[c].meta /\ copies'[c].closed = copies[c].closed
      BY <1>10, <1>11, <1>12
    <3> QED BY <1>1, <3>1, <3>2 DEF CopyInPlace
  <2> QED BY <1>0, <1>1, <1>13, <2>1 DEF QuietCopies
<1>15. ASSUME NEW j \in Issues \ toAttach', IsChild(j)
       PROVE  copies'[created[j]].parent = created[parentOf[j]]
  <2>1. CASE j = i
    BY <1>6, <1>10, <1>12, <2>1 DEF n
  <2>2. CASE j # i
    <3>1. j \in Issues \ toAttach
      BY <1>3, <1>15, <2>2
    <3>2. copies[created[j]].parent = created[parentOf[j]]
      BY <1>0, <1>15, <3>1 DEF QuietLinks
    <3>3. j \in Wanted
      BY <1>0, <1>15, FamilyIsWanted
    <3>4. created[j] \in DOMAIN copies /\ copies[created[j]].of = j
      BY <1>0, <3>3, WantedAreKnown
    <3>5. created[j] # n
      BY <1>6, <2>2, <3>4 DEF n
    <3> QED BY <1>12, <3>2, <3>4, <3>5
  <2> QED BY <2>1, <2>2
<1>16. QuietLinks'
  BY <1>0, <1>1, <1>15 DEF QuietLinks, IsChild
<1> QED BY <1>2, <1>14, <1>16

----------------------------------------------------------------------------

LEMMA QuietStep ==
  ASSUME IInv, QuietInv, [Next]_vars
  PROVE  QuietInv'
<1> SUFFICES ASSUME quiet' PROVE QuietPlan' /\ QuietCopies' /\ QuietLinks'
  BY DEF QuietInv
<1>0. SourceOK /\ PlanOK /\ CountOK /\ LinksOK /\ ~Fault /\ ~Edit
  BY Parts DEF Fault, Edit
<1>1. CASE UNCHANGED vars
  <2>1. quiet /\ Fixed /\ UNCHANGED <<pc, queue, ordered, parentOf, k, sent, created, copies, toAttach>>
    BY <1>1 DEF vars, planVars, createVars, Fixed
  <2>2. QuietPlan /\ QuietCopies /\ QuietLinks
    BY <2>1 DEF QuietInv
  <2>3. QuietPlan'
    BY <2>1, <2>2, SamePlan
  <2>4. QuietCopies'
    BY <2>1, <2>2 DEF QuietCopies, CopyInPlace, This
  <2>5. QuietLinks'
    BY <2>1, <2>2 DEF QuietLinks, IsChild
  <2> QED BY <2>3, <2>4, <2>5
<1>2. ASSUME Step PROVE QuietPlan' /\ QuietCopies' /\ QuietLinks'
  <2>0. QuietPlan /\ QuietCopies /\ QuietLinks
    <3>1. Ok
      BY <1>0, <1>2, Zenon DEF Step, GetStartercodeProject, PlanIssue, PlanDone, LoadIssue, PrepareMetadata,
         CreateIssue, RetryBare, Resend, Unanswered, CloseIssue, CopiesDone, AttachChild, AllAttached
    <3> QED BY <3>1 DEF Ok, QuietInv
  <2>1. CASE GetStartercodeProject
    <3>1. /\ pc = "start" /\ pc' = "plan" /\ Fixed
          /\ UNCHANGED <<queue, ordered, parentOf, k, created, copies, toAttach>>
      BY <1>0, <2>1 DEF GetStartercodeProject, planVars
    <3>2. QuietPlan'
      BY <2>0, <3>1, SamePlan
    <3>3. QuietCopies'
      BY <1>0, <2>0, <3>1, SameQuietCopies
    <3> QED BY <3>1, <3>2, <3>3 DEF QuietLinks
  <2>2. CASE PlanIssue
    <3>1. QuietPlan' /\ pc' = "plan" /\ pc = "plan" /\ UNCHANGED <<k, created, copies, toAttach>>
      BY <2>0, <2>2, QuietPlanIssue DEF PlanIssue
    <3>2. copies = <<>>
      BY <1>0, <3>1 DEF CountOK
    <3>3. QuietCopies'
      BY <1>0, <2>0, <3>1, <3>2, SameQuietCopies
    <3> QED BY <3>1, <3>3 DEF QuietLinks
  <2>3. CASE PlanDone
    <3>1. /\ pc = "plan" /\ pc' = "load" /\ Fixed /\ queue = <<>>
          /\ UNCHANGED <<queue, ordered, parentOf, k, created, copies, toAttach>>
      BY <2>3 DEF PlanDone, planVars
    <3>2. QuietPlan'
      BY <2>0, <3>1, SamePlan
    <3>3. QuietCopies'
      BY <1>0, <2>0, <3>1, SameQuietCopies
    <3> QED BY <3>1, <3>2, <3>3 DEF QuietLinks
  <2>4. CASE LoadIssue
    <3>1. /\ pc = "load" /\ pc' = "meta" /\ Fixed
          /\ UNCHANGED <<queue, ordered, parentOf, k, created, copies, toAttach>>
      BY <1>0, <2>4 DEF LoadIssue, planVars
    <3>2. QuietPlan'
      BY <2>0, <3>1, SamePlan
    <3>3. QuietCopies'
      BY <1>0, <2>0, <3>1, SameQuietCopies
    <3> QED BY <3>1, <3>2, <3>3 DEF QuietLinks
  <2>11. CASE PrepareMetadata
    <3>1. /\ pc = "meta" /\ pc' = "create" /\ Fixed /\ sent' = Metadata[This]
          /\ UNCHANGED <<queue, ordered, parentOf, k, created, copies, toAttach>>
      BY <1>0, <2>11 DEF PrepareMetadata, planVars
    <3>2. QuietPlan'
      BY <2>0, <3>1, SamePlan
    <3>3. QuietCopies'
      BY <1>0, <2>0, <3>1, SameQuietCopies
    <3> QED BY <3>1, <3>2, <3>3 DEF QuietLinks
  <2>5. CASE CreateIssue
    <3>1. /\ QuietCopies' /\ pc = "create" /\ pc' \in {"load", "close"}
          /\ UNCHANGED <<queue, ordered, parentOf, toAttach>> /\ Fixed
      BY <2>0, <2>5, QuietCreate DEF CreateIssue
    <3>2. QuietPlan'
      BY <2>0, <3>1, SamePlan
    <3> QED BY <3>1, <3>2 DEF QuietLinks
  <2>6. CASE RetryBare
    BY <2>0, <2>6 DEF RetryBare, QuietCopies
  <2>7. CASE CloseIssue
    <3>1. /\ QuietCopies' /\ pc = "close" /\ pc' = "load"
          /\ UNCHANGED <<queue, ordered, parentOf, toAttach>> /\ Fixed
      BY <2>0, <2>7, QuietClose DEF CloseIssue
    <3>2. QuietPlan'
      BY <2>0, <3>1, SamePlan
    <3> QED BY <3>1, <3>2 DEF QuietLinks
  <2>8. CASE CopiesDone
    <3>1. /\ pc = "load" /\ pc' = "attach" /\ Fixed /\ k > Len(ordered)
          /\ UNCHANGED <<queue, ordered, parentOf, k, created, copies>>
          /\ toAttach' = (IF include THEN {i \in Issues : IsChild(i)} ELSE {})
      BY <2>8 DEF CopiesDone, planVars
    <3>2. QuietPlan'
      BY <2>0, <3>1, SamePlan
    <3>3. k = Len(ordered) + 1
      BY <1>0, <3>1 DEF PlanOK
    <3>4. QuietCopies'
      BY <1>0, <2>0, <3>1, <3>3, SameQuietCopies
    <3>5. \A i \in Issues \ toAttach' : ~IsChild(i)
      BY <2>0, <3>1 DEF QuietPlan, IsChild
    <3> QED BY <3>1, <3>2, <3>4, <3>5 DEF QuietLinks, IsChild
  <2>9. CASE AttachChild
    BY <2>0, <2>9, QuietAttach
  <2>10. CASE AllAttached
    <3>1. /\ pc = "attach" /\ pc' = "done" /\ Fixed /\ toAttach = {}
          /\ UNCHANGED <<queue, ordered, parentOf, k, created, copies, toAttach>>
      BY <2>10 DEF AllAttached, planVars
    <3>2. QuietPlan'
      BY <2>0, <3>1, SamePlan
    <3>3. QuietCopies'
      <4>1. k = Len(ordered) + 1
        BY <2>0, <3>1 DEF QuietCopies
      <4> QED BY <1>0, <2>0, <3>1, <4>1, SameQuietCopies
    <3> QED BY <2>0, <3>1, <3>2, <3>3 DEF QuietLinks, IsChild
  <2> QED BY <1>2, <2>1, <2>2, <2>3, <2>4, <2>5, <2>6, <2>7, <2>8, <2>9, <2>10, <2>11 DEF Step
<1> QED BY <1>0, <1>1, <1>2 DEF Next

\* At the end of a quiet replication the copies are those of the plan, and linked
\* as the plan has it.
LEMMA QuietEnd == IInv /\ QuietInv => QuietCopiesAll
<1> SUFFICES ASSUME IInv, QuietInv, pc = "done", quiet
             PROVE  /\ {copies[c].of : c \in DOMAIN copies} = Wanted
                    /\ \A c \in DOMAIN copies :
                         LET i == copies[c].of
                             parents == IF include THEN {p \in Wanted : i \in children[p]} ELSE {}
                         IN /\ copies[c].closed = (i \in ClosedIssues) /\ copies[c].meta = Metadata[i]
                            /\ copies[c].task = (parents # {})
                            /\ IF parents = {} THEN copies[c].parent = None
                               ELSE copies[c].parent \in {created[p] : p \in parents}
  BY DEF QuietCopiesAll
<1>0. SourceOK /\ PlanOK /\ CountOK /\ LinksOK /\ QuietPlan /\ QuietCopies /\ QuietLinks
  BY Parts DEF QuietInv
<1>1. queue = <<>> /\ Listed(ordered) = Wanted /\ toAttach = {}
  BY <1>0, PlanIsWanted DEF QuietPlan, QuietLinks
<1>2. DOMAIN copies = DOMAIN ordered
  <2>1. Len(copies) = Len(ordered)
    BY <1>0 DEF QuietCopies, PlanOK
  <2> QED BY <1>0, <2>1 DEF PlanOK, CountOK
<1>3. \A c \in DOMAIN copies : CopyInPlace(c)
  BY <1>0 DEF QuietCopies
<1>4. {copies[c].of : c \in DOMAIN copies} = Wanted
  BY <1>1, <1>2, <1>3 DEF CopyInPlace, Listed
<1>5. ASSUME NEW c \in DOMAIN copies
      PROVE  LET i == copies[c].of
                 parents == IF include THEN {p \in Wanted : i \in children[p]} ELSE {}
             IN /\ copies[c].closed = (i \in ClosedIssues) /\ copies[c].meta = Metadata[i]
                /\ copies[c].task = (parents # {})
                /\ IF parents = {} THEN copies[c].parent = None
                   ELSE copies[c].parent \in {created[p] : p \in parents}
  <2> DEFINE i == copies[c].of
             parents == IF include THEN {p \in Wanted : i \in children[p]} ELSE {}
  <2>1. i = ordered[c] /\ created[i] = c /\ copies[c].meta = Metadata[i]
    BY <1>3 DEF CopyInPlace
  <2>2. copies[c].closed = (i \in ClosedIssues)
    BY <1>3 DEF CopyInPlace
  <2>3. i \in Wanted /\ i \in Issues
    BY <1>0, <1>4, WantedIsLeast
  <2>4. copies[c].task = IsChild(i)
    BY <1>0 DEF CountOK
  <2> SUFFICES copies[c].task = (parents # {})
               /\ IF parents = {} THEN copies[c].parent = None
                  ELSE copies[c].parent \in {created[p] : p \in parents}
    BY <2>1, <2>2
  <2> HIDE DEF i
  <2>5. CASE IsChild(i)
    <3>1. include /\ parentOf[i] \in Wanted /\ i \in children[parentOf[i]]
      BY <1>0, <1>1, <2>3, <2>5, FamilyIsWanted
    <3>2. parentOf[i] \in parents
      BY <3>1
    <3>3. copies[c].parent = created[parentOf[i]]
      BY <1>0, <1>1, <2>1, <2>3, <2>5 DEF QuietLinks
    <3>4. copies[c].task = TRUE
      BY <2>4, <2>5
    <3> HIDE DEF parents
    <3> QED BY <3>2, <3>3, <3>4
  <2>6. CASE ~IsChild(i)
    <3>1. include => \A p \in Listed(ordered) : i \notin children[p]
      BY <1>0, <2>3, <2>6 DEF QuietPlan, IsChild
    <3>2. parents = {}
      BY <1>1, <3>1
    <3>3. copies[c].task = FALSE
      BY <2>4, <2>6
    <3>4. copies[c].parent = None
      BY <1>0, <3>3 DEF LinksOK, ChildBelowItsParent
    <3> QED BY <3>2, <3>3, <3>4
  <2> QED BY <2>5, <2>6
<1> QED BY <1>4, <1>5

\* A replication in which no call fails and nobody edits the source copies what is
\* configured and all that is below it, once, with its labels, its state and its
\* place in the hierarchy, whatever the hierarchy is.
THEOREM NothingMissing == Spec => []QuietCopiesAll
<1>1. Init => QuietInv
  BY InitQuiet
<1>2. IInv /\ QuietInv /\ [Next]_vars => QuietInv'
  BY QuietStep
<1> QED BY <1>1, <1>2, QuietEnd, Invariance, PTL DEF Spec
=============================================================================
