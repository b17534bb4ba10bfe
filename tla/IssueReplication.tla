-------------------------- MODULE IssueReplication --------------------------
(***************************************************************************)
(* The issues of the starter code in a project that generate has just made  *)
(* (gitlab/generate.go, gitlab/issues.go): the plan, a breadth first walk   *)
(* over child tasks, a copy of each planned issue, and the attachment of    *)
(* the copied children to the copies of their parents.  Each call of GitLab *)
(* is a step; the lecturer edits the source meanwhile.                      *)
(***************************************************************************)
EXTENDS Integers, Sequences, FiniteSets

CONSTANTS
  Issues,         \* of the starter code project
  Forests,        \* [Issues -> SUBSET Issues]: the children of an issue
  Numbers,        \* sequences of issues: issueNumbers as they are written
  First,          \* issue 1
  Metadata,       \* [Issues -> SUBSET Kinds]: has labels, assignees whom the target knows
  ClosedIssues,
  None,
  MaxResends,     \* of the client (gitlab.go), for one call
  MaxFaults,      \* bound: failing calls
  MaxEdits        \* bound: edits of the source

Kinds == {"labels", "assignees"}

ASSUME IssueReplicationAssumption ==
  /\ Forests \subseteq [Issues -> SUBSET Issues] /\ Numbers \subseteq Seq(Issues)
  /\ Metadata \in [Issues -> SUBSET Kinds] /\ MaxResends \in Nat /\ ClosedIssues \subseteq Issues
  /\ IsFiniteSet(Issues) /\ First \in Issues /\ MaxFaults \in Nat /\ MaxEdits \in Nat /\ None \notin Issues /\ None \notin Nat

\* Without numbers the first issue is replicated.
ResolveIssues(numbers) == IF numbers = <<>> THEN <<First>> ELSE numbers

\* An issue of the new project; parent is the number of another one.
Copy == [of : Issues, task : BOOLEAN, meta : SUBSET Kinds, closed : BOOLEAN, parent : Nat \cup {None}]

VARIABLES
  children, configured, include,     \* the source; IssueNumbers, IncludeChildTasks
  pc,
  queue, ordered, parentOf,          \* resolveIssuePlanForReplication
  k,                                 \* index into ordered
  sent, tries,                       \* the metadata of a create; how often the client has sent it again
  created,                           \* createdIssueMap: the number of the copy
  copies,                            \* the issues of the new project; an issue's number is its index
  toAttach,
  faults, edits,
  quiet, lost                        \* history: nothing failed or changed; creates done and answered as failed

planVars == <<queue, ordered, parentOf>>
createVars == <<sent, tries>>
vars == <<children, configured, include, pc, planVars, k, createVars, created, copies, toAttach, faults, edits, quiet, lost>>

Listed(list) == {list[j] : j \in DOMAIN list}

Fixed == UNCHANGED <<children, configured, include, edits>>
Ok == UNCHANGED <<faults, quiet, lost>>
Fault == faults < MaxFaults /\ faults' = faults + 1 /\ quiet' = FALSE

----------------------------------------------------------------------------
(* The plan *)

\* getStartercodeProject; an error fails every issue.
GetStartercodeProject ==
  /\ pc = "start"
  /\ \/ pc' = "plan" /\ Ok
     \/ pc' = "done" /\ Fault /\ UNCHANGED lost
  /\ Fixed /\ UNCHANGED <<planVars, k, createVars, created, copies, toAttach>>

\* The first parent found stays.
FirstParent(kids, i) == [c \in Issues |-> IF c \in kids /\ parentOf[c] = None THEN i ELSE parentOf[c]]

Seen(i) == i \in Listed(ordered)

\* What the look-up of children finds: a failing one counts as none.
ChildrenFound(i) == {children[i], {}}

\* The sequences that list every member of a set once.
Orders(some) == {list \in [1..Cardinality(some) -> some] : Listed(list) = some}

\* The children of an issue are appended in some order.  A failing look-up of
\* the issue ends the plan.
PlanIssue ==
  /\ pc = "plan" /\ queue # <<>>
  /\ LET i == Head(queue)
     IN \/ /\ Seen(i) /\ Ok
           /\ queue' = Tail(queue) /\ UNCHANGED <<ordered, parentOf, pc>>
        \/ /\ ~Seen(i) /\ ~include /\ Ok
           /\ queue' = Tail(queue) /\ ordered' = Append(ordered, i) /\ UNCHANGED <<parentOf, pc>>
        \/ /\ ~Seen(i) /\ include
           /\ \E kids \in ChildrenFound(i) :
                /\ kids # children[i] => Fault /\ UNCHANGED lost
                /\ kids = children[i] => Ok
                /\ \E list \in Orders({c \in kids : ~Seen(c) /\ c # i}) : queue' = Tail(queue) \o list
                /\ parentOf' = FirstParent(kids, i)
           /\ ordered' = Append(ordered, i) /\ UNCHANGED pc
        \/ /\ ~Seen(i) /\ include
           /\ Fault /\ pc' = "done" /\ UNCHANGED <<planVars, lost>>
  /\ Fixed /\ UNCHANGED <<k, createVars, created, copies, toAttach>>

PlanDone ==
  /\ pc = "plan" /\ queue = <<>>
  /\ pc' = "load" /\ Ok
  /\ Fixed /\ UNCHANGED <<planVars, k, createVars, created, copies, toAttach>>

----------------------------------------------------------------------------
(* replicateIssue *)

This == ordered[k]
IsChild(i) == parentOf[i] # None

\* Mutant: every copy is an issue.
NeverTask(i, meta) == [of |-> i, task |-> FALSE, meta |-> meta, closed |-> FALSE, parent |-> None]

NewCopy(i, meta) == [of |-> i, task |-> IsChild(i), meta |-> meta, closed |-> FALSE, parent |-> None]

NextIssue == pc' = "load" /\ k' = k + 1

LoadIssue ==
  /\ pc = "load" /\ k <= Len(ordered)
  /\ \/ pc' = "meta" /\ Ok /\ UNCHANGED k
     \/ NextIssue /\ Fault /\ UNCHANGED lost
  /\ Fixed /\ UNCHANGED <<planVars, createVars, created, copies, toAttach>>

\* assignableIn and ensureLabels.  Assignees that cannot be determined are left
\* out, and so are a task's labels, which go by their ids.  The labels of an
\* issue go by their names, whether they could be prepared or not.
PrepareMetadata ==
  /\ pc = "meta" /\ pc' = "create" /\ tries' = 0
  /\ \E failed \in SUBSET Metadata[This] :
       /\ sent' = Metadata[This] \ (IF IsChild(This) THEN failed ELSE failed \ {"labels"})
       /\ IF failed = {} THEN Ok ELSE Fault /\ UNCHANGED lost
  /\ Fixed /\ UNCHANGED <<planVars, k, created, copies, toAttach>>

CopyMade == /\ created' = [created EXCEPT ![This] = Len(copies) + 1]
         /\ IF This \in ClosedIssues THEN pc' = "close" /\ UNCHANGED k ELSE NextIssue

\* A create answered as failed may have made its issue.
Unanswered(meta) ==
  /\ Fault /\ UNCHANGED created
  /\ \/ copies' = Append(copies, NewCopy(This, meta)) /\ lost' = [lost EXCEPT ![This] = @ + 1]
     \/ UNCHANGED <<copies, lost>>

\* The client itself sends a call again that is answered 429 or 5xx, which the
\* code does not see.  The other calls only set something: sent twice or once,
\* they are one step.
Resend(meta) == Unanswered(meta) /\ tries < MaxResends /\ tries' = tries + 1 /\ UNCHANGED <<pc, k, sent>>

\* A create with metadata that fails is repeated without.
CreateIssue ==
  /\ pc = "create"
  /\ \/ /\ copies' = Append(copies, NewCopy(This, sent)) /\ CopyMade
        /\ Ok /\ UNCHANGED createVars
     \/ Resend(sent)
     \/ Unanswered(sent) /\ sent # {} /\ pc' = "retry" /\ tries' = 0 /\ UNCHANGED <<k, sent>>
     \/ Unanswered(sent) /\ sent = {} /\ NextIssue /\ UNCHANGED createVars
  /\ Fixed /\ UNCHANGED <<planVars, toAttach>>

RetryBare ==
  /\ pc = "retry"
  /\ \/ /\ copies' = Append(copies, NewCopy(This, {})) /\ CopyMade
        /\ Ok /\ UNCHANGED createVars
     \/ Resend({})
     \/ Unanswered({}) /\ NextIssue /\ UNCHANGED createVars
  /\ Fixed /\ UNCHANGED <<planVars, toAttach>>

\* Mutant: a failure repeats the copy.
CopyAgain ==
  /\ pc = "close"
  /\ \/ NextIssue /\ copies' = [copies EXCEPT ![created[This]].closed = TRUE] /\ Ok
     \/ pc' = "create" /\ Fault /\ UNCHANGED <<k, copies, lost>>
  /\ Fixed /\ UNCHANGED <<planVars, createVars, created, toAttach>>

CloseCopy == copies' = [copies EXCEPT ![created[This]].closed = TRUE]

\* A failure is not looked into: the copy is closed or stays open.
CloseIssue ==
  /\ pc = "close" /\ NextIssue
  /\ \/ CloseCopy /\ Ok
     \/ CloseCopy /\ Fault /\ UNCHANGED lost
     \/ Fault /\ UNCHANGED <<copies, lost>>
  /\ Fixed /\ UNCHANGED <<planVars, createVars, created, toAttach>>

----------------------------------------------------------------------------
(* attachChildTaskToParent *)

CopiesDone ==
  /\ pc = "load" /\ k > Len(ordered)
  /\ pc' = "attach" /\ toAttach' = (IF include THEN {i \in Issues : IsChild(i)} ELSE {})
  /\ Ok /\ Fixed /\ UNCHANGED <<planVars, k, createVars, created, copies>>

\* Mutant: the place in the plan is taken for the number.
PlannedAt(i) == CHOOSE j \in DOMAIN ordered : ordered[j] = parentOf[i]

ParentCopy(i) == created[parentOf[i]]

AttachBelow(i) == copies' = [copies EXCEPT ![created[i]].parent = ParentCopy(i)]

\* In the order of a Go map.  A failed call may have had its effect.
AttachChild ==
  /\ pc = "attach"
  /\ \E i \in toAttach :
       /\ toAttach' = toAttach \ {i}
       /\ LET both == created[i] # None /\ ParentCopy(i) # None
          IN \/ both /\ AttachBelow(i) /\ Ok
             \/ both /\ AttachBelow(i) /\ Fault /\ UNCHANGED lost
             \/ ~both /\ Ok /\ UNCHANGED copies
             \/ both /\ Fault /\ UNCHANGED <<copies, lost>>
  /\ Fixed /\ UNCHANGED <<pc, planVars, k, createVars, created>>

AllAttached ==
  /\ pc = "attach" /\ toAttach = {}
  /\ pc' = "done" /\ Ok
  /\ Fixed /\ UNCHANGED <<planVars, k, createVars, created, copies, toAttach>>

----------------------------------------------------------------------------

\* The lecturer moves a child task, or makes and removes one.
Edit ==
  /\ edits < MaxEdits /\ pc # "done"
  /\ edits' = edits + 1 /\ quiet' = FALSE
  /\ children' \in Forests \ {children}
  /\ UNCHANGED <<configured, include, pc, planVars, k, createVars, created, copies, toAttach, faults, lost>>

Init ==
  /\ children \in Forests /\ configured \in {ResolveIssues(n) : n \in Numbers} /\ include \in BOOLEAN
  /\ pc = "start" /\ queue = configured /\ ordered = <<>> /\ parentOf = [i \in Issues |-> None]
  /\ k = 1 /\ sent = {} /\ tries = 0 /\ created = [i \in Issues |-> None] /\ copies = <<>> /\ toAttach = {}
  /\ faults = 0 /\ edits = 0 /\ quiet = TRUE /\ lost = [i \in Issues |-> 0]

Step ==
  \/ GetStartercodeProject \/ PlanIssue \/ PlanDone \/ LoadIssue \/ PrepareMetadata \/ CreateIssue
  \/ RetryBare \/ CloseIssue \/ CopiesDone \/ AttachChild \/ AllAttached

Next == Step \/ Edit
Spec == Init /\ [][Next]_vars

----------------------------------------------------------------------------
(* Properties *)

CopiesOf(i) == {c \in DOMAIN copies : copies[c].of = i}

\* Type correctness; the copy an issue is known by is one of it.
TypeOK ==
  /\ children \in Forests /\ configured \in {ResolveIssues(n) : n \in Numbers} /\ include \in BOOLEAN
  /\ pc \in {"start", "plan", "load", "meta", "create", "retry", "close", "attach", "done"}
  /\ queue \in Seq(Issues) /\ ordered \in Seq(Issues) /\ parentOf \in [Issues -> Issues \cup {None}]
  /\ k \in 1..(Len(ordered) + 1) /\ sent \subseteq Kinds /\ tries \in 0..MaxResends
  /\ created \in [Issues -> Nat \cup {None}] /\ copies \in Seq(Copy)
  /\ \A i \in Issues : created[i] # None => created[i] \in CopiesOf(i)
  /\ toAttach \subseteq Issues /\ faults \in 0..MaxFaults /\ edits \in 0..MaxEdits
  /\ quiet \in BOOLEAN /\ lost \in [Issues -> Nat]

\* An issue is planned once, whether it is configured, a child, or both.
PlannedOnce == \A x, y \in DOMAIN ordered : ordered[x] = ordered[y] => x = y

\* How often the create of an issue is sent: with the client's resends, and again
\* by the retry without metadata.
Sends(i) == IF Metadata[i] = {} THEN MaxResends + 1 ELSE 2 * (MaxResends + 1)

\* An issue that GitLab said it made is not made again: every copy but one is of a
\* create that took effect and was answered as failed, and there are no more than
\* the creates sent for one place in the plan.
CopiedOnce ==
  \A i \in Issues : Cardinality(CopiesOf(i)) <= lost[i] + 1 /\ Cardinality(CopiesOf(i)) <= Sends(i)

\* A child hangs below the copy of its parent, and only there.
ChildBelowItsParent ==
  \A c \in DOMAIN copies : copies[c].parent # None =>
    /\ copies[c].task /\ created[copies[c].of] = c
    /\ copies[c].parent = created[parentOf[copies[c].of]]
    /\ copies[copies[c].parent].of = parentOf[copies[c].of]

\* The copies made so far are of issues before k in the plan, or of the one at
\* hand.
CopiesFollowThePlan ==
  \A c \in DOMAIN copies : \E j \in 1..Len(ordered) :
    copies[c].of = ordered[j] /\ (j < k \/ (j = k /\ pc \in {"create", "retry", "close"}))

\* The creates sent for the issue at hand and answered as failed.
SentBefore == IF pc = "retry" THEN MaxResends + 1 + tries ELSE tries

\* Type correctness and the three properties above, with what they rest on: how
\* far the plan is carried out, and that nothing is attached before all of it is.
IInv ==
  /\ TypeOK /\ PlannedOnce /\ CopiedOnce /\ ChildBelowItsParent /\ CopiesFollowThePlan
  /\ pc \in {"start", "plan"} => copies = <<>>
  /\ pc \in {"meta", "create", "retry", "close"} => k <= Len(ordered)
  /\ pc \in {"create", "retry"} =>
       /\ Cardinality(CopiesOf(This)) <= lost[This] /\ Cardinality(CopiesOf(This)) <= SentBefore
       /\ sent \subseteq Metadata[This]
  /\ pc = "retry" => sent # {}
  /\ pc = "close" => created[This] # None
  /\ pc \notin {"attach", "done"} => toAttach = {} /\ \A c \in DOMAIN copies : copies[c].parent = None
  /\ \A i \in toAttach : IsChild(i)
  /\ \A c \in DOMAIN copies : copies[c].task = IsChild(copies[c].of)

\* What the starter code's issues should become: the configured ones and, with
\* IncludeChildTasks, what is below them, which is the least such set.
HoldsAllBelow(some) == Listed(configured) \subseteq some /\ \A i \in some : children[i] \subseteq some
Below == {i \in Issues : \A some \in SUBSET Issues : HoldsAllBelow(some) => i \in some}
Wanted == IF include THEN Below ELSE Listed(configured)

\* If no call fails and nobody edits the source, each of them is copied, with its
\* labels and its state, as a task below its parent's copy if it is a child.
QuietCopiesAll ==
  pc = "done" /\ quiet =>
    /\ {copies[c].of : c \in DOMAIN copies} = Wanted
    /\ \A c \in DOMAIN copies :
         LET i == copies[c].of
             parents == IF include THEN {p \in Wanted : i \in children[p]} ELSE {}
         IN /\ copies[c].closed = (i \in ClosedIssues) /\ copies[c].meta = Metadata[i]
            /\ copies[c].task = (parents # {})
            /\ IF parents = {} THEN copies[c].parent = None
               ELSE copies[c].parent \in {created[p] : p \in parents}

=============================================================================
