---------------------------- MODULE Assignments ----------------------------
(***************************************************************************)
(* The assignments of a course, edited through the web                      *)
(* (web/app/assignments.go, import_assignment.go), and their resolution     *)
(* with single inheritance (config/resolve.go, inheritance.go).  A course   *)
(* is kept as YAML; every edit decodes it into structs and encodes all of   *)
(* them again, while inheritance is resolved on the YAML.                   *)
(***************************************************************************)
EXTENDS Roster

CONSTANTS
  Keys,       \* names of assignments, as written
  Refs,       \* what `extends` may hold: names, also with other case or blanks
  Fold,       \* of a name or a reference: trimmed and in lower case
  Uploads,    \* courses as they are uploaded
  Bodies,     \* assignments as they are imported
  Drafts,     \* edits: some fields with new values
  Unset,      \* a field that is not there; "" in a draft
  MaxEdits    \* bound: edits of the course

\* One scalar of the assignment (flag, e.g. containerRegistry) and two of a
\* nested block (url and tag of startercode).
Fields == {"flag", "url", "tag"}
Own == [extends : Refs \cup {Unset}, abstract : BOOLEAN, flag : {"true", "false", Unset},
        url : {"v1", Unset}, tag : {"v1", "v2"} \cup {Unset}]

Merged == [Fields -> {"true", "false", "v1", "v2", Unset}]

ASSUME AssignmentsAssumption ==
  /\ IsFiniteSet(Keys) /\ Keys \subseteq Refs /\ Fold \in [Refs -> Keys] /\ MaxEdits \in Nat
  /\ Unset \notin Refs /\ Unset \notin {"true", "false", "v1", "v2"} /\ Unset \notin Own \cup Merged
  /\ Unset \notin [flag : BOOLEAN, url : {"v1", Unset}, tag : {"v1", "v2", Unset}]
  /\ Bodies \subseteq Own
  /\ \A c \in Uploads : c \in [Keys -> Own \cup {Unset}]
  /\ \A d \in Drafts :
       /\ DOMAIN d \subseteq {"extends", "abstract"} \cup Fields
       /\ \A o \in Own : [f \in DOMAIN o |-> IF f \in DOMAIN d THEN d[f] ELSE o[f]] \in Own

VARIABLES
  course,     \* the YAML: by name the assignment's own keys, Unset if there is no such
  last,       \* history: the last edit
  edits

courseVars == <<course, last, edits>>

Has(c, n) == c[n] # Unset

----------------------------------------------------------------------------
(* config: inheritance.go, resolve.go *)

\* Mutant: the values of the parent win.
ParentWins(parent, child) ==
  [f \in Fields |-> IF parent[f] # Unset THEN parent[f] ELSE child[f]]

DeepMerge(parent, child) ==
  [f \in Fields |-> IF child[f] # Unset THEN child[f] ELSE parent[f]]

\* The keys a look-up may find: names are compared without case, and of several
\* the order of a Go map decides.
LookupAssignment(c, f) == {k \in Keys : Has(c, k) /\ Fold[k] = f}

Error == Unset

\* The results a key may have, by the results of each name.
Inherit(c, k, results) ==
  LET parent == c[k].extends
  IN IF parent = Unset THEN {[g \in Fields |-> c[k][g]]}
     ELSE IF LookupAssignment(c, Fold[parent]) = {} THEN {Error}
     ELSE {IF m = Error THEN Error ELSE DeepMerge(m, c[k]) : m \in results[Fold[parent]]}

\* The results mergeAssignment may have for a name.
MergeAssignment(c, name) ==
  LET merge[seen \in SUBSET Keys] ==
        [f \in Keys |-> IF f \in seen THEN {Error}
                        ELSE UNION {Inherit(c, k, merge[seen \cup {f}]) : k \in LookupAssignment(c, f)}]
  IN merge[{}][Fold[name]]

HasStartercode(a) == a.tag # Unset \/ a.url # Unset

\* A starter code without a url is an error.
StartercodeSound(m) == HasStartercode(m) => m.url # Unset

Build(m) ==
  IF m = Error THEN Error
  ELSE IF ~StartercodeSound(m) THEN Error
  ELSE [flag |-> m.flag = "true", url |-> m.url, tag |-> m.tag]

\* An abstract assignment is refused by its own flag, before the merge.
ResolveAssignment(c, name) ==
  LET keys == LookupAssignment(c, Fold[name])
  IN IF keys = {} THEN {Error}
     ELSE UNION {IF c[k].abstract THEN {Error} ELSE {Build(m) : m \in MergeAssignment(c, name)} : k \in keys}

\* lint.go: the problems of an assignment.  It is looked at alone, without what
\* it inherits, and the parent must be spelled as it is.
LintAssignment(c, n) ==
  (IF c[n].extends = Unset \/ c[n].extends \in {k \in Keys : Has(c, k)} THEN {} ELSE {"extends"})
  \cup (IF StartercodeSound(c[n]) THEN {} ELSE {"startercode.url"})

----------------------------------------------------------------------------
(* decode.go, encode.go, source.go *)

\* Mutant: the block of the starter code is lost without its url.
DropBlock(c) ==
  [n \in Keys |-> IF Has(c, n) THEN [c[n] EXCEPT !.flag = IF @ = "true" THEN @ ELSE Unset,
                                                  !.tag = IF c[n].url = Unset THEN Unset ELSE @]
                   ELSE Unset]

\* Mutant: the bytes are kept.
AsItIs(c) == c

\* A bool is encoded if it is true (omitempty): an explicit false is lost.
EncodeAssignments(c) ==
  [n \in Keys |-> IF Has(c, n) THEN [c[n] EXCEPT !.flag = IF @ = "true" THEN @ ELSE Unset] ELSE Unset]

----------------------------------------------------------------------------
(* web/app/assignments.go *)

Empty == [extends |-> Unset, abstract |-> FALSE, flag |-> Unset, url |-> Unset, tag |-> Unset]

\* An empty value unsets the field; a block without fields is no block.
ApplyStartercodeDraft(a, d) ==
  [f \in {"url", "tag"} |-> IF f \in DOMAIN d THEN d[f] ELSE a[f]]

ApplyDraft(a, d) ==
  [f \in DOMAIN a |-> IF f \in {"url", "tag"} THEN ApplyStartercodeDraft(a, d)[f]
                      ELSE IF f \in DOMAIN d THEN d[f] ELSE a[f]]

SaveCourseSource(op, c) ==
  course' = EncodeAssignments(c) /\ last' = op /\ edits' = edits + 1

\* validateDrafted, for one result the resolver may have; an abstract
\* assignment is not resolved.
Valid(c, n) == c[n].abstract \/ \E r \in ResolveAssignment(EncodeAssignments(c), n) : r # Error

SetAssignment(n, d) ==
  LET drafted == ApplyDraft(IF Has(course, n) THEN EncodeAssignments(course)[n] ELSE Empty, d)
      new == [course EXCEPT ![n] = drafted]
  IN Valid(new, n) /\ SaveCourseSource([op |-> "set", name |-> n, draft |-> d], new)

ImportAssignmentYAML(n, body) ==
  LET new == [course EXCEPT ![n] = body]
  IN Valid(new, n) /\ SaveCourseSource([op |-> "import", name |-> n], new)

CopyAssignment(from, n) ==
  /\ Has(course, from) /\ ~Has(course, n)
  /\ SaveCourseSource([op |-> "copy", from |-> from, name |-> n], [course EXCEPT ![n] = course[from]])

\* Children whose `extends` is the old name, byte for byte, get the new one.
Repoint(c, old, new) ==
  [n \in Keys |-> IF Has(c, n) /\ n # old /\ c[n].extends = old THEN [c[n] EXCEPT !.extends = new] ELSE c[n]]

RenameAssignment(old, new) ==
  /\ Has(course, old) /\ ~Has(course, new)
  /\ SaveCourseSource([op |-> "rename", from |-> old, name |-> new],
          [Repoint(course, old, new) EXCEPT ![old] = Unset, ![new] = course[old]])

DeleteAssignment(n) ==
  /\ Has(course, n)
  /\ SaveCourseSource([op |-> "delete", name |-> n], [course EXCEPT ![n] = Unset])

\* courses.go, ImportCourse: the bytes are kept as they are.
ImportCourse(c) ==
  course' = c /\ last' = [op |-> "upload"] /\ edits' = edits + 1

InitCourse == course \in Uploads /\ last = [op |-> "upload"] /\ edits = 0

EditCourse ==
  /\ edits < MaxEdits
  /\ \/ \E n \in Keys :
          \/ \E d \in Drafts : SetAssignment(n, d)
          \/ \E b \in Bodies : ImportAssignmentYAML(n, b)
          \/ \E from \in Keys : CopyAssignment(from, n) \/ RenameAssignment(from, n)
          \/ DeleteAssignment(n)
     \/ \E c \in Uploads : ImportCourse(c)

Editing == InitCourse /\ [][EditCourse]_courseVars

----------------------------------------------------------------------------
(* Properties *)

\* Two names that differ in case only: resolution depends on the order of a map.
Clash(c) == \E m, n \in Keys : m # n /\ Has(c, m) /\ Has(c, n) /\ Fold[m] = Fold[n]

\* A written out `false` that an edit would lose.
SaysFalse(c) == \E n \in Keys : Has(c, n) /\ c[n].flag = "false"

Clear(c) == ~Clash(c) /\ ~SaysFalse(c)

\* The parent of a key: the key it finds, if any.
Parents(c, n) == IF Has(c, n) /\ c[n].extends # Unset THEN LookupAssignment(c, Fold[c[n].extends]) ELSE {}

\* An assignment and its ancestors: the least set that has with each its parents.
Above(c, n) ==
  LET closed == {S \in SUBSET Keys : n \in S /\ \A k \in S : Parents(c, k) \subseteq S}
  IN {m \in Keys : \A S \in closed : m \in S}

OnCycle(c, n) == \E p \in Parents(c, n) : n \in Above(c, p)
Dangling(c, n) == Has(c, n) /\ c[n].extends # Unset /\ Parents(c, n) = {}

\* Type correctness; an edit leaves no explicit false behind.
CourseOK ==
  /\ course \in [Keys -> Own \cup {Unset}] /\ edits \in 0..MaxEdits
  /\ last.op \in {"set", "import", "copy", "rename", "delete", "upload"}
  /\ last.op # "upload" => ~SaysFalse(course)

\* A chain that ends: no parent is missing and none comes again.
ChainEnds(c, n) == \A k \in Above(c, n) : ~Dangling(c, k) /\ ~OnCycle(c, k)

\* Inheritance as an author thinks of it: each field is that of the nearest
\* ancestor that mentions it.
Mentions(c, n, f) == {k \in Above(c, n) : c[k][f] # Unset}
Nearest(c, n, f) == CHOOSE k \in Mentions(c, n, f) : Mentions(c, n, f) \subseteq Above(c, k)
AsWritten(c, n) ==
  [f \in Fields |-> IF Mentions(c, n, f) = {} THEN Unset ELSE c[Nearest(c, n, f)][f]]

\* That is what is resolved, and there is an error only for an abstract assignment,
\* a missing or circular parent, or a starter code without a url.
NearestWins ==
  ~Clash(course) =>
    \A n \in Keys : Has(course, n) =>
      LET m == AsWritten(course, n)
          sound == ~course[n].abstract /\ ChainEnds(course, n) /\ (m.tag # Unset => m.url # Unset)
      IN ResolveAssignment(course, n) =
           IF sound THEN {[flag |-> m.flag = "true", url |-> m.url, tag |-> m.tag]} ELSE {Error}

\* What lint finds nothing in resolves, if its ancestors are as clean and none is
\* on a circle, which lint does not look for.
CleanResolves ==
  \A n \in Keys :
    (/\ Has(course, n) /\ ~course[n].abstract /\ ~Clash(course)
     /\ \A k \in Above(course, n) : ~OnCycle(course, k) /\ LintAssignment(course, k) = {})
    => Error \notin ResolveAssignment(course, n)

\* A draft has its effect: what it sets is what the assignment then has, what it
\* unsets is inherited.  A flag set to false is inherited as well: that is how it
\* is encoded.
DraftTakesEffect ==
  LET n == last.name
      parent == CHOOSE p \in Parents(course, n) : TRUE
      inherited == MergeAssignment(course, parent)
  IN last.op = "set" /\ ~Clash(course) /\ ~course[n].abstract =>
       \A r \in ResolveAssignment(course, n) :
         /\ r # Error
         /\ \A f \in {"url", "tag"} \cap DOMAIN last.draft :
              r[f] = IF last.draft[f] # Unset THEN last.draft[f]
                     ELSE IF course[n].extends = Unset THEN Unset
                     ELSE (CHOOSE m \in inherited : TRUE)[f]
         /\ "flag" \in DOMAIN last.draft =>
              r.flag = (\/ last.draft["flag"] = "true"
                        \/ course[n].extends # Unset /\ (CHOOSE m \in inherited : TRUE).flag = "true")

\* What is resolved is what was written, and all that fails is found by lint.
ResolvesAsWritten == NearestWins /\ DraftTakesEffect /\ CleanResolves

\* An edit reaches only the edited assignment and what inherits from it: the
\* others resolve to what they did, though all were encoded again.
StaysBelow ==
  last'.op \in {"set", "import", "delete"} /\ Clear(course) /\ ~Clash(course') =>
    \A m \in Keys : Has(course, m) /\ m # last'.name =>
      (last'.name \notin Above(course, m) \cup Above(course', m) =>
         ResolveAssignment(course', m) = ResolveAssignment(course, m))

NobodyWaitsFor(c, name) == \A n \in Keys : Dangling(c, n) => Fold[c[n].extends] # Fold[name]
SpelledAsIs(c, name) ==
  \A n \in Keys : Has(c, n) /\ c[n].extends # Unset /\ Fold[c[n].extends] = Fold[name] => c[n].extends = name

\* "no inheritance chain silently breaks": after a rename everything resolves to
\* what it did, if the children spell the old name as it is, and none waits for
\* an assignment of the new name.
RenameKeepsAll ==
  (/\ last'.op = "rename" /\ Clear(course) /\ ~Clash(course')
   /\ SpelledAsIs(course, last'.from) /\ NobodyWaitsFor(course, last'.name)) =>
       \A n \in Keys : Has(course, n) =>
         ResolveAssignment(course', IF n = last'.from THEN last'.name ELSE n) =
         ResolveAssignment(course, n)

\* A copy resolves as the original does, and nothing else is changed by it,
\* unless somebody waited for an assignment of that name.
CopyIsTheSame ==
  last'.op = "copy" /\ Clear(course) /\ ~Clash(course') /\ NobodyWaitsFor(course, last'.name) =>
    \A n \in Keys : Has(course', n) =>
      ResolveAssignment(course', n) =
      ResolveAssignment(course, IF n = last'.name THEN last'.from ELSE n)

\* Editing closes no circle of concrete assignments: validation refuses it.  The
\* circles there are go through an abstract assignment, which is not validated, or
\* were closed by a copy or a rename to a name somebody waited for.
NoNewCycle ==
  (/\ last'.op # "upload" /\ ~Clash(course')
   /\ last'.op \in {"copy", "rename"} => NobodyWaitsFor(course, last'.name)) =>
       \A n \in Keys :
         LET was == IF last'.op = "rename" /\ n = last'.name THEN last'.from ELSE n
         IN Has(course', n) /\ ~OnCycle(course, was) /\ (\A m \in Above(course', n) : ~course'[m].abstract) =>
              ~OnCycle(course', n)

\* Whatever is edited, renamed or copied, the rest of the course keeps its meaning.
EditsKeepTheRest == [][StaysBelow /\ RenameKeepsAll /\ CopyIsTheSame /\ NoNewCycle]_courseVars

\* Every repository has one name, and every student one repository, however the
\* work is split into parts (the properties of Roster, which no edit matters to).
OneRepositoryEach == edits = 0 => NamesDiffer /\ PartsAddUp /\ GroupsStayApart
=============================================================================
