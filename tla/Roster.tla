------------------------------- MODULE Roster -------------------------------
(***************************************************************************)
(* Who gets a repository, and under which name: the rosters of a course and *)
(* of its assignments (config/resolve.go, students.go), the names of the    *)
(* repositories (config/assignment.go, slug.go, urls.go), and the check of  *)
(* a course (gitlab/check.go).  Pure functions of the configuration.        *)
(***************************************************************************)
EXTENDS Integers, Sequences, FiniteSets

CONSTANTS
  Entries,       \* of rosters: [mail, name], where name is <<local, domain>> for an
                 \* address; a user name or an id is <<name>>, or <<a, b>> for a_at_b
  Safe,          \* parts of names that may stand in a path
  Parameterize,  \* what GitLab makes of a part: no dots, lower case
  GroupNames,    \* as they are written
  LowerCase,
  Patterns,      \* onlyFor
  Matches,       \* by pattern, the entries it matches
  MatchesGroup,  \* by pattern, the group names
  Rosters,       \* [students, groups]: of a course or of an assignment
  NoAccount      \* entries nobody has an account for

ASSUME RosterAssumption ==
  /\ \A e \in Entries : e.mail \in BOOLEAN /\ DOMAIN e.name \in {1..1, 1..2} /\ (e.mail => DOMAIN e.name = 1..2)
  /\ \A x, y \in Entries : x.mail = y.mail /\ x.name = y.name => x = y
  /\ \A s \in Safe : Parameterize[s] \in Safe
  /\ \A e \in Entries, i \in 1..2 :   \* what GitLab made it leaves as it is
       i \in DOMAIN e.name => Parameterize[Parameterize[e.name[i]]] = Parameterize[e.name[i]]
  /\ IsFiniteSet(GroupNames)
  /\ LowerCase \in [GroupNames -> GroupNames]
  /\ Matches \in [Patterns -> SUBSET Entries] /\ MatchesGroup \in [Patterns -> SUBSET GroupNames]
  /\ \A r \in Rosters :
       /\ r.students \in [Entries -> 0..1]
       /\ DOMAIN r.groups \subseteq GroupNames /\ \A g \in DOMAIN r.groups : r.groups[g] \in Seq(Entries)
  /\ NoAccount \subseteq Entries

PartsOf(name) == {name[i] : i \in DOMAIN name}

----------------------------------------------------------------------------
(* The name of a repository is that of the assignment and this suffix. *)

RepoSuffix(e, useEmailDomain) ==
  IF e.mail /\ ~useEmailDomain THEN <<e.name[1]>> ELSE e.name

\* Mutant: only the part that needs it is changed.
EachPart(name, safeBase) ==
  [i \in DOMAIN name |-> IF name[i] \in Safe THEN name[i] ELSE Parameterize[name[i]]]

\* A name with one character that a path cannot have is changed as a whole.
GitlabProjectPath(name, safeBase) ==
  IF safeBase /\ PartsOf(name) \subseteq Safe THEN name
  ELSE [i \in DOMAIN name |-> Parameterize[name[i]]]

RepoNameForStudent(e, useEmailDomain, safeBase) ==
  GitlabProjectPath(RepoSuffix(e, useEmailDomain), safeBase)

----------------------------------------------------------------------------
(* resolve.go *)

Selecting(patterns, e) == {i \in DOMAIN patterns : e \in Matches[patterns[i]]}

\* How often each entry is listed.
FilterByPatterns(values, patterns) ==
  [e \in Entries |-> IF patterns = <<>> THEN values[e] ELSE values[e] * Cardinality(Selecting(patterns, e))]

ResolveStudents(common, own, patterns) ==
  FilterByPatterns([e \in Entries |-> own.students[e] + common.students[e]], patterns)

Alike(groups, f) == {g \in DOMAIN groups : LowerCase[g] = f}

\* The members a group may get: the assignment's, else the course's; of names
\* that are equal but for case the order of a Go map decides.
Members(common, own, f) ==
  IF Alike(own.groups, f) # {} THEN {own.groups[g] : g \in Alike(own.groups, f)}
  ELSE {common.groups[g] : g \in Alike(common.groups, f)}

\* The group maps that may result.
ResolveGroups(common, own, patterns) ==
  LET names == {LowerCase[g] : g \in DOMAIN common.groups \cup DOMAIN own.groups}
      taken == {f \in names : patterns = <<>> \/ \E i \in DOMAIN patterns : f \in MatchesGroup[patterns[i]]}
  IN {m \in [taken -> UNION {Members(common, own, f) : f \in taken}] :
        \A f \in taken : m[f] \in Members(common, own, f)}

NoRoster == [students |-> [e \in Entries |-> 0], groups |-> [g \in {} |-> <<>>]]

\* The groups of the course itself.
ResolveCourse(common) == ResolveGroups(common, NoRoster, <<>>)

----------------------------------------------------------------------------
(* check.go *)

Places(groups, e) == UNION {{<<f, i>> : i \in {j \in DOMAIN groups[f] : groups[f][j] = e}} : f \in DOMAIN groups}

CheckDupsInGroups(groups) == {e \in Entries : Cardinality(Places(groups, e)) > 1}

CheckError(e) == e \in NoAccount /\ ~e.mail

\* The check may see any of the group maps.
CheckCourseData(common, groups) ==
  /\ \A e \in Entries : CheckError(e) => common.students[e] = 0 /\ Places(groups, e) = {}
  /\ CheckDupsInGroups(groups) = {}

----------------------------------------------------------------------------
(* Properties: for all rosters and patterns *)

\* Two addresses with a dot in their domains share a repository only if both have
\* a character that a path cannot have: a name GitLab keeps is never one it makes.
NamesDiffer ==
  \A x, y \in {e \in Entries : e.mail /\ Parameterize[e.name[2]] # e.name[2]} :
    x # y /\ RepoNameForStudent(x, TRUE, TRUE) = RepoNameForStudent(y, TRUE, TRUE) =>
      ~(PartsOf(x.name) \subseteq Safe) /\ ~(PartsOf(y.name) \subseteq Safe)

\* Work that is split by pattern into disjoint parts reaches each repository as
\* often as the work for all of them.
PartsAddUp ==
  \A common, own \in Rosters, p, q \in Patterns :
    /\ Matches[p] \cap Matches[q] = {} /\ Matches[p] \cup Matches[q] = Entries
    /\ MatchesGroup[p] \cap MatchesGroup[q] = {} /\ MatchesGroup[p] \cup MatchesGroup[q] = GroupNames
    => LET all == ResolveStudents(common, own, <<>>)
           one == ResolveStudents(common, own, <<p>>)
           two == ResolveStudents(common, own, <<q>>)
       IN /\ \A e \in Entries : one[e] + two[e] = all[e]
          /\ ResolveStudents(common, own, <<p, q>>) = all
          /\ \A m \in ResolveGroups(common, own, <<>>) :
               /\ \E n \in ResolveGroups(common, own, <<p>>) : n = [f \in DOMAIN m \cap MatchesGroup[p] |-> m[f]]
               /\ m \in ResolveGroups(common, own, <<p, q>>)

\* In a course that checks out every student has one repository per group
\* assignment: if no names are equal but for case, and the groups an assignment
\* has of its own are parts of the course's groups of that name.
GroupsStayApart ==
  \A common, own \in Rosters, seen \in UNION {ResolveCourse(r) : r \in Rosters} :
    /\ seen \in ResolveCourse(common) /\ CheckCourseData(common, seen)
    /\ \A r \in {common, own} : \A g, h \in DOMAIN r.groups : LowerCase[g] = LowerCase[h] => g = h
    /\ \A f \in DOMAIN own.groups :
         LowerCase[f] \in DOMAIN seen /\ PartsOf(own.groups[f]) \subseteq PartsOf(seen[LowerCase[f]])
    => \A m \in ResolveGroups(common, own, <<>>), e \in Entries :
         /\ Cardinality({f \in DOMAIN m : e \in PartsOf(m[f])}) <= 1
         /\ CheckError(e) => Places(m, e) = {}
=============================================================================
