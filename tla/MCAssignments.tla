--------------------------- MODULE MCAssignments ---------------------------
(* Four names, two of which differ in case only, and a padded reference.  *)
(* The functions of Roster are evaluated in the initial states.           *)
EXTENDS Assignments

CONSTANTS Base, BASE, Task, Sheet, Padded

MCKeys == {Base, BASE, Task, Sheet}
MCRefs == MCKeys \cup {Padded}
MCFold == [r \in MCRefs |-> IF r \in {Task, Sheet} THEN r ELSE Base]

A(extends, abstract, flag, url, tag) ==
  [extends |-> extends, abstract |-> abstract, flag |-> flag, url |-> url, tag |-> tag]
Course(base, task, sheet) ==
  [n \in MCKeys |-> CASE n = Base -> base [] n = Task -> task [] n = Sheet -> sheet [] n = BASE -> Unset]

MCUploads ==
  { Course(A(Unset, TRUE, "true", "v1", Unset), A(Base, FALSE, "false", Unset, "v1"), A(Task, FALSE, Unset, Unset, "v2")),
    Course(A(Unset, FALSE, "true", "v1", "v2"), A(Padded, FALSE, Unset, Unset, "v1"), Unset),
    Course(Unset, A(Unset, FALSE, "true", "v1", Unset), A(Task, TRUE, Unset, Unset, Unset)) }

MCBodies == {A(Task, FALSE, "false", Unset, Unset), A(Sheet, TRUE, Unset, Unset, Unset)}

Draft1(f, v) == [g \in {f} |-> v]
MCDrafts ==
  {Draft1("extends", v) : v \in {Unset, Base, Sheet, Padded}} \cup
  {Draft1("abstract", v) : v \in BOOLEAN} \cup
  {Draft1("flag", v) : v \in {"true", "false"}} \cup
  {Draft1("url", Unset), Draft1("tag", "v2"), Draft1("tag", Unset)}

Address(local, domain) == [mail |-> TRUE, name |-> <<local, domain>>]
User(name) == [mail |-> FALSE, name |-> name]
MCEntries == {Address("a.x", "hm.edu"), Address("a-x", "hm.edu"), Address("a+x", "hm.edu"), Address("a+x", "hm-edu"),
              User(<<"a-x">>), User(<<"a-x", "hm.edu">>)}
MCSafe == {"a.x", "a-x", "hm.edu", "hm-edu"}
MCParameterize == [s \in MCSafe \cup {"a+x"} |-> IF s \in {"hm.edu", "hm-edu"} THEN "hm-edu" ELSE "a-x"]
MCNoAccount == {Address("a-x", "hm.edu"), User(<<"a-x">>)}

MCGroupNames == {"Red", "red", "blue"}
MCLowerCase == [g \in MCGroupNames |-> IF g = "blue" THEN "blue" ELSE "red"]
MCPatterns == {"dot", "nodot", "mail", "B"}
MCMatches ==
  [p \in MCPatterns |->
     CASE p = "dot"   -> {e \in MCEntries : e.name[1] = "a.x"}
       [] p = "nodot" -> {e \in MCEntries : e.name[1] # "a.x"}
       [] p = "mail"  -> {e \in MCEntries : e.mail}
       [] p = "B"     -> {}]
MCMatchesGroup ==
  [p \in MCPatterns |->
     CASE p = "dot" -> {"red"} [] p = "nodot" -> {"Red", "blue"} [] p = "mail" -> {} [] p = "B" -> {"blue"}]

MCGroups ==
  LET a == Address("a.x", "hm.edu")
      b == Address("a-x", "hm.edu")
      u == User(<<"a-x">>)
  IN {[g \in {} |-> <<>>], [g \in {"Red"} |-> <<a>>], [g \in {"red", "blue"} |-> IF g = "red" THEN <<b, a>> ELSE <<u>>],
      [g \in {"Red", "red"} |-> IF g = "red" THEN <<a>> ELSE <<b>>], [g \in {"red", "blue"} |-> <<a>>],
      [g \in {"Red", "blue"} |-> IF g = "Red" THEN <<b, a>> ELSE <<User(<<"a-x", "hm.edu">>)>>]}
MCRosters ==
  {[students |-> [e \in MCEntries |-> IF e \in some THEN 1 ELSE 0], groups |-> g] :
     some \in {{}, {e \in MCEntries : e.mail}, MCEntries \ {Address("a-x", "hm.edu")}}, g \in MCGroups}

=============================================================================
