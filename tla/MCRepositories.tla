-------------------------- MODULE MCRepositories --------------------------
(* Two projects, the name of one a part of the name of the other; the search for *)
(* Ann is ambiguous, the one for Bob finds Eve and the one for Eve nobody; Cid    *)
(* has a level from the parent group.                                            *)
EXTENDS Repositories, TLC

CONSTANTS Ann, Bob, Cid, Eve, Alice, Alice2, Solution

MCNames == {Alice, Alice2}
MCMatches == [n \in MCNames |-> IF n = Alice THEN MCNames ELSE {Alice2}]

MCUsers == {Ann, Bob, Cid, Eve}
MCFinds == [u \in MCUsers |-> IF u = Ann THEN {Ann, Bob} ELSE IF u = Cid THEN {Cid} ELSE {Eve} \ {u}]
MCBranches == {Main, Solution}
MCDeferreds == {[to |-> Solution, orphan |-> FALSE], [to |-> Main, orphan |-> TRUE]}

MCTargetLists ==
  { <<[name |-> Alice, members |-> {Ann}], [name |-> Alice2, members |-> {Bob}]>>,
    <<[name |-> Alice, members |-> {Cid, Eve}]>> }

\* The two workers differ in name only.
MCSymmetry == Permutations(Workers)

MCOps == {"generate", "setaccess", "update", "push", "archive", "unarchive", "delete"}
=============================================================================
