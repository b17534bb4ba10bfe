------------------------- MODULE MCIssueReplication -------------------------
(* Four issues: a chain, a pair of siblings, no hierarchy. *)
EXTENDS IssueReplication

CONSTANTS I1, I2, I3, I4

MCIssues == {I1, I2, I3, I4}
Hierarchy(a, b, c) == [i \in MCIssues |-> IF i = I1 THEN a ELSE IF i = I2 THEN b ELSE IF i = I3 THEN c ELSE {}]
MCForests == {Hierarchy({I2, I4}, {I3}, {}), Hierarchy({I3}, {I4}, {}), Hierarchy({}, {}, {})}
\* Labels and assignees, neither, assignees, neither.
MCMetadata == [i \in MCIssues |-> IF i = I1 THEN Kinds ELSE IF i = I3 THEN {"assignees"} ELSE {}]
MCNumbers == {<<>>, <<I3, I1>>, <<I2, I1, I2>>}
=============================================================================
