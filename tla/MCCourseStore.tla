--------------------------- MODULE MCCourseStore ---------------------------
(* Small instances of CourseStore for TLC. *)
EXTENDS CourseStore, TLC

CONSTANTS r1, r2, n1, n2, n3, settings, assignments

\* A part says 0, 1, or 0 in other words: with an unknown key, or an explicit
\* false where nothing means the same.
MCTexts == {"zero", "one", "wordyZero"}
MCDecode == [t \in MCTexts |-> IF t = "one" THEN 1 ELSE 0]
MCEncode == [v \in {0, 1} |-> IF v = 1 THEN "one" ELSE "zero"]

Symmetry == Permutations(Requests) \cup Permutations(Names)
=============================================================================
