---------------------------- MODULE MCJobRunner ----------------------------
(* Small instances of JobRunner for TLC. *)
EXTENDS JobRunner, TLC

\* A client may send a negative graceMinutes.
ClientGraces == {-1}

Symmetry == Permutations(Workers) \cup Permutations(Jobs)
=============================================================================
