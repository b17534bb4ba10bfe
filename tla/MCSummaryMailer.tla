-------------------------- MODULE MCSummaryMailer --------------------------
(* Small instances of SummaryMailer for TLC. *)
EXTENDS SummaryMailer, TLC

CONSTANTS i1, e1, e2

Symmetry == Permutations(Events)
=============================================================================
