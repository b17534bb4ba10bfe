--------------------------- MODULE MCAccessGate ---------------------------
(* Small instances of AccessGate for TLC. *)
EXTENDS AccessGate, TLC

CONSTANT u1

\* All requests in flight come from one person's tabs.
OneUser == [t \in Tabs |-> u1]

Symmetry == Permutations(Tabs)
=============================================================================
