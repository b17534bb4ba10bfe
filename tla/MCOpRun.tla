------------------------------ MODULE MCOpRun ------------------------------
(* Small instances of OpRun for TLC. *)
EXTENDS OpRun, TLC

CONSTANTS o1, o2, k1, k2

\* Of two keys, k2 belongs to another owner than the one who opens the runs.
KeyOwners == [k \in Keys |-> IF k = k1 THEN o1 ELSE o2]
AllByO1 == [r \in Runs |-> o1]

\* Without the histories, which no guard reads.
View == <<envVars, busy, pc, checkVars, status, lines, buf, fwd, held, connected>>

Symmetry == Permutations(Runs)
=============================================================================
