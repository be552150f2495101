------------------------------ MODULE MCUnits ------------------------------
\* Instances of a unit with its bundle and its backups.
EXTENDS UnitBundles, TLC

CONSTANTS k3, v1, f1, f2

\* Two keys are in one file, as in certs.conf; the third, in a file of its own,
\* has a value of the unit's parents.
Layout == [k \in Keys |-> IF k = k3 THEN f2 ELSE f1]
Parents == [k \in Keys |-> IF k = k3 THEN v1 ELSE Absent]

UnitSymmetry == Permutations(Pool) \cup Permutations(Contents) \cup Permutations(Ids)
=============================================================================
