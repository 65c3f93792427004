-------------------------- MODULE MCSightingIngest --------------------------
(* Small instances of SightingIngest for TLC.                              *)
EXTENDS SightingIngest, TLC

CONSTANTS d1, d2, p1, e1, e2

OneDevice == {d1}
TwoDevices == {d1, d2}
OnePlate == {p1}
OneEntry == {e1}
TwoEntries == {e1, e2}

\* Every row lists the one plate.
SamePlate == [e \in Entries |-> p1]

Symmetry == Permutations(Devices) \cup Permutations(Entries)
=============================================================================
