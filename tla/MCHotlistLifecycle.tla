------------------------- MODULE MCHotlistLifecycle -------------------------
(* Small instances of HotlistLifecycle for TLC.                            *)
EXTENDS HotlistLifecycle, TLC

CONSTANTS c1, c2, e1, e2, t1, t2

OneComplaint == {c1}
TwoComplaints == {c1, c2}
OneEntry == {e1}
TwoEntries == {e1, e2}
OneThread == {t1}
TwoThreads == {t1, t2}

\* Ids are interchangeable (used by the safety runs only).
Symmetry == Permutations(Entries) \cup Permutations(Threads) \cup Permutations(Complaints)
=============================================================================
