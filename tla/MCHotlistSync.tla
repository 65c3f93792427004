--------------------------- MODULE MCHotlistSync ---------------------------
(* Instances of HotlistSync for TLC.                                       *)
EXTENDS HotlistSync, TLC

CONSTANTS r1, r2

TwoRows == {r1, r2}
OnePlateEach == [r \in {r1, r2} |-> r]
OneSync == {1}
OneRegistration == {1}

\* A row is also the name of its plate, and rows are interchangeable.
RowSymmetry == Permutations(TwoRows)

\* Nothing in HotlistSync reads the token in the scanner's memory: two states that differ
\* only there have the same future here.
ApartFromDeviceToken ==
    <<serverVars, token, key, cache, sync, registering, clearing, restarts, overlapped>>

\* A second registration is followed as long as the app was not killed and the clock is
\* below its bound; with one device both go on to their bounds.
SecondDeviceBound ==
    device[2] = "none" \/ (restarts = 0 /\ now < MaxTime)
=============================================================================
