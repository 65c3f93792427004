---------------------------- MODULE MCRetention ----------------------------
(* Instances of Retention for TLC.                                         *)
EXTENDS Retention, TLC

CONSTANTS c1, s1, s2

OneComplaint == {c1}
TwoSightings == {s1, s2}

\* Sightings are interchangeable.
SightingSymmetry == Permutations(TwoSightings)

\* What no guard and no property reads any more is left out of the states that TLC tells
\* apart: the days of a complaint that was approved before today, and the day on which a
\* row without a cooldown was closed.
Approved(c) == complaint[c].status = "VERIFIED" /\ complaint[c].decided # day
Shut(c) == row[c].cooldown_until = -1 /\ row[c].settled # day
WhatMatters ==
    <<day, sighting, photos, audits, jobVars,
      [c \in Complaints |-> IF Approved(c) THEN NoComplaint ELSE complaint[c]],
      {c \in Complaints : Approved(c)},
      [c \in Complaints |-> IF Shut(c) THEN [row[c] EXCEPT !.settled = -1] ELSE row[c]]>>
=============================================================================
