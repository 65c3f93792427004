--------------------------- MODULE MCHitDelivery ---------------------------
(* Small instances of HitDelivery for TLC.                                 *)
EXTENDS HitDelivery, TLC

CONSTANTS d1, d2, p1, e1

OnePhone == {d1}
OneSimulator == {d2}
Both == {d1, d2}
Nobody == {}
OnePlate == {p1}
OneEntry == {e1}
SamePlate == [e \in Entries |-> p1]
=============================================================================
