-------------------------- MODULE MCDashboardFeed --------------------------
(* A small instance of DashboardFeed for TLC.                              *)
EXTENDS DashboardFeed, TLC

CONSTANTS s1, s2, s3, n1

ThreeSockets == {s1, s2, s3}
OneEvent == {n1}

\* Sockets are interchangeable.
Symmetry == Permutations(Sockets)
=============================================================================
