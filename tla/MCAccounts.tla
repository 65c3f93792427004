---------------------------- MODULE MCAccounts ----------------------------
(* Instances of Accounts for TLC.                                          *)
EXTENDS Accounts, TLC

CONSTANTS u1, u2, phone

TwoUsers == {u1, u2}
OnePhone == {phone}
TwoCalls == {1, 2}

\* Users are interchangeable.
UserSymmetry == Permutations(TwoUsers)
=============================================================================
