----------------------------- MODULE HotlistView -----------------------------
(***************************************************************************)
(* What a reader of the hotlist has to reckon with, and all it may rely    *)
(* on: a row is inserted once, active, and stays in the table; from then   *)
(* on commits of others make it match or not match, one row at a time      *)
(* (officers) or a batch in one transaction (the expiry job).  A row that  *)
(* stopped matching may match again, because an officer's PUT can be       *)
(* committed from a load older than the expiry.                            *)
(*                                                                         *)
(* SightingIngest runs in these surroundings, and HotlistLifecycle is      *)
(* proved to provide no others.                                            *)
(***************************************************************************)
CONSTANT Entries

VARIABLE row

Init == row = [e \in Entries |-> "NONE"]

Insert(e) ==
    /\ row[e] = "NONE"
    /\ row' = [row EXCEPT ![e] = "ACTIVE"]

\* The rows of batch are those that the commit really changes.
Set(batch, to) ==
    /\ batch # {}
    /\ \A e \in batch : row[e] \notin {"NONE", to}
    /\ row' = [e \in Entries |-> IF e \in batch THEN to ELSE row[e]]

Next ==
    \/ \E e \in Entries : Insert(e)
    \/ \E batch \in SUBSET Entries, to \in {"ACTIVE", "INACTIVE"} : Set(batch, to)

Spec == Init /\ [][Next]_row
=============================================================================
