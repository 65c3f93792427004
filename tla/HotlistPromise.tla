--------------------------- MODULE HotlistPromise ---------------------------
(***************************************************************************)
(* What the hotlist promises of the status of its rows whatever requests   *)
(* overlap: a row is born ACTIVE_UNCONFIRMED, waits in that status once,   *)
(* and after it has been settled it never waits again and never vanishes.  *)
(* Between the settled statuses overlapping writers may move it freely.    *)
(***************************************************************************)
CONSTANT Entries

VARIABLE status

Settled == {"ACTIVE_CONFIRMED", "EXPIRED", "CLOSED"}

Init == status = [e \in Entries |-> "NONE"]

\* One approval lists one row.
List(e) ==
    /\ status[e] = "NONE"
    /\ status' = [status EXCEPT ![e] = "ACTIVE_UNCONFIRMED"]

\* An officer settles one row, the expiry job a batch of them.
Settle(batch, s) ==
    /\ \A e \in batch : status[e] \in Settled \cup {"ACTIVE_UNCONFIRMED"}
    /\ status' = [e \in Entries |-> IF e \in batch THEN s ELSE status[e]]

Next ==
    \/ \E e \in Entries : List(e)
    \/ \E batch \in SUBSET Entries, s \in Settled : Settle(batch, s)

Spec == Init /\ [][Next]_status
=============================================================================
