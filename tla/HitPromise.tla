----------------------------- MODULE HitPromise -----------------------------
(***************************************************************************)
(* What the delivery path promises of a hit whatever the network, the      *)
(* server and the clocks do: it is kept on the device until it gets an     *)
(* answer, it gets one, "accepted" means that it is in the table, the      *)
(* table only grows, by hits that were captured, and by those of a phone   *)
(* once.                                                                   *)
(***************************************************************************)
EXTENDS Sequences

CONSTANTS
    Hits,
    OnceOnly,  \* hits of the devices that post once
    Answers

VARIABLES
    kept,     \* hits that the devices hold
    settled,  \* hits that a device deleted, with the answer
    table     \* the hits stored, in the order of their commits

promiseVars == <<kept, settled, table>>

-----------------------------------------------------------------------------
Settled(h, answer) == [device |-> h.device, event |-> h.event, verdict |-> answer]

Captured(h) == h \in kept \/ \E answer \in Answers : Settled(h, answer) \in settled

InTable(h) == \E i \in DOMAIN table : table[i] = h

Init == kept = {} /\ settled = {} /\ table = <<>>

Capture(h) ==
    /\ ~Captured(h)
    /\ kept' = kept \cup {h}
    /\ UNCHANGED <<settled, table>>

\* A request may arrive long after its device gave it up, or settled another one for the
\* same hit.
Store(h) ==
    /\ Captured(h)
    /\ h \in OnceOnly => ~InTable(h)
    /\ table' = Append(table, h)
    /\ UNCHANGED <<kept, settled>>

Settle(h, answer) ==
    /\ h \in kept
    /\ answer = "accepted" => InTable(h)
    /\ kept' = kept \ {h}
    /\ settled' = settled \cup {Settled(h, answer)}
    /\ UNCHANGED table

Next == \E h \in Hits : Capture(h) \/ Store(h) \/ \E answer \in Answers : Settle(h, answer)

Spec == Init /\ [][Next]_promiseVars
=============================================================================
