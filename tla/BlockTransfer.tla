--------------------------- MODULE BlockTransfer ---------------------------
(***************************************************************************)
(* What a transfer promises, without threads, connections or checkpoints:  *)
(* blocks arrive in any order, a block that has arrived stays, and the     *)
(* sender reports success only when nothing it could read is missing.      *)
(***************************************************************************)
CONSTANT AllBlocks  \* the blocks of the directory

VARIABLES
    delivered,   \* blocks completely at the receiver
    unreadable,  \* blocks the sender could not open
    outcome      \* what Sender::finish concludes

vars == <<delivered, unreadable, outcome>>

Init == delivered = {} /\ unreadable = {} /\ outcome = "running"

\* A tag can verify several blocks at once.
Deliver ==
    /\ outcome # "ok"
    /\ \E bs \in SUBSET (AllBlocks \ delivered) : delivered' = delivered \cup bs
    /\ UNCHANGED <<unreadable, outcome>>

CannotOpen ==
    /\ outcome = "running"
    /\ \E b \in AllBlocks \ unreadable : unreadable' = unreadable \cup {b}
    /\ UNCHANGED <<delivered, outcome>>

Succeed ==
    /\ outcome = "running"
    /\ delivered \cup unreadable = AllBlocks
    /\ outcome' = "ok"
    /\ UNCHANGED <<delivered, unreadable>>

GiveUp ==
    /\ outcome = "running"
    /\ outcome' = "failed"
    /\ UNCHANGED <<delivered, unreadable>>

Next == Deliver \/ CannotOpen \/ Succeed \/ GiveUp

Spec == Init /\ [][Next]_vars
=============================================================================
