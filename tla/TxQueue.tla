------------------------------ MODULE TxQueue ------------------------------
(***************************************************************************)
(* What the network driver promises of the packets it accepts: they are    *)
(* numbered as they are accepted, each leaves at most once, in that order, *)
(* and at most Capacity of them are under way. A packet that the card      *)
(* gives up is dropped when its turn comes.                                *)
(***************************************************************************)
EXTENDS Integers, Sequences

CONSTANT Capacity

VARIABLES
    accepted,   \* how many packets have been accepted
    queue,      \* those that have not left yet
    wire        \* those that were sent, in the order they were sent

queueVars == <<accepted, queue, wire>>

Init == accepted = 0 /\ queue = <<>> /\ wire = <<>>

Accept ==
    /\ Len(queue) < Capacity
    /\ accepted' = accepted + 1
    /\ queue' = Append(queue, accepted')
    /\ UNCHANGED wire

Leave(sent) ==
    /\ queue # <<>>
    /\ wire' = IF sent THEN Append(wire, Head(queue)) ELSE wire
    /\ queue' = Tail(queue)
    /\ UNCHANGED accepted

Next == Accept \/ \E sent \in BOOLEAN : Leave(sent)

Spec == Init /\ [][Next]_queueVars
=============================================================================
