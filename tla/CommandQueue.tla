---------------------------- MODULE CommandQueue ----------------------------
(***************************************************************************)
(* What the ring buffer promises the driver: the GPU executes the words of *)
(* the packets handed to it, all of them, once, in the order in which they *)
(* were handed over, and nothing else but no-ops between two packets.  A   *)
(* reset drops what it had not executed.  The promise ends when the driver *)
(* goes on without the room it asked for, and holds again from the next    *)
(* start of the ring.                                                      *)
(***************************************************************************)
EXTENDS Sequences

CONSTANTS
    Packet,         \* what can be handed over: nonempty sequences of words
    Padding         \* what may come before it: sequences of no-ops

VARIABLES
    queue,          \* words handed over and not executed
    kept            \* the promise holds

Init == queue = <<>> /\ kept = TRUE

Submit(pad, p) == queue' = (queue \o pad) \o p /\ kept' = kept
Execute == queue # <<>> /\ queue' = Tail(queue) /\ kept' = kept
Start == queue' = <<>> /\ kept' = TRUE
Break == kept' = FALSE
Broken == ~kept /\ kept' = FALSE

Next == \/ kept /\ \E pad \in Padding, p \in Packet : Submit(pad, p)
        \/ kept /\ Execute
        \/ Start \/ Break \/ Broken

Spec == Init /\ [][Next]_<<queue, kept>>
=============================================================================
