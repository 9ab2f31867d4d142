--------------------------- MODULE BoundedChannel ---------------------------
(***************************************************************************)
(* What a message queue of the ray tracer promises to the threads around   *)
(* it: a first-in first-out channel that never holds more than Capacity    *)
(* elements.  There are no locks and no waiting threads here; a Put or a   *)
(* Take is one step, taken only when it can complete.  BlockingQueue is    *)
(* shown to implement this module.                                         *)
(***************************************************************************)
EXTENDS Naturals, Sequences

CONSTANTS Items,     \* what can be put on the channel
          Capacity   \* how many elements it holds

VARIABLE channel

Init == channel = <<>>

Put(i) ==
    /\ Len(channel) < Capacity
    /\ channel' = Append(channel, i)

Take ==
    /\ channel # <<>>
    /\ channel' = Tail(channel)

Next == Take \/ \E i \in Items : Put(i)

Spec == Init /\ [][Next]_channel
=============================================================================
