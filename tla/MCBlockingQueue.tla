-------------------------- MODULE MCBlockingQueue ---------------------------
(***************************************************************************)
(* BlockingQueue with two producers that race for the last free slot and   *)
(* two consumers that race for the last element.                           *)
(***************************************************************************)
EXTENDS BlockingQueue

CONSTANTS p1, p2, c1, c2

TwoProducers == {p1, p2}

TwoConsumers == {c1, c2}
=============================================================================
