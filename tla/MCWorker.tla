------------------------------ MODULE MCWorker ------------------------------
(* Values for the constants of Worker that a .cfg cannot write. *)
EXTENDS Worker

CONSTANTS o1, o2, c1, c2

\* Every order has a scene id and a client of its own ...
OwnId == o1 :> 1 @@ o2 :> 2
OwnClient == o1 :> c1 @@ o2 :> c2

\* ... or the same client orders twice.
SameClient == o1 :> c1 @@ o2 :> c1

=============================================================================
