------------------------------ MODULE ImageFile -----------------------------
(***************************************************************************)
(* What the client owes its user: an image file that is written from the   *)
(* first pixel on, one segment after the other, and is closed when it is   *)
(* complete and not before (client/client.hpp, lines 10-12).               *)
(***************************************************************************)
EXTENDS Integers

CONSTANTS
    Segments,  \* the segments [off, cnt] that the image is made of
    SceneSize  \* the number of its pixels

VARIABLES
    written,   \* the number of pixels in the file
    closed     \* the file has been closed

Init ==
    /\ written = 0
    /\ closed = FALSE

\* The segment that comes next is written.
Write ==
    /\ ~closed
    /\ \E seg \in Segments :
           /\ seg.off = written
           /\ written' = written + seg.cnt
    /\ UNCHANGED closed

Close ==
    /\ ~closed
    /\ written = SceneSize
    /\ closed' = TRUE
    /\ UNCHANGED written

Next == Write \/ Close

Spec == Init /\ [][Next]_<<written, closed>>
=============================================================================
