---------------------------- MODULE SceneStitcher ---------------------------
(***************************************************************************)
(* client/client and client/scene_writer: the client's thread puts the     *)
(* segments of the image, which the workers send in any order and, after a *)
(* failure, more than once, into the order of the file; the writer's       *)
(* thread writes them.  Each thread takes its messages from a blocking     *)
(* queue of QDepth entries; a Put into a full queue waits.                 *)
(*                                                                         *)
(* The segment handler is one action per Put, since the thread can be held *)
(* up there: Take, then WriteInOrder or Hold, one Scan for each segment    *)
(* that the loop over the held ones visits, and EndOfScan.                 *)
(***************************************************************************)
EXTENDS Integers, Sequences

CONSTANTS
    Segments,   \* the segments [off, cnt] that the scene was divided into
    SceneSize,  \* m_SceneSizeInPixels
    QDepth,     \* the depth of the client's queue and of the writer's
    MaxCopies   \* bound: how often the workers may send a segment

PixelsOf(seg) == seg.off .. seg.off + seg.cnt - 1

ASSUME StitcherAssumption ==
    /\ SceneSize \in Nat
    /\ QDepth \in Nat \ {0}
    /\ MaxCopies \in Nat \ {0}
    /\ Segments \subseteq [off : Nat, cnt : Nat \ {0}]

\* The scheduler's jobs tile the image (SceneSchedulerDynamic!JobsDisjoint).
ASSUME TilingAssumption ==
    /\ \A j, k \in Segments : j # k => PixelsOf(j) \cap PixelsOf(k) = {}
    /\ UNION {PixelsOf(j) : j \in Segments} = 0 .. SceneSize - 1

NoSegment == [off |-> -1, cnt |-> 0]

\* SceneFileCloseRequest to the writer and SceneFileCloseResponse to the client:
\* a message that has its place behind the last pixel.
CloseMsg == [off |-> SceneSize, cnt |-> 0]

Messages == Segments \cup {CloseMsg}

VARIABLES
    toCome,   \* how many copies of each segment the workers may still send
    inbox,    \* the client's queue
    pc,       \* where the client's thread is
    msg,      \* the segment it handles
    next,     \* m_CurrentPixelToWrite
    held,     \* m_SceneSegmentResponseSet, sorted by offset
    iter,     \* the loop over it has not visited the offsets from here on
    outbox,   \* m_SceneWriterMsgQ
    writer,   \* where the writer's thread is
    file      \* history: the segments in the order they were written

vars == <<toCome, inbox, pc, msg, next, held, iter, outbox, writer, file>>

clientVars == <<pc, msg, next, held, iter>>

TypeOK ==
    /\ toCome \in [Segments -> 0 .. MaxCopies]
    /\ inbox \in Seq(Messages)
    /\ pc \in {"take", "handle", "scan", "close", "exited"}
    /\ msg \in Segments \cup {NoSegment}
    /\ next \in Nat
    /\ held \subseteq Segments
    /\ iter \in Nat
    /\ outbox \in Seq(Messages)
    /\ writer \in {"writing", "closed", "answered"}
    /\ file \in Seq(Segments)

Init ==
    /\ toCome = [j \in Segments |-> MaxCopies]
    /\ inbox = <<>>
    /\ pc = "take"
    /\ msg = NoSegment
    /\ next = 0
    /\ held = {}
    /\ iter = 0
    /\ outbox = <<>>
    /\ writer = "writing"
    /\ file = <<>>

-----------------------------------------------------------------------------
(* The receiver threads of the connections to the workers                  *)

Arrive(seg) ==
    /\ toCome[seg] > 0
    /\ Len(inbox) < QDepth
    /\ toCome' = [toCome EXCEPT ![seg] = @ - 1]
    /\ inbox' = Append(inbox, seg)
    /\ UNCHANGED <<clientVars, outbox, writer, file>>

-----------------------------------------------------------------------------
(* The client's thread                                                     *)

\* Variants with a plausible bug come before the definition they are variants
\* of; no specification uses them, they show what the properties detect.
\* (variant: every message is taken for a segment)
AnyMessage(m) == TRUE

\* The message is a segment, not the writer's answer or the request to close.
IsSegment(m) == m \in Segments

\* (variant: what lies behind the write position is written again)
DueOrPast(seg) == seg.off <= next

Due(seg) == seg.off = next

\* (variant: the set is sorted by size)
InsertBySize(seg) ==
    IF \E k \in held : k.cnt = seg.cnt THEN held ELSE held \cup {seg}

\* The set is sorted by offset and takes one segment of each.
Insert(seg) == IF \E k \in held : k.off = seg.off THEN held ELSE held \cup {seg}

Take ==
    /\ pc = "take"
    /\ inbox # <<>>
    /\ IsSegment(Head(inbox))
    /\ msg' = Head(inbox)
    /\ inbox' = Tail(inbox)
    /\ pc' = "handle"
    /\ UNCHANGED <<toCome, next, held, iter, outbox, writer, file>>

\* The segment that is due goes to the writer; the held ones are looked at.
WriteInOrder ==
    /\ pc = "handle"
    /\ Due(msg)
    /\ Len(outbox) < QDepth
    /\ outbox' = Append(outbox, msg)
    /\ next' = next + msg.cnt
    /\ pc' = "scan"
    /\ iter' = 0
    /\ msg' = NoSegment
    /\ UNCHANGED <<toCome, inbox, held, writer, file>>

\* Any other one is held.
Hold ==
    /\ pc = "handle"
    /\ ~Due(msg)
    /\ held' = Insert(msg)
    /\ pc' = "take"
    /\ msg' = NoSegment
    /\ UNCHANGED <<toCome, inbox, next, iter, outbox, writer, file>>

\* The held segments that the loop has not visited, and the one it visits next.
Ahead == {j \in held : j.off >= iter}

\* (variant: the set is not sorted)
IsAny(seg) == seg \in Ahead

IsFirst(seg) == seg \in Ahead /\ \A k \in Ahead : seg.off <= k.off

\* The next held segment is released if it is due and stays if it is not.
Scan(seg) ==
    /\ pc = "scan"
    /\ IsFirst(seg)
    /\ iter' = seg.off + 1
    /\ \/ /\ Due(seg)
          /\ Len(outbox) < QDepth
          /\ outbox' = Append(outbox, seg)
          /\ next' = next + seg.cnt
          /\ held' = held \ {seg}
       \/ /\ ~Due(seg)
          /\ UNCHANGED <<outbox, next, held>>
    /\ UNCHANGED <<toCome, inbox, pc, msg, writer, file>>

EndOfScan ==
    /\ pc = "scan"
    /\ Ahead = {}
    /\ pc' = IF next = SceneSize THEN "close" ELSE "take"
    /\ UNCHANGED <<toCome, inbox, msg, next, held, iter, outbox, writer, file>>

RequestClose ==
    /\ pc = "close"
    /\ Len(outbox) < QDepth
    /\ outbox' = Append(outbox, CloseMsg)
    /\ pc' = "take"
    /\ UNCHANGED <<toCome, inbox, msg, next, held, iter, writer, file>>

\* OnSceneFileCloseResponse ends the process.
Exit ==
    /\ pc = "take"
    /\ inbox # <<>>
    /\ Head(inbox) = CloseMsg
    /\ pc' = "exited"
    /\ inbox' = Tail(inbox)
    /\ UNCHANGED <<toCome, msg, next, held, iter, outbox, writer, file>>

-----------------------------------------------------------------------------
(* The writer's thread                                                     *)

WriteSegment ==
    /\ writer = "writing"
    /\ outbox # <<>>
    /\ IsSegment(Head(outbox))
    /\ file' = Append(file, Head(outbox))
    /\ outbox' = Tail(outbox)
    /\ UNCHANGED <<toCome, inbox, clientVars, writer>>

CloseFile ==
    /\ writer = "writing"
    /\ outbox # <<>>
    /\ Head(outbox) = CloseMsg
    /\ outbox' = Tail(outbox)
    /\ writer' = "closed"
    /\ UNCHANGED <<toCome, inbox, clientVars, file>>

Answer ==
    /\ writer = "closed"
    /\ Len(inbox) < QDepth
    /\ inbox' = Append(inbox, CloseMsg)
    /\ writer' = "answered"
    /\ UNCHANGED <<toCome, clientVars, outbox, file>>

-----------------------------------------------------------------------------
Running == pc # "exited"

Receivers == Running /\ \E seg \in Segments : Arrive(seg)

Client ==
    \/ Take \/ WriteInOrder \/ Hold
    \/ \E seg \in Segments : Scan(seg)
    \/ EndOfScan \/ RequestClose \/ Exit

Writer == Running /\ (WriteSegment \/ CloseFile \/ Answer)

Next == Receivers \/ Client \/ Writer

Spec == Init /\ [][Next]_vars

(***************************************************************************)
(* Both threads run on.  That every segment arrives at least once is what  *)
(* the scheduler promises (SceneSchedulerDynamic!SceneCompletes).          *)
(***************************************************************************)
Fairness ==
    /\ WF_vars(Client)
    /\ WF_vars(Writer)
    /\ \A seg \in Segments :
           WF_vars(Running /\ toCome[seg] = MaxCopies /\ Arrive(seg))

FairSpec == Spec /\ Fairness

-----------------------------------------------------------------------------
(* Properties                                                              *)

\* Every segment that has arrived is on its way to the file or in it: a
\* repeated one, dropped or held for ever, never takes the place of another.
NothingDropped ==
    \A seg \in Segments : toCome[seg] < MaxCopies =>
        \/ \E i \in DOMAIN inbox : inbox[i] = seg
        \/ seg \in held \cup {msg}
        \/ seg.off < next

\* One pass over the held segments releases all that are due: "release it as
\* soon as we have enough sequential stuff" (client.cpp:265).
NoDueSegmentHeld ==
    pc \in {"take", "close"} => \A seg \in held : ~Due(seg)

\* Where a run of segments ends.
EndOf(segs) == IF segs = <<>> THEN 0
               ELSE segs[Len(segs)].off + segs[Len(segs)].cnt

\* The file is written segment by segment in order, each once, and closed when
\* the image is complete ("it will serialize all the segments and write to the
\* final scene file", client.hpp:11-12).
File == INSTANCE ImageFile
            WITH written <- EndOf(file), closed <- writer # "writing"

ImplementsImageFile == File!Spec

\* The client gets to the end of its scene, however small the two queues are
\* and in whatever order, and however often, the segments arrive.
ImageIsWritten == <>(pc = "exited")
=============================================================================
