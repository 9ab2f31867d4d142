------------------------ MODULE SceneStitcherProofs -------------------------
(***************************************************************************)
(* Proofs about SceneStitcher, for every tiling of the image, every depth  *)
(* of the queues and every number of repeated segments: nothing is dropped, *)
(* one pass releases all that is due, and the file that is written is the  *)
(* one that ImageFile describes.                                           *)
(***************************************************************************)
EXTENDS SceneStitcher, TLAPS

\* The client's thread has a segment in hand exactly while it handles it.
InHand == IF pc = "handle" THEN msg \in Segments ELSE msg = NoSegment

\* Where the element before the i-th one of the writer's queue ends.
EndBefore(i) == IF i = 1 THEN EndOf(file)
                ELSE outbox[i - 1].off + outbox[i - 1].cnt

\* The queue continues the file, up to the client's write position.
Chained ==
    /\ \A i \in DOMAIN outbox : outbox[i].off = EndBefore(i)
    /\ EndBefore(Len(outbox) + 1) = next

\* After the request to close nothing is put into the queue any more.
Closing ==
    /\ pc = "close" => next = SceneSize
    /\ \A i \in DOMAIN outbox : outbox[i] = CloseMsg =>
           /\ i = Len(outbox)
           /\ next = SceneSize
           /\ pc \in {"take", "handle", "exited"}
    /\ writer # "writing" =>
           /\ outbox = <<>>
           /\ next = SceneSize
           /\ pc \in {"take", "handle", "exited"}

\* A segment that is due is ahead of the loop, or there is none.
DueIsAhead ==
    \A seg \in held : seg.off = next => pc = "exited" \/ (pc = "scan" /\ seg.off >= iter)

IInv == TypeOK /\ InHand /\ Chained /\ Closing

-----------------------------------------------------------------------------
\* What the tiling says of one segment, and of two with the same offset.
LEMMA SegmentFacts ==
    /\ CloseMsg \notin Segments /\ NoSegment \notin Segments
    /\ SceneSize \in Nat
    /\ QDepth \in Nat \ {0}
    /\ \A seg \in Segments : /\ seg.off \in Nat
                             /\ seg.cnt \in Nat \ {0}
                             /\ seg.off < SceneSize
    /\ \A j, k \in Segments : j.off = k.off => j = k
<1>1. /\ SceneSize \in Nat
      /\ QDepth \in Nat \ {0}
      /\ \A seg \in Segments : seg.off \in Nat /\ seg.cnt \in Nat \ {0}
  BY StitcherAssumption
<1>2. CloseMsg \notin Segments /\ NoSegment \notin Segments
  BY StitcherAssumption DEF CloseMsg, NoSegment
<1>3. \A seg \in Segments : seg.off \in PixelsOf(seg)
  <2>1. TAKE seg \in Segments
  <2>2. seg.off \in Int /\ seg.cnt \in Int /\ seg.cnt >= 1
    BY <1>1
  <2>3. seg.off \in seg.off .. seg.off + seg.cnt - 1
    BY <2>2
  <2> QED
    BY <2>3 DEF PixelsOf
<1>4. \A seg \in Segments : seg.off < SceneSize
  <2>1. TAKE seg \in Segments
  <2>2. seg.off \in UNION {PixelsOf(j) : j \in Segments}
    BY <1>3
  <2>3. seg.off \in 0 .. SceneSize - 1
    BY <2>2, TilingAssumption
  <2> QED
    BY <2>3, <1>1
<1>5. \A j, k \in Segments : j.off = k.off => j = k
  BY <1>3, TilingAssumption
<1> QED
  BY <1>1, <1>2, <1>4, <1>5

\* The initial states satisfy the invariant.
LEMMA InitIInv == Init => IInv
<1> SUFFICES ASSUME Init PROVE IInv
  OBVIOUS
<1>1. TypeOK
  BY StitcherAssumption DEF Init, TypeOK, Messages
<1>2. InHand /\ Chained /\ Closing
  BY DEF Init, InHand, Chained, EndBefore, EndOf, Closing
<1> QED
  BY <1>1, <1>2 DEF IInv

\* Every step preserves the types.
LEMMA TypeStep ==
    ASSUME TypeOK, InHand, [Next]_vars
    PROVE  TypeOK' /\ InHand'
<1> USE SegmentFacts, StitcherAssumption DEF TypeOK, InHand, Messages, clientVars
<1>1. CASE Receivers
  BY <1>1 DEF Receivers, Arrive
<1>2. CASE Take
  BY <1>2 DEF Take, IsSegment
<1>3. CASE WriteInOrder
  BY <1>3 DEF WriteInOrder, Due
<1>4. CASE Hold
  BY <1>4 DEF Hold, Due, Insert
<1>5. ASSUME NEW seg \in Segments, Scan(seg) PROVE TypeOK' /\ InHand'
  <2>1. /\ iter' \in Nat
        /\ UNCHANGED <<toCome, inbox, pc, msg, writer, file>>
    BY <1>5 DEF Scan, Due
  <2>2. /\ outbox' \in Seq(Segments \cup {CloseMsg})
        /\ next' \in Nat
        /\ held' \subseteq Segments
    <3>1. CASE seg.off = next
      <4>1. /\ outbox' = Append(outbox, seg)
            /\ next' = next + seg.cnt
            /\ held' = held \ {seg}
        BY <1>5, <3>1 DEF Scan, Due
      <4> QED
        BY <4>1
    <3>2. CASE seg.off # next
      BY <1>5, <3>2 DEF Scan, Due
    <3> QED
      BY <3>1, <3>2
  <2> QED
    BY <2>1, <2>2
<1>6. CASE EndOfScan
  BY <1>6 DEF EndOfScan
<1>7. CASE RequestClose
  BY <1>7 DEF RequestClose
<1>8. CASE Exit
  BY <1>8 DEF Exit
<1>9. CASE Writer
  <2>1. CASE WriteSegment
    BY <2>1 DEF WriteSegment, IsSegment
  <2>2. CASE CloseFile
    BY <2>2 DEF CloseFile
  <2>3. CASE Answer
    BY <2>3 DEF Answer
  <2> QED
    BY <1>9, <2>1, <2>2, <2>3 DEF Writer
<1>10. CASE UNCHANGED vars
  BY <1>10 DEF vars
<1> QED
  BY <1>1, <1>2, <1>3, <1>4, <1>5, <1>6, <1>7, <1>8, <1>9, <1>10
     DEF Next, Client

\* A segment that is due goes to the end of the queue.
LEMMA AppendStep ==
    ASSUME IInv, NEW seg \in Segments,
           seg.off = next, next' = next + seg.cnt,
           outbox' = Append(outbox, seg), pc' = "scan",
           UNCHANGED <<writer, file>>
    PROVE  Chained' /\ Closing'
<1> USE SegmentFacts DEF IInv
<1>1. next < SceneSize
  OBVIOUS
<1>2. /\ outbox \in Seq(Messages)
      /\ \A i \in DOMAIN outbox : outbox[i] # CloseMsg
      /\ writer = "writing"
  BY <1>1 DEF TypeOK, Closing
<1>3. /\ Len(outbox') = Len(outbox) + 1
      /\ \A i \in 1 .. Len(outbox) : outbox'[i] = outbox[i]
      /\ outbox'[Len(outbox) + 1] = seg
  BY <1>2 DEF Messages
<1>4. \A i \in 1 .. Len(outbox) + 1 : EndBefore(i)' = EndBefore(i)
  BY <1>2, <1>3 DEF EndBefore, EndOf
<1>5. EndBefore(Len(outbox) + 1)' = next'
  BY <1>2, <1>3 DEF EndBefore
<1>6. \A i \in 1 .. Len(outbox) + 1 : outbox'[i].off = EndBefore(i)'
  BY <1>2, <1>3, <1>4 DEF Chained
<1>7. Chained'
  BY <1>2, <1>3, <1>5, <1>6 DEF Chained
<1>8. \A i \in 1 .. Len(outbox) + 1 : outbox'[i] # CloseMsg
  BY <1>2, <1>3
<1>9. Closing'
  BY <1>2, <1>3, <1>8 DEF Closing
<1> QED
  BY <1>7, <1>9

\* The writer takes the first element of the queue.
LEMMA HeadFacts ==
    ASSUME IInv, outbox # <<>>
    PROVE  /\ Head(outbox) = outbox[1]
           /\ Head(outbox).off = EndOf(file)
           /\ Head(outbox) = CloseMsg =>
                  /\ Len(outbox) = 1
                  /\ next = SceneSize
                  /\ EndOf(file) = SceneSize
                  /\ pc \in {"take", "handle", "exited"}
<1> USE DEF IInv
<1>1. outbox \in Seq(Messages) /\ Len(outbox) \in Nat \ {0} /\ Head(outbox) = outbox[1]
  BY DEF TypeOK
<1>2. outbox[1].off = EndOf(file)
  BY <1>1 DEF Chained, EndBefore
<1>3. outbox[1] = CloseMsg => /\ Len(outbox) = 1
                              /\ next = SceneSize
                              /\ pc \in {"take", "handle", "exited"}
  <2>1. 1 \in DOMAIN outbox
    BY <1>1
  <2>2. Closing
    OBVIOUS
  <2> HIDE DEF IInv
  <2> QED
    BY <2>1, <2>2 DEF Closing
<1>4. outbox[1] = CloseMsg => EndOf(file) = SceneSize
  BY <1>2 DEF CloseMsg
<1> QED
  BY <1>1, <1>2, <1>3, <1>4

\* The writer's step moves the head of the queue to the end of the file.
LEMMA WriteStep ==
    ASSUME IInv, Running, WriteSegment
    PROVE  Chained' /\ Closing'
<1> USE DEF IInv
<1>1. /\ outbox \in Seq(Messages) /\ file \in Seq(Segments)
      /\ outbox # <<>> /\ Len(outbox) \in Nat \ {0}
      /\ outbox[1] \in Segments
      /\ file' = Append(file, outbox[1])
      /\ outbox' = Tail(outbox)
      /\ UNCHANGED <<pc, next, writer>>
      /\ writer = "writing"
  BY HeadFacts DEF TypeOK, WriteSegment, IsSegment, clientVars
<1>2. /\ Len(outbox') = Len(outbox) - 1
      /\ \A i \in 1 .. Len(outbox) - 1 : outbox'[i] = outbox[i + 1]
  BY <1>1
<1>3. EndOf(file)' = outbox[1].off + outbox[1].cnt
  BY <1>1 DEF EndOf
<1>4. \A i \in 1 .. Len(outbox) : EndBefore(i)' = EndBefore(i + 1)
  BY <1>1, <1>2, <1>3 DEF EndBefore
<1>5. \A i \in 1 .. Len(outbox) - 1 : outbox'[i].off = EndBefore(i)'
  <2>1. TAKE i \in 1 .. Len(outbox) - 1
  <2>2. outbox[i + 1].off = EndBefore(i + 1)
    BY <1>1 DEF Chained
  <2> QED
    BY <2>2, <1>2, <1>4, <1>1
<1>6. EndBefore(Len(outbox) + 1)' = next'
  <2>1. outbox[Len(outbox)].off + outbox[Len(outbox)].cnt = next
    BY <1>1 DEF Chained, EndBefore
  <2>2. CASE Len(outbox) = 1
    BY <1>1, <1>2, <1>3, <2>1, <2>2 DEF EndBefore
  <2>3. CASE Len(outbox) # 1
    BY <1>1, <1>2, <2>1, <2>3 DEF EndBefore
  <2> QED
    BY <2>2, <2>3
<1>7. Chained'
  BY <1>1, <1>2, <1>5, <1>6 DEF Chained
<1>8. \A i \in DOMAIN outbox' : outbox'[i] = CloseMsg =>
         /\ i = Len(outbox')
         /\ next = SceneSize
         /\ pc \in {"take", "handle", "exited"}
  <2>1. TAKE i \in DOMAIN outbox'
  <2>2. i \in 1 .. Len(outbox) - 1 /\ i + 1 \in DOMAIN outbox
    BY <1>1, <1>2
  <2> QED
    BY <2>2, <1>1, <1>2 DEF Closing
<1>9. Closing'
  BY <1>1, <1>8 DEF Closing
<1> QED
  BY <1>7, <1>9

\* Every step preserves the order of the queue and the end of the writing.
LEMMA OrderStep ==
    ASSUME IInv, [Next]_vars
    PROVE  Chained' /\ Closing'
<1> USE SegmentFacts DEF IInv
<1>1. CASE UNCHANGED <<outbox, file, next, pc, writer>>
  BY <1>1 DEF Chained, EndBefore, EndOf, Closing
<1>2. CASE Receivers
  BY <1>1, <1>2 DEF Receivers, Arrive, clientVars
<1>3. CASE Take \/ Hold \/ Exit
  <2>1. /\ UNCHANGED <<outbox, file, next, writer>>
        /\ pc' \in {"take", "handle", "exited"}
    BY <1>3 DEF Take, Hold, Exit
  <2> QED
    BY <2>1 DEF Chained, EndBefore, EndOf, Closing
<1>4. CASE WriteInOrder
  <2>1. msg \in Segments
    BY <1>4 DEF WriteInOrder, Due, InHand
  <2> QED
    BY <1>4, <2>1, AppendStep DEF WriteInOrder, Due
<1>5. ASSUME NEW seg \in Segments, Scan(seg) PROVE Chained' /\ Closing'
  <2>1. CASE seg.off = next
    BY <1>5, <2>1, AppendStep DEF Scan, Due
  <2>2. CASE seg.off # next
    BY <1>5, <2>2, <1>1 DEF Scan, Due
  <2> QED
    BY <2>1, <2>2
<1>6. CASE EndOfScan
  <2>1. /\ pc = "scan" /\ pc' \in {"take", "close"}
        /\ pc' = "close" => next = SceneSize
        /\ UNCHANGED <<outbox, file, next, writer>>
    BY <1>6 DEF EndOfScan
  <2> QED
    BY <2>1 DEF Chained, EndBefore, EndOf, Closing
<1>7. CASE RequestClose
  <2>1. /\ pc = "close" /\ pc' = "take" /\ next = SceneSize
        /\ outbox \in Seq(Messages) /\ writer = "writing"
        /\ \A i \in DOMAIN outbox : outbox[i] # CloseMsg
        /\ outbox' = Append(outbox, CloseMsg)
        /\ UNCHANGED <<next, file, writer>>
    BY <1>7 DEF RequestClose, Closing, TypeOK
  <2>2. /\ Len(outbox') = Len(outbox) + 1
        /\ \A i \in 1 .. Len(outbox) : outbox'[i] = outbox[i]
        /\ outbox'[Len(outbox) + 1] = CloseMsg
    BY <2>1 DEF Messages
  <2>3. \A i \in 1 .. Len(outbox) + 1 : EndBefore(i)' = EndBefore(i)
    BY <2>1, <2>2 DEF EndBefore, EndOf
  <2>4. EndBefore(Len(outbox) + 1)' = next'
    BY <2>1, <2>2 DEF EndBefore, CloseMsg
  <2>5. \A i \in 1 .. Len(outbox) + 1 : outbox'[i].off = EndBefore(i)'
    BY <2>1, <2>2, <2>3 DEF Chained, CloseMsg
  <2>6. Chained'
    BY <2>1, <2>2, <2>4, <2>5 DEF Chained
  <2>7. Closing'
    BY <2>1, <2>2 DEF Closing
  <2> QED
    BY <2>6, <2>7
<1>8. CASE Writer
  <2>1. CASE WriteSegment
    BY <1>8, <2>1, WriteStep DEF Writer
  <2>2. CASE CloseFile
    <3>1. /\ next = SceneSize /\ EndOf(file) = SceneSize
          /\ pc \in {"take", "handle", "exited"}
          /\ Len(outbox) = 1 /\ outbox' = Tail(outbox)
          /\ UNCHANGED <<pc, next, file>>
      BY <2>2, HeadFacts DEF CloseFile, clientVars
    <3>2. outbox' = <<>>
      <4>1. outbox \in Seq(Messages)
        BY DEF TypeOK
      <4>2. Tail(outbox) \in Seq(Messages) /\ Len(Tail(outbox)) = 0
        BY <3>1, <4>1
      <4> QED
        BY <3>1, <4>2
    <3> QED
      BY <3>1, <3>2 DEF Chained, EndBefore, EndOf, Closing
  <2>3. CASE Answer
    <3>1. writer # "writing" /\ UNCHANGED <<pc, next, outbox, file>>
      BY <2>3 DEF Answer, clientVars
    <3> QED
      BY <3>1 DEF Chained, EndBefore, EndOf, Closing
  <2> QED
    BY <1>8, <2>1, <2>2, <2>3 DEF Writer
<1>9. CASE UNCHANGED vars
  BY <1>1, <1>9 DEF vars
<1> QED
  BY <1>2, <1>3, <1>4, <1>5, <1>6, <1>7, <1>8, <1>9 DEF Next, Client

\* The invariant holds in every reachable state.
THEOREM Invariance == Spec => []IInv
<1>1. IInv /\ [Next]_vars => IInv'
  BY TypeStep, OrderStep DEF IInv
<1> QED
  BY <1>1, InitIInv, PTL DEF Spec

\* Every variable of the client and the writer keeps its type.
THEOREM TypeCorrect == Spec => []TypeOK
<1>1. IInv => TypeOK
  BY DEF IInv
<1> QED
  BY <1>1, Invariance, PTL

-----------------------------------------------------------------------------
(* One pass over the held segments is enough                               *)

\* Every step keeps the due segments ahead of the loop.
LEMMA DueStep ==
    ASSUME IInv, DueIsAhead, [Next]_vars
    PROVE  DueIsAhead'
<1> USE SegmentFacts DEF IInv, TypeOK
<1>1. CASE UNCHANGED <<held, next, pc, iter>>
  BY <1>1 DEF DueIsAhead
<1>2. CASE Receivers \/ Writer
  BY <1>1, <1>2 DEF Receivers, Arrive, Writer, WriteSegment, CloseFile, Answer,
     clientVars
<1>3. CASE Take \/ RequestClose \/ Exit
  BY <1>3 DEF Take, RequestClose, Exit, DueIsAhead
<1>4. CASE WriteInOrder
  BY <1>4 DEF WriteInOrder, Due, DueIsAhead
<1>5. CASE Hold
  BY <1>5 DEF Hold, Due, Insert, DueIsAhead
<1>6. ASSUME NEW seg \in Segments, Scan(seg) PROVE DueIsAhead'
  <2>1. /\ pc = "scan" /\ pc' = "scan"
        /\ iter' = seg.off + 1
        /\ \A k \in held : k.off >= iter => seg.off <= k.off
    BY <1>6 DEF Scan, Due, IsFirst, Ahead
  <2>2. CASE seg.off = next
    <3>1. next' = next + seg.cnt /\ held' = held \ {seg}
      BY <1>6, <2>2 DEF Scan, Due
    <3> QED
      BY <2>1, <2>2, <3>1 DEF DueIsAhead
  <2>3. CASE seg.off # next
    <3>1. UNCHANGED <<next, held>>
      BY <1>6, <2>3 DEF Scan, Due
    <3> QED
      BY <2>1, <2>3, <3>1 DEF DueIsAhead
  <2> QED
    BY <2>2, <2>3
<1>7. CASE EndOfScan
  <2>1. UNCHANGED <<held, next>> /\ \A seg \in held : ~(seg.off >= iter)
    BY <1>7 DEF EndOfScan, Ahead
  <2> QED
    BY <1>7, <2>1 DEF EndOfScan, DueIsAhead
<1>8. CASE UNCHANGED vars
  BY <1>1, <1>8 DEF vars
<1> QED
  BY <1>2, <1>3, <1>4, <1>5, <1>6, <1>7, <1>8 DEF Next, Client

\* When the client waits for a message or asks for the file to be closed it
\* holds no segment that could be written: the loop need not be repeated.
THEOREM OnePassReleasesAll == Spec => []NoDueSegmentHeld
<1>1. Init => DueIsAhead
  BY DEF Init, DueIsAhead
<1>2. DueIsAhead => NoDueSegmentHeld
  BY DEF DueIsAhead, NoDueSegmentHeld, Due
<1> QED
  BY <1>1, <1>2, DueStep, Invariance, PTL DEF Spec

-----------------------------------------------------------------------------
(* No segment is dropped                                                   *)

\* Every step keeps each segment that has arrived.
LEMMA DroppedStep ==
    ASSUME IInv, NothingDropped, [Next]_vars
    PROVE  NothingDropped'
<1> USE SegmentFacts, StitcherAssumption DEF IInv, TypeOK
<1> SUFFICES ASSUME NEW seg \in Segments, (toCome[seg] < MaxCopies)'
             PROVE  \/ \E i \in DOMAIN inbox' : inbox'[i] = seg
                    \/ seg \in held' \cup {msg'}
                    \/ seg.off < next'
  BY DEF NothingDropped
<1> DEFINE Safe == \/ \E i \in DOMAIN inbox : inbox[i] = seg
                   \/ seg \in held \cup {msg}
                   \/ seg.off < next
<1>0. ASSUME UNCHANGED toCome PROVE Safe
  BY <1>0 DEF NothingDropped
<1>1. ASSUME NEW new \in Messages, inbox' = Append(inbox, new)
      PROVE  /\ \A i \in DOMAIN inbox : i \in DOMAIN inbox' /\ inbox'[i] = inbox[i]
             /\ \E i \in DOMAIN inbox' : inbox'[i] = new
  <2>1. /\ Len(inbox') = Len(inbox) + 1
        /\ \A i \in 1 .. Len(inbox) : inbox'[i] = inbox[i]
        /\ inbox'[Len(inbox) + 1] = new
    BY <1>1
  <2>2. DOMAIN inbox = 1 .. Len(inbox) /\ DOMAIN inbox' = 1 .. Len(inbox) + 1
    BY <1>1
  <2>3. Len(inbox) \in Nat /\ Len(inbox) + 1 \in DOMAIN inbox'
    BY <2>2
  <2>4. \E i \in DOMAIN inbox' : inbox'[i] = new
    BY <2>1, <2>3
  <2>5. \A i \in DOMAIN inbox : i \in DOMAIN inbox' /\ inbox'[i] = inbox[i]
    BY <2>1, <2>2
  <2> QED
    BY <2>4, <2>5
<1>2. ASSUME inbox # <<>>, inbox' = Tail(inbox)
      PROVE  \A i \in DOMAIN inbox :
                 inbox[i] = Head(inbox) \/ \E k \in DOMAIN inbox' : inbox'[k] = inbox[i]
  <2>1. TAKE i \in DOMAIN inbox
  <2>2. CASE i = 1
    BY <2>2, <1>2
  <2>3. CASE i # 1
    <3>1. i - 1 \in DOMAIN inbox' /\ inbox'[i - 1] = inbox[i]
      BY <2>3, <1>2
    <3> QED
      BY <3>1
  <2> QED
    BY <2>2, <2>3
<1>3. CASE Receivers
  <2>1. PICK new \in Segments : Arrive(new)
    BY <1>3 DEF Receivers
  <2>2. inbox' = Append(inbox, new) /\ new \in Messages
    BY <2>1 DEF Arrive, Messages
  <2>3. CASE seg = new
    BY <2>2, <2>3, <1>1
  <2>4. CASE seg # new
    <3>1. Safe
      BY <2>1, <2>4 DEF Arrive, NothingDropped
    <3> QED
      BY <3>1, <2>1, <2>2, <1>1 DEF Arrive, clientVars
  <2> QED
    BY <2>3, <2>4
<1>4. CASE Take
  <2>1. /\ msg = NoSegment /\ inbox # <<>> /\ inbox' = Tail(inbox)
        /\ msg' = Head(inbox) /\ UNCHANGED <<toCome, held, next>>
    BY <1>4 DEF Take, InHand
  <2> QED
    BY <2>1, <1>0, <1>2
<1>5. CASE WriteInOrder
  BY <1>5, <1>0 DEF WriteInOrder, Due, InHand
<1>6. CASE Hold
  <2>1. msg \in Segments /\ msg \in held' /\ held \subseteq held'
    BY <1>6 DEF Hold, Due, Insert, InHand
  <2> QED
    BY <1>6, <2>1, <1>0 DEF Hold
<1>7. ASSUME NEW s \in Segments, Scan(s)
      PROVE  seg \in held' \cup {msg'} \/ seg.off < next'
                 \/ \E i \in DOMAIN inbox' : inbox'[i] = seg
  <2>1. UNCHANGED <<toCome, inbox, msg>>
    BY <1>7 DEF Scan, Due
  <2>2. CASE s.off = next
    <3>1. next' = next + s.cnt /\ held' = held \ {s}
      BY <1>7, <2>2 DEF Scan, Due
    <3> QED
      BY <2>1, <2>2, <3>1, <1>0
  <2>3. CASE s.off # next
    <3>1. UNCHANGED <<next, held>>
      BY <1>7, <2>3 DEF Scan, Due
    <3> QED
      BY <2>1, <3>1, <1>0
  <2> QED
    BY <2>2, <2>3
<1>8. CASE EndOfScan \/ RequestClose
  BY <1>8, <1>0 DEF EndOfScan, RequestClose
<1>9. CASE Exit
  <2>1. /\ inbox # <<>> /\ inbox' = Tail(inbox) /\ Head(inbox) = CloseMsg
        /\ UNCHANGED <<toCome, held, next, msg>>
    BY <1>9 DEF Exit
  <2> QED
    BY <2>1, <1>0, <1>2
<1>10. CASE Writer
  <2>1. CASE WriteSegment \/ CloseFile
    BY <2>1, <1>0 DEF WriteSegment, CloseFile, clientVars
  <2>2. CASE Answer
    <3>1. inbox' = Append(inbox, CloseMsg) /\ CloseMsg \in Messages
          /\ UNCHANGED <<toCome, held, next, msg>>
      BY <2>2 DEF Answer, clientVars, Messages
    <3> QED
      BY <3>1, <1>0, <1>1
  <2> QED
    BY <1>10, <2>1, <2>2 DEF Writer
<1>11. CASE UNCHANGED vars
  BY <1>11, <1>0 DEF vars
<1> QED
  BY <1>3, <1>4, <1>5, <1>6, <1>7, <1>8, <1>9, <1>10, <1>11 DEF Next, Client

\* What the workers have sent is never lost in the client, whatever the order
\* and the number of copies.
THEOREM NoSegmentIsDropped == Spec => []NothingDropped
<1>1. Init => NothingDropped
  BY StitcherAssumption DEF Init, NothingDropped
<1> QED
  BY <1>1, DroppedStep, Invariance, PTL DEF Spec

-----------------------------------------------------------------------------
(* The file is the one the client promises                                 *)

\* A run of segments ends where the last one ends.
LEMMA EndOfAppend ==
    ASSUME NEW segs \in Seq(Segments), NEW seg \in Segments
    PROVE  EndOf(Append(segs, seg)) = seg.off + seg.cnt
BY DEF EndOf

\* A step of the program is a step of the image file, or leaves it alone.
LEMMA FileStep ==
    ASSUME IInv, [Next]_vars
    PROVE  [File!Next]_<<EndOf(file), writer # "writing">>
<1> USE SegmentFacts DEF IInv, TypeOK
<1> SUFFICES ASSUME ~(UNCHANGED <<EndOf(file), writer # "writing">>)
             PROVE  File!Next
  OBVIOUS
<1>1. UNCHANGED <<file, writer>> => FALSE
  BY DEF EndOf
<1>2. CASE Client \/ Receivers \/ UNCHANGED vars
  BY <1>1, <1>2 DEF Client, Take, WriteInOrder, Hold, Scan, EndOfScan,
     RequestClose, Exit, Receivers, Arrive, vars
<1>3. CASE WriteSegment
  <2>1. /\ Head(outbox) \in Segments
        /\ Head(outbox).off = EndOf(file)
        /\ writer = "writing" /\ UNCHANGED writer
        /\ file' = Append(file, Head(outbox))
    BY <1>3, HeadFacts DEF WriteSegment, IsSegment
  <2>2. EndOf(file)' = Head(outbox).off + Head(outbox).cnt
    <3>1. PICK seg \in Segments : seg = Head(outbox)
      BY <2>1
    <3>2. EndOf(Append(file, seg)) = seg.off + seg.cnt
      BY EndOfAppend
    <3> QED
      BY <2>1, <3>1, <3>2 DEF EndOf
  <2>3. File!Write
    BY <2>1, <2>2 DEF File!Write
  <2> QED
    BY <2>3 DEF File!Next
<1>4. CASE CloseFile
  <2>1. /\ EndOf(file) = SceneSize /\ UNCHANGED file
        /\ writer = "writing" /\ writer' = "closed"
    BY <1>4, HeadFacts DEF CloseFile
  <2>2. File!Close
    BY <2>1 DEF File!Close, EndOf
  <2> QED
    BY <2>2 DEF File!Next
<1>5. CASE Answer
  BY <1>5 DEF Answer, EndOf
<1> QED
  BY <1>2, <1>3, <1>4, <1>5 DEF Next, Writer

\* The image file grows in order, without gaps and repetitions, and is closed
\* exactly when it is complete.
THEOREM Refinement == Spec => ImplementsImageFile
<1>1. Init => File!Init
  BY DEF Init, File!Init, EndOf
<1> QED
  BY <1>1, FileStep, Invariance, PTL DEF Spec, ImplementsImageFile, File!Spec
=============================================================================
