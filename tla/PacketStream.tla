------------------------------ MODULE PacketStream ------------------------------
(***************************************************************************)
(* How the packed messages of a connection travel: TCPIOSender sends the   *)
(* length of a message in four bytes and then its bytes, and TCPIOReceiver *)
(* puts together again what recv returns in pieces of any size.  A packet  *)
(* is what GetPackedBytes returns: at least the head of a message, and no  *)
(* more bytes than an int counts.  (After a length of zero the receiver    *)
(* would give the connection up.)  A connection that breaks is in          *)
(* MasterConnection.                                                       *)
(***************************************************************************)
EXTENDS Integers, Sequences, SequencesExt

CONSTANTS
  Directions,  \* the directions of all connections
  MaxInt       \* the largest int: four bytes, a bit of which is the sign

ASSUME IntAssumption == MaxInt \in Nat \ {0} /\ MaxInt \div 16777216 < 128

VARIABLES
  outbox,    \* m_SendQ of each direction: the bytes of its messages
  wire,      \* bytes sent and not received yet
  part,      \* bytes KeepReceiving has put together so far
  body,      \* whether it waits for a message (or for its length)
  expected,  \* the length it waits for
  received,  \* the bytes of the messages passed to ProcessReceivedMsg
  sent       \* history: the bytes of the messages given to SendMsg

ioVars == <<wire, part, body, expected, received>>
streamVars == <<outbox, ioVars, sent>>

Nothing == [d \in Directions |-> <<>>]

Bytes == 0..255
Packets == {p \in Seq(Bytes) : Len(p) \in 1..MaxInt}

-----------------------------------------------------------------------------
(* PacketLength: four bytes, the least significant one first               *)
PacketLengthWithEnd(n) == <<(n + 1) % 256, (n + 1) \div 256, 0, 0>>
PacketLength(n) ==
  <<n % 256, (n \div 256) % 256, (n \div 65536) % 256, n \div 16777216>>
Get(b) == b[4] * 16777216 + b[3] * 65536 + b[2] * 256 + b[1]

StreamInit ==
  /\ outbox = Nothing /\ wire = Nothing /\ part = Nothing
  /\ body = [d \in Directions |-> FALSE]
  /\ expected = [d \in Directions |-> 4]
  /\ received = Nothing /\ sent = Nothing

(* SendMsg puts messages into the queues of their senders                  *)
Enqueue(packets) ==
  /\ outbox' = [d \in Directions |-> outbox[d] \o packets[d]]
  /\ sent' = [d \in Directions |-> sent[d] \o packets[d]]
  /\ UNCHANGED ioVars

(* TCPIOSender::OnTCPSendMsg *)
SenderSends(d) ==
  /\ outbox[d] # <<>>
  /\ LET packet == Head(outbox[d])
     IN  wire' = [wire EXCEPT ![d] = @ \o PacketLength(Len(packet)) \o packet]
  /\ outbox' = [outbox EXCEPT ![d] = Tail(@)]
  /\ UNCHANGED <<part, body, expected, received, sent>>

(* What recv could return at most                                          *)
ReadyForAll(d) == IF Len(wire[d]) < expected[d] THEN Len(wire[d]) ELSE expected[d]
Ready(d) ==
  LET missing == expected[d] - Len(part[d])
  IN  IF Len(wire[d]) < missing THEN Len(wire[d]) ELSE missing

(* One recv of TCPIOReceiver::KeepReceiving, which returns k bytes, and,   *)
(* when none is missing any more, the step of the loop in Run: the length  *)
(* is followed by the message, which is passed on.                         *)
Receive(d, k) ==
  LET now  == part[d] \o SubSeq(wire[d], 1, k)
      full == Len(now) = expected[d]
  IN  /\ k \in 1..Ready(d)
      /\ wire' = [wire EXCEPT ![d] = SubSeq(@, k + 1, Len(@))]
      /\ part' = [part EXCEPT ![d] = IF full THEN <<>> ELSE now]
      /\ body' = [body EXCEPT ![d] = (full /= @)]
      /\ expected' = [expected EXCEPT ![d] =
                        CASE full /\ ~body[d] -> Get(now)
                          [] full /\ body[d]  -> 4
                          [] OTHER            -> @]
      /\ received' = [received EXCEPT ![d] =
                        IF full /\ body[d] THEN Append(@, now) ELSE @]
      /\ UNCHANGED <<outbox, sent>>

StreamNext ==
  \/ \E packets \in [Directions -> Seq(Packets)] : Enqueue(packets)
  \/ \E d \in Directions : SenderSends(d) \/ \E k \in 1..Ready(d) : Receive(d, k)

StreamSpec == StreamInit /\ [][StreamNext]_streamVars

-----------------------------------------------------------------------------
(* However the bytes are cut into pieces, what the receiver has passed on  *)
(* is what was given to SendMsg, message for message and in that order,    *)
(* and when the sender's queue and the wire are empty it is all of it: the *)
(* receiver never waits for bytes that are not part of a message, and      *)
(* holds none back.  (TCPIOSender::OnTCPSendMsg, TCPIOReceiver::Run,       *)
(* KeepReceiving and PacketLength)                                         *)
PacketsArrive ==
  \A d \in Directions :
    /\ IsPrefix(received[d], sent[d])
    /\ outbox[d] = <<>> /\ wire[d] = <<>> => received[d] = sent[d]
=============================================================================
