--------------------------- MODULE PacketStreamProofs ---------------------------
(***************************************************************************)
(* Proofs about PacketStream, for any directions, any packets and any way  *)
(* in which recv cuts the bytes into pieces: every receiver passes on what *)
(* was given to SendMsg, in that order, and at last all of it.             *)
(***************************************************************************)
EXTENDS PacketStream, TLAPS, SequenceTheorems

\* The types of the variables.
StreamTypeOK ==
    /\ outbox \in [Directions -> Seq(Packets)]
    /\ wire \in [Directions -> Seq(Bytes)]
    /\ part \in [Directions -> Seq(Bytes)]
    /\ body \in [Directions -> BOOLEAN]
    /\ expected \in [Directions -> Nat \ {0}]
    /\ received \in [Directions -> Seq(Packets)]
    /\ sent \in [Directions -> Seq(Packets)]

\* What the receiver of a direction has not passed on yet.
Rest(d) == part[d] \o wire[d]

\* How many packets were put on the wire.
Shipped(d) == Len(sent[d]) - Len(outbox[d])

\* The queue holds what was given to SendMsg last, and what was passed on came
\* first.
QueueInv(d) ==
    /\ Len(received[d]) <= Shipped(d)
    /\ \A i \in DOMAIN outbox[d] : outbox[d][i] = sent[d][Shipped(d) + i]
    /\ \A i \in DOMAIN received[d] : received[d][i] = sent[d][i]

\* What is sent of a packet.
Frame(packet) == PacketLength(Len(packet)) \o packet

\* The bytes behind the place are what is sent of the packet; a place below
\* zero is that of a packet whose length was taken away already.
Lies(bytes, packet, place) ==
    /\ place >= -4 /\ place + 4 + Len(packet) <= Len(bytes)
    /\ \A c \in 1 .. 4 + Len(packet) :
           place + c > 0 => bytes[place + c] = Frame(packet)[c]

\* The packets from first to last lie in the bytes, one behind the other.
Laid(bytes, packets, first, last, place) ==
    /\ place \in [first .. last + 1 -> Int]
    /\ place[last + 1] = Len(bytes)
    /\ \A i \in first .. last : /\ Lies(bytes, packets[i], place[i])
                                /\ place[i + 1] = place[i] + 4 + Len(packets[i])
    /\ \A i, j \in first .. last + 1 : i < j => place[i] + 4 < place[j]

Start(d) == IF body[d] THEN -4 ELSE 0

BytesInv(d) ==
    \E place :
        /\ Laid(Rest(d), sent[d], Len(received[d]) + 1, Shipped(d), place)
        /\ place[Len(received[d]) + 1] = Start(d)

\* The receiver waits for the rest of a length or of a packet.
WaitInv(d) ==
    /\ Len(part[d]) < expected[d]
    /\ ~body[d] => expected[d] = 4
    /\ body[d] => /\ Len(received[d]) < Shipped(d)
                  /\ expected[d] = Len(sent[d][Len(received[d]) + 1])

StreamInv ==
    /\ StreamTypeOK
    /\ \A d \in Directions : QueueInv(d) /\ BytesInv(d) /\ WaitInv(d)

-----------------------------------------------------------------------------
(* Lemmas about lengths and sequences                                      *)

\* What PacketLength writes, Get reads.
LEMMA LengthIsRead ==
    ASSUME NEW n \in 0 .. MaxInt
    PROVE  /\ PacketLength(n) \in Seq(Bytes) /\ Len(PacketLength(n)) = 4
           /\ Get(PacketLength(n)) = n
<1> DEFINE q == n \div 256
           u == q \div 256
           v == u \div 256
<1>1. n \in Nat /\ n <= MaxInt /\ MaxInt \in Nat
  BY IntAssumption, SMT
<1>2. q \in Nat /\ n = 256 * q + (n % 256) /\ n % 256 \in Bytes
  BY <1>1, SMT DEF Bytes
<1>3. u \in Nat /\ q = 256 * u + (q % 256) /\ q % 256 \in Bytes
  BY <1>2, SMT DEF Bytes
<1>4. v \in Nat /\ u = 256 * v + (u % 256) /\ u % 256 \in Bytes
  BY <1>3, SMT DEF Bytes
<1>5. n \div 65536 = u /\ n \div 16777216 = v
  BY <1>1, SMT
<1>6. v < 128
  BY <1>1, <1>5, IntAssumption, SMT
<1> HIDE DEF q, u, v
<1>7. PacketLength(n) = <<n % 256, q % 256, u % 256, v>>
  BY <1>5, SMT DEF PacketLength, q
<1>8. Get(PacketLength(n)) = v * 16777216 + (u % 256) * 65536 + (q % 256) * 256
                               + (n % 256)
  BY <1>7, SMT DEF Get
<1>9. Get(PacketLength(n)) = n
  BY <1>2, <1>3, <1>4, <1>8, SMT DEF Bytes
<1>10. v \in Bytes
  BY <1>4, <1>6, SMT DEF Bytes
<1> QED
  BY <1>2, <1>3, <1>4, <1>7, <1>9, <1>10, SMT

\* Taking bytes from one sequence to the end of another moves none of them.
LEMMA BytesMove ==
    ASSUME NEW a \in Seq(Bytes), NEW b \in Seq(Bytes), NEW k \in 0 .. Len(b)
    PROVE  (a \o SubSeq(b, 1, k)) \o SubSeq(b, k + 1, Len(b)) = a \o b
<1> DEFINE s == SubSeq(b, 1, k)
           t == SubSeq(b, k + 1, Len(b))
<1>1. s \in Seq(Bytes) /\ Len(s) = k /\ \A i \in 1 .. k : s[i] = b[i]
  OBVIOUS
<1>2. /\ t \in Seq(Bytes) /\ Len(t) = Len(b) - k
      /\ \A i \in 1 .. Len(b) - k : t[i] = b[k + i]
  OBVIOUS
<1> HIDE DEF s, t
<1>3. s \o t = b
  <2>1. s \o t \in Seq(Bytes) /\ Len(s \o t) = Len(b)
    BY <1>1, <1>2
  <2>2. ASSUME NEW i \in 1 .. Len(b) PROVE (s \o t)[i] = b[i]
    <3>1. CASE i <= k
      BY <1>1, <1>2, <3>1
    <3>2. CASE i > k
      <4>1. (s \o t)[i] = t[i - k]
        BY <1>1, <1>2, <3>2
      <4>2. i - k \in 1 .. Len(b) - k /\ k + (i - k) = i
        BY <3>2
      <4> QED
        BY <1>2, <4>1, <4>2
    <3>3. i \in Int /\ k \in Int
      OBVIOUS
    <3> QED
      BY <1>1, <1>2, <3>1, <3>2, <3>3
  <2> QED
    BY <2>1, <2>2, SeqEqual
<1>4. (a \o s) \o t = a \o (s \o t)
  BY <1>1, <1>2, ConcatAssociative
<1> QED
  BY <1>3, <1>4 DEF s, t

\* The two parts of a sequence, by their places.
LEMMA PartsOf ==
    ASSUME NEW a \in Seq(Bytes), NEW b \in Seq(Bytes)
    PROVE  /\ a \o b \in Seq(Bytes) /\ Len(a \o b) = Len(a) + Len(b)
           /\ \A i \in 1 .. Len(a) : (a \o b)[i] = a[i]
           /\ \A i \in 1 .. Len(b) : (a \o b)[Len(a) + i] = b[i]
  OBVIOUS

\* What is left of a sequence behind its first part.
LEMMA SecondPart ==
    ASSUME NEW a \in Seq(Bytes), NEW b \in Seq(Bytes)
    PROVE  SubSeq(a \o b, Len(a) + 1, Len(a \o b)) = b
<1> DEFINE s == a \o b
           t == SubSeq(s, Len(a) + 1, Len(s))
<1>1. /\ s \in Seq(Bytes) /\ Len(s) = Len(a) + Len(b) /\ Len(a) \in Nat /\ Len(b) \in Nat
      /\ \A i \in 1 .. Len(b) : s[Len(a) + i] = b[i]
  BY PartsOf
<1> HIDE DEF s
<1>2. /\ t \in Seq(Bytes) /\ Len(t) = Len(b)
      /\ \A i \in 1 .. Len(b) : t[i] = s[Len(a) + i]
  BY <1>1
<1> HIDE DEF t
<1>3. \A i \in 1 .. Len(t) : t[i] = b[i]
  BY <1>1, <1>2
<1>4. t = b
  BY <1>2, <1>3, SeqEqual
<1> QED
  BY <1>4 DEF s, t

\* The length of a packet and the packet, in what is sent of it.
LEMMA FrameFacts ==
    ASSUME NEW packet \in Packets
    PROVE  /\ packet \in Seq(Bytes) /\ Len(packet) \in 1 .. MaxInt /\ Len(packet) \in Nat \ {0}
           /\ Frame(packet) \in Seq(Bytes) /\ Len(Frame(packet)) = 4 + Len(packet)
           /\ \A c \in 1 .. 4 : Frame(packet)[c] = PacketLength(Len(packet))[c]
           /\ \A c \in 1 .. Len(packet) : Frame(packet)[4 + c] = packet[c]
<1> DEFINE head == PacketLength(Len(packet))
<1>1. packet \in Seq(Bytes) /\ Len(packet) \in 1 .. MaxInt /\ Len(packet) \in 0 .. MaxInt
      /\ Len(packet) \in Nat \ {0}
  BY IntAssumption DEF Packets
<1>2. head \in Seq(Bytes) /\ Len(head) = 4
  BY <1>1, LengthIsRead
<1>3. Frame(packet) = head \o packet
  BY DEF Frame
<1> HIDE DEF head
<1>4. /\ head \o packet \in Seq(Bytes) /\ Len(head \o packet) = Len(head) + Len(packet)
      /\ \A i \in 1 .. Len(head) : (head \o packet)[i] = head[i]
      /\ \A i \in 1 .. Len(packet) : (head \o packet)[Len(head) + i] = packet[i]
  BY <1>1, <1>2, PartsOf
<1> DEFINE frame == head \o packet
<1>5. Frame(packet) = frame
  BY <1>3
<1>6. /\ frame \in Seq(Bytes) /\ Len(frame) = 4 + Len(packet)
      /\ \A i \in 1 .. 4 : frame[i] = head[i]
      /\ \A i \in 1 .. Len(packet) : frame[4 + i] = packet[i]
  BY <1>1, <1>2, <1>4
<1> HIDE DEF frame
<1> QED
  BY <1>1, <1>5, <1>6 DEF head

\* A packet that is sent lies behind the others.
LEMMA PacketIsLaid ==
    ASSUME NEW bytes \in Seq(Bytes), NEW packets \in Seq(Packets),
           NEW first \in Nat \ {0}, NEW last \in Nat, first <= last + 1,
           last + 1 \in DOMAIN packets, NEW place, Laid(bytes, packets, first, last, place)
    PROVE  \E there : /\ Laid(bytes \o Frame(packets[last + 1]), packets, first, last + 1, there)
                      /\ there[first] = place[first]
<1> DEFINE p == packets[last + 1]
           all == bytes \o Frame(p)
           there == [i \in first .. last + 2 |->
                        IF i = last + 2 THEN Len(bytes) + 4 + Len(p) ELSE place[i]]
<1>1. /\ p \in Packets /\ DOMAIN packets = 1 .. Len(packets)
      /\ \A i \in DOMAIN packets : packets[i] \in Packets
  OBVIOUS
<1>2. /\ Frame(p) \in Seq(Bytes) /\ Len(Frame(p)) = 4 + Len(p)
      /\ Len(p) \in Nat \ {0} /\ Len(bytes) \in Nat
  <2> HIDE DEF p
  <2> QED
    BY <1>1, FrameFacts
<1>3. /\ all \in Seq(Bytes) /\ Len(all) = Len(bytes) + Len(Frame(p))
      /\ \A i \in 1 .. Len(bytes) : all[i] = bytes[i]
      /\ \A i \in 1 .. Len(Frame(p)) : all[Len(bytes) + i] = Frame(p)[i]
  <2> HIDE DEF p
  <2> QED
    BY <1>2, PartsOf
<1> HIDE DEF p, all
<1>4. /\ place \in [first .. last + 1 -> Int] /\ place[last + 1] = Len(bytes)
      /\ \A i \in first .. last : /\ Lies(bytes, packets[i], place[i])
                                  /\ place[i + 1] = place[i] + 4 + Len(packets[i])
      /\ \A i, j \in first .. last + 1 : i < j => place[i] + 4 < place[j]
  BY DEF Laid
<1>5. /\ there \in [first .. last + 2 -> Int] /\ there[last + 2] = Len(all)
      /\ \A i \in first .. last + 1 : there[i] = place[i]
  BY <1>2, <1>3, <1>4
<1>6. there[last + 1] = Len(bytes) /\ there[first] = place[first]
  BY <1>4, <1>5
<1> HIDE DEF there
<1>7. ASSUME NEW i \in first .. last + 1
      PROVE  /\ Lies(all, packets[i], there[i])
             /\ there[i + 1] = there[i] + 4 + Len(packets[i])
  <2>1. CASE i = last + 1
    <3>1. there[i] = Len(bytes) /\ there[i + 1] = Len(all) /\ packets[i] = p
      BY <1>5, <1>6, <2>1 DEF p
    <3>2. Lies(all, p, Len(bytes))
      BY <1>2, <1>3 DEF Lies
    <3> QED
      BY <1>2, <1>3, <3>1, <3>2
  <2>2. CASE i # last + 1
    <3>1. i \in first .. last /\ there[i] = place[i] /\ there[i + 1] = place[i + 1]
      BY <1>5, <2>2
    <3>2. Lies(bytes, packets[i], place[i]) /\ place[i + 1] = place[i] + 4 + Len(packets[i])
      BY <1>4, <3>1
    <3>3. place[i] \in Int /\ Len(packets[i]) \in Nat
      <4>1. i \in DOMAIN packets
        BY <1>1, <3>1
      <4>2. packets[i] \in Packets
        BY <1>1, <4>1
      <4> QED
        BY <1>4, <3>1, <4>2, FrameFacts
    <3>4. Lies(all, packets[i], place[i])
      <4> DEFINE q == packets[i]
                 z == place[i]
      <4>1. z \in Int /\ Len(q) \in Nat /\ Lies(bytes, q, z)
        BY <3>2, <3>3
      <4> HIDE DEF q, z
      <4>2. \A c \in 1 .. 4 + Len(q) : z + c > 0 => all[z + c] = bytes[z + c]
        <5>1. \A c \in 1 .. 4 + Len(q) : z + c > 0 => z + c \in 1 .. Len(bytes)
          BY <1>2, <4>1 DEF Lies
        <5> QED
          BY <1>3, <5>1
      <4>3. Lies(all, q, z)
        BY <1>2, <1>3, <4>1, <4>2 DEF Lies
      <4> QED
        BY <4>3 DEF q, z
    <3> QED
      BY <3>1, <3>2, <3>4
  <2> QED
    BY <2>1, <2>2
<1>8. ASSUME NEW i \in first .. last + 2, NEW j \in first .. last + 2, i < j
      PROVE  there[i] + 4 < there[j]
  <2>1. CASE j = last + 2
    <3>1. there[j] = Len(bytes) + 4 + Len(p)
      BY <1>2, <1>3, <1>5, <2>1
    <3>2. there[i] <= Len(bytes) /\ there[i] \in Int
      <4>1. i \in first .. last + 1 /\ last + 1 \in first .. last + 1 /\ there[i] = place[i]
        BY <1>5, <1>8, <2>1
      <4>2. i = last + 1 \/ i < last + 1
        BY <4>1
      <4>3. place[i] \in Int
        BY <1>4, <4>1
      <4> QED
        BY <1>2, <1>4, <4>1, <4>2, <4>3
    <3> QED
      BY <1>2, <3>1, <3>2
  <2>2. CASE j # last + 2
    BY <1>4, <1>5, <1>8, <2>2
  <2> QED
    BY <2>1, <2>2
<1>9. Laid(all, packets, first, last + 1, there)
  <2>1. (last + 1) + 1 = last + 2
    OBVIOUS
  <2> QED
    BY <1>5, <1>7, <1>8, <2>1 DEF Laid
<1> QED
  BY <1>6, <1>9 DEF all, p

\* When bytes are taken away from the front, the packets lie so much further in
\* front.
LEMMA PacketsStayLaid ==
    ASSUME NEW bytes \in Seq(Bytes), NEW packets \in Seq(Packets),
           NEW first \in Nat \ {0}, NEW last \in Nat, NEW place,
           Laid(bytes, packets, first, last, place),
           last \in 0 .. Len(packets),
           NEW n \in 0 .. Len(bytes), NEW next \in {first, first + 1}, next <= last + 1,
           place[next] - n = 0 \/ (next <= last /\ place[next] - n = -4)
    PROVE  \E there : /\ Laid(SubSeq(bytes, n + 1, Len(bytes)), packets, next, last, there)
                      /\ there[next] = place[next] - n
<1> DEFINE left == SubSeq(bytes, n + 1, Len(bytes))
           there == [i \in next .. last + 1 |-> place[i] - n]
<1>0. /\ next \in Nat \ {0} /\ next \in next .. last + 1 /\ last + 1 \in next .. last + 1
      /\ \A i \in next .. last : /\ i \in first .. last /\ i \in 1 .. Len(packets)
                                 /\ i \in next .. last + 1 /\ i + 1 \in next .. last + 1
      /\ \A i \in next .. last + 1 : i \in first .. last + 1
  OBVIOUS
<1>1. /\ left \in Seq(Bytes) /\ Len(left) = Len(bytes) - n /\ Len(bytes) \in Nat
      /\ \A i \in 1 .. Len(bytes) - n : left[i] = bytes[n + i]
  OBVIOUS
<1> HIDE DEF left
<1>2. /\ place \in [first .. last + 1 -> Int] /\ place[last + 1] = Len(bytes)
      /\ \A i \in first .. last : /\ Lies(bytes, packets[i], place[i])
                                  /\ place[i + 1] = place[i] + 4 + Len(packets[i])
      /\ \A i, j \in first .. last + 1 : i < j => place[i] + 4 < place[j]
  BY DEF Laid
<1>3. /\ there \in [next .. last + 1 -> Int]
      /\ \A i \in next .. last + 1 : there[i] = place[i] - n /\ place[i] \in Int
  BY <1>2
<1>4. there[next] = place[next] - n /\ there[last + 1] = Len(left)
  BY <1>0, <1>1, <1>2, <1>3
<1> HIDE DEF there
<1>5. ASSUME NEW i \in next .. last
      PROVE  Lies(left, packets[i], there[i]) /\ there[i + 1] = there[i] + 4 + Len(packets[i])
  <2> DEFINE q == packets[i]
             z == place[i]
  <2>1. q \in Packets
    BY <1>0
  <2>2. z \in Int /\ Len(q) \in Nat \ {0} /\ there[i] = z - n
    <3> HIDE DEF q
    <3> QED
      BY <1>0, <1>3, <2>1, FrameFacts
  <2>3. Lies(bytes, q, z) /\ place[i + 1] = z + 4 + Len(q) /\ there[i + 1] = place[i + 1] - n
    BY <1>0, <1>2, <1>3
  <2>4. z - n >= -4
    <3>1. i = next \/ next < i
      OBVIOUS
    <3>2. next < i => place[next] + 4 < z
      BY <1>2
    <3>3. place[next] \in Int
      BY <1>3
    <3> QED
      BY <2>2, <3>1, <3>2, <3>3
  <2> HIDE DEF q, z
  <2>5. \A c \in 1 .. 4 + Len(q) : z - n + c > 0 => left[z - n + c] = bytes[z + c]
    <3>1. \A c \in 1 .. 4 + Len(q) :
              z - n + c > 0 => z - n + c \in 1 .. Len(bytes) - n /\ n + (z - n + c) = z + c
      BY <1>1, <2>2, <2>3 DEF Lies
    <3> QED
      BY <1>1, <3>1
  <2>6. Lies(left, q, z - n)
    BY <1>1, <2>2, <2>3, <2>4, <2>5 DEF Lies
  <2> QED
    BY <2>2, <2>3, <2>6 DEF q
<1>6. ASSUME NEW i \in next .. last + 1, NEW j \in next .. last + 1, i < j
      PROVE  there[i] + 4 < there[j]
  <2>1. place[i] + 4 < place[j]
    BY <1>0, <1>2, <1>6
  <2>2. there[i] = place[i] - n /\ there[j] = place[j] - n
    BY <1>3
  <2>3. place[i] \in Int /\ place[j] \in Int /\ n \in Int
    BY <1>1, <1>3
  <2> QED
    BY <2>1, <2>2, <2>3
<1>7. Laid(left, packets, next, last, there)
  BY <1>3, <1>4, <1>5, <1>6 DEF Laid
<1> QED
  BY <1>4, <1>7 DEF left

\* The place of a packet is in the bytes, and those behind it are its own.
LEMMA FirstIsRead ==
    ASSUME NEW bytes \in Seq(Bytes), NEW packets \in Seq(Packets),
           NEW first \in Nat \ {0}, NEW last \in Nat, first <= last, last <= Len(packets),
           NEW place, Laid(bytes, packets, first, last, place)
    PROVE  /\ place[first] = 0 =>
                  \A c \in 1 .. 4 : bytes[c] = PacketLength(Len(packets[first]))[c]
           /\ place[first] = -4 =>
                  \A c \in 1 .. Len(packets[first]) : bytes[c] = packets[first][c]
           /\ place[first] + 4 + Len(packets[first]) <= Len(bytes)
           /\ place[first + 1] = place[first] + 4 + Len(packets[first])
           /\ first = last => place[first + 1] = Len(bytes)
<1> DEFINE q == packets[first]
<1>1. q \in Packets
  OBVIOUS
<1>2. Lies(bytes, q, place[first]) /\ place[first + 1] = place[first] + 4 + Len(q)
      /\ place[last + 1] = Len(bytes)
  BY DEF Laid
<1> HIDE DEF q
<1>3. /\ Len(q) \in Nat \ {0}
      /\ \A c \in 1 .. 4 : Frame(q)[c] = PacketLength(Len(q))[c]
      /\ \A c \in 1 .. Len(q) : Frame(q)[4 + c] = q[c]
  BY <1>1, FrameFacts
<1>4. place[first] = 0 => \A c \in 1 .. 4 : bytes[c] = PacketLength(Len(q))[c]
  <2> SUFFICES ASSUME place[first] = 0, NEW c \in 1 .. 4
               PROVE  bytes[c] = PacketLength(Len(q))[c]
    OBVIOUS
  <2>1. c \in 1 .. 4 + Len(q) /\ 0 + c = c /\ c > 0
    BY <1>3
  <2>2. bytes[0 + c] = Frame(q)[c]
    BY <1>2, <2>1 DEF Lies
  <2> QED
    BY <1>3, <2>1, <2>2
<1>5. place[first] = -4 => \A c \in 1 .. Len(q) : bytes[c] = q[c]
  <2> SUFFICES ASSUME place[first] = -4, NEW c \in 1 .. Len(q)
               PROVE  bytes[c] = q[c]
    OBVIOUS
  <2>1. 4 + c \in 1 .. 4 + Len(q) /\ -4 + (4 + c) = c /\ c > 0
    BY <1>3
  <2>2. bytes[-4 + (4 + c)] = Frame(q)[4 + c]
    BY <1>2, <2>1 DEF Lies
  <2> QED
    BY <1>3, <2>1, <2>2
<1> QED
  BY <1>2, <1>4, <1>5 DEF q, Lies

-----------------------------------------------------------------------------
(* The steps                                                               *)

\* What the invariant says of the direction d, piece by piece.
LEMMA DirectionFacts ==
    ASSUME StreamInv, NEW d \in Directions
    PROVE  /\ outbox[d] \in Seq(Packets) /\ sent[d] \in Seq(Packets)
           /\ received[d] \in Seq(Packets)
           /\ wire[d] \in Seq(Bytes) /\ part[d] \in Seq(Bytes) /\ Rest(d) \in Seq(Bytes)
           /\ body[d] \in BOOLEAN /\ expected[d] \in Nat \ {0}
           /\ Len(received[d]) \in Nat /\ Len(outbox[d]) \in Nat /\ Len(sent[d]) \in Nat
           /\ Shipped(d) \in Nat /\ Shipped(d) + Len(outbox[d]) = Len(sent[d])
           /\ QueueInv(d) /\ BytesInv(d) /\ WaitInv(d)
<1>1. /\ outbox[d] \in Seq(Packets) /\ sent[d] \in Seq(Packets)
      /\ received[d] \in Seq(Packets)
      /\ wire[d] \in Seq(Bytes) /\ part[d] \in Seq(Bytes)
      /\ body[d] \in BOOLEAN /\ expected[d] \in Nat \ {0}
  BY DEF StreamInv, StreamTypeOK
<1>2. QueueInv(d) /\ BytesInv(d) /\ WaitInv(d)
  BY DEF StreamInv
<1>3. Len(received[d]) \in Nat /\ Len(outbox[d]) \in Nat /\ Len(sent[d]) \in Nat
  BY <1>1
<1>4. Shipped(d) \in Nat /\ Shipped(d) + Len(outbox[d]) = Len(sent[d])
  <2>1. Len(received[d]) <= Len(sent[d]) - Len(outbox[d])
    BY <1>2 DEF QueueInv, Shipped
  <2>2. Shipped(d) = Len(sent[d]) - Len(outbox[d])
    BY DEF Shipped
  <2>3. PICK a, b, c \in Nat : a = Len(sent[d]) /\ b = Len(outbox[d]) /\ c = Len(received[d])
    BY <1>1
  <2>4. c <= a - b /\ Shipped(d) = a - b
    BY <2>1, <2>2, <2>3
  <2>5. a - b \in Nat /\ (a - b) + b = a
    BY <2>4
  <2> QED
    BY <2>3, <2>4, <2>5
<1>5. Rest(d) \in Seq(Bytes)
  BY <1>1 DEF Rest
<1> QED
  BY <1>1, <1>2, <1>3, <1>4, <1>5

\* At first nothing was sent.
LEMMA InitInv == StreamInit => StreamInv
<1> SUFFICES ASSUME StreamInit PROVE StreamInv
  OBVIOUS
<1>1. StreamTypeOK
  BY DEF StreamInit, StreamTypeOK, Nothing
<1>2. ASSUME NEW d \in Directions PROVE QueueInv(d) /\ BytesInv(d) /\ WaitInv(d)
  <2>1. /\ outbox[d] = <<>> /\ wire[d] = <<>> /\ part[d] = <<>> /\ body[d] = FALSE
        /\ expected[d] = 4 /\ received[d] = <<>> /\ sent[d] = <<>>
    BY DEF StreamInit, Nothing
  <2>2. Shipped(d) = 0 /\ Rest(d) = <<>> /\ Start(d) = 0
    BY <2>1 DEF Shipped, Rest, Start
  <2>3. QueueInv(d)
    BY <2>1, <2>2 DEF QueueInv
  <2>4. WaitInv(d)
    BY <2>1 DEF WaitInv
  <2>5. BytesInv(d)
    <3> DEFINE place == [i \in 1 .. 1 |-> 0]
    <3>1. place \in [1 .. 0 + 1 -> Int] /\ place[0 + 1] = 0 /\ place[1] = 0
      OBVIOUS
    <3> HIDE DEF place
    <3>2. Laid(<<>>, <<>>, 1, 0, place)
      BY <3>1 DEF Laid
    <3> QED
      BY <2>1, <2>2, <3>1, <3>2 DEF BytesInv
  <2> QED
    BY <2>3, <2>4, <2>5
<1> QED
  BY <1>1, <1>2 DEF StreamInv

\* What is given to SendMsg changes nothing of what was sent before.
LEMMA EnqueueStep ==
    ASSUME StreamInv, NEW packets \in [Directions -> Seq(Packets)], Enqueue(packets)
    PROVE  StreamInv'
<1>1. /\ outbox' \in [Directions -> Seq(Packets)] /\ sent' \in [Directions -> Seq(Packets)]
      /\ wire' = wire /\ part' = part /\ body' = body /\ expected' = expected
      /\ received' = received
  BY DEF Enqueue, ioVars, StreamInv, StreamTypeOK
<1>2. StreamTypeOK'
  BY <1>1 DEF StreamInv, StreamTypeOK
<1>3. ASSUME NEW d \in Directions PROVE (QueueInv(d) /\ BytesInv(d) /\ WaitInv(d))'
  <2>1. outbox'[d] = outbox[d] \o packets[d] /\ sent'[d] = sent[d] \o packets[d]
        /\ packets[d] \in Seq(Packets)
    BY DEF Enqueue
  <2>2. /\ Len(outbox'[d]) = Len(outbox[d]) + Len(packets[d])
        /\ Len(sent'[d]) = Len(sent[d]) + Len(packets[d]) /\ Len(packets[d]) \in Nat
        /\ \A i \in 1 .. Len(outbox[d]) : outbox'[d][i] = outbox[d][i]
        /\ \A i \in 1 .. Len(packets[d]) : outbox'[d][Len(outbox[d]) + i] = packets[d][i]
        /\ \A i \in 1 .. Len(sent[d]) : sent'[d][i] = sent[d][i]
        /\ \A i \in 1 .. Len(packets[d]) : sent'[d][Len(sent[d]) + i] = packets[d][i]
    BY <2>1, DirectionFacts
  <2>3. Shipped(d)' = Shipped(d)
    BY <2>2, DirectionFacts DEF Shipped
  <2>4. /\ Shipped(d) \in Nat /\ Shipped(d) + Len(outbox[d]) = Len(sent[d])
        /\ Len(outbox[d]) \in Nat /\ Len(sent[d]) \in Nat /\ Len(received[d]) \in Nat
        /\ Len(received[d]) <= Shipped(d)
    BY DirectionFacts DEF QueueInv
  <2>5. Len(received[d]) <= Shipped(d) /\ Shipped(d) <= Len(sent[d])
    BY <2>4
  <2>6. QueueInv(d)'
    <3>1. ASSUME NEW i \in DOMAIN outbox'[d] PROVE outbox'[d][i] = sent'[d][Shipped(d) + i]
      <4>1. i \in 1 .. Len(outbox[d]) + Len(packets[d])
        BY <1>1, <2>2
      <4>2. CASE i <= Len(outbox[d])
        <5>1. i \in 1 .. Len(outbox[d]) /\ i \in DOMAIN outbox[d]
          BY <4>1, <4>2, DirectionFacts
        <5>2. Shipped(d) + i \in 1 .. Len(sent[d])
          BY <5>1, DirectionFacts
        <5>3. outbox[d][i] = sent[d][Shipped(d) + i]
          BY <5>1, DirectionFacts DEF QueueInv
        <5> QED
          BY <2>2, <5>1, <5>2, <5>3
      <4>3. CASE i > Len(outbox[d])
        <5> DEFINE k == i - Len(outbox[d])
        <5>1. /\ k \in 1 .. Len(packets[d]) /\ i = Len(outbox[d]) + k
              /\ Shipped(d) + i = Len(sent[d]) + k
          <6>1. i \in Int /\ Len(outbox[d]) \in Int /\ i - Len(outbox[d]) >= 1
                /\ i - Len(outbox[d]) <= Len(packets[d])
            BY <2>4, <2>1, <2>2, <4>1, <4>3, DirectionFacts
          <6>2. k \in 1 .. Len(packets[d]) /\ i = Len(outbox[d]) + k
            BY <2>2, <6>1
          <6>3. PICK a, b, c \in Nat : a = Len(sent[d]) /\ b = Len(outbox[d]) /\ c = Shipped(d)
            BY <2>4
          <6>4. c + b = a /\ i = b + k /\ k \in Int
            BY <2>4, <2>2, <6>2, <6>3
          <6> HIDE DEF k
          <6>5. c + (b + k) = (c + b) + k
            BY <6>4
          <6>6. c + i = a + k
            BY <6>4, <6>5
          <6> QED
            BY <6>2, <6>3, <6>6
        <5> HIDE DEF k
        <5> QED
          BY <2>2, <5>1
      <4> QED
        BY <4>1, <4>2, <4>3, DirectionFacts
    <3>2. ASSUME NEW i \in DOMAIN received[d] PROVE received[d][i] = sent'[d][i]
      <4>1. i \in 1 .. Len(sent[d])
        BY <2>5, DirectionFacts
      <4> QED
        BY <2>2, <4>1, DirectionFacts DEF QueueInv
    <3> QED
      BY <1>1, <2>3, <2>5, <3>1, <3>2 DEF QueueInv
  <2>7. BytesInv(d)'
    <3>1. PICK place : /\ Laid(Rest(d), sent[d], Len(received[d]) + 1, Shipped(d), place)
                       /\ place[Len(received[d]) + 1] = Start(d)
      BY DirectionFacts DEF BytesInv
    <3>2. \A i \in Len(received[d]) + 1 .. Shipped(d) : sent'[d][i] = sent[d][i]
      BY <2>2, <2>5, DirectionFacts
    <3>3. Laid(Rest(d), sent'[d], Len(received[d]) + 1, Shipped(d), place)
      BY <3>1, <3>2 DEF Laid
    <3>4. Rest(d)' = Rest(d) /\ Start(d)' = Start(d)
      BY <1>1 DEF Rest, Start
    <3> QED
      BY <1>1, <2>3, <3>1, <3>3, <3>4 DEF BytesInv
  <2>8. WaitInv(d)'
    <3>1. body[d] => Len(received[d]) + 1 \in 1 .. Len(sent[d])
      BY <2>5, DirectionFacts DEF WaitInv
    <3> QED
      BY <1>1, <2>2, <2>3, <3>1, DirectionFacts DEF WaitInv
  <2> QED
    BY <2>6, <2>7, <2>8
<1> QED
  BY <1>2, <1>3 DEF StreamInv

\* A direction of which nothing changes keeps its invariant.
LEMMA DirectionStays ==
    ASSUME StreamInv, NEW d \in Directions,
           outbox'[d] = outbox[d], wire'[d] = wire[d], part'[d] = part[d],
           body'[d] = body[d], expected'[d] = expected[d],
           received'[d] = received[d], sent'[d] = sent[d]
    PROVE  (QueueInv(d) /\ BytesInv(d) /\ WaitInv(d))'
<1>1. Shipped(d)' = Shipped(d) /\ Rest(d)' = Rest(d) /\ Start(d)' = Start(d)
  BY DEF Shipped, Rest, Start
<1>2. QueueInv(d)'
  BY <1>1, DirectionFacts DEF QueueInv
<1>3. BytesInv(d)'
  BY <1>1, DirectionFacts DEF BytesInv
<1>4. WaitInv(d)'
  BY <1>1, DirectionFacts DEF WaitInv
<1> QED
  BY <1>2, <1>3, <1>4

\* The sender puts the next packet behind the bytes that are under way.
LEMMA SendStep ==
    ASSUME StreamInv, NEW d \in Directions, SenderSends(d)
    PROVE  StreamInv'
<1> DEFINE p == Head(outbox[d])
           last == Shipped(d)
           first == Len(received[d]) + 1
<1>1. /\ outbox[d] # <<>>
      /\ wire' = [wire EXCEPT ![d] = (@ \o PacketLength(Len(p))) \o p]
      /\ outbox' = [outbox EXCEPT ![d] = Tail(@)]
      /\ part' = part /\ body' = body /\ expected' = expected
      /\ received' = received /\ sent' = sent
  BY DEF SenderSends
<1>2. /\ outbox[d] \in Seq(Packets) /\ sent[d] \in Seq(Packets) /\ received[d] \in Seq(Packets)
      /\ wire[d] \in Seq(Bytes) /\ part[d] \in Seq(Bytes) /\ Rest(d) \in Seq(Bytes)
      /\ last \in Nat /\ first \in Nat \ {0} /\ first <= last + 1
      /\ last + Len(outbox[d]) = Len(sent[d])
  BY DirectionFacts DEF QueueInv
<1>3. /\ p = outbox[d][1] /\ 1 \in DOMAIN outbox[d] /\ Len(outbox[d]) \in Nat \ {0}
      /\ Tail(outbox[d]) \in Seq(Packets) /\ Len(Tail(outbox[d])) = Len(outbox[d]) - 1
      /\ \A i \in 1 .. Len(outbox[d]) - 1 : Tail(outbox[d])[i] = outbox[d][i + 1]
  BY <1>1, <1>2
<1>4. p = sent[d][last + 1] /\ p \in Packets /\ last + 1 \in DOMAIN sent[d]
  <2>1. p = sent[d][last + 1]
    BY <1>3, DirectionFacts DEF QueueInv
  <2>2. last + 1 \in 1 .. Len(sent[d])
    BY <1>2, <1>3
  <2> QED
    BY <1>2, <1>3, <2>1, <2>2
<1>5. PacketLength(Len(p)) \in Seq(Bytes) /\ p \in Seq(Bytes)
  <2>1. Len(p) \in 0 .. MaxInt /\ p \in Seq(Bytes)
    BY <1>4, FrameFacts
  <2> QED
    BY <2>1, LengthIsRead
<1> HIDE DEF p
<1>6. wire'[d] = (wire[d] \o PacketLength(Len(p))) \o p /\ outbox'[d] = Tail(outbox[d])
  BY <1>1 DEF StreamInv, StreamTypeOK
<1>7. wire'[d] \in Seq(Bytes) /\ Rest(d)' = Rest(d) \o Frame(p)
  <2> DEFINE w == wire[d]
             a == part[d]
             n == PacketLength(Len(p))
             f == Frame(p)
  <2>1. /\ w \in Seq(Bytes) /\ a \in Seq(Bytes) /\ n \in Seq(Bytes) /\ p \in Seq(Bytes)
        /\ f = n \o p /\ wire'[d] = (w \o n) \o p /\ Rest(d) = a \o w
    BY <1>2, <1>5, <1>6 DEF Frame, Rest
  <2>2. Rest(d)' = a \o wire'[d]
    BY <1>1 DEF Rest
  <2> HIDE DEF w, a, n, f
  <2>3. f \in Seq(Bytes) /\ wire'[d] = w \o f
    BY <2>1, ConcatAssociative
  <2>4. (a \o w) \o f = a \o (w \o f)
    <3>1. a \in Seq(Bytes) /\ w \in Seq(Bytes) /\ f \in Seq(Bytes)
      BY <2>1, <2>3
    <3> QED
      BY <3>1, ConcatAssociative
  <2>5. w \o f \in Seq(Bytes)
    BY <2>1, <2>3
  <2> QED
    BY <2>1, <2>2, <2>3, <2>4, <2>5 DEF f
<1>8. StreamTypeOK'
  <2>1. wire' \in [Directions -> Seq(Bytes)]
    BY <1>1, <1>6, <1>7 DEF StreamInv, StreamTypeOK
  <2>2. outbox' \in [Directions -> Seq(Packets)]
    BY <1>1, <1>3 DEF StreamInv, StreamTypeOK
  <2> QED
    BY <1>1, <2>1, <2>2 DEF StreamInv, StreamTypeOK
<1>9. Shipped(d)' = last + 1
  <2>1. Shipped(d)' = Len(sent[d]) - (Len(outbox[d]) - 1)
    BY <1>1, <1>3, <1>6 DEF Shipped
  <2> DEFINE a == Len(sent[d])
             b == Len(outbox[d])
  <2>2. a \in Nat /\ b \in Nat /\ last \in Nat /\ last + b = a
    BY <1>2, <1>3
  <2> HIDE DEF last, a, b
  <2>3. a - (b - 1) = last + 1
    BY <2>2
  <2> QED
    BY <2>1, <2>3 DEF a, b
<1>10. QueueInv(d)'
  <2>1. ASSUME NEW i \in DOMAIN Tail(outbox[d])
        PROVE  Tail(outbox[d])[i] = sent[d][last + 1 + i]
    <3>1. i \in 1 .. Len(outbox[d]) - 1 /\ i + 1 \in DOMAIN outbox[d]
      BY <1>2, <1>3
    <3>2. outbox[d][i + 1] = sent[d][last + (i + 1)]
      BY <3>1, DirectionFacts DEF QueueInv
    <3>3. last + (i + 1) = last + 1 + i
      BY <1>2, <3>1
    <3> QED
      BY <1>3, <3>1, <3>2, <3>3
  <2>2. Len(received[d]) <= last + 1
    BY <1>2, DirectionFacts DEF QueueInv
  <2> QED
    BY <1>1, <1>6, <1>9, <2>1, <2>2, DirectionFacts DEF QueueInv
<1>11. BytesInv(d)'
  <2>1. PICK place : Laid(Rest(d), sent[d], first, last, place) /\ place[first] = Start(d)
    BY DirectionFacts DEF BytesInv
  <2> HIDE DEF first, last
  <2>2. PICK there : /\ Laid(Rest(d) \o Frame(p), sent[d], first, last + 1, there)
                     /\ there[first] = place[first]
    <3> DEFINE bytes == Rest(d)
               packets == sent[d]
    <3>1. /\ bytes \in Seq(Bytes) /\ packets \in Seq(Packets) /\ first \in Nat \ {0}
          /\ last \in Nat /\ first <= last + 1 /\ last + 1 \in DOMAIN packets
          /\ Laid(bytes, packets, first, last, place)
      BY <1>2, <1>4, <2>1
    <3> HIDE DEF bytes, packets
    <3>2. \E there : /\ Laid(bytes \o Frame(packets[last + 1]), packets, first, last + 1, there)
                     /\ there[first] = place[first]
      BY <3>1, PacketIsLaid
    <3> QED
      BY <1>4, <3>2 DEF bytes, packets
  <2>3. Start(d)' = Start(d) /\ sent'[d] = sent[d] /\ (Len(received[d]) + 1)' = first
    BY <1>1 DEF Start, first
  <2> QED
    BY <1>7, <1>9, <2>1, <2>2, <2>3 DEF BytesInv
<1>12. WaitInv(d)'
  BY <1>1, <1>2, <1>9, DirectionFacts DEF WaitInv
<1>13. ASSUME NEW e \in Directions, e # d
       PROVE  (QueueInv(e) /\ BytesInv(e) /\ WaitInv(e))'
  <2>1. wire'[e] = wire[e] /\ outbox'[e] = outbox[e]
    BY <1>1, <1>13 DEF StreamInv, StreamTypeOK
  <2> QED
    BY <1>1, <2>1, DirectionStays
<1> QED
  BY <1>8, <1>10, <1>11, <1>12, <1>13 DEF StreamInv

\* What the receiver has put together is the beginning of what is under way.
LEMMA ReceiveFacts ==
    ASSUME StreamInv, NEW d \in Directions, NEW k, Receive(d, k),
           NEW now, now = part[d] \o SubSeq(wire[d], 1, k)
    PROVE  /\ now \in Seq(Bytes) /\ Len(now) \in Nat /\ Len(now) <= expected[d]
           /\ wire'[d] \in Seq(Bytes) /\ wire' \in [Directions -> Seq(Bytes)]
           /\ Rest(d) = now \o wire'[d]
           /\ Len(Rest(d)) = Len(now) + Len(wire'[d])
           /\ \A i \in 1 .. Len(now) : Rest(d)[i] = now[i]
           /\ SubSeq(Rest(d), Len(now) + 1, Len(Rest(d))) = wire'[d]
<1> DEFINE w == wire[d]
           a == part[d]
           left == SubSeq(w, k + 1, Len(w))
<1>1. w \in Seq(Bytes) /\ a \in Seq(Bytes) /\ expected[d] \in Nat /\ Len(a) < expected[d]
  BY DirectionFacts DEF WaitInv
<1>2. k \in 1 .. Ready(d)
  BY DEF Receive
<1>3. k \in 0 .. Len(w) /\ Len(a) + k <= expected[d]
  BY <1>1, <1>2 DEF Ready
<1>4. wire' = [wire EXCEPT ![d] = left] /\ wire'[d] = left
  BY DEF Receive, StreamInv, StreamTypeOK
<1>5. left \in Seq(Bytes) /\ SubSeq(w, 1, k) \in Seq(Bytes) /\ Len(SubSeq(w, 1, k)) = k
  BY <1>1, <1>3
<1>6. now = a \o SubSeq(w, 1, k) /\ Rest(d) = a \o w
  BY DEF Rest
<1> HIDE DEF w, a
<1>7. now \o left = Rest(d)
  BY <1>1, <1>3, <1>6, BytesMove
<1> HIDE DEF left
<1>8. now \in Seq(Bytes) /\ Len(now) = Len(a) + k /\ Len(now) \in Nat
  <2> DEFINE b == SubSeq(w, 1, k)
  <2>1. a \in Seq(Bytes) /\ b \in Seq(Bytes) /\ Len(b) = k /\ now = a \o b
    BY <1>1, <1>5, <1>6
  <2> HIDE DEF b
  <2>2. a \o b \in Seq(Bytes) /\ Len(a \o b) = Len(a) + Len(b)
    BY <2>1, PartsOf
  <2>3. Len(now) = Len(a) + k /\ now \in Seq(Bytes)
    BY <2>1, <2>2
  <2> QED
    BY <2>3
<1>9. /\ Len(now \o left) = Len(now) + Len(left)
      /\ \A i \in 1 .. Len(now) : (now \o left)[i] = now[i]
      /\ SubSeq(now \o left, Len(now) + 1, Len(now \o left)) = left
  BY <1>5, <1>8, PartsOf, SecondPart
<1>10. wire' \in [Directions -> Seq(Bytes)]
  BY <1>4, <1>5 DEF StreamInv, StreamTypeOK
<1> QED
  BY <1>3, <1>4, <1>5, <1>7, <1>8, <1>9, <1>10

\* The receiver waits for more bytes, has a length, or passes a packet on.
LEMMA ReceiveStep ==
    ASSUME StreamInv, NEW d \in Directions, NEW k, Receive(d, k)
    PROVE  StreamInv'
<1> DEFINE now == part[d] \o SubSeq(wire[d], 1, k)
           full == Len(now) = expected[d]
           last == Shipped(d)
           first == Len(received[d]) + 1
           q == sent[d][first]
<1>1. /\ part' = [part EXCEPT ![d] = IF full THEN <<>> ELSE now]
      /\ body' = [body EXCEPT ![d] = (full /= @)]
      /\ expected' = [expected EXCEPT ![d] = CASE full /\ ~body[d] -> Get(now)
                                               [] full /\ body[d]  -> 4
                                               [] OTHER            -> @]
      /\ received' = [received EXCEPT ![d] = IF full /\ body[d] THEN Append(@, now) ELSE @]
      /\ outbox' = outbox /\ sent' = sent
  BY DEF Receive
<1>2. /\ now \in Seq(Bytes) /\ Len(now) \in Nat /\ Len(now) <= expected[d]
      /\ wire'[d] \in Seq(Bytes) /\ wire' \in [Directions -> Seq(Bytes)]
      /\ Rest(d) = now \o wire'[d]
      /\ Len(Rest(d)) = Len(now) + Len(wire'[d])
      /\ \A i \in 1 .. Len(now) : Rest(d)[i] = now[i]
      /\ SubSeq(Rest(d), Len(now) + 1, Len(Rest(d))) = wire'[d]
  BY ReceiveFacts
<1> HIDE DEF now
<1>3. /\ part'[d] = (IF full THEN <<>> ELSE now)
      /\ body'[d] = (full /= body[d])
      /\ expected'[d] = (CASE full /\ ~body[d] -> Get(now)
                           [] full /\ body[d]  -> 4
                           [] OTHER            -> expected[d])
      /\ received'[d] = (IF full /\ body[d] THEN Append(received[d], now) ELSE received[d])
  BY <1>1 DEF StreamInv, StreamTypeOK
<1>4. /\ sent[d] \in Seq(Packets) /\ received[d] \in Seq(Packets) /\ Rest(d) \in Seq(Bytes)
      /\ last \in Nat /\ first \in Nat \ {0} /\ first <= last + 1 /\ last <= Len(sent[d])
      /\ body[d] \in BOOLEAN /\ expected[d] \in Nat \ {0} /\ part[d] \in Seq(Bytes)
  BY DirectionFacts DEF QueueInv
<1>5. PICK place : Laid(Rest(d), sent[d], first, last, place) /\ place[first] = Start(d)
  BY DirectionFacts DEF BytesInv
<1>6. Shipped(d)' = last
  BY <1>1 DEF Shipped
<1>7. first <= last => /\ q \in Packets /\ q \in Seq(Bytes)
                       /\ Len(q) \in 0 .. MaxInt /\ Len(q) \in Nat \ {0}
  <2> SUFFICES ASSUME first <= last PROVE q \in Packets
    BY FrameFacts
  <2> HIDE DEF first, last
  <2>1. first \in 1 .. Len(sent[d])
    BY <1>4
  <2> QED
    BY <1>4, <2>1
<1> DEFINE Kept == /\ part'[d] \in Seq(Bytes) /\ body'[d] \in BOOLEAN
                   /\ expected'[d] \in Nat \ {0} /\ received'[d] \in Seq(Packets)
                   /\ (QueueInv(d) /\ BytesInv(d) /\ WaitInv(d))'
<1> DEFINE bytes == Rest(d)
           packets == sent[d]
<1>8. /\ bytes \in Seq(Bytes) /\ packets \in Seq(Packets) /\ q = packets[first]
      /\ first \in Nat \ {0} /\ last \in 0 .. Len(packets) /\ last \in Nat
      /\ last <= Len(packets) /\ first <= last + 1
      /\ Laid(bytes, packets, first, last, place)
  BY <1>4, <1>5
<1> HIDE DEF first, last, q, bytes, packets
<1>9. first <= last =>
          /\ place[first] = 0 => \A c \in 1 .. 4 : bytes[c] = PacketLength(Len(q))[c]
          /\ place[first] = -4 => \A c \in 1 .. Len(q) : bytes[c] = q[c]
          /\ place[first + 1] = place[first] + 4 + Len(q)
  BY <1>8, FirstIsRead
<1>10. ASSUME NEW n \in 0 .. Len(bytes), NEW next \in {first, first + 1}, next <= last + 1,
              place[next] - n = 0 \/ (next <= last /\ place[next] - n = -4)
       PROVE  \E there : /\ Laid(SubSeq(bytes, n + 1, Len(bytes)), packets, next, last, there)
                         /\ there[next] = place[next] - n
  BY <1>8, <1>10, PacketsStayLaid
<1>11. ASSUME ~full PROVE Kept
  <2>1. /\ part'[d] = now /\ body'[d] = body[d] /\ expected'[d] = expected[d]
        /\ received'[d] = received[d]
    BY <1>3, <1>4, <1>11
  <2>2. Rest(d)' = Rest(d) /\ Start(d)' = Start(d)
    BY <1>2, <2>1 DEF Rest, Start
  <2>3. QueueInv(d)'
    BY <1>1, <1>6, <2>1, DirectionFacts DEF QueueInv, last
  <2>4. BytesInv(d)'
    BY <1>1, <1>5, <1>6, <2>1, <2>2 DEF BytesInv, first
  <2>5. WaitInv(d)'
    <3>1. Len(now) < expected[d]
      BY <1>2, <1>4, <1>11
    <3> QED
      BY <1>1, <1>6, <2>1, <3>1, DirectionFacts DEF WaitInv, last
  <2> QED
    BY <1>2, <1>4, <2>1, <2>3, <2>4, <2>5
<1>12. ASSUME full, ~body[d] PROVE Kept
  <2>1. /\ part'[d] = <<>> /\ body'[d] = TRUE /\ expected'[d] = Get(now)
        /\ received'[d] = received[d]
    BY <1>3, <1>12
  <2>2. expected[d] = 4 /\ Len(now) = 4 /\ Start(d) = 0 /\ Start(d)' = -4
    BY <1>12, <2>1, DirectionFacts DEF WaitInv, Start
  <2>3. first <= last
    <3> SUFFICES ASSUME first = last + 1 PROVE FALSE
      BY <1>4
    <3>1. place[first] = Len(Rest(d))
      BY <1>5 DEF Laid
    <3> QED
      BY <1>2, <1>5, <2>2, <3>1
  <2>4. \A c \in 1 .. 4 : Rest(d)[c] = PacketLength(Len(q))[c]
    BY <1>5, <1>9, <2>2, <2>3 DEF bytes
  <2>5. now = PacketLength(Len(q))
    <3>1. PacketLength(Len(q)) \in Seq(Bytes) /\ Len(PacketLength(Len(q))) = 4
      BY <1>7, <2>3, LengthIsRead
    <3>2. \A c \in 1 .. Len(now) : now[c] = PacketLength(Len(q))[c]
      BY <1>2, <2>2, <2>4
    <3> DEFINE head == PacketLength(Len(q))
    <3>3. head \in Seq(Bytes) /\ Len(now) = Len(head)
          /\ \A c \in 1 .. Len(now) : now[c] = head[c]
      BY <2>2, <3>1, <3>2
    <3> HIDE DEF head
    <3>4. now = head
      BY <1>2, <3>3, SeqEqual
    <3> QED
      BY <3>4 DEF head
  <2>6. Get(now) = Len(q) /\ Len(q) \in Nat \ {0}
    BY <1>7, <2>3, <2>5, LengthIsRead
  <2>7. Rest(d)' = SubSeq(Rest(d), 4 + 1, Len(Rest(d)))
    BY <1>2, <2>1, <2>2 DEF Rest
  <2>8. QueueInv(d)'
    <3>1. received'[d] = received[d]
      BY <2>1
    <3> QED
      BY <1>1, <1>6, <3>1, DirectionFacts DEF QueueInv, last
  <2>9. BytesInv(d)'
    <3>1. \E there : /\ Laid(SubSeq(Rest(d), 4 + 1, Len(Rest(d))), sent[d], first, last, there)
                     /\ there[first] = place[first] - 4
      <4> DEFINE n == 4
      <4>1. /\ n \in 0 .. Len(bytes) /\ place[first] - n = -4
            /\ first \in {first, first + 1} /\ first <= last + 1
        BY <1>2, <1>4, <1>5, <2>2 DEF bytes
      <4> HIDE DEF n
      <4>2. \E there : /\ Laid(SubSeq(bytes, n + 1, Len(bytes)), packets, first, last, there)
                       /\ there[first] = place[first] - n
        BY <1>10, <2>3, <4>1
      <4> QED
        BY <4>2 DEF bytes, packets, n
    <3>2. place[first] - 4 = Start(d)'
      BY <1>5, <2>2
    <3> QED
      BY <1>1, <1>6, <2>1, <2>7, <3>1, <3>2 DEF BytesInv, first
  <2>10. WaitInv(d)'
    <3>1. Len(received[d]) < last
      BY <1>4, <2>3 DEF first
    <3>2. /\ Len(part'[d]) = 0 /\ expected'[d] = Len(sent'[d][Len(received'[d]) + 1])
          /\ expected'[d] \in Nat \ {0} /\ Len(received'[d]) < Shipped(d)' /\ body'[d]
      BY <1>1, <1>6, <2>1, <2>6, <3>1 DEF first, q
    <3> QED
      BY <3>2 DEF WaitInv
  <2>11. /\ part'[d] \in Seq(Bytes) /\ body'[d] \in BOOLEAN
         /\ expected'[d] \in Nat \ {0} /\ received'[d] \in Seq(Packets)
    <3>1. part'[d] \in Seq(Bytes)
      BY <2>1
    <3>2. body'[d] \in BOOLEAN
      BY <2>1
    <3>3. expected'[d] \in Nat \ {0} /\ received'[d] \in Seq(Packets)
      BY <1>4, <2>1, <2>6
    <3> QED
      BY <3>1, <3>2, <3>3
  <2> QED
    BY <2>8, <2>9, <2>10, <2>11
<1>13. ASSUME full, body[d] PROVE Kept
  <2>1. /\ part'[d] = <<>> /\ body'[d] = FALSE /\ expected'[d] = 4
        /\ received'[d] = Append(received[d], now)
    BY <1>3, <1>13
  <2>2. /\ first <= last /\ Len(now) = Len(q) /\ Start(d) = -4 /\ Start(d)' = 0
        /\ Len(q) \in Nat
    BY <1>4, <1>7, <1>13, <2>1, DirectionFacts DEF WaitInv, Start, first, last, q
  <2>3. /\ \A c \in 1 .. Len(q) : Rest(d)[c] = q[c]
        /\ place[first + 1] = -4 + 4 + Len(q)
    BY <1>5, <1>9, <2>2 DEF bytes
  <2>4. now = q
    <3>1. \A c \in 1 .. Len(now) : now[c] = q[c]
      BY <1>2, <2>2, <2>3
    <3> QED
      BY <1>2, <1>7, <2>2, <3>1, SeqEqual
  <2>5. /\ received'[d] \in Seq(Packets) /\ Len(received'[d]) = first
        /\ received'[d][first] = q
        /\ \A i \in 1 .. Len(received[d]) : received'[d][i] = received[d][i]
    BY <1>4, <1>7, <2>1, <2>2, <2>4 DEF first
  <2>6. Rest(d)' = SubSeq(Rest(d), Len(q) + 1, Len(Rest(d)))
    BY <1>2, <2>1, <2>2 DEF Rest
  <2>7. QueueInv(d)'
    <3>1. ASSUME NEW i \in DOMAIN received'[d] PROVE received'[d][i] = sent[d][i]
      <4>1. i = first \/ i \in 1 .. Len(received[d])
        BY <1>4, <2>5 DEF first
      <4>2. i \in 1 .. Len(received[d]) => received[d][i] = sent[d][i]
        BY <1>4, DirectionFacts DEF QueueInv
      <4> QED
        BY <2>5, <4>1, <4>2 DEF q
    <3> QED
      BY <1>1, <1>6, <2>2, <2>5, <3>1, DirectionFacts DEF QueueInv, last
  <2>8. BytesInv(d)'
    <3> DEFINE n == Len(q)
    <3>1. \E there : /\ Laid(SubSeq(Rest(d), n + 1, Len(Rest(d))), sent[d], first + 1, last, there)
                     /\ there[first + 1] = place[first + 1] - n
      <4>1. /\ n \in 0 .. Len(Rest(d)) /\ last \in 0 .. Len(sent[d])
            /\ place[first + 1] - n = 0 /\ first + 1 <= last + 1
        BY <1>2, <1>4, <2>2, <2>3
      <4> HIDE DEF n
      <4> QED
        BY <1>10, <2>2, <4>1 DEF bytes, packets
    <3>2. place[first + 1] - n = Start(d)'
      BY <2>2, <2>3
    <3> QED
      BY <1>1, <1>6, <2>5, <2>6, <3>1, <3>2 DEF BytesInv
  <2>9. WaitInv(d)'
    BY <2>1 DEF WaitInv
  <2>10. /\ part'[d] \in Seq(Bytes) /\ body'[d] \in BOOLEAN
         /\ expected'[d] \in Nat \ {0} /\ received'[d] \in Seq(Packets)
    <3>1. part'[d] \in Seq(Bytes)
      BY <2>1
    <3>2. body'[d] \in BOOLEAN
      BY <2>1
    <3>3. expected'[d] \in Nat \ {0} /\ received'[d] \in Seq(Packets)
      BY <2>1, <2>5
    <3> QED
      BY <3>1, <3>2, <3>3
  <2> QED
    BY <2>7, <2>8, <2>9, <2>10
<1>14. Kept
  BY <1>4, <1>11, <1>12, <1>13
<1>15. StreamTypeOK'
  BY <1>1, <1>2, <1>14 DEF StreamInv, StreamTypeOK
<1>16. ASSUME NEW e \in Directions, e # d
       PROVE  (QueueInv(e) /\ BytesInv(e) /\ WaitInv(e))'
  <2>1. wire'[e] = wire[e] /\ part'[e] = part[e] /\ body'[e] = body[e]
        /\ expected'[e] = expected[e] /\ received'[e] = received[e]
    BY <1>16 DEF Receive, StreamInv, StreamTypeOK
  <2> QED
    BY <1>1, <2>1, DirectionStays
<1> QED
  BY <1>14, <1>15, <1>16 DEF StreamInv

\* Every step keeps the invariant.
LEMMA StepInv == StreamInv /\ [StreamNext]_streamVars => StreamInv'
<1> SUFFICES ASSUME StreamInv, [StreamNext]_streamVars PROVE StreamInv'
  OBVIOUS
<1>1. CASE UNCHANGED streamVars
  <2>1. StreamTypeOK'
    BY <1>1 DEF streamVars, ioVars, StreamInv, StreamTypeOK
  <2>2. ASSUME NEW d \in Directions PROVE (QueueInv(d) /\ BytesInv(d) /\ WaitInv(d))'
    BY <1>1, DirectionStays DEF streamVars, ioVars
  <2> QED
    BY <2>1, <2>2 DEF StreamInv
<1>2. CASE \E packets \in [Directions -> Seq(Packets)] : Enqueue(packets)
  BY <1>2, EnqueueStep
<1>3. CASE \E d \in Directions : SenderSends(d)
  BY <1>3, SendStep
<1>4. CASE \E d \in Directions : \E k \in 1 .. Ready(d) : Receive(d, k)
  BY <1>4, ReceiveStep
<1> QED
  BY <1>1, <1>2, <1>3, <1>4 DEF StreamNext

\* What was passed on is what came first, and nothing is held back.
LEMMA InvArrives == StreamInv => PacketsArrive
<1> SUFFICES ASSUME StreamInv, NEW d \in Directions
             PROVE  /\ IsPrefix(received[d], sent[d])
                    /\ outbox[d] = <<>> /\ wire[d] = <<>> => received[d] = sent[d]
  BY DEF PacketsArrive
<1> DEFINE r == received[d]
           s == sent[d]
           last == Shipped(d)
           first == Len(r) + 1
<1>1. /\ r \in Seq(Packets) /\ s \in Seq(Packets) /\ Len(r) \in Nat /\ Len(s) \in Nat
      /\ last \in Nat /\ last + Len(outbox[d]) = Len(s) /\ Len(outbox[d]) \in Nat
      /\ Len(r) <= last /\ last <= Len(s)
      /\ \A i \in 1 .. Len(r) : r[i] = s[i]
  BY DirectionFacts DEF QueueInv
<1>2. IsPrefix(r, s)
  <2> HIDE DEF r, s, last
  <2>1. Len(r) <= Len(s)
    BY <1>1
  <2>2. SubSeq(r, 1, Len(r)) = SubSeq(s, 1, Len(r))
    BY <1>1, <2>1
  <2> QED
    BY <2>1, <2>2 DEF IsPrefix
<1>3. ASSUME outbox[d] = <<>>, wire[d] = <<>> PROVE r = s
  <2>1. last = Len(s)
    BY <1>1, <1>3
  <2>2. Rest(d) = part[d] /\ Len(part[d]) < expected[d] /\ Len(part[d]) \in Nat
    BY <1>3, DirectionFacts DEF Rest, WaitInv
  <2>3. PICK place : Laid(Rest(d), s, first, last, place) /\ place[first] = Start(d)
    BY DirectionFacts DEF BytesInv
  <2>4. ~(first <= last)
    <3> SUFFICES ASSUME first <= last PROVE FALSE
      OBVIOUS
    <3>1. place[first] + 4 + Len(s[first]) <= Len(Rest(d))
      BY <1>1, <2>3, DirectionFacts, FirstIsRead
    <3>2. Len(s[first]) \in Nat \ {0}
      <4>1. first \in 1 .. Len(s)
        BY <1>1
      <4>2. s[first] \in Packets
        BY <1>1, <4>1
      <4> QED
        BY <4>2, FrameFacts
    <3>3. CASE body[d]
      BY <2>2, <2>3, <3>1, <3>2, <3>3, DirectionFacts DEF Start, WaitInv
    <3>4. CASE ~body[d]
      BY <2>2, <2>3, <3>1, <3>2, <3>4, DirectionFacts DEF Start, WaitInv
    <3> QED
      BY <3>3, <3>4
  <2>5. Len(r) = Len(s)
    BY <1>1, <2>1, <2>4
  <2> HIDE DEF r, s
  <2> QED
    BY <1>1, <2>5, SeqEqual
<1> QED
  BY <1>2, <1>3

\* Whatever pieces recv returns, the receiver passes on what was given to
\* SendMsg, in that order, and all of it when nothing is under way any more.
THEOREM PacketsAreDelivered == StreamSpec => []PacketsArrive
<1> QED
  BY InitInv, StepInv, InvArrives, PTL DEF StreamSpec
=============================================================================
