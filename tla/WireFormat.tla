------------------------------- MODULE WireFormat -------------------------------
(***************************************************************************)
(* What travels between the master, one worker and one client, byte by     *)
(* byte: a worker registers, a client asks for a scene, the master hands   *)
(* the request on in the buffer it came in, orders pixels and is answered, *)
(* and the client gets the segments.  TCPIOSender packs a message into a   *)
(* buffer and sends its length and its bytes; TCPIOReceiver puts together  *)
(* again what recv returns in pieces of any size and builds the message.   *)
(*                                                                         *)
(* A message is packed as text: each number in decimal, floating point     *)
(* numbers rounded (SceneGraph has their conversion), then a separator     *)
(* (a blank or the end of a line).  Characters matter here, because a      *)
(* buffer may be too short, because a piece may end inside a number, and   *)
(* because Repack writes a new head over the old one.  Names and addresses *)
(* are numbers, too.  A message is a record: its id, its tag, m_BufferValid*)
(* (0 or 1), the content its class adds, and own, its m_PackedMsgBuffer    *)
(* (<<>> for the null pointer).                                            *)
(*                                                                         *)
(* Not modelled here: a connection that breaks (MasterConnection), work    *)
(* orders of more than one round (SceneSchedulerDynamic), the way of a     *)
(* segment and its answer inside the worker (Worker).                      *)
(***************************************************************************)
EXTENDS SceneGraph, PacketStream, FiniteSets

CONSTANTS
  Descriptors,   \* the scenes a client may ask for
  Plans,         \* what the master may order: sequences of PixelProduceRequests
  SceneId, Client, WorkerHost,       \* an id and addresses, as numbers
  SharedSize,    \* MAX_MSG_BUFFER_SIZE_IN_BYTES, the sender's buffer (4096)
  SceneSize,     \* the buffer of a scene request (32 KiB)
  HeadRoom,      \* bytes before the pixels of a segment (128)
  MsgSize,       \* sizeof(SceneSegmentProduceResponseMsg)
  Pieces,        \* bound: recv returns an n-th of what it could, n one of these
  Uninitialised  \* values an uninitialised variable may have

VARIABLES
  handled,   \* how many of the received messages are handled
  log,       \* history: the messages given to SendMsg, as they were meant
  scene      \* history: the scene of the client, Nullptr before it asks

vars == <<streamVars, handled, log, scene>>

CM == "client to master"
MC == "master to client"
WM == "worker to master"
MW == "master to worker"
WC == "worker to client"
ASSUME DirectionAssumption == Directions = {CM, MC, WM, MW, WC}

-----------------------------------------------------------------------------
(* Text *)
Separator == 10          \* the digits are 0 .. 9
Junk == 11               \* a byte of a fresh buffer

RECURSIVE Decimal(_)
Decimal(n) == IF n < 10 THEN <<n>> ELSE Append(Decimal(n \div 10), n % 10)

Text(tokens) ==
  FlattenSeq([i \in DOMAIN tokens |-> Append(Decimal(tokens[i]), Separator)])

(* operator>> for numbers: what stands between separators; a number that   *)
(* ends with the buffer is read as far as it goes.  (The modulus keeps the *)
(* unused bytes of a segment, which are read here and by no Unpack, small.)*)
RECURSIVE WordEnd(_, _)
WordEnd(text, i) ==
  IF i > Len(text) \/ text[i] = Separator THEN i ELSE WordEnd(text, i + 1)

Number(word) == FoldLeft(LAMBDA n, digit : (10 * n + digit) % 100000000, 0, word)

RECURSIVE WordsFrom(_, _)
WordsFrom(text, i) ==
  LET end == WordEnd(text, i)
  IN  CASE i > Len(text) -> <<>>
        [] i <= Len(text) /\ end = i -> WordsFrom(text, i + 1)
        [] OTHER -> <<Number(SubSeq(text, i, end - 1))>> \o WordsFrom(text, end + 1)

Tokens(text) == WordsFrom(text, 1)

Blank(n) == [i \in 1..n |-> Junk]

(* PreAllocatedStreamBuffer: the buffer does not grow                      *)
Cut(text, size) == SubSeq(text, 1, IF Len(text) < size THEN Len(text) ELSE size)

(* Text that is written into a buffer, from its start                      *)
Overlay(buffer, text) ==
  [i \in DOMAIN buffer |-> IF i <= Len(text) THEN text[i] ELSE buffer[i]]

-----------------------------------------------------------------------------
(* enum MsgIds *)
WorkerRegistrationRequest == 1
WorkerRegistrationResponse == 2
SceneProduceRequest == 3
SceneSegmentProduceResponse == 4
SceneProduceRequestAck == 5
PixelProduceRequest == 7
PixelProduceResponse == 8
SceneProduceCleanup == 9

STATUS_SUCCESS == 0
ERR_CLUSTER_INIT == 3

Message(id, tag, content) ==
  [id |-> id, tag |-> tag, valid |-> 0, content |-> content, own |-> <<>>]

(* Msg::Pack and WireMsg::Pack: the head of every message                  *)
PackHead(m) == <<m.id, m.tag, m.valid>>

PackRequest(r) ==
  <<r.startY, r.startX, r.endY, r.endX, r.numPixels, r.offset, r.pipeline, r.tag>>

UnpackRequest(t, i) ==
  [startY |-> Token(t, i), startX |-> Token(t, i + 1),
   endY |-> Token(t, i + 2), endX |-> Token(t, i + 3),
   numPixels |-> Token(t, i + 4), offset |-> Token(t, i + 5),
   pipeline |-> Token(t, i + 6), tag |-> Token(t, i + 7)]

PackSceneRequest(c) ==
  <<c.nX, c.nY, c.RPP, c.scene, c.address, c.port, c.bufferLength>>
    \o PackDescriptor(c.descriptor)

(* The master is built without the descriptor's part                       *)
UnpackSceneRequest(t, direction) ==
  [nX |-> Token(t, 4), nY |-> Token(t, 5), RPP |-> Token(t, 6),
   scene |-> Token(t, 7), address |-> Token(t, 8), port |-> Token(t, 9),
   bufferLength |-> Token(t, 10),
   descriptor |-> IF direction = CM THEN Nullptr ELSE UnpackDescriptor(t, 11)]

PackSegment(c) == <<c.scene, c.numPixels, c.offset, c.bufferLength>>

(* GetSceneBuffer: the pixels of a received segment                        *)
SceneBuffer(own, length) == SubSeq(own, HeadRoom + 1, HeadRoom + length)

UnpackSegment(t, own) ==
  [scene |-> Token(t, 4), numPixels |-> Token(t, 5), offset |-> Token(t, 6),
   bufferLength |-> Token(t, 7), pixels |-> SceneBuffer(own, Token(t, 7))]

PackRegistration(c) == <<c.host, c.port, c.threads, c.time>>
UnpackRegistration(t) ==
  [host |-> Token(t, 4), port |-> Token(t, 5), threads |-> Token(t, 6),
   time |-> Token(t, 7)]

PackOrder(c) ==
  <<c.scene, Len(c.requests)>>
    \o FlattenSeq([n \in DOMAIN c.requests |-> PackRequest(c.requests[n])])
UnpackOrder(t) ==
  [scene |-> Token(t, 4),
   requests |-> [n \in 1..Token(t, 5) |-> UnpackRequest(t, 6 + 8 * (n - 1))]]

PackAnswer(c) == <<c.scene, c.numPixels, c.offset, c.pipeline>>
UnpackAnswer(t) ==
  [scene |-> Token(t, 4), numPixels |-> Token(t, 5), offset |-> Token(t, 6),
   pipeline |-> Token(t, 7)]

(* The Pack of each class; the rest have one number                        *)
Pack(m) ==
  PackHead(m) \o
  CASE m.id = WorkerRegistrationRequest   -> PackRegistration(m.content)
    [] m.id = SceneProduceRequest         -> PackSceneRequest(m.content)
    [] m.id = SceneSegmentProduceResponse -> PackSegment(m.content)
    [] m.id = PixelProduceRequest         -> PackOrder(m.content)
    [] m.id = PixelProduceResponse        -> PackAnswer(m.content)
    [] OTHER                              -> <<m.content>>

(* WireMsgFactory::ConstructMsg and the Unpack of each class, and          *)
(* SetBufferContainer                                                      *)
ConstructMsg(bytes, direction) ==
  LET t  == Tokens(bytes)
      id == Token(t, 1)
  IN  [id |-> id, tag |-> Token(t, 2), valid |-> Token(t, 3), own |-> bytes,
       content |->
         CASE id = WorkerRegistrationRequest   -> UnpackRegistration(t)
           [] id = SceneProduceRequest         -> UnpackSceneRequest(t, direction)
           [] id = SceneSegmentProduceResponse -> UnpackSegment(t, bytes)
           [] id = PixelProduceRequest         -> UnpackOrder(t)
           [] id = PixelProduceResponse        -> UnpackAnswer(t)
           [] OTHER                            -> Token(t, 4)]

-----------------------------------------------------------------------------
(* WireMsg::GetPackedBytes: in the sender's buffer, or in the message's    *)
(* own, which is packed once                                               *)
GetPackedBytes(m) ==
  CASE m.own = <<>> -> Cut(Text(Pack(m)), SharedSize)
    [] m.own # <<>> /\ m.valid = 1 -> m.own
    [] OTHER -> Cut(Text(Pack([m EXCEPT !.valid = 1])), Len(m.own))

(* Whether a message has room in its buffer                                *)
Fits(m) ==
  LET room == IF m.own = <<>> THEN SharedSize ELSE Len(m.own)
  IN  Len(Text(Pack(m))) <= room

(* WireMsg::Repack: id, tag and m_BufferValid over the head of the buffer  *)
RepackNothing(m) == m
Repack(m) == [m EXCEPT !.own = Overlay(@, Text(PackHead(m)))]

(* The segment of a request: ProducePixels writes its pixels behind the    *)
(* head room, and PackPartial the head                                     *)
Pixels(r) == Text(FlattenSeq([n \in 1..r.numPixels |->
                                <<(r.offset + n) * 7, 255, r.startX>>]))

Segment(r) ==
  LET pixels == Cut(Pixels(r), 12 * r.numPixels)
      blank  == Blank(HeadRoom)
      rest   == Blank(MsgSize + 12 * r.numPixels - Len(pixels))
      m      == [Message(SceneSegmentProduceResponse, 0,
                         [scene |-> SceneId, numPixels |-> r.numPixels,
                          offset |-> r.offset, bufferLength |-> Len(pixels),
                          pixels |-> pixels])
                 EXCEPT !.valid = 1]
  IN  [m EXCEPT !.own = Overlay(blank \o pixels \o rest, Text(Pack(m)))]

Answer(r) ==
  Message(PixelProduceResponse, r.tag,
          [scene |-> SceneId, numPixels |-> r.numPixels, offset |-> r.offset,
           pipeline |-> r.pipeline])

-----------------------------------------------------------------------------
(* What a message says to the process that reads it: the master does not   *)
(* look at the scene                                                       *)
Content(m, direction) ==
  IF m.id = SceneProduceRequest /\ direction = CM
  THEN [m.content EXCEPT !.descriptor = Nullptr] ELSE m.content

Meaning(m, direction) ==
  [id |-> m.id, tag |-> m.tag, content |-> Content(m, direction), fits |-> Fits(m)]

(* SendMsg.  The sender's thread packs a message when its turn has come;    *)
(* nobody changes it meanwhile, and it is packed here at once.  The log has *)
(* what is meant to arrive.                                                 *)
SendAs(messages, meant) ==
  /\ Enqueue([d \in Directions |->
                [n \in DOMAIN messages[d] |-> GetPackedBytes(messages[d][n])]])
  /\ log' = [d \in Directions |-> log[d]
                \o [n \in DOMAIN meant[d] |-> Meaning(meant[d][n], d)]]

Send(messages) == SendAs(messages, messages)

Init ==
  /\ StreamInit
  /\ handled = [d \in Directions |-> 0]
  /\ log = Nothing
  /\ scene = Nullptr

Sends(d) == SenderSends(d) /\ UNCHANGED <<handled, log, scene>>

Receives(d) ==
  /\ \E n \in Pieces : Receive(d, (Ready(d) + n - 1) \div n)
  /\ UNCHANGED <<handled, log, scene>>

-----------------------------------------------------------------------------
(* Worker::OnConnectionEstablishmentResponseMsg *)
WorkerRegisters ==
  /\ log[WM] = <<>>
  /\ Send([Nothing EXCEPT ![WM] =
       <<Message(WorkerRegistrationRequest, 1,
                 [host |-> WorkerHost, port |-> 50, threads |-> 2, time |-> 9])>>])
  /\ UNCHANGED <<handled, scene>>

(* The next message of a direction is handled                              *)
Arrived(d, i) == ConstructMsg(received[d][i], d)
NextMessage(d) == Arrived(d, handled[d] + 1)
Handles(d) ==
  /\ handled[d] < Len(received[d])
  /\ handled' = [handled EXCEPT ![d] = @ + 1]
  /\ UNCHANGED scene

(* Client::OnConnectionEstablishmentResponseMsg: one request of a client   *)
ClientAsks ==
  /\ log[CM] = <<>>
  /\ \E d \in Descriptors, rubbish \in Uninitialised :
       LET m == Message(SceneProduceRequest, 1,
                  [nX |-> d.nX, nY |-> d.nY, RPP |-> d.RPP, scene |-> SceneId,
                   address |-> Client, port |-> 60, bufferLength |-> rubbish,
                   descriptor |-> d])
       IN  /\ Send([Nothing EXCEPT ![CM] = <<[m EXCEPT !.own = Blank(SceneSize)]>>])
           /\ scene' = d
  /\ UNCHANGED handled

(* MasterSchedulerThread::OnWorkerRegistrationRequest *)
MasterRegistersWorker ==
  /\ Handles(WM)
  /\ NextMessage(WM).id = WorkerRegistrationRequest
  /\ Send([Nothing EXCEPT ![MW] =
       <<Message(WorkerRegistrationResponse, NextMessage(WM).tag, STATUS_SUCCESS)>>])

WorkerRegistered ==
  \E i \in 1..handled[WM] : Arrived(WM, i).id = WorkerRegistrationRequest

(* SchedulerBase::OnSceneProduceRequestMsg: the request goes on to the     *)
(* worker with another head, the work is ordered, the client gets its      *)
(* acknowledgement.  In the log the request has the content the client     *)
(* gave it.                                                                *)
MasterAcceptsScene ==
  /\ Handles(CM)
  /\ WorkerRegistered
  /\ \E plan \in Plans :
       LET m     == Repack([NextMessage(CM) EXCEPT !.tag = 0])
           meant == [m EXCEPT !.content.descriptor = scene]
           order == Message(PixelProduceRequest, 0,
                      [scene |-> m.content.scene, requests |-> plan])
           ack   == Message(SceneProduceRequestAck, NextMessage(CM).tag, STATUS_SUCCESS)
       IN  SendAs([Nothing EXCEPT ![MC] = <<ack>>, ![MW] = <<m, order>>],
                  [Nothing EXCEPT ![MC] = <<ack>>, ![MW] = <<meant, order>>])

MasterRejectsScene ==
  /\ Handles(CM)
  /\ ~WorkerRegistered
  /\ Send([Nothing EXCEPT ![MC] =
       <<Message(SceneProduceRequestAck, NextMessage(CM).tag, ERR_CLUSTER_INIT)>>])

(* PixelProducer::OnPixelProduceRequestMsg for every request of an order   *)
(* that was read to its end.  (What a producer does with a request that    *)
(* was cut off, memory that was never assigned, is not modelled.)          *)
Whole(r) == \A field \in DOMAIN r : r[field] # None

WorkerProduces ==
  /\ Handles(MW)
  /\ NextMessage(MW).id = PixelProduceRequest
  /\ LET requests == SelectSeq(NextMessage(MW).content.requests, Whole)
         withWork == SelectSeq(requests, LAMBDA r : r.numPixels # 0)
     IN  Send([Nothing EXCEPT
           ![WC] = [n \in DOMAIN withWork |-> Segment(withWork[n])],
           ![WM] = [n \in DOMAIN requests |-> Answer(requests[n])]])

WorkerTakes ==
  /\ Handles(MW)
  /\ NextMessage(MW).id # PixelProduceRequest
  /\ UNCHANGED <<streamVars, log>>

(* The last answer of a scene: the worker is told to forget it             *)
Answered == Cardinality({i \in 1..handled[WM] :
                           Arrived(WM, i).id = PixelProduceResponse})
Ordered == Len(log[MW][3].content.requests)

MasterTakesAnswer ==
  /\ Handles(WM)
  /\ NextMessage(WM).id = PixelProduceResponse
  /\ Send([Nothing EXCEPT ![MW] =
       IF Answered + 1 = Ordered
       THEN <<Message(SceneProduceCleanup, 0, NextMessage(WM).content.scene)>>
       ELSE <<>>])

ClientTakes ==
  /\ \E d \in {MC, WC} : Handles(d)
  /\ UNCHANGED <<streamVars, log>>

Next ==
  \/ \E d \in Directions : Sends(d) \/ Receives(d)
  \/ WorkerRegisters
  \/ ClientAsks \/ ClientTakes
  \/ MasterRegistersWorker \/ MasterAcceptsScene \/ MasterRejectsScene
  \/ MasterTakesAnswer
  \/ WorkerProduces \/ WorkerTakes

Fairness ==
  \A d \in Directions : WF_vars(Sends(d)) /\ WF_vars(Receives(d))

Spec == Init /\ [][Next]_vars /\ Fairness

-----------------------------------------------------------------------------
(* A floating point number that was read against the one that was packed:  *)
(* they differ by half a unit of the last printed digit at most.           *)
Near(read, packed) ==
  LET diff == read - packed
  IN  2 * (IF diff < 0 THEN -diff ELSE diff) <= Grain(packed)

AllNear(read, packed) ==
  /\ DOMAIN read = DOMAIN packed
  /\ \A k \in DOMAIN read : Near(read[k], packed[k])

(* A texture, material or hitable that was read is built as the one that    *)
(* was packed: the same fields, the same objects below it, the same numbers *)
(* of types, and the floating point numbers near.                          *)
RECURSIVE SameObject(_, _)
SameObject(o, p) ==
  /\ DOMAIN o = DOMAIN p
  /\ \A f \in DOMAIN p :
       CASE f \in {"albedo", "odd", "even", "material", "ptr", "left", "right"} ->
              SameObject(o[f], p[f])
         [] f = "list" -> /\ DOMAIN o.list = DOMAIN p.list
                          /\ \A n \in DOMAIN p.list : SameObject(o.list[n], p.list[n])
         [] f \in {"bbox", "box"} -> AllNear(o[f][1] \o o[f][2], p[f][1] \o p[f][2])
         [] f \in {"color", "shape", "pmin", "pmax", "offset"} -> AllNear(o[f], p[f])
         [] f \in {"scale", "factor", "sinTheta", "cosTheta"} -> Near(o[f], p[f])
         [] OTHER -> o[f] = p[f]

SameScene(d, e) ==
  /\ <<d.nX, d.nY, d.RPP>> = <<e.nX, e.nY, e.RPP>>
  /\ AllNear(Append(FlattenSeq(d.camera.vectors), d.camera.lensRadius),
             Append(FlattenSeq(e.camera.vectors), e.camera.lensRadius))
  /\ SameObject(d.world, e.world)

SameContent(got, m, direction) ==
  IF m.id = SceneProduceRequest /\ direction = MW
  THEN /\ [got.content EXCEPT !.descriptor = Nullptr]
             = [m.content EXCEPT !.descriptor = Nullptr]
       /\ SameScene(got.content.descriptor, m.content.descriptor)
  ELSE got.content = m.content

(* In every direction the messages arrive in the order of SendMsg, with    *)
(* the id, the tag and the content they were given: the numbers of the     *)
(* work orders, the pixels, the whole scene with its camera and materials, *)
(* also after it was passed on with another head.  Only the floating point *)
(* numbers of the scene are rounded, to the six digits that << prints.  A  *)
(* message that does not fit in its buffer arrives in its place, cut, and  *)
(* disturbs no other.                                                      *)
(* (GetPackedBytes, Repack, KeepReceiving, ConstructMsg, Pack and Unpack)  *)
MessagesArrive ==
  \A d \in Directions :
    /\ Len(received[d]) <= Len(log[d])
    /\ \A i \in DOMAIN received[d] :
         LET got == Arrived(d, i)
             m   == log[d][i]
         IN  /\ got.id = m.id /\ got.tag = m.tag
             /\ m.fits => SameContent(got, m, d)

(* Whatever is sent is received: the receiver never waits for a byte that  *)
(* does not come.  (TCPIOReceiver::Run, KeepReceiving, PacketLength)       *)
EveryMessageArrives ==
  <>[](\A d \in Directions : Len(received[d]) = Len(log[d]))
=============================================================================
