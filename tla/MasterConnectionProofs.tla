----------------------- MODULE MasterConnectionProofs -----------------------
(***************************************************************************)
(* Proofs about MasterConnection, for any number of scheduler threads,     *)
(* scenes and requests and any depth of the queues: a command gets the     *)
(* answers to its requests, and hears of the end of a connection after all *)
(* of them; the sender thread leaves no message behind; and no queue holds *)
(* more than it has room for.                                              *)
(***************************************************************************)
EXTENDS MasterConnection, TLAPS, SequenceTheorems

-----------------------------------------------------------------------------
(* What the variables hold.                                                *)

Labels == Scenes \X Nat

Incoming == [kind : {"register"}] \cup [kind : {"answer"}, tag : Labels]

Messages ==
    Incoming \cup [kind : {"exception", "status"}] \cup [kind : {"request"}, scene : Scenes]
             \cup [kind : {"lost"}, scene : Scenes, known : BOOLEAN, cmd : BOOLEAN]

Packets ==
    [kind : {"job"}, tag : Labels] \cup [kind : {"scene"}, scene : Scenes]
        \cup [kind : {"response", "cleanup", "shutdown"}]

SendCalls ==
    [op : {"send"}, kind : {"scene", "job"}, scene : Scenes]
        \cup [op : {"send"}, kind : {"response", "cleanup"}, scene : {None}]

PlainCalls ==
    [op : {"save", "add"}] \cup [op : {"free"}, tag : Labels]
        \cup [op : {"allocate", "register", "track", "finish"}, scene : Scenes] \cup SendCalls

Loops == [op : {"each"}, body : Seq(PlainCalls)]

ClosingCalls == [op : {"note", "close", "shutdown"}] \cup [op : {"clear"}, known : BOOLEAN]

AllCalls == PlainCalls \cup Loops \cup ClosingCalls

TypeInv ==
    /\ peer \in {"connecting", "up", "down"}
    /\ inbound \in Seq(Incoming)
    /\ asked \subseteq Labels /\ routes \subseteq Labels
    /\ recv \in {<<>>} \cup Messages \X (Threads \cup {None})
    /\ sender \in {"running", "exited"} \cup Scenes
    /\ sendQ \in Seq(Packets)
    /\ {reading, closed, saved, listed} \subseteq BOOLEAN
    /\ holder \in Threads \cup {None}
    /\ queue \in [Threads -> Seq(Messages)]
    /\ calls \in [Threads -> Seq(AllCalls)]
    /\ home \in [Scenes -> Threads \cup {None}]
    /\ jobs \in [Scenes -> Nat]

-----------------------------------------------------------------------------
(* The end of the connection, on its way through the threads.              *)

\* The receiver thread has come to its end.
Ended == ~reading /\ peer # "connecting"

Queued(kind, t, i) == i \in DOMAIN queue[t] /\ queue[t][i].kind = kind

Called(ops, t, i) == i \in DOMAIN calls[t] /\ calls[t][i].op \in ops

Carried(kind) == recv # <<>> /\ recv[1].kind = kind

EndOps == {"note", "close", "shutdown", "clear"}

\* ... which it does when everything has been read, and before it is closed;
EndOfWire ==
    /\ Ended => peer = "down" /\ inbound = <<>> /\ ~Carried("answer")
    /\ Carried("exception") => Ended
    /\ ~Carried("lost")
    /\ closed => Ended

\* no answer is queued behind the news of the end,
EndInQueues ==
    /\ \A t \in Threads : \A i \in Nat : Queued("exception", t, i) => Ended
    /\ \A t \in Threads : \A i \in Nat : Queued("lost", t, i) => closed
    /\ \A t \in Threads : \A i, j \in Nat :
           Queued("lost", t, i) /\ Queued("answer", t, j) => j < i

\* and only the handlers of the exception and of those that are told close the
\* connection.
EndInCalls ==
    \A t \in Threads : \A i \in Nat :
        /\ Called(EndOps, t, i) => Ended
        /\ Called({"shutdown", "clear"}, t, i) => closed

EndInv == EndOfWire /\ EndInQueues /\ EndInCalls

\* Before the worker is connected there are only requests of clients.
QuietInv ==
    peer = "connecting" =>
        /\ sender = "exited" /\ sendQ = <<>> /\ recv = <<>> /\ inbound = <<>>
        /\ ~listed /\ ~reading /\ \A s \in Scenes : stage[s] = "asked"
        /\ \A t \in Threads :
               /\ calls[t] = <<>>
               /\ \A i \in DOMAIN queue[t] : queue[t][i].kind = "request"

\* Only a Close asks the sender to come out, and what is behind that is asked again.
UnsentInv ==
    /\ \A i \in DOMAIN sendQ : sendQ[i].kind = "shutdown" => closed
    /\ sender = "exited" => closed \/ peer = "connecting"
    /\ SenderLeavesNothing

-----------------------------------------------------------------------------
(* What the queues and the calls of a thread become.                       *)

LEMMA TailShifts ==
    ASSUME NEW S, NEW s \in Seq(S), s # <<>>
    PROVE  /\ DOMAIN Tail(s) = 1 .. Len(s) - 1
           /\ Len(s) \in Nat /\ DOMAIN s = 1 .. Len(s)
           /\ \A j \in 1 .. Len(s) - 1 : Tail(s)[j] = s[j + 1]
OBVIOUS

LEMMA PutAddsOne ==
    ASSUME TypeInv, NEW t \in Threads \cup {None}, NEW m \in Messages, Put(t, m)
    PROVE  /\ queue' \in [Threads -> Seq(Messages)]
           /\ \A u \in Threads : \A i \in Nat : \A k :
                  Queued(k, u, i)' =>
                      \/ Queued(k, u, i)
                      \/ u = t /\ i = Len(queue[u]) + 1 /\ m.kind = k
           /\ \A u \in Threads : \A i \in Nat : \A k :
                  Queued(k, u, i) => i \in 1 .. Len(queue[u])
<1>1. \A u \in Threads : queue[u] \in Seq(Messages)
  BY DEF TypeInv
<1>2. \A u \in Threads : queue'[u] = IF u = t THEN Append(queue[u], m) ELSE queue[u]
  BY DEF Put, TypeInv
<1>3. queue' \in [Threads -> Seq(Messages)]
  <2>1. \A u \in Threads : Append(queue[u], m) \in Seq(Messages)
    BY <1>1
  <2>2. QED  BY <2>1 DEF Put, TypeInv
<1>4. \A u \in Threads : \A i \in Nat : \A k : Queued(k, u, i) => i \in 1 .. Len(queue[u])
  BY <1>1 DEF Queued
<1>5. ASSUME NEW u \in Threads, NEW i \in Nat, NEW k, Queued(k, u, i)'
      PROVE  Queued(k, u, i) \/ (u = t /\ i = Len(queue[u]) + 1 /\ m.kind = k)
  <2>1. i \in DOMAIN queue'[u] /\ queue'[u][i].kind = k
    BY <1>5 DEF Queued
  <2>2. CASE u = t
    <3>1. queue'[u] = Append(queue[u], m)
      BY <1>2, <2>2
    <3>2. /\ DOMAIN queue'[u] = 1 .. Len(queue[u]) + 1
          /\ Len(queue[u]) \in Nat /\ DOMAIN queue[u] = 1 .. Len(queue[u])
          /\ queue'[u][Len(queue[u]) + 1] = m
          /\ \A j \in 1 .. Len(queue[u]) : queue'[u][j] = queue[u][j]
      BY <1>1, <3>1
    <3>3. QED  BY <2>1, <2>2, <3>2 DEF Queued
  <2>3. CASE u # t
    BY <1>2, <2>1, <2>3 DEF Queued
  <2>4. QED  BY <2>2, <2>3
<1>6. QED  BY <1>3, <1>4, <1>5

LEMMA TakeRemovesFirst ==
    ASSUME TypeInv, NEW t \in Threads, queue[t] # <<>>,
           queue' = [queue EXCEPT ![t] = Tail(@)]
    PROVE  /\ queue' \in [Threads -> Seq(Messages)]
           /\ Head(queue[t]) \in Messages
           /\ \A k : Head(queue[t]).kind = k => Queued(k, t, 1)
           /\ \A u \in Threads : \A i \in Nat : \A k :
                  Queued(k, u, i)' => IF u = t THEN i >= 1 /\ Queued(k, u, i + 1)
                                      ELSE Queued(k, u, i)
<1>1. queue[t] \in Seq(Messages)
  BY DEF TypeInv
<1>2. \A u \in Threads : queue'[u] = IF u = t THEN Tail(queue[u]) ELSE queue[u]
  BY DEF TypeInv
<1>3. queue' \in [Threads -> Seq(Messages)] /\ Head(queue[t]) \in Messages
  BY <1>1 DEF TypeInv
<1>4. \A k : Head(queue[t]).kind = k => Queued(k, t, 1)
  BY <1>1 DEF Queued
<1>5. ASSUME NEW u \in Threads, NEW i \in Nat, NEW k, Queued(k, u, i)'
      PROVE  IF u = t THEN i >= 1 /\ Queued(k, u, i + 1) ELSE Queued(k, u, i)
  <2>1. i \in DOMAIN queue'[u] /\ queue'[u][i].kind = k
    BY <1>5 DEF Queued
  <2>2. CASE u = t
    <3>1. queue'[u] = Tail(queue[u]) /\ queue[u] \in Seq(Messages) /\ queue[u] # <<>>
      BY <1>1, <1>2, <2>2
    <3>2. /\ DOMAIN queue'[u] = 1 .. Len(queue[u]) - 1
          /\ Len(queue[u]) \in Nat /\ DOMAIN queue[u] = 1 .. Len(queue[u])
          /\ \A j \in 1 .. Len(queue[u]) - 1 : queue'[u][j] = queue[u][j + 1]
      BY <3>1, TailShifts
    <3>3. QED  BY <2>1, <2>2, <3>2 DEF Queued
  <2>3. CASE u # t
    BY <1>2, <2>1, <2>3 DEF Queued
  <2>4. QED  BY <2>2, <2>3
<1>6. QED  BY <1>3, <1>4, <1>5

\* A call that returns leaves those behind it.
LEMMA ReturnRemovesFirst ==
    ASSUME TypeInv, NEW t \in Threads, calls[t] # <<>>, Return(t)
    PROVE  /\ calls' \in [Threads -> Seq(AllCalls)]
           /\ \A u \in Threads : \A i \in Nat : \A ops :
                  Called(ops, u, i)' => IF u = t THEN i >= 1 /\ Called(ops, u, i + 1)
                                        ELSE Called(ops, u, i)
<1>1. calls[t] \in Seq(AllCalls)
  BY DEF TypeInv
<1>2. Tail(calls[t]) \in Seq(AllCalls)
  BY <1>1
<1>3. <<>> \o Tail(calls[t]) = Tail(calls[t])
  BY <1>2, ConcatEmptySeq
<1>4. \A u \in Threads : calls'[u] = IF u = t THEN Tail(calls[u]) ELSE calls[u]
  BY <1>3 DEF TypeInv, Return, Then
<1>5. calls' \in [Threads -> Seq(AllCalls)]
  BY <1>2, <1>3 DEF TypeInv, Return, Then
<1>6. ASSUME NEW u \in Threads, NEW i \in Nat, NEW ops, Called(ops, u, i)'
      PROVE  IF u = t THEN i >= 1 /\ Called(ops, u, i + 1) ELSE Called(ops, u, i)
  <2>1. i \in DOMAIN calls'[u] /\ calls'[u][i].op \in ops
    BY <1>6 DEF Called
  <2>2. CASE u = t
    <3>1. calls'[u] = Tail(calls[u]) /\ calls[u] \in Seq(AllCalls) /\ calls[u] # <<>>
      BY <1>1, <1>4, <2>2
    <3>2. /\ DOMAIN calls'[u] = 1 .. Len(calls[u]) - 1
          /\ Len(calls[u]) \in Nat /\ DOMAIN calls[u] = 1 .. Len(calls[u])
          /\ \A j \in 1 .. Len(calls[u]) - 1 : calls'[u][j] = calls[u][j + 1]
      BY <3>1, TailShifts
    <3>3. QED  BY <2>1, <2>2, <3>2 DEF Called
  <2>3. CASE u # t
    BY <1>4, <2>1, <2>3 DEF Called
  <2>4. QED  BY <2>2, <2>3
<1>7. QED  BY <1>5, <1>6

\* The call a thread is at.
LEMMA CallAtHead ==
    ASSUME TypeInv, NEW t \in Threads, NEW op, At(t, op)
    PROVE  /\ calls[t] # <<>> /\ Head(calls[t]) \in AllCalls /\ Head(calls[t]).op = op
           /\ \A ops : op \in ops => Called(ops, t, 1)
<1>1. calls[t] \in Seq(AllCalls) /\ calls[t] # <<>>
  BY DEF TypeInv, At
<1>2. QED  BY <1>1 DEF At, Called

\* The calls a message may start.
IsHandler(m, h) ==
    \/ m.kind = "register" /\ h = <<Call("save"), Send("response", None), Call("add")>>
    \/ m.kind \in {"exception", "lost"} /\ h = <<Call("note"), Call("close")>>
    \/ m.kind = "request" /\ listed /\ \E n \in 0 .. Rounds : h = SceneCalls(m.scene, n)
    \/ /\ m.kind = "answer" /\ jobs[m.tag[1]] < MaxJobs
       /\ h \in {<<Free(m.tag)>> \o NextJob(m.tag[1]), NextJob(m.tag[1])}
    \/ m.kind = "answer" /\ h = FinishCalls(m.tag[1]) \o <<Free(m.tag)>>
    \/ h = <<>>

LEMMA TakeStartsHandler ==
    ASSUME NEW t \in Threads, ThreadTakes(t)
    PROVE  \E h : IsHandler(Head(queue[t]), h) /\ calls' = [calls EXCEPT ![t] = h]
<1> DEFINE m == Head(queue[t])
<1>1. CASE OnWorkerRegistrationRequest(t, m)
  BY <1>1 DEF OnWorkerRegistrationRequest, Starts, IsHandler
<1>2. CASE OnTCPConnectionException(t, m)
  BY <1>2 DEF OnTCPConnectionException, Starts, IsHandler
<1>3. CASE RemoveFailedJobs(t, m) \/ OnXmitStatus(t, m)
  BY <1>3 DEF RemoveFailedJobs, OnXmitStatus, Starts, IsHandler
<1>4. CASE OnSceneProduceRequest(t, m)
  BY <1>4 DEF OnSceneProduceRequest, Starts, IsHandler
<1>5. CASE OnPixelProduceResponse(t, m)
  BY <1>5 DEF OnPixelProduceResponse, Starts, IsHandler
<1>6. QED  BY <1>1, <1>2, <1>3, <1>4, <1>5 DEF ThreadTakes

\* Handlers are made of plain calls, but for the one that closes the connection.
LEMMA JobsArePlain ==
    ASSUME NEW s \in Scenes
    PROVE  /\ NextJob(s) \in Seq(PlainCalls)
           /\ Each(NextJob(s)) \in Loops /\ Each(<<Send("scene", s)>>) \in Loops
<1>1. CallFor("allocate", s) \in PlainCalls /\ CallFor("register", s) \in PlainCalls
      /\ CallFor("track", s) \in PlainCalls
  BY DEF CallFor, PlainCalls
<1>2. Send("job", s) \in PlainCalls /\ Send("scene", s) \in PlainCalls
  BY DEF Send, PlainCalls, SendCalls
<1>3. NextJob(s) \in Seq(PlainCalls) /\ <<Send("scene", s)>> \in Seq(PlainCalls)
  BY <1>1, <1>2 DEF NextJob
<1>4. QED  BY <1>3 DEF Each, Loops

LEMMA FinishIsPlain ==
    ASSUME NEW s \in Scenes
    PROVE  FinishCalls(s) \in Seq(PlainCalls \cup Loops)
<1>1. Send("cleanup", None) \in PlainCalls
  BY DEF Send, PlainCalls, SendCalls
<1>2. <<Send("cleanup", None)>> \in Seq(PlainCalls)
  BY <1>1
<1>3. Each(<<Send("cleanup", None)>>) \in Loops /\ CallFor("finish", s) \in PlainCalls
  BY <1>2 DEF Each, Loops, CallFor, PlainCalls
<1>4. QED  BY <1>3 DEF FinishCalls

LEMMA HandlersArePlain ==
    ASSUME TypeInv, NEW m \in Messages, NEW h, IsHandler(m, h)
    PROVE  /\ h \in Seq(PlainCalls \cup Loops) \cup {<<Call("note"), Call("close")>>}
           /\ m.kind \notin {"exception", "lost"} => h \in Seq(PlainCalls \cup Loops)
           /\ m.kind = "request" /\ ~listed => h = <<>>
<1> DEFINE Calls == PlainCalls \cup Loops
<1>2. ASSUME NEW s \in Scenes, NEW n \in 0 .. Rounds PROVE SceneCalls(s, n) \in Seq(Calls)
  <2> DEFINE first == Each(<<Send("scene", s)>>)
             other == Each(NextJob(s))
  <2>2. first \in Calls /\ other \in Calls
    BY JobsArePlain
  <2>3. <<first>> \in Seq(Calls)
    BY <2>2
  <2>4. [i \in 1 .. n |-> other] \in Seq(Calls)
    <3> HIDE DEF other, Calls
    <3>1. QED  BY <2>2, MasterAssumption
  <2>5. QED  BY <2>3, <2>4, ConcatProperties DEF SceneCalls
<1>3. CASE m.kind = "register"
  <2>1. /\ Call("save") \in Calls /\ Call("add") \in Calls
        /\ Send("response", None) \in Calls
    BY DEF Call, Send, PlainCalls, SendCalls
  <2>2. <<Call("save"), Send("response", None), Call("add")>> \in Seq(Calls) /\ <<>> \in Seq(Calls)
    <3> HIDE DEF Calls
    <3>1. QED  BY <2>1
  <2>3. h \in {<<>>, <<Call("save"), Send("response", None), Call("add")>>}
    BY <1>3 DEF IsHandler
  <2>4. QED  BY <1>3, <2>2, <2>3
<1>4. CASE m.kind \in {"exception", "lost"}
  <2>1. h \in {<<>>, <<Call("note"), Call("close")>>}
    BY <1>4 DEF IsHandler
  <2>2. <<>> \in Seq(Calls)
    OBVIOUS
  <2>3. QED  BY <1>4, <2>1, <2>2
<1>5. CASE m.kind = "request"
  <2>1. m.scene \in Scenes
    BY <1>5 DEF Messages, Incoming
  <2>2. h = <<>> \/ (listed /\ \E n \in 0 .. Rounds : h = SceneCalls(m.scene, n))
    BY <1>5 DEF IsHandler
  <2>3. <<>> \in Seq(Calls)
    OBVIOUS
  <2>4. h \in Seq(Calls)
    <3> HIDE DEF Calls
    <3>1. QED  BY <1>2, <2>1, <2>2, <2>3
  <2>5. QED  BY <1>5, <2>2, <2>4
<1>6. CASE m.kind = "answer"
  <2>1. m.tag \in Labels /\ m.tag[1] \in Scenes
    BY <1>6 DEF Messages, Incoming, Labels
  <2>2. Free(m.tag) \in PlainCalls
    BY <2>1 DEF Free, PlainCalls
  <2>3. NextJob(m.tag[1]) \in Seq(Calls)
    BY <2>1, JobsArePlain, SeqMonotonic
  <2>4. <<Free(m.tag)>> \in Seq(Calls) /\ <<>> \in Seq(Calls)
    BY <2>2
  <2>5. FinishCalls(m.tag[1]) \in Seq(Calls)
    BY <2>1, FinishIsPlain
  <2>6. h \in {<<>>, <<Free(m.tag)>> \o NextJob(m.tag[1]), NextJob(m.tag[1]),
               FinishCalls(m.tag[1]) \o <<Free(m.tag)>>}
    BY <1>6 DEF IsHandler
  <2>7. QED  BY <1>6, <2>3, <2>4, <2>5, <2>6, ConcatProperties
<1>7. CASE m.kind = "status"
  BY <1>7 DEF IsHandler
<1>8. QED  BY <1>3, <1>4, <1>5, <1>6, <1>7 DEF Messages, Incoming

-----------------------------------------------------------------------------
(* TypeInv is inductive.                                                   *)

LEMMA TypeInit == Init => TypeInv
<1> SUFFICES ASSUME Init PROVE TypeInv
  OBVIOUS
<1>1. <<>> \in Seq(Incoming) /\ <<>> \in Seq(Packets)
  OBVIOUS
<1>2. queue \in [Threads -> Seq(Messages)] /\ calls \in [Threads -> Seq(AllCalls)]
  BY DEF Init
<1>3. home \in [Scenes -> Threads \cup {None}] /\ jobs \in [Scenes -> Nat]
  BY DEF Init
<1>4. QED  BY <1>1, <1>2, <1>3 DEF Init, TypeInv

LEMMA EnvironmentKeepsTypes ==
    ASSUME TypeInv, ServerAccepts \/ WorkerAnswers \/ WorkerDies
    PROVE  TypeInv'
<1>1. CASE ServerAccepts
  <2>1. <<Register>> \in Seq(Incoming)
    BY DEF Register, Incoming
  <2>2. QED
    BY <1>1, <2>1 DEF TypeInv, ServerAccepts, connVars, trackVars, poolVars, cmdVars
<1>2. CASE WorkerAnswers
  <2>1. PICK tag \in asked : asked' = asked \ {tag} /\ inbound' = Append(inbound, Answer(tag))
    BY <1>2 DEF WorkerAnswers
  <2>2. Answer(tag) \in Incoming
    BY <2>1 DEF Answer, Incoming, TypeInv
  <2>3. inbound' \in Seq(Incoming) /\ asked' \subseteq Labels
    BY <2>1, <2>2 DEF TypeInv
  <2>4. QED
    BY <1>2, <2>3 DEF TypeInv, WorkerAnswers, ioVars, connVars, trackVars, poolVars, cmdVars
<1>3. CASE WorkerDies
  <2>1. PICK n \in 0 .. Len(inbound) : inbound' = SubSeq(inbound, 1, n)
    BY <1>3 DEF WorkerDies
  <2>2. inbound' \in Seq(Incoming)
    BY <2>1 DEF TypeInv
  <2>3. QED
    BY <1>3, <2>2 DEF TypeInv, WorkerDies, ioVars, connVars, trackVars, poolVars, cmdVars
<1>4. QED  BY <1>1, <1>2, <1>3

LEMMA ReceiverKeepsTypes ==
    ASSUME TypeInv, Receiver
    PROVE  TypeInv'
<1>1. CASE ReceiverReads
  <2>1. Head(inbound) \in Incoming /\ Tail(inbound) \in Seq(Incoming)
    BY <1>1 DEF TypeInv, ReceiverReads
  <2>2. Listeners(Head(inbound)) \subseteq Threads \cup {None}
    BY <2>1 DEF Listeners, TypeInv, Incoming, Labels
  <2>3. recv' \in Messages \X (Threads \cup {None})
    BY <1>1, <2>1, <2>2 DEF ReceiverReads, Messages
  <2>4. QED
    BY <1>1, <2>1, <2>3 DEF TypeInv, ReceiverReads, connVars, trackVars, poolVars, cmdVars
<1>2. CASE ReceiverFails
  <2>1. recv' \in Messages \X (Threads \cup {None})
    BY <1>2 DEF ReceiverFails, Messages, Exception
  <2>2. QED
    BY <1>2, <2>1 DEF TypeInv, ReceiverFails, netVars, connVars, trackVars, poolVars, cmdVars
<1>3. CASE ReceiverNotifies
  <2>1. recv[1] \in Messages /\ recv[2] \in Threads \cup {None}
    BY <1>3 DEF TypeInv, ReceiverNotifies
  <2>2. queue' \in [Threads -> Seq(Messages)]
    BY <1>3, <2>1, PutAddsOne DEF ReceiverNotifies
  <2>3. QED
    BY <1>3, <2>2 DEF TypeInv, ReceiverNotifies, netVars, connVars, trackVars, cmdVars
<1>4. QED  BY <1>1, <1>2, <1>3 DEF Receiver

LEMMA SenderKeepsTypes ==
    ASSUME TypeInv, Sender
    PROVE  TypeInv'
<1>1. CASE SenderTakes
  <2>1. sendQ # <<>>
    BY <1>1 DEF SenderTakes, MessageToSend
  <2>2. Head(sendQ) \in Packets /\ Tail(sendQ) \in Seq(Packets)
    BY <2>1 DEF TypeInv
  <2>3. asked' \subseteq Labels
    BY <1>1, <2>2 DEF TypeInv, SenderTakes, Packets
  <2>4. sender' \in {"running", "exited"} \cup Scenes
    BY <1>1, <2>2 DEF TypeInv, SenderTakes, Packets
  <2>5. QED
    BY <1>1, <2>2, <2>3, <2>4 DEF TypeInv, SenderTakes, trackVars, poolVars, cmdVars
<1>2. CASE SenderNotifies
  <2>1. Status \in Messages /\ home[sender] \in Threads \cup {None}
    BY <1>2 DEF TypeInv, SenderNotifies, Messages, Status
  <2>2. queue' \in [Threads -> Seq(Messages)]
    BY <1>2, <2>1, PutAddsOne DEF SenderNotifies
  <2>3. QED
    BY <1>2, <2>2 DEF TypeInv, SenderNotifies, netVars, connVars, trackVars, cmdVars
<1>3. QED  BY <1>1, <1>2 DEF Sender

LEMMA AskingKeepsTypes ==
    ASSUME TypeInv, NEW s \in Scenes, ClientAsks(s)
    PROVE  TypeInv'
<1>1. PICK t \in Threads : Put(t, Request(s)) /\ home' = [home EXCEPT ![s] = t]
  BY DEF ClientAsks
<1>2. Request(s) \in Messages
  BY DEF Request, Messages
<1>3. queue' \in [Threads -> Seq(Messages)] /\ home' \in [Scenes -> Threads \cup {None}]
  BY <1>1, <1>2, PutAddsOne DEF TypeInv
<1>4. QED
  BY <1>3 DEF TypeInv, ClientAsks, netVars, ioVars, connVars, trackVars

LEMMA ThreadTakesKeepsTypes ==
    ASSUME TypeInv, NEW t \in Threads, ThreadTakes(t)
    PROVE  TypeInv'
<1> DEFINE m == Head(queue[t])
<1>1. queue' \in [Threads -> Seq(Messages)] /\ m \in Messages
  BY TakeRemovesFirst DEF ThreadTakes
<1>2. PICK h : IsHandler(m, h) /\ calls' = [calls EXCEPT ![t] = h]
  BY TakeStartsHandler
<1>3. h \in Seq(AllCalls)
  <2>1. h \in Seq(PlainCalls \cup Loops) \cup {<<Call("note"), Call("close")>>}
    BY <1>1, <1>2, HandlersArePlain
  <2>2. Call("note") \in AllCalls /\ Call("close") \in AllCalls
    BY DEF Call, AllCalls, ClosingCalls
  <2>3. <<Call("note"), Call("close")>> \in Seq(AllCalls)
    BY <2>2
  <2>4. Seq(PlainCalls \cup Loops) \subseteq Seq(AllCalls)
    BY SeqMonotonic DEF AllCalls
  <2>5. QED  BY <2>1, <2>3, <2>4
<1>4. calls' \in [Threads -> Seq(AllCalls)]
  BY <1>2, <1>3 DEF TypeInv
<1>5. listed' \in BOOLEAN
  BY DEF ThreadTakes, TypeInv, OnWorkerRegistrationRequest, OnTCPConnectionException,
         RemoveFailedJobs, OnSceneProduceRequest, OnPixelProduceResponse, OnXmitStatus
<1>6. QED
  BY <1>1, <1>4, <1>5 DEF TypeInv, ThreadTakes, netVars, ioVars, connVars

LEMMA OtherAnswerKeepsTypes ==
    ASSUME TypeInv, NEW t \in Threads, OtherAnswerFinishes(t)
    PROVE  TypeInv'
<1>1. PICK s \in Scenes : Starts(t, FinishCalls(s))
  BY DEF OtherAnswerFinishes
<1>2. FinishCalls(s) \in Seq(AllCalls)
  BY FinishIsPlain, SeqMonotonic DEF AllCalls
<1>3. calls' \in [Threads -> Seq(AllCalls)]
  BY <1>1, <1>2 DEF TypeInv, Starts
<1>4. QED
  BY <1>3 DEF TypeInv, OtherAnswerFinishes, netVars, ioVars, connVars, trackVars

\* A call puts others in its place (the body of a loop, the rest of Close).
LEMMA ThenReplacesFirst ==
    ASSUME TypeInv, NEW t \in Threads, calls[t] # <<>>,
           NEW more \in Seq(AllCalls), Then(t, more)
    PROVE  /\ calls' \in [Threads -> Seq(AllCalls)]
           /\ \A u \in Threads : \A i \in Nat : \A ops :
                  Called(ops, u, i)' =>
                      IF u # t THEN Called(ops, u, i)
                      ELSE \/ i \in DOMAIN more /\ more[i].op \in ops
                           \/ i > Len(more) /\ Called(ops, u, i - Len(more) + 1)
<1>1. calls[t] \in Seq(AllCalls) /\ Tail(calls[t]) \in Seq(AllCalls)
  BY DEF TypeInv
<1>2. \A u \in Threads : calls'[u] = IF u = t THEN more \o Tail(calls[u]) ELSE calls[u]
  BY DEF TypeInv, Then
<1>3. more \o Tail(calls[t]) \in Seq(AllCalls)
  BY <1>1
<1>4. calls' \in [Threads -> Seq(AllCalls)]
  BY <1>3 DEF TypeInv, Then
<1>5. ASSUME NEW u \in Threads, NEW i \in Nat, NEW ops, Called(ops, u, i)'
      PROVE  IF u # t THEN Called(ops, u, i)
             ELSE \/ i \in DOMAIN more /\ more[i].op \in ops
                  \/ i > Len(more) /\ Called(ops, u, i - Len(more) + 1)
  <2>1. i \in DOMAIN calls'[u] /\ calls'[u][i].op \in ops
    BY <1>5 DEF Called
  <2>2. CASE u = t
    <3> DEFINE rest == Tail(calls[t])
    <3>1. /\ DOMAIN rest = 1 .. Len(calls[t]) - 1 /\ Len(rest) = Len(calls[t]) - 1
          /\ Len(calls[t]) \in Nat /\ DOMAIN calls[t] = 1 .. Len(calls[t])
          /\ \A j \in 1 .. Len(calls[t]) - 1 : rest[j] = calls[t][j + 1]
      BY <1>1, TailShifts
    <3>2. calls'[u] = more \o rest
      BY <1>2, <2>2
    <3>3. /\ DOMAIN more = 1 .. Len(more) /\ Len(more) \in Nat
          /\ i \in 1 .. Len(more) + Len(rest)
          /\ calls'[u][i] = IF i <= Len(more) THEN more[i] ELSE rest[i - Len(more)]
      <4> HIDE DEF rest
      <4>1. /\ DOMAIN (more \o rest) = 1 .. Len(more) + Len(rest)
            /\ \A j \in 1 .. Len(more) + Len(rest) :
                   (more \o rest)[j] = IF j <= Len(more) THEN more[j] ELSE rest[j - Len(more)]
        BY <1>1 DEF rest
      <4>2. QED  BY <2>1, <3>2, <4>1
    <3>4. CASE i <= Len(more)
      BY <2>1, <2>2, <3>3, <3>4
    <3>5. CASE i > Len(more)
      <4>1. i - Len(more) \in 1 .. Len(calls[t]) - 1
        BY <3>1, <3>3, <3>5
      <4>2. calls'[u][i] = calls[t][i - Len(more) + 1]
        BY <3>1, <3>3, <3>5, <4>1
      <4>3. i - Len(more) + 1 \in DOMAIN calls[t]
        BY <3>1, <4>1
      <4>4. QED  BY <2>1, <2>2, <3>5, <4>2, <4>3 DEF Called
    <3>6. QED  BY <3>3, <3>4, <3>5
  <2>3. CASE u # t
    BY <1>2, <2>1, <2>3 DEF Called
  <2>4. QED  BY <2>2, <2>3
<1>6. QED  BY <1>4, <1>5

LEMMA LoopBody ==
    ASSUME TypeInv, NEW t \in Threads, At(t, "each")
    PROVE  (IF listed THEN Head(calls[t]).body ELSE <<>>) \in Seq(PlainCalls)
<1>1. Head(calls[t]) \in AllCalls /\ Head(calls[t]).op = "each"
  BY CallAtHead
<1>2. Head(calls[t]) \in Loops
  BY <1>1 DEF AllCalls, PlainCalls, SendCalls, ClosingCalls
<1>3. QED  BY <1>2 DEF Loops

\* What SendMsg puts into the send queue.
Packet(c) ==
    CASE c.kind = "job"   -> [kind |-> "job", tag |-> Newest(c.scene)]
      [] c.kind = "scene" -> [kind |-> "scene", scene |-> c.scene]
      [] OTHER            -> [kind |-> c.kind]

LEMMA PacketIsSent ==
    ASSUME TypeInv, NEW c \in SendCalls
    PROVE  Packet(c) \in Packets /\ Packet(c).kind # "shutdown"
<1>1. CASE c.kind = "job"
  <2>1. c.scene \in Scenes  BY <1>1 DEF SendCalls
  <2>2. Newest(c.scene) \in Labels  BY <2>1 DEF Newest, Labels, TypeInv
  <2>3. Packet(c) = [kind |-> "job", tag |-> Newest(c.scene)]  BY <1>1 DEF Packet
  <2>4. QED  BY <2>2, <2>3 DEF Packets
<1>2. CASE c.kind = "scene"
  <2>1. c.scene \in Scenes  BY <1>2 DEF SendCalls
  <2>2. Packet(c) = [kind |-> "scene", scene |-> c.scene]  BY <1>2 DEF Packet
  <2>3. QED  BY <2>1, <2>2 DEF Packets
<1>3. CASE c.kind \in {"response", "cleanup"}
  <2>1. Packet(c) = [kind |-> c.kind]  BY <1>3 DEF Packet
  <2>2. QED  BY <1>3, <2>1 DEF Packets
<1>4. QED  BY <1>1, <1>2, <1>3 DEF SendCalls

\* The other calls of a scheduler thread.
LEMMA CallsKeepTypes ==
    ASSUME TypeInv, NEW t \in Threads,
           \/ ForEachWorker(t) \/ SaveConnection(t) \/ AddWorker(t) \/ NotifyHostFailure(t)
           \/ AllocateAppTag(t) \/ RegisterNotification(t) \/ FreeAppTag(t)
           \/ TrackJob(t) \/ FinishScene(t)
           \/ Lock(t) \/ SendMsg(t) \/ SendMsgClosed(t)
           \/ CloseShutsDown(t) \/ CloseNotifies(t) \/ CloseReturns(t)
    PROVE  TypeInv'
<1> DEFINE c == Head(calls[t])
<1>1. ASSUME NEW op, At(t, op), Return(t)
      PROVE  calls' \in [Threads -> Seq(AllCalls)] /\ c \in AllCalls /\ c.op = op
  BY <1>1, CallAtHead, ReturnRemovesFirst
<1>2. ASSUME NEW op, At(t, op), op \in {"allocate", "register"}
      PROVE  c.scene \in Scenes
  BY <1>2, CallAtHead DEF AllCalls, PlainCalls, SendCalls, Loops, ClosingCalls
<1>3. ASSUME At(t, "send")
      PROVE  c \in SendCalls
  BY <1>3, CallAtHead DEF AllCalls, PlainCalls, SendCalls, Loops, ClosingCalls
<1>4. CASE ForEachWorker(t)
  <2>1. (IF listed THEN c.body ELSE <<>>) \in Seq(AllCalls)
    BY <1>4, LoopBody, SeqMonotonic DEF ForEachWorker, AllCalls
  <2>2. calls' \in [Threads -> Seq(AllCalls)]
    BY <1>4, <2>1, ThenReplacesFirst DEF ForEachWorker, At
  <2>3. QED
    BY <1>4, <2>2 DEF TypeInv, ForEachWorker, netVars, ioVars, connVars, trackVars, cmdVars
<1>5. CASE SaveConnection(t)
  BY <1>1, <1>5 DEF TypeInv, SaveConnection, netVars, ioVars, connVars, cmdVars
<1>6. CASE AddWorker(t)
  BY <1>1, <1>6 DEF TypeInv, AddWorker, netVars, ioVars, connVars, cmdVars
<1>7. CASE NotifyHostFailure(t)
  BY <1>1, <1>7 DEF TypeInv, NotifyHostFailure, netVars, ioVars, connVars, cmdVars
<1>8. CASE AllocateAppTag(t)
  <2>1. jobs' \in [Scenes -> Nat]
    BY <1>2, <1>8 DEF TypeInv, AllocateAppTag
  <2>2. QED
    BY <1>1, <1>8, <2>1 DEF TypeInv, AllocateAppTag, netVars, ioVars, connVars, trackVars
<1>9. CASE RegisterNotification(t)
  <2>1. Newest(c.scene) \in Labels
    BY <1>2, <1>9 DEF TypeInv, RegisterNotification, Newest, Labels
  <2>2. routes' \subseteq Labels
    BY <1>9, <2>1 DEF TypeInv, RegisterNotification
  <2>3. QED
    BY <1>1, <1>9, <2>2 DEF TypeInv, RegisterNotification, netVars, ioVars, trackVars, cmdVars
<1>10. CASE FreeAppTag(t)
  BY <1>1, <1>10 DEF TypeInv, FreeAppTag, netVars, ioVars, trackVars, cmdVars
<1>11. CASE Lock(t)
  <2>1. CASE At(t, "close")
    <3>1. <<Call("shutdown")>> \in Seq(AllCalls)
      BY DEF Call, AllCalls, ClosingCalls
    <3>2. calls' \in [Threads -> Seq(AllCalls)]
      BY <1>11, <2>1, <3>1, ThenReplacesFirst DEF Lock, At
    <3>3. QED
      BY <1>11, <2>1, <3>2 DEF TypeInv, Lock, netVars, ioVars, trackVars, cmdVars
  <2>2. CASE ~At(t, "close")
    BY <1>11, <2>2 DEF TypeInv, Lock, netVars, ioVars, trackVars, cmdVars
  <2>3. QED  BY <2>1, <2>2
<1>12. CASE SendMsg(t)
  <2>1. Packet(c) \in Packets
    BY <1>3, <1>12, PacketIsSent DEF SendMsg
  <2>2. sendQ' = Append(sendQ, Packet(c))
    BY <1>12 DEF SendMsg, Packet
  <2>3. sendQ' \in Seq(Packets)
    BY <2>1, <2>2 DEF TypeInv
  <2>4. QED
    BY <1>1, <1>12, <2>3 DEF TypeInv, SendMsg, netVars, ioVars, trackVars, cmdVars
<1>13. CASE SendMsgClosed(t)
  <2>1. c \in SendCalls
    BY <1>3, <1>13 DEF SendMsgClosed
  <2>2. queue' \in [Threads -> Seq(Messages)]
    <3>1. CASE c.kind = "scene"
      <4>1. Lost(c.scene, saved) \in Messages /\ home[c.scene] \in Threads \cup {None}
        BY <2>1, <3>1 DEF SendCalls, Lost, Messages, TypeInv
      <4>2. Put(home[c.scene], Lost(c.scene, saved))
        BY <1>13, <3>1 DEF SendMsgClosed
      <4>3. QED  BY <4>1, <4>2, PutAddsOne
    <3>2. CASE c.kind # "scene"
      BY <1>13, <3>2 DEF TypeInv, SendMsgClosed
    <3>3. QED  BY <3>1, <3>2
  <2>3. QED
    BY <1>1, <1>13, <2>2 DEF TypeInv, SendMsgClosed, netVars, ioVars, trackVars, cmdVars
<1>14. CASE CloseShutsDown(t)
  <2>1. [kind |-> "shutdown"] \in Packets
    BY DEF Packets
  <2>2. sendQ' \in Seq(Packets)
    BY <1>14, <2>1 DEF TypeInv, CloseShutsDown
  <2>3. <<[op |-> "clear", known |-> saved]>> \in Seq(AllCalls)
    BY DEF AllCalls, ClosingCalls, TypeInv
  <2>4. calls' \in [Threads -> Seq(AllCalls)]
    BY <1>14, <2>3, ThenReplacesFirst DEF CloseShutsDown, At
  <2>5. QED
    BY <1>14, <2>2, <2>4 DEF TypeInv, CloseShutsDown, netVars, ioVars, cmdVars
<1>15. CASE CloseNotifies(t)
  <2>1. PICK tag \in routes :
            Put(home[tag[1]], Lost(tag[1], c.known)) /\ routes' = routes \ {tag}
    BY <1>15 DEF CloseNotifies
  <2>2. tag[1] \in Scenes
    BY <2>1 DEF TypeInv, Labels
  <2>3. c.known \in BOOLEAN
    BY <1>15, CallAtHead DEF CloseNotifies, AllCalls, PlainCalls, SendCalls, Loops, ClosingCalls
  <2>4. Lost(tag[1], c.known) \in Messages /\ home[tag[1]] \in Threads \cup {None}
    BY <2>2, <2>3 DEF Lost, Messages, TypeInv
  <2>5. queue' \in [Threads -> Seq(Messages)]
    BY <2>1, <2>4, PutAddsOne
  <2>6. QED
    BY <1>15, <2>1, <2>5 DEF TypeInv, CloseNotifies, netVars, ioVars, trackVars, cmdVars
<1>16. CASE CloseReturns(t)
  BY <1>1, <1>16 DEF TypeInv, CloseReturns, netVars, ioVars, trackVars, cmdVars
<1>17. CASE TrackJob(t)
  BY <1>1, <1>17 DEF TypeInv, TrackJob, netVars, ioVars, connVars
<1>18. CASE FinishScene(t)
  BY <1>1, <1>18 DEF TypeInv, FinishScene, netVars, ioVars, connVars, trackVars
<1>19. QED
  BY <1>17, <1>18, <1>4, <1>5, <1>6, <1>7, <1>8, <1>9, <1>10, <1>11, <1>12, <1>13, <1>14,
     <1>15, <1>16

LEMMA TypeStep == TypeInv /\ [Next]_vars => TypeInv'
<1> SUFFICES ASSUME TypeInv, [Next]_vars PROVE TypeInv'
  OBVIOUS
<1>1. CASE ServerAccepts \/ WorkerAnswers \/ WorkerDies
  BY <1>1, EnvironmentKeepsTypes
<1>2. CASE Receiver \/ Sender
  BY <1>2, ReceiverKeepsTypes, SenderKeepsTypes
<1>3. CASE \E s \in Scenes : ClientAsks(s)
  BY <1>3, AskingKeepsTypes
<1>4. CASE \E t \in Threads : Thread(t) \/ OtherAnswerFinishes(t)
  BY <1>4, ThreadTakesKeepsTypes, OtherAnswerKeepsTypes, CallsKeepTypes DEF Thread
<1>5. CASE UNCHANGED vars
  BY <1>5 DEF vars, netVars, ioVars, connVars, trackVars, poolVars, cmdVars, TypeInv
<1>6. QED  BY <1>1, <1>2, <1>3, <1>4, <1>5 DEF Next

-----------------------------------------------------------------------------
(* EndInv is inductive.                                                    *)

LEMMA EndInit == Init => EndInv
BY DEF Init, EndInv, EndOfWire, EndInQueues, EndInCalls, Ended, Carried, Queued, Called

LEMMA PutKeepsEnd ==
    ASSUME TypeInv, EndInQueues, NEW t \in Threads \cup {None}, NEW m \in Messages, Put(t, m),
           Ended => Ended', closed => closed',
           m.kind = "exception" => Ended', m.kind = "lost" => closed',
           m.kind = "answer" => ~closed
    PROVE  EndInQueues'
<1>1. ASSUME NEW u \in Threads, NEW i \in Nat, Queued("exception", u, i)'
      PROVE  Ended'
  BY <1>1, PutAddsOne DEF EndInQueues
<1>2. ASSUME NEW u \in Threads, NEW i \in Nat, Queued("lost", u, i)'
      PROVE  closed'
  BY <1>2, PutAddsOne DEF EndInQueues
<1>3. ASSUME NEW u \in Threads, NEW i \in Nat, NEW j \in Nat,
             Queued("lost", u, i)', Queued("answer", u, j)'
      PROVE  j < i
  <2>1. \/ Queued("lost", u, i)
        \/ u = t /\ i = Len(queue[u]) + 1 /\ m.kind = "lost"
    BY <1>3, PutAddsOne
  <2>2. \/ Queued("answer", u, j)
        \/ u = t /\ j = Len(queue[u]) + 1 /\ m.kind = "answer"
    BY <1>3, PutAddsOne
  <2>3. Queued("answer", u, j) => j \in 1 .. Len(queue[u])
    BY PutAddsOne
  <2>4. Len(queue[u]) \in Nat
    BY DEF TypeInv
  <2>5. m.kind = "answer" => ~Queued("lost", u, i)
    BY DEF EndInQueues
  <2>6. QED  BY <2>1, <2>2, <2>3, <2>4, <2>5 DEF EndInQueues
<1>4. QED  BY <1>1, <1>2, <1>3 DEF EndInQueues

LEMMA TakeKeepsEnd ==
    ASSUME TypeInv, EndInQueues, NEW t \in Threads, queue[t] # <<>>,
           queue' = [queue EXCEPT ![t] = Tail(@)], Ended => Ended', closed => closed'
    PROVE  EndInQueues'
<1>1. ASSUME NEW u \in Threads, NEW i \in Nat, Queued("exception", u, i)'
      PROVE  Ended'
  <2>1. IF u = t THEN Queued("exception", u, i + 1) ELSE Queued("exception", u, i)
    BY <1>1, TakeRemovesFirst
  <2>2. QED  BY <2>1 DEF EndInQueues
<1>2. ASSUME NEW u \in Threads, NEW i \in Nat, Queued("lost", u, i)'
      PROVE  closed'
  <2>1. IF u = t THEN Queued("lost", u, i + 1) ELSE Queued("lost", u, i)
    BY <1>2, TakeRemovesFirst
  <2>2. QED  BY <2>1 DEF EndInQueues
<1>3. ASSUME NEW u \in Threads, NEW i \in Nat, NEW j \in Nat,
             Queued("lost", u, i)', Queued("answer", u, j)'
      PROVE  j < i
  <2>1. IF u = t THEN Queued("lost", u, i + 1) /\ Queued("answer", u, j + 1)
        ELSE Queued("lost", u, i) /\ Queued("answer", u, j)
    BY <1>3, TakeRemovesFirst
  <2>2. QED  BY <2>1 DEF EndInQueues
<1>4. QED  BY <1>1, <1>2, <1>3 DEF EndInQueues

LEMMA ReturnKeepsEnd ==
    ASSUME TypeInv, EndInCalls, NEW t \in Threads, calls[t] # <<>>, Return(t),
           Ended => Ended', closed => closed'
    PROVE  EndInCalls'
BY ReturnRemovesFirst DEF EndInCalls

LEMMA PlainCallsDoNotEnd ==
    \A c \in PlainCalls \cup Loops : c.op \notin EndOps
BY DEF PlainCalls, SendCalls, Loops, EndOps

LEMMA TransportKeepsEnd ==
    ASSUME TypeInv, EndInv,
           \/ ServerAccepts \/ Receiver \/ Sender \/ WorkerAnswers \/ WorkerDies
           \/ \E s \in Scenes : ClientAsks(s)
    PROVE  EndInv'
<1>1. CASE ServerAccepts
  BY <1>1 DEF ServerAccepts, connVars, poolVars, EndInv, EndOfWire, EndInQueues, EndInCalls,
              Ended, Carried, Queued, Called
<1>2. CASE ReceiverReads
  <2>1. ~Ended /\ ~Ended'
    BY <1>2 DEF ReceiverReads, Ended
  <2>2. ~Carried("exception")' /\ ~Carried("lost")'
    <3>1. Head(inbound).kind \in {"register", "answer"}
      <4>1. Head(inbound) \in Incoming  BY <1>2 DEF ReceiverReads, TypeInv
      <4>2. QED  BY <4>1 DEF Incoming
    <3>2. recv'[1] = Head(inbound)
      BY <1>2 DEF ReceiverReads
    <3>3. QED  BY <3>1, <3>2 DEF Carried
  <2>3. QED
    BY <1>2, <2>1, <2>2 DEF ReceiverReads, connVars, poolVars, EndInv, EndOfWire, EndInQueues,
                            EndInCalls, Queued, Called
<1>3. CASE ReceiverFails
  <2>1. Ended' /\ peer' = "down" /\ inbound' = <<>>
    BY <1>3 DEF ReceiverFails, EndOfInput, netVars, Ended
  <2>2. recv' # <<>> /\ recv'[1].kind = "exception"
    BY <1>3 DEF ReceiverFails, Exception
  <2>3. EndOfWire'
    BY <2>1, <2>2 DEF EndOfWire, Carried
  <2>4. QED
    BY <1>3, <2>1, <2>3 DEF ReceiverFails, connVars, poolVars, EndInv, EndInQueues,
                            EndInCalls, Queued, Called
<1>4. CASE ReceiverNotifies
  <2>1. recv[1] \in Messages /\ recv[2] \in Threads \cup {None}
    BY <1>4 DEF TypeInv, ReceiverNotifies
  <2>2. UNCHANGED <<Ended, closed>>
    BY <1>4 DEF ReceiverNotifies, netVars, connVars, Ended
  <2>3. EndInQueues'
    <3>1. recv[1].kind = "exception" => Ended
      BY <1>4 DEF ReceiverNotifies, EndInv, EndOfWire, Carried
    <3>2. recv[1].kind # "lost"
      BY <1>4 DEF ReceiverNotifies, EndInv, EndOfWire, Carried
    <3>3. recv[1].kind = "answer" => ~closed
      BY <1>4 DEF ReceiverNotifies, EndInv, EndOfWire, Carried
    <3>4. Put(recv[2], recv[1])
      BY <1>4 DEF ReceiverNotifies
    <3>5. QED  BY <2>1, <2>2, <3>1, <3>2, <3>3, <3>4, PutKeepsEnd DEF EndInv
  <2>4. EndOfWire'
    BY <1>4, <2>2 DEF ReceiverNotifies, netVars, connVars, EndInv, EndOfWire, Carried
  <2>5. QED
    BY <1>4, <2>2, <2>3, <2>4 DEF ReceiverNotifies, EndInv, EndInCalls, Called
<1>5. CASE SenderTakes
  BY <1>5 DEF SenderTakes, trackVars, poolVars, EndInv, EndOfWire, EndInQueues, EndInCalls,
              Ended, Carried, Queued, Called
<1>6. CASE SenderNotifies
  <2>1. Status \in Messages /\ home[sender] \in Threads \cup {None} /\ Status.kind = "status"
    BY <1>6 DEF TypeInv, SenderNotifies, Messages, Status
  <2>2. UNCHANGED <<Ended, closed>>
    BY <1>6 DEF SenderNotifies, netVars, connVars, Ended
  <2>3. EndInQueues'
    BY <1>6, <2>1, <2>2, PutKeepsEnd DEF SenderNotifies, EndInv
  <2>4. QED
    BY <1>6, <2>2, <2>3 DEF SenderNotifies, netVars, connVars, EndInv, EndOfWire,
                            EndInCalls, Carried, Called
<1>7. CASE \E s \in Scenes : ClientAsks(s)
  <2>1. PICK s \in Scenes : ClientAsks(s)
    BY <1>7
  <2>2. PICK t \in Threads : Put(t, Request(s))
    BY <2>1 DEF ClientAsks
  <2>3. Request(s) \in Messages /\ Request(s).kind = "request"
    BY DEF Request, Messages
  <2>4. UNCHANGED <<Ended, closed>>
    BY <2>1 DEF ClientAsks, netVars, ioVars, connVars, Ended
  <2>5. EndInQueues'
    BY <2>2, <2>3, <2>4, PutKeepsEnd DEF EndInv
  <2>6. QED
    BY <2>1, <2>4, <2>5 DEF ClientAsks, netVars, ioVars, connVars, EndInv, EndOfWire,
                            EndInCalls, Carried, Called
<1>8. CASE WorkerAnswers
  BY <1>8 DEF WorkerAnswers, ioVars, connVars, poolVars, EndInv, EndOfWire, EndInQueues,
              EndInCalls, Ended, Carried, Queued, Called
<1>9. CASE WorkerDies
  BY <1>9 DEF WorkerDies, ioVars, connVars, poolVars, EndInv, EndOfWire, EndInQueues,
              EndInCalls, Ended, Carried, Queued, Called
<1>10. QED
  BY <1>1, <1>2, <1>3, <1>4, <1>5, <1>6, <1>7, <1>8, <1>9 DEF Receiver, Sender

LEMMA ThreadTakesKeepsEnd ==
    ASSUME TypeInv, EndInv, NEW t \in Threads, ThreadTakes(t)
    PROVE  EndInv'
<1> DEFINE m == Head(queue[t])
<1>1. /\ m \in Messages
      /\ m.kind = "exception" => Queued("exception", t, 1)
      /\ m.kind = "lost" => Queued("lost", t, 1)
  BY TakeRemovesFirst DEF ThreadTakes
<1>2. UNCHANGED <<Ended, closed, peer, inbound, recv>>
  BY DEF ThreadTakes, netVars, ioVars, connVars, Ended
<1>3. EndOfWire'
  BY <1>2 DEF EndInv, EndOfWire, Carried
<1>4. EndInQueues'
  BY <1>2, TakeKeepsEnd DEF EndInv, ThreadTakes
<1>10. PICK h : IsHandler(m, h) /\ calls' = [calls EXCEPT ![t] = h]
  BY TakeStartsHandler
<1>5. \A u \in Threads : calls'[u] = IF u = t THEN h ELSE calls[u]
  BY <1>10 DEF TypeInv
<1>6. ASSUME NEW i \in Nat
      PROVE  /\ Called(EndOps, t, i)' => Ended'
             /\ ~Called({"shutdown", "clear"}, t, i)'
  <2>1. CASE m.kind \in {"exception", "lost"}
    <3>1. calls'[t] \in {<<>>, <<Call("note"), Call("close")>>}
      BY <1>10, <1>5, <2>1 DEF IsHandler
    <3>2. Ended'
      BY <1>1, <1>2, <2>1 DEF EndInv, EndInQueues, EndOfWire
    <3>3. QED  BY <3>1, <3>2 DEF Called, Call
  <2>2. CASE m.kind \notin {"exception", "lost"}
    <3>1. calls'[t] \in Seq(PlainCalls \cup Loops)
      BY <1>10, <1>1, <1>5, <2>2, HandlersArePlain
    <3>2. \A j \in DOMAIN calls'[t] : calls'[t][j] \in PlainCalls \cup Loops
      BY <3>1
    <3>3. QED  BY <3>2, PlainCallsDoNotEnd DEF Called, EndOps
  <2>3. QED  BY <2>1, <2>2
<1>7. ASSUME NEW u \in Threads, NEW i \in Nat, u # t
      PROVE  /\ Called(EndOps, u, i)' => Ended'
             /\ Called({"shutdown", "clear"}, u, i)' => closed'
  BY <1>2, <1>5, <1>7 DEF EndInv, EndInCalls, Called
<1>8. EndInCalls'
  BY <1>6, <1>7 DEF EndInCalls
<1>9. QED  BY <1>3, <1>4, <1>8 DEF EndInv

LEMMA OtherAnswerKeepsEnd ==
    ASSUME TypeInv, EndInv, NEW t \in Threads, OtherAnswerFinishes(t)
    PROVE  EndInv'
<1>1. PICK s \in Scenes : Starts(t, FinishCalls(s))
  BY DEF OtherAnswerFinishes
<1>2. \A u \in Threads : calls'[u] = IF u = t THEN FinishCalls(s) ELSE calls[u]
  BY <1>1 DEF Starts, TypeInv
<1>3. \A j \in DOMAIN FinishCalls(s) : FinishCalls(s)[j] \in PlainCalls \cup Loops
  BY FinishIsPlain
<1>4. \A j \in DOMAIN FinishCalls(s) : FinishCalls(s)[j].op \notin EndOps
  BY <1>3, PlainCallsDoNotEnd
<1>5. UNCHANGED <<Ended, closed, peer, inbound, recv, queue>>
  BY DEF OtherAnswerFinishes, netVars, ioVars, connVars, Ended
<1>6. EndOfWire' /\ EndInQueues'
  BY <1>5 DEF EndInv, EndOfWire, EndInQueues, Carried, Queued
<1>7. EndInCalls'
  BY <1>2, <1>4, <1>5 DEF EndInv, EndInCalls, Called, EndOps
<1>8. QED  BY <1>6, <1>7 DEF EndInv

\* No call but Close closes the connection, and Close tells the commands.
LEMMA CallsKeepEnd ==
    ASSUME TypeInv, EndInv, NEW t \in Threads,
           \/ ForEachWorker(t) \/ SaveConnection(t) \/ AddWorker(t) \/ NotifyHostFailure(t)
           \/ AllocateAppTag(t) \/ RegisterNotification(t) \/ FreeAppTag(t)
           \/ TrackJob(t) \/ FinishScene(t)
           \/ Lock(t) \/ SendMsg(t) \/ SendMsgClosed(t)
           \/ CloseShutsDown(t) \/ CloseNotifies(t) \/ CloseReturns(t)
    PROVE  EndInv'
<1>1. UNCHANGED <<peer, inbound, recv, Ended>>
  <2>1. UNCHANGED <<netVars, ioVars>>
    <3>1. CASE ForEachWorker(t) \/ SaveConnection(t) \/ AddWorker(t) \/ NotifyHostFailure(t)
      BY <3>1 DEF ForEachWorker, SaveConnection, AddWorker, NotifyHostFailure
    <3>2. CASE AllocateAppTag(t) \/ RegisterNotification(t) \/ FreeAppTag(t)
      BY <3>2 DEF AllocateAppTag, RegisterNotification, FreeAppTag
    <3>3. CASE Lock(t) \/ SendMsg(t) \/ SendMsgClosed(t)
      BY <3>3 DEF Lock, SendMsg, SendMsgClosed
    <3>4. CASE CloseShutsDown(t) \/ CloseNotifies(t) \/ CloseReturns(t)
      BY <3>4 DEF CloseShutsDown, CloseNotifies, CloseReturns
    <3>5. CASE TrackJob(t) \/ FinishScene(t)
      BY <3>5 DEF TrackJob, FinishScene
    <3>6. QED  BY <3>1, <3>2, <3>3, <3>4, <3>5
  <2>2. QED  BY <2>1 DEF netVars, ioVars, Ended
<1>2. ASSUME UNCHANGED closed PROVE EndOfWire'
  BY <1>1, <1>2 DEF EndInv, EndOfWire, Carried
<1>3. ASSUME UNCHANGED <<closed, queue>>
      PROVE  EndOfWire' /\ EndInQueues'
  BY <1>1, <1>2, <1>3 DEF EndInv, EndInQueues, Queued
<1>4. ASSUME UNCHANGED <<closed, queue>>, NEW op, At(t, op), Return(t)
      PROVE  EndInv'
  BY <1>1, <1>3, <1>4, ReturnKeepsEnd, CallAtHead DEF EndInv
<1>5. CASE ForEachWorker(t)
  <2> DEFINE more == IF listed THEN Head(calls[t]).body ELSE <<>>
  <2>1. more \in Seq(PlainCalls) /\ more \in Seq(AllCalls)
    BY <1>5, LoopBody, SeqMonotonic DEF ForEachWorker, AllCalls
  <2>2. \A i \in DOMAIN more : more[i].op \notin EndOps
    <3>1. \A i \in DOMAIN more : more[i] \in PlainCalls
      <4> HIDE DEF more
      <4>1. QED  BY <2>1
    <3>2. QED  BY <3>1, PlainCallsDoNotEnd
  <2>3. UNCHANGED <<closed, queue>> /\ Then(t, more) /\ calls[t] # <<>>
    BY <1>5 DEF ForEachWorker, At, connVars
  <2>4. EndInCalls'
    <3> HIDE DEF more
    <3>1. ASSUME NEW u \in Threads, NEW i \in Nat, NEW ops \in SUBSET EndOps, Called(ops, u, i)'
          PROVE  \E j \in Nat : Called(ops, u, j)
      <4>1. Len(more) \in Nat  BY <2>1
      <4>2. IF u # t THEN Called(ops, u, i)
            ELSE \/ i \in DOMAIN more /\ more[i].op \in ops
                 \/ i > Len(more) /\ Called(ops, u, i - Len(more) + 1)
        BY <2>1, <2>3, <3>1, ThenReplacesFirst
      <4>3. QED  BY <2>2, <4>1, <4>2
    <3>2. EndOps \subseteq EndOps /\ {"shutdown", "clear"} \subseteq EndOps
      BY DEF EndOps
    <3>3. QED  BY <1>1, <2>3, <3>1, <3>2 DEF EndInv, EndInCalls
  <2>5. QED  BY <1>3, <2>3, <2>4 DEF EndInv
<1>6. CASE SaveConnection(t)
  BY <1>4, <1>6 DEF SaveConnection, connVars
<1>7. CASE AddWorker(t)
  BY <1>4, <1>7 DEF AddWorker, connVars
<1>8. CASE NotifyHostFailure(t)
  BY <1>4, <1>8 DEF NotifyHostFailure, connVars
<1>9. CASE AllocateAppTag(t)
  BY <1>4, <1>9 DEF AllocateAppTag, connVars
<1>10. CASE RegisterNotification(t)
  BY <1>4, <1>10 DEF RegisterNotification
<1>11. CASE FreeAppTag(t)
  BY <1>4, <1>11 DEF FreeAppTag
<1>12. CASE Lock(t)
  <2>1. CASE At(t, "close")
    <3> DEFINE more == <<Call("shutdown")>>
    <3>1. more \in Seq(AllCalls) /\ Len(more) = 1
      BY DEF Call, AllCalls, ClosingCalls
    <3>2. closed' = TRUE /\ Then(t, more) /\ calls[t] # <<>> /\ UNCHANGED queue
      BY <1>12, <2>1 DEF Lock, At
    <3>3. Ended
      <4>1. Called(EndOps, t, 1)  BY <2>1, CallAtHead DEF EndOps
      <4>2. QED  BY <4>1 DEF EndInv, EndInCalls
    <3>4. EndOfWire' /\ EndInQueues' /\ EndInCalls'
      BY <1>1, <3>2, <3>3 DEF EndInv, EndOfWire, EndInQueues, EndInCalls, Carried, Queued
    <3>5. QED  BY <3>4 DEF EndInv
  <2>2. CASE ~At(t, "close")
    <3>1. UNCHANGED <<closed, queue, calls>>
      BY <1>12, <2>2 DEF Lock
    <3>2. QED  BY <1>1, <1>3, <3>1 DEF EndInv, EndInCalls, Called
  <2>3. QED  BY <2>1, <2>2
<1>13. CASE SendMsg(t)
  BY <1>4, <1>13 DEF SendMsg
<1>14. CASE SendMsgClosed(t)
  <2> DEFINE c == Head(calls[t])
  <2>1. UNCHANGED closed /\ closed
    BY <1>14 DEF SendMsgClosed, Accepts, TypeInv
  <2>2. EndInCalls'
    BY <1>1, <1>14, <2>1, ReturnKeepsEnd DEF SendMsgClosed, At, EndInv
  <2>3. CASE c.kind = "scene"
    <3>1. c.scene \in Scenes
      BY <1>14, <2>3, CallAtHead
      DEF SendMsgClosed, AllCalls, PlainCalls, SendCalls, Loops, ClosingCalls
    <3>2. Lost(c.scene, saved) \in Messages /\ home[c.scene] \in Threads \cup {None}
      BY <3>1 DEF Lost, Messages, TypeInv
    <3>3. Lost(c.scene, saved).kind = "lost"
      BY DEF Lost
    <3>4. Put(home[c.scene], Lost(c.scene, saved))
      BY <1>14, <2>3 DEF SendMsgClosed
    <3>5. EndInQueues'
      BY <1>1, <2>1, <3>2, <3>3, <3>4, PutKeepsEnd DEF EndInv
    <3>6. QED  BY <1>2, <2>1, <2>2, <3>5 DEF EndInv
  <2>4. CASE c.kind # "scene"
    <3>1. UNCHANGED queue
      BY <1>14, <2>4 DEF SendMsgClosed
    <3>2. QED  BY <1>3, <2>1, <2>2, <3>1 DEF EndInv
  <2>5. QED  BY <2>3, <2>4
<1>15. CASE CloseShutsDown(t)
  <2> DEFINE more == <<[op |-> "clear", known |-> saved]>>
  <2>1. more \in Seq(AllCalls) /\ Len(more) = 1
    BY DEF AllCalls, ClosingCalls, TypeInv
  <2>2. UNCHANGED <<closed, queue>> /\ Then(t, more) /\ calls[t] # <<>>
    BY <1>15 DEF CloseShutsDown, At
  <2>3. closed /\ Ended
    <3>1. Called({"shutdown", "clear"}, t, 1)
      BY <1>15, CallAtHead DEF CloseShutsDown
    <3>2. QED  BY <3>1 DEF EndInv, EndInCalls, EndOfWire
  <2>4. EndInCalls'
    BY <1>1, <2>2, <2>3 DEF EndInCalls
  <2>5. QED  BY <1>3, <2>2, <2>4 DEF EndInv
<1>16. CASE CloseNotifies(t)
  <2> DEFINE known == Head(calls[t]).known
  <2>1. PICK tag \in routes : Put(home[tag[1]], Lost(tag[1], known))
    BY <1>16 DEF CloseNotifies
  <2>2. tag[1] \in Scenes /\ known \in BOOLEAN
    <3>1. tag[1] \in Scenes
      BY <2>1 DEF TypeInv, Labels
    <3>2. Head(calls[t]) \in AllCalls /\ Head(calls[t]).op = "clear"
      BY <1>16, CallAtHead DEF CloseNotifies
    <3>3. QED
      BY <3>1, <3>2 DEF AllCalls, PlainCalls, SendCalls, Loops, ClosingCalls
  <2>3. Lost(tag[1], known) \in Messages /\ home[tag[1]] \in Threads \cup {None}
    BY <2>2 DEF Lost, Messages, TypeInv
  <2>4. Lost(tag[1], known).kind = "lost"
    BY DEF Lost
  <2>5. UNCHANGED <<closed, calls>>
    BY <1>16 DEF CloseNotifies
  <2>6. closed
    <3>1. Called({"shutdown", "clear"}, t, 1)
      BY <1>16, CallAtHead DEF CloseNotifies
    <3>2. QED  BY <3>1 DEF EndInv, EndInCalls
  <2>7. EndInQueues'
    BY <1>1, <2>1, <2>3, <2>4, <2>5, <2>6, PutKeepsEnd DEF EndInv
  <2>8. QED  BY <1>1, <1>2, <2>5, <2>7 DEF EndInv, EndInCalls, Called
<1>17. CASE CloseReturns(t)
  BY <1>4, <1>17 DEF CloseReturns
<1>18. CASE TrackJob(t)
  BY <1>4, <1>18 DEF TrackJob, connVars
<1>19. CASE FinishScene(t)
  BY <1>4, <1>19 DEF FinishScene, connVars
<1>20. QED
  BY <1>18, <1>19, <1>5, <1>6, <1>7, <1>8, <1>9, <1>10, <1>11, <1>12, <1>13, <1>14, <1>15,
     <1>16, <1>17

LEMMA EndStep == TypeInv /\ EndInv /\ [Next]_vars => EndInv'
<1> SUFFICES ASSUME TypeInv, EndInv, [Next]_vars PROVE EndInv'
  OBVIOUS
<1>1. CASE \/ ServerAccepts \/ Receiver \/ Sender \/ WorkerAnswers \/ WorkerDies
           \/ \E s \in Scenes : ClientAsks(s)
  BY <1>1, TransportKeepsEnd
<1>2. CASE \E t \in Threads : Thread(t) \/ OtherAnswerFinishes(t)
  BY <1>2, ThreadTakesKeepsEnd, OtherAnswerKeepsEnd, CallsKeepEnd DEF Thread
<1>3. CASE UNCHANGED vars
  BY <1>3 DEF vars, netVars, ioVars, connVars, trackVars, poolVars, EndInv, EndOfWire,
              EndInQueues, EndInCalls, Ended, Carried, Queued, Called
<1>4. QED  BY <1>1, <1>2, <1>3 DEF Next

\* A command has all the answers of a connection before it hears of its end
\* (tcp_io_send_recv.cpp:114-155, tcp_io_connection.cpp:249-255): the receiver
\* reports the failure when everything has been read and handed on, only its
\* report makes a thread close the connection, and every queue keeps its order.
THEOREM AnswersComeFirst == Spec => []AnswersBeforeException
<1>1. TypeInv /\ EndInv => AnswersBeforeException
  <2> SUFFICES ASSUME TypeInv, EndInv, NEW t \in Threads, NEW i \in DOMAIN queue[t],
                      queue[t][i].kind = "lost", NEW s
               PROVE  /\ \A j \in i .. Len(queue[t]) : ~IsAnswerOf(queue[t][j], s)
                      /\ \A m \in Range(inbound) \cup (IF recv = <<>> THEN {} ELSE {recv[1]}) :
                             ~IsAnswerOf(m, s)
    BY DEF AnswersBeforeException
  <2>1. queue[t] \in Seq(Messages) /\ DOMAIN queue[t] = 1 .. Len(queue[t]) /\ i \in Nat
    BY DEF TypeInv
  <2>2. Queued("lost", t, i)
    BY DEF Queued
  <2>3. ASSUME NEW j \in i .. Len(queue[t]), IsAnswerOf(queue[t][j], s) PROVE FALSE
    <3>1. j \in Nat /\ Queued("answer", t, j) /\ ~(j < i)
      BY <2>1, <2>3 DEF Queued, IsAnswerOf
    <3>2. QED  BY <2>1, <2>2, <3>1 DEF EndInv, EndInQueues
  <2>4. Ended
    BY <2>1, <2>2 DEF EndInv, EndInQueues, EndOfWire
  <2>5. Range(inbound) = {}
    BY <2>4 DEF EndInv, EndOfWire, Range
  <2>6. recv # <<>> => ~IsAnswerOf(recv[1], s)
    BY <2>4 DEF EndInv, EndOfWire, Carried, IsAnswerOf
  <2>7. QED  BY <2>3, <2>5, <2>6
<1>2. Init => TypeInv /\ EndInv
  BY TypeInit, EndInit
<1>3. TypeInv /\ EndInv /\ [Next]_vars => TypeInv' /\ EndInv'
  BY TypeStep, EndStep
<1>4. QED  BY <1>1, <1>2, <1>3, PTL DEF Spec

-----------------------------------------------------------------------------
(* QuietInv is inductive.                                                  *)

LEMMA ScenesAreNoStates == "running" \notin Scenes /\ "exited" \notin Scenes
BY MasterAssumption

LEMMA QuietInit == Init => QuietInv
BY DEF Init, QuietInv

LEMMA QuietStep == TypeInv /\ QuietInv /\ [Next]_vars => QuietInv'
<1> SUFFICES ASSUME TypeInv, QuietInv, [Next]_vars, peer' = "connecting"
             PROVE  QuietInv'
  BY DEF QuietInv
<1>1. CASE ServerAccepts
  BY <1>1 DEF ServerAccepts, connVars, trackVars, poolVars, cmdVars, QuietInv
<1>2. CASE Receiver
  <2>1. peer = "connecting"
    BY <1>2 DEF Receiver, ReceiverReads, ReceiverFails, ReceiverNotifies, netVars
  <2>2. QED
    BY <1>2, <2>1 DEF Receiver, ReceiverReads, ReceiverFails, ReceiverNotifies, QuietInv
<1>3. CASE Sender
  <2>1. peer = "connecting"
    BY <1>3 DEF Sender, SenderTakes, SenderNotifies, netVars
  <2>2. QED
    BY <1>3, <2>1, ScenesAreNoStates
    DEF Sender, SenderTakes, SenderNotifies, MessageToSend, QuietInv
<1>4. CASE \E s \in Scenes : ClientAsks(s)
  <2>1. PICK s \in Scenes : ClientAsks(s)
    BY <1>4
  <2>2. PICK t \in Threads : Put(t, Request(s))
    BY <2>1 DEF ClientAsks
  <2>3. Request(s) \in Messages /\ Request(s).kind = "request"
    BY DEF Request, Messages
  <2>4. /\ peer = "connecting"
        /\ UNCHANGED <<sender, sendQ, recv, inbound, listed, reading, calls, stage>>
    BY <2>1 DEF ClientAsks, netVars, ioVars, connVars, trackVars, sceneVars
  <2>5. ASSUME NEW u \in Threads, NEW i \in DOMAIN queue'[u]
        PROVE  queue'[u][i].kind = "request"
    <3>1. queue[u] \in Seq(Messages)
      BY DEF TypeInv
    <3>2. queue'[u] = IF u = t THEN Append(queue[u], Request(s)) ELSE queue[u]
      BY <2>2 DEF Put, TypeInv
    <3>3. \A j \in DOMAIN queue[u] : queue[u][j].kind = "request"
      BY <2>4 DEF QuietInv
    <3>4. CASE u # t
      BY <2>5, <3>2, <3>3, <3>4
    <3>5. CASE u = t
      <4>1. /\ i \in 1 .. Len(queue[u]) + 1 /\ Len(queue[u]) \in Nat
            /\ DOMAIN queue[u] = 1 .. Len(queue[u])
            /\ queue'[u][i] = IF i = Len(queue[u]) + 1 THEN Request(s) ELSE queue[u][i]
        BY <2>5, <3>1, <3>2, <3>5
      <4>2. QED  BY <2>3, <3>3, <4>1
    <3>6. QED  BY <3>4, <3>5
  <2>6. QED  BY <2>4, <2>5 DEF QuietInv
<1>5. CASE WorkerAnswers \/ WorkerDies
  BY <1>5 DEF WorkerAnswers, WorkerDies
<1>6. CASE \E t \in Threads : Thread(t)
  <2>1. PICK t \in Threads : Thread(t)
    BY <1>6
  <2>2. CASE ThreadTakes(t)
    <3> DEFINE m == Head(queue[t])
    <3>1. /\ peer = "connecting"
          /\ UNCHANGED <<sender, sendQ, recv, inbound, reading>>
      BY <2>2 DEF ThreadTakes, netVars, ioVars, connVars
    <3>2. queue[t] \in Seq(Messages) /\ queue[t] # <<>>
      BY <2>2 DEF ThreadTakes, TypeInv
    <3>3. m.kind = "request" /\ m \in Messages
      <4>1. m = queue[t][1] /\ 1 \in DOMAIN queue[t] /\ m \in Messages
        BY <3>2
      <4>2. QED  BY <3>1, <4>1 DEF QuietInv
    <3>4. PICK h : IsHandler(m, h) /\ calls' = [calls EXCEPT ![t] = h]
      BY <2>2, TakeStartsHandler
    <3>5. \A u \in Threads : calls'[u] = <<>>
      <4>1. h = <<>>
        BY <3>1, <3>3, <3>4, HandlersArePlain DEF QuietInv
      <4>2. QED  BY <3>1, <3>4, <4>1 DEF QuietInv, TypeInv
    <3>6. ~listed' /\ UNCHANGED stage
      <4>1. OnSceneProduceRequest(t, m)
        BY <2>2, <3>3
        DEF ThreadTakes, OnWorkerRegistrationRequest, OnTCPConnectionException,
            RemoveFailedJobs, OnPixelProduceResponse, OnXmitStatus
      <4>2. QED  BY <3>1, <4>1 DEF OnSceneProduceRequest, QuietInv
    <3>7. ASSUME NEW u \in Threads, NEW i \in DOMAIN queue'[u]
          PROVE  queue'[u][i].kind = "request"
      <4>1. queue'[u] = IF u = t THEN Tail(queue[u]) ELSE queue[u]
        BY <2>2 DEF ThreadTakes, TypeInv
      <4>2. CASE u = t
        <5>1. /\ i \in 1 .. Len(queue[t]) - 1 /\ Len(queue[t]) \in Nat
              /\ DOMAIN queue[t] = 1 .. Len(queue[t])
              /\ queue'[u][i] = queue[t][i + 1]
          BY <3>2, <3>7, <4>1, <4>2, TailShifts
        <5>2. i + 1 \in DOMAIN queue[t]
          BY <5>1
        <5>3. QED  BY <3>1, <5>1, <5>2 DEF QuietInv
      <4>3. CASE u # t
        BY <3>1, <3>7, <4>1, <4>3 DEF QuietInv
      <4>4. QED  BY <4>2, <4>3
    <3>8. QED  BY <3>1, <3>5, <3>6, <3>7 DEF QuietInv
  <2>3. CASE ~ThreadTakes(t)
    <3>1. calls[t] # <<>>
      BY <2>1, <2>3 DEF Thread, ForEachWorker, SaveConnection, AddWorker, NotifyHostFailure,
           AllocateAppTag, RegisterNotification, TrackJob, FreeAppTag, FinishScene, Lock,
           SendMsg, SendMsgClosed, CloseShutsDown, CloseNotifies, CloseReturns, At
    <3>2. peer = "connecting"
      BY <2>1 DEF Thread, ThreadTakes, ForEachWorker, SaveConnection, AddWorker,
           NotifyHostFailure, AllocateAppTag, RegisterNotification, TrackJob, FreeAppTag,
           FinishScene, Lock, SendMsg, SendMsgClosed, CloseShutsDown, CloseNotifies,
           CloseReturns, netVars
    <3>3. QED  BY <3>1, <3>2 DEF QuietInv
  <2>4. QED  BY <2>2, <2>3
<1>7. CASE UNCHANGED vars
  BY <1>7 DEF vars, netVars, ioVars, connVars, trackVars, poolVars, cmdVars, QuietInv
<1>8. CASE \E t \in Threads : OtherAnswerFinishes(t)
  BY <1>8 DEF OtherAnswerFinishes, netVars, QuietInv
<1>9. QED  BY <1>8, <1>1, <1>2, <1>3, <1>4, <1>5, <1>6, <1>7 DEF Next

-----------------------------------------------------------------------------
(* UnsentInv is inductive.                                                 *)

LEMMA UnsentInit == Init => UnsentInv
BY DEF Init, UnsentInv, SenderLeavesNothing

LEMMA TransportKeepsUnsent ==
    ASSUME TypeInv, QuietInv, UnsentInv,
           \/ ServerAccepts \/ Receiver \/ Sender \/ WorkerAnswers \/ WorkerDies
           \/ \E s \in Scenes : ClientAsks(s)
           \/ \E t \in Threads : OtherAnswerFinishes(t)
           \/ UNCHANGED vars
    PROVE  UnsentInv'
<1>1. CASE SenderTakes
  <2> DEFINE m == Head(sendQ)
  <2>1. /\ sendQ \in Seq(Packets) /\ sendQ # <<>> /\ m \in Packets /\ m = sendQ[1]
        /\ Len(sendQ) \in Nat /\ DOMAIN sendQ = 1 .. Len(sendQ) /\ 1 \in DOMAIN sendQ
    BY <1>1 DEF SenderTakes, MessageToSend, TypeInv
  <2>2. /\ DOMAIN sendQ' = 1 .. Len(sendQ) - 1
        /\ \A j \in DOMAIN sendQ' : j + 1 \in DOMAIN sendQ /\ sendQ'[j] = sendQ[j + 1]
    BY <1>1, <2>1, TailShifts DEF SenderTakes
  <2>3. UNCHANGED <<closed, peer>> /\ sender = "running"
    BY <1>1 DEF SenderTakes
  <2>4. sender' = "exited" => m.kind = "shutdown"
    BY <1>1, <2>1, ScenesAreNoStates DEF SenderTakes, Packets
  <2>5. m.kind = "shutdown" => closed
    BY <2>1 DEF UnsentInv
  <2>6. ASSUME NEW i \in DOMAIN sendQ',
               sender' = "exited" \/ \E j \in 1 .. i : sendQ'[j].kind = "shutdown"
        PROVE  sendQ'[i].kind = "shutdown"
    <3>1. i \in 1 .. Len(sendQ) - 1
      BY <2>2
    <3>2. CASE sender' = "exited"
      <4>1. 1 \in 1 .. i + 1 /\ sendQ[1].kind = "shutdown"
        BY <2>1, <2>4, <3>1, <3>2
      <4>2. QED  BY <2>2, <4>1 DEF UnsentInv, SenderLeavesNothing
    <3>3. CASE \E j \in 1 .. i : sendQ'[j].kind = "shutdown"
      <4>1. PICK j \in 1 .. i : sendQ'[j].kind = "shutdown"
        BY <3>3
      <4>2. j + 1 \in 1 .. i + 1 /\ sendQ[j + 1].kind = "shutdown"
        BY <2>2, <3>1, <4>1
      <4>3. QED  BY <2>2, <4>2 DEF UnsentInv, SenderLeavesNothing
    <3>4. QED  BY <2>6, <3>2, <3>3
  <2>7. QED  BY <2>2, <2>3, <2>4, <2>5, <2>6 DEF UnsentInv, SenderLeavesNothing
<1>2. CASE ServerAccepts
  <2>1. sendQ = <<>> /\ sendQ' = <<>> /\ sender = "exited"
    BY <1>2 DEF ServerAccepts, QuietInv, connVars
  <2>2. peer' = "connecting" \/ sender' = "running"
    BY <1>2 DEF ServerAccepts
  <2>3. QED  BY <2>1, <2>2 DEF UnsentInv, SenderLeavesNothing
<1>3. CASE SenderNotifies
  BY <1>3 DEF SenderNotifies, connVars, UnsentInv, SenderLeavesNothing
<1>4. CASE Receiver
  BY <1>4
  DEF Receiver, ReceiverReads, ReceiverFails, ReceiverNotifies, netVars, connVars, UnsentInv,
      SenderLeavesNothing
<1>5. CASE WorkerAnswers \/ WorkerDies
  BY <1>5 DEF WorkerAnswers, WorkerDies, ioVars, connVars, UnsentInv, SenderLeavesNothing
<1>6. CASE \E s \in Scenes : ClientAsks(s)
  BY <1>6 DEF ClientAsks, netVars, ioVars, connVars, UnsentInv, SenderLeavesNothing
<1>7. CASE \E t \in Threads : OtherAnswerFinishes(t)
  BY <1>7 DEF OtherAnswerFinishes, netVars, ioVars, connVars, UnsentInv, SenderLeavesNothing
<1>8. CASE UNCHANGED vars
  BY <1>8 DEF vars, netVars, ioVars, connVars, UnsentInv, SenderLeavesNothing
<1>9. QED
  BY <1>1, <1>2, <1>3, <1>4, <1>5, <1>6, <1>7, <1>8 DEF Sender

LEMMA AppendKeepsUnsent ==
    ASSUME TypeInv, UnsentInv, NEW m \in Packets, sendQ' = Append(sendQ, m),
           UNCHANGED <<closed, sender, peer>>,
           \/ m.kind = "shutdown" /\ closed
           \/ m.kind # "shutdown" /\ ~closed /\ peer # "connecting"
    PROVE  UnsentInv'
<1>1. /\ Len(sendQ) \in Nat /\ DOMAIN sendQ = 1 .. Len(sendQ)
      /\ DOMAIN sendQ' = 1 .. Len(sendQ) + 1 /\ sendQ'[Len(sendQ) + 1] = m
      /\ \A j \in 1 .. Len(sendQ) : sendQ'[j] = sendQ[j]
  BY DEF TypeInv
<1>2. \A i \in DOMAIN sendQ' : i \in DOMAIN sendQ \/ i = Len(sendQ) + 1
  BY <1>1
<1>3. \A i \in DOMAIN sendQ' : sendQ'[i].kind = "shutdown" => closed
  BY <1>1, <1>2 DEF UnsentInv
<1>4. ASSUME NEW i \in DOMAIN sendQ',
             sender' = "exited" \/ \E j \in 1 .. i : sendQ'[j].kind = "shutdown"
      PROVE  sendQ'[i].kind = "shutdown"
  <2>1. CASE i = Len(sendQ) + 1
    <3>1. CASE m.kind = "shutdown"
      BY <1>1, <2>1, <3>1
    <3>2. CASE ~closed /\ peer # "connecting"
      <4>1. sender' # "exited"
        BY <3>2 DEF UnsentInv
      <4>2. \A j \in 1 .. i : j \in DOMAIN sendQ'
        BY <1>1, <2>1
      <4>3. QED  BY <1>3, <1>4, <3>2, <4>1, <4>2
    <3>3. QED  BY <3>1, <3>2
  <2>2. CASE i \in DOMAIN sendQ
    <3>1. \A j \in 1 .. i : sendQ'[j] = sendQ[j]
      BY <1>1, <2>2
    <3>2. QED  BY <1>1, <1>4, <2>2, <3>1 DEF UnsentInv, SenderLeavesNothing
  <2>3. QED  BY <1>2, <2>1, <2>2
<1>5. QED  BY <1>3, <1>4 DEF UnsentInv, SenderLeavesNothing

LEMMA ThreadKeepsUnsent ==
    ASSUME TypeInv, EndInv, QuietInv, UnsentInv, NEW t \in Threads, Thread(t)
    PROVE  UnsentInv'
<1>10. ASSUME UNCHANGED <<netVars, ioVars>>, UNCHANGED sendQ, UNCHANGED closed
      PROVE  UnsentInv'
  BY <1>10 DEF netVars, ioVars, UnsentInv, SenderLeavesNothing
<1>1. CASE ThreadTakes(t)
  BY <1>10, <1>1 DEF ThreadTakes, connVars
<1>2. CASE ForEachWorker(t) \/ SaveConnection(t) \/ AddWorker(t) \/ NotifyHostFailure(t)
  BY <1>10, <1>2 DEF ForEachWorker, SaveConnection, AddWorker, NotifyHostFailure, connVars
<1>3. CASE AllocateAppTag(t) \/ RegisterNotification(t) \/ TrackJob(t) \/ FreeAppTag(t)
  BY <1>10, <1>3 DEF AllocateAppTag, RegisterNotification, TrackJob, FreeAppTag, connVars
<1>4. CASE FinishScene(t) \/ SendMsgClosed(t) \/ CloseNotifies(t) \/ CloseReturns(t)
  BY <1>10, <1>4 DEF FinishScene, SendMsgClosed, CloseNotifies, CloseReturns, connVars
<1>5. CASE Lock(t)
  <2>1. UNCHANGED <<sendQ, sender, peer>> /\ (closed => closed')
    BY <1>5 DEF Lock, netVars, ioVars, TypeInv
  <2>2. QED  BY <2>1 DEF UnsentInv, SenderLeavesNothing
<1>6. CASE SendMsg(t)
  <2> DEFINE c == Head(calls[t])
  <2>1. c \in SendCalls
    BY <1>6, CallAtHead
    DEF SendMsg, AllCalls, PlainCalls, SendCalls, Loops, ClosingCalls
  <2>2. Packet(c) \in Packets /\ Packet(c).kind # "shutdown"
    BY <2>1, PacketIsSent
  <2>3. sendQ' = Append(sendQ, Packet(c)) /\ ~closed /\ UNCHANGED <<closed, sender, peer>>
    BY <1>6 DEF SendMsg, Packet, Accepts, netVars, ioVars
  <2>4. peer # "connecting"
    BY <1>6 DEF QuietInv, SendMsg, At
  <2>5. QED  BY <2>2, <2>3, <2>4, AppendKeepsUnsent
<1>7. CASE CloseShutsDown(t)
  <2> DEFINE m == [kind |-> "shutdown"]
  <2>1. m \in Packets /\ m.kind = "shutdown"
    BY DEF Packets
  <2>2. sendQ' = Append(sendQ, m) /\ UNCHANGED <<closed, sender, peer>>
    BY <1>7 DEF CloseShutsDown, netVars, ioVars
  <2>3. closed
    <3>1. Called({"shutdown", "clear"}, t, 1)
      BY <1>7, CallAtHead DEF CloseShutsDown
    <3>2. QED  BY <3>1 DEF EndInv, EndInCalls
  <2>4. QED  BY <2>1, <2>2, <2>3, AppendKeepsUnsent
<1>8. QED  BY <1>1, <1>2, <1>3, <1>4, <1>5, <1>6, <1>7 DEF Thread

LEMMA UnsentStep == TypeInv /\ EndInv /\ QuietInv /\ UnsentInv /\ [Next]_vars => UnsentInv'
BY TransportKeepsUnsent, ThreadKeepsUnsent DEF Next

\* The sender thread sends what SendMsg accepts (tcp_io_connection.cpp:88-113, 229-257):
\* m_Closed is tested and the message put under one lock, so that only the shutdown
\* messages of other calls of Close can be behind the first.
THEOREM NothingIsLeftUnsent == Spec => []SenderLeavesNothing
<1>1. Init => TypeInv /\ EndInv /\ QuietInv /\ UnsentInv
  BY TypeInit, EndInit, QuietInit, UnsentInit
<1>2. TypeInv /\ EndInv /\ QuietInv /\ UnsentInv /\ [Next]_vars
          => TypeInv' /\ EndInv' /\ QuietInv' /\ UnsentInv'
  BY TypeStep, EndStep, QuietStep, UnsentStep
<1>3. UnsentInv => SenderLeavesNothing
  BY DEF UnsentInv
<1>4. QED  BY <1>1, <1>2, <1>3, PTL DEF Spec

-----------------------------------------------------------------------------
(* Jobs and their tags.                                                    *)

\* The calls that make a job, and the loop that makes one of each worker.
JobLoop(s) == Each(NextJob(s))

SceneLoop(s) == Each(<<Send("scene", s)>>)

CleanupLoop == Each(<<Send("cleanup", None)>>)

JobCalls == {"allocate", "register", "track", "job", "loop"}

JobCall(k, s) ==
    CASE k = "allocate" -> CallFor("allocate", s)
      [] k = "register" -> CallFor("register", s)
      [] k = "track"    -> CallFor("track", s)
      [] k = "job"      -> Send("job", s)
      [] k = "loop"     -> JobLoop(s)

Does(k, t, i, s) == i \in DOMAIN calls[t] /\ calls[t][i] = JobCall(k, s)

Idle(s) == \A k \in JobCalls : \A t \in Threads : \A i \in Nat : ~Does(k, t, i, s)

\* Only the thread of a command makes its jobs, and each in four steps.
OwnInv ==
    /\ \A k \in JobCalls : \A t \in Threads : \A i \in Nat : \A s \in Scenes :
           Does(k, t, i, s) => home[s] = t
    /\ \A t \in Threads : \A i \in DOMAIN calls[t] :
           calls[t][i].op = "each" =>
               \E s \in Scenes : calls[t][i] \in {JobLoop(s), SceneLoop(s), CleanupLoop}

StepInv ==
    \A t \in Threads : \A i \in Nat : \A s \in Scenes :
        /\ Does("allocate", t, i, s) => i = 1 \/ (i = 2 /\ calls[t][1].op = "free")
        /\ Does("register", t, i, s) =>
               IF i = 1 THEN jobs[s] >= 1 ELSE Does("allocate", t, i - 1, s)
        /\ Does("track", t, i, s) =>
               IF i = 1 THEN jobs[s] >= 1 ELSE Does("register", t, i - 1, s)
        /\ Does("job", t, i, s) =>
               IF i = 1 THEN jobs[s] >= 1 ELSE Does("track", t, i - 1, s)

\* The calls that are left do not need more tags than there are.
RoomInv ==
    \A t \in Threads : \A i \in Nat : \A s \in Scenes :
        /\ Does("allocate", t, i, s) => jobs[s] < MaxJobs
        /\ Does("loop", t, i, s) =>
               /\ jobs[s] + Len(calls[t]) - i < MaxJobs
               /\ \A j \in Nat : Does("allocate", t, j, s) =>
                                     jobs[s] + Len(calls[t]) - i + 1 < MaxJobs

\* A scene is requested once, before it has a job.
Requested(t, i, s) == i \in DOMAIN queue[t] /\ queue[t][i] = Request(s)

RequestInv ==
    \A s \in Scenes :
        /\ home[s] = None => jobs[s] = 0
        /\ \A t \in Threads : \A i \in Nat :
               Requested(t, i, s) => home[s] = t /\ jobs[s] = 0 /\ Idle(s)
        /\ \A t, u \in Threads : \A i, j \in Nat :
               Requested(t, i, s) /\ Requested(u, j, s) => t = u /\ i = j

HandInv == OwnInv /\ StepInv /\ RoomInv /\ RequestInv

\* Where a tag is on its way to the worker and back, ...
Places == {"sent", "asked", "coming", "read"} \X Nat

Travels(p, g) ==
    \/ p[1] = "sent" /\ p[2] \in DOMAIN sendQ /\ sendQ[p[2]] = [kind |-> "job", tag |-> g]
    \/ p = <<"asked", 0>> /\ g \in asked
    \/ p[1] = "coming" /\ p[2] \in DOMAIN inbound /\ inbound[p[2]] = Answer(g)
    \/ p = <<"read", 0>> /\ recv # <<>> /\ recv[1] = Answer(g)

\* ... and whether its answer has come.
Answered(g) ==
    \E t \in Threads : \E i \in Nat :
        \/ i \in DOMAIN queue[t] /\ queue[t][i] = Answer(g)
        \/ i \in DOMAIN calls[t] /\ calls[t][i] = [op |-> "free", tag |-> g]

InUse(g) == Answered(g) \/ \E p \in Places : Travels(p, g)

\* A tag is in one place, ...
AloneInv ==
    /\ \A p, q \in Places : \A g \in Labels : Travels(p, g) /\ Travels(q, g) => p = q
    /\ \A p \in Places : \A g \in Labels : Travels(p, g) => ~Answered(g)

\* ... and a new one in none.
FreshInv ==
    \A g \in Labels : InUse(g) =>
        /\ 1 <= g[2] /\ g[2] <= jobs[g[1]]
        /\ \A k \in {"register", "track", "job"} : \A t \in Threads :
               Does(k, t, 1, g[1]) => g[2] < jobs[g[1]]

\* While its answer may come a tag is routed, unless Close has told the command.
Begun(t, s) == Does("track", t, 1, s) \/ Does("job", t, 1, s)

JobsRouted ==
    \A t \in Threads : \A s \in Scenes : Begun(t, s) => Newest(s) \in routes \/ closed

TagsRouted ==
    \A p \in Places : \A g \in Labels :
        Travels(p, g) => g \in routes \/ (closed /\ p[1] = "sent") \/ p[1] = "read"

RouteInv ==
    /\ JobsRouted /\ TagsRouted /\ AnswersFindTheirCommand
    /\ peer # "up" => asked = {}

Faults == {"none", "null accepted", "null connection", "null manager", "broken pipe",
           "foreign descriptor"}

SizeInv ==
    /\ Len(sendQ) <= SendDepth
    /\ \A t \in Threads : Len(queue[t]) <= QDepth
    /\ \A s \in Scenes : jobs[s] <= MaxJobs
    /\ routes \subseteq Tags /\ tracked \subseteq Tags
    /\ stage \in [Scenes -> {"asked", "spreading", "spent", "finished"}]
    /\ pending \in [Scenes -> Int] /\ counted \in Int
    /\ fault \in Faults

-----------------------------------------------------------------------------
(* What exactly the queues and the calls become.                           *)

LEMMA PutContents ==
    ASSUME TypeInv, NEW t \in Threads \cup {None}, NEW m \in Messages, Put(t, m)
    PROVE  \A u \in Threads :
               /\ Len(queue'[u]) = IF u = t THEN Len(queue[u]) + 1 ELSE Len(queue[u])
               /\ \A i \in DOMAIN queue'[u] :
                      \/ i \in DOMAIN queue[u] /\ queue'[u][i] = queue[u][i]
                      \/ u = t /\ i = Len(queue[u]) + 1 /\ queue'[u][i] = m
<1> SUFFICES ASSUME NEW u \in Threads
             PROVE  /\ Len(queue'[u]) = IF u = t THEN Len(queue[u]) + 1 ELSE Len(queue[u])
                    /\ \A i \in DOMAIN queue'[u] :
                           \/ i \in DOMAIN queue[u] /\ queue'[u][i] = queue[u][i]
                           \/ u = t /\ i = Len(queue[u]) + 1 /\ queue'[u][i] = m
  OBVIOUS
<1>1. /\ queue[u] \in Seq(Messages)
      /\ queue'[u] = IF u = t THEN Append(queue[u], m) ELSE queue[u]
  BY DEF Put, TypeInv
<1>2. /\ Len(Append(queue[u], m)) = Len(queue[u]) + 1
      /\ DOMAIN Append(queue[u], m) = 1 .. Len(queue[u]) + 1
      /\ DOMAIN queue[u] = 1 .. Len(queue[u]) /\ Len(queue[u]) \in Nat
      /\ \A i \in 1 .. Len(queue[u]) : Append(queue[u], m)[i] = queue[u][i]
      /\ Append(queue[u], m)[Len(queue[u]) + 1] = m
  BY <1>1
<1>3. CASE u = t
  BY <1>1, <1>2, <1>3
<1>4. CASE u # t
  BY <1>1, <1>4
<1> QED
  BY <1>3, <1>4

LEMMA TakeContents ==
    ASSUME TypeInv, NEW t \in Threads, queue[t] # <<>>,
           queue' = [queue EXCEPT ![t] = Tail(@)]
    PROVE  \A u \in Threads :
               /\ Len(queue'[u]) <= Len(queue[u])
               /\ \A i \in DOMAIN queue'[u] :
                      IF u = t
                      THEN i >= 1 /\ i + 1 \in DOMAIN queue[u] /\ queue'[u][i] = queue[u][i + 1]
                      ELSE i \in DOMAIN queue[u] /\ queue'[u][i] = queue[u][i]
<1> SUFFICES ASSUME NEW u \in Threads
             PROVE  /\ Len(queue'[u]) <= Len(queue[u])
                    /\ \A i \in DOMAIN queue'[u] :
                           IF u = t
                           THEN i >= 1 /\ i + 1 \in DOMAIN queue[u]
                                /\ queue'[u][i] = queue[u][i + 1]
                           ELSE i \in DOMAIN queue[u] /\ queue'[u][i] = queue[u][i]
  OBVIOUS
<1>1. /\ queue[u] \in Seq(Messages) /\ Len(queue[u]) \in Nat
      /\ queue'[u] = IF u = t THEN Tail(queue[u]) ELSE queue[u]
  BY DEF TypeInv
<1>2. CASE u = t
  <2>1. /\ DOMAIN Tail(queue[u]) = 1 .. Len(queue[u]) - 1
        /\ Len(Tail(queue[u])) = Len(queue[u]) - 1 /\ DOMAIN queue[u] = 1 .. Len(queue[u])
        /\ \A j \in 1 .. Len(queue[u]) - 1 : Tail(queue[u])[j] = queue[u][j + 1]
    BY <1>1, <1>2, TailShifts
  <2>2. queue'[u] = Tail(queue[u])
    BY <1>1, <1>2
  <2>3. ASSUME NEW i \in DOMAIN queue'[u]
        PROVE  i >= 1 /\ i + 1 \in DOMAIN queue[u] /\ queue'[u][i] = queue[u][i + 1]
    <3>1. i \in 1 .. Len(queue[u]) - 1
      BY <2>1, <2>2, <2>3
    <3>2. i >= 1 /\ i + 1 \in 1 .. Len(queue[u])
      BY <1>1, <3>1
    <3> QED
      BY <2>1, <2>2, <3>1, <3>2
  <2> QED
    BY <1>1, <1>2, <2>1, <2>2, <2>3
<1>3. CASE u # t
  BY <1>1, <1>3
<1> QED
  BY <1>2, <1>3

LEMMA CallsBecome ==
    ASSUME TypeInv, NEW t \in Threads, calls[t] # <<>>,
           NEW more \in Seq(AllCalls), Then(t, more)
    PROVE  /\ \A u \in Threads : u # t => calls'[u] = calls[u]
           /\ Len(more) \in Nat /\ Len(calls[t]) \in Nat \ {0}
           /\ DOMAIN calls[t] = 1 .. Len(calls[t]) /\ Head(calls[t]) = calls[t][1]
           /\ Len(calls'[t]) = Len(more) + Len(calls[t]) - 1
           /\ DOMAIN calls'[t] = 1 .. Len(more) + Len(calls[t]) - 1
           /\ \A i \in 1 .. Len(more) + Len(calls[t]) - 1 :
                  calls'[t][i] = IF i <= Len(more) THEN more[i] ELSE calls[t][i - Len(more) + 1]
<1> DEFINE rest == Tail(calls[t])
<1>1. calls[t] \in Seq(AllCalls) /\ rest \in Seq(AllCalls)
  BY DEF TypeInv
<1>2. \A u \in Threads : calls'[u] = IF u = t THEN more \o rest ELSE calls[u]
  BY DEF TypeInv, Then
<1>3. /\ Len(rest) = Len(calls[t]) - 1 /\ Len(calls[t]) \in Nat \ {0}
      /\ DOMAIN calls[t] = 1 .. Len(calls[t]) /\ Head(calls[t]) = calls[t][1]
      /\ \A j \in 1 .. Len(calls[t]) - 1 : rest[j] = calls[t][j + 1]
  BY <1>1, TailShifts
<1> HIDE DEF rest
<1>4. /\ Len(more) \in Nat /\ Len(more \o rest) = Len(more) + Len(rest)
      /\ DOMAIN (more \o rest) = 1 .. Len(more) + Len(rest)
      /\ \A j \in 1 .. Len(more) + Len(rest) :
             (more \o rest)[j] = IF j <= Len(more) THEN more[j] ELSE rest[j - Len(more)]
  BY <1>1
<1>5. ASSUME NEW i \in 1 .. Len(more) + Len(calls[t]) - 1
      PROVE  calls'[t][i] = IF i <= Len(more) THEN more[i] ELSE calls[t][i - Len(more) + 1]
  <2>1. i \in 1 .. Len(more) + Len(rest) /\ i \in Nat
    BY <1>3, <1>4
  <2>2. calls'[t][i] = IF i <= Len(more) THEN more[i] ELSE rest[i - Len(more)]
    BY <1>2, <1>4, <2>1
  <2>3. i > Len(more) => rest[i - Len(more)] = calls[t][i - Len(more) + 1]
    <3>1. i > Len(more) => i - Len(more) \in 1 .. Len(calls[t]) - 1
      BY <1>3, <1>4, <2>1
    <3> QED
      BY <1>3, <3>1
  <2> QED
    BY <1>4, <2>1, <2>2, <2>3
<1>6. Len(calls'[t]) = Len(more) + Len(calls[t]) - 1
      /\ DOMAIN calls'[t] = 1 .. Len(more) + Len(calls[t]) - 1
  BY <1>2, <1>3, <1>4
<1> QED
  BY <1>2, <1>3, <1>4, <1>5, <1>6

-----------------------------------------------------------------------------
(* The calls that make jobs: OwnInv, StepInv, RoomInv and RequestInv.      *)

LEMMA JobCallsDiffer ==
    /\ \A s : /\ JobCall("allocate", s) = CallFor("allocate", s)
              /\ JobCall("register", s) = CallFor("register", s)
              /\ JobCall("track", s) = CallFor("track", s)
              /\ JobCall("job", s) = Send("job", s)
              /\ JobCall("loop", s) = JobLoop(s)
    /\ \A s : /\ JobCall("allocate", s).op = "allocate" /\ JobCall("register", s).op = "register"
              /\ JobCall("track", s).op = "track"
              /\ JobCall("job", s).op = "send" /\ JobCall("loop", s).op = "each"
    /\ \A k, l \in JobCalls : \A s, r : JobCall(k, s) = JobCall(l, r) => k = l /\ s = r
<1>1. \A s : /\ JobCall("allocate", s) = CallFor("allocate", s)
             /\ JobCall("register", s) = CallFor("register", s)
             /\ JobCall("track", s) = CallFor("track", s)
             /\ JobCall("job", s) = Send("job", s)
             /\ JobCall("loop", s) = JobLoop(s)
  BY DEF JobCall
<1>2. \A s : /\ JobCall("allocate", s).op = "allocate" /\ JobCall("register", s).op = "register"
             /\ JobCall("track", s).op = "track"
             /\ JobCall("job", s).op = "send" /\ JobCall("loop", s).op = "each"
  BY <1>1 DEF CallFor, Send, JobLoop, Each
<1>3. \A k \in JobCalls : \A s :
          /\ k # "loop" => JobCall(k, s).scene = s
          /\ k = "loop" => JobCall(k, s).body[1].scene = s
  BY <1>1 DEF CallFor, Send, JobLoop, Each, NextJob, JobCalls
<1>4. ASSUME NEW k \in JobCalls, NEW l \in JobCalls, NEW s, NEW r, JobCall(k, s) = JobCall(l, r)
      PROVE  k = l /\ s = r
  <2>1. k = l
    BY <1>2, <1>4 DEF JobCalls
  <2> QED
    BY <1>3, <1>4, <2>1
<1> QED
  BY <1>1, <1>2, <1>4

\* Where the calls that make jobs go when a call returns or is replaced.
LEMMA JobCallsMove ==
    ASSUME TypeInv, NEW t \in Threads, calls[t] # <<>>,
           NEW more \in Seq(AllCalls), Then(t, more)
    PROVE  \A k \in JobCalls : \A u \in Threads : \A i \in Nat : \A s :
               Does(k, u, i, s)' <=>
                   IF u # t THEN Does(k, u, i, s)
                   ELSE \/ i \in 1 .. Len(more) /\ more[i] = JobCall(k, s)
                        \/ i > Len(more) /\ Does(k, t, i - Len(more) + 1, s)
<1> SUFFICES ASSUME NEW k \in JobCalls, NEW u \in Threads, NEW i \in Nat, NEW s
             PROVE  Does(k, u, i, s)' <=>
                        IF u # t THEN Does(k, u, i, s)
                        ELSE \/ i \in 1 .. Len(more) /\ more[i] = JobCall(k, s)
                             \/ i > Len(more) /\ Does(k, t, i - Len(more) + 1, s)
  OBVIOUS
<1>1. CASE u # t
  <2>1. calls'[u] = calls[u]
    BY <1>1, CallsBecome
  <2> QED
    BY <1>1, <2>1 DEF Does
<1>2. CASE u = t
  <2>1. /\ Len(more) \in Nat /\ Len(calls[t]) \in Nat \ {0}
        /\ DOMAIN calls[t] = 1 .. Len(calls[t])
        /\ DOMAIN calls'[t] = 1 .. Len(more) + Len(calls[t]) - 1
        /\ \A j \in 1 .. Len(more) + Len(calls[t]) - 1 :
               calls'[t][j] = IF j <= Len(more) THEN more[j] ELSE calls[t][j - Len(more) + 1]
    BY CallsBecome
  <2>2. Does(k, u, i, s)' <=> i \in 1 .. Len(more) + Len(calls[t]) - 1
                              /\ calls'[t][i] = JobCall(k, s)
    BY <1>2, <2>1 DEF Does
  <2>3. CASE i <= Len(more)
    <3>1. i \in 1 .. Len(more) => i \in 1 .. Len(more) + Len(calls[t]) - 1
      BY <2>1
    <3> QED
      BY <1>2, <2>1, <2>2, <2>3, <3>1
  <2>4. CASE i > Len(more)
    <3>1. /\ i \in 1 .. Len(more) + Len(calls[t]) - 1 <=> i - Len(more) + 1 \in DOMAIN calls[t]
          /\ ~(i <= Len(more)) /\ i \notin 1 .. Len(more)
      BY <2>1, <2>4
    <3>2. Does(k, u, i, s)' <=> i \in 1 .. Len(more) + Len(calls[t]) - 1
                                /\ calls[t][i - Len(more) + 1] = JobCall(k, s)
      BY <2>1, <2>2, <3>1
    <3> QED
      BY <1>2, <2>4, <3>1, <3>2 DEF Does
  <2> QED
    BY <2>1, <2>3, <2>4
<1> QED
  BY <1>1, <1>2

\* A thread does one thing at a time.
LEMMA OneCall ==
    ASSUME NEW t, NEW i, NEW k \in JobCalls, NEW l \in JobCalls, NEW s, NEW r,
           Does(k, t, i, s), Does(l, t, i, r)
    PROVE  k = l /\ s = r
<1>1. JobCall(k, s) = JobCall(l, r)
  BY DEF Does
<1> QED
  BY <1>1, JobCallsDiffer

\* A command is at one thread.
LEMMA OneThread ==
    ASSUME OwnInv, NEW s \in Scenes, NEW k \in JobCalls, NEW l \in JobCalls,
           NEW t \in Threads, NEW u \in Threads, NEW i \in Nat, NEW j \in Nat,
           Does(k, t, i, s), Does(l, u, j, s)
    PROVE  t = u
<1>1. home[s] = t /\ home[s] = u
  BY DEF OwnInv
<1> QED
  BY <1>1

LEMMA LoopsMove ==
    ASSUME TypeInv, OwnInv, NEW t \in Threads, calls[t] # <<>>,
           NEW more \in Seq(AllCalls), Then(t, more),
           \A i \in 1 .. Len(more) : more[i].op # "each"
    PROVE  \A u \in Threads : \A i \in DOMAIN calls'[u] :
               calls'[u][i].op = "each" =>
                   \E s \in Scenes : calls'[u][i] \in {JobLoop(s), SceneLoop(s), CleanupLoop}
<1> TAKE u \in Threads
<1> TAKE i \in DOMAIN calls'[u]
<1> SUFFICES ASSUME calls'[u][i].op = "each"
             PROVE  \E s \in Scenes : calls'[u][i] \in {JobLoop(s), SceneLoop(s), CleanupLoop}
  OBVIOUS
<1>1. CASE u # t
  <2>1. calls'[u] = calls[u]
    BY <1>1, CallsBecome
  <2> QED
    BY <2>1 DEF OwnInv
<1>2. CASE u = t
  <2>1. /\ Len(more) \in Nat /\ Len(calls[t]) \in Nat \ {0}
        /\ DOMAIN calls[t] = 1 .. Len(calls[t])
        /\ DOMAIN calls'[t] = 1 .. Len(more) + Len(calls[t]) - 1
        /\ \A j \in 1 .. Len(more) + Len(calls[t]) - 1 :
               calls'[t][j] = IF j <= Len(more) THEN more[j] ELSE calls[t][j - Len(more) + 1]
    BY CallsBecome
  <2>2. i \in 1 .. Len(more) + Len(calls[t]) - 1
    BY <1>2, <2>1
  <2>3. ~(i <= Len(more))
    <3>1. i <= Len(more) => i \in 1 .. Len(more) /\ calls'[t][i] = more[i]
      BY <2>1, <2>2
    <3> QED
      BY <1>2, <3>1
  <2>4. i - Len(more) + 1 \in DOMAIN calls[t] /\ calls'[t][i] = calls[t][i - Len(more) + 1]
    BY <2>1, <2>2, <2>3
  <2> QED
    BY <1>2, <2>4 DEF OwnInv
<1> QED
  BY <1>1, <1>2

\* A call returns; AllocateAppTag gives the scene a tag more.
LEMMA ReturnKeepsHands ==
    ASSUME TypeInv, OwnInv, StepInv, RoomInv, NEW t \in Threads, calls[t] # <<>>, Return(t),
           UNCHANGED home,
           \A s \in Scenes :
               jobs'[s] = IF Does("allocate", t, 1, s) THEN jobs[s] + 1 ELSE jobs[s]
    PROVE  OwnInv' /\ StepInv' /\ RoomInv'
<1>1. \A k \in JobCalls : \A u \in Threads : \A i \in Nat : \A s :
          Does(k, u, i, s)' <=> IF u # t THEN Does(k, u, i, s)
                                ELSE i > 0 /\ Does(k, t, i + 1, s)
  <2>1. <<>> \in Seq(AllCalls) /\ Len(<<>>) = 0
    OBVIOUS
  <2>2. \A k \in JobCalls : \A u \in Threads : \A i \in Nat : \A s :
            Does(k, u, i, s)' <=>
                IF u # t THEN Does(k, u, i, s)
                ELSE \/ i \in 1 .. Len(<<>>) /\ <<>>[i] = JobCall(k, s)
                     \/ i > Len(<<>>) /\ Does(k, t, i - Len(<<>>) + 1, s)
    BY <2>1, JobCallsMove DEF Return
  <2> QED
    BY <2>1, <2>2
<1>2. /\ Len(calls[t]) \in Nat \ {0} /\ Len(calls'[t]) = Len(calls[t]) - 1
      /\ \A u \in Threads : u # t => calls'[u] = calls[u]
  <2>1. <<>> \in Seq(AllCalls) /\ Len(<<>>) = 0 /\ Then(t, <<>>)
    BY DEF Return
  <2>2. /\ Len(calls[t]) \in Nat \ {0} /\ Len(calls'[t]) = Len(<<>>) + Len(calls[t]) - 1
        /\ \A u \in Threads : u # t => calls'[u] = calls[u]
    BY <2>1, CallsBecome
  <2> QED
    BY <2>1, <2>2
<1>3. \A u \in Threads : calls[u] \in Seq(AllCalls) /\ Len(calls[u]) \in Nat
  BY DEF TypeInv
<1>4. \A s \in Scenes : jobs[s] \in Nat /\ jobs'[s] \in Nat /\ jobs'[s] >= jobs[s]
  BY DEF TypeInv
<1>5. \A k \in JobCalls : \A u \in Threads : \A i \in Nat : \A s \in Scenes :
          u # t /\ Does(k, u, i, s) => jobs'[s] = jobs[s]
  BY OneThread DEF JobCalls
<1>6. \A i \in Nat : \A s : Does("allocate", t, i + 1, s) /\ i > 0 /\ s \in Scenes =>
          i = 1 /\ \A r : ~Does("allocate", t, 1, r)
  <2> SUFFICES ASSUME NEW i \in Nat, NEW s \in Scenes, Does("allocate", t, i + 1, s), i > 0
               PROVE  i = 1 /\ \A r : ~Does("allocate", t, 1, r)
    OBVIOUS
  <2>1. i + 1 = 2 /\ calls[t][1].op = "free"
    BY DEF StepInv
  <2> QED
    BY <2>1, JobCallsDiffer DEF Does
<1>7. OwnInv'
  <2>1. \A k \in JobCalls : \A u \in Threads : \A i \in Nat : \A s \in Scenes :
            Does(k, u, i, s)' => home'[s] = u
    BY <1>1 DEF OwnInv
  <2>2. \A u \in Threads : \A i \in DOMAIN calls'[u] :
            calls'[u][i].op = "each" =>
                \E s \in Scenes : calls'[u][i] \in {JobLoop(s), SceneLoop(s), CleanupLoop}
    <3>1. <<>> \in Seq(AllCalls) /\ \A i \in 1 .. Len(<<>>) : <<>>[i].op # "each"
      OBVIOUS
    <3> QED
      BY <3>1, LoopsMove DEF Return
  <2> QED
    BY <2>1, <2>2 DEF OwnInv
<1>8. StepInv'
  <2> SUFFICES ASSUME NEW u \in Threads, NEW i \in Nat, NEW s \in Scenes
               PROVE  /\ Does("allocate", u, i, s)' =>
                             i = 1 \/ (i = 2 /\ calls'[u][1].op = "free")
                      /\ Does("register", u, i, s)' =>
                             IF i = 1 THEN jobs'[s] >= 1 ELSE Does("allocate", u, i - 1, s)'
                      /\ Does("track", u, i, s)' =>
                             IF i = 1 THEN jobs'[s] >= 1 ELSE Does("register", u, i - 1, s)'
                      /\ Does("job", u, i, s)' =>
                             IF i = 1 THEN jobs'[s] >= 1 ELSE Does("track", u, i - 1, s)'
    BY DEF StepInv
  <2>1. CASE u # t
    <3>1. \A k \in JobCalls : \A j \in Nat : Does(k, u, j, s)' <=> Does(k, u, j, s)
      BY <1>1, <2>1
    <3>2. calls'[u] = calls[u]
      BY <1>2, <2>1
    <3>3. \A k \in {"register", "track", "job"} : \A j \in Nat : Does(k, u, j, s) => j # 0
      BY <1>3 DEF Does
    <3> QED
      BY <1>4, <3>1, <3>2, <3>3 DEF StepInv, JobCalls
  <2>2. CASE u = t
    <3>1. \A k \in JobCalls : \A j \in Nat : Does(k, u, j, s)' <=> j > 0 /\ Does(k, t, j + 1, s)
      BY <1>1, <2>2
    <3>2. Does("allocate", u, i, s)' => i = 1
      BY <1>6, <3>1 DEF JobCalls
    <3>3. ASSUME Does("register", u, i, s)'
          PROVE  IF i = 1 THEN jobs'[s] >= 1 ELSE Does("allocate", u, i - 1, s)'
      <4>1. i > 0 /\ Does("register", t, i + 1, s)
        BY <3>1, <3>3 DEF JobCalls
      <4>2. Does("allocate", t, i, s)
        BY <4>1 DEF StepInv
      <4>3. CASE i = 1
        BY <1>4, <4>2, <4>3
      <4>4. CASE i # 1
        BY <3>1, <4>1, <4>2, <4>4 DEF JobCalls
      <4> QED
        BY <4>3, <4>4
    <3>4. ASSUME Does("track", u, i, s)'
          PROVE  IF i = 1 THEN jobs'[s] >= 1 ELSE Does("register", u, i - 1, s)'
      <4>1. i > 0 /\ Does("track", t, i + 1, s)
        BY <3>1, <3>4 DEF JobCalls
      <4>2. Does("register", t, i, s)
        BY <4>1 DEF StepInv
      <4>3. CASE i = 1
        <5>1. jobs[s] >= 1
          BY <4>2, <4>3 DEF StepInv
        <5> QED
          BY <1>4, <4>3, <5>1
      <4>4. CASE i # 1
        BY <3>1, <4>1, <4>2, <4>4 DEF JobCalls
      <4> QED
        BY <4>3, <4>4
    <3>5. ASSUME Does("job", u, i, s)'
          PROVE  IF i = 1 THEN jobs'[s] >= 1 ELSE Does("track", u, i - 1, s)'
      <4>1. i > 0 /\ Does("job", t, i + 1, s)
        BY <3>1, <3>5 DEF JobCalls
      <4>2. Does("track", t, i, s)
        BY <4>1 DEF StepInv
      <4>3. CASE i = 1
        <5>1. jobs[s] >= 1
          BY <4>2, <4>3 DEF StepInv
        <5> QED
          BY <1>4, <4>3, <5>1
      <4>4. CASE i # 1
        BY <3>1, <4>1, <4>2, <4>4 DEF JobCalls
      <4> QED
        BY <4>3, <4>4
    <3> QED
      BY <3>2, <3>3, <3>4, <3>5
  <2> QED
    BY <2>1, <2>2
<1>9. RoomInv'
  <2> SUFFICES ASSUME NEW u \in Threads, NEW i \in Nat, NEW s \in Scenes
               PROVE  /\ Does("allocate", u, i, s)' => jobs'[s] < MaxJobs
                      /\ Does("loop", u, i, s)' =>
                             /\ jobs'[s] + Len(calls'[u]) - i < MaxJobs
                             /\ \A j \in Nat : Does("allocate", u, j, s)' =>
                                    jobs'[s] + Len(calls'[u]) - i + 1 < MaxJobs
    BY DEF RoomInv
  <2>1. CASE u # t
    <3>1. \A k \in JobCalls : \A j \in Nat : Does(k, u, j, s)' <=> Does(k, u, j, s)
      BY <1>1, <2>1
    <3>2. calls'[u] = calls[u]
      BY <1>2, <2>1
    <3>3. \A k \in JobCalls : Does(k, u, i, s) => jobs'[s] = jobs[s]
      BY <1>5, <2>1
    <3> QED
      BY <3>1, <3>2, <3>3 DEF RoomInv, JobCalls
  <2>2. CASE u = t
    <3>1. \A k \in JobCalls : \A j \in Nat : Does(k, u, j, s)' <=> j > 0 /\ Does(k, t, j + 1, s)
      BY <1>1, <2>2
    <3>2. ASSUME NEW j \in Nat, Does("allocate", u, j, s)'
          PROVE  jobs'[s] = jobs[s] /\ Does("allocate", t, j + 1, s)
      BY <1>6, <3>1, <3>2 DEF JobCalls
    <3>3. Does("allocate", u, i, s)' => jobs'[s] < MaxJobs
      BY <3>2 DEF RoomInv
    <3>4. ASSUME Does("loop", u, i, s)'
          PROVE  /\ jobs'[s] + Len(calls'[u]) - i < MaxJobs
                 /\ \A j \in Nat : Does("allocate", u, j, s)' =>
                        jobs'[s] + Len(calls'[u]) - i + 1 < MaxJobs
      <4>1. Does("loop", t, i + 1, s)
        BY <3>1, <3>4 DEF JobCalls
      <4>2. /\ jobs[s] + Len(calls[t]) - (i + 1) < MaxJobs
            /\ \A j \in Nat : Does("allocate", t, j, s) =>
                   jobs[s] + Len(calls[t]) - (i + 1) + 1 < MaxJobs
        BY <4>1 DEF RoomInv
      <4>3. jobs'[s] + Len(calls'[u]) - i < MaxJobs
        <5>1. /\ jobs[s] \in Nat /\ MaxJobs \in Nat /\ Len(calls[t]) \in Nat
              /\ Len(calls'[u]) = Len(calls[t]) - 1
          BY <1>2, <1>4, <2>2, MasterAssumption
        <5>2. CASE jobs'[s] = jobs[s]
          BY <4>2, <5>1, <5>2
        <5>3. CASE Does("allocate", t, 1, s)
          <6>1. jobs[s] + Len(calls[t]) - (i + 1) + 1 < MaxJobs
            BY <4>2, <5>3
          <6>2. jobs'[s] = jobs[s] + 1
            BY <5>3
          <6> QED
            BY <5>1, <6>1, <6>2
        <5> QED
          BY <5>2, <5>3
      <4>4. ASSUME NEW j \in Nat, Does("allocate", u, j, s)'
            PROVE  jobs'[s] + Len(calls'[u]) - i + 1 < MaxJobs
        <5>1. jobs'[s] = jobs[s] /\ Does("allocate", t, j + 1, s)
          BY <3>2, <4>4
        <5>2. jobs[s] + Len(calls[t]) - (i + 1) + 1 < MaxJobs
          BY <4>2, <5>1
        <5>3. /\ jobs[s] \in Nat /\ MaxJobs \in Nat /\ Len(calls[t]) \in Nat
              /\ Len(calls'[u]) = Len(calls[t]) - 1
          BY <1>2, <1>4, <2>2, MasterAssumption
        <5> QED
          BY <5>1, <5>2, <5>3
      <4> QED
        BY <4>3, <4>4
    <3> QED
      BY <3>3, <3>4
  <2> QED
    BY <2>1, <2>2
<1> QED
  BY <1>7, <1>8, <1>9

\* After a loop, or the call of Close, there is nothing left of a job.
LEMMA OnlyLoopsFollow ==
    ASSUME TypeInv, OwnInv, StepInv, NEW t \in Threads, calls[t] # <<>>,
           Head(calls[t]).op \in {"each", "close", "shutdown"}
    PROVE  \A k \in JobCalls : \A i \in Nat : \A s \in Scenes :
               Does(k, t, i, s) => k = "loop"
<1>1. 1 \in DOMAIN calls[t] /\ calls[t][1].op \in {"each", "close", "shutdown"}
      /\ DOMAIN calls[t] = 1 .. Len(calls[t]) /\ Len(calls[t]) \in Nat
  BY DEF TypeInv
<1>2. \A k \in JobCalls : \A s : Does(k, t, 1, s) => k = "loop"
  BY <1>1, JobCallsDiffer DEF Does, JobCalls
<1>3. ASSUME NEW i \in Nat, NEW s \in Scenes PROVE ~Does("allocate", t, i, s)
  BY <1>1, <1>2 DEF StepInv, JobCalls
<1>4. ASSUME NEW i \in Nat, NEW s \in Scenes PROVE ~Does("register", t, i, s)
  <2>1. Does("register", t, i, s) => i \in Nat \ {0}
    BY <1>1 DEF Does
  <2>2. CASE i = 1
    BY <1>2, <2>2 DEF JobCalls
  <2>3. CASE i \in Nat \ {0, 1}
    <3>1. i - 1 \in Nat
      BY <2>3
    <3> QED
      BY <1>3, <2>3, <3>1 DEF StepInv
  <2> QED
    BY <2>1, <2>2, <2>3
<1>5. ASSUME NEW i \in Nat, NEW s \in Scenes PROVE ~Does("track", t, i, s)
  <2>1. Does("track", t, i, s) => i \in Nat \ {0}
    BY <1>1 DEF Does
  <2>2. CASE i = 1
    BY <1>2, <2>2 DEF JobCalls
  <2>3. CASE i \in Nat \ {0, 1}
    <3>1. i - 1 \in Nat
      BY <2>3
    <3> QED
      BY <1>4, <2>3, <3>1 DEF StepInv
  <2> QED
    BY <2>1, <2>2, <2>3
<1>6. ASSUME NEW i \in Nat, NEW s \in Scenes PROVE ~Does("job", t, i, s)
  <2>1. Does("job", t, i, s) => i \in Nat \ {0}
    BY <1>1 DEF Does
  <2>2. CASE i = 1
    BY <1>2, <2>2 DEF JobCalls
  <2>3. CASE i \in Nat \ {0, 1}
    <3>1. i - 1 \in Nat
      BY <2>3
    <3> QED
      BY <1>5, <2>3, <3>1 DEF StepInv
  <2> QED
    BY <2>1, <2>2, <2>3
<1> QED
  BY <1>3, <1>4, <1>5, <1>6 DEF JobCalls

\* The calls of a job.
JobOrder == {<<1, "allocate">>, <<2, "register">>, <<3, "track">>, <<4, "job">>}

LEMMA NextJobFacts ==
    ASSUME NEW s
    PROVE  /\ Len(NextJob(s)) = 4
           /\ NextJob(s)[1] = JobCall("allocate", s)
           /\ NextJob(s)[2] = JobCall("register", s)
           /\ NextJob(s)[3] = JobCall("track", s) /\ NextJob(s)[4] = JobCall("job", s)
           /\ \A i \in 1 .. 4 : NextJob(s)[i].op # "each"
           /\ \A i \in 1 .. 4 : \A k \in JobCalls : \A r :
                  NextJob(s)[i] = JobCall(k, r) =>
                      r = s /\ <<i, k>> \in JobOrder
<1>1. /\ Len(NextJob(s)) = 4
      /\ NextJob(s)[1] = JobCall("allocate", s)
      /\ NextJob(s)[2] = JobCall("register", s)
      /\ NextJob(s)[3] = JobCall("track", s) /\ NextJob(s)[4] = JobCall("job", s)
  BY JobCallsDiffer DEF NextJob
<1>2. \A i \in 1 .. 4 : NextJob(s)[i].op # "each"
  BY <1>1, JobCallsDiffer
<1>3. ASSUME NEW i \in 1 .. 4, NEW k \in JobCalls, NEW r, NextJob(s)[i] = JobCall(k, r)
      PROVE  r = s /\ <<i, k>> \in JobOrder
  <2>1. i = 1 \/ i = 2 \/ i = 3 \/ i = 4
    OBVIOUS
  <2>2. \A l \in JobCalls : JobCall(l, s) = JobCall(k, r) => l = k /\ s = r
    BY JobCallsDiffer
  <2> QED
    BY <1>1, <1>3, <2>1, <2>2 DEF JobCalls, JobOrder
<1> QED
  BY <1>1, <1>2, <1>3

\* A loop is replaced by its body, or Close by its calls.
LEMMA ExpandKeepsHands ==
    ASSUME TypeInv, OwnInv, StepInv, RoomInv, NEW t \in Threads, calls[t] # <<>>,
           Head(calls[t]).op \in {"each", "close", "shutdown"}, UNCHANGED <<home, jobs>>,
           NEW more \in Seq(AllCalls), Then(t, more),
           \/ \A k \in JobCalls : \A i \in 1 .. Len(more) : \A s :
                  more[i] # JobCall(k, s) /\ more[i].op # "each"
           \/ \E s \in Scenes : Head(calls[t]) = JobLoop(s) /\ more = NextJob(s)
    PROVE  OwnInv' /\ StepInv' /\ RoomInv'
<1>1. \A k \in JobCalls : \A u \in Threads : \A i \in Nat : \A s :
          Does(k, u, i, s)' <=>
              IF u # t THEN Does(k, u, i, s)
              ELSE \/ i \in 1 .. Len(more) /\ more[i] = JobCall(k, s)
                   \/ i > Len(more) /\ Does(k, t, i - Len(more) + 1, s)
  BY JobCallsMove
<1>2. /\ \A u \in Threads : u # t => calls'[u] = calls[u]
      /\ Len(more) \in Nat /\ Len(calls[t]) \in Nat \ {0}
      /\ Head(calls[t]) = calls[t][1] /\ DOMAIN calls[t] = 1 .. Len(calls[t])
      /\ Len(calls'[t]) = Len(more) + Len(calls[t]) - 1
  BY CallsBecome
<1>3. \A s \in Scenes : jobs[s] \in Nat
  BY DEF TypeInv
<1>4. \A k \in JobCalls : \A i \in Nat : \A s \in Scenes : Does(k, t, i, s) => k = "loop"
  BY OnlyLoopsFollow
\* What is new belongs to the scene of the loop.
<1>5. ASSUME NEW k \in JobCalls, NEW i \in 1 .. Len(more), NEW s, more[i] = JobCall(k, s)
      PROVE  /\ s \in Scenes /\ Does("loop", t, 1, s) /\ more = NextJob(s) /\ Len(more) = 4
             /\ <<i, k>> \in JobOrder
  <2>1. PICK r \in Scenes : Head(calls[t]) = JobLoop(r) /\ more = NextJob(r)
    BY <1>5
  <2>2. Len(more) = 4 /\ r = s
        /\ <<i, k>> \in JobOrder
    BY <1>5, <2>1, NextJobFacts
  <2>3. Does("loop", t, 1, r)
    <3>1. 1 \in DOMAIN calls[t]
      BY <1>2
    <3> QED
      BY <1>2, <2>1, <3>1, JobCallsDiffer DEF Does
  <2> QED
    BY <2>1, <2>2, <2>3
<1>6. \A i \in 1 .. Len(more) : more[i].op # "each"
  BY NextJobFacts DEF JobCalls
<1>7. \A k \in JobCalls : \A u \in Threads : \A i \in Nat : \A s \in Scenes :
          Does(k, u, i, s)' =>
              IF u # t THEN Does(k, u, i, s)
              ELSE \/ /\ i \in 1 .. Len(more) /\ more[i] = JobCall(k, s)
                   \/ /\ k = "loop" /\ i > Len(more)
                      /\ i - Len(more) + 1 \in Nat /\ Does("loop", t, i - Len(more) + 1, s)
  <2> SUFFICES ASSUME NEW k \in JobCalls, NEW i \in Nat, NEW s \in Scenes, i > Len(more),
                      Does(k, t, i - Len(more) + 1, s)
               PROVE  k = "loop" /\ i - Len(more) + 1 \in Nat
    BY <1>1
  <2>1. i - Len(more) + 1 \in Nat
    BY <1>2
  <2> QED
    BY <1>4, <2>1
<1>8. OwnInv'
  <2>1. \A k \in JobCalls : \A u \in Threads : \A i \in Nat : \A s \in Scenes :
            Does(k, u, i, s)' => home'[s] = u
    <3> SUFFICES ASSUME NEW k \in JobCalls, NEW u \in Threads, NEW i \in Nat,
                        NEW s \in Scenes, Does(k, u, i, s)'
                 PROVE  home[s] = u
      OBVIOUS
    <3>1. CASE u # t
      BY <1>7, <3>1 DEF OwnInv
    <3>2. CASE u = t
      <4>1. CASE i \in 1 .. Len(more) /\ more[i] = JobCall(k, s)
        <5>1. Does("loop", t, 1, s)
          BY <1>5, <4>1
        <5> QED
          BY <3>2, <5>1 DEF OwnInv, JobCalls
      <4>2. CASE i - Len(more) + 1 \in Nat /\ Does("loop", t, i - Len(more) + 1, s)
        BY <3>2, <4>2 DEF OwnInv, JobCalls
      <4>3. \/ i \in 1 .. Len(more) /\ more[i] = JobCall(k, s)
            \/ i - Len(more) + 1 \in Nat /\ Does("loop", t, i - Len(more) + 1, s)
        BY <1>7, <3>2
      <4> QED
        BY <4>1, <4>2, <4>3
    <3> QED
      BY <3>1, <3>2
  <2>2. \A u \in Threads : \A i \in DOMAIN calls'[u] :
            calls'[u][i].op = "each" =>
                \E s \in Scenes : calls'[u][i] \in {JobLoop(s), SceneLoop(s), CleanupLoop}
    BY <1>6, LoopsMove
  <2> QED
    BY <2>1, <2>2 DEF OwnInv
<1>9. StepInv'
  <2> SUFFICES ASSUME NEW u \in Threads, NEW i \in Nat, NEW s \in Scenes
               PROVE  /\ Does("allocate", u, i, s)' =>
                             i = 1 \/ (i = 2 /\ calls'[u][1].op = "free")
                      /\ Does("register", u, i, s)' =>
                             IF i = 1 THEN jobs[s] >= 1 ELSE Does("allocate", u, i - 1, s)'
                      /\ Does("track", u, i, s)' =>
                             IF i = 1 THEN jobs[s] >= 1 ELSE Does("register", u, i - 1, s)'
                      /\ Does("job", u, i, s)' =>
                             IF i = 1 THEN jobs[s] >= 1 ELSE Does("track", u, i - 1, s)'
    BY DEF StepInv
  <2>1. CASE u # t
    <3>1. \A k \in JobCalls : \A j \in Nat : Does(k, u, j, s)' <=> Does(k, u, j, s)
      BY <1>1, <2>1
    <3>2. calls'[u] = calls[u]
      BY <1>2, <2>1
    <3>3. calls[u] \in Seq(AllCalls) /\ Len(calls[u]) \in Nat
      BY DEF TypeInv
    <3>4. \A k \in {"register", "track", "job"} : \A j \in Nat : Does(k, u, j, s) => j # 0
      BY <3>3 DEF Does
    <3> QED
      BY <3>1, <3>2, <3>4 DEF StepInv, JobCalls
  <2>2. CASE u = t
    <3>1. \A k \in {"allocate", "register", "track", "job"} :
              Does(k, u, i, s)' =>
                  /\ Does("loop", t, 1, s) /\ more = NextJob(s) /\ Len(more) = 4
                  /\ <<i, k>> \in JobOrder
      BY <1>5, <1>7, <2>2 DEF JobCalls
    <3>2. more = NextJob(s) /\ Len(more) = 4 =>
              /\ Does("allocate", t, 1, s)' /\ Does("register", t, 2, s)'
              /\ Does("track", t, 3, s)'
      <4>1. 1 \in 1 .. 4 /\ 2 \in 1 .. 4 /\ 3 \in 1 .. 4
        OBVIOUS
      <4> QED
        BY <1>1, <4>1, NextJobFacts DEF JobCalls
    <3>3. Does("allocate", u, i, s)' => i = 1
      BY <3>1 DEF JobOrder
    <3>4. Does("register", u, i, s)' => i = 2 /\ Does("allocate", t, 1, s)'
      BY <3>1, <3>2 DEF JobOrder
    <3>5. Does("track", u, i, s)' => i = 3 /\ Does("register", t, 2, s)'
      BY <3>1, <3>2 DEF JobOrder
    <3>6. Does("job", u, i, s)' => i = 4 /\ Does("track", t, 3, s)'
      BY <3>1, <3>2 DEF JobOrder
    <3> QED
      BY <2>2, <3>3, <3>4, <3>5, <3>6
  <2> QED
    BY <2>1, <2>2
<1>10. RoomInv'
  <2> SUFFICES ASSUME NEW u \in Threads, NEW i \in Nat, NEW s \in Scenes
               PROVE  /\ Does("allocate", u, i, s)' => jobs[s] < MaxJobs
                      /\ Does("loop", u, i, s)' =>
                             /\ jobs[s] + Len(calls'[u]) - i < MaxJobs
                             /\ \A j \in Nat : Does("allocate", u, j, s)' =>
                                    jobs[s] + Len(calls'[u]) - i + 1 < MaxJobs
    BY DEF RoomInv
  <2>1. CASE u # t
    <3>1. \A k \in JobCalls : \A j \in Nat : Does(k, u, j, s)' <=> Does(k, u, j, s)
      BY <1>1, <2>1
    <3>2. calls'[u] = calls[u]
      BY <1>2, <2>1
    <3> QED
      BY <3>1, <3>2 DEF RoomInv, JobCalls
  <2>2. CASE u = t
    <3>1. Does("loop", t, 1, s) => jobs[s] + Len(calls[t]) - 1 < MaxJobs
      BY DEF RoomInv
    <3>2. \A j \in Nat : Does("allocate", t, j, s)' => Does("loop", t, 1, s)
      BY <1>5, <1>7 DEF JobCalls
    <3>3. ASSUME Does("loop", u, i, s)'
          PROVE  /\ i - Len(more) + 1 \in Nat /\ i > Len(more)
                 /\ jobs[s] + Len(calls[t]) - (i - Len(more) + 1) < MaxJobs
      <4>1. /\ i - Len(more) + 1 \in Nat /\ Does("loop", t, i - Len(more) + 1, s)
            /\ i > Len(more)
        <5>1. ~(i \in 1 .. Len(more) /\ more[i] = JobCall("loop", s))
          BY <1>6, JobCallsDiffer
        <5> QED
          BY <1>7, <2>2, <3>3, <5>1 DEF JobCalls
      <4> QED
        BY <4>1 DEF RoomInv
    <3>4. /\ jobs[s] \in Nat /\ MaxJobs \in Nat /\ Len(calls[t]) \in Nat \ {0}
          /\ Len(more) \in Nat /\ Len(calls'[u]) = Len(more) + Len(calls[t]) - 1
      BY <1>2, <1>3, <2>2, MasterAssumption
    <3>5. Does("allocate", u, i, s)' => jobs[s] < MaxJobs
      BY <2>2, <3>1, <3>2, <3>4
    <3>6. ASSUME Does("loop", u, i, s)'
          PROVE  jobs[s] + Len(calls'[u]) - i < MaxJobs
      <4>1. jobs[s] + Len(calls[t]) - (i - Len(more) + 1) < MaxJobs
        BY <3>3, <3>6
      <4> QED
        BY <3>4, <4>1
    <3>7. ASSUME Does("loop", u, i, s)', NEW j \in Nat, Does("allocate", u, j, s)'
          PROVE  jobs[s] + Len(calls'[u]) - i + 1 < MaxJobs
      <4>1. jobs[s] + Len(calls[t]) - 1 < MaxJobs
        BY <2>2, <3>1, <3>2, <3>7
      <4>2. i > Len(more)
        BY <3>3, <3>7
      <4> QED
        BY <3>4, <4>1, <4>2
    <3> QED
      BY <3>5, <3>6, <3>7
  <2> QED
    BY <2>1, <2>2
<1> QED
  BY <1>8, <1>9, <1>10

\* What a handler consists of.
LEMMA SceneHandler ==
    ASSUME NEW s \in Scenes, NEW n \in 0 .. Rounds
    PROVE  /\ Len(SceneCalls(s, n)) = n + 1 /\ DOMAIN SceneCalls(s, n) = 1 .. n + 1
           /\ SceneCalls(s, n)[1] = SceneLoop(s)
           /\ \A i \in 2 .. n + 1 : SceneCalls(s, n)[i] = JobLoop(s)
<1> DEFINE one == <<Each(<<Send("scene", s)>>)>>
           rest == [i \in 1 .. n |-> Each(NextJob(s))]
<1>10. n \in Nat
  BY MasterAssumption
<1>1. SceneCalls(s, n) = one \o rest
  BY DEF SceneCalls
<1>2. one \in Seq({SceneLoop(s)}) /\ Len(one) = 1 /\ one[1] = SceneLoop(s)
  BY DEF SceneLoop
<1>3. rest \in Seq({JobLoop(s)}) /\ Len(rest) = n /\ \A i \in 1 .. n : rest[i] = JobLoop(s)
  BY <1>10 DEF JobLoop
<1> HIDE DEF one, rest
<1>4. /\ Len(one \o rest) = 1 + n /\ DOMAIN (one \o rest) = 1 .. 1 + n
      /\ \A i \in 1 .. 1 + n : (one \o rest)[i] = IF i <= 1 THEN one[i] ELSE rest[i - 1]
  <2> DEFINE S == {SceneLoop(s), JobLoop(s)}
  <2>1. one \in Seq(S) /\ rest \in Seq(S)
    BY <1>2, <1>3
  <2> HIDE DEF S
  <2>2. /\ one \o rest \in Seq(S) /\ Len(one \o rest) = Len(one) + Len(rest)
        /\ \A i \in 1 .. Len(one) + Len(rest) :
               (one \o rest)[i] = IF i <= Len(one) THEN one[i] ELSE rest[i - Len(one)]
    BY <2>1, ConcatProperties
  <2> QED
    BY <1>2, <1>3, <2>2
<1>5. \A i \in 2 .. n + 1 : i \in 1 .. 1 + n /\ ~(i <= 1) /\ i - 1 \in 1 .. n
  BY <1>10
<1>6. 1 \in 1 .. 1 + n /\ 1 + n = n + 1
  BY <1>10
<1> QED
  BY <1>1, <1>2, <1>3, <1>4, <1>5, <1>6

\* The calls of a job, behind the call that gives the tag back, if there is one.
StartsJob(h, b, s) ==
    /\ b \in {1, 2} /\ DOMAIN h = 1 .. b + 3
    /\ b = 2 => h[1].op = "free"
    /\ h[b] = JobCall("allocate", s) /\ h[b + 1] = JobCall("register", s)
    /\ h[b + 2] = JobCall("track", s) /\ h[b + 3] = JobCall("job", s)

JobPlace(k, i, b) ==
    \/ k = "allocate" /\ i = b
    \/ k = "register" /\ i = b + 1
    \/ k = "track" /\ i = b + 2
    \/ k = "job" /\ i = b + 3

\* Calls that make no job.
MakesNoJob(h) ==
    \A i \in DOMAIN h :
        /\ h[i].op = "each" => h[i] = CleanupLoop
        /\ \A k \in JobCalls : \A s : h[i] # JobCall(k, s)

LEMMA FinishHandler ==
    ASSUME NEW s \in Scenes
    PROVE  /\ DOMAIN FinishCalls(s) = 1 .. 2 /\ Len(FinishCalls(s)) = 2
           /\ FinishCalls(s)[1] = CleanupLoop /\ FinishCalls(s)[2] = CallFor("finish", s)
           /\ MakesNoJob(FinishCalls(s))
           /\ \A i \in DOMAIN FinishCalls(s) : FinishCalls(s)[i].op # "free"
           /\ \A k \in JobCalls : \A r : CleanupLoop # JobCall(k, r)
           /\ \A k \in JobCalls : \A r : CallFor("finish", s) # JobCall(k, r)
<1>1. /\ DOMAIN FinishCalls(s) = 1 .. 2 /\ Len(FinishCalls(s)) = 2
      /\ FinishCalls(s)[1] = CleanupLoop /\ FinishCalls(s)[2] = CallFor("finish", s)
  BY DEF FinishCalls, CleanupLoop
<1>2. CleanupLoop.op = "each" /\ CallFor("finish", s).op = "finish"
  BY DEF CleanupLoop, Each, CallFor
<1>3. \A k \in JobCalls : \A r : CleanupLoop # JobCall(k, r)
  <2>1. CleanupLoop.body[1].op = "send"
    BY DEF CleanupLoop, Each, Send
  <2>2. \A r : JobLoop(r).body[1].op = "allocate"
    BY DEF JobLoop, Each, NextJob, CallFor
  <2>3. QED  BY <1>2, <2>1, <2>2, JobCallsDiffer DEF JobCalls
<1>4. \A k \in JobCalls : \A r : CallFor("finish", s) # JobCall(k, r)
  BY <1>2, JobCallsDiffer DEF JobCalls
<1>5. \A i \in 1 .. 2 : i = 1 \/ i = 2
  OBVIOUS
<1>6. QED  BY <1>1, <1>2, <1>3, <1>4, <1>5 DEF MakesNoJob

LEMMA AnswerHandler ==
    ASSUME TypeInv, NEW m \in Messages, m.kind = "answer", NEW h, IsHandler(m, h)
    PROVE  /\ m.tag \in Labels /\ m.tag[1] \in Scenes /\ m = Answer(m.tag)
           /\ \A i \in DOMAIN h : h[i].op = "free" => h[i] = Free(m.tag)
           /\ \/ jobs[m.tag[1]] < MaxJobs /\ \E b \in {1, 2} : StartsJob(h, b, m.tag[1])
              \/ MakesNoJob(h)
<1> DEFINE s == m.tag[1]
           one == <<Free(m.tag)>>
<1>1. m.tag \in Labels /\ s \in Scenes /\ m = Answer(m.tag)
  BY DEF Messages, Incoming, Answer, Labels
<1>2. one \in Seq({Free(m.tag)}) /\ Len(one) = 1 /\ one[1] = Free(m.tag)
  OBVIOUS
<1>3. Free(m.tag).op = "free" /\ \A k \in JobCalls : \A r : Free(m.tag) # JobCall(k, r)
  <2>1. Free(m.tag).op = "free"
    BY DEF Free
  <2>2. QED  BY <2>1, JobCallsDiffer DEF JobCalls
<1>4. CASE h = <<>>
  BY <1>1, <1>4 DEF MakesNoJob
<1>5. CASE jobs[s] < MaxJobs /\ h \in {one \o NextJob(s), NextJob(s)}
  <2> DEFINE rest == NextJob(s)
             S == {Free(m.tag), CallFor("allocate", s), CallFor("register", s),
                   CallFor("track", s), Send("job", s)}
  <2>1. one \in Seq(S) /\ rest \in Seq(S)
    BY DEF NextJob
  <2>2. /\ Len(rest) = 4 /\ DOMAIN rest = 1 .. 4
        /\ rest[1] = JobCall("allocate", s) /\ rest[2] = JobCall("register", s)
        /\ rest[3] = JobCall("track", s) /\ rest[4] = JobCall("job", s)
    BY NextJobFacts DEF NextJob
  <2>3. \A i \in 1 .. 4 : rest[i].op # "free"
    <3>1. \A i \in 1 .. 4 : i = 1 \/ i = 2 \/ i = 3 \/ i = 4
      OBVIOUS
    <3>2. QED  BY <2>2, <3>1, JobCallsDiffer
  <2> HIDE DEF one, rest, S
  <2>4. /\ DOMAIN (one \o rest) = 1 .. 5 /\ (one \o rest)[1] = one[1]
        /\ \A i \in 1 .. 4 : (one \o rest)[i + 1] = rest[i]
    <3>1. /\ one \o rest \in Seq(S) /\ Len(one \o rest) = Len(one) + Len(rest)
          /\ \A i \in 1 .. Len(one) + Len(rest) :
                 (one \o rest)[i] = IF i <= Len(one) THEN one[i] ELSE rest[i - Len(one)]
      BY <2>1, ConcatProperties
    <3>2. QED  BY <1>2, <2>2, <3>1
  <2>5. CASE h = rest
    <3>1. StartsJob(h, 1, s)
      BY <2>2, <2>5 DEF StartsJob
    <3>2. \A i \in DOMAIN h : h[i].op # "free"
      BY <2>2, <2>3, <2>5
    <3>3. QED  BY <1>1, <1>5, <3>1, <3>2
  <2>6. CASE h = one \o rest
    <3>1. /\ h[2] = rest[1] /\ h[3] = rest[2] /\ h[4] = rest[3] /\ h[5] = rest[4]
          /\ h[1] = Free(m.tag) /\ DOMAIN h = 1 .. 5
      <4>1. 1 \in 1 .. 4 /\ 2 \in 1 .. 4 /\ 3 \in 1 .. 4 /\ 4 \in 1 .. 4
        OBVIOUS
      <4>2. QED  BY <1>2, <2>4, <2>6, <4>1
    <3>2. StartsJob(h, 2, s)
      BY <1>3, <2>2, <3>1 DEF StartsJob
    <3>3. \A i \in DOMAIN h : h[i].op = "free" => h[i] = Free(m.tag)
      <4>1. \A i \in 1 .. 5 : i = 1 \/ i = 2 \/ i = 3 \/ i = 4 \/ i = 5
        OBVIOUS
      <4>2. QED  BY <2>2, <3>1, <4>1, JobCallsDiffer
    <3>4. QED  BY <1>1, <1>5, <3>2, <3>3
  <2>7. QED  BY <1>5, <2>5, <2>6 DEF rest, one
<1>6. CASE h = FinishCalls(s) \o one
  <2> DEFINE f == FinishCalls(s)
             S == {Free(m.tag), CleanupLoop, CallFor("finish", s)}
  <2>1. /\ DOMAIN f = 1 .. 2 /\ Len(f) = 2 /\ f[1] = CleanupLoop
        /\ f[2] = CallFor("finish", s)
        /\ \A k \in JobCalls : \A r : CleanupLoop # JobCall(k, r)
        /\ \A k \in JobCalls : \A r : CallFor("finish", s) # JobCall(k, r)
    BY <1>1, FinishHandler
  <2>2. f \in Seq(S) /\ one \in Seq(S)
    BY DEF FinishCalls, CleanupLoop
  <2>3. CleanupLoop.op = "each" /\ CallFor("finish", s).op = "finish"
    BY DEF CleanupLoop, Each, CallFor
  <2> HIDE DEF one, f, S
  <2>4. /\ DOMAIN h = 1 .. 3 /\ h[1] = CleanupLoop /\ h[2] = CallFor("finish", s)
        /\ h[3] = Free(m.tag)
    <3>1. /\ f \o one \in Seq(S) /\ Len(f \o one) = Len(f) + Len(one)
          /\ \A i \in 1 .. Len(f) + Len(one) :
                 (f \o one)[i] = IF i <= Len(f) THEN f[i] ELSE one[i - Len(f)]
      BY <2>2, ConcatProperties
    <3>2. h = f \o one
      BY <1>6 DEF f
    <3>3. QED  BY <1>2, <2>1, <3>1, <3>2
  <2>5. \A i \in 1 .. 3 : i = 1 \/ i = 2 \/ i = 3
    OBVIOUS
  <2>6. MakesNoJob(h)
    BY <1>3, <2>1, <2>3, <2>4, <2>5 DEF MakesNoJob
  <2>7. QED  BY <1>1, <2>3, <2>4, <2>5, <2>6
<1>7. QED  BY <1>4, <1>5, <1>6 DEF IsHandler

LEMMA OtherHandlers ==
    ASSUME TypeInv, NEW m \in Messages, m.kind \notin {"answer", "request"},
           NEW h, IsHandler(m, h)
    PROVE  MakesNoJob(h) /\ \A i \in DOMAIN h : h[i].op \notin {"free", "each"}
<1>1. \A c : c.op \in {"save", "add", "note", "close"} =>
          /\ c.op \notin {"free", "each"}
          /\ \A k \in JobCalls : \A s : c # JobCall(k, s)
  BY JobCallsDiffer DEF JobCalls
<1>2. Send("response", None).op \notin {"free", "each"}
      /\ \A k \in JobCalls : \A s : Send("response", None) # JobCall(k, s)
  BY JobCallsDiffer DEF JobCalls, Send
<1>3. CASE h = <<Call("save"), Send("response", None), Call("add")>>
  <2>1. \A i \in DOMAIN h :
            \/ h[i] = Call("save") \/ h[i] = Call("add")
            \/ h[i] = Send("response", None)
    BY <1>3
  <2>2. Call("save").op = "save" /\ Call("add").op = "add"
    BY DEF Call
  <2>3. QED  BY <1>1, <1>2, <2>1, <2>2 DEF MakesNoJob
<1>4. CASE h = <<Call("note"), Call("close")>>
  <2>1. \A i \in DOMAIN h : h[i] = Call("note") \/ h[i] = Call("close")
    BY <1>4
  <2>2. Call("note").op = "note" /\ Call("close").op = "close"
    BY DEF Call
  <2>3. QED  BY <1>1, <2>1, <2>2 DEF MakesNoJob
<1>5. CASE h = <<>>
  BY <1>5 DEF MakesNoJob
<1>6. QED  BY <1>3, <1>4, <1>5 DEF IsHandler

LEMMA RequestHandler ==
    ASSUME TypeInv, NEW m \in Messages, m.kind = "request", NEW h, IsHandler(m, h)
    PROVE  /\ m.scene \in Scenes /\ m = Request(m.scene)
           /\ \A i \in DOMAIN h :
                  /\ h[i].op # "free"
                  /\ h[i] \in {JobLoop(m.scene), SceneLoop(m.scene)}
                  /\ Len(h) \in Nat /\ Len(h) <= Rounds + 1 /\ i \in 1 .. Len(h)
                  /\ \A k \in JobCalls : \A s : h[i] = JobCall(k, s) =>
                         s = m.scene /\ k = "loop" /\ i >= 2
<1>1. m.scene \in Scenes /\ m = Request(m.scene)
  BY DEF Messages, Incoming, Request
<1>2. CASE h = <<>>
  BY <1>1, <1>2
<1>3. ASSUME NEW n \in 0 .. Rounds, h = SceneCalls(m.scene, n), NEW i \in DOMAIN h
      PROVE  /\ h[i].op # "free"
             /\ h[i] \in {JobLoop(m.scene), SceneLoop(m.scene)}
             /\ Len(h) \in Nat /\ Len(h) <= Rounds + 1 /\ i \in 1 .. Len(h)
             /\ \A k \in JobCalls : \A s : h[i] = JobCall(k, s) =>
                    s = m.scene /\ k = "loop" /\ i >= 2
  <2>1. /\ i \in 1 .. n + 1 /\ Len(h) = n + 1
        /\ i = 1 => h[i] = SceneLoop(m.scene)
        /\ i \in 2 .. n + 1 => h[i] = JobLoop(m.scene)
    BY <1>1, <1>3, SceneHandler
  <2>2. n \in Nat /\ n <= Rounds /\ Rounds \in Nat
    BY MasterAssumption
  <2>3. i = 1 \/ (i \in 2 .. n + 1 /\ i >= 2)
    BY <2>1, <2>2
  <2>4. JobLoop(m.scene).op = "each" /\ SceneLoop(m.scene).op = "each"
    BY DEF JobLoop, SceneLoop, Each
  <2>5. \A k \in JobCalls : \A s : SceneLoop(m.scene) # JobCall(k, s)
    <3>1. SceneLoop(m.scene).body[1].op = "send"
      BY DEF SceneLoop, Each, Send
    <3>2. \A s : JobLoop(s).body[1].op = "allocate"
      BY DEF JobLoop, Each, NextJob, CallFor
    <3> QED
      BY <2>4, <3>1, <3>2, JobCallsDiffer DEF JobCalls
  <2>6. \A k \in JobCalls : \A s : JobLoop(m.scene) = JobCall(k, s) => s = m.scene /\ k = "loop"
    BY JobCallsDiffer DEF JobCalls
  <2>7. Len(h) \in Nat /\ Len(h) <= Rounds + 1 /\ i \in 1 .. Len(h)
    BY <2>1, <2>2
  <2> QED
    BY <2>1, <2>3, <2>4, <2>5, <2>6, <2>7
<1> QED
  BY <1>1, <1>2, <1>3 DEF IsHandler

\* The message that is taken.
LEMMA TakenMessage ==
    ASSUME TypeInv, NEW t \in Threads, ThreadTakes(t)
    PROVE  /\ calls[t] = <<>> /\ 1 \in DOMAIN queue[t]
           /\ Head(queue[t]) = queue[t][1] /\ Head(queue[t]) \in Messages
           /\ \A u \in Threads : u # t => calls'[u] = calls[u]
           /\ IsHandler(Head(queue[t]), calls'[t])
           /\ calls'[t] \in Seq(AllCalls)
           /\ UNCHANGED <<home, jobs>>
<1>1. queue[t] \in Seq(Messages) /\ queue[t] # <<>>
  BY DEF ThreadTakes, TypeInv
<1>2. PICK h : IsHandler(Head(queue[t]), h) /\ calls' = [calls EXCEPT ![t] = h]
  BY TakeStartsHandler
<1>3. calls'[t] \in Seq(AllCalls)
  BY ThreadTakesKeepsTypes DEF TypeInv
<1>4. calls[t] = <<>> /\ UNCHANGED <<home, jobs>>
  BY DEF ThreadTakes
<1>5. 1 \in DOMAIN queue[t] /\ Head(queue[t]) = queue[t][1] /\ Head(queue[t]) \in Messages
  BY <1>1
<1>6. calls'[t] = h /\ \A u \in Threads : u # t => calls'[u] = calls[u]
  BY <1>2 DEF TypeInv
<1> QED
  BY <1>2, <1>3, <1>4, <1>5, <1>6

\* What a handler starts with, as OwnInv, StepInv and RoomInv want it.
LEMMA HandlerStarts ==
    ASSUME TypeInv, RequestInv, AnswersFindTheirCommand, NEW t \in Threads, ThreadTakes(t)
    PROVE  \A k \in JobCalls : \A i \in Nat : \A s \in Scenes :
               Does(k, t, i, s)' =>
                   /\ home[s] = t
                   /\ \/ /\ Head(queue[t]) = Request(s) /\ k = "loop" /\ i >= 2
                         /\ jobs[s] = 0 /\ Len(calls'[t]) \in Nat
                         /\ i <= Len(calls'[t]) /\ Len(calls'[t]) <= Rounds + 1
                      \/ /\ Head(queue[t]) = Answer(Head(queue[t]).tag)
                         /\ Head(queue[t]).tag \in Labels /\ Head(queue[t]).tag[1] = s
                         /\ jobs[s] < MaxJobs /\ \E b \in {1, 2} : StartsJob(calls'[t], b, s)
<1> DEFINE m == Head(queue[t])
           h == calls'[t]
<1> SUFFICES ASSUME NEW k \in JobCalls, NEW i \in Nat, NEW s \in Scenes, Does(k, t, i, s)'
             PROVE  /\ home[s] = t
                    /\ \/ /\ m = Request(s) /\ k = "loop" /\ i >= 2
                          /\ jobs[s] = 0 /\ Len(h) \in Nat
                          /\ i <= Len(h) /\ Len(h) <= Rounds + 1
                       \/ /\ m = Answer(m.tag) /\ m.tag \in Labels /\ m.tag[1] = s
                          /\ jobs[s] < MaxJobs /\ \E b \in {1, 2} : StartsJob(h, b, s)
  OBVIOUS
<1>1. /\ 1 \in DOMAIN queue[t] /\ m = queue[t][1] /\ m \in Messages
      /\ IsHandler(m, h)
  BY TakenMessage
<1>2. i \in DOMAIN h /\ h[i] = JobCall(k, s)
  BY DEF Does
<1> HIDE DEF m, h
<1>3. CASE m.kind \notin {"answer", "request"}
  BY <1>1, <1>2, <1>3, OtherHandlers DEF MakesNoJob
<1>4. CASE m.kind = "request"
  <2>1. /\ m.scene = s /\ m = Request(s) /\ k = "loop" /\ i >= 2
        /\ Len(h) \in Nat /\ Len(h) <= Rounds + 1 /\ i \in 1 .. Len(h)
    BY <1>1, <1>2, <1>4, RequestHandler
  <2>2. home[s] = t /\ jobs[s] = 0
    <3>1. Requested(t, 1, s)
      BY <1>1, <2>1 DEF Requested
    <3> QED
      BY <3>1 DEF RequestInv
  <2> QED
    BY <2>1, <2>2
<1>5. CASE m.kind = "answer"
  <2>1. /\ m.tag \in Labels /\ m.tag[1] \in Scenes /\ m = Answer(m.tag)
        /\ jobs[m.tag[1]] < MaxJobs /\ \E b \in {1, 2} : StartsJob(h, b, m.tag[1])
    BY <1>1, <1>2, <1>5, AnswerHandler DEF MakesNoJob
  <2>2. PICK b \in {1, 2} : StartsJob(h, b, m.tag[1])
    BY <2>1
  <2>3. (b = 2 /\ i = 1) \/ i = b \/ i = b + 1 \/ i = b + 2 \/ i = b + 3
    BY <1>2, <2>2 DEF StartsJob
  <2>4. m.tag[1] = s
    <3>1. ~(b = 2 /\ i = 1)
      BY <1>2, <2>2, JobCallsDiffer DEF StartsJob, JobCalls
    <3>2. \E l \in JobCalls : JobCall(l, m.tag[1]) = JobCall(k, s)
      BY <1>2, <2>2, <2>3, <3>1 DEF StartsJob, JobCalls
    <3>3. QED  BY <3>2, JobCallsDiffer
  <2>5. home[s] = t
    BY <1>1, <1>5, <2>4 DEF AnswersFindTheirCommand
  <2> QED
    BY <2>1, <2>4, <2>5
<1> QED
  BY <1>1, <1>3, <1>4, <1>5 DEF Messages, Incoming

\* Where the calls of a new job are.
LEMMA JobStarts ==
    ASSUME NEW t \in Threads, NEW b \in {1, 2}, NEW s, NEW r, StartsJob(calls'[t], b, r),
           NEW k \in JobCalls, NEW i \in Nat, Does(k, t, i, s)'
    PROVE  /\ s = r
           /\ JobPlace(k, i, b)
           /\ Does("allocate", t, b, s)' /\ Does("register", t, b + 1, s)'
           /\ Does("track", t, b + 2, s)'
           /\ b = 2 => calls'[t][1].op = "free"
<1> DEFINE h == calls'[t]
<1>1. i \in DOMAIN h /\ h[i] = JobCall(k, s)
  BY DEF Does
<1>2. (b = 2 /\ i = 1) \/ i = b \/ i = b + 1 \/ i = b + 2 \/ i = b + 3
  BY <1>1 DEF StartsJob
<1>3. ~(b = 2 /\ i = 1)
  BY <1>1, JobCallsDiffer DEF StartsJob, JobCalls
<1>4. /\ JobCall(k, s) \in {JobCall("allocate", r), JobCall("register", r),
                            JobCall("track", r), JobCall("job", r)}
      /\ i = b => JobCall(k, s) = JobCall("allocate", r)
      /\ i = b + 1 => JobCall(k, s) = JobCall("register", r)
      /\ i = b + 2 => JobCall(k, s) = JobCall("track", r)
      /\ i = b + 3 => JobCall(k, s) = JobCall("job", r)
  BY <1>1, <1>2, <1>3 DEF StartsJob
<1>5. /\ s = r
      /\ i = b => k = "allocate"
      /\ i = b + 1 => k = "register"
      /\ i = b + 2 => k = "track"
      /\ i = b + 3 => k = "job"
  BY <1>4, JobCallsDiffer DEF JobCalls
<1>6. b \in DOMAIN h /\ b + 1 \in DOMAIN h /\ b + 2 \in DOMAIN h
  BY DEF StartsJob
<1>7. Does("allocate", t, b, s)' /\ Does("register", t, b + 1, s)' /\ Does("track", t, b + 2, s)'
  <2>1. /\ h[b] = JobCall("allocate", s) /\ h[b + 1] = JobCall("register", s)
        /\ h[b + 2] = JobCall("track", s)
    BY <1>5 DEF StartsJob
  <2>2. QED  BY <1>6, <2>1 DEF Does
<1>8. JobPlace(k, i, b)
  BY <1>2, <1>3, <1>5 DEF JobPlace
<1>9. b = 2 => calls'[t][1].op = "free"
  BY DEF StartsJob
<1> HIDE DEF h
<1>11. QED  BY <1>5, <1>7, <1>8, <1>9

LEMMA TakeKeepsHands ==
    ASSUME TypeInv, OwnInv, StepInv, RoomInv, RequestInv, AnswersFindTheirCommand,
           NEW t \in Threads, ThreadTakes(t)
    PROVE  OwnInv' /\ StepInv' /\ RoomInv'
<1> DEFINE m == Head(queue[t])
<1>1. /\ \A u \in Threads : u # t => calls'[u] = calls[u]
      /\ IsHandler(m, calls'[t]) /\ m \in Messages /\ UNCHANGED <<home, jobs>>
  BY TakenMessage
<1> HIDE DEF m
<1>2. \A k \in JobCalls : \A u \in Threads : \A i \in Nat : \A s \in Scenes :
          u # t => (Does(k, u, i, s)' <=> Does(k, u, i, s))
  BY <1>1 DEF Does
<1>3. \A k \in JobCalls : \A i \in Nat : \A s \in Scenes :
          Does(k, t, i, s)' =>
              /\ home[s] = t
              /\ \/ /\ k = "loop" /\ i >= 2 /\ jobs[s] = 0 /\ Len(calls'[t]) \in Nat
                    /\ i <= Len(calls'[t]) /\ Len(calls'[t]) <= Rounds + 1
                 \/ jobs[s] < MaxJobs /\ \E b \in {1, 2} : StartsJob(calls'[t], b, s)
  BY HandlerStarts
<1>4. \A s \in Scenes : jobs[s] \in Nat
  BY DEF TypeInv
<1>5. OwnInv'
  <2>1. \A k \in JobCalls : \A u \in Threads : \A i \in Nat : \A s \in Scenes :
            Does(k, u, i, s)' => home'[s] = u
    BY <1>1, <1>2, <1>3 DEF OwnInv
  <2>2. ASSUME NEW i \in DOMAIN calls'[t], calls'[t][i].op = "each"
        PROVE  \E s \in Scenes : calls'[t][i] \in {JobLoop(s), SceneLoop(s), CleanupLoop}
    <3>1. CASE m.kind = "request"
      BY <1>1, <2>2, <3>1, RequestHandler
    <3>2. CASE m.kind = "answer"
      <4>1. m.tag[1] \in Scenes
        BY <1>1, <3>2, AnswerHandler
      <4>2. MakesNoJob(calls'[t]) \/ \E b \in {1, 2} : StartsJob(calls'[t], b, m.tag[1])
        BY <1>1, <3>2, AnswerHandler
      <4>3. ASSUME NEW b \in {1, 2}, StartsJob(calls'[t], b, m.tag[1])
            PROVE  FALSE
        <5>1. (b = 2 /\ i = 1) \/ i = b \/ i = b + 1 \/ i = b + 2 \/ i = b + 3
          BY <2>2, <4>3 DEF StartsJob
        <5>2. QED  BY <2>2, <4>3, <5>1, JobCallsDiffer DEF StartsJob
      <4>4. QED  BY <2>2, <4>1, <4>2, <4>3 DEF MakesNoJob
    <3>3. CASE m.kind \notin {"answer", "request"}
      BY <1>1, <2>2, <3>3, OtherHandlers
    <3> QED
      BY <3>1, <3>2, <3>3
  <2>3. \A u \in Threads : \A i \in DOMAIN calls'[u] :
            calls'[u][i].op = "each" =>
                \E s \in Scenes : calls'[u][i] \in {JobLoop(s), SceneLoop(s), CleanupLoop}
    <3> SUFFICES ASSUME NEW u \in Threads, NEW i \in DOMAIN calls'[u], calls'[u][i].op = "each"
                 PROVE  \E s \in Scenes : calls'[u][i] \in {JobLoop(s), SceneLoop(s), CleanupLoop}
      OBVIOUS
    <3>1. CASE u = t
      BY <1>1, <2>2, <3>1
    <3>2. CASE u # t
      BY <1>1, <3>2 DEF OwnInv
    <3> QED
      BY <3>1, <3>2
  <2> QED
    BY <2>1, <2>3 DEF OwnInv
<1>6. StepInv'
  <2> SUFFICES ASSUME NEW u \in Threads, NEW i \in Nat, NEW s \in Scenes
               PROVE  /\ Does("allocate", u, i, s)' =>
                             i = 1 \/ (i = 2 /\ calls'[u][1].op = "free")
                      /\ Does("register", u, i, s)' =>
                             IF i = 1 THEN jobs[s] >= 1 ELSE Does("allocate", u, i - 1, s)'
                      /\ Does("track", u, i, s)' =>
                             IF i = 1 THEN jobs[s] >= 1 ELSE Does("register", u, i - 1, s)'
                      /\ Does("job", u, i, s)' =>
                             IF i = 1 THEN jobs[s] >= 1 ELSE Does("track", u, i - 1, s)'
    BY <1>1 DEF StepInv
  <2>1. CASE u # t
    <3>1. calls'[u] = calls[u]
      BY <1>1, <2>1
    <3>2. calls[u] \in Seq(AllCalls) /\ Len(calls[u]) \in Nat
      BY DEF TypeInv
    <3>3. \A k \in {"register", "track", "job"} : \A j \in Nat : Does(k, u, j, s) => j # 0
      BY <3>2 DEF Does
    <3> QED
      BY <1>2, <2>1, <3>1, <3>3 DEF StepInv, JobCalls
  <2>2. CASE u = t
    <3>1. ASSUME NEW k \in {"allocate", "register", "track", "job"}, Does(k, u, i, s)'
          PROVE  \E b \in {1, 2} :
                     /\ JobPlace(k, i, b)
                     /\ Does("allocate", u, b, s)' /\ Does("register", u, b + 1, s)'
                     /\ Does("track", u, b + 2, s)'
                     /\ b = 2 => calls'[u][1].op = "free"
      <4>1. k \in JobCalls
        BY DEF JobCalls
      <4>2. PICK b \in {1, 2} : StartsJob(calls'[u], b, s)
        BY <1>3, <2>2, <3>1, <4>1
      <4>3. QED  BY <2>2, <3>1, <4>1, <4>2, JobStarts
    <3>2. Does("allocate", u, i, s)' => i = 1 \/ (i = 2 /\ calls'[u][1].op = "free")
      BY <3>1 DEF JobPlace
    <3>3. Does("register", u, i, s)' => i > 1 /\ Does("allocate", u, i - 1, s)'
      BY <3>1 DEF JobPlace
    <3>4. Does("track", u, i, s)' => i > 1 /\ Does("register", u, i - 1, s)'
      BY <3>1 DEF JobPlace
    <3>5. Does("job", u, i, s)' => i > 1 /\ Does("track", u, i - 1, s)'
      BY <3>1 DEF JobPlace
    <3> QED
      BY <3>2, <3>3, <3>4, <3>5
  <2> QED
    BY <2>1, <2>2
<1>7. RoomInv'
  <2> SUFFICES ASSUME NEW u \in Threads, NEW i \in Nat, NEW s \in Scenes
               PROVE  /\ Does("allocate", u, i, s)' => jobs[s] < MaxJobs
                      /\ Does("loop", u, i, s)' =>
                             /\ jobs[s] + Len(calls'[u]) - i < MaxJobs
                             /\ \A j \in Nat : Does("allocate", u, j, s)' =>
                                    jobs[s] + Len(calls'[u]) - i + 1 < MaxJobs
    BY <1>1 DEF RoomInv
  <2>1. CASE u # t
    <3>1. calls'[u] = calls[u]
      BY <1>1, <2>1
    <3> QED
      BY <1>2, <2>1, <3>1 DEF RoomInv, JobCalls
  <2>2. CASE u = t
    <3>1. Does("allocate", u, i, s)' => jobs[s] < MaxJobs
      BY <1>3, <2>2 DEF JobCalls
    <3>2. ASSUME Does("loop", u, i, s)'
          PROVE  /\ jobs[s] = 0 /\ i >= 2 /\ Len(calls'[u]) \in Nat
                 /\ i <= Len(calls'[u]) /\ Len(calls'[u]) <= Rounds + 1
      <4>1. ASSUME NEW b \in {1, 2}, StartsJob(calls'[t], b, s)
            PROVE  FALSE
        <5>1. Does("loop", t, i, s)' /\ "loop" \in JobCalls
          BY <2>2, <3>2 DEF JobCalls
        <5>2. ASSUME NEW k \in JobCalls, Does(k, t, i, s)'
              PROVE  JobPlace(k, i, b)
          BY <4>1, <5>2, JobStarts
        <5>3. QED  BY <5>1, <5>2 DEF JobPlace
      <4>2. QED  BY <1>3, <2>2, <3>2, <4>1 DEF JobCalls
    <3>3. Does("loop", u, i, s)' => jobs[s] + Len(calls'[u]) - i < MaxJobs
      BY <1>4, <3>2, MasterAssumption
    <3>4. ASSUME Does("loop", u, i, s)', NEW j \in Nat, Does("allocate", u, j, s)'
          PROVE  FALSE
      <4>1. PICK b \in {1, 2} : StartsJob(calls'[t], b, s)
        BY <1>3, <2>2, <3>4 DEF JobCalls
      <4>2. Does("loop", t, i, s)' /\ "loop" \in JobCalls
        BY <2>2, <3>4 DEF JobCalls
      <4>3. ASSUME NEW k \in JobCalls, Does(k, t, i, s)'
            PROVE  JobPlace(k, i, b)
        BY <4>1, <4>3, JobStarts
      <4>4. QED  BY <4>2, <4>3 DEF JobPlace
    <3> QED
      BY <3>1, <3>3, <3>4
  <2> QED
    BY <2>1, <2>2
<1> QED
  BY <1>5, <1>6, <1>7

-----------------------------------------------------------------------------
(* A scene is requested once.                                              *)

LEMMA NothingNew ==
    ASSUME TypeInv, NEW t \in Threads, calls[t] # <<>>,
           NEW more \in Seq(AllCalls), Then(t, more),
           \/ \A k \in JobCalls : \A i \in 1 .. Len(more) : \A s :
                  more[i] # JobCall(k, s) /\ more[i].op # "each"
           \/ \E s \in Scenes : Head(calls[t]) = JobLoop(s) /\ more = NextJob(s)
    PROVE  \A s \in Scenes : Idle(s) => Idle(s)'
<1> SUFFICES ASSUME NEW s \in Scenes, NEW k \in JobCalls, NEW u \in Threads, NEW i \in Nat,
                    Does(k, u, i, s)'
             PROVE  \E l \in JobCalls : \E v \in Threads : \E j \in Nat : Does(l, v, j, s)
  BY DEF Idle
<1>1. IF u # t THEN Does(k, u, i, s)
      ELSE \/ i \in 1 .. Len(more) /\ more[i] = JobCall(k, s)
           \/ i > Len(more) /\ Does(k, t, i - Len(more) + 1, s)
  BY JobCallsMove
<1>2. /\ Len(more) \in Nat /\ Head(calls[t]) = calls[t][1]
      /\ Len(calls[t]) \in Nat \ {0} /\ DOMAIN calls[t] = 1 .. Len(calls[t])
  BY CallsBecome
<1>3. CASE u # t
  BY <1>1, <1>3
<1>4. CASE i > Len(more) /\ Does(k, t, i - Len(more) + 1, s)
  <2>1. i - Len(more) + 1 \in Nat
    BY <1>2, <1>4
  <2> QED
    BY <1>4, <2>1
<1>5. CASE i \in 1 .. Len(more) /\ more[i] = JobCall(k, s)
  <2>1. PICK r \in Scenes : Head(calls[t]) = JobLoop(r) /\ more = NextJob(r)
    BY <1>5
  <2>2. r = s
    <3>1. i \in 1 .. 4 /\ NextJob(r)[i] = JobCall(k, s)
      BY <1>5, <2>1, NextJobFacts
    <3>2. \A q : NextJob(r)[i] = JobCall(k, q) => q = r
      BY <3>1, NextJobFacts
    <3> QED
      BY <3>1, <3>2
  <2>3. 1 \in DOMAIN calls[t]
    BY <1>2
  <2>4. Does("loop", t, 1, s)
    BY <1>2, <2>1, <2>2, <2>3, JobCallsDiffer DEF Does
  <2> QED
    BY <2>4 DEF JobCalls
<1> QED
  BY <1>1, <1>3, <1>4, <1>5

LEMMA KeepsRequests ==
    ASSUME RequestInv, UNCHANGED home, NEW t, NEW a \in Nat,
           \A u \in Threads : \A i \in Nat : \A s \in Scenes :
               Requested(u, i, s)' => IF u = t THEN Requested(u, i + a, s) ELSE Requested(u, i, s),
           \A s \in Scenes : home[s] = None => jobs'[s] = jobs[s],
           \A u \in Threads : \A i \in Nat : \A s \in Scenes :
               Requested(u, i, s)' => jobs'[s] = jobs[s] /\ Idle(s)'
    PROVE  RequestInv'
<1>1. ASSUME NEW s \in Scenes, home[s] = None PROVE jobs'[s] = 0
  BY <1>1 DEF RequestInv
<1>2. ASSUME NEW s \in Scenes, NEW u \in Threads, NEW i \in Nat, Requested(u, i, s)'
      PROVE  home[s] = u /\ jobs'[s] = 0 /\ Idle(s)'
  <2>1. \E j \in Nat : Requested(u, j, s)
    BY <1>2
  <2>2. home[s] = u /\ jobs[s] = 0
    BY <2>1 DEF RequestInv
  <2> QED
    BY <1>2, <2>2
<1>3. ASSUME NEW s \in Scenes, NEW u \in Threads, NEW v \in Threads, NEW i \in Nat,
             NEW j \in Nat, Requested(u, i, s)', Requested(v, j, s)'
      PROVE  u = v /\ i = j
  <2>1. u = v
    BY <1>2, <1>3
  <2>2. CASE u = t
    <3>1. Requested(u, i + a, s) /\ Requested(u, j + a, s)
      BY <1>3, <2>1, <2>2
    <3>2. i + a = j + a
      BY <3>1 DEF RequestInv
    <3> QED
      BY <2>1, <3>2
  <2>3. CASE u # t
    <3>1. Requested(u, i, s) /\ Requested(u, j, s)
      BY <1>3, <2>1, <2>3
    <3> QED
      BY <2>1, <3>1 DEF RequestInv
  <2> QED
    BY <2>2, <2>3
<1> QED
  BY <1>1, <1>2, <1>3 DEF RequestInv

\* Only a client puts a request into a queue.
LEMMA PutKeepsRequests ==
    ASSUME TypeInv, NEW t \in Threads \cup {None}, NEW m \in Messages, Put(t, m),
           m.kind # "request"
    PROVE  \A u \in Threads : \A i \in Nat : \A s \in Scenes :
               Requested(u, i, s)' => Requested(u, i, s)
<1> SUFFICES ASSUME NEW u \in Threads, NEW i \in Nat, NEW s \in Scenes, Requested(u, i, s)'
             PROVE  Requested(u, i, s)
  OBVIOUS
<1>1. i \in DOMAIN queue'[u] /\ queue'[u][i] = Request(s)
  BY DEF Requested
<1>2. Request(s).kind = "request"
  BY DEF Request
<1>3. \/ i \in DOMAIN queue[u] /\ queue'[u][i] = queue[u][i]
      \/ queue'[u][i] = m
  BY <1>1, PutContents
<1>4. queue'[u][i] # m
  BY <1>1, <1>2
<1> QED
  BY <1>1, <1>3, <1>4 DEF Requested

\* A handler that works for a scene is not that of a request that waits.
LEMMA TakeKeepsRequests ==
    ASSUME TypeInv, RequestInv, AnswersFindTheirCommand, FreshInv,
           NEW t \in Threads, ThreadTakes(t)
    PROVE  RequestInv'
<1> DEFINE m == Head(queue[t])
<1>1. /\ calls[t] = <<>> /\ 1 \in DOMAIN queue[t] /\ m = queue[t][1] /\ m \in Messages
      /\ \A u \in Threads : u # t => calls'[u] = calls[u]
      /\ UNCHANGED <<home, jobs>>
  BY TakenMessage
<1>2. queue[t] # <<>> /\ queue' = [queue EXCEPT ![t] = Tail(@)]
  BY DEF ThreadTakes
<1>3. ASSUME NEW u \in Threads, NEW i \in Nat, NEW s \in Scenes, Requested(u, i, s)'
      PROVE  IF u = t THEN i >= 1 /\ Requested(u, i + 1, s) ELSE Requested(u, i, s)
  <2>1. i \in DOMAIN queue'[u] /\ queue'[u][i] = Request(s)
    BY <1>3 DEF Requested
  <2> QED
    BY <1>2, <2>1, TakeContents DEF Requested
<1>4. ASSUME NEW u \in Threads, NEW i \in Nat, NEW s \in Scenes, Requested(u, i, s)'
      PROVE  Idle(s)'
  <2>1. PICK j \in Nat : Requested(u, j, s) /\ (u = t => j >= 2)
    <3>1. u = t => i + 1 \in Nat /\ i + 1 >= 2
      BY <1>3, <1>4
    <3> QED
      BY <1>3, <1>4, <3>1
  <2>2. Idle(s) /\ jobs[s] = 0
    BY <2>1 DEF RequestInv
  <2>3. m # Request(s)
    <3>1. m = Request(s) => Requested(t, 1, s)
      BY <1>1 DEF Requested
    <3>2. m = Request(s) => u = t /\ j = 1
      BY <2>1, <3>1 DEF RequestInv
    <3> QED
      BY <2>1, <3>2
  <2>4. ~(m.tag \in Labels /\ m.tag[1] = s /\ m = Answer(m.tag))
    <3> SUFFICES ASSUME m.tag \in Labels, m.tag[1] = s, m = Answer(m.tag) PROVE FALSE
      OBVIOUS
    <3>1. Answered(m.tag)
      BY <1>1 DEF Answered
    <3>2. 1 <= m.tag[2] /\ m.tag[2] <= jobs[s] /\ m.tag[2] \in Nat
      BY <3>1 DEF FreshInv, InUse, Labels
    <3> QED
      BY <2>2, <3>2
  <2>5. \A k \in JobCalls : \A n \in Nat : ~Does(k, t, n, s)'
    <3> HIDE DEF m
    <3>1. \A k \in JobCalls : \A n \in Nat :
              Does(k, t, n, s)' => \/ m = Request(s)
                                   \/ m = Answer(m.tag) /\ m.tag \in Labels /\ m.tag[1] = s
      BY HandlerStarts DEF m
    <3> QED
      BY <2>3, <2>4, <3>1
  <2>6. \A k \in JobCalls : \A v \in Threads : \A n \in Nat :
            v # t => (Does(k, v, n, s)' <=> Does(k, v, n, s))
    BY <1>1 DEF Does
  <2> QED
    BY <2>2, <2>5, <2>6 DEF Idle
<1> HIDE DEF m
<1>5. \A u \in Threads : \A i \in Nat : \A s \in Scenes :
          Requested(u, i, s)' => IF u = t THEN Requested(u, i + 1, s) ELSE Requested(u, i, s)
  BY <1>3
<1> QED
  BY <1>1, <1>4, <1>5, KeepsRequests

\* The client's request, and the command that gets a thread.
LEMMA AskingKeepsHands ==
    ASSUME TypeInv, HandInv, NEW s \in Scenes, ClientAsks(s)
    PROVE  HandInv'
<1>1. PICK t \in Threads : Put(t, Request(s)) /\ home' = [home EXCEPT ![s] = t]
  BY DEF ClientAsks
<1>2. home[s] = None /\ UNCHANGED <<calls, jobs>> /\ None \notin Threads
  BY MasterAssumption DEF ClientAsks
<1>3. \A r \in Scenes : home'[r] = IF r = s THEN t ELSE home[r]
  BY <1>1 DEF TypeInv
<1>4. \A k \in JobCalls : \A u \in Threads : \A i \in Nat : \A r :
          Does(k, u, i, r)' <=> Does(k, u, i, r)
  BY <1>2 DEF Does
<1>5. Idle(s)
  BY <1>2 DEF Idle, HandInv, OwnInv
<1>6. OwnInv'
  <2>1. \A k \in JobCalls : \A u \in Threads : \A i \in Nat : \A r \in Scenes :
            Does(k, u, i, r)' => home'[r] = u
    BY <1>3, <1>4, <1>5 DEF Idle, HandInv, OwnInv
  <2> QED
    BY <1>2, <2>1 DEF HandInv, OwnInv
<1>7. StepInv' /\ RoomInv'
  <2>1. StepInv'
    BY <1>2 DEF HandInv, StepInv, Does
  <2>2. RoomInv'
    BY <1>2 DEF HandInv, RoomInv, Does
  <2> QED
    BY <2>1, <2>2
<1>8. RequestInv'
  <2>1. \A u \in Threads : \A i \in Nat : \A r \in Scenes :
            Requested(u, i, r)' => \/ Requested(u, i, r)
                                   \/ u = t /\ i = Len(queue[t]) + 1 /\ r = s
    <3> SUFFICES ASSUME NEW u \in Threads, NEW i \in Nat, NEW r \in Scenes, Requested(u, i, r)'
                 PROVE  Requested(u, i, r) \/ (u = t /\ i = Len(queue[t]) + 1 /\ r = s)
      OBVIOUS
    <3>1. i \in DOMAIN queue'[u] /\ queue'[u][i] = Request(r)
      BY DEF Requested
    <3>2. Request(s) \in Messages
      BY DEF Request, Messages
    <3>3. \/ i \in DOMAIN queue[u] /\ queue'[u][i] = queue[u][i]
          \/ u = t /\ i = Len(queue[u]) + 1 /\ queue'[u][i] = Request(s)
      BY <1>1, <3>1, <3>2, PutContents
    <3>4. Request(r) = Request(s) => r = s
      BY DEF Request
    <3> QED
      BY <3>1, <3>3, <3>4 DEF Requested
  <2>2. \A u \in Threads : \A i \in Nat : ~Requested(u, i, s)
    BY <1>2 DEF HandInv, RequestInv
  <2>3. jobs[s] = 0
    BY <1>2 DEF HandInv, RequestInv
  <2>4. \A r \in Scenes : Idle(r) => Idle(r)'
    BY <1>4 DEF Idle
  <2>5. \A r \in Scenes : home'[r] = None => jobs'[r] = 0
    BY <1>2, <1>3 DEF HandInv, RequestInv
  <2>6. \A r \in Scenes : \A u \in Threads : \A i \in Nat :
            Requested(u, i, r)' => home'[r] = u /\ jobs'[r] = 0 /\ Idle(r)'
    BY <1>2, <1>3, <1>5, <2>1, <2>2, <2>3, <2>4 DEF HandInv, RequestInv
  <2>7. ASSUME NEW r \in Scenes, NEW u \in Threads, NEW v \in Threads,
               NEW i \in Nat, NEW j \in Nat, Requested(u, i, r)', Requested(v, j, r)'
        PROVE  u = v /\ i = j
    <3>1. CASE r = s
      BY <2>1, <2>2, <2>7, <3>1
    <3>2. CASE r # s
      <4>1. Requested(u, i, r) /\ Requested(v, j, r)
        BY <2>1, <2>7, <3>2
      <4> QED
        BY <4>1 DEF HandInv, RequestInv
    <3> QED
      BY <3>1, <3>2
  <2> QED
    BY <2>5, <2>6, <2>7 DEF RequestInv
<1> QED
  BY <1>6, <1>7, <1>8 DEF HandInv

-----------------------------------------------------------------------------
(* The tags on their way: AloneInv and FreshInv.                           *)

LEMMA PlaceFacts ==
    /\ \A p \in Places : /\ p[1] \in {"sent", "asked", "coming", "read"} /\ p[2] \in Nat
                         /\ p = <<p[1], p[2]>>
    /\ \A b \in {"sent", "asked", "coming", "read"} : \A i \in Nat : <<b, i>> \in Places
    /\ \A i, g : Travels(<<"sent", i>>, g) <=>
                     i \in DOMAIN sendQ /\ sendQ[i] = [kind |-> "job", tag |-> g]
    /\ \A i, g : Travels(<<"asked", i>>, g) <=> i = 0 /\ g \in asked
    /\ \A i, g : Travels(<<"coming", i>>, g) <=> i \in DOMAIN inbound /\ inbound[i] = Answer(g)
    /\ \A i, g : Travels(<<"read", i>>, g) <=> i = 0 /\ recv # <<>> /\ recv[1] = Answer(g)
BY DEF Places, Travels

\* The places do not change, and no answer comes.
LEMMA TagsStay ==
    ASSUME UNCHANGED <<sendQ, asked, inbound, recv>>,
           \A g \in Labels : Answered(g)' => Answered(g)
    PROVE  /\ AloneInv => AloneInv'
           /\ \A g \in Labels : InUse(g)' => InUse(g)
<1>1. \A p, g : Travels(p, g)' <=> Travels(p, g)
  BY DEF Travels
<1> QED
  BY <1>1 DEF AloneInv, InUse

\* Every tag was somewhere before, and not two of them in one place.
LEMMA TagsMove ==
    ASSUME AloneInv, NEW f,
           \A p \in Places : \A g \in Labels :
               Travels(p, g)' => f[<<p, g>>] \in Places /\ Travels(f[<<p, g>>], g),
           \A p, q \in Places : \A g \in Labels :
               Travels(p, g)' /\ Travels(q, g)' /\ f[<<p, g>>] = f[<<q, g>>] => p = q,
           \A g \in Labels : Answered(g)' => Answered(g)
    PROVE  AloneInv' /\ \A g \in Labels : InUse(g)' => InUse(g)
<1>1. \A p, q \in Places : \A g \in Labels : Travels(p, g)' /\ Travels(q, g)' => p = q
  <2> SUFFICES ASSUME NEW p \in Places, NEW q \in Places, NEW g \in Labels,
                      Travels(p, g)', Travels(q, g)'
               PROVE  p = q
    OBVIOUS
  <2>1. /\ f[<<p, g>>] \in Places /\ Travels(f[<<p, g>>], g)
        /\ f[<<q, g>>] \in Places /\ Travels(f[<<q, g>>], g)
    OBVIOUS
  <2>2. f[<<p, g>>] = f[<<q, g>>]
    BY <2>1 DEF AloneInv
  <2> QED
    BY <2>2
<1>2. \A p \in Places : \A g \in Labels : Travels(p, g)' => ~Answered(g)'
  BY DEF AloneInv
<1>3. \A g \in Labels : InUse(g)' => InUse(g)
  BY DEF InUse
<1> QED
  BY <1>1, <1>2, <1>3 DEF AloneInv

\* Where the answers are that have come.
LEMMA AnsweredUnchanged == UNCHANGED <<queue, calls>> => \A g : Answered(g)' <=> Answered(g)
BY DEF Answered

LEMMA PutKeepsAnswered ==
    ASSUME TypeInv, NEW t \in Threads \cup {None}, NEW m \in Messages, Put(t, m),
           \A u \in Threads : \A i \in DOMAIN calls'[u] :
               calls'[u][i].op = "free" => \E j \in DOMAIN calls[u] : calls[u][j] = calls'[u][i]
    PROVE  \A g \in Labels : Answered(g)' => Answered(g) \/ m = Answer(g)
<1> SUFFICES ASSUME NEW g \in Labels, NEW u \in Threads, NEW i \in Nat,
                    \/ i \in DOMAIN queue'[u] /\ queue'[u][i] = Answer(g)
                    \/ i \in DOMAIN calls'[u] /\ calls'[u][i] = [op |-> "free", tag |-> g]
             PROVE  Answered(g) \/ m = Answer(g)
  BY DEF Answered
<1>1. queue[u] \in Seq(Messages) /\ calls[u] \in Seq(AllCalls)
  BY DEF TypeInv
<1>2. CASE i \in DOMAIN queue'[u] /\ queue'[u][i] = Answer(g)
  <2>1. \/ i \in DOMAIN queue[u] /\ queue'[u][i] = queue[u][i]
        \/ queue'[u][i] = m
    BY <1>2, PutContents
  <2> QED
    BY <1>2, <2>1 DEF Answered
<1>3. CASE i \in DOMAIN calls'[u] /\ calls'[u][i] = [op |-> "free", tag |-> g]
  <2>1. PICK j \in DOMAIN calls[u] : calls[u][j] = [op |-> "free", tag |-> g]
    BY <1>3
  <2>2. j \in Nat
    BY <1>1
  <2> QED
    BY <2>1, <2>2 DEF Answered
<1> QED
  BY <1>2, <1>3

\* A call returns, or is replaced by others that free no tag.
LEMMA ThenFreesNothing ==
    ASSUME TypeInv, NEW t \in Threads, calls[t] # <<>>, NEW more \in Seq(AllCalls),
           Then(t, more), \A i \in 1 .. Len(more) : more[i].op # "free"
    PROVE  /\ \A u \in Threads : \A i \in DOMAIN calls'[u] :
                  calls'[u][i].op = "free" =>
                      \E j \in DOMAIN calls[u] : calls[u][j] = calls'[u][i]
           /\ UNCHANGED queue => \A g \in Labels : Answered(g)' => Answered(g)
<1>1. ASSUME NEW u \in Threads, NEW i \in DOMAIN calls'[u], calls'[u][i].op = "free"
      PROVE  \E j \in DOMAIN calls[u] : calls[u][j] = calls'[u][i]
  <2>1. CASE u # t
    BY <1>1, <2>1, CallsBecome
  <2>2. CASE u = t
    <3>1. /\ Len(more) \in Nat /\ Len(calls[t]) \in Nat \ {0}
          /\ DOMAIN calls[t] = 1 .. Len(calls[t])
          /\ DOMAIN calls'[t] = 1 .. Len(more) + Len(calls[t]) - 1
          /\ \A j \in 1 .. Len(more) + Len(calls[t]) - 1 :
                 calls'[t][j] = IF j <= Len(more) THEN more[j] ELSE calls[t][j - Len(more) + 1]
      BY CallsBecome
    <3>2. i \in 1 .. Len(more) + Len(calls[t]) - 1
      BY <2>2, <3>1
    <3>3. ~(i <= Len(more))
      <4>1. i <= Len(more) => i \in 1 .. Len(more) /\ calls'[t][i] = more[i]
        BY <3>1, <3>2
      <4> QED
        BY <1>1, <2>2, <4>1
    <3>4. i - Len(more) + 1 \in DOMAIN calls[t] /\ calls'[t][i] = calls[t][i - Len(more) + 1]
      BY <3>1, <3>2, <3>3
    <3> QED
      BY <2>2, <3>4
  <2> QED
    BY <2>1, <2>2
<1>2. ASSUME UNCHANGED queue, NEW g \in Labels, Answered(g)'
      PROVE  Answered(g)
  <2>1. PICK u \in Threads, i \in Nat :
            \/ i \in DOMAIN queue[u] /\ queue[u][i] = Answer(g)
            \/ i \in DOMAIN calls'[u] /\ calls'[u][i] = [op |-> "free", tag |-> g]
    BY <1>2 DEF Answered
  <2>2. CASE i \in DOMAIN queue[u] /\ queue[u][i] = Answer(g)
    BY <2>2 DEF Answered
  <2>3. CASE i \in DOMAIN calls'[u] /\ calls'[u][i] = [op |-> "free", tag |-> g]
    <3>1. PICK j \in DOMAIN calls[u] : calls[u][j] = [op |-> "free", tag |-> g]
      BY <1>1, <2>3
    <3>2. calls[u] \in Seq(AllCalls)
      BY DEF TypeInv
    <3>3. j \in Nat
      BY <3>2
    <3> QED
      BY <3>1, <3>3 DEF Answered
  <2> QED
    BY <2>1, <2>2, <2>3
<1> QED
  BY <1>1, <1>2

\* A taken answer is the handler's tag to be freed.
LEMMA TakeKeepsAnswered ==
    ASSUME TypeInv, NEW t \in Threads, ThreadTakes(t)
    PROVE  \A g \in Labels : Answered(g)' => Answered(g)
<1> DEFINE m == Head(queue[t])
<1> SUFFICES ASSUME NEW g \in Labels, NEW u \in Threads, NEW i \in Nat,
                    \/ i \in DOMAIN queue'[u] /\ queue'[u][i] = Answer(g)
                    \/ i \in DOMAIN calls'[u] /\ calls'[u][i] = [op |-> "free", tag |-> g]
             PROVE  Answered(g)
  BY DEF Answered
<1>1. /\ 1 \in DOMAIN queue[t] /\ m = queue[t][1] /\ m \in Messages
      /\ IsHandler(m, calls'[t]) /\ (u # t => calls'[u] = calls[u])
  BY TakenMessage
<1>2. queue[t] # <<>> /\ queue' = [queue EXCEPT ![t] = Tail(@)]
  BY DEF ThreadTakes
<1> HIDE DEF m
<1>3. CASE i \in DOMAIN queue'[u] /\ queue'[u][i] = Answer(g)
  <2>1. IF u = t THEN i + 1 \in DOMAIN queue[u] /\ queue[u][i + 1] = Answer(g)
        ELSE i \in DOMAIN queue[u] /\ queue[u][i] = Answer(g)
    BY <1>2, <1>3, TakeContents
  <2> QED
    BY <2>1 DEF Answered
<1>4. CASE i \in DOMAIN calls'[u] /\ calls'[u][i] = [op |-> "free", tag |-> g] /\ u # t
  BY <1>1, <1>4 DEF Answered
<1>5. CASE i \in DOMAIN calls'[u] /\ calls'[u][i] = [op |-> "free", tag |-> g] /\ u = t
  <2>1. i \in DOMAIN calls'[t] /\ calls'[t][i] = Free(g)
    BY <1>5 DEF Free
  <2>2. Free(g).op = "free" /\ Free(g).tag = g
    BY DEF Free
  <2>3. m.kind = "answer"
    BY <1>1, <2>1, <2>2, OtherHandlers, RequestHandler
  <2>4. m = Answer(m.tag) /\ calls'[t][i] = Free(m.tag)
    BY <1>1, <2>1, <2>2, <2>3, AnswerHandler
  <2>6. m = Answer(g)
    <3>1. Free(m.tag) = Free(g)
      BY <2>1, <2>4
    <3> QED
      BY <2>4, <3>1 DEF Free
  <2> QED
    BY <1>1, <2>6 DEF Answered
<1> QED
  BY <1>3, <1>4, <1>5

\* No job is begun, and no tag comes into use.
LEMMA FreshStays ==
    ASSUME FreshInv, UNCHANGED jobs, \A g \in Labels : InUse(g)' => InUse(g),
           \A k \in {"register", "track", "job"} : \A t \in Threads : \A s \in Scenes :
               Does(k, t, 1, s)' => Does(k, t, 1, s)
    PROVE  FreshInv'
<1>1. \A g \in Labels : g[1] \in Scenes
  BY DEF Labels
<1> QED
  BY <1>1 DEF FreshInv

LEMMA IdleCallsKeepFresh ==
    ASSUME FreshInv, UNCHANGED <<calls, jobs>>, \A g \in Labels : InUse(g)' => InUse(g)
    PROVE  FreshInv'
<1>1. \A k, t, i, s : Does(k, t, i, s)' <=> Does(k, t, i, s)
  BY DEF Does
<1> QED
  BY <1>1, FreshStays

\* A call returns: AllocateAppTag makes a new tag, SendMsg brings it into use.
LEMMA ReturnKeepsFresh ==
    ASSUME TypeInv, OwnInv, StepInv, FreshInv,
           NEW t \in Threads, calls[t] # <<>>, Return(t),
           \A s \in Scenes :
               jobs'[s] = IF Does("allocate", t, 1, s) THEN jobs[s] + 1 ELSE jobs[s],
           \A g \in Labels : InUse(g)' =>
               InUse(g) \/ (Does("job", t, 1, g[1]) /\ g[2] = jobs[g[1]])
    PROVE  FreshInv'
<1>1. \A k \in JobCalls : \A u \in Threads : \A s \in Scenes :
          Does(k, u, 1, s)' => IF u # t THEN Does(k, u, 1, s) ELSE Does(k, t, 2, s)
  <2>1. <<>> \in Seq(AllCalls) /\ Len(<<>>) = 0
    OBVIOUS
  <2>2. \A k \in JobCalls : \A u \in Threads : \A i \in Nat : \A s :
            Does(k, u, i, s)' <=>
                IF u # t THEN Does(k, u, i, s)
                ELSE \/ i \in 1 .. Len(<<>>) /\ <<>>[i] = JobCall(k, s)
                     \/ i > Len(<<>>) /\ Does(k, t, i - Len(<<>>) + 1, s)
    BY <2>1, JobCallsMove DEF Return
  <2>3. \A k \in JobCalls : \A u \in Threads : \A s :
            Does(k, u, 1, s)' <=>
                IF u # t THEN Does(k, u, 1, s)
                ELSE \/ 1 \in 1 .. Len(<<>>) /\ <<>>[1] = JobCall(k, s)
                     \/ 1 > Len(<<>>) /\ Does(k, t, 1 - Len(<<>>) + 1, s)
    BY <2>2
  <2>4. 1 \notin 1 .. Len(<<>>) /\ 1 - Len(<<>>) + 1 = 2
    BY <2>1
  <2> QED
    BY <2>3, <2>4
<1>2. \A s \in Scenes : jobs[s] \in Nat /\ jobs'[s] \in Nat /\ jobs'[s] >= jobs[s]
  BY DEF TypeInv
<1> SUFFICES ASSUME NEW g \in Labels, InUse(g)'
             PROVE  /\ 1 <= g[2] /\ g[2] <= jobs'[g[1]]
                    /\ \A k \in {"register", "track", "job"} : \A u \in Threads :
                           Does(k, u, 1, g[1])' => g[2] < jobs'[g[1]]
  BY DEF FreshInv
<1>3. g[1] \in Scenes /\ g[2] \in Nat
  BY DEF Labels
<1>4. CASE InUse(g)
  <2>1. 1 <= g[2] /\ g[2] <= jobs[g[1]]
    BY <1>4 DEF FreshInv
  <2>2. ASSUME NEW k \in {"register", "track", "job"}, NEW u \in Threads, Does(k, u, 1, g[1])'
        PROVE  g[2] < jobs'[g[1]]
    <3>1. CASE u # t
      <4>1. Does(k, u, 1, g[1])
        BY <1>1, <1>3, <2>2, <3>1 DEF JobCalls
      <4>2. g[2] < jobs[g[1]]
        BY <1>4, <4>1 DEF FreshInv
      <4> QED
        BY <1>2, <1>3, <4>2
    <3>2. CASE u = t /\ k = "register"
      <4>1. Does("register", t, 2, g[1])
        BY <1>1, <1>3, <2>2, <3>2 DEF JobCalls
      <4>2. IF 2 = 1 THEN jobs[g[1]] >= 1 ELSE Does("allocate", t, 2 - 1, g[1])
        BY <1>3, <4>1 DEF StepInv
      <4>3. Does("allocate", t, 1, g[1])
        BY <4>2
      <4> QED
        BY <1>2, <1>3, <2>1, <4>3
    <3>3. CASE u = t /\ k = "track"
      <4>1. Does("track", t, 2, g[1])
        BY <1>1, <1>3, <2>2, <3>3 DEF JobCalls
      <4>2. IF 2 = 1 THEN jobs[g[1]] >= 1 ELSE Does("register", t, 2 - 1, g[1])
        BY <1>3, <4>1 DEF StepInv
      <4>3. Does("register", t, 1, g[1])
        BY <4>2
      <4>4. g[2] < jobs[g[1]]
        BY <1>4, <4>3 DEF FreshInv
      <4> QED
        BY <1>2, <1>3, <4>4
    <3>4. CASE u = t /\ k = "job"
      <4>1. Does("job", t, 2, g[1])
        BY <1>1, <1>3, <2>2, <3>4 DEF JobCalls
      <4>2. IF 2 = 1 THEN jobs[g[1]] >= 1 ELSE Does("track", t, 2 - 1, g[1])
        BY <1>3, <4>1 DEF StepInv
      <4>3. Does("track", t, 1, g[1])
        BY <4>2
      <4>4. g[2] < jobs[g[1]]
        BY <1>4, <4>3 DEF FreshInv
      <4> QED
        BY <1>2, <1>3, <4>4
    <3> QED
      BY <3>1, <3>2, <3>3, <3>4
  <2> QED
    BY <1>2, <1>3, <2>1, <2>2
<1>5. CASE Does("job", t, 1, g[1]) /\ g[2] = jobs[g[1]]
  <2>1. jobs[g[1]] >= 1
    BY <1>3, <1>5 DEF StepInv
  <2>2. ASSUME NEW k \in {"register", "track", "job"}, NEW u \in Threads, Does(k, u, 1, g[1])'
        PROVE  FALSE
    <3>1. u = t
      <4>1. u # t => Does(k, u, 1, g[1])
        BY <1>1, <1>3, <2>2 DEF JobCalls
      <4> QED
        BY <1>3, <1>5, <4>1, OneThread DEF JobCalls
    <3>2. Does(k, t, 2, g[1])
      BY <1>1, <1>3, <2>2, <3>1 DEF JobCalls
    <3>3. k = "register" => IF 2 = 1 THEN jobs[g[1]] >= 1 ELSE Does("allocate", t, 2 - 1, g[1])
      BY <1>3, <3>2 DEF StepInv
    <3>4. k = "track" => IF 2 = 1 THEN jobs[g[1]] >= 1 ELSE Does("register", t, 2 - 1, g[1])
      BY <1>3, <3>2 DEF StepInv
    <3>6. k = "job" => IF 2 = 1 THEN jobs[g[1]] >= 1 ELSE Does("track", t, 2 - 1, g[1])
      BY <1>3, <3>2 DEF StepInv
    <3>5. \/ Does("allocate", t, 1, g[1]) \/ Does("register", t, 1, g[1])
          \/ Does("track", t, 1, g[1])
      BY <3>3, <3>4, <3>6
    <3> QED
      BY <1>5, <3>5, OneCall DEF JobCalls
  <2> QED
    BY <1>2, <1>3, <1>5, <2>1, <2>2
<1> QED
  BY <1>4, <1>5

\* After a loop, or Close, a new job begins with its allocation.
LEMMA ExpandBegins ==
    ASSUME TypeInv, OwnInv, StepInv,
           NEW t \in Threads, calls[t] # <<>>, Head(calls[t]).op \in {"each", "close", "shutdown"},
           NEW more \in Seq(AllCalls), Then(t, more),
           \/ \A k \in JobCalls : \A i \in 1 .. Len(more) : \A s :
                  more[i] # JobCall(k, s) /\ more[i].op # "each"
           \/ \E s \in Scenes : Head(calls[t]) = JobLoop(s) /\ more = NextJob(s)
    PROVE  \A k \in {"register", "track", "job"} : \A u \in Threads : \A s \in Scenes :
               Does(k, u, 1, s)' => Does(k, u, 1, s)
<1>1. ASSUME NEW k \in {"register", "track", "job"}, NEW u \in Threads, NEW s \in Scenes,
             Does(k, u, 1, s)'
      PROVE  Does(k, u, 1, s)
  <2>1. k \in JobCalls /\ k # "allocate" /\ k # "loop"
    BY DEF JobCalls
  <2>2. IF u # t THEN Does(k, u, 1, s)
        ELSE \/ 1 \in 1 .. Len(more) /\ more[1] = JobCall(k, s)
             \/ 1 > Len(more) /\ Does(k, t, 1 - Len(more) + 1, s)
    BY <1>1, <2>1, JobCallsMove
  <2>3. ~(1 \in 1 .. Len(more) /\ more[1] = JobCall(k, s))
    <3>1. \A r : more = NextJob(r) => more[1] = JobCall("allocate", r)
      BY NextJobFacts
    <3>2. \A r : JobCall("allocate", r) # JobCall(k, s)
      BY <2>1, JobCallsDiffer DEF JobCalls
    <3> QED
      BY <2>1, <3>1, <3>2
  <2>4. ~(1 > Len(more) /\ Does(k, t, 1 - Len(more) + 1, s))
    <3>1. Len(more) \in Nat
      OBVIOUS
    <3>2. 1 > Len(more) => 1 - Len(more) + 1 \in Nat
      BY <3>1
    <3> QED
      BY <2>1, <3>2, OnlyLoopsFollow
  <2> QED
    BY <2>2, <2>3, <2>4
<1> QED
  BY <1>1

\* A handler begins with the freeing of the answer's tag, or with a new tag.
LEMMA TakeBegins ==
    ASSUME TypeInv, RequestInv, AnswersFindTheirCommand, NEW t \in Threads, ThreadTakes(t)
    PROVE  \A k \in {"register", "track", "job"} : \A u \in Threads : \A s \in Scenes :
               Does(k, u, 1, s)' => Does(k, u, 1, s)
<1>1. ASSUME NEW k \in {"register", "track", "job"}, NEW u \in Threads, NEW s \in Scenes,
             Does(k, u, 1, s)'
      PROVE  Does(k, u, 1, s)
  <2>1. CASE u = t
    <3>1. k \in JobCalls /\ k \notin {"allocate", "loop"}
      BY DEF JobCalls
    <3>2. PICK b \in {1, 2} : StartsJob(calls'[t], b, s)
      BY <1>1, <2>1, <3>1, HandlerStarts
    <3>3. calls'[t][1] = JobCall(k, s)
      BY <1>1, <2>1 DEF Does
    <3>4. calls'[t][1] = JobCall("allocate", s) \/ calls'[t][1].op = "free"
      BY <3>2 DEF StartsJob
    <3> QED
      BY <3>1, <3>3, <3>4, JobCallsDiffer DEF JobCalls
  <2>2. CASE u # t
    <3>1. calls'[u] = calls[u]
      BY <2>2, TakenMessage
    <3> QED
      BY <1>1, <3>1 DEF Does
  <2> QED
    BY <2>1, <2>2
<1> QED
  BY <1>1

\* Tags may be lost on their way.
LEMMA TagsLeave ==
    ASSUME AloneInv,
           \A p \in Places : \A g \in Labels : Travels(p, g)' => Travels(p, g),
           \A g \in Labels : Answered(g)' => Answered(g)
    PROVE  AloneInv' /\ \A g \in Labels : InUse(g)' => InUse(g)
BY DEF AloneInv, InUse

LEMMA ReadMovesTags ==
    ASSUME TypeInv, AloneInv, ReceiverReads
    PROVE  AloneInv' /\ \A g \in Labels : InUse(g)' => InUse(g)
<1> DEFINE f == [x \in Places \X Labels |->
                     IF x[1] = <<"read", 0>> THEN <<"coming", 1>>
                     ELSE IF x[1][1] = "coming" THEN <<"coming", x[1][2] + 1>> ELSE x[1]]
<1>1. \A p \in Places : \A g \in Labels :
          f[<<p, g>>] = IF p = <<"read", 0>> THEN <<"coming", 1>>
                        ELSE IF p[1] = "coming" THEN <<"coming", p[2] + 1>> ELSE p
  OBVIOUS
<1> HIDE DEF f
<1>2. /\ inbound \in Seq(Incoming) /\ inbound # <<>> /\ inbound' = Tail(inbound)
      /\ recv' # <<>> /\ recv'[1] = Head(inbound)
      /\ UNCHANGED <<sendQ, asked, queue, calls>>
  BY DEF ReceiverReads, TypeInv, connVars, poolVars
<1>3. /\ Len(inbound) \in Nat /\ DOMAIN inbound = 1 .. Len(inbound) /\ Len(inbound) >= 1
      /\ Head(inbound) = inbound[1] /\ DOMAIN inbound' = 1 .. Len(inbound) - 1
      /\ \A i \in 1 .. Len(inbound) - 1 : inbound'[i] = inbound[i + 1]
  BY <1>2, TailShifts
<1>4. \A p : p = <<"read", 0>> => p[1] = "read"
  OBVIOUS
<1>5. ASSUME NEW p \in Places, NEW g \in Labels, Travels(p, g)'
      PROVE  /\ f[<<p, g>>] \in Places /\ Travels(f[<<p, g>>], g)
             /\ \/ p = <<"read", 0>> /\ f[<<p, g>>] = <<"coming", 1>>
                \/ /\ p[1] = "coming" /\ p[2] \in Nat \ {0}
                   /\ p = <<"coming", p[2]>> /\ f[<<p, g>>] = <<"coming", p[2] + 1>>
                \/ p[1] \in {"sent", "asked"} /\ f[<<p, g>>] = p
  <2>1. /\ p[1] \in {"sent", "asked", "coming", "read"} /\ p[2] \in Nat /\ p = <<p[1], p[2]>>
    BY PlaceFacts
  <2>2. CASE p[1] = "read"
    <3>1. p = <<"read", 0>> /\ inbound[1] = Answer(g)
      BY <1>2, <1>3, <1>5, <2>1, <2>2 DEF Travels
    <3>2. 1 \in DOMAIN inbound
      BY <1>3
    <3>3. f[<<p, g>>] = <<"coming", 1>>
      BY <1>1, <3>1
    <3> QED
      BY <3>1, <3>2, <3>3, PlaceFacts
  <2>3. CASE p[1] = "coming"
    <3>1. p[2] \in DOMAIN inbound' /\ inbound'[p[2]] = Answer(g)
      BY <1>5, <2>3 DEF Travels
    <3>2. p[2] \in Nat \ {0} /\ p[2] + 1 \in DOMAIN inbound /\ inbound[p[2] + 1] = Answer(g)
      BY <1>3, <2>1, <3>1
    <3>3. f[<<p, g>>] = <<"coming", p[2] + 1>>
      BY <1>1, <1>4, <2>3
    <3>4. Travels(<<"coming", p[2] + 1>>, g) /\ <<"coming", p[2] + 1>> \in Places
      BY <2>1, <3>2, PlaceFacts
    <3> QED
      BY <2>1, <2>3, <3>2, <3>3, <3>4
  <2>4. CASE p[1] \in {"sent", "asked"}
    <3>1. f[<<p, g>>] = p
      BY <1>1, <1>4, <2>4
    <3>2. Travels(p, g)
      BY <1>2, <1>5, <2>4 DEF Travels
    <3> QED
      BY <2>4, <3>1, <3>2
  <2> QED
    BY <2>1, <2>2, <2>3, <2>4
<1>6. ASSUME NEW p \in Places, NEW q \in Places, NEW g \in Labels,
             Travels(p, g)', Travels(q, g)', f[<<p, g>>] = f[<<q, g>>]
      PROVE  p = q
  <2>1. /\ \/ p = <<"read", 0>> /\ f[<<p, g>>] = <<"coming", 1>>
           \/ /\ p[1] = "coming" /\ p[2] \in Nat \ {0}
              /\ p = <<"coming", p[2]>> /\ f[<<p, g>>] = <<"coming", p[2] + 1>>
           \/ p[1] \in {"sent", "asked"} /\ f[<<p, g>>] = p
        /\ \/ q = <<"read", 0>> /\ f[<<q, g>>] = <<"coming", 1>>
           \/ /\ q[1] = "coming" /\ q[2] \in Nat \ {0}
              /\ q = <<"coming", q[2]>> /\ f[<<q, g>>] = <<"coming", q[2] + 1>>
           \/ q[1] \in {"sent", "asked"} /\ f[<<q, g>>] = q
    BY <1>5, <1>6
  <2>2. p[1] \in {"sent", "asked"} <=> q[1] \in {"sent", "asked"}
    BY <1>6, <2>1
  <2>3. CASE p[1] \in {"sent", "asked"}
    BY <1>6, <2>1, <2>2, <2>3
  <2>4. CASE p[1] \notin {"sent", "asked"}
    BY <1>6, <2>1, <2>2, <2>4
  <2> QED
    BY <2>3, <2>4
<1>7. \A g \in Labels : Answered(g)' => Answered(g)
  BY <1>2, AnsweredUnchanged
<1>8. /\ \A p \in Places : \A g \in Labels :
             Travels(p, g)' => f[<<p, g>>] \in Places /\ Travels(f[<<p, g>>], g)
      /\ \A p, q \in Places : \A g \in Labels :
             Travels(p, g)' /\ Travels(q, g)' /\ f[<<p, g>>] = f[<<q, g>>] => p = q
  BY <1>5, <1>6
<1> QED
  BY <1>7, <1>8, TagsMove

\* The receiver hands an answer over.
LEMMA NotifyMovesTags ==
    ASSUME TypeInv, AloneInv, ReceiverNotifies
    PROVE  AloneInv' /\ \A g \in Labels : InUse(g)' => InUse(g)
<1>1. /\ recv # <<>> /\ recv[1] \in Messages /\ recv[2] \in Threads \cup {None}
      /\ Put(recv[2], recv[1]) /\ recv' = <<>>
      /\ UNCHANGED <<sendQ, asked, inbound, calls>>
  BY DEF ReceiverNotifies, TypeInv, netVars, connVars
<1>2. \A g \in Labels : Answered(g)' => Answered(g) \/ recv[1] = Answer(g)
  <2>1. \A u \in Threads : \A i \in DOMAIN calls'[u] :
            calls'[u][i].op = "free" => \E j \in DOMAIN calls[u] : calls[u][j] = calls'[u][i]
    BY <1>1
  <2> QED
    BY <1>1, <2>1, PutKeepsAnswered
<1>3. \A p \in Places : \A g \in Labels :
          Travels(p, g)' => Travels(p, g) /\ p # <<"read", 0>>
  BY <1>1 DEF Travels
<1>4. \A g \in Labels : recv[1] = Answer(g) => Travels(<<"read", 0>>, g)
  BY <1>1, PlaceFacts
<1>5. <<"read", 0>> \in Places
  BY PlaceFacts
<1>6. ASSUME NEW p \in Places, NEW g \in Labels, Travels(p, g)', Answered(g)'
      PROVE  FALSE
  BY <1>2, <1>3, <1>4, <1>5, <1>6 DEF AloneInv
<1>7. ASSUME NEW g \in Labels, InUse(g)'
      PROVE  InUse(g)
  <2>1. CASE Answered(g)'
    BY <1>2, <1>4, <1>5, <2>1 DEF InUse
  <2>2. CASE \E p \in Places : Travels(p, g)'
    BY <1>3, <2>2 DEF InUse
  <2> QED
    BY <1>7, <2>1, <2>2 DEF InUse
<1> QED
  BY <1>3, <1>6, <1>7 DEF AloneInv

\* The sender thread sends a request, or drops it.
LEMMA SendingMovesTags ==
    ASSUME TypeInv, AloneInv, SenderTakes
    PROVE  AloneInv' /\ \A g \in Labels : InUse(g)' => InUse(g)
<1> DEFINE f == [x \in Places \X Labels |->
                     IF x[1][1] = "sent" THEN <<"sent", x[1][2] + 1>>
                     ELSE IF x[1][1] = "asked" /\ x[2] \notin asked THEN <<"sent", 1>>
                     ELSE x[1]]
<1>1. \A p \in Places : \A g \in Labels :
          f[<<p, g>>] = IF p[1] = "sent" THEN <<"sent", p[2] + 1>>
                        ELSE IF p[1] = "asked" /\ g \notin asked THEN <<"sent", 1>> ELSE p
  OBVIOUS
<1> HIDE DEF f
<1>2. /\ sendQ \in Seq(Packets) /\ sendQ # <<>> /\ sendQ' = Tail(sendQ)
      /\ \/ asked' = asked
         \/ Head(sendQ).kind = "job" /\ asked' = asked \cup {Head(sendQ).tag}
      /\ UNCHANGED <<inbound, recv, queue, calls>>
  BY DEF SenderTakes, MessageToSend, TypeInv, poolVars
<1>3. /\ Len(sendQ) \in Nat /\ DOMAIN sendQ = 1 .. Len(sendQ) /\ Len(sendQ) >= 1
      /\ Head(sendQ) = sendQ[1] /\ DOMAIN sendQ' = 1 .. Len(sendQ) - 1
      /\ \A i \in 1 .. Len(sendQ) - 1 : sendQ'[i] = sendQ[i + 1]
  BY <1>2, TailShifts
<1>4. \A g \in asked' : g \in asked \/ sendQ[1] = [kind |-> "job", tag |-> g]
  <2>1. sendQ[1] \in Packets
    BY <1>2, <1>3
  <2>2. sendQ[1].kind = "job" => sendQ[1] = [kind |-> "job", tag |-> sendQ[1].tag]
    BY <2>1 DEF Packets
  <2> QED
    BY <1>2, <1>3, <2>2
<1>5. ASSUME NEW p \in Places, NEW g \in Labels, Travels(p, g)'
      PROVE  /\ f[<<p, g>>] \in Places /\ Travels(f[<<p, g>>], g)
             /\ \/ /\ p[1] = "sent" /\ p[2] \in Nat \ {0}
                   /\ p = <<"sent", p[2]>> /\ f[<<p, g>>] = <<"sent", p[2] + 1>>
                \/ p = <<"asked", 0>> /\ f[<<p, g>>] = <<"sent", 1>>
                \/ p[1] # "sent" /\ f[<<p, g>>] = p
  <2>1. /\ p[1] \in {"sent", "asked", "coming", "read"} /\ p[2] \in Nat /\ p = <<p[1], p[2]>>
    BY PlaceFacts
  <2>2. CASE p[1] = "sent"
    <3>1. p[2] \in DOMAIN sendQ' /\ sendQ'[p[2]] = [kind |-> "job", tag |-> g]
      BY <1>5, <2>2 DEF Travels
    <3>2. /\ p[2] \in Nat \ {0} /\ p[2] + 1 \in DOMAIN sendQ
          /\ sendQ[p[2] + 1] = [kind |-> "job", tag |-> g]
      BY <1>3, <2>1, <3>1
    <3>3. f[<<p, g>>] = <<"sent", p[2] + 1>>
      BY <1>1, <2>2
    <3>4. Travels(<<"sent", p[2] + 1>>, g) /\ <<"sent", p[2] + 1>> \in Places
      BY <2>1, <3>2, PlaceFacts
    <3> QED
      BY <2>1, <2>2, <3>2, <3>3, <3>4
  <2>3. CASE p[1] = "asked" /\ g \notin asked
    <3>1. p = <<"asked", 0>> /\ g \in asked'
      BY <1>5, <2>1, <2>3 DEF Travels
    <3>2. 1 \in DOMAIN sendQ /\ sendQ[1] = [kind |-> "job", tag |-> g]
      BY <1>3, <1>4, <2>3, <3>1
    <3>3. f[<<p, g>>] = <<"sent", 1>>
      BY <1>1, <2>3
    <3> QED
      BY <3>1, <3>2, <3>3, PlaceFacts
  <2>4. CASE p[1] # "sent" /\ ~(p[1] = "asked" /\ g \notin asked)
    <3>1. f[<<p, g>>] = p
      BY <1>1, <2>4
    <3>2. Travels(p, g)
      BY <1>2, <1>5, <2>1, <2>4 DEF Travels
    <3> QED
      BY <2>4, <3>1, <3>2
  <2> QED
    BY <2>2, <2>3, <2>4
<1>6. ASSUME NEW p \in Places, NEW q \in Places, NEW g \in Labels,
             Travels(p, g)', Travels(q, g)', f[<<p, g>>] = f[<<q, g>>]
      PROVE  p = q
  <2>1. /\ \/ /\ p[1] = "sent" /\ p[2] \in Nat \ {0}
              /\ p = <<"sent", p[2]>> /\ f[<<p, g>>] = <<"sent", p[2] + 1>>
           \/ p = <<"asked", 0>> /\ f[<<p, g>>] = <<"sent", 1>>
           \/ p[1] # "sent" /\ f[<<p, g>>] = p
        /\ \/ /\ q[1] = "sent" /\ q[2] \in Nat \ {0}
              /\ q = <<"sent", q[2]>> /\ f[<<q, g>>] = <<"sent", q[2] + 1>>
           \/ q = <<"asked", 0>> /\ f[<<q, g>>] = <<"sent", 1>>
           \/ q[1] # "sent" /\ f[<<q, g>>] = q
    BY <1>5, <1>6
  <2>2. CASE p[1] # "sent" /\ f[<<p, g>>] = p
    BY <1>6, <2>1, <2>2
  <2>3. CASE q[1] # "sent" /\ f[<<q, g>>] = q
    BY <1>6, <2>1, <2>3
  <2>4. CASE /\ ~(p[1] # "sent" /\ f[<<p, g>>] = p)
             /\ ~(q[1] # "sent" /\ f[<<q, g>>] = q)
    BY <1>6, <2>1, <2>4
  <2> QED
    BY <2>2, <2>3, <2>4
<1>7. \A g \in Labels : Answered(g)' => Answered(g)
  BY <1>2, AnsweredUnchanged
<1>8. /\ \A p \in Places : \A g \in Labels :
             Travels(p, g)' => f[<<p, g>>] \in Places /\ Travels(f[<<p, g>>], g)
      /\ \A p, q \in Places : \A g \in Labels :
             Travels(p, g)' /\ Travels(q, g)' /\ f[<<p, g>>] = f[<<q, g>>] => p = q
  BY <1>5, <1>6
<1> QED
  BY <1>7, <1>8, TagsMove

\* The worker answers.
LEMMA AnsweringMovesTags ==
    ASSUME TypeInv, AloneInv, WorkerAnswers
    PROVE  AloneInv' /\ \A g \in Labels : InUse(g)' => InUse(g)
<1>1. PICK tag \in asked : asked' = asked \ {tag} /\ inbound' = Append(inbound, Answer(tag))
  BY DEF WorkerAnswers
<1> DEFINE new == <<"coming", Len(inbound) + 1>>
           f == [x \in Places \X Labels |-> IF x[1] = new THEN <<"asked", 0>> ELSE x[1]]
<1>2. \A p \in Places : \A g \in Labels :
          f[<<p, g>>] = IF p = new THEN <<"asked", 0>> ELSE p
  OBVIOUS
<1> HIDE DEF f
<1>3. /\ inbound \in Seq(Incoming) /\ Len(inbound) \in Nat /\ tag \in Labels
      /\ UNCHANGED <<sendQ, recv, queue, calls>>
  BY DEF WorkerAnswers, TypeInv, ioVars, connVars, poolVars
<1>4. /\ DOMAIN inbound = 1 .. Len(inbound) /\ DOMAIN inbound' = 1 .. Len(inbound) + 1
      /\ inbound'[Len(inbound) + 1] = Answer(tag)
      /\ \A i \in 1 .. Len(inbound) : inbound'[i] = inbound[i]
  BY <1>1, <1>3
<1>5. ASSUME NEW p \in Places, NEW g \in Labels, Travels(p, g)'
      PROVE  /\ f[<<p, g>>] \in Places /\ Travels(f[<<p, g>>], g)
             /\ p = new => g = tag
             /\ p # new => f[<<p, g>>] = p
  <2>1. /\ p[1] \in {"sent", "asked", "coming", "read"} /\ p[2] \in Nat /\ p = <<p[1], p[2]>>
    BY PlaceFacts
  <2>2. CASE p = new
    <3>1. inbound'[Len(inbound) + 1] = Answer(g)
      BY <1>5, <2>2 DEF Travels
    <3>2. g = tag
      BY <1>4, <3>1 DEF Answer
    <3>3. f[<<p, g>>] = <<"asked", 0>>
      BY <1>2, <2>2
    <3> QED
      BY <1>1, <2>2, <3>2, <3>3, PlaceFacts
  <2>3. CASE p # new
    <3>1. f[<<p, g>>] = p
      BY <1>2, <2>3
    <3>2. p[1] = "coming" => p[2] # Len(inbound) + 1
      BY <2>1, <2>3
    <3>3. p[1] = "coming" => Travels(p, g)
      <4>1. p[1] = "coming" => p[2] \in DOMAIN inbound' /\ inbound'[p[2]] = Answer(g)
        BY <1>5 DEF Travels
      <4>2. p[1] = "coming" => p[2] \in DOMAIN inbound /\ inbound[p[2]] = Answer(g)
        BY <1>3, <1>4, <3>2, <4>1
      <4> QED
        BY <4>2 DEF Travels
    <3>4. p[1] # "coming" => Travels(p, g)
      BY <1>1, <1>3, <1>5, <2>1 DEF Travels
    <3> QED
      BY <2>3, <3>1, <3>3, <3>4
  <2> QED
    BY <2>2, <2>3
<1>6. ~Travels(<<"asked", 0>>, tag)'
  BY <1>1 DEF Travels
<1>7. ASSUME NEW p \in Places, NEW q \in Places, NEW g \in Labels,
             Travels(p, g)', Travels(q, g)', f[<<p, g>>] = f[<<q, g>>]
      PROVE  p = q
  <2>1. /\ p = new => g = tag /\ f[<<p, g>>] = <<"asked", 0>>
        /\ q = new => g = tag /\ f[<<q, g>>] = <<"asked", 0>>
        /\ p # new => f[<<p, g>>] = p
        /\ q # new => f[<<q, g>>] = q
    BY <1>2, <1>5, <1>7
  <2>2. g = tag => p # <<"asked", 0>> /\ q # <<"asked", 0>>
    BY <1>6, <1>7
  <2> HIDE DEF new
  <2> QED
    BY <1>7, <2>1, <2>2
<1>8. \A g \in Labels : Answered(g)' => Answered(g)
  BY <1>3, AnsweredUnchanged
<1>9. /\ \A p \in Places : \A g \in Labels :
             Travels(p, g)' => f[<<p, g>>] \in Places /\ Travels(f[<<p, g>>], g)
      /\ \A p, q \in Places : \A g \in Labels :
             Travels(p, g)' /\ Travels(q, g)' /\ f[<<p, g>>] = f[<<q, g>>] => p = q
  BY <1>5, <1>7
<1> QED
  BY <1>8, <1>9, TagsMove

\* A message is put into the send queue.
LEMMA PacketIsPut ==
    ASSUME TypeInv, NEW c \in Packets, sendQ' = Append(sendQ, c),
           UNCHANGED <<asked, inbound, recv>>
    PROVE  /\ \A i \in DOMAIN sendQ' : \/ i \in DOMAIN sendQ /\ sendQ'[i] = sendQ[i]
                                       \/ i = Len(sendQ) + 1 /\ sendQ'[i] = c
           /\ \A p \in Places : \A g \in Labels :
                  Travels(p, g)' =>
                      \/ Travels(p, g)
                      \/ p = <<"sent", Len(sendQ) + 1>> /\ c = [kind |-> "job", tag |-> g]
<1>1. /\ sendQ \in Seq(Packets) /\ Len(sendQ) \in Nat /\ DOMAIN sendQ = 1 .. Len(sendQ)
  BY DEF TypeInv
<1>2. /\ DOMAIN sendQ' = 1 .. Len(sendQ) + 1 /\ sendQ'[Len(sendQ) + 1] = c
      /\ \A i \in 1 .. Len(sendQ) : sendQ'[i] = sendQ[i]
  BY <1>1
<1>3. \A i \in DOMAIN sendQ' : \/ i \in DOMAIN sendQ /\ sendQ'[i] = sendQ[i]
                               \/ i = Len(sendQ) + 1 /\ sendQ'[i] = c
  BY <1>1, <1>2
<1>4. ASSUME NEW p \in Places, NEW g \in Labels, Travels(p, g)', ~Travels(p, g)
      PROVE  p = <<"sent", Len(sendQ) + 1>> /\ c = [kind |-> "job", tag |-> g]
  <2>1. p = <<p[1], p[2]>>
    BY PlaceFacts
  <2>2. p[1] = "sent" /\ p[2] \in DOMAIN sendQ' /\ sendQ'[p[2]] = [kind |-> "job", tag |-> g]
    BY <1>4 DEF Travels
  <2>3. ~(p[2] \in DOMAIN sendQ /\ sendQ'[p[2]] = sendQ[p[2]])
    BY <1>4, <2>2 DEF Travels
  <2> QED
    BY <1>3, <2>1, <2>2, <2>3
<1> QED
  BY <1>3, <1>4

\* A new tag begins to travel.
LEMMA TagAppears ==
    ASSUME AloneInv, NEW o, NEW n \in Labels, ~InUse(n),
           \A p \in Places : \A g \in Labels :
               Travels(p, g)' => Travels(p, g) \/ (p = o /\ g = n),
           \A g \in Labels : Answered(g)' => Answered(g)
    PROVE  AloneInv' /\ \A g \in Labels : InUse(g)' => InUse(g) \/ g = n
<1>1. \A p \in Places : ~Travels(p, n)
  BY DEF InUse
<1>2. ~Answered(n)
  BY DEF InUse
<1>3. \A p, q \in Places : \A g \in Labels : Travels(p, g)' /\ Travels(q, g)' => p = q
  BY <1>1 DEF AloneInv
<1>4. \A p \in Places : \A g \in Labels : Travels(p, g)' => ~Answered(g)'
  BY <1>2 DEF AloneInv
<1>5. \A g \in Labels : InUse(g)' => InUse(g) \/ g = n
  BY DEF InUse
<1> QED
  BY <1>3, <1>4, <1>5 DEF AloneInv

\* The connection begins and ends.
LEMMA WireMovesTags ==
    ASSUME TypeInv, AloneInv, ServerAccepts \/ ReceiverFails \/ WorkerDies
    PROVE  AloneInv' /\ \A g \in Labels : InUse(g)' => InUse(g)
<1>1. UNCHANGED <<sendQ, queue, calls>>
  BY DEF ServerAccepts, ReceiverFails, WorkerDies, connVars, poolVars
<1>2. \A g \in Labels : Answered(g)' => Answered(g)
  BY <1>1, AnsweredUnchanged
<1>3. \A g : Register # Answer(g) /\ Exception # Answer(g)
  <2>1. \A g : Register.kind # Answer(g).kind /\ Exception.kind # Answer(g).kind
    BY DEF Register, Exception, Answer
  <2> QED
    BY <2>1
<1>4. ASSUME ServerAccepts, NEW p \in Places, NEW g \in Labels, Travels(p, g)'
      PROVE  Travels(p, g)
  <2>1. /\ UNCHANGED <<asked, recv>>
        /\ inbound' = <<Register>> \/ inbound' = inbound
    BY <1>4 DEF ServerAccepts, netVars
  <2>2. inbound' = <<Register>> => \A i \in DOMAIN inbound' : inbound'[i] = Register
    OBVIOUS
  <2> QED
    BY <1>1, <1>3, <1>4, <2>1, <2>2 DEF Travels
<1>5. ASSUME ReceiverFails, NEW p \in Places, NEW g \in Labels, Travels(p, g)'
      PROVE  Travels(p, g)
  <2>1. UNCHANGED <<asked, inbound>> /\ recv'[1] = Exception
    BY <1>5 DEF ReceiverFails, netVars
  <2> QED
    BY <1>1, <1>3, <1>5, <2>1 DEF Travels
<1>6. ASSUME WorkerDies, NEW p \in Places, NEW g \in Labels, Travels(p, g)'
      PROVE  Travels(p, g)
  <2>1. asked' = {} /\ UNCHANGED recv
    BY <1>6 DEF WorkerDies, ioVars
  <2>2. PICK n \in 0 .. Len(inbound) : inbound' = SubSeq(inbound, 1, n)
    BY <1>6 DEF WorkerDies
  <2>3. inbound \in Seq(Incoming) /\ DOMAIN inbound = 1 .. Len(inbound) /\ Len(inbound) \in Nat
    BY DEF TypeInv
  <2>4. DOMAIN inbound' = 1 .. n /\ \A i \in 1 .. n : inbound'[i] = inbound[i]
    BY <2>2, <2>3
  <2>5. \A i \in DOMAIN inbound' : i \in DOMAIN inbound /\ inbound'[i] = inbound[i]
    BY <2>3, <2>4
  <2> QED
    BY <1>1, <1>6, <2>1, <2>5 DEF Travels
<1> QED
  BY <1>2, <1>4, <1>5, <1>6, TagsLeave

-----------------------------------------------------------------------------
(* The routes: RouteInv.                                                   *)

LEMMA JobsStayRouted ==
    ASSUME JobsRouted, UNCHANGED jobs, routes \subseteq routes', closed => closed',
           \A t \in Threads : \A s \in Scenes : Begun(t, s)' => Begun(t, s)
    PROVE  JobsRouted'
BY DEF JobsRouted, Newest

LEMMA IdleCallsStayRouted ==
    ASSUME JobsRouted, UNCHANGED <<calls, jobs, routes, closed>>
    PROVE  JobsRouted'
BY DEF JobsRouted, Begun, Newest, Does

LEMMA TagsStayRouted ==
    ASSUME TagsRouted, routes \subseteq routes', closed => closed',
           \A p \in Places : \A g \in Labels : Travels(p, g)' => Travels(p, g) \/ p[1] = "read"
    PROVE  TagsRouted'
BY DEF TagsRouted

LEMMA QueuesStay ==
    ASSUME AnswersFindTheirCommand, UNCHANGED <<queue, recv, home>>
    PROVE  AnswersFindTheirCommand'
BY DEF AnswersFindTheirCommand

LEMMA PutFinds ==
    ASSUME TypeInv, AnswersFindTheirCommand, NEW t \in Threads \cup {None},
           NEW m \in Messages, Put(t, m), m.kind = "answer" => home[m.tag[1]] = t,
           UNCHANGED home, recv' = recv \/ recv' = <<>>
    PROVE  AnswersFindTheirCommand'
<1>1. ASSUME NEW u \in Threads, NEW i \in DOMAIN queue'[u], queue'[u][i].kind = "answer"
      PROVE  home[queue'[u][i].tag[1]] = u
  <2>1. \/ i \in DOMAIN queue[u] /\ queue'[u][i] = queue[u][i]
        \/ u = t /\ queue'[u][i] = m
    BY PutContents
  <2> QED
    BY <1>1, <2>1 DEF AnswersFindTheirCommand
<1> QED
  BY <1>1 DEF AnswersFindTheirCommand

LEMMA TakeFinds ==
    ASSUME TypeInv, AnswersFindTheirCommand, NEW t \in Threads, ThreadTakes(t)
    PROVE  AnswersFindTheirCommand'
<1>1. queue[t] # <<>> /\ queue' = [queue EXCEPT ![t] = Tail(@)] /\ UNCHANGED <<recv, home>>
  BY DEF ThreadTakes, ioVars, cmdVars
<1>2. \A u \in Threads : \A i \in DOMAIN queue'[u] :
          \E j \in DOMAIN queue[u] : queue'[u][i] = queue[u][j]
  <2> SUFFICES ASSUME NEW u \in Threads, NEW i \in DOMAIN queue'[u]
               PROVE  \E j \in DOMAIN queue[u] : queue'[u][i] = queue[u][j]
    OBVIOUS
  <2>1. IF u = t THEN i + 1 \in DOMAIN queue[u] /\ queue'[u][i] = queue[u][i + 1]
        ELSE i \in DOMAIN queue[u] /\ queue'[u][i] = queue[u][i]
    BY <1>1, TakeContents
  <2> QED
    BY <2>1
<1> QED
  BY <1>1, <1>2 DEF AnswersFindTheirCommand

\* A tag that travels is of a scene that has a command.
LEMMA TravellersHaveHomes ==
    ASSUME TypeInv, RequestInv, FreshInv
    PROVE  \A g \in Labels : InUse(g) => home[g[1]] \in Threads
<1> SUFFICES ASSUME NEW g \in Labels, InUse(g) PROVE home[g[1]] \in Threads
  OBVIOUS
<1>1. g[1] \in Scenes /\ g[2] \in Nat
  BY DEF Labels
<1>2. 1 <= g[2] /\ g[2] <= jobs[g[1]] /\ jobs[g[1]] \in Nat
  BY <1>1 DEF FreshInv, TypeInv
<1>3. home[g[1]] # None
  BY <1>1, <1>2 DEF RequestInv
<1> QED
  BY <1>1, <1>3 DEF TypeInv

LEMMA AskingFinds ==
    ASSUME TypeInv, RequestInv, FreshInv, AnswersFindTheirCommand,
           NEW s \in Scenes, ClientAsks(s)
    PROVE  AnswersFindTheirCommand'
<1>1. PICK t \in Threads : Put(t, Request(s)) /\ home' = [home EXCEPT ![s] = t]
  BY DEF ClientAsks
<1>2. home[s] = None /\ UNCHANGED recv
  BY DEF ClientAsks, ioVars
<1>3. None \notin Threads
  BY MasterAssumption
<1>4. \A r \in Scenes : r # s => home'[r] = home[r]
  BY <1>1 DEF TypeInv
<1>5. Request(s) \in Messages /\ Request(s).kind = "request"
  BY DEF Request, Messages
<1>6. ASSUME NEW u \in Threads, NEW i \in DOMAIN queue'[u], queue'[u][i].kind = "answer"
      PROVE  home'[queue'[u][i].tag[1]] = u
  <2>1. \/ i \in DOMAIN queue[u] /\ queue'[u][i] = queue[u][i]
        \/ queue'[u][i] = Request(s)
    BY <1>1, <1>5, PutContents
  <2>2. i \in DOMAIN queue[u] /\ queue'[u][i] = queue[u][i]
    BY <1>5, <1>6, <2>1
  <2>3. queue[u][i] \in Messages
    BY <2>2 DEF TypeInv
  <2>4. queue[u][i].tag[1] \in Scenes
    BY <1>6, <2>2, <2>3 DEF Messages, Incoming, Labels
  <2>5. home[queue[u][i].tag[1]] = u
    BY <1>6, <2>2 DEF AnswersFindTheirCommand
  <2> QED
    BY <1>2, <1>3, <1>4, <2>2, <2>4, <2>5
<1>7. ASSUME recv # <<>>, recv[1].kind = "answer"
      PROVE  recv[2] = home'[recv[1].tag[1]]
  <2>1. recv[1] \in Messages
    BY <1>7 DEF TypeInv
  <2>2. recv[1].tag \in Labels /\ recv[1] = Answer(recv[1].tag)
    BY <1>7, <2>1 DEF Messages, Incoming, Answer
  <2>3. Travels(<<"read", 0>>, recv[1].tag) /\ <<"read", 0>> \in Places
    BY <1>7, <2>2, PlaceFacts
  <2>4. home[recv[1].tag[1]] \in Threads
    BY <2>2, <2>3, TravellersHaveHomes DEF InUse
  <2>5. recv[1].tag[1] \in Scenes
    BY <2>2 DEF Labels
  <2>6. recv[2] = home[recv[1].tag[1]]
    BY <1>7 DEF AnswersFindTheirCommand
  <2> QED
    BY <1>2, <1>3, <1>4, <2>4, <2>5, <2>6
<1> QED
  BY <1>2, <1>6, <1>7 DEF AnswersFindTheirCommand

LEMMA ReadKeepsRoutes ==
    ASSUME TypeInv, RouteInv, ReceiverReads
    PROVE  RouteInv'
<1>1. /\ inbound \in Seq(Incoming) /\ inbound # <<>> /\ inbound' = Tail(inbound)
      /\ UNCHANGED <<peer, asked, sendQ, routes, closed, queue, calls, home, jobs>>
  BY DEF ReceiverReads, TypeInv, connVars, poolVars, cmdVars
<1>2. PICK t \in Listeners(Head(inbound)) : recv' = <<Head(inbound), t>>
  BY DEF ReceiverReads
<1>3. /\ Len(inbound) \in Nat /\ DOMAIN inbound = 1 .. Len(inbound) /\ Len(inbound) >= 1
      /\ Head(inbound) = inbound[1] /\ DOMAIN inbound' = 1 .. Len(inbound) - 1
      /\ \A i \in 1 .. Len(inbound) - 1 : inbound'[i] = inbound[i + 1]
  BY <1>1, TailShifts
<1>4. TagsRouted'
  <2> SUFFICES ASSUME NEW p \in Places, NEW g \in Labels, Travels(p, g)', p[1] # "read"
               PROVE  g \in routes \/ (closed /\ p[1] = "sent")
    BY <1>1 DEF TagsRouted
  <2>1. p[1] \in {"sent", "asked", "coming", "read"} /\ p[2] \in Nat
    BY PlaceFacts
  <2>2. CASE p[1] = "coming"
    <3>1. p[2] \in DOMAIN inbound' /\ inbound'[p[2]] = Answer(g)
      BY <2>2 DEF Travels
    <3>2. p[2] + 1 \in DOMAIN inbound /\ inbound[p[2] + 1] = Answer(g) /\ p[2] + 1 \in Nat
      BY <1>3, <2>1, <3>1
    <3>3. Travels(<<"coming", p[2] + 1>>, g) /\ <<"coming", p[2] + 1>> \in Places
      BY <3>2, PlaceFacts
    <3> QED
      BY <3>3 DEF TagsRouted, RouteInv
  <2>3. CASE p[1] # "coming"
    <3>1. Travels(p, g)
      BY <1>1, <2>3 DEF Travels
    <3> QED
      BY <3>1 DEF TagsRouted, RouteInv
  <2> QED
    BY <2>2, <2>3
<1>5. AnswersFindTheirCommand'
  <2>1. ASSUME recv'[1].kind = "answer"
        PROVE  recv'[2] = home[recv'[1].tag[1]]
    <3>1. inbound[1] \in Incoming /\ inbound[1].kind = "answer" /\ recv'[1] = inbound[1]
      BY <1>1, <1>2, <1>3, <2>1
    <3>2. inbound[1].tag \in Labels /\ inbound[1] = Answer(inbound[1].tag)
      BY <3>1 DEF Incoming, Answer
    <3>3. Travels(<<"coming", 1>>, inbound[1].tag) /\ <<"coming", 1>> \in Places
      BY <1>3, <3>2, PlaceFacts
    <3>4. inbound[1].tag \in routes
      BY <3>2, <3>3 DEF TagsRouted, RouteInv
    <3>5. t = home[inbound[1].tag[1]]
      BY <1>2, <1>3, <3>1, <3>4 DEF Listeners
    <3> QED
      BY <1>2, <3>1, <3>5
  <2> QED
    BY <1>1, <2>1 DEF AnswersFindTheirCommand, RouteInv
<1>6. JobsRouted'
  BY <1>1, IdleCallsStayRouted DEF RouteInv
<1> QED
  BY <1>1, <1>4, <1>5, <1>6 DEF RouteInv

LEMMA SendingKeepsRoutes ==
    ASSUME TypeInv, RouteInv, SenderTakes
    PROVE  RouteInv'
<1>1. /\ sendQ \in Seq(Packets) /\ sendQ # <<>> /\ sendQ' = Tail(sendQ)
      /\ \/ asked' = asked
         \/ /\ Head(sendQ).kind = "job" /\ asked' = asked \cup {Head(sendQ).tag}
            /\ peer = "up" /\ ~closed
      /\ UNCHANGED <<peer, inbound, recv, routes, closed, queue, calls, home, jobs>>
  BY DEF SenderTakes, MessageToSend, TypeInv, poolVars, cmdVars
<1>2. /\ Len(sendQ) \in Nat /\ DOMAIN sendQ = 1 .. Len(sendQ) /\ Len(sendQ) >= 1
      /\ Head(sendQ) = sendQ[1] /\ DOMAIN sendQ' = 1 .. Len(sendQ) - 1
      /\ \A i \in 1 .. Len(sendQ) - 1 : sendQ'[i] = sendQ[i + 1]
  BY <1>1, TailShifts
<1>3. \A g \in asked' :
          g \in asked \/ (sendQ[1] = [kind |-> "job", tag |-> g] /\ ~closed)
  <2>1. sendQ[1] \in Packets
    BY <1>1, <1>2
  <2>2. sendQ[1].kind = "job" => sendQ[1] = [kind |-> "job", tag |-> sendQ[1].tag]
    BY <2>1 DEF Packets
  <2> QED
    BY <1>1, <1>2, <2>2
<1>4. TagsRouted'
  <2> SUFFICES ASSUME NEW p \in Places, NEW g \in Labels, Travels(p, g)'
               PROVE  g \in routes \/ (closed /\ p[1] = "sent") \/ p[1] = "read"
    BY <1>1 DEF TagsRouted
  <2>1. p[1] \in {"sent", "asked", "coming", "read"} /\ p[2] \in Nat
    BY PlaceFacts
  <2>2. CASE p[1] = "sent"
    <3>1. p[2] \in DOMAIN sendQ' /\ sendQ'[p[2]] = [kind |-> "job", tag |-> g]
      BY <2>2 DEF Travels
    <3>2. /\ p[2] + 1 \in DOMAIN sendQ /\ p[2] + 1 \in Nat
          /\ sendQ[p[2] + 1] = [kind |-> "job", tag |-> g]
      BY <1>2, <2>1, <3>1
    <3>3. Travels(<<"sent", p[2] + 1>>, g) /\ <<"sent", p[2] + 1>> \in Places
      BY <3>2, PlaceFacts
    <3>4. <<"sent", p[2] + 1>>[1] = "sent"
      OBVIOUS
    <3> QED
      BY <2>2, <3>3, <3>4 DEF TagsRouted, RouteInv
  <2>3. CASE p[1] = "asked" /\ g \notin asked
    <3>1. sendQ[1] = [kind |-> "job", tag |-> g] /\ ~closed
      BY <1>3, <2>3 DEF Travels
    <3>2. Travels(<<"sent", 1>>, g) /\ <<"sent", 1>> \in Places
      BY <1>2, <3>1, PlaceFacts
    <3>3. <<"sent", 1>>[1] # "read"
      OBVIOUS
    <3> QED
      BY <3>1, <3>2, <3>3 DEF TagsRouted, RouteInv
  <2>4. CASE p[1] # "sent" /\ ~(p[1] = "asked" /\ g \notin asked)
    <3>1. Travels(p, g)
      BY <1>1, <2>1, <2>4 DEF Travels
    <3> QED
      BY <3>1 DEF TagsRouted, RouteInv
  <2> QED
    BY <2>2, <2>3, <2>4
<1>5. JobsRouted' /\ AnswersFindTheirCommand'
  BY <1>1, IdleCallsStayRouted, QueuesStay DEF RouteInv
<1>6. peer' # "up" => asked' = {}
  BY <1>1 DEF RouteInv
<1> QED
  BY <1>4, <1>5, <1>6 DEF RouteInv

LEMMA AnsweringKeepsRoutes ==
    ASSUME TypeInv, RouteInv, WorkerAnswers
    PROVE  RouteInv'
<1>1. PICK tag \in asked : asked' = asked \ {tag} /\ inbound' = Append(inbound, Answer(tag))
  BY DEF WorkerAnswers
<1>2. /\ inbound \in Seq(Incoming) /\ Len(inbound) \in Nat /\ tag \in Labels
      /\ peer = "up"
      /\ UNCHANGED <<peer, sendQ, recv, routes, closed, queue, calls, home, jobs>>
  BY DEF WorkerAnswers, TypeInv, ioVars, connVars, poolVars, cmdVars
<1>3. /\ DOMAIN inbound = 1 .. Len(inbound) /\ DOMAIN inbound' = 1 .. Len(inbound) + 1
      /\ inbound'[Len(inbound) + 1] = Answer(tag)
      /\ \A i \in 1 .. Len(inbound) : inbound'[i] = inbound[i]
  BY <1>1, <1>2
<1>4. tag \in routes
  <2>1. Travels(<<"asked", 0>>, tag) /\ <<"asked", 0>> \in Places
    BY PlaceFacts
  <2>2. <<"asked", 0>>[1] = "asked"
    OBVIOUS
  <2> QED
    BY <1>2, <2>1, <2>2 DEF TagsRouted, RouteInv
<1>5. TagsRouted'
  <2> SUFFICES ASSUME NEW p \in Places, NEW g \in Labels, Travels(p, g)', ~Travels(p, g)
               PROVE  g \in routes
    BY <1>2 DEF TagsRouted, RouteInv
  <2>1. p[1] = "coming" /\ p[2] \in DOMAIN inbound' /\ inbound'[p[2]] = Answer(g)
    BY <1>1, <1>2 DEF Travels
  <2>2. p[2] = Len(inbound) + 1
    <3>1. p[2] \notin 1 .. Len(inbound)
      BY <1>3, <2>1 DEF Travels
    <3> QED
      BY <1>2, <1>3, <2>1, <3>1
  <2> QED
    BY <1>3, <1>4, <2>1, <2>2 DEF Answer
<1>6. JobsRouted' /\ AnswersFindTheirCommand'
  BY <1>2, IdleCallsStayRouted, QueuesStay DEF RouteInv
<1> QED
  BY <1>2, <1>5, <1>6 DEF RouteInv

LEMMA WireKeepsRoutes ==
    ASSUME TypeInv, RouteInv, ServerAccepts \/ ReceiverFails \/ WorkerDies
    PROVE  RouteInv'
<1>1. UNCHANGED <<sendQ, routes, closed, queue, calls, home, jobs>>
  BY DEF ServerAccepts, ReceiverFails, WorkerDies, connVars, poolVars, cmdVars
<1>2. \/ UNCHANGED recv
      \/ \E t \in Threads : recv' = <<Exception, t>>
  BY DEF ServerAccepts, ReceiverFails, WorkerDies, ioVars
<1>3. \A t : <<Exception, t>>[1].kind # "answer"
  BY DEF Exception
<1>4. AnswersFindTheirCommand'
  BY <1>1, <1>2, <1>3 DEF AnswersFindTheirCommand, RouteInv
<1>5. JobsRouted'
  BY <1>1, IdleCallsStayRouted DEF RouteInv
<1>6. peer' # "up" => asked' = {}
  BY DEF ServerAccepts, ReceiverFails, WorkerDies, netVars, RouteInv
<1>7. \A p \in Places : \A g \in Labels : Travels(p, g)' => Travels(p, g) \/ p[1] = "read"
  <2>1. CASE ServerAccepts
    <3>1. UNCHANGED asked /\ (inbound' = <<Register>> \/ inbound' = inbound)
      BY <2>1 DEF ServerAccepts, netVars
    <3>2. inbound' = <<Register>> => \A i \in DOMAIN inbound' : inbound'[i] = Register
      OBVIOUS
    <3>3. \A g : Register # Answer(g)
      <4>1. \A g : Register.kind # Answer(g).kind
        BY DEF Register, Answer
      <4> QED
        BY <4>1
    <3> QED
      BY <1>1, <3>1, <3>2, <3>3 DEF Travels
  <2>2. CASE ReceiverFails
    <3>1. UNCHANGED <<asked, inbound>>
      BY <2>2 DEF ReceiverFails, netVars
    <3> QED
      BY <1>1, <3>1 DEF Travels
  <2>3. CASE WorkerDies
    <3>1. asked' = {}
      BY <2>3 DEF WorkerDies
    <3>2. PICK n \in 0 .. Len(inbound) : inbound' = SubSeq(inbound, 1, n)
      BY <2>3 DEF WorkerDies
    <3>3. inbound \in Seq(Incoming) /\ DOMAIN inbound = 1 .. Len(inbound) /\ Len(inbound) \in Nat
      BY DEF TypeInv
    <3>4. DOMAIN inbound' = 1 .. n /\ \A i \in 1 .. n : inbound'[i] = inbound[i]
      BY <3>2, <3>3
    <3>5. \A i \in DOMAIN inbound' : i \in DOMAIN inbound /\ inbound'[i] = inbound[i]
      BY <3>3, <3>4
    <3> QED
      BY <1>1, <3>1, <3>5 DEF Travels
  <2> QED
    BY <2>1, <2>2, <2>3
<1>8. TagsRouted'
  BY <1>1, <1>7, TagsStayRouted DEF RouteInv
<1> QED
  BY <1>4, <1>5, <1>6, <1>8 DEF RouteInv

-----------------------------------------------------------------------------
(* The steps of the transport and of the worker.                           *)

\* Requests do not come from the worker.
WireInv == ~Carried("request")

TagInv == HandInv /\ AloneInv /\ FreshInv /\ RouteInv /\ WireInv

LEMMA WireStep == TypeInv /\ WireInv /\ [Next]_vars => WireInv'
<1> SUFFICES ASSUME TypeInv, WireInv, [Next]_vars PROVE WireInv'
  OBVIOUS
<1>1. CASE UNCHANGED recv
  BY <1>1 DEF WireInv, Carried
<1>2. CASE ReceiverReads
  <2>1. recv'[1] = Head(inbound) /\ inbound \in Seq(Incoming) /\ inbound # <<>>
    BY <1>2 DEF ReceiverReads, TypeInv
  <2>2. Head(inbound) \in Incoming
    BY <2>1
  <2> QED
    BY <2>1, <2>2 DEF WireInv, Carried, Incoming
<1>3. CASE ReceiverFails
  BY <1>3 DEF ReceiverFails, Exception, WireInv, Carried
<1>4. CASE ReceiverNotifies
  BY <1>4 DEF ReceiverNotifies, WireInv, Carried
<1>5. [Next]_vars => UNCHANGED recv \/ ReceiverReads \/ ReceiverFails \/ ReceiverNotifies
  BY DEF Next, vars, ioVars, ServerAccepts, Receiver, Sender, SenderTakes, SenderNotifies,
         Thread, ThreadTakes, ForEachWorker, SaveConnection, AddWorker, NotifyHostFailure,
         AllocateAppTag, RegisterNotification, TrackJob, FreeAppTag, FinishScene, Lock,
         SendMsg, SendMsgClosed, CloseShutsDown, CloseNotifies, CloseReturns,
         OtherAnswerFinishes, ClientAsks, WorkerAnswers, WorkerDies
<1> QED
  BY <1>1, <1>2, <1>3, <1>4, <1>5

\* The handlers stand, and at most one message is put that is not a request.
LEMMA IdleCallsKeepHands ==
    ASSUME TypeInv, HandInv, UNCHANGED <<calls, home, jobs>>,
           \A u \in Threads : \A i \in Nat : \A s \in Scenes :
               Requested(u, i, s)' => Requested(u, i, s)
    PROVE  HandInv'
<1>1. \A k, t, i, s : Does(k, t, i, s)' <=> Does(k, t, i, s)
  BY DEF Does
<1>2. \A s : Idle(s)' <=> Idle(s)
  BY <1>1 DEF Idle
<1>3. OwnInv'
  BY <1>1 DEF HandInv, OwnInv
<1>4. StepInv'
  BY <1>1 DEF HandInv, StepInv
<1>5. RoomInv'
  BY <1>1 DEF HandInv, RoomInv
<1>6. RequestInv'
  BY <1>2 DEF HandInv, RequestInv
<1> QED
  BY <1>3, <1>4, <1>5, <1>6 DEF HandInv

LEMMA TransportKeepsTags ==
    ASSUME TypeInv, TagInv, WireInv',
           \/ ServerAccepts \/ ReceiverReads \/ ReceiverFails \/ ReceiverNotifies
           \/ SenderTakes \/ SenderNotifies \/ WorkerAnswers \/ WorkerDies
    PROVE  TagInv'
<1>1. UNCHANGED <<calls, home, jobs>>
  BY DEF ServerAccepts, ReceiverReads, ReceiverFails, ReceiverNotifies, SenderTakes,
         SenderNotifies, WorkerAnswers, WorkerDies, poolVars, cmdVars
<1>2. /\ HandInv /\ AloneInv /\ FreshInv /\ RouteInv
  BY DEF TagInv
<1>3. ASSUME SenderNotifies
      PROVE  /\ sender \in Scenes /\ home[sender] \in Threads \cup {None}
             /\ Put(home[sender], Status)
             /\ Status \in Messages /\ Status.kind = "status"
             /\ UNCHANGED <<peer, sendQ, asked, inbound, recv, routes, closed>>
  BY <1>3 DEF SenderNotifies, TypeInv, Status, Messages, netVars, connVars
<1>4. ASSUME ReceiverNotifies
      PROVE  /\ recv[1] \in Messages /\ recv[2] \in Threads \cup {None}
             /\ Put(recv[2], recv[1]) /\ recv[1].kind # "request"
             /\ recv[1].kind = "answer" => home[recv[1].tag[1]] = recv[2]
             /\ recv' = <<>>
             /\ UNCHANGED <<peer, sendQ, asked, inbound, routes, closed>>
  <2>1. /\ recv # <<>> /\ Put(recv[2], recv[1]) /\ recv' = <<>>
        /\ UNCHANGED <<peer, sendQ, asked, inbound, routes, closed>>
    BY <1>4 DEF ReceiverNotifies, netVars, connVars
  <2>2. recv[1] \in Messages /\ recv[2] \in Threads \cup {None}
    BY <2>1 DEF TypeInv
  <2>3. recv[1].kind # "request"
    BY <2>1 DEF TagInv, WireInv, Carried
  <2>4. recv[1].kind = "answer" => home[recv[1].tag[1]] = recv[2]
    BY <2>1 DEF TagInv, RouteInv, AnswersFindTheirCommand
  <2> QED
    BY <2>1, <2>2, <2>3, <2>4
<1>5. HandInv'
  <2>1. CASE SenderNotifies
    <3>1. \A u \in Threads : \A i \in Nat : \A s \in Scenes :
              Requested(u, i, s)' => Requested(u, i, s)
      BY <1>3, <2>1, PutKeepsRequests
    <3> QED
      BY <1>1, <1>2, <3>1, IdleCallsKeepHands
  <2>2. CASE ReceiverNotifies
    <3>1. \A u \in Threads : \A i \in Nat : \A s \in Scenes :
              Requested(u, i, s)' => Requested(u, i, s)
      BY <1>4, <2>2, PutKeepsRequests
    <3> QED
      BY <1>1, <1>2, <3>1, IdleCallsKeepHands
  <2>3. CASE ~SenderNotifies /\ ~ReceiverNotifies
    <3>1. UNCHANGED queue
      BY <2>3 DEF ServerAccepts, ReceiverReads, ReceiverFails, SenderTakes,
                  WorkerAnswers, WorkerDies, poolVars
    <3>2. \A u \in Threads : \A i \in Nat : \A s \in Scenes :
              Requested(u, i, s)' => Requested(u, i, s)
      BY <3>1 DEF Requested
    <3> QED
      BY <1>1, <1>2, <3>2, IdleCallsKeepHands
  <2> QED
    BY <2>1, <2>2, <2>3
<1>6. AloneInv' /\ \A g \in Labels : InUse(g)' => InUse(g)
  <2>1. CASE SenderNotifies
    <3>1. \A g : Status # Answer(g)
      <4>1. \A g : Status.kind # Answer(g).kind
        BY DEF Status, Answer
      <4> QED
        BY <4>1
    <3>2. \A u \in Threads : \A i \in DOMAIN calls'[u] :
              calls'[u][i].op = "free" => \E j \in DOMAIN calls[u] : calls[u][j] = calls'[u][i]
      BY <1>1
    <3>3. \A g \in Labels : Answered(g)' => Answered(g) \/ Status = Answer(g)
      BY <1>3, <2>1, <3>2, PutKeepsAnswered
    <3> QED
      BY <1>2, <1>3, <2>1, <3>1, <3>3, TagsStay
  <2> QED
    BY <1>2, <2>1, ReadMovesTags, NotifyMovesTags, SendingMovesTags, AnsweringMovesTags,
       WireMovesTags
<1>7. FreshInv'
  BY <1>1, <1>2, <1>6, IdleCallsKeepFresh
<1>8. RouteInv'
  <2>1. CASE SenderNotifies
    <3>1. JobsRouted'
      BY <1>1, <1>2, <1>3, <2>1, IdleCallsStayRouted DEF RouteInv
    <3>2. \A p, g : Travels(p, g)' => Travels(p, g)
      BY <1>3, <2>1 DEF Travels
    <3>3. TagsRouted'
      BY <1>2, <1>3, <2>1, <3>2, TagsStayRouted DEF RouteInv
    <3>4. AnswersFindTheirCommand'
      BY <1>1, <1>2, <1>3, <2>1, PutFinds DEF RouteInv
    <3> QED
      BY <1>2, <1>3, <2>1, <3>1, <3>3, <3>4 DEF RouteInv
  <2>2. CASE ReceiverNotifies
    <3>1. JobsRouted'
      BY <1>1, <1>2, <1>4, <2>2, IdleCallsStayRouted DEF RouteInv
    <3>2. \A p, g : Travels(p, g)' => Travels(p, g)
      BY <1>4, <2>2 DEF Travels
    <3>3. TagsRouted'
      BY <1>2, <1>4, <2>2, <3>2, TagsStayRouted DEF RouteInv
    <3>4. AnswersFindTheirCommand'
      BY <1>1, <1>2, <1>4, <2>2, PutFinds DEF RouteInv
    <3> QED
      BY <1>2, <1>4, <2>2, <3>1, <3>3, <3>4 DEF RouteInv
  <2> QED
    BY <1>2, <2>1, <2>2, ReadKeepsRoutes, SendingKeepsRoutes, AnsweringKeepsRoutes,
       WireKeepsRoutes
<1> QED
  BY <1>5, <1>6, <1>7, <1>8 DEF TagInv

-----------------------------------------------------------------------------
(* The calls that return.                                                  *)

LEMMA ReturnKeepsHandInv ==
    ASSUME TypeInv, HandInv, NEW t \in Threads, calls[t] # <<>>, Return(t), UNCHANGED home,
           \A s \in Scenes :
               jobs'[s] = IF Does("allocate", t, 1, s) THEN jobs[s] + 1 ELSE jobs[s],
           \A u \in Threads : \A i \in Nat : \A s \in Scenes :
               Requested(u, i, s)' => Requested(u, i, s)
    PROVE  HandInv'
<1>1. OwnInv' /\ StepInv' /\ RoomInv'
  BY ReturnKeepsHands DEF HandInv
<1>2. \A s \in Scenes : home[s] = None => jobs'[s] = jobs[s]
  <2>1. "allocate" \in JobCalls /\ 1 \in Nat
    BY DEF JobCalls
  <2>2. \A s \in Scenes : Does("allocate", t, 1, s) => home[s] = t
    BY <2>1 DEF HandInv, OwnInv
  <2> QED
    BY <2>2, MasterAssumption
<1>3. \A s \in Scenes : Idle(s) => Idle(s)' /\ jobs'[s] = jobs[s]
  <2>1. <<>> \in Seq(AllCalls) /\ \A i \in 1 .. Len(<<>>) : FALSE
    OBVIOUS
  <2>2. Then(t, <<>>)
    BY DEF Return
  <2>3. \A k \in JobCalls : \A i \in 1 .. Len(<<>>) : \A s :
            <<>>[i] # JobCall(k, s) /\ <<>>[i].op # "each"
    BY <2>1
  <2>4. \A s \in Scenes : Idle(s) => Idle(s)'
    BY <2>1, <2>2, <2>3, NothingNew
  <2>5. \A s \in Scenes : Idle(s) => ~Does("allocate", t, 1, s)
    BY DEF Idle, JobCalls
  <2> QED
    BY <2>4, <2>5
<1>4. RequestInv'
  <2>1. RequestInv
    BY DEF HandInv
  <2>2. \A u \in Threads : \A i \in Nat : \A s \in Scenes :
            Requested(u, i, s)' => jobs'[s] = jobs[s] /\ Idle(s)'
    BY <1>3, <2>1 DEF RequestInv
  <2>3. \A u \in Threads : \A i \in Nat : \A s \in Scenes :
            Requested(u, i, s)' =>
                IF u = t THEN Requested(u, i + 0, s) ELSE Requested(u, i, s)
    OBVIOUS
  <2>4. 0 \in Nat
    OBVIOUS
  <2> QED
    BY <1>2, <2>1, <2>2, <2>3, <2>4, KeepsRequests
<1> QED
  BY <1>1, <1>4 DEF HandInv

\* A job is tracked or sent next if its tag has been registered, or the job tracked.
LEMMA ReturnBegins ==
    ASSUME TypeInv, StepInv, NEW t \in Threads, calls[t] # <<>>, Return(t)
    PROVE  \A u \in Threads : \A s \in Scenes :
               Begun(u, s)' => IF u = t THEN Does("register", t, 1, s) \/ Begun(t, s)
                               ELSE Begun(u, s)
<1> SUFFICES ASSUME NEW u \in Threads, NEW s \in Scenes, NEW k \in {"track", "job"},
                    Does(k, u, 1, s)'
             PROVE  IF u = t THEN Does("register", t, 1, s) \/ Does("track", t, 1, s)
                    ELSE Does(k, u, 1, s)
  BY DEF Begun
<1>1. <<>> \in Seq(AllCalls) /\ Len(<<>>) = 0 /\ k \in JobCalls
  BY DEF JobCalls
<1>2. \A l \in JobCalls : \A v \in Threads : \A i \in Nat : \A r :
          Does(l, v, i, r)' <=>
              IF v # t THEN Does(l, v, i, r)
              ELSE \/ i \in 1 .. Len(<<>>) /\ <<>>[i] = JobCall(l, r)
                   \/ i > Len(<<>>) /\ Does(l, t, i - Len(<<>>) + 1, r)
  BY <1>1, JobCallsMove DEF Return
<1>3. IF u # t THEN Does(k, u, 1, s)
      ELSE \/ 1 \in 1 .. Len(<<>>) /\ <<>>[1] = JobCall(k, s)
           \/ 1 > Len(<<>>) /\ Does(k, t, 1 - Len(<<>>) + 1, s)
  BY <1>1, <1>2
<1>4. 1 \notin 1 .. Len(<<>>) /\ 1 - Len(<<>>) + 1 = 2
  BY <1>1
<1>5. /\ Does("track", t, 2, s) =>
             IF 2 = 1 THEN jobs[s] >= 1 ELSE Does("register", t, 2 - 1, s)
      /\ Does("job", t, 2, s) =>
             IF 2 = 1 THEN jobs[s] >= 1 ELSE Does("track", t, 2 - 1, s)
  BY DEF StepInv
<1> QED
  BY <1>3, <1>4, <1>5

LEMMA FirstCall ==
    ASSUME TypeInv, NEW t \in Threads, calls[t] # <<>>
    PROVE  /\ 1 \in DOMAIN calls[t] /\ Head(calls[t]) = calls[t][1] /\ Head(calls[t]) \in AllCalls
           /\ \A k \in JobCalls : \A s : Does(k, t, 1, s) <=> Head(calls[t]) = JobCall(k, s)
<1>1. calls[t] \in Seq(AllCalls)
  BY DEF TypeInv
<1>2. 1 \in DOMAIN calls[t] /\ Head(calls[t]) = calls[t][1] /\ Head(calls[t]) \in AllCalls
  BY <1>1
<1> QED
  BY <1>2 DEF Does

\* Nothing that is put on the way is an answer or a request.
LEMMA ReturnKeepsTags ==
    ASSUME TypeInv, TagInv, WireInv', NEW t \in Threads, calls[t] # <<>>, Return(t),
           Head(calls[t]).op \notin {"allocate", "register"},
           UNCHANGED <<peer, asked, home, jobs, routes, closed, recv>>,
           \A p \in Places : \A g \in Labels : Travels(p, g)' => Travels(p, g),
           \/ UNCHANGED queue
           \/ \E m \in Messages : \E u \in Threads \cup {None} :
                  m.kind \notin {"answer", "request"} /\ Put(u, m)
    PROVE  TagInv'
<1>1. HandInv /\ AloneInv /\ FreshInv /\ RouteInv
  BY DEF TagInv
<1>2. \A s : ~Does("allocate", t, 1, s) /\ ~Does("register", t, 1, s)
  BY FirstCall, JobCallsDiffer DEF JobCalls
<1>3. <<>> \in Seq(AllCalls) /\ Then(t, <<>>) /\ \A i \in 1 .. Len(<<>>) : FALSE
  BY DEF Return
<1>4. \A m : m.kind # "answer" => \A g : m # Answer(g)
  BY DEF Answer
<1>5. HandInv'
  <2>1. \A u \in Threads : \A i \in Nat : \A s \in Scenes :
            Requested(u, i, s)' => Requested(u, i, s)
    <3>1. CASE UNCHANGED queue
      BY <3>1 DEF Requested
    <3>2. CASE \E m \in Messages : \E u \in Threads \cup {None} :
                   m.kind \notin {"answer", "request"} /\ Put(u, m)
      BY <3>2, PutKeepsRequests
    <3> QED
      BY <3>1, <3>2
  <2>2. \A s \in Scenes :
            jobs'[s] = IF Does("allocate", t, 1, s) THEN jobs[s] + 1 ELSE jobs[s]
    BY <1>2
  <2> QED
    BY <1>1, <2>1, <2>2, ReturnKeepsHandInv
<1>6. AloneInv' /\ \A g \in Labels : InUse(g)' => InUse(g)
  <2>1. \A u \in Threads : \A i \in DOMAIN calls'[u] :
            calls'[u][i].op = "free" => \E j \in DOMAIN calls[u] : calls[u][j] = calls'[u][i]
    BY <1>3, ThenFreesNothing
  <2>2. CASE UNCHANGED queue
    <3>1. \A g \in Labels : Answered(g)' => Answered(g)
      BY <1>3, <2>2, ThenFreesNothing
    <3> QED
      BY <1>1, <3>1, TagsLeave
  <2>3. ASSUME NEW m \in Messages, NEW u \in Threads \cup {None},
               m.kind \notin {"answer", "request"}, Put(u, m)
        PROVE  \A g \in Labels : Answered(g)' => Answered(g)
    <3>1. \A g \in Labels : Answered(g)' => Answered(g) \/ m = Answer(g)
      BY <2>1, <2>3, PutKeepsAnswered
    <3> QED
      BY <1>4, <2>3, <3>1
  <2> QED
    BY <1>1, <2>2, <2>3, TagsLeave
<1>7. FreshInv'
  <2>1. \A s \in Scenes :
            jobs'[s] = IF Does("allocate", t, 1, s) THEN jobs[s] + 1 ELSE jobs[s]
    BY <1>2
  <2> QED
    BY <1>1, <1>6, <2>1, ReturnKeepsFresh DEF HandInv
<1>8. RouteInv'
  <2>1. \A u \in Threads : \A s \in Scenes : Begun(u, s)' => Begun(u, s)
    BY <1>1, <1>2, ReturnBegins DEF HandInv
  <2>2. JobsRouted'
    BY <1>1, <2>1, JobsStayRouted DEF RouteInv
  <2>3. TagsRouted'
    BY <1>1, TagsStayRouted DEF RouteInv
  <2>4. AnswersFindTheirCommand'
    BY <1>1, QueuesStay, PutFinds DEF RouteInv
  <2> QED
    BY <1>1, <2>2, <2>3, <2>4 DEF RouteInv
<1> QED
  BY <1>5, <1>6, <1>7, <1>8 DEF TagInv

-----------------------------------------------------------------------------
(* The calls that make, route, send and free a tag.                        *)

LEMMA HeadCalls ==
    ASSUME TypeInv, NEW t \in Threads, calls[t] # <<>>
    PROVE  LET c == Head(calls[t])
           IN  /\ c.op \in {"allocate", "register", "track", "finish"} =>
                      c.scene \in Scenes /\ c = CallFor(c.op, c.scene)
               /\ c.op = "free" => c.tag \in Labels /\ c = Free(c.tag)
               /\ c.op = "send" /\ c.kind = "job" => c.scene \in Scenes /\ c = Send("job", c.scene)
<1> DEFINE c == Head(calls[t])
<1>1. c \in AllCalls
  BY FirstCall
<1> HIDE DEF c
<1>2. c.op \in {"allocate", "register", "track", "finish"} =>
          c.scene \in Scenes /\ c = CallFor(c.op, c.scene)
  BY <1>1 DEF AllCalls, PlainCalls, SendCalls, Loops, ClosingCalls, CallFor
<1>3. c.op = "free" => c.tag \in Labels /\ c = Free(c.tag)
  BY <1>1 DEF AllCalls, PlainCalls, SendCalls, Loops, ClosingCalls, Free
<1>4. c.op = "send" /\ c.kind = "job" => c.scene \in Scenes /\ c = Send("job", c.scene)
  BY <1>1 DEF AllCalls, PlainCalls, SendCalls, Loops, ClosingCalls, Send
<1> QED
  BY <1>2, <1>3, <1>4 DEF c

\* What the four calls have in common.
LEMMA TagCallFacts ==
    ASSUME TypeInv, TagInv, NEW t \in Threads, calls[t] # <<>>, Return(t),
           UNCHANGED <<peer, asked, inbound, recv, queue, home>>
    PROVE  /\ HandInv /\ AloneInv /\ FreshInv /\ RouteInv
           /\ \A u \in Threads : \A i \in Nat : \A s \in Scenes :
                  Requested(u, i, s)' => Requested(u, i, s)
           /\ \A g \in Labels : Answered(g)' => Answered(g)
           /\ UNCHANGED sendQ =>
                  /\ AloneInv' /\ \A g \in Labels : InUse(g)' => InUse(g)
                  /\ \A p, g : Travels(p, g)' => Travels(p, g)
           /\ AnswersFindTheirCommand' /\ (peer' # "up" => asked' = {})
<1>1. HandInv /\ AloneInv /\ FreshInv /\ RouteInv
  BY DEF TagInv
<1>2. \A u \in Threads : \A i \in Nat : \A s \in Scenes :
          Requested(u, i, s)' => Requested(u, i, s)
  BY DEF Requested
<1>3. \A g \in Labels : Answered(g)' => Answered(g)
  <2>1. <<>> \in Seq(AllCalls) /\ Then(t, <<>>) /\ \A i \in 1 .. Len(<<>>) : FALSE
    BY DEF Return
  <2> QED
    BY <2>1, ThenFreesNothing
<1>4. UNCHANGED sendQ => \A p, g : Travels(p, g)' => Travels(p, g)
  BY DEF Travels
<1>5. UNCHANGED sendQ => AloneInv' /\ \A g \in Labels : InUse(g)' => InUse(g)
  BY <1>1, <1>3, <1>4, TagsLeave
<1>6. AnswersFindTheirCommand' /\ (peer' # "up" => asked' = {})
  BY <1>1, QueuesStay DEF RouteInv
<1> QED
  BY <1>1, <1>2, <1>3, <1>4, <1>5, <1>6

LEMMA AllocateKeepsTags ==
    ASSUME TypeInv, TagInv, WireInv', NEW t \in Threads, AllocateAppTag(t)
    PROVE  TagInv'
<1> DEFINE s0 == Head(calls[t]).scene
<1>1. /\ calls[t] # <<>> /\ Head(calls[t]).op = "allocate" /\ Return(t)
      /\ jobs' = [jobs EXCEPT ![s0] = @ + 1]
      /\ UNCHANGED <<peer, asked, inbound, recv, queue, home, sendQ, routes, closed>>
  BY DEF AllocateAppTag, At, netVars, ioVars, connVars
<1>2. s0 \in Scenes /\ Head(calls[t]) = CallFor("allocate", s0)
  BY <1>1, HeadCalls
<1>3. \A s : Does("allocate", t, 1, s) <=> s = s0
  <2>1. \A s : Does("allocate", t, 1, s) <=> CallFor("allocate", s0) = JobCall("allocate", s)
    BY <1>1, <1>2, FirstCall DEF JobCalls
  <2>2. \A s : JobCall("allocate", s0) = JobCall("allocate", s) => s = s0
    BY JobCallsDiffer DEF JobCalls
  <2>3. JobCall("allocate", s0) = CallFor("allocate", s0)
    BY JobCallsDiffer
  <2> HIDE DEF s0
  <2> QED
    BY <2>1, <2>2, <2>3
<1> HIDE DEF s0
<1>4. \A s \in Scenes : jobs'[s] = IF Does("allocate", t, 1, s) THEN jobs[s] + 1 ELSE jobs[s]
  BY <1>1, <1>2, <1>3 DEF TypeInv
<1>5. HandInv' /\ AloneInv' /\ FreshInv'
  BY <1>1, <1>4, TagCallFacts, ReturnKeepsHandInv, ReturnKeepsFresh DEF HandInv
<1>6. ASSUME NEW u \in Threads, NEW s \in Scenes, Begun(u, s)'
      PROVE  Begun(u, s) /\ jobs'[s] = jobs[s]
  <2>1. OwnInv /\ StepInv
    BY DEF TagInv, HandInv
  <2>2. ~Does("register", t, 1, s) /\ ~Begun(t, s)
    <3>1. Does("allocate", t, 1, s0) /\ "allocate" \in JobCalls
      BY <1>3 DEF JobCalls
    <3>2. ASSUME NEW k \in JobCalls, k # "allocate" PROVE ~Does(k, t, 1, s)
      BY <3>1, <3>2, OneCall
    <3> QED
      BY <3>2 DEF JobCalls, Begun
  <2>3. u # t /\ Begun(u, s)
    BY <1>1, <1>6, <2>1, <2>2, ReturnBegins
  <2>4. s # s0
    <3>1. PICK k \in JobCalls : Does(k, u, 1, s)
      BY <2>3 DEF Begun, JobCalls
    <3> QED
      BY <1>2, <1>3, <2>1, <2>3, <3>1, OneThread DEF JobCalls
  <2> QED
    BY <1>3, <1>4, <2>3, <2>4
<1>7. RouteInv'
  <2>1. JobsRouted'
    BY <1>1, <1>6 DEF TagInv, RouteInv, JobsRouted, Newest
  <2>2. TagsRouted'
    BY <1>1, TagCallFacts, TagsStayRouted DEF RouteInv
  <2> QED
    BY <1>1, <2>1, <2>2, TagCallFacts DEF RouteInv
<1> QED
  BY <1>5, <1>7 DEF TagInv

LEMMA RegisterKeepsTags ==
    ASSUME TypeInv, TagInv, WireInv', NEW t \in Threads, RegisterNotification(t)
    PROVE  TagInv'
<1> DEFINE s0 == Head(calls[t]).scene
<1>1. /\ calls[t] # <<>> /\ Head(calls[t]).op = "register" /\ Return(t)
      /\ routes' = routes \cup {Newest(s0)}
      /\ UNCHANGED <<peer, asked, inbound, recv, queue, home, jobs, sendQ, closed>>
  BY DEF RegisterNotification, At, netVars, ioVars, cmdVars
<1>2. s0 \in Scenes /\ Head(calls[t]) = CallFor("register", s0)
  BY <1>1, HeadCalls
<1>3. \A s : /\ Does("register", t, 1, s) => s = s0
             /\ ~Does("allocate", t, 1, s)
  <2>1. \A s : /\ Does("register", t, 1, s) => JobCall("register", s0) = JobCall("register", s)
               /\ Does("allocate", t, 1, s) => JobCall("register", s0) = JobCall("allocate", s)
    BY <1>1, <1>2, FirstCall, JobCallsDiffer DEF JobCalls
  <2>2. "register" \in JobCalls /\ "allocate" \in JobCalls /\ "register" # "allocate"
    BY DEF JobCalls
  <2> HIDE DEF s0
  <2> QED
    BY <2>1, <2>2, JobCallsDiffer
<1> HIDE DEF s0
<1>4. \A s \in Scenes : jobs'[s] = IF Does("allocate", t, 1, s) THEN jobs[s] + 1 ELSE jobs[s]
  BY <1>1, <1>3
<1>5. HandInv' /\ AloneInv' /\ FreshInv'
  BY <1>1, <1>4, TagCallFacts, ReturnKeepsHandInv, ReturnKeepsFresh DEF HandInv
<1>6. RouteInv'
  <2>1. ASSUME NEW u \in Threads, NEW s \in Scenes, Begun(u, s)'
        PROVE  Newest(s) \in routes' \/ closed
    <3>1. s = s0 \/ Begun(u, s)
      BY <1>1, <1>3, <2>1, ReturnBegins DEF TagInv, HandInv
    <3> QED
      BY <1>1, <3>1 DEF TagInv, RouteInv, JobsRouted
  <2>2. JobsRouted'
    BY <1>1, <2>1 DEF JobsRouted, Newest
  <2>3. TagsRouted'
    BY <1>1, TagCallFacts, TagsStayRouted DEF RouteInv
  <2> QED
    BY <1>1, <2>2, <2>3, TagCallFacts DEF RouteInv
<1> QED
  BY <1>5, <1>6 DEF TagInv

LEMMA FreeKeepsTags ==
    ASSUME TypeInv, TagInv, WireInv', NEW t \in Threads, FreeAppTag(t)
    PROVE  TagInv'
<1> DEFINE g0 == Head(calls[t]).tag
<1>1. /\ calls[t] # <<>> /\ Head(calls[t]).op = "free" /\ Return(t)
      /\ routes' = routes \ {g0}
      /\ UNCHANGED <<peer, asked, inbound, recv, queue, home, jobs, sendQ, closed>>
  BY DEF FreeAppTag, At, netVars, ioVars, cmdVars
<1>2. g0 \in Labels /\ Head(calls[t]) = Free(g0)
  BY <1>1, HeadCalls
<1> HIDE DEF g0
<1>3. Answered(g0)
  <2>1. 1 \in DOMAIN calls[t] /\ calls[t][1] = [op |-> "free", tag |-> g0]
    BY <1>1, <1>2, FirstCall DEF Free
  <2> QED
    BY <2>1 DEF Answered
<1>4. \A s : ~Does("register", t, 1, s) /\ ~Does("allocate", t, 1, s)
  <2>1. \A s : JobCall("register", s).op # "free" /\ JobCall("allocate", s).op # "free"
    BY JobCallsDiffer
  <2> QED
    BY <1>1, <2>1, FirstCall DEF JobCalls
<1>5. \A s \in Scenes : jobs'[s] = IF Does("allocate", t, 1, s) THEN jobs[s] + 1 ELSE jobs[s]
  BY <1>1, <1>4
<1>6. HandInv' /\ AloneInv' /\ FreshInv'
  BY <1>1, <1>5, TagCallFacts, ReturnKeepsHandInv, ReturnKeepsFresh DEF HandInv
<1>7. RouteInv'
  <2>1. ASSUME NEW u \in Threads, NEW s \in Scenes, Begun(u, s)'
        PROVE  Newest(s) \in routes' \/ closed
    <3>1. Begun(u, s)
      BY <1>1, <1>4, <2>1, ReturnBegins DEF TagInv, HandInv
    <3>2. g0[1] = s => g0[2] < jobs[s] /\ g0[2] \in Nat /\ jobs[s] \in Nat
      <4>1. InUse(g0) /\ g0[2] \in Nat /\ jobs[s] \in Nat
        BY <1>2, <1>3 DEF InUse, Labels, TypeInv
      <4> QED
        BY <1>2, <3>1, <4>1 DEF TagInv, FreshInv, Begun
    <3>3. Newest(s) # g0
      <4>1. Newest(s)[1] = s /\ Newest(s)[2] = jobs[s]
        BY DEF Newest
      <4> QED
        BY <3>2, <4>1
    <3> QED
      BY <1>1, <3>1, <3>3 DEF TagInv, RouteInv, JobsRouted
  <2>2. JobsRouted'
    BY <1>1, <2>1 DEF JobsRouted, Newest
  <2>3. TagsRouted'
    <3>1. \A p \in Places : \A g \in Labels : Travels(p, g)' => Travels(p, g) /\ g # g0
      BY <1>1, <1>2, <1>3, TagCallFacts DEF AloneInv
    <3> QED
      BY <1>1, <3>1 DEF TagInv, RouteInv, TagsRouted
  <2> QED
    BY <1>1, <2>2, <2>3, TagCallFacts DEF RouteInv
<1> QED
  BY <1>6, <1>7 DEF TagInv

LEMMA SendJobKeepsTags ==
    ASSUME TypeInv, TagInv, WireInv', NEW t \in Threads, SendMsg(t), Head(calls[t]).kind = "job"
    PROVE  TagInv'
<1> DEFINE s0 == Head(calls[t]).scene
           n == Newest(s0)
<1>1. /\ calls[t] # <<>> /\ Head(calls[t]).op = "send" /\ Return(t) /\ ~closed
      /\ sendQ' = Append(sendQ, [kind |-> "job", tag |-> n])
      /\ UNCHANGED <<peer, asked, inbound, recv, queue, home, jobs, routes, closed>>
  BY DEF SendMsg, Accepts, At, netVars, ioVars, cmdVars
<1>2. s0 \in Scenes /\ Head(calls[t]) = Send("job", s0)
  BY <1>1, HeadCalls
<1>3. n \in Labels /\ n[1] = s0 /\ n[2] = jobs[s0] /\ jobs[s0] \in Nat
  BY <1>2 DEF Newest, Labels, TypeInv
<1>4. Does("job", t, 1, s0)
  BY <1>1, <1>2, FirstCall, JobCallsDiffer DEF JobCalls
<1> HIDE DEF s0, n
<1>5. \A s : ~Does("register", t, 1, s) /\ ~Does("allocate", t, 1, s)
  BY <1>4, OneCall DEF JobCalls
<1>6. ~InUse(n)
  <2>1. InUse(n) => n[2] < jobs[n[1]]
    BY <1>3, <1>4 DEF TagInv, FreshInv
  <2> QED
    BY <1>3, <2>1
<1>7. \A s \in Scenes : jobs'[s] = IF Does("allocate", t, 1, s) THEN jobs[s] + 1 ELSE jobs[s]
  BY <1>1, <1>5
<1>8. \A p \in Places : \A g \in Labels :
          Travels(p, g)' => \/ Travels(p, g)
                            \/ p = <<"sent", Len(sendQ) + 1>> /\ g = n
  <2>1. [kind |-> "job", tag |-> n] \in Packets
    BY <1>3 DEF Packets
  <2>2. \A g : [kind |-> "job", tag |-> n] = [kind |-> "job", tag |-> g] => g = n
    OBVIOUS
  <2> QED
    BY <1>1, <2>1, <2>2, PacketIsPut
<1>9. AloneInv' /\ \A g \in Labels : InUse(g)' => InUse(g) \/ g = n
  <2> DEFINE o == <<"sent", Len(sendQ) + 1>>
  <2>1. AloneInv /\ \A g \in Labels : Answered(g)' => Answered(g)
    BY <1>1, TagCallFacts
  <2>2. \A p \in Places : \A g \in Labels :
            Travels(p, g)' => Travels(p, g) \/ (p = o /\ g = n)
    BY <1>8
  <2> HIDE DEF o
  <2> QED
    BY <1>3, <1>6, <2>1, <2>2, TagAppears
<1>10. HandInv' /\ FreshInv'
  <2>1. \A g \in Labels : InUse(g)' =>
            InUse(g) \/ (Does("job", t, 1, g[1]) /\ g[2] = jobs[g[1]])
    BY <1>3, <1>4, <1>9
  <2>2. HandInv'
    BY <1>1, <1>7, TagCallFacts, ReturnKeepsHandInv
  <2>3. FreshInv'
    BY <1>1, <1>7, <2>1, TagCallFacts, ReturnKeepsFresh DEF HandInv
  <2> QED
    BY <2>2, <2>3
<1>11. RouteInv'
  <2>1. n \in routes
    BY <1>1, <1>2, <1>4 DEF TagInv, RouteInv, JobsRouted, Begun, n
  <2>2. TagsRouted'
    BY <1>1, <1>8, <2>1 DEF TagInv, RouteInv, TagsRouted
  <2>3. \A u \in Threads : \A s \in Scenes : Begun(u, s)' => Begun(u, s)
    BY <1>1, <1>5, ReturnBegins DEF TagInv, HandInv
  <2>4. JobsRouted'
    BY <1>1, <2>3, JobsStayRouted DEF TagInv, RouteInv
  <2> QED
    BY <1>1, <2>2, <2>4, TagCallFacts DEF RouteInv
<1> QED
  BY <1>9, <1>10, <1>11 DEF TagInv

\* The other calls that return.
LEMMA OtherCallsKeepTags ==
    ASSUME TypeInv, TagInv, WireInv', NEW t \in Threads,
           \/ SaveConnection(t) \/ AddWorker(t) \/ NotifyHostFailure(t)
           \/ TrackJob(t) \/ FinishScene(t)
           \/ SendMsg(t) /\ Head(calls[t]).kind # "job"
           \/ SendMsgClosed(t) \/ CloseReturns(t)
    PROVE  TagInv'
<1>1. /\ calls[t] # <<>> /\ Return(t)
      /\ Head(calls[t]).op \in {"save", "add", "note", "track", "finish", "send", "clear"}
      /\ UNCHANGED <<peer, asked, inbound, home, jobs, routes, closed, recv>>
  BY DEF SaveConnection, AddWorker, NotifyHostFailure, TrackJob, FinishScene, SendMsg,
         SendMsgClosed, CloseReturns, At, netVars, ioVars, connVars, cmdVars
<1>2. Head(calls[t]).op \notin {"allocate", "register"}
  BY <1>1
<1>3. CASE \/ SaveConnection(t) \/ AddWorker(t) \/ NotifyHostFailure(t)
           \/ TrackJob(t) \/ FinishScene(t) \/ CloseReturns(t)
  <2>1. UNCHANGED <<sendQ, queue>>
    BY <1>3 DEF SaveConnection, AddWorker, NotifyHostFailure, TrackJob, FinishScene,
                CloseReturns, connVars
  <2>2. \A p, g : Travels(p, g)' => Travels(p, g)
    BY <1>1, <2>1 DEF Travels
  <2> QED
    BY <1>1, <1>2, <2>1, <2>2, ReturnKeepsTags
<1>4. CASE SendMsgClosed(t)
  <2>1. UNCHANGED sendQ
    BY <1>4 DEF SendMsgClosed
  <2>2. \A p, g : Travels(p, g)' => Travels(p, g)
    BY <1>1, <2>1 DEF Travels
  <2>3. \/ UNCHANGED queue
        \/ \E m \in Messages : \E u \in Threads \cup {None} :
               m.kind \notin {"answer", "request"} /\ Put(u, m)
    <3>1. Head(calls[t]) \in AllCalls /\ Head(calls[t]).op = "send"
      BY <1>1, <1>4, FirstCall DEF SendMsgClosed, At
    <3>2. Head(calls[t]).kind = "scene" => Head(calls[t]).scene \in Scenes
      BY <3>1 DEF AllCalls, PlainCalls, SendCalls, Loops, ClosingCalls
    <3>3. \A s \in Scenes : /\ Lost(s, saved) \in Messages /\ home[s] \in Threads \cup {None}
                            /\ Lost(s, saved).kind \notin {"answer", "request"}
      BY DEF Lost, Messages, TypeInv
    <3> QED
      BY <1>4, <3>2, <3>3 DEF SendMsgClosed
  <2> QED
    BY <1>1, <1>2, <2>2, <2>3, ReturnKeepsTags
<1>5. CASE SendMsg(t) /\ Head(calls[t]).kind # "job"
  <2>1. UNCHANGED queue
    BY <1>5 DEF SendMsg
  <2>2. PICK c \in Packets : sendQ' = Append(sendQ, c) /\ c.kind # "job"
    <3>1. Head(calls[t]) \in AllCalls /\ Head(calls[t]).op = "send"
      BY <1>1, <1>5, FirstCall DEF SendMsg, At
    <3>2. \/ Head(calls[t]).kind = "scene" /\ Head(calls[t]).scene \in Scenes
          \/ Head(calls[t]).kind \in {"response", "cleanup"}
      BY <1>5, <3>1 DEF AllCalls, PlainCalls, SendCalls, Loops, ClosingCalls
    <3>3. /\ \A s \in Scenes : [kind |-> "scene", scene |-> s] \in Packets
          /\ \A k \in {"response", "cleanup"} : [kind |-> k] \in Packets
      BY DEF Packets
    <3>4. CASE Head(calls[t]).kind = "scene" /\ Head(calls[t]).scene \in Scenes
      BY <1>5, <3>3, <3>4 DEF SendMsg
    <3>5. CASE Head(calls[t]).kind \in {"response", "cleanup"}
      BY <1>5, <3>3, <3>5 DEF SendMsg
    <3> QED
      BY <3>2, <3>4, <3>5
  <2>3. \A p \in Places : \A g \in Labels : Travels(p, g)' => Travels(p, g)
    <3>1. \A g : c # [kind |-> "job", tag |-> g]
      BY <2>2
    <3> QED
      BY <1>1, <2>2, <3>1, PacketIsPut
  <2> QED
    BY <1>1, <1>2, <2>1, <2>3, ReturnKeepsTags
<1> QED
  BY <1>3, <1>4, <1>5

-----------------------------------------------------------------------------
(* The other steps.                                                        *)

LEMMA ExpandKeepsTags ==
    ASSUME TypeInv, TagInv, WireInv', NEW t \in Threads, calls[t] # <<>>,
           Head(calls[t]).op \in {"each", "close", "shutdown"},
           NEW more \in Seq(AllCalls), Then(t, more),
           \/ \A k \in JobCalls : \A i \in 1 .. Len(more) : \A s :
                  more[i] # JobCall(k, s) /\ more[i].op # "each"
           \/ \E s \in Scenes : Head(calls[t]) = JobLoop(s) /\ more = NextJob(s),
           \A i \in 1 .. Len(more) : more[i].op # "free",
           UNCHANGED <<peer, asked, inbound, recv, queue, home, jobs, routes>>,
           \A p \in Places : \A g \in Labels : Travels(p, g)' => Travels(p, g),
           closed => closed'
    PROVE  TagInv'
<1>1. /\ HandInv /\ AloneInv /\ FreshInv /\ RouteInv
      /\ OwnInv /\ StepInv /\ RoomInv /\ RequestInv
  BY DEF TagInv, HandInv
<1>2. OwnInv' /\ StepInv' /\ RoomInv'
  BY <1>1, ExpandKeepsHands
<1>3. RequestInv'
  <2>1. \A s \in Scenes : Idle(s) => Idle(s)'
    BY NothingNew
  <2>2. \A u \in Threads : \A i \in Nat : \A s \in Scenes :
            Requested(u, i, s)' => Requested(u, i, s)
    BY DEF Requested
  <2> QED
    BY <1>1, <2>1, <2>2 DEF RequestInv
<1>4. AloneInv' /\ \A g \in Labels : InUse(g)' => InUse(g)
  <2>1. \A g \in Labels : Answered(g)' => Answered(g)
    BY ThenFreesNothing
  <2> QED
    BY <1>1, <2>1, TagsLeave
<1>5. \A k \in {"register", "track", "job"} : \A u \in Threads : \A s \in Scenes :
          Does(k, u, 1, s)' => Does(k, u, 1, s)
  BY <1>1, ExpandBegins
<1>6. FreshInv'
  BY <1>1, <1>4, <1>5, FreshStays
<1>7. RouteInv'
  <2>1. JobsRouted'
    BY <1>1, <1>5, JobsStayRouted DEF RouteInv, Begun
  <2>3. TagsRouted'
    BY <1>1, TagsStayRouted DEF RouteInv
  <2>4. AnswersFindTheirCommand'
    BY <1>1, QueuesStay DEF RouteInv
  <2> QED
    BY <1>1, <2>1, <2>3, <2>4 DEF RouteInv
<1> QED
  BY <1>2, <1>3, <1>4, <1>6, <1>7 DEF TagInv, HandInv

LEMMA LoopKeepsTags ==
    ASSUME TypeInv, TagInv, WireInv', NEW t \in Threads, ForEachWorker(t)
    PROVE  TagInv'
<1> DEFINE more == IF listed THEN Head(calls[t]).body ELSE <<>>
<1>1. /\ calls[t] # <<>> /\ Head(calls[t]).op = "each" /\ Then(t, more)
      /\ UNCHANGED <<peer, asked, inbound, recv, sendQ, queue, home, jobs, routes, closed>>
  BY DEF ForEachWorker, At, netVars, ioVars, connVars, cmdVars
<1>2. PICK s \in Scenes : Head(calls[t]) \in {JobLoop(s), SceneLoop(s), CleanupLoop}
  BY <1>1, FirstCall DEF TagInv, HandInv, OwnInv
<1> DEFINE sends == {Send("scene", s), Send("cleanup", None)}
<1>3. \/ more = <<>>
      \/ Head(calls[t]) = JobLoop(s) /\ more = NextJob(s)
      \/ \E c \in sends : more = <<c>>
  BY <1>2 DEF JobLoop, SceneLoop, CleanupLoop, Each
<1> HIDE DEF more
<1>4. \A c \in sends :
          /\ c \in AllCalls /\ c.op \notin {"free", "each"}
          /\ \A k \in JobCalls : \A r : c # JobCall(k, r)
  <2>1. \A c \in sends : c.op = "send" /\ c.kind # "job" /\ c \in AllCalls
    BY DEF Send, AllCalls, PlainCalls, SendCalls
  <2>2. \A r : Send("job", r).kind = "job"
    BY DEF Send
  <2> HIDE DEF sends
  <2> QED
    BY <2>1, <2>2, JobCallsDiffer DEF JobCalls
<1> HIDE DEF sends
<1>5. NextJob(s) \in Seq(AllCalls)
  BY DEF NextJob, CallFor, Send, AllCalls, PlainCalls, SendCalls
<1>6. \A i \in 1 .. 4 : NextJob(s)[i].op # "free"
  <2>1. \A i \in 1 .. 4 : i = 1 \/ i = 2 \/ i = 3 \/ i = 4
    OBVIOUS
  <2> QED
    BY <2>1, NextJobFacts, JobCallsDiffer
<1>7. CASE more = <<>>
  <2>1. more \in Seq(AllCalls) /\ Len(more) = 0
    BY <1>7
  <2>2. \A p \in Places : \A g \in Labels : Travels(p, g)' => Travels(p, g)
    BY <1>1 DEF Travels
  <2>3. /\ \A k \in JobCalls : \A i \in 1 .. Len(more) : \A r :
               more[i] # JobCall(k, r) /\ more[i].op # "each"
        /\ \A i \in 1 .. Len(more) : more[i].op # "free"
    BY <2>1
  <2> QED
    BY <1>1, <2>1, <2>2, <2>3, ExpandKeepsTags
<1>8. CASE Head(calls[t]) = JobLoop(s) /\ more = NextJob(s)
  <2>1. \A i \in 1 .. Len(more) : more[i].op # "free"
    BY <1>6, <1>8, NextJobFacts
  <2> QED
    BY <1>1, <1>5, <1>8, <2>1, ExpandKeepsTags DEF Travels
<1>9. ASSUME NEW c \in sends, more = <<c>> PROVE TagInv'
  <2>1. more \in Seq(AllCalls) /\ Len(more) = 1 /\ more[1] = c
    BY <1>4, <1>9
  <2>2. /\ \A k \in JobCalls : \A i \in 1 .. Len(more) : \A r :
               more[i] # JobCall(k, r) /\ more[i].op # "each"
        /\ \A i \in 1 .. Len(more) : more[i].op # "free"
    BY <1>4, <2>1
  <2> QED
    BY <1>1, <2>1, <2>2, ExpandKeepsTags DEF Travels
<1> QED
  BY <1>3, <1>7, <1>8, <1>9

\* A step that neither makes a call nor moves a tag.
LEMMA QuietStepKeepsTags ==
    ASSUME TypeInv, TagInv, WireInv',
           UNCHANGED <<peer, asked, inbound, recv, sendQ, queue, calls, home, jobs, routes, closed>>
    PROVE  TagInv'
<1>1. HandInv /\ AloneInv /\ FreshInv /\ RouteInv
  BY DEF TagInv
<1>2. \A u \in Threads : \A i \in Nat : \A s \in Scenes :
          Requested(u, i, s)' => Requested(u, i, s)
  BY DEF Requested
<1>3. HandInv'
  BY <1>1, <1>2, IdleCallsKeepHands
<1>4. \A g \in Labels : Answered(g)' => Answered(g)
  BY AnsweredUnchanged
<1>5. AloneInv' /\ \A g \in Labels : InUse(g)' => InUse(g)
  BY <1>1, <1>4, TagsStay
<1>6. FreshInv'
  BY <1>1, <1>5, IdleCallsKeepFresh
<1>7. \A p, g : Travels(p, g)' => Travels(p, g)
  BY DEF Travels
<1>8. TagsRouted' /\ JobsRouted' /\ AnswersFindTheirCommand'
  BY <1>1, <1>7, TagsStayRouted, IdleCallsStayRouted, QueuesStay DEF RouteInv
<1> QED
  BY <1>1, <1>3, <1>5, <1>6, <1>8 DEF TagInv, RouteInv

\* Close goes on with its next step.
LEMMA CloseStepKeepsTags ==
    ASSUME TypeInv, TagInv, WireInv', NEW t \in Threads, calls[t] # <<>>,
           Head(calls[t]).op \in {"close", "shutdown"},
           NEW c \in ClosingCalls, Then(t, <<c>>),
           UNCHANGED <<peer, asked, inbound, recv, queue, home, jobs, routes>>,
           \A p \in Places : \A g \in Labels : Travels(p, g)' => Travels(p, g),
           closed => closed'
    PROVE  TagInv'
<1>1. <<c>> \in Seq(AllCalls) /\ Len(<<c>>) = 1 /\ <<c>>[1] = c
  BY DEF AllCalls
<1>2. /\ c.op \notin {"free", "each"}
      /\ \A k \in JobCalls : \A s : c # JobCall(k, s)
  BY JobCallsDiffer DEF JobCalls, ClosingCalls
<1>3. /\ \A k \in JobCalls : \A i \in 1 .. Len(<<c>>) : \A s :
             <<c>>[i] # JobCall(k, s) /\ <<c>>[i].op # "each"
      /\ \A i \in 1 .. Len(<<c>>) : <<c>>[i].op # "free"
  BY <1>1, <1>2
<1> QED
  BY <1>1, <1>3, ExpandKeepsTags

LEMMA LockKeepsTags ==
    ASSUME TypeInv, TagInv, WireInv', NEW t \in Threads, Lock(t)
    PROVE  TagInv'
<1>1. UNCHANGED <<peer, asked, inbound, recv, sendQ, queue, home, jobs, routes>>
  BY DEF Lock, netVars, ioVars, cmdVars
<1>2. CASE At(t, "close")
  <2>1. /\ calls[t] # <<>> /\ Head(calls[t]).op = "close"
        /\ Then(t, <<Call("shutdown")>>) /\ closed'
    BY <1>2 DEF Lock, At
  <2>2. Call("shutdown") \in ClosingCalls
    BY DEF Call, ClosingCalls
  <2> QED
    BY <1>1, <2>1, <2>2, CloseStepKeepsTags DEF Travels
<1>3. CASE ~At(t, "close")
  <2>1. UNCHANGED <<closed, calls>>
    BY <1>3 DEF Lock
  <2> QED
    BY <1>1, <2>1, QuietStepKeepsTags
<1> QED
  BY <1>2, <1>3

LEMMA ShutdownKeepsTags ==
    ASSUME TypeInv, TagInv, WireInv', NEW t \in Threads, CloseShutsDown(t)
    PROVE  TagInv'
<1> DEFINE c == [op |-> "clear", known |-> saved]
           m == [kind |-> "shutdown"]
<1>1. /\ calls[t] # <<>> /\ Head(calls[t]).op = "shutdown" /\ Then(t, <<c>>)
      /\ sendQ' = Append(sendQ, m)
      /\ UNCHANGED <<peer, asked, inbound, recv, queue, home, jobs, routes, closed>>
  BY DEF CloseShutsDown, At, netVars, ioVars, cmdVars
<1>2. c \in ClosingCalls /\ m \in Packets /\ \A g : m # [kind |-> "job", tag |-> g]
  BY DEF ClosingCalls, Packets, TypeInv
<1> HIDE DEF c, m
<1>3. \A p \in Places : \A g \in Labels : Travels(p, g)' => Travels(p, g)
  BY <1>1, <1>2, PacketIsPut
<1> QED
  BY <1>1, <1>2, <1>3, CloseStepKeepsTags

LEMMA HeadIsKnown ==
    ASSUME TypeInv, NEW t \in Threads, At(t, "clear")
    PROVE  Head(calls[t]).known \in BOOLEAN
<1>1. Head(calls[t]) \in AllCalls /\ Head(calls[t]).op = "clear"
  BY FirstCall DEF At
<1> QED
  BY <1>1 DEF AllCalls, PlainCalls, SendCalls, Loops, ClosingCalls

\* When Close tells the commands, nothing of the worker is on its way any more.
LEMMA CloseKeepsTags ==
    ASSUME TypeInv, EndInv, TagInv, WireInv', NEW t \in Threads, CloseNotifies(t)
    PROVE  TagInv'
<1>1. HandInv /\ AloneInv /\ FreshInv /\ RouteInv
  BY DEF TagInv
<1>2. UNCHANGED <<peer, asked, inbound, recv, sendQ, calls, home, jobs, closed>>
  BY DEF CloseNotifies, netVars, ioVars, cmdVars
<1>3. closed /\ inbound = <<>> /\ asked = {}
  <2>1. calls[t] # <<>> /\ Head(calls[t]).op = "clear"
    BY DEF CloseNotifies, At
  <2>2. Called({"shutdown", "clear"}, t, 1) /\ 1 \in Nat
    BY <2>1, FirstCall DEF Called
  <2>3. closed
    BY <2>2 DEF EndInv, EndInCalls
  <2>4. peer = "down" /\ inbound = <<>>
    BY <2>3 DEF EndInv, EndOfWire
  <2> QED
    BY <1>1, <2>3, <2>4 DEF RouteInv
<1>4. PICK g0 \in routes : Put(home[g0[1]], Lost(g0[1], Head(calls[t]).known))
  BY DEF CloseNotifies
<1> DEFINE m == Lost(g0[1], Head(calls[t]).known)
<1>5. /\ m \in Messages /\ m.kind \notin {"request", "answer"}
      /\ home[g0[1]] \in Threads \cup {None}
  <2>1. Head(calls[t]).known \in BOOLEAN
    BY HeadIsKnown DEF CloseNotifies
  <2> QED
    BY <2>1 DEF Lost, Messages, TypeInv, Labels
<1>6. HandInv'
  <2>1. \A u \in Threads : \A i \in Nat : \A s \in Scenes :
            Requested(u, i, s)' => Requested(u, i, s)
    BY <1>4, <1>5, PutKeepsRequests
  <2> QED
    BY <1>1, <1>2, <2>1, IdleCallsKeepHands
<1>7. AloneInv' /\ \A g \in Labels : InUse(g)' => InUse(g)
  <2>1. \A u \in Threads : \A i \in DOMAIN calls'[u] :
            calls'[u][i].op = "free" => \E j \in DOMAIN calls[u] : calls[u][j] = calls'[u][i]
    BY <1>2
  <2>2. \A g \in Labels : Answered(g)' => Answered(g) \/ m = Answer(g)
    BY <1>4, <1>5, <2>1, PutKeepsAnswered
  <2>3. \A g : m # Answer(g)
    <3>1. \A g : m.kind # Answer(g).kind
      BY DEF Lost, Answer
    <3> QED
      BY <3>1
  <2> QED
    BY <1>1, <1>2, <2>2, <2>3, TagsStay
<1>8. FreshInv'
  BY <1>1, <1>2, <1>7, IdleCallsKeepFresh
<1>9. RouteInv'
  <2>1. JobsRouted'
    BY <1>2, <1>3 DEF JobsRouted
  <2>2. \A p \in Places : \A g : Travels(p, g)' => p[1] \in {"sent", "read"}
    BY <1>2, <1>3, PlaceFacts DEF Travels
  <2>3. TagsRouted'
    BY <1>2, <1>3, <2>2 DEF TagsRouted
  <2>4. AnswersFindTheirCommand'
    BY <1>1, <1>2, <1>4, <1>5, PutFinds DEF RouteInv
  <2> QED
    BY <1>1, <1>2, <2>1, <2>3, <2>4 DEF RouteInv
<1> QED
  BY <1>6, <1>7, <1>8, <1>9 DEF TagInv

LEMMA TakeKeepsTags ==
    ASSUME TypeInv, TagInv, WireInv', NEW t \in Threads, ThreadTakes(t)
    PROVE  TagInv'
<1>1. /\ HandInv /\ AloneInv /\ FreshInv /\ RouteInv /\ AnswersFindTheirCommand
      /\ OwnInv /\ StepInv /\ RoomInv /\ RequestInv
  BY DEF TagInv, HandInv, RouteInv
<1>2. UNCHANGED <<peer, asked, inbound, recv, sendQ, home, jobs, routes, closed>>
  BY DEF ThreadTakes, netVars, ioVars, connVars, cmdVars
<1>3. HandInv'
  BY <1>1, TakeKeepsHands, TakeKeepsRequests DEF HandInv
<1>4. AloneInv' /\ \A g \in Labels : InUse(g)' => InUse(g)
  BY <1>1, <1>2, TakeKeepsAnswered, TagsStay
<1>5. \A k \in {"register", "track", "job"} : \A u \in Threads : \A s \in Scenes :
          Does(k, u, 1, s)' => Does(k, u, 1, s)
  BY <1>1, TakeBegins
<1>6. FreshInv'
  BY <1>1, <1>2, <1>4, <1>5, FreshStays
<1>7. RouteInv'
  <2>1. JobsRouted'
    BY <1>1, <1>2, <1>5, JobsStayRouted DEF RouteInv, Begun
  <2>2. \A p, g : Travels(p, g)' => Travels(p, g)
    BY <1>2 DEF Travels
  <2>3. TagsRouted'
    BY <1>1, <1>2, <2>2, TagsStayRouted DEF RouteInv
  <2>4. AnswersFindTheirCommand'
    BY <1>1, TakeFinds
  <2> QED
    BY <1>1, <1>2, <2>1, <2>3, <2>4 DEF RouteInv
<1> QED
  BY <1>3, <1>4, <1>6, <1>7 DEF TagInv

LEMMA OtherAnswerKeepsTags ==
    ASSUME TypeInv, TagInv, WireInv', NEW t \in Threads, OtherAnswerFinishes(t)
    PROVE  TagInv'
<1>1. /\ HandInv /\ AloneInv /\ FreshInv /\ RouteInv
      /\ OwnInv /\ StepInv /\ RoomInv /\ RequestInv
  BY DEF TagInv, HandInv
<1>2. /\ calls[t] = <<>> /\ \E s \in Scenes : Starts(t, FinishCalls(s))
      /\ UNCHANGED <<peer, asked, inbound, recv, sendQ, queue, home, jobs, routes, closed>>
  BY DEF OtherAnswerFinishes, netVars, ioVars, connVars
<1>3. PICK s0 \in Scenes : \A u \in Threads :
          calls'[u] = IF u = t THEN FinishCalls(s0) ELSE calls[u]
  BY <1>2 DEF Starts, TypeInv
<1>4. /\ MakesNoJob(FinishCalls(s0)) /\ DOMAIN FinishCalls(s0) = 1 .. 2
      /\ FinishCalls(s0)[1] = CleanupLoop /\ FinishCalls(s0)[2].op = "finish"
      /\ \A i \in DOMAIN FinishCalls(s0) : FinishCalls(s0)[i].op # "free"
  <2>1. CallFor("finish", s0).op = "finish"
    BY DEF CallFor
  <2> QED
    BY <2>1, FinishHandler
<1>5. \A k \in JobCalls : \A u \in Threads : \A i \in Nat : \A s \in Scenes :
          Does(k, u, i, s)' => u # t /\ Does(k, u, i, s)
  BY <1>3, <1>4 DEF Does, MakesNoJob
<1>6. \A k \in JobCalls : \A u \in Threads : \A i \in Nat : \A s \in Scenes :
          u # t => (Does(k, u, i, s) <=> Does(k, u, i, s)')
  BY <1>3 DEF Does
<1>7. OwnInv'
  <2>1. ASSUME NEW u \in Threads, NEW i \in DOMAIN calls'[u], calls'[u][i].op = "each"
        PROVE  \E s \in Scenes : calls'[u][i] \in {JobLoop(s), SceneLoop(s), CleanupLoop}
    <3>1. CASE u = t
      BY <1>3, <1>4, <2>1, <3>1
    <3>2. CASE u # t
      BY <1>1, <1>3, <2>1, <3>2 DEF OwnInv
    <3> QED
      BY <3>1, <3>2
  <2> QED
    BY <1>1, <1>2, <1>5, <2>1 DEF OwnInv
<1>8. StepInv'
  <2>1. \A u \in Threads : calls[u] \in Seq(AllCalls)
    BY DEF TypeInv
  <2>2. \A k \in JobCalls : \A u \in Threads : \A i \in Nat : \A s : Does(k, u, i, s) => i # 0
    BY <2>1 DEF Does
  <2> QED
    BY <1>1, <1>2, <1>3, <1>5, <1>6, <2>2 DEF StepInv, JobCalls
<1>9. RoomInv'
  BY <1>1, <1>2, <1>3, <1>5 DEF RoomInv, JobCalls
<1>10. RequestInv'
  <2>1. \A s \in Scenes : Idle(s) => Idle(s)'
    BY <1>5 DEF Idle
  <2>2. \A u \in Threads : \A i \in Nat : \A s \in Scenes :
            Requested(u, i, s)' <=> Requested(u, i, s)
    BY <1>2 DEF Requested
  <2> QED
    BY <1>1, <1>2, <2>1, <2>2 DEF RequestInv
<1>11. AloneInv' /\ \A g \in Labels : InUse(g)' => InUse(g)
  <2>1. \A u \in Threads : \A i \in DOMAIN calls'[u] :
            calls'[u][i].op = "free" => i \in DOMAIN calls[u] /\ calls[u][i] = calls'[u][i]
    BY <1>3, <1>4
  <2>2. \A g : [op |-> "free", tag |-> g].op = "free"
    OBVIOUS
  <2>3. \A g \in Labels : Answered(g)' => Answered(g)
    BY <1>2, <2>1, <2>2 DEF Answered
  <2> QED
    BY <1>1, <1>2, <2>3, TagsStay
<1>12. FreshInv'
  BY <1>1, <1>2, <1>5, <1>11, FreshStays DEF JobCalls
<1>13. RouteInv'
  <2>1. \A u \in Threads : \A s \in Scenes : Begun(u, s)' => Begun(u, s)
    BY <1>5 DEF Begun, JobCalls
  <2>2. JobsRouted'
    BY <1>1, <1>2, <2>1, JobsStayRouted DEF RouteInv
  <2>3. \A p, g : Travels(p, g)' => Travels(p, g)
    BY <1>2 DEF Travels
  <2>4. TagsRouted'
    BY <1>1, <1>2, <2>3, TagsStayRouted DEF RouteInv
  <2>5. AnswersFindTheirCommand'
    BY <1>1, <1>2, QueuesStay DEF RouteInv
  <2> QED
    BY <1>1, <1>2, <2>2, <2>4, <2>5 DEF RouteInv
<1> QED
  BY <1>7, <1>8, <1>9, <1>10, <1>11, <1>12, <1>13 DEF TagInv, HandInv

LEMMA AskingKeepsTags ==
    ASSUME TypeInv, TagInv, WireInv', NEW s \in Scenes, ClientAsks(s)
    PROVE  TagInv'
<1>1. HandInv /\ AloneInv /\ FreshInv /\ RouteInv
  BY DEF TagInv
<1>2. UNCHANGED <<peer, asked, inbound, recv, sendQ, calls, jobs, routes, closed>>
  BY DEF ClientAsks, netVars, ioVars, connVars
<1>3. PICK t \in Threads : Put(t, Request(s))
  BY DEF ClientAsks
<1>4. AloneInv' /\ \A g \in Labels : InUse(g)' => InUse(g)
  <2>1. Request(s) \in Messages /\ \A g : Request(s) # Answer(g)
    <3>1. \A g : Request(s).kind # Answer(g).kind
      BY DEF Request, Answer
    <3> QED
      BY <3>1 DEF Request, Messages
  <2>2. \A u \in Threads : \A i \in DOMAIN calls'[u] :
            calls'[u][i].op = "free" => \E j \in DOMAIN calls[u] : calls[u][j] = calls'[u][i]
    BY <1>2
  <2>3. \A g \in Labels : Answered(g)' => Answered(g) \/ Request(s) = Answer(g)
    BY <1>3, <2>1, <2>2, PutKeepsAnswered
  <2> QED
    BY <1>1, <1>2, <2>1, <2>3, TagsStay
<1>5. FreshInv'
  BY <1>1, <1>2, <1>4, IdleCallsKeepFresh
<1>6. RouteInv'
  <2>1. \A p, g : Travels(p, g)' => Travels(p, g)
    BY <1>2 DEF Travels
  <2>2. TagsRouted' /\ JobsRouted'
    BY <1>1, <1>2, <2>1, TagsStayRouted, IdleCallsStayRouted DEF RouteInv
  <2>3. AnswersFindTheirCommand'
    BY <1>1, AskingFinds DEF RouteInv, HandInv
  <2> QED
    BY <1>1, <1>2, <2>2, <2>3 DEF RouteInv
<1>7. HandInv'
  BY <1>1, AskingKeepsHands
<1> QED
  BY <1>4, <1>5, <1>6, <1>7 DEF TagInv

LEMMA TagInit == Init => TagInv
<1> SUFFICES ASSUME Init PROVE TagInv
  OBVIOUS
<1>1. \A t \in Threads : queue[t] = <<>> /\ calls[t] = <<>>
  BY DEF Init
<1>2. \A t \in Threads : DOMAIN queue[t] = {} /\ DOMAIN calls[t] = {}
  BY <1>1
<1>3. \A k, i, s : \A t \in Threads : ~Does(k, t, i, s)
  BY <1>2 DEF Does
<1>4. OwnInv /\ StepInv /\ RoomInv
  BY <1>2, <1>3 DEF OwnInv, StepInv, RoomInv, JobCalls
<1>5. RequestInv
  BY <1>2 DEF RequestInv, Requested, Init
<1>6. DOMAIN sendQ = {} /\ DOMAIN inbound = {} /\ recv = <<>> /\ asked = {}
  BY DEF Init
<1>7. /\ \A p, g : ~Travels(p, g)
      /\ \A g : ~InUse(g)
  BY <1>2, <1>6 DEF Travels, InUse, Answered
<1>8. AloneInv /\ FreshInv
  BY <1>7 DEF AloneInv, FreshInv
<1>9. RouteInv
  BY <1>2, <1>3, <1>6, <1>7 DEF RouteInv, JobsRouted, Begun, TagsRouted,
                                  AnswersFindTheirCommand
<1>10. WireInv
  BY <1>6 DEF WireInv, Carried
<1> QED
  BY <1>4, <1>5, <1>8, <1>9, <1>10 DEF TagInv, HandInv

LEMMA TagStep == TypeInv /\ EndInv /\ TagInv /\ [Next]_vars => TagInv'
<1> SUFFICES ASSUME TypeInv, EndInv, TagInv, [Next]_vars PROVE TagInv'
  OBVIOUS
<1>1. WireInv'
  BY WireStep DEF TagInv
<1>2. CASE UNCHANGED vars
  BY <1>1, <1>2, QuietStepKeepsTags
     DEF vars, netVars, ioVars, connVars, poolVars, cmdVars
<1>3. CASE ServerAccepts \/ Receiver \/ Sender \/ WorkerAnswers \/ WorkerDies
  BY <1>1, <1>3, TransportKeepsTags DEF Receiver, Sender
<1>4. ASSUME NEW t \in Threads, Thread(t) PROVE TagInv'
  <2>1. CASE ThreadTakes(t)
    BY <1>1, <2>1, TakeKeepsTags
  <2>2. CASE ForEachWorker(t)
    BY <1>1, <2>2, LoopKeepsTags
  <2>3. CASE AllocateAppTag(t)
    BY <1>1, <2>3, AllocateKeepsTags
  <2>4. CASE RegisterNotification(t)
    BY <1>1, <2>4, RegisterKeepsTags
  <2>5. CASE FreeAppTag(t)
    BY <1>1, <2>5, FreeKeepsTags
  <2>6. CASE Lock(t)
    BY <1>1, <2>6, LockKeepsTags
  <2>7. CASE SendMsg(t) /\ Head(calls[t]).kind = "job"
    BY <1>1, <2>7, SendJobKeepsTags
  <2>8. CASE CloseNotifies(t)
    BY <1>1, <2>8, CloseKeepsTags
  <2>9. CASE CloseShutsDown(t)
    BY <1>1, <2>9, ShutdownKeepsTags
  <2>10. CASE \/ SaveConnection(t) \/ AddWorker(t) \/ NotifyHostFailure(t)
              \/ TrackJob(t) \/ FinishScene(t)
              \/ SendMsg(t) /\ Head(calls[t]).kind # "job"
              \/ SendMsgClosed(t) \/ CloseReturns(t)
    BY <1>1, <2>10, OtherCallsKeepTags
  <2> QED
    BY <1>4, <2>1, <2>2, <2>3, <2>4, <2>5, <2>6, <2>7, <2>8, <2>9, <2>10 DEF Thread
<1>5. ASSUME NEW t \in Threads, OtherAnswerFinishes(t) PROVE TagInv'
  BY <1>1, <1>5, OtherAnswerKeepsTags
<1>6. ASSUME NEW s \in Scenes, ClientAsks(s) PROVE TagInv'
  BY <1>1, <1>6, AskingKeepsTags
<1> QED
  BY <1>2, <1>3, <1>4, <1>5, <1>6 DEF Next

(***************************************************************************)
(* Every answer is queued for the thread that has the command of its       *)
(* scene.  A tag is in one place at a time between the send queue and the  *)
(* handler of its answer (AloneInv), and a new tag is in none (FreshInv),  *)
(* because one thread makes the jobs of a scene, one after the other       *)
(* (HandInv); so FreeAppTag takes no route that an answer still needs, and *)
(* Close does so when the worker's end of the connection is empty.         *)
(***************************************************************************)
THEOREM AnswersAreRouted == Spec => []AnswersFindTheirCommand
<1>1. Init => TypeInv /\ EndInv /\ TagInv
  BY TypeInit, EndInit, TagInit
<1>2. TypeInv /\ EndInv /\ TagInv /\ [Next]_vars => TypeInv' /\ EndInv' /\ TagInv'
  BY TypeStep, EndStep, TagStep
<1>3. TagInv => AnswersFindTheirCommand
  BY DEF TagInv, RouteInv
<1>4. QED  BY <1>1, <1>2, <1>3, PTL DEF Spec

-----------------------------------------------------------------------------
(* The bounds of the queues and of the tags.                               *)

LEMMA PutKeepsRoom ==
    ASSUME TypeInv, \A u \in Threads : Len(queue[u]) <= QDepth,
           NEW t \in Threads \cup {None}, NEW m \in Messages, Put(t, m), HasRoom(t)
    PROVE  \A u \in Threads : Len(queue'[u]) <= QDepth
<1> SUFFICES ASSUME NEW u \in Threads PROVE Len(queue'[u]) <= QDepth
  OBVIOUS
<1>1. Len(queue'[u]) = IF u = t THEN Len(queue[u]) + 1 ELSE Len(queue[u])
  BY PutContents
<1>2. Len(queue[u]) \in Nat /\ QDepth \in Nat
  BY MasterAssumption DEF TypeInv
<1>3. u = t => Len(queue[u]) < QDepth
  BY DEF HasRoom
<1> QED
  BY <1>1, <1>2, <1>3

LEMMA QueuesKeepRoom ==
    ASSUME TypeInv, SizeInv, [Next]_vars
    PROVE  \A u \in Threads : Len(queue'[u]) <= QDepth
<1>1. \A u \in Threads : Len(queue[u]) <= QDepth
  BY DEF SizeInv
<1>2. \/ UNCHANGED queue
      \/ ReceiverNotifies \/ SenderNotifies
      \/ \E t \in Threads : ThreadTakes(t) \/ SendMsgClosed(t) \/ CloseNotifies(t)
      \/ \E s \in Scenes : ClientAsks(s)
  BY DEF Next, vars, poolVars, ServerAccepts, Receiver, ReceiverReads, ReceiverFails, Sender,
         SenderTakes, Thread, ForEachWorker, SaveConnection, AddWorker, NotifyHostFailure,
         AllocateAppTag, RegisterNotification, TrackJob, FreeAppTag, FinishScene, Lock,
         SendMsg, CloseShutsDown, CloseReturns, OtherAnswerFinishes, WorkerAnswers, WorkerDies
<1>3. CASE UNCHANGED queue
  BY <1>1, <1>3
<1>4. CASE ReceiverNotifies
  <2>1. /\ recv[1] \in Messages /\ recv[2] \in Threads \cup {None}
        /\ Put(recv[2], recv[1]) /\ HasRoom(recv[2])
    BY <1>4 DEF ReceiverNotifies, TypeInv
  <2> QED
    BY <1>1, <2>1, PutKeepsRoom
<1>5. CASE SenderNotifies
  <2>1. /\ Status \in Messages /\ home[sender] \in Threads \cup {None}
        /\ Put(home[sender], Status) /\ HasRoom(home[sender])
    BY <1>5 DEF SenderNotifies, TypeInv, Status, Messages
  <2> QED
    BY <1>1, <2>1, PutKeepsRoom
<1>6. ASSUME NEW t \in Threads, ThreadTakes(t)
      PROVE  \A u \in Threads : Len(queue'[u]) <= QDepth
  <2>1. queue[t] # <<>> /\ queue' = [queue EXCEPT ![t] = Tail(@)]
    BY <1>6 DEF ThreadTakes
  <2>2. \A u \in Threads : Len(queue'[u]) <= Len(queue[u])
    BY <2>1, TakeContents
  <2>3. \A u \in Threads : queue[u] \in Seq(Messages) /\ queue'[u] \in Seq(Messages)
    <3>1. TypeInv'
      BY TypeStep
    <3> QED
      BY <3>1 DEF TypeInv
  <2>4. \A u \in Threads : Len(queue[u]) \in Nat /\ Len(queue'[u]) \in Nat /\ QDepth \in Nat
    BY <2>3, MasterAssumption
  <2> QED
    BY <1>1, <2>2, <2>4
<1>7. ASSUME NEW t \in Threads, SendMsgClosed(t)
      PROVE  \A u \in Threads : Len(queue'[u]) <= QDepth
  <2>1. Head(calls[t]) \in AllCalls /\ Head(calls[t]).op = "send"
    BY <1>7, FirstCall DEF SendMsgClosed, At
  <2>2. Head(calls[t]).kind = "scene" => Head(calls[t]).scene \in Scenes
    BY <2>1 DEF AllCalls, PlainCalls, SendCalls, Loops, ClosingCalls
  <2>3. \A s \in Scenes : Lost(s, saved) \in Messages /\ home[s] \in Threads \cup {None}
    BY DEF Lost, Messages, TypeInv
  <2>4. \/ UNCHANGED queue
        \/ \E s \in Scenes : HasRoom(home[s]) /\ Put(home[s], Lost(s, saved))
    BY <1>7, <2>2 DEF SendMsgClosed
  <2> QED
    BY <1>1, <2>3, <2>4, PutKeepsRoom
<1>8. ASSUME NEW t \in Threads, CloseNotifies(t)
      PROVE  \A u \in Threads : Len(queue'[u]) <= QDepth
  <2> DEFINE known == Head(calls[t]).known
  <2>1. PICK g \in routes : HasRoom(home[g[1]]) /\ Put(home[g[1]], Lost(g[1], known))
    BY <1>8 DEF CloseNotifies
  <2>2. known \in BOOLEAN
    BY <1>8, HeadIsKnown DEF CloseNotifies
  <2>3. Lost(g[1], known) \in Messages /\ home[g[1]] \in Threads \cup {None}
    BY <2>2 DEF Lost, Messages, TypeInv, Labels
  <2> HIDE DEF known
  <2> QED
    BY <1>1, <2>1, <2>3, PutKeepsRoom
<1>9. ASSUME NEW s \in Scenes, ClientAsks(s)
      PROVE  \A u \in Threads : Len(queue'[u]) <= QDepth
  <2>1. PICK t \in Threads : HasRoom(t) /\ Put(t, Request(s))
    BY <1>9 DEF ClientAsks
  <2>2. Request(s) \in Messages
    BY DEF Request, Messages
  <2> QED
    BY <1>1, <2>1, <2>2, PutKeepsRoom
<1> QED
  BY <1>2, <1>3, <1>4, <1>5, <1>6, <1>7, <1>8, <1>9

LEMMA SendQueueKeepsRoom ==
    ASSUME TypeInv, SizeInv, [Next]_vars
    PROVE  Len(sendQ') <= SendDepth
<1>1. /\ sendQ \in Seq(Packets) /\ Len(sendQ) \in Nat
      /\ Len(sendQ) <= SendDepth /\ SendDepth \in Nat
  <2>1. sendQ \in Seq(Packets)
    BY DEF TypeInv
  <2>2. Len(sendQ) <= SendDepth
    BY DEF SizeInv
  <2>3. SendDepth \in Nat
    BY MasterAssumption
  <2> QED
    BY <2>1, <2>2, <2>3
<1>2. \/ UNCHANGED sendQ
      \/ SenderTakes
      \/ \E t \in Threads : SendMsg(t) \/ CloseShutsDown(t)
  BY DEF Next, vars, connVars, ServerAccepts, Receiver, ReceiverReads, ReceiverFails,
         ReceiverNotifies, Sender, SenderNotifies, Thread, ThreadTakes, ForEachWorker,
         SaveConnection, AddWorker, NotifyHostFailure, AllocateAppTag, RegisterNotification,
         TrackJob, FreeAppTag, FinishScene, Lock, SendMsgClosed, CloseNotifies, CloseReturns,
         OtherAnswerFinishes, ClientAsks, WorkerAnswers, WorkerDies
<1>3. CASE UNCHANGED sendQ
  BY <1>1, <1>3
<1>4. CASE SenderTakes
  <2>1. sendQ # <<>> /\ sendQ' = Tail(sendQ)
    BY <1>4 DEF SenderTakes, MessageToSend
  <2>2. Len(sendQ') = Len(sendQ) - 1
    BY <1>1, <2>1
  <2> QED
    BY <1>1, <2>2
<1>5. ASSUME NEW t \in Threads, SendMsg(t) \/ CloseShutsDown(t)
      PROVE  Len(sendQ') <= SendDepth
  <2>1. Len(sendQ) < SendDepth
    BY <1>5 DEF SendMsg, CloseShutsDown, SendRoom
  <2>2. \E c : sendQ' = Append(sendQ, c)
    BY <1>5 DEF SendMsg, CloseShutsDown
  <2>3. Len(sendQ') = Len(sendQ) + 1
    <3>1. PICK c : sendQ' = Append(sendQ, c)
      BY <2>2
    <3>2. sendQ \in Seq(Packets \cup {c}) /\ c \in Packets \cup {c}
      BY <1>1
    <3> QED
      BY <3>1, <3>2
  <2> QED
    BY <1>1, <2>1, <2>3
<1> QED
  BY <1>2, <1>3, <1>4, <1>5

\* A scene makes no more jobs than it has tags.
LEMMA TagsKeepRoom ==
    ASSUME TypeInv, TagInv, SizeInv, [Next]_vars
    PROVE  /\ \A s \in Scenes : jobs'[s] <= MaxJobs
           /\ routes' \subseteq Tags
<1>1. /\ \A s \in Scenes : jobs[s] <= MaxJobs /\ jobs[s] \in Nat
      /\ routes \subseteq Tags /\ MaxJobs \in Nat
  BY MasterAssumption DEF SizeInv, TypeInv
<1>2. CASE UNCHANGED <<jobs, routes>>
  BY <1>1, <1>2
<1>3. ASSUME NEW t \in Threads, AllocateAppTag(t)
      PROVE  (\A s \in Scenes : jobs'[s] <= MaxJobs) /\ routes' \subseteq Tags
  <2> DEFINE s0 == Head(calls[t]).scene
  <2>1. /\ calls[t] # <<>> /\ Head(calls[t]).op = "allocate"
        /\ jobs' = [jobs EXCEPT ![s0] = @ + 1] /\ UNCHANGED routes
    BY <1>3 DEF AllocateAppTag, At, connVars
  <2>2. s0 \in Scenes /\ Head(calls[t]) = CallFor("allocate", s0)
    BY <2>1, HeadCalls
  <2>3. Does("allocate", t, 1, s0)
    BY <2>1, <2>2, FirstCall, JobCallsDiffer DEF JobCalls
  <2> HIDE DEF s0
  <2>4. jobs[s0] < MaxJobs
    BY <2>2, <2>3 DEF TagInv, HandInv, RoomInv
  <2>5. \A s \in Scenes : jobs'[s] = IF s = s0 THEN jobs[s] + 1 ELSE jobs[s]
    BY <2>1, <2>2 DEF TypeInv
  <2> QED
    BY <1>1, <2>1, <2>4, <2>5
<1>4. ASSUME NEW t \in Threads, RegisterNotification(t)
      PROVE  (\A s \in Scenes : jobs'[s] <= MaxJobs) /\ routes' \subseteq Tags
  <2> DEFINE s0 == Head(calls[t]).scene
  <2>1. /\ calls[t] # <<>> /\ Head(calls[t]).op = "register"
        /\ routes' = routes \cup {Newest(s0)} /\ UNCHANGED jobs
    BY <1>4 DEF RegisterNotification, At, cmdVars
  <2>2. s0 \in Scenes /\ Head(calls[t]) = CallFor("register", s0)
    BY <2>1, HeadCalls
  <2>3. Does("register", t, 1, s0)
    BY <2>1, <2>2, FirstCall, JobCallsDiffer DEF JobCalls
  <2> HIDE DEF s0
  <2>4. jobs[s0] >= 1
    BY <2>2, <2>3 DEF TagInv, HandInv, StepInv
  <2>5. Newest(s0) \in Tags
    BY <1>1, <2>2, <2>4 DEF Newest, Tags
  <2> QED
    BY <1>1, <2>1, <2>5
<1>5. ASSUME NEW t \in Threads, FreeAppTag(t) \/ CloseNotifies(t)
      PROVE  (\A s \in Scenes : jobs'[s] <= MaxJobs) /\ routes' \subseteq Tags
  <2>1. routes' \subseteq routes /\ UNCHANGED jobs
    BY <1>5 DEF FreeAppTag, CloseNotifies, cmdVars
  <2> QED
    BY <1>1, <2>1
<1>6. \/ UNCHANGED <<jobs, routes>>
      \/ \E t \in Threads : \/ AllocateAppTag(t) \/ RegisterNotification(t)
                            \/ FreeAppTag(t) \/ CloseNotifies(t)
  BY DEF Next, vars, connVars, cmdVars, ServerAccepts, Receiver, ReceiverReads, ReceiverFails,
         ReceiverNotifies, Sender, SenderTakes, SenderNotifies, Thread, ThreadTakes,
         ForEachWorker, SaveConnection, AddWorker, NotifyHostFailure, TrackJob, FinishScene,
         Lock, SendMsg, SendMsgClosed, CloseShutsDown, CloseReturns, OtherAnswerFinishes,
         ClientAsks, WorkerAnswers, WorkerDies
<1> QED
  BY <1>2, <1>3, <1>4, <1>5, <1>6

\* What the commands and the tracker know.
LEMMA TrackKeepsTypes ==
    ASSUME TypeInv, TagInv, SizeInv, NEW t \in Threads, TrackJob(t)
    PROVE  tracked' \subseteq Tags /\ pending' \in [Scenes -> Int]
<1> DEFINE s0 == Head(calls[t]).scene
<1>1. /\ calls[t] # <<>> /\ Head(calls[t]).op = "track"
      /\ tracked' = tracked \cup {Newest(s0)}
      /\ pending' = [pending EXCEPT ![s0] = @ + 1]
  BY DEF TrackJob, At
<1>2. s0 \in Scenes /\ Head(calls[t]) = CallFor("track", s0)
  BY <1>1, HeadCalls
<1>3. Does("track", t, 1, s0)
  BY <1>1, <1>2, FirstCall, JobCallsDiffer DEF JobCalls
<1> HIDE DEF s0
<1>4. jobs[s0] >= 1
  BY <1>2, <1>3 DEF TagInv, HandInv, StepInv
<1>5. jobs[s0] \in Nat /\ jobs[s0] <= MaxJobs /\ MaxJobs \in Nat
  BY <1>2, MasterAssumption DEF SizeInv, TypeInv
<1>6. Newest(s0) \in Tags
  BY <1>2, <1>4, <1>5 DEF Newest, Tags
<1> QED
  BY <1>1, <1>2, <1>6 DEF SizeInv

LEMMA TakeKeepsCommand ==
    ASSUME TypeInv, SizeInv, NEW t \in Threads, ThreadTakes(t)
    PROVE  /\ tracked' \subseteq tracked
           /\ stage' \in [Scenes -> {"asked", "spreading", "spent", "finished"}]
           /\ pending' \in [Scenes -> Int] /\ counted' = counted
           /\ fault' \in Faults
<1> DEFINE m == Head(queue[t])
<1>1. fault \in Faults /\ {"null manager", "null connection"} \subseteq Faults
  BY DEF SizeInv, Faults
<1>2. counted' = counted
  BY DEF ThreadTakes
<1>3. CASE \/ OnWorkerRegistrationRequest(t, m) \/ OnTCPConnectionException(t, m)
           \/ RemoveFailedJobs(t, m) \/ OnXmitStatus(t, m)
  BY <1>1, <1>2, <1>3 DEF OnWorkerRegistrationRequest, OnTCPConnectionException,
                          RemoveFailedJobs, OnXmitStatus, sceneVars, SizeInv
<1>4. CASE OnSceneProduceRequest(t, m)
  <2>1. stage' = stage \/ \E st \in {"spreading", "spent"} : stage' = [stage EXCEPT ![m.scene] = st]
    BY <1>4 DEF OnSceneProduceRequest
  <2> QED
    BY <1>1, <1>2, <1>4, <2>1 DEF OnSceneProduceRequest, SizeInv
<1>5. CASE OnPixelProduceResponse(t, m)
  <2> DEFINE s == m.tag[1]
  <2>1. \E st \in {"spreading", "spent"} : stage' = [stage EXCEPT ![s] = st]
    BY <1>5 DEF OnPixelProduceResponse
  <2>2. \E p \in {pending[s] - 1, pending[s] - 1 + 1} : pending' = [pending EXCEPT ![s] = p]
    BY <1>5 DEF OnPixelProduceResponse
  <2>3. m \in Messages /\ m.kind = "answer"
    BY <1>5, TakenMessage DEF OnPixelProduceResponse
  <2>4. s \in Scenes
    BY <2>3 DEF Messages, Incoming, Labels
  <2>5. /\ tracked' \subseteq tracked /\ fault' \in Faults
    BY <1>1, <1>5 DEF OnPixelProduceResponse
  <2> HIDE DEF s, m
  <2>6. pending' \in [Scenes -> Int]
    BY <2>2, <2>4 DEF SizeInv
  <2> QED
    BY <1>2, <2>1, <2>5, <2>6 DEF SizeInv
<1> QED
  BY <1>3, <1>4, <1>5 DEF ThreadTakes

LEMMA FlagsKeepTypes ==
    ASSUME TypeInv, TagInv, SizeInv, [Next]_vars
    PROVE  /\ tracked' \subseteq Tags
           /\ stage' \in [Scenes -> {"asked", "spreading", "spent", "finished"}]
           /\ pending' \in [Scenes -> Int] /\ counted' \in Int
           /\ fault' \in Faults
<1>1. /\ tracked \subseteq Tags /\ counted \in Int /\ fault \in Faults
      /\ stage \in [Scenes -> {"asked", "spreading", "spent", "finished"}]
      /\ pending \in [Scenes -> Int]
  BY DEF SizeInv
<1>2. CASE UNCHANGED <<tracked, stage, pending, counted, fault>>
  BY <1>1, <1>2
<1>3. CASE ServerAccepts
  BY <1>1, <1>3 DEF ServerAccepts, trackVars, cmdVars, Faults
<1>4. CASE SenderTakes
  <2>1. SendData \subseteq Faults
    BY DEF SendData, Faults
  <2> QED
    BY <1>1, <1>4, <2>1 DEF SenderTakes, trackVars, cmdVars
<1>5. ASSUME NEW t \in Threads, ThreadTakes(t)
      PROVE  /\ tracked' \subseteq Tags
             /\ stage' \in [Scenes -> {"asked", "spreading", "spent", "finished"}]
             /\ pending' \in [Scenes -> Int] /\ counted' \in Int
             /\ fault' \in Faults
  BY <1>1, <1>5, TakeKeepsCommand
<1>6. ASSUME NEW t \in Threads, AddWorker(t) \/ NotifyHostFailure(t)
      PROVE  UNCHANGED <<tracked, stage, pending, fault>> /\ counted' \in Int
  BY <1>1, <1>6 DEF AddWorker, NotifyHostFailure, cmdVars
<1>7. ASSUME NEW t \in Threads, TrackJob(t)
      PROVE  /\ UNCHANGED <<stage, counted>> /\ fault' \in Faults
             /\ tracked' \subseteq Tags /\ pending' \in [Scenes -> Int]
  BY <1>1, <1>7, TrackKeepsTypes DEF TrackJob, Faults
<1>8. ASSUME NEW t \in Threads, FinishScene(t) \/ OtherAnswerFinishes(t)
      PROVE  /\ UNCHANGED <<tracked, pending, counted, fault>>
             /\ stage' \in [Scenes -> {"asked", "spreading", "spent", "finished"}]
  BY <1>1, <1>8 DEF FinishScene, OtherAnswerFinishes, trackVars
<1>9. ASSUME NEW t \in Threads, ForEachWorker(t)
      PROVE  UNCHANGED <<tracked, stage, pending, counted>> /\ fault' \in Faults
  BY <1>1, <1>9 DEF ForEachWorker, trackVars, cmdVars, Faults
<1>10. \/ UNCHANGED <<tracked, stage, pending, counted, fault>>
       \/ ServerAccepts \/ SenderTakes
       \/ \E t \in Threads : \/ ThreadTakes(t) \/ AddWorker(t) \/ NotifyHostFailure(t)
                             \/ TrackJob(t) \/ FinishScene(t) \/ OtherAnswerFinishes(t)
                             \/ ForEachWorker(t)
  BY DEF Next, vars, trackVars, cmdVars, sceneVars, Receiver, ReceiverReads, ReceiverFails,
         ReceiverNotifies, Sender, SenderNotifies, Thread, SaveConnection,
         AllocateAppTag, RegisterNotification, FreeAppTag, Lock, SendMsg, SendMsgClosed,
         CloseShutsDown, CloseNotifies, CloseReturns, ClientAsks, WorkerAnswers, WorkerDies
<1> QED
  BY <1>1, <1>2, <1>3, <1>4, <1>5, <1>6, <1>7, <1>8, <1>9, <1>10

LEMMA SizeInit == Init => SizeInv
<1> SUFFICES ASSUME Init PROVE SizeInv
  OBVIOUS
<1>1. QDepth \in Nat /\ SendDepth \in Nat /\ MaxJobs \in Nat
  BY MasterAssumption
<1>2. Len(sendQ) = 0 /\ \A t \in Threads : Len(queue[t]) = 0
  <2>1. sendQ = <<>> /\ \A t \in Threads : queue[t] = <<>>
    BY DEF Init
  <2> QED
    BY <2>1
<1>3. \A s \in Scenes : jobs[s] = 0
  BY DEF Init
<1>4. /\ routes \subseteq Tags /\ tracked \subseteq Tags /\ counted \in Int /\ fault \in Faults
      /\ stage \in [Scenes -> {"asked", "spreading", "spent", "finished"}]
      /\ pending \in [Scenes -> Int]
  BY DEF Init, Faults
<1> QED
  BY <1>1, <1>2, <1>3, <1>4 DEF SizeInv

LEMMA SizeStep == TypeInv /\ TagInv /\ SizeInv /\ [Next]_vars => SizeInv'
BY QueuesKeepRoom, SendQueueKeepsRoom, TagsKeepRoom, FlagsKeepTypes DEF SizeInv

LEMMA InvariantsGiveTypes == TypeInv /\ TagInv /\ SizeInv => TypeOK
<1> SUFFICES ASSUME TypeInv, TagInv, SizeInv PROVE TypeOK
  OBVIOUS
<1>1. \A s \in Scenes : jobs[s] \in Nat /\ jobs[s] <= MaxJobs /\ MaxJobs \in Nat
  BY MasterAssumption DEF SizeInv, TypeInv
<1>2. asked \subseteq Tags
  <2> SUFFICES ASSUME NEW g \in asked PROVE g \in Tags
    OBVIOUS
  <2>1. g \in Labels /\ g = <<g[1], g[2]>> /\ g[1] \in Scenes /\ g[2] \in Nat
    BY DEF TypeInv, Labels
  <2>2. Travels(<<"asked", 0>>, g) /\ <<"asked", 0>> \in Places
    BY PlaceFacts
  <2>3. 1 <= g[2] /\ g[2] <= jobs[g[1]]
    BY <2>1, <2>2 DEF TagInv, FreshInv, InUse
  <2>4. g[2] \in 1 .. MaxJobs
    BY <1>1, <2>1, <2>3
  <2> QED
    BY <2>1, <2>4 DEF Tags
<1>3. jobs \in [Scenes -> 0 .. MaxJobs]
  <2>1. \A s \in Scenes : jobs[s] \in 0 .. MaxJobs
    BY <1>1
  <2>2. jobs \in [Scenes -> Nat]
    BY DEF TypeInv
  <2> QED
    BY <2>1, <2>2
<1> QED
  BY <1>2, <1>3 DEF TypeOK, TypeInv, SizeInv, Faults

\* The types of the connection, and the bounds of its queues: SendMsg, Close
\* and the listeners wait for room, and a scene has no more jobs than tags.
THEOREM TypesHold == Spec => []TypeOK
<1>1. Init => TypeInv /\ EndInv /\ TagInv /\ SizeInv
  BY TypeInit, EndInit, TagInit, SizeInit
<1>2. TypeInv /\ EndInv /\ TagInv /\ SizeInv /\ [Next]_vars
          => TypeInv' /\ EndInv' /\ TagInv' /\ SizeInv'
  BY TypeStep, EndStep, TagStep, SizeStep
<1>3. TypeInv /\ TagInv /\ SizeInv => TypeOK
  BY InvariantsGiveTypes
<1>4. QED  BY <1>1, <1>2, <1>3, PTL DEF Spec
=============================================================================
