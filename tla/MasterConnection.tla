-------------------------- MODULE MasterConnection --------------------------
(***************************************************************************)
(* The master's connection to one worker, and the threads that use it:     *)
(* the server thread that accepts it, its receiver and its sender thread,  *)
(* and the pool of scheduler threads.  transport/tcp_io_connection,        *)
(* tcp_io_send_recv, tcp_io_server and transport_mgr together with         *)
(* master/master_scheduler and framework/messaging_framework.              *)
(*                                                                         *)
(* A scheduler thread takes a message from its queue and runs a handler to *)
(* its end.  A handler is the sequence of the calls it makes, of the       *)
(* transport and of the resource tracker.  The calls of the connection     *)
(* take its mutex; SendMsg and Close also sleep with it, until there is    *)
(* room in the send queue or in a thread's queue.                          *)
(*                                                                         *)
(* Other connections appear in what they do to this one.  Messages that    *)
(* are not answers go to any thread of the pool, since m_NextThread counts *)
(* the messages of all connections, without a mutex; clients ask for       *)
(* scenes; other workers take pixels, fail, and give the last answer.  The *)
(* worker has one pipeline, so no request goes out without work, and the   *)
(* tracker has its pipeline's manager as long as the worker is listed.     *)
(***************************************************************************)
EXTENDS Integers, Sequences, FiniteSets, SequencesExt

CONSTANTS
    Threads,   \* num_ray_scheduling_master_threads
    Scenes,    \* bound: the scenes clients ask for
    Rounds,    \* requests of a scene in its kick-off
    MaxJobs,   \* bound: requests of a scene to this worker
    QDepth,    \* scheduling_thread_q_depth
    SendDepth, \* the depth of m_SendQ
    MayCrash,  \* whether the worker may die
    None

ASSUME MasterAssumption ==
    /\ Rounds \in Nat /\ MaxJobs \in Nat /\ Rounds <= MaxJobs
    /\ QDepth \in Nat \ {0} /\ SendDepth \in Nat \ {0}
    /\ MayCrash \in BOOLEAN /\ None \notin Threads \cup Scenes
    /\ {"running", "exited"} \cap Scenes = {}

VARIABLES
    peer,    \* the worker: "connecting", "up", "down"
    inbound, \* bytes of the worker the receiver thread has not read
    asked,   \* requests the worker has not answered
    recv,    \* what the receiver thread puts into a queue: <<message, thread>>
    reading, \* whether the receiver thread runs
    sender,  \* the sender thread: "running", "exited", or a scene to notify
    sendQ,   \* m_SendQ
    routes,  \* the tags in m_ClientRespRoutingMap
    holder,  \* the thread that has m_Mutex of the connection
    closed,  \* m_Closed
    saved,   \* the connection is in TransportMgr::m_Connections
    listed,  \* the worker is in ResourceTracker::m_HostWorkers
    counted, \* how often its pipelines are in m_TotalNumPixelProductionPipelines
    tracked, \* the jobs in m_OutstandingRequestMap, by the tag of their request
    queue,   \* m_RequestQ of every scheduler thread
    calls,   \* the calls its handler has still to make
    home,    \* the thread that has the command of a scene
    jobs,    \* tags a scene has allocated
    stage,   \* a command: "asked", "spreading" pixels, "spent" or "finished"
    pending, \* m_NumPendingCompletionResponse, without what other workers will answer
    fault    \* what the master has died of

netVars == <<peer, inbound, asked>>
ioVars == <<recv, reading, sender>>
connVars == <<sendQ, routes, holder, closed>>
trackVars == <<saved, listed, counted, tracked>>
poolVars == <<queue, calls>>
sceneVars == <<stage, pending>>
cmdVars == <<home, jobs, stage, pending>>

vars == <<netVars, ioVars, connVars, trackVars, poolVars, cmdVars, fault>>

Tags == Scenes \X (1 .. MaxJobs)

Register == [kind |-> "register"]
Exception == [kind |-> "exception"]
Answer(tag) == [kind |-> "answer", tag |-> tag]
Status == [kind |-> "status"]
Request(s) == [kind |-> "request", scene |-> s]

\* A command is told that its connection is gone, by an entry that has the command
\* as long as it has not finished (m_MyLisPtr), and the connection if it was found.
Lost(s, known) ==
    [kind |-> "lost", scene |-> s, known |-> known, cmd |-> stage[s] # "finished"]

TypeOK ==
    /\ peer \in {"connecting", "up", "down"}
    /\ asked \subseteq Tags /\ routes \subseteq Tags /\ tracked \subseteq Tags
    /\ sender \in {"running", "exited"} \cup Scenes
    /\ Len(sendQ) <= SendDepth
    /\ holder \in Threads \cup {None}
    /\ \A t \in Threads : Len(queue[t]) <= QDepth
    /\ home \in [Scenes -> Threads \cup {None}]
    /\ jobs \in [Scenes -> 0 .. MaxJobs]
    /\ stage \in [Scenes -> {"asked", "spreading", "spent", "finished"}]
    /\ pending \in [Scenes -> Int] /\ counted \in Int
    /\ {closed, saved, listed, reading} \subseteq BOOLEAN
    /\ fault \in {"none", "null accepted", "null connection", "null manager", "broken pipe",
                  "foreign descriptor"}

Init ==
    /\ peer = "connecting" /\ inbound = <<>> /\ asked = {}
    /\ recv = <<>> /\ reading = FALSE /\ sender = "exited"
    /\ sendQ = <<>> /\ routes = {} /\ holder = None /\ closed = FALSE
    /\ saved = FALSE /\ listed = FALSE /\ counted = 0 /\ tracked = {}
    /\ queue = [t \in Threads |-> <<>>] /\ calls = [t \in Threads |-> <<>>]
    /\ home = [s \in Scenes |-> None] /\ jobs = [s \in Scenes |-> 0]
    /\ stage = [s \in Scenes |-> "asked"] /\ pending = [s \in Scenes |-> 0]
    /\ fault = "none"

Alive == fault = "none"

HasRoom(t) == Len(queue[t]) < QDepth

Put(t, m) == queue' = [queue EXCEPT ![t] = Append(@, m)]

-----------------------------------------------------------------------------
\* The server thread: a failed accept gives a null connection, which
\* ServiceNewConnection starts all the same.
ServerAccepts ==
    /\ Alive /\ peer = "connecting"
    /\ \/ /\ peer' = "up" /\ inbound' = <<Register>>
          /\ reading' = TRUE /\ sender' = "running"
          /\ UNCHANGED fault
       \/ /\ fault' = "null accepted"
          /\ UNCHANGED <<peer, inbound, reading, sender>>
    /\ UNCHANGED <<asked, recv, connVars, trackVars, poolVars, cmdVars>>

-----------------------------------------------------------------------------
\* The receiver thread.  An answer goes to the command its tag is routed to,
\* any other message to some thread of the pool.
Listeners(m) ==
    IF m.kind = "answer" /\ m.tag \in routes THEN {home[m.tag[1]]} ELSE Threads

ReceiverReads ==
    /\ Alive /\ reading /\ recv = <<>> /\ inbound # <<>>
    /\ \E t \in Listeners(Head(inbound)) : recv' = <<Head(inbound), t>>
    /\ inbound' = Tail(inbound)
    /\ UNCHANGED <<peer, asked, reading, sender, connVars, trackVars, poolVars, cmdVars, fault>>

\* recv fails once everything that came has been read; an error that is seen
\* before that would leave answers behind.
ErrorAtOnce == peer = "down"

EndOfInput == peer = "down" /\ inbound = <<>>

\* HandleException, and the thread comes to its end.
ReceiverFails ==
    /\ Alive /\ reading /\ recv = <<>> /\ EndOfInput
    /\ \E t \in Threads : recv' = <<Exception, t>>
    /\ reading' = FALSE
    /\ UNCHANGED <<netVars, sender, connVars, trackVars, poolVars, cmdVars, fault>>

ReceiverNotifies ==
    /\ Alive /\ recv # <<>> /\ HasRoom(recv[2])
    /\ Put(recv[2], recv[1])
    /\ recv' = <<>>
    /\ UNCHANGED <<netVars, reading, sender, connVars, trackVars, calls, cmdVars, fault>>

-----------------------------------------------------------------------------
(***************************************************************************)
(* The sender thread.  Its copy of the descriptor is not told of the       *)
(* close: afterwards it writes to a descriptor that is invalid or belongs  *)
(* to another connection.  A write to a dead worker is accepted, fails, or *)
(* raises SIGPIPE, which the master does not handle.                       *)
(***************************************************************************)
SendData ==
    IF closed THEN {"none", "foreign descriptor"}
    ELSE IF peer = "down" THEN {"none", "broken pipe"} ELSE {"none"}

\* It takes messages without the connection's mutex: with it, it would wait for
\* a SendMsg that waits for room.
MessageToSendLocked == sendQ # <<>> /\ holder = None

MessageToSend == sendQ # <<>>

SenderTakes ==
    /\ Alive /\ sender = "running" /\ MessageToSend
    /\ sendQ' = Tail(sendQ)
    /\ LET m == Head(sendQ)
       IN  IF m.kind = "shutdown"
           THEN sender' = "exited" /\ UNCHANGED <<asked, fault>>
           ELSE /\ fault' \in SendData
                /\ asked' = IF m.kind = "job" /\ peer = "up" /\ ~closed
                            THEN asked \cup {m.tag} ELSE asked
                /\ sender' = IF m.kind = "scene" THEN m.scene ELSE "running"
    /\ UNCHANGED <<peer, inbound, recv, reading, routes, holder, closed, trackVars, poolVars,
                   cmdVars>>

SenderNotifies ==
    /\ Alive /\ sender \in Scenes /\ HasRoom(home[sender])
    /\ Put(home[sender], Status)
    /\ sender' = "running"
    /\ UNCHANGED <<netVars, recv, reading, connVars, trackVars, calls, cmdVars, fault>>

-----------------------------------------------------------------------------
\* The calls of the handlers.
Call(op) == [op |-> op]
CallFor(op, s) == [op |-> op, scene |-> s]
Send(kind, s) == [op |-> "send", kind |-> kind, scene |-> s]

\* A request is sent when its tag is routed to the command and its job tracked
\* (and before that).
SendThenRegister(s) ==
    <<CallFor("allocate", s), CallFor("track", s), Send("job", s), CallFor("register", s)>>

NextJob(s) ==
    <<CallFor("allocate", s), CallFor("register", s), CallFor("track", s), Send("job", s)>>

Free(tag) == [op |-> "free", tag |-> tag]

\* A loop over the listed workers.
Each(body) == [op |-> "each", body |-> body]

\* OnSceneProduceRequestMsg and KickOffSceneScheduling: the scene, and n rounds of
\* requests (the rounds in which a pixel is left for this worker).
SceneCalls(s, n) == <<Each(<<Send("scene", s)>>)>> \o [i \in 1 .. n |-> Each(NextJob(s))]

FinishCalls(s) == <<Each(<<Send("cleanup", None)>>), CallFor("finish", s)>>

-----------------------------------------------------------------------------
\* A scheduler thread takes a message.  What the handler does before its first call
\* of another component it does here.
Starts(t, more) == calls' = [calls EXCEPT ![t] = more]

OnWorkerRegistrationRequest(t, m) ==
    /\ m.kind = "register"
    /\ Starts(t, <<Call("save"), Send("response", None), Call("add")>>)
    /\ UNCHANGED <<listed, tracked, sceneVars, fault>>

\* The scheduler's own handler, for the exception of the connection and for an entry
\* whose command has finished.
OnTCPConnectionException(t, m) ==
    /\ m.kind = "exception" \/ (m.kind = "lost" /\ ~m.cmd)
    /\ Starts(t, <<Call("note"), Call("close")>>)
    /\ fault' = IF m.kind = "lost" /\ ~m.known THEN "null connection" ELSE fault
    /\ UNCHANGED <<listed, tracked, sceneVars>>

\* The command's handler: RemoveFailedJobs of the host of the connection, which
\* takes it off the list when no other scene has a job there.
RemoveFailedJobs(t, m) ==
    /\ m.kind = "lost" /\ m.cmd
    /\ Starts(t, <<>>)
    /\ tracked' = {tag \in tracked : tag[1] # m.scene}
    /\ listed' = (listed /\ tracked' # {})
    /\ fault' = IF m.known THEN fault ELSE "null connection"
    /\ UNCHANGED sceneVars

OnSceneProduceRequest(t, m) ==
    /\ m.kind = "request"
    /\ \/ /\ listed
          /\ \E n \in 0 .. Rounds : \E st \in {"spreading", "spent"} :
                /\ n = Rounds \/ st = "spent"
                /\ Starts(t, SceneCalls(m.scene, n))
                /\ stage' = [stage EXCEPT ![m.scene] = st]
       \/ ~listed /\ Starts(t, <<>>) /\ UNCHANGED stage
    /\ UNCHANGED <<listed, tracked, pending, fault>>

(***************************************************************************)
(* NotifyJobDone, and then: while pixels are left, the tag is given back   *)
(* and used for the next job.  Afterwards only the answer that finishes    *)
(* the scene gives its tag back; an answer on which another job is sent    *)
(* again, or none, does not.  A job that failed at another worker stays in *)
(* the count of pending answers.                                           *)
(***************************************************************************)
OnPixelProduceResponse(t, m) ==
    /\ m.kind = "answer"
    /\ tracked' = tracked \ {m.tag}
    /\ fault' = IF listed THEN fault ELSE "null manager"
    /\ UNCHANGED listed
    /\ LET s == m.tag[1]
           left == pending[s] - 1
           Goes(st, p) == stage' = [stage EXCEPT ![s] = st] /\ pending' = [pending EXCEPT ![s] = p]
       IN  \/ /\ stage[s] = "spreading" /\ jobs[s] < MaxJobs
              /\ Starts(t, <<Free(m.tag)>> \o NextJob(s))
              /\ Goes("spreading", left) \/ Goes("spent", left) \/ Goes("spreading", left + 1)
           \/ jobs[s] < MaxJobs /\ Starts(t, NextJob(s)) /\ Goes("spent", left + 1)
           \/ left = 0 /\ Starts(t, FinishCalls(s) \o <<Free(m.tag)>>) /\ Goes("spent", left)
           \/ Starts(t, <<>>) /\ Goes("spent", left)

OnXmitStatus(t, m) ==
    m.kind = "status" /\ Starts(t, <<>>) /\ UNCHANGED <<listed, tracked, sceneVars, fault>>

ThreadTakes(t) ==
    /\ Alive /\ calls[t] = <<>> /\ queue[t] # <<>>
    /\ LET m == Head(queue[t])
       IN  \/ OnWorkerRegistrationRequest(t, m) \/ OnTCPConnectionException(t, m)
           \/ RemoveFailedJobs(t, m) \/ OnSceneProduceRequest(t, m)
           \/ OnPixelProduceResponse(t, m) \/ OnXmitStatus(t, m)
    /\ queue' = [queue EXCEPT ![t] = Tail(@)]
    /\ UNCHANGED <<netVars, ioVars, connVars, saved, counted, home, jobs>>

\* The answer that finishes the scene is another worker's.
OtherAnswerFinishes(t) ==
    /\ Alive /\ calls[t] = <<>>
    /\ \E s \in Scenes :
          /\ home[s] = t /\ stage[s] \in {"spreading", "spent"} /\ pending[s] = 0
          /\ Starts(t, FinishCalls(s))
          /\ stage' = [stage EXCEPT ![s] = "spent"]
    /\ UNCHANGED <<netVars, ioVars, connVars, trackVars, queue, home, jobs, pending, fault>>

At(t, op) == Alive /\ calls[t] # <<>> /\ Head(calls[t]).op = op

Then(t, more) == calls' = [calls EXCEPT ![t] = more \o Tail(@)]

Return(t) == Then(t, <<>>)

SaveConnection(t) ==
    /\ At(t, "save")
    /\ saved' = TRUE
    /\ Return(t)
    /\ UNCHANGED <<netVars, ioVars, connVars, listed, counted, tracked, queue, cmdVars, fault>>

AddWorker(t) ==
    /\ At(t, "add")
    /\ listed' = TRUE /\ counted' = counted + 1
    /\ Return(t)
    /\ UNCHANGED <<netVars, ioVars, connVars, saved, tracked, queue, cmdVars, fault>>

NotifyHostFailure(t) ==
    /\ At(t, "note")
    /\ counted' = IF listed THEN counted - 1 ELSE counted
    /\ Return(t)
    /\ UNCHANGED <<netVars, ioVars, connVars, saved, listed, tracked, queue, cmdVars, fault>>

\* One worker of a loop over the list: FindConnection, and what is done with it.
ForEachWorker(t) ==
    /\ At(t, "each")
    /\ Then(t, IF listed THEN Head(calls[t]).body ELSE <<>>)
    /\ fault' = IF listed /\ ~saved THEN "null connection" ELSE fault
    /\ UNCHANGED <<netVars, ioVars, connVars, trackVars, queue, cmdVars>>

AllocateAppTag(t) ==
    /\ At(t, "allocate") /\ holder = None
    /\ jobs' = [jobs EXCEPT ![Head(calls[t]).scene] = @ + 1]
    /\ Return(t)
    /\ UNCHANGED <<netVars, ioVars, connVars, trackVars, queue, home, sceneVars, fault>>

Newest(s) == <<s, jobs[s]>>

RegisterNotification(t) ==
    /\ At(t, "register") /\ holder = None
    /\ routes' = routes \cup {Newest(Head(calls[t]).scene)}
    /\ Return(t)
    /\ UNCHANGED <<netVars, ioVars, sendQ, holder, closed, trackVars, queue, cmdVars, fault>>

\* TrackJob, and the count of pending answers.
TrackJob(t) ==
    /\ At(t, "track")
    /\ LET s == Head(calls[t]).scene
       IN  /\ tracked' = tracked \cup {Newest(s)}
           /\ pending' = [pending EXCEPT ![s] = @ + 1]
    /\ fault' = IF listed THEN fault ELSE "null manager"
    /\ Return(t)
    /\ UNCHANGED <<netVars, ioVars, connVars, saved, listed, counted, queue, home, jobs, stage>>

\* The finished command forgets itself: m_MyLisPtr.
FinishScene(t) ==
    /\ At(t, "finish")
    /\ stage' = [stage EXCEPT ![Head(calls[t]).scene] = "finished"]
    /\ Return(t)
    /\ UNCHANGED <<netVars, ioVars, connVars, trackVars, queue, home, jobs, pending, fault>>

FreeAppTag(t) ==
    /\ At(t, "free") /\ holder = None
    /\ routes' = routes \ {Head(calls[t]).tag}
    /\ Return(t)
    /\ UNCHANGED <<netVars, ioVars, sendQ, holder, closed, trackVars, queue, cmdVars, fault>>

\* SendMsg and Close take the mutex ...
Lock(t) ==
    /\ At(t, "send") \/ At(t, "close")
    /\ holder = None
    /\ holder' = t
    /\ IF At(t, "close")
       THEN closed' = TRUE /\ Then(t, <<Call("shutdown")>>)
       ELSE UNCHANGED <<closed, calls>>
    /\ UNCHANGED <<netVars, ioVars, sendQ, routes, trackVars, queue, cmdVars, fault>>

\* Room in the send queue, and an off-by-one; the test of m_Closed, and none.
SendRoomPast == Len(sendQ) <= SendDepth

SendRoom == Len(sendQ) < SendDepth

AcceptsAlways == TRUE

Accepts == ~closed

\* ... SendMsg puts the message into the send queue, when there is room, ...
SendMsg(t) ==
    /\ At(t, "send") /\ holder = t /\ Accepts /\ SendRoom
    /\ LET c == Head(calls[t])
       IN  sendQ' = Append(sendQ,
               CASE c.kind = "job"   -> [kind |-> "job", tag |-> Newest(c.scene)]
                 [] c.kind = "scene" -> [kind |-> "scene", scene |-> c.scene]
                 [] OTHER            -> [kind |-> c.kind])
    /\ holder' = None
    /\ Return(t)
    /\ UNCHANGED <<netVars, ioVars, routes, closed, trackVars, queue, cmdVars, fault>>

\* ... or, when the connection is closed, drops it; only the sender of a
\* message that has a listener and no tag is told, with what FindConnection
\* gives for the name.
SendMsgClosed(t) ==
    /\ At(t, "send") /\ holder = t /\ ~Accepts
    /\ LET c == Head(calls[t])
       IN  IF c.kind = "scene"
           THEN HasRoom(home[c.scene]) /\ Put(home[c.scene], Lost(c.scene, saved))
           ELSE UNCHANGED queue
    /\ holder' = None
    /\ Return(t)
    /\ UNCHANGED <<netVars, ioVars, sendQ, routes, closed, trackVars, cmdVars, fault>>

\* Close asks the sender to come out, also when it has been asked before, forgets
\* the connection, which it first looks up, ...
CloseShutsDown(t) ==
    /\ At(t, "shutdown") /\ SendRoom
    /\ sendQ' = Append(sendQ, [kind |-> "shutdown"])
    /\ saved' = FALSE
    /\ Then(t, <<[op |-> "clear", known |-> saved]>>)
    /\ UNCHANGED <<netVars, ioVars, routes, holder, closed, listed, counted, tracked, queue,
                   cmdVars, fault>>

\* ... notifies every listener, ...
CloseNotifies(t) ==
    /\ At(t, "clear")
    /\ \E tag \in routes :
          /\ HasRoom(home[tag[1]])
          /\ Put(home[tag[1]], Lost(tag[1], Head(calls[t]).known))
          /\ routes' = routes \ {tag}
    /\ UNCHANGED <<netVars, ioVars, sendQ, holder, closed, trackVars, calls, cmdVars, fault>>

\* ... and returns.
CloseReturns(t) ==
    /\ At(t, "clear") /\ routes = {}
    /\ holder' = None
    /\ Return(t)
    /\ UNCHANGED <<netVars, ioVars, sendQ, routes, closed, trackVars, queue, cmdVars, fault>>

-----------------------------------------------------------------------------
\* A client asks for a scene; some thread gets the request and the command.
ClientAsks(s) ==
    /\ Alive /\ home[s] = None
    /\ \E t \in Threads :
          /\ HasRoom(t) /\ Put(t, Request(s))
          /\ home' = [home EXCEPT ![s] = t]
    /\ UNCHANGED <<netVars, ioVars, connVars, trackVars, calls, jobs, sceneVars, fault>>

WorkerAnswers ==
    /\ peer = "up"
    /\ \E tag \in asked :
          /\ asked' = asked \ {tag}
          /\ inbound' = Append(inbound, Answer(tag))
    /\ UNCHANGED <<peer, ioVars, connVars, trackVars, poolVars, cmdVars, fault>>

\* What the receiver has not read may be lost with the worker.
WorkerDies ==
    /\ MayCrash /\ peer = "up"
    /\ peer' = "down"
    /\ \E n \in 0 .. Len(inbound) : inbound' = SubSeq(inbound, 1, n)
    /\ asked' = {}
    /\ UNCHANGED <<ioVars, connVars, trackVars, poolVars, cmdVars, fault>>

-----------------------------------------------------------------------------
Receiver == ReceiverReads \/ ReceiverFails \/ ReceiverNotifies

Sender == SenderTakes \/ SenderNotifies

Thread(t) ==
    \/ ThreadTakes(t) \/ ForEachWorker(t)
    \/ SaveConnection(t) \/ AddWorker(t) \/ NotifyHostFailure(t)
    \/ AllocateAppTag(t) \/ RegisterNotification(t) \/ TrackJob(t) \/ FreeAppTag(t)
    \/ FinishScene(t)
    \/ Lock(t) \/ SendMsg(t) \/ SendMsgClosed(t)
    \/ CloseShutsDown(t) \/ CloseNotifies(t) \/ CloseReturns(t)

Next ==
    \/ ServerAccepts \/ Receiver \/ Sender
    \/ \E t \in Threads : Thread(t) \/ OtherAnswerFinishes(t)
    \/ \E s \in Scenes : ClientAsks(s)
    \/ WorkerAnswers \/ WorkerDies

(***************************************************************************)
(* Threads are scheduled fairly, and a scheduler thread that waits for the *)
(* mutex or for room gets it when it is free for good.  Nothing is assumed *)
(* of the worker and the clients.                                          *)
(***************************************************************************)
Spec ==
    /\ Init /\ [][Next]_vars
    /\ WF_vars(Receiver) /\ WF_vars(Sender)
    /\ \A t \in Threads : WF_vars(Thread(t))

-----------------------------------------------------------------------------
(***************************************************************************)
(* A command sees every answer of the connection before it is told that    *)
(* the connection is gone: the receiver has put the last answer into the   *)
(* command's queue before the exception starts on its way through another  *)
(* thread's queue.  The dynamic scheduler's bookkeeping rests on this.     *)
(***************************************************************************)
IsAnswerOf(m, s) == m.kind = "answer" /\ m.tag[1] = s

AnswersBeforeException ==
    \A t \in Threads : \A i \in DOMAIN queue[t] :
        queue[t][i].kind = "lost" =>
            LET s == queue[t][i].scene
            IN  /\ \A j \in i .. Len(queue[t]) : ~IsAnswerOf(queue[t][j], s)
                /\ \A m \in Range(inbound) \cup (IF recv = <<>> THEN {} ELSE {recv[1]}) :
                       ~IsAnswerOf(m, s)

(***************************************************************************)
(* Every answer goes to the thread that has the command of its scene: its  *)
(* tag is routed from before the request is sent until the answer has been *)
(* handled, and Close takes the route away only when the receiver has read *)
(* everything.  Another thread would not know the message and drop it: the *)
(* job would never be done.                                                *)
(***************************************************************************)
AnswersFindTheirCommand ==
    /\ \A t \in Threads : \A i \in DOMAIN queue[t] :
           queue[t][i].kind = "answer" => home[queue[t][i].tag[1]] = t
    /\ recv # <<>> /\ recv[1].kind = "answer" => home[recv[1].tag[1]] = recv[2]

(***************************************************************************)
(* What SendMsg accepts is sent: behind a shutdown message there is        *)
(* nothing but those of other calls of Close, and nothing else is left     *)
(* when the sender has come to its end (m_Closed is tested and the message *)
(* put under one lock).                                                    *)
(***************************************************************************)
SenderLeavesNothing ==
    \A i \in DOMAIN sendQ :
        (sender = "exited" \/ \E j \in 1 .. i : sendQ[j].kind = "shutdown")
            => sendQ[i].kind = "shutdown"

(***************************************************************************)
(* No threads wait for each other: as long as a handler has a call to      *)
(* make, or the receiver or the sender thread something for a queue, one   *)
(* of the threads can go on.  SendMsg and Close sleep with the mutex on    *)
(* the send queue and on the queues of threads, which sleep on the mutex.  *)
(* Handlers are finite, and so is what is asked of them, so that one that  *)
(* never returns would lead to a state in which nobody can go on.          *)
(*                                                                         *)
(* Excepted is a Close that waits for room in the queue of a sender that   *)
(* is gone.  The threads' queues must have room for what answers and Close *)
(* may put into one while its thread waits for the mutex.                  *)
(***************************************************************************)
SenderIsGone == sender = "exited" /\ ~SendRoom /\ \E t \in Threads : At(t, "shutdown")

Busy == recv # <<>> \/ sender \in Scenes \/ \E t \in Threads : calls[t] # <<>>

ThreadsGoOn ==
    Alive /\ Busy /\ ~SenderIsGone
        => ENABLED (Receiver \/ Sender \/ \E t \in Threads : Thread(t))

(***************************************************************************)
(* "Clean up all pending response stuff" (tcp_io_connection.cpp:249): a    *)
(* Close that asks the sender to come out goes on to notify the listeners. *)
(***************************************************************************)
CloseCleansUp == []Alive => \A t \in Threads : At(t, "shutdown") ~> At(t, "clear")

(***************************************************************************)
(* "Notify the upper layer about connection exception. So that it can      *)
(* clean things up" (transport_mgr.cpp:100): once the threads have handled *)
(* the exception and are idle, the tracker does not count the pipelines of *)
(* the dead worker.                                                        *)
(***************************************************************************)
DeadWorkerIsCleanedUp ==
    (closed /\ \A t \in Threads : calls[t] = <<>> /\ queue[t] = <<>>) => counted <= 0

=============================================================================
