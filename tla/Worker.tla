------------------------------- MODULE Worker -------------------------------
(***************************************************************************)
(* A worker process: worker/worker and worker/pixel_producer with the      *)
(* threads of framework/messaging_framework they run on.  The worker's     *)
(* thread takes messages from its queue (inbox), keeps the maps of scenes, *)
(* clients and connections, and hands every request for pixels to the      *)
(* thread of its pipeline as a command of its own, the PixelProducer.      *)
(*                                                                         *)
(* The worker's thread also connects to the client of a scene, for as long *)
(* as it takes, and tells itself through its own queue that it has done    *)
(* so.  Until that message is handled the producers have no connection:    *)
(* they park the pixels, and the worker's thread sends them when it sets   *)
(* the connection.                                                         *)
(*                                                                         *)
(* The master and the clients are the environment.  An order is what one   *)
(* client asks the master for; the master's command for it sends the scene *)
(* file, then requests, and the cleanup when no pixels are outstanding.    *)
(***************************************************************************)
EXTENDS Integers, Sequences, FiniteSets, SequencesExt, TLC

CONSTANTS
    Orders,      \* the scenes that are requested from the master
    Sparse,      \* the orders with less work than there are pipelines:
                 \* none of it is left for this worker
    SceneId,     \* SceneId[o] is the scene id the client of o has made up
    Clients,     \* addresses of clients
    ClientOf,    \* ClientOf[o] is the address in the scene file of o
    Master,      \* the address of the master
    Pipelines,   \* the pixel production pipelines
    QDepth,      \* worker_cmd_processor_q_depth
    PipeDepth,   \* scene_producer_q_depth
    MaxRequests, \* bound: requests of the master
    Quitters,    \* the clients that may quit
    None         \* no connection

ASSUME WorkerAssumption ==
    /\ Sparse \subseteq Orders
    /\ SceneId \in [Orders -> Nat \ {0}]
    /\ ClientOf \in [Orders -> Clients]
    /\ Master \notin Clients /\ None \notin Clients \cup {Master} \cup Orders
    /\ Pipelines \subseteq Nat /\ IsFiniteSet(Pipelines) /\ Pipelines # {}
    /\ QDepth \in Nat \ {0} /\ PipeDepth \in Nat \ {0}
    /\ MaxRequests \in Nat /\ Quitters \subseteq Clients

VARIABLES
    net,       \* messages of the master the receiver thread has not read
    inbox,     \* m_RequestQ of the worker's thread
    pc,        \* what the worker's thread is doing
    job,       \* and the message it is at
    toMaster,  \* m_p_ConnectionToMaster
    file,      \* m_SceneFileMap: the order whose scene message it holds
    client,    \* m_SceneId2Client
    scene,     \* m_Client2SceneId
    conn,      \* m_SceneId2Connection
    waiters,   \* m_WaitersForConnectionSetup: <<scene id, request>>
    pipeQ,     \* the queue of each pipeline
    at,        \* the request each pipeline has pixels of
    link,      \* m_p_clientConnection of the producer of every request
    parked,    \* the producers with an m_OutstandingResponsePtr
    shipped,   \* history: <<client, request>> for each segment sent
    answers,   \* history: how often each request has been answered
    asked,     \* the requests of the master
    phase,     \* how far the master's command for each order has got
    registered,\* whether the master knows this worker
    listening, \* the clients that still accept connections
    misread,   \* a client's address has been read after it was freed
    fault      \* what the worker has died of

threadVars == <<inbox, pc, job, toMaster>>
mapVars == <<file, client, scene, conn>>
pipeVars == <<pipeQ, at>>
producerVars == <<link, parked, shipped, answers>>
masterVars == <<asked, phase, registered>>
endVars == <<listening, misread, fault>>

vars == <<net, threadVars, mapVars, waiters, pipeVars, producerVars, masterVars, endVars>>

Ids == Range(SceneId)

NoJob == [kind |-> "none"]

TypeOK ==
    /\ Len(inbox) <= QDepth
    /\ pc \in {"take", "connect", "report", "hand", "dispatch", "enlist"}
    /\ toMaster \in Clients \cup {None, Master}
    /\ DOMAIN file \subseteq Ids /\ Range(file) \subseteq Orders
    /\ DOMAIN client = DOMAIN file /\ Range(client) \subseteq Clients
    /\ DOMAIN scene \subseteq Clients \cup {None}
    /\ DOMAIN conn \subseteq Ids \cup {0} /\ Range(conn) \subseteq Clients
    /\ \A p \in Pipelines : Len(pipeQ[p]) <= PipeDepth
    /\ Len(asked) <= MaxRequests
    /\ DOMAIN link \subseteq DOMAIN asked /\ parked \subseteq DOMAIN link
    /\ registered \in {"no", "asked", "yes"}
    /\ fault \in {"none", "null scene", "broken pipe", "freed address"}

Init ==
    /\ net = <<>>
    /\ inbox = <<[kind |-> "server"]>>
    /\ pc = "take" /\ job = NoJob
    /\ toMaster = None
    /\ file = <<>> /\ client = <<>> /\ scene = <<>> /\ conn = <<>>
    /\ waiters = <<>>
    /\ pipeQ = [p \in Pipelines |-> <<>>] /\ at = [p \in Pipelines |-> 0]
    /\ link = <<>> /\ parked = {} /\ shipped = {} /\ answers = <<>>
    /\ asked = <<>> /\ phase = [o \in Orders |-> "none"] /\ registered = "no"
    /\ listening = Clients /\ misread = FALSE /\ fault = "none"

Alive == fault = "none"

Without(f, x) == [y \in DOMAIN f \ {x} |-> f[y]]

\* std::map::insert keeps the entry there is.
Inserted(f, x, y) == [z \in DOMAIN f \cup {x} |-> IF z \in DOMAIN f THEN f[z] ELSE y]

Id(r) == SceneId[asked[r].order]

-----------------------------------------------------------------------------
(***************************************************************************)
(* DoCommandComplete: the segment goes to the client, the answer to the    *)
(* master.  Both are only queued; when the client is gone the segment is   *)
(* dropped or the sender thread's write kills the process.                 *)
(***************************************************************************)
DoCommandComplete(r, to) ==
    /\ answers' = [answers EXCEPT ![r] = @ + 1]
    /\ \/ /\ to \in listening
          /\ shipped' = shipped \cup {<<to, r>>}
          /\ UNCHANGED fault
       \/ /\ to \notin listening
          /\ UNCHANGED shipped
          /\ fault' \in {fault, "broken pipe"}

\* BlockingQueue::Put, and one with an off-by-one.
InboxRoomPast == Len(inbox) <= QDepth

InboxHasRoom == Len(inbox) < QDepth

\* The receiver thread of the connection to the master: it sleeps while the
\* worker's queue is full.
ReceiverReads ==
    /\ Alive /\ net # <<>> /\ InboxHasRoom
    /\ inbox' = Append(inbox, Head(net))
    /\ net' = Tail(net)
    /\ UNCHANGED <<pc, job, toMaster, mapVars, waiters, pipeVars, producerVars,
                   masterVars, endVars>>

-----------------------------------------------------------------------------
\* The worker's thread takes the next message, of this kind.
Take(kind) ==
    /\ Alive /\ pc = "take" /\ inbox # <<>> /\ Head(inbox).kind = kind
    /\ inbox' = Tail(inbox)

Proceed(where, what) == pc' = where /\ job' = what

OnCreateServerResponse ==
    /\ Take("server")
    /\ toMaster' = None
    /\ Proceed("connect", [kind |-> "connected", to |-> Master, order |-> None])
    /\ UNCHANGED <<net, mapVars, waiters, pipeVars, producerVars, masterVars, endVars>>

\* MakeConnection: retried for as long as nobody listens.
MakeConnection ==
    /\ Alive /\ pc = "connect"
    /\ job.to \in listening \cup {Master}
    /\ Proceed("report", job)
    /\ UNCHANGED <<net, inbox, toMaster, mapVars, waiters, pipeVars, producerVars,
                   masterVars, endVars>>

\* ... and the worker's thread puts the result into its own queue.
ReportConnection ==
    /\ Alive /\ pc = "report" /\ InboxHasRoom
    /\ inbox' = Append(inbox, job)
    /\ Proceed("take", NoJob)
    /\ UNCHANGED <<net, toMaster, mapVars, waiters, pipeVars, producerVars,
                   masterVars, endVars>>

\* The first connection is the one to the master: the worker registers.
RegisterWithMaster ==
    /\ Take("connected") /\ toMaster = None
    /\ toMaster' = Head(inbox).to
    /\ registered' = "asked"
    /\ Proceed("take", NoJob)
    /\ UNCHANGED <<net, mapVars, waiters, pipeVars, producerVars, asked, phase, endVars>>

(***************************************************************************)
(* A connection to a client is made.  The message refers to the address    *)
(* in the scene message it was made for.  Once that scene is cleaned up,   *)
(* or was never kept, the memory is somebody else's: it still has the      *)
(* address, or has another scene's, or no client's, or cannot be read.     *)
(* operator[] enters the scene id 0 for an address that is not there.      *)
(***************************************************************************)
SceneIsKept(o) == SceneId[o] \in DOMAIN file /\ file[SceneId[o]] = o

AddressesRead(m) == IF SceneIsKept(m.order) THEN {m.to} ELSE {m.to, None} \cup DOMAIN scene

ClientConnected ==
    /\ Take("connected") /\ toMaster # None
    /\ LET m == Head(inbox)
       IN  \/ \E a \in AddressesRead(m) :
                 /\ scene' = Inserted(scene, a, 0)
                 /\ conn' = Inserted(conn, scene'[a], m.to)
                 /\ misread' = (misread \/ a # m.to)
                 /\ Proceed("hand", [kind |-> "hand", id |-> scene'[a], to |-> m.to])
                 /\ UNCHANGED fault
           \/ /\ ~SceneIsKept(m.order)
              /\ fault' = "freed address"
              /\ UNCHANGED <<pc, job, scene, conn, misread>>
    /\ UNCHANGED <<net, toMaster, file, client, waiters, pipeVars, producerVars,
                   masterVars, listening>>

\* SetConnection sends the pixels that are parked.  Two wrong ones do so in any
\* case, and never.
SendAlways(r) == DoCommandComplete(r, job.to)

SendNever(r) == UNCHANGED <<shipped, answers, fault>>

SendParked(r) ==
    IF r \in parked THEN DoCommandComplete(r, job.to)
                    ELSE UNCHANGED <<shipped, answers, fault>>

\* The waiters of the scene id; or, wrongly, of every scene.
EveryWaiter == DOMAIN waiters

WaitersOfScene == {i \in DOMAIN waiters : waiters[i][1] = job.id}

\* One turn of the loop over them: SetConnection, under the producer's mutex.
HandConnection ==
    /\ Alive /\ pc = "hand"
    /\ \E i \in WaitersOfScene :
          LET r == waiters[i][2]
          IN  /\ \A j \in WaitersOfScene : i <= j
              /\ waiters' = RemoveAt(waiters, i)
              /\ link' = [link EXCEPT ![r] = job.to]
              /\ SendParked(r)
    /\ UNCHANGED <<net, threadVars, mapVars, pipeVars, parked, masterVars,
                   listening, misread>>

AllHanded ==
    /\ Alive /\ pc = "hand" /\ WaitersOfScene = {}
    /\ Proceed("take", NoJob)
    /\ UNCHANGED <<net, inbox, toMaster, mapVars, waiters, pipeVars, producerVars,
                   masterVars, endVars>>

\* FreeAppTag of the tag of the registration, which nothing else uses.
OnWorkerRegistrationRespMsg ==
    /\ Take("registered")
    /\ UNCHANGED <<net, pc, job, toMaster, mapVars, waiters, pipeVars, producerVars,
                   masterVars, endVars>>

OnSceneProduceRequestMsg ==
    /\ Take("scene")
    /\ LET o == Head(inbox).order
       IN  /\ file' = Inserted(file, SceneId[o], o)
           /\ client' = Inserted(client, SceneId[o], ClientOf[o])
           /\ scene' = Inserted(scene, ClientOf[o], SceneId[o])
           /\ Proceed("connect", [kind |-> "connected", to |-> ClientOf[o], order |-> o])
    /\ UNCHANGED <<net, toMaster, conn, waiters, pipeVars, producerVars,
                   masterVars, endVars>>

OnSceneProduceCleanupMsg ==
    /\ Take("cleanup")
    /\ LET id == SceneId[Head(inbox).order]
       IN  IF id \in DOMAIN file
           THEN /\ file' = Without(file, id)
                /\ scene' = Without(scene, client[id])
                /\ client' = Without(client, id)
                /\ conn' = Without(conn, id)
           ELSE UNCHANGED mapVars
    /\ UNCHANGED <<net, pc, job, toMaster, waiters, pipeVars, producerVars,
                   masterVars, endVars>>

\* The connection is looked up once for all requests of the message.
OnPixelProduceRequestMsg ==
    /\ Take("pixels")
    /\ LET id == SceneId[Head(inbox).order]
       IN  Proceed("dispatch", [kind |-> "dispatch", rs |-> Head(inbox).rs,
                                to |-> IF id \in DOMAIN conn THEN conn[id] ELSE None])
    /\ UNCHANGED <<net, toMaster, mapVars, waiters, pipeVars, producerVars,
                   masterVars, endVars>>

NextRequest ==
    IF Len(job.rs) = 1 THEN Proceed("take", NoJob)
                       ELSE Proceed("dispatch", [job EXCEPT !.rs = Tail(@)])

\* Every producer without a connection waits for one; a wrong loop leaves out
\* the last of the message.
MustWaitButLast == job.to = None /\ Len(job.rs) > 1

MustWait == job.to = None

\* A new producer goes to its pipeline, when there is room ...
Dispatch ==
    /\ Alive /\ pc = "dispatch"
    /\ LET r == Head(job.rs)
           p == asked[r].pipe
       IN  /\ Len(pipeQ[p]) < PipeDepth
           /\ pipeQ' = [pipeQ EXCEPT ![p] = Append(@, r)]
           /\ link' = Inserted(link, r, job.to)
           /\ answers' = Inserted(answers, r, 0)
    /\ IF MustWait THEN Proceed("enlist", job) ELSE NextRequest
    /\ UNCHANGED <<net, inbox, toMaster, mapVars, waiters, at, parked, shipped,
                   masterVars, endVars>>

\* ... and only then, when it has no connection, to those who wait for it.
Enlist ==
    /\ Alive /\ pc = "enlist"
    /\ waiters' = Append(waiters, <<Id(Head(job.rs)), Head(job.rs)>>)
    /\ NextRequest
    /\ UNCHANGED <<net, inbox, toMaster, mapVars, pipeVars, producerVars,
                   masterVars, endVars>>

-----------------------------------------------------------------------------
\* A pipeline answers a request without work, and computes the others' pixels
\* with the scene, which it reads from the map of the worker's thread.
ProduceNothing(p) ==
    /\ Alive /\ at[p] = 0 /\ pipeQ[p] # <<>>
    /\ LET r == Head(pipeQ[p])
       IN  /\ ~asked[r].work
           /\ answers' = [answers EXCEPT ![r] = @ + 1]
    /\ pipeQ' = [pipeQ EXCEPT ![p] = Tail(@)]
    /\ UNCHANGED <<net, threadVars, mapVars, waiters, at, link, parked, shipped,
                   masterVars, endVars>>

ProducePixels(p) ==
    /\ Alive /\ at[p] = 0 /\ pipeQ[p] # <<>>
    /\ LET r == Head(pipeQ[p])
       IN  /\ asked[r].work
           /\ fault' = IF Id(r) \in DOMAIN file THEN fault ELSE "null scene"
           /\ at' = [at EXCEPT ![p] = r]
    /\ pipeQ' = [pipeQ EXCEPT ![p] = Tail(@)]
    /\ UNCHANGED <<net, threadVars, mapVars, waiters, producerVars, masterVars,
                   listening, misread>>

\* Under the producer's mutex: ship the pixels, or park them.
CheckConnectionAndSendResponse(p) ==
    /\ Alive /\ at[p] # 0
    /\ LET r == at[p]
       IN  IF link[r] # None
           THEN DoCommandComplete(r, link[r]) /\ UNCHANGED parked
           ELSE /\ parked' = parked \cup {r}
                /\ UNCHANGED <<answers, shipped, fault>>
    /\ at' = [at EXCEPT ![p] = 0]
    /\ UNCHANGED <<net, threadVars, mapVars, waiters, pipeQ, link, masterVars,
                   listening, misread>>

-----------------------------------------------------------------------------
(***************************************************************************)
(* The master: it answers the registration; sends the scene file of an     *)
(* order together with the first requests, one for each pipeline (a client *)
(* process orders one scene, so an address has one order at a time); later *)
(* requests while no pipeline has more than two of the order; the cleanup  *)
(* once the work of the order is answered.                                 *)
(***************************************************************************)
Answered(r) == r \in DOMAIN answers /\ answers[r] > 0

Open(o) == {r \in DOMAIN asked : asked[r].order = o /\ ~Answered(r)}

Request(o, ps) ==
    LET new == [i \in DOMAIN ps |-> [order |-> o, pipe |-> ps[i], work |-> o \notin Sparse]]
    IN  /\ Len(asked) + Len(ps) <= MaxRequests
        /\ asked' = asked \o new

Requested(o) == [kind |-> "pixels", order |-> o,
                 rs |-> [i \in 1 .. Len(asked') - Len(asked) |-> Len(asked) + i]]

MasterRegisters ==
    /\ registered = "asked"
    /\ registered' = "yes"
    /\ net' = Append(net, [kind |-> "registered"])
    /\ UNCHANGED <<threadVars, mapVars, waiters, pipeVars, producerVars, asked, phase, endVars>>

\* The pipelines from the first to the last.
EachInTurn ==
    {ps \in [1 .. Cardinality(Pipelines) -> Pipelines] :
        \A i, k \in DOMAIN ps : i < k => ps[i] < ps[k]}

MasterKicksOff(o) ==
    /\ registered = "yes" /\ phase[o] = "none"
    /\ \A q \in Orders : ClientOf[q] = ClientOf[o] => phase[q] # "rendering"
    /\ \E ps \in EachInTurn : Request(o, ps)
    /\ net' = net \o <<[kind |-> "scene", order |-> o], Requested(o)>>
    /\ phase' = [phase EXCEPT ![o] = "rendering"]
    /\ UNCHANGED <<threadVars, mapVars, waiters, pipeVars, producerVars, registered, endVars>>

MasterRefills(o) ==
    /\ phase[o] = "rendering" /\ o \notin Sparse
    /\ \E p \in Pipelines :
          /\ Cardinality({r \in Open(o) : asked[r].pipe = p}) < 2
          /\ Request(o, <<p>>)
    /\ net' = Append(net, Requested(o))
    /\ UNCHANGED <<threadVars, mapVars, waiters, pipeVars, producerVars, phase, registered,
                   endVars>>

MasterCleansUp(o) ==
    /\ phase[o] = "rendering" /\ \A r \in Open(o) : ~asked[r].work
    /\ net' = Append(net, [kind |-> "cleanup", order |-> o])
    /\ phase' = [phase EXCEPT ![o] = "over"]
    /\ UNCHANGED <<threadVars, mapVars, waiters, pipeVars, producerVars, asked, registered,
                   endVars>>

ClientQuits(c) ==
    /\ c \in Quitters \cap listening
    /\ listening' = listening \ {c}
    /\ UNCHANGED <<net, threadVars, mapVars, waiters, pipeVars, producerVars, masterVars,
                   misread, fault>>

-----------------------------------------------------------------------------
WorkerThread ==
    \/ OnCreateServerResponse \/ MakeConnection \/ ReportConnection
    \/ RegisterWithMaster \/ ClientConnected \/ HandConnection \/ AllHanded
    \/ OnWorkerRegistrationRespMsg \/ OnSceneProduceRequestMsg
    \/ OnSceneProduceCleanupMsg \/ OnPixelProduceRequestMsg
    \/ Dispatch \/ Enlist

Pipeline(p) ==
    \/ ProduceNothing(p) \/ ProducePixels(p)
    \/ CheckConnectionAndSendResponse(p)

Environment ==
    \/ MasterRegisters
    \/ \E o \in Orders : MasterKicksOff(o) \/ MasterRefills(o) \/ MasterCleansUp(o)
    \/ \E c \in Clients : ClientQuits(c)

Next ==
    \/ ReceiverReads \/ WorkerThread
    \/ \E p \in Pipelines : Pipeline(p)
    \/ Environment

(***************************************************************************)
(* The threads of the process run for ever and are scheduled fairly; a     *)
(* thread sleeping on a queue or a mutex is woken.  Nothing is assumed of  *)
(* the master and the clients.                                             *)
(***************************************************************************)
Spec ==
    /\ Init /\ [][Next]_vars
    /\ WF_vars(ReceiverReads) /\ WF_vars(WorkerThread)
    /\ \A p \in Pipelines : WF_vars(Pipeline(p))

-----------------------------------------------------------------------------
(***************************************************************************)
(* A request is answered once, whoever comes first, the pipeline with its  *)
(* pixels or the worker's thread with the connection: not by both, and not *)
(* before its segment is sent (DoCommandComplete under m_Mutex).           *)
(***************************************************************************)
AnsweredOnce ==
    \A r \in DOMAIN answers :
        /\ answers[r] <= 1
        /\ answers[r] = 1 /\ asked[r].work =>
               <<link[r], r>> \in shipped \/ link[r] \notin listening

(***************************************************************************)
(* Segments go to the client that ordered the scene, as long as no address *)
(* has been read after it was freed: the lookup by address, by scene id    *)
(* and among the waiters agree, through cleanups and other orders.         *)
(***************************************************************************)
SegmentsReachTheirClient ==
    ~misread => \A s \in shipped : s[1] = ClientOf[asked[s[2]].order]

(***************************************************************************)
(* "This command will be kicked out when connection is made"               *)
(* (pixel_producer.cpp:96): a request for pixels without a connection waits *)
(* for one under its scene id, and the connection its scene has been taken *)
(* for is still to come, or is being handed to those who wait.             *)
(***************************************************************************)
ConnectionToCome(o) ==
    \E m \in Range(inbox) \cup {job} : m.kind = "connected" /\ m.order = o

NobodyWaitsInVain ==
    misread \/ \A r \in DOMAIN link :
        link[r] = None /\ asked[r].work =>
            /\ \/ <<Id(r), r>> \in Range(waiters)
               \/ pc = "enlist" /\ r = Head(job.rs)
            /\ \/ ConnectionToCome(asked[r].order)
               \/ pc = "hand" /\ job.id = Id(r)

(***************************************************************************)
(* While every client listens, every request is answered in the end: the   *)
(* worker's thread is never asleep on its own queue for good, nor on a     *)
(* pipeline's.  This needs QDepth to exceed what the master may have sent  *)
(* by the time the worker reports a connection to itself.                  *)
(***************************************************************************)
EveryRequestAnswered ==
    [](listening = Clients /\ Alive /\ ~misread) =>
        \A r \in 1 .. MaxRequests : r \in DOMAIN asked ~> Answered(r)

=============================================================================
