----------------------- MODULE SceneSchedulerDynamic ------------------------
(***************************************************************************)
(* master/scheduler_base and master/scene_scheduler_dynamic: the command   *)
(* that produces one scene on the cluster, run by one master thread, with  *)
(* the threads that work against it: the receiver thread of each worker's  *)
(* connection, and the master threads that take in connection exceptions.  *)
(*                                                                         *)
(* The scheduler's thread works through its queue, msgQ.  A handler is one *)
(* action up to the point where Close, run by another thread under the     *)
(* connection's mutex, can come between two calls and be noticed: between  *)
(* FindConnection and the registration of a tag in the kick-off, and       *)
(* between FreeAppTag and the registration of the next tag in a refill.    *)
(***************************************************************************)
EXTENDS WorkerLinks

CONSTANTS
    RefillPolicy,  \* m_DynamicSchedulePixelChunkRefillAllocationPolicy
    Decay,         \* m_DynamicSchedulePixelChunkDecay, in 1/10000
    NoHost         \* the null connection

ASSUME SchedulerAssumption ==
    /\ RefillPolicy \in {0, 1}
    /\ Decay \in 0 .. 10000
    /\ NoHost \notin Hosts

\* There are more numbers of 32 bits than tags of all connections together.
ASSUME CounterAssumption == NumTags * Cardinality(Hosts) < UIntMod

VARIABLES
    scene,     \* the command's life; m_MyLisPtr is set while it is "running"
    ack,       \* what the client has been told
    pc,        \* where the scheduler's thread is
    pos,       \* its place in the loops of the kick-off
    slot,      \* the pipeline to refill
    current,   \* m_CurrentPixelOffset
    pending,   \* m_NumPendingCompletionResponse
    workload,  \* m_workload
    failed,    \* m_FailedJobs
    cleaned,   \* the hosts that were told to drop the scene
    fault,     \* what the master process died of, or "none"
    msgQ       \* the queue of the scheduler's thread

jobVars == <<current, pending, workload, failed>>

placeVars == <<pc, pos, slot>>

sceneVars == <<scene, ack, cleaned, fault>>

vars == <<trackerVars, linkVars, jobVars, placeVars, sceneVars, msgQ>>

Start == [round |-> 1, index |-> 1, pipe |-> 0]

NoSlot == <<NoHost, 0>>

\* cmd tells whether the command was still attached when the entry was made.
Answers == [kind : {"answer"}, cmd : BOOLEAN, host : Hosts, pipe : Nat,
            tag : Tags, off : Nat, cnt : Nat]

Exceptions == [kind : {"exception"}, cmd : BOOLEAN, host : Hosts \cup {NoHost}]

Faults == {"none", "null connection", "no workers", "no tags",
           "no pipeline manager", "no worker info"}

TypeOK ==
    /\ TrackerTypeOK
    /\ LinkTypeOK
    /\ scene \in {"none", "rejected", "running", "finished"}
    /\ ack \in {"none", "accepted", "rejected"}
    /\ pc \in {"idle", "find", "assign", "refill"}
    /\ pos \in [round : 1 .. 2, index : Nat, pipe : Nat]
    /\ slot \in Slots \cup {NoSlot}
    /\ current \in Nat
    /\ pending \in 0 .. UIntMod - 1
    /\ workload \in Nat
    /\ failed \in SUBSET Jobs
    /\ cleaned \in SUBSET Hosts
    /\ fault \in Faults
    /\ msgQ \in Seq(Answers \cup Exceptions)

Init ==
    /\ TrackerInit
    /\ LinkInit
    /\ scene = "none"
    /\ ack = "none"
    /\ pc = "idle"
    /\ pos = Start
    /\ slot = NoSlot
    /\ current = 0
    /\ pending = 0
    /\ workload = 0
    /\ failed = {}
    /\ cleaned = {}
    /\ fault = "none"
    /\ msgQ = <<>>

Alive == fault = "none"

Attached == scene = "running"

\* The master process dies: a null pointer, a division by zero, an empty queue.
Die(f) ==
    /\ fault' = f
    /\ UNCHANGED <<trackerVars, linkVars, jobVars, placeVars, scene, ack,
                   cleaned, msgQ>>

\* The lists of m_HostWorkers are walked with FindConnection(...)->SendMsg.
AllConnected == \A h \in Listed : Connected(h)

-----------------------------------------------------------------------------
(* Handing out jobs                                                        *)

Remaining == NumPixels - current

\* ComputeRefillWorkLoadBasedOnCurrentPolicy with m_workload = w.
RefillSize(h, w) ==
    LET base == MinOf(w, Remaining)
        assigned == (base * maxRate) \div ProductionTime[h]
    IN  IF RefillPolicy = 0 THEN base
        ELSE IF assigned < ChunkMin THEN MinOf(ChunkMin, Remaining)
        ELSE assigned

\* What a request to pipeline s dies of; work: its size is computed first.
RequestFault(s, work) ==
    IF freeTags[s[1]] = <<>> THEN "no tags"
    ELSE IF work /\ RefillPolicy = 1 /\ s[1] \notin lookup THEN "no worker info"
    ELSE IF s[1] \notin Listed THEN "no pipeline manager"
    ELSE "none"

\* (variant: the request is not counted)
AssignUncounted(s, off, cnt, counted) ==
    SendRequest(s, off, cnt) /\ pending' = counted

\* The request for a job is sent and counted on top of those counted so far.
Assign(s, off, cnt, counted) ==
    /\ SendRequest(s, off, cnt)
    /\ pending' = (counted + 1) % UIntMod

\* (variant: the range is taken to include its end)
SendNextJobInclusive(s, w) ==
    LET cnt == RefillSize(s[1], w)
    IN  /\ TrackJob(s, [off |-> current, cnt |-> cnt])
        /\ Assign(s, current, cnt, pending)
        /\ current' = current + cnt - 1

\* The next pixels of the scene, for pipeline s.
SendNextJob(s, w) ==
    LET cnt == RefillSize(s[1], w)
    IN  /\ TrackJob(s, [off |-> current, cnt |-> cnt])
        /\ Assign(s, current, cnt, pending)
        /\ current' = current + cnt

\* m_FailedJobs.begin()
FirstFailed == CHOOSE j \in failed : \A k \in failed : j.off <= k.off

-----------------------------------------------------------------------------
(* A scene is requested: OnSceneProduceRequestMsg, KickOffSceneScheduling  *)

RejectScene ==
    /\ Alive /\ pc = "idle" /\ scene = "none"
    /\ hostWorkers = <<>>
    /\ scene' = "rejected"
    /\ ack' = "rejected"
    /\ UNCHANGED <<trackerVars, linkVars, jobVars, placeVars, cleaned, fault,
                   msgQ>>

\* The scene file is sent to all workers, with the command as listener, and
\* the kick-off begins.  A connection that is closed between its look-up and
\* SendMsg gives the command an exception whose connection is null.
AcceptScene ==
    /\ Alive /\ pc = "idle" /\ scene = "none"
    /\ hostWorkers # <<>>
    /\ AllConnected
    /\ total # 0
    /\ scene' = "running"
    /\ current' = 0
    /\ pending' = 0
    /\ workload' = MaxOf(1, GetWorkEstimationForNewScene(total) \div total)
    /\ pc' = "find"
    /\ pos' = Start
    /\ briefed' = Listed
    /\ \E late \in SUBSET {h \in Listed : link[h] = "noted"} :
           /\ link' = [h \in Hosts |-> IF h \in late THEN "closed" ELSE link[h]]
           /\ msgQ' = msgQ \o [i \in 1 .. Cardinality(late) |->
                                 [kind |-> "exception", cmd |-> TRUE,
                                  host |-> NoHost]]
    /\ UNCHANGED <<trackerVars, freeTags, routed, todo, shipped, wireVars,
                   failed, slot, ack, cleaned, fault>>

AcceptDies ==
    /\ Alive /\ pc = "idle" /\ scene = "none"
    /\ hostWorkers # <<>>
    /\ \/ ~AllConnected /\ Die("null connection")
       \/ AllConnected /\ total = 0 /\ Die("no workers")

\* The two loops over the workers: find the connection of the next one; once
\* all pixels are handed out the rest of the workers get nothing.
KickOffFind ==
    /\ Alive /\ pc = "find"
    /\ pos.index <= Len(hostWorkers)
    /\ \/ current < NumPixels /\ Connected(hostWorkers[pos.index])
          /\ pc' = "assign" /\ UNCHANGED pos
       \/ current >= NumPixels
          /\ pos' = [pos EXCEPT !.index = @ + 1] /\ UNCHANGED pc
    /\ UNCHANGED <<trackerVars, linkVars, jobVars, slot, sceneVars, msgQ>>

\* (variants: a loop is missing, or there is one too many)
OneRound == 1

ThreeRounds == 3

Rounds == 2

\* The end of a loop: the second one follows the first, then the client is
\* told that its scene has been accepted.
KickOffNextRound ==
    /\ Alive /\ pc = "find"
    /\ pos.index > Len(hostWorkers)
    /\ IF pos.round < Rounds
       THEN pos' = [Start EXCEPT !.round = pos.round + 1] /\ UNCHANGED <<pc, ack>>
       ELSE pos' = Start /\ pc' = "idle" /\ ack' = "accepted"
    /\ UNCHANGED <<trackerVars, linkVars, jobVars, slot, scene, cleaned, fault,
                   msgQ>>

\* SendNextJob to all the pipelines of a worker, one after the other: those
\* that come after the last pixel get a request without work.
KickOffAssign ==
    LET h == hostWorkers[pos.index]
        s == <<h, pos.pipe>>
    IN  /\ Alive /\ pc = "assign"
        /\ RequestFault(s, current < NumPixels) = "none"
        /\ \/ current < NumPixels /\ SendNextJob(s, workload)
           \/ current >= NumPixels /\ SendRequest(s, 0, 0)
              /\ UNCHANGED <<trackerVars, current, pending>>
        /\ \/ pos.pipe + 1 < NumPipelines[h]
              /\ pos' = [pos EXCEPT !.pipe = @ + 1] /\ UNCHANGED pc
           \/ pos.pipe + 1 >= NumPipelines[h]
              /\ pos' = [pos EXCEPT !.index = @ + 1, !.pipe = 0] /\ pc' = "find"
        /\ UNCHANGED <<workload, failed, slot, sceneVars, msgQ>>

-----------------------------------------------------------------------------
(* A worker answers: OnPixelProduceResponseMsg                             *)

\* The scheduler takes the next entry from its queue.
Handle(kind, cmd) ==
    /\ Alive /\ pc = "idle"
    /\ msgQ # <<>>
    /\ Head(msgQ).kind = kind
    /\ Head(msgQ).cmd = cmd
    /\ msgQ' = Tail(msgQ)

AnswerSlot == <<Head(msgQ).host, Head(msgQ).pipe>>

\* (variant: answers to requests without work are taken off, too)
PendingAfterAny == (pending - 1) % UIntMod

\* The counter when this answer has been taken off it.
PendingAfter ==
    IF Head(msgQ).cnt = 0 THEN pending ELSE (pending - 1) % UIntMod

\* (variant: off by one)
AllButOneHandedOut == current >= NumPixels - 1

AllHandedOut == current = NumPixels

\* There are pixels left: the tag is freed; the pipeline is refilled next.
AnswerThenRefill ==
    LET m == Head(msgQ)
    IN  /\ Handle("answer", TRUE)
        /\ m.host \in Listed
        /\ ~AllHandedOut
        /\ NotifyJobDone(AnswerSlot, m.off)
        /\ FreeAppTag(m.host, m.tag)
        /\ pending' = PendingAfter
        /\ slot' = AnswerSlot
        /\ pc' = "refill"
        /\ UNCHANGED <<current, workload, failed, pos, sceneVars>>

\* No pixels are left, but jobs of a failed host: the pipeline gets the first.
AnswerThenRedispatch ==
    LET m == Head(msgQ)
        s == AnswerSlot
    IN  /\ Handle("answer", TRUE)
        /\ m.host \in Listed
        /\ AllHandedOut
        /\ failed # {}
        /\ RequestFault(s, FALSE) = "none"
        /\ tracked' = [Untracked(s, m.off) EXCEPT ![s] = @ \cup {FirstFailed}]
        /\ Assign(s, FirstFailed.off, FirstFailed.cnt, PendingAfter)
        /\ failed' = failed \ {FirstFailed}
        /\ UNCHANGED <<hostWorkers, lookup, total, maxRate, current, workload,
                       placeVars, sceneVars>>

\* The last answer: the workers are told to drop the scene, the command
\* detaches itself and the tag of this answer is freed.
AnswerThenFinish ==
    LET m == Head(msgQ)
    IN  /\ Handle("answer", TRUE)
        /\ m.host \in Listed
        /\ AllHandedOut
        /\ failed = {}
        /\ PendingAfter = 0
        /\ AllConnected
        /\ NotifyJobDone(AnswerSlot, m.off)
        /\ FreeAppTag(m.host, m.tag)
        /\ pending' = PendingAfter
        /\ cleaned' = Listed
        /\ scene' = "finished"
        /\ UNCHANGED <<current, workload, failed, placeVars, ack, fault>>

\* Answers of other pipelines are still pending.
AnswerThenWait ==
    LET m == Head(msgQ)
    IN  /\ Handle("answer", TRUE)
        /\ m.host \in Listed
        /\ AllHandedOut
        /\ failed = {}
        /\ PendingAfter # 0
        /\ NotifyJobDone(AnswerSlot, m.off)
        /\ pending' = PendingAfter
        /\ UNCHANGED <<linkVars, current, workload, failed, placeVars, sceneVars>>

\* What the handler of an answer dies of.
AnswerFault ==
    IF Head(msgQ).host \notin Listed THEN "no pipeline manager"
    ELSE IF ~AllHandedOut THEN "none"
    ELSE IF failed # {} THEN RequestFault(AnswerSlot, FALSE)
    ELSE IF PendingAfter = 0 /\ ~AllConnected THEN "null connection"
    ELSE "none"

AnswerDies ==
    /\ Alive /\ pc = "idle"
    /\ msgQ # <<>> /\ Head(msgQ).kind = "answer" /\ Head(msgQ).cmd
    /\ AnswerFault # "none"
    /\ Die(AnswerFault)

\* The rest of AnswerThenRefill: a job of a failed host first, else the next
\* pixels with the decayed workload.
Refill ==
    /\ Alive /\ pc = "refill"
    /\ RequestFault(slot, failed = {}) = "none"
    /\ \/ /\ failed # {}
          /\ TrackJob(slot, FirstFailed)
          /\ Assign(slot, FirstFailed.off, FirstFailed.cnt, pending)
          /\ failed' = failed \ {FirstFailed}
          /\ UNCHANGED <<current, workload>>
       \/ /\ failed = {}
          /\ workload' = MaxOf((workload * Decay) \div 10000, ChunkMin)
          /\ SendNextJob(slot, workload')
          /\ UNCHANGED failed
    /\ pc' = "idle"
    /\ slot' = NoSlot
    /\ UNCHANGED <<pos, sceneVars, msgQ>>

\* What the scheduler dies of while it hands out jobs.
SendFault ==
    CASE pc = "find" -> IF /\ pos.index <= Len(hostWorkers)
                           /\ current < NumPixels
                           /\ ~Connected(hostWorkers[pos.index])
                        THEN "null connection" ELSE "none"
      [] pc = "assign" -> RequestFault(<<hostWorkers[pos.index], pos.pipe>>,
                                       current < NumPixels)
      [] pc = "refill" -> RequestFault(slot, failed = {})
      [] OTHER -> "none"

SendDies ==
    /\ Alive /\ SendFault # "none"
    /\ Die(SendFault)

-----------------------------------------------------------------------------
(* A connection fails                                                      *)

\* One entry for every tag routed to the command, with the connection found
\* in m_Connections, which is null once the connection has been closed.
ExceptionEntries(h) ==
    [i \in 1 .. Cardinality(routed[h]) |->
        [kind |-> "exception", cmd |-> Attached,
         host |-> IF Connected(h) THEN h ELSE NoHost]]

\* (variant: they go to the front of the queue)
Overtake(queue, entries) == entries \o queue

\* They go to the end of the queue.
Enqueue(queue, entries) == queue \o entries

\* Close, run by a master thread that has noted the failure of h.
Close(h, queue) ==
    /\ link' = [link EXCEPT ![h] = "closed"]
    /\ routed' = [routed EXCEPT ![h] = {}]
    /\ msgQ' = Enqueue(queue, ExceptionEntries(h))
    /\ UNCHANGED <<freeTags, todo, briefed, shipped, wireVars>>

\* SchedulerBase::OnTCPConnectionException: the jobs of the host are put
\* aside until a pipeline answers.
HandleException ==
    LET h == Head(msgQ).host
    IN  /\ Handle("exception", TRUE)
        /\ h # NoHost
        /\ failed' = IF h \in Listed THEN WithFailed(failed, JobsOf(h)) ELSE failed
        /\ RemoveFailedJobs(h)
        /\ UNCHANGED <<linkVars, current, pending, workload, placeVars, sceneVars>>

\* An entry made after the scene was finished goes to the master thread
\* itself: it drops an answer, and takes an exception for a new failure.
HandleDetachedAnswer ==
    /\ Handle("answer", FALSE)
    /\ UNCHANGED <<trackerVars, linkVars, jobVars, placeVars, sceneVars>>

HandleDetachedException ==
    LET h == Head(msgQ).host
    IN  /\ Alive /\ pc = "idle"
        /\ msgQ # <<>> /\ Head(msgQ).kind = "exception" /\ ~Head(msgQ).cmd
        /\ h # NoHost
        /\ NotifyHostFailure(h)
        /\ Close(h, Tail(msgQ))
        /\ UNCHANGED <<jobVars, placeVars, sceneVars>>

ExceptionDies ==
    /\ Alive /\ pc = "idle"
    /\ msgQ # <<>> /\ Head(msgQ).kind = "exception" /\ Head(msgQ).host = NoHost
    /\ Die("null connection")

\* MasterSchedulerThread::OnTCPConnectionException on one of the threads of
\* the pool, in its two calls.
NoteFailure(h) ==
    /\ Alive /\ link[h] = "reported"
    /\ NotifyHostFailure(h)
    /\ link' = [link EXCEPT ![h] = "noted"]
    /\ UNCHANGED <<freeTags, routed, todo, briefed, shipped, wireVars, jobVars,
                   placeVars, sceneVars, msgQ>>

CloseConnection(h) ==
    /\ Alive /\ link[h] = "noted"
    /\ Close(h, msgQ)
    /\ UNCHANGED <<trackerVars, jobVars, placeVars, sceneVars>>

-----------------------------------------------------------------------------
(* The receiver thread of a connection, registration, the workers          *)

\* A response is handed to the listener its tag is routed to; one without a
\* route goes to a master thread, which has no handler for it.
Receive(h) ==
    LET r == Head(resp[h])
    IN  /\ Alive /\ link[h] \in {"up", "crashed"}
        /\ resp[h] # <<>>
        /\ resp' = [resp EXCEPT ![h] = Tail(@)]
        /\ msgQ' = IF r.tag \in routed[h]
                   THEN Append(msgQ, [kind |-> "answer", cmd |-> Attached,
                                      host |-> h, pipe |-> r.pipe,
                                      tag |-> r.tag, off |-> r.off,
                                      cnt |-> r.cnt])
                   ELSE msgQ
        /\ UNCHANGED <<trackerVars, link, freeTags, routed, todo, briefed,
                       shipped, segments, image, lost, jobVars, placeVars, sceneVars>>

\* After the last response the receiver sees the error, reports it and exits.
ReportException(h) ==
    /\ Alive /\ link[h] = "crashed"
    /\ resp[h] = <<>>
    /\ link' = [link EXCEPT ![h] = "reported"]
    /\ UNCHANGED <<trackerVars, freeTags, routed, todo, briefed, shipped,
                   wireVars, jobVars, placeVars, sceneVars, msgQ>>

RegisterWorker(h) ==
    /\ Alive /\ link[h] = "absent"
    /\ link' = [link EXCEPT ![h] = "up"]
    /\ AddWorker(h)
    /\ UNCHANGED <<freeTags, routed, todo, briefed, shipped, wireVars, jobVars,
                   placeVars, sceneVars, msgQ>>

-----------------------------------------------------------------------------
Request == RejectScene \/ AcceptScene \/ AcceptDies

Scheduler ==
    \/ KickOffFind \/ KickOffNextRound \/ KickOffAssign
    \/ AnswerThenRefill \/ AnswerThenRedispatch \/ AnswerThenFinish
    \/ AnswerThenWait \/ AnswerDies \/ Refill \/ SendDies
    \/ HandleException \/ HandleDetachedAnswer \/ HandleDetachedException
    \/ ExceptionDies

Connection(h) ==
    Receive(h) \/ ReportException(h) \/ NoteFailure(h) \/ CloseConnection(h)

Worker(s) ==
    /\ ShipSegment(s) \/ Respond(s) \/ ProduceUnknownScene(s)
    /\ UNCHANGED <<trackerVars, jobVars, placeVars, sceneVars, msgQ>>

Client(h) ==
    /\ \E job \in segments[h] : Deliver(h, job)
    /\ UNCHANGED <<trackerVars, jobVars, placeVars, sceneVars, msgQ>>

WorkerDies(h) ==
    /\ Crash(h)
    /\ UNCHANGED <<trackerVars, jobVars, placeVars, sceneVars, msgQ>>

Next ==
    \/ Request
    \/ Scheduler
    \/ \E h \in Hosts : Connection(h) \/ RegisterWorker(h) \/ Client(h)
                        \/ WorkerDies(h)
    \/ \E s \in Slots : Worker(s)

Spec == Init /\ [][Next]_vars

(***************************************************************************)
(* Every thread runs on: the scheduler's and the receivers' loops, the     *)
(* pipelines of a live worker, and the connections to the client.  A       *)
(* client need not send a request, no worker has to register or to die.    *)
(***************************************************************************)
Fairness ==
    /\ WF_vars(Scheduler)
    /\ \A h \in Hosts : WF_vars(Connection(h)) /\ WF_vars(Client(h))
    /\ \A s \in Slots : WF_vars(Worker(s))

FairSpec == Spec /\ Fairness

-----------------------------------------------------------------------------
(* What the properties are about                                           *)

PixelsOf(jobs) == UNION {j.off .. j.off + j.cnt - 1 : j \in jobs}

\* The segments that have been handed to a connection to the client.
Shipped == image \cup lost \cup UNION {segments[h] : h \in Hosts}

\* The jobs somebody still knows of.
Known == Shipped \cup failed \cup UNION {tracked[s] : s \in Slots}

AnswersIn(queue, h) ==
    {i \in DOMAIN queue : queue[i].kind = "answer" /\ queue[i].host = h}

\* The requests of h that have not been answered, and the answers that have
\* not been handled, each with the place where it is.
Carriers(h) ==
    (UNION {{[at |-> <<"todo", p, i>>, pipe |-> p, req |-> todo[<<h, p>>][i]] :
                i \in DOMAIN todo[<<h, p>>]} : p \in Pipelines(h)})
    \cup {[at |-> <<"resp", i>>, pipe |-> resp[h][i].pipe, req |-> resp[h][i]] :
              i \in DOMAIN resp[h]}
    \cup {[at |-> <<"msgQ", i>>, pipe |-> msgQ[i].pipe, req |-> msgQ[i]] :
              i \in AnswersIn(msgQ, h)}

TagsInUse(h) == {c.req.tag : c \in Carriers(h)}

\* How many requests to pipeline s are on their way out or back.
InFlight(s) == Cardinality({c \in Carriers(s[1]) : c.pipe = s[2]})

\* The answers with pixels that the scheduler will still get.
ExpectedAnswers ==
    Cardinality(UNION {{h} \X {c \in Carriers(h) : c.req.cnt # 0} : h \in Hosts})

NoFailure == \A h \in Hosts : link[h] \notin Dead

-----------------------------------------------------------------------------
(* Properties                                                              *)

\* A scene is declared finished only when the pixels of the whole image have
\* been handed to the client's connections, whatever crashed in between
\* (scene_scheduler_dynamic.cpp, the test of m_NumPendingCompletionResponse).
FinishedOnlyWhenShipped ==
    scene = "finished" => PixelsOf(Shipped) = 0 .. NumPixels - 1

\* The workers are told to drop the scene only when none of them has work of
\* it left: a producer that finds its scene gone dereferences a null pointer
\* (Worker::OnSceneProduceCleanupMsg against Worker::GetSceneDescriptor).
CleanupAfterWork ==
    cleaned # {} => \A s \in Slots : \A i \in DOMAIN todo[s] : todo[s][i].cnt = 0

\* No two jobs share a pixel, and none reaches beyond what was handed out:
\* re-dispatching never splits or merges jobs.
JobsDisjoint ==
    \A j, k \in Known :
        /\ j.off + j.cnt <= current
        /\ j.off <= k.off /\ j # k => j.off + j.cnt <= k.off

\* Every pixel that is handed out is from then on in a job that has been
\* shipped, is tracked at the pipeline that works on it, or waits with the
\* failed jobs.  No step drops a job from all three but the one at offset 0: the
\* answer to a request without work carries offset 0, too, and takes the first
\* job for done if it has been given to the same pipeline after a failure
\* (scene_scheduler_dynamic.cpp:83).
OnlyFirstJobForgotten ==
    [][/\ current .. current' - 1 \subseteq PixelsOf(Known')
       /\ \A j \in Known : j.off # 0 => j \in Known']_vars

\* A tag is never free, and never given twice, while a request that carries
\* it is unanswered, and its answer will find its way to the scheduler.
TagsKeptWhileInUse ==
    \A h \in Hosts :
        /\ IsInjective(freeTags[h])
        /\ TagsInUse(h) \cap Range(freeTags[h]) = {}
        /\ link[h] # "closed" => TagsInUse(h) \subseteq routed[h]
        /\ \A c, d \in Carriers(h) : c.req.tag = d.req.tag => c = d

\* The scheduler handles all answers of a host before the first exception of
\* its connection, so that the answer finds its pipeline manager
\* (ResourceTracker::NotifyJobDone dereferences what it looks up).
AnswersBeforeException ==
    /\ \A i, k \in DOMAIN msgQ :
           i < k /\ msgQ[i].kind = "exception" /\ msgQ[k].kind = "answer"
               => msgQ[i].host # msgQ[k].host
    /\ \A i \in DOMAIN msgQ : msgQ[i].kind = "answer" => msgQ[i].host \in Listed
    /\ pc = "refill" => slot[1] \in Listed

\* A connection closed between FreeAppTag and the next registration has left
\* an exception in the queue, so that the job about to be sent is recovered:
\* the second request every pipeline holds keeps the connection routed.
ClosedRefillIsReported ==
    pc = "refill" /\ link[slot[1]] = "closed" =>
        \E i \in DOMAIN msgQ : /\ msgQ[i].kind = "exception"
                               /\ msgQ[i].host = slot[1]

\* At most two requests per pipeline are ever in flight, which is what keeps
\* the queues between master and workers from filling up.
TwoRequestsPerPipeline == \A s \in Slots : InFlight(s) <= 2

\* The scheduler never believes that fewer answers are pending than are.
PendingNeverTooLow == Alive => pending >= ExpectedAnswers

\* Without a failed worker the master never follows a null connection, runs
\* out of tags or divides by zero.
NoFaultWithoutFailure == NoFailure => Alive

\* Without a failed worker no segment is shipped twice.
ShippedOnce ==
    [][\A s \in Slots :
           shipped'[s] /\ ~shipped[s] /\ NoFailure =>
               [off |-> Head(todo[s]).off, cnt |-> Head(todo[s]).cnt] \notin Shipped]_vars

ImageComplete == PixelsOf(image) = 0 .. NumPixels - 1

\* Without a failed worker an accepted scene is finished, and its client has
\* the whole image.
SceneCompletes ==
    Attached ~> ((scene = "finished" /\ ImageComplete) \/ ~NoFailure)

-----------------------------------------------------------------------------
(* What comments of the source say and the code does not do                *)

\* The jobs of a failed host are sent to the pipelines of the others that take
\* part in the scene: "We should still be able to send the remaining pixels to
\* the rest of the threads" (scheduler_base.cpp:45).
RemainingPixelsAreSent ==
    (failed # {}) ~> (failed = {} \/ ~Alive \/ \A h \in briefed : link[h] # "up")
=============================================================================
