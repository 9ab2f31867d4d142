------------------------ MODULE SceneSchedulerStatic ------------------------
(***************************************************************************)
(* master/scene_scheduler_static: the command that produces one scene when *)
(* all jobs are handed out at once, one chunk of equal size per pipeline,  *)
(* in the order of the pipelines or in a random one.  What it has from     *)
(* SchedulerBase (the request, the exceptions, the receiver threads, the   *)
(* workers) is taken from SceneSchedulerDynamic, which has no pipeline to  *)
(* refill here.                                                            *)
(*                                                                         *)
(* The requests of a worker are collected in one message, which is sent    *)
(* when its last tag has been registered: Close can come in between.       *)
(***************************************************************************)
EXTENDS WorkerLinks, PixelRange

CONSTANTS
    RandomChunks,  \* m_StaticSchedulePolicy is STATIC_SCHEDULE_RANDOM_CHUNK_TO_WORKER
    NoHost         \* the null connection

ASSUME StaticAssumption ==
    /\ RandomChunks \in BOOLEAN
    /\ NoHost \notin Hosts
    /\ NumPixels = NX * NY

VARIABLES
    scene, ack, pc, pos, pending, failed, cleaned, fault, msgQ,
              \* as in SceneSchedulerDynamic
    current,  \* totalScheduled; current \div workload is currentPixelChunkIndex
    workload, \* pixelChunkSize
    order,    \* pixelChunkIndexArray
    batch     \* the requests filled in so far of the message under construction

\* Nothing is ever refilled: the dynamic scheduler's slot is this constant.
Base == INSTANCE SceneSchedulerDynamic
        WITH slot <- CHOOSE s \in {<<NoHost, 0>>} : TRUE,
             RefillPolicy <- 0, Decay <- 0

planVars == <<order, batch>>

jobVars == <<current, pending, workload, failed>>

sceneVars == <<scene, ack, cleaned, fault>>

vars == <<Base!vars, planVars>>

\* A request that was not filled in has the application tag 0.
NoWork == [tag |-> 0, off |-> 0, cnt |-> 0]

Entries == [tag : Tags \cup {0}, off : Nat, cnt : Nat]

Returns == [pipe : Nat, tag : Tags \cup {0}, off : Nat, cnt : Nat]

TypeOK ==
    /\ TrackerTypeOK
    /\ link \in [Hosts -> LinkStates]
    /\ freeTags \in [Hosts -> Seq(Tags)]
    /\ routed \in [Hosts -> SUBSET Tags]
    /\ todo \in [Slots -> Seq(Entries)]
    /\ shipped \in [Slots -> BOOLEAN]
    /\ resp \in [Hosts -> Seq(Returns)]
    /\ segments \in [Hosts -> SUBSET Jobs] /\ image \cup lost \subseteq Jobs
    /\ briefed \cup cleaned \subseteq Hosts
    /\ scene \in {"none", "rejected", "running", "finished"}
    /\ ack \in {"none", "accepted", "rejected"}
    /\ pc \in {"idle", "find", "assign", "send"}
    /\ pos \in [round : {1}, index : Nat \ {0}, pipe : Nat]
    /\ pc = "assign" => pos.pipe \in Pipelines(hostWorkers[pos.index])
    /\ current \in Nat /\ workload \in Nat
    /\ pending \in 0 .. UIntMod - 1
    /\ failed \in SUBSET Jobs
    /\ fault \in Base!Faults \cup {"no chunk"}
    /\ msgQ \in Seq(Base!Answers \cup Base!Exceptions)
    /\ order \in Seq(Nat)
    /\ batch \in Seq(Entries)

Init == Base!Init /\ order = <<>> /\ batch = <<>>

-----------------------------------------------------------------------------
(* KickOffSceneScheduling                                                  *)

\* The chunks 0 .. t - 1 in the order of the pipelines, or shuffled.
Orders(t) ==
    IF RandomChunks THEN Bijection(1 .. t, 0 .. t - 1) ELSE {[i \in 1 .. t |-> i - 1]}

\* The scene file goes to all workers, the chunks are counted and ordered.
AcceptScene ==
    /\ Base!AcceptScene
    /\ order' \in Orders(total)
    /\ UNCHANGED batch

ThisHost == hostWorkers[pos.index]

KickOffFind ==
    /\ Base!Alive /\ pc = "find"
    /\ pos.index <= Len(hostWorkers)
    /\ Connected(ThisHost)
    /\ pc' = "assign"
    /\ batch' = <<>>
    /\ UNCHANGED <<trackerVars, linkVars, jobVars, pos, sceneVars, msgQ, order>>

\* (variant: the place in the array decides which chunk is the last)
ChunkOfLastPlace(k) ==
    LET off == order[k] * workload
    IN  [off |-> off, cnt |-> IF k = Len(order) THEN NumPixels - off ELSE workload]

\* The k-th chunk to be handed out: the last one takes what is left, as an
\* unsigned number.
ChunkOf(k) ==
    LET off  == order[k] * workload
        last == IF RandomChunks THEN order[k] = Len(order) - 1 ELSE k = Len(order)
    IN  [off |-> off, cnt |-> IF last THEN (NumPixels - off) % UIntMod ELSE workload]

NextChunk == current \div workload + 1

Counted == (pending + 1) % UIntMod

\* A pipeline's request is filled in: a tag is allocated and routed to the
\* scheduler, the job is tracked and counted.
KickOffAssign ==
    LET h   == ThisHost
        t   == Head(freeTags[h])
        job == ChunkOf(NextChunk)
    IN  /\ Base!Alive /\ pc = "assign"
        /\ NextChunk <= Len(order)
        /\ freeTags[h] # <<>>
        /\ freeTags' = AllocateAppTag(h)
        /\ routed' = [routed EXCEPT ![h] = @ \cup {t}]
        /\ TrackJob(<<h, pos.pipe>>, job)
        /\ pending' = Counted
        /\ current' = current + workload
        /\ batch' = Append(batch, [tag |-> t, off |-> job.off, cnt |-> job.cnt])
        /\ \/ pos.pipe + 1 < NumPipelines[h] /\ current' < NumPixels
              /\ pos' = [pos EXCEPT !.pipe = @ + 1] /\ UNCHANGED pc
           \/ (pos.pipe + 1 >= NumPipelines[h] \/ current' >= NumPixels)
              /\ pc' = "send" /\ UNCHANGED pos
        /\ UNCHANGED <<link, todo, briefed, shipped, wireVars, workload, failed,
                       sceneVars, msgQ, order>>

\* (variant: the loop over the pipelines goes on where it ended)
SamePipeNext == [pos EXCEPT !.index = @ + 1]

NextWorker == [pos EXCEPT !.index = @ + 1, !.pipe = 0]

\* The message with a request for every pipeline of the worker is sent, the
\* next worker follows while there are pixels left.
KickOffSend ==
    LET h == ThisHost
        RequestFor(p) == IF p < Len(batch) THEN batch[p + 1] ELSE NoWork
    IN  /\ Base!Alive /\ pc = "send"
        /\ todo' = [s \in Slots |-> IF s[1] = h /\ link[h] = "up"
                                    THEN Append(todo[s], RequestFor(s[2])) ELSE todo[s]]
        /\ batch' = <<>>
        /\ IF current >= NumPixels
           THEN pc' = "idle" /\ pos' = Base!Start /\ ack' = "accepted"
           ELSE pc' = "find" /\ pos' = NextWorker
                /\ UNCHANGED ack
        /\ UNCHANGED <<trackerVars, link, freeTags, routed, briefed, shipped, wireVars,
                       jobVars, scene, cleaned, fault, msgQ, order>>

\* All workers have their requests, though pixels may be left.
KickOffEnd ==
    /\ Base!Alive /\ pc = "find"
    /\ pos.index > Len(hostWorkers)
    /\ pc' = "idle" /\ pos' = Base!Start /\ ack' = "accepted"
    /\ UNCHANGED <<trackerVars, linkVars, jobVars, scene, cleaned, fault, msgQ,
                   planVars>>

\* What the kick-off dies of; "no chunk" is a read beyond pixelChunkIndexArray,
\* after which nothing is defined.
KickOffFault ==
    CASE pc = "find" -> IF pos.index <= Len(hostWorkers) /\ ~Connected(ThisHost)
                        THEN "null connection" ELSE "none"
      [] pc = "assign" -> IF NextChunk > Len(order) THEN "no chunk"
                          ELSE IF freeTags[ThisHost] = <<>> THEN "no tags" ELSE "none"
      [] OTHER -> "none"

KickOffDies ==
    /\ Base!Alive /\ KickOffFault # "none"
    /\ Base!Die(KickOffFault)
    /\ UNCHANGED planVars

-----------------------------------------------------------------------------
(* OnPixelProduceResponseMsg                                               *)

Host == Head(msgQ).host

PendingAfter == (pending - 1) % UIntMod

\* The answer is taken from the queue, its job is done; every answer ends with
\* FreeAppTag.
HandleAnswer ==
    /\ Base!Handle("answer", TRUE)
    /\ Host \in Listed
    /\ UNCHANGED <<current, workload, pc, pos, planVars>>

\* (variant: the tag is kept)
FreeNoTag == UNCHANGED linkVars

FreeAnswersTag == FreeAppTag(Host, Head(msgQ).tag)

\* The pipeline gets the first of the failed jobs, with a tag of its own.
AnswerThenRedispatch ==
    LET s == Base!AnswerSlot
        j == Base!FirstFailed
        t == Head(freeTags[Host])
    IN  /\ HandleAnswer
        /\ failed # {}
        /\ freeTags[Host] # <<>>
        /\ tracked' = [Untracked(s, Head(msgQ).off) EXCEPT ![s] = @ \cup {j}]
        /\ failed' = failed \ {j}
        /\ pending' = (PendingAfter + 1) % UIntMod
        /\ freeTags' = [freeTags EXCEPT ![Host] = Append(Tail(@), Head(msgQ).tag)]
        /\ routed' = [routed EXCEPT ![Host] = (@ \cup {t}) \ {Head(msgQ).tag}]
        /\ todo' = IF link[Host] = "up"
                   THEN [todo EXCEPT ![s] = Append(@, [tag |-> t, off |-> j.off, cnt |-> j.cnt])]
                   ELSE todo
        /\ UNCHANGED <<hostWorkers, lookup, total, maxRate, link, briefed, shipped,
                       wireVars, sceneVars>>

\* (variants: the scene is finished one answer early; the counter is compared
\* before it is decremented)
EndsOneEarly == failed = {} /\ PendingAfter <= 1

EndsOnCounter == failed = {} /\ pending = 0

Ends == failed = {} /\ PendingAfter = 0

\* The last answer: the workers drop the scene, the command detaches itself.
AnswerThenFinish ==
    /\ HandleAnswer
    /\ Ends
    /\ Base!AllConnected
    /\ NotifyJobDone(Base!AnswerSlot, Head(msgQ).off)
    /\ FreeAnswersTag
    /\ pending' = PendingAfter
    /\ cleaned' = Listed
    /\ scene' = "finished"
    /\ UNCHANGED <<failed, ack, fault>>

AnswerThenWait ==
    /\ HandleAnswer
    /\ failed = {} /\ ~Ends
    /\ NotifyJobDone(Base!AnswerSlot, Head(msgQ).off)
    /\ FreeAnswersTag
    /\ pending' = PendingAfter
    /\ UNCHANGED <<failed, sceneVars>>

AnswerFault ==
    IF Host \notin Listed THEN "no pipeline manager"
    ELSE IF failed # {} THEN IF freeTags[Host] = <<>> THEN "no tags" ELSE "none"
    ELSE IF PendingAfter = 0 /\ ~Base!AllConnected THEN "null connection"
    ELSE "none"

AnswerDies ==
    /\ Base!Alive /\ pc = "idle"
    /\ msgQ # <<>> /\ Head(msgQ).kind = "answer" /\ Head(msgQ).cmd
    /\ AnswerFault # "none"
    /\ Base!Die(AnswerFault)
    /\ UNCHANGED planVars

-----------------------------------------------------------------------------
Request ==
    \/ AcceptScene
    \/ (Base!RejectScene \/ Base!AcceptDies) /\ UNCHANGED planVars

Scheduler ==
    \/ KickOffFind \/ KickOffAssign \/ KickOffSend \/ KickOffEnd \/ KickOffDies
    \/ AnswerThenRedispatch \/ AnswerThenFinish \/ AnswerThenWait \/ AnswerDies
    \/ /\ \/ Base!HandleException \/ Base!HandleDetachedAnswer
          \/ Base!HandleDetachedException \/ Base!ExceptionDies
       /\ UNCHANGED planVars

Connection(h) == Base!Connection(h) /\ UNCHANGED planVars

Worker(s) == Base!Worker(s) /\ UNCHANGED planVars

Client(h) == Base!Client(h) /\ UNCHANGED planVars

Threads ==
    \/ Scheduler
    \/ \E h \in Hosts : Connection(h) \/ Client(h)
    \/ \E s \in Slots : Worker(s)

Next ==
    \/ Request \/ Threads
    \/ \E h \in Hosts : Base!RegisterWorker(h) /\ UNCHANGED planVars
    \/ \E h \in Hosts : Base!WorkerDies(h) /\ UNCHANGED planVars

\* While a thread can run, one does: weaker than in SceneSchedulerDynamic, where
\* every thread does, and enough.
Spec == Init /\ [][Next]_vars /\ WF_vars(Threads)

-----------------------------------------------------------------------------
(* Properties                                                              *)

\* The chunks fit the pixels: with fewer pixels than pipelines the shuffled
\* array holds chunks that lie outside of the image.
EnoughPixels == ~RandomChunks \/ Len(order) <= NumPixels

\* The jobs never overlap, whatever crashes and is sent again, and once the
\* kick-off is over they are the whole image: whatever the order of the chunks,
\* and although the chunk size is rounded down (scene_scheduler_static.cpp:76).
JobsTileImage ==
    EnoughPixels =>
        /\ \A j, k \in Base!Known :
               /\ j.off + j.cnt <= NumPixels
               /\ j.off <= k.off /\ j # k => j.off + j.cnt <= k.off
        /\ ack = "accepted" => Base!PixelsOf(Base!Known) = 0 .. NumPixels - 1

\* The coordinates sent with a job make the producer produce the pixels of the
\* job and no others, in their order: the client writes them as they come
\* (ProducePixels against Pixel2XYMapper).
WorkersProduceTheirJobs ==
    EnoughPixels => \A j \in Base!Known : ProducedAsAsked(j.off, j.cnt)

\* A scene is declared finished only when all its pixels have been shipped,
\* and the workers are told to drop it when none of them has work of it left.
FinishedAfterWork ==
    EnoughPixels /\ scene = "finished" =>
        /\ Base!PixelsOf(Base!Shipped) = 0 .. NumPixels - 1
        /\ \A s \in Slots : \A i \in DOMAIN todo[s] : todo[s][i].cnt = 0

\* No tag is lost or given away while it is in use, and a finished scene expects
\* no answer and is referred to by no connection: "All the reference count
\* should get reset now" (scene_scheduler_static.cpp:182).
TagsComeBack ==
    \A h \in Hosts :
        LET used == Base!TagsInUse(h) \ {0}
        IN  /\ used \cap Range(freeTags[h]) = {}
            /\ Cardinality(used) <= Cardinality(Tags) - Len(freeTags[h])
            /\ scene = "finished" => used = {} /\ routed[h] = {}

\* Undisturbed, an accepted scene is finished and its client has the image: no
\* worker failed, and none registered while the scene was being handed out,
\* which the array of chunks has no place for.
SceneCompletes ==
    EnoughPixels /\ Base!Attached ~>
        \/ scene = "finished" /\ Base!ImageComplete
        \/ ~EnoughPixels \/ ~Base!NoFailure \/ Listed # briefed
=============================================================================
