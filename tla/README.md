# Verification of the distributed ray tracer

TLA+ modules, TLC runs and TLAPS proofs kept beside the ray tracer in
`raytracing/src`. Paths below are relative to that directory.

A client asks the master for a scene; the master divides the image into runs
of pixels ("jobs"), hands them to the pixel production pipelines of the
registered workers, and the workers send the pixels straight to the client,
which puts them in order and writes a file. Workers may die at any time; the
master then gives their jobs to the others.

## 1. Inventory

| Part | State | Operations | Talks to | Hard because |
|---|---|---|---|---|
| Blocking queue (`framework/blocking_queue.hpp`) | elements, mutex, two condition variables | `Put`, `Take` | every pair of threads | many producers and consumers, wait and notify |
| Messaging framework (`framework/messaging_framework.*`) | queue of each thread, the command an entry is for, index of the next pool thread | `Notify`, `Send`, `TakeNext` | queues | the listener of the pool has no lock; an entry keeps the command that was attached when it was made |
| TCP connection (`transport/tcp_io_connection.*`) | app tags, routing map, send queue, closed flag | `AllocateAppTag`, `FreeAppTag`, `RegisterNotification`, `SendMsg`, `ProcessReceivedMsg`, `Close` | scheduler, receiver and sender threads | `Close` comes between any two calls of the scheduler |
| Sender and receiver (`transport/tcp_io_send_recv.*`) | socket | `Run`, `HandleException` | connection, transport manager | the failure is seen after the last response |
| Transport manager (`transport/transport_mgr.*`, `tcp_io_server.*`) | map of connections | `FindConnection`, `SaveConnection`, `RemoveConnection`, `EstablishNewConnection` | all | a connection that is gone is a null pointer |
| Resource tracker (`master/resource_tracker.*`) | list of hosts, look-up table, number of pipelines, jobs per pipeline | `AddWorker`, `TrackJob`, `NotifyJobDone`, `NotifyHostFailure`, `RemoveFailedJobs`, `GetWorkEstimationForNewScene` | all threads of the master | its list is walked without its mutex |
| Scene schedulers (`master/scheduler_base.*`, `scene_scheduler_dynamic.*`, `scene_scheduler_static.*`) | pixel offset, pending answers, failed jobs, workload | scene request, kick-off, answer, exception | tracker, connections | everything above, at once |
| Master threads (`master/master_scheduler.*`) | pool of threads | dispatch, registration, exception | pool listener, commands | registration and exception of a connection run on different threads |
| Worker (`worker/worker.*`) | scene maps, waiters for the client's connection | scene, request, cleanup, connection | master, client, producers | answers may overtake each other; cleanup against late connections |
| Pixel producer (`worker/pixel_producer.*`) | response that waits for a connection | produce, `SetConnection` | worker thread, connections | two threads may send the same response |
| Client (`client/client.*`) | write position, held segments | segment, close response | receivers, writer | order, repeated segments, full queues |
| Scene writer (`client/scene_writer.*`) | file | segment, close request | client | queue in each direction |
| Wire messages (`wiremsg/*`) | the packed buffer of a message | `Pack`, `Unpack`, `Repack`, `GetPackedBytes`, `ConstructMsg` | sender and receiver threads | buffers of fixed size, heads written over others, `recv` in pieces |
| Ray tracer (`ray_tracer/*`) | the scene: hitables, materials, textures, camera | `ProducePixels`, `Pack` and `Unpack` of every class | producer, wire messages | loop bounds; a scene read back token by token |

What makes each part correct:

* queue: bounded, first-in first-out, no lost wakeup, nobody sleeps for ever;
* tags and routes: a tag is not given away while a request carries it, and its
  answer finds the scheduler;
* tracker and scheduler: jobs never overlap, no pixel that was handed out is
  forgotten, the scene is finished only when all pixels have been shipped, the
  counter of pending answers is never too low, the master survives;
* static plan: the chunks are the image, whatever their order, and a producer
  produces exactly the pixels of its chunk;
* connection: a command has its answers before it hears of the end, what is
  accepted is sent, no thread sleeps for ever, a dead worker is cleaned up;
* worker and producers: a request is answered once and after its segment, the
  segment goes to the client that asked, no producer waits in vain;
* messages: what arrives is what was meant, however it was cut up on its way;
* client and writer: nothing is dropped, the file is written in order and
  closed when it is complete.

The hazards, each at its line, are listed in `PROJECT.json`.

## 2. Modules

    BoundedChannel <--implements-- BlockingQueue <-- MCBlockingQueue, BlockingQueueProofs

    ResourceTracker <-- WorkerLinks <-- SceneSchedulerDynamic <-- MCSceneScheduler
                        WorkerLinks, PixelRange <-- SceneSchedulerStatic <-- MCSceneStatic
                                  (INSTANCE of SceneSchedulerDynamic for what it inherits)

    WorkerLinks <-- WorkerLinksProofs
    SceneSchedulerDynamic, WorkerLinksProofs <-- SceneSchedulerProofs
    SceneSchedulerStatic, WorkerLinksProofs <-- SceneStaticProofs

    MasterConnection <-- MasterConnectionProofs

    Worker <-- MCWorker, WorkerProofs

    SceneGraph, PacketStream <-- WireFormat <-- MCWireFormat
    PacketStream <-- PacketStreamProofs

    ImageFile <--implements-- SceneStitcher <-- MCSceneStitcher, SceneStitcherProofs

**BlockingQueue** is `Put` and `Take` at the granularity at which threads
interleave: asking for the mutex, getting it, and the critical section up to
the return or to the release by `wait`. `fullWait` and `emptyWait` are the
threads asleep on `m_FullCondition` and `m_EmptyCondition`; a thread may wake
spuriously. `put` and `got` are histories. **BoundedChannel** is what callers
rely on: a queue with two atomic operations. The other modules use queues as
such channels.

**ResourceTracker** has one operator per method. Each method holds the
tracker's mutex, so each is part of one step of its caller. The keys of the
maps contain the scene; only one scene is modelled, so it is left out. The
iterator that is used after `erase` (`resource_tracker.cpp:193-194`) then
stands for the next element of the vector, or for the erased one if it was
the last: the vector moves its elements down and destroys the last one's
pointer only.

**WorkerLinks** joins the connection with the worker at its other end. TCP and
the queues keep the order of what is sent to one pipeline, so send queue,
socket, worker queue and pipeline queue are the one sequence `todo`; `resp` is
the way back, one sequence per connection. A pipeline first hands its pixels to
the connection to the client (`ShipSegment`) and then answers the master
(`Respond`) without waiting for the client (`pixel_producer.cpp:103-116`); the
pixels of a worker that dies may be lost (`lost`). A request without work is
answered at once, even before that of an earlier request whose pixels wait for
the connection to the client. `link` is the life of a connection as the
master's threads see it.

**SceneSchedulerDynamic** is the command of one scene under the dynamic
policy, with the threads that work against it. The handlers are cut only where
another thread can make a difference:

| Action | Code |
|---|---|
| `RejectScene`, `AcceptScene` | `SchedulerBase::OnSceneProduceRequestMsg` and the start of `KickOffSceneScheduling` |
| `KickOffFind`, `KickOffAssign`, `KickOffNextRound` | the two loops of `KickOffSceneScheduling`; find the connection, `SendNextJob` per pipeline |
| `AnswerThenRefill` + `Refill`, `AnswerThenRedispatch`, `AnswerThenFinish`, `AnswerThenWait` | the branches of `OnPixelProduceResponseMsg` |
| `HandleException` | `SchedulerBase::OnTCPConnectionException` |
| `HandleDetachedAnswer`, `HandleDetachedException` | entries made after `m_MyLisPtr` was reset: `MasterSchedulerThread::Run` handles them itself |
| `NoteFailure`, `CloseConnection` | the two calls of `MasterSchedulerThread::OnTCPConnectionException` on another thread of the pool |
| `Receive`, `ReportException` | the receiver thread |
| `RegisterWorker` | `OnWorkerRegistrationRequest` |
| `AcceptDies`, `SendDies`, `AnswerDies`, `ExceptionDies` | a null pointer, a division by zero or a missing entry: the master is gone, `fault` says why |

`Die` takes undefined behaviour (a null pointer, an empty `std::queue`, the end
iterator of a map) for the end of the process. Nothing checked depends on what
the process would do after it: the invariants are about the states before.

**SceneStitcher** is the client's thread and the writer's thread with their two
bounded queues; the handler of a segment is cut at each `Put`, since the thread
can be held up there. **ImageFile** is what the client promises
(`client.hpp:10-12`): a file that grows segment by segment from the first pixel
on and is closed when it is complete.

**SceneSchedulerStatic** is the command of a scene under the two static
policies. What it inherits from `SchedulerBase`, and the threads that work
against it, are the actions of SceneSchedulerDynamic, instantiated without
refills. Its own are the kick-off and the branches of the answer:

| Action | Code |
|---|---|
| `AcceptScene` | the count of the chunks and the shuffle, `scene_scheduler_static.cpp` |
| `KickOffFind`, `KickOffAssign`, `KickOffSend`, `KickOffEnd` | the loops of `KickOffSceneScheduling`: a message per worker, filled in request by request and then sent, so that `Close` can come in between |
| `AnswerThenRedispatch`, `AnswerThenFinish`, `AnswerThenWait` | the branches of `OnPixelProduceResponseMsg` |
| `KickOffDies`, `AnswerDies` | the null pointers, the missing entries, and the read beyond the array of chunks |

**PixelRange** is what a run of pixels becomes on its way: `Pixel2XYMapper`
turns its ends into 16-bit coordinates, `ProducePixels` turns these into the
loops over rows and columns. A row below the image wraps and is taken for
the last one.

**Worker** is the process of a worker: its thread with the maps of scenes,
clients and connections, its receiver thread, and a thread per pipeline. The
handlers are cut where another thread can come in: between the look-up of the
connection and each `Dispatch`, between a `Dispatch` and the `Enlist` that puts
the producer with those who wait, between the turns of the loop that hands out
a connection, and before `CheckConnectionAndSendResponse`. `MakeConnection` takes as
long as it likes. The message with the new connection refers to an address
that a cleanup may have freed (`transport_msgs.hpp:143`): `AddressesRead` is
what a read of it can give, `misread` says that it gave something else. The
master is the environment, with the order in which its command sends things.

**MasterConnection** is one connection of the master and the threads at it:
server, receiver, sender, and the pool. A handler is the sequence `calls` of
the calls it makes, since `SendMsg` and `Close` sleep with the connection's
mutex; so any call of one handler can come between two of another. An entry of
a queue keeps whether its command had finished when it was made (`Lost`): such
an entry goes to the scheduler's own handler, which closes the connection once
more.

| Action | Code |
|---|---|
| `ServerAccepts`, `ReceiverReads`, `ReceiverFails`, `ReceiverNotifies` | `TCPIOServer`, `TCPIOReceiver::Run`, `HandleException` |
| `SenderTakes`, `SenderNotifies` | `TCPIOSender::Run`, `OnTCPSendMsg` and the status of a sent scene |
| `ThreadTakes` | `MasterSchedulerThread::Run`, with one operator for each handler it dispatches to: `OnWorkerRegistrationRequest`, `OnTCPConnectionException`, `OnSceneProduceRequest`, and of a command `OnPixelProduceResponse`, `RemoveFailedJobs`, `OnXmitStatus` |
| `OtherAnswerFinishes`, `FinishScene` | the end of a scene, when the last answer is another worker's; `m_MyLisPtr` is reset |
| `Lock`, `SendMsg`, `SendMsgClosed` | `TCPIOConnection::SendMsg` |
| `Lock`, `CloseShutsDown`, `CloseNotifies`, `CloseReturns` | `TCPIOConnection::Close` |
| `AllocateAppTag`, `RegisterNotification`, `FreeAppTag` | the methods of that name |
| `SaveConnection`, `AddWorker`, `NotifyHostFailure`, `TrackJob`, `ForEachWorker` | transport manager and tracker |

The bookkeeping of a command, which SceneSchedulerDynamic has in full, is here
only as far as it decides which calls are made: the stage of its life, its
pending answers, and the jobs tracked at this worker. How many pixels are left,
and what failed elsewhere, is a choice.

**PacketStream** is how packed messages travel, byte by byte: the sender's
queue (`Enqueue`), the length in four bytes and the message (`SenderSends`, the
whole of `OnTCPSendMsg`), and a `recv` that returns any part of what is there
(`Receive`: a turn of the loop of `KeepReceiving`, and, when it ends, of the loop
of `Run`). A packet has at least one byte, since every message has a head; after
a length of zero the receiver would take the connection for broken.

**SceneGraph** and **WireFormat** are the messages from registration to
cleanup. A message is packed as decimal text; SceneGraph has the tokens of a
scene in the order of the `<<` and `>>` of every class, with floating point
numbers rounded to the six digits that a stream prints by default (`Printed`;
sign, point and exponent are left out), WireFormat the buffers
and the request of the client that the master hands on with a new head written
over the old one. Its messages travel by PacketStream: every step of WireFormat
is one of `StreamNext` or leaves the stream alone. Both are recursive and stay
with TLC.

The grain decides what a module can show: SceneSchedulerDynamic has the whole
bookkeeping and atomic calls, MasterConnection has the calls and little
bookkeeping, Worker has the far end, WireFormat the bytes. What one takes for
granted of another is a property there: that answers come before the exception
(MasterConnection's `AnswersBeforeException` is what `WorkerLinks` has as one
ordered sequence per connection) and go to the command they are for
(`AnswersFindTheirCommand`), that a pipeline ships before it answers
(`AnsweredOnce`), that queues are channels (`ImplementsChannel`), that segments
tile the image (`JobsDisjoint`, `JobsTileImage`), that a message read is a
message sent (`PacketsArrive`).

Definitions that a comment calls a variant, or wrong, are deliberately wrong
forms of the definition that follows them. No specification uses them; with
one of them in place of the right one TLC refutes the property named in
`PROJECT.json`, which shows that the property can fail.

## 3. Runs

| Run | Question | Bounds |
|---|---|---|
| `blocking_queue` | Do mutex, loops and notifications make a bounded first-in first-out channel in which nobody sleeps for ever? | 2 producers x 2 elements, 2 consumers, 2 slots: both wait sets fill up with more than one thread |
| `scene` | Does the bookkeeping of a scene survive the death of a worker at any moment? As long as nobody dies: is every accepted scene finished with all pixels at the client, without a fault of the master and without double work? | 4 pipelines on 2 workers, 3 pixels: as the workers register before the kick-off, during it or never, pipelines get two jobs, a refill, a request without work, or nothing; refills by capability; 6 tags, two for each pipeline of a worker; 1 crash |
| `scene_first_job` | A request without work and, after a crash, the job at offset 0 at the same pipeline: what does the answer to the request make the scheduler forget, and is the counter of pending answers ever too low? | 3 pipelines, 5 pixels (the fewest with which a pipeline holds both), 6 tags, 1 crash; `NothingRead`: the client has read no segment yet, which changes none of the properties |
| `scene_static` | Shuffled chunks of a size rounded down, an answer in any order, a crash: is the image tiled, produced and finished, and do all tags come back? | 5 x 2 pixels, so that chunks begin and end inside a row; 3 pipelines on 2 workers, 1 crash |
| `worker` | Answers, segments and waiting producers, while connections are made, scenes are cleaned up and a client may quit | 2 orders of 2 clients, one without work for this worker, 2 pipelines with queues of one, 5 requests |
| `master_connection` | Do answers find the command of their scene, does it hear of the end after them, is what was accepted sent, and do the threads never wait for each other? | 2 scheduler threads, 2 scenes of 2 requests, a send queue of 1, thread queues of 8, the worker may die |
| `wire` | Do packets arrive whole and in order, and do messages arrive as they were meant? | one scene with every class that is packed and numbers of up to eight digits, two plans of two requests, the second too long for the buffer; `recv` returns all or half of what it could |
| `stitcher` | Any order, repetitions and the smallest queues: is the file right and is it finished? | 4 segments of different sizes, 2 copies each, queues of one entry |

Tags: a connection has 4999, the runs have 3 to 6, of which at most two per
pipeline are in use and some leak. `UIntMod = 16` stands for the 2^32 of the
counters; none of them reaches 16 except by wrapping below zero. One crash is the smallest failure, and the only one of two workers
that leaves somebody to go on. The chunk sizes are 1 (`ChunkMin = ChunkMax =
1`), which gives the most jobs per pixel; the proofs have no such bound.

`EnoughPixels`: with fewer pixels than pipelines the shuffled plan has chunks
outside of the image (`scene_scheduler_static.cpp:82`), so the properties of
`scene_static` are about images with a pixel for each pipeline. The buffers of
`wire` are small (48 bytes for the sender's 4096), in the proportion in which a
long work order does not fit. `master_connection` has queues with room for
what answers and `Close` may put into one (2 scenes with 2 tags and a request,
twice over, since a finished scene's tags stay):
the default depth of 128 has it for 64 pipelines of two tags, and with less
`Close` does wait for a thread that waits for the mutex. `QDepth` of `worker`
exceeds what the master may have sent when the worker reports a connection to
itself, for the same reason (`worker.cpp:302`).

Four runs end in a violation, each of a statement that a comment of the source
makes and the code does not keep:

| Run | What happens |
|---|---|
| `remaining_pixels` | `scheduler_base.cpp:57`: failed jobs are sent again only when a pipeline answers; if all others are idle nobody does, and the scene never ends |
| `dead_worker` | `master_scheduler.cpp:70`: two threads of the pool handle the registration and the exception of a connection in the wrong order; the dead worker's pipelines stay counted |
| `repeated_close` | `tcp_io_connection.cpp:240`: answers after the last pixel leave their tags routed; when the worker dies each of them, its command gone, leads to another `Close` and another shutdown message; when the queue of the exited sender is full `Close` sleeps with the mutex held. `SendDepth` is 1 for 10, so two tags do what eleven do in the code |
| `worker_readdressed` | `worker.cpp:255`: a connection that is reported after the cleanup enters the scene id 0 for its address; the producers of the next order from there never get it |

Other behaviour of this kind that the modules have, and no comment contradicts:
a re-dispatched job is counted as pending although its lost request still is,
so that the scene may not be declared finished (`scheduler_base.cpp:93`); a
listed host without connection is a null pointer (`scheduler_base.cpp:128`,
`scene_scheduler_dynamic.cpp:115`); the wrong look-up entry is erased
(`resource_tracker.cpp:194`); the answer to a request without work takes job 0
for done (`scene_scheduler_dynamic.cpp:83`); answers after the last pixel free
no tag (`:98`), and each such tag makes `NotifyHostFailure` take the pipelines
of the dead worker off the count once more, as long as it is listed
(`master_scheduler.cpp:73`); a worker that registers during the kick-off gets work without
the scene (`:56`); the static kick-off then reads beyond its array. The
properties are stated so that they hold in spite of these, and say so where one
limits them: `OnlyFirstJobForgotten`, `PendingNeverTooLow` (the counter is
never too low; it may be too high), `NoFaultWithoutFailure`, `TagsKeptWhileInUse`,
`ThreadsGoOn` (but for the `Close` of `repeated_close`), `MessagesArrive` (but
for the rounding), `SceneCompletes` of the static scheduler.

## 4. Fairness

Threads loop for ever and the operating system runs them, so each thread's
steps are weakly fair. In the queue the mutex is strongly fair, since
a thread that asks for it competes with others that take and release it; no
fairness is assumed of spurious wakeups or of callers of `Put`'s elements beyond
their bound. In the scheduler no client has to send a request and no worker has
to register or to die. In the stitcher at least one copy of each segment arrives;
repetitions need not.

The static scheduler assumes less, only that some thread goes on while one can
(`WF_vars(Threads)`), and only for a scene that no crash or late registration
disturbs. In MasterConnection the receiver, the sender and each thread of the
pool are weakly fair: a thread that waits for the mutex or for room gets it
when it is free for good. Only `repeated_close` needs that: `ThreadsGoOn` is an
invariant, and since handlers are finite, and so is what clients and the worker
ask of them, a handler that never returned would show in a state in which no
thread can go on. In Worker the receiver, the worker's thread and each
pipeline are weakly fair, and nothing is assumed of the master and the clients.
In WireFormat senders and receivers are.

## 5. Proofs

`BlockingQueueProofs`: for any number of threads and any capacity
(`TypeCorrect`, `CapacityIsRespected` and `OrderIsKept` are proved here and are
no properties of a run: `ImplementsChannel` shows the last two). The
invariant adds to the properties that the thread that holds the mutex is in its
critical section and that the threads in the wait sets are suspended; without
the second a notification could wake a thread that is elsewhere. The refinement
of `BoundedChannel` follows since only `PutPush` and `TakePop` change the queue.

`SceneStitcherProofs`: for every division of the image into segments, every
depth of the queues and any number of copies. `Chained` says that the writer's
queue continues the file up to the client's write position, `Closing` that the
request to close is the last element and comes at the end of the image. One
pass over the set is enough (`OnePassReleasesAll`) because a segment that is due
always lies ahead of the loop (`DueIsAhead`): the set is sorted and segments
have at least one pixel. The assumption on the constants is that the segments
tile the image, which is what `JobsDisjoint` says of the scheduler.

`WorkerLinksProofs` has the lemmas that both schedulers rest on: the methods of
the tracker and the steps of connections and workers, the doubling of the chunk
(`ChunkDef`, `WorkloadType`), and what `Append`, `Tail` and `RemoveAt` do.

`SceneSchedulerProofs`: for any finite set of hosts, any number of pipelines,
pixels, tags and crashes, and any sizes of chunks; every invariant that the runs
check of SceneSchedulerDynamic, and `ShippedOnce`. It has four parts, each of
which rests on those before it. The types and the jobs:

* `TypeInv`, for `TypeCorrect`. `TypeOK` is not inductive: a refill has a
  number of pixels as its size only because no listed host counts as faster
  than the fastest (`Bounded`), and the kick-off is at a worker that exists
  only because nothing but the scheduler's own idle thread shortens the list
  (`Places`).
* `JobInv`, for `JobsNeverOverlap`. A worker may still ship what nobody tracks
  any more, so the jobs of its requests count too (`Promised`). Each step keeps
  the jobs, forgets those at the offset of an answer, or hands out the next one
  at the end of what has been handed out (`JobStep`); none makes a job of parts
  of others.
* `Covered`, for `OnlyFirstJobLost`. An answer untracks jobs by their offset.
  If it has pixels, they have been shipped (`WorkersShip`, `AnswersShipped`)
  and by `JobInv` no other job has that offset; if it has none its offset is 0,
  and the first job may be forgotten, but no other (`OthersKept`). So from the
  end of the first job on everything is covered (`CoveredFrom`), which the
  counter's proof needs.
* `OrderInv`, for `AnswersComeFirst`. A host is listed as long as its connection
  is open, and the queue holds an exception of a host only when its connection
  is closed, after which no answer comes; the queue keeps its order
  (`Queued`).

The requests on their way. A request or an answer is a
letter, wherever it is (`Mail`: the queues of the pipelines, the answers of a
connection, the scheduler's queue); a step leaves the letters alone, moves one
to the next box, takes one out, or writes one with a free tag.

* `Once` and `TagInv`, for `TagsAreUnique`: no two places hold the same tag of
  a connection, and a tag on its way is neither free nor, while the connection
  is there, without a route. `TagsKeptWhileInUse` says it of the records that
  carry a tag (`Carriers`).
* `TwoInv`, for `TwoRequestsAtMost`: during the kick-off a pipeline has at most
  as many letters as it has been given (`Given`, from the place of the two
  loops), and at a refill its slot has one less. It needs the life of a scene
  (`StageInv`) and that no host is listed twice (`Members`).
* `RouteInv`, for `RefillsAreReported`. `Close` reports the end of a connection
  once per route, so a connection without any would end unnoticed. The handler
  of an answer frees its tag before it registers the next one; until all pixels
  are handed out each connection has two routes when the thread is idle
  (`Kept`) and keeps one meanwhile (`KeptOne`), and if it is closed then its
  exception is in the queue.

The counter and the end of a scene:

* `CountInv`, for `CounterNeverTooLow`: the counter is at least the number of
  tags under which work is still due (`Due`). That alone does not tell whether
  it may be compared with zero: once a worker has taken pixels with it, the
  counter must stay above what is due until they are sent again. So it is one
  more unless everything handed out is shipped or on its way (`Traced`). Above
  it is bounded by the tags that are taken (`Spent`), which is why it does not
  wrap.
* `EndInv` adds that only a counter of zero finishes the scene; by `CountInv`
  nothing is then due and everything is traced, hence shipped
  (`FinishedScenesAreShipped`), and no pipeline has work (`CleanupComesLast`).
  `Silent` says that a worker that failed answers nothing any more.

Runs without a failed worker, under `EnoughTags`: a
connection has two tags for each pipeline of its worker. The code gives a
connection 4999, a worker has a handful of pipelines; `scene` has just
enough. Without that hypothesis the master may find no free tag.

* `Unharmed`, for `OnlyFailuresKill`: as long as nobody failed there are no
  exceptions, every listed host is connected and counted, and no tag is lost
  while the scheduler has work to hand out (`NoTagLost`; at the end of a scene
  some are). So if none were free all would be on their way, at most two to a
  pipeline and at most one to the pipeline about to be served: fewer than two
  for each pipeline, which `Packing` proves impossible.
* `OneJob` and `Unshipped`, for `NothingShippedTwice`: no two letters ask for
  the same pixels, and what a letter asks for has not been shipped, unless it
  is the first of a pipeline that has just done so. New pixels lie beyond all
  that were handed out (`NextJobIsNew`, from `JobInv`).

`SceneStaticProofs`: for any finite set of hosts, any number of pipelines, tags
and crashes, both orders of the chunks, and any image; all the invariants that
`scene_static` checks. The static scheduler counts and hands out chunks by other
means than the dynamic one, but has the same letters:

* `TypeInv`, for `TypesHold`. The message under construction has a request for
  each pipeline before the one that is next, of a worker that is listed while
  the thread is at it (`PlaceOK`), and what has been handed out is a multiple of
  the chunk's size (`ChunksOK`).
* `TagInv` and `CountInv`, for `TagsAllComeBack`. No two places hold the same
  tag (`Once`), the message under construction being a place, too. Every tag
  that is routed or on its way is engaged (`Engaged`), and the counter is at
  least their number: it is incremented where a tag is allocated, and
  decremented with an answer, whose tag is freed whether its connection is
  there or not. So a counter of zero, which finishes the scene, leaves no tag
  engaged. It does not wrap since there are no more chunks than it can hold.
* `PlanInv`: the array is a permutation of the chunks, and they fit the image
  unless it has fewer pixels than there are pipelines; then they have one pixel
  each.
* `ShipInv` and `JobInv`: every chunk that has been handed out has been shipped,
  is tracked at one pipeline or waits with the failed jobs, and a request asks
  for what its pipeline has. This needs that a host's answers are handled before
  its exception (`OrderInv`), and that no two letters ask for the same chunk.
* `WalkInv`: the array has no more chunks than the kick-off finds pipelines. The
  tracker's count wraps, so it is known only up to a multiple of 2^32
  (`Congruent`) of the pipelines that are registered; it is then too small
  rather than too large. The pipelines that have been served (`Walked`) are at
  most as many as the chunks handed out, though workers register meanwhile, so
  the walk ends with all chunks handed out or with no pixels left
  (`EndWalk`).
* `JobsFormImage` follows from `PlanInv`, `JobInv` and `WalkInv`. The hypothesis
  `NumPixels < UIntMod` says that an `unsigned int` can count the pixels of the
  image: the size of the last chunk is computed as one.
* `DoneInv`, for `FinishedWithoutWork`: what is tracked is counted, so a counter
  of zero with no failed jobs leaves nothing but what has been shipped.
* `JobsProduced` is a fact about PixelRange alone (`ProducesRun`), for images of
  at most 2^16 rows and columns, which is what the coordinates of a request can
  name. The producer's rows follow each other without a gap (`RowsJoin`); that
  `FlattenSeq` joins them is shown from its recursive definition by the least
  index at which it could fail (`Flattened`).

`WorkerProofs`: for any number of orders, clients, pipelines and requests and
any depth of the queues.

* `TypeInv`, for `TypesHold`: until the master is connected the queue holds one
  message, the way to that connection; afterwards messages of the master and
  connections to clients, and what the worker's thread is doing fits the
  message it has taken.
* `OnceInv`, for `AnswersAreSingle`. A request is in one place at a time: in a
  message on its way (`MsgInv`, over the worker's queue and the connection in
  one sequence, `Coming`), in the message being handed out (`DispatchInv`), in
  the queue of its pipeline or under production (`PipeInv`). A producer without
  a connection is not answered (`LinkInv`) and has one entry among the waiters
  (`WaitInv`), except between its dispatch and its entry; so the worker's thread
  answers only what is parked, and a pipeline only what has a connection.
* `RightClients`, for `ClientsGetTheirSegments`, when scene ids differ
  (`DistinctIds`; a client makes up its own, `client.cpp:188`): an address
  leads to a scene id of that client, a scene id to a connection to the client
  that ordered it, and so does the message being handed out, though the maps
  are read when it is taken and used after cleanups and other orders.
* `LifeInv`, for `WaitersAreServed`. The scene of an order comes before all
  else about it and its cleanup after all its work is answered (`Ordered`,
  `SceneFirst`); nothing is known of the order before (`Untouched`), and in
  between the scene, its address and its connection, made or to come, are kept
  (`Kept`). A producer without a connection has pixels that are not answered,
  so its scene is kept, the connection finds its scene id and is handed to the
  waiters of that id. This needs that every order has an address of its own
  (`DistinctClients`): a client process orders one scene. Run
  `worker_readdressed` shows what happens to the second order of an address.

The last two hold, as the properties say, as long as no address has been read
after it was freed (`misread`).

`MasterConnectionProofs`: for any number of scheduler threads, scenes and
requests, and any depth of the queues; all the invariants that
`master_connection` checks. Each of the following is inductive with the help of
those before it:

* `TypeInv`: what may be in a queue and among the calls of a thread.
* `EndInv`, for `AnswersComeFirst`: the receiver thread ends with nothing left
  to read or to hand on (`EndOfWire`); the exception exists only after that, and
  an entry that tells a command only when the connection is closed
  (`EndInQueues`); and whoever closes it, the exception's handler or, once more,
  that of an entry whose command has finished, does so after the end
  (`EndInCalls`). So no answer is put behind such an entry: none is under way.
* `QuietInv`: before the worker is connected there are only requests of
  clients, whose handlers call nothing.
* `UnsentInv`, for `NothingIsLeftUnsent`. A `Close` may run any number of times,
  and each puts a shutdown message. The first sets `m_Closed` before it does, and
  `SendMsg` tests it under the same lock, so that only shutdown messages come
  behind the first; and the sender comes to its end only at one of them.
* `TagInv`, for `AnswersAreRouted`. Only the thread that has the command of a
  scene makes its jobs (`OwnInv`), each by the calls `allocate`, `register`,
  `track` and `job` in a row (`StepInv`); a request is handled once, before
  there is a job (`RequestInv`). So a tag is in one place at a time, from the
  send queue over the worker to the handler that frees it or leaves it routed
  (`AloneInv`), a new one is in none (`FreshInv`), and a tag whose answer may
  come is routed (`RouteInv`): a tag is freed only when its answer has come, and
  every `Close` clears the routes when, by `EndInv`, nothing of the worker is on
  its way.
* `SizeInv`, for `TypesHold`: every queue has room when something is put, and a
  scene has as many tags as its calls may still allocate (`RoomInv`).

`PacketStreamProofs`: for any directions, any packets and any way in which
`recv` cuts the bytes. `StreamInv` has three parts besides the types:

* `QueueInv`: what waits in the sender's queue was given to `SendMsg` last, and
  what has been passed on came first.
* `BytesInv`: the bytes under way, those the receiver has put together (`Rest`)
  before those on the wire, are what is sent of the packets in between
  (`Laid`: each has a place, and the next one's is right behind it). When the
  receiver waits for a message its length is gone, so the place of the first
  is 4 bytes before the start.
* `WaitInv`: it waits for the four bytes of a length, or for as many bytes as
  the first packet has, and never for none.

A `recv` moves bytes from the wire to the receiver, which changes nothing of
`Rest` (`BytesMove`); what is full is the first length or the first packet
(`FirstIsRead`), and without it the others lie so much further in front
(`PacketsStayLaid`). `Get` reads what `PacketLength` wrote (`LengthIsRead`)
up to the largest `int`. The theorem is about `StreamSpec`, in which packets of
any kind are given to `SendMsg` at any time.

The assumptions are `MasterAssumption` (no name stands for two things, the
queues have a slot), `WorkerAssumption` (the same, and there is a pipeline and
no scene id is 0, which is what `operator[]` enters for an address that is not
there), `IntAssumption` (an `int` has four bytes, one bit of which is the sign),
`TrackerAssumption`, `LinkAssumption`, `SchedulerAssumption`,
`CounterAssumption`, `ImageAssumption` and `StaticAssumption`: there is a
pipeline per host, production times and the smallest chunk are not zero, an
image has a pixel, the null connection is no host, and a counter of 32 bits has
more values than all connections have tags (4999 each).

Only checked by TLC: liveness and `ThreadsGoOn` (`ENABLED`), both out of reach of
the prover, and what the messages mean (`MessagesArrive`): a scene is packed and
read by recursion over its objects, which the prover cannot follow.

## 6. Not modelled

* Logging, properties, scripts, the stream classes but for their fixed size:
  no behaviour of their own.
* The numerical code of the ray tracer (rays, colours, boxes, random scenes):
  real arithmetic. `objParser.h` is vendored and read only for triangle meshes,
  whose `Pack` and `Unpack` are empty; `SceneSetup.h` is used by nothing;
  `rotate_x` and `rotate_z` are in no scene the client offers, and announce
  themselves as `ROTATE_Y`.
* The outcomes of data races on a `std::map` or a `std::vector`
  (`worker.cpp:118`, `tcp_io_connection.cpp:127`, a list that moves while it is
  walked), and what a producer does with a request that was cut off in the
  sender's buffer: memory that was never assigned.
* A `SIGPIPE` on the way to a dead worker is in MasterConnection
  (`"broken pipe"`) and not in WorkerLinks, where the request is lost.
* The descriptors of sockets; what another connection receives that has got
  the number of a closed one.
* Two scenes with the same id (`client.cpp:188`).
* The set-up of the client and of the listening socket: straight-line code.

Worth doing next: a refinement from Worker to the pipelines of WorkerLinks.
