------------------------- MODULE SceneStaticProofs --------------------------
(***************************************************************************)
(* Proofs about SceneSchedulerStatic, for any finite number of hosts and   *)
(* crashes, any number of pipelines, pixels and tags and both orders of    *)
(* the chunks: the types, the tags, which all come back, and the jobs,     *)
(* which tile the image, are produced as they were asked for, and are all  *)
(* done when the scene is finished.                                        *)
(***************************************************************************)
EXTENDS SceneSchedulerStatic, WorkerLinksProofs

-----------------------------------------------------------------------------
(* The types, in groups, and the places the scheduler's thread can be at   *)

AnswerAt(i) == msgQ[i].kind = "answer"

ExceptionAt(i) == msgQ[i].kind = "exception"

Queued == Base!Answers \cup Base!Exceptions

\* Answers come from pipelines that exist.
LinksOK ==
    /\ link \in [Hosts -> LinkStates]
    /\ freeTags \in [Hosts -> Seq(Tags)]
    /\ routed \in [Hosts -> SUBSET Tags]
    /\ todo \in [Slots -> Seq(Entries)]
    /\ shipped \in [Slots -> BOOLEAN]
    /\ resp \in [Hosts -> Seq(Returns)]
    /\ segments \in [Hosts -> SUBSET Jobs] /\ image \subseteq Jobs /\ lost \subseteq Jobs
    /\ briefed \subseteq Hosts
    /\ \A h \in Hosts : \A i \in DOMAIN resp[h] : resp[h][i].pipe \in Pipelines(h)

QueueOK ==
    /\ msgQ \in Seq(Queued)
    /\ \A i \in DOMAIN msgQ : AnswerAt(i) => msgQ[i].pipe \in Pipelines(msgQ[i].host)

CountsOK ==
    /\ pending \in 0 .. UIntMod - 1
    /\ failed \subseteq Jobs
    /\ cleaned \subseteq Hosts
    /\ fault \in Base!Faults \cup {"no chunk"}

\* The number of chunks that have been handed out.
Handed == IF workload = 0 THEN 0 ELSE current \div workload

Accepted == scene \in {"running", "finished"}

\* What the client has been told, and where the thread is, in each part of the
\* command's life.
LifeOK ==
    /\ scene \in {"none", "rejected", "running", "finished"}
    /\ pc \in {"idle", "find", "assign", "send"}
    /\ scene = "none" => ack = "none"
    /\ scene = "rejected" => ack = "rejected"
    /\ scene = "finished" => ack = "accepted"
    /\ scene = "running" => ack = IF pc = "idle" THEN "accepted" ELSE "none"
    /\ pc # "idle" => scene = "running"

\* Chunks are handed out one by one.
ChunksOK ==
    /\ order \in Seq(Nat)
    /\ workload \in Nat /\ Handed \in Nat
    /\ current = Handed * workload
    /\ Accepted => workload >= 1
    /\ pc \in {"find", "assign"} => current < NumPixels

\* The message under construction has a request for every pipeline before the
\* one that is next; it is for a host that is listed.
PlaceOK ==
    /\ pos \in [round : {1}, index : Nat \ {0}, pipe : Nat]
    /\ batch \in Seq([tag : Tags, off : Nat, cnt : Nat])
    /\ pc \in {"idle", "find"} => pos.pipe = 0 /\ batch = <<>>
    /\ pc \in {"assign", "send"} =>
           /\ pos.index \in DOMAIN hostWorkers
           /\ pos.pipe \in Pipelines(ThisHost)
           /\ Len(batch) = IF pc = "assign" THEN pos.pipe ELSE pos.pipe + 1
    /\ pc = "send" /\ current < NumPixels => Len(batch) = NumPipelines[ThisHost]

\* Nothing is expected for a scene that has not been accepted.
QuietOK == ~Accepted => msgQ = <<>> /\ \A h \in Hosts : routed[h] = {}

TypeInv ==
    /\ TrackerTypeOK /\ LinksOK /\ QueueOK /\ CountsOK
    /\ LifeOK /\ ChunksOK /\ PlaceOK /\ QuietOK

LEMMA TypesAreTypes == TypeInv => TypeOK
<1> SUFFICES ASSUME TypeInv PROVE TypeOK
  OBVIOUS
<1>1. /\ TrackerTypeOK
      /\ link \in [Hosts -> LinkStates] /\ freeTags \in [Hosts -> Seq(Tags)]
      /\ routed \in [Hosts -> SUBSET Tags] /\ todo \in [Slots -> Seq(Entries)]
      /\ shipped \in [Slots -> BOOLEAN] /\ resp \in [Hosts -> Seq(Returns)]
      /\ segments \in [Hosts -> SUBSET Jobs] /\ image \cup lost \subseteq Jobs
      /\ briefed \cup cleaned \subseteq Hosts
  BY DEF TypeInv, LinksOK, CountsOK
<1>2. /\ scene \in {"none", "rejected", "running", "finished"}
      /\ ack \in {"none", "accepted", "rejected"}
      /\ pc \in {"idle", "find", "assign", "send"}
  BY DEF TypeInv, LifeOK
<1>3. /\ pos \in [round : {1}, index : Nat \ {0}, pipe : Nat]
      /\ pc = "assign" => pos.pipe \in Pipelines(hostWorkers[pos.index])
  BY DEF TypeInv, PlaceOK, ThisHost
<1>4. current \in Nat /\ workload \in Nat /\ order \in Seq(Nat)
  BY DEF TypeInv, ChunksOK
<1>5. /\ pending \in 0 .. UIntMod - 1 /\ failed \in SUBSET Jobs
      /\ fault \in Base!Faults \cup {"no chunk"}
  BY DEF TypeInv, CountsOK
<1>6. msgQ \in Seq(Base!Answers \cup Base!Exceptions)
  BY DEF TypeInv, QueueOK, Queued
<1>7. batch \in Seq(Entries)
  <2>1. batch \in Seq([tag : Tags, off : Nat, cnt : Nat])
    BY DEF TypeInv, PlaceOK
  <2>2. [tag : Tags, off : Nat, cnt : Nat] \subseteq Entries
    BY DEF Entries
  <2> QED
    BY <2>1, <2>2, SeqMonotonic
<1> QED
  BY <1>1, <1>2, <1>3, <1>4, <1>5, <1>6, <1>7 DEF TypeOK

\* Multiples of the workload.
LEMMA Multiples ==
    ASSUME NEW w \in Nat \ {0}, NEW n \in Nat
    PROVE  /\ n * w \in Nat
           /\ (n * w) \div w = n
           /\ (n + 1) * w = n * w + w
           /\ n <= n * w
           /\ \A m \in Nat : m < n => m * w + w <= n * w
           /\ \A m \in Nat : m * w = n * w => m = n
<1>1. n * w \in Nat /\ (n + 1) * w = n * w + w
  OBVIOUS
<1>2. (n * w) \div w = n
  OBVIOUS
<1>3. n <= n * w
  OBVIOUS
<1>4. ASSUME NEW m \in Nat, m < n PROVE m * w + w <= n * w
  <2>1. PICK d \in Nat : n = m + 1 + d
    <3>1. n - m - 1 \in Nat /\ n = m + 1 + (n - m - 1)
      BY <1>4
    <3> QED
      BY <3>1
  <2>2. (m + 1 + d) * w = m * w + w + d * w
    BY <2>1
  <2>3. d * w \in Nat /\ m * w \in Nat
    BY <2>1
  <2> QED
    BY <2>1, <2>2, <2>3
<1>5. ASSUME NEW m \in Nat, m * w = n * w PROVE m = n
  <2>1. (m * w) \div w = m
    OBVIOUS
  <2> QED
    BY <1>2, <1>5, <2>1
<1> QED
  BY <1>1, <1>2, <1>3, <1>4, <1>5

LEMMA NoMultiple ==
    ASSUME NEW w \in Nat \ {0}
    PROVE  0 * w = 0 /\ 0 \div w = 0
OBVIOUS

USE DEF trackerVars, linkVars, wireVars, planVars, jobVars, sceneVars,
        Base!jobVars, Base!placeVars, Base!sceneVars

\* What the dynamic scheduler calls a slot, a tag, a listed host is the same.
LEMMA BaseSame ==
    /\ Base!Slots = Slots /\ Base!Tags = Tags
    /\ \A h \in Hosts : Base!Pipelines(h) = Pipelines(h)
    /\ Base!Listed = Listed
    /\ \A h : Base!Connected(h) = Connected(h)
    /\ \A S : Base!Cardinality(S) = Cardinality(S)
<1>1. Base!Slots = Slots
  BY DEF Base!Slots, Slots, Base!Pipelines, Pipelines
<1>2. Base!Tags = Tags /\ \A h \in Hosts : Base!Pipelines(h) = Pipelines(h)
  BY DEF Base!Tags, Tags, Base!Pipelines, Pipelines
<1>3. Base!Listed = Listed
  BY DEF Base!Listed, Listed, Base!Range, Range
<1>4. \A h : Base!Connected(h) = Connected(h)
  BY DEF Base!Connected, Connected
<1>5. \A S : Base!Cardinality(S) = Cardinality(S)
  BY DEF Base!Cardinality, Cardinality
<1> QED
  BY <1>1, <1>2, <1>3, <1>4, <1>5

LEMMA TypeInit == Init => TypeInv
<1> SUFFICES ASSUME Init PROVE TypeInv
  OBVIOUS
<1> USE TrackerAssumption, LinkAssumption DEF Init, Base!Init
<1>1. TrackerTypeOK
  BY BaseSame DEF Base!TrackerInit, TrackerTypeOK
<1>2. LinksOK
  <2>1. [i \in 1 .. NumTags |-> i] \in Seq(Tags)
    BY DEF Tags
  <2>2. /\ freeTags = [h \in Hosts |-> [i \in 1 .. NumTags |-> i]]
        /\ todo = [s \in Slots |-> <<>>] /\ shipped = [s \in Slots |-> FALSE]
        /\ resp = [h \in Hosts |-> <<>>] /\ link = [h \in Hosts |-> "absent"]
        /\ routed = [h \in Hosts |-> {}] /\ segments = [h \in Hosts |-> {}]
        /\ briefed = {} /\ image = {} /\ lost = {}
    BY BaseSame DEF Base!LinkInit
  <2> QED
    BY <2>1, <2>2 DEF LinksOK, LinkStates
<1>3. QueueOK /\ CountsOK
  BY DEF QueueOK, CountsOK, Base!Faults
<1>4. LifeOK
  BY DEF LifeOK
<1>5. ChunksOK
  BY DEF ChunksOK, Handed, Accepted
<1>6. PlaceOK
  BY DEF PlaceOK, Base!Start
<1>7. QuietOK
  BY DEF QuietOK, Base!LinkInit
<1> QED
  BY <1>1, <1>2, <1>3, <1>4, <1>5, <1>6, <1>7 DEF TypeInv

-----------------------------------------------------------------------------
(* What steps leave alone                                                  *)

\* The scheduler's own thread is where it was, with what it had.
Paused == UNCHANGED <<scene, ack, pc, pos, current, workload, order, batch>>

LEMMA PausedType ==
    ASSUME TypeInv, Paused,
           pc # "idle" => /\ hostWorkers' \in Seq(Hosts)
                          /\ \A i \in DOMAIN hostWorkers :
                                 i \in DOMAIN hostWorkers' /\ hostWorkers'[i] = hostWorkers[i]
    PROVE  LifeOK' /\ ChunksOK' /\ PlaceOK'
<1>1. LifeOK'
  BY DEF TypeInv, LifeOK, Paused
<1>2. ChunksOK'
  BY DEF TypeInv, ChunksOK, Handed, Accepted, Paused
<1>3. PlaceOK'
  BY DEF TypeInv, PlaceOK, ThisHost, LifeOK, Paused
<1> QED
  BY <1>1, <1>2, <1>3

LEMMA LinksKept ==
    ASSUME TypeInv, UNCHANGED linkVars
    PROVE  LinksOK'
BY DEF TypeInv, LinksOK

LEMMA TrackerKept ==
    ASSUME TypeInv, UNCHANGED trackerVars
    PROVE  TrackerTypeOK'
BY DEF TypeInv, TrackerTypeOK

LEMMA QueueKept ==
    ASSUME TypeInv, msgQ' = msgQ
    PROVE  QueueOK'
BY DEF TypeInv, QueueOK, AnswerAt

\* What is behind the first entry of the queue, and the first entry itself.
LEMMA HeadFacts ==
    ASSUME TypeInv, msgQ # <<>>
    PROVE  /\ Tail(msgQ) \in Seq(Queued)
           /\ Head(msgQ) = msgQ[1] /\ 1 \in DOMAIN msgQ
           /\ \A i \in DOMAIN Tail(msgQ) : /\ i \in Nat \ {0}
                                           /\ i + 1 \in DOMAIN msgQ
                                           /\ Tail(msgQ)[i] = msgQ[i + 1]
           /\ msgQ' = Tail(msgQ) => QueueOK'
           /\ Head(msgQ).kind = "answer" =>
                  /\ Head(msgQ) \in Base!Answers
                  /\ Host \in Hosts
                  /\ Head(msgQ).tag \in Tags
                  /\ Head(msgQ).off \in Nat /\ Head(msgQ).cnt \in Nat
                  /\ Base!AnswerSlot \in Slots
                  /\ Base!AnswerSlot = <<Host, Head(msgQ).pipe>>
           /\ Head(msgQ).kind = "exception" =>
                  /\ Head(msgQ) \in Base!Exceptions
                  /\ Host \in Hosts \cup {NoHost}
<1>1. /\ msgQ \in Seq(Queued)
      /\ \A i \in DOMAIN msgQ : msgQ[i].kind = "answer" => msgQ[i].pipe \in Pipelines(msgQ[i].host)
  BY DEF TypeInv, QueueOK, AnswerAt
<1>2. /\ Tail(msgQ) \in Seq(Queued)
      /\ Head(msgQ) = msgQ[1] /\ 1 \in DOMAIN msgQ
      /\ \A i \in DOMAIN Tail(msgQ) : /\ i \in Nat \ {0}
                                      /\ i + 1 \in DOMAIN msgQ
                                      /\ Tail(msgQ)[i] = msgQ[i + 1]
  BY <1>1, SeqTail
<1>3. msgQ' = Tail(msgQ) => QueueOK'
  BY <1>1, <1>2 DEF QueueOK, AnswerAt
<1>4. Head(msgQ) \in Queued
  BY <1>1, <1>2
<1>5. ASSUME Head(msgQ).kind = "answer"
      PROVE  /\ Head(msgQ) \in Base!Answers
             /\ Host \in Hosts
             /\ Head(msgQ).tag \in Tags
             /\ Head(msgQ).off \in Nat /\ Head(msgQ).cnt \in Nat
             /\ Base!AnswerSlot \in Slots
             /\ Base!AnswerSlot = <<Host, Head(msgQ).pipe>>
  <2>1. Head(msgQ) \in Base!Answers
    BY <1>4, <1>5 DEF Queued, Base!Exceptions
  <2>2. Head(msgQ).pipe \in Pipelines(Head(msgQ).host)
    BY <1>1, <1>2, <1>5
  <2> QED
    BY <2>1, <2>2, SlotFacts DEF Base!Answers, Base!Tags, Tags, Base!AnswerSlot, Host
<1>6. ASSUME Head(msgQ).kind = "exception"
      PROVE  Head(msgQ) \in Base!Exceptions /\ Host \in Hosts \cup {NoHost}
  <2>1. Head(msgQ) \in Base!Exceptions
    BY <1>4, <1>6 DEF Queued, Base!Answers
  <2> QED
    BY <2>1 DEF Base!Exceptions, Host
<1> QED
  BY <1>2, <1>3, <1>5, <1>6

\* Exceptions are put behind what is left of the queue.
LEMMA QueueGrown ==
    ASSUME TypeInv, NEW q \in Seq(Queued), q = msgQ \/ (msgQ # <<>> /\ q = Tail(msgQ)),
           NEW e \in Base!Exceptions, NEW n \in Nat, msgQ' = q \o Times(e, n)
    PROVE  /\ QueueOK'
           /\ Len(msgQ') = Len(q) + n
           /\ Grown(msgQ', q, e)
<1> DEFINE r == q \o Times(e, n)
<1>1. r \in Seq(Queued) /\ Len(r) = Len(q) + n /\ Grown(r, q, e)
  <2>1. e \in Queued
    BY DEF Queued
  <2> QED
    BY <2>1, RepeatedEntries
<1> HIDE DEF r
<1>2. msgQ' = r
  BY DEF r
<1>3. \A i \in DOMAIN q : \E k \in DOMAIN msgQ : q[i] = msgQ[k]
  <2>1. CASE q = msgQ
    BY <2>1
  <2>2. CASE msgQ # <<>> /\ q = Tail(msgQ)
    BY <2>2, HeadFacts
  <2> QED
    BY <2>1, <2>2
<1>4. e.kind = "exception"
  BY DEF Base!Exceptions
<1>5. \A i \in DOMAIN r : r[i].kind = "answer" => \E k \in DOMAIN msgQ : r[i] = msgQ[k]
  BY <1>1, <1>3, <1>4 DEF Grown
<1>6. QueueOK'
  BY <1>1, <1>2, <1>5 DEF TypeInv, QueueOK, AnswerAt
<1> QED
  BY <1>1, <1>2, <1>6

-----------------------------------------------------------------------------
(* The request                                                             *)

LEMMA OrdersType ==
    ASSUME NEW t \in Nat, NEW o \in Orders(t)
    PROVE  /\ o \in Seq(Nat) /\ Len(o) = t
           /\ \A k \in 1 .. t : o[k] \in 0 .. t - 1
           /\ \A k, m \in 1 .. t : o[k] = o[m] => k = m
           /\ \A i \in 0 .. t - 1 : \E k \in 1 .. t : o[k] = i
           /\ ~RandomChunks => \A k \in 1 .. t : o[k] = k - 1
<1>1. CASE RandomChunks
  <2>1. o \in Bijection(1 .. t, 0 .. t - 1)
    BY <1>1 DEF Orders
  <2>2. /\ o \in [1 .. t -> 0 .. t - 1]
        /\ \A k, m \in 1 .. t : o[k] = o[m] => k = m
        /\ \A i \in 0 .. t - 1 : \E k \in 1 .. t : o[k] = i
    BY <2>1 DEF Bijection, Injection, Surjection, IsInjective
  <2>3. o \in [1 .. t -> Nat]
    BY <2>2
  <2>4. o \in Seq(Nat) /\ Len(o) = t
    BY <2>3
  <2> QED
    BY <1>1, <2>2, <2>4
<1>2. CASE ~RandomChunks
  <2>1. o = [i \in 1 .. t |-> i - 1]
    BY <1>2 DEF Orders
  <2>2. o \in Seq(Nat) /\ Len(o) = t
    BY <2>1
  <2>3. \A k \in 1 .. t : o[k] = k - 1 /\ k - 1 \in 0 .. t - 1
    BY <2>1
  <2>4. \A i \in 0 .. t - 1 : i + 1 \in 1 .. t /\ o[i + 1] = i
    BY <2>1
  <2> QED
    BY <2>2, <2>3, <2>4
<1> QED
  BY <1>1, <1>2

LEMMA ListedHosts ==
    ASSUME TrackerTypeOK
    PROVE  /\ Listed \subseteq Hosts
           /\ \A i \in DOMAIN hostWorkers : hostWorkers[i] \in Listed
           /\ \A h \in Listed : \E i \in DOMAIN hostWorkers : hostWorkers[i] = h
BY DEF TrackerTypeOK, Listed, Range

\* The exception whose connection is null.
NullException == [kind |-> "exception", cmd |-> TRUE, host |-> NoHost]

LEMMA AcceptFacts ==
    ASSUME TypeInv, AcceptScene
    PROVE  /\ scene = "none" /\ pc = "idle" /\ total \in Nat \ {0}
           /\ scene' = "running" /\ current' = 0 /\ pending' = 0
           /\ workload' = MaxOf(1, GetWorkEstimationForNewScene(total) \div total)
           /\ workload' \in Nat \ {0}
           /\ pc' = "find" /\ pos'.index = 1 /\ pos'.pipe = 0 /\ batch' = batch
           /\ order' \in Orders(total)
           /\ \A h \in Hosts : \/ link'[h] = link[h]
                               \/ link[h] = "noted" /\ link'[h] = "closed"
           /\ Grown(msgQ', msgQ, NullException) /\ Len(msgQ') >= Len(msgQ)
           /\ \A h \in Listed : link[h] # "closed"
           /\ UNCHANGED <<trackerVars, freeTags, routed, todo, shipped, wireVars,
                          failed, ack, cleaned, fault>>
           /\ TypeInv'
<1>1. /\ pc = "idle" /\ scene = "none" /\ hostWorkers # <<>>
      /\ Base!AllConnected /\ total # 0
      /\ scene' = "running" /\ current' = 0 /\ pending' = 0
      /\ workload' = MaxOf(1, Base!GetWorkEstimationForNewScene(total) \div total)
      /\ pc' = "find" /\ pos' = Base!Start /\ briefed' = Base!Listed
      /\ order' \in Orders(total) /\ batch' = batch
      /\ UNCHANGED <<trackerVars, freeTags, routed, todo, shipped, wireVars,
                     failed, ack, cleaned, fault>>
  BY DEF AcceptScene, Base!AcceptScene, Base!trackerVars, Base!wireVars, Base!MaxOf, MaxOf
<1>2. PICK late \in SUBSET {h \in Listed : link[h] = "noted"} :
          /\ link' = [h \in Hosts |-> IF h \in late THEN "closed" ELSE link[h]]
          /\ msgQ' = msgQ \o [i \in 1 .. Cardinality(late) |-> NullException]
  BY BaseSame DEF AcceptScene, Base!AcceptScene, NullException
<1>3. TrackerTypeOK /\ Listed \subseteq Hosts
  BY ListedHosts DEF TypeInv
<1>4. total \in Nat \ {0}
  BY <1>1, <1>3, TrackerAssumption DEF TrackerTypeOK
<1>5. Base!GetWorkEstimationForNewScene(total) = GetWorkEstimationForNewScene(total)
  BY DEF Base!GetWorkEstimationForNewScene, GetWorkEstimationForNewScene, Base!Doubles,
         Doubles, Base!Chunk, Chunk, Base!MinOf, MinOf
<1>6. workload' \in Nat \ {0}
  BY <1>1, <1>4, <1>5, WorkloadType
<1>7. Cardinality(late) \in Nat
  <2>1. late \in SUBSET Hosts
    BY <1>3
  <2> QED
    BY <2>1, LinkAssumption, FS_Subset, FS_CardinalityType
<1>8. QueueOK' /\ Len(msgQ') = Len(msgQ) + Cardinality(late) /\ Grown(msgQ', msgQ, NullException)
  <2>1. NullException \in Base!Exceptions
    BY DEF NullException, Base!Exceptions
  <2>2. msgQ' = msgQ \o Times(NullException, Cardinality(late))
    BY <1>2 DEF Times
  <2>3. msgQ \in Seq(Queued)
    BY DEF TypeInv, QueueOK
  <2> QED
    BY <1>7, <2>1, <2>2, <2>3, QueueGrown
<1>9. Len(msgQ') >= Len(msgQ)
  <2>1. Len(msgQ) \in Nat
    BY LenProperties DEF TypeInv, QueueOK
  <2> QED
    BY <1>7, <1>8, <2>1
<1>10. \A h \in Hosts : link'[h] = link[h] \/ (link[h] = "noted" /\ link'[h] = "closed")
  BY <1>2, <1>3
<1>11. LinksOK'
  <2>1. link' \in [Hosts -> LinkStates]
    BY <1>2 DEF TypeInv, LinksOK, LinkStates
  <2>2. briefed' \subseteq Hosts
    BY <1>1, <1>3, BaseSame
  <2> QED
    BY <1>1, <2>1, <2>2 DEF TypeInv, LinksOK
<1>12. TrackerTypeOK'
  BY <1>1, TrackerKept
<1>13. CountsOK'
  <2>1. 0 \in 0 .. UIntMod - 1
    BY TrackerAssumption
  <2>2. /\ pending' = 0 /\ failed' = failed /\ cleaned' = cleaned
        /\ fault' = fault
    BY <1>1
  <2> QED
    BY <2>1, <2>2 DEF TypeInv, CountsOK
<1>14. LifeOK'
  BY <1>1 DEF TypeInv, LifeOK
<1>15. ChunksOK'
  <2>1. order' \in Seq(Nat)
    BY <1>1, <1>4, OrdersType
  <2>2. Handed' = 0
    <3>1. 0 \div workload' = 0
      BY <1>6, NoMultiple
    <3> QED
      BY <1>1, <3>1 DEF Handed
  <2>3. 0 < NumPixels
    BY TrackerAssumption
  <2>4. 0 * workload' = 0
    BY <1>6, NoMultiple, Zenon
  <2> QED
    BY <1>1, <1>6, <2>1, <2>2, <2>3, <2>4 DEF ChunksOK
<1>16. PlaceOK'
  BY <1>1 DEF TypeInv, PlaceOK, Base!Start
<1>17. \A h \in Listed : link[h] # "closed"
  BY <1>1, BaseSame DEF Base!AllConnected, Connected
<1>18. QuietOK'
  BY <1>1 DEF QuietOK, Accepted
<1> QED
  BY <1>1, <1>4, <1>5, <1>6, <1>8, <1>9, <1>10, <1>11, <1>12, <1>13, <1>14, <1>15,
     <1>16, <1>17, <1>18 DEF TypeInv, Base!Start

\* The request is rejected.
Rejecting ==
    /\ scene = "none" /\ scene' = "rejected" /\ ack' = "rejected"
    /\ UNCHANGED <<trackerVars, linkVars, current, pending, workload, failed, pc, pos,
                   cleaned, fault, msgQ, order, batch>>

LEMMA RejectFacts ==
    ASSUME TypeInv, Base!RejectScene, UNCHANGED planVars
    PROVE  Rejecting /\ TypeInv'
<1>1. Rejecting
  BY DEF Base!RejectScene, Base!trackerVars, Base!linkVars, Base!wireVars, Rejecting
<1>2. TrackerTypeOK' /\ LinksOK' /\ QueueOK'
  BY <1>1, TrackerKept, LinksKept, QueueKept DEF Rejecting
<1>3. CountsOK' /\ LifeOK' /\ PlaceOK'
  BY <1>1 DEF Rejecting, TypeInv, CountsOK, LifeOK, PlaceOK, ThisHost
<1>4. ChunksOK'
  BY <1>1 DEF Rejecting, TypeInv, ChunksOK, LifeOK, Handed, Accepted
<1>5. QuietOK'
  BY <1>1 DEF Rejecting, TypeInv, QuietOK, Accepted
<1> QED
  BY <1>1, <1>2, <1>3, <1>4, <1>5 DEF TypeInv

LEMMA DieFacts ==
    ASSUME TypeInv, NEW f \in Base!Faults \cup {"no chunk"}, Base!Die(f),
           UNCHANGED planVars
    PROVE  /\ UNCHANGED <<trackerVars, linkVars, jobVars, pc, pos, scene, ack,
                          cleaned, msgQ, planVars>>
           /\ TypeInv'
<1>1. /\ UNCHANGED <<trackerVars, linkVars, jobVars, pc, pos, scene, ack,
                     cleaned, msgQ, planVars>>
      /\ fault' = f
  BY DEF Base!Die, Base!trackerVars, Base!linkVars, Base!wireVars
<1>2. TrackerTypeOK' /\ LinksOK' /\ QueueOK'
  BY <1>1, TrackerKept, LinksKept, QueueKept
<1>3. CountsOK'
  BY <1>1 DEF TypeInv, CountsOK
<1>4. LifeOK' /\ ChunksOK' /\ PlaceOK'
  <2>1. /\ hostWorkers' = hostWorkers
        /\ hostWorkers \in Seq(Hosts)
    BY <1>1 DEF TypeInv, TrackerTypeOK
  <2> QED
    BY <1>1, <2>1, PausedType DEF Paused
<1>5. QuietOK'
  BY <1>1 DEF TypeInv, QuietOK, Accepted
<1> QED
  BY <1>1, <1>2, <1>3, <1>4, <1>5 DEF TypeInv

-----------------------------------------------------------------------------
(* The kick-off                                                            *)

\* The host whose message is under construction.
LEMMA HostFacts ==
    ASSUME TypeInv, pos.index \in DOMAIN hostWorkers
    PROVE  /\ ThisHost \in Hosts /\ ThisHost \in Listed
           /\ NumPipelines[ThisHost] \in Nat \ {0}
           /\ 0 \in Pipelines(ThisHost)
<1>1. TrackerTypeOK
  BY DEF TypeInv
<1>2. ThisHost \in Listed /\ Listed \subseteq Hosts
  BY <1>1, ListedHosts DEF ThisHost
<1> QED
  BY <1>2, SlotFacts

LEMMA FindFacts ==
    ASSUME TypeInv, KickOffFind
    PROVE  /\ pc = "find" /\ pc' = "assign"
           /\ pos.index \in DOMAIN hostWorkers
           /\ UNCHANGED <<trackerVars, linkVars, jobVars, pos, sceneVars, msgQ, planVars>>
           /\ TypeInv'
<1>1. /\ pc = "find" /\ pc' = "assign"
      /\ pos.index <= Len(hostWorkers) /\ batch' = <<>>
      /\ UNCHANGED <<trackerVars, linkVars, jobVars, pos, sceneVars, msgQ, order>>
  BY DEF KickOffFind
<1>2. /\ pos.pipe = 0 /\ batch = <<>> /\ pos.index \in Nat \ {0}
      /\ pos \in [round : {1}, index : Nat \ {0}, pipe : Nat]
  BY <1>1 DEF TypeInv, PlaceOK
<1>3. pos.index \in DOMAIN hostWorkers
  <2>1. hostWorkers \in Seq(Hosts)
    BY DEF TypeInv, TrackerTypeOK
  <2> QED
    BY <1>1, <1>2, <2>1
<1>4. TrackerTypeOK' /\ LinksOK' /\ QueueOK'
  BY <1>1, TrackerKept, LinksKept, QueueKept
<1>5. CountsOK' /\ LifeOK' /\ ChunksOK'
  BY <1>1 DEF TypeInv, CountsOK, LifeOK, ChunksOK, Handed, Accepted
<1>6. PlaceOK'
  <2>1. ThisHost' = ThisHost /\ 0 \in Pipelines(ThisHost)
    BY <1>1, <1>3, HostFacts DEF ThisHost
  <2>2. batch' \in Seq([tag : Tags, off : Nat, cnt : Nat]) /\ Len(batch') = 0
    BY <1>1
  <2> QED
    BY <1>1, <1>2, <1>3, <2>1, <2>2 DEF PlaceOK
<1>7. QuietOK'
  BY <1>1 DEF TypeInv, QuietOK, Accepted
<1> QED
  BY <1>1, <1>2, <1>3, <1>4, <1>5, <1>6, <1>7 DEF TypeInv

\* The next chunk.
LEMMA NextChunkFacts ==
    ASSUME TypeInv, pc = "assign"
    PROVE  /\ NextChunk = Handed + 1 /\ Handed \in Nat
           /\ workload \in Nat \ {0}
           /\ NextChunk <= Len(order) =>
                  ChunkOf(NextChunk) \in Jobs /\ order[NextChunk] \in Nat
           /\ current' = current + workload /\ workload' = workload =>
                  Handed' = Handed + 1 /\ current' = Handed' * workload
<1>1. /\ workload \in Nat \ {0} /\ Handed \in Nat /\ current = Handed * workload
      /\ order \in Seq(Nat)
  BY DEF TypeInv, ChunksOK, LifeOK, Accepted
<1>2. NextChunk = Handed + 1
  BY <1>1 DEF NextChunk, Handed
<1>3. ASSUME NextChunk <= Len(order)
      PROVE  ChunkOf(NextChunk) \in Jobs /\ order[NextChunk] \in Nat
  <2>1. NextChunk \in 1 .. Len(order)
    BY <1>1, <1>2, <1>3, LenProperties
  <2>2. order[NextChunk] \in Nat
    BY <1>1, <2>1, ElementOfSeq
  <2>3. order[NextChunk] * workload \in Nat
    BY <1>1, <2>2, Multiples
  <2> DEFINE off == order[NextChunk] * workload
             last == IF RandomChunks THEN order[NextChunk] = Len(order) - 1
                     ELSE NextChunk = Len(order)
  <2>4. off \in Nat
    BY <2>3
  <2>5. ChunkOf(NextChunk) =
            [off |-> off, cnt |-> IF last THEN (NumPixels - off) % UIntMod ELSE workload]
    BY DEF ChunkOf
  <2> HIDE DEF off, last
  <2>6. (NumPixels - off) % UIntMod \in Nat
    BY <2>4, TrackerAssumption
  <2> QED
    BY <1>1, <2>2, <2>4, <2>5, <2>6 DEF Jobs
<1>4. ASSUME current' = current + workload, workload' = workload
      PROVE  Handed' = Handed + 1 /\ current' = Handed' * workload
  <2>1. current' = (Handed + 1) * workload
    BY <1>1, <1>4, Multiples
  <2>2. Handed' = current' \div workload
    BY <1>1, <1>4 DEF Handed
  <2>3. ((Handed + 1) * workload) \div workload = Handed + 1
    BY <1>1, Multiples
  <2> QED
    BY <2>1, <2>2, <2>3
<1> QED
  BY <1>1, <1>2, <1>3, <1>4

ThisSlot == <<ThisHost, pos.pipe>>

NextJob == ChunkOf(NextChunk)

NextTag == Head(freeTags[ThisHost])

NextEntry == [tag |-> NextTag, off |-> NextJob.off, cnt |-> NextJob.cnt]

LEMMA AssignFacts ==
    ASSUME TypeInv, KickOffAssign
    PROVE  /\ pc = "assign" /\ pc' \in {"assign", "send"}
           /\ ThisHost \in Hosts /\ ThisHost \in Listed /\ ThisSlot \in Slots
           /\ freeTags[ThisHost] \in Seq(Tags) /\ freeTags[ThisHost] # <<>>
           /\ NextTag \in Tags /\ NextJob \in Jobs
           /\ NextChunk = Handed + 1 /\ NextChunk \in 1 .. Len(order)
           /\ freeTags' = [freeTags EXCEPT ![ThisHost] = Tail(@)]
           /\ routed' = [routed EXCEPT ![ThisHost] = @ \cup {NextTag}]
           /\ tracked' = [tracked EXCEPT ![ThisSlot] = @ \cup {NextJob}]
           /\ pending' = (pending + 1) % UIntMod
           /\ Handed' = Handed + 1 /\ current' = current + workload
           /\ batch' = Append(batch, NextEntry) /\ Len(batch) = pos.pipe
           /\ batch \in Seq([tag : Tags, off : Nat, cnt : Nat])
           /\ NextEntry \in [tag : Tags, off : Nat, cnt : Nat]
           /\ ThisHost' = ThisHost
           /\ pos'.index = pos.index
           /\ UNCHANGED <<hostWorkers, lookup, total, maxRate, link, todo, briefed,
                          shipped, wireVars, workload, failed, sceneVars, msgQ, order>>
           /\ TypeInv'
<1>1. /\ pc = "assign"
      /\ NextChunk <= Len(order) /\ freeTags[ThisHost] # <<>>
      /\ freeTags' = [freeTags EXCEPT ![ThisHost] = Tail(@)]
      /\ routed' = [routed EXCEPT ![ThisHost] = @ \cup {NextTag}]
      /\ tracked' = [tracked EXCEPT ![ThisSlot] = @ \cup {NextJob}]
      /\ pending' = (pending + 1) % UIntMod
      /\ current' = current + workload
      /\ batch' = Append(batch, NextEntry)
      /\ UNCHANGED <<hostWorkers, lookup, total, maxRate, link, todo, briefed,
                     shipped, wireVars, workload, failed, sceneVars, msgQ, order>>
  BY DEF KickOffAssign, TrackJob, AllocateAppTag, Counted, ThisSlot, NextJob, NextTag,
         NextEntry
<1>2. \/ pos.pipe + 1 < NumPipelines[ThisHost] /\ current' < NumPixels
         /\ pos' = [pos EXCEPT !.pipe = @ + 1] /\ pc' = pc
      \/ (pos.pipe + 1 >= NumPipelines[ThisHost] \/ current' >= NumPixels)
         /\ pc' = "send" /\ pos' = pos
  BY DEF KickOffAssign
<1>3. /\ pos.index \in DOMAIN hostWorkers /\ pos.pipe \in Pipelines(ThisHost)
      /\ Len(batch) = pos.pipe /\ batch \in Seq([tag : Tags, off : Nat, cnt : Nat])
      /\ pos \in [round : {1}, index : Nat \ {0}, pipe : Nat]
  BY <1>1 DEF TypeInv, PlaceOK
<1>4. ThisHost \in Hosts /\ ThisHost \in Listed /\ NumPipelines[ThisHost] \in Nat \ {0}
  BY <1>3, HostFacts
<1>5. ThisSlot \in Slots
  BY <1>3, <1>4, SlotFacts DEF ThisSlot
<1>6. /\ freeTags \in [Hosts -> Seq(Tags)] /\ routed \in [Hosts -> SUBSET Tags]
      /\ freeTags[ThisHost] \in Seq(Tags)
  BY <1>4 DEF TypeInv, LinksOK
<1>7. NextTag \in Tags /\ Tail(freeTags[ThisHost]) \in Seq(Tags)
  BY <1>1, <1>6, HeadTailProperties DEF NextTag
<1>8. /\ NextChunk = Handed + 1 /\ Handed \in Nat /\ NextJob \in Jobs
      /\ Handed' = Handed + 1 /\ current' = Handed' * workload
      /\ workload \in Nat \ {0} /\ order \in Seq(Nat)
  BY <1>1, NextChunkFacts DEF NextJob, TypeInv, ChunksOK
<1>9. NextChunk \in 1 .. Len(order)
  BY <1>1, <1>8, LenProperties
<1>10. NextEntry \in [tag : Tags, off : Nat, cnt : Nat]
  BY <1>7, <1>8 DEF NextEntry, Jobs
<1>11. ThisHost' = ThisHost /\ pos'.index = pos.index
  BY <1>1, <1>2, <1>3 DEF ThisHost
<1>12. TrackerTypeOK'
  BY <1>1, <1>5, <1>8 DEF TypeInv, TrackerTypeOK
<1>13. LinksOK'
  BY <1>1, <1>4, <1>6, <1>7 DEF TypeInv, LinksOK
<1>14. QueueOK' /\ LifeOK'
  BY <1>1, <1>2, QueueKept DEF TypeInv, LifeOK
<1>15. CountsOK'
  <2>1. (pending + 1) % UIntMod \in 0 .. UIntMod - 1
    <3>1. pending \in 0 .. UIntMod - 1
      BY DEF TypeInv, CountsOK
    <3>2. UIntMod \in Nat \ {0}
      BY TrackerAssumption
    <3> QED
      BY <3>1, <3>2
  <2> QED
    BY <1>1, <2>1 DEF TypeInv, CountsOK
<1>16. ChunksOK'
  <2>1. pc' = "assign" => current' < NumPixels
    BY <1>1, <1>2
  <2>2. pc' \in {"assign", "send"} /\ workload' = workload /\ order' = order
    BY <1>1, <1>2
  <2> QED
    BY <1>8, <2>1, <2>2 DEF ChunksOK
<1>17. PlaceOK'
  <2>1. /\ batch' \in Seq([tag : Tags, off : Nat, cnt : Nat])
        /\ Len(batch') = pos.pipe + 1
    BY <1>1, <1>3, <1>10, AppendProperties
  <2>2. pos.pipe + 1 < NumPipelines[ThisHost] => pos.pipe + 1 \in Pipelines(ThisHost)
    BY <1>3, <1>4 DEF Pipelines
  <2>3. hostWorkers' = hostWorkers /\ pos'.index \in DOMAIN hostWorkers
    BY <1>1, <1>3, <1>11
  <2>4. CASE pos' = [pos EXCEPT !.pipe = @ + 1] /\ pc' = "assign"
             /\ pos.pipe + 1 < NumPipelines[ThisHost]
    <3>1. pos' \in [round : {1}, index : Nat \ {0}, pipe : Nat] /\ pos'.pipe = pos.pipe + 1
      BY <1>3, <2>4
    <3> QED
      BY <1>11, <2>1, <2>2, <2>3, <2>4, <3>1 DEF PlaceOK
  <2>5. CASE pos' = pos /\ pc' = "send"
             /\ (pos.pipe + 1 >= NumPipelines[ThisHost] \/ current' >= NumPixels)
    <3>1. current' < NumPixels => pos.pipe + 1 = NumPipelines[ThisHost]
      <4>1. current' \in Nat /\ NumPixels \in Nat
        BY <1>8, TrackerAssumption
      <4>2. pos.pipe < NumPipelines[ThisHost] /\ pos.pipe \in Nat
        BY <1>3, <1>4 DEF Pipelines
      <4> QED
        BY <1>4, <2>5, <4>1, <4>2
    <3> QED
      BY <1>3, <1>11, <2>1, <2>3, <2>5, <3>1 DEF PlaceOK
  <2> QED
    BY <1>1, <1>2, <2>4, <2>5
<1>18. pc' \in {"assign", "send"}
  BY <1>1, <1>2
<1>19. QuietOK'
  BY <1>1 DEF TypeInv, LifeOK, QuietOK, Accepted
<1> QED
  BY <1>1, <1>3, <1>4, <1>5, <1>6, <1>7, <1>8, <1>9, <1>10, <1>11, <1>12, <1>13,
     <1>14, <1>15, <1>16, <1>17, <1>18, <1>19 DEF TypeInv

\* The message goes to the pipelines of its host.
LEMMA SendFacts ==
    ASSUME TypeInv, KickOffSend
    PROVE  /\ pc = "send" /\ pos.index \in DOMAIN hostWorkers
           /\ ThisHost \in Hosts /\ ThisHost \in Listed
           /\ todo' = [s \in Slots |-> IF s[1] = ThisHost /\ link[ThisHost] = "up"
                           THEN Append(todo[s], IF s[2] < Len(batch) THEN batch[s[2] + 1]
                                                ELSE NoWork)
                           ELSE todo[s]]
           /\ batch \in Seq([tag : Tags, off : Nat, cnt : Nat])
           /\ \A s \in Slots : (IF s[2] < Len(batch) THEN batch[s[2] + 1] ELSE NoWork) \in Entries
           /\ Len(batch) <= NumPipelines[ThisHost]
           /\ batch' = <<>>
           /\ \/ /\ current >= NumPixels /\ pc' = "idle" /\ ack' = "accepted"
              \/ /\ current < NumPixels /\ pc' = "find" /\ ack' = ack
                 /\ pos'.index = pos.index + 1
                 /\ Len(batch) = NumPipelines[ThisHost]
           /\ UNCHANGED <<trackerVars, link, freeTags, routed, briefed, shipped, wireVars,
                          jobVars, scene, cleaned, fault, msgQ, order>>
           /\ TypeInv'
<1> DEFINE RequestFor(p) == IF p < Len(batch) THEN batch[p + 1] ELSE NoWork
<1>1. /\ pc = "send"
      /\ todo' = [s \in Slots |-> IF s[1] = ThisHost /\ link[ThisHost] = "up"
                      THEN Append(todo[s], RequestFor(s[2])) ELSE todo[s]]
      /\ batch' = <<>>
      /\ \/ current >= NumPixels /\ pc' = "idle" /\ pos' = Base!Start /\ ack' = "accepted"
         \/ ~(current >= NumPixels) /\ pc' = "find" /\ pos' = NextWorker /\ ack' = ack
      /\ UNCHANGED <<trackerVars, link, freeTags, routed, briefed, shipped, wireVars,
                     jobVars, scene, cleaned, fault, msgQ, order>>
  BY DEF KickOffSend
<1>2. /\ pos.index \in DOMAIN hostWorkers /\ pos.pipe \in Pipelines(ThisHost)
      /\ batch \in Seq([tag : Tags, off : Nat, cnt : Nat])
      /\ Len(batch) = pos.pipe + 1
      /\ current < NumPixels => Len(batch) = NumPipelines[ThisHost]
      /\ pos \in [round : {1}, index : Nat \ {0}, pipe : Nat]
  BY <1>1 DEF TypeInv, PlaceOK
<1>3. ThisHost \in Hosts /\ ThisHost \in Listed /\ NumPipelines[ThisHost] \in Nat \ {0}
  BY <1>2, HostFacts
<1>4. current \in Nat /\ NumPixels \in Nat
  BY TrackerAssumption, TypesAreTypes DEF TypeOK
<1>5. \A s \in Slots : RequestFor(s[2]) \in Entries
  <2>1. NoWork \in Entries
    BY DEF NoWork, Entries
  <2>2. ASSUME NEW s \in Slots, s[2] < Len(batch) PROVE batch[s[2] + 1] \in Entries
    <3>1. s[2] \in Nat /\ Len(batch) \in Nat
      BY <1>2, SlotFacts, LenProperties
    <3>2. s[2] + 1 \in 1 .. Len(batch)
      BY <2>2, <3>1
    <3>3. batch[s[2] + 1] \in [tag : Tags, off : Nat, cnt : Nat]
      BY <1>2, <3>2, ElementOfSeq
    <3> QED
      BY <3>3 DEF Entries
  <2> QED
    BY <2>1, <2>2
<1>6. Len(batch) <= NumPipelines[ThisHost]
  BY <1>2, <1>3 DEF Pipelines
<1> HIDE DEF RequestFor
<1>7. todo' \in [Slots -> Seq(Entries)]
  <2>1. \A s \in Slots : Append(todo[s], RequestFor(s[2])) \in Seq(Entries)
    BY <1>5, AppendProperties DEF TypeInv, LinksOK
  <2> QED
    BY <1>1, <2>1 DEF TypeInv, LinksOK
<1>8. LinksOK'
  BY <1>1, <1>7 DEF TypeInv, LinksOK
<1>9. TrackerTypeOK' /\ QueueOK'
  BY <1>1, TrackerKept, QueueKept
<1>10. CountsOK' /\ LifeOK'
  BY <1>1 DEF TypeInv, CountsOK, LifeOK
<1>11. ChunksOK'
  <2>1. pc' = "find" => current' < NumPixels
    BY <1>1, <1>4
  <2>2. pc' \in {"idle", "find"}
    BY <1>1
  <2> QED
    BY <1>1, <2>1, <2>2 DEF TypeInv, ChunksOK, Handed, Accepted
<1>12. PlaceOK'
  <2>1. ASSUME NEW p, p = NextWorker
        PROVE  p \in [round : {1}, index : Nat \ {0}, pipe : Nat] /\ p.pipe = 0
    <3>1. p = [pos EXCEPT !.index = @ + 1, !.pipe = 0]
      BY <2>1 DEF NextWorker
    <3>2. p = [round |-> pos.round, index |-> pos.index + 1, pipe |-> 0]
      BY <1>2, <3>1
    <3>3. pos.round \in {1} /\ pos.index + 1 \in Nat \ {0}
      BY <1>2
    <3> QED
      BY <3>2, <3>3
  <2>2. Base!Start \in [round : {1}, index : Nat \ {0}, pipe : Nat] /\ Base!Start.pipe = 0
    BY DEF Base!Start
  <2>3. pos' = NextWorker \/ pos' = Base!Start
    BY <1>1
  <2>4. pos' \in [round : {1}, index : Nat \ {0}, pipe : Nat] /\ pos'.pipe = 0
    BY <2>1, <2>2, <2>3
  <2>5. batch' = <<>> /\ pc' \in {"idle", "find"}
    BY <1>1
  <2> QED
    BY <2>4, <2>5 DEF PlaceOK
<1>13. pc' = "find" => pos'.index = pos.index + 1
  BY <1>1, <1>2 DEF NextWorker
<1>14. \A s \in Slots : RequestFor(s[2]) = IF s[2] < Len(batch) THEN batch[s[2] + 1]
                                           ELSE NoWork
  BY DEF RequestFor
<1>15. QuietOK'
  BY <1>1 DEF TypeInv, LifeOK, QuietOK, Accepted
<1> QED
  BY <1>1, <1>2, <1>3, <1>4, <1>5, <1>6, <1>8, <1>9, <1>10, <1>11, <1>12, <1>13, <1>14,
     <1>15 DEF TypeInv

LEMMA EndFacts ==
    ASSUME TypeInv, KickOffEnd
    PROVE  /\ pc = "find" /\ pos.index > Len(hostWorkers)
           /\ pc' = "idle" /\ ack' = "accepted"
           /\ UNCHANGED <<trackerVars, linkVars, jobVars, scene, cleaned, fault, msgQ,
                          planVars>>
           /\ TypeInv'
<1>1. /\ pc = "find" /\ pos.index > Len(hostWorkers)
      /\ pc' = "idle" /\ ack' = "accepted" /\ pos' = Base!Start
      /\ UNCHANGED <<trackerVars, linkVars, jobVars, scene, cleaned, fault, msgQ,
                     planVars>>
  BY DEF KickOffEnd
<1>2. TrackerTypeOK' /\ LinksOK' /\ QueueOK'
  BY <1>1, TrackerKept, LinksKept, QueueKept
<1>3. CountsOK' /\ LifeOK'
  BY <1>1 DEF TypeInv, CountsOK, LifeOK
<1>4. ChunksOK'
  BY <1>1 DEF TypeInv, ChunksOK, Handed, Accepted
<1>5. PlaceOK'
  <2>1. Base!Start \in [round : {1}, index : Nat \ {0}, pipe : Nat] /\ Base!Start.pipe = 0
    BY DEF Base!Start
  <2>2. pos' = Base!Start /\ pc' = "idle" /\ batch' = batch /\ batch = <<>>
    BY <1>1 DEF TypeInv, PlaceOK
  <2> QED
    BY <2>1, <2>2 DEF PlaceOK
<1>6. QuietOK'
  BY <1>1 DEF TypeInv, QuietOK, Accepted
<1> QED
  BY <1>1, <1>2, <1>3, <1>4, <1>5, <1>6 DEF TypeInv

\* The process dies.
Dying ==
    UNCHANGED <<trackerVars, linkVars, jobVars, pc, pos, scene, ack, cleaned, msgQ, planVars>>

LEMMA DyingFacts ==
    ASSUME TypeInv,
           \/ KickOffDies \/ AnswerDies
           \/ (Base!AcceptDies \/ Base!ExceptionDies) /\ UNCHANGED planVars
    PROVE  fault = "none" /\ Dying /\ TypeInv'
<1>1. PICK f \in Base!Faults \cup {"no chunk"} :
          Base!Alive /\ Base!Die(f) /\ UNCHANGED planVars
  <2>1. KickOffFault \in Base!Faults \cup {"no chunk"}
    BY DEF KickOffFault, Base!Faults
  <2>2. AnswerFault \in Base!Faults
    BY DEF AnswerFault, Base!Faults
  <2> QED
    BY <2>1, <2>2 DEF KickOffDies, AnswerDies, Base!AcceptDies, Base!ExceptionDies, Base!Faults
<1> QED
  BY <1>1, DieFacts DEF Dying, Base!Alive

-----------------------------------------------------------------------------
(* What the dynamic scheduler calls its operations is the same, too        *)

LEMMA BaseTracker ==
    ASSUME NEW h
    PROVE  /\ Base!NotifyHostFailure(h) => NotifyHostFailure(h)
           /\ Base!AddWorker(h) => AddWorker(h)
           /\ Base!RemoveFailedJobs(h) => RemoveFailedJobs(h)
           /\ h \in Hosts => Base!JobsOf(h) = JobsOf(h)
           /\ \A F, J : Base!WithFailed(F, J) = WithFailed(F, J)
<1>1. Base!NotifyHostFailure(h) => NotifyHostFailure(h)
  BY BaseSame DEF Base!NotifyHostFailure, NotifyHostFailure
<1>2. Base!AddWorker(h) => AddWorker(h)
  BY DEF Base!AddWorker, AddWorker, Base!MinOf, MinOf
<1>3. Base!RemoveFailedJobs(h) => RemoveFailedJobs(h)
  BY BaseSame DEF Base!RemoveFailedJobs, RemoveFailedJobs, Base!RemoveHost, RemoveHost,
     Base!RemoveAt, RemoveAt, Base!trackerVars
<1>4. h \in Hosts => Base!JobsOf(h) = JobsOf(h)
  BY BaseSame DEF Base!JobsOf, JobsOf
<1>5. \A F, J : Base!WithFailed(F, J) = WithFailed(F, J)
  BY DEF Base!WithFailed, WithFailed
<1> QED
  BY <1>1, <1>2, <1>3, <1>4, <1>5

LEMMA BaseLinks ==
    /\ \A s \in Slots : Base!ShipSegment(s) => ShipSegment(s)
    /\ \A s \in Slots : Base!Respond(s) => Respond(s)
    /\ \A h : Base!Perish(h) => Perish(h)
    /\ \A h, job : Base!Deliver(h, job) => Deliver(h, job)
<1>1. ASSUME NEW s \in Slots, Base!ShipSegment(s) PROVE ShipSegment(s)
  BY <1>1 DEF Base!ShipSegment, ShipSegment
<1>2. ASSUME NEW s \in Slots, Base!Respond(s) PROVE Respond(s)
  BY <1>2 DEF Base!Respond, Respond, Base!Answerable, Answerable, Base!RemoveAt, RemoveAt
<1>3. ASSUME NEW h, Base!Perish(h) PROVE Perish(h)
  BY <1>3, BaseSame DEF Base!Perish, Perish
<1>4. ASSUME NEW h, NEW job, Base!Deliver(h, job) PROVE Deliver(h, job)
  BY <1>4 DEF Base!Deliver, Deliver
<1> QED
  BY <1>1, <1>2, <1>3, <1>4

-----------------------------------------------------------------------------
(* Answers                                                                 *)

\* The handling of an answer, up to what follows from it.
LEMMA AnswerFacts ==
    ASSUME TypeInv, HandleAnswer
    PROVE  /\ pc = "idle" /\ msgQ # <<>> /\ msgQ' = Tail(msgQ) /\ fault = "none"
           /\ Accepted
           /\ Head(msgQ) = msgQ[1] /\ 1 \in DOMAIN msgQ /\ AnswerAt(1)
           /\ Head(msgQ) \in Base!Answers /\ Head(msgQ).cmd = TRUE
           /\ Host \in Hosts /\ Host \in Listed /\ Head(msgQ).tag \in Tags
           /\ Head(msgQ).off \in Nat /\ Head(msgQ).cnt \in Nat
           /\ Base!AnswerSlot \in Slots /\ Base!AnswerSlot = <<Host, Head(msgQ).pipe>>
           /\ PendingAfter \in 0 .. UIntMod - 1
           /\ UNCHANGED <<current, workload, pc, pos, order, batch>>
           /\ QueueOK'
<1>1. /\ pc = "idle" /\ msgQ # <<>> /\ msgQ' = Tail(msgQ) /\ fault = "none"
      /\ Head(msgQ).kind = "answer" /\ Head(msgQ).cmd = TRUE /\ Host \in Listed
      /\ UNCHANGED <<current, workload, pc, pos, order, batch>>
  BY DEF HandleAnswer, Base!Handle, Base!Alive
<1>2. PendingAfter \in 0 .. UIntMod - 1
  <2>1. pending \in 0 .. UIntMod - 1
    BY DEF TypeInv, CountsOK
  <2>2. UIntMod \in Nat \ {0}
    BY TrackerAssumption
  <2>3. (pending - 1) % UIntMod \in 0 .. UIntMod - 1
    BY <2>1, <2>2
  <2> QED
    BY <2>3 DEF PendingAfter
<1>3. Accepted
  BY <1>1 DEF TypeInv, QuietOK
<1> QED
  BY <1>1, <1>2, <1>3, HeadFacts DEF AnswerAt

\* A tag comes back.
LEMMA FreedType ==
    ASSUME LinksOK, NEW h \in Hosts, NEW t \in Tags, FreeAppTag(h, t)
    PROVE  LinksOK'
<1>1. /\ freeTags' = [freeTags EXCEPT ![h] = Append(@, t)]
      /\ routed' = [routed EXCEPT ![h] = @ \ {t}]
      /\ UNCHANGED <<link, todo, briefed, shipped, wireVars>>
  BY DEF FreeAppTag
<1>2. Append(freeTags[h], t) \in Seq(Tags)
  BY AppendProperties DEF LinksOK
<1> QED
  BY <1>1, <1>2 DEF LinksOK

LEMMA AnsweredType ==
    ASSUME TypeInv, TrackerTypeOK', LinksOK', QueueOK', CountsOK',
           Accepted, scene' = scene \/ scene' = "finished",
           pc = "idle",
           UNCHANGED <<ack, current, workload, pc, pos, order, batch>>
    PROVE  TypeInv'
<1>1. LifeOK'
  BY DEF TypeInv, LifeOK, Accepted
<1>2. ChunksOK'
  BY DEF TypeInv, ChunksOK, Handed, Accepted
<1>3. PlaceOK' /\ QuietOK'
  BY DEF TypeInv, PlaceOK, QuietOK, Accepted
<1> QED
  BY <1>1, <1>2, <1>3 DEF TypeInv

LEMMA WaitFacts ==
    ASSUME TypeInv, AnswerThenWait
    PROVE  /\ HandleAnswer /\ failed = {} /\ ~Ends
           /\ NotifyJobDone(Base!AnswerSlot, Head(msgQ).off)
           /\ FreeAppTag(Host, Head(msgQ).tag)
           /\ pending' = PendingAfter
           /\ UNCHANGED <<failed, sceneVars>>
           /\ TypeInv'
<1>1. /\ HandleAnswer /\ failed = {} /\ ~Ends
      /\ NotifyJobDone(Base!AnswerSlot, Head(msgQ).off)
      /\ FreeAppTag(Host, Head(msgQ).tag)
      /\ pending' = PendingAfter
      /\ UNCHANGED <<failed, sceneVars>>
  BY DEF AnswerThenWait, FreeAnswersTag
<1>2. TrackerTypeOK' /\ LinksOK'
  BY <1>1, AnswerFacts, JobDoneType, FreedType DEF TypeInv
<1>3. CountsOK'
  BY <1>1, AnswerFacts DEF TypeInv, CountsOK
<1> QED
  BY <1>1, <1>2, <1>3, AnswerFacts, AnsweredType

LEMMA FinishFacts ==
    ASSUME TypeInv, AnswerThenFinish
    PROVE  /\ HandleAnswer /\ Ends
           /\ NotifyJobDone(Base!AnswerSlot, Head(msgQ).off)
           /\ FreeAppTag(Host, Head(msgQ).tag)
           /\ pending' = PendingAfter
           /\ cleaned' = Listed /\ scene' = "finished"
           /\ UNCHANGED <<failed, ack, fault>>
           /\ TypeInv'
<1>1. /\ HandleAnswer /\ Ends
      /\ NotifyJobDone(Base!AnswerSlot, Head(msgQ).off)
      /\ FreeAppTag(Host, Head(msgQ).tag)
      /\ pending' = PendingAfter
      /\ cleaned' = Listed /\ scene' = "finished"
      /\ UNCHANGED <<failed, ack, fault>>
  BY BaseSame DEF AnswerThenFinish, FreeAnswersTag
<1>2. TrackerTypeOK' /\ LinksOK'
  BY <1>1, AnswerFacts, JobDoneType, FreedType DEF TypeInv
<1>3. CountsOK'
  BY <1>1, AnswerFacts, ListedHosts DEF TypeInv, CountsOK
<1> QED
  BY <1>1, <1>2, <1>3, AnswerFacts, AnsweredType

\* The first of the failed jobs is one of them.
LEMMA FirstFailedFacts ==
    ASSUME failed \subseteq Jobs, failed # {}
    PROVE  Base!FirstFailed \in failed
<1> DEFINE T == {j.off : j \in failed}
<1>1. T \subseteq Nat /\ T # {}
  BY DEF Jobs
<1> HIDE DEF T
<1>2. PICK n \in T : \A m \in T : n <= m
  BY <1>1, LeastNumber
<1>3. \E j \in failed : \A k \in failed : j.off <= k.off
  BY <1>2 DEF T
<1> QED
  BY <1>3 DEF Base!FirstFailed

GivenJob == Base!FirstFailed

GivenTag == Head(freeTags[Host])

GivenEntry == [tag |-> GivenTag, off |-> GivenJob.off, cnt |-> GivenJob.cnt]

LEMMA RedispatchFacts ==
    ASSUME TypeInv, AnswerThenRedispatch
    PROVE  /\ HandleAnswer
           /\ freeTags[Host] # <<>> /\ freeTags[Host] \in Seq(Tags)
           /\ GivenJob \in failed /\ GivenJob \in Jobs
           /\ GivenTag \in Tags /\ GivenEntry \in Entries
           /\ tracked' = [Untracked(Base!AnswerSlot, Head(msgQ).off) EXCEPT
                              ![Base!AnswerSlot] = @ \cup {GivenJob}]
           /\ failed' = failed \ {GivenJob}
           /\ pending' = (PendingAfter + 1) % UIntMod
           /\ freeTags' = [freeTags EXCEPT ![Host] = Append(Tail(@), Head(msgQ).tag)]
           /\ routed' = [routed EXCEPT ![Host] = (@ \cup {GivenTag}) \ {Head(msgQ).tag}]
           /\ todo' = IF link[Host] = "up"
                      THEN [todo EXCEPT ![Base!AnswerSlot] = Append(@, GivenEntry)]
                      ELSE todo
           /\ UNCHANGED <<hostWorkers, lookup, total, maxRate, link, briefed, shipped,
                          wireVars, sceneVars>>
           /\ TypeInv'
<1>1. /\ HandleAnswer /\ failed # {}
      /\ freeTags[Host] # <<>>
      /\ tracked' = [Untracked(Base!AnswerSlot, Head(msgQ).off) EXCEPT
                         ![Base!AnswerSlot] = @ \cup {GivenJob}]
      /\ failed' = failed \ {GivenJob}
      /\ pending' = (PendingAfter + 1) % UIntMod
      /\ freeTags' = [freeTags EXCEPT ![Host] = Append(Tail(@), Head(msgQ).tag)]
      /\ routed' = [routed EXCEPT ![Host] = (@ \cup {GivenTag}) \ {Head(msgQ).tag}]
      /\ todo' = IF link[Host] = "up"
                 THEN [todo EXCEPT ![Base!AnswerSlot] = Append(@, GivenEntry)]
                 ELSE todo
      /\ UNCHANGED <<hostWorkers, lookup, total, maxRate, link, briefed, shipped,
                     wireVars, sceneVars>>
  BY DEF AnswerThenRedispatch, GivenJob, GivenTag, GivenEntry
<1>2. /\ Host \in Hosts /\ Head(msgQ).tag \in Tags /\ Base!AnswerSlot \in Slots
      /\ PendingAfter \in 0 .. UIntMod - 1
  BY <1>1, AnswerFacts
<1>3. /\ freeTags \in [Hosts -> Seq(Tags)] /\ routed \in [Hosts -> SUBSET Tags]
      /\ todo \in [Slots -> Seq(Entries)] /\ freeTags[Host] \in Seq(Tags)
      /\ failed \subseteq Jobs
  BY <1>2 DEF TypeInv, LinksOK, CountsOK
<1>4. GivenJob \in failed /\ GivenJob \in Jobs
  BY <1>1, <1>3, FirstFailedFacts DEF GivenJob
<1>5. GivenTag \in Tags /\ Tail(freeTags[Host]) \in Seq(Tags)
  BY <1>1, <1>3, HeadTailProperties DEF GivenTag
<1>6. GivenEntry \in Entries
  BY <1>4, <1>5 DEF GivenEntry, Entries, Jobs
<1>7. TrackerTypeOK'
  <2>1. Untracked(Base!AnswerSlot, Head(msgQ).off) \in [Slots -> SUBSET Jobs]
    BY <1>2, UntrackedType DEF TypeInv
  <2>2. tracked' \in [Slots -> SUBSET Jobs]
    BY <1>1, <1>2, <1>4, <2>1
  <2> QED
    BY <1>1, <2>2 DEF TypeInv, TrackerTypeOK
<1>8. LinksOK'
  <2>1. freeTags' \in [Hosts -> Seq(Tags)]
    BY <1>1, <1>2, <1>3, <1>5, AppendProperties
  <2>2. routed' \in [Hosts -> SUBSET Tags]
    BY <1>1, <1>2, <1>3, <1>5
  <2>3. todo' \in [Slots -> Seq(Entries)]
    BY <1>1, <1>2, <1>3, <1>6, AppendProperties
  <2> QED
    BY <1>1, <2>1, <2>2, <2>3 DEF TypeInv, LinksOK
<1>9. CountsOK'
  <2>1. (PendingAfter + 1) % UIntMod \in 0 .. UIntMod - 1
    <3>1. UIntMod \in Nat \ {0}
      BY TrackerAssumption
    <3> QED
      BY <1>2, <3>1
  <2> QED
    BY <1>1, <2>1 DEF TypeInv, CountsOK
<1> QED
  BY <1>1, <1>3, <1>4, <1>5, <1>6, <1>7, <1>8, <1>9, AnswerFacts, AnsweredType

-----------------------------------------------------------------------------
(* Exceptions                                                              *)

\* What is outside of the scheduler's own thread may move.
LEMMA OutsideType ==
    ASSUME TypeInv, TrackerTypeOK', LinksOK', QueueOK', CountsOK', QuietOK', Paused,
           pc # "idle" => \A i \in DOMAIN hostWorkers :
                              i \in DOMAIN hostWorkers' /\ hostWorkers'[i] = hostWorkers[i]
    PROVE  TypeInv'
<1>1. hostWorkers' \in Seq(Hosts)
  BY DEF TrackerTypeOK
<1> QED
  BY <1>1, PausedType DEF TypeInv

LEMMA HandleExceptionFacts ==
    ASSUME TypeInv, Base!HandleException, UNCHANGED planVars
    PROVE  /\ pc = "idle" /\ fault = "none" /\ Accepted
           /\ msgQ # <<>> /\ msgQ' = Tail(msgQ)
           /\ Head(msgQ) = msgQ[1] /\ 1 \in DOMAIN msgQ /\ ExceptionAt(1)
           /\ Host \in Hosts /\ Head(msgQ).cmd = TRUE
           /\ \/ /\ Host \in Listed
                 /\ failed' = WithFailed(failed, JobsOf(Host))
                 /\ tracked' = [s \in Slots |-> IF s[1] = Host THEN {} ELSE tracked[s]]
                 /\ RemoveHost(Host)
              \/ Host \notin Listed /\ UNCHANGED <<failed, hostWorkers, lookup, tracked>>
           /\ JobsOf(Host) \subseteq Jobs
           /\ UNCHANGED <<total, maxRate, linkVars, current, pending, workload, pc, pos,
                          sceneVars, planVars>>
           /\ TypeInv'
<1>1. /\ pc = "idle" /\ fault = "none"
      /\ msgQ # <<>> /\ msgQ' = Tail(msgQ) /\ Head(msgQ).kind = "exception"
      /\ Head(msgQ).cmd = TRUE
      /\ Host # NoHost
      /\ failed' = IF Host \in Listed THEN Base!WithFailed(failed, Base!JobsOf(Host)) ELSE failed
      /\ Base!RemoveFailedJobs(Host)
      /\ UNCHANGED <<linkVars, current, pending, workload, pc, pos, sceneVars, planVars>>
  BY BaseSame DEF Base!HandleException, Base!Handle, Base!Alive, Host, Base!linkVars,
     Base!wireVars
<1>2. /\ Host \in Hosts /\ Head(msgQ) = msgQ[1] /\ 1 \in DOMAIN msgQ /\ ExceptionAt(1)
      /\ QueueOK'
  BY <1>1, HeadFacts DEF ExceptionAt
<1>3. Accepted
  BY <1>1 DEF TypeInv, QuietOK
<1>4. /\ RemoveFailedJobs(Host)
      /\ failed' = IF Host \in Listed THEN WithFailed(failed, JobsOf(Host)) ELSE failed
  BY <1>1, <1>2, BaseTracker
<1>5. JobsOf(Host) \subseteq Jobs
  <2>1. tracked \in [Slots -> SUBSET Jobs]
    BY DEF TypeInv, TrackerTypeOK
  <2>2. \A p \in Pipelines(Host) : <<Host, p>> \in Slots
    BY <1>2, SlotFacts
  <2> QED
    BY <2>1, <2>2 DEF JobsOf
<1>6. /\ \/ /\ Host \in Listed
            /\ failed' = WithFailed(failed, JobsOf(Host))
            /\ tracked' = [s \in Slots |-> IF s[1] = Host THEN {} ELSE tracked[s]]
            /\ RemoveHost(Host)
         \/ Host \notin Listed /\ UNCHANGED <<failed, hostWorkers, lookup, tracked>>
      /\ UNCHANGED <<total, maxRate>>
  BY <1>4 DEF RemoveFailedJobs
<1>7. TrackerTypeOK'
  <2>1. CASE Host \in Listed
    <3>1. hostWorkers' \in Seq(Hosts) /\ lookup' \in SUBSET Hosts
      BY <1>6, <2>1, RemoveHostFacts DEF TypeInv
    <3>2. tracked' \in [Slots -> SUBSET Jobs]
      BY <1>6, <2>1 DEF TypeInv, TrackerTypeOK
    <3> QED
      BY <1>6, <2>1, <3>1, <3>2 DEF TypeInv, TrackerTypeOK
  <2>2. CASE Host \notin Listed
    BY <1>6, <2>2 DEF TypeInv, TrackerTypeOK
  <2> QED
    BY <2>1, <2>2
<1>8. LinksOK'
  BY <1>1, LinksKept
<1>9. CountsOK'
  <2>1. failed' \subseteq Jobs
    BY <1>5, <1>6 DEF WithFailed, TypeInv, CountsOK
  <2> QED
    BY <1>1, <2>1 DEF TypeInv, CountsOK
<1>10. QuietOK' /\ Paused
  BY <1>1, <1>3 DEF QuietOK, Accepted, Paused
<1>11. TypeInv'
  BY <1>1, <1>2, <1>7, <1>8, <1>9, <1>10, OutsideType
<1> QED
  BY <1>1, <1>2, <1>3, <1>5, <1>6, <1>11

\* The exception that Close puts into the queue for every tag.
ClosingException(h) ==
    [kind |-> "exception", cmd |-> scene = "running",
     host |-> IF link[h] # "closed" THEN h ELSE NoHost]

LEMMA CloseFacts ==
    ASSUME TypeInv, NEW h \in Hosts, NEW q \in Seq(Queued),
           q = msgQ \/ (msgQ # <<>> /\ q = Tail(msgQ)),
           Base!Close(h, q)
    PROVE  /\ link' = [link EXCEPT ![h] = "closed"]
           /\ routed' = [routed EXCEPT ![h] = {}]
           /\ UNCHANGED <<freeTags, todo, briefed, shipped, wireVars>>
           /\ Grown(msgQ', q, ClosingException(h)) /\ Len(msgQ') >= Len(q)
           /\ routed[h] = {} => msgQ' = q
           /\ LinksOK' /\ QueueOK'
<1> DEFINE n == Cardinality(routed[h])
<1>1. /\ link' = [link EXCEPT ![h] = "closed"]
      /\ routed' = [routed EXCEPT ![h] = {}]
      /\ UNCHANGED <<freeTags, todo, briefed, shipped, wireVars>>
      /\ msgQ' = q \o Base!ExceptionEntries(h)
  BY DEF Base!Close, Base!Enqueue, Base!wireVars
<1>2. Base!ExceptionEntries(h) = Times(ClosingException(h), n)
  BY BaseSame DEF Base!ExceptionEntries, Times, ClosingException, Base!Attached, Connected
<1>3. n \in Nat /\ (routed[h] = {} => n = 0)
  <2>1. routed[h] \in SUBSET (1 .. NumTags)
    BY DEF TypeInv, LinksOK, Tags
  <2>2. IsFiniteSet(1 .. NumTags)
    BY FS_Interval, LinkAssumption
  <2>3. IsFiniteSet(routed[h])
    BY <2>1, <2>2, FS_Subset
  <2> QED
    BY <2>3, FS_CardinalityType, FS_EmptySet
<1>4. ClosingException(h) \in Base!Exceptions
  BY DEF ClosingException, Base!Exceptions
<1> HIDE DEF n
<1>5. msgQ' = q \o Times(ClosingException(h), n)
  BY <1>1, <1>2
<1>6. QueueOK' /\ Len(msgQ') = Len(q) + n /\ Grown(msgQ', q, ClosingException(h))
  BY <1>3, <1>4, <1>5, QueueGrown
<1>7. Len(msgQ') >= Len(q)
  <2>1. Len(q) \in Nat
    BY LenProperties
  <2> QED
    BY <1>3, <1>6, <2>1
<1>8. routed[h] = {} => msgQ' = q
  <2>1. ASSUME n = 0 PROVE Times(ClosingException(h), n) = <<>>
    BY <2>1 DEF Times
  <2> QED
    BY <1>3, <1>5, <2>1, EmptySeq, ConcatEmptySeq
<1>9. LinksOK'
  BY <1>1 DEF TypeInv, LinksOK, LinkStates
<1> QED
  BY <1>1, <1>6, <1>7, <1>8, <1>9

LEMMA DetachedAnswerFacts ==
    ASSUME TypeInv, Base!HandleDetachedAnswer, UNCHANGED planVars
    PROVE  /\ pc = "idle" /\ fault = "none" /\ msgQ # <<>> /\ msgQ' = Tail(msgQ)
           /\ Head(msgQ) = msgQ[1] /\ 1 \in DOMAIN msgQ /\ AnswerAt(1)
           /\ Head(msgQ).cmd = FALSE
           /\ UNCHANGED <<trackerVars, linkVars, jobVars, pc, pos, sceneVars, planVars>>
           /\ TypeInv'
<1>1. /\ pc = "idle" /\ fault = "none" /\ msgQ # <<>> /\ msgQ' = Tail(msgQ)
      /\ Head(msgQ).kind = "answer" /\ Head(msgQ).cmd = FALSE
      /\ UNCHANGED <<trackerVars, linkVars, jobVars, pc, pos, sceneVars, planVars>>
  BY DEF Base!HandleDetachedAnswer, Base!Handle, Base!Alive, Base!trackerVars,
         Base!linkVars, Base!wireVars
<1>2. Head(msgQ) = msgQ[1] /\ 1 \in DOMAIN msgQ /\ QueueOK'
  BY <1>1, HeadFacts
<1>3. TrackerTypeOK' /\ LinksOK'
  BY <1>1, TrackerKept, LinksKept
<1>4. CountsOK' /\ Paused
  BY <1>1 DEF TypeInv, CountsOK, Paused
<1>5. QuietOK'
  BY <1>1 DEF TypeInv, QuietOK, Accepted
<1>6. TypeInv'
  BY <1>1, <1>2, <1>3, <1>4, <1>5, OutsideType
<1> QED
  BY <1>1, <1>2, <1>6 DEF AnswerAt

LEMMA DetachedExceptionFacts ==
    ASSUME TypeInv, Base!HandleDetachedException, UNCHANGED planVars
    PROVE  /\ pc = "idle" /\ fault = "none" /\ msgQ # <<>> /\ Accepted
           /\ Head(msgQ) = msgQ[1] /\ 1 \in DOMAIN msgQ /\ ExceptionAt(1)
           /\ Host \in Hosts /\ Head(msgQ).cmd = FALSE
           /\ NotifyHostFailure(Host)
           /\ link' = [link EXCEPT ![Host] = "closed"]
           /\ routed' = [routed EXCEPT ![Host] = {}]
           /\ Tail(msgQ) \in Seq(Queued)
           /\ Grown(msgQ', Tail(msgQ), ClosingException(Host)) /\ Len(msgQ') >= Len(Tail(msgQ))
           /\ UNCHANGED <<freeTags, todo, briefed, shipped, wireVars, jobVars, pc, pos,
                          sceneVars, planVars>>
           /\ TypeInv'
<1>1. /\ pc = "idle" /\ fault = "none" /\ msgQ # <<>>
      /\ Head(msgQ).kind = "exception" /\ Head(msgQ).cmd = FALSE
      /\ Host # NoHost
      /\ NotifyHostFailure(Host)
      /\ Base!Close(Host, Tail(msgQ))
      /\ UNCHANGED <<jobVars, pc, pos, sceneVars, planVars>>
  <2>1. /\ pc = "idle" /\ fault = "none" /\ msgQ # <<>>
        /\ Head(msgQ).kind = "exception" /\ ~Head(msgQ).cmd
        /\ Host # NoHost
        /\ Base!NotifyHostFailure(Host)
        /\ Base!Close(Host, Tail(msgQ))
        /\ UNCHANGED <<jobVars, pc, pos, sceneVars, planVars>>
    BY DEF Base!HandleDetachedException, Base!Alive, Host
  <2>2. Head(msgQ).cmd \in BOOLEAN
    BY <2>1, HeadFacts DEF Base!Exceptions
  <2> QED
    BY <2>1, <2>2, BaseTracker
<1>2. /\ Host \in Hosts /\ Head(msgQ) = msgQ[1] /\ 1 \in DOMAIN msgQ /\ ExceptionAt(1)
      /\ Tail(msgQ) \in Seq(Queued)
  BY <1>1, HeadFacts DEF ExceptionAt
<1>3. Accepted
  BY <1>1 DEF TypeInv, QuietOK
<1>4. /\ link' = [link EXCEPT ![Host] = "closed"]
      /\ routed' = [routed EXCEPT ![Host] = {}]
      /\ UNCHANGED <<freeTags, todo, briefed, shipped, wireVars>>
      /\ Grown(msgQ', Tail(msgQ), ClosingException(Host)) /\ Len(msgQ') >= Len(Tail(msgQ))
      /\ LinksOK' /\ QueueOK'
  BY <1>1, <1>2, CloseFacts
<1>5. TrackerTypeOK' /\ hostWorkers' = hostWorkers
  BY <1>1, <1>2, HostFailureType DEF TypeInv
<1>6. CountsOK' /\ Paused /\ QuietOK'
  BY <1>1, <1>3 DEF TypeInv, CountsOK, Paused, QuietOK, Accepted
<1>7. TypeInv'
  BY <1>1, <1>4, <1>5, <1>6, OutsideType
<1> QED
  BY <1>1, <1>2, <1>3, <1>4, <1>7

LEMMA NoteFacts ==
    ASSUME TypeInv, NEW h \in Hosts, Base!NoteFailure(h), UNCHANGED planVars
    PROVE  /\ fault = "none" /\ link[h] = "reported"
           /\ NotifyHostFailure(h)
           /\ link' = [link EXCEPT ![h] = "noted"]
           /\ UNCHANGED <<freeTags, routed, todo, briefed, shipped, wireVars, jobVars, pc, pos,
                          sceneVars, msgQ, planVars>>
           /\ TypeInv'
<1>1. /\ fault = "none" /\ link[h] = "reported"
      /\ NotifyHostFailure(h)
      /\ link' = [link EXCEPT ![h] = "noted"]
      /\ UNCHANGED <<freeTags, routed, todo, briefed, shipped, wireVars, jobVars, pc, pos,
                     sceneVars, msgQ, planVars>>
  BY BaseTracker DEF Base!NoteFailure, Base!Alive, Base!wireVars
<1>2. TrackerTypeOK' /\ hostWorkers' = hostWorkers
  BY <1>1, HostFailureType DEF TypeInv
<1>3. LinksOK'
  BY <1>1 DEF TypeInv, LinksOK, LinkStates
<1>4. QueueOK'
  BY <1>1, QueueKept
<1>5. CountsOK' /\ Paused /\ QuietOK'
  BY <1>1 DEF TypeInv, CountsOK, Paused, QuietOK, Accepted
<1> QED
  BY <1>1, <1>2, <1>3, <1>4, <1>5, OutsideType

LEMMA CloseConnectionFacts ==
    ASSUME TypeInv, NEW h \in Hosts, Base!CloseConnection(h), UNCHANGED planVars
    PROVE  /\ fault = "none" /\ link[h] = "noted"
           /\ link' = [link EXCEPT ![h] = "closed"]
           /\ routed' = [routed EXCEPT ![h] = {}]
           /\ Grown(msgQ', msgQ, ClosingException(h)) /\ Len(msgQ') >= Len(msgQ)
           /\ UNCHANGED <<trackerVars, freeTags, todo, briefed, shipped, wireVars, jobVars,
                          pc, pos, sceneVars, planVars>>
           /\ TypeInv'
<1>1. /\ fault = "none" /\ link[h] = "noted"
      /\ Base!Close(h, msgQ)
      /\ UNCHANGED <<trackerVars, jobVars, pc, pos, sceneVars, planVars>>
  BY DEF Base!CloseConnection, Base!Alive, Base!trackerVars
<1>2. msgQ \in Seq(Queued)
  BY DEF TypeInv, QueueOK
<1>3. /\ link' = [link EXCEPT ![h] = "closed"]
      /\ routed' = [routed EXCEPT ![h] = {}]
      /\ UNCHANGED <<freeTags, todo, briefed, shipped, wireVars>>
      /\ Grown(msgQ', msgQ, ClosingException(h)) /\ Len(msgQ') >= Len(msgQ)
      /\ routed[h] = {} => msgQ' = msgQ
      /\ LinksOK' /\ QueueOK'
  BY <1>1, <1>2, CloseFacts
<1>4. QuietOK'
  BY <1>1, <1>3 DEF TypeInv, LinksOK, QuietOK, Accepted
<1>5. CountsOK' /\ Paused /\ TrackerTypeOK'
  BY <1>1, TrackerKept DEF TypeInv, CountsOK, Paused
<1> QED
  BY <1>1, <1>3, <1>4, <1>5, OutsideType

-----------------------------------------------------------------------------
(* Connections, workers and the client                                     *)

\* The answer that a response becomes.
AnswerOf(h, r) ==
    [kind |-> "answer", cmd |-> scene = "running", host |-> h, pipe |-> r.pipe,
     tag |-> r.tag, off |-> r.off, cnt |-> r.cnt]

LEMMA ReceiveFacts ==
    ASSUME TypeInv, NEW h \in Hosts, Base!Receive(h), UNCHANGED planVars
    PROVE  /\ fault = "none" /\ link[h] \in {"up", "crashed"} /\ resp[h] # <<>>
           /\ Head(resp[h]) = resp[h][1] /\ 1 \in DOMAIN resp[h]
           /\ Head(resp[h]) \in Returns /\ Head(resp[h]).pipe \in Pipelines(h)
           /\ resp' = [resp EXCEPT ![h] = Tail(@)]
           /\ \/ /\ Head(resp[h]).tag \in routed[h] /\ Head(resp[h]).tag \in Tags
                 /\ AnswerOf(h, Head(resp[h])) \in Queued
                 /\ msgQ' = Append(msgQ, AnswerOf(h, Head(resp[h])))
              \/ /\ Head(resp[h]).tag \notin routed[h]
                 /\ msgQ' = msgQ
           /\ UNCHANGED <<trackerVars, link, freeTags, routed, todo, briefed, shipped,
                          segments, image, lost, jobVars, pc, pos, sceneVars, planVars>>
           /\ TypeInv'
<1> DEFINE r == Head(resp[h])
           m == AnswerOf(h, r)
<1>1. /\ fault = "none" /\ link[h] \in {"up", "crashed"} /\ resp[h] # <<>>
      /\ resp' = [resp EXCEPT ![h] = Tail(@)]
      /\ msgQ' = IF r.tag \in routed[h] THEN Append(msgQ, m) ELSE msgQ
      /\ UNCHANGED <<trackerVars, link, freeTags, routed, todo, briefed, shipped,
                     segments, image, lost, jobVars, pc, pos, sceneVars, planVars>>
  BY DEF Base!Receive, Base!Alive, Base!Attached, Base!trackerVars, AnswerOf
<1>2. resp \in [Hosts -> Seq(Returns)] /\ resp[h] \in Seq(Returns)
  BY DEF TypeInv, LinksOK
<1>3. /\ Tail(resp[h]) \in Seq(Returns)
      /\ r = resp[h][1] /\ 1 \in DOMAIN resp[h]
      /\ \A i \in DOMAIN Tail(resp[h]) :
             i + 1 \in DOMAIN resp[h] /\ Tail(resp[h])[i] = resp[h][i + 1]
  BY <1>1, <1>2, SeqTail
<1>4. r \in Returns
  BY <1>2, <1>3, ElementOfSeq
<1>5. r.pipe \in Pipelines(h)
  BY <1>3 DEF TypeInv, LinksOK
<1>6. routed[h] \subseteq Tags /\ msgQ \in Seq(Queued)
  BY DEF TypeInv, LinksOK, QueueOK
<1>7. r.tag \in routed[h] => m \in Queued
  <2>1. ASSUME r.tag \in Tags PROVE m \in Base!Answers
    BY <1>4, <2>1, BaseSame DEF AnswerOf, Base!Answers, Returns
  <2> QED
    BY <1>6, <2>1 DEF Queued
<1>8. m.kind = "answer" /\ m.host = h /\ m.pipe = r.pipe
  BY DEF AnswerOf
<1> HIDE DEF r, m
<1>9. QueueOK'
  <2>1. CASE r.tag \in routed[h]
    <3>1. /\ msgQ' \in Seq(Queued)
          /\ \A i \in DOMAIN msgQ' : (i \in DOMAIN msgQ /\ msgQ'[i] = msgQ[i]) \/ msgQ'[i] = m
      BY <1>1, <1>6, <1>7, <2>1, AppendFacts
    <3> QED
      BY <1>5, <1>8, <3>1 DEF TypeInv, QueueOK, AnswerAt
  <2>2. CASE r.tag \notin routed[h]
    BY <1>1, <2>2, QueueKept
  <2> QED
    BY <2>1, <2>2
<1>10. LinksOK'
  <2>1. resp' \in [Hosts -> Seq(Returns)]
    BY <1>1, <1>2, <1>3
  <2>2. ASSUME NEW g \in Hosts, NEW i \in DOMAIN resp'[g]
        PROVE  resp'[g][i].pipe \in Pipelines(g)
    <3>1. CASE g = h
      <4>1. resp'[g] = Tail(resp[h])
        BY <1>1, <1>2, <3>1
      <4> QED
        BY <1>3, <2>2, <3>1, <4>1 DEF TypeInv, LinksOK
    <3>2. CASE g # h
      <4>1. resp'[g] = resp[g]
        BY <1>1, <1>2, <3>2
      <4> QED
        BY <2>2, <4>1 DEF TypeInv, LinksOK
    <3> QED
      BY <3>1, <3>2
  <2> QED
    BY <1>1, <2>1, <2>2 DEF TypeInv, LinksOK
<1>11. QuietOK'
  BY <1>1 DEF TypeInv, QuietOK, Accepted
<1>12. TrackerTypeOK' /\ CountsOK' /\ Paused
  BY <1>1, TrackerKept DEF TypeInv, CountsOK, Paused
<1>13. TypeInv'
  BY <1>1, <1>9, <1>10, <1>11, <1>12, OutsideType
<1> QED
  BY <1>1, <1>3, <1>4, <1>5, <1>6, <1>7, <1>13 DEF r, m

LEMMA ReportFacts ==
    ASSUME TypeInv, NEW h \in Hosts, Base!ReportException(h), UNCHANGED planVars
    PROVE  /\ fault = "none" /\ link[h] = "crashed" /\ resp[h] = <<>>
           /\ link' = [link EXCEPT ![h] = "reported"]
           /\ UNCHANGED <<trackerVars, freeTags, routed, todo, briefed, shipped, wireVars,
                          jobVars, pc, pos, sceneVars, msgQ, planVars>>
           /\ TypeInv'
<1>1. /\ fault = "none" /\ link[h] = "crashed" /\ resp[h] = <<>>
      /\ link' = [link EXCEPT ![h] = "reported"]
      /\ UNCHANGED <<trackerVars, freeTags, routed, todo, briefed, shipped, wireVars,
                     jobVars, pc, pos, sceneVars, msgQ, planVars>>
  BY DEF Base!ReportException, Base!Alive, Base!trackerVars, Base!wireVars
<1>2. LinksOK'
  BY <1>1 DEF TypeInv, LinksOK, LinkStates
<1>3. QuietOK' /\ CountsOK' /\ Paused
  BY <1>1 DEF TypeInv, QuietOK, Accepted, CountsOK, Paused
<1>4. TrackerTypeOK' /\ QueueOK'
  BY <1>1, TrackerKept, QueueKept
<1> QED
  BY <1>1, <1>2, <1>3, <1>4, OutsideType

LEMMA RegisterFacts ==
    ASSUME TypeInv, NEW h \in Hosts, Base!RegisterWorker(h), UNCHANGED planVars
    PROVE  /\ fault = "none" /\ link[h] = "absent"
           /\ link' = [link EXCEPT ![h] = "up"]
           /\ hostWorkers' = Append(hostWorkers, h)
           /\ total' = (total + NumPipelines[h]) % UIntMod
           /\ UNCHANGED <<tracked, freeTags, routed, todo, briefed, shipped, wireVars,
                          jobVars, pc, pos, sceneVars, msgQ, planVars>>
           /\ TypeInv'
<1>1. /\ fault = "none" /\ link[h] = "absent"
      /\ link' = [link EXCEPT ![h] = "up"]
      /\ AddWorker(h)
      /\ UNCHANGED <<freeTags, routed, todo, briefed, shipped, wireVars,
                     jobVars, pc, pos, sceneVars, msgQ, planVars>>
  BY BaseTracker DEF Base!RegisterWorker, Base!Alive, Base!wireVars
<1>2. /\ hostWorkers' = Append(hostWorkers, h) /\ lookup' = lookup \cup {h}
      /\ total' = (total + NumPipelines[h]) % UIntMod
      /\ maxRate' = MinOf(maxRate, ProductionTime[h]) /\ tracked' = tracked
  BY <1>1 DEF AddWorker
<1>3. TrackerTypeOK'
  <2>1. total \in 0 .. UIntMod - 1 /\ UIntMod \in Nat \ {0} /\ NumPipelines[h] \in Nat
    BY TrackerAssumption DEF TypeInv, TrackerTypeOK
  <2>2. (total + NumPipelines[h]) % UIntMod \in 0 .. UIntMod - 1
    BY <2>1
  <2>3. maxRate' \in Nat \ {0}
    BY <1>2, TrackerAssumption DEF MinOf, TypeInv, TrackerTypeOK
  <2> QED
    BY <1>2, <2>2, <2>3 DEF TypeInv, TrackerTypeOK
<1>4. LinksOK'
  BY <1>1 DEF TypeInv, LinksOK, LinkStates
<1>5. \A i \in DOMAIN hostWorkers : i \in DOMAIN hostWorkers' /\ hostWorkers'[i] = hostWorkers[i]
  <2>1. hostWorkers \in Seq(Hosts)
    BY DEF TypeInv, TrackerTypeOK
  <2> QED
    BY <1>2, <2>1
<1>6. QuietOK' /\ CountsOK' /\ Paused /\ QueueOK'
  BY <1>1, QueueKept DEF TypeInv, QuietOK, Accepted, CountsOK, Paused
<1> QED
  BY <1>1, <1>2, <1>3, <1>4, <1>5, <1>6, OutsideType

\* What the master has is not touched by workers and clients.
MasterKept ==
    UNCHANGED <<trackerVars, freeTags, routed, briefed, jobVars, pc, pos, sceneVars, msgQ,
                planVars>>

LEMMA MasterKeptType ==
    ASSUME TypeInv, MasterKept, LinksOK'
    PROVE  TypeInv'
<1>1. TrackerTypeOK' /\ QueueOK'
  BY TrackerKept, QueueKept DEF MasterKept
<1>2. CountsOK' /\ Paused /\ QuietOK'
  BY DEF TypeInv, CountsOK, Paused, QuietOK, Accepted, MasterKept
<1>3. hostWorkers' = hostWorkers
  BY DEF MasterKept
<1> QED
  BY <1>1, <1>2, <1>3, OutsideType

\* The death of a worker cuts off its responses and some of its segments.
LEMMA PerishFacts ==
    ASSUME TypeInv, NEW h \in Hosts, link[h] = "up",
           Base!WorkerDies(h) \/ (\E s \in Slots : s[1] = h /\ Base!Worker(s)
                                                   /\ Base!ProduceUnknownScene(s)),
           UNCHANGED planVars
    PROVE  /\ link' = [link EXCEPT ![h] = "crashed"]
           /\ \A g \in Hosts : \A i \in DOMAIN resp'[g] :
                  i \in DOMAIN resp[g] /\ resp'[g][i] = resp[g][i]
           /\ todo' = [s \in Slots |-> IF s[1] = h THEN <<>> ELSE todo[s]]
           /\ shipped' = [s \in Slots |-> s[1] # h /\ shipped[s]]
           /\ Base!Shipped' = Base!Shipped
           /\ MasterKept
           /\ TypeInv'
<1>1. Perish(h) /\ UNCHANGED <<trackerVars, jobVars, pc, pos, sceneVars, msgQ, planVars>>
  BY BaseLinks DEF Base!WorkerDies, Base!Crash, Base!Worker, Base!ProduceUnknownScene,
                   Base!trackerVars
<1>2. /\ link' = [link EXCEPT ![h] = "crashed"]
      /\ todo' = [s \in Slots |-> IF s[1] = h THEN <<>> ELSE todo[s]]
      /\ shipped' = [s \in Slots |-> s[1] # h /\ shipped[s]]
      /\ UNCHANGED <<freeTags, routed, briefed, image>>
  BY <1>1 DEF Perish
<1>3. PICK n \in 0 .. Len(resp[h]) : resp' = [resp EXCEPT ![h] = SubSeq(@, 1, n)]
  BY <1>1 DEF Perish
<1>4. /\ resp \in [Hosts -> Seq(Returns)] /\ resp[h] \in Seq(Returns)
      /\ Len(resp[h]) \in Nat
      /\ DOMAIN resp[h] = 1 .. Len(resp[h])
  BY LenProperties DEF TypeInv, LinksOK
<1>5. /\ SubSeq(resp[h], 1, n) \in Seq(Returns)
      /\ \A i \in DOMAIN SubSeq(resp[h], 1, n) :
             i \in DOMAIN resp[h] /\ SubSeq(resp[h], 1, n)[i] = resp[h][i]
  <2>1. n \in Int /\ \A i \in 1 .. n : resp[h][i] \in Returns
    BY <1>4, ElementOfSeq
  <2>2. /\ SubSeq(resp[h], 1, n) \in Seq(Returns)
        /\ Len(SubSeq(resp[h], 1, n)) = IF 1 <= n THEN n - 1 + 1 ELSE 0
        /\ \A i \in 1 .. n - 1 + 1 : SubSeq(resp[h], 1, n)[i] = resp[h][1 + i - 1]
    BY <2>1, SubSeqProperties
  <2>3. DOMAIN SubSeq(resp[h], 1, n) = 1 .. n
    BY <2>1, <2>2, LenProperties
  <2> QED
    BY <1>4, <2>2, <2>3
<1>6. /\ resp' \in [Hosts -> Seq(Returns)]
      /\ \A g \in Hosts : \A i \in DOMAIN resp'[g] :
             i \in DOMAIN resp[g] /\ resp'[g][i] = resp[g][i]
  BY <1>3, <1>4, <1>5
<1>7. PICK kept \in SUBSET segments[h] :
          /\ segments' = [segments EXCEPT ![h] = kept]
          /\ lost' = lost \cup (segments[h] \ kept)
  BY <1>1 DEF Perish
<1>8. segments \in [Hosts -> SUBSET Jobs] /\ lost \subseteq Jobs /\ image \subseteq Jobs
  BY DEF TypeInv, LinksOK
<1>9. LinksOK'
  <2>1. /\ segments' \in [Hosts -> SUBSET Jobs] /\ lost' \subseteq Jobs
        /\ image' \subseteq Jobs
    BY <1>2, <1>7, <1>8
  <2>2. link' \in [Hosts -> LinkStates] /\ shipped' \in [Slots -> BOOLEAN]
    BY <1>2 DEF TypeInv, LinksOK, LinkStates
  <2>3. todo' \in [Slots -> Seq(Entries)]
    BY <1>2 DEF TypeInv, LinksOK
  <2>4. \A g \in Hosts : \A i \in DOMAIN resp'[g] : resp'[g][i].pipe \in Pipelines(g)
    BY <1>6 DEF TypeInv, LinksOK
  <2> QED
    BY <1>2, <1>6, <2>1, <2>2, <2>3, <2>4 DEF TypeInv, LinksOK
<1>10. Base!Shipped' = Base!Shipped
  <2>1. \A g \in Hosts : segments'[g] = IF g = h THEN kept ELSE segments[g]
    BY <1>7, <1>8
  <2> DEFINE C == UNION {segments[g] : g \in Hosts}
             D == UNION {segments'[g] : g \in Hosts}
  <2>2. ASSUME NEW x PROVE x \in image' \cup lost' \cup D <=> x \in image \cup lost \cup C
    <3>1. CASE \E g \in Hosts : x \in segments'[g]
      BY <1>7, <2>1, <3>1
    <3>2. CASE x \in image' \cup lost'
      BY <1>2, <1>7, <3>2
    <3>3. ASSUME NEW g \in Hosts, x \in segments[g]
          PROVE  x \in image' \cup lost' \cup D
      <4>1. CASE g # h
        BY <2>1, <3>3, <4>1
      <4>2. CASE g = h /\ x \in kept
        BY <2>1, <4>2
      <4>3. CASE g = h /\ x \notin kept
        BY <1>7, <3>3, <4>3
      <4> QED
        BY <4>1, <4>2, <4>3
    <3>4. x \in image \cup lost => x \in image' \cup lost'
      BY <1>2, <1>7
    <3> QED
      BY <3>1, <3>2, <3>3, <3>4
  <2>3. Base!Shipped = image \cup lost \cup C /\ Base!Shipped' = image' \cup lost' \cup D
    BY DEF Base!Shipped
  <2> HIDE DEF C, D
  <2> QED
    BY <2>2, <2>3
<1>11. MasterKept
  BY <1>1, <1>2 DEF MasterKept
<1> QED
  BY <1>2, <1>6, <1>9, <1>10, <1>11, MasterKeptType

\* A job has been shipped when it is somewhere on the way to the client.
LEMMA ShippedJobs ==
    \A x : /\ x \in Base!Shipped <=> \/ x \in image \/ x \in lost
                                     \/ \E h \in Hosts : x \in segments[h]
           /\ x \in Base!Shipped' <=> \/ x \in image' \/ x \in lost'
                                      \/ \E h \in Hosts : x \in segments'[h]
BY DEF Base!Shipped

LEMMA ShipFacts ==
    ASSUME TypeInv, NEW s \in Slots, Base!Worker(s), Base!ShipSegment(s), UNCHANGED planVars
    PROVE  LET job == [off |-> todo[s][1].off, cnt |-> todo[s][1].cnt]
           IN  /\ link[s[1]] = "up" /\ todo[s] # <<>> /\ 1 \in DOMAIN todo[s]
               /\ todo[s][1].cnt # 0
               /\ shipped' = [shipped EXCEPT ![s] = TRUE]
               /\ Base!Shipped' = Base!Shipped \cup {job}
               /\ UNCHANGED <<link, todo, resp, image, lost>>
               /\ MasterKept
               /\ TypeInv'
<1> DEFINE job == [off |-> todo[s][1].off, cnt |-> todo[s][1].cnt]
<1>1. ShipSegment(s) /\ UNCHANGED <<trackerVars, jobVars, pc, pos, sceneVars, msgQ, planVars>>
  BY BaseLinks DEF Base!Worker, Base!trackerVars
<1>2. todo[s] \in Seq(Entries) /\ s[1] \in Hosts /\ segments \in [Hosts -> SUBSET Jobs]
  BY SlotFacts DEF TypeInv, LinksOK
<1>3. todo[s] # <<>>
  BY <1>1 DEF ShipSegment
<1>4. Head(todo[s]) = todo[s][1] /\ 1 \in DOMAIN todo[s] /\ todo[s][1] \in Entries
  BY <1>2, <1>3, SeqTail, ElementOfSeq
<1>5. /\ link[s[1]] = "up" /\ todo[s][1].cnt # 0
      /\ shipped' = [shipped EXCEPT ![s] = TRUE]
      /\ segments' = [segments EXCEPT ![s[1]] = @ \cup {job}]
      /\ UNCHANGED <<link, freeTags, routed, todo, briefed, resp, image, lost>>
  BY <1>1, <1>4 DEF ShipSegment
<1>6. job \in Jobs
  BY <1>4 DEF Jobs, Entries
<1> HIDE DEF job
<1>7. LinksOK'
  <2>1. segments' \in [Hosts -> SUBSET Jobs] /\ shipped' \in [Slots -> BOOLEAN]
    BY <1>2, <1>5, <1>6 DEF TypeInv, LinksOK
  <2> QED
    BY <1>5, <2>1 DEF TypeInv, LinksOK
<1>8. Base!Shipped' = Base!Shipped \cup {job}
  <2>1. \A g \in Hosts : segments'[g] = IF g = s[1] THEN segments[g] \cup {job} ELSE segments[g]
    BY <1>2, <1>5
  <2>2. \A x : (\E g \in Hosts : x \in segments'[g]) <=>
                   (x = job \/ \E g \in Hosts : x \in segments[g])
    BY <1>2, <2>1
  <2>3. \A x : x \in Base!Shipped' <=> x \in Base!Shipped \/ x = job
    BY <1>5, <2>2, ShippedJobs
  <2> QED
    BY <2>3
<1>9. MasterKept
  BY <1>1, <1>5 DEF MasterKept
<1>10. TypeInv'
  BY <1>7, <1>9, MasterKeptType
<1> QED
  BY <1>3, <1>4, <1>5, <1>8, <1>9, <1>10 DEF job

LEMMA DeliverFacts ==
    ASSUME TypeInv, NEW h \in Hosts, Base!Client(h), UNCHANGED planVars
    PROVE  /\ Base!Shipped' = Base!Shipped
           /\ UNCHANGED <<link, todo, shipped, resp>>
           /\ MasterKept
           /\ TypeInv'
<1>1. /\ UNCHANGED <<trackerVars, jobVars, pc, pos, sceneVars, msgQ, planVars>>
      /\ \E job \in segments[h] : Deliver(h, job)
  BY BaseLinks DEF Base!Client, Base!trackerVars
<1>2. PICK job \in segments[h] : Deliver(h, job)
  BY <1>1
<1>3. /\ segments' = [segments EXCEPT ![h] = @ \ {job}]
      /\ image' = image \cup {job}
      /\ UNCHANGED <<link, freeTags, routed, todo, briefed, shipped, resp, lost>>
  BY <1>2 DEF Deliver
<1>4. segments \in [Hosts -> SUBSET Jobs] /\ image \subseteq Jobs /\ job \in Jobs
  BY DEF TypeInv, LinksOK
<1>5. LinksOK'
  <2>1. segments' \in [Hosts -> SUBSET Jobs] /\ image' \subseteq Jobs
    BY <1>3, <1>4
  <2> QED
    BY <1>3, <2>1 DEF TypeInv, LinksOK
<1>6. Base!Shipped' = Base!Shipped
  <2>1. \A g \in Hosts : segments'[g] = IF g = h THEN segments[g] \ {job} ELSE segments[g]
    BY <1>3, <1>4
  <2>2. \A x : (\E g \in Hosts : x \in segments[g]) <=>
                   (x = job \/ \E g \in Hosts : x \in segments'[g])
    BY <1>2, <2>1
  <2>3. \A x : x \in image' <=> x = job \/ x \in image
    BY <1>3
  <2>4. \A x : x \in Base!Shipped' <=> x \in Base!Shipped
    BY <1>3, <2>2, <2>3, ShippedJobs
  <2> QED
    BY <2>4
<1>7. MasterKept
  BY <1>1, <1>3 DEF MasterKept
<1> QED
  BY <1>3, <1>5, <1>6, <1>7, MasterKeptType

\* A pipeline answers with a request that it had, and keeps the others.
LEMMA RespondFacts ==
    ASSUME TypeInv, NEW s \in Slots, Base!Worker(s), Base!Respond(s), UNCHANGED planVars
    PROVE  /\ link[s[1]] = "up" /\ UNCHANGED <<link, segments, image, lost>>
           /\ MasterKept
           /\ TypeInv'
           /\ \E n \in Answerable(s) : \E e \in Returns :
                  /\ n \in DOMAIN todo[s] /\ todo[s] \in Seq(Entries)
                  /\ e = [pipe |-> s[2], tag |-> todo[s][n].tag, off |-> todo[s][n].off,
                          cnt |-> todo[s][n].cnt]
                  /\ resp' = [resp EXCEPT ![s[1]] = Append(@, e)]
                  /\ todo' = [todo EXCEPT ![s] = RemoveAt(@, n)]
                  /\ shipped' = [shipped EXCEPT ![s] = @ /\ n # 1]
<1>1. Respond(s) /\ UNCHANGED <<trackerVars, jobVars, pc, pos, sceneVars, msgQ, planVars>>
  BY BaseLinks DEF Base!Worker, Base!trackerVars
<1>2. PICK n \in Answerable(s) :
          /\ resp' = [resp EXCEPT ![s[1]] =
                          Append(@, [pipe |-> s[2], tag |-> todo[s][n].tag,
                                     off |-> todo[s][n].off, cnt |-> todo[s][n].cnt])]
          /\ todo' = [todo EXCEPT ![s] = RemoveAt(@, n)]
          /\ shipped' = [shipped EXCEPT ![s] = @ /\ n # 1]
  BY <1>1 DEF Respond
<1>3. /\ link[s[1]] = "up"
      /\ UNCHANGED <<link, freeTags, routed, briefed, segments, image, lost>>
  BY <1>1 DEF Respond
<1>4. /\ todo[s] \in Seq(Entries) /\ n \in DOMAIN todo[s] /\ todo[s][n] \in Entries
      /\ s[1] \in Hosts /\ s[2] \in Pipelines(s[1]) /\ s[2] \in Nat
  BY SlotFacts DEF Answerable, TypeInv, LinksOK
<1>5. RemoveAt(todo[s], n) \in Seq(Entries)
  BY <1>4, RemoveAtFacts
<1> DEFINE e == [pipe |-> s[2], tag |-> todo[s][n].tag, off |-> todo[s][n].off,
                 cnt |-> todo[s][n].cnt]
<1>6. e \in Returns /\ e.pipe = s[2]
  BY <1>4 DEF Entries, Returns
<1>7. resp' = [resp EXCEPT ![s[1]] = Append(@, e)]
  BY <1>2
<1>8. e = [pipe |-> s[2], tag |-> todo[s][n].tag, off |-> todo[s][n].off,
           cnt |-> todo[s][n].cnt]
  OBVIOUS
<1> HIDE DEF e
<1>9. LinksOK'
  <2>1. resp \in [Hosts -> Seq(Returns)] /\ resp[s[1]] \in Seq(Returns)
    BY <1>4 DEF TypeInv, LinksOK
  <2>2. /\ Append(resp[s[1]], e) \in Seq(Returns)
        /\ \A i \in DOMAIN Append(resp[s[1]], e) :
               (i \in DOMAIN resp[s[1]] /\ Append(resp[s[1]], e)[i] = resp[s[1]][i])
                  \/ Append(resp[s[1]], e)[i] = e
    BY <1>6, <2>1, AppendFacts
  <2>3. resp' \in [Hosts -> Seq(Returns)]
    BY <1>7, <2>1, <2>2
  <2>4. todo' \in [Slots -> Seq(Entries)] /\ shipped' \in [Slots -> BOOLEAN]
    BY <1>2, <1>5 DEF TypeInv, LinksOK
  <2>5. ASSUME NEW g \in Hosts, NEW i \in DOMAIN resp'[g]
        PROVE  resp'[g][i].pipe \in Pipelines(g)
    <3>1. resp'[g] = IF g = s[1] THEN Append(resp[s[1]], e) ELSE resp[g]
      BY <1>7, <2>1
    <3> QED
      BY <1>4, <1>6, <2>2, <2>5, <3>1 DEF TypeInv, LinksOK
  <2> QED
    BY <1>3, <2>3, <2>4, <2>5 DEF TypeInv, LinksOK
<1>10. MasterKept
  BY <1>1, <1>3 DEF MasterKept
<1>11. TypeInv'
  BY <1>9, <1>10, MasterKeptType
<1> QED
  BY <1>2, <1>3, <1>4, <1>6, <1>7, <1>8, <1>10, <1>11

-----------------------------------------------------------------------------
(* All steps                                                               *)

\* A worker dies by itself or of a scene it does not know.
Dies(h) ==
    /\ link[h] = "up"
    /\ \/ Base!WorkerDies(h)
       \/ \E s \in Slots : s[1] = h /\ Base!Worker(s) /\ Base!ProduceUnknownScene(s)

ThreadStep(h) ==
    \/ Base!Receive(h) \/ Base!ReportException(h) \/ Base!NoteFailure(h)
    \/ Base!CloseConnection(h) \/ Base!RegisterWorker(h)

\* The steps of SceneSchedulerBase that leave the plan alone.
PlanKept ==
    /\ UNCHANGED planVars
    /\ \/ Base!RejectScene
       \/ Base!HandleException \/ Base!HandleDetachedAnswer \/ Base!HandleDetachedException
       \/ \E h \in Hosts : ThreadStep(h) \/ Dies(h) \/ Base!Client(h)
       \/ \E s \in Slots : Base!Worker(s) /\ (Base!ShipSegment(s) \/ Base!Respond(s))

DyingStep ==
    \/ KickOffDies \/ AnswerDies
    \/ (Base!AcceptDies \/ Base!ExceptionDies) /\ UNCHANGED planVars

LEMMA StepCases ==
    ASSUME [Next]_vars
    PROVE  \/ AcceptScene \/ KickOffFind \/ KickOffAssign \/ KickOffSend \/ KickOffEnd
           \/ AnswerThenRedispatch \/ AnswerThenFinish \/ AnswerThenWait
           \/ PlanKept \/ DyingStep
           \/ UNCHANGED vars
<1>1. CASE Request
  BY <1>1 DEF Request, PlanKept, DyingStep
<1>2. CASE Scheduler
  BY <1>2 DEF Scheduler, PlanKept, DyingStep
<1>3. ASSUME NEW h \in Hosts, Connection(h) \/ Client(h) PROVE PlanKept
  BY <1>3 DEF Connection, Base!Connection, Client, PlanKept, ThreadStep
<1>4. ASSUME NEW h \in Hosts, Base!RegisterWorker(h) /\ UNCHANGED planVars PROVE PlanKept
  BY <1>4 DEF PlanKept, ThreadStep
<1>5. ASSUME NEW h \in Hosts, Base!WorkerDies(h) /\ UNCHANGED planVars PROVE PlanKept
  <2>1. link[h] = "up"
    BY <1>5 DEF Base!WorkerDies, Base!Crash
  <2> QED
    BY <1>5, <2>1 DEF PlanKept, Dies
<1>6. ASSUME NEW s \in Slots, Worker(s) PROVE PlanKept
  <2>1. /\ Base!Worker(s) /\ UNCHANGED planVars
        /\ Base!ShipSegment(s) \/ Base!Respond(s) \/ Base!ProduceUnknownScene(s)
    BY <1>6 DEF Worker, Base!Worker
  <2>2. CASE Base!ProduceUnknownScene(s)
    <3>1. link[s[1]] = "up" /\ s[1] \in Hosts
      BY <2>2, SlotFacts DEF Base!ProduceUnknownScene
    <3> QED
      BY <2>1, <2>2, <3>1 DEF PlanKept, Dies
  <2> QED
    BY <2>1, <2>2 DEF PlanKept
<1> QED
  BY <1>1, <1>2, <1>3, <1>4, <1>5, <1>6 DEF Next, Threads

LEMMA StutterType ==
    ASSUME TypeInv, UNCHANGED vars
    PROVE  TypeInv'
<1>1. /\ UNCHANGED <<trackerVars, linkVars, jobVars, pc, pos, sceneVars, msgQ, planVars>>
  BY DEF vars, Base!vars, Base!trackerVars, Base!linkVars, Base!wireVars
<1>2. TrackerTypeOK' /\ LinksOK' /\ QueueOK'
  BY <1>1, TrackerKept, LinksKept, QueueKept
<1>3. CountsOK' /\ Paused /\ QuietOK' /\ hostWorkers' = hostWorkers
  BY <1>1 DEF TypeInv, CountsOK, Paused, QuietOK, Accepted
<1> QED
  BY <1>2, <1>3, OutsideType

LEMMA TypeStep == TypeInv /\ [Next]_vars => TypeInv'
<1> SUFFICES ASSUME TypeInv, [Next]_vars PROVE TypeInv'
  OBVIOUS
<1>1. CASE AcceptScene \/ KickOffFind \/ KickOffAssign \/ KickOffSend \/ KickOffEnd
  BY <1>1, AcceptFacts, FindFacts, AssignFacts, SendFacts, EndFacts
<1>2. CASE AnswerThenRedispatch \/ AnswerThenFinish \/ AnswerThenWait
  BY <1>2, RedispatchFacts, FinishFacts, WaitFacts
<1>3. CASE PlanKept
  <2>1. CASE \E h \in Hosts : ThreadStep(h)
    BY <1>3, <2>1, ReceiveFacts, ReportFacts, NoteFacts, CloseConnectionFacts, RegisterFacts
    DEF PlanKept, ThreadStep
  <2>2. CASE \E h \in Hosts : Dies(h)
    BY <1>3, <2>2, PerishFacts DEF PlanKept, Dies
  <2>3. CASE \/ \E h \in Hosts : Base!Client(h)
             \/ \E s \in Slots : Base!Worker(s) /\ (Base!ShipSegment(s) \/ Base!Respond(s))
    BY <1>3, <2>3, DeliverFacts, ShipFacts, RespondFacts DEF PlanKept
  <2>4. CASE \/ Base!RejectScene
             \/ Base!HandleException \/ Base!HandleDetachedAnswer
             \/ Base!HandleDetachedException
    BY <1>3, <2>4, RejectFacts, HandleExceptionFacts, DetachedAnswerFacts,
       DetachedExceptionFacts DEF PlanKept
  <2> QED
    BY <1>3, <2>1, <2>2, <2>3, <2>4 DEF PlanKept
<1>4. CASE DyingStep
  BY <1>4, DyingFacts DEF DyingStep
<1>5. CASE UNCHANGED vars
  BY <1>5, StutterType
<1> QED
  BY <1>1, <1>2, <1>3, <1>4, <1>5, StepCases

\* Every variable of the static scheduler keeps its type, whatever the number
\* of hosts, pipelines, pixels, tags and crashes: the counter wraps in place, and
\* while a message is under construction its pipeline is one of the worker's
\* (StaticSceneScheduler::KickOffSceneScheduling).
THEOREM TypesHold == Spec => []TypeOK
<1>1. Init => TypeInv
  BY TypeInit
<1>2. TypeInv /\ [Next]_vars => TypeInv'
  BY TypeStep
<1>3. TypeInv => TypeOK
  BY TypesAreTypes
<1> QED
  BY <1>1, <1>2, <1>3, PTL DEF Spec

-----------------------------------------------------------------------------
(* Connections that are gone                                               *)

\* Only a running worker has requests, what it sent is read before its failure
\* is reported, and the answers of a host are handled before its exceptions.
OrderInv ==
    /\ \A s \in Slots : todo[s] # <<>> => link[s[1]] = "up"
    /\ \A h \in Hosts : resp[h] # <<>> => link[h] \in {"up", "crashed"}
    /\ \A i \in DOMAIN msgQ : ExceptionAt(i) /\ msgQ[i].host # NoHost =>
           /\ link[msgQ[i].host] = "closed"
           /\ \A k \in DOMAIN msgQ : i < k /\ AnswerAt(k) => msgQ[i].host # msgQ[k].host

\* The first n entries are taken from the queue, exceptions of connections that
\* are gone are put behind the others.
QueueMoves(n) ==
    \A i \in DOMAIN msgQ' :
        \/ i + n \in DOMAIN msgQ /\ msgQ'[i] = msgQ[i + n]
        \/ /\ msgQ'[i].kind = "exception"
           /\ msgQ'[i].host # NoHost => link'[msgQ'[i].host] = "closed"
           /\ \A k \in DOMAIN msgQ' : i < k => msgQ'[k].kind = "exception"

LEMMA QueueDomains ==
    ASSUME TypeInv, TypeInv'
    PROVE  /\ msgQ \in Seq(Queued) /\ msgQ' \in Seq(Queued)
           /\ DOMAIN msgQ = 1 .. Len(msgQ) /\ Len(msgQ) \in Nat
           /\ DOMAIN msgQ' = 1 .. Len(msgQ') /\ Len(msgQ') \in Nat
           /\ \A i \in DOMAIN msgQ : msgQ[i].kind \in {"answer", "exception"}
           /\ \A i \in DOMAIN msgQ' : msgQ'[i].kind \in {"answer", "exception"}
<1>1. msgQ \in Seq(Queued) /\ msgQ' \in Seq(Queued)
  <2>1. msgQ \in Seq(Queued)
    BY DEF TypeInv, QueueOK
  <2>2. msgQ' \in Seq(Queued)
    BY DEF TypeInv, QueueOK, Queued, Base!Answers, Base!Exceptions, Base!Tags
  <2> QED
    BY <2>1, <2>2
<1>2. \A e \in Queued : e.kind \in {"answer", "exception"}
  BY DEF Queued, Base!Answers, Base!Exceptions
<1> QED
  BY <1>1, <1>2, LenProperties, ElementOfSeq

LEMMA GrownMoves ==
    ASSUME TypeInv, TypeInv', NEW n \in {0, 1}, NEW q \in Seq(Queued),
           n = 0 => q = msgQ, n = 1 => msgQ # <<>> /\ q = Tail(msgQ),
           NEW e, e.kind = "exception", e.host # NoHost => link'[e.host] = "closed",
           Grown(msgQ', q, e), Len(msgQ') >= Len(q)
    PROVE  QueueMoves(n)
<1>1. /\ DOMAIN q = 1 .. Len(q) /\ Len(q) \in Nat
      /\ DOMAIN msgQ' = 1 .. Len(msgQ') /\ Len(msgQ') \in Nat
  BY QueueDomains, LenProperties
<1>2. \A i \in DOMAIN q : i + n \in DOMAIN msgQ /\ q[i] = msgQ[i + n]
  <2>1. CASE n = 0
    BY <1>1, <2>1
  <2>2. CASE n = 1
    BY <2>2, HeadFacts
  <2> QED
    BY <2>1, <2>2
<1> SUFFICES ASSUME NEW i \in DOMAIN msgQ'
             PROVE  \/ i + n \in DOMAIN msgQ /\ msgQ'[i] = msgQ[i + n]
                    \/ /\ msgQ'[i].kind = "exception"
                       /\ msgQ'[i].host # NoHost => link'[msgQ'[i].host] = "closed"
                       /\ \A k \in DOMAIN msgQ' : i < k => msgQ'[k].kind = "exception"
  BY DEF QueueMoves
<1>3. CASE i <= Len(q)
  BY <1>1, <1>2, <1>3 DEF Grown
<1>4. CASE ~(i <= Len(q))
  <2>1. msgQ'[i] = e
    BY <1>4 DEF Grown
  <2>2. \A k \in DOMAIN msgQ' : i < k => msgQ'[k] = e
    BY <1>1, <1>4 DEF Grown
  <2> QED
    BY <2>1, <2>2
<1> QED
  BY <1>3, <1>4

LEMMA TailMoves ==
    ASSUME TypeInv, TypeInv', NEW n \in {0, 1},
           n = 0 => msgQ' = msgQ, n = 1 => msgQ # <<>> /\ msgQ' = Tail(msgQ)
    PROVE  QueueMoves(n)
<1>1. \A i \in DOMAIN msgQ' : i + n \in DOMAIN msgQ /\ msgQ'[i] = msgQ[i + n]
  <2>1. CASE n = 0
    BY <2>1, QueueDomains
  <2>2. CASE n = 1
    BY <2>2, HeadFacts
  <2> QED
    BY <2>1, <2>2
<1> QED
  BY <1>1 DEF QueueMoves

LEMMA OrderStays ==
    ASSUME TypeInv, TypeInv', OrderInv, NEW n \in {0, 1}, QueueMoves(n),
           \A h \in Hosts : link[h] = "closed" => link'[h] = "closed",
           \A s \in Slots : todo'[s] # <<>> => link'[s[1]] = "up",
           \A h \in Hosts : resp'[h] # <<>> => link'[h] \in {"up", "crashed"}
    PROVE  OrderInv'
<1>1. /\ DOMAIN msgQ \subseteq Nat /\ DOMAIN msgQ' \subseteq Nat
      /\ \A i \in DOMAIN msgQ : ExceptionAt(i) => msgQ[i].host \in Hosts \cup {NoHost}
  <2>1. \A e \in Queued : e.kind = "exception" => e.host \in Hosts \cup {NoHost}
    BY DEF Queued, Base!Answers, Base!Exceptions
  <2> QED
    BY <2>1, QueueDomains, ElementOfSeq DEF ExceptionAt
<1>2. ASSUME NEW i \in DOMAIN msgQ', msgQ'[i].kind = "exception", msgQ'[i].host # NoHost
      PROVE  /\ link'[msgQ'[i].host] = "closed"
             /\ \A k \in DOMAIN msgQ' : i < k /\ msgQ'[k].kind = "answer"
                                            => msgQ'[i].host # msgQ'[k].host
  <2>1. CASE i + n \in DOMAIN msgQ /\ msgQ'[i] = msgQ[i + n]
    <3>1. link[msgQ[i + n].host] = "closed" /\ msgQ[i + n].host \in Hosts
      BY <1>1, <1>2, <2>1 DEF OrderInv, ExceptionAt
    <3>2. ASSUME NEW k \in DOMAIN msgQ', i < k, msgQ'[k].kind = "answer"
          PROVE  msgQ'[i].host # msgQ'[k].host
      <4>1. k + n \in DOMAIN msgQ /\ msgQ'[k] = msgQ[k + n]
        BY <3>2 DEF QueueMoves
      <4>2. i + n < k + n
        BY <1>1, <3>2
      <4> QED
        BY <1>2, <2>1, <3>2, <4>1, <4>2 DEF OrderInv, ExceptionAt, AnswerAt
    <3> QED
      BY <2>1, <3>1, <3>2
  <2>2. CASE /\ msgQ'[i].host # NoHost => link'[msgQ'[i].host] = "closed"
             /\ \A k \in DOMAIN msgQ' : i < k => msgQ'[k].kind = "exception"
    BY <1>2, <2>2
  <2> QED
    BY <2>1, <2>2 DEF QueueMoves
<1> QED
  BY <1>2 DEF OrderInv, ExceptionAt, AnswerAt

-----------------------------------------------------------------------------
(* The requests on their way, and the places they are at: the queue of a   *)
(* pipeline, the answers of a host, the scheduler's queue, and the message *)
(* under construction. A request that was not filled in has no place.      *)

Letter(h, p, r) ==
    [host |-> h, pipe |-> p, tag |-> r.tag, off |-> r.off, cnt |-> r.cnt]

TodoPlaces == {c \in {"todo"} \X Slots \X Nat :
                  c[3] \in DOMAIN todo[c[2]] /\ todo[c[2]][c[3]].tag # 0}

RespPlaces == {c \in {"resp"} \X Hosts \X Nat :
                  c[3] \in DOMAIN resp[c[2]] /\ resp[c[2]][c[3]].tag # 0}

QueuePlaces == {c \in {"msgQ"} \X {NoHost} \X Nat : c[3] \in DOMAIN msgQ /\ AnswerAt(c[3])}

BatchPlaces == {c \in {"batch"} \X {NoHost} \X Nat : c[3] \in DOMAIN batch}

Places == TodoPlaces \cup RespPlaces \cup QueuePlaces \cup BatchPlaces

\* The request at a place.
At(c) ==
    CASE c[1] = "todo" -> Letter(c[2][1], c[2][2], todo[c[2]][c[3]])
      [] c[1] = "resp" -> Letter(c[2], resp[c[2]][c[3]].pipe, resp[c[2]][c[3]])
      [] c[1] = "msgQ" -> Letter(msgQ[c[3]].host, msgQ[c[3]].pipe, msgQ[c[3]])
      [] c[1] = "batch" -> Letter(ThisHost, c[3] - 1, batch[c[3]])

Mail == {At(c) : c \in Places}

\* Two requests carry the same tag of the same connection.
Same(l, k) == l.host = k.host /\ l.tag = k.tag

\* No tag is at two places.
Once == \A c, d \in Places : Same(At(c), At(d)) => c = d

\* A step moves every request from a place of its own, or is the one that puts
\* a request with another tag at x.
LEMMA Moved ==
    ASSUME Once, NEW o, NEW x,
           \A c \in Places' \ {x} : o[c] \in Places /\ At(c)' = At(o[c]),
           \A c, d \in Places' \ {x} : o[c] = o[d] => c = d,
           x \in Places' => \A l \in Mail : ~Same(l, At(x)')
    PROVE  /\ Once'
           /\ \A l \in Mail' : l \in Mail \/ (x \in Places' /\ l = At(x)')
           /\ \A c \in Places :
                  (\A d \in Places' \ {x} : o[d] # c) =>
                      \A l \in Mail' : Same(l, At(c)) => x \in Places' /\ l = At(x)'
<1>1. \A c \in Places' \ {x} : At(o[c]) \in Mail
  BY DEF Mail
<1>2. ASSUME NEW c \in Places', NEW d \in Places', Same(At(c)', At(d)')
      PROVE  c = d
  <2>1. CASE c # x /\ d # x
    BY <1>2, <2>1 DEF Once
  <2>2. CASE c = x /\ d # x
    <3>1. ~Same(At(o[d]), At(x)')
      BY <1>1, <2>2
    <3> QED
      BY <1>2, <2>2, <3>1 DEF Same
  <2>3. CASE d = x /\ c # x
    <3>1. ~Same(At(o[c]), At(x)')
      BY <1>1, <2>3
    <3> QED
      BY <1>2, <2>3, <3>1 DEF Same
  <2> QED
    BY <2>1, <2>2, <2>3
<1>3. Once'
  BY <1>2 DEF Once, Same
<1>4. \A l \in Mail' : \E c \in Places' : l = At(c)'
  BY DEF Mail
<1>5. ASSUME NEW l \in Mail' PROVE l \in Mail \/ (x \in Places' /\ l = At(x)')
  <2>1. PICK c \in Places' : l = At(c)'
    BY <1>4
  <2> QED
    BY <1>1, <2>1
<1>6. ASSUME NEW c \in Places, \A d \in Places' \ {x} : o[d] # c,
             NEW l \in Mail', Same(l, At(c))
      PROVE  x \in Places' /\ l = At(x)'
  <2>1. PICK d \in Places' : l = At(d)'
    BY <1>4
  <2>2. CASE d # x
    <3>1. Same(At(o[d]), At(c)) /\ o[d] \in Places
      BY <1>6, <2>1, <2>2
    <3> QED
      BY <1>6, <2>2, <3>1 DEF Once
  <2> QED
    BY <2>1, <2>2
<1> QED
  BY <1>3, <1>5, <1>6

\* The places, one by one.
PlaceLaws ==
    /\ \A s \in Slots : \A i \in DOMAIN todo[s] :
           /\ todo[s][i].tag # 0 <=> <<"todo", s, i>> \in Places
           /\ At(<<"todo", s, i>>) = Letter(s[1], s[2], todo[s][i])
    /\ \A h \in Hosts : \A i \in DOMAIN resp[h] :
           /\ resp[h][i].tag # 0 <=> <<"resp", h, i>> \in Places
           /\ At(<<"resp", h, i>>) = Letter(h, resp[h][i].pipe, resp[h][i])
    /\ \A i \in DOMAIN msgQ :
           /\ AnswerAt(i) <=> <<"msgQ", NoHost, i>> \in Places
           /\ At(<<"msgQ", NoHost, i>>) = Letter(msgQ[i].host, msgQ[i].pipe, msgQ[i])
    /\ \A i \in DOMAIN batch :
           /\ <<"batch", NoHost, i>> \in Places
           /\ At(<<"batch", NoHost, i>>) = Letter(ThisHost, i - 1, batch[i])
    /\ \A c \in Places :
           \/ \E s \in Slots : \E i \in DOMAIN todo[s] :
                  i \in Nat /\ c = <<"todo", s, i>> /\ todo[s][i].tag # 0
           \/ \E h \in Hosts : \E i \in DOMAIN resp[h] :
                  i \in Nat /\ c = <<"resp", h, i>> /\ resp[h][i].tag # 0
           \/ \E i \in DOMAIN msgQ : i \in Nat /\ c = <<"msgQ", NoHost, i>> /\ AnswerAt(i)
           \/ \E i \in DOMAIN batch : i \in Nat /\ c = <<"batch", NoHost, i>>

LEMMA PlaceFacts == TypeInv => PlaceLaws
<1> SUFFICES ASSUME TypeInv PROVE PlaceLaws
  OBVIOUS
<1>1. /\ \A s \in Slots : DOMAIN todo[s] \subseteq Nat
      /\ \A h \in Hosts : DOMAIN resp[h] \subseteq Nat
      /\ DOMAIN msgQ \subseteq Nat /\ DOMAIN batch \subseteq Nat
  <2>1. \A s \in Slots : todo[s] \in Seq(Entries)
    BY DEF TypeInv, LinksOK
  <2>2. \A h \in Hosts : resp[h] \in Seq(Returns)
    BY DEF TypeInv, LinksOK
  <2>3. msgQ \in Seq(Queued) /\ batch \in Seq([tag : Tags, off : Nat, cnt : Nat])
    BY DEF TypeInv, QueueOK, PlaceOK
  <2> QED
    BY <2>1, <2>2, <2>3
<1>2. \A c \in Places : c[1] \in {"todo", "resp", "msgQ", "batch"} /\ c = <<c[1], c[2], c[3]>>
  BY DEF Places, TodoPlaces, RespPlaces, QueuePlaces, BatchPlaces
<1>3. \A c \in Places : c[1] = "todo" <=> c \in TodoPlaces
  BY DEF Places, TodoPlaces, RespPlaces, QueuePlaces, BatchPlaces
<1>4. \A c \in Places : c[1] = "resp" <=> c \in RespPlaces
  BY DEF Places, TodoPlaces, RespPlaces, QueuePlaces, BatchPlaces
<1>5. \A c \in Places : c[1] = "msgQ" <=> c \in QueuePlaces
  BY DEF Places, TodoPlaces, RespPlaces, QueuePlaces, BatchPlaces
<1>6. \A c \in Places : c[1] = "batch" <=> c \in BatchPlaces
  BY DEF Places, TodoPlaces, RespPlaces, QueuePlaces, BatchPlaces
<1>7. ASSUME NEW s \in Slots, NEW i \in DOMAIN todo[s]
      PROVE  /\ todo[s][i].tag # 0 <=> <<"todo", s, i>> \in Places
             /\ At(<<"todo", s, i>>) = Letter(s[1], s[2], todo[s][i])
  <2>1. todo[s][i].tag # 0 <=> <<"todo", s, i>> \in TodoPlaces
    BY <1>1 DEF TodoPlaces
  <2>2. <<"todo", s, i>> \in Places => <<"todo", s, i>> \in TodoPlaces
    BY <1>3
  <2>3. At(<<"todo", s, i>>) = Letter(s[1], s[2], todo[s][i])
    BY DEF At
  <2> QED
    BY <2>1, <2>2, <2>3 DEF Places
<1>8. ASSUME NEW h \in Hosts, NEW i \in DOMAIN resp[h]
      PROVE  /\ resp[h][i].tag # 0 <=> <<"resp", h, i>> \in Places
             /\ At(<<"resp", h, i>>) = Letter(h, resp[h][i].pipe, resp[h][i])
  <2>1. resp[h][i].tag # 0 <=> <<"resp", h, i>> \in RespPlaces
    BY <1>1 DEF RespPlaces
  <2>2. <<"resp", h, i>> \in Places => <<"resp", h, i>> \in RespPlaces
    BY <1>4
  <2>3. At(<<"resp", h, i>>) = Letter(h, resp[h][i].pipe, resp[h][i])
    BY DEF At
  <2> QED
    BY <2>1, <2>2, <2>3 DEF Places
<1>9. ASSUME NEW i \in DOMAIN msgQ
      PROVE  /\ AnswerAt(i) <=> <<"msgQ", NoHost, i>> \in Places
             /\ At(<<"msgQ", NoHost, i>>) = Letter(msgQ[i].host, msgQ[i].pipe, msgQ[i])
  <2>1. AnswerAt(i) <=> <<"msgQ", NoHost, i>> \in QueuePlaces
    BY <1>1 DEF QueuePlaces
  <2>2. <<"msgQ", NoHost, i>> \in Places => <<"msgQ", NoHost, i>> \in QueuePlaces
    BY <1>5
  <2>3. At(<<"msgQ", NoHost, i>>) = Letter(msgQ[i].host, msgQ[i].pipe, msgQ[i])
    BY DEF At
  <2> QED
    BY <2>1, <2>2, <2>3 DEF Places
<1>10. ASSUME NEW i \in DOMAIN batch
       PROVE  /\ <<"batch", NoHost, i>> \in Places
              /\ At(<<"batch", NoHost, i>>) = Letter(ThisHost, i - 1, batch[i])
  <2>1. <<"batch", NoHost, i>> \in BatchPlaces
    BY <1>1 DEF BatchPlaces
  <2>2. At(<<"batch", NoHost, i>>) = Letter(ThisHost, i - 1, batch[i])
    BY DEF At
  <2> QED
    BY <2>1, <2>2 DEF Places
<1>11. ASSUME NEW c \in Places
       PROVE  \/ \E s \in Slots : \E i \in DOMAIN todo[s] :
                     i \in Nat /\ c = <<"todo", s, i>> /\ todo[s][i].tag # 0
              \/ \E h \in Hosts : \E i \in DOMAIN resp[h] :
                     i \in Nat /\ c = <<"resp", h, i>> /\ resp[h][i].tag # 0
              \/ \E i \in DOMAIN msgQ : i \in Nat /\ c = <<"msgQ", NoHost, i>> /\ AnswerAt(i)
              \/ \E i \in DOMAIN batch : i \in Nat /\ c = <<"batch", NoHost, i>>
  <2>1. CASE c \in TodoPlaces
    BY <2>1 DEF TodoPlaces
  <2>2. CASE c \in RespPlaces
    BY <2>2 DEF RespPlaces
  <2>3. CASE c \in QueuePlaces
    BY <2>3 DEF QueuePlaces
  <2>4. CASE c \in BatchPlaces
    BY <2>4 DEF BatchPlaces
  <2> QED
    BY <2>1, <2>2, <2>3, <2>4 DEF Places
<1> QED
  BY <1>7, <1>8, <1>9, <1>10, <1>11 DEF PlaceLaws

LEMMA PlaceFactsNext == TypeInv' => PlaceLaws'
BY PlaceFacts, PTL

\* Entries are taken from the front of the queue, the other requests stay at
\* their places or are lost, but for the one that is put at x.
LEMMA Shifted ==
    ASSUME TypeInv, TypeInv', Once, NEW n \in {0, 1}, QueueMoves(n), NEW x,
           \A s \in Slots : \A i \in DOMAIN todo'[s] :
               <<"todo", s, i>> # x => i \in DOMAIN todo[s] /\ todo'[s][i] = todo[s][i],
           \A h \in Hosts : \A i \in DOMAIN resp'[h] :
               i \in DOMAIN resp[h] /\ resp'[h][i] = resp[h][i],
           \A i \in DOMAIN batch' :
               <<"batch", NoHost, i>> # x =>
                   i \in DOMAIN batch /\ batch'[i] = batch[i] /\ ThisHost' = ThisHost,
           \A i \in DOMAIN msgQ' : <<"msgQ", NoHost, i>> # x,
           x \in Places' => \A l \in Mail : ~Same(l, At(x)')
    PROVE  /\ Once'
           /\ \A l \in Mail' : l \in Mail \/ (x \in Places' /\ l = At(x)')
           /\ n = 1 /\ 1 \in DOMAIN msgQ /\ AnswerAt(1) =>
                  \A l \in Mail' : l.host = msgQ[1].host /\ l.tag = msgQ[1].tag =>
                                       x \in Places' /\ l = At(x)'
<1> DEFINE from(c) == IF c[1] = "msgQ" THEN <<"msgQ", NoHost, c[3] + n>> ELSE c
           o == [c \in Places' |-> from(c)]
<1> USE PlaceFacts, PlaceFactsNext DEF PlaceLaws
<1>1. \A s \in Slots : \A i \in DOMAIN todo'[s] :
          <<"todo", s, i>> \in Places' /\ <<"todo", s, i>> # x =>
              /\ o[<<"todo", s, i>>] = <<"todo", s, i>>
              /\ o[<<"todo", s, i>>] \in Places
              /\ At(<<"todo", s, i>>)' = At(o[<<"todo", s, i>>])
  <2> SUFFICES ASSUME NEW s \in Slots, NEW i \in DOMAIN todo'[s],
                      <<"todo", s, i>> \in Places', <<"todo", s, i>> # x
               PROVE  /\ o[<<"todo", s, i>>] = <<"todo", s, i>>
                      /\ o[<<"todo", s, i>>] \in Places
                      /\ At(<<"todo", s, i>>)' = At(o[<<"todo", s, i>>])
    OBVIOUS
  <2>1. o[<<"todo", s, i>>] = <<"todo", s, i>>
    OBVIOUS
  <2> QED
    BY <2>1
<1>2. \A h \in Hosts : \A i \in DOMAIN resp'[h] :
          <<"resp", h, i>> \in Places' =>
              /\ o[<<"resp", h, i>>] = <<"resp", h, i>>
              /\ o[<<"resp", h, i>>] \in Places
              /\ At(<<"resp", h, i>>)' = At(o[<<"resp", h, i>>])
  <2> SUFFICES ASSUME NEW h \in Hosts, NEW i \in DOMAIN resp'[h],
                      <<"resp", h, i>> \in Places'
               PROVE  /\ o[<<"resp", h, i>>] = <<"resp", h, i>>
                      /\ o[<<"resp", h, i>>] \in Places
                      /\ At(<<"resp", h, i>>)' = At(o[<<"resp", h, i>>])
    OBVIOUS
  <2>1. o[<<"resp", h, i>>] = <<"resp", h, i>>
    OBVIOUS
  <2> QED
    BY <2>1
<1>3. \A i \in DOMAIN msgQ' :
          <<"msgQ", NoHost, i>> \in Places' =>
              /\ o[<<"msgQ", NoHost, i>>] = <<"msgQ", NoHost, i + n>>
              /\ i \in Nat
              /\ o[<<"msgQ", NoHost, i>>] \in Places
              /\ At(<<"msgQ", NoHost, i>>)' = At(o[<<"msgQ", NoHost, i>>])
  <2> SUFFICES ASSUME NEW i \in DOMAIN msgQ', <<"msgQ", NoHost, i>> \in Places'
               PROVE  /\ o[<<"msgQ", NoHost, i>>] = <<"msgQ", NoHost, i + n>>
                      /\ i \in Nat
                      /\ o[<<"msgQ", NoHost, i>>] \in Places
                      /\ At(<<"msgQ", NoHost, i>>)' = At(o[<<"msgQ", NoHost, i>>])
    OBVIOUS
  <2>1. o[<<"msgQ", NoHost, i>>] = <<"msgQ", NoHost, i + n>>
    OBVIOUS
  <2>2. msgQ'[i].kind = "answer"
    BY DEF AnswerAt
  <2>3. i + n \in DOMAIN msgQ /\ msgQ'[i] = msgQ[i + n]
    BY <2>2 DEF QueueMoves
  <2>4. AnswerAt(i + n)
    BY <2>2, <2>3 DEF AnswerAt
  <2>5. i \in Nat
    BY QueueDomains
  <2> HIDE DEF o
  <2> QED
    BY <2>1, <2>3, <2>4, <2>5
<1>4. \A i \in DOMAIN batch' :
          <<"batch", NoHost, i>> \in Places' /\ <<"batch", NoHost, i>> # x =>
              /\ o[<<"batch", NoHost, i>>] = <<"batch", NoHost, i>>
              /\ o[<<"batch", NoHost, i>>] \in Places
              /\ At(<<"batch", NoHost, i>>)' = At(o[<<"batch", NoHost, i>>])
  <2> SUFFICES ASSUME NEW i \in DOMAIN batch',
                      <<"batch", NoHost, i>> \in Places', <<"batch", NoHost, i>> # x
               PROVE  /\ o[<<"batch", NoHost, i>>] = <<"batch", NoHost, i>>
                      /\ o[<<"batch", NoHost, i>>] \in Places
                      /\ At(<<"batch", NoHost, i>>)' = At(o[<<"batch", NoHost, i>>])
    OBVIOUS
  <2>1. o[<<"batch", NoHost, i>>] = <<"batch", NoHost, i>>
    OBVIOUS
  <2> QED
    BY <2>1
<1> HIDE DEF o
<1>5. \A c \in Places' \ {x} : o[c] \in Places /\ At(c)' = At(o[c])
  <2> SUFFICES ASSUME NEW c \in Places' \ {x} PROVE o[c] \in Places /\ At(c)' = At(o[c])
    OBVIOUS
  <2> QED
    BY <1>1, <1>2, <1>3, <1>4
<1>6. \A c \in Places' \ {x} :
          \/ c[1] # "msgQ" /\ o[c] = c
          \/ \E i \in Nat : c = <<"msgQ", NoHost, i>> /\ o[c] = <<"msgQ", NoHost, i + n>>
  <2> SUFFICES ASSUME NEW c \in Places' \ {x}
               PROVE  \/ c[1] # "msgQ" /\ o[c] = c
                      \/ \E i \in Nat : c = <<"msgQ", NoHost, i>>
                                        /\ o[c] = <<"msgQ", NoHost, i + n>>
    OBVIOUS
  <2> QED
    BY <1>1, <1>2, <1>3, <1>4

<1>7. \A c, d \in Places' \ {x} : o[c] = o[d] => c = d
  <2> SUFFICES ASSUME NEW c \in Places' \ {x}, NEW d \in Places' \ {x}, o[c] = o[d]
               PROVE  c = d
    OBVIOUS
  <2> HIDE PlaceFacts, PlaceFactsNext
  <2> QED
    BY <1>6
<1>8. \A d \in Places' \ {x} : n = 1 => o[d] # <<"msgQ", NoHost, 1>>
  <2> SUFFICES ASSUME NEW d \in Places' \ {x}, n = 1, o[d] = <<"msgQ", NoHost, 1>>
               PROVE  FALSE
    OBVIOUS
  <2>1. PICK i \in Nat : d = <<"msgQ", NoHost, i>> /\ o[d] = <<"msgQ", NoHost, i + n>>
    BY <1>6
  <2>2. i \in DOMAIN msgQ'
    BY <2>1
  <2> QED
    BY <2>1, <2>2, QueueDomains
<1>9. /\ Once'
      /\ \A l \in Mail' : l \in Mail \/ (x \in Places' /\ l = At(x)')
      /\ \A c \in Places :
             (\A d \in Places' \ {x} : o[d] # c) =>
                 \A l \in Mail' : Same(l, At(c)) => x \in Places' /\ l = At(x)'
  <2> HIDE PlaceFacts, PlaceFactsNext
  <2> QED
    BY <1>5, <1>7, Moved
<1>10. ASSUME n = 1, 1 \in DOMAIN msgQ, AnswerAt(1), NEW l \in Mail',
              l.host = msgQ[1].host, l.tag = msgQ[1].tag
       PROVE  x \in Places' /\ l = At(x)'
  <2>1. /\ <<"msgQ", NoHost, 1>> \in Places
        /\ At(<<"msgQ", NoHost, 1>>) = Letter(msgQ[1].host, msgQ[1].pipe, msgQ[1])
    BY <1>10
  <2>2. Same(l, At(<<"msgQ", NoHost, 1>>))
    BY <1>10, <2>1 DEF Same, Letter
  <2>3. \A d \in Places' \ {x} : o[d] # <<"msgQ", NoHost, 1>>
    BY <1>8, <1>10
  <2> HIDE PlaceFacts, PlaceFactsNext
  <2> QED
    BY <1>9, <2>1, <2>2, <2>3
<1> QED
  BY <1>9, <1>10

-----------------------------------------------------------------------------
(* Steps that send nothing                                                 *)

\* What a request carries.
IsLetter(l) ==
    /\ l.host \in Hosts /\ l.pipe \in Pipelines(l.host)
    /\ l.tag \in Tags /\ l.off \in Nat /\ l.cnt \in Nat
    /\ l = Letter(l.host, l.pipe, l)

LettersOK == \A l \in Mail : IsLetter(l)

LEMMA LetterIs ==
    ASSUME NEW h \in Hosts, NEW p \in Pipelines(h), NEW r,
           r.tag \in Tags, r.off \in Nat, r.cnt \in Nat
    PROVE  IsLetter(Letter(h, p, r))
BY DEF IsLetter, Letter

LEMMA MailType == TypeInv => LettersOK
<1> SUFFICES ASSUME TypeInv, NEW c \in Places PROVE IsLetter(At(c))
  BY DEF LettersOK, Mail
<1> USE SlotFacts
<1>1. ASSUME NEW s \in Slots, NEW i \in DOMAIN todo[s], c = <<"todo", s, i>>,
             todo[s][i].tag # 0
      PROVE  At(c) = Letter(s[1], s[2], todo[s][i]) /\ todo[s][i] \in Entries
  <2>1. todo[s] \in Seq(Entries)
    BY DEF TypeInv, LinksOK
  <2>2. todo[s][i] \in Entries
    BY <2>1, ElementOfSeq
  <2>3. At(<<"todo", s, i>>) = Letter(s[1], s[2], todo[s][i])
    BY PlaceFacts DEF PlaceLaws
  <2> QED
    BY <1>1, <2>2, <2>3
<1>2. ASSUME NEW h \in Hosts, NEW i \in DOMAIN resp[h], c = <<"resp", h, i>>,
             resp[h][i].tag # 0
      PROVE  /\ At(c) = Letter(h, resp[h][i].pipe, resp[h][i])
             /\ resp[h][i] \in Returns /\ resp[h][i].pipe \in Pipelines(h)
  <2>1. resp[h] \in Seq(Returns) /\ resp[h][i].pipe \in Pipelines(h)
    BY DEF TypeInv, LinksOK
  <2>2. resp[h][i] \in Returns
    BY <2>1, ElementOfSeq
  <2>3. At(<<"resp", h, i>>) = Letter(h, resp[h][i].pipe, resp[h][i])
    BY PlaceFacts DEF PlaceLaws
  <2> QED
    BY <1>2, <2>1, <2>2, <2>3
<1>3. ASSUME NEW i \in DOMAIN msgQ, c = <<"msgQ", NoHost, i>>, AnswerAt(i)
      PROVE  /\ At(c) = Letter(msgQ[i].host, msgQ[i].pipe, msgQ[i])
             /\ msgQ[i].host \in Hosts /\ msgQ[i].pipe \in Pipelines(msgQ[i].host)
             /\ msgQ[i].tag \in Tags /\ msgQ[i].off \in Nat /\ msgQ[i].cnt \in Nat
  <2>1. msgQ \in Seq(Queued) /\ msgQ[i].pipe \in Pipelines(msgQ[i].host)
    BY <1>3 DEF TypeInv, QueueOK
  <2>2. msgQ[i] \in Queued
    BY <2>1, ElementOfSeq
  <2>3. msgQ[i] \in Base!Answers
    BY <1>3, <2>2 DEF AnswerAt, Queued, Base!Exceptions
  <2>4. At(<<"msgQ", NoHost, i>>) = Letter(msgQ[i].host, msgQ[i].pipe, msgQ[i])
    BY PlaceFacts DEF PlaceLaws
  <2> QED
    BY <1>3, <2>1, <2>3, <2>4, BaseSame DEF Base!Answers
<1>4. ASSUME NEW i \in DOMAIN batch, c = <<"batch", NoHost, i>>
      PROVE  /\ At(c) = Letter(ThisHost, i - 1, batch[i])
             /\ ThisHost \in Hosts /\ i - 1 \in Pipelines(ThisHost)
             /\ batch[i] \in [tag : Tags, off : Nat, cnt : Nat]
  <2> DEFINE filled == [tag : Tags, off : Nat, cnt : Nat]
  <2>1. batch \in Seq(filled)
    BY DEF TypeInv, PlaceOK
  <2> HIDE DEF filled
  <2>2. batch[i] \in filled
    BY <2>1
  <2>3. pc \in {"assign", "send"}
    BY DEF TypeInv, PlaceOK, LifeOK
  <2>4. /\ pos.index \in DOMAIN hostWorkers /\ pos.pipe \in Pipelines(ThisHost)
        /\ Len(batch) \in {pos.pipe, pos.pipe + 1}
    BY <2>3 DEF TypeInv, PlaceOK
  <2>5. ThisHost \in Hosts
    BY <2>4, HostFacts
  <2>6. NumPipelines[ThisHost] \in Nat
    BY <2>5
  <2>7. i \in 1 .. Len(batch)
    BY <2>1
  <2>8. i - 1 \in Pipelines(ThisHost)
    BY <2>4, <2>6, <2>7 DEF Pipelines
  <2>9. At(<<"batch", NoHost, i>>) = Letter(ThisHost, i - 1, batch[i])
    BY PlaceFacts DEF PlaceLaws
  <2> QED
    BY <1>4, <2>2, <2>5, <2>8, <2>9 DEF filled
<1>5. CASE \E s \in Slots : \E i \in DOMAIN todo[s] :
               c = <<"todo", s, i>> /\ todo[s][i].tag # 0
  BY <1>1, <1>5, LetterIs DEF Entries
<1>6. CASE \E h \in Hosts : \E i \in DOMAIN resp[h] :
               c = <<"resp", h, i>> /\ resp[h][i].tag # 0
  BY <1>2, <1>6, LetterIs DEF Returns
<1>7. CASE \E i \in DOMAIN msgQ : c = <<"msgQ", NoHost, i>> /\ AnswerAt(i)
  BY <1>3, <1>7, LetterIs
<1>8. CASE \E i \in DOMAIN batch : c = <<"batch", NoHost, i>>
  BY <1>4, <1>8, LetterIs
<1> QED
  BY <1>5, <1>6, <1>7, <1>8, PlaceFacts DEF PlaceLaws

LEMMA MailTypeNext == TypeInv' => LettersOK'
BY MailType, PTL

\* A place that does not exist.
Nowhere == <<"nowhere", NoHost, 0>>

LEMMA NowhereFacts ==
    /\ Nowhere \notin Places'
    /\ \A s, i : <<"todo", s, i>> # Nowhere /\ <<"batch", s, i>> # Nowhere
                 /\ <<"msgQ", s, i>> # Nowhere
BY DEF Nowhere, Places, TodoPlaces, RespPlaces, QueuePlaces, BatchPlaces

\* The message under construction is left alone or given up.
BatchStays ==
    \/ batch' = <<>>
    \/ batch' = batch /\ pc = "idle"
    \/ /\ batch' = batch /\ pos'.index = pos.index
       /\ \A i \in DOMAIN hostWorkers : hostWorkers'[i] = hostWorkers[i]

LEMMA BatchStaysFacts ==
    ASSUME TypeInv, BatchStays
    PROVE  \A i \in DOMAIN batch' :
               i \in DOMAIN batch /\ batch'[i] = batch[i] /\ ThisHost' = ThisHost
<1>1. CASE batch' = <<>>
  BY <1>1
<1>2. CASE batch' = batch /\ pc = "idle"
  BY <1>2 DEF TypeInv, PlaceOK
<1>3. CASE /\ batch' = batch /\ pos'.index = pos.index
           /\ \A i \in DOMAIN hostWorkers : hostWorkers'[i] = hostWorkers[i]
  <2> SUFFICES ASSUME NEW i \in DOMAIN batch' PROVE ThisHost' = ThisHost
    BY <1>3
  <2>1. batch # <<>>
    BY <1>3
  <2>2. pos.index \in DOMAIN hostWorkers
    BY <2>1 DEF TypeInv, PlaceOK, LifeOK
  <2> QED
    BY <1>3, <2>2 DEF ThisHost
<1> QED
  BY <1>1, <1>2, <1>3 DEF BatchStays

\* No request is sent.
LEMMA ShrinkMail ==
    ASSUME TypeInv, TypeInv', Once, NEW n \in {0, 1}, QueueMoves(n),
           \A s \in Slots : \A i \in DOMAIN todo'[s] :
               i \in DOMAIN todo[s] /\ todo'[s][i] = todo[s][i],
           \A h \in Hosts : \A i \in DOMAIN resp'[h] :
               i \in DOMAIN resp[h] /\ resp'[h][i] = resp[h][i],
           BatchStays
    PROVE  /\ Once' /\ Mail' \subseteq Mail
           /\ n = 1 /\ 1 \in DOMAIN msgQ /\ AnswerAt(1) =>
                  \A l \in Mail' : ~(l.host = msgQ[1].host /\ l.tag = msgQ[1].tag)
<1>1. /\ Once'
      /\ \A l \in Mail' : l \in Mail \/ (Nowhere \in Places' /\ l = At(Nowhere)')
      /\ n = 1 /\ 1 \in DOMAIN msgQ /\ AnswerAt(1) =>
             \A l \in Mail' : l.host = msgQ[1].host /\ l.tag = msgQ[1].tag =>
                                  Nowhere \in Places' /\ l = At(Nowhere)'
  <2>1. \A i \in DOMAIN batch' :
            i \in DOMAIN batch /\ batch'[i] = batch[i] /\ ThisHost' = ThisHost
    BY BatchStaysFacts
  <2> HIDE DEF Nowhere
  <2> QED
    BY <2>1, NowhereFacts, Shifted
<1> QED
  BY <1>1, NowhereFacts

\* The receiver thread hands a response on.
LEMMA ReceiveMail ==
    ASSUME TypeInv, TypeInv', Once, NEW h \in Hosts, Base!Receive(h), UNCHANGED planVars
    PROVE  Once' /\ Mail' \subseteq Mail
<1> DEFINE from(c) == IF c = <<"msgQ", NoHost, Len(msgQ) + 1>> THEN <<"resp", h, 1>>
                      ELSE IF c[1] = "resp" /\ c[2] = h THEN <<"resp", h, c[3] + 1>>
                      ELSE c
           o == [c \in Places' |-> from(c)]
<1> USE PlaceFacts, PlaceFactsNext DEF PlaceLaws
<1>1. /\ Head(resp[h]) = resp[h][1] /\ 1 \in DOMAIN resp[h] /\ resp[h] # <<>>
      /\ resp' = [resp EXCEPT ![h] = Tail(@)]
      /\ todo' = todo /\ pos' = pos /\ hostWorkers' = hostWorkers /\ batch' = batch
      /\ \/ /\ Head(resp[h]).tag \in Tags
            /\ msgQ' = Append(msgQ, AnswerOf(h, Head(resp[h])))
            /\ AnswerOf(h, Head(resp[h])) \in Queued
         \/ msgQ' = msgQ
  BY ReceiveFacts
<1>2. resp[h] \in Seq(Returns) /\ resp \in [Hosts -> Seq(Returns)]
  BY DEF TypeInv, LinksOK
<1>3. /\ msgQ \in Seq(Queued)
      /\ \A i \in DOMAIN msgQ : i \in Nat /\ i # Len(msgQ) + 1
  BY QueueDomains
<1>4. \A s \in Slots : \A i \in DOMAIN todo'[s] :
          <<"todo", s, i>> \in Places' =>
              /\ o[<<"todo", s, i>>] = <<"todo", s, i>>
              /\ o[<<"todo", s, i>>] \in Places
              /\ At(<<"todo", s, i>>)' = At(o[<<"todo", s, i>>])
  <2> SUFFICES ASSUME NEW s \in Slots, NEW i \in DOMAIN todo'[s], <<"todo", s, i>> \in Places'
               PROVE  /\ o[<<"todo", s, i>>] = <<"todo", s, i>>
                      /\ o[<<"todo", s, i>>] \in Places
                      /\ At(<<"todo", s, i>>)' = At(o[<<"todo", s, i>>])
    OBVIOUS
  <2>1. o[<<"todo", s, i>>] = <<"todo", s, i>>
    OBVIOUS
  <2> HIDE DEF o
  <2> QED
    BY <1>1, <2>1
<1>5. \A g \in Hosts : \A i \in DOMAIN resp'[g] :
          <<"resp", g, i>> \in Places' =>
              /\ o[<<"resp", g, i>>] = <<"resp", g, IF g = h THEN i + 1 ELSE i>>
              /\ i \in Nat \ {0}
              /\ o[<<"resp", g, i>>] \in Places
              /\ At(<<"resp", g, i>>)' = At(o[<<"resp", g, i>>])
  <2> SUFFICES ASSUME NEW g \in Hosts, NEW i \in DOMAIN resp'[g], <<"resp", g, i>> \in Places'
               PROVE  /\ o[<<"resp", g, i>>] = <<"resp", g, IF g = h THEN i + 1 ELSE i>>
                      /\ i \in Nat \ {0}
                      /\ o[<<"resp", g, i>>] \in Places
                      /\ At(<<"resp", g, i>>)' = At(o[<<"resp", g, i>>])
    OBVIOUS
  <2>1. o[<<"resp", g, i>>] = <<"resp", g, IF g = h THEN i + 1 ELSE i>>
    OBVIOUS
  <2> HIDE DEF o
  <2>2. CASE g = h
    <3>1. resp'[g] = Tail(resp[h])
      BY <1>1, <1>2, <2>2
    <3>2. i \in Nat \ {0} /\ i + 1 \in DOMAIN resp[h] /\ resp'[g][i] = resp[h][i + 1]
      BY <1>1, <1>2, <3>1, SeqTail
    <3> QED
      BY <2>1, <2>2, <3>2
  <2>3. CASE g # h
    <3>1. resp'[g] = resp[g] /\ resp[g] \in Seq(Returns)
      BY <1>1, <1>2, <2>3
    <3>2. i \in Nat \ {0}
      BY <3>1
    <3> QED
      BY <2>1, <2>3, <3>1, <3>2
  <2> QED
    BY <2>2, <2>3
<1>6. \A i \in DOMAIN msgQ' :
          <<"msgQ", NoHost, i>> \in Places' =>
              /\ o[<<"msgQ", NoHost, i>>] =
                     IF i = Len(msgQ) + 1 THEN <<"resp", h, 1>> ELSE <<"msgQ", NoHost, i>>
              /\ o[<<"msgQ", NoHost, i>>] \in Places
              /\ At(<<"msgQ", NoHost, i>>)' = At(o[<<"msgQ", NoHost, i>>])
  <2> SUFFICES ASSUME NEW i \in DOMAIN msgQ', <<"msgQ", NoHost, i>> \in Places'
               PROVE  /\ o[<<"msgQ", NoHost, i>>] =
                             IF i = Len(msgQ) + 1 THEN <<"resp", h, 1>>
                             ELSE <<"msgQ", NoHost, i>>
                      /\ o[<<"msgQ", NoHost, i>>] \in Places
                      /\ At(<<"msgQ", NoHost, i>>)' = At(o[<<"msgQ", NoHost, i>>])
    OBVIOUS
  <2>1. o[<<"msgQ", NoHost, i>>] =
            IF i = Len(msgQ) + 1 THEN <<"resp", h, 1>> ELSE <<"msgQ", NoHost, i>>
    OBVIOUS
  <2>2. AnswerAt(i)'
    OBVIOUS
  <2>3. At(<<"msgQ", NoHost, i>>)' = Letter(msgQ'[i].host, msgQ'[i].pipe, msgQ'[i])
    OBVIOUS
  <2> HIDE DEF o
  <2>4. CASE i = Len(msgQ) + 1
    <3>1. msgQ' = Append(msgQ, AnswerOf(h, Head(resp[h]))) /\ Head(resp[h]).tag \in Tags
          /\ AnswerOf(h, Head(resp[h])) \in Queued
      BY <1>1, <1>3, <2>4
    <3>2. msgQ'[i] = AnswerOf(h, resp[h][1])
      BY <1>1, <1>3, <2>4, <3>1, AppendFacts
    <3>3. resp[h][1].tag # 0
      BY <1>1, <3>1 DEF Tags
    <3>4. /\ <<"resp", h, 1>> \in Places
          /\ At(<<"resp", h, 1>>) = Letter(h, resp[h][1].pipe, resp[h][1])
      BY <1>1, <3>3
    <3>5. Letter(msgQ'[i].host, msgQ'[i].pipe, msgQ'[i]) = Letter(h, resp[h][1].pipe, resp[h][1])
      BY <3>2 DEF Letter, AnswerOf
    <3> QED
      BY <2>1, <2>3, <2>4, <3>4, <3>5
  <2>5. CASE i # Len(msgQ) + 1
    <3>1. i \in DOMAIN msgQ /\ msgQ'[i] = msgQ[i]
      BY <1>1, <1>3, <2>5, AppendFacts
    <3>2. AnswerAt(i)
      BY <2>2, <3>1 DEF AnswerAt
    <3> QED
      BY <2>1, <2>3, <2>5, <3>1, <3>2
  <2> QED
    BY <2>4, <2>5
<1>7. \A i \in DOMAIN batch' :
          <<"batch", NoHost, i>> \in Places' =>
              /\ o[<<"batch", NoHost, i>>] = <<"batch", NoHost, i>>
              /\ o[<<"batch", NoHost, i>>] \in Places
              /\ At(<<"batch", NoHost, i>>)' = At(o[<<"batch", NoHost, i>>])
  <2> SUFFICES ASSUME NEW i \in DOMAIN batch', <<"batch", NoHost, i>> \in Places'
               PROVE  /\ o[<<"batch", NoHost, i>>] = <<"batch", NoHost, i>>
                      /\ o[<<"batch", NoHost, i>>] \in Places
                      /\ At(<<"batch", NoHost, i>>)' = At(o[<<"batch", NoHost, i>>])
    OBVIOUS
  <2>1. o[<<"batch", NoHost, i>>] = <<"batch", NoHost, i>>
    OBVIOUS
  <2>2. ThisHost' = ThisHost
    BY <1>1 DEF ThisHost
  <2> HIDE DEF o
  <2> QED
    BY <1>1, <2>1, <2>2
<1> HIDE DEF o
<1>8. \A c \in Places' : o[c] \in Places /\ At(c)' = At(o[c])
  BY <1>4, <1>5, <1>6, <1>7
<1>9. \A c \in Places' :
          \/ c[1] # "resp" /\ o[c] = c
          \/ \E i \in Nat \ {0} : c = <<"resp", h, i>> /\ o[c] = <<"resp", h, i + 1>>
          \/ c[1] = "resp" /\ c[2] # h /\ o[c] = c
          \/ c = <<"msgQ", NoHost, Len(msgQ) + 1>> /\ o[c] = <<"resp", h, 1>>
  BY <1>4, <1>5, <1>6, <1>7
<1> HIDE PlaceFacts, PlaceFactsNext
<1>10. ASSUME NEW c \in Places', NEW d \in Places', o[c] = o[d] PROVE c = d
  <2>1. CASE c[1] # "resp" /\ o[c] = c
    <3>1. \A i : o[d] # <<"resp", h, i>>
      BY <1>10, <2>1
    <3> QED
      BY <1>9, <1>10, <2>1, <3>1
  <2>2. ASSUME NEW i \in Nat \ {0}, c = <<"resp", h, i>>, o[c] = <<"resp", h, i + 1>>
        PROVE  c = d
    <3>1. ~(d[1] # "resp" /\ o[d] = d) /\ ~(d[2] # h /\ o[d] = d) /\ o[d] # <<"resp", h, 1>>
      BY <1>10, <2>2
    <3>2. PICK k \in Nat \ {0} : d = <<"resp", h, k>> /\ o[d] = <<"resp", h, k + 1>>
      BY <1>9, <3>1
    <3> QED
      BY <1>10, <2>2, <3>2
  <2>3. CASE c[1] = "resp" /\ c[2] # h /\ o[c] = c
    <3>1. \A i : o[d] # <<"resp", h, i>>
      BY <1>10, <2>3
    <3> QED
      BY <1>9, <1>10, <2>3, <3>1
  <2>4. CASE c = <<"msgQ", NoHost, Len(msgQ) + 1>> /\ o[c] = <<"resp", h, 1>>
    BY <1>9, <1>10, <2>4
  <2> QED
    BY <1>9, <2>1, <2>2, <2>3, <2>4
<1>11. /\ Once'
       /\ \A l \in Mail' : l \in Mail \/ (Nowhere \in Places' /\ l = At(Nowhere)')
  <2> HIDE DEF Nowhere
  <2> QED
    BY <1>8, <1>10, NowhereFacts, Moved
<1> QED
  BY <1>11, NowhereFacts

\* A pipeline answers one of its requests.
LEMMA RespondMail ==
    ASSUME TypeInv, TypeInv', Once, NEW s \in Slots,
           Base!Worker(s), Base!Respond(s), UNCHANGED planVars
    PROVE  Once' /\ Mail' \subseteq Mail
<1> USE PlaceFacts, PlaceFactsNext DEF PlaceLaws
<1>1. PICK n \in Answerable(s), e \in Returns :
          /\ n \in DOMAIN todo[s] /\ todo[s] \in Seq(Entries)
          /\ e = [pipe |-> s[2], tag |-> todo[s][n].tag, off |-> todo[s][n].off,
                  cnt |-> todo[s][n].cnt]
          /\ resp' = [resp EXCEPT ![s[1]] = Append(@, e)]
          /\ todo' = [todo EXCEPT ![s] = RemoveAt(@, n)]
          /\ MasterKept
  BY RespondFacts
<1> DEFINE h == s[1]
           last == Len(resp[h]) + 1
           from(c) == IF c = <<"resp", h, last>> THEN <<"todo", s, n>>
                      ELSE IF c[1] = "todo" /\ c[2] = s
                      THEN <<"todo", s, IF c[3] < n THEN c[3] ELSE c[3] + 1>>
                      ELSE c
           o == [c \in Places' |-> from(c)]
<1>2. /\ todo \in [Slots -> Seq(Entries)] /\ resp \in [Hosts -> Seq(Returns)]
      /\ h \in Hosts /\ s = <<h, s[2]>>
  BY SlotFacts DEF TypeInv, LinksOK
<1>3. n \in Nat /\ n \in 1 .. Len(todo[s]) /\ Len(todo[s]) \in Nat /\ last \in Nat
  BY <1>1, <1>2
<1>4. /\ msgQ' = msgQ /\ batch' = batch /\ ThisHost' = ThisHost
      /\ \A i : AnswerAt(i)' <=> AnswerAt(i)
  BY <1>1 DEF MasterKept, ThisHost, AnswerAt
<1>5. \A r \in Slots : \A i \in DOMAIN todo'[r] :
          <<"todo", r, i>> \in Places' =>
              /\ \/ r # s /\ o[<<"todo", r, i>>] = <<"todo", r, i>>
                 \/ /\ r = s /\ i \in Nat
                    /\ o[<<"todo", s, i>>] = <<"todo", s, IF i < n THEN i ELSE i + 1>>
              /\ o[<<"todo", r, i>>] \in Places
              /\ At(<<"todo", r, i>>)' = At(o[<<"todo", r, i>>])
  <2> SUFFICES ASSUME NEW r \in Slots, NEW i \in DOMAIN todo'[r], <<"todo", r, i>> \in Places'
               PROVE  /\ \/ r # s /\ o[<<"todo", r, i>>] = <<"todo", r, i>>
                         \/ /\ r = s /\ i \in Nat
                            /\ o[<<"todo", s, i>>] = <<"todo", s, IF i < n THEN i ELSE i + 1>>
                      /\ o[<<"todo", r, i>>] \in Places
                      /\ At(<<"todo", r, i>>)' = At(o[<<"todo", r, i>>])
    OBVIOUS
  <2>1. o[<<"todo", r, i>>] = IF r = s THEN <<"todo", s, IF i < n THEN i ELSE i + 1>>
                              ELSE <<"todo", r, i>>
    OBVIOUS
  <2> HIDE DEF o
  <2>2. CASE r = s
    <3>1. todo'[r] = RemoveAt(todo[s], n)
      BY <1>1, <1>2, <2>2
    <3>2. /\ i \in 1 .. Len(todo[s]) - 1
          /\ todo'[r][i] = IF i < n THEN todo[s][i] ELSE todo[s][i + 1]
      <4>1. i \in DOMAIN RemoveAt(todo[s], n) /\ n \in DOMAIN todo[s]
        BY <1>1, <3>1
      <4>2. /\ RemoveAt(todo[s], n) \in Seq(Entries)
            /\ Len(RemoveAt(todo[s], n)) = Len(todo[s]) - 1
            /\ \A k \in 1 .. Len(todo[s]) - 1 :
                   RemoveAt(todo[s], n)[k] = IF k < n THEN todo[s][k] ELSE todo[s][k + 1]
        BY <1>1, <4>1, RemoveAtFacts
      <4>3. i \in 1 .. Len(todo[s]) - 1
        BY <4>1, <4>2
      <4> QED
        BY <3>1, <4>2, <4>3
    <3>3. (IF i < n THEN i ELSE i + 1) \in DOMAIN todo[s] /\ i \in Nat
      BY <1>1, <1>3, <3>2
    <3>4. todo'[r][i] = todo[s][IF i < n THEN i ELSE i + 1]
      BY <3>2
    <3>5. o[<<"todo", r, i>>] = <<"todo", s, IF i < n THEN i ELSE i + 1>>
      BY <2>1, <2>2
    <3> QED
      BY <2>2, <3>3, <3>4, <3>5
  <2>3. CASE r # s
    BY <1>1, <1>2, <2>1, <2>3
  <2> QED
    BY <2>2, <2>3
<1>6. \A g \in Hosts : \A i \in DOMAIN resp'[g] :
          <<"resp", g, i>> \in Places' =>
              /\ o[<<"resp", g, i>>] = IF g = h /\ i = last THEN <<"todo", s, n>>
                                       ELSE <<"resp", g, i>>
              /\ o[<<"resp", g, i>>] \in Places
              /\ At(<<"resp", g, i>>)' = At(o[<<"resp", g, i>>])
  <2> SUFFICES ASSUME NEW g \in Hosts, NEW i \in DOMAIN resp'[g], <<"resp", g, i>> \in Places'
               PROVE  /\ o[<<"resp", g, i>>] = IF g = h /\ i = last THEN <<"todo", s, n>>
                                               ELSE <<"resp", g, i>>
                      /\ o[<<"resp", g, i>>] \in Places
                      /\ At(<<"resp", g, i>>)' = At(o[<<"resp", g, i>>])
    OBVIOUS
  <2>1. o[<<"resp", g, i>>] = IF g = h /\ i = last THEN <<"todo", s, n>>
                              ELSE <<"resp", g, i>>
    OBVIOUS
  <2>2. At(<<"resp", g, i>>)' = Letter(g, resp'[g][i].pipe, resp'[g][i]) /\ resp'[g][i].tag # 0
    OBVIOUS
  <2> HIDE DEF o
  <2>3. CASE g = h /\ i = last
    <3>1. resp'[g] = Append(resp[h], e) /\ resp[h] \in Seq(Returns)
      BY <1>1, <1>2, <2>3
    <3>2. resp'[g][i] = e
      BY <2>3, <3>1, AppendFacts
    <3>3. <<"todo", s, n>> \in Places /\ At(<<"todo", s, n>>) = Letter(h, s[2], todo[s][n])
      BY <1>1, <2>2, <3>2
    <3>4. Letter(g, resp'[g][i].pipe, resp'[g][i]) = Letter(h, s[2], todo[s][n])
      BY <1>1, <2>3, <3>2 DEF Letter
    <3>5. o[<<"resp", g, i>>] = <<"todo", s, n>>
      BY <2>1, <2>3
    <3> QED
      BY <2>1, <2>2, <2>3, <3>3, <3>4, <3>5
  <2>4. CASE ~(g = h /\ i = last)
    <3>1. i \in DOMAIN resp[g] /\ resp'[g][i] = resp[g][i]
      BY <1>1, <1>2, <2>4, AppendFacts
    <3>2. o[<<"resp", g, i>>] = <<"resp", g, i>>
      BY <2>1, <2>4
    <3> QED
      BY <2>2, <2>4, <3>1, <3>2
  <2> QED
    BY <2>3, <2>4
<1>7. \A i \in DOMAIN msgQ' :
          <<"msgQ", NoHost, i>> \in Places' =>
              /\ o[<<"msgQ", NoHost, i>>] = <<"msgQ", NoHost, i>>
              /\ o[<<"msgQ", NoHost, i>>] \in Places
              /\ At(<<"msgQ", NoHost, i>>)' = At(o[<<"msgQ", NoHost, i>>])
  <2> SUFFICES ASSUME NEW i \in DOMAIN msgQ', <<"msgQ", NoHost, i>> \in Places'
               PROVE  /\ o[<<"msgQ", NoHost, i>>] = <<"msgQ", NoHost, i>>
                      /\ o[<<"msgQ", NoHost, i>>] \in Places
                      /\ At(<<"msgQ", NoHost, i>>)' = At(o[<<"msgQ", NoHost, i>>])
    OBVIOUS
  <2>1. o[<<"msgQ", NoHost, i>>] = <<"msgQ", NoHost, i>>
    OBVIOUS
  <2>2. AnswerAt(i)
    BY <1>4
  <2> HIDE DEF o
  <2> QED
    BY <1>4, <2>1, <2>2
<1>8. \A i \in DOMAIN batch' :
          <<"batch", NoHost, i>> \in Places' =>
              /\ o[<<"batch", NoHost, i>>] = <<"batch", NoHost, i>>
              /\ o[<<"batch", NoHost, i>>] \in Places
              /\ At(<<"batch", NoHost, i>>)' = At(o[<<"batch", NoHost, i>>])
  <2> SUFFICES ASSUME NEW i \in DOMAIN batch', <<"batch", NoHost, i>> \in Places'
               PROVE  /\ o[<<"batch", NoHost, i>>] = <<"batch", NoHost, i>>
                      /\ o[<<"batch", NoHost, i>>] \in Places
                      /\ At(<<"batch", NoHost, i>>)' = At(o[<<"batch", NoHost, i>>])
    OBVIOUS
  <2>1. o[<<"batch", NoHost, i>>] = <<"batch", NoHost, i>>
    OBVIOUS
  <2> HIDE DEF o
  <2> QED
    BY <1>4, <2>1
<1> HIDE DEF o
<1>9. ASSUME NEW c \in Places'
      PROVE  /\ o[c] \in Places /\ At(c)' = At(o[c])
             /\ \/ ~(c[1] = "todo" /\ c[2] = s) /\ o[c] = c
                \/ \E i \in Nat : /\ c = <<"todo", s, i>>
                                  /\ o[c] = <<"todo", s, IF i < n THEN i ELSE i + 1>>
                \/ c = <<"resp", h, last>> /\ o[c] = <<"todo", s, n>>
  <2>1. \/ \E r \in Slots : \E i \in DOMAIN todo'[r] : c = <<"todo", r, i>>
        \/ \E g \in Hosts : \E i \in DOMAIN resp'[g] : c = <<"resp", g, i>>
        \/ \E i \in DOMAIN msgQ' : c = <<"msgQ", NoHost, i>>
        \/ \E i \in DOMAIN batch' : c = <<"batch", NoHost, i>>
    OBVIOUS
  <2> HIDE PlaceFacts, PlaceFactsNext
  <2> HIDE DEF last, h
  <2>2. CASE \E r \in Slots : \E i \in DOMAIN todo'[r] : c = <<"todo", r, i>>
    <3>0. PICK r \in Slots : \E i \in DOMAIN todo'[r] : c = <<"todo", r, i>>
      BY <2>2
    <3>1. PICK i \in DOMAIN todo'[r] : c = <<"todo", r, i>>
      BY <3>0
    <3>2. /\ \/ r # s /\ o[c] = c
             \/ /\ r = s /\ i \in Nat
                /\ o[c] = <<"todo", s, IF i < n THEN i ELSE i + 1>>
          /\ o[c] \in Places /\ At(c)' = At(o[c])
      BY <1>5, <3>1
    <3>3. CASE r = s
      BY <3>1, <3>2, <3>3
    <3>4. CASE r # s
      BY <3>1, <3>2, <3>4
    <3> QED
      BY <3>3, <3>4
  <2>3. CASE \E g \in Hosts : \E i \in DOMAIN resp'[g] : c = <<"resp", g, i>>
    BY <1>6, <2>3
  <2>4. CASE \E i \in DOMAIN msgQ' : c = <<"msgQ", NoHost, i>>
    BY <1>7, <2>4
  <2>5. CASE \E i \in DOMAIN batch' : c = <<"batch", NoHost, i>>
    BY <1>8, <2>5
  <2> QED
    BY <2>1, <2>2, <2>3, <2>4, <2>5
<1>10. \A c \in Places' :
           \/ ~(c[1] = "todo" /\ c[2] = s) /\ o[c] = c
           \/ \E i \in Nat : /\ c = <<"todo", s, i>>
                             /\ o[c] = <<"todo", s, IF i < n THEN i ELSE i + 1>>
           \/ c = <<"resp", h, last>> /\ o[c] = <<"todo", s, n>>
  BY <1>9
<1> HIDE PlaceFacts, PlaceFactsNext
<1> HIDE DEF last
<1>11. ASSUME NEW c \in Places', NEW d \in Places', o[c] = o[d] PROVE c = d
  <2>1. CASE ~(c[1] = "todo" /\ c[2] = s) /\ o[c] = c
    <3>1. \A i : o[d] # <<"todo", s, i>>
      BY <1>11, <2>1
    <3> QED
      BY <1>10, <1>11, <2>1, <3>1
  <2>2. ASSUME NEW i \in Nat, c = <<"todo", s, i>>,
               o[c] = <<"todo", s, IF i < n THEN i ELSE i + 1>>
        PROVE  c = d
    <3>1. ~(~(d[1] = "todo" /\ d[2] = s) /\ o[d] = d)
      BY <1>11, <2>2
    <3>2. o[d] # <<"todo", s, n>>
      BY <1>3, <1>11, <2>2
    <3>3. PICK k \in Nat : /\ d = <<"todo", s, k>>
                           /\ o[d] = <<"todo", s, IF k < n THEN k ELSE k + 1>>
      BY <1>10, <3>1, <3>2
    <3>4. (IF i < n THEN i ELSE i + 1) = (IF k < n THEN k ELSE k + 1)
      BY <1>11, <2>2, <3>3
    <3>5. i = k
      BY <1>3, <3>4
    <3> QED
      BY <2>2, <3>3, <3>5
  <2>3. CASE c = <<"resp", h, last>> /\ o[c] = <<"todo", s, n>>
    <3>1. ~(~(d[1] = "todo" /\ d[2] = s) /\ o[d] = d)
      BY <1>11, <2>3
    <3>2. ASSUME NEW i \in Nat PROVE o[d] # <<"todo", s, IF i < n THEN i ELSE i + 1>>
      BY <1>3, <1>11, <2>3
    <3> QED
      BY <1>10, <2>3, <3>1, <3>2
  <2> QED
    BY <1>10, <2>1, <2>2, <2>3
<1>12. \A c \in Places' : o[c] \in Places /\ At(c)' = At(o[c])
  BY <1>9
<1>13. /\ Once'
       /\ \A l \in Mail' : l \in Mail \/ (Nowhere \in Places' /\ l = At(Nowhere)')
  <2> HIDE DEF Nowhere
  <2> QED
    BY <1>11, <1>12, NowhereFacts, Moved
<1> QED
  BY <1>13, NowhereFacts

\* The requests of the message under construction are queued, or lost.
LEMMA SendMail ==
    ASSUME TypeInv, TypeInv', Once, KickOffSend
    PROVE  Once' /\ Mail' \subseteq Mail
<1> USE PlaceFacts, PlaceFactsNext DEF PlaceLaws
<1> DEFINE h == ThisHost
           back(r) == Len(todo[r]) + 1
           from(c) == IF c[1] = "todo" /\ c[2][1] = h /\ c[3] = back(c[2])
                      THEN <<"batch", NoHost, c[2][2] + 1>> ELSE c
           o == [c \in Places' |-> from(c)]
           given(r) == IF r[2] < Len(batch) THEN batch[r[2] + 1] ELSE NoWork
<1>1. /\ todo' = [r \in Slots |-> IF r[1] = h /\ link[h] = "up"
                                  THEN Append(todo[r], given(r)) ELSE todo[r]]
      /\ batch \in Seq([tag : Tags, off : Nat, cnt : Nat])
      /\ \A r \in Slots : given(r) \in Entries
      /\ batch' = <<>> /\ resp' = resp /\ msgQ' = msgQ
  BY SendFacts
<1>2. todo \in [Slots -> Seq(Entries)]
  BY DEF TypeInv, LinksOK
<1>3. \A r \in Slots : \A i \in DOMAIN todo'[r] :
          <<"todo", r, i>> \in Places' =>
              /\ \/ /\ r[1] = h /\ i = back(r)
                    /\ o[<<"todo", r, i>>] = <<"batch", NoHost, r[2] + 1>>
                 \/ o[<<"todo", r, i>>] = <<"todo", r, i>>
              /\ o[<<"todo", r, i>>] \in Places
              /\ At(<<"todo", r, i>>)' = At(o[<<"todo", r, i>>])
  <2> SUFFICES ASSUME NEW r \in Slots, NEW i \in DOMAIN todo'[r], <<"todo", r, i>> \in Places'
               PROVE  /\ \/ /\ r[1] = h /\ i = back(r)
                            /\ o[<<"todo", r, i>>] = <<"batch", NoHost, r[2] + 1>>
                         \/ o[<<"todo", r, i>>] = <<"todo", r, i>>
                      /\ o[<<"todo", r, i>>] \in Places
                      /\ At(<<"todo", r, i>>)' = At(o[<<"todo", r, i>>])
    OBVIOUS
  <2>1. o[<<"todo", r, i>>] = IF r[1] = h /\ i = back(r) THEN <<"batch", NoHost, r[2] + 1>>
                              ELSE <<"todo", r, i>>
    OBVIOUS
  <2>2. At(<<"todo", r, i>>)' = Letter(r[1], r[2], todo'[r][i]) /\ todo'[r][i].tag # 0
    OBVIOUS
  <2>3. todo[r] \in Seq(Entries)
    BY <1>2
  <2> HIDE DEF o
  <2>4. CASE r[1] = h /\ i = back(r)
    <3>1. todo'[r] = Append(todo[r], given(r))
      <4>1. i \notin DOMAIN todo[r]
        BY <2>3, <2>4
      <4> QED
        BY <1>1, <4>1
    <3>2. todo'[r][i] = given(r)
      <4> HIDE DEF given
      <4> QED
        BY <1>1, <2>3, <2>4, <3>1, AppendFacts
    <3>3. r[2] < Len(batch) /\ given(r) = batch[r[2] + 1]
      BY <2>2, <3>2 DEF NoWork
    <3> DEFINE k == r[2] + 1
    <3>4. k \in DOMAIN batch /\ k - 1 = r[2]
      <4>1. r[2] \in Nat
        BY SlotFacts
      <4>2. DOMAIN batch = 1 .. Len(batch) /\ Len(batch) \in Nat
        BY <1>1, LenProperties
      <4> QED
        BY <3>3, <4>1, <4>2
    <3>5. o[<<"todo", r, i>>] = <<"batch", NoHost, k>> /\ given(r) = batch[k]
      BY <2>1, <2>4, <3>3
    <3> HIDE DEF k, given
    <3>6. <<"batch", NoHost, k>> \in Places /\ At(<<"batch", NoHost, k>>) = Letter(h, k - 1, batch[k])
      BY <3>4
    <3>7. At(<<"todo", r, i>>)' = At(<<"batch", NoHost, k>>)
      BY <2>2, <2>4, <3>2, <3>4, <3>5, <3>6
    <3>8. o[<<"todo", r, i>>] = <<"batch", NoHost, r[2] + 1>>
      BY <3>5 DEF k
    <3> QED
      BY <2>4, <3>5, <3>6, <3>7, <3>8
  <2>5. CASE ~(r[1] = h /\ i = back(r))
    <3>1. i \in DOMAIN todo[r] /\ todo'[r][i] = todo[r][i]
      <4>1. todo'[r] = todo[r] \/ (todo'[r] = Append(todo[r], given(r)) /\ r[1] = h)
        BY <1>1
      <4> HIDE DEF given
      <4> QED
        BY <1>1, <2>3, <2>5, <4>1, AppendFacts
    <3>2. o[<<"todo", r, i>>] = <<"todo", r, i>>
      BY <2>1, <2>5
    <3> QED
      BY <2>2, <3>1, <3>2
  <2> QED
    BY <2>4, <2>5
<1>4. \A g \in Hosts : \A i \in DOMAIN resp'[g] :
          <<"resp", g, i>> \in Places' =>
              /\ o[<<"resp", g, i>>] = <<"resp", g, i>>
              /\ o[<<"resp", g, i>>] \in Places
              /\ At(<<"resp", g, i>>)' = At(o[<<"resp", g, i>>])
  <2> SUFFICES ASSUME NEW g \in Hosts, NEW i \in DOMAIN resp'[g], <<"resp", g, i>> \in Places'
               PROVE  /\ o[<<"resp", g, i>>] = <<"resp", g, i>>
                      /\ o[<<"resp", g, i>>] \in Places
                      /\ At(<<"resp", g, i>>)' = At(o[<<"resp", g, i>>])
    OBVIOUS
  <2>1. o[<<"resp", g, i>>] = <<"resp", g, i>>
    OBVIOUS
  <2> HIDE DEF o
  <2> QED
    BY <1>1, <2>1
<1>5. \A i \in DOMAIN msgQ' :
          <<"msgQ", NoHost, i>> \in Places' =>
              /\ o[<<"msgQ", NoHost, i>>] = <<"msgQ", NoHost, i>>
              /\ o[<<"msgQ", NoHost, i>>] \in Places
              /\ At(<<"msgQ", NoHost, i>>)' = At(o[<<"msgQ", NoHost, i>>])
  <2> SUFFICES ASSUME NEW i \in DOMAIN msgQ', <<"msgQ", NoHost, i>> \in Places'
               PROVE  /\ o[<<"msgQ", NoHost, i>>] = <<"msgQ", NoHost, i>>
                      /\ o[<<"msgQ", NoHost, i>>] \in Places
                      /\ At(<<"msgQ", NoHost, i>>)' = At(o[<<"msgQ", NoHost, i>>])
    OBVIOUS
  <2>1. o[<<"msgQ", NoHost, i>>] = <<"msgQ", NoHost, i>>
    OBVIOUS
  <2>2. AnswerAt(i)
    BY <1>1 DEF AnswerAt
  <2> HIDE DEF o
  <2> QED
    BY <1>1, <2>1, <2>2
<1>6. DOMAIN batch' = {}
  BY <1>1
<1> HIDE DEF o
<1>7. ASSUME NEW c \in Places'
      PROVE  /\ o[c] \in Places /\ At(c)' = At(o[c])
             /\ \/ c[1] # "batch" /\ o[c] = c
                \/ \E r \in Slots : /\ r[1] = h /\ c = <<"todo", r, back(r)>>
                                    /\ o[c] = <<"batch", NoHost, r[2] + 1>>
  <2>1. \/ \E r \in Slots : \E i \in DOMAIN todo'[r] : c = <<"todo", r, i>>
        \/ \E g \in Hosts : \E i \in DOMAIN resp'[g] : c = <<"resp", g, i>>
        \/ \E i \in DOMAIN msgQ' : c = <<"msgQ", NoHost, i>>
    BY <1>6
  <2> HIDE PlaceFacts, PlaceFactsNext
  <2> HIDE DEF back, h
  <2>2. ASSUME NEW r \in Slots, NEW i \in DOMAIN todo'[r], c = <<"todo", r, i>>
        PROVE  /\ o[c] \in Places /\ At(c)' = At(o[c])
               /\ \/ c[1] # "batch" /\ o[c] = c
                  \/ r[1] = h /\ c = <<"todo", r, back(r)>> /\ o[c] = <<"batch", NoHost, r[2] + 1>>
    <3>1. /\ \/ r[1] = h /\ i = back(r) /\ o[c] = <<"batch", NoHost, r[2] + 1>>
             \/ o[c] = c
          /\ o[c] \in Places /\ At(c)' = At(o[c])
      BY <1>3, <2>2
    <3> QED
      BY <2>2, <3>1
  <2>3. CASE \E g \in Hosts : \E i \in DOMAIN resp'[g] : c = <<"resp", g, i>>
    <3>1. PICK g \in Hosts : \E i \in DOMAIN resp'[g] : c = <<"resp", g, i>>
      BY <2>3
    <3>2. PICK i \in DOMAIN resp'[g] : c = <<"resp", g, i>>
      BY <3>1
    <3>3. o[c] = c /\ o[c] \in Places /\ At(c)' = At(o[c])
      BY <1>4, <3>2
    <3> QED
      BY <3>2, <3>3
  <2>4. CASE \E i \in DOMAIN msgQ' : c = <<"msgQ", NoHost, i>>
    BY <1>5, <2>4
  <2> QED
    BY <2>1, <2>2, <2>3, <2>4
<1>8. \A c \in Places' : o[c] \in Places /\ At(c)' = At(o[c])
  BY <1>7
<1> HIDE PlaceFacts, PlaceFactsNext
<1> HIDE DEF back, h
<1>9. ASSUME NEW c \in Places', NEW d \in Places', o[c] = o[d] PROVE c = d
  <2>1. CASE c[1] # "batch" /\ o[c] = c
    <3>1. \A i : o[d] # <<"batch", NoHost, i>>
      BY <1>9, <2>1
    <3> QED
      BY <1>7, <1>9, <2>1, <3>1
  <2>2. ASSUME NEW r \in Slots, r[1] = h, c = <<"todo", r, back(r)>>,
               o[c] = <<"batch", NoHost, r[2] + 1>>
        PROVE  c = d
    <3>1. ~(d[1] # "batch" /\ o[d] = d)
      BY <1>9, <2>2
    <3>2. PICK q \in Slots : /\ q[1] = h /\ d = <<"todo", q, back(q)>>
                             /\ o[d] = <<"batch", NoHost, q[2] + 1>>
      BY <1>7, <3>1
    <3>3. q[2] + 1 = r[2] + 1
      BY <1>9, <2>2, <3>2
    <3>4. q[2] = r[2]
      BY <3>3, SlotFacts
    <3>5. q = r
      BY <2>2, <3>2, <3>4, SlotFacts
    <3> QED
      BY <2>2, <3>2, <3>5
  <2> QED
    BY <1>7, <2>1, <2>2
<1>10. /\ Once'
       /\ \A l \in Mail' : l \in Mail \/ (Nowhere \in Places' /\ l = At(Nowhere)')
  <2> HIDE DEF Nowhere
  <2> QED
    BY <1>8, <1>9, NowhereFacts, Moved
<1> QED
  BY <1>10, NowhereFacts

\* No request is written, and no tag or route is given out.
Calm ==
    /\ Once' /\ Mail' \subseteq Mail
    /\ \A h \in Hosts : routed'[h] \subseteq routed[h]
    /\ freeTags' = freeTags

SamePlan ==
    /\ UNCHANGED <<pending, current, workload, order>>
    /\ scene' = scene \/ (scene = "none" /\ scene' = "rejected")

SameJobs == UNCHANGED <<tracked, failed>> /\ Base!Shipped' = Base!Shipped

\* A pipeline ships what it was asked for.
Ships(s) ==
    /\ 1 \in DOMAIN todo[s] /\ todo[s][1].cnt # 0
    /\ Base!Shipped' = Base!Shipped \cup {[off |-> todo[s][1].off, cnt |-> todo[s][1].cnt]}
    /\ UNCHANGED <<tracked, failed>>

LEMMA ShippedSame ==
    ASSUME UNCHANGED <<image, lost, segments>>
    PROVE  Base!Shipped' = Base!Shipped
BY DEF Base!Shipped

\* Nothing happens to the requests but that entries are taken from the queue.
LEMMA QueueCalm ==
    ASSUME TypeInv, TypeInv', Once, NEW n \in {0, 1}, QueueMoves(n),
           UNCHANGED <<todo, resp, freeTags>>, BatchStays,
           \A h \in Hosts : routed'[h] \subseteq routed[h]
    PROVE  Calm
<1>1. Once' /\ Mail' \subseteq Mail
  BY ShrinkMail
<1> QED
  BY <1>1 DEF Calm

\* The steps that put exceptions into the queue.
LEMMA AcceptMoves ==
    ASSUME TypeInv, TypeInv', AcceptScene
    PROVE  QueueMoves(0)
<1>1. msgQ \in Seq(Queued) /\ Grown(msgQ', msgQ, NullException) /\ Len(msgQ') >= Len(msgQ)
  BY AcceptFacts DEF TypeInv, QueueOK
<1>2. NullException.kind = "exception" /\ NullException.host = NoHost
  BY DEF NullException
<1> QED
  BY <1>1, <1>2, GrownMoves

LEMMA DetachedMoves ==
    ASSUME TypeInv, TypeInv', Base!HandleDetachedException, UNCHANGED planVars
    PROVE  QueueMoves(1)
<1> DEFINE e == ClosingException(Host)
           q == Tail(msgQ)
<1>1. link' = [link EXCEPT ![Host] = "closed"]
  BY DetachedExceptionFacts
<1>2. e.kind = "exception" /\ (e.host # NoHost => link'[e.host] = "closed")
  BY <1>1, DetachedExceptionFacts DEF ClosingException, TypeInv, LinksOK
<1>3. /\ Grown(msgQ', q, e) /\ Len(msgQ') >= Len(q) /\ q \in Seq(Queued)
      /\ q = Tail(msgQ) /\ msgQ # <<>>
  BY DetachedExceptionFacts
<1> HIDE DEF e, q
<1>4. 1 \in {0, 1} /\ (1 = 0 => q = msgQ) /\ (1 = 1 => msgQ # <<>> /\ q = Tail(msgQ))
  BY <1>3
<1> QED
  BY <1>2, <1>3, <1>4, GrownMoves

LEMMA CloseMoves ==
    ASSUME TypeInv, TypeInv', NEW h \in Hosts, Base!CloseConnection(h), UNCHANGED planVars
    PROVE  QueueMoves(0)
<1> DEFINE e == ClosingException(h)
<1>1. link' = [link EXCEPT ![h] = "closed"]
  BY CloseConnectionFacts
<1>2. /\ Grown(msgQ', msgQ, e) /\ Len(msgQ') >= Len(msgQ) /\ msgQ \in Seq(Queued)
      /\ e.kind = "exception"
      /\ e.host # NoHost => link'[e.host] = "closed"
  BY <1>1, CloseConnectionFacts DEF ClosingException, TypeInv, LinksOK, QueueOK
<1> HIDE DEF e
<1> QED
  BY <1>2, GrownMoves

LEMMA AcceptCalm ==
    ASSUME TypeInv, TypeInv', Once, AcceptScene
    PROVE  Calm /\ SameJobs
<1> USE AcceptFacts
<1>1. QueueMoves(0)
  BY AcceptMoves
<1>2. BatchStays
  BY DEF BatchStays
<1>3. Base!Shipped' = Base!Shipped
  BY ShippedSame
<1>4. UNCHANGED <<todo, resp, freeTags, routed, tracked, failed>>
  OBVIOUS
<1>5. \A h \in Hosts : routed'[h] \subseteq routed[h]
  BY <1>4
<1>6. Calm
  BY <1>1, <1>2, <1>4, <1>5, QueueCalm
<1> QED
  BY <1>3, <1>4, <1>6 DEF SameJobs

\* The steps of the kick-off that write no request.
LEMMA KickOffCalm ==
    ASSUME TypeInv, TypeInv', Once,
           KickOffFind \/ KickOffSend \/ KickOffEnd \/ DyingStep
           \/ (Base!RejectScene /\ UNCHANGED planVars) \/ UNCHANGED vars
    PROVE  Calm /\ SamePlan /\ SameJobs
<1>1. ASSUME UNCHANGED <<tracked, failed, image, lost, segments>> PROVE SameJobs
  BY <1>1, ShippedSame DEF SameJobs
<1>2. ASSUME msgQ' = msgQ PROVE QueueMoves(0)
  BY <1>2, TailMoves
<1>3. ASSUME UNCHANGED <<msgQ, todo, resp, freeTags, routed>>, BatchStays PROVE Calm
  <2>1. \A h \in Hosts : routed'[h] \subseteq routed[h]
    BY <1>3
  <2> QED
    BY <1>2, <1>3, <2>1, QueueCalm
<1>4. CASE KickOffFind
  <2>1. /\ UNCHANGED <<trackerVars, linkVars, jobVars, pos, sceneVars, msgQ, planVars>>
    BY <1>4, FindFacts
  <2>2. BatchStays
    BY <2>1 DEF BatchStays
  <2> QED
    BY <1>1, <1>3, <2>1, <2>2 DEF SamePlan
<1>5. CASE KickOffSend
  <2>1. /\ UNCHANGED <<trackerVars, link, freeTags, routed, briefed, shipped, wireVars,
                       jobVars, scene, cleaned, fault, msgQ, order>>
    BY <1>5, SendFacts
  <2>2. Once' /\ Mail' \subseteq Mail
    BY <1>5, SendMail
  <2> QED
    BY <1>1, <2>1, <2>2 DEF SamePlan, Calm
<1>6. CASE KickOffEnd
  <2>1. /\ UNCHANGED <<trackerVars, linkVars, jobVars, scene, cleaned, fault, msgQ, planVars>>
        /\ pc = "find"
    BY <1>6, EndFacts
  <2>2. batch = <<>>
    BY <2>1 DEF TypeInv, PlaceOK
  <2>3. BatchStays
    BY <2>1, <2>2 DEF BatchStays
  <2> QED
    BY <1>1, <1>3, <2>1, <2>3 DEF SamePlan
<1>7. CASE DyingStep
  <2>1. Dying
    BY <1>7, DyingFacts DEF DyingStep
  <2>2. BatchStays
    BY <2>1 DEF BatchStays, Dying
  <2> QED
    BY <1>1, <1>3, <2>1, <2>2 DEF SamePlan, Dying
<1>8. CASE Base!RejectScene /\ UNCHANGED planVars
  <2>1. Rejecting
    BY <1>8, RejectFacts
  <2>2. BatchStays
    BY <2>1 DEF BatchStays, Rejecting
  <2> QED
    BY <1>1, <1>3, <2>1, <2>2 DEF SamePlan, Rejecting
<1>9. CASE UNCHANGED vars
  <2>1. UNCHANGED <<trackerVars, linkVars, jobVars, pc, pos, sceneVars, msgQ, planVars>>
    BY <1>9 DEF vars, Base!vars, Base!trackerVars, Base!linkVars, Base!wireVars
  <2>2. BatchStays
    BY <2>1 DEF BatchStays
  <2> QED
    BY <1>1, <1>3, <2>1, <2>2 DEF SamePlan
<1> QED
  BY <1>4, <1>5, <1>6, <1>7, <1>8, <1>9

\* The scheduler takes an exception, or what comes after the scene.
LEMMA ExceptionCalm ==
    ASSUME TypeInv, TypeInv', Once, UNCHANGED planVars,
           Base!HandleException \/ Base!HandleDetachedAnswer \/ Base!HandleDetachedException
    PROVE  Calm /\ SamePlan /\ (SameJobs \/ Base!HandleException)
<1>1. ASSUME UNCHANGED <<tracked, failed, image, lost, segments>> PROVE SameJobs
  BY <1>1, ShippedSame DEF SameJobs
<1>2. ASSUME msgQ # <<>>, msgQ' = Tail(msgQ) PROVE QueueMoves(1)
  BY <1>2, TailMoves
<1>3. CASE Base!HandleException
  <2>1. /\ UNCHANGED <<linkVars, current, pending, workload, pc, pos, sceneVars, planVars>>
        /\ msgQ # <<>> /\ msgQ' = Tail(msgQ) /\ pc = "idle"
    BY <1>3, HandleExceptionFacts
  <2>2. BatchStays
    BY <2>1 DEF BatchStays
  <2>3. \A h \in Hosts : routed'[h] \subseteq routed[h]
    BY <2>1
  <2>4. Calm
    BY <1>2, <2>1, <2>2, <2>3, QueueCalm
  <2> QED
    BY <1>3, <2>1, <2>4 DEF SamePlan
<1>4. CASE Base!HandleDetachedAnswer
  <2>1. /\ UNCHANGED <<trackerVars, linkVars, jobVars, pc, pos, sceneVars, planVars>>
        /\ msgQ # <<>> /\ msgQ' = Tail(msgQ)
    BY <1>4, DetachedAnswerFacts
  <2>2. BatchStays
    BY <2>1 DEF BatchStays
  <2>3. \A h \in Hosts : routed'[h] \subseteq routed[h]
    BY <2>1
  <2>4. Calm
    BY <1>2, <2>1, <2>2, <2>3, QueueCalm
  <2> QED
    BY <1>1, <2>1, <2>4 DEF SamePlan
<1>5. CASE Base!HandleDetachedException
  <2>1. /\ msgQ # <<>> /\ Host \in Hosts /\ NotifyHostFailure(Host)
        /\ link' = [link EXCEPT ![Host] = "closed"]
        /\ routed' = [routed EXCEPT ![Host] = {}]
        /\ Tail(msgQ) \in Seq(Queued)
        /\ Grown(msgQ', Tail(msgQ), ClosingException(Host)) /\ Len(msgQ') >= Len(Tail(msgQ))
        /\ UNCHANGED <<freeTags, todo, briefed, shipped, wireVars, jobVars, pc, pos,
                       sceneVars, planVars>>
    BY <1>5, DetachedExceptionFacts
  <2>2. BatchStays /\ UNCHANGED <<tracked, failed>>
    BY <2>1 DEF BatchStays, NotifyHostFailure
  <2>3. \A h \in Hosts : routed'[h] \subseteq routed[h]
    BY <2>1 DEF TypeInv, LinksOK
  <2>4. QueueMoves(1)
    BY <1>5, DetachedMoves
  <2>5. Calm
    BY <2>1, <2>2, <2>3, <2>4, QueueCalm
  <2> QED
    BY <1>1, <2>1, <2>2, <2>5 DEF SamePlan
<1> QED
  BY <1>3, <1>4, <1>5

\* The connection's threads.
LEMMA ThreadCalm ==
    ASSUME TypeInv, TypeInv', Once, UNCHANGED planVars, NEW h \in Hosts, ThreadStep(h)
    PROVE  Calm /\ SamePlan /\ SameJobs
<1>1. ASSUME UNCHANGED <<tracked, failed, image, lost, segments>> PROVE SameJobs
  BY <1>1, ShippedSame DEF SameJobs
<1>2. ASSUME UNCHANGED <<msgQ, todo, resp, freeTags, routed>>, BatchStays PROVE Calm
  <2>1. \A g \in Hosts : routed'[g] \subseteq routed[g]
    BY <1>2
  <2>2. QueueMoves(0)
    BY <1>2, TailMoves
  <2> QED
    BY <1>2, <2>1, <2>2, QueueCalm
<1>3. CASE Base!Receive(h)
  <2>1. Once' /\ Mail' \subseteq Mail
    BY <1>3, ReceiveMail
  <2>2. UNCHANGED <<trackerVars, link, freeTags, routed, segments, image, lost, jobVars,
                    sceneVars, planVars>>
    BY <1>3, ReceiveFacts
  <2> QED
    BY <1>1, <2>1, <2>2 DEF SamePlan, Calm
<1>4. CASE Base!ReportException(h)
  <2>1. UNCHANGED <<trackerVars, freeTags, routed, todo, wireVars, jobVars, pos, sceneVars,
                    msgQ, planVars>>
    BY <1>4, ReportFacts
  <2>2. BatchStays
    BY <2>1 DEF BatchStays
  <2> QED
    BY <1>1, <1>2, <2>1, <2>2 DEF SamePlan
<1>5. CASE Base!NoteFailure(h)
  <2>1. /\ NotifyHostFailure(h)
        /\ UNCHANGED <<freeTags, routed, todo, wireVars, jobVars, pos, sceneVars, msgQ,
                       planVars>>
    BY <1>5, NoteFacts
  <2>2. BatchStays /\ tracked' = tracked
    BY <2>1 DEF BatchStays, NotifyHostFailure
  <2> QED
    BY <1>1, <1>2, <2>1, <2>2 DEF SamePlan
<1>6. CASE Base!CloseConnection(h)
  <2>1. /\ link' = [link EXCEPT ![h] = "closed"]
        /\ routed' = [routed EXCEPT ![h] = {}]
        /\ Grown(msgQ', msgQ, ClosingException(h)) /\ Len(msgQ') >= Len(msgQ)
        /\ UNCHANGED <<trackerVars, freeTags, todo, wireVars, jobVars, pos, sceneVars, planVars>>
    BY <1>6, CloseConnectionFacts
  <2>2. BatchStays
    BY <2>1 DEF BatchStays
  <2>3. \A g \in Hosts : routed'[g] \subseteq routed[g]
    BY <2>1 DEF TypeInv, LinksOK
  <2>4. QueueMoves(0)
    BY <1>6, CloseMoves
  <2>5. Calm
    BY <2>1, <2>2, <2>3, <2>4, QueueCalm
  <2> QED
    BY <1>1, <2>1, <2>5 DEF SamePlan
<1>7. CASE Base!RegisterWorker(h)
  <2>1. /\ hostWorkers' = Append(hostWorkers, h)
        /\ UNCHANGED <<tracked, freeTags, routed, todo, wireVars, jobVars, pos, sceneVars, msgQ,
                       planVars>>
    BY <1>7, RegisterFacts
  <2>2. hostWorkers \in Seq(Hosts)
    BY DEF TypeInv, TrackerTypeOK
  <2>3. \A i \in DOMAIN hostWorkers : hostWorkers'[i] = hostWorkers[i]
    BY <2>1, <2>2, AppendFacts
  <2>4. BatchStays
    BY <2>1, <2>3 DEF BatchStays
  <2> QED
    BY <1>1, <1>2, <2>1, <2>4 DEF SamePlan
<1> QED
  BY <1>3, <1>4, <1>5, <1>6, <1>7 DEF ThreadStep

\* The workers and the client.
LEMMA WorkerCalm ==
    ASSUME TypeInv, TypeInv', Once, UNCHANGED planVars,
           \/ \E h \in Hosts : Dies(h) \/ Base!Client(h)
           \/ \E s \in Slots : Base!Worker(s) /\ (Base!ShipSegment(s) \/ Base!Respond(s))
    PROVE  Calm /\ SamePlan /\ (SameJobs \/ \E s \in Slots : Ships(s))
<1>1. ASSUME MasterKept PROVE SamePlan /\ QueueMoves(0) /\ BatchStays
  <2>1. QueueMoves(0)
    BY <1>1, TailMoves DEF MasterKept
  <2> QED
    BY <1>1, <2>1 DEF MasterKept, SamePlan, BatchStays
<1>2. ASSUME MasterKept, Once', Mail' \subseteq Mail PROVE Calm
  BY <1>2 DEF MasterKept, Calm
<1>3. ASSUME NEW h \in Hosts, Dies(h) PROVE Calm /\ SamePlan /\ SameJobs
  <2>1. /\ \A g \in Hosts : \A i \in DOMAIN resp'[g] :
               i \in DOMAIN resp[g] /\ resp'[g][i] = resp[g][i]
        /\ todo' = [s \in Slots |-> IF s[1] = h THEN <<>> ELSE todo[s]]
        /\ Base!Shipped' = Base!Shipped
        /\ MasterKept
    BY <1>3, PerishFacts DEF Dies
  <2>2. \A s \in Slots : \A i \in DOMAIN todo'[s] :
            i \in DOMAIN todo[s] /\ todo'[s][i] = todo[s][i]
    BY <2>1
  <2>3. Once' /\ Mail' \subseteq Mail
    BY <1>1, <2>1, <2>2, ShrinkMail
  <2> QED
    BY <1>1, <1>2, <2>1, <2>3 DEF SameJobs, MasterKept
<1>4. ASSUME NEW h \in Hosts, Base!Client(h) PROVE Calm /\ SamePlan /\ SameJobs
  <2>1. Base!Shipped' = Base!Shipped /\ UNCHANGED <<todo, resp>> /\ MasterKept
    BY <1>4, DeliverFacts
  <2>2. Once' /\ Mail' \subseteq Mail
    BY <1>1, <2>1, ShrinkMail
  <2> QED
    BY <1>1, <1>2, <2>1, <2>2 DEF SameJobs, MasterKept
<1>5. ASSUME NEW s \in Slots, Base!Worker(s), Base!ShipSegment(s)
      PROVE  Calm /\ SamePlan /\ Ships(s)
  <2>1. /\ 1 \in DOMAIN todo[s] /\ todo[s][1].cnt # 0
        /\ Base!Shipped' = Base!Shipped \cup {[off |-> todo[s][1].off, cnt |-> todo[s][1].cnt]}
        /\ UNCHANGED <<todo, resp>> /\ MasterKept
    BY <1>5, ShipFacts
  <2>2. Once' /\ Mail' \subseteq Mail
    BY <1>1, <2>1, ShrinkMail
  <2> QED
    BY <1>1, <1>2, <2>1, <2>2 DEF Ships, MasterKept
<1>6. ASSUME NEW s \in Slots, Base!Worker(s), Base!Respond(s)
      PROVE  Calm /\ SamePlan /\ SameJobs
  <2>1. UNCHANGED <<segments, image, lost>> /\ MasterKept
    BY <1>6, RespondFacts
  <2>2. Once' /\ Mail' \subseteq Mail
    BY <1>6, RespondMail
  <2> QED
    BY <1>1, <1>2, <2>1, <2>2, ShippedSame DEF SameJobs, MasterKept
<1> QED
  BY <1>3, <1>4, <1>5, <1>6

\* What steps do to the requests, the tags, the plan and the jobs.
LEMMA StepKinds ==
    ASSUME TypeInv, TypeInv', Once, [Next]_vars
    PROVE  \/ /\ Calm /\ SamePlan
              /\ \/ SameJobs \/ \E s \in Slots : Ships(s)
                 \/ Base!HandleException /\ UNCHANGED planVars
           \/ Calm /\ SameJobs /\ AcceptScene
           \/ KickOffAssign \/ AnswerThenRedispatch \/ AnswerThenFinish \/ AnswerThenWait
<1>1. CASE AcceptScene
  BY <1>1, AcceptCalm
<1>2. CASE \/ KickOffFind \/ KickOffSend \/ KickOffEnd \/ DyingStep
           \/ (Base!RejectScene /\ UNCHANGED planVars) \/ UNCHANGED vars
  BY <1>2, KickOffCalm
<1>3. CASE PlanKept
  <2>1. UNCHANGED planVars
    BY <1>3 DEF PlanKept
  <2>2. CASE Base!RejectScene
    BY <2>1, <2>2, KickOffCalm
  <2>3. CASE Base!HandleException \/ Base!HandleDetachedAnswer \/ Base!HandleDetachedException
    BY <2>1, <2>3, ExceptionCalm
  <2>4. CASE \E h \in Hosts : ThreadStep(h)
    BY <2>1, <2>4, ThreadCalm
  <2>5. CASE \/ \E h \in Hosts : Dies(h) \/ Base!Client(h)
             \/ \E s \in Slots : Base!Worker(s) /\ (Base!ShipSegment(s) \/ Base!Respond(s))
    BY <2>1, <2>5, WorkerCalm
  <2> QED
    BY <1>3, <2>2, <2>3, <2>4, <2>5 DEF PlanKept
<1> QED
  BY <1>1, <1>2, <1>3, StepCases

-----------------------------------------------------------------------------
(* Steps that send, and the answers                                        *)

\* Every tag is free once, or on its way, or neither.
TagInv ==
    /\ Once
    /\ \A h \in Hosts : IsInjective(freeTags[h])
    /\ \A l \in Mail : l.tag \notin Range(freeTags[l.host])

NewLetter == Letter(ThisHost, pos.pipe, NextEntry)

LEMMA AssignMail ==
    ASSUME TypeInv, TypeInv', TagInv, KickOffAssign
    PROVE  Once' /\ Mail' \subseteq Mail \cup {NewLetter}
<1>0. PICK k \in Nat : k = Len(batch) + 1
  BY AssignFacts
<1> DEFINE x == <<"batch", NoHost, k>>
<1>1. /\ ThisHost \in Hosts /\ freeTags[ThisHost] \in Seq(Tags) /\ freeTags[ThisHost] # <<>>
      /\ batch' = Append(batch, NextEntry) /\ Len(batch) = pos.pipe
      /\ ThisHost' = ThisHost
      /\ UNCHANGED <<todo, wireVars, msgQ>>
  BY AssignFacts
<1> DEFINE filled == [tag : Tags, off : Nat, cnt : Nat]
<1>2. batch \in Seq(filled) /\ NextEntry \in filled
  BY AssignFacts
<1> HIDE DEF filled
<1>3. \A i \in DOMAIN batch' :
          (i \in DOMAIN batch /\ batch'[i] = batch[i]) \/ (i = k /\ batch'[i] = NextEntry)
  BY <1>0, <1>1, <1>2, AppendFacts
<1>4. k \in DOMAIN batch' /\ batch'[k] = NextEntry /\ k - 1 = pos.pipe
  BY <1>0, <1>1, <1>2, AppendFacts
<1>5. At(x)' = NewLetter
  <2>1. At(x)' = Letter(ThisHost, k - 1, batch'[k])
    BY <1>1 DEF At
  <2> QED
    BY <1>4, <2>1 DEF NewLetter
<1>6. \A l \in Mail : ~Same(l, NewLetter)
  <2>1. NextTag \in Range(freeTags[ThisHost])
    BY <1>1, SeqTail DEF NextTag, Range
  <2>2. NewLetter.host = ThisHost /\ NewLetter.tag = NextTag
    BY DEF NewLetter, Letter, NextEntry
  <2> QED
    BY <2>1, <2>2 DEF Same, TagInv
<1>7. /\ Once'
      /\ \A l \in Mail' : l \in Mail \/ (x \in Places' /\ l = At(x)')
  <2>1. QueueMoves(0)
    BY <1>1, TailMoves
  <2>2. \A s, i : <<"todo", s, i>> # x /\ <<"msgQ", s, i>> # x
    OBVIOUS
  <2>3. \A i \in DOMAIN batch' : <<"batch", NoHost, i>> # x =>
            i \in DOMAIN batch /\ batch'[i] = batch[i] /\ ThisHost' = ThisHost
    BY <1>1, <1>3
  <2>4. \A l \in Mail : ~Same(l, At(x)')
    BY <1>5, <1>6
  <2> HIDE DEF x
  <2> QED
    BY <1>1, <2>1, <2>2, <2>3, <2>4, Shifted DEF TagInv
<1> QED
  BY <1>5, <1>7

\* The answer that is handled.
Answered == Letter(Host, Head(msgQ).pipe, Head(msgQ))

LEMMA AnsweredFacts ==
    ASSUME TypeInv, HandleAnswer
    PROVE  /\ Answered \in Mail /\ IsLetter(Answered)
           /\ Answered.host = Host /\ Answered.tag = Head(msgQ).tag
           /\ Answered.host = msgQ[1].host /\ Answered.tag = msgQ[1].tag
           /\ Base!AnswerSlot = <<Answered.host, Answered.pipe>>
           /\ Answered.off = Head(msgQ).off /\ Answered.cnt = Head(msgQ).cnt
<1> USE AnswerFacts
<1>1. <<"msgQ", NoHost, 1>> \in Places /\ At(<<"msgQ", NoHost, 1>>) = Answered
  BY PlaceFacts DEF PlaceLaws, Answered, Host
<1>2. Answered \in Mail
  BY <1>1 DEF Mail
<1>3. IsLetter(Answered)
  BY <1>2, MailType DEF LettersOK
<1> QED
  BY <1>2, <1>3 DEF Answered, Letter, Host

LEMMA AnswerMail ==
    ASSUME TypeInv, TypeInv', Once, HandleAnswer, UNCHANGED <<todo, resp>>
    PROVE  Once' /\ \A l \in Mail' : l \in Mail /\ ~Same(l, Answered)
<1>1. QueueMoves(1)
  BY AnswerFacts, TailMoves
<1>2. BatchStays
  BY AnswerFacts DEF BatchStays
<1>3. Once' /\ Mail' \subseteq Mail
      /\ \A l \in Mail' : ~(l.host = msgQ[1].host /\ l.tag = msgQ[1].tag)
  BY <1>1, <1>2, AnswerFacts, ShrinkMail
<1> QED
  BY <1>3, AnsweredFacts DEF Same

GivenLetter == Letter(Host, Head(msgQ).pipe, GivenEntry)

LEMMA RedispatchMail ==
    ASSUME TypeInv, TypeInv', TagInv, AnswerThenRedispatch
    PROVE  /\ Once'
           /\ \A l \in Mail' : (l \in Mail /\ ~Same(l, Answered)) \/ l = GivenLetter
<1>0. PICK s \in Slots, k \in Nat : s = Base!AnswerSlot /\ k = Len(todo[s]) + 1
  <2>1. Base!AnswerSlot \in Slots
    BY RedispatchFacts, AnswerFacts
  <2>2. todo[Base!AnswerSlot] \in Seq(Entries)
    BY <2>1 DEF TypeInv, LinksOK
  <2> QED
    BY <2>1, <2>2
<1> DEFINE x == <<"todo", s, k>>
<1>1. /\ HandleAnswer
      /\ freeTags[Host] # <<>> /\ freeTags[Host] \in Seq(Tags)
      /\ GivenEntry \in Entries
      /\ todo' = IF link[Host] = "up" THEN [todo EXCEPT ![s] = Append(@, GivenEntry)] ELSE todo
      /\ UNCHANGED wireVars
  BY <1>0, RedispatchFacts
<1>2. /\ s \in Slots /\ s = <<Host, Head(msgQ).pipe>> /\ Host \in Hosts
      /\ AnswerAt(1) /\ 1 \in DOMAIN msgQ /\ batch' = batch /\ pc = "idle"
      /\ Head(msgQ) = msgQ[1]
  BY <1>0, <1>1, AnswerFacts
<1>3. todo \in [Slots -> Seq(Entries)] /\ todo[s] \in Seq(Entries)
  BY <1>2 DEF TypeInv, LinksOK
<1>4. \A r \in Slots : \A i \in DOMAIN todo'[r] :
          \/ i \in DOMAIN todo[r] /\ todo'[r][i] = todo[r][i]
          \/ r = s /\ i = k /\ todo'[r][i] = GivenEntry
  <2> SUFFICES ASSUME NEW r \in Slots, NEW i \in DOMAIN todo'[r]
               PROVE  \/ i \in DOMAIN todo[r] /\ todo'[r][i] = todo[r][i]
                      \/ r = s /\ i = k /\ todo'[r][i] = GivenEntry
    OBVIOUS
  <2>1. todo'[r] = todo[r] \/ (r = s /\ todo'[r] = Append(todo[s], GivenEntry))
    BY <1>1, <1>2, <1>3
  <2> QED
    BY <1>0, <1>1, <1>3, <2>1, AppendFacts
<1>5. x \in Places' => At(x)' = GivenLetter
  <2> SUFFICES ASSUME x \in Places' PROVE At(x)' = GivenLetter
    OBVIOUS
  <2>1. x \in TodoPlaces'
    BY DEF Places, TodoPlaces, RespPlaces, QueuePlaces, BatchPlaces
  <2>2. k \in DOMAIN todo'[s]
    BY <2>1 DEF TodoPlaces
  <2>3. todo'[s][k] = GivenEntry
    <3> QED
      BY <1>0, <1>2, <1>3, <1>4, <2>2
  <2>4. At(x)' = Letter(s[1], s[2], todo'[s][k])
    BY DEF At
  <2>5. s[1] = Host /\ s[2] = Head(msgQ).pipe
    BY <1>2
  <2> QED
    BY <2>3, <2>4, <2>5 DEF GivenLetter
<1>6. \A l \in Mail : ~Same(l, GivenLetter)
  <2>1. GivenTag \in Range(freeTags[Host])
    BY <1>1, SeqTail DEF GivenTag, Range
  <2>2. GivenLetter.host = Host /\ GivenLetter.tag = GivenTag
    BY DEF GivenLetter, Letter, GivenEntry
  <2> QED
    BY <2>1, <2>2 DEF Same, TagInv
<1>7. /\ Once'
      /\ \A l \in Mail' : l \in Mail \/ (x \in Places' /\ l = At(x)')
      /\ \A l \in Mail' : l.host = msgQ[1].host /\ l.tag = msgQ[1].tag =>
                              x \in Places' /\ l = At(x)'
  <2>1. QueueMoves(1)
    BY <1>1, AnswerFacts, TailMoves
  <2>2. \A r, i : <<"batch", r, i>> # x /\ <<"msgQ", r, i>> # x
    OBVIOUS
  <2>3. \A r \in Slots : \A i \in DOMAIN todo'[r] :
            <<"todo", r, i>> # x => i \in DOMAIN todo[r] /\ todo'[r][i] = todo[r][i]
    BY <1>4
  <2>4. x \in Places' => \A l \in Mail : ~Same(l, At(x)')
    BY <1>5, <1>6
  <2>5. batch' = <<>> /\ DOMAIN batch' = {}
    BY <1>2 DEF TypeInv, PlaceOK
  <2>6. resp' = resp
    BY <1>1
  <2>7. Once
    BY DEF TagInv
  <2> HIDE DEF x
  <2> QED
    BY <1>2, <2>1, <2>2, <2>3, <2>4, <2>5, <2>6, <2>7, Shifted, SMTT(30)
<1>8. Answered.host = msgQ[1].host /\ Answered.tag = msgQ[1].tag
  BY <1>1, AnsweredFacts
<1> QED
  BY <1>5, <1>7, <1>8 DEF Same

LEMMA TagInit == Init => TagInv
<1> SUFFICES ASSUME Init PROVE TagInv
  OBVIOUS
<1>1. /\ todo = [s \in Slots |-> <<>>] /\ resp = [h \in Hosts |-> <<>>]
      /\ msgQ = <<>> /\ batch = <<>>
      /\ freeTags = [h \in Hosts |-> [i \in 1 .. NumTags |-> i]]
  BY BaseSame DEF Init, Base!Init, Base!LinkInit
<1>2. Places = {}
  BY <1>1 DEF Places, TodoPlaces, RespPlaces, QueuePlaces, BatchPlaces
<1> QED
  BY <1>1, <1>2 DEF TagInv, Once, Mail, IsInjective

LEMMA AssignTags ==
    ASSUME TypeInv, TypeInv', TagInv, KickOffAssign
    PROVE  TagInv'
<1>1. /\ ThisHost \in Hosts /\ freeTags[ThisHost] \in Seq(Tags) /\ freeTags[ThisHost] # <<>>
      /\ freeTags' = [freeTags EXCEPT ![ThisHost] = Tail(@)]
  BY AssignFacts
<1>2. /\ IsInjective(Tail(freeTags[ThisHost]))
      /\ Range(Tail(freeTags[ThisHost])) \subseteq Range(freeTags[ThisHost])
      /\ NextTag \notin Range(Tail(freeTags[ThisHost]))
  BY <1>1, TagTaken DEF TagInv, NextTag
<1>3. freeTags \in [Hosts -> Seq(Tags)]
  BY DEF TypeInv, LinksOK
<1>4. \A h \in Hosts : IF h = ThisHost THEN freeTags'[h] = Tail(freeTags[h])
                       ELSE freeTags'[h] = freeTags[h]
  BY <1>1, <1>3
<1>5. \A l \in Mail : l.host \in Hosts
  BY MailType DEF LettersOK, IsLetter
<1>6. \A l \in Mail' : l.tag \notin Range(freeTags'[l.host])
  <2> SUFFICES ASSUME NEW l \in Mail' PROVE l.tag \notin Range(freeTags'[l.host])
    OBVIOUS
  <2>1. CASE l \in Mail
    BY <1>2, <1>4, <1>5, <2>1 DEF TagInv
  <2>2. CASE l = NewLetter
    <3>1. l.host = ThisHost /\ l.tag = NextTag
      BY <2>2 DEF NewLetter, Letter, NextEntry
    <3> QED
      BY <1>1, <1>2, <1>4, <3>1
  <2> QED
    BY <2>1, <2>2, AssignMail
<1>7. \A h \in Hosts : IsInjective(freeTags'[h])
  BY <1>2, <1>4 DEF TagInv
<1> QED
  BY <1>6, <1>7, AssignMail DEF TagInv

\* The answer's tag comes back behind the free ones, or those that are left of
\* them when one has been given away again.
LEMMA AnswerTags ==
    ASSUME TypeInv, TypeInv', TagInv, HandleAnswer, Once',
           NEW q \in Seq(Tags), q = freeTags[Host] \/ (freeTags[Host] # <<>> /\ q = Tail(freeTags[Host])),
           freeTags' = [freeTags EXCEPT ![Host] = Append(q, Head(msgQ).tag)],
           \A l \in Mail' : \/ l \in Mail /\ ~Same(l, Answered)
                            \/ q # freeTags[Host] /\ l = GivenLetter
    PROVE  TagInv'
<1>1. /\ Host \in Hosts /\ Head(msgQ).tag \in Tags
      /\ Answered \in Mail /\ Answered.host = Host /\ Answered.tag = Head(msgQ).tag
  BY AnswerFacts, AnsweredFacts
<1>2. /\ freeTags \in [Hosts -> Seq(Tags)]
      /\ IsInjective(freeTags[Host])
      /\ Head(msgQ).tag \notin Range(freeTags[Host])
  BY <1>1 DEF TypeInv, LinksOK, TagInv
<1>3. /\ IsInjective(q) /\ Range(q) \subseteq Range(freeTags[Host])
      /\ q # freeTags[Host] => GivenTag \notin Range(q) /\ GivenTag # Head(msgQ).tag
  <2>1. CASE q = freeTags[Host]
    BY <1>2, <2>1
  <2>2. CASE q # freeTags[Host]
    <3>1. freeTags[Host] # <<>> /\ q = Tail(freeTags[Host]) /\ freeTags[Host] \in Seq(Tags)
      BY <1>1, <1>2, <2>2
    <3>2. GivenTag \in Range(freeTags[Host])
      BY <3>1, SeqTail DEF GivenTag, Range
    <3> QED
      BY <1>2, <3>1, <3>2, TagTaken DEF GivenTag
  <2> QED
    BY <2>1, <2>2
<1>4. /\ IsInjective(Append(q, Head(msgQ).tag))
      /\ Range(Append(q, Head(msgQ).tag)) = Range(q) \cup {Head(msgQ).tag}
  BY <1>1, <1>2, <1>3, TagFreed
<1>5. \A h \in Hosts : IF h = Host THEN freeTags'[h] = Append(q, Head(msgQ).tag)
                       ELSE freeTags'[h] = freeTags[h]
  BY <1>1, <1>2
<1>6. \A l \in Mail : l.host \in Hosts
  BY MailType DEF LettersOK, IsLetter
<1>7. \A l \in Mail' : l.tag \notin Range(freeTags'[l.host])
  <2> SUFFICES ASSUME NEW l \in Mail' PROVE l.tag \notin Range(freeTags'[l.host])
    OBVIOUS
  <2>1. CASE l \in Mail /\ ~Same(l, Answered)
    <3>1. CASE l.host = Host
      <4>1. l.tag # Head(msgQ).tag /\ l.tag \notin Range(freeTags[Host])
        BY <1>1, <2>1, <3>1 DEF Same, TagInv
      <4>2. freeTags'[l.host] = Append(q, Head(msgQ).tag)
        BY <1>1, <1>5, <3>1
      <4> QED
        BY <1>3, <1>4, <4>1, <4>2
    <3>2. CASE l.host # Host
      BY <1>5, <1>6, <2>1, <3>2 DEF TagInv
    <3> QED
      BY <3>1, <3>2
  <2>2. CASE q # freeTags[Host] /\ l = GivenLetter
    <3>1. l.host = Host /\ l.tag = GivenTag
      BY <2>2 DEF GivenLetter, Letter, GivenEntry
    <3>2. freeTags'[l.host] = Append(q, Head(msgQ).tag)
      BY <1>1, <1>5, <3>1
    <3> QED
      BY <1>3, <1>4, <2>2, <3>1, <3>2
  <2> QED
    BY <2>1, <2>2
<1>8. \A h \in Hosts : IsInjective(freeTags'[h])
  BY <1>4, <1>5 DEF TagInv
<1> QED
  BY <1>7, <1>8 DEF TagInv

LEMMA TagStep ==
    ASSUME TypeInv, TypeInv', TagInv, [Next]_vars
    PROVE  TagInv'
<1> USE DEF TagInv
<1>1. CASE Calm
  <2>1. Once' /\ Mail' \subseteq Mail /\ freeTags' = freeTags
    BY <1>1 DEF Calm
  <2> QED
    BY <2>1
<1>2. CASE KickOffAssign
  BY <1>2, AssignTags
<1>3. CASE AnswerThenRedispatch
  <2>1. /\ HandleAnswer /\ freeTags[Host] # <<>> /\ freeTags[Host] \in Seq(Tags)
        /\ freeTags' = [freeTags EXCEPT ![Host] = Append(Tail(@), Head(msgQ).tag)]
    BY <1>3, RedispatchFacts
  <2>2. Tail(freeTags[Host]) \in Seq(Tags) /\ Tail(freeTags[Host]) # freeTags[Host]
    <3>1. /\ Len(Tail(freeTags[Host])) = Len(freeTags[Host]) - 1
          /\ Len(freeTags[Host]) \in Nat /\ Tail(freeTags[Host]) \in Seq(Tags)
      BY <2>1, HeadTailProperties, LenProperties
    <3> DEFINE all == freeTags[Host]
               rest == Tail(freeTags[Host])
    <3>2. Len(rest) = Len(all) - 1 /\ Len(all) \in Nat
      BY <3>1
    <3> HIDE DEF all, rest
    <3>3. rest # all
      BY <3>2
    <3> QED
      BY <3>1, <3>3 DEF all, rest
  <2>3. /\ Once'
        /\ \A l \in Mail' : (l \in Mail /\ ~Same(l, Answered)) \/ l = GivenLetter
    BY <1>3, RedispatchMail
  <2>4. Host \in Hosts /\ freeTags \in [Hosts -> Seq(Tags)]
    BY <2>1, AnswerFacts DEF TypeInv, LinksOK
  <2>5. freeTags' = [freeTags EXCEPT ![Host] = Append(Tail(freeTags[Host]), Head(msgQ).tag)]
    BY <2>1, <2>4
  <2> QED
    BY <2>1, <2>2, <2>3, <2>5, AnswerTags
<1>4. CASE AnswerThenFinish \/ AnswerThenWait
  <2>1. HandleAnswer /\ FreeAppTag(Host, Head(msgQ).tag)
    BY <1>4, FinishFacts, WaitFacts
  <2>2. /\ UNCHANGED <<todo, resp>>
        /\ freeTags' = [freeTags EXCEPT ![Host] = Append(@, Head(msgQ).tag)]
    BY <2>1 DEF FreeAppTag
  <2>3. Host \in Hosts /\ freeTags \in [Hosts -> Seq(Tags)] /\ freeTags[Host] \in Seq(Tags)
    BY <2>1, AnswerFacts DEF TypeInv, LinksOK
  <2>4. Once' /\ \A l \in Mail' : l \in Mail /\ ~Same(l, Answered)
    BY <2>1, <2>2, AnswerMail
  <2>5. freeTags' = [freeTags EXCEPT ![Host] = Append(freeTags[Host], Head(msgQ).tag)]
    BY <2>2, <2>3
  <2> QED
    BY <2>1, <2>3, <2>4, <2>5, AnswerTags
<1> QED
  BY <1>1, <1>2, <1>3, <1>4, StepKinds

-----------------------------------------------------------------------------
(* The counter                                                             *)

\* The tags that are routed to the scheduler, or on their way.
Engaged ==
    {x \in Hosts \X Tags :
        x[2] \in routed[x[1]] \/ \E l \in Mail : l.host = x[1] /\ l.tag = x[2]}

\* The chunks are fewer than the counter can hold, and every tag that is engaged
\* is counted; there is none before the scene is accepted and after it is finished.
CountInv ==
    /\ Len(order) < UIntMod /\ Handed <= Len(order) /\ pending <= Handed
    /\ IF scene = "running" THEN Cardinality(Engaged) <= pending ELSE Engaged = {}

LEMMA EngagedFinite ==
    /\ IsFiniteSet(Tags) /\ Cardinality(Tags) = NumTags
    /\ IsFiniteSet(Engaged) /\ Cardinality(Engaged) \in Nat
    /\ \A S : S \subseteq Engaged =>
           IsFiniteSet(S) /\ Cardinality(S) \in Nat /\ Cardinality(S) <= Cardinality(Engaged)
<1>1. IsFiniteSet(Tags) /\ Cardinality(Tags) = NumTags
  BY LinkAssumption, FS_Interval DEF Tags
<1>2. IsFiniteSet(Hosts \X Tags)
  BY <1>1, LinkAssumption, FS_Product
<1>3. IsFiniteSet(Engaged)
  BY <1>2, FS_Subset DEF Engaged
<1> QED
  BY <1>1, <1>3, FS_Subset, FS_CardinalityType

\* What is engaged after a step that gives out x at most, and takes y back.
LEMMA EngagedMoves ==
    ASSUME TypeInv, TypeInv', NEW given, NEW freed,
           \A h \in Hosts : \A t \in routed'[h] :
               (t \in routed[h] /\ <<h, t>> \notin freed) \/ <<h, t>> \in given,
           \A l \in Mail' : (l \in Mail /\ <<l.host, l.tag>> \notin freed)
                            \/ <<l.host, l.tag>> \in given
    PROVE  Engaged' \subseteq (Engaged \ freed) \cup given
<1> SUFFICES ASSUME NEW x \in Engaged' PROVE x \in (Engaged \ freed) \cup given
  OBVIOUS
<1>1. /\ x \in Hosts \X Tags /\ x = <<x[1], x[2]>> /\ x[1] \in Hosts
      /\ x[2] \in routed'[x[1]] \/ \E l \in Mail' : l.host = x[1] /\ l.tag = x[2]
  BY DEF Engaged
<1>2. CASE x[2] \in routed'[x[1]]
  BY <1>1, <1>2 DEF Engaged
<1>3. CASE \E l \in Mail' : l.host = x[1] /\ l.tag = x[2]
  BY <1>1, <1>3 DEF Engaged
<1> QED
  BY <1>1, <1>2, <1>3

\* An answer is one of those that were counted.
LEMMA AnswerCounted ==
    ASSUME TypeInv, CountInv, HandleAnswer
    PROVE  /\ <<Host, Head(msgQ).tag>> \in Engaged
           /\ scene = "running" /\ pending \in Nat \ {0} /\ pending < UIntMod
           /\ PendingAfter = pending - 1
           /\ (PendingAfter + 1) % UIntMod = pending
           /\ IsFiniteSet(Engaged \ {<<Host, Head(msgQ).tag>>})
           /\ Cardinality(Engaged \ {<<Host, Head(msgQ).tag>>}) = Cardinality(Engaged) - 1
           /\ Cardinality(Engaged) \in Nat /\ Cardinality(Engaged) <= pending
<1> DEFINE x == <<Host, Head(msgQ).tag>>
<1>1. x \in Engaged
  BY AnswerFacts, AnsweredFacts DEF Engaged
<1>2. scene = "running" /\ Cardinality(Engaged) <= pending
  BY <1>1 DEF CountInv
<1>3. IsFiniteSet(Engaged) /\ Cardinality(Engaged) \in Nat
  BY EngagedFinite
<1> HIDE DEF x
<1>4. IsFiniteSet(Engaged \ {x}) /\ Cardinality(Engaged \ {x}) = Cardinality(Engaged) - 1
  BY <1>1, <1>3, FS_RemoveElement
<1>5. Cardinality(Engaged \ {x}) \in Nat
  BY <1>4, FS_CardinalityType
<1>6. pending \in 0 .. UIntMod - 1 /\ UIntMod \in Nat \ {0}
  BY TrackerAssumption DEF TypeInv, CountsOK
<1>7. pending \in Nat \ {0} /\ pending < UIntMod
  BY <1>2, <1>3, <1>4, <1>5, <1>6
<1>8. PendingAfter = pending - 1
  BY <1>6, <1>7 DEF PendingAfter
<1>9. (pending - 1 + 1) % UIntMod = pending
  BY <1>6, <1>7
<1> QED
  BY <1>1, <1>2, <1>3, <1>4, <1>7, <1>8, <1>9 DEF x

LEMMA CountInit == Init => CountInv
<1> SUFFICES ASSUME Init PROVE CountInv
  OBVIOUS
<1>1. /\ todo = [s \in Slots |-> <<>>] /\ resp = [h \in Hosts |-> <<>>]
      /\ msgQ = <<>> /\ batch = <<>> /\ order = <<>>
      /\ routed = [h \in Hosts |-> {}]
      /\ scene = "none" /\ workload = 0 /\ pending = 0
  BY BaseSame DEF Init, Base!Init, Base!LinkInit
<1>2. Places = {}
  BY <1>1 DEF Places, TodoPlaces, RespPlaces, QueuePlaces, BatchPlaces
<1>3. Engaged = {}
  BY <1>1, <1>2 DEF Engaged, Mail
<1> QED
  BY <1>1, <1>3, TrackerAssumption DEF CountInv, Handed

LEMMA CountStep ==
    ASSUME TypeInv, TypeInv', TagInv, TagInv', CountInv, [Next]_vars
    PROVE  CountInv'
<1> USE TrackerAssumption
<1>0. /\ IsFiniteSet(Engaged) /\ Cardinality(Engaged) \in Nat
      /\ \A S : S \subseteq Engaged =>
             IsFiniteSet(S) /\ Cardinality(S) \in Nat /\ Cardinality(S) <= Cardinality(Engaged)
      /\ pending \in Nat /\ Handed \in Nat /\ Len(order) \in Nat
  <2>1. pending \in 0 .. UIntMod - 1 /\ Handed \in Nat /\ order \in Seq(Nat)
    BY DEF TypeInv, CountsOK, ChunksOK
  <2>2. pending \in Nat /\ Len(order) \in Nat
    BY <2>1, LenProperties
  <2> QED
    BY <2>1, <2>2, EngagedFinite
<1>1. ASSUME Calm
      PROVE  /\ Engaged' \subseteq Engaged
             /\ Cardinality(Engaged') \in Nat /\ Cardinality(Engaged') <= Cardinality(Engaged)
  <2>1. \A h \in Hosts : \A t \in routed'[h] : t \in routed[h]
    BY <1>1 DEF Calm
  <2>2. \A l \in Mail' : l \in Mail
    BY <1>1 DEF Calm
  <2>3. Engaged' \subseteq (Engaged \ {}) \cup {}
    BY <2>1, <2>2, EngagedMoves
  <2> QED
    BY <1>0, <2>3
<1>2. CASE Calm /\ SamePlan
  <2>1. /\ order' = order /\ pending' = pending /\ Handed' = Handed
        /\ scene' = scene \/ (scene # "running" /\ scene' # "running")
    BY <1>2 DEF SamePlan, Handed
  <2> QED
    BY <1>0, <1>1, <1>2, <2>1 DEF CountInv
<1>3. CASE Calm /\ AcceptScene
  <2>1. /\ scene = "none" /\ scene' = "running" /\ current' = 0 /\ pending' = 0
        /\ workload' \in Nat \ {0} /\ order' \in Orders(total) /\ total \in Nat \ {0}
    BY <1>3, AcceptFacts
  <2>2. total < UIntMod
    BY DEF TypeInv, TrackerTypeOK
  <2>3. Len(order') = total
    BY <2>1, OrdersType
  <2>4. Handed' = 0
    BY <2>1, NoMultiple DEF Handed
  <2>5. Engaged' = {} /\ Cardinality(Engaged') = 0
    BY <1>1, <1>3, <2>1, FS_EmptySet DEF CountInv
  <2> QED
    BY <2>1, <2>2, <2>3, <2>4, <2>5 DEF CountInv
<1>4. CASE KickOffAssign
  <2> DEFINE x == <<ThisHost, NextTag>>
  <2>1. /\ scene = "running" /\ scene' = scene /\ order' = order
        /\ Handed' = Handed + 1 /\ Handed + 1 <= Len(order)
        /\ pending' = (pending + 1) % UIntMod
    BY <1>0, <1>4, AssignFacts DEF TypeInv, LifeOK
  <2>2. pending' = pending + 1
    BY <1>0, <2>1 DEF CountInv
  <2>3. Engaged' \subseteq (Engaged \ {}) \cup {x}
    <3>1. /\ ThisHost \in Hosts /\ routed \in [Hosts -> SUBSET Tags]
          /\ routed' = [routed EXCEPT ![ThisHost] = @ \cup {NextTag}]
      BY <1>4, AssignFacts DEF TypeInv, LinksOK
    <3>2. \A h \in Hosts : \A t \in routed'[h] : t \in routed[h] \/ <<h, t>> \in {x}
      BY <3>1
    <3>3. \A l \in Mail' : l \in Mail \/ <<l.host, l.tag>> \in {x}
      BY <1>4, AssignMail DEF NewLetter, Letter, NextEntry
    <3> QED
      BY <3>2, <3>3, EngagedMoves
  <2> HIDE DEF x
  <2>4. /\ IsFiniteSet(Engaged \cup {x})
        /\ Cardinality(Engaged \cup {x}) <= Cardinality(Engaged) + 1
    BY <1>0, FS_AddElement
  <2>5. Cardinality(Engaged') <= Cardinality(Engaged) + 1
    <3>1. Engaged' \subseteq Engaged \cup {x}
      BY <2>3
    <3>2. Cardinality(Engaged') <= Cardinality(Engaged \cup {x})
      BY <2>4, <3>1, FS_Subset
    <3>3. Cardinality(Engaged') \in Nat /\ Cardinality(Engaged \cup {x}) \in Nat
      BY <2>4, <3>1, FS_Subset, FS_CardinalityType
    <3> QED
      BY <1>0, <2>4, <3>2, <3>3
  <2>6. Cardinality(Engaged') \in Nat
    BY <2>3, <2>4, FS_Subset, FS_CardinalityType
  <2> QED
    BY <1>0, <2>1, <2>2, <2>5, <2>6 DEF CountInv
<1>5. CASE AnswerThenRedispatch
  <2> DEFINE x == <<Host, Head(msgQ).tag>>
             y == <<Host, GivenTag>>
  <2>1. /\ HandleAnswer /\ scene' = scene /\ UNCHANGED <<current, workload, order>>
        /\ pending' = (PendingAfter + 1) % UIntMod
    BY <1>5, RedispatchFacts, AnswerFacts
  <2>2. /\ scene = "running" /\ (PendingAfter + 1) % UIntMod = pending
        /\ IsFiniteSet(Engaged \ {x})
        /\ Cardinality(Engaged \ {x}) = Cardinality(Engaged) - 1
    BY <2>1, AnswerCounted
  <2>3. Engaged' \subseteq (Engaged \ {x}) \cup {y}
    <3>1. /\ Host \in Hosts /\ routed \in [Hosts -> SUBSET Tags]
          /\ routed' = [routed EXCEPT ![Host] = (@ \cup {GivenTag}) \ {Head(msgQ).tag}]
      BY <1>5, <2>1, RedispatchFacts, AnswerFacts DEF TypeInv, LinksOK
    <3>2. \A h \in Hosts : \A t \in routed'[h] :
              (t \in routed[h] /\ <<h, t>> \notin {x}) \/ <<h, t>> \in {y}
      BY <3>1
    <3>3. \A l \in Mail' : (l \in Mail /\ <<l.host, l.tag>> \notin {x})
                           \/ <<l.host, l.tag>> \in {y}
      BY <1>5, <2>1, RedispatchMail, AnsweredFacts DEF Same, GivenLetter, Letter, GivenEntry
    <3> QED
      BY <3>2, <3>3, EngagedMoves
  <2> HIDE DEF x, y
  <2>4. /\ IsFiniteSet((Engaged \ {x}) \cup {y})
        /\ Cardinality((Engaged \ {x}) \cup {y}) <= Cardinality(Engaged)
    <3> DEFINE rest == Engaged \ {x}
    <3>1. IsFiniteSet(rest) /\ Cardinality(rest) = Cardinality(Engaged) - 1
      BY <2>2
    <3> HIDE DEF rest
    <3>2. /\ IsFiniteSet(rest \cup {y})
          /\ Cardinality(rest \cup {y}) =
                IF y \in rest THEN Cardinality(rest) ELSE Cardinality(rest) + 1
      BY <3>1, FS_AddElement
    <3>3. Cardinality(rest \cup {y}) <= Cardinality(Engaged)
      BY <1>0, <3>1, <3>2
    <3> QED
      BY <3>2, <3>3 DEF rest
  <2>5. Cardinality(Engaged') <= Cardinality(Engaged)
    <3>1. Cardinality(Engaged') <= Cardinality((Engaged \ {x}) \cup {y})
      BY <2>3, <2>4, FS_Subset
    <3>2. Cardinality(Engaged') \in Nat /\ Cardinality((Engaged \ {x}) \cup {y}) \in Nat
      BY <2>3, <2>4, FS_Subset, FS_CardinalityType
    <3> QED
      BY <1>0, <2>4, <3>1, <3>2
  <2>6. Cardinality(Engaged') \in Nat
    BY <2>3, <2>4, FS_Subset, FS_CardinalityType
  <2>7. Handed' = Handed
    BY <2>1 DEF Handed
  <2> QED
    BY <1>0, <2>1, <2>2, <2>5, <2>6, <2>7 DEF CountInv
<1>6. CASE AnswerThenFinish \/ AnswerThenWait
  <2> DEFINE x == <<Host, Head(msgQ).tag>>
  <2>1. /\ HandleAnswer /\ FreeAppTag(Host, Head(msgQ).tag) /\ pending' = PendingAfter
        /\ UNCHANGED <<current, workload, order>>
        /\ scene' = scene \/ (scene' = "finished" /\ PendingAfter = 0)
    BY <1>6, FinishFacts, WaitFacts, AnswerFacts DEF Ends
  <2>2. /\ scene = "running" /\ PendingAfter = pending - 1 /\ pending \in Nat \ {0}
        /\ IsFiniteSet(Engaged \ {x})
        /\ Cardinality(Engaged \ {x}) = Cardinality(Engaged) - 1
        /\ Cardinality(Engaged) <= pending
    BY <2>1, AnswerCounted
  <2>3. Engaged' \subseteq (Engaged \ {x}) \cup {}
    <3>1. /\ Host \in Hosts /\ routed \in [Hosts -> SUBSET Tags]
          /\ routed' = [routed EXCEPT ![Host] = @ \ {Head(msgQ).tag}]
          /\ UNCHANGED <<todo, resp>>
      BY <2>1, AnswerFacts DEF TypeInv, LinksOK, FreeAppTag
    <3>2. \A h \in Hosts : \A t \in routed'[h] : t \in routed[h] /\ <<h, t>> \notin {x}
      BY <3>1
    <3>3. \A l \in Mail' : l \in Mail /\ ~Same(l, Answered)
      BY <2>1, <3>1, AnswerMail DEF TagInv
    <3>4. \A l \in Mail' : l \in Mail /\ <<l.host, l.tag>> \notin {x}
      BY <2>1, <3>3, AnsweredFacts DEF Same
    <3> QED
      BY <3>2, <3>4, EngagedMoves
  <2> HIDE DEF x
  <2>4. Cardinality(Engaged') \in Nat /\ Cardinality(Engaged') <= pending - 1
        /\ IsFiniteSet(Engaged')
    <3>1. /\ IsFiniteSet(Engaged') /\ Cardinality(Engaged') <= Cardinality(Engaged \ {x})
          /\ Cardinality(Engaged') \in Nat
      BY <2>2, <2>3, FS_Subset, FS_CardinalityType
    <3> QED
      BY <1>0, <2>2, <3>1
  <2>5. PendingAfter = 0 => Engaged' = {}
    BY <2>2, <2>4, FS_EmptySet
  <2>6. Handed' = Handed
    BY <2>1 DEF Handed
  <2>7. pending' <= pending
    BY <1>0, <2>1, <2>2
  <2> QED
    BY <1>0, <2>1, <2>2, <2>4, <2>5, <2>6, <2>7 DEF CountInv
<1> QED
  BY <1>2, <1>3, <1>4, <1>5, <1>6, StepKinds DEF TagInv

\* A tag in use is that of a request on its way.
LEMMA UsedTags ==
    ASSUME TypeInv, NEW h \in Hosts, NEW t \in Base!TagsInUse(h), t # 0
    PROVE  \E l \in Mail : l.host = h /\ l.tag = t
<1>1. PICK c \in Base!Carriers(h) : c.req.tag = t
  BY DEF Base!TagsInUse
<1>2. PlaceLaws
  BY PlaceFacts
<1>3. \A c1 \in Places : At(c1) \in Mail
  BY DEF Mail
<1>4. CASE \E p \in Pipelines(h) : \E i \in DOMAIN todo[<<h, p>>] :
               c = [at |-> <<"todo", p, i>>, pipe |-> p, req |-> todo[<<h, p>>][i]]
  <2>1. PICK p \in Pipelines(h) : \E i \in DOMAIN todo[<<h, p>>] :
                 c = [at |-> <<"todo", p, i>>, pipe |-> p, req |-> todo[<<h, p>>][i]]
    BY <1>4
  <2>2. PICK i \in DOMAIN todo[<<h, p>>] : c.req = todo[<<h, p>>][i]
    BY <2>1
  <2>3. <<h, p>> \in Slots
    BY SlotFacts
  <2>4. /\ <<"todo", <<h, p>>, i>> \in Places
        /\ At(<<"todo", <<h, p>>, i>>) = Letter(h, p, todo[<<h, p>>][i])
    BY <1>1, <1>2, <2>2, <2>3 DEF PlaceLaws
  <2> QED
    BY <1>1, <1>3, <2>2, <2>4 DEF Letter
<1>5. CASE \E i \in DOMAIN resp[h] :
               c = [at |-> <<"resp", i>>, pipe |-> resp[h][i].pipe, req |-> resp[h][i]]
  <2>1. PICK i \in DOMAIN resp[h] : c.req = resp[h][i]
    BY <1>5
  <2>2. /\ <<"resp", h, i>> \in Places
        /\ At(<<"resp", h, i>>) = Letter(h, resp[h][i].pipe, resp[h][i])
    BY <1>1, <1>2, <2>1 DEF PlaceLaws
  <2> QED
    BY <1>1, <1>3, <2>1, <2>2 DEF Letter
<1>6. CASE \E i \in Base!AnswersIn(msgQ, h) :
               c = [at |-> <<"msgQ", i>>, pipe |-> msgQ[i].pipe, req |-> msgQ[i]]
  <2>1. PICK i \in DOMAIN msgQ : c.req = msgQ[i] /\ AnswerAt(i) /\ msgQ[i].host = h
    BY <1>6 DEF Base!AnswersIn, AnswerAt
  <2>2. /\ <<"msgQ", NoHost, i>> \in Places
        /\ At(<<"msgQ", NoHost, i>>) = Letter(msgQ[i].host, msgQ[i].pipe, msgQ[i])
    BY <1>2, <2>1 DEF PlaceLaws
  <2> QED
    BY <1>1, <1>3, <2>1, <2>2 DEF Letter
<1> QED
  BY <1>1, <1>4, <1>5, <1>6, BaseSame DEF Base!Carriers

\* Free tags that differ are as many as there are places in their queue.
LEMMA FreeCount ==
    ASSUME NEW q \in Seq(Tags), IsInjective(q), NEW T, T \subseteq Tags,
           T \cap Range(q) = {}
    PROVE  Cardinality(T) <= Cardinality(Tags) - Len(q)
<1>1. Len(q) \in Nat /\ DOMAIN q = 1 .. Len(q)
  BY LenProperties
<1>2. Range(q) \subseteq Tags
  BY <1>1, ElementOfSeq DEF Range
<1>3. q \in Injection(1 .. Len(q), Range(q))
  BY <1>1 DEF Injection, IsInjective, Range
<1>4. /\ IsFiniteSet(Tags) /\ IsFiniteSet(T) /\ IsFiniteSet(Range(q))
      /\ Cardinality(Tags) \in Nat /\ Cardinality(T) \in Nat /\ Cardinality(Range(q)) \in Nat
  BY <1>2, EngagedFinite, FS_Subset, FS_CardinalityType
<1>5. Cardinality(1 .. Len(q)) = Len(q)
  BY <1>1, FS_Interval
<1>6. Len(q) <= Cardinality(Range(q))
  BY <1>3, <1>4, <1>5, FS_Injection
<1>7. Cardinality(T \cup Range(q)) = Cardinality(T) + Cardinality(Range(q))
  <2>1. Cardinality(T \cup Range(q)) = Cardinality(T) + Cardinality(Range(q)) - 0
    BY <1>4, FS_Union, FS_EmptySet
  <2> QED
    BY <1>4, <2>1
<1>8. Cardinality(T \cup Range(q)) <= Cardinality(Tags)
  BY <1>2, <1>4, FS_Subset
<1> QED
  BY <1>1, <1>4, <1>6, <1>7, <1>8

\* All tags come back, whatever the number of hosts, pipelines, pixels, tags and
\* crashes and the order of the chunks: a tag is free, or is in use, or is lost with
\* its connection, never two of it, and the counter reaches zero only when no
\* answer is expected any more (StaticSceneScheduler::OnPixelProduceResponseMsg).
THEOREM TagsAllComeBack == Spec => []TagsComeBack
<1>1. TypeInv /\ TagInv /\ CountInv => TagsComeBack
  <2> SUFFICES ASSUME TypeInv, TagInv, CountInv, NEW h \in Hosts
               PROVE  /\ (Base!TagsInUse(h) \ {0}) \cap Range(freeTags[h]) = {}
                      /\ Cardinality(Base!TagsInUse(h) \ {0}) <= Cardinality(Tags) - Len(freeTags[h])
                      /\ scene = "finished" =>
                             Base!TagsInUse(h) \ {0} = {} /\ routed[h] = {}
    BY DEF TagsComeBack
  <2> DEFINE used == Base!TagsInUse(h) \ {0}
  <2>1. \A t \in used : \E l \in Mail : l.host = h /\ l.tag = t
    BY UsedTags
  <2>2. LettersOK /\ freeTags[h] \in Seq(Tags) /\ routed[h] \subseteq Tags
    BY MailType DEF TypeInv, LinksOK
  <2>3. used \subseteq Tags
    BY <2>1, <2>2 DEF LettersOK, IsLetter
  <2>4. used \cap Range(freeTags[h]) = {}
    BY <2>1 DEF TagInv
  <2>5. scene = "finished" => used = {} /\ routed[h] = {}
    <3>1. \A t \in used \cup routed[h] : <<h, t>> \in Engaged
      BY <2>1, <2>2, <2>3 DEF Engaged
    <3> QED
      BY <3>1 DEF CountInv
  <2> HIDE DEF used
  <2>6. Cardinality(used) <= Cardinality(Tags) - Len(freeTags[h])
    BY <2>2, <2>3, <2>4, FreeCount DEF TagInv
  <2> QED
    BY <2>4, <2>5, <2>6 DEF used
<1>2. Init => TypeInv /\ TagInv /\ CountInv
  BY TypeInit, TagInit, CountInit
<1>3. (TypeInv /\ TagInv /\ CountInv) /\ [Next]_vars => (TypeInv /\ TagInv /\ CountInv)'
  BY TypeStep, TagStep, CountStep
<1> QED
  BY <1>1, <1>2, <1>3, PTL DEF Spec

-----------------------------------------------------------------------------
(* What moves between the master and the workers                          *)

\* Nothing moves between the master and the workers, but that the scheduler
\* takes from its queue, and connections get closer to their end.
LinkStill ==
    /\ UNCHANGED <<todo, shipped, resp>> /\ Base!Shipped' = Base!Shipped
    /\ \E n \in {0, 1} : QueueMoves(n)
    /\ \A h \in Hosts :
           /\ link[h] \in {"up", "closed"} => link'[h] = link[h]
           /\ link[h] = "crashed" /\ resp[h] # <<>> => link'[h] = link[h]

LinkStep ==
    /\ UNCHANGED planVars
    /\ \/ \E h \in Hosts : Base!Receive(h) \/ Dies(h) \/ Base!Client(h)
       \/ \E s \in Slots : Base!Worker(s) /\ (Base!ShipSegment(s) \/ Base!Respond(s))

LEMMA LinkKinds ==
    ASSUME TypeInv, TypeInv', OrderInv, [Next]_vars
    PROVE  LinkStill \/ LinkStep \/ KickOffSend \/ AnswerThenRedispatch
<1>1. ASSUME UNCHANGED <<linkVars, msgQ>> PROVE LinkStill
  <2>1. QueueMoves(0)
    BY <1>1, TailMoves
  <2> QED
    BY <1>1, <2>1, ShippedSame DEF LinkStill
<1>2. ASSUME UNCHANGED <<link, todo, shipped, wireVars>>, msgQ # <<>>, msgQ' = Tail(msgQ)
      PROVE  LinkStill
  <2>1. QueueMoves(1)
    BY <1>2, TailMoves
  <2> QED
    BY <1>2, <2>1, ShippedSame DEF LinkStill
<1>3. CASE AcceptScene
  <2>1. /\ UNCHANGED <<todo, shipped, wireVars>>
        /\ \A h \in Hosts : link'[h] = link[h] \/ link[h] = "noted"
    BY <1>3, AcceptFacts
  <2>2. QueueMoves(0)
    BY <1>3, AcceptMoves
  <2> QED
    BY <2>1, <2>2, ShippedSame DEF LinkStill
<1>4. CASE KickOffFind
  BY <1>1, <1>4, FindFacts
<1>5. CASE KickOffAssign
  <2>1. UNCHANGED <<link, todo, shipped, wireVars, msgQ>>
    BY <1>5, AssignFacts
  <2>2. QueueMoves(0)
    BY <2>1, TailMoves
  <2> QED
    BY <2>1, <2>2, ShippedSame DEF LinkStill
<1>6. CASE KickOffEnd
  BY <1>1, <1>6, EndFacts
<1>7. CASE AnswerThenFinish \/ AnswerThenWait
  <2>1. HandleAnswer /\ FreeAppTag(Host, Head(msgQ).tag)
    BY <1>7, FinishFacts, WaitFacts
  <2>2. UNCHANGED <<link, todo, shipped, wireVars>> /\ msgQ # <<>> /\ msgQ' = Tail(msgQ)
    BY <2>1, AnswerFacts DEF FreeAppTag
  <2> QED
    BY <1>2, <2>2
<1>8. CASE DyingStep
  BY <1>1, <1>8, DyingFacts DEF Dying, DyingStep
<1>9. CASE UNCHANGED vars
  BY <1>1, <1>9 DEF vars, Base!vars, Base!linkVars, Base!wireVars
<1>10. CASE PlanKept
  <2>0. UNCHANGED planVars
    BY <1>10 DEF PlanKept
  <2>1. CASE Base!RejectScene
    BY <1>1, <2>0, <2>1, RejectFacts DEF Rejecting
  <2>2. CASE Base!HandleException
    BY <1>2, <2>0, <2>2, HandleExceptionFacts
  <2>3. CASE Base!HandleDetachedAnswer
    BY <1>2, <2>0, <2>3, DetachedAnswerFacts
  <2>4. CASE Base!HandleDetachedException
    <3>1. /\ Host \in Hosts /\ 1 \in DOMAIN msgQ /\ ExceptionAt(1) /\ Head(msgQ) = msgQ[1]
          /\ link' = [link EXCEPT ![Host] = "closed"]
          /\ UNCHANGED <<todo, shipped, wireVars>>
      BY <2>0, <2>4, DetachedExceptionFacts
    <3>2. link[Host] = "closed"
      <4>1. msgQ[1].host \in Hosts /\ msgQ[1].host # NoHost
        BY <3>1, StaticAssumption DEF Host
      <4> QED
        BY <3>1, <4>1 DEF OrderInv, Host
    <3>3. link' = link
      BY <3>1, <3>2 DEF TypeInv, LinksOK
    <3>4. QueueMoves(1)
      BY <2>0, <2>4, DetachedMoves
    <3> QED
      BY <3>1, <3>3, <3>4, ShippedSame DEF LinkStill
  <2>5. ASSUME NEW h \in Hosts, ThreadStep(h) PROVE LinkStill \/ LinkStep
    <3>1. CASE Base!Receive(h)
      BY <2>0, <3>1 DEF LinkStep
    <3>2. CASE Base!ReportException(h)
      <4>1. /\ link[h] = "crashed" /\ resp[h] = <<>> /\ link' = [link EXCEPT ![h] = "reported"]
            /\ UNCHANGED <<todo, shipped, wireVars, msgQ>>
        BY <2>0, <3>2, ReportFacts
      <4>2. QueueMoves(0)
        BY <4>1, TailMoves
      <4> QED
        BY <4>1, <4>2, ShippedSame DEF LinkStill, TypeInv, LinksOK
    <3>3. CASE Base!NoteFailure(h)
      <4>1. /\ link[h] = "reported" /\ link' = [link EXCEPT ![h] = "noted"]
            /\ UNCHANGED <<todo, shipped, wireVars, msgQ>>
        BY <2>0, <3>3, NoteFacts
      <4>2. QueueMoves(0)
        BY <4>1, TailMoves
      <4> QED
        BY <4>1, <4>2, ShippedSame DEF LinkStill, TypeInv, LinksOK
    <3>4. CASE Base!CloseConnection(h)
      <4>1. /\ link[h] = "noted" /\ link' = [link EXCEPT ![h] = "closed"]
            /\ UNCHANGED <<todo, shipped, wireVars>>
        BY <2>0, <3>4, CloseConnectionFacts
      <4>2. QueueMoves(0)
        BY <2>0, <3>4, CloseMoves
      <4> QED
        BY <4>1, <4>2, ShippedSame DEF LinkStill, TypeInv, LinksOK
    <3>5. CASE Base!RegisterWorker(h)
      <4>1. /\ link[h] = "absent" /\ link' = [link EXCEPT ![h] = "up"]
            /\ UNCHANGED <<todo, shipped, wireVars, msgQ>>
        BY <2>0, <3>5, RegisterFacts
      <4>2. QueueMoves(0)
        BY <4>1, TailMoves
      <4> QED
        BY <4>1, <4>2, ShippedSame DEF LinkStill, TypeInv, LinksOK
    <3> QED
      BY <2>5, <3>1, <3>2, <3>3, <3>4, <3>5 DEF ThreadStep
  <2> QED
    BY <1>10, <2>0, <2>1, <2>2, <2>3, <2>4, <2>5 DEF PlanKept, LinkStep
<1> QED
  BY <1>3, <1>4, <1>5, <1>6, <1>7, <1>8, <1>9, <1>10, StepCases

LEMMA OrderInit == Init => OrderInv
  BY BaseSame DEF Init, Base!Init, Base!LinkInit, OrderInv

LEMMA ReceiveOrder ==
    ASSUME TypeInv, TypeInv', OrderInv, NEW h \in Hosts, Base!Receive(h), UNCHANGED planVars
    PROVE  OrderInv'
<1> USE DEF AnswerAt, ExceptionAt
<1>1. /\ link[h] \in {"up", "crashed"} /\ resp[h] # <<>>
      /\ resp' = [resp EXCEPT ![h] = Tail(@)]
      /\ UNCHANGED <<link, todo>>
      /\ \/ msgQ' = msgQ
         \/ /\ AnswerOf(h, Head(resp[h])) \in Queued
            /\ msgQ' = Append(msgQ, AnswerOf(h, Head(resp[h])))
  BY ReceiveFacts
<1>2. \A g \in Hosts : resp'[g] # <<>> => link'[g] \in {"up", "crashed"}
  BY <1>1 DEF OrderInv, TypeInv, LinksOK
<1>3. \A i \in DOMAIN msgQ' :
          \/ i \in DOMAIN msgQ /\ msgQ'[i] = msgQ[i]
          \/ msgQ'[i].kind = "answer" /\ msgQ'[i].host = h
  <2>1. CASE msgQ' = msgQ
    BY <2>1
  <2>2. CASE msgQ' # msgQ
    <3> DEFINE e == AnswerOf(h, Head(resp[h]))
    <3>1. e \in Queued /\ msgQ' = Append(msgQ, e) /\ e.kind = "answer" /\ e.host = h
      BY <1>1, <2>2 DEF AnswerOf
    <3> HIDE DEF e
    <3>2. msgQ \in Seq(Queued)
      BY QueueDomains
    <3> QED
      BY <3>1, <3>2, AppendFacts
  <2> QED
    BY <2>1, <2>2
<1>4. ASSUME NEW i \in DOMAIN msgQ', msgQ'[i].kind = "exception", msgQ'[i].host # NoHost
      PROVE  /\ link'[msgQ'[i].host] = "closed"
             /\ \A k \in DOMAIN msgQ' : i < k /\ msgQ'[k].kind = "answer"
                                            => msgQ'[i].host # msgQ'[k].host
  <2>1. i \in DOMAIN msgQ /\ msgQ'[i] = msgQ[i] /\ link[msgQ[i].host] = "closed"
    BY <1>3, <1>4 DEF OrderInv
  <2>2. msgQ[i].host # h
    BY <1>1, <2>1
  <2> QED
    BY <1>1, <1>3, <1>4, <2>1, <2>2 DEF OrderInv
<1> QED
  BY <1>1, <1>2, <1>4 DEF OrderInv

LEMMA OrderStep ==
    ASSUME TypeInv, TypeInv', OrderInv, [Next]_vars
    PROVE  OrderInv'
<1>1. ASSUME msgQ' = msgQ PROVE QueueMoves(0)
  BY <1>1, TailMoves
<1>2. CASE LinkStill
  <2>1. PICK n \in {0, 1} : QueueMoves(n)
    BY <1>2 DEF LinkStill
  <2>2. /\ \A h \in Hosts : link[h] = "closed" => link'[h] = "closed"
        /\ \A s \in Slots : todo'[s] # <<>> => link'[s[1]] = "up"
        /\ \A h \in Hosts : resp'[h] # <<>> => link'[h] \in {"up", "crashed"}
    BY <1>2, SlotFacts DEF LinkStill, OrderInv
  <2> QED
    BY <2>1, <2>2, OrderStays
<1>3. CASE KickOffSend
  <2>1. /\ todo' = [s \in Slots |-> IF s[1] = ThisHost /\ link[ThisHost] = "up"
                            THEN Append(todo[s], IF s[2] < Len(batch) THEN batch[s[2] + 1]
                                                 ELSE NoWork)
                            ELSE todo[s]]
        /\ UNCHANGED <<link, resp, msgQ>>
    BY <1>3, SendFacts
  <2>2. \A s \in Slots : todo'[s] # <<>> => link'[s[1]] = "up"
    BY <2>1 DEF OrderInv
  <2> QED
    BY <1>1, <2>1, <2>2, OrderStays DEF OrderInv
<1>4. CASE AnswerThenRedispatch
  <2>1. /\ HandleAnswer /\ UNCHANGED <<link, resp>>
        /\ todo' = IF link[Host] = "up"
                   THEN [todo EXCEPT ![Base!AnswerSlot] = Append(@, GivenEntry)]
                   ELSE todo
    BY <1>4, RedispatchFacts
  <2>2. /\ Base!AnswerSlot \in Slots /\ Base!AnswerSlot[1] = Host
        /\ msgQ # <<>> /\ msgQ' = Tail(msgQ)
    BY <2>1, AnswerFacts
  <2>3. QueueMoves(1)
    BY <2>2, TailMoves
  <2>4. \A s \in Slots : todo'[s] # <<>> => link'[s[1]] = "up"
    <3>1. \A s \in Slots : todo'[s] = todo[s] \/ (s = Base!AnswerSlot /\ link[Host] = "up")
      BY <2>1, <2>2 DEF TypeInv, LinksOK
    <3> QED
      BY <2>1, <2>2, <3>1 DEF OrderInv
  <2> QED
    BY <2>1, <2>3, <2>4, OrderStays DEF OrderInv
<1>5. CASE LinkStep
  <2>0. UNCHANGED planVars
    BY <1>5 DEF LinkStep
  <2>1. CASE \E h \in Hosts : Base!Receive(h)
    BY <2>0, <2>1, ReceiveOrder
  <2>2. ASSUME NEW h \in Hosts, Dies(h) PROVE OrderInv'
    <3>1. /\ link[h] = "up" /\ link' = [link EXCEPT ![h] = "crashed"]
          /\ \A g \in Hosts : \A i \in DOMAIN resp'[g] : i \in DOMAIN resp[g]
          /\ todo' = [s \in Slots |-> IF s[1] = h THEN <<>> ELSE todo[s]]
          /\ msgQ' = msgQ
      BY <2>0, <2>2, PerishFacts DEF MasterKept, Dies
    <3>2. \A g \in Hosts : resp'[g] # <<>> => resp[g] # <<>>
      <4> SUFFICES ASSUME NEW g \in Hosts, resp'[g] # <<>> PROVE resp[g] # <<>>
        OBVIOUS
      <4>1. resp'[g] \in Seq(Returns) /\ resp[g] \in Seq(Returns)
        BY DEF TypeInv, LinksOK
      <4>2. 1 \in DOMAIN resp'[g]
        BY <4>1, SeqTail
      <4> QED
        BY <3>1, <4>1, <4>2
    <3>3. \A g \in Hosts : link'[g] = IF g = h THEN "crashed" ELSE link[g]
      BY <3>1 DEF TypeInv, LinksOK
    <3>4. \A s \in Slots : todo'[s] # <<>> => link'[s[1]] = "up"
      BY <3>1, <3>3, SlotFacts DEF OrderInv
    <3>5. \A g \in Hosts : resp'[g] # <<>> => link'[g] \in {"up", "crashed"}
      BY <3>2, <3>3 DEF OrderInv
    <3> QED
      BY <1>1, <3>1, <3>3, <3>4, <3>5, OrderStays
  <2>3. CASE \E h \in Hosts : Base!Client(h)
    <3>1. UNCHANGED <<link, todo, resp, msgQ>>
      BY <2>0, <2>3, DeliverFacts DEF MasterKept
    <3> QED
      BY <1>1, <3>1, OrderStays DEF OrderInv
  <2>4. CASE \E s \in Slots : Base!Worker(s) /\ Base!ShipSegment(s)
    <3>1. UNCHANGED <<link, todo, resp, msgQ>>
      BY <2>0, <2>4, ShipFacts DEF MasterKept
    <3> QED
      BY <1>1, <3>1, OrderStays DEF OrderInv
  <2>5. ASSUME NEW s \in Slots, Base!Worker(s), Base!Respond(s) PROVE OrderInv'
    <3>1. /\ link[s[1]] = "up" /\ link' = link /\ MasterKept
          /\ \E n \in Answerable(s) : \E e \in Returns :
                 /\ resp' = [resp EXCEPT ![s[1]] = Append(@, e)]
                 /\ todo' = [todo EXCEPT ![s] = RemoveAt(@, n)]
      BY <2>0, <2>5, RespondFacts
    <3>2. PICK n, e : /\ resp' = [resp EXCEPT ![s[1]] = Append(@, e)]
                      /\ todo' = [todo EXCEPT ![s] = RemoveAt(@, n)]
      BY <3>1
    <3>3. \A r \in Slots : todo'[r] # <<>> => link'[r[1]] = "up"
      BY <3>1, <3>2 DEF OrderInv, TypeInv, LinksOK
    <3>4. \A g \in Hosts : resp'[g] # <<>> => link'[g] \in {"up", "crashed"}
      BY <3>1, <3>2 DEF OrderInv, TypeInv, LinksOK
    <3> QED
      BY <1>1, <3>1, <3>3, <3>4, OrderStays DEF MasterKept
  <2> QED
    BY <1>5, <2>1, <2>2, <2>3, <2>4, <2>5 DEF LinkStep
<1> QED
  BY <1>2, <1>3, <1>4, <1>5, LinkKinds

-----------------------------------------------------------------------------
(* What has been shipped                                                   *)

JobOf(r) == [off |-> r.off, cnt |-> r.cnt]

\* Only requests with work carry a tag's job, and what is answered, or in the
\* pipeline that is about to answer, has been shipped.
ShipInv ==
    /\ \A s \in Slots : \A i \in DOMAIN todo[s] : todo[s][i].tag = 0 => todo[s][i].cnt = 0
    /\ \A s \in Slots : shipped[s] => /\ 1 \in DOMAIN todo[s] /\ todo[s][1].cnt # 0
                                      /\ JobOf(todo[s][1]) \in Base!Shipped
    /\ \A h \in Hosts : \A i \in DOMAIN resp[h] :
           resp[h][i].cnt # 0 => JobOf(resp[h][i]) \in Base!Shipped
    /\ \A i \in DOMAIN msgQ :
           AnswerAt(i) /\ msgQ[i].cnt # 0 => JobOf(msgQ[i]) \in Base!Shipped

LEMMA ShipInit == Init => ShipInv
  BY BaseSame DEF Init, Base!Init, Base!LinkInit, ShipInv

LEMMA ShipStays ==
    ASSUME TypeInv, TypeInv', ShipInv, Base!Shipped \subseteq Base!Shipped',
           \A s \in Slots : \A i \in DOMAIN todo'[s] :
               todo'[s][i].tag = 0 => todo'[s][i].cnt = 0,
           \A s \in Slots : shipped'[s] =>
               shipped[s] /\ 1 \in DOMAIN todo'[s] /\ todo'[s][1] = todo[s][1],
           \A h \in Hosts : \A i \in DOMAIN resp'[h] :
               i \in DOMAIN resp[h] /\ resp'[h][i] = resp[h][i],
           \E n \in {0, 1} : QueueMoves(n)
    PROVE  ShipInv'
<1> USE DEF JobOf
<1>1. \A i \in DOMAIN msgQ' : msgQ'[i].kind = "answer" /\ msgQ'[i].cnt # 0 =>
          JobOf(msgQ'[i]) \in Base!Shipped'
  <2> SUFFICES ASSUME NEW i \in DOMAIN msgQ', msgQ'[i].kind = "answer", msgQ'[i].cnt # 0
               PROVE  JobOf(msgQ'[i]) \in Base!Shipped'
    OBVIOUS
  <2>1. \E k \in DOMAIN msgQ : msgQ'[i] = msgQ[k]
    BY DEF QueueMoves
  <2> QED
    BY <2>1 DEF ShipInv, AnswerAt
<1>2. \A s \in Slots : shipped'[s] => /\ 1 \in DOMAIN todo'[s] /\ todo'[s][1].cnt # 0
                                      /\ JobOf(todo'[s][1]) \in Base!Shipped'
  BY DEF ShipInv
<1>3. \A h \in Hosts : \A i \in DOMAIN resp'[h] :
          resp'[h][i].cnt # 0 => JobOf(resp'[h][i]) \in Base!Shipped'
  BY DEF ShipInv
<1> QED
  BY <1>1, <1>2, <1>3 DEF ShipInv, AnswerAt

\* The first of the requests is not touched by one that is put behind it.
LEMMA FirstStays ==
    ASSUME NEW q \in Seq(Entries), NEW e \in Entries, 1 \in DOMAIN q
    PROVE  1 \in DOMAIN Append(q, e) /\ Append(q, e)[1] = q[1]
<1>1. /\ Len(Append(q, e)) = Len(q) + 1 /\ Append(q, e) \in Seq(Entries)
      /\ \A i \in DOMAIN Append(q, e) :
             (i \in DOMAIN q /\ Append(q, e)[i] = q[i]) \/ i = Len(q) + 1
  BY AppendFacts
<1>2. /\ DOMAIN q = 1 .. Len(q) /\ Len(q) \in Nat
      /\ DOMAIN Append(q, e) = 1 .. Len(q) + 1
  BY <1>1, LenProperties
<1>3. 1 # Len(q) + 1 /\ 1 \in 1 .. Len(q) + 1
  BY <1>2
<1> QED
  BY <1>1, <1>2, <1>3

LEMMA ReceiveShip ==
    ASSUME TypeInv, TypeInv', ShipInv, NEW h \in Hosts, Base!Receive(h), UNCHANGED planVars
    PROVE  ShipInv'
<1> USE DEF JobOf, AnswerAt
<1>1. /\ resp[h] # <<>> /\ Head(resp[h]) = resp[h][1] /\ 1 \in DOMAIN resp[h]
      /\ resp' = [resp EXCEPT ![h] = Tail(@)]
      /\ \/ /\ AnswerOf(h, Head(resp[h])) \in Queued
            /\ msgQ' = Append(msgQ, AnswerOf(h, Head(resp[h])))
         \/ msgQ' = msgQ
      /\ UNCHANGED <<todo, shipped, segments, image, lost>>
  BY ReceiveFacts
<1>2. Base!Shipped' = Base!Shipped
  BY <1>1, ShippedSame
<1>3. \A g \in Hosts : \A i \in DOMAIN resp'[g] :
          resp'[g][i].cnt # 0 => JobOf(resp'[g][i]) \in Base!Shipped'
  <2>1. resp \in [Hosts -> Seq(Returns)] /\ resp[h] \in Seq(Returns)
    BY DEF TypeInv, LinksOK
  <2>2. \A i \in DOMAIN Tail(resp[h]) : \E k \in DOMAIN resp[h] : Tail(resp[h])[i] = resp[h][k]
    BY <1>1, <2>1, SeqTail
  <2>3. \A g \in Hosts : IF g = h THEN resp'[g] = Tail(resp[h]) ELSE resp'[g] = resp[g]
    BY <1>1, <2>1
  <2>4. \A i \in DOMAIN Tail(resp[h]) : Tail(resp[h])[i].cnt # 0 =>
            JobOf(Tail(resp[h])[i]) \in Base!Shipped
    <3> SUFFICES ASSUME NEW i \in DOMAIN Tail(resp[h]), Tail(resp[h])[i].cnt # 0
                 PROVE  JobOf(Tail(resp[h])[i]) \in Base!Shipped
      OBVIOUS
    <3>1. PICK k \in DOMAIN resp[h] : Tail(resp[h])[i] = resp[h][k]
      BY <2>2
    <3>2. resp[h][k].cnt # 0
      BY <3>1
    <3>3. JobOf(resp[h][k]) \in Base!Shipped
      BY <3>2 DEF ShipInv
    <3> HIDE DEF JobOf
    <3> QED
      BY <3>1, <3>3
  <2> QED
    BY <1>2, <2>3, <2>4 DEF ShipInv
<1>4. \A i \in DOMAIN msgQ' : msgQ'[i].kind = "answer" /\ msgQ'[i].cnt # 0 =>
          JobOf(msgQ'[i]) \in Base!Shipped'
  <2>1. CASE msgQ' = msgQ
    BY <1>2, <2>1 DEF ShipInv
  <2>2. CASE msgQ' # msgQ
    <3> DEFINE e == AnswerOf(h, Head(resp[h]))
    <3>1. e \in Queued /\ msgQ' = Append(msgQ, e) /\ msgQ \in Seq(Queued)
      BY <1>1, <2>2, QueueDomains
    <3>2. e.off = resp[h][1].off /\ e.cnt = resp[h][1].cnt
      BY <1>1 DEF AnswerOf
    <3>3. e.cnt # 0 => JobOf(e) \in Base!Shipped
      BY <1>1, <3>2 DEF ShipInv
    <3> HIDE DEF e
    <3>4. \A i \in DOMAIN msgQ' : (i \in DOMAIN msgQ /\ msgQ'[i] = msgQ[i]) \/ msgQ'[i] = e
      BY <3>1, AppendFacts
    <3> QED
      BY <1>2, <3>3, <3>4 DEF ShipInv
  <2> QED
    BY <2>1, <2>2
<1> QED
  BY <1>1, <1>2, <1>3, <1>4 DEF ShipInv

LEMMA RespondShip ==
    ASSUME TypeInv, TypeInv', ShipInv, NEW s \in Slots,
           Base!Worker(s), Base!Respond(s), UNCHANGED planVars
    PROVE  ShipInv'
<1> USE DEF JobOf, AnswerAt
<1>1. UNCHANGED <<segments, image, lost, msgQ>>
  BY RespondFacts DEF MasterKept
<1>2. PICK n \in Answerable(s) : \E e \in Returns :
          /\ n \in DOMAIN todo[s] /\ todo[s] \in Seq(Entries)
          /\ e = [pipe |-> s[2], tag |-> todo[s][n].tag, off |-> todo[s][n].off,
                  cnt |-> todo[s][n].cnt]
          /\ resp' = [resp EXCEPT ![s[1]] = Append(@, e)]
          /\ todo' = [todo EXCEPT ![s] = RemoveAt(@, n)]
          /\ shipped' = [shipped EXCEPT ![s] = @ /\ n # 1]
  BY RespondFacts
<1>3. PICK e \in Returns :
          /\ n \in DOMAIN todo[s] /\ todo[s] \in Seq(Entries)
          /\ e = [pipe |-> s[2], tag |-> todo[s][n].tag, off |-> todo[s][n].off,
                  cnt |-> todo[s][n].cnt]
          /\ resp' = [resp EXCEPT ![s[1]] = Append(@, e)]
          /\ todo' = [todo EXCEPT ![s] = RemoveAt(@, n)]
          /\ shipped' = [shipped EXCEPT ![s] = @ /\ n # 1]
  BY <1>2
<1>4. /\ resp \in [Hosts -> Seq(Returns)] /\ todo \in [Slots -> Seq(Entries)]
      /\ shipped \in [Slots -> BOOLEAN] /\ s[1] \in Hosts
  BY SlotFacts DEF TypeInv, LinksOK
<1>5. Base!Shipped' = Base!Shipped
  BY <1>1, ShippedSame
<1>6. e.cnt # 0 => JobOf(e) \in Base!Shipped
  <2>1. e.off = todo[s][n].off /\ e.cnt = todo[s][n].cnt
    BY <1>3
  <2>2. e.cnt # 0 => n = 1 /\ shipped[s]
    BY <1>2, <2>1 DEF Answerable
  <2> QED
    BY <2>1, <2>2 DEF ShipInv
<1> DEFINE r == RemoveAt(todo[s], n)
<1>7. /\ DOMAIN todo[s] = 1 .. Len(todo[s]) /\ Len(todo[s]) \in Nat /\ n \in Nat \ {0}
      /\ DOMAIN r = 1 .. Len(todo[s]) - 1
      /\ \A i \in 1 .. Len(todo[s]) - 1 :
             r[i] = IF i < n THEN todo[s][i] ELSE todo[s][i + 1]
  <2>1. /\ r \in Seq(Entries) /\ Len(r) = Len(todo[s]) - 1
        /\ \A i \in 1 .. Len(todo[s]) - 1 :
               r[i] = IF i < n THEN todo[s][i] ELSE todo[s][i + 1]
    BY <1>3, RemoveAtFacts
  <2>2. DOMAIN todo[s] = 1 .. Len(todo[s]) /\ Len(todo[s]) \in Nat
    BY <1>3, LenProperties
  <2>3. DOMAIN r = 1 .. Len(r)
    BY <2>1, LenProperties
  <2> HIDE DEF r
  <2> QED
    BY <1>3, <2>1, <2>2, <2>3
<1>8. \A q \in Slots : IF q = s THEN todo'[q] = r ELSE todo'[q] = todo[q]
  BY <1>3, <1>4
<1> HIDE DEF r
<1>9. \A i \in DOMAIN r : \E k \in DOMAIN todo[s] : r[i] = todo[s][k]
  <2> SUFFICES ASSUME NEW i \in DOMAIN r PROVE \E k \in DOMAIN todo[s] : r[i] = todo[s][k]
    OBVIOUS
  <2>1. i \in DOMAIN todo[s] /\ i + 1 \in DOMAIN todo[s]
    BY <1>7
  <2> QED
    BY <1>7, <2>1
<1>10. n # 1 /\ n \in DOMAIN todo[s] => 1 \in DOMAIN r /\ r[1] = todo[s][1]
  BY <1>7
<1>11. \A q \in Slots : \A i \in DOMAIN todo'[q] : todo'[q][i].tag = 0 => todo'[q][i].cnt = 0
  BY <1>8, <1>9 DEF ShipInv
<1>12. \A q \in Slots : shipped'[q] => /\ 1 \in DOMAIN todo'[q] /\ todo'[q][1].cnt # 0
                                       /\ JobOf(todo'[q][1]) \in Base!Shipped'
  <2>1. \A q \in Slots : shipped'[q] => shipped[q] /\ (q = s => n # 1)
    BY <1>3, <1>4
  <2> SUFFICES ASSUME NEW q \in Slots, shipped'[q]
               PROVE  /\ 1 \in DOMAIN todo'[q] /\ todo'[q][1].cnt # 0
                      /\ JobOf(todo'[q][1]) \in Base!Shipped'
    OBVIOUS
  <2>2. /\ 1 \in DOMAIN todo[q] /\ todo[q][1].cnt # 0
        /\ JobOf(todo[q][1]) \in Base!Shipped
    BY <2>1 DEF ShipInv
  <2>3. 1 \in DOMAIN todo'[q] /\ todo'[q][1] = todo[q][1]
    <3>1. n \in DOMAIN todo[s]
      BY <1>3
    <3>2. CASE q = s
      <4>1. todo'[q] = r /\ n # 1
        BY <1>8, <2>1, <3>2
      <4> QED
        BY <1>10, <3>1, <3>2, <4>1
    <3>3. CASE q # s
      BY <1>8, <2>2, <3>3
    <3> QED
      BY <3>2, <3>3
  <2> HIDE DEF JobOf
  <2> QED
    BY <1>5, <2>2, <2>3
<1>13. \A h \in Hosts : \A i \in DOMAIN resp'[h] :
           resp'[h][i].cnt # 0 => JobOf(resp'[h][i]) \in Base!Shipped'
  <2>1. \A i \in DOMAIN Append(resp[s[1]], e) :
            \/ i \in DOMAIN resp[s[1]] /\ Append(resp[s[1]], e)[i] = resp[s[1]][i]
            \/ Append(resp[s[1]], e)[i] = e
    BY <1>4, AppendFacts
  <2>2. \A h \in Hosts : IF h = s[1] THEN resp'[h] = Append(resp[s[1]], e)
                         ELSE resp'[h] = resp[h]
    BY <1>3, <1>4
  <2>3. \A h \in Hosts : \A i \in DOMAIN resp'[h] :
            (i \in DOMAIN resp[h] /\ resp'[h][i] = resp[h][i]) \/ resp'[h][i] = e
    BY <2>1, <2>2
  <2> HIDE DEF JobOf
  <2> QED
    BY <1>5, <1>6, <2>3 DEF ShipInv
<1> QED
  BY <1>1, <1>5, <1>11, <1>12, <1>13 DEF ShipInv

LEMMA ShipStep ==
    ASSUME TypeInv, TypeInv', OrderInv, ShipInv, [Next]_vars
    PROVE  ShipInv'
<1>1. ASSUME msgQ' = msgQ PROVE \E n \in {0, 1} : QueueMoves(n)
  <2>1. QueueMoves(0)
    BY <1>1, TailMoves
  <2> QED
    BY <2>1
<1>2. ASSUME UNCHANGED <<todo, shipped, resp>>, Base!Shipped' = Base!Shipped,
             \E n \in {0, 1} : QueueMoves(n)
      PROVE  ShipInv'
  <2>1. \A s \in Slots : shipped'[s] =>
            shipped[s] /\ 1 \in DOMAIN todo'[s] /\ todo'[s][1] = todo[s][1]
    BY <1>2 DEF ShipInv
  <2>2. \A s \in Slots : \A i \in DOMAIN todo'[s] :
            todo'[s][i].tag = 0 => todo'[s][i].cnt = 0
    BY <1>2 DEF ShipInv
  <2> QED
    BY <1>2, <2>1, <2>2, ShipStays
\* Requests are put behind the others.
<1>3. ASSUME NEW f, \A s \in Slots : f[s] \in Entries,
             \A s \in Slots : f[s].tag = 0 => f[s].cnt = 0,
             \A s \in Slots : todo'[s] = todo[s] \/ todo'[s] = Append(todo[s], f[s]),
             UNCHANGED <<shipped, resp>>, Base!Shipped' = Base!Shipped,
             \E n \in {0, 1} : QueueMoves(n)
      PROVE  ShipInv'
  <2>1. \A s \in Slots : todo[s] \in Seq(Entries)
    BY DEF TypeInv, LinksOK
  <2>2. \A s \in Slots : shipped'[s] =>
            shipped[s] /\ 1 \in DOMAIN todo'[s] /\ todo'[s][1] = todo[s][1]
    <3> SUFFICES ASSUME NEW s \in Slots, shipped'[s]
                 PROVE  shipped[s] /\ 1 \in DOMAIN todo'[s] /\ todo'[s][1] = todo[s][1]
      OBVIOUS
    <3>1. shipped[s] /\ 1 \in DOMAIN todo[s]
      BY <1>3 DEF ShipInv
    <3> QED
      BY <1>3, <2>1, <3>1, FirstStays
  <2>3. \A s \in Slots : \A i \in DOMAIN todo'[s] :
            todo'[s][i].tag = 0 => todo'[s][i].cnt = 0
    <3> SUFFICES ASSUME NEW s \in Slots, NEW i \in DOMAIN todo'[s]
                 PROVE  todo'[s][i].tag = 0 => todo'[s][i].cnt = 0
      OBVIOUS
    <3>1. (i \in DOMAIN todo[s] /\ todo'[s][i] = todo[s][i]) \/ todo'[s][i] = f[s]
      BY <1>3, <2>1, AppendFacts
    <3> QED
      BY <1>3, <3>1 DEF ShipInv
  <2> QED
    BY <1>3, <2>2, <2>3, ShipStays
<1>4. CASE LinkStill
  BY <1>2, <1>4 DEF LinkStill
<1>5. CASE KickOffSend
  <2> DEFINE f == [s \in Slots |-> IF s[2] < Len(batch) THEN batch[s[2] + 1] ELSE NoWork]
  <2>1. /\ todo' = [s \in Slots |-> IF s[1] = ThisHost /\ link[ThisHost] = "up"
                            THEN Append(todo[s], IF s[2] < Len(batch) THEN batch[s[2] + 1]
                                                 ELSE NoWork)
                            ELSE todo[s]]
        /\ UNCHANGED <<shipped, resp, segments, image, lost, msgQ>>
        /\ \A s \in Slots : f[s] \in Entries
    BY <1>5, SendFacts
  <2>2. \A s \in Slots : todo'[s] = todo[s] \/ todo'[s] = Append(todo[s], f[s])
    BY <2>1
  <2>3. \A s \in Slots : f[s].tag = 0 => f[s].cnt = 0
    <3> SUFFICES ASSUME NEW s \in Slots PROVE f[s].tag = 0 => f[s].cnt = 0
      OBVIOUS
    <3>1. CASE s[2] < Len(batch)
      <4> DEFINE filled == [tag : Tags, off : Nat, cnt : Nat]
      <4>1. batch \in Seq(filled)
        BY <1>5, SendFacts
      <4>2. \A e \in filled : e.tag # 0
        BY DEF Tags
      <4> HIDE DEF filled
      <4>3. s[2] + 1 \in DOMAIN batch
        BY <3>1, <4>1, SlotFacts, LenProperties
      <4>4. batch[s[2] + 1] \in filled
        BY <4>1, <4>3, ElementOfSeq
      <4> QED
        BY <3>1, <4>2, <4>4
    <3>2. CASE ~(s[2] < Len(batch))
      BY <3>2 DEF NoWork
    <3> QED
      BY <3>1, <3>2
  <2>4. Base!Shipped' = Base!Shipped
    BY <2>1, ShippedSame
  <2> HIDE DEF f
  <2> QED
    BY <1>1, <1>3, <2>1, <2>2, <2>3, <2>4
<1>6. CASE AnswerThenRedispatch
  <2>1. /\ HandleAnswer /\ UNCHANGED <<shipped, resp, segments, image, lost>>
        /\ GivenEntry \in Entries /\ GivenEntry.tag # 0
        /\ todo' = IF link[Host] = "up"
                   THEN [todo EXCEPT ![Base!AnswerSlot] = Append(@, GivenEntry)]
                   ELSE todo
    BY <1>6, RedispatchFacts DEF GivenEntry, Tags
  <2>2. msgQ # <<>> /\ msgQ' = Tail(msgQ) /\ Base!AnswerSlot \in Slots
    BY <2>1, AnswerFacts
  <2>3. QueueMoves(1)
    BY <2>2, TailMoves
  <2> DEFINE f == [s \in Slots |-> GivenEntry]
  <2>4. \A s \in Slots : f[s] \in Entries /\ f[s].tag # 0
    BY <2>1
  <2>5. \A s \in Slots : todo'[s] = todo[s] \/ todo'[s] = Append(todo[s], f[s])
    BY <2>1, <2>2 DEF TypeInv, LinksOK
  <2> HIDE DEF f
  <2>6. Base!Shipped' = Base!Shipped
    BY <2>1, ShippedSame
  <2> QED
    BY <1>3, <2>1, <2>3, <2>4, <2>5, <2>6
<1>7. CASE LinkStep
  <2>0. UNCHANGED planVars
    BY <1>7 DEF LinkStep
  <2>1. CASE \E h \in Hosts : Base!Receive(h)
    BY <2>0, <2>1, ReceiveShip
  <2>2. ASSUME NEW h \in Hosts, Dies(h) PROVE ShipInv'
    <3>1. /\ \A g \in Hosts : \A i \in DOMAIN resp'[g] :
                 i \in DOMAIN resp[g] /\ resp'[g][i] = resp[g][i]
          /\ todo' = [s \in Slots |-> IF s[1] = h THEN <<>> ELSE todo[s]]
          /\ shipped' = [s \in Slots |-> s[1] # h /\ shipped[s]]
          /\ Base!Shipped' = Base!Shipped
          /\ msgQ' = msgQ
      BY <2>0, <2>2, PerishFacts DEF MasterKept, Dies
    <3>2. \A s \in Slots : shipped'[s] =>
              shipped[s] /\ 1 \in DOMAIN todo'[s] /\ todo'[s][1] = todo[s][1]
      BY <3>1 DEF ShipInv
    <3>3. \A s \in Slots : \A i \in DOMAIN todo'[s] :
              todo'[s][i].tag = 0 => todo'[s][i].cnt = 0
      BY <3>1 DEF ShipInv
    <3> QED
      BY <1>1, <3>1, <3>2, <3>3, ShipStays
  <2>3. CASE \E h \in Hosts : Base!Client(h)
    <3>1. UNCHANGED <<todo, shipped, resp, msgQ>> /\ Base!Shipped' = Base!Shipped
      BY <2>0, <2>3, DeliverFacts DEF MasterKept
    <3> QED
      BY <1>1, <1>2, <3>1
  <2>4. ASSUME NEW s \in Slots, Base!Worker(s), Base!ShipSegment(s) PROVE ShipInv'
    <3>1. /\ 1 \in DOMAIN todo[s] /\ todo[s][1].cnt # 0
          /\ shipped' = [shipped EXCEPT ![s] = TRUE]
          /\ Base!Shipped' = Base!Shipped \cup {JobOf(todo[s][1])}
          /\ UNCHANGED <<todo, resp, msgQ>>
      BY <2>0, <2>4, ShipFacts DEF MasterKept, JobOf
    <3>2. Base!Shipped \subseteq Base!Shipped' /\ JobOf(todo[s][1]) \in Base!Shipped'
      BY <3>1
    <3>3. \A r \in Slots : shipped'[r] => /\ 1 \in DOMAIN todo[r] /\ todo[r][1].cnt # 0
                                          /\ JobOf(todo[r][1]) \in Base!Shipped'
      <4>1. \A r \in Slots : shipped'[r] => r = s \/ shipped[r]
        BY <3>1 DEF TypeInv, LinksOK
      <4> QED
        BY <3>1, <3>2, <4>1 DEF ShipInv
    <3>4. \A s1 \in Slots : \A i \in DOMAIN todo[s1] : todo[s1][i].tag = 0 => todo[s1][i].cnt = 0
      BY DEF ShipInv
    <3>5. /\ \A h \in Hosts : \A i \in DOMAIN resp[h] :
                 resp[h][i].cnt # 0 => JobOf(resp[h][i]) \in Base!Shipped'
          /\ \A i \in DOMAIN msgQ :
                 AnswerAt(i) /\ msgQ[i].cnt # 0 => JobOf(msgQ[i]) \in Base!Shipped'
      BY <3>2 DEF ShipInv
    <3> QED
      BY <3>1, <3>3, <3>4, <3>5 DEF ShipInv, AnswerAt, JobOf
  <2>5. CASE \E s \in Slots : Base!Worker(s) /\ Base!Respond(s)
    BY <2>0, <2>5, RespondShip
  <2> QED
    BY <1>7, <2>1, <2>2, <2>3, <2>4, <2>5 DEF LinkStep
<1> QED
  BY <1>4, <1>5, <1>6, <1>7, LinkKinds

-----------------------------------------------------------------------------
(* The plan                                                                *)

\* The i-th chunk of the image.
ChunkAt(i) ==
    [off |-> i * workload,
     cnt |-> IF i = Len(order) - 1 THEN (NumPixels - i * workload) % UIntMod ELSE workload]

\* What has been handed out so far.
Planned == {ChunkAt(order[k]) : k \in 1 .. Handed}

\* All chunks are in the array, once, and they fit the image if it has enough
\* pixels; none is handed out that begins behind the image.
PlanInv ==
    /\ ~Accepted => Handed = 0
    /\ Accepted =>
           /\ \A k \in 1 .. Len(order) : order[k] \in 0 .. Len(order) - 1
           /\ \A k, m \in 1 .. Len(order) : order[k] = order[m] => k = m
           /\ \A i \in 0 .. Len(order) - 1 : \E k \in 1 .. Len(order) : order[k] = i
           /\ ~RandomChunks => \A k \in 1 .. Len(order) : order[k] = k - 1
           /\ IF Len(order) <= NumPixels THEN Len(order) * workload <= NumPixels
              ELSE workload = 1
           /\ \A k \in 1 .. Handed : (k - 1) * workload < NumPixels

LEMMA PlanInit == Init => PlanInv
  BY BaseSame DEF Init, Base!Init, PlanInv, Handed, Accepted

LEMMA PlanStep ==
    ASSUME TypeInv, TypeInv', Once, PlanInv, [Next]_vars
    PROVE  PlanInv'
<1>1. ASSUME UNCHANGED <<current, workload, order>>, Accepted' <=> Accepted
      PROVE  PlanInv'
  <2>1. Handed' = Handed
    BY <1>1 DEF Handed
  <2> QED
    BY <1>1, <2>1 DEF PlanInv
<1>2. CASE SamePlan
  BY <1>1, <1>2 DEF SamePlan, Accepted
<1>3. CASE AnswerThenRedispatch \/ AnswerThenFinish \/ AnswerThenWait
  <2>1. HandleAnswer /\ (scene' = scene \/ scene' = "finished")
    BY <1>3, RedispatchFacts, FinishFacts, WaitFacts
  <2>2. Accepted /\ UNCHANGED <<current, workload, order>>
    BY <2>1, AnswerFacts
  <2> QED
    BY <1>1, <2>1, <2>2 DEF Accepted
<1>4. CASE AcceptScene
  <2>1. /\ scene' = "running" /\ current' = 0 /\ total \in Nat \ {0}
        /\ workload' = MaxOf(1, GetWorkEstimationForNewScene(total) \div total)
        /\ workload' \in Nat \ {0}
        /\ order' \in Orders(total)
    BY <1>4, AcceptFacts
  <2>2. Handed' = 0
    BY <2>1, NoMultiple DEF Handed
  <2>3. /\ Len(order') = total
        /\ \A k \in 1 .. total : order'[k] \in 0 .. total - 1
        /\ \A k, m \in 1 .. total : order'[k] = order'[m] => k = m
        /\ \A i \in 0 .. total - 1 : \E k \in 1 .. total : order'[k] = i
        /\ ~RandomChunks => \A k \in 1 .. total : order'[k] = k - 1
    BY <2>1, OrdersType
  <2>4. IF total <= NumPixels THEN total * workload' <= NumPixels ELSE workload' = 1
    BY <2>1, WorkloadType
  <2> QED
    BY <2>1, <2>2, <2>3, <2>4 DEF PlanInv, Accepted
<1>5. CASE KickOffAssign
  <2>1. /\ pc = "assign" /\ Handed' = Handed + 1
        /\ UNCHANGED <<scene, workload, order>>
    BY <1>5, AssignFacts
  <2>2. /\ Accepted /\ current = Handed * workload /\ current < NumPixels /\ Handed \in Nat
        /\ scene = "running"
    BY <2>1 DEF TypeInv, LifeOK, ChunksOK, Accepted
  <2>3. \A k \in 1 .. Handed + 1 : (k - 1) * workload < NumPixels
    <3> SUFFICES ASSUME NEW k \in 1 .. Handed + 1 PROVE (k - 1) * workload < NumPixels
      OBVIOUS
    <3>1. CASE k = Handed + 1
      <4>1. k - 1 = Handed
        BY <2>2, <3>1
      <4> QED
        BY <2>2, <4>1
    <3>2. CASE k \in 1 .. Handed
      BY <2>2, <3>2 DEF PlanInv
    <3> QED
      BY <2>2, <3>1, <3>2
  <2> QED
    BY <2>1, <2>2, <2>3 DEF PlanInv, Accepted
<1> QED
  BY <1>2, <1>3, <1>4, <1>5, StepKinds

\* What the chunks are like.
LEMMA ChunkFacts ==
    ASSUME TypeInv, CountInv, PlanInv
    PROVE  /\ Handed \in Nat /\ Handed <= Len(order) /\ Len(order) \in Nat
           /\ Accepted => \A k \in 1 .. Len(order) :
                  /\ order[k] \in Nat /\ order[k] * workload \in Nat
                  /\ ChunkOf(k) = ChunkAt(order[k])
           /\ Accepted => \A k, m \in 1 .. Len(order) :
                  ChunkAt(order[k]).off = ChunkAt(order[m]).off => k = m
           /\ \A j, k \in Planned : j.off = k.off => j = k
           /\ Planned # {} => Accepted
<1>1. Handed \in Nat /\ Handed <= Len(order) /\ Len(order) \in Nat
  BY LenProperties DEF TypeInv, ChunksOK, CountInv
<1>2. ASSUME Accepted, NEW k \in 1 .. Len(order)
      PROVE  /\ order[k] \in Nat /\ order[k] * workload \in Nat
             /\ ChunkOf(k) = ChunkAt(order[k])
  <2>1. order[k] \in 0 .. Len(order) - 1 /\ workload \in Nat \ {0}
    BY <1>2 DEF PlanInv, TypeInv, ChunksOK
  <2>2. order[k] * workload \in Nat
    BY <1>1, <2>1, Multiples
  <2>3. ~RandomChunks => (order[k] = Len(order) - 1 <=> k = Len(order))
    BY <1>1, <1>2 DEF PlanInv
  <2>4. ChunkOf(k) = ChunkAt(order[k])
    BY <2>3, StaticAssumption DEF ChunkOf, ChunkAt
  <2> QED
    BY <1>1, <2>1, <2>2, <2>4
<1>3. ASSUME Accepted, NEW k \in 1 .. Len(order), NEW m \in 1 .. Len(order),
             ChunkAt(order[k]).off = ChunkAt(order[m]).off
      PROVE  k = m
  <2>1. order[k] * workload = order[m] * workload
    BY <1>3 DEF ChunkAt
  <2>2. workload \in Nat \ {0} /\ order[k] \in Nat /\ order[m] \in Nat
    BY <1>2, <1>3 DEF TypeInv, ChunksOK
  <2>3. order[k] = order[m]
    BY <2>1, <2>2, Multiples
  <2> QED
    BY <1>3, <2>3 DEF PlanInv
<1>4. Planned # {} => Accepted
  <2>1. ~Accepted => 1 .. Handed = {}
    BY DEF PlanInv
  <2> QED
    BY <2>1 DEF Planned
<1>5. ASSUME NEW j \in Planned, NEW k \in Planned, j.off = k.off PROVE j = k
  <2>1. PICK n, m \in 1 .. Handed : j = ChunkAt(order[n]) /\ k = ChunkAt(order[m])
    BY DEF Planned
  <2>2. n \in 1 .. Len(order) /\ m \in 1 .. Len(order)
    BY <1>1, <2>1
  <2>3. n = m
    BY <1>3, <1>4, <1>5, <2>1, <2>2
  <2> QED
    BY <2>1, <2>3
<1> QED
  BY <1>1, <1>2, <1>3, <1>4, <1>5

-----------------------------------------------------------------------------
(* The jobs                                                                *)

\* Every chunk that has been handed out has been shipped, is tracked at one
\* pipeline or waits with the failed jobs, and a request asks for what its
\* pipeline has; only chunks without pixels may be forgotten.
JobInv ==
    /\ Base!Known \subseteq Planned
    /\ \A j \in Planned : j.cnt # 0 => j \in Base!Known
    /\ \A s \in Slots : tracked[s] \cap failed = {}
    /\ \A s, r \in Slots : s # r => tracked[s] \cap tracked[r] = {}
    /\ \A l \in Mail : JobOf(l) \in tracked[<<l.host, l.pipe>>]
    /\ \A l, k \in Mail : l.host = k.host /\ l.pipe = k.pipe /\ l.off = k.off => l = k

LEMMA KnownJobs ==
    \A x : /\ x \in Base!Known <=> \/ x \in Base!Shipped \/ x \in failed
                                   \/ \E s \in Slots : x \in tracked[s]
           /\ x \in Base!Known' <=> \/ x \in Base!Shipped' \/ x \in failed'
                                    \/ \E s \in Slots : x \in tracked'[s]
  BY BaseSame DEF Base!Known

LEMMA JobInit == Init => JobInv
<1> SUFFICES ASSUME Init PROVE JobInv
  OBVIOUS
<1>1. /\ todo = [s \in Slots |-> <<>>] /\ resp = [h \in Hosts |-> <<>>]
      /\ msgQ = <<>> /\ batch = <<>> /\ order = <<>>
      /\ segments = [h \in Hosts |-> {}] /\ image = {} /\ lost = {}
      /\ failed = {} /\ tracked = [s \in Slots |-> {}] /\ workload = 0
  BY BaseSame DEF Init, Base!Init, Base!LinkInit, Base!TrackerInit
<1>2. Places = {}
  BY <1>1 DEF Places, TodoPlaces, RespPlaces, QueuePlaces, BatchPlaces
<1>3. Mail = {}
  BY <1>2 DEF Mail
<1>4. \A x : x \notin Base!Known
  BY <1>1, KnownJobs, ShippedJobs
<1>5. Planned = {}
  BY <1>1 DEF Planned, Handed
<1> QED
  BY <1>1, <1>3, <1>4, <1>5 DEF JobInv

\* The jobs, the plan and what the pipelines have to do stay the same.
LEMMA JobsStay ==
    ASSUME JobInv, Base!Known' = Base!Known, UNCHANGED <<tracked, failed>>,
           Planned' = Planned, Mail' \subseteq Mail
    PROVE  JobInv'
  BY DEF JobInv, JobOf

\* No answer of a host comes after an exception of its connection.
LEMMA NoLetters ==
    ASSUME TypeInv, OrderInv, pc = "idle", 1 \in DOMAIN msgQ, ExceptionAt(1), msgQ[1].host # NoHost
    PROVE  \A l \in Mail : l.host # msgQ[1].host
<1> SUFFICES ASSUME NEW l \in Mail, l.host = msgQ[1].host PROVE FALSE
  OBVIOUS
<1>1. PICK c \in Places : l = At(c)
  BY DEF Mail
<1>2. PlaceLaws
  BY PlaceFacts
<1>3. link[msgQ[1].host] = "closed"
  BY DEF OrderInv
<1>4. CASE \E s \in Slots : \E i \in DOMAIN todo[s] : c = <<"todo", s, i>>
  <2>1. PICK s \in Slots : \E i \in DOMAIN todo[s] : c = <<"todo", s, i>>
    BY <1>4
  <2>2. PICK i \in DOMAIN todo[s] : c = <<"todo", s, i>>
    BY <2>1
  <2>3. l.host = s[1]
    <3>1. l = Letter(s[1], s[2], todo[s][i])
      BY <1>1, <1>2, <2>2 DEF PlaceLaws
    <3> QED
      BY <3>1 DEF Letter
  <2>4. todo[s] # <<>>
    BY <2>2
  <2> QED
    BY <1>3, <2>3, <2>4 DEF OrderInv
<1>5. CASE \E h \in Hosts : \E i \in DOMAIN resp[h] : c = <<"resp", h, i>>
  <2>1. PICK h \in Hosts : \E i \in DOMAIN resp[h] : c = <<"resp", h, i>>
    BY <1>5
  <2>2. PICK i \in DOMAIN resp[h] : c = <<"resp", h, i>>
    BY <2>1
  <2>3. l.host = h
    <3>1. l = Letter(h, resp[h][i].pipe, resp[h][i])
      BY <1>1, <1>2, <2>2 DEF PlaceLaws
    <3> QED
      BY <3>1 DEF Letter
  <2>4. resp[h] # <<>>
    BY <2>2
  <2> QED
    BY <1>3, <2>3, <2>4 DEF OrderInv
<1>6. CASE \E i \in DOMAIN msgQ : c = <<"msgQ", NoHost, i>> /\ AnswerAt(i)
  <2>1. PICK i \in DOMAIN msgQ : c = <<"msgQ", NoHost, i>> /\ AnswerAt(i)
    BY <1>6
  <2>2. l.host = msgQ[i].host
    <3>1. l = Letter(msgQ[i].host, msgQ[i].pipe, msgQ[i])
      BY <1>1, <1>2, <2>1 DEF PlaceLaws
    <3> QED
      BY <3>1 DEF Letter
  <2>3. 1 < i
    <3>1. i # 1 /\ i \in 1 .. Len(msgQ) /\ Len(msgQ) \in Nat
      BY <2>1, LenProperties DEF AnswerAt, ExceptionAt, TypeInv, QueueOK
    <3> QED
      BY <3>1
  <2>4. msgQ[1].host # msgQ[i].host
    BY <2>1, <2>3 DEF OrderInv
  <2> QED
    BY <2>2, <2>4
<1>7. CASE \E i \in DOMAIN batch : c = <<"batch", NoHost, i>>
  BY <1>7 DEF TypeInv, PlaceOK
<1> QED
  BY <1>1, <1>2, <1>4, <1>5, <1>6, <1>7 DEF PlaceLaws

\* The jobs of a failed host wait with the failed ones, all of them.
LEMMA ExceptionJobs ==
    ASSUME TypeInv, TypeInv', Calm, SamePlan, OrderInv, CountInv, PlanInv, JobInv,
           Base!HandleException, UNCHANGED planVars
    PROVE  JobInv'
<1>1. /\ pc = "idle" /\ 1 \in DOMAIN msgQ /\ ExceptionAt(1) /\ Host \in Hosts
      /\ Head(msgQ) = msgQ[1]
      /\ \/ /\ failed' = WithFailed(failed, JobsOf(Host))
            /\ tracked' = [s \in Slots |-> IF s[1] = Host THEN {} ELSE tracked[s]]
         \/ UNCHANGED <<failed, tracked>>
      /\ UNCHANGED <<image, lost, segments>>
  BY HandleExceptionFacts
<1>2. Base!Shipped' = Base!Shipped
  BY <1>1, ShippedSame
<1>3. Planned' = Planned /\ Mail' \subseteq Mail
  BY DEF Calm, SamePlan, Planned, Handed, ChunkAt
<1>4. CASE UNCHANGED <<failed, tracked>>
  <2>1. Base!Known' = Base!Known
    BY <1>2, <1>4 DEF Base!Known
  <2> QED
    BY <1>3, <1>4, <2>1, JobsStay
<1>5. CASE /\ failed' = WithFailed(failed, JobsOf(Host))
           /\ tracked' = [s \in Slots |-> IF s[1] = Host THEN {} ELSE tracked[s]]
  <2>1. \A x : x \in JobsOf(Host) <=> \E s \in Slots : s[1] = Host /\ x \in tracked[s]
    <3>1. \A x : x \in JobsOf(Host) <=> \E p \in Pipelines(Host) : x \in tracked[<<Host, p>>]
      BY DEF JobsOf
    <3>2. \A p \in Pipelines(Host) : <<Host, p>> \in Slots /\ <<Host, p>>[1] = Host
      BY <1>1, SlotFacts
    <3>3. \A s \in Slots : s[1] = Host => s[2] \in Pipelines(Host) /\ s = <<Host, s[2]>>
      BY SlotFacts
    <3> QED
      BY <3>1, <3>2, <3>3
  <2>2. \A x \in JobsOf(Host) : \A f \in failed : f.off # x.off
    <3> SUFFICES ASSUME NEW x \in JobsOf(Host), NEW f \in failed, f.off = x.off PROVE FALSE
      OBVIOUS
    <3>1. x \in Planned /\ f \in Planned /\ x \notin failed
      BY <2>1, KnownJobs DEF JobInv
    <3>2. x = f
      BY <3>1, ChunkFacts
    <3> QED
      BY <3>1, <3>2
  <2>3. failed' = failed \cup JobsOf(Host)
    BY <1>5, <2>2 DEF WithFailed
  <2>4. \A x : x \in Base!Known' <=> x \in Base!Known
    BY <1>2, <1>5, <2>1, <2>3, KnownJobs
  <2>5. \A s \in Slots : tracked'[s] \cap failed' = {}
    BY <1>5, <2>1, <2>3 DEF JobInv
  <2>6. \A s, r \in Slots : s # r => tracked'[s] \cap tracked'[r] = {}
    BY <1>5 DEF JobInv
  <2>7. \A l \in Mail' : JobOf(l) \in tracked'[<<l.host, l.pipe>>]
    <3> SUFFICES ASSUME NEW l \in Mail' PROVE JobOf(l) \in tracked'[<<l.host, l.pipe>>]
      OBVIOUS
    <3>1. l \in Mail /\ l.host # Host
      BY <1>1, <1>3, NoLetters, StaticAssumption DEF Host
    <3>2. <<l.host, l.pipe>> \in Slots
      BY <3>1, MailType, SlotFacts DEF LettersOK, IsLetter
    <3>3. JobOf(l) \in tracked[<<l.host, l.pipe>>]
      BY <3>1 DEF JobInv
    <3> HIDE DEF JobOf
    <3> QED
      BY <1>5, <3>1, <3>2, <3>3
  <2> QED
    BY <1>3, <2>4, <2>5, <2>6, <2>7 DEF JobInv, JobOf
<1> QED
  BY <1>1, <1>4, <1>5

\* The scene is accepted: there are no jobs yet.
LEMMA AcceptJobs ==
    ASSUME TypeInv, TypeInv', PlanInv, JobInv, Calm, SameJobs, AcceptScene
    PROVE  JobInv'
<1>1. scene = "none" /\ current' = 0 /\ workload' \in Nat \ {0}
  BY AcceptFacts
<1>2. Planned = {}
  <2>1. Handed = 0
    BY <1>1 DEF PlanInv, Accepted
  <2> QED
    BY <2>1 DEF Planned
<1>3. Planned' = {}
  <2>1. Handed' = 0
    BY <1>1, NoMultiple DEF Handed
  <2> QED
    BY <2>1 DEF Planned
<1>4. Base!Known' = Base!Known
  BY DEF Base!Known, SameJobs
<1> QED
  BY <1>2, <1>3, <1>4, JobsStay DEF SameJobs, Calm

\* A pipeline ships a job that it has.
LEMMA ShipJobs ==
    ASSUME TypeInv, TypeInv', ShipInv, JobInv, Calm, SamePlan, NEW s \in Slots, Ships(s)
    PROVE  JobInv'
<1> DEFINE job == [off |-> todo[s][1].off, cnt |-> todo[s][1].cnt]
           l == Letter(s[1], s[2], todo[s][1])
<1>1. 1 \in DOMAIN todo[s] /\ todo[s][1].tag # 0
  BY DEF Ships, ShipInv
<1>2. l \in Mail
  BY <1>1, PlaceFacts DEF PlaceLaws, Mail
<1>3. l.host = s[1] /\ l.pipe = s[2] /\ l.off = todo[s][1].off /\ l.cnt = todo[s][1].cnt
  BY DEF Letter
<1>4. job \in tracked[s]
  <2>1. JobOf(l) \in tracked[<<l.host, l.pipe>>]
    BY <1>2 DEF JobInv
  <2>2. JobOf(l) = job /\ <<l.host, l.pipe>> = s
    BY <1>3, SlotFacts DEF JobOf
  <2> QED
    BY <2>1, <2>2
<1> HIDE DEF job, l
<1>5. /\ Base!Shipped' = Base!Shipped \cup {job}
      /\ UNCHANGED <<tracked, failed>>
  BY DEF Ships, job
<1>6. \A x : x \in Base!Known' <=> x \in Base!Known
  BY <1>4, <1>5, KnownJobs
<1>7. Planned' = Planned
  BY DEF SamePlan, Planned, Handed, ChunkAt
<1> QED
  BY <1>5, <1>6, <1>7, JobsStay DEF Calm

\* The next chunk is one that nobody has yet.
LEMMA AssignJobs ==
    ASSUME TypeInv, TypeInv', TagInv, CountInv, PlanInv, JobInv, KickOffAssign
    PROVE  JobInv'
<1>1. /\ pc = "assign" /\ ThisSlot \in Slots /\ NextJob \in Jobs
      /\ NextChunk = Handed + 1 /\ NextChunk \in 1 .. Len(order)
      /\ tracked' = [tracked EXCEPT ![ThisSlot] = @ \cup {NextJob}]
      /\ Handed' = Handed + 1
      /\ UNCHANGED <<wireVars, workload, failed, order>>
  BY AssignFacts
<1>2. Accepted
  BY <1>1 DEF TypeInv, LifeOK, Accepted
<1>3. NextJob = ChunkAt(order[Handed + 1])
  BY <1>1, <1>2, ChunkFacts DEF NextJob
<1>4. \A x : x \in Planned' <=> x \in Planned \/ x = NextJob
  <2>1. Handed \in Nat
    BY ChunkFacts
  <2>2. 1 .. Handed' = (1 .. Handed) \cup {Handed + 1}
    BY <1>1, <2>1
  <2>3. Planned' = {ChunkAt(order[k]) : k \in 1 .. Handed'}
    BY <1>1 DEF Planned, ChunkAt
  <2> QED
    BY <1>3, <2>2, <2>3 DEF Planned
<1>5. \A j \in Planned : j.off # NextJob.off
  <2> SUFFICES ASSUME NEW k \in 1 .. Handed, ChunkAt(order[k]).off = NextJob.off PROVE FALSE
    BY DEF Planned
  <2>1. k \in 1 .. Len(order) /\ Handed + 1 \in 1 .. Len(order) /\ k # Handed + 1
    BY <1>1, ChunkFacts
  <2> QED
    BY <1>2, <1>3, <2>1, ChunkFacts
<1>6. NextJob \notin Planned
  BY <1>5
<1>7. Base!Shipped' = Base!Shipped
  BY <1>1, ShippedSame
<1>8. \A s \in Slots : tracked'[s] = IF s = ThisSlot THEN tracked[s] \cup {NextJob} ELSE tracked[s]
  BY <1>1 DEF TypeInv, TrackerTypeOK
<1>9. \A x : x \in Base!Known' <=> x \in Base!Known \/ x = NextJob
  <2>1. \A x : (\E s \in Slots : x \in tracked'[s])
                <=> (\E s \in Slots : x \in tracked[s]) \/ x = NextJob
    <3>1. ThisSlot \in Slots
      BY <1>1
    <3> QED
      BY <1>8, <3>1
  <2>2. failed' = failed
    BY <1>1
  <2> QED
    BY <1>7, <2>1, <2>2, KnownJobs
<1>10. \A s \in Slots : NextJob \notin tracked[s] /\ NextJob \notin failed
  BY <1>6, KnownJobs DEF JobInv
<1>11. \A l \in Mail' : l \in Mail \/ l = NewLetter
  BY AssignMail
<1>12. /\ <<NewLetter.host, NewLetter.pipe>> = ThisSlot
       /\ NewLetter.off = NextJob.off /\ JobOf(NewLetter) = NextJob
  BY <1>1 DEF NewLetter, Letter, NextEntry, ThisSlot, JobOf, Jobs
<1>13. \A l \in Mail : /\ <<l.host, l.pipe>> \in Slots
                       /\ JobOf(l) \in tracked[<<l.host, l.pipe>>] /\ JobOf(l).off = l.off
  BY MailType, SlotFacts DEF LettersOK, IsLetter, JobInv, JobOf
<1>14. \A l \in Mail : l.off # NextJob.off
  BY <1>5, <1>13, KnownJobs DEF JobInv
<1> HIDE DEF JobOf
<1>15. Base!Known' \subseteq Planned' /\ \A j \in Planned' : j.cnt # 0 => j \in Base!Known'
  BY <1>4, <1>9 DEF JobInv
<1>16. \A s \in Slots : tracked'[s] \cap failed' = {}
  BY <1>1, <1>8, <1>10 DEF JobInv
<1>17. \A s, r \in Slots : s # r => tracked'[s] \cap tracked'[r] = {}
  <2>1. \A s, r \in Slots : s # r => tracked[s] \cap tracked[r] = {}
    BY DEF JobInv
  <2> QED
    BY <1>8, <1>10, <2>1
<1>18. \A l \in Mail' : JobOf(l) \in tracked'[<<l.host, l.pipe>>]
  <2> SUFFICES ASSUME NEW l \in Mail' PROVE JobOf(l) \in tracked'[<<l.host, l.pipe>>]
    OBVIOUS
  <2>1. CASE l \in Mail
    <3>1. <<l.host, l.pipe>> \in Slots /\ JobOf(l) \in tracked[<<l.host, l.pipe>>]
      BY <1>13, <2>1
    <3> QED
      BY <1>8, <3>1
  <2>2. CASE l = NewLetter
    <3>1. tracked'[ThisSlot] = tracked[ThisSlot] \cup {NextJob}
      BY <1>1, <1>8
    <3> QED
      BY <1>12, <2>2, <3>1
  <2> QED
    BY <1>11, <2>1, <2>2
<1>19. \A l, k \in Mail' : l.host = k.host /\ l.pipe = k.pipe /\ l.off = k.off => l = k
  BY <1>11, <1>12, <1>14 DEF JobInv
<1> QED
  BY <1>15, <1>16, <1>17, <1>18, <1>19 DEF JobInv, JobOf

\* What an answer takes from its pipeline.
Left == Untracked(Base!AnswerSlot, Head(msgQ).off)

\* It takes the job it carries, and no other request loses its own.
LEMMA AnswerJobs ==
    ASSUME TypeInv, CountInv, PlanInv, ShipInv, JobInv, HandleAnswer
    PROVE  /\ \A s \in Slots : Left[s] \subseteq tracked[s]
           /\ \A s \in Slots : \A x \in tracked[s] : x \in Left[s] \/ x = JobOf(Answered)
           /\ JobOf(Answered) \in tracked[Base!AnswerSlot] /\ Base!AnswerSlot \in Slots
           /\ \A s \in Slots : JobOf(Answered) \notin Left[s]
           /\ JobOf(Answered).cnt # 0 => JobOf(Answered) \in Base!Shipped
           /\ \A l \in Mail : ~Same(l, Answered) =>
                  /\ JobOf(l) \in Left[<<l.host, l.pipe>>]
                  /\ <<l.host, l.pipe>> \in Slots
                  /\ JobOf(l) \in Planned /\ l.off = JobOf(l).off
<1> DEFINE a == Answered
           s == Base!AnswerSlot
<1>1. /\ a \in Mail /\ IsLetter(a) /\ s = <<a.host, a.pipe>> /\ s \in Slots
      /\ a.off = Head(msgQ).off /\ a.cnt = Head(msgQ).cnt
  BY AnsweredFacts, AnswerFacts
<1> HIDE DEF a, s
<1>2. \A r \in Slots : Left[r] = IF r = s THEN {j \in tracked[s] : j.off # a.off} ELSE tracked[r]
  BY <1>1 DEF Left, Untracked, TypeInv, TrackerTypeOK, s
<1>3. JobOf(a) \in tracked[s] /\ JobOf(a).off = a.off /\ JobOf(a).cnt = a.cnt
  BY <1>1 DEF JobInv, JobOf
<1>4. \A r \in Slots : tracked[r] \subseteq Planned
  BY KnownJobs DEF JobInv
<1>5. \A l \in Mail : /\ <<l.host, l.pipe>> \in Slots /\ l.off = JobOf(l).off
                      /\ JobOf(l) \in tracked[<<l.host, l.pipe>>]
  BY MailType, SlotFacts DEF LettersOK, IsLetter, JobInv, JobOf
<1>6. a.cnt # 0 => JobOf(a) \in Base!Shipped
  <2>1. JobOf(a) = JobOf(Head(msgQ))
    BY <1>1 DEF JobOf
  <2>2. Head(msgQ) = msgQ[1] /\ 1 \in DOMAIN msgQ /\ AnswerAt(1)
    BY AnswerFacts
  <2> QED
    BY <1>1, <2>1, <2>2 DEF ShipInv
<1> HIDE DEF JobOf
<1>7. \A r \in Slots : Left[r] \subseteq tracked[r]
  BY <1>1, <1>2
<1>8. \A r \in Slots : \A x \in tracked[r] : x \in Left[r] \/ x = JobOf(a)
  <2> SUFFICES ASSUME NEW r \in Slots, NEW x \in tracked[r], x \notin Left[r] PROVE x = JobOf(a)
    OBVIOUS
  <2>1. r = s /\ x.off = a.off
    BY <1>2
  <2>2. x \in Planned /\ JobOf(a) \in Planned
    BY <1>1, <1>3, <1>4
  <2> QED
    BY <1>3, <2>1, <2>2, ChunkFacts
<1>9. ASSUME NEW l \in Mail, ~Same(l, a)
      PROVE  JobOf(l) \in Left[<<l.host, l.pipe>>] /\ JobOf(l) \in Planned
  <2>1. <<l.host, l.pipe>> \in Slots /\ JobOf(l) \in tracked[<<l.host, l.pipe>>] /\ l.off = JobOf(l).off
    BY <1>5
  <2>2. CASE <<l.host, l.pipe>> = s
    <3>1. l.host = a.host /\ l.pipe = a.pipe
      BY <1>1, <2>2
    <3>2. l.off # a.off
      BY <1>1, <1>9, <3>1 DEF JobInv, Same
    <3> QED
      BY <1>1, <1>2, <1>4, <2>1, <2>2, <3>2
  <2> QED
    BY <1>2, <1>4, <2>1, <2>2
<1>10. \A r \in Slots : JobOf(a) \notin Left[r]
  BY <1>1, <1>2, <1>3 DEF JobInv
<1> QED
  BY <1>1, <1>3, <1>5, <1>6, <1>7, <1>8, <1>9, <1>10 DEF a, s

\* The job of an answer is done.
LEMMA DoneJobs ==
    ASSUME TypeInv, TypeInv', TagInv, CountInv, PlanInv, ShipInv, JobInv,
           AnswerThenFinish \/ AnswerThenWait
    PROVE  JobInv'
<1>1. /\ HandleAnswer /\ NotifyJobDone(Base!AnswerSlot, Head(msgQ).off)
      /\ FreeAppTag(Host, Head(msgQ).tag) /\ failed' = failed
  BY WaitFacts, FinishFacts
<1>2. tracked' = Left /\ UNCHANGED <<todo, resp, image, lost, segments, current, workload, order>>
  BY <1>1, AnswerFacts DEF NotifyJobDone, FreeAppTag, Left
<1>3. Base!Shipped' = Base!Shipped
  BY <1>2, ShippedSame
<1>4. \A l \in Mail' : l \in Mail /\ ~Same(l, Answered)
  BY <1>1, <1>2, AnswerMail DEF TagInv
<1>5. Planned' = Planned
  BY <1>2 DEF Planned, Handed, ChunkAt
<1>6. /\ \A s \in Slots : tracked'[s] \subseteq tracked[s]
      /\ \A s \in Slots : \A x \in tracked[s] : x \in tracked'[s] \/ x = JobOf(Answered)
      /\ JobOf(Answered).cnt # 0 => JobOf(Answered) \in Base!Shipped
      /\ \A l \in Mail : ~Same(l, Answered) => JobOf(l) \in tracked'[<<l.host, l.pipe>>]
  BY <1>1, <1>2, AnswerJobs
<1> HIDE DEF JobOf
<1>7. Base!Known' \subseteq Planned'
  BY <1>1, <1>3, <1>5, <1>6, KnownJobs DEF JobInv
<1>8. \A j \in Planned' : j.cnt # 0 => j \in Base!Known'
  BY <1>1, <1>3, <1>5, <1>6, KnownJobs DEF JobInv
<1>9. \A s \in Slots : tracked'[s] \cap failed' = {}
  BY <1>1, <1>6 DEF JobInv
<1>10. \A s, r \in Slots : s # r => tracked'[s] \cap tracked'[r] = {}
  BY <1>6 DEF JobInv
<1>11. \A l, k \in Mail' : l.host = k.host /\ l.pipe = k.pipe /\ l.off = k.off => l = k
  BY <1>4 DEF JobInv
<1> QED
  BY <1>4, <1>6, <1>7, <1>8, <1>9, <1>10, <1>11 DEF JobInv, JobOf

\* The pipeline gets a failed job in place of the one it has done.
LEMMA RedispatchJobs ==
    ASSUME TypeInv, TypeInv', TagInv, CountInv, PlanInv, ShipInv, JobInv, AnswerThenRedispatch
    PROVE  JobInv'
<1> DEFINE g == GivenJob
           s == Base!AnswerSlot
<1> HIDE DEF g, s
<1>1. HandleAnswer
  BY RedispatchFacts
<1>2. /\ g \in failed /\ failed' = failed \ {g} /\ g \in Jobs
      /\ tracked' = [Left EXCEPT ![s] = @ \cup {g}]
      /\ UNCHANGED <<image, lost, segments>>
  BY RedispatchFacts DEF Left, g, s
<1>3. UNCHANGED <<current, workload, order>> /\ s \in Slots
      /\ s = <<Answered.host, Answered.pipe>>
  BY <1>1, AnswerFacts, AnsweredFacts DEF s
<1>4. /\ <<GivenLetter.host, GivenLetter.pipe>> = s
      /\ GivenLetter.off = g.off /\ JobOf(GivenLetter) = g
  BY <1>2 DEF GivenLetter, Letter, GivenEntry, JobOf, Jobs, g, s, Base!AnswerSlot, Host
<1> HIDE DEF JobOf
<1>5. Base!Shipped' = Base!Shipped
  BY <1>2, ShippedSame
<1>6. \A l \in Mail' : (l \in Mail /\ ~Same(l, Answered)) \/ l = GivenLetter
  BY RedispatchMail
<1>7. Planned' = Planned
  BY <1>3 DEF Planned, Handed, ChunkAt
<1>8. /\ \A r \in Slots : Left[r] \subseteq tracked[r]
      /\ \A r \in Slots : \A x \in tracked[r] : x \in Left[r] \/ x = JobOf(Answered)
      /\ JobOf(Answered).cnt # 0 => JobOf(Answered) \in Base!Shipped
      /\ \A l \in Mail : ~Same(l, Answered) =>
             /\ JobOf(l) \in Left[<<l.host, l.pipe>>]
             /\ <<l.host, l.pipe>> \in Slots
             /\ JobOf(l) \in Planned /\ l.off = JobOf(l).off
  BY <1>1, AnswerJobs
<1>9. \A r \in Slots : tracked'[r] = IF r = s THEN Left[s] \cup {g} ELSE Left[r]
  <2>1. DOMAIN Left = Slots
    BY DEF Left, Untracked, TypeInv, TrackerTypeOK
  <2> QED
    BY <1>2, <1>3, <2>1
<1>10. /\ \A r \in Slots : g \notin tracked[r] /\ g \notin Left[r]
       /\ g \in Planned
  BY <1>2, <1>8, KnownJobs DEF JobInv
<1>11. \A x : (\E r \in Slots : x \in tracked'[r]) <=> (\E r \in Slots : x \in Left[r]) \/ x = g
  BY <1>3, <1>9
<1>12. Base!Known' \subseteq Planned'
  BY <1>2, <1>5, <1>7, <1>8, <1>11, KnownJobs DEF JobInv
<1>13. \A j \in Planned' : j.cnt # 0 => j \in Base!Known'
  BY <1>2, <1>5, <1>7, <1>8, <1>11, KnownJobs DEF JobInv
<1>14. \A r \in Slots : tracked'[r] \cap failed' = {}
  <2>1. \A r \in Slots : tracked[r] \cap failed = {}
    BY DEF JobInv
  <2> QED
    BY <1>2, <1>8, <1>9, <2>1
<1>15. \A q, r \in Slots : q # r => tracked'[q] \cap tracked'[r] = {}
  <2>1. \A q, r \in Slots : q # r => tracked[q] \cap tracked[r] = {}
    BY DEF JobInv
  <2> QED
    BY <1>8, <1>9, <1>10, <2>1
<1>16. \A l \in Mail : ~Same(l, Answered) /\ <<l.host, l.pipe>> = s => l.off # g.off
  BY <1>3, <1>8, <1>10, ChunkFacts
<1>17. \A l, k \in Mail' : l.host = k.host /\ l.pipe = k.pipe /\ l.off = k.off => l = k
  <2> SUFFICES ASSUME NEW l \in Mail', NEW k \in Mail',
                      l.host = k.host /\ l.pipe = k.pipe /\ l.off = k.off
               PROVE  l = k
    OBVIOUS
  <2>1. CASE l = GivenLetter /\ k # GivenLetter
    BY <1>4, <1>6, <1>16, <2>1
  <2>2. CASE k = GivenLetter /\ l # GivenLetter
    BY <1>4, <1>6, <1>16, <2>2
  <2>3. CASE l # GivenLetter /\ k # GivenLetter
    BY <1>6, <2>3 DEF JobInv
  <2> QED
    BY <2>1, <2>2, <2>3
<1>18. \A l \in Mail' : JobOf(l) \in tracked'[<<l.host, l.pipe>>]
  <2> SUFFICES ASSUME NEW l \in Mail' PROVE JobOf(l) \in tracked'[<<l.host, l.pipe>>]
    OBVIOUS
  <2>1. CASE l = GivenLetter
    BY <1>3, <1>4, <1>9, <2>1
  <2>2. CASE l \in Mail /\ ~Same(l, Answered)
    <3>1. JobOf(l) \in Left[<<l.host, l.pipe>>] /\ <<l.host, l.pipe>> \in Slots
      BY <1>8, <2>2
    <3> QED
      BY <1>9, <3>1
  <2> QED
    BY <1>6, <2>1, <2>2
<1> QED
  BY <1>12, <1>13, <1>14, <1>15, <1>17, <1>18 DEF JobInv, JobOf

LEMMA JobStep ==
    ASSUME TypeInv, TypeInv', OrderInv, TagInv, CountInv, PlanInv, ShipInv, JobInv, [Next]_vars
    PROVE  JobInv'
<1>1. CASE Calm /\ SamePlan /\ SameJobs
  <2>1. Planned' = Planned
    BY <1>1 DEF SamePlan, Planned, Handed, ChunkAt
  <2>2. Base!Known' = Base!Known
    BY <1>1 DEF Base!Known, SameJobs
  <2> QED
    BY <1>1, <2>1, <2>2, JobsStay DEF SameJobs, Calm
<1>2. CASE Calm /\ SamePlan /\ \E s \in Slots : Ships(s)
  BY <1>2, ShipJobs
<1>3. CASE Calm /\ SamePlan /\ Base!HandleException /\ UNCHANGED planVars
  <2> HIDE DEF planVars
  <2> QED
    BY <1>3, ExceptionJobs
<1>4. CASE Calm /\ SameJobs /\ AcceptScene
  BY <1>4, AcceptJobs
<1>5. CASE KickOffAssign
  BY <1>5, AssignJobs
<1>6. CASE AnswerThenRedispatch
  BY <1>6, RedispatchJobs
<1>7. CASE AnswerThenFinish \/ AnswerThenWait
  BY <1>7, DoneJobs
<1>8. Once
  BY DEF TagInv
<1> HIDE DEF planVars
<1> QED
  BY <1>1, <1>2, <1>3, <1>4, <1>5, <1>6, <1>7, <1>8, StepKinds
-----------------------------------------------------------------------------
(* The end of the scene                                                    *)

Tracked == UNION {tracked[s] : s \in Slots}

\* Every job that is tracked is counted; no job is left before the scene is
\* accepted and after it is finished.
DoneInv ==
    IF scene = "running" THEN Cardinality(Tracked) <= pending
    ELSE failed = {} /\ Tracked = {}

LEMMA TrackedIs ==
    /\ \A x : x \in Tracked <=> \E s \in Slots : x \in tracked[s]
    /\ \A x : x \in Tracked' <=> \E s \in Slots : x \in tracked'[s]
  BY DEF Tracked

\* What is tracked can be counted.
LEMMA TrackedFinite ==
    ASSUME TypeInv, CountInv, PlanInv, JobInv
    PROVE  /\ IsFiniteSet(Tracked)
           /\ \A S : S \subseteq Tracked =>
                  IsFiniteSet(S) /\ Cardinality(S) \in Nat /\ Cardinality(S) <= Cardinality(Tracked)
<1>1. IsFiniteSet(Planned)
  <2> DEFINE f == [k \in 1 .. Handed |-> ChunkAt(order[k])]
  <2>1. Handed \in Nat
    BY ChunkFacts
  <2>2. IsFiniteSet(1 .. Handed)
    BY <2>1, FS_Interval
  <2>3. f \in Surjection(1 .. Handed, Planned)
    BY DEF Surjection, Planned
  <2> QED
    BY <2>2, <2>3, FS_Surjection
<1>2. Tracked \subseteq Planned
  BY TrackedIs, KnownJobs DEF JobInv
<1>3. IsFiniteSet(Tracked)
  BY <1>1, <1>2, FS_Subset
<1> QED
  BY <1>3, FS_Subset, FS_CardinalityType

\* Counting with one more, and with one less.
LEMMA OneMore ==
    ASSUME NEW S, IsFiniteSet(S), NEW x, NEW n \in Nat, Cardinality(S) <= n
    PROVE  \A T : T \subseteq S \cup {x} =>
               IsFiniteSet(T) /\ Cardinality(T) \in Nat /\ Cardinality(T) <= n + 1
<1>1. Cardinality(S) \in Nat
  BY FS_CardinalityType
<1>2. IsFiniteSet(S \cup {x}) /\ Cardinality(S \cup {x}) \in Nat
  BY FS_AddElement, FS_CardinalityType
<1>3. \/ Cardinality(S \cup {x}) = Cardinality(S)
      \/ Cardinality(S \cup {x}) = Cardinality(S) + 1
  <2>1. CASE x \in S
    BY <2>1, FS_AddElement
  <2>2. CASE x \notin S
    BY <2>2, FS_AddElement
  <2> QED
    BY <2>1, <2>2
<1> DEFINE c == Cardinality(S)
           d == Cardinality(S \cup {x})
<1>4. d <= n + 1
  <2>1. c \in Nat /\ d \in Nat /\ c <= n /\ (d = c \/ d = c + 1)
    BY <1>1, <1>2, <1>3
  <2> HIDE DEF c, d
  <2> QED
    BY <2>1
<1>5. ASSUME NEW T, T \subseteq S \cup {x}
      PROVE  IsFiniteSet(T) /\ Cardinality(T) \in Nat /\ Cardinality(T) <= n + 1
  <2>1. IsFiniteSet(T) /\ Cardinality(T) \in Nat /\ Cardinality(T) <= d
    BY <1>2, <1>5, FS_Subset, FS_CardinalityType
  <2>2. d \in Nat
    BY <1>2
  <2> HIDE DEF d
  <2> QED
    BY <1>4, <2>1, <2>2
<1> QED
  BY <1>5

LEMMA OneLess ==
    ASSUME NEW S, IsFiniteSet(S), NEW x \in S, NEW n \in Nat, Cardinality(S) <= n
    PROVE  /\ n # 0
           /\ \A T : T \subseteq S \ {x} =>
                  IsFiniteSet(T) /\ Cardinality(T) \in Nat /\ Cardinality(T) <= n - 1
<1> DEFINE c == Cardinality(S)
           d == Cardinality(S \ {x})
<1>1. IsFiniteSet(S \ {x}) /\ d = c - 1 /\ c \in Nat /\ d \in Nat
  BY FS_RemoveElement, FS_CardinalityType
<1>2. n # 0 /\ d <= n - 1
  <2>1. c <= n
    OBVIOUS
  <2> HIDE DEF c, d
  <2> QED
    BY <1>1, <2>1
<1>3. ASSUME NEW T, T \subseteq S \ {x}
      PROVE  IsFiniteSet(T) /\ Cardinality(T) \in Nat /\ Cardinality(T) <= n - 1
  <2>1. IsFiniteSet(T) /\ Cardinality(T) \in Nat /\ Cardinality(T) <= d
    BY <1>1, <1>3, FS_Subset, FS_CardinalityType
  <2> HIDE DEF c, d
  <2> QED
    BY <1>1, <1>2, <2>1
<1> QED
  BY <1>2, <1>3

LEMMA PendingIs == TypeInv => pending \in Nat
<1> SUFFICES ASSUME TypeInv PROVE pending \in Nat
  OBVIOUS
<1>1. pending \in 0 .. UIntMod - 1
  BY DEF TypeInv, CountsOK
<1> QED
  BY <1>1, TrackerAssumption

LEMMA DoneInit == Init => DoneInv
<1> SUFFICES ASSUME Init PROVE DoneInv
  OBVIOUS
<1>1. scene = "none" /\ failed = {} /\ tracked = [s \in Slots |-> {}]
  BY BaseSame DEF Init, Base!Init, Base!TrackerInit
<1> QED
  BY <1>1, TrackedIs DEF DoneInv

LEMMA DoneStep ==
    ASSUME TypeInv, TypeInv', TagInv, CountInv, PlanInv, ShipInv, JobInv, JobInv', DoneInv,
           [Next]_vars
    PROVE  DoneInv'
<1>1. CASE SamePlan /\ UNCHANGED <<tracked, failed>>
  <2>1. Tracked' = Tracked
    BY <1>1 DEF Tracked
  <2> QED
    BY <1>1, <2>1 DEF SamePlan, DoneInv
<1>2. CASE SamePlan /\ Base!HandleException /\ UNCHANGED planVars
  <2>1. /\ Accepted /\ scene' = scene /\ pending' = pending /\ Host \in Hosts
        /\ \/ /\ failed' = WithFailed(failed, JobsOf(Host))
              /\ tracked' = [s \in Slots |-> IF s[1] = Host THEN {} ELSE tracked[s]]
           \/ UNCHANGED <<failed, tracked>>
    BY <1>2, HandleExceptionFacts
  <2>2. Tracked' \subseteq Tracked
    <3>1. \A s \in Slots : tracked'[s] \subseteq tracked[s]
      BY <2>1
    <3> QED
      BY <3>1, TrackedIs
  <2>3. CASE scene = "running"
    <3>1. /\ Cardinality(Tracked') <= Cardinality(Tracked) /\ Cardinality(Tracked') \in Nat
          /\ Cardinality(Tracked) \in Nat /\ pending \in Nat /\ Cardinality(Tracked) <= pending
      <4>1. pending \in Nat
        BY PendingIs
      <4>2. Cardinality(Tracked) <= pending
        BY <2>3 DEF DoneInv
      <4>3. Cardinality(Tracked) \in Nat
        BY TrackedFinite
      <4> QED
        BY <2>2, <4>1, <4>2, <4>3, TrackedFinite
    <3> QED
      BY <2>1, <2>3, <3>1 DEF DoneInv
  <2>4. CASE scene # "running"
    <3>1. failed = {} /\ Tracked = {}
      BY <2>4 DEF DoneInv
    <3>2. JobsOf(Host) = {}
      <4>1. \A p \in Pipelines(Host) : tracked[<<Host, p>>] = {}
        BY <2>1, <3>1, TrackedIs, SlotFacts
      <4> QED
        BY <4>1 DEF JobsOf
    <3>3. failed' = {}
      BY <2>1, <3>1, <3>2 DEF WithFailed
    <3> QED
      BY <2>1, <2>2, <2>4, <3>1, <3>3 DEF DoneInv
  <2> QED
    BY <2>3, <2>4
<1>3. CASE SameJobs /\ AcceptScene
  <2>1. /\ scene = "none" /\ scene' = "running" /\ pending' = 0
    BY <1>3, AcceptFacts
  <2>2. Tracked' = {}
    BY <1>3, <2>1 DEF DoneInv, SameJobs, Tracked
  <2> QED
    BY <2>1, <2>2, FS_EmptySet DEF DoneInv
<1>4. CASE KickOffAssign
  <2>1. /\ pc = "assign" /\ ThisSlot \in Slots
        /\ tracked' = [tracked EXCEPT ![ThisSlot] = @ \cup {NextJob}]
        /\ pending' = (pending + 1) % UIntMod /\ scene' = scene
        /\ NextChunk = Handed + 1 /\ NextChunk \in 1 .. Len(order)
    BY <1>4, AssignFacts
  <2>2. scene = "running"
    BY <2>1 DEF TypeInv, LifeOK
  <2>3. pending' = pending + 1 /\ pending \in Nat
    <3>1. pending \in Nat
      BY PendingIs
    <3>2. Handed \in Nat /\ Len(order) \in Nat
      BY ChunkFacts
    <3>3. Len(order) < UIntMod /\ pending <= Handed /\ UIntMod \in Nat
      BY TrackerAssumption DEF CountInv
    <3>4. pending + 1 < UIntMod /\ Handed + 1 <= Len(order)
      BY <2>1, <3>1, <3>2, <3>3
    <3> QED
      BY <2>1, <3>1, <3>3, <3>4
  <2>4. Tracked' \subseteq Tracked \cup {NextJob}
    <3>1. \A s \in Slots : tracked'[s] \subseteq tracked[s] \cup {NextJob}
      BY <2>1
    <3> QED
      BY <3>1, TrackedIs
  <2>5. /\ IsFiniteSet(Tracked) /\ Cardinality(Tracked) \in Nat /\ Cardinality(Tracked) <= pending
    BY <2>2, TrackedFinite DEF DoneInv
  <2>6. Cardinality(Tracked') <= pending + 1
    BY <2>3, <2>4, <2>5, OneMore
  <2> QED
    BY <2>1, <2>2, <2>3, <2>6 DEF DoneInv
<1>5. ASSUME HandleAnswer
      PROVE  /\ scene = "running" /\ PendingAfter = pending - 1 /\ pending \in Nat \ {0}
             /\ (PendingAfter + 1) % UIntMod = pending
             /\ \A S : S \subseteq Tracked \ {JobOf(Answered)} =>
                    IsFiniteSet(S) /\ Cardinality(S) \in Nat /\ Cardinality(S) <= pending - 1
             /\ \A s \in Slots : Left[s] \subseteq Tracked \ {JobOf(Answered)}
  <2> DEFINE j == JobOf(Answered)
             T == Tracked
  <2>1. /\ scene = "running" /\ PendingAfter = pending - 1 /\ pending \in Nat \ {0}
        /\ (PendingAfter + 1) % UIntMod = pending
    BY <1>5, AnswerCounted
  <2>2. j \in T /\ \A s \in Slots : Left[s] \subseteq T \ {j}
    BY <1>5, AnswerJobs, TrackedIs
  <2>3. IsFiniteSet(T) /\ Cardinality(T) \in Nat /\ Cardinality(T) <= pending
    BY <2>1, TrackedFinite DEF DoneInv
  <2> HIDE DEF j, T
  <2>4. \A S : S \subseteq T \ {j} =>
            IsFiniteSet(S) /\ Cardinality(S) \in Nat /\ Cardinality(S) <= pending - 1
    <3>1. pending \in Nat
      BY <2>1
    <3> QED
      BY <2>2, <2>3, <3>1, OneLess
  <2> QED
    BY <2>1, <2>2, <2>4 DEF j, T
<1>6. CASE AnswerThenFinish \/ AnswerThenWait
  <2>1. /\ HandleAnswer /\ NotifyJobDone(Base!AnswerSlot, Head(msgQ).off)
        /\ failed' = failed /\ failed = {} /\ pending' = PendingAfter
        /\ \/ scene' = scene
           \/ scene' = "finished" /\ PendingAfter = 0
    BY <1>6, WaitFacts, FinishFacts DEF Ends
  <2>2. Tracked' \subseteq Tracked \ {JobOf(Answered)}
    <3>1. tracked' = Left
      BY <2>1 DEF NotifyJobDone, Left
    <3> QED
      BY <1>5, <2>1, <3>1, TrackedIs
  <2>3. /\ IsFiniteSet(Tracked') /\ Cardinality(Tracked') \in Nat
        /\ Cardinality(Tracked') <= pending - 1
        /\ PendingAfter = pending - 1 /\ scene = "running"
    BY <1>5, <2>1, <2>2
  <2>4. CASE scene' = scene
    BY <2>1, <2>3, <2>4 DEF DoneInv
  <2>5. CASE scene' = "finished" /\ PendingAfter = 0
    <3>1. Cardinality(Tracked') = 0
      BY <2>3, <2>5
    <3> QED
      BY <2>1, <2>3, <2>5, <3>1, FS_EmptySet DEF DoneInv
  <2> QED
    BY <2>1, <2>4, <2>5
<1>7. CASE AnswerThenRedispatch
  <2>1. HandleAnswer
    BY <1>7, RedispatchFacts
  <2> DEFINE s == Base!AnswerSlot
  <2>2. /\ tracked' = [Left EXCEPT ![s] = @ \cup {GivenJob}]
        /\ pending' = (PendingAfter + 1) % UIntMod /\ scene' = scene
    BY <1>7, RedispatchFacts DEF Left
  <2> HIDE DEF s, GivenJob
  <2> DEFINE U == UNION {Left[r] : r \in Slots}
  <2>3. U \subseteq Tracked \ {JobOf(Answered)}
    BY <1>5, <2>1
  <2>4. Tracked' \subseteq U \cup {GivenJob}
    <3>1. DOMAIN Left = Slots
      BY DEF Left, Untracked, TypeInv, TrackerTypeOK
    <3>2. \A r \in Slots : tracked'[r] \subseteq Left[r] \cup {GivenJob}
      BY <2>2, <3>1
    <3>3. \A r \in Slots : Left[r] \subseteq U
      OBVIOUS
    <3> HIDE DEF U
    <3> QED
      BY <3>2, <3>3, TrackedIs
  <2> HIDE DEF U
  <2>5. /\ IsFiniteSet(U) /\ Cardinality(U) \in Nat /\ Cardinality(U) <= pending - 1
        /\ pending \in Nat \ {0} /\ scene = "running" /\ pending' = pending
    BY <1>5, <2>1, <2>2, <2>3
  <2>6. pending - 1 \in Nat /\ (pending - 1) + 1 = pending
    BY <2>5
  <2> DEFINE n == pending - 1
  <2> HIDE DEF n
  <2>7. n \in Nat /\ Cardinality(U) <= n /\ n + 1 = pending
    BY <2>5, <2>6 DEF n
  <2>8. Cardinality(Tracked') <= n + 1
    BY <2>4, <2>5, <2>7, OneMore
  <2> QED
    BY <2>2, <2>5, <2>7, <2>8 DEF DoneInv
<1>8. Once
  BY DEF TagInv
<1> HIDE DEF planVars
<1> QED
  BY <1>1, <1>2, <1>3, <1>4, <1>6, <1>7, <1>8, StepKinds DEF SameJobs, Ships

-----------------------------------------------------------------------------
(* The walk over the workers                                               *)

\* A pipeline is counted from its registration until its failure is noted.
CountedSlots ==
    {s \in Slots : s[1] \in Listed /\ link[s[1]] \in {"up", "crashed", "reported"}}

ListedSlots == {s \in Slots : s[1] \in Listed}

PipesOf(h) == {s \in Slots : s[1] = h}

\* The pipelines that have their requests, or have them in the message under
\* construction.
Walked ==
    {s \in Slots : \E i \in DOMAIN hostWorkers :
        hostWorkers[i] = s[1] /\ (i < pos.index \/ (i = pos.index /\ s[2] < Len(batch)))}

\* What a counter shows that has wrapped.
Congruent(t, c) == \E m \in Int : t + m * UIntMod = c

\* The number of chunks is that of the pipelines that are listed, as long as the
\* counter has not wrapped, and then smaller: every chunk finds a pipeline.
WalkInv ==
    /\ scene = "none" => Congruent(total, Cardinality(CountedSlots))
    /\ pc # "idle" => /\ pos.index <= Len(hostWorkers) + 1
                      /\ Len(order) <= Cardinality(ListedSlots)
                      /\ Cardinality(Walked) <= Handed
    /\ Accepted => order # <<>>
    /\ ack = "accepted" => Handed = Len(order) \/ current >= NumPixels

LEMMA SlotsFinite ==
    /\ \A S : S \subseteq Slots => IsFiniteSet(S) /\ Cardinality(S) \in Nat
    /\ \A S, T : S \subseteq T /\ T \subseteq Slots => Cardinality(S) <= Cardinality(T)
    /\ \A h \in Hosts : Cardinality(PipesOf(h)) = NumPipelines[h]
<1>1. \A h \in Hosts : /\ IsFiniteSet(PipesOf(h))
                       /\ Cardinality(PipesOf(h)) = NumPipelines[h]
  <2> TAKE h \in Hosts
  <2> DEFINE f == [p \in Pipelines(h) |-> <<h, p>>]
             n == NumPipelines[h]
  <2>1. n \in Nat \ {0}
    BY SlotFacts
  <2>2. IsFiniteSet(Pipelines(h)) /\ Cardinality(Pipelines(h)) = n
    <3>1. 0 \in Int /\ n - 1 \in Int /\ ~(0 > n - 1) /\ (n - 1) - 0 + 1 = n
      BY <2>1
    <3>2. Pipelines(h) = 0 .. n - 1
      BY DEF Pipelines
    <3> HIDE DEF n
    <3> QED
      BY <3>1, <3>2, FS_Interval
  <2>3. f \in Bijection(Pipelines(h), PipesOf(h))
    <3>1. \A p \in Pipelines(h) : <<h, p>> \in PipesOf(h)
      BY SlotFacts DEF PipesOf
    <3>2. \A s \in PipesOf(h) : s[2] \in Pipelines(h) /\ s = <<h, s[2]>>
      BY SlotFacts DEF PipesOf
    <3>3. f \in Injection(Pipelines(h), PipesOf(h))
      BY <3>1 DEF Injection, IsInjective
    <3>4. f \in Surjection(Pipelines(h), PipesOf(h))
      BY <3>1, <3>2 DEF Surjection
    <3> QED
      BY <3>3, <3>4 DEF Bijection
  <2> HIDE DEF f, n
  <2>4. /\ IsFiniteSet(PipesOf(h))
        /\ Cardinality(PipesOf(h)) = Cardinality(Pipelines(h))
    <3>1. ExistsBijection(Pipelines(h), PipesOf(h))
      BY <2>3 DEF ExistsBijection
    <3> QED
      BY <2>2, <3>1, FS_Bijection
  <2> QED
    BY <2>2, <2>4 DEF n
<1>2. IsFiniteSet(Slots)
  <2> DEFINE P == {PipesOf(h) : h \in Hosts}
             g == [h \in Hosts |-> PipesOf(h)]
  <2>1. g \in Surjection(Hosts, P)
    BY DEF Surjection
  <2>2. IsFiniteSet(P)
    BY <2>1, LinkAssumption, FS_Surjection
  <2>3. \A T \in P : IsFiniteSet(T)
    BY <1>1
  <2>4. Slots = UNION P
    <3>1. \A s \in Slots : s \in PipesOf(s[1]) /\ s[1] \in Hosts
      BY SlotFacts DEF PipesOf
    <3> QED
      BY <3>1 DEF PipesOf
  <2> HIDE DEF P
  <2> QED
    BY <2>2, <2>3, <2>4, FS_UNION
<1>3. ASSUME NEW S, S \subseteq Slots PROVE IsFiniteSet(S) /\ Cardinality(S) \in Nat
  BY <1>2, <1>3, FS_Subset, FS_CardinalityType
<1>4. ASSUME NEW S, NEW T, S \subseteq T, T \subseteq Slots
      PROVE  Cardinality(S) <= Cardinality(T)
  BY <1>3, <1>4, FS_Subset
<1> QED
  BY <1>1, <1>3, <1>4

\* Adding and taking away n keeps what differs by a multiple of UIntMod.
LEMMA Wraps ==
    ASSUME NEW t \in Int, NEW c \in Int, NEW n \in Int, NEW r, r = (t + n) % UIntMod,
           NEW d, d = c + n, Congruent(t, c)
    PROVE  Congruent(r, d)
<1> DEFINE u == UIntMod
           a == t + n
           q == a \div u
<1>1. u \in Nat \ {0}
  BY TrackerAssumption
<1>2. a \in Int /\ q \in Int /\ r \in Int /\ a = u * q + r
  BY <1>1
<1>3. PICK m \in Int : t + m * u = c
  BY DEF Congruent
<1>4. t + n = u * q + r
  BY <1>2
<1> HIDE DEF u, a, q
<1>5. (q + m) * u = u * q + m * u /\ q + m \in Int
  BY <1>1, <1>2
<1> DEFINE x == u * q
           y == m * u
           z == (q + m) * u
<1>6. x \in Int /\ y \in Int /\ z = x + y /\ t + n = x + r /\ t + y = c
  BY <1>1, <1>2, <1>3, <1>4, <1>5
<1> HIDE DEF x, y
<1>7. r + z = d
  <2> HIDE DEF z
  <2> QED
    BY <1>2, <1>6
<1> QED
  BY <1>5, <1>7 DEF Congruent, u

Counting == {"up", "crashed", "reported"}

\* The kick-off stands still, and so does the tracker's count.
WalkQuiet ==
    /\ UNCHANGED <<hostWorkers, total, scene, ack, pc, pos, order, batch, current, workload>>
    /\ \A h \in Hosts : link'[h] \in Counting <=> link[h] \in Counting

\* The kick-off is over, or will not take place.
WalkOver ==
    /\ pc = "idle" /\ pc' = "idle" /\ scene' # "none" /\ (Accepted' => Accepted)
    /\ UNCHANGED <<order, current, workload>> /\ (ack' = "accepted" => ack = "accepted")

LEMMA WalkKinds ==
    ASSUME TypeInv, TypeInv', [Next]_vars
    PROVE  \/ WalkQuiet \/ WalkOver
           \/ AcceptScene \/ KickOffFind \/ KickOffAssign \/ KickOffSend \/ KickOffEnd
           \/ \E h \in Hosts : UNCHANGED planVars /\ (Base!RegisterWorker(h) \/ Base!NoteFailure(h))
<1>1. ASSUME MasterKept, link' = link \/ \E h \in Hosts : link[h] = "up"
                                               /\ link' = [link EXCEPT ![h] = "crashed"]
      PROVE  WalkQuiet
  <2>1. \A h \in Hosts : link'[h] \in Counting <=> link[h] \in Counting
    <3>1. CASE link' = link
      BY <3>1
    <3>2. CASE \E h \in Hosts : link[h] = "up" /\ link' = [link EXCEPT ![h] = "crashed"]
      BY <3>2 DEF TypeInv, LinksOK, Counting
    <3> QED
      BY <1>1, <3>1, <3>2
  <2>2. UNCHANGED <<hostWorkers, total, scene, ack, pc, pos, order, batch, current, workload>>
    BY <1>1 DEF MasterKept
  <2> QED
    BY <2>1, <2>2 DEF WalkQuiet
<1>2. CASE AnswerThenRedispatch \/ AnswerThenFinish \/ AnswerThenWait
  <2>1. /\ HandleAnswer /\ ack' = ack /\ (scene' = scene \/ scene' = "finished")
    BY <1>2, RedispatchFacts, FinishFacts, WaitFacts
  <2>2. pc = "idle" /\ Accepted /\ UNCHANGED <<pc, order, current, workload>>
    BY <2>1, AnswerFacts
  <2> QED
    BY <2>1, <2>2 DEF WalkOver, Accepted
<1>3. CASE DyingStep
  <2>1. Dying
    BY <1>3, DyingFacts DEF DyingStep
  <2> QED
    BY <2>1 DEF Dying, WalkQuiet
<1>4. CASE UNCHANGED vars
  BY <1>4 DEF vars, Base!vars, Base!linkVars, Base!trackerVars, WalkQuiet
<1>5. ASSUME PlanKept
      PROVE  \/ WalkQuiet \/ WalkOver
             \/ \E h \in Hosts : UNCHANGED planVars /\ (Base!RegisterWorker(h) \/ Base!NoteFailure(h))
  <2>0. UNCHANGED planVars
    BY <1>5 DEF PlanKept
  <2>1. CASE Base!RejectScene
    <3>1. Rejecting /\ pc = "idle"
      BY <2>0, <2>1, RejectFacts DEF Base!RejectScene
    <3> QED
      BY <3>1 DEF Rejecting, WalkOver, Accepted
  <2>2. CASE Base!HandleException
    <3>1. /\ pc = "idle" /\ Accepted /\ UNCHANGED <<scene, ack, pc, order, current, workload>>
      BY <2>0, <2>2, HandleExceptionFacts
    <3> QED
      BY <3>1 DEF WalkOver, Accepted
  <2>3. CASE Base!HandleDetachedAnswer
    <3>1. UNCHANGED <<trackerVars, linkVars, jobVars, pc, pos, sceneVars, planVars>>
      BY <2>0, <2>3, DetachedAnswerFacts
    <3> QED
      BY <3>1 DEF WalkQuiet
  <2>4. CASE Base!HandleDetachedException
    <3>1. /\ pc = "idle" /\ Accepted /\ UNCHANGED <<scene, ack, pc, order, current, workload>>
      BY <2>0, <2>4, DetachedExceptionFacts
    <3> QED
      BY <3>1 DEF WalkOver, Accepted
  <2>5. ASSUME NEW h \in Hosts, ThreadStep(h)
        PROVE  WalkQuiet \/ Base!RegisterWorker(h) \/ Base!NoteFailure(h)
    <3>1. CASE Base!Receive(h)
      BY <2>0, <3>1, ReceiveFacts DEF WalkQuiet
    <3>2. CASE Base!ReportException(h)
      <4>1. /\ link[h] = "crashed" /\ link' = [link EXCEPT ![h] = "reported"]
            /\ UNCHANGED <<trackerVars, jobVars, pc, pos, sceneVars, planVars>>
        BY <2>0, <3>2, ReportFacts
      <4>2. \A g \in Hosts : link'[g] \in Counting <=> link[g] \in Counting
        BY <4>1 DEF TypeInv, LinksOK, Counting
      <4> QED
        BY <4>1, <4>2 DEF WalkQuiet
    <3>3. CASE Base!CloseConnection(h)
      <4>1. /\ link[h] = "noted" /\ link' = [link EXCEPT ![h] = "closed"]
            /\ UNCHANGED <<trackerVars, jobVars, pc, pos, sceneVars, planVars>>
        BY <2>0, <3>3, CloseConnectionFacts
      <4>2. \A g \in Hosts : link'[g] \in Counting <=> link[g] \in Counting
        BY <4>1 DEF TypeInv, LinksOK, Counting
      <4> QED
        BY <4>1, <4>2 DEF WalkQuiet
    <3> QED
      BY <2>5, <3>1, <3>2, <3>3 DEF ThreadStep
  <2>6. ASSUME NEW h \in Hosts, Dies(h) PROVE WalkQuiet
    <3>1. /\ link[h] = "up" /\ link' = [link EXCEPT ![h] = "crashed"] /\ MasterKept
      BY <2>0, <2>6, PerishFacts DEF Dies
    <3> HIDE DEF MasterKept
    <3> QED
      BY <1>1, <3>1
  <2>7. ASSUME NEW h \in Hosts, Base!Client(h) PROVE WalkQuiet
    <3>1. link' = link /\ MasterKept
      BY <2>0, <2>7, DeliverFacts
    <3> QED
      BY <1>1, <3>1
  <2>8. ASSUME NEW s \in Slots, Base!Worker(s), Base!ShipSegment(s) \/ Base!Respond(s)
        PROVE  WalkQuiet
    <3>1. link' = link /\ MasterKept
      BY <2>0, <2>8, ShipFacts, RespondFacts
    <3> QED
      BY <1>1, <3>1
  <2> QED
    BY <1>5, <2>0, <2>1, <2>2, <2>3, <2>4, <2>5, <2>6, <2>7, <2>8 DEF PlanKept
<1> HIDE DEF planVars
<1> QED
  BY <1>2, <1>3, <1>4, <1>5, StepCases

LEMMA WalkInit == Init => WalkInv
<1> SUFFICES ASSUME Init PROVE WalkInv
  OBVIOUS
<1>1. /\ scene = "none" /\ total = 0 /\ hostWorkers = <<>> /\ pc = "idle" /\ ack = "none"
  BY BaseSame DEF Init, Base!Init, Base!TrackerInit
<1>2. CountedSlots = {}
  BY <1>1 DEF CountedSlots, Listed, Range
<1>3. Cardinality(CountedSlots) = 0
  BY <1>2, FS_EmptySet
<1>4. 0 + 0 * UIntMod = 0
  BY TrackerAssumption
<1>5. Congruent(total, Cardinality(CountedSlots))
  BY <1>1, <1>3, <1>4 DEF Congruent
<1> QED
  BY <1>1, <1>5 DEF WalkInv, Accepted

\* A worker registers, or its failure is noted.
LEMMA CountStaysRight ==
    ASSUME TypeInv, TypeInv', WalkInv, NEW h \in Hosts, UNCHANGED planVars,
           Base!RegisterWorker(h) \/ Base!NoteFailure(h)
    PROVE  scene = "none" => Congruent(total', Cardinality(CountedSlots'))
<1> SUFFICES ASSUME scene = "none" PROVE Congruent(total', Cardinality(CountedSlots'))
  OBVIOUS
<1> DEFINE n == NumPipelines[h]
           c == Cardinality(CountedSlots)
<1>1. /\ n \in Nat /\ total \in Int /\ UIntMod \in Nat \ {0} /\ c \in Nat
      /\ CountedSlots \subseteq Slots /\ CountedSlots' \subseteq Slots
      /\ PipesOf(h) \subseteq Slots /\ Cardinality(PipesOf(h)) = n
  <2>1. total \in 0 .. UIntMod - 1
    BY DEF TypeInv, TrackerTypeOK
  <2>2. total \in Int /\ UIntMod \in Nat \ {0}
    BY <2>1, TrackerAssumption
  <2>3. CountedSlots \subseteq Slots /\ CountedSlots' \subseteq Slots /\ PipesOf(h) \subseteq Slots
    BY DEF CountedSlots, PipesOf
  <2> QED
    BY <2>2, <2>3, SlotFacts, SlotsFinite
<1>2. Congruent(total, c)
  BY DEF WalkInv
<1>3. IsFiniteSet(CountedSlots) /\ IsFiniteSet(CountedSlots') /\ IsFiniteSet(PipesOf(h))
  BY <1>1, SlotsFinite
<1>4. CASE Base!RegisterWorker(h)
  <2>1. /\ link[h] = "absent" /\ link' = [link EXCEPT ![h] = "up"]
        /\ hostWorkers' = Append(hostWorkers, h)
        /\ total' = (total + n) % UIntMod
    BY <1>4, RegisterFacts
  <2>2. Listed' = Listed \cup {h}
    <3>1. hostWorkers \in Seq(Hosts)
      BY DEF TypeInv, TrackerTypeOK
    <3>2. \A x : x \in Listed' <=> \E i \in DOMAIN hostWorkers' : hostWorkers'[i] = x
      BY DEF Listed, Range
    <3>3. \A x : x \in Listed <=> \E i \in DOMAIN hostWorkers : hostWorkers[i] = x
      BY DEF Listed, Range
    <3>4. /\ \A i \in DOMAIN hostWorkers : i \in DOMAIN hostWorkers' /\ hostWorkers'[i] = hostWorkers[i]
          /\ \A i \in DOMAIN hostWorkers' : \/ i \in DOMAIN hostWorkers /\ hostWorkers'[i] = hostWorkers[i]
                                            \/ hostWorkers'[i] = h
          /\ \E i \in DOMAIN hostWorkers' : hostWorkers'[i] = h
      BY <2>1, <3>1, AppendFacts, AppendProperties, LenProperties
    <3> QED
      BY <3>2, <3>3, <3>4
  <2>3. CountedSlots' = CountedSlots \cup PipesOf(h) /\ CountedSlots \cap PipesOf(h) = {}
    <3>1. \A s \in Slots : s[1] \in Hosts
      BY SlotFacts
    <3>2. \A s \in Slots : link'[s[1]] = IF s[1] = h THEN "up" ELSE link[s[1]]
      BY <2>1, <3>1 DEF TypeInv, LinksOK
    <3> QED
      BY <2>1, <2>2, <3>2 DEF CountedSlots, PipesOf
  <2>4. Cardinality(CountedSlots') = c + n
    <3>1. Cardinality(CountedSlots \cap PipesOf(h)) = 0
      BY <2>3, FS_EmptySet
    <3>2. Cardinality(CountedSlots \cup PipesOf(h)) = c + n - 0
      BY <1>1, <1>3, <3>1, FS_Union
    <3> QED
      BY <1>1, <2>3, <3>2
  <2>5. c \in Int /\ n \in Int /\ total \in Int
    BY <1>1
  <2> HIDE DEF n, c
  <2> QED
    BY <1>2, <2>1, <2>4, <2>5, Wraps
<1>5. CASE Base!NoteFailure(h)
  <2>1. /\ link[h] = "reported" /\ NotifyHostFailure(h)
        /\ link' = [link EXCEPT ![h] = "noted"]
    BY <1>5, NoteFacts
  <2>2. /\ Listed' = Listed
        /\ total' = IF h \in Listed THEN (total - n) % UIntMod ELSE total
    BY <2>1 DEF NotifyHostFailure, Listed
  <2>3. \A s \in Slots : s \in CountedSlots' <=> s \in CountedSlots /\ s[1] # h
    <3>1. \A s \in Slots : s[1] \in Hosts
      BY SlotFacts
    <3>2. \A s \in Slots : link'[s[1]] = IF s[1] = h THEN "noted" ELSE link[s[1]]
      BY <2>1, <3>1 DEF TypeInv, LinksOK
    <3> QED
      BY <2>1, <2>2, <3>2 DEF CountedSlots
  <2>4. CASE h \in Listed
    <3>1. CountedSlots = CountedSlots' \cup PipesOf(h) /\ CountedSlots' \cap PipesOf(h) = {}
      <4>1. PipesOf(h) \subseteq CountedSlots
        BY <2>1, <2>4 DEF PipesOf, CountedSlots
      <4> QED
        BY <1>1, <2>3, <4>1 DEF PipesOf
    <3>2. c = Cardinality(CountedSlots') + n
      <4>1. Cardinality(CountedSlots' \cap PipesOf(h)) = 0
        BY <3>1, FS_EmptySet
      <4>2. Cardinality(CountedSlots' \cup PipesOf(h)) = Cardinality(CountedSlots') + n - 0
        BY <1>1, <1>3, <4>1, FS_Union
      <4>3. Cardinality(CountedSlots') \in Nat
        BY <1>1, SlotsFinite
      <4> QED
        BY <1>1, <3>1, <4>2, <4>3
    <3>3. Cardinality(CountedSlots') = c + (0 - n) /\ total - n = total + (0 - n) /\ 0 - n \in Int
      <4>1. Cardinality(CountedSlots') \in Nat
        BY <1>1, SlotsFinite
      <4> HIDE DEF c, n
      <4> QED
        BY <1>1, <3>2, <4>1
    <3>4. total' = (total + (0 - n)) % UIntMod
      BY <2>2, <2>4, <3>3
    <3>5. c \in Int /\ total \in Int
      BY <1>1
    <3> HIDE DEF n, c
    <3> DEFINE d == 0 - n
    <3>6. d \in Int /\ Cardinality(CountedSlots') = c + d /\ total' = (total + d) % UIntMod
      BY <3>3, <3>4
    <3> HIDE DEF d
    <3> QED
      BY <1>2, <3>5, <3>6, Wraps
  <2>5. CASE h \notin Listed
    <3>1. CountedSlots' = CountedSlots
      BY <1>1, <2>3, <2>5 DEF CountedSlots
    <3> QED
      BY <1>2, <2>2, <2>5, <3>1
  <2> QED
    BY <2>4, <2>5
<1> QED
  BY <1>4, <1>5
LEMMA WalkParts ==
    ASSUME TypeInv, WalkInv, UNCHANGED <<hostWorkers, order, current, workload>>
    PROVE  /\ ListedSlots' = ListedSlots /\ Handed' = Handed
           /\ Handed \in Nat /\ Len(order) \in Nat
           /\ Cardinality(ListedSlots) \in Nat /\ Cardinality(Walked) \in Nat
           /\ \A S : S \subseteq Slots => Cardinality(S) \in Nat
<1>1. ListedSlots' = ListedSlots
  BY DEF ListedSlots, Listed
<1>2. Handed' = Handed
  BY DEF Handed
<1>3. Handed \in Nat /\ Len(order) \in Nat
  BY LenProperties DEF TypeInv, ChunksOK
<1>4. ListedSlots \subseteq Slots /\ Walked \subseteq Slots
  BY DEF ListedSlots, Walked
<1> QED
  BY <1>1, <1>2, <1>3, <1>4, SlotsFinite

\* The scene is accepted: there are enough pipelines for all chunks.
LEMMA AcceptWalk ==
    ASSUME TypeInv, TypeInv', WalkInv, AcceptScene
    PROVE  WalkInv'
<1>1. /\ scene = "none" /\ total \in Nat \ {0} /\ scene' = "running" /\ current' = 0
      /\ workload' \in Nat \ {0} /\ pc = "idle" /\ pos'.index = 1 /\ batch' = batch
      /\ order' \in Orders(total) /\ hostWorkers' = hostWorkers /\ ack' = ack
  BY AcceptFacts
<1>2. Len(order') = total
  BY <1>1, OrdersType
<1>3. Cardinality(CountedSlots) \in Nat /\ Cardinality(ListedSlots) \in Nat
      /\ Cardinality(CountedSlots) <= Cardinality(ListedSlots)
  <2>1. CountedSlots \subseteq ListedSlots /\ ListedSlots \subseteq Slots
        /\ CountedSlots \subseteq Slots
    BY DEF CountedSlots, ListedSlots
  <2> QED
    BY <2>1, SlotsFinite
<1>4. total <= Cardinality(CountedSlots)
  <2> DEFINE c == Cardinality(CountedSlots)
             u == UIntMod
  <2>1. PICK m \in Int : total + m * u = c
    BY <1>1 DEF WalkInv, Congruent
  <2>2. total \in 0 .. u - 1 /\ u \in Nat \ {0}
    BY TrackerAssumption DEF TypeInv, TrackerTypeOK
  <2>3. total \in Nat /\ total < u /\ u \in Nat \ {0} /\ c \in Nat
    BY <1>3, <2>2
  <2>4. m < 0 => m * u <= 0 - u
    <3>1. m < 0 => (m + 1) * u <= 0 /\ (m + 1) * u = m * u + u
      BY <2>3
    <3> HIDE DEF u, c
    <3> QED
      BY <2>3, <3>1
  <2>5. m >= 0 => m * u >= 0
    BY <2>3
  <2> HIDE DEF c, u
  <2> DEFINE y == m * u
  <2>6. y \in Int /\ total + y = c /\ (m < 0 => y <= 0 - u) /\ (m >= 0 => y >= 0)
    BY <2>1, <2>3, <2>4, <2>5
  <2> HIDE DEF y
  <2>7. total <= c
    BY <2>3, <2>6
  <2> QED
    BY <2>7 DEF c
<1>5. ListedSlots' = ListedSlots
  BY <1>1 DEF ListedSlots, Listed
<1>6. Walked' = {}
  <2>1. batch' = <<>> /\ Len(batch') = 0
    BY <1>1, EmptySeq DEF TypeInv, PlaceOK
  <2>2. \A s \in Slots : s[2] \in Nat
    BY SlotFacts
  <2>3. \A i \in DOMAIN hostWorkers : i \in Nat \ {0}
    BY LenProperties DEF TypeInv, TrackerTypeOK
  <2>4. \A s \in Slots : \A i \in DOMAIN hostWorkers' :
            ~(i < pos'.index \/ (i = pos'.index /\ s[2] < Len(batch')))
    BY <1>1, <2>1, <2>2, <2>3
  <2> QED
    BY <2>4 DEF Walked
<1>7. Handed' = 0 /\ Cardinality(Walked') = 0
  BY <1>1, <1>6, NoMultiple, FS_EmptySet DEF Handed
<1>8. pos'.index <= Len(hostWorkers') + 1 /\ order' # <<>>
  <2>1. Len(hostWorkers') \in Nat
    BY <1>1, LenProperties DEF TypeInv, TrackerTypeOK
  <2> QED
    BY <1>1, <1>2, <2>1, EmptySeq
<1>9. ack' = "none"
  BY <1>1 DEF TypeInv, LifeOK
<1>10. Len(order') <= Cardinality(ListedSlots') /\ Cardinality(Walked') <= Handed'
  BY <1>1, <1>2, <1>3, <1>4, <1>5, <1>7
<1> QED
  BY <1>1, <1>8, <1>9, <1>10 DEF WalkInv

\* The next chunk goes to a pipeline that has none yet.
LEMMA AssignWalk ==
    ASSUME TypeInv, TypeInv', WalkInv, KickOffAssign
    PROVE  WalkInv'
<1>1. /\ pc = "assign" /\ ThisSlot \in Slots /\ Handed' = Handed + 1
      /\ batch' = Append(batch, NextEntry) /\ Len(batch) = pos.pipe
      /\ batch \in Seq([tag : Tags, off : Nat, cnt : Nat])
      /\ NextEntry \in [tag : Tags, off : Nat, cnt : Nat]
      /\ pos'.index = pos.index
      /\ UNCHANGED <<hostWorkers, workload, scene, ack, order>>
  BY AssignFacts
<1>2. scene = "running" /\ ack = "none" /\ Accepted /\ Accepted'
  BY <1>1 DEF TypeInv, LifeOK, Accepted
<1>3. Walked' \subseteq Walked \cup {ThisSlot}
  <2>1. Len(batch') = Len(batch) + 1 /\ Len(batch) \in Nat
    BY <1>1, AppendProperties, LenProperties
  <2>2. ASSUME NEW s \in Walked', s \notin Walked PROVE s = ThisSlot
    <3>1. s \in Slots /\ s[2] \in Nat /\ s = <<s[1], s[2]>>
      BY <2>2, SlotFacts DEF Walked
    <3>2. PICK i \in DOMAIN hostWorkers :
              hostWorkers[i] = s[1] /\ (i < pos.index \/ (i = pos.index /\ s[2] < Len(batch) + 1))
      BY <1>1, <2>1, <2>2 DEF Walked
    <3>3. i = pos.index /\ s[2] < Len(batch) + 1 /\ ~(s[2] < Len(batch))
      BY <2>2, <3>1, <3>2 DEF Walked
    <3>4. s[2] = pos.pipe
      BY <1>1, <2>1, <3>1, <3>3
    <3> QED
      BY <3>1, <3>2, <3>3, <3>4 DEF ThisSlot, ThisHost
  <2> QED
    BY <2>2
<1>4. Cardinality(Walked') <= Handed + 1
  <2>1. IsFiniteSet(Walked) /\ Handed \in Nat
    <3>1. Walked \subseteq Slots
      BY DEF Walked
    <3> QED
      BY <3>1, SlotsFinite DEF TypeInv, ChunksOK
  <2>2. Cardinality(Walked) <= Handed
    BY <1>1 DEF WalkInv
  <2> QED
    BY <1>3, <2>1, <2>2, OneMore
<1>5. ListedSlots' = ListedSlots
  BY <1>1 DEF ListedSlots, Listed
<1> QED
  BY <1>1, <1>2, <1>4, <1>5 DEF WalkInv

\* The next worker follows when all pipelines of this one have their requests.
LEMMA SendWalk ==
    ASSUME TypeInv, TypeInv', WalkInv, KickOffSend
    PROVE  WalkInv'
<1>1. /\ pc = "send" /\ pos.index \in DOMAIN hostWorkers /\ batch' = <<>>
      /\ \/ /\ current >= NumPixels /\ pc' = "idle" /\ ack' = "accepted"
         \/ /\ current < NumPixels /\ pc' = "find" /\ ack' = ack
            /\ pos'.index = pos.index + 1
            /\ Len(batch) = NumPipelines[ThisHost]
      /\ UNCHANGED <<hostWorkers, current, workload, order, scene>>
  BY SendFacts
<1>2. scene = "running" /\ ack = "none" /\ Accepted /\ Accepted'
  BY <1>1 DEF TypeInv, LifeOK, Accepted
<1>3. CASE pc' = "idle"
  <2>1. current' >= NumPixels
    BY <1>1, <1>3
  <2> QED
    BY <1>1, <1>2, <1>3, <2>1 DEF WalkInv
<1>4. CASE pc' = "find"
  <2>1. ack' = ack /\ pos'.index = pos.index + 1 /\ Len(batch) = NumPipelines[ThisHost]
    BY <1>1, <1>4
  <2>2. pos.index \in 1 .. Len(hostWorkers) /\ Len(hostWorkers) \in Nat
    BY <1>1, LenProperties DEF TypeInv, TrackerTypeOK
  <2>3. Walked' \subseteq Walked
    <3> SUFFICES ASSUME NEW s \in Walked' PROVE s \in Walked
      OBVIOUS
    <3>1. s \in Slots /\ s[2] \in Pipelines(s[1]) /\ s[2] \in Nat /\ s[1] \in Hosts
      BY SlotFacts DEF Walked
    <3>2. PICK i \in DOMAIN hostWorkers :
              /\ hostWorkers[i] = s[1]
              /\ i < pos.index + 1 \/ (i = pos.index + 1 /\ s[2] < Len(batch'))
      BY <1>1, <2>1 DEF Walked
    <3>3. Len(batch') = 0
      BY <1>1, EmptySeq
    <3>4. i < pos.index \/ i = pos.index
      <4>1. i \in Nat
        BY <3>2, LenProperties DEF TypeInv, TrackerTypeOK
      <4> QED
        BY <2>2, <3>1, <3>2, <3>3, <4>1
    <3>5. i = pos.index => s[2] < Len(batch)
      <4>1. i = pos.index => ThisHost = s[1]
        BY <3>2 DEF ThisHost
      <4>2. s[2] < NumPipelines[s[1]]
        BY <3>1, SlotFacts DEF Pipelines
      <4> QED
        BY <2>1, <4>1, <4>2
    <3> QED
      BY <3>1, <3>2, <3>4, <3>5 DEF Walked
  <2>4. Cardinality(Walked') <= Cardinality(Walked) /\ Cardinality(Walked') \in Nat
    <3>1. Walked \subseteq Slots /\ Walked' \subseteq Slots
      BY DEF Walked
    <3> QED
      BY <2>3, <3>1, SlotsFinite
  <2>5. /\ ListedSlots' = ListedSlots /\ Handed' = Handed /\ Handed \in Nat
        /\ Cardinality(Walked) \in Nat
    BY <1>1, WalkParts
  <2>6. Cardinality(Walked') <= Handed'
    BY <1>1, <2>4, <2>5 DEF WalkInv
  <2>7. pos'.index <= Len(hostWorkers') + 1
    BY <1>1, <2>1, <2>2
  <2> QED
    BY <1>1, <1>2, <2>1, <2>5, <2>6, <2>7 DEF WalkInv
<1> QED
  BY <1>1, <1>3, <1>4

\* All workers have been walked: all chunks have been handed out.
LEMMA EndWalk ==
    ASSUME TypeInv, TypeInv', CountInv, WalkInv, KickOffEnd
    PROVE  WalkInv'
<1>1. /\ pc = "find" /\ pos.index > Len(hostWorkers) /\ pc' = "idle"
      /\ UNCHANGED <<hostWorkers, current, workload, order, scene>>
  BY EndFacts
<1>2. scene = "running" /\ Accepted /\ Accepted'
  BY <1>1 DEF TypeInv, LifeOK, Accepted
<1>3. Walked = ListedSlots
  <2>1. \A i \in DOMAIN hostWorkers : i < pos.index
    <3>1. Len(hostWorkers) \in Nat /\ DOMAIN hostWorkers = 1 .. Len(hostWorkers)
          /\ pos.index \in Nat
      BY LenProperties DEF TypeInv, TrackerTypeOK, PlaceOK
    <3> QED
      BY <1>1, <3>1
  <2>2. \A s \in Slots : s[1] \in Listed <=> \E i \in DOMAIN hostWorkers : hostWorkers[i] = s[1]
    BY DEF Listed, Range
  <2> QED
    BY <2>1, <2>2 DEF Walked, ListedSlots
<1>4. Handed' = Handed /\ Handed \in Nat /\ Len(order) \in Nat
      /\ Cardinality(ListedSlots) \in Nat
  BY <1>1, WalkParts
<1>5. Handed = Len(order)
  <2>1. Handed <= Len(order)
    BY DEF CountInv
  <2>2. Len(order) <= Cardinality(ListedSlots) /\ Cardinality(ListedSlots) <= Handed
    BY <1>1, <1>3 DEF WalkInv
  <2> QED
    BY <1>4, <2>1, <2>2
<1> QED
  BY <1>1, <1>2, <1>4, <1>5 DEF WalkInv

\* A worker that registers during the walk stands behind all others.
LEMMA RegisterWalk ==
    ASSUME TypeInv, TypeInv', WalkInv, NEW h \in Hosts, UNCHANGED planVars, Base!RegisterWorker(h)
    PROVE  WalkInv'
<1>1. /\ hostWorkers' = Append(hostWorkers, h) /\ hostWorkers \in Seq(Hosts)
      /\ UNCHANGED <<scene, ack, pc, pos, order, batch, current, workload>>
  BY RegisterFacts DEF TypeInv, TrackerTypeOK
<1>2. scene = "none" => Congruent(total', Cardinality(CountedSlots'))
  BY CountStaysRight
<1>3. /\ Len(hostWorkers) \in Nat /\ Len(hostWorkers') = Len(hostWorkers) + 1
      /\ \A i \in DOMAIN hostWorkers : i \in DOMAIN hostWorkers' /\ hostWorkers'[i] = hostWorkers[i]
      /\ \A i \in DOMAIN hostWorkers' : \/ i \in DOMAIN hostWorkers /\ hostWorkers'[i] = hostWorkers[i]
                                        \/ i = Len(hostWorkers) + 1
  BY <1>1, AppendFacts, AppendProperties, LenProperties
<1>4. ASSUME pc # "idle"
      PROVE  /\ pos.index <= Len(hostWorkers') + 1
             /\ Len(order) <= Cardinality(ListedSlots')
             /\ Cardinality(Walked') <= Handed
  <2>1. /\ pos.index <= Len(hostWorkers) + 1 /\ Len(order) <= Cardinality(ListedSlots)
        /\ Cardinality(Walked) <= Handed
    BY <1>4 DEF WalkInv
  <2>2. pos.index \in Nat
    BY DEF TypeInv, PlaceOK
  <2>3. Walked' \subseteq Walked
    <3> SUFFICES ASSUME NEW s \in Walked' PROVE s \in Walked
      OBVIOUS
    <3>1. s \in Slots /\ s[2] \in Nat
      BY SlotFacts DEF Walked
    <3>2. PICK i \in DOMAIN hostWorkers' :
              hostWorkers'[i] = s[1] /\ (i < pos.index \/ (i = pos.index /\ s[2] < Len(batch)))
      BY <1>1 DEF Walked
    <3>3. CASE i \in DOMAIN hostWorkers
      BY <1>3, <3>1, <3>2, <3>3 DEF Walked
    <3>4. CASE i = Len(hostWorkers) + 1
      <4>1. pos.index = Len(hostWorkers) + 1 /\ s[2] < Len(batch)
        BY <1>3, <2>1, <2>2, <3>2, <3>4
      <4>2. pos.index \notin DOMAIN hostWorkers
        BY <1>1, <1>3, <4>1, LenProperties
      <4>3. batch = <<>>
        BY <4>2 DEF TypeInv, PlaceOK, LifeOK
      <4> QED
        BY <3>1, <4>1, <4>3, EmptySeq
    <3> QED
      BY <1>3, <3>2, <3>3, <3>4
  <2>4. Cardinality(Walked') <= Cardinality(Walked) /\ Cardinality(Walked') \in Nat
        /\ Cardinality(Walked) \in Nat
    <3>1. Walked \subseteq Slots /\ Walked' \subseteq Slots
      BY DEF Walked
    <3> QED
      BY <2>3, <3>1, SlotsFinite
  <2>5. /\ Cardinality(ListedSlots) <= Cardinality(ListedSlots')
        /\ Cardinality(ListedSlots) \in Nat /\ Cardinality(ListedSlots') \in Nat
    <3>1. Listed \subseteq Listed'
      BY <1>3 DEF Listed, Range
    <3>2. ListedSlots \subseteq ListedSlots' /\ ListedSlots' \subseteq Slots /\ ListedSlots \subseteq Slots
      BY <3>1 DEF ListedSlots
    <3> QED
      BY <3>2, SlotsFinite
  <2>6. Handed \in Nat /\ Len(order) \in Nat
    BY LenProperties DEF TypeInv, ChunksOK
  <2>7. pos.index <= Len(hostWorkers') + 1
    BY <1>3, <2>1, <2>2
  <2>8. Len(order) <= Cardinality(ListedSlots')
    BY <2>1, <2>5, <2>6
  <2>9. Cardinality(Walked') <= Handed
    BY <2>1, <2>4, <2>6
  <2> QED
    BY <2>7, <2>8, <2>9
<1>5. Handed' = Handed /\ Accepted' = Accepted
  BY <1>1 DEF Handed, Accepted
<1> QED
  BY <1>1, <1>2, <1>4, <1>5 DEF WalkInv

LEMMA WalkStep ==
    ASSUME TypeInv, TypeInv', CountInv, WalkInv, [Next]_vars
    PROVE  WalkInv'
<1>1. ASSUME UNCHANGED <<hostWorkers, scene, ack, pc, pos, order, batch, current, workload>>,
             scene = "none" => Congruent(total', Cardinality(CountedSlots'))
      PROVE  WalkInv'
  <2>1. ListedSlots' = ListedSlots /\ Handed' = Handed
    BY <1>1, WalkParts
  <2>2. Walked' = Walked /\ Accepted' = Accepted
    BY <1>1 DEF Walked, Accepted
  <2> QED
    BY <1>1, <2>1, <2>2 DEF WalkInv
<1>2. CASE WalkQuiet
  <2>1. CountedSlots' = CountedSlots
    <3>1. \A s \in Slots : s[1] \in Hosts
      BY SlotFacts
    <3> QED
      BY <1>2, <3>1 DEF CountedSlots, WalkQuiet, Counting, Listed
  <2>2. UNCHANGED <<hostWorkers, total, scene, ack, pc, pos, order, batch, current, workload>>
    BY <1>2 DEF WalkQuiet
  <2>3. scene = "none" => Congruent(total', Cardinality(CountedSlots'))
    BY <2>1, <2>2 DEF WalkInv
  <2> QED
    BY <1>1, <2>2, <2>3
<1>3. CASE WalkOver
  <2>1. Handed' = Handed /\ UNCHANGED <<order, current>>
    BY <1>3 DEF WalkOver, Handed
  <2> QED
    BY <1>3, <2>1 DEF WalkInv, WalkOver
<1>4. CASE AcceptScene
  BY <1>4, AcceptWalk
<1>5. CASE KickOffFind
  <2>1. /\ UNCHANGED <<hostWorkers, total, scene, ack, pos, order, batch, current, workload>>
        /\ pc = "find"
    BY <1>5, FindFacts
  <2>2. ListedSlots' = ListedSlots /\ Handed' = Handed /\ Walked' = Walked /\ Accepted' = Accepted
    BY <2>1, WalkParts DEF Walked, Accepted
  <2>3. scene # "none"
    BY <2>1 DEF TypeInv, LifeOK
  <2> QED
    BY <2>1, <2>2, <2>3 DEF WalkInv
<1>6. CASE KickOffAssign
  BY <1>6, AssignWalk
<1>7. CASE KickOffSend
  BY <1>7, SendWalk
<1>8. CASE KickOffEnd
  BY <1>8, EndWalk
<1>9. ASSUME NEW h \in Hosts, UNCHANGED planVars, Base!RegisterWorker(h) PROVE WalkInv'
  BY <1>9, RegisterWalk
<1>10. ASSUME NEW h \in Hosts, UNCHANGED planVars, Base!NoteFailure(h) PROVE WalkInv'
  <2>1. /\ NotifyHostFailure(h)
        /\ UNCHANGED <<scene, ack, pc, pos, order, batch, current, workload>>
    BY <1>10, NoteFacts
  <2>2. hostWorkers' = hostWorkers
    BY <2>1 DEF NotifyHostFailure
  <2>3. scene = "none" => Congruent(total', Cardinality(CountedSlots'))
    BY <1>10, CountStaysRight
  <2> QED
    BY <1>1, <2>1, <2>2, <2>3
<1> HIDE DEF planVars
<1> QED
  BY <1>2, <1>3, <1>4, <1>5, <1>6, <1>7, <1>8, <1>9, <1>10, WalkKinds

-----------------------------------------------------------------------------
(* The image                                                               *)

\* The offset and the size of the i-th of n chunks of w pixels: the last one
\* takes what is left.
Shape(j, i, n, w) ==
    /\ j.off = i * w
    /\ \/ i < n - 1 /\ j.cnt = w /\ i * w + w <= NumPixels
       \/ i = n - 1 /\ j.cnt = NumPixels - i * w /\ j.cnt >= w

\* No chunk that was handed out is empty or reaches beyond the image.
LEMMA PlannedShape ==
    ASSUME NumPixels < UIntMod, TypeInv, CountInv, PlanInv, EnoughPixels,
           NEW k \in 1 .. Handed
    PROVE  /\ Accepted /\ order[k] \in 0 .. Len(order) - 1
           /\ ChunkAt(order[k]) \in Planned
           /\ Shape(ChunkAt(order[k]), order[k], Len(order), workload)
<1> DEFINE n == Len(order)
           w == workload
           i == order[k]
<1>1. /\ Handed \in Nat /\ Handed <= n /\ n \in Nat /\ ChunkAt(i) \in Planned /\ Accepted
  BY ChunkFacts DEF Planned
<1>2. /\ k \in 1 .. n /\ i \in 0 .. n - 1 /\ w \in Nat \ {0}
      /\ i \in Nat /\ n - 1 \in Nat /\ i <= n - 1
  <2>1. k \in 1 .. n
    BY <1>1
  <2>2. i \in 0 .. n - 1 /\ w \in Nat \ {0}
    BY <1>1, <2>1 DEF PlanInv, TypeInv, ChunksOK
  <2> QED
    BY <1>1, <2>1, <2>2
<1>3. i * w \in Nat /\ n * w = (n - 1) * w + w /\ (i < n - 1 => i * w + w <= (n - 1) * w)
  <2>1. i * w \in Nat /\ (n - 1) * w \in Nat
    BY <1>2, Multiples
  <2>2. (n - 1) + 1 = n
    BY <1>1
  <2>3. n * w = (n - 1) * w + w
    BY <1>2, <2>2, Multiples
  <2>4. i < n - 1 => i * w + w <= (n - 1) * w
    BY <1>2, Multiples
  <2> QED
    BY <2>1, <2>3, <2>4
<1>4. CASE n <= NumPixels
  <2> DEFINE y == i * w
             z == (n - 1) * w
  <2>1. n * w <= NumPixels
    BY <1>1, <1>4 DEF PlanInv
  <2>2. y \in Nat /\ z \in Nat /\ z + w <= NumPixels /\ (i < n - 1 => y + w <= z)
        /\ (i = n - 1 => y = z)
    BY <1>2, <1>3, <2>1, Multiples
  <2>3. CASE i < n - 1
    <3>1. ChunkAt(i).off = y /\ ChunkAt(i).cnt = w
      BY <1>2, <2>3 DEF ChunkAt
    <3>2. y + w <= NumPixels
      <4> HIDE DEF y, z, w
      <4> QED
        BY <1>2, <2>2, <2>3, TrackerAssumption
    <3> QED
      BY <1>1, <1>2, <2>3, <3>1, <3>2 DEF Shape
  <2>4. CASE i = n - 1
    <3>1. ChunkAt(i).off = y /\ ChunkAt(i).cnt = (NumPixels - y) % UIntMod
      BY <2>4 DEF ChunkAt
    <3>2. (NumPixels - y) % UIntMod = NumPixels - y /\ NumPixels - y >= w
      <4>1. NumPixels - y \in 0 .. UIntMod - 1 /\ NumPixels - y >= w
        <5> HIDE DEF y, z, w
        <5> QED
          BY <1>2, <2>2, <2>4, TrackerAssumption
      <4> HIDE DEF y
      <4> QED
        BY <4>1, TrackerAssumption
    <3> QED
      BY <1>1, <1>2, <2>4, <3>1, <3>2 DEF Shape
  <2> QED
    BY <1>2, <2>3, <2>4
<1>5. CASE ~(n <= NumPixels)
  <2>1. ~RandomChunks /\ w = 1 /\ i = k - 1
    BY <1>1, <1>2, <1>5 DEF PlanInv, EnoughPixels
  <2>2. (k - 1) * w < NumPixels
    BY <1>1 DEF PlanInv
  <2>3. i * w = i /\ i < NumPixels
    BY <1>2, <2>1, <2>2
  <2>4. i < n - 1 /\ i * w + w <= NumPixels
    BY <1>1, <1>2, <1>5, <2>1, <2>3, TrackerAssumption
  <2>5. ChunkAt(i).off = i * w /\ ChunkAt(i).cnt = w
    BY <1>2, <2>4 DEF ChunkAt
  <2> QED
    BY <1>1, <1>2, <2>4, <2>5 DEF Shape
<1> QED
  BY <1>4, <1>5

LEMMA ShapeFacts ==
    ASSUME NEW j, NEW n \in Nat, NEW i \in 0 .. n - 1, NEW w \in Nat \ {0}, Shape(j, i, n, w)
    PROVE  /\ j.off \in Nat /\ j.cnt \in Nat \ {0} /\ j.off + j.cnt <= NumPixels
           /\ \A m \in 0 .. n - 1 : i < m => j.off + j.cnt <= m * w
<1>1. i \in Nat /\ i * w \in Nat
  BY Multiples
<1>2. NumPixels \in Nat
  BY TrackerAssumption
<1>3. /\ j.off \in Nat /\ j.cnt \in Nat \ {0} /\ j.off + j.cnt <= NumPixels
  <2> DEFINE y == i * w
  <2>1. y \in Nat /\ j.off = y /\ \/ j.cnt = w /\ y + w <= NumPixels
                                  \/ j.cnt = NumPixels - y /\ j.cnt >= w
    BY <1>1 DEF Shape
  <2> HIDE DEF y
  <2> QED
    BY <1>2, <2>1
<1>4. ASSUME NEW m \in 0 .. n - 1, i < m PROVE j.off + j.cnt <= m * w
  <2>1. i < n - 1 /\ m \in Nat
    BY <1>1, <1>4
  <2>2. j.off + j.cnt = i * w + w
    BY <1>1, <2>1 DEF Shape
  <2>3. i * w + w <= m * w
    BY <1>1, <1>4, <2>1, Multiples
  <2> QED
    BY <2>2, <2>3
<1> QED
  BY <1>3, <1>4

\* Nothing that was planned has been forgotten.
LEMMA KnownPlanned ==
    ASSUME NumPixels < UIntMod, TypeInv, CountInv, PlanInv, JobInv, EnoughPixels
    PROVE  /\ Base!Known = Planned
           /\ \A j \in Planned : \E i \in 0 .. Len(order) - 1 :
                  /\ Shape(j, i, Len(order), workload)
                  /\ j = ChunkAt(i)
           /\ Planned # {} => workload \in Nat \ {0} /\ Len(order) \in Nat
<1>1. ASSUME NEW j \in Planned
      PROVE  /\ j.cnt # 0 /\ workload \in Nat \ {0} /\ Len(order) \in Nat
             /\ \E i \in 0 .. Len(order) - 1 : Shape(j, i, Len(order), workload) /\ j = ChunkAt(i)
  <2>1. PICK k \in 1 .. Handed : j = ChunkAt(order[k])
    BY DEF Planned
  <2>2. Accepted /\ order[k] \in 0 .. Len(order) - 1 /\ Shape(j, order[k], Len(order), workload)
    BY <2>1, PlannedShape
  <2>3. workload \in Nat \ {0} /\ Len(order) \in Nat
    BY <2>2, LenProperties DEF TypeInv, ChunksOK
  <2>4. j.cnt # 0
    BY <2>2, <2>3, ShapeFacts
  <2> QED
    BY <2>1, <2>2, <2>3, <2>4
<1> QED
  BY <1>1 DEF JobInv

LEMMA PixelsIn ==
    \A S, px : px \in Base!PixelsOf(S) <=> \E j \in S : px \in j.off .. j.off + j.cnt - 1
  BY DEF Base!PixelsOf

\* After the kick-off every pixel belongs to a chunk that has been handed out.
LEMMA AllPlanned ==
    ASSUME NumPixels < UIntMod, TypeInv, CountInv, PlanInv, WalkInv, EnoughPixels,
           ack = "accepted", NEW px \in 0 .. NumPixels - 1
    PROVE  \E j \in Planned : px \in j.off .. j.off + j.cnt - 1
<1> DEFINE n == Len(order)
           w == workload
<1>1. Accepted
  BY DEF TypeInv, LifeOK, Accepted
<1>2. /\ n \in Nat \ {0} /\ w \in Nat \ {0} /\ Handed \in Nat /\ Handed <= n
      /\ current = Handed * w /\ px \in Nat /\ px < NumPixels /\ NumPixels \in Nat
  <2>1. order # <<>> /\ order \in Seq(Nat)
    BY <1>1 DEF WalkInv, TypeInv, ChunksOK
  <2>2. n \in Nat \ {0}
    BY <2>1, EmptySeq, LenProperties
  <2>3. px \in Nat /\ px < NumPixels /\ NumPixels \in Nat
    BY TrackerAssumption
  <2> QED
    BY <1>1, <2>2, <2>3 DEF TypeInv, ChunksOK, CountInv
<1>3. CASE Handed = n
  <2> DEFINE q == px \div w
             i == IF q < n - 1 THEN q ELSE n - 1
  <2>1. q \in Nat /\ px = w * q + (px % w) /\ (px % w) \in Nat /\ (px % w) < w
    BY <1>2
  <2>2. i \in 0 .. n - 1 /\ i \in Nat
    BY <1>2, <2>1
  <2>3. PICK k \in 1 .. n : order[k] = i
    BY <1>1, <2>2 DEF PlanInv
  <2>4. k \in 1 .. Handed
    BY <1>3, <2>3
  <2> DEFINE j == ChunkAt(i)
  <2>5. j \in Planned /\ Shape(j, i, n, w)
    BY <2>3, <2>4, PlannedShape
  <2>6. px \in j.off .. j.off + j.cnt - 1
    <3>1. j.off \in Nat /\ j.cnt \in Nat
      BY <1>2, <2>2, <2>5, ShapeFacts
    <3>2. w * q = q * w /\ q * w \in Nat /\ (n - 1) * w \in Nat
      BY <1>2, <2>1, Multiples
    <3>3. CASE q < n - 1
      <4>1. j.off = q * w /\ j.cnt = w
        BY <1>2, <2>1, <2>5, <3>3 DEF Shape
      <4> DEFINE y == q * w
                 r == px % w
      <4>2. y \in Nat /\ r \in Nat /\ r < w /\ px = y + r /\ j.off = y
        BY <2>1, <3>2, <4>1
      <4> HIDE DEF y, r, q, j, w
      <4> QED
        BY <1>2, <4>1, <4>2
    <3>4. CASE ~(q < n - 1)
      <4>1. j.off = (n - 1) * w /\ j.cnt = NumPixels - (n - 1) * w
        BY <1>2, <2>5, <3>4 DEF Shape
      <4>2. (n - 1) * w <= q * w
        <5>1. n - 1 < q \/ n - 1 = q
          BY <1>2, <2>1, <3>4
        <5>2. n - 1 < q => (n - 1) * w + w <= q * w
          BY <1>2, <2>1, Multiples
        <5>3. n - 1 < q => (n - 1) * w <= q * w
          <6> DEFINE a == (n - 1) * w
                     b == q * w
          <6>1. a \in Nat /\ b \in Nat /\ (n - 1 < q => a + w <= b)
            BY <3>2, <5>2
          <6> HIDE DEF a, b
          <6>2. n - 1 < q => a <= b
            BY <1>2, <6>1
          <6> QED
            BY <6>2 DEF a, b
        <5> QED
          BY <3>2, <5>1, <5>3
      <4> DEFINE z == (n - 1) * w
                 y == q * w
                 r == px % w
      <4>3. z \in Nat /\ y \in Nat /\ r \in Nat /\ z <= y /\ px = y + r
            /\ j.off = z /\ j.cnt = NumPixels - z
        BY <2>1, <3>2, <4>1, <4>2
      <4> HIDE DEF z, y, r, q, j, w
      <4> QED
        BY <1>2, <4>3
    <3> QED
      BY <3>3, <3>4
  <2> QED
    BY <2>5, <2>6
<1>4. CASE Handed < n
  <2>1. NumPixels <= Handed * w
    <3>1. current >= NumPixels
      BY <1>2, <1>4 DEF WalkInv
    <3> QED
      BY <1>2, <3>1, Multiples
  <2>2. ~(n <= NumPixels)
    <3> SUFFICES ASSUME n <= NumPixels PROVE FALSE
      OBVIOUS
    <3>1. n * w <= NumPixels
      BY <1>1 DEF PlanInv
    <3>2. Handed * w + w <= n * w /\ Handed * w \in Nat /\ n * w \in Nat
      BY <1>2, <1>4, Multiples
    <3> DEFINE a == Handed * w
               b == n * w
    <3>3. a \in Nat /\ b \in Nat /\ a + w <= b /\ b <= NumPixels /\ NumPixels <= a
      BY <2>1, <3>1, <3>2
    <3> HIDE DEF a, b, w
    <3> QED
      BY <1>2, <3>3
  <2>3. w = 1 /\ ~RandomChunks
    BY <1>1, <2>2 DEF PlanInv, EnoughPixels
  <2>4. px + 1 \in 1 .. Handed /\ px + 1 \in 1 .. n
    <3>1. Handed * w = Handed
      BY <1>2, <2>3
    <3> QED
      BY <1>2, <2>1, <3>1
  <2>5. order[px + 1] = px
    BY <1>1, <1>2, <2>3, <2>4 DEF PlanInv
  <2> DEFINE j == ChunkAt(px)
  <2>6. j \in Planned /\ Shape(j, px, n, w)
    BY <2>4, <2>5, PlannedShape
  <2>7. j.off = px /\ j.cnt = 1
    <3>1. px * w = px /\ px < n - 1
      BY <1>2, <2>2, <2>3
    <3> QED
      BY <1>2, <2>3, <2>6, <3>1 DEF Shape
  <2>8. px \in j.off .. j.off + j.cnt - 1
    <3> HIDE DEF j
    <3> QED
      BY <1>2, <2>7
  <2> QED
    BY <2>6, <2>8
<1> QED
  BY <1>2, <1>3, <1>4

\* The jobs that are known lie side by side.
LEMMA TilesImage ==
    ASSUME NumPixels < UIntMod, TypeInv, CountInv, PlanInv, JobInv, WalkInv
    PROVE  JobsTileImage
<1> SUFFICES ASSUME EnoughPixels
             PROVE  /\ \A j, k \in Planned :
                           /\ j.off + j.cnt <= NumPixels
                           /\ j.off <= k.off /\ j # k => j.off + j.cnt <= k.off
                    /\ ack = "accepted" => Base!PixelsOf(Planned) = 0 .. NumPixels - 1
  BY KnownPlanned DEF JobsTileImage
<1> DEFINE n == Len(order)
           w == workload
<1>1. \A j \in Planned : /\ n \in Nat /\ w \in Nat \ {0}
                         /\ \E i \in 0 .. n - 1 : Shape(j, i, n, w) /\ j = ChunkAt(i)
  BY KnownPlanned
<1>2. ASSUME NEW j \in Planned
      PROVE  j.off \in Nat /\ j.cnt \in Nat \ {0} /\ j.off + j.cnt <= NumPixels
  BY <1>1, ShapeFacts
<1>3. ASSUME NEW j \in Planned, NEW k \in Planned, j.off <= k.off, j # k
      PROVE  j.off + j.cnt <= k.off
  <2>1. n \in Nat /\ w \in Nat \ {0}
    BY <1>1
  <2>2. PICK i \in 0 .. n - 1 : Shape(j, i, n, w) /\ j = ChunkAt(i)
    BY <1>1
  <2>3. PICK m \in 0 .. n - 1 : Shape(k, m, n, w) /\ k = ChunkAt(m)
    BY <1>1
  <2>4. i \in Nat /\ m \in Nat /\ i # m /\ j.off = i * w /\ k.off = m * w
    BY <1>3, <2>1, <2>2, <2>3 DEF Shape
  <2>5. CASE i < m
    BY <2>1, <2>2, <2>4, <2>5, ShapeFacts
  <2>6. CASE m < i
    <3>1. k.off + k.cnt <= i * w
      BY <2>1, <2>3, <2>6, ShapeFacts
    <3>2. k.off + k.cnt <= j.off
      BY <2>4, <3>1
    <3>3. k.off < j.off
      <4>1. j.off \in Nat /\ k.off \in Nat /\ k.cnt \in Nat \ {0}
        BY <1>2
      <4> QED
        BY <3>2, <4>1
    <3>4. j.off \in Nat /\ k.off \in Nat
      BY <1>2
    <3> QED
      BY <1>3, <3>3, <3>4
  <2> QED
    BY <2>4, <2>5, <2>6
<1>4. ASSUME ack = "accepted"
      PROVE  Base!PixelsOf(Planned) = 0 .. NumPixels - 1
  <2>1. ASSUME NEW px \in 0 .. NumPixels - 1 PROVE px \in Base!PixelsOf(Planned)
    BY <1>4, AllPlanned, PixelsIn
  <2>2. ASSUME NEW px \in Base!PixelsOf(Planned) PROVE px \in 0 .. NumPixels - 1
    <3>1. PICK j \in Planned : px \in j.off .. j.off + j.cnt - 1
      BY PixelsIn
    <3>2. NumPixels \in Nat
      BY TrackerAssumption
    <3> QED
      BY <1>2, <3>1, <3>2
  <2> QED
    BY <2>1, <2>2
<1> QED
  BY <1>2, <1>3, <1>4

\* What is known when the scene is finished has been shipped, and no request is
\* left that carries work.
LEMMA FinishedIsDone ==
    ASSUME NumPixels < UIntMod, TypeInv, CountInv, PlanInv, ShipInv, JobInv, DoneInv, WalkInv
    PROVE  FinishedAfterWork
<1> SUFFICES ASSUME EnoughPixels, scene = "finished"
             PROVE  /\ Base!PixelsOf(Base!Shipped) = 0 .. NumPixels - 1
                    /\ \A s \in Slots : \A i \in DOMAIN todo[s] : todo[s][i].cnt = 0
  BY DEF FinishedAfterWork
<1>1. ack = "accepted"
  BY DEF TypeInv, LifeOK
<1>2. failed = {} /\ Tracked = {} /\ Engaged = {}
  BY DEF DoneInv, CountInv
<1>3. Base!Known = Base!Shipped
  <2>1. \A x : x \in Base!Known <=> x \in Base!Shipped
    BY <1>2, KnownJobs, TrackedIs
  <2> QED
    BY <2>1 DEF Base!Known
<1>4. Base!PixelsOf(Base!Known) = 0 .. NumPixels - 1
  BY <1>1, TilesImage DEF JobsTileImage
<1>5. ASSUME NEW s \in Slots, NEW i \in DOMAIN todo[s] PROVE todo[s][i].cnt = 0
  <2> SUFFICES ASSUME todo[s][i].tag # 0 PROVE FALSE
    BY DEF ShipInv
  <2>1. <<"todo", s, i>> \in Places
    BY PlaceFacts DEF PlaceLaws
  <2>2. At(<<"todo", s, i>>) \in Mail /\ LettersOK
    BY <2>1, MailType DEF Mail
  <2>3. PICK l \in Mail : l.host \in Hosts /\ l.tag \in Tags
    BY <2>2 DEF LettersOK, IsLetter
  <2>4. <<l.host, l.tag>> \in Engaged
    BY <2>3 DEF Engaged
  <2> QED
    BY <1>2, <2>4
<1> QED
  BY <1>3, <1>4, <1>5

\* All that is known of a reachable state.
FullInv ==
    /\ TypeInv /\ OrderInv /\ TagInv /\ CountInv /\ PlanInv /\ ShipInv /\ JobInv
    /\ DoneInv /\ WalkInv

LEMMA FullHolds == Spec => []FullInv
<1>1. Init => FullInv
  BY TypeInit, OrderInit, TagInit, CountInit, PlanInit, ShipInit, JobInit, DoneInit, WalkInit
     DEF FullInv
<1>2. ASSUME FullInv, [Next]_vars PROVE FullInv'
  <2>1. TypeInv'
    BY <1>2, TypeStep DEF FullInv
  <2>2. OrderInv'
    BY <1>2, <2>1, OrderStep DEF FullInv
  <2>3. TagInv' /\ Once
    BY <1>2, <2>1, TagStep DEF FullInv, TagInv
  <2>4. CountInv'
    BY <1>2, <2>1, <2>3, CountStep DEF FullInv
  <2>5. PlanInv'
    BY <1>2, <2>1, <2>3, PlanStep DEF FullInv
  <2>6. ShipInv'
    BY <1>2, <2>1, ShipStep DEF FullInv
  <2>7. JobInv'
    BY <1>2, <2>1, JobStep DEF FullInv
  <2>8. DoneInv'
    BY <1>2, <2>1, <2>7, DoneStep DEF FullInv
  <2>9. WalkInv'
    BY <1>2, <2>1, WalkStep DEF FullInv
  <2> QED
    BY <2>1, <2>2, <2>3, <2>4, <2>5, <2>6, <2>7, <2>8, <2>9 DEF FullInv
<1> QED
  BY <1>1, <1>2, PTL DEF Spec

\* The jobs never overlap and never reach beyond the image, and once the kick-off
\* is over they are the whole image: for every number of pixels that an unsigned
\* integer holds, and whatever workers fail, register late or are walked in which
\* order (StaticSceneScheduler::KickOffSceneScheduling).
THEOREM JobsFormImage ==
    ASSUME NumPixels < UIntMod
    PROVE  Spec => []JobsTileImage
<1>1. FullInv => JobsTileImage
  BY TilesImage DEF FullInv
<1> QED
  BY <1>1, FullHolds, PTL

\* The scene is declared finished when all its pixels have been shipped and no
\* worker has work of it left, although the counter that decides it is only
\* incremented and decremented (StaticSceneScheduler::OnPixelProduceResponseMsg).
THEOREM FinishedWithoutWork ==
    ASSUME NumPixels < UIntMod
    PROVE  Spec => []FinishedAfterWork
<1>1. FullInv => FinishedAfterWork
  BY FinishedIsDone DEF FullInv
<1> QED
  BY <1>1, FullHolds, PTL

-----------------------------------------------------------------------------
(* What the producers produce                                              *)

\* n pixels from p onwards.
Run(p, n) == [k \in 1 .. n |-> p + k - 1]

LEMMA RunsJoin ==
    ASSUME NEW p \in Nat, NEW a \in Nat, NEW b \in Nat
    PROVE  Run(p, a) \o Run(p + a, b) = Run(p, a + b)
<1>1. /\ Run(p, a) \in Seq(Nat) /\ Len(Run(p, a)) = a
      /\ Run(p + a, b) \in Seq(Nat) /\ Len(Run(p + a, b)) = b
      /\ Run(p, a + b) \in Seq(Nat) /\ Len(Run(p, a + b)) = a + b
  BY DEF Run
<1> DEFINE s == Run(p, a) \o Run(p + a, b)
<1>2. /\ s \in Seq(Nat) /\ Len(s) = a + b
      /\ \A k \in 1 .. a + b : s[k] = IF k <= a THEN Run(p, a)[k] ELSE Run(p + a, b)[k - a]
  <2> DEFINE u == Run(p, a)
             v == Run(p + a, b)
  <2>1. u \in Seq(Nat) /\ v \in Seq(Nat) /\ Len(u) = a /\ Len(v) = b
    BY <1>1
  <2> HIDE DEF u, v
  <2>2. /\ u \o v \in Seq(Nat) /\ Len(u \o v) = Len(u) + Len(v)
        /\ \A k \in 1 .. Len(u) + Len(v) :
               (u \o v)[k] = IF k <= Len(u) THEN u[k] ELSE v[k - Len(u)]
    BY <2>1, ConcatProperties
  <2>3. /\ u \o v \in Seq(Nat) /\ Len(u \o v) = a + b
        /\ \A k \in 1 .. a + b : (u \o v)[k] = IF k <= a THEN u[k] ELSE v[k - a]
    BY <2>1, <2>2
  <2> QED
    BY <2>3 DEF u, v
<1> HIDE DEF s
<1>3. ASSUME NEW k \in 1 .. a + b PROVE s[k] = Run(p, a + b)[k]
  <2>1. k \in Nat /\ Run(p, a + b)[k] = (p + k - 1)
    BY DEF Run
  <2>2. CASE k <= a
    <3>1. s[k] = Run(p, a)[k] /\ k \in 1 .. a
      BY <1>2, <2>1, <2>2
    <3>2. Run(p, a)[k] = (p + k - 1)
      BY <3>1 DEF Run
    <3> QED
      BY <2>1, <3>1, <3>2
  <2>3. CASE ~(k <= a)
    <3>1. k - a \in 1 .. b
      BY <2>1, <2>3
    <3>2. s[k] = Run(p + a, b)[k - a]
      BY <1>2, <2>3
    <3>3. Run(p + a, b)[k - a] = ((p + a) + (k - a) - 1)
      BY <3>1 DEF Run
    <3>4. ((p + a) + (k - a) - 1) = (p + k - 1)
      BY <2>1
    <3> QED
      BY <2>1, <3>2, <3>3, <3>4
  <2> QED
    BY <2>2, <2>3
<1>4. s = Run(p, a + b)
  BY <1>1, <1>2, <1>3, SeqEqual
<1> QED
  BY <1>4 DEF s

\* g[i] is what the first i of n sequences are together.
BuildsUp(g, seqs, n) ==
    g = [i \in 1 .. n |-> IF i = 1 THEN seqs[i] ELSE g[i - 1] \o seqs[i]]

\* What is built up row by row is what flattening yields.
LEMMA Flattened ==
    ASSUME NEW n \in Nat \ {0}, NEW seqs, Len(seqs) = n,
           NEW g, BuildsUp(g, seqs, n)
    PROVE  FlattenSeq(seqs) = g[n]
<1> DEFINE f == CHOOSE f_1 : BuildsUp(f_1, seqs, n)
<1>1. FlattenSeq(seqs) = f[n]
  BY DEF FlattenSeq, BuildsUp
<1>2. BuildsUp(f, seqs, n)
  OBVIOUS
<1> HIDE DEF f
<1> DEFINE Bad == {i \in 1 .. n : f[i] # g[i]}
<1>3. Bad = {}
  <2> SUFFICES ASSUME Bad # {} PROVE FALSE
    OBVIOUS
  <2>1. PICK i \in Bad : \A m \in Bad : i <= m
    <3>1. Bad \subseteq Nat
      OBVIOUS
    <3> HIDE DEF Bad
    <3> QED
      BY <3>1, LeastNumber
  <2>2. i \in 1 .. n /\ f[i] # g[i]
    OBVIOUS
  <2>3. i # 1 => f[i - 1] = g[i - 1]
    <3>1. i # 1 => i - 1 \in 1 .. n /\ i - 1 \notin Bad
      BY <2>1, <2>2
    <3> QED
      BY <3>1
  <2>4. /\ f[i] = IF i = 1 THEN seqs[i] ELSE f[i - 1] \o seqs[i]
        /\ g[i] = IF i = 1 THEN seqs[i] ELSE g[i - 1] \o seqs[i]
    BY <1>2, <2>2 DEF BuildsUp
  <2> QED
    BY <2>2, <2>3, <2>4
<1>4. n \in 1 .. n
  OBVIOUS
<1> QED
  BY <1>1, <1>3, <1>4

\* The coordinates of a pixel of the image.
LEMMA CoordinatesOf ==
    ASSUME NX <= 65536, NY <= 65536, NEW px \in Nat, px < NX * NY
    PROVE  /\ px \div NX \in Nat /\ px \div NX <= NY - 1
           /\ px % NX \in Nat /\ px % NX <= NX - 1
           /\ px = (px \div NX) * NX + (px % NX)
           /\ X(px) = px % NX
           /\ Y(px) = NY - 1 - (px \div NX)
<1> DEFINE q == px \div NX
           r == px % NX
<1>0. NX \in Nat \ {0} /\ NY \in Nat \ {0}
  BY ImageAssumption
<1>1. q \in Nat /\ r \in Nat /\ r <= NX - 1 /\ px = NX * q + r
  BY <1>0
<1>2. NX * q = q * NX /\ NX * NY = NY * NX
  BY <1>0, <1>1, Multiples
<1>3. q < NY
  <2> SUFFICES ASSUME ~(q < NY) PROVE FALSE
    OBVIOUS
  <2>1. NY = q \/ NY < q
    BY <1>0, <1>1
  <2>2. NY < q => NY * NX + NX <= q * NX
    BY <1>0, <1>1, Multiples
  <2>3. NY * NX \in Nat /\ q * NX \in Nat
    BY <1>0, <1>1, Multiples
  <2>4. NY * NX <= q * NX
    <3> DEFINE a == NY * NX
               b == q * NX
    <3>1. a \in Nat /\ b \in Nat /\ (a = b \/ a + NX <= b)
      BY <2>1, <2>2, <2>3
    <3> HIDE DEF a, b
    <3>2. a <= b
      BY <1>0, <3>1
    <3> QED
      BY <3>2 DEF a, b
  <2> DEFINE a == NY * NX
             b == q * NX
  <2>5. a \in Nat /\ b \in Nat /\ a <= b /\ px = b + r /\ px < a
    BY <1>1, <1>2, <2>3, <2>4
  <2> HIDE DEF a, b, q, r
  <2> QED
    BY <1>1, <2>5
<1> HIDE DEF q, r
<1>4. U16(r) = r
  BY <1>0, <1>1 DEF U16
<1>5. U16(NY - (q + 1)) = NY - 1 - q
  BY <1>0, <1>1, <1>3 DEF U16
<1>6. X(px) = r
  BY <1>4 DEF X, r
<1>7. Y(px) = NY - 1 - q
  <2>1. Y(px) = IF U16(NY - (q + 1)) > NY THEN 0 ELSE U16(NY - (q + 1))
    BY DEF Y, q
  <2> QED
    BY <1>0, <1>1, <1>3, <1>5, <2>1
<1>8. q <= NY - 1
  BY <1>0, <1>1, <1>3
<1> QED
  BY <1>1, <1>2, <1>6, <1>7, <1>8 DEF q, r

Runs(P, E, n) == [i \in 1 .. n |-> Run(P[i], E[i] - P[i] + 1)]

\* Each run begins where the one before it ends; the first one begins at off.
Adjacent(P, E, n, off) ==
    /\ P \in [1 .. n -> Nat] /\ E \in [1 .. n -> Nat]
    /\ P[1] = off
    /\ \A i \in 1 .. n : off <= E[i] /\ P[i] <= E[i]
    /\ \A i \in 1 .. n : i # 1 => P[i] = E[i - 1] + 1

\* Runs that follow each other are one run.
LEMMA RowsJoin ==
    ASSUME NEW off \in Nat, NEW n \in Nat \ {0}, NEW P, NEW E, Adjacent(P, E, n, off)
    PROVE  FlattenSeq(Runs(P, E, n)) = Run(off, E[n] - off + 1)
<1> USE DEF Adjacent
<1> DEFINE seqs == Runs(P, E, n)
           g == [i \in 1 .. n |-> Run(off, E[i] - off + 1)]
<1>1. ASSUME NEW i \in 1 .. n
      PROVE  g[i] = IF i = 1 THEN seqs[i] ELSE g[i - 1] \o seqs[i]
  <2>1. g[i] = Run(off, E[i] - off + 1) /\ seqs[i] = Run(P[i], E[i] - P[i] + 1)
    BY DEF Runs
  <2>2. CASE i = 1
    BY <2>1, <2>2
  <2>3. CASE i # 1
    <3>1. i - 1 \in 1 .. n
      BY <2>3
    <3>2. g[i - 1] = Run(off, E[i - 1] - off + 1)
      BY <3>1
    <3> DEFINE d == E[i - 1]
               e == E[i]
               p == P[i]
               a == d - off + 1
               b == e - p + 1
    <3>3. /\ d \in Nat /\ e \in Nat /\ p \in Nat
          /\ p <= e /\ p = d + 1 /\ off <= d
      BY <2>3, <3>1
    <3>4. a \in Nat /\ b \in Nat /\ off + a = p /\ a + b = e - off + 1
      <4> HIDE DEF d, e, p
      <4> QED
        BY <3>3
    <3> HIDE DEF a, b
    <3>5. Run(off, a) \o Run(off + a, b) = Run(off, a + b)
      BY <3>4, RunsJoin
    <3>6. g[i - 1] \o seqs[i] = Run(off, a) \o Run(off + a, b)
      BY <2>1, <3>2, <3>4 DEF a, b
    <3>7. g[i] = Run(off, a + b)
      BY <2>1, <3>4
    <3> QED
      BY <2>3, <3>5, <3>6, <3>7
  <2> QED
    BY <2>2, <2>3
<1>2. BuildsUp(g, seqs, n)
  <2> DEFINE h == [i \in 1 .. n |-> IF i = 1 THEN seqs[i] ELSE g[i - 1] \o seqs[i]]
  <2>1. \A i \in 1 .. n : g[i] = h[i]
    BY <1>1
  <2>2. DOMAIN g = 1 .. n /\ DOMAIN h = 1 .. n
    OBVIOUS
  <2>3. g = [i \in DOMAIN g |-> g[i]] /\ h = [i \in DOMAIN h |-> h[i]]
    OBVIOUS
  <2> HIDE DEF g, h
  <2>4. g = h
    BY <2>1, <2>2, <2>3
  <2> QED
    BY <2>4 DEF h, BuildsUp
<1>3. Len(seqs) = n /\ n \in 1 .. n
  BY DEF Runs
<1>4. g[n] = Run(off, E[n] - off + 1)
  BY <1>3
<1> HIDE DEF g, seqs
<1>5. FlattenSeq(seqs) = g[n]
  BY <1>2, <1>3, Flattened
<1> QED
  BY <1>4, <1>5 DEF seqs

\* The first and the last pixel of the i-th of m rows, if the first one is
\* row r, the first pixel is in column a and the last one in column b.
FirstPixel(i, r, a) == (r + i - 1) * NX + (IF i = 1 THEN a ELSE 0)

LastPixel(i, m, r, b) == (r + i - 1) * NX + (IF i = m THEN b ELSE NX - 1)

RowsOf(c, n) == [i \in 1 .. n |-> Row(c, c.endY - i + 1)]

\* The rows that are produced.
LEMMA RowsProduced ==
    ASSUME NEW r \in Nat, NEW m \in Nat \ {0}, r + m <= NY,
           NEW a \in 0 .. NX - 1, NEW b \in 0 .. NX - 1, NEW i \in 1 .. m,
           NEW c, c = [startY |-> NY - m - r, startX |-> a, endY |-> NY - 1 - r, endX |-> b]
    PROVE  Row(c, c.endY - i + 1) =
               Run(FirstPixel(i, r, a), LastPixel(i, m, r, b) - FirstPixel(i, r, a) + 1)
<1> DEFINE j == c.endY - i + 1
           from == IF i = 1 THEN a ELSE 0
           to == IF i = m THEN b ELSE NX - 1
           y == (r + i - 1) * NX
<1>0. NX \in Nat \ {0} /\ NY \in Nat \ {0} /\ i \in Nat \ {0} /\ r + i - 1 \in Nat
  BY ImageAssumption
<1>1. y \in Nat
  BY <1>0, Multiples
<1>2. /\ c.endY = NY - 1 - r /\ c.startY = NY - m - r /\ c.startX = a /\ c.endX = b
      /\ j = NY - r - i
  BY <1>0
<1>3. (j = c.endY <=> i = 1) /\ (j = c.startY <=> i = m) /\ NY - 1 - j = r + i - 1
  <2> HIDE DEF j
  <2> QED
    BY <1>0, <1>2
<1>4. from \in Nat /\ to \in Nat /\ FirstPixel(i, r, a) = y + from /\ LastPixel(i, m, r, b) = y + to
  BY <1>0 DEF FirstPixel, LastPixel
<1>5. FirstColumn(c, j) = from /\ LastColumn(c, j) = to
  <2> HIDE DEF j
  <2> QED
    BY <1>2, <1>3 DEF FirstColumn, LastColumn
<1>6. (NY - 1 - j) * NX = y
  BY <1>3
<1> HIDE DEF j, from, to, y
<1>7. Row(c, j) = [k \in 1 .. to - from + 1 |-> y + from + k - 1]
  BY <1>5, <1>6 DEF Row
<1>8. Run(FirstPixel(i, r, a), LastPixel(i, m, r, b) - FirstPixel(i, r, a) + 1)
          = [k \in 1 .. (y + to) - (y + from) + 1 |-> (y + from) + k - 1]
  BY <1>4 DEF Run
<1>9. (y + to) - (y + from) + 1 = to - from + 1
  BY <1>1, <1>4
<1> QED
  BY <1>7, <1>8, <1>9 DEF j

\* Every run of pixels that lies inside of the image is produced as it was asked
\* for: the coordinates are 16 bits wide.
LEMMA ProducesRun ==
    ASSUME NX <= 65536, NY <= 65536,
           NEW off \in Nat, NEW cnt \in Nat \ {0}, off + cnt <= NX * NY
    PROVE  ProducedAsAsked(off, cnt)
<1> DEFINE last == off + cnt - 1
           r == off \div NX
           a == off % NX
           z == last \div NX
           b == last % NX
           m == z - r + 1
           c == Coordinates(off, cnt)
           P == [i \in 1 .. m |-> FirstPixel(i, r, a)]
           E == [i \in 1 .. m |-> LastPixel(i, m, r, b)]
<1>0. NX \in Nat \ {0} /\ NY \in Nat \ {0}
  BY ImageAssumption
<1>1. NX * NY \in Nat
  BY <1>0, Multiples
<1>2. last \in Nat /\ off < NX * NY /\ last < NX * NY /\ off <= last
  <2> DEFINE p == NX * NY
  <2>1. p \in Nat /\ off + cnt <= p
    BY <1>1
  <2> HIDE DEF p
  <2>2. last \in Nat /\ off < p /\ last < p /\ off <= last
    BY <2>1
  <2> QED
    BY <2>2 DEF p
<1>3. /\ r \in Nat /\ r <= NY - 1 /\ a \in Nat /\ a <= NX - 1 /\ off = r * NX + a
      /\ X(off) = a /\ Y(off) = NY - 1 - r
  BY <1>2, CoordinatesOf
<1>4. /\ z \in Nat /\ z <= NY - 1 /\ b \in Nat /\ b <= NX - 1 /\ last = z * NX + b
      /\ X(last) = b /\ Y(last) = NY - 1 - z
  <2> HIDE DEF last
  <2> QED
    BY <1>2, CoordinatesOf
<1>5. c = [startY |-> NY - 1 - z, startX |-> a, endY |-> NY - 1 - r, endX |-> b]
  BY <1>3, <1>4 DEF Coordinates
<1> HIDE DEF last, r, a, z, b, c
<1>6. r <= z
  <2> SUFFICES ASSUME z < r PROVE FALSE
    BY <1>3, <1>4
  <2> DEFINE u == z * NX
             v == r * NX
  <2>1. u \in Nat /\ v \in Nat /\ u + NX <= v
    BY <1>0, <1>3, <1>4, Multiples
  <2>2. off = v + a /\ last = u + b
    BY <1>3, <1>4
  <2> HIDE DEF u, v
  <2> QED
    BY <1>0, <1>2, <1>3, <1>4, <2>1, <2>2
<1>7. m \in Nat \ {0} /\ r + m <= NY /\ r + m - 1 = z
      /\ NY - 1 - z = NY - m - r
  BY <1>0, <1>3, <1>4, <1>6
<1> HIDE DEF m
<1>8. ASSUME NEW i \in 1 .. m
      PROVE  /\ FirstPixel(i, r, a) \in Nat /\ LastPixel(i, m, r, b) \in Nat
             /\ off <= LastPixel(i, m, r, b)
             /\ FirstPixel(i, r, a) <= LastPixel(i, m, r, b)
             /\ i = 1 => FirstPixel(i, r, a) = off
             /\ i = m => LastPixel(i, m, r, b) = last
             /\ i # 1 => FirstPixel(i, r, a) = LastPixel(i - 1, m, r, b) + 1
  <2> DEFINE y == (r + i - 1) * NX
             v == r * NX
             x == (r + i - 1 - 1) * NX
             from == IF i = 1 THEN a ELSE 0
             to == IF i = m THEN b ELSE NX - 1
  <2>1. i \in Nat \ {0} /\ r + i - 1 \in Nat /\ r <= r + i - 1 /\ (i = 1 => r + i - 1 = r)
        /\ (i = m => r + i - 1 = z)
    BY <1>3, <1>7
  <2>2. y \in Nat /\ v \in Nat
    BY <1>0, <1>3, <2>1, Multiples
  <2>3. i # 1 => v + NX <= y
    <3>1. i # 1 => r < r + i - 1
      BY <1>3, <2>1
    <3> DEFINE k == r + i - 1
    <3>2. k \in Nat /\ (i # 1 => r < k)
      BY <2>1, <3>1
    <3> HIDE DEF k
    <3>3. i # 1 => r * NX + NX <= k * NX
      BY <1>0, <1>3, <3>2, Multiples
    <3> QED
      BY <3>3 DEF k
  <2>4. i = 1 => y = v
    BY <2>1
  <2>5. i = m => last = y + b
    BY <1>4, <2>1
  <2>6. off = v + a
    BY <1>3
  <2>7. /\ FirstPixel(i, r, a) = y + from /\ LastPixel(i, m, r, b) = y + to
        /\ from \in Nat /\ to \in Nat
        /\ (i = 1 => from = a) /\ (i # 1 => from = 0)
        /\ (i = m => to = b) /\ (i # m => to = NX - 1)
    BY <1>0, <1>3, <1>4 DEF FirstPixel, LastPixel
  <2>8. i # 1 => /\ LastPixel(i - 1, m, r, b) = x + (NX - 1)
                 /\ x \in Nat /\ y = x + NX
    <3> SUFFICES ASSUME i # 1
                 PROVE  LastPixel(i - 1, m, r, b) = x + (NX - 1) /\ x \in Nat /\ y = x + NX
      OBVIOUS
    <3>1. i - 1 # m /\ r + (i - 1) - 1 = r + i - 1 - 1
      BY <1>3, <1>7, <2>1
    <3>2. LastPixel(i - 1, m, r, b) = x + (NX - 1)
      BY <3>1 DEF LastPixel
    <3> DEFINE k == r + i - 1 - 1
    <3>3. k \in Nat /\ k + 1 = r + i - 1
      BY <1>3, <2>1
    <3> HIDE DEF k
    <3>4. k * NX \in Nat /\ (k + 1) * NX = k * NX + NX
      BY <1>0, <3>3, Multiples
    <3>5. x = k * NX
      BY DEF k
    <3>6. y = (k + 1) * NX
      BY <3>3
    <3> QED
      BY <3>2, <3>4, <3>5, <3>6
  <2> DEFINE first == FirstPixel(i, r, a)
             end == LastPixel(i, m, r, b)
             before == LastPixel(i - 1, m, r, b)
  <2> HIDE DEF y, v, x, from, to
  <2>9. /\ first = y + from /\ end = y + to
        /\ i # 1 => before = x + (NX - 1) /\ x \in Nat /\ y = x + NX
    BY <2>7, <2>8
  <2> HIDE DEF first, end, before
  <2>10. first \in Nat /\ end \in Nat
    BY <2>2, <2>7, <2>9
  <2>11. off <= end
    <3>1. CASE i = m
      BY <1>2, <2>5, <2>7, <2>9, <3>1
    <3>2. CASE i # m
      BY <1>0, <1>3, <2>2, <2>3, <2>4, <2>6, <2>7, <2>9, <3>2
    <3> QED
      BY <3>1, <3>2
  <2>12. i = 1 => first = off
    BY <2>4, <2>6, <2>7, <2>9
  <2>13. first <= end
    <3>1. CASE i = 1
      BY <2>11, <2>12, <3>1
    <3>2. CASE i # 1
      BY <2>2, <2>7, <2>9, <3>2
    <3> QED
      BY <3>1, <3>2
  <2>14. i = m => end = last
    BY <2>5, <2>7, <2>9
  <2>15. i # 1 => first = before + 1
    BY <1>0, <2>7, <2>9
  <2> QED
    BY <2>10, <2>11, <2>12, <2>13, <2>14, <2>15 DEF first, end, before
<1>9. RowsOf(c, m) = Runs(P, E, m)
  <2>1. c = [startY |-> NY - m - r, startX |-> a, endY |-> NY - 1 - r, endX |-> b]
    BY <1>5, <1>7
  <2>2. a \in 0 .. NX - 1 /\ b \in 0 .. NX - 1
    BY <1>0, <1>3, <1>4
  <2>3. ASSUME NEW i \in 1 .. m
        PROVE  Row(c, c.endY - i + 1) = Run(P[i], E[i] - P[i] + 1)
    <3>1. P[i] = FirstPixel(i, r, a) /\ E[i] = LastPixel(i, m, r, b)
      OBVIOUS
    <3>2. Row(c, c.endY - i + 1) =
              Run(FirstPixel(i, r, a), LastPixel(i, m, r, b) - FirstPixel(i, r, a) + 1)
      BY <1>3, <1>7, <2>1, <2>2, RowsProduced
    <3> QED
      BY <3>1, <3>2
  <2> HIDE DEF P, E
  <2> QED
    BY <2>3 DEF RowsOf, Runs
<1>10. /\ P \in [1 .. m -> Nat] /\ E \in [1 .. m -> Nat] /\ P[1] = off /\ E[m] = last
       /\ \A i \in 1 .. m : off <= E[i] /\ P[i] <= E[i]
       /\ \A i \in 1 .. m : i # 1 => P[i] = E[i - 1] + 1
  <2>1. 1 \in 1 .. m /\ m \in 1 .. m /\ \A i \in 1 .. m : i # 1 => i - 1 \in 1 .. m
    BY <1>7
  <2>2. /\ \A i \in 1 .. m : P[i] = FirstPixel(i, r, a) /\ E[i] = LastPixel(i, m, r, b)
        /\ P \in [1 .. m -> Nat] /\ E \in [1 .. m -> Nat]
    BY <1>8
  <2> HIDE DEF P, E
  <2>3. P[1] = off /\ E[m] = last
    BY <1>8, <2>1, <2>2
  <2>4. \A i \in 1 .. m : off <= E[i] /\ P[i] <= E[i]
    BY <1>8, <2>2
  <2>5. \A i \in 1 .. m : i # 1 => P[i] = E[i - 1] + 1
    BY <1>8, <2>1, <2>2
  <2> QED
    BY <2>2, <2>3, <2>4, <2>5
<1> HIDE DEF P, E
<1>11. FlattenSeq(Runs(P, E, m)) = Run(off, E[m] - off + 1)
  <2>1. Adjacent(P, E, m, off)
    BY <1>10 DEF Adjacent
  <2> QED
    BY <1>7, <2>1, RowsJoin
<1>12. ProducePixels(c) = FlattenSeq(Runs(P, E, m))
  <2>1. c.endY - c.startY + 1 = m
    BY <1>0, <1>3, <1>4, <1>5, <1>7
  <2>2. ProducePixels(c) = FlattenSeq(RowsOf(c, c.endY - c.startY + 1))
    BY DEF ProducePixels, RowsOf
  <2> QED
    BY <1>9, <2>1, <2>2
<1>13. E[m] - off + 1 = cnt
  BY <1>10 DEF last
<1>14. Run(off, cnt) = [i \in 1 .. cnt |-> off + i - 1]
  BY DEF Run
<1>15. ProducePixels(c) = Run(off, cnt)
  <2> HIDE DEF last
  <2> QED
    BY <1>11, <1>12, <1>13
<1> QED
  BY <1>14, <1>15 DEF ProducedAsAsked, c

LEMMA JobsAreProduced ==
    ASSUME NumPixels < UIntMod, NX <= 65536, NY <= 65536, TypeInv, CountInv, PlanInv, JobInv
    PROVE  WorkersProduceTheirJobs
<1> SUFFICES ASSUME EnoughPixels, NEW j \in Base!Known PROVE ProducedAsAsked(j.off, j.cnt)
  BY DEF WorkersProduceTheirJobs
<1>1. /\ workload \in Nat \ {0} /\ Len(order) \in Nat
      /\ \E i \in 0 .. Len(order) - 1 : Shape(j, i, Len(order), workload)
  BY KnownPlanned
<1>2. j.off \in Nat /\ j.cnt \in Nat \ {0} /\ j.off + j.cnt <= NumPixels
  BY <1>1, ShapeFacts
<1>3. j.off + j.cnt <= NX * NY
  BY <1>2, StaticAssumption
<1> QED
  BY <1>2, <1>3, ProducesRun

\* The coordinates sent with a job make the producer produce the pixels of the job
\* and no others, in their order, for every job of every image whose pixels an
\* unsigned integer can count and whose coordinates fit 16 bits (Pixel2XYMapper
\* against ProducePixels).
THEOREM JobsProduced ==
    ASSUME NumPixels < UIntMod, NX <= 65536, NY <= 65536
    PROVE  Spec => []WorkersProduceTheirJobs
<1>1. FullInv => WorkersProduceTheirJobs
  BY JobsAreProduced DEF FullInv
<1> QED
  BY <1>1, FullHolds, PTL
=============================================================================
