------------------------ MODULE SceneSchedulerProofs ------------------------
(***************************************************************************)
(* Proofs about SceneSchedulerDynamic, for any finite number of hosts and  *)
(* crashes and any number of pipelines, pixels and tags.  The types and    *)
(* the jobs: the jobs never overlap, no pixel but those of the first job   *)
(* is ever lost, and no answer meets the scheduler after its host has been *)
(* dropped.  The requests that are on their way and the end of a scene: no *)
(* two requests carry the same tag, no pipeline is ever given a third, the *)
(* counter of pending answers is never too low, so that the scene is       *)
(* finished only when all its pixels have been shipped, and, with two tags *)
(* for each pipeline of a connection and no failed worker, the master does *)
(* not die and no segment is shipped twice.                                *)
(***************************************************************************)
EXTENDS SceneSchedulerDynamic, WorkerLinksProofs

\* The scheduler's thread is at a place of the kick-off or of a refill that
\* exists, and has a workload to hand out.
Places ==
    /\ pos.index >= 1
    /\ pc = "assign" => /\ pos.index \in DOMAIN hostWorkers
                        /\ pos.pipe \in Pipelines(hostWorkers[pos.index])
    /\ pc = "find" => pos.pipe = 0
    /\ pc \in {"find", "assign"} => workload >= 1
    /\ pc = "refill" => slot \in Slots /\ current < NumPixels

\* No more pixels are handed out than there are, and no listed host counts as
\* faster than the fastest.
Bounded ==
    /\ current <= NumPixels
    /\ \A h \in lookup : maxRate <= ProductionTime[h]

AnswerAt(i) == msgQ[i].kind = "answer"

ExceptionAt(i) == msgQ[i].kind = "exception"

\* Answers come from pipelines that exist.
PipesKnown ==
    /\ \A h \in Hosts : \A i \in DOMAIN resp[h] :
           resp[h][i].pipe \in Pipelines(h)
    /\ \A i \in DOMAIN msgQ :
           AnswerAt(i) => msgQ[i].pipe \in Pipelines(msgQ[i].host)

TypeInv == TypeOK /\ Places /\ Bounded /\ PipesKnown

-----------------------------------------------------------------------------
(* Lemmas about the operators                                              *)

\* The first failed job is one of them.
LEMMA FirstFailedIn ==
    ASSUME failed \in SUBSET Jobs, failed # {}
    PROVE  FirstFailed \in failed
<1> DEFINE offsets == {j.off : j \in failed}
<1>1. offsets \subseteq Nat /\ offsets # {}
  BY DEF Jobs
<1>2. PICK n \in offsets : \A m \in offsets : n <= m
  BY <1>1, LeastNumber
<1>3. \E j \in failed : \A k \in failed : j.off <= k.off
  BY <1>2
<1> QED
  BY <1>3 DEF FirstFailed

\* The size of a refill is at least one pixel, and no more than are left.
LEMMA RefillSizeFacts ==
    ASSUME NEW h \in Hosts, NEW w \in Nat \ {0},
           current \in Nat, current < NumPixels,
           maxRate \in Nat,
           RefillPolicy = 0 \/ maxRate <= ProductionTime[h]
    PROVE  RefillSize(h, w) \in 1 .. NumPixels - current
<1> DEFINE base == MinOf(w, Remaining)
           assigned == (base * maxRate) \div ProductionTime[h]
<1>1. base \in 1 .. NumPixels - current
  BY TrackerAssumption DEF MinOf, Remaining
<1>2. MinOf(ChunkMin, Remaining) \in 1 .. NumPixels - current
  BY TrackerAssumption DEF MinOf, Remaining
<1>3. ProductionTime[h] \in Nat \ {0}
  BY TrackerAssumption
<1>4. CASE RefillPolicy = 0
  BY <1>1, <1>4 DEF RefillSize
<1>5. CASE RefillPolicy # 0
  <2>1. base \in Nat /\ maxRate <= ProductionTime[h]
    BY <1>1, <1>5
  <2> HIDE DEF base
  <2>2. base * maxRate \in Nat /\ base * maxRate <= base * ProductionTime[h]
    BY <2>1, <1>3
  <2>3. assigned \in 0 .. base
    BY <2>1, <2>2, <1>3
  <2> HIDE DEF assigned
  <2>4. RefillSize(h, w) = IF assigned < ChunkMin THEN MinOf(ChunkMin, Remaining)
                           ELSE assigned
    BY <1>5 DEF RefillSize, base, assigned
  <2> QED
    BY <1>1, <1>2, <2>3, <2>4, TrackerAssumption
<1> QED
  BY <1>4, <1>5

-----------------------------------------------------------------------------
(* The types                                                               *)

\* The initial states are typed.
LEMMA TypeInit == Init => TypeInv
<1> SUFFICES ASSUME Init PROVE TypeInv
  OBVIOUS
<1> USE TrackerAssumption, LinkAssumption, SchedulerAssumption
<1>1. TrackerTypeOK
  BY DEF Init, TrackerInit, TrackerTypeOK
<1>2. LinkTypeOK
  <2>1. [i \in 1 .. NumTags |-> i] \in Seq(Tags)
    BY DEF Tags
  <2> QED
    BY <2>1 DEF Init, LinkInit, LinkTypeOK, LinkStates
<1>3. TypeOK
  BY <1>1, <1>2 DEF Init, TypeOK, Start, Faults
<1>4. Places /\ Bounded /\ PipesKnown
  BY DEF Init, TrackerInit, LinkInit, Places, Bounded, PipesKnown, Start
<1> QED
  BY <1>3, <1>4 DEF TypeInv

\* Sending a request keeps the types of the connections.
LEMMA SendRequestType ==
    ASSUME LinkTypeOK, NEW s \in Slots, NEW off \in Nat, NEW cnt \in Nat,
           SendRequest(s, off, cnt)
    PROVE  LinkTypeOK'
<1>1. s[1] \in Hosts
  BY SlotFacts
<1>2. /\ Head(freeTags[s[1]]) \in Tags
      /\ Tail(freeTags[s[1]]) \in Seq(Tags)
  BY <1>1, HeadTailProperties DEF LinkTypeOK, SendRequest
<1>3. freeTags' \in [Hosts -> Seq(Tags)] /\ routed' \in [Hosts -> SUBSET Tags]
  BY <1>1, <1>2 DEF LinkTypeOK, SendRequest, AllocateAppTag
<1>4. todo' \in [Slots -> Seq(Requests)]
  <2> DEFINE r == [tag |-> Head(freeTags[s[1]]), off |-> off, cnt |-> cnt]
  <2>1. r \in Requests
    BY <1>2 DEF Requests
  <2>2. Append(todo[s], r) \in Seq(Requests)
    BY <2>1 DEF LinkTypeOK
  <2> QED
    BY <2>2 DEF LinkTypeOK, SendRequest
<1> QED
  BY <1>3, <1>4 DEF LinkTypeOK, SendRequest, wireVars

\* So does freeing a tag.
LEMMA FreeAppTagType ==
    ASSUME LinkTypeOK, NEW h \in Hosts, NEW t \in Tags, FreeAppTag(h, t)
    PROVE  LinkTypeOK'
<1>1. Append(freeTags[h], t) \in Seq(Tags)
  BY DEF LinkTypeOK
<1> QED
  BY <1>1 DEF LinkTypeOK, FreeAppTag, wireVars

\* What the next job of a pipeline leaves behind.
LEMMA SendNextJobType ==
    ASSUME TypeInv, NEW s \in Slots, NEW w \in Nat \ {0}, current < NumPixels,
           RequestFault(s, TRUE) = "none", SendNextJob(s, w)
    PROVE  /\ TrackerTypeOK' /\ LinkTypeOK'
           /\ pending' \in 0 .. UIntMod - 1
           /\ RefillSize(s[1], w) \in 1 .. NumPixels - current
           /\ current' = current + RefillSize(s[1], w)
           /\ UNCHANGED <<hostWorkers, lookup, total, maxRate, link, briefed,
                          shipped, wireVars>>
<1> DEFINE cnt == RefillSize(s[1], w)
<1>1. s[1] \in Hosts
  BY SlotFacts
<1>2. RefillPolicy = 0 \/ maxRate <= ProductionTime[s[1]]
  BY SchedulerAssumption DEF RequestFault, TypeInv, Bounded
<1>3. cnt \in 1 .. NumPixels - current
  <2>1. current \in Nat /\ maxRate \in Nat
    BY DEF TypeInv, TypeOK, TrackerTypeOK
  <2> QED
    BY <1>1, <1>2, <2>1, RefillSizeFacts
<1> HIDE DEF cnt
<1>4. /\ TrackJob(s, [off |-> current, cnt |-> cnt])
      /\ SendRequest(s, current, cnt)
      /\ pending' = (pending + 1) % UIntMod
      /\ current' = current + cnt
  BY DEF SendNextJob, Assign, cnt
<1>5. current \in Nat /\ cnt \in Nat
  <2>1. current \in Nat
    BY DEF TypeInv, TypeOK
  <2> QED
    BY <1>3, <2>1, TrackerAssumption
<1>6. LinkTypeOK'
  <2>1. LinkTypeOK
    BY DEF TypeInv, TypeOK
  <2> QED
    BY <1>4, <1>5, <2>1, SendRequestType
<1>7. TrackerTypeOK'
  <2>1. [off |-> current, cnt |-> cnt] \in Jobs
    BY <1>5 DEF Jobs
  <2> QED
    BY <2>1, <1>4 DEF TrackJob, TrackerTypeOK, TypeInv, TypeOK
<1>8. pending' \in 0 .. UIntMod - 1
  <2>1. pending \in 0 .. UIntMod - 1
    BY DEF TypeInv, TypeOK
  <2> QED
    BY <1>4, <2>1, TrackerAssumption
<1>9. UNCHANGED <<hostWorkers, lookup, total, maxRate>>
  BY <1>4 DEF TrackJob
<1>10. UNCHANGED <<link, briefed, shipped, wireVars>>
  BY <1>4 DEF SendRequest
<1> QED
  BY <1>3, <1>4, <1>6, <1>7, <1>8, <1>9, <1>10 DEF cnt

\* What is behind the first entry of the queue.
LEMMA TailFacts ==
    ASSUME TypeOK, msgQ # <<>>
    PROVE  /\ Tail(msgQ) \in Seq(Answers \cup Exceptions)
           /\ Head(msgQ) = msgQ[1] /\ 1 \in DOMAIN msgQ
           /\ \A i \in DOMAIN Tail(msgQ) : /\ i \in Nat \ {0}
                                           /\ i + 1 \in DOMAIN msgQ
                                           /\ Tail(msgQ)[i] = msgQ[i + 1]
<1>1. msgQ \in Seq(Answers \cup Exceptions)
  BY DEF TypeOK
<1> QED
  BY <1>1, SeqTail

\* The first entry, when it is an answer or an exception.
LEMMA HeadFacts ==
    ASSUME TypeOK, PipesKnown, msgQ # <<>>
    PROVE  /\ Head(msgQ).kind = "answer" =>
                  /\ Head(msgQ) \in Answers
                  /\ Head(msgQ).host \in Hosts
                  /\ Head(msgQ).tag \in Tags
                  /\ Head(msgQ).off \in Nat /\ Head(msgQ).cnt \in Nat
                  /\ AnswerSlot \in Slots
           /\ Head(msgQ).kind = "exception" =>
                  /\ Head(msgQ) \in Exceptions
                  /\ Head(msgQ).host \in Hosts \cup {NoHost}
<1>1. Head(msgQ) = msgQ[1] /\ 1 \in DOMAIN msgQ
  BY TailFacts
<1>2. Head(msgQ) \in Answers \cup Exceptions
  BY <1>1 DEF TypeOK
<1>3. CASE Head(msgQ).kind = "answer"
  <2>1. Head(msgQ) \in Answers
    BY <1>2, <1>3 DEF Exceptions
  <2>2. Head(msgQ).pipe \in Pipelines(Head(msgQ).host)
    BY <1>1, <1>3 DEF PipesKnown, AnswerAt
  <2> QED
    BY <1>3, <2>1, <2>2, SlotFacts DEF Answers, AnswerSlot
<1>4. CASE Head(msgQ).kind = "exception"
  <2>1. Head(msgQ) \in Exceptions
    BY <1>2, <1>4 DEF Answers
  <2> QED
    BY <1>4, <2>1 DEF Exceptions
<1> QED
  BY <1>3, <1>4

\* The queue after the connection of h has been closed.
LEMMA CloseFacts ==
    ASSUME TypeOK, NEW h \in Hosts, NEW queue \in Seq(Answers \cup Exceptions),
           Close(h, queue)
    PROVE  /\ msgQ' \in Seq(Answers \cup Exceptions)
           /\ LinkTypeOK'
           /\ Len(msgQ') >= Len(queue)
           /\ Len(msgQ') = Len(queue) <=> routed[h] = {}
           /\ Grown(msgQ', queue, [kind |-> "exception", cmd |-> Attached,
                                   host |-> IF Connected(h) THEN h ELSE NoHost])
<1> DEFINE n == Cardinality(routed[h])
           entry == [kind |-> "exception", cmd |-> Attached,
                     host |-> IF Connected(h) THEN h ELSE NoHost]
<1>1. n \in Nat /\ (n = 0 <=> routed[h] = {})
  <2>1. routed[h] \in SUBSET (1 .. NumTags)
    BY DEF TypeOK, LinkTypeOK, Tags
  <2>2. IsFiniteSet(1 .. NumTags)
    BY FS_Interval, LinkAssumption
  <2>3. IsFiniteSet(routed[h])
    BY <2>1, <2>2, FS_Subset
  <2> QED
    BY <2>3, FS_CardinalityType, FS_EmptySet
<1>2. entry \in Exceptions
  BY DEF Exceptions, Attached
<1> HIDE DEF n, entry
<1>3. msgQ' = queue \o Times(entry, n)
  BY DEF Close, Enqueue, ExceptionEntries, Times, n, entry
<1> DEFINE r == queue \o Times(entry, n)
<1>4. /\ r \in Seq(Answers \cup Exceptions)
      /\ Len(r) = Len(queue) + n
      /\ Grown(r, queue, entry)
  <2>1. entry \in Answers \cup Exceptions
    BY <1>2
  <2> QED
    BY <1>1, <2>1, RepeatedEntries
<1> HIDE DEF r
<1>5. Len(r) >= Len(queue) /\ (Len(r) = Len(queue) <=> routed[h] = {})
  <2>1. Len(queue) \in Nat
    BY LenProperties
  <2> QED
    BY <1>1, <1>4, <2>1
<1>6. LinkTypeOK'
  BY DEF TypeOK, LinkTypeOK, Close, LinkStates, wireVars
<1>7. msgQ' = r
  BY <1>3 DEF r
<1> QED
  BY <1>4, <1>5, <1>6, <1>7 DEF entry

\* The pipes of the answers stay known when entries are only taken off.
LEMMA TailPipes ==
    ASSUME TypeOK, PipesKnown, msgQ # <<>>, msgQ' = Tail(msgQ), resp' = resp
    PROVE  PipesKnown'
<1>1. \A i \in DOMAIN Tail(msgQ) : i + 1 \in DOMAIN msgQ /\ Tail(msgQ)[i] = msgQ[i + 1]
  BY TailFacts
<1> QED
  BY <1>1 DEF PipesKnown, AnswerAt

\* Nothing that the type invariant speaks of changes when the master dies.
LEMMA DieType ==
    ASSUME TypeInv, NEW f \in Faults, Die(f)
    PROVE  TypeInv'
<1> USE DEF Die, trackerVars, linkVars, wireVars, jobVars, placeVars
<1>1. TypeOK'
  BY DEF TypeInv, TypeOK, TrackerTypeOK, LinkTypeOK
<1>2. Places' /\ Bounded' /\ PipesKnown'
  BY DEF TypeInv, Places, Bounded, PipesKnown, AnswerAt
<1> QED
  BY <1>1, <1>2 DEF TypeInv

\* A scene is requested.
LEMMA RequestType ==
    ASSUME TypeInv, Request
    PROVE  TypeInv'
<1>1. CASE RejectScene
  <2> USE <1>1 DEF RejectScene, trackerVars, linkVars, wireVars, jobVars, placeVars
  <2>1. TypeOK'
    BY DEF TypeInv, TypeOK, TrackerTypeOK, LinkTypeOK
  <2>2. Places' /\ Bounded' /\ PipesKnown'
    BY DEF TypeInv, Places, Bounded, PipesKnown, AnswerAt
  <2> QED
    BY <2>1, <2>2 DEF TypeInv
<1>2. CASE AcceptDies
  <2>1. "null connection" \in Faults /\ "no workers" \in Faults
    BY DEF Faults
  <2> QED
    BY <1>2, <2>1, DieType DEF AcceptDies
<1>3. CASE AcceptScene
  <2>1. PICK late \in SUBSET {h \in Listed : link[h] = "noted"} :
           /\ link' = [h \in Hosts |-> IF h \in late THEN "closed" ELSE link[h]]
           /\ msgQ' = msgQ \o [i \in 1 .. Cardinality(late) |->
                                   [kind |-> "exception", cmd |-> TRUE,
                                    host |-> NoHost]]
    BY <1>3 DEF AcceptScene
  <2>2. /\ scene' = "running" /\ current' = 0 /\ pending' = 0
        /\ workload' = MaxOf(1, GetWorkEstimationForNewScene(total) \div total)
        /\ pc' = "find" /\ pos' = Start /\ briefed' = Listed
        /\ UNCHANGED <<trackerVars, freeTags, routed, todo, shipped, wireVars,
                       failed, slot, ack, cleaned, fault>>
    BY <1>3 DEF AcceptScene
  <2>3. Listed \subseteq Hosts
    BY DEF TypeInv, TypeOK, TrackerTypeOK, Listed, Range
  <2>4. Cardinality(late) \in Nat
    <3>1. late \in SUBSET Hosts
      BY <2>3
    <3> QED
      BY <3>1, LinkAssumption, FS_Subset, FS_CardinalityType
  <2> DEFINE entry == [kind |-> "exception", cmd |-> TRUE, host |-> NoHost]
             n == Cardinality(late)
  <2>5. entry \in Exceptions
    BY DEF Exceptions
  <2> HIDE DEF entry, n
  <2>6. /\ msgQ \in Seq(Answers \cup Exceptions)
        /\ msgQ' = msgQ \o Times(entry, n)
    BY <2>1 DEF TypeInv, TypeOK, Times, n, entry
  <2>7. n \in Nat
    BY <2>4 DEF n
  <2>8. msgQ' \in Seq(Answers \cup Exceptions) /\ Grown(msgQ', msgQ, entry)
    <3> DEFINE r == msgQ \o Times(entry, n)
    <3>1. r \in Seq(Answers \cup Exceptions) /\ Grown(r, msgQ, entry)
      <4>1. entry \in Answers \cup Exceptions
        BY <2>5
      <4> QED
        BY <2>6, <2>7, <4>1, RepeatedEntries
    <3> HIDE DEF r
    <3>2. msgQ' = r
      BY <2>6 DEF r
    <3> QED
      BY <3>1, <3>2
  <2>9. workload' \in Nat \ {0}
    <3>1. total \in Nat \ {0}
      BY <1>3, TrackerAssumption DEF TypeInv, TypeOK, TrackerTypeOK, AcceptScene
    <3> QED
      BY <2>2, <3>1, WorkloadType
  <2>10. TypeOK'
    BY <2>1, <2>2, <2>3, <2>8, <2>9, TrackerAssumption
       DEF TypeInv, TypeOK, TrackerTypeOK, LinkTypeOK, LinkStates, Start,
           trackerVars, wireVars
  <2>11. Places' /\ Bounded'
    BY <2>2, <2>9, TrackerAssumption DEF TypeInv, Places, Bounded, Start, trackerVars
  <2>12. PipesKnown'
    BY <2>2, <2>8 DEF TypeInv, PipesKnown, AnswerAt, Grown, entry, wireVars
  <2> QED
    BY <2>10, <2>11, <2>12 DEF TypeInv
<1> QED
  BY <1>1, <1>2, <1>3 DEF Request

\* The kick-off.
LEMMA KickOffFindType ==
    ASSUME TypeInv, KickOffFind
    PROVE  TypeInv'
<1> USE DEF trackerVars, linkVars, wireVars, jobVars, sceneVars
<1>1. TypeOK'
  <2>1. pos \in [round : 1 .. 2, index : Nat, pipe : Nat]
    BY DEF TypeInv, TypeOK
  <2>2. pos' \in [round : 1 .. 2, index : Nat, pipe : Nat]
    BY <2>1 DEF KickOffFind
  <2> QED
    BY <2>2 DEF TypeInv, TypeOK, TrackerTypeOK, LinkTypeOK, KickOffFind
<1>2. Places'
  <2>1. pos.index \in DOMAIN hostWorkers /\ pos.pipe = 0
    <3>1. pos.index \in Nat /\ hostWorkers \in Seq(Hosts)
      BY DEF TypeInv, TypeOK, TrackerTypeOK
    <3> QED
      BY <3>1, LenProperties DEF TypeInv, Places, KickOffFind
  <2>2. hostWorkers[pos.index] \in Hosts
    BY <2>1 DEF TypeInv, TypeOK, TrackerTypeOK
  <2>3. 0 \in Pipelines(hostWorkers[pos.index])
    BY <2>2, SlotFacts
  <2>4. pos \in [round : 1 .. 2, index : Nat, pipe : Nat] /\ pos.index >= 1
    BY DEF TypeInv, TypeOK, Places
  <2> QED
    BY <2>1, <2>3, <2>4 DEF TypeInv, Places, KickOffFind
<1>3. Bounded' /\ PipesKnown'
  BY DEF TypeInv, Bounded, PipesKnown, AnswerAt, KickOffFind
<1> QED
  BY <1>1, <1>2, <1>3 DEF TypeInv

LEMMA KickOffNextRoundType ==
    ASSUME TypeInv, KickOffNextRound
    PROVE  TypeInv'
<1> USE DEF KickOffNextRound, Rounds, Start, trackerVars, linkVars, wireVars, jobVars
<1>1. TypeOK'
  <2>1. pos.round \in 1 .. 2
    BY DEF TypeInv, TypeOK
  <2>2. pos' \in [round : 1 .. 2, index : Nat, pipe : Nat]
    BY <2>1
  <2>3. pc' \in {"idle", "find"} /\ ack' \in {"none", "accepted", "rejected"}
    BY DEF TypeInv, TypeOK
  <2> QED
    BY <2>2, <2>3 DEF TypeInv, TypeOK, TrackerTypeOK, LinkTypeOK
<1>2. Places' /\ Bounded' /\ PipesKnown'
  BY DEF TypeInv, TypeOK, Places, Bounded, PipesKnown, AnswerAt
<1> QED
  BY <1>1, <1>2 DEF TypeInv

LEMMA KickOffAssignType ==
    ASSUME TypeInv, KickOffAssign
    PROVE  TypeInv'
<1> DEFINE h == hostWorkers[pos.index]
           s == <<h, pos.pipe>>
<1>1. /\ pc = "assign"
      /\ RequestFault(s, current < NumPixels) = "none"
      /\ \/ current < NumPixels /\ SendNextJob(s, workload)
         \/ current >= NumPixels /\ SendRequest(s, 0, 0)
            /\ UNCHANGED <<trackerVars, current, pending>>
      /\ \/ pos.pipe + 1 < NumPipelines[h]
            /\ pos' = [pos EXCEPT !.pipe = @ + 1] /\ UNCHANGED pc
         \/ pos.pipe + 1 >= NumPipelines[h]
            /\ pos' = [pos EXCEPT !.index = @ + 1, !.pipe = 0] /\ pc' = "find"
      /\ UNCHANGED <<workload, failed, slot, sceneVars, msgQ>>
  BY DEF KickOffAssign
<1>2. /\ pos.index \in DOMAIN hostWorkers
      /\ h \in Hosts /\ pos.pipe \in Pipelines(h) /\ s \in Slots
      /\ workload \in Nat \ {0}
  <2>1. pos.index \in DOMAIN hostWorkers /\ pos.pipe \in Pipelines(h)
    BY <1>1 DEF TypeInv, Places
  <2>2. h \in Hosts
    BY <2>1 DEF TypeInv, TypeOK, TrackerTypeOK
  <2>3. s \in Slots
    BY <2>1, <2>2, SlotFacts
  <2>4. workload \in Nat \ {0}
    BY <1>1 DEF TypeInv, TypeOK, Places
  <2> QED
    BY <2>1, <2>2, <2>3, <2>4
<1> HIDE DEF s
<1>3. /\ TrackerTypeOK' /\ LinkTypeOK'
      /\ pending' \in 0 .. UIntMod - 1
      /\ current' \in Nat /\ current' <= NumPixels
      /\ UNCHANGED <<hostWorkers, lookup, maxRate, resp>>
  <2>1. current \in Nat /\ current <= NumPixels
    BY DEF TypeInv, TypeOK, Bounded
  <2>2. CASE current < NumPixels
    <3>1. RequestFault(s, TRUE) = "none" /\ SendNextJob(s, workload)
      BY <1>1, <2>1, <2>2, TrackerAssumption DEF RequestFault
    <3>2. /\ TrackerTypeOK' /\ LinkTypeOK'
          /\ pending' \in 0 .. UIntMod - 1
          /\ RefillSize(s[1], workload) \in 1 .. NumPixels - current
          /\ current' = current + RefillSize(s[1], workload)
          /\ UNCHANGED <<hostWorkers, lookup, total, maxRate, link, briefed,
                         shipped, wireVars>>
      BY <1>2, <2>2, <3>1, SendNextJobType
    <3> QED
      BY <2>1, <3>2, TrackerAssumption DEF wireVars
  <2>3. CASE ~(current < NumPixels)
    <3>1. SendRequest(s, 0, 0) /\ UNCHANGED <<trackerVars, current, pending>>
      BY <1>1, <2>3
    <3>2. LinkTypeOK'
      BY <1>2, <3>1, SendRequestType DEF TypeInv, TypeOK
    <3> QED
      BY <2>1, <3>1, <3>2
         DEF TypeInv, TypeOK, TrackerTypeOK, trackerVars, SendRequest, wireVars
  <2> QED
    BY <2>2, <2>3
<1>4. /\ pos' \in [round : 1 .. 2, index : Nat, pipe : Nat]
      /\ pos'.index >= 1
      /\ pc' \in {"assign", "find"}
      /\ pc' = "assign" => pos'.index = pos.index /\ pos'.pipe \in Pipelines(h)
      /\ pc' = "find" => pos'.pipe = 0
  <2>1. pos \in [round : 1 .. 2, index : Nat, pipe : Nat] /\ pos.index >= 1
    BY DEF TypeInv, TypeOK, Places
  <2>2. NumPipelines[h] \in Nat \ {0}
    BY <1>2, SlotFacts
  <2> HIDE DEF h
  <2>3. CASE pos.pipe + 1 < NumPipelines[h] /\ pos' = [pos EXCEPT !.pipe = @ + 1] /\ UNCHANGED pc
    BY <1>1, <2>1, <2>2, <2>3 DEF Pipelines
  <2>4. CASE pos' = [pos EXCEPT !.index = @ + 1, !.pipe = 0] /\ pc' = "find"
    <3>1. pos' = [round |-> pos.round, index |-> pos.index + 1, pipe |-> 0]
      BY <2>1, <2>4
    <3> QED
      BY <2>1, <2>4, <3>1
  <2> QED
    BY <1>1, <2>3, <2>4
<1>5. TypeOK'
  BY <1>1, <1>3, <1>4 DEF TypeInv, TypeOK, sceneVars
<1>6. Places'
  <2>1. pc' = "assign" => /\ pos'.index \in DOMAIN hostWorkers'
                          /\ pos'.pipe \in Pipelines(hostWorkers'[pos'.index])
    BY <1>2, <1>3, <1>4
  <2>2. workload' >= 1
    BY <1>1, <1>2
  <2> QED
    BY <1>4, <2>1, <2>2 DEF Places
<1>7. Bounded' /\ PipesKnown'
  BY <1>1, <1>3 DEF TypeInv, Bounded, PipesKnown, AnswerAt
<1> QED
  BY <1>5, <1>6, <1>7 DEF TypeInv

\* The answer that is first in the queue, and what handling it makes of the
\* counter and the tracked jobs.
LEMMA AnswerHead ==
    ASSUME TypeInv, NEW b \in BOOLEAN, Handle("answer", b)
    PROVE  /\ msgQ # <<>> /\ msgQ' = Tail(msgQ)
           /\ msgQ' \in Seq(Answers \cup Exceptions)
           /\ pc = "idle"
           /\ Head(msgQ).host \in Hosts /\ Head(msgQ).tag \in Tags
           /\ Head(msgQ).off \in Nat /\ Head(msgQ).cnt \in Nat
           /\ AnswerSlot \in Slots
           /\ PendingAfter \in 0 .. UIntMod - 1
<1>1. /\ msgQ # <<>> /\ msgQ' = Tail(msgQ) /\ Head(msgQ).kind = "answer"
      /\ pc = "idle"
  BY DEF Handle
<1>2. TypeOK /\ PipesKnown
  BY DEF TypeInv
<1>3. Tail(msgQ) \in Seq(Answers \cup Exceptions)
  BY <1>1, <1>2, TailFacts
<1>4. PendingAfter \in 0 .. UIntMod - 1
  <2>1. pending \in 0 .. UIntMod - 1
    BY <1>2 DEF TypeOK
  <2>2. (pending - 1) % UIntMod \in 0 .. UIntMod - 1
    BY <2>1, TrackerAssumption
  <2> QED
    BY <2>1, <2>2 DEF PendingAfter
<1> QED
  BY <1>1, <1>2, <1>3, <1>4, HeadFacts

LEMMA FreedTagResp ==
    ASSUME NEW h, NEW t, FreeAppTag(h, t)
    PROVE  resp' = resp
BY DEF FreeAppTag, wireVars

\* The parts of the invariant, once an answer has been taken off the queue.
LEMMA AnsweredType ==
    ASSUME TypeInv, TrackerTypeOK', LinkTypeOK',
           msgQ # <<>>, msgQ' = Tail(msgQ),
           msgQ' \in Seq(Answers \cup Exceptions),
           pending' \in 0 .. UIntMod - 1,
           failed' \in SUBSET Jobs, cleaned' \in SUBSET Hosts,
           scene' \in {"none", "rejected", "running", "finished"},
           \/ pc' = "idle" /\ slot' = slot
           \/ pc' = "refill" /\ slot' \in Slots /\ current < NumPixels,
           UNCHANGED <<lookup, maxRate, current, workload, pos, ack, fault, resp>>
    PROVE  TypeInv'
<1>1. TypeOK'
  <2>1. slot' \in Slots \cup {NoSlot} /\ pc' \in {"idle", "find", "assign", "refill"}
    BY DEF TypeInv, TypeOK
  <2> QED
    BY <2>1 DEF TypeInv, TypeOK
<1>2. Places' /\ Bounded'
  BY DEF TypeInv, Places, Bounded
<1>3. PipesKnown'
  BY TailPipes DEF TypeInv
<1> QED
  BY <1>1, <1>2, <1>3 DEF TypeInv

LEMMA AnswerThenRefillType ==
    ASSUME TypeInv, AnswerThenRefill
    PROVE  TypeInv'
<1>1. /\ Handle("answer", TRUE)
      /\ ~AllHandedOut
      /\ NotifyJobDone(AnswerSlot, Head(msgQ).off)
      /\ FreeAppTag(Head(msgQ).host, Head(msgQ).tag)
      /\ pending' = PendingAfter /\ slot' = AnswerSlot /\ pc' = "refill"
      /\ UNCHANGED <<current, workload, failed, pos, scene, ack, cleaned, fault>>
  BY DEF AnswerThenRefill, sceneVars
<1>2. /\ msgQ # <<>> /\ msgQ' = Tail(msgQ)
      /\ msgQ' \in Seq(Answers \cup Exceptions)
      /\ Head(msgQ).host \in Hosts /\ Head(msgQ).tag \in Tags
      /\ AnswerSlot \in Slots
      /\ pending' \in 0 .. UIntMod - 1
  BY <1>1, AnswerHead
<1>3. TrackerTypeOK /\ LinkTypeOK
  BY DEF TypeInv, TypeOK
<1>4. TrackerTypeOK' /\ UNCHANGED <<hostWorkers, lookup, maxRate>>
  BY <1>1, <1>2, <1>3, JobDoneType
<1>5. LinkTypeOK' /\ resp' = resp
  BY <1>1, <1>2, <1>3, FreeAppTagType, FreedTagResp
<1>6. current < NumPixels
  <2>1. current \in Nat /\ current # NumPixels /\ current <= NumPixels
    BY <1>1 DEF AllHandedOut, TypeInv, TypeOK, Bounded
  <2> QED
    BY <2>1, TrackerAssumption
<1>7. /\ failed' \in SUBSET Jobs /\ cleaned' \in SUBSET Hosts
      /\ scene' \in {"none", "rejected", "running", "finished"}
  BY <1>1 DEF TypeInv, TypeOK
<1> QED
  BY <1>1, <1>2, <1>4, <1>5, <1>6, <1>7, AnsweredType

LEMMA AnswerThenRedispatchType ==
    ASSUME TypeInv, AnswerThenRedispatch
    PROVE  TypeInv'
<1>1. /\ Handle("answer", TRUE)
      /\ failed # {}
      /\ tracked' = [Untracked(AnswerSlot, Head(msgQ).off) EXCEPT
                        ![AnswerSlot] = @ \cup {FirstFailed}]
      /\ SendRequest(AnswerSlot, FirstFailed.off, FirstFailed.cnt)
      /\ pending' = (PendingAfter + 1) % UIntMod
      /\ failed' = failed \ {FirstFailed}
      /\ UNCHANGED <<hostWorkers, lookup, total, maxRate, current, workload,
                     pc, pos, slot, scene, ack, cleaned, fault>>
  BY DEF AnswerThenRedispatch, Assign, placeVars, sceneVars
<1>2. /\ msgQ # <<>> /\ msgQ' = Tail(msgQ)
      /\ msgQ' \in Seq(Answers \cup Exceptions)
      /\ pc = "idle"
      /\ AnswerSlot \in Slots
      /\ PendingAfter \in 0 .. UIntMod - 1
  BY <1>1, AnswerHead
<1>3. TrackerTypeOK /\ LinkTypeOK /\ failed \in SUBSET Jobs
  BY DEF TypeInv, TypeOK
<1>4. FirstFailed \in failed /\ FirstFailed \in Jobs
  BY <1>1, <1>3, FirstFailedIn
<1>5. FirstFailed.off \in Nat /\ FirstFailed.cnt \in Nat
  BY <1>4 DEF Jobs
<1>6. LinkTypeOK' /\ resp' = resp
  <2>1. LinkTypeOK'
    BY <1>1, <1>2, <1>3, <1>5, SendRequestType
  <2>2. resp' = resp
    BY <1>1 DEF SendRequest, wireVars
  <2> QED
    BY <2>1, <2>2
<1>7. TrackerTypeOK'
  <2>1. Untracked(AnswerSlot, Head(msgQ).off) \in [Slots -> SUBSET Jobs]
    BY <1>2, <1>3, UntrackedType
  <2>2. tracked' \in [Slots -> SUBSET Jobs]
    BY <1>1, <1>2, <1>4, <2>1
  <2> QED
    BY <1>1, <1>3, <2>2 DEF TrackerTypeOK
<1>8. pending' \in 0 .. UIntMod - 1
  BY <1>1, <1>2, TrackerAssumption
<1>9. /\ failed' \in SUBSET Jobs /\ cleaned' \in SUBSET Hosts
      /\ scene' \in {"none", "rejected", "running", "finished"}
  BY <1>1, <1>3 DEF TypeInv, TypeOK
<1> QED
  BY <1>1, <1>2, <1>6, <1>7, <1>8, <1>9, AnsweredType

LEMMA AnswerThenFinishType ==
    ASSUME TypeInv, AnswerThenFinish
    PROVE  TypeInv'
<1>1. /\ Handle("answer", TRUE)
      /\ NotifyJobDone(AnswerSlot, Head(msgQ).off)
      /\ FreeAppTag(Head(msgQ).host, Head(msgQ).tag)
      /\ pending' = PendingAfter /\ cleaned' = Listed /\ scene' = "finished"
      /\ UNCHANGED <<current, workload, failed, pc, pos, slot, ack, fault>>
  BY DEF AnswerThenFinish, placeVars
<1>2. /\ msgQ # <<>> /\ msgQ' = Tail(msgQ)
      /\ msgQ' \in Seq(Answers \cup Exceptions)
      /\ pc = "idle"
      /\ Head(msgQ).host \in Hosts /\ Head(msgQ).tag \in Tags
      /\ AnswerSlot \in Slots
      /\ pending' \in 0 .. UIntMod - 1
  BY <1>1, AnswerHead
<1>3. TrackerTypeOK /\ LinkTypeOK
  BY DEF TypeInv, TypeOK
<1>4. TrackerTypeOK' /\ UNCHANGED <<hostWorkers, lookup, maxRate>>
  BY <1>1, <1>2, <1>3, JobDoneType
<1>5. LinkTypeOK' /\ resp' = resp
  BY <1>1, <1>2, <1>3, FreeAppTagType, FreedTagResp
<1>6. failed' \in SUBSET Jobs
  BY <1>1 DEF TypeInv, TypeOK
<1>7. cleaned' \in SUBSET Hosts
  BY <1>1, <1>3 DEF TrackerTypeOK, Listed, Range
<1> QED
  BY <1>1, <1>2, <1>4, <1>5, <1>6, <1>7, AnsweredType

LEMMA AnswerThenWaitType ==
    ASSUME TypeInv, AnswerThenWait
    PROVE  TypeInv'
<1>1. /\ Handle("answer", TRUE)
      /\ NotifyJobDone(AnswerSlot, Head(msgQ).off)
      /\ pending' = PendingAfter
      /\ UNCHANGED linkVars
      /\ UNCHANGED <<current, workload, failed, pc, pos, slot, scene, ack,
                     cleaned, fault>>
  BY DEF AnswerThenWait, placeVars, sceneVars
<1>2. /\ msgQ # <<>> /\ msgQ' = Tail(msgQ)
      /\ msgQ' \in Seq(Answers \cup Exceptions)
      /\ pc = "idle"
      /\ AnswerSlot \in Slots
      /\ pending' \in 0 .. UIntMod - 1
  BY <1>1, AnswerHead
<1>3. TrackerTypeOK /\ LinkTypeOK
  BY DEF TypeInv, TypeOK
<1>4. TrackerTypeOK' /\ UNCHANGED <<hostWorkers, lookup, maxRate>>
  BY <1>1, <1>2, <1>3, JobDoneType
<1>5. LinkTypeOK' /\ resp' = resp
  BY <1>1, <1>3 DEF LinkTypeOK, linkVars, wireVars
<1>6. /\ failed' \in SUBSET Jobs /\ cleaned' \in SUBSET Hosts
      /\ scene' \in {"none", "rejected", "running", "finished"}
  BY <1>1 DEF TypeInv, TypeOK
<1> QED
  BY <1>1, <1>2, <1>4, <1>5, <1>6, AnsweredType

LEMMA DetachedAnswerType ==
    ASSUME TypeInv, HandleDetachedAnswer
    PROVE  TypeInv'
<1>1. /\ Handle("answer", FALSE)
      /\ UNCHANGED trackerVars /\ UNCHANGED linkVars
      /\ UNCHANGED <<current, pending, workload, failed, pc, pos, slot, scene,
                     ack, cleaned, fault>>
  BY DEF HandleDetachedAnswer, jobVars, placeVars, sceneVars
<1>2. /\ msgQ # <<>> /\ msgQ' = Tail(msgQ)
      /\ msgQ' \in Seq(Answers \cup Exceptions)
      /\ pc = "idle"
  BY <1>1, AnswerHead
<1>3. TrackerTypeOK' /\ UNCHANGED <<hostWorkers, lookup, maxRate>>
  BY <1>1 DEF TypeInv, TypeOK, TrackerTypeOK, trackerVars
<1>4. LinkTypeOK' /\ resp' = resp
  BY <1>1 DEF TypeInv, TypeOK, LinkTypeOK, linkVars, wireVars
<1>5. /\ failed' \in SUBSET Jobs /\ cleaned' \in SUBSET Hosts
      /\ scene' \in {"none", "rejected", "running", "finished"}
      /\ pending' \in 0 .. UIntMod - 1
  BY <1>1 DEF TypeInv, TypeOK
<1> QED
  BY <1>1, <1>2, <1>3, <1>4, <1>5, AnsweredType

\* An answer is handled.
LEMMA AnswerType ==
    ASSUME TypeInv,
           \/ AnswerThenRefill \/ AnswerThenRedispatch \/ AnswerThenFinish
           \/ AnswerThenWait \/ AnswerDies \/ HandleDetachedAnswer
    PROVE  TypeInv'
<1>1. CASE AnswerDies
  <2>1. AnswerFault \in Faults
    BY DEF AnswerFault, RequestFault, Faults
  <2> QED
    BY <1>1, <2>1, DieType DEF AnswerDies
<1> QED
  BY <1>1, AnswerThenRefillType, AnswerThenRedispatchType, AnswerThenFinishType,
     AnswerThenWaitType, DetachedAnswerType

\* The rest of a refill, and the deaths while handing out jobs.
LEMMA RefillType ==
    ASSUME TypeInv, Refill \/ SendDies
    PROVE  TypeInv'
<1>1. CASE SendDies
  <2>1. SendFault \in Faults
    <3>1. \A s, work : RequestFault(s, work) \in Faults
      BY DEF RequestFault, Faults
    <3>2. "none" \in Faults /\ "null connection" \in Faults
      BY DEF Faults
    <3> QED
      BY <3>1, <3>2 DEF SendFault
  <2> QED
    BY <1>1, <2>1, DieType DEF SendDies
<1>2. CASE Refill
  <2>1. /\ slot \in Slots /\ current < NumPixels /\ pc = "refill"
        /\ current \in Nat /\ workload \in Nat
    BY <1>2 DEF Refill, TypeInv, TypeOK, Places
  <2>2. /\ pc' = "idle" /\ slot' = NoSlot
        /\ UNCHANGED <<pos, sceneVars, msgQ>>
    BY <1>2 DEF Refill
  <2>3. /\ TrackerTypeOK' /\ LinkTypeOK'
        /\ pending' \in 0 .. UIntMod - 1
        /\ current' \in Nat /\ current' <= NumPixels
        /\ workload' \in Nat
        /\ failed' \in SUBSET Jobs
        /\ UNCHANGED <<hostWorkers, lookup, maxRate, resp>>
    <3>1. CASE failed # {}
      <4>1. /\ TrackJob(slot, FirstFailed)
            /\ Assign(slot, FirstFailed.off, FirstFailed.cnt, pending)
            /\ failed' = failed \ {FirstFailed}
            /\ UNCHANGED <<current, workload>>
        BY <1>2, <3>1 DEF Refill
      <4>2. FirstFailed \in Jobs
        BY <3>1, FirstFailedIn DEF TypeInv, TypeOK
      <4>3. /\ SendRequest(slot, FirstFailed.off, FirstFailed.cnt)
            /\ pending' = (pending + 1) % UIntMod
        BY <4>1 DEF Assign
      <4>4. LinkTypeOK'
        BY <2>1, <4>2, <4>3, SendRequestType DEF TypeInv, TypeOK, Jobs
      <4>5. TrackerTypeOK'
        BY <2>1, <4>1, <4>2 DEF TrackJob, TypeInv, TypeOK, TrackerTypeOK
      <4>6. pending' \in 0 .. UIntMod - 1
        BY <4>3, TrackerAssumption DEF TypeInv, TypeOK
      <4>7. UNCHANGED <<hostWorkers, lookup, maxRate, resp>>
        BY <4>1, <4>3 DEF TrackJob, SendRequest, wireVars
      <4> QED
        BY <2>1, <4>1, <4>4, <4>5, <4>6, <4>7 DEF TypeInv, TypeOK, Bounded
    <3>2. CASE failed = {}
      <4>1. /\ workload' = MaxOf((workload * Decay) \div 10000, ChunkMin)
            /\ SendNextJob(slot, workload')
            /\ UNCHANGED failed
        BY <1>2, <3>2 DEF Refill
      <4>2. RequestFault(slot, TRUE) = "none"
        BY <1>2, <3>2 DEF Refill, RequestFault
      <4>3. workload' \in Nat \ {0}
        <5>1. workload * Decay \in Nat
          BY <2>1, SchedulerAssumption
        <5>2. (workload * Decay) \div 10000 \in Nat
          BY <5>1
        <5> QED
          BY <4>1, <5>2, TrackerAssumption DEF MaxOf
      <4>4. /\ TrackerTypeOK' /\ LinkTypeOK'
            /\ pending' \in 0 .. UIntMod - 1
            /\ RefillSize(slot[1], workload') \in 1 .. NumPixels - current
            /\ current' = current + RefillSize(slot[1], workload')
            /\ UNCHANGED <<hostWorkers, lookup, total, maxRate, link, briefed,
                           shipped, wireVars>>
        <5>1. PICK w \in Nat \ {0} : w = workload'
          BY <4>3
        <5>2. SendNextJob(slot, w)
          BY <4>1, <5>1
        <5>3. /\ TrackerTypeOK' /\ LinkTypeOK'
              /\ pending' \in 0 .. UIntMod - 1
              /\ RefillSize(slot[1], w) \in 1 .. NumPixels - current
              /\ current' = current + RefillSize(slot[1], w)
              /\ UNCHANGED <<hostWorkers, lookup, total, maxRate, link, briefed,
                             shipped, wireVars>>
          BY <2>1, <4>2, <5>2, SendNextJobType
        <5> QED
          BY <5>1, <5>3
      <4> QED
        BY <2>1, <4>1, <4>3, <4>4, TrackerAssumption DEF wireVars, TypeInv, TypeOK
    <3> QED
      BY <3>1, <3>2
  <2>4. TypeOK'
    BY <2>2, <2>3 DEF TypeInv, TypeOK, sceneVars
  <2>5. Places' /\ Bounded' /\ PipesKnown'
    BY <2>2, <2>3 DEF TypeInv, Places, Bounded, PipesKnown, AnswerAt
  <2> QED
    BY <2>4, <2>5 DEF TypeInv
<1> QED
  BY <1>1, <1>2

\* A null connection ends the process.
LEMMA ExceptionDiesType ==
    ASSUME TypeInv, ExceptionDies
    PROVE  TypeInv'
<1>1. "null connection" \in Faults
  BY DEF Faults
<1> QED
  BY <1>1, DieType DEF ExceptionDies

\* Only the state of one link changes.
LEMMA NotedType ==
    ASSUME LinkTypeOK, NEW h \in Hosts, NoteFailure(h)
    PROVE  LinkTypeOK'
<1>1. link' \in [Hosts -> LinkStates]
  BY DEF LinkTypeOK, LinkStates, NoteFailure
<1>2. UNCHANGED <<freeTags, routed, todo, briefed, shipped, wireVars>>
  BY DEF NoteFailure
<1> QED
  BY <1>1, <1>2 DEF LinkTypeOK, wireVars

\* The parts of the invariant, when the scheduler's thread stays where it is.
LEMMA QuietType ==
    ASSUME TypeInv, TrackerTypeOK', LinkTypeOK', PipesKnown',
           msgQ' \in Seq(Answers \cup Exceptions), failed' \in SUBSET Jobs,
           lookup' \subseteq lookup, maxRate' = maxRate,
           hostWorkers' = hostWorkers \/ pc = "idle",
           UNCHANGED <<current, pending, workload, pc, pos, slot, scene, ack,
                       cleaned, fault>>
    PROVE  TypeInv'
<1>1. TypeOK'
  BY DEF TypeInv, TypeOK
<1>2. Places'
  BY DEF TypeInv, Places
<1>3. Bounded'
  BY DEF TypeInv, Bounded
<1> QED
  BY <1>1, <1>2, <1>3 DEF TypeInv

\* Exceptions are put behind the queue.
LEMMA GrownPipes ==
    ASSUME PipesKnown, NEW q, NEW e, e.kind = "exception", Grown(msgQ', q, e),
           q = msgQ \/ \A i \in DOMAIN q : i + 1 \in DOMAIN msgQ /\ q[i] = msgQ[i + 1],
           resp' = resp
    PROVE  PipesKnown'
<1>1. ASSUME NEW i \in DOMAIN msgQ', msgQ'[i].kind = "answer"
      PROVE  \E k \in DOMAIN msgQ : msgQ'[i] = msgQ[k]
  <2>1. i \in DOMAIN q /\ msgQ'[i] = q[i]
    BY <1>1 DEF Grown
  <2>2. CASE q = msgQ
    BY <2>1, <2>2
  <2>3. CASE \A n \in DOMAIN q : n + 1 \in DOMAIN msgQ /\ q[n] = msgQ[n + 1]
    BY <2>1, <2>3
  <2> QED
    BY <2>2, <2>3
<1> QED
  BY <1>1 DEF PipesKnown, AnswerAt

LEMMA ClosedResp ==
    ASSUME NEW h, NEW q, Close(h, q)
    PROVE  resp' = resp
BY DEF Close, wireVars

\* The exception of a connection that the scheduler handles itself.
LEMMA HandleExceptionType ==
    ASSUME TypeInv, HandleException
    PROVE  TypeInv'
<1> DEFINE h == Head(msgQ).host
<1>1. /\ msgQ # <<>> /\ msgQ' = Tail(msgQ) /\ pc = "idle"
      /\ Head(msgQ).kind = "exception" /\ h # NoHost
      /\ failed' = IF h \in Listed THEN WithFailed(failed, JobsOf(h)) ELSE failed
      /\ RemoveFailedJobs(h)
      /\ UNCHANGED linkVars
      /\ UNCHANGED <<current, pending, workload, pc, pos, slot, scene, ack,
                     cleaned, fault>>
  BY DEF HandleException, Handle, placeVars, sceneVars
<1>2. TypeOK /\ PipesKnown /\ TrackerTypeOK /\ LinkTypeOK /\ failed \in SUBSET Jobs
  BY DEF TypeInv, TypeOK
<1>3. h \in Hosts
  BY <1>1, <1>2, HeadFacts
<1> HIDE DEF h
<1>4. JobsOf(h) \in SUBSET Jobs
  <2>1. tracked \in [Slots -> SUBSET Jobs]
    BY <1>2 DEF TrackerTypeOK
  <2>2. \A p \in Pipelines(h) : <<h, p>> \in Slots
    BY <1>3, SlotFacts
  <2> QED
    BY <2>1, <2>2 DEF JobsOf
<1>5. failed' \in SUBSET Jobs
  BY <1>1, <1>2, <1>4 DEF WithFailed
<1>6. TrackerTypeOK' /\ lookup' \subseteq lookup /\ maxRate' = maxRate
  <2>1. CASE h \in Listed
    <3>1. /\ tracked' = [s \in Slots |-> IF s[1] = h THEN {} ELSE tracked[s]]
          /\ RemoveHost(h)
          /\ UNCHANGED <<total, maxRate>>
      BY <1>1, <2>1 DEF RemoveFailedJobs
    <3>2. /\ hostWorkers' \in Seq(Hosts)
          /\ lookup' \in SUBSET Hosts
          /\ lookup' \subseteq lookup
      BY <1>2, <2>1, <3>1, RemoveHostFacts
    <3>3. tracked' \in [Slots -> SUBSET Jobs]
      BY <1>2, <3>1 DEF TrackerTypeOK
    <3> QED
      BY <1>2, <3>1, <3>2, <3>3 DEF TrackerTypeOK
  <2>2. CASE h \notin Listed
    BY <1>1, <1>2, <2>2 DEF RemoveFailedJobs, trackerVars, TrackerTypeOK
  <2> QED
    BY <2>1, <2>2
<1>7. LinkTypeOK' /\ resp' = resp
  BY <1>1, <1>2 DEF LinkTypeOK, linkVars, wireVars
<1>8. msgQ' \in Seq(Answers \cup Exceptions) /\ PipesKnown'
  BY <1>1, <1>2, <1>7, TailFacts, TailPipes
<1> QED
  BY <1>1, <1>5, <1>6, <1>7, <1>8, QuietType

\* The exception of a connection that a master thread takes for a new one.
LEMMA DetachedExceptionType ==
    ASSUME TypeInv, HandleDetachedException
    PROVE  TypeInv'
<1> DEFINE h == Head(msgQ).host
           q == Tail(msgQ)
           e == [kind |-> "exception", cmd |-> Attached,
                 host |-> IF Connected(h) THEN h ELSE NoHost]
<1>1. /\ msgQ # <<>> /\ Head(msgQ).kind = "exception" /\ h # NoHost
      /\ NotifyHostFailure(h)
      /\ Close(h, q)
      /\ UNCHANGED <<current, pending, workload, failed, pc, pos, slot, scene,
                     ack, cleaned, fault>>
  BY DEF HandleDetachedException, jobVars, placeVars, sceneVars
<1>2. TypeOK /\ PipesKnown /\ TrackerTypeOK /\ failed \in SUBSET Jobs
  BY DEF TypeInv, TypeOK
<1>3. h \in Hosts
  BY <1>1, <1>2, HeadFacts
<1>4. /\ q \in Seq(Answers \cup Exceptions)
      /\ \A i \in DOMAIN q : i + 1 \in DOMAIN msgQ /\ q[i] = msgQ[i + 1]
  BY <1>1, <1>2, TailFacts
<1> HIDE DEF h, q
<1>5. /\ msgQ' \in Seq(Answers \cup Exceptions)
      /\ LinkTypeOK'
      /\ Grown(msgQ', q, e)
  BY <1>1, <1>2, <1>3, <1>4, CloseFacts
<1>6. resp' = resp
  BY <1>1, ClosedResp
<1>7. e.kind = "exception"
  OBVIOUS
<1> HIDE DEF e
<1>8. PipesKnown'
  BY <1>2, <1>4, <1>5, <1>6, <1>7, GrownPipes
<1>9. TrackerTypeOK' /\ UNCHANGED <<hostWorkers, lookup, maxRate>>
  BY <1>1, <1>2, <1>3, HostFailureType
<1> QED
  BY <1>1, <1>2, <1>5, <1>8, <1>9, QuietType

LEMMA NoteFailureType ==
    ASSUME TypeInv, NEW h \in Hosts, NoteFailure(h)
    PROVE  TypeInv'
<1>1. /\ NotifyHostFailure(h)
      /\ resp' = resp /\ msgQ' = msgQ
      /\ UNCHANGED <<current, pending, workload, failed, pc, pos, slot, scene,
                     ack, cleaned, fault>>
  BY DEF NoteFailure, wireVars, jobVars, placeVars, sceneVars
<1>2. /\ TrackerTypeOK /\ LinkTypeOK /\ PipesKnown
      /\ msgQ \in Seq(Answers \cup Exceptions) /\ failed \in SUBSET Jobs
  BY DEF TypeInv, TypeOK
<1>3. TrackerTypeOK' /\ UNCHANGED <<hostWorkers, lookup, maxRate>>
  BY <1>1, <1>2, HostFailureType
<1>4. LinkTypeOK'
  BY <1>2, NotedType
<1>5. PipesKnown'
  BY <1>1, <1>2 DEF PipesKnown, AnswerAt
<1> QED
  BY <1>1, <1>2, <1>3, <1>4, <1>5, QuietType

LEMMA CloseConnectionType ==
    ASSUME TypeInv, NEW h \in Hosts, CloseConnection(h)
    PROVE  TypeInv'
<1> DEFINE e == [kind |-> "exception", cmd |-> Attached,
                 host |-> IF Connected(h) THEN h ELSE NoHost]
<1>1. /\ Close(h, msgQ)
      /\ UNCHANGED trackerVars
      /\ UNCHANGED <<current, pending, workload, failed, pc, pos, slot, scene,
                     ack, cleaned, fault>>
  BY DEF CloseConnection, jobVars, placeVars, sceneVars
<1>2. /\ TypeOK /\ TrackerTypeOK /\ PipesKnown
      /\ msgQ \in Seq(Answers \cup Exceptions) /\ failed \in SUBSET Jobs
  BY DEF TypeInv, TypeOK
<1>3. /\ msgQ' \in Seq(Answers \cup Exceptions)
      /\ LinkTypeOK'
      /\ Grown(msgQ', msgQ, e)
  BY <1>1, <1>2, CloseFacts
<1>4. resp' = resp
  BY <1>1, ClosedResp
<1>5. e.kind = "exception"
  OBVIOUS
<1> HIDE DEF e
<1>6. PipesKnown'
  BY <1>2, <1>3, <1>4, <1>5, GrownPipes
<1>7. TrackerTypeOK' /\ UNCHANGED <<hostWorkers, lookup, maxRate>>
  BY <1>1, <1>2 DEF TrackerTypeOK, trackerVars
<1> QED
  BY <1>1, <1>2, <1>3, <1>6, <1>7, QuietType

\* A connection fails.
LEMMA ExceptionType ==
    ASSUME TypeInv,
           \/ HandleException \/ HandleDetachedException \/ ExceptionDies
           \/ \E h \in Hosts : NoteFailure(h) \/ CloseConnection(h)
    PROVE  TypeInv'
BY HandleExceptionType, DetachedExceptionType, ExceptionDiesType,
   NoteFailureType, CloseConnectionType

\* A response is read from the connection.
LEMMA ReceiveType ==
    ASSUME TypeInv, NEW h \in Hosts, Receive(h)
    PROVE  TypeInv'
<1> DEFINE r == Head(resp[h])
           m == [kind |-> "answer", cmd |-> Attached, host |-> h, pipe |-> r.pipe,
                 tag |-> r.tag, off |-> r.off, cnt |-> r.cnt]
<1>1. /\ resp[h] # <<>>
      /\ resp' = [resp EXCEPT ![h] = Tail(@)]
      /\ msgQ' = msgQ \/ msgQ' = Append(msgQ, m)
      /\ UNCHANGED trackerVars
      /\ UNCHANGED <<link, freeTags, routed, todo, briefed, shipped, segments,
                     image, lost>>
      /\ UNCHANGED <<current, pending, workload, failed, pc, pos, slot, scene,
                     ack, cleaned, fault>>
  BY DEF Receive, jobVars, placeVars, sceneVars
<1>2. /\ TrackerTypeOK /\ LinkTypeOK /\ PipesKnown
      /\ msgQ \in Seq(Answers \cup Exceptions) /\ failed \in SUBSET Jobs
  BY DEF TypeInv, TypeOK
<1>3. resp \in [Hosts -> Seq(Responses)] /\ resp[h] \in Seq(Responses)
  BY <1>2 DEF LinkTypeOK
<1>4. /\ Tail(resp[h]) \in Seq(Responses)
      /\ r = resp[h][1] /\ 1 \in DOMAIN resp[h]
      /\ \A i \in DOMAIN Tail(resp[h]) :
             i + 1 \in DOMAIN resp[h] /\ Tail(resp[h])[i] = resp[h][i + 1]
  BY <1>1, <1>3, SeqTail
<1>5. r \in Responses
  BY <1>3, <1>4, ElementOfSeq
<1>6. r.pipe \in Pipelines(h)
  BY <1>2, <1>4 DEF PipesKnown
<1> HIDE DEF r
<1>7. m \in Answers /\ m.host = h /\ m.pipe = r.pipe
  BY <1>5 DEF Answers, Responses, Attached
<1> HIDE DEF m
<1>8. /\ msgQ' \in Seq(Answers \cup Exceptions)
      /\ \A i \in DOMAIN msgQ' : (i \in DOMAIN msgQ /\ msgQ'[i] = msgQ[i]) \/ msgQ'[i] = m
  BY <1>1, <1>2, <1>7, AppendFacts
<1>9. resp' \in [Hosts -> Seq(Responses)]
  BY <1>1, <1>3, <1>4
<1>10. LinkTypeOK'
  BY <1>1, <1>2, <1>9 DEF LinkTypeOK
<1>11. PipesKnown'
  <2>1. ASSUME NEW g \in Hosts, NEW i \in DOMAIN resp'[g]
        PROVE  resp'[g][i].pipe \in Pipelines(g)
    <3>1. CASE g = h
      <4>1. resp'[g] = Tail(resp[h])
        BY <1>1, <1>3, <3>1
      <4> QED
        BY <1>2, <1>4, <2>1, <3>1, <4>1 DEF PipesKnown
    <3>2. CASE g # h
      <4>1. resp'[g] = resp[g]
        BY <1>1, <1>3, <3>2
      <4> QED
        BY <1>2, <2>1, <4>1 DEF PipesKnown
    <3> QED
      BY <3>1, <3>2
  <2>2. ASSUME NEW i \in DOMAIN msgQ', msgQ'[i].kind = "answer"
        PROVE  msgQ'[i].pipe \in Pipelines(msgQ'[i].host)
    <3>1. CASE msgQ'[i] = m
      BY <1>6, <1>7, <3>1
    <3>2. CASE i \in DOMAIN msgQ /\ msgQ'[i] = msgQ[i]
      BY <1>2, <2>2, <3>2 DEF PipesKnown, AnswerAt
    <3> QED
      BY <1>8, <3>1, <3>2
  <2> QED
    BY <2>1, <2>2 DEF PipesKnown, AnswerAt
<1>12. TrackerTypeOK' /\ UNCHANGED <<hostWorkers, lookup, maxRate>>
  BY <1>1, <1>2 DEF TrackerTypeOK, trackerVars
<1> QED
  BY <1>1, <1>2, <1>8, <1>10, <1>11, <1>12, QuietType

LEMMA ReportExceptionType ==
    ASSUME TypeInv, NEW h \in Hosts, ReportException(h)
    PROVE  TypeInv'
<1>1. /\ link' = [link EXCEPT ![h] = "reported"]
      /\ UNCHANGED trackerVars
      /\ UNCHANGED <<freeTags, routed, todo, briefed, shipped, wireVars>>
      /\ msgQ' = msgQ
      /\ UNCHANGED <<current, pending, workload, failed, pc, pos, slot, scene,
                     ack, cleaned, fault>>
  BY DEF ReportException, jobVars, placeVars, sceneVars
<1>2. /\ TrackerTypeOK /\ LinkTypeOK /\ PipesKnown
      /\ msgQ \in Seq(Answers \cup Exceptions) /\ failed \in SUBSET Jobs
  BY DEF TypeInv, TypeOK
<1>3. TrackerTypeOK' /\ UNCHANGED <<hostWorkers, lookup, maxRate>>
  BY <1>1, <1>2 DEF TrackerTypeOK, trackerVars
<1>4. link' \in [Hosts -> LinkStates]
  BY <1>1, <1>2 DEF LinkTypeOK, LinkStates
<1>5. LinkTypeOK' /\ resp' = resp
  BY <1>1, <1>2, <1>4 DEF LinkTypeOK, wireVars
<1>6. PipesKnown'
  BY <1>1, <1>2, <1>5 DEF PipesKnown, AnswerAt
<1> QED
  BY <1>1, <1>2, <1>3, <1>5, <1>6, QuietType

LEMMA RegisterType ==
    ASSUME TypeInv, NEW h \in Hosts, RegisterWorker(h)
    PROVE  TypeInv'
<1> USE TrackerAssumption
<1>1. /\ link' = [link EXCEPT ![h] = "up"]
      /\ AddWorker(h)
      /\ UNCHANGED <<freeTags, routed, todo, briefed, shipped, wireVars, jobVars,
                     placeVars, sceneVars, msgQ>>
  BY DEF RegisterWorker
<1>2. TrackerTypeOK'
  <2>1. total + NumPipelines[h] \in Int
    BY DEF TypeInv, TypeOK, TrackerTypeOK
  <2>2. total' \in 0 .. UIntMod - 1
    BY <1>1, <2>1 DEF AddWorker
  <2>3. maxRate' \in Nat \ {0}
    BY <1>1 DEF AddWorker, MinOf, TypeInv, TypeOK, TrackerTypeOK
  <2> QED
    BY <1>1, <2>2, <2>3 DEF AddWorker, TypeInv, TypeOK, TrackerTypeOK
<1>3. LinkTypeOK'
  BY <1>1 DEF TypeInv, TypeOK, LinkTypeOK, LinkStates, wireVars
<1>4. TypeOK'
  BY <1>1, <1>2, <1>3 DEF TypeInv, TypeOK, jobVars, placeVars, sceneVars
<1>5. Places'
  <2>1. /\ hostWorkers \in Seq(Hosts)
        /\ hostWorkers' = Append(hostWorkers, h)
    BY <1>1 DEF AddWorker, TypeInv, TypeOK, TrackerTypeOK
  <2>2. \A i \in DOMAIN hostWorkers : i \in DOMAIN hostWorkers' /\ hostWorkers'[i] = hostWorkers[i]
    BY <2>1
  <2> QED
    BY <1>1, <2>2 DEF TypeInv, Places, jobVars, placeVars
<1>6. Bounded'
  <2>1. maxRate' = MinOf(maxRate, ProductionTime[h]) /\ lookup' = lookup \cup {h}
    BY <1>1 DEF AddWorker
  <2>2. maxRate \in Nat /\ \A g \in Hosts : ProductionTime[g] \in Nat
    BY DEF TypeInv, TypeOK, TrackerTypeOK
  <2>3. maxRate' <= maxRate /\ maxRate' <= ProductionTime[h] /\ maxRate' \in Nat
    BY <2>1, <2>2 DEF MinOf
  <2>4. \A g \in lookup' : maxRate' <= ProductionTime[g]
    BY <2>1, <2>2, <2>3 DEF TypeInv, TypeOK, TrackerTypeOK, Bounded
  <2> QED
    BY <1>1, <2>4 DEF TypeInv, Bounded, jobVars
<1>7. PipesKnown'
  BY <1>1 DEF TypeInv, PipesKnown, AnswerAt, wireVars
<1> QED
  BY <1>4, <1>5, <1>6, <1>7 DEF TypeInv

\* The receiver thread of a connection, and registration.
LEMMA ConnectionType ==
    ASSUME TypeInv, NEW h \in Hosts,
           Receive(h) \/ ReportException(h) \/ RegisterWorker(h)
    PROVE  TypeInv'
BY ReceiveType, ReportExceptionType, RegisterType

\* The death of a worker cuts off its responses and some of its segments.
LEMMA PerishFacts ==
    ASSUME TypeInv, NEW h \in Hosts, Perish(h)
    PROVE  /\ LinkTypeOK'
           /\ \A g \in Hosts : \A i \in DOMAIN resp'[g] :
                  i \in DOMAIN resp[g] /\ resp'[g][i] = resp[g][i]
<1>1. PICK n \in 0 .. Len(resp[h]) : resp' = [resp EXCEPT ![h] = SubSeq(@, 1, n)]
  BY DEF Perish
<1>2. /\ resp \in [Hosts -> Seq(Responses)] /\ resp[h] \in Seq(Responses)
      /\ Len(resp[h]) \in Nat
      /\ DOMAIN resp[h] = 1 .. Len(resp[h])
  BY LenProperties DEF TypeInv, TypeOK, LinkTypeOK
<1>3. /\ SubSeq(resp[h], 1, n) \in Seq(Responses)
      /\ \A i \in DOMAIN SubSeq(resp[h], 1, n) :
             i \in DOMAIN resp[h] /\ SubSeq(resp[h], 1, n)[i] = resp[h][i]
  <2>1. n \in Int /\ \A i \in 1 .. n : resp[h][i] \in Responses
    BY <1>2, ElementOfSeq
  <2>2. /\ SubSeq(resp[h], 1, n) \in Seq(Responses)
        /\ Len(SubSeq(resp[h], 1, n)) = IF 1 <= n THEN n - 1 + 1 ELSE 0
        /\ \A i \in 1 .. n - 1 + 1 : SubSeq(resp[h], 1, n)[i] = resp[h][1 + i - 1]
    BY <2>1, SubSeqProperties
  <2>3. DOMAIN SubSeq(resp[h], 1, n) = 1 .. n
    BY <2>1, <2>2, LenProperties
  <2> QED
    BY <1>2, <2>2, <2>3
<1>4. /\ resp' \in [Hosts -> Seq(Responses)]
      /\ \A g \in Hosts : \A i \in DOMAIN resp'[g] :
             i \in DOMAIN resp[g] /\ resp'[g][i] = resp[g][i]
  BY <1>1, <1>2, <1>3
<1>5. /\ link' \in [Hosts -> LinkStates]
      /\ segments' \in [Hosts -> SUBSET Jobs]
      /\ lost' \in SUBSET Jobs
  BY DEF Perish, TypeInv, TypeOK, LinkTypeOK, LinkStates
<1>6. /\ todo' \in [Slots -> Seq(Requests)]
      /\ shipped' \in [Slots -> BOOLEAN]
  BY DEF Perish, TypeInv, TypeOK, LinkTypeOK
<1> QED
  BY <1>4, <1>5, <1>6 DEF Perish, TypeInv, TypeOK, LinkTypeOK

\* A pipeline answers with a request that it had, and keeps the others.
LEMMA RespondFacts ==
    ASSUME TypeInv, NEW s \in Slots, Respond(s)
    PROVE  \E n \in Answerable(s) :
               LET r == todo[s][n]
               IN  /\ n \in DOMAIN todo[s] /\ r \in Requests
                   /\ resp' = [resp EXCEPT ![s[1]] =
                          Append(@, [pipe |-> s[2], tag |-> r.tag,
                                     off |-> r.off, cnt |-> r.cnt])]
                   /\ todo' = [todo EXCEPT ![s] = RemoveAt(@, n)]
                   /\ RemoveAt(todo[s], n) \in Seq(Requests)
                   /\ Len(RemoveAt(todo[s], n)) = Len(todo[s]) - 1
                   /\ \A i \in 1 .. Len(todo[s]) - 1 : RemoveAt(todo[s], n)[i] =
                          IF i < n THEN todo[s][i] ELSE todo[s][i + 1]
                   /\ shipped' = [shipped EXCEPT ![s] = @ /\ n # 1]
                   /\ LinkTypeOK'
<1>1. PICK n \in Answerable(s) :
          /\ resp' = [resp EXCEPT ![s[1]] =
                          Append(@, [pipe |-> s[2], tag |-> todo[s][n].tag,
                                     off |-> todo[s][n].off, cnt |-> todo[s][n].cnt])]
          /\ todo' = [todo EXCEPT ![s] = RemoveAt(@, n)]
          /\ shipped' = [shipped EXCEPT ![s] = @ /\ n # 1]
  BY DEF Respond
<1>2. todo[s] \in Seq(Requests) /\ n \in DOMAIN todo[s] /\ todo[s][n] \in Requests
  BY DEF Answerable, TypeInv, TypeOK, LinkTypeOK
<1>3. /\ RemoveAt(todo[s], n) \in Seq(Requests)
      /\ Len(RemoveAt(todo[s], n)) = Len(todo[s]) - 1
      /\ \A i \in 1 .. Len(todo[s]) - 1 : RemoveAt(todo[s], n)[i] =
             IF i < n THEN todo[s][i] ELSE todo[s][i + 1]
  BY <1>2, RemoveAtFacts
<1>4. LinkTypeOK'
  <2> DEFINE a == [pipe |-> s[2], tag |-> todo[s][n].tag,
                   off |-> todo[s][n].off, cnt |-> todo[s][n].cnt]
  <2>1. a \in Responses
    BY <1>2, SlotFacts DEF Requests, Responses
  <2> HIDE DEF a
  <2>2. resp' = [resp EXCEPT ![s[1]] = Append(@, a)]
    BY <1>1 DEF a
  <2>3. s[1] \in Hosts
    BY SlotFacts
  <2>4. Append(resp[s[1]], a) \in Seq(Responses)
    BY <2>1, <2>3 DEF TypeInv, TypeOK, LinkTypeOK
  <2>5. resp' \in [Hosts -> Seq(Responses)]
    BY <2>2, <2>4 DEF TypeInv, TypeOK, LinkTypeOK
  <2>6. todo' \in [Slots -> Seq(Requests)]
    BY <1>1, <1>3 DEF TypeInv, TypeOK, LinkTypeOK
  <2>7. shipped' \in [Slots -> BOOLEAN]
    BY <1>1 DEF TypeInv, TypeOK, LinkTypeOK
  <2> QED
    BY <2>5, <2>6, <2>7 DEF Respond, TypeInv, TypeOK, LinkTypeOK
<1> QED
  BY <1>1, <1>2, <1>3, <1>4

\* The steps of workers and of the client.
LEMMA WorkerType ==
    ASSUME TypeInv,
           \/ \E s \in Slots : Worker(s)
           \/ \E h \in Hosts : Client(h) \/ WorkerDies(h)
    PROVE  TypeInv'
<1> DEFINE Others == UNCHANGED <<trackerVars, jobVars, placeVars, sceneVars, msgQ>>
           Pipes == \A g \in Hosts : \A i \in DOMAIN resp'[g] :
                        resp'[g][i].pipe \in Pipelines(g)
<1>1. ASSUME Others, LinkTypeOK', Pipes PROVE TypeInv'
  <2>1. TypeOK'
    BY <1>1 DEF TypeInv, TypeOK, TrackerTypeOK, trackerVars, jobVars, placeVars,
                sceneVars
  <2>2. Places' /\ Bounded'
    BY <1>1 DEF TypeInv, Places, Bounded, trackerVars, jobVars, placeVars
  <2>3. PipesKnown'
    BY <1>1 DEF TypeInv, PipesKnown, AnswerAt
  <2> QED
    BY <2>1, <2>2, <2>3 DEF TypeInv
<1>2. ASSUME NEW h \in Hosts, Perish(h) PROVE LinkTypeOK' /\ Pipes
  BY <1>2, PerishFacts DEF TypeInv, PipesKnown
<1>3. ASSUME NEW s \in Slots, ShipSegment(s) PROVE LinkTypeOK' /\ Pipes
  <2> DEFINE job == [off |-> Head(todo[s]).off, cnt |-> Head(todo[s]).cnt]
  <2>1. /\ todo[s] # <<>>
        /\ shipped' = [shipped EXCEPT ![s] = TRUE]
        /\ segments' = [segments EXCEPT ![s[1]] = @ \cup {job}]
        /\ UNCHANGED <<link, freeTags, routed, todo, briefed, resp, image, lost>>
    BY <1>3 DEF ShipSegment
  <2>2. Head(todo[s]) \in Requests
    BY <2>1, HeadTailProperties DEF TypeInv, TypeOK, LinkTypeOK
  <2>3. job \in Jobs
    BY <2>2 DEF Requests, Jobs
  <2> HIDE DEF job
  <2>4. segments' \in [Hosts -> SUBSET Jobs] /\ shipped' \in [Slots -> BOOLEAN]
    BY <2>1, <2>3 DEF TypeInv, TypeOK, LinkTypeOK
  <2> QED
    BY <2>1, <2>4 DEF TypeInv, TypeOK, LinkTypeOK, PipesKnown
<1>4. ASSUME NEW s \in Slots, Respond(s) PROVE LinkTypeOK' /\ Pipes
  <2>1. PICK n \in Answerable(s) :
            /\ resp' = [resp EXCEPT ![s[1]] =
                          Append(@, [pipe |-> s[2], tag |-> todo[s][n].tag,
                                     off |-> todo[s][n].off, cnt |-> todo[s][n].cnt])]
            /\ LinkTypeOK'
    BY <1>4, RespondFacts
  <2> DEFINE a == [pipe |-> s[2], tag |-> todo[s][n].tag,
                   off |-> todo[s][n].off, cnt |-> todo[s][n].cnt]
  <2>2. a.pipe = s[2] /\ s[1] \in Hosts /\ s[2] \in Pipelines(s[1])
    BY SlotFacts
  <2> HIDE DEF a
  <2>3. resp' = [resp EXCEPT ![s[1]] = Append(@, a)]
    BY <2>1 DEF a
  <2>4. resp \in [Hosts -> Seq(Responses)] /\ resp[s[1]] \in Seq(Responses)
    BY <2>2 DEF TypeInv, TypeOK, LinkTypeOK
  <2>5. \A i \in DOMAIN Append(resp[s[1]], a) :
            (i \in DOMAIN resp[s[1]] /\ Append(resp[s[1]], a)[i] = resp[s[1]][i])
               \/ Append(resp[s[1]], a)[i] = a
    BY <2>4
  <2>6. ASSUME NEW g \in Hosts, NEW i \in DOMAIN resp'[g]
        PROVE  resp'[g][i].pipe \in Pipelines(g)
    <3>1. resp'[g] = IF g = s[1] THEN Append(resp[s[1]], a) ELSE resp[g]
      BY <2>3, <2>4
    <3> QED
      BY <2>2, <2>5, <2>6, <3>1 DEF TypeInv, PipesKnown
  <2> QED
    BY <2>1, <2>6
<1>5. ASSUME NEW h \in Hosts, NEW job \in segments[h], Deliver(h, job)
      PROVE  LinkTypeOK' /\ Pipes
  BY <1>5 DEF Deliver, TypeInv, TypeOK, LinkTypeOK, PipesKnown
<1> HIDE DEF Pipes
<1>6. ASSUME NEW s \in Slots, Worker(s) PROVE TypeInv'
  <2>1. Others
    BY <1>6 DEF Worker
  <2>2. LinkTypeOK' /\ Pipes
    <3>1. CASE ProduceUnknownScene(s)
      BY <1>2, <3>1, SlotFacts DEF ProduceUnknownScene
    <3> QED
      BY <1>3, <1>4, <1>6, <3>1 DEF Worker
  <2> QED
    BY <1>1, <2>1, <2>2
<1>7. ASSUME NEW h \in Hosts, Client(h) PROVE TypeInv'
  BY <1>1, <1>5, <1>7 DEF Client
<1>8. ASSUME NEW h \in Hosts, WorkerDies(h) PROVE TypeInv'
  BY <1>1, <1>2, <1>8 DEF WorkerDies, Crash
<1> QED
  BY <1>6, <1>7, <1>8

\* A stuttering step changes nothing.
LEMMA StutterType ==
    ASSUME TypeInv, UNCHANGED vars
    PROVE  TypeInv'
<1> USE DEF vars, trackerVars, linkVars, wireVars, jobVars, placeVars, sceneVars
<1>1. TypeOK'
  BY DEF TypeInv, TypeOK, TrackerTypeOK, LinkTypeOK
<1>2. Places' /\ Bounded' /\ PipesKnown'
  BY DEF TypeInv, Places, Bounded, PipesKnown, AnswerAt
<1> QED
  BY <1>1, <1>2 DEF TypeInv

LEMMA TypeStep == TypeInv /\ [Next]_vars => TypeInv'
<1> SUFFICES ASSUME TypeInv, [Next]_vars PROVE TypeInv'
  OBVIOUS
<1>1. CASE Request
  BY <1>1, RequestType
<1>2. CASE Scheduler
  BY <1>2, KickOffFindType, KickOffNextRoundType, KickOffAssignType, AnswerType,
     RefillType, ExceptionType DEF Scheduler
<1>3. ASSUME NEW h \in Hosts, Connection(h) \/ RegisterWorker(h) PROVE TypeInv'
  BY <1>3, ConnectionType, ExceptionType DEF Connection
<1>4. ASSUME NEW h \in Hosts, Client(h) \/ WorkerDies(h) PROVE TypeInv'
  BY <1>4, WorkerType
<1>5. ASSUME NEW s \in Slots, Worker(s) PROVE TypeInv'
  BY <1>5, WorkerType
<1>6. CASE UNCHANGED vars
  BY <1>6, StutterType
<1> QED
  BY <1>1, <1>2, <1>3, <1>4, <1>5, <1>6 DEF Next

\* Every variable keeps its type, whatever the number of hosts, pipelines,
\* pixels, tags and crashes: in particular the size of a refill is always a
\* number of pixels that are left (SceneSchedulerDynamic's
\* ComputeRefillWorkLoadBasedOnCurrentPolicy), and the counters wrap in place.
THEOREM TypeCorrect == Spec => []TypeOK
<1>1. Init => TypeInv
  BY TypeInit
<1>2. TypeInv /\ [Next]_vars => TypeInv'
  BY TypeStep
<1>3. TypeInv => TypeOK
  BY DEF TypeInv
<1> QED
  BY <1>1, <1>2, <1>3, PTL DEF Spec

-----------------------------------------------------------------------------
\* The jobs of the requests that wait at the pipelines.
JobOf(r) == [off |-> r.off, cnt |-> r.cnt]

Promised ==
    {job \in Jobs : job.cnt # 0 /\ \E s \in Slots : \E i \in DOMAIN todo[s] :
                        JobOf(todo[s][i]) = job}

AllJobs == Known \cup Promised

\* Jobs are runs of pixels that follow each other below the bound.
Apart(jobs, bound) ==
    \A j, k \in jobs :
        /\ j.cnt # 0
        /\ j.off + j.cnt <= bound
        /\ j.off <= k.off /\ j # k => j.off + j.cnt <= k.off

\* Nothing has been handed out before a scene is accepted.
Fresh ==
    /\ scene = "none" => pc = "idle" /\ AllJobs = {}
    /\ \A i \in DOMAIN msgQ : msgQ[i].cmd => scene # "none"

JobInv == Apart(AllJobs, current) /\ Fresh

-----------------------------------------------------------------------------
\* What is answered has been shipped; a request without work names pixel 0.
WorkersShip ==
    /\ \A h \in Hosts : \A i \in DOMAIN resp[h] :
           IF resp[h][i].cnt = 0 THEN resp[h][i].off = 0
           ELSE JobOf(resp[h][i]) \in Shipped
    /\ \A s \in Slots : \A i \in DOMAIN todo[s] :
           todo[s][i].cnt = 0 => todo[s][i].off = 0
    /\ \A s \in Slots : shipped[s] =>
           1 \in DOMAIN todo[s] /\ JobOf(todo[s][1]) \in Shipped

AnswersShipped ==
    \A i \in DOMAIN msgQ : AnswerAt(i) =>
        IF msgQ[i].cnt = 0 THEN msgQ[i].off = 0 ELSE JobOf(msgQ[i]) \in Shipped

\* All pixels handed out from c on are in known jobs, and only a job at offset
\* 0 reaches below c: the first one, once there is one.
CoveredFrom(c) ==
    /\ c <= current
    /\ c = 0 => current = 0
    /\ \A px \in c .. current - 1 : px \in PixelsOf(Known)
    /\ \A j \in AllJobs : j.off >= c \/ (j.off = 0 /\ j.cnt = c)

Covered == WorkersShip /\ AnswersShipped /\ \E c \in Nat : CoveredFrom(c)

-----------------------------------------------------------------------------
\* A host stays listed while its connection may still deliver answers; an
\* exception is in the queue only of a connection that is closed.
OrderInv ==
    /\ AnswersBeforeException
    /\ \A h \in Hosts : link[h] \notin {"absent", "closed"} => h \in Listed
    /\ \A i \in DOMAIN msgQ : ExceptionAt(i) /\ msgQ[i].host # NoHost =>
           link[msgQ[i].host] = "closed"

-----------------------------------------------------------------------------
(* The jobs                                                                *)

\* What a step may do to the jobs: keep what is known, forget jobs at the
\* offset of an answer, or hand out the next one.
Keeps ==
    /\ current' = current
    /\ AllJobs' \subseteq AllJobs
    /\ Known \subseteq Known'

Forgets ==
    /\ msgQ # <<>> /\ Head(msgQ).kind = "answer"
    /\ current' = current
    /\ AllJobs' \subseteq AllJobs
    /\ \A j \in Known : j.off # Head(msgQ).off => j \in Known'

HandsOut(cnt) ==
    LET job == [off |-> current, cnt |-> cnt]
    IN  /\ pc # "idle"
        /\ cnt \in 1 .. NumPixels - current
        /\ current' = current + cnt
        /\ AllJobs' \subseteq AllJobs \cup {job}
        /\ Known \cup {job} \subseteq Known'

JobStep ==
    /\ Shipped \subseteq Shipped'
    /\ Keeps \/ Forgets \/ \E cnt \in Nat : HandsOut(cnt)

\* Membership in the sets of jobs, before and after a step.
LEMMA JobSets ==
    /\ \A j : j \in Shipped <=>
           j \in image \/ j \in lost \/ \E h \in Hosts : j \in segments[h]
    /\ \A j : j \in Shipped' <=>
           j \in image' \/ j \in lost' \/ \E h \in Hosts : j \in segments'[h]
    /\ \A j : j \in Known <=>
           j \in Shipped \/ j \in failed \/ \E s \in Slots : j \in tracked[s]
    /\ \A j : j \in Known' <=>
           j \in Shipped' \/ j \in failed' \/ \E s \in Slots : j \in tracked'[s]
    /\ \A j : j \in Promised <=>
           /\ j \in Jobs /\ j.cnt # 0
           /\ \E s \in Slots : \E i \in DOMAIN todo[s] : JobOf(todo[s][i]) = j
    /\ \A j : j \in Promised' <=>
           /\ j \in Jobs /\ j.cnt # 0
           /\ \E s \in Slots : \E i \in DOMAIN todo'[s] : JobOf(todo'[s][i]) = j
    /\ \A j : j \in AllJobs <=> j \in Known \/ j \in Promised
    /\ \A j : j \in AllJobs' <=> j \in Known' \/ j \in Promised'
<1>1. \A j : j \in Shipped <=>
           j \in image \/ j \in lost \/ \E h \in Hosts : j \in segments[h]
  BY DEF Shipped
<1>2. \A j : j \in Shipped' <=>
           j \in image' \/ j \in lost' \/ \E h \in Hosts : j \in segments'[h]
  BY DEF Shipped
<1>3. \A j : j \in Known <=>
           j \in Shipped \/ j \in failed \/ \E s \in Slots : j \in tracked[s]
  BY DEF Known
<1>4. \A j : j \in Known' <=>
           j \in Shipped' \/ j \in failed' \/ \E s \in Slots : j \in tracked'[s]
  BY DEF Known
<1>5. \A j : j \in Promised <=>
           /\ j \in Jobs /\ j.cnt # 0
           /\ \E s \in Slots : \E i \in DOMAIN todo[s] : JobOf(todo[s][i]) = j
  BY DEF Promised
<1>6. \A j : j \in Promised' <=>
           /\ j \in Jobs /\ j.cnt # 0
           /\ \E s \in Slots : \E i \in DOMAIN todo'[s] : JobOf(todo'[s][i]) = j
  BY DEF Promised, JobOf
<1>7. \A j : j \in AllJobs <=> j \in Known \/ j \in Promised
  BY DEF AllJobs
<1>8. \A j : j \in AllJobs' <=> j \in Known' \/ j \in Promised'
  BY DEF AllJobs
<1> QED
  BY <1>1, <1>2, <1>3, <1>4, <1>5, <1>6, <1>7, <1>8

\* All known jobs are jobs.
LEMMA JobsAreJobs == ASSUME TypeOK PROVE AllJobs \subseteq Jobs
  BY JobSets DEF TypeOK, TrackerTypeOK, LinkTypeOK

\* A request that is sent adds at most its own job to those promised.
LEMMA SendRequestJobs ==
    ASSUME TypeOK, NEW s \in Slots, NEW off \in Nat, NEW cnt \in Nat,
           SendRequest(s, off, cnt)
    PROVE  /\ Promised' \subseteq Promised \cup {[off |-> off, cnt |-> cnt]}
           /\ cnt = 0 => Promised' \subseteq Promised
           /\ Shipped' = Shipped
<1> DEFINE r == [tag |-> Head(freeTags[s[1]]), off |-> off, cnt |-> cnt]
<1>1. JobOf(r) = [off |-> off, cnt |-> cnt]
  BY DEF JobOf
<1>2. \/ todo' = todo
      \/ todo' = [todo EXCEPT ![s] = Append(@, r)]
  BY DEF SendRequest
<1> HIDE DEF r
<1>3. ASSUME NEW j \in Promised', j \notin Promised
      PROVE  j = JobOf(r) /\ j.cnt # 0
  <2>0. PICK g \in Slots : \E i \in DOMAIN todo'[g] : JobOf(todo'[g][i]) = j
    BY <1>3, JobSets
  <2>1. PICK i \in DOMAIN todo'[g] : JobOf(todo'[g][i]) = j
    BY <2>0
  <2>2. j \in Jobs /\ j.cnt # 0
    BY <1>3, JobSets
  <2>3. ~(i \in DOMAIN todo[g] /\ todo[g][i] = todo'[g][i])
    BY <1>3, <2>1, <2>2, JobSets
  <2>4. todo \in [Slots -> Seq(Requests)] /\ todo[s] \in Seq(Requests)
    BY DEF TypeOK, LinkTypeOK
  <2>5. g = s /\ todo'[g] = Append(todo[s], r)
    BY <1>2, <2>1, <2>3, <2>4
  <2>6. todo'[g][i] = r
    BY <2>1, <2>3, <2>4, <2>5
  <2> QED
    BY <2>1, <2>2, <2>6
<1>4. Promised' \subseteq Promised \cup {[off |-> off, cnt |-> cnt]}
  BY <1>1, <1>3
<1>5. cnt = 0 => Promised' \subseteq Promised
  BY <1>1, <1>3
<1>6. Shipped' = Shipped
  BY DEF SendRequest, wireVars, Shipped
<1> QED
  BY <1>4, <1>5, <1>6

\* The next job is handed out to a pipeline.
LEMMA SendNextJobJobs ==
    ASSUME TypeInv, NEW s \in Slots, NEW w \in Nat \ {0}, current < NumPixels,
           pc # "idle",
           RequestFault(s, TRUE) = "none", SendNextJob(s, w), failed' = failed
    PROVE  JobStep
<1>1. PICK cnt \in Nat : cnt = RefillSize(s[1], w)
  <2>1. RefillSize(s[1], w) \in 1 .. NumPixels - current
    BY SendNextJobType
  <2> QED
    BY <2>1, TrackerAssumption DEF TypeInv, TypeOK
<1> DEFINE job == [off |-> current, cnt |-> cnt]
<1>2. cnt \in 1 .. NumPixels - current /\ current' = current + cnt
  BY <1>1, SendNextJobType
<1>3. /\ tracked' = [tracked EXCEPT ![s] = @ \cup {job}]
      /\ SendRequest(s, current, cnt)
  BY <1>1 DEF SendNextJob, TrackJob, Assign
<1>4. Promised' \subseteq Promised \cup {job} /\ Shipped' = Shipped
  BY <1>3, SendRequestJobs DEF TypeInv, TypeOK
<1> HIDE DEF job
<1>5. /\ \A g \in Slots : tracked[g] \subseteq tracked'[g]
      /\ \A g \in Slots : tracked'[g] \subseteq tracked[g] \cup {job}
      /\ job \in tracked'[s]
  BY <1>3 DEF TypeInv, TypeOK, TrackerTypeOK
<1>6. Known \cup {job} \subseteq Known'
  BY <1>4, <1>5, JobSets
<1>7. Known' \subseteq Known \cup {job}
  BY <1>4, <1>5, JobSets
<1>8. AllJobs' \subseteq AllJobs \cup {job}
  BY <1>4, <1>7, JobSets
<1>9. HandsOut(cnt)
  BY <1>2, <1>6, <1>8 DEF HandsOut, job
<1> QED
  BY <1>4, <1>9 DEF JobStep

\* A step that leaves everything alone that knows of jobs.
LEMMA QuietJobs ==
    ASSUME UNCHANGED <<current, failed, tracked, image, lost, segments, todo>>
    PROVE  JobStep
<1>1. Shipped' = Shipped /\ Known' = Known /\ Promised' = Promised
  BY DEF Shipped, Known, Promised, JobOf
<1> QED
  BY <1>1 DEF JobStep, Keeps, AllJobs

\* The kick-off hands out jobs.
LEMMA KickOffJobs ==
    ASSUME TypeInv, KickOffAssign
    PROVE  JobStep
<1> DEFINE s == <<hostWorkers[pos.index], pos.pipe>>
<1>1. /\ pc = "assign" /\ failed' = failed
      /\ RequestFault(s, current < NumPixels) = "none"
      /\ \/ current < NumPixels /\ SendNextJob(s, workload)
         \/ current >= NumPixels /\ SendRequest(s, 0, 0)
            /\ UNCHANGED <<trackerVars, current, pending>>
  BY DEF KickOffAssign
<1>2. s \in Slots /\ workload \in Nat \ {0}
  <2>1. /\ hostWorkers[pos.index] \in Hosts
        /\ pos.pipe \in Pipelines(hostWorkers[pos.index])
    BY <1>1 DEF TypeInv, TypeOK, TrackerTypeOK, Places
  <2> QED
    BY <1>1, <2>1, SlotFacts DEF TypeInv, TypeOK, Places
<1> HIDE DEF s
<1>3. CASE current < NumPixels /\ SendNextJob(s, workload)
  <2>1. RequestFault(s, TRUE) = "none"
    BY <1>1, <1>3 DEF RequestFault
  <2> QED
    BY <1>1, <1>2, <1>3, <2>1, SendNextJobJobs
<1>4. CASE SendRequest(s, 0, 0) /\ UNCHANGED <<trackerVars, current, pending>>
  <2>1. Promised' \subseteq Promised /\ Shipped' = Shipped
    BY <1>2, <1>4, SendRequestJobs DEF TypeInv
  <2>2. Known' = Known
    BY <1>1, <1>4, <2>1 DEF Known, trackerVars
  <2> QED
    BY <1>4, <2>1, <2>2 DEF JobStep, Keeps, AllJobs
<1> QED
  BY <1>1, <1>3, <1>4

\* A refill hands out a job of a failed host, or the next one.
LEMMA RefillJobs ==
    ASSUME TypeInv, Refill
    PROVE  JobStep
<1>1. pc = "refill" /\ slot \in Slots /\ current < NumPixels
  BY DEF Refill, TypeInv, Places
<1>2. CASE failed # {}
  <2>1. /\ tracked' = [tracked EXCEPT ![slot] = @ \cup {FirstFailed}]
        /\ SendRequest(slot, FirstFailed.off, FirstFailed.cnt)
        /\ failed' = failed \ {FirstFailed}
        /\ current' = current
    BY <1>2 DEF Refill, TrackJob, Assign
  <2>2. FirstFailed \in failed /\ FirstFailed \in Jobs
    BY <1>2, FirstFailedIn DEF TypeInv, TypeOK
  <2>3. FirstFailed = [off |-> FirstFailed.off, cnt |-> FirstFailed.cnt]
    BY <2>2 DEF Jobs
  <2>4. Promised' \subseteq Promised \cup {FirstFailed} /\ Shipped' = Shipped
    BY <1>1, <2>1, <2>2, <2>3, SendRequestJobs DEF TypeInv, Jobs
  <2>5. /\ \A g \in Slots : tracked[g] \subseteq tracked'[g]
        /\ \A g \in Slots : tracked'[g] \subseteq tracked[g] \cup {FirstFailed}
        /\ FirstFailed \in tracked'[slot]
    BY <1>1, <2>1 DEF TypeInv, TypeOK, TrackerTypeOK
  <2>6. Known \subseteq Known'
    BY <1>1, <2>1, <2>4, <2>5, JobSets
  <2>7. Known' \subseteq Known
    BY <2>1, <2>2, <2>4, <2>5, JobSets
  <2>8. AllJobs' \subseteq AllJobs
    BY <2>2, <2>4, <2>7, JobSets
  <2> QED
    BY <2>1, <2>4, <2>6, <2>8 DEF JobStep, Keeps
<1>3. CASE failed = {}
  <2>1. /\ workload' = MaxOf((workload * Decay) \div 10000, ChunkMin)
        /\ SendNextJob(slot, workload')
        /\ failed' = failed
    BY <1>3 DEF Refill
  <2>2. RequestFault(slot, TRUE) = "none"
    BY <1>3 DEF Refill, RequestFault
  <2>3. workload' \in Nat \ {0}
    <3>1. workload * Decay \in Nat
      BY SchedulerAssumption DEF TypeInv, TypeOK
    <3>2. (workload * Decay) \div 10000 \in Nat
      BY <3>1
    <3> QED
      BY <2>1, <3>2, TrackerAssumption DEF MaxOf
  <2>4. PICK w \in Nat \ {0} : w = workload'
    BY <2>3
  <2>5. SendNextJob(slot, w)
    BY <2>1, <2>4
  <2>6. pc # "idle" /\ failed' = failed
    BY <1>1, <2>1
  <2> QED
    BY <1>1, <2>2, <2>5, <2>6, SendNextJobJobs
<1> QED
  BY <1>2, <1>3

\* An answer takes jobs at its offset off its pipeline.
LEMMA AnswerJobs ==
    ASSUME TypeInv,
           \/ AnswerThenRefill \/ AnswerThenRedispatch \/ AnswerThenFinish
           \/ AnswerThenWait
    PROVE  JobStep
<1> DEFINE off == Head(msgQ).off
           s == AnswerSlot
<1>1. msgQ # <<>> /\ Head(msgQ).kind = "answer"
  BY DEF AnswerThenRefill, AnswerThenRedispatch, AnswerThenFinish,
         AnswerThenWait, Handle
<1>2. s \in Slots
  BY <1>1, HeadFacts DEF TypeInv
<1>3. /\ \A g \in Slots : Untracked(s, off)[g] \subseteq tracked[g]
      /\ \A g \in Slots : \A j \in tracked[g] :
             j.off # off => j \in Untracked(s, off)[g]
      /\ Untracked(s, off) \in [Slots -> SUBSET Jobs]
  BY <1>2 DEF Untracked, TypeInv, TypeOK, TrackerTypeOK
<1>4. current' = current
  BY DEF AnswerThenRefill, AnswerThenRedispatch, AnswerThenFinish,
         AnswerThenWait
<1>5. CASE AnswerThenRefill \/ AnswerThenFinish \/ AnswerThenWait
  <2>1. /\ tracked' = Untracked(s, off)
        /\ UNCHANGED <<failed, image, lost, segments, todo>>
    BY <1>5 DEF AnswerThenRefill, AnswerThenFinish, AnswerThenWait,
                NotifyJobDone, FreeAppTag, linkVars, wireVars
  <2> HIDE DEF off, s
  <2>2. Shipped' = Shipped /\ Promised' = Promised
    BY <2>1 DEF Shipped, Promised, JobOf
  <2>3. Known' \subseteq Known
    BY <1>3, <2>1, <2>2, JobSets
  <2>4. \A j \in Known : j.off # off => j \in Known'
    BY <1>3, <2>1, <2>2, JobSets
  <2>5. Forgets
    BY <1>1, <1>4, <2>2, <2>3, <2>4 DEF Forgets, AllJobs, off
  <2> QED
    BY <2>2, <2>5 DEF JobStep
<1>6. CASE AnswerThenRedispatch
  <2>1. /\ failed # {}
        /\ tracked' = [Untracked(s, off) EXCEPT ![s] = @ \cup {FirstFailed}]
        /\ SendRequest(s, FirstFailed.off, FirstFailed.cnt)
        /\ failed' = failed \ {FirstFailed}
    BY <1>6 DEF AnswerThenRedispatch, Assign
  <2> HIDE DEF off, s
  <2>2. FirstFailed \in failed /\ FirstFailed \in Jobs
    BY <2>1, FirstFailedIn DEF TypeInv, TypeOK
  <2>3. FirstFailed = [off |-> FirstFailed.off, cnt |-> FirstFailed.cnt]
    BY <2>2 DEF Jobs
  <2>4. Promised' \subseteq Promised \cup {FirstFailed} /\ Shipped' = Shipped
    BY <1>2, <2>1, <2>2, <2>3, SendRequestJobs DEF TypeInv, Jobs
  <2>5. /\ \A g \in Slots : tracked'[g] \subseteq tracked[g] \cup {FirstFailed}
        /\ \A g \in Slots : \A j \in tracked[g] : j.off # off => j \in tracked'[g]
        /\ FirstFailed \in tracked'[s]
    BY <1>2, <1>3, <2>1
  <2>6. Known' \subseteq Known
    BY <2>1, <2>2, <2>4, <2>5, JobSets
  <2>7. \A j \in Known : j.off # off => j \in Known'
    BY <1>2, <2>1, <2>4, <2>5, JobSets
  <2>8. AllJobs' \subseteq AllJobs
    BY <2>2, <2>4, <2>6, JobSets
  <2>9. Forgets
    BY <1>1, <1>4, <2>7, <2>8 DEF Forgets, off
  <2> QED
    BY <2>4, <2>9 DEF JobStep
<1> QED
  BY <1>5, <1>6

\* The jobs of a failed host are put aside; one is dropped only if there is
\* one at the same offset already, which then is the same job.
LEMMA ExceptionJobs ==
    ASSUME TypeInv, Apart(AllJobs, current), HandleException
    PROVE  JobStep
<1> DEFINE h == Head(msgQ).host
<1>1. /\ failed' = IF h \in Listed THEN WithFailed(failed, JobsOf(h)) ELSE failed
      /\ RemoveFailedJobs(h)
      /\ UNCHANGED <<current, image, lost, segments, todo>>
      /\ h \in Hosts
  <2>1. msgQ # <<>> /\ Head(msgQ).kind = "exception" /\ h # NoHost
    BY DEF HandleException, Handle
  <2>2. h \in Hosts
    BY <2>1, HeadFacts DEF TypeInv
  <2> QED
    BY <2>2 DEF HandleException, linkVars, wireVars
<1> HIDE DEF h
<1>2. Shipped' = Shipped /\ Promised' = Promised
  BY <1>1 DEF Shipped, Promised, JobOf
<1>3. CASE h \in Listed
  <2>1. /\ failed' = failed \cup {j \in JobsOf(h) : \A f \in failed : f.off # j.off}
        /\ tracked' = [g \in Slots |-> IF g[1] = h THEN {} ELSE tracked[g]]
    BY <1>1, <1>3 DEF WithFailed, RemoveFailedJobs
  <2>2. ASSUME NEW j \in JobsOf(h)
        PROVE  \E g \in Slots : j \in tracked[g]
    BY <1>1, SlotFacts DEF JobsOf
  <2>3. ASSUME NEW g \in Slots, g[1] = h, NEW j \in tracked[g]
        PROVE  j \in JobsOf(h)
    BY <2>3, SlotFacts DEF JobsOf
  <2>4. Known' \subseteq Known
    BY <1>2, <2>1, <2>2, JobSets
  <2>5. ASSUME NEW j \in Known PROVE j \in Known'
    <3>1. CASE \E g \in Slots : g[1] = h /\ j \in tracked[g]
      <4>1. j \in JobsOf(h)
        BY <2>3, <3>1
      <4>2. CASE \A f \in failed : f.off # j.off
        BY <2>1, <4>1, <4>2, JobSets
      <4>3. ASSUME NEW f \in failed, f.off = j.off PROVE j \in Known'
        <5>1. f \in AllJobs /\ j \in AllJobs /\ f \in Jobs /\ j \in Jobs
          BY JobSets, JobsAreJobs DEF TypeInv
        <5>2. f.cnt # 0 /\ (f.off <= j.off /\ f # j => f.off + f.cnt <= j.off)
          BY <5>1 DEF Apart
        <5>3. f = j
          BY <4>3, <5>1, <5>2 DEF Jobs
        <5> QED
          BY <2>1, <5>3, JobSets
      <4> QED
        BY <4>2, <4>3
    <3>2. CASE ~\E g \in Slots : g[1] = h /\ j \in tracked[g]
      BY <1>2, <2>1, <3>2, JobSets
    <3> QED
      BY <3>1, <3>2
  <2> QED
    BY <1>1, <1>2, <2>4, <2>5 DEF JobStep, Keeps, AllJobs
<1>4. CASE h \notin Listed
  <2>1. UNCHANGED <<failed, tracked>>
    BY <1>1, <1>4 DEF RemoveFailedJobs, trackerVars
  <2> QED
    BY <1>1, <2>1, QuietJobs
<1> QED
  BY <1>3, <1>4

\* A worker and the client move jobs from promised to shipped, and the death
\* of a worker loses only what was shipped or promised.
LEMMA PerishJobs ==
    ASSUME TypeInv, NEW h \in Hosts, Perish(h),
           UNCHANGED <<current, failed, tracked>>
    PROVE  JobStep
<1>1. PICK kept \in SUBSET segments[h] :
          /\ segments' = [segments EXCEPT ![h] = kept]
          /\ lost' = lost \cup (segments[h] \ kept)
  BY DEF Perish
<1>2. /\ todo' = [s \in Slots |-> IF s[1] = h THEN <<>> ELSE todo[s]]
      /\ image' = image
  BY DEF Perish
<1>3. segments \in [Hosts -> SUBSET Jobs]
  BY DEF TypeInv, TypeOK, LinkTypeOK
<1>4. \A j : (j \in lost' \/ \E g \in Hosts : j \in segments'[g])
                <=> (j \in lost \/ \E g \in Hosts : j \in segments[g])
  BY <1>1, <1>3
<1>5. Shipped' = Shipped
  BY <1>2, <1>4, JobSets
<1>6. \A s \in Slots : \A i \in DOMAIN todo'[s] :
          i \in DOMAIN todo[s] /\ todo'[s][i] = todo[s][i]
  BY <1>2
<1>7. Promised' \subseteq Promised
  BY <1>6, JobSets
<1>8. Known' = Known
  BY <1>5 DEF Known
<1> QED
  BY <1>5, <1>7, <1>8 DEF JobStep, Keeps, AllJobs

LEMMA WorkerJobs ==
    ASSUME TypeInv,
           \/ \E s \in Slots : Worker(s)
           \/ \E h \in Hosts : Client(h) \/ WorkerDies(h)
    PROVE  JobStep
<1>1. UNCHANGED <<current, failed, tracked>>
  BY DEF Worker, Client, WorkerDies, jobVars, trackerVars
<1>2. ASSUME NEW s \in Slots, ShipSegment(s) PROVE JobStep
  <2> DEFINE job == [off |-> Head(todo[s]).off, cnt |-> Head(todo[s]).cnt]
  <2>1. /\ todo[s] # <<>> /\ Head(todo[s]).cnt # 0
        /\ segments' = [segments EXCEPT ![s[1]] = @ \cup {job}]
        /\ UNCHANGED <<todo, image, lost>>
    BY <1>2 DEF ShipSegment
  <2>2. /\ todo[s] \in Seq(Requests) /\ 1 \in DOMAIN todo[s]
        /\ Head(todo[s]) = todo[s][1] /\ todo[s][1] \in Requests
    <3>1. todo[s] \in Seq(Requests)
      BY DEF TypeInv, TypeOK, LinkTypeOK
    <3> QED
      BY <2>1, <3>1, LenProperties, EmptySeq, ElementOfSeq
  <2>3. job \in Jobs /\ job.cnt # 0 /\ JobOf(todo[s][1]) = job
    BY <2>1, <2>2 DEF Requests, Jobs, JobOf
  <2> HIDE DEF job
  <2>4. job \in Promised
    BY <2>2, <2>3, JobSets
  <2>5. /\ \A g \in Hosts : segments[g] \subseteq segments'[g]
        /\ \A g \in Hosts : segments'[g] \subseteq segments[g] \cup {job}
    BY <2>1 DEF TypeInv, TypeOK, LinkTypeOK
  <2>6. Shipped \subseteq Shipped' /\ Shipped' \subseteq Shipped \cup {job}
    BY <2>1, <2>5, JobSets
  <2>7. Promised' = Promised
    BY <2>1 DEF Promised, JobOf
  <2>8. Known \subseteq Known' /\ Known' \subseteq Known \cup {job}
    BY <1>1, <2>6 DEF Known
  <2> QED
    BY <1>1, <2>4, <2>6, <2>7, <2>8 DEF JobStep, Keeps, AllJobs
<1>3. ASSUME NEW s \in Slots, Respond(s) PROVE JobStep
  <2>1. PICK n \in Answerable(s) :
            /\ n \in DOMAIN todo[s]
            /\ todo' = [todo EXCEPT ![s] = RemoveAt(@, n)]
            /\ RemoveAt(todo[s], n) \in Seq(Requests)
            /\ Len(RemoveAt(todo[s], n)) = Len(todo[s]) - 1
            /\ \A i \in 1 .. Len(todo[s]) - 1 : RemoveAt(todo[s], n)[i] =
                   IF i < n THEN todo[s][i] ELSE todo[s][i + 1]
    BY <1>3, RespondFacts
  <2>2. /\ todo[s] \in Seq(Requests) /\ Len(todo[s]) \in Nat
        /\ DOMAIN todo[s] = 1 .. Len(todo[s])
        /\ DOMAIN RemoveAt(todo[s], n) = 1 .. Len(todo[s]) - 1
    BY <2>1, LenProperties DEF TypeInv, TypeOK, LinkTypeOK
  <2>3. \A i \in DOMAIN RemoveAt(todo[s], n) :
            \E k \in DOMAIN todo[s] : RemoveAt(todo[s], n)[i] = todo[s][k]
    <3> SUFFICES ASSUME NEW i \in 1 .. Len(todo[s]) - 1
                 PROVE  \E k \in DOMAIN todo[s] : RemoveAt(todo[s], n)[i] = todo[s][k]
      BY <2>2
    <3>1. i \in 1 .. Len(todo[s]) /\ i + 1 \in 1 .. Len(todo[s])
      BY <2>2
    <3>2. RemoveAt(todo[s], n)[i] = IF i < n THEN todo[s][i] ELSE todo[s][i + 1]
      BY <2>1
    <3> QED
      BY <2>2, <3>1, <3>2
  <2>4. \A g \in Slots : \A i \in DOMAIN todo'[g] :
            \E k \in DOMAIN todo[g] : todo'[g][i] = todo[g][k]
    <3>1. todo \in [Slots -> Seq(Requests)]
      BY DEF TypeInv, TypeOK, LinkTypeOK
    <3> QED
      BY <2>1, <2>3, <3>1
  <2>5. Promised' \subseteq Promised
    BY <2>4, JobSets
  <2>6. Shipped' = Shipped
    BY <1>3 DEF Respond, Shipped
  <2>7. Known' = Known
    BY <1>1, <2>6 DEF Known
  <2> QED
    BY <1>1, <2>5, <2>6, <2>7 DEF JobStep, Keeps, AllJobs
<1>4. ASSUME NEW h \in Hosts, Client(h) PROVE JobStep
  <2>1. PICK job \in segments[h] :
            /\ segments' = [segments EXCEPT ![h] = @ \ {job}]
            /\ image' = image \cup {job}
            /\ UNCHANGED <<todo, lost>>
    BY <1>4 DEF Client, Deliver
  <2>2. segments \in [Hosts -> SUBSET Jobs]
    BY DEF TypeInv, TypeOK, LinkTypeOK
  <2>3. \A j : (j \in image' \/ \E g \in Hosts : j \in segments'[g])
                  <=> (j \in image \/ \E g \in Hosts : j \in segments[g])
    BY <2>1, <2>2
  <2>4. Shipped' = Shipped
    BY <2>1, <2>3, JobSets
  <2>5. Known' = Known /\ Promised' = Promised
    BY <1>1, <2>1, <2>4 DEF Known, Promised, JobOf
  <2> QED
    BY <1>1, <2>4, <2>5 DEF JobStep, Keeps, AllJobs
<1>5. ASSUME NEW h \in Hosts, WorkerDies(h) PROVE JobStep
  BY <1>1, <1>5, PerishJobs DEF WorkerDies, Crash
<1>6. ASSUME NEW s \in Slots, ProduceUnknownScene(s) PROVE JobStep
  BY <1>1, <1>6, PerishJobs, SlotFacts DEF ProduceUnknownScene
<1> QED
  BY <1>2, <1>3, <1>4, <1>5, <1>6 DEF Worker

\* Every step does one of these things to the jobs.
LEMMA JobsChange ==
    ASSUME TypeInv, Apart(AllJobs, current), [Next]_vars
    PROVE  JobStep \/ AcceptScene
<1> DEFINE quiet == UNCHANGED <<current, failed, tracked, image, lost, segments, todo>>
<1> USE DEF trackerVars, linkVars, wireVars, jobVars
<1>1. ASSUME NEW f, Die(f) PROVE quiet
  BY <1>1 DEF Die
<1>2. CASE Request
  <2>1. RejectScene => quiet
    BY DEF RejectScene
  <2>2. AcceptDies => quiet
    BY <1>1 DEF AcceptDies
  <2> QED
    BY <1>2, <2>1, <2>2, QuietJobs DEF Request
<1>3. CASE Scheduler
  <2>1. KickOffFind \/ KickOffNextRound => quiet
    BY DEF KickOffFind, KickOffNextRound
  <2>2. AnswerDies \/ SendDies \/ ExceptionDies => quiet
    BY <1>1 DEF AnswerDies, SendDies, ExceptionDies
  <2>3. HandleDetachedAnswer \/ HandleDetachedException => quiet
    BY DEF HandleDetachedAnswer, HandleDetachedException, NotifyHostFailure, Close
  <2> HIDE DEF quiet
  <2>4. quiet => JobStep
    BY QuietJobs DEF quiet
  <2> QED
    BY <1>3, <2>1, <2>2, <2>3, <2>4, KickOffJobs, RefillJobs, AnswerJobs,
       ExceptionJobs DEF Scheduler
<1>4. ASSUME NEW h \in Hosts, Connection(h) \/ RegisterWorker(h) PROVE quiet
  BY <1>4 DEF Connection, RegisterWorker, AddWorker, Receive, ReportException,
              NoteFailure, CloseConnection, NotifyHostFailure, Close
<1>5. UNCHANGED vars => quiet
  BY DEF vars
<1>6. CASE quiet
  BY <1>6, QuietJobs
<1> HIDE DEF quiet
<1> QED
  BY <1>2, <1>3, <1>4, <1>5, <1>6, WorkerJobs DEF Next

\* An entry that a step adds to the queue: an exception, of a connection that
\* is closed then, or the answer that a connection delivers.
NewException(i) ==
    /\ msgQ'[i].kind = "exception"
    /\ msgQ'[i].cmd => scene' = "running"
    /\ msgQ'[i].host # NoHost => link'[msgQ'[i].host] = "closed"

NewAnswer(i, h) ==
    /\ Receive(h)
    /\ msgQ'[i] = [kind |-> "answer", cmd |-> Attached, host |-> h,
                   pipe |-> Head(resp[h]).pipe, tag |-> Head(resp[h]).tag,
                   off |-> Head(resp[h]).off, cnt |-> Head(resp[h]).cnt]

\* The queue is what it was, but for its first n entries and for new ones.
Queued(n) ==
    \A i \in DOMAIN msgQ' :
        IF i + n \in DOMAIN msgQ THEN msgQ'[i] = msgQ[i + n]
        ELSE NewException(i) \/ \E h \in Hosts : NewAnswer(i, h)

\* The queue is used as a queue.
LEMMA QueueMoves ==
    ASSUME TypeInv, [Next]_vars
    PROVE  Queued(0) \/ Queued(1)
<1>1. /\ TypeOK
      /\ msgQ \in Seq(Answers \cup Exceptions)
      /\ DOMAIN msgQ = 1 .. Len(msgQ) /\ Len(msgQ) \in Nat
  BY LenProperties DEF TypeInv, TypeOK
<1>2. msgQ' = msgQ => Queued(0)
  BY <1>1 DEF Queued
<1>3. msgQ # <<>> /\ msgQ' = Tail(msgQ) => Queued(1)
  BY <1>1, TailFacts DEF Queued
<1>4. ASSUME NEW h \in Hosts, NEW q \in Seq(Answers \cup Exceptions),
             Close(h, q), scene' = scene, NEW i \in DOMAIN msgQ'
      PROVE  /\ i \in Nat
             /\ IF i <= Len(q) THEN i \in DOMAIN q /\ msgQ'[i] = q[i]
                ELSE NewException(i)
  <2>1. /\ msgQ' \in Seq(Answers \cup Exceptions)
        /\ IF i <= Len(q) THEN i \in DOMAIN q /\ msgQ'[i] = q[i]
           ELSE msgQ'[i] = [kind |-> "exception", cmd |-> Attached,
                            host |-> IF Connected(h) THEN h ELSE NoHost]
    BY <1>1, <1>4, CloseFacts DEF Grown
  <2>2. ASSUME msgQ'[i] = [kind |-> "exception", cmd |-> Attached,
                           host |-> IF Connected(h) THEN h ELSE NoHost]
        PROVE  NewException(i)
    <3>1. msgQ'[i].kind = "exception" /\ msgQ'[i].cmd = Attached
      BY <2>2
    <3>2. Attached => scene' = "running"
      BY <1>4 DEF Attached
    <3>3. msgQ'[i].host # NoHost => msgQ'[i].host = h
      BY <2>2
    <3>4. link'[h] = "closed"
      BY <1>4 DEF Close, TypeInv, TypeOK, LinkTypeOK
    <3> QED
      BY <3>1, <3>2, <3>3, <3>4 DEF NewException
  <2>3. i \in Nat
    BY <1>4, <2>1, LenProperties
  <2> QED
    BY <2>1, <2>2, <2>3
<1>5. AcceptScene => Queued(0)
  <2> SUFFICES ASSUME AcceptScene, NEW i \in DOMAIN msgQ'
               PROVE  /\ i \in Nat
                      /\ IF i <= Len(msgQ) THEN i \in DOMAIN msgQ /\ msgQ'[i] = msgQ[i]
                         ELSE NewException(i)
    BY <1>1 DEF Queued
  <2>1. PICK late \in SUBSET {h \in Listed : link[h] = "noted"} :
            msgQ' = msgQ \o [k \in 1 .. Cardinality(late) |->
                                 [kind |-> "exception", cmd |-> TRUE,
                                  host |-> NoHost]]
    BY DEF AcceptScene
  <2> DEFINE entry == [kind |-> "exception", cmd |-> TRUE, host |-> NoHost]
             n == Cardinality(late)
  <2>2. n \in Nat
    <3>1. late \in SUBSET Hosts
      BY DEF TypeInv, TypeOK, TrackerTypeOK, Listed, Range
    <3> QED
      BY <3>1, LinkAssumption, FS_Subset, FS_CardinalityType
  <2>3. entry \in Answers \cup Exceptions
    BY DEF Exceptions
  <2>4. entry.kind = "exception" /\ entry.host = NoHost
    OBVIOUS
  <2> HIDE DEF entry, n
  <2>5. msgQ' = msgQ \o Times(entry, n)
    BY <2>1 DEF Times, n, entry
  <2>6. /\ msgQ' \in Seq(Answers \cup Exceptions)
        /\ IF i <= Len(msgQ) THEN i \in DOMAIN msgQ /\ msgQ'[i] = msgQ[i]
           ELSE msgQ'[i] = entry
    <3>1. /\ msgQ \o Times(entry, n) \in Seq(Answers \cup Exceptions)
          /\ Grown(msgQ \o Times(entry, n), msgQ, entry)
      BY <1>1, <2>2, <2>3, RepeatedEntries
    <3>2. msgQ' \in Seq(Answers \cup Exceptions) /\ Grown(msgQ', msgQ, entry)
      BY <2>5, <3>1
    <3> QED
      BY <3>2 DEF Grown
  <2>7. scene' = "running"
    BY DEF AcceptScene
  <2>8. i \in Nat
    BY <2>6, LenProperties
  <2> QED
    BY <2>4, <2>6, <2>7, <2>8 DEF NewException
<1>6. ASSUME NEW h \in Hosts, Receive(h), msgQ' # msgQ
      PROVE  Queued(0)
  <2> DEFINE m == [kind |-> "answer", cmd |-> Attached, host |-> h,
                   pipe |-> Head(resp[h]).pipe, tag |-> Head(resp[h]).tag,
                   off |-> Head(resp[h]).off, cnt |-> Head(resp[h]).cnt]
  <2>1. msgQ' = Append(msgQ, m)
    BY <1>6 DEF Receive
  <2>2. \A i : msgQ'[i] = m => NewAnswer(i, h)
    BY <1>6 DEF NewAnswer
  <2> HIDE DEF m
  <2>3. \A i \in DOMAIN msgQ' :
            IF i \in DOMAIN msgQ THEN msgQ'[i] = msgQ[i] ELSE msgQ'[i] = m
    BY <1>1, <2>1
  <2>4. \A i \in DOMAIN msgQ' : i + 0 = i
    BY <1>1, <2>1
  <2> QED
    BY <2>2, <2>3, <2>4 DEF Queued
<1>7. CASE Request
  <2>1. ASSUME NEW f, Die(f) PROVE msgQ' = msgQ
    BY <2>1 DEF Die
  <2> QED
    BY <1>2, <1>5, <1>7, <2>1 DEF Request, RejectScene, AcceptDies
<1>8. CASE Scheduler
  <2>1. ASSUME NEW f, Die(f) PROVE msgQ' = msgQ
    BY <2>1 DEF Die
  <2>2. KickOffFind \/ KickOffNextRound \/ KickOffAssign \/ Refill => msgQ' = msgQ
    BY DEF KickOffFind, KickOffNextRound, KickOffAssign, Refill
  <2>3. AnswerDies \/ SendDies \/ ExceptionDies => msgQ' = msgQ
    BY <2>1 DEF AnswerDies, SendDies, ExceptionDies
  <2>4. AnswerThenRefill \/ AnswerThenRedispatch \/ AnswerThenFinish
           \/ AnswerThenWait \/ HandleException \/ HandleDetachedAnswer
           => msgQ # <<>> /\ msgQ' = Tail(msgQ)
    BY DEF AnswerThenRefill, AnswerThenRedispatch, AnswerThenFinish,
           AnswerThenWait, HandleException, HandleDetachedAnswer, Handle
  <2>5. HandleDetachedException => Queued(1)
    <3> SUFFICES ASSUME HandleDetachedException PROVE Queued(1)
      OBVIOUS
    <3> DEFINE h == Head(msgQ).host
               q == Tail(msgQ)
    <3>1. /\ msgQ # <<>> /\ Head(msgQ).kind = "exception" /\ h # NoHost
          /\ Close(h, q) /\ scene' = scene
      BY DEF HandleDetachedException, sceneVars
    <3>2. h \in Hosts
      BY <3>1, HeadFacts DEF TypeInv
    <3>3. /\ q \in Seq(Answers \cup Exceptions)
          /\ \A k \in DOMAIN q : q[k] = msgQ[k + 1]
      BY <1>1, <3>1, TailFacts
    <3>4. Len(q) = Len(msgQ) - 1
      BY <1>1, <3>1, HeadTailProperties
    <3> HIDE DEF h, q
    <3>5. ASSUME NEW i \in DOMAIN msgQ'
          PROVE  /\ i \in Nat
                 /\ IF i <= Len(q) THEN i \in DOMAIN q /\ msgQ'[i] = q[i]
                    ELSE NewException(i)
      BY <1>4, <3>1, <3>2, <3>3
    <3>6. ASSUME NEW i \in DOMAIN msgQ'
          PROVE  IF i + 1 \in DOMAIN msgQ THEN msgQ'[i] = msgQ[i + 1]
                 ELSE NewException(i)
      <4>1. CASE i <= Len(q)
        <5>1. msgQ'[i] = msgQ[i + 1]
          BY <3>3, <3>5, <4>1
        <5>2. i + 1 \in DOMAIN msgQ
          <6>1. i \in 1 .. Len(q)
            BY <3>3, <3>5, <4>1, LenProperties
          <6> QED
            BY <1>1, <3>4, <6>1
        <5> QED
          BY <5>1, <5>2
      <4>2. CASE ~(i <= Len(q))
        <5>1. i + 1 \notin DOMAIN msgQ
          BY <1>1, <3>4, <3>5, <4>2
        <5> QED
          BY <3>5, <4>2, <5>1
      <4> QED
        BY <4>1, <4>2
    <3> QED
      BY <3>6 DEF Queued
  <2> QED
    BY <1>2, <1>3, <1>8, <2>2, <2>3, <2>4, <2>5 DEF Scheduler
<1>9. ASSUME NEW h \in Hosts, CloseConnection(h) PROVE Queued(0)
  <2>1. Close(h, msgQ) /\ scene' = scene
    BY <1>9 DEF CloseConnection, sceneVars
  <2>2. ASSUME NEW i \in DOMAIN msgQ'
        PROVE  IF i + 0 \in DOMAIN msgQ THEN msgQ'[i] = msgQ[i + 0]
               ELSE NewException(i)
    <3>1. /\ i \in Nat
          /\ IF i <= Len(msgQ) THEN i \in DOMAIN msgQ /\ msgQ'[i] = msgQ[i]
             ELSE NewException(i)
      BY <1>1, <1>4, <2>1
    <3> QED
      BY <1>1, <3>1
  <2> QED
    BY <2>2 DEF Queued
<1>10. ASSUME NEW h \in Hosts,
              \/ ReportException(h) \/ NoteFailure(h) \/ RegisterWorker(h)
              \/ Client(h) \/ WorkerDies(h)
       PROVE  msgQ' = msgQ
  BY <1>10 DEF ReportException, NoteFailure, RegisterWorker, Client, WorkerDies
<1>11. ASSUME NEW s \in Slots, Worker(s) PROVE msgQ' = msgQ
  BY <1>11 DEF Worker
<1>12. UNCHANGED vars => msgQ' = msgQ
  BY DEF vars
<1> QED
  BY <1>2, <1>6, <1>7, <1>8, <1>9, <1>10, <1>11, <1>12 DEF Next, Connection

\* What this means for a single entry.
LEMMA QueueChange ==
    ASSUME TypeInv, [Next]_vars, NEW i \in DOMAIN msgQ'
    PROVE  \/ \E k \in DOMAIN msgQ : msgQ'[i] = msgQ[k]
           \/ NewException(i)
           \/ \E h \in Hosts : NewAnswer(i, h)
BY QueueMoves DEF Queued

\* The life of a command has no way back, and before it begins the scheduler's
\* thread has nothing to do.
LEMMA SceneLife ==
    ASSUME TypeInv, Fresh, [Next]_vars
    PROVE  /\ scene # "none" => scene' # "none"
           /\ scene' = "none" => pc' = "idle"
<1> USE DEF placeVars, sceneVars
<1>1. scene = "none" => pc = "idle"
  BY DEF Fresh
<1>2. CASE Request
  BY <1>1, <1>2 DEF Request, RejectScene, AcceptScene, AcceptDies, Die
<1>3. CASE Scheduler
  <2>1. CASE KickOffFind \/ KickOffNextRound \/ KickOffAssign \/ Refill
    BY <1>1, <2>1 DEF KickOffFind, KickOffNextRound, KickOffAssign, Refill
  <2>2. CASE AnswerThenRefill
    <3>1. TypeOK /\ msgQ # <<>> /\ Head(msgQ).cmd = TRUE /\ scene' = scene
      BY <2>2 DEF AnswerThenRefill, Handle, TypeInv
    <3>2. scene # "none"
      BY <3>1, TailFacts DEF Fresh
    <3> QED
      BY <3>1, <3>2
  <2>3. CASE AnswerThenRedispatch \/ AnswerThenFinish \/ AnswerThenWait
    BY <1>1, <2>3 DEF AnswerThenRedispatch, AnswerThenFinish, AnswerThenWait
  <2>4. CASE HandleException \/ HandleDetachedAnswer \/ HandleDetachedException
    BY <1>1, <2>4 DEF HandleException, HandleDetachedAnswer,
                      HandleDetachedException
  <2>5. CASE AnswerDies \/ SendDies \/ ExceptionDies
    BY <1>1, <2>5 DEF AnswerDies, SendDies, ExceptionDies, Die
  <2> QED
    BY <1>3, <2>1, <2>2, <2>3, <2>4, <2>5 DEF Scheduler
<1>4. ASSUME NEW h \in Hosts,
             Connection(h) \/ RegisterWorker(h) \/ Client(h) \/ WorkerDies(h)
      PROVE  UNCHANGED <<pc, scene>>
  BY <1>4 DEF Connection, RegisterWorker, Receive, ReportException,
              NoteFailure, CloseConnection, Client, WorkerDies
<1>5. ASSUME NEW s \in Slots, Worker(s) PROVE UNCHANGED <<pc, scene>>
  BY <1>5 DEF Worker
<1>6. UNCHANGED vars => UNCHANGED <<pc, scene>>
  BY DEF vars
<1> QED
  BY <1>1, <1>2, <1>3, <1>4, <1>5, <1>6 DEF Next

\* Jobs that follow each other still do when the next one is handed out.
LEMMA ApartNext ==
    ASSUME NEW jobs \in SUBSET Jobs, NEW bound \in Nat, Apart(jobs, bound),
           NEW cnt \in Nat \ {0}
    PROVE  Apart(jobs \cup {[off |-> bound, cnt |-> cnt]}, bound + cnt)
<1> DEFINE new == [off |-> bound, cnt |-> cnt]
<1>1. new.off = bound /\ new.cnt = cnt
  OBVIOUS
<1> HIDE DEF new
<1> SUFFICES ASSUME NEW j \in jobs \cup {new}, NEW k \in jobs \cup {new}
             PROVE  /\ j.cnt # 0
                    /\ j.off + j.cnt <= bound + cnt
                    /\ j.off <= k.off /\ j # k => j.off + j.cnt <= k.off
  BY DEF Apart, new
<1>2. \A l \in jobs : /\ l.off \in Nat /\ l.cnt \in Nat /\ l.cnt # 0
                      /\ l.off + l.cnt <= bound
  BY DEF Apart, Jobs
<1>3. CASE j \in jobs /\ k \in jobs
  <2>1. j.off <= k.off /\ j # k => j.off + j.cnt <= k.off
    BY <1>3 DEF Apart
  <2> QED
    BY <1>2, <1>3, <2>1
<1>4. CASE j \in jobs /\ k = new
  BY <1>1, <1>2, <1>4
<1>5. CASE j = new /\ k \in jobs
  BY <1>1, <1>2, <1>5
<1>6. CASE j = new /\ k = new
  BY <1>1, <1>6
<1> QED
  BY <1>3, <1>4, <1>5, <1>6

LEMMA JobInit == Init => JobInv
<1> SUFFICES ASSUME Init PROVE JobInv
  OBVIOUS
<1>1. AllJobs = {}
  <2>1. Shipped = {} /\ Known = {}
    BY DEF Init, TrackerInit, LinkInit, Shipped, Known
  <2>2. Promised = {}
    BY DEF Init, LinkInit, Promised
  <2> QED
    BY <2>1, <2>2 DEF AllJobs
<1> QED
  BY <1>1 DEF Init, JobInv, Apart, Fresh

LEMMA JobInvStep ==
    ASSUME TypeInv, JobInv, [Next]_vars
    PROVE  JobInv'
<1>1. JobStep \/ AcceptScene
  BY JobsChange DEF JobInv
<1>2. AcceptScene => AllJobs' = AllJobs /\ AllJobs = {} /\ scene' # "none"
  <2> SUFFICES ASSUME AcceptScene
               PROVE  AllJobs' = AllJobs /\ AllJobs = {} /\ scene' # "none"
    OBVIOUS
  <2>1. /\ scene = "none" /\ scene' = "running"
        /\ UNCHANGED <<failed, tracked, image, lost, segments, todo>>
    BY DEF AcceptScene, trackerVars, wireVars
  <2>2. Shipped' = Shipped /\ Known' = Known /\ Promised' = Promised
    BY <2>1 DEF Shipped, Known, Promised, JobOf
  <2> QED
    BY <2>1, <2>2 DEF JobInv, Fresh, AllJobs
<1>3. Apart(AllJobs', current')
  <2>1. AllJobs \subseteq Jobs /\ current \in Nat
    BY JobsAreJobs DEF TypeInv, TypeOK
  <2>2. CASE current' = current /\ AllJobs' \subseteq AllJobs
    BY <2>2 DEF JobInv, Apart
  <2>3. CASE AcceptScene
    BY <1>2, <2>3 DEF Apart
  <2>4. ASSUME NEW cnt \in Nat, HandsOut(cnt) PROVE Apart(AllJobs', current')
    <3> DEFINE job == [off |-> current, cnt |-> cnt]
    <3>1. /\ AllJobs' \subseteq AllJobs \cup {job}
          /\ current' = current + cnt /\ cnt \in Nat \ {0}
      BY <2>4 DEF HandsOut
    <3>2. Apart(AllJobs \cup {job}, current + cnt)
      BY <2>1, <3>1, ApartNext DEF JobInv
    <3> QED
      BY <3>1, <3>2 DEF Apart
  <2> QED
    BY <1>1, <2>2, <2>3, <2>4 DEF JobStep, Keeps, Forgets
<1>4. scene' = "none" => pc' = "idle" /\ AllJobs' = {}
  <2> SUFFICES ASSUME scene' = "none" PROVE pc' = "idle" /\ AllJobs' = {}
    OBVIOUS
  <2>1. pc' = "idle" /\ scene = "none"
    BY SceneLife DEF JobInv
  <2>2. pc = "idle" /\ AllJobs = {}
    BY <2>1 DEF JobInv, Fresh
  <2> QED
    BY <1>1, <1>2, <2>1, <2>2 DEF JobStep, Keeps, Forgets, HandsOut
<1>5. ASSUME NEW i \in DOMAIN msgQ', msgQ'[i].cmd PROVE scene' # "none"
  <2>1. CASE \E k \in DOMAIN msgQ : msgQ'[i] = msgQ[k]
    BY <1>5, <2>1, SceneLife DEF JobInv, Fresh
  <2>2. ASSUME NEW h \in Hosts, Receive(h), msgQ'[i].cmd = Attached
        PROVE  scene' # "none"
    BY <1>5, <2>2 DEF Attached, Receive, sceneVars
  <2>3. CASE msgQ'[i].cmd => scene' = "running"
    BY <1>5, <2>3
  <2>4. \/ \E k \in DOMAIN msgQ : msgQ'[i] = msgQ[k]
        \/ msgQ'[i].cmd => scene' = "running"
        \/ \E h \in Hosts : Receive(h) /\ msgQ'[i].cmd = Attached
    BY QueueChange DEF NewException, NewAnswer
  <2> QED
    BY <2>1, <2>2, <2>3, <2>4
<1> QED
  BY <1>3, <1>4, <1>5 DEF JobInv, Fresh, Apart

\* No pixel is ever in two jobs, and none is handed out twice or beyond the end
\* of what has been handed out, whatever crashes and is re-dispatched
\* (SceneSchedulerDynamic::SendNextJob, ::OnPixelProduceResponseMsg and
\* SchedulerBase::OnTCPConnectionException).
THEOREM JobsNeverOverlap == Spec => []JobsDisjoint
<1>1. Init => TypeInv /\ JobInv
  BY TypeInit, JobInit
<1>2. TypeInv /\ JobInv /\ [Next]_vars => (TypeInv /\ JobInv)'
  BY TypeStep, JobInvStep
<1>3. TypeInv /\ JobInv => JobsDisjoint
  BY DEF JobInv, Apart, AllJobs, JobsDisjoint
<1> QED
  BY <1>1, <1>2, <1>3, PTL DEF Spec

-----------------------------------------------------------------------------
(* No pixel is forgotten                                                   *)

\* What has been shipped stays shipped.
LEMMA ShippedStays ==
    ASSUME TypeInv, JobInv, [Next]_vars
    PROVE  Shipped \subseteq Shipped'
<1>1. AcceptScene => Shipped' = Shipped
  BY DEF AcceptScene, wireVars, Shipped
<1> QED
  BY <1>1, JobsChange DEF JobInv, JobStep

LEMMA QuietShip ==
    ASSUME WorkersShip, Shipped \subseteq Shipped', UNCHANGED <<todo, shipped, resp>>
    PROVE  WorkersShip'
BY DEF WorkersShip, JobOf

\* A request is sent: those before it stay where they are.
LEMMA SendShip ==
    ASSUME TypeInv, WorkersShip, Shipped \subseteq Shipped',
           NEW s \in Slots, NEW off \in Nat, NEW cnt \in Nat,
           cnt = 0 => off = 0, SendRequest(s, off, cnt)
    PROVE  WorkersShip'
<1> DEFINE r == [tag |-> Head(freeTags[s[1]]), off |-> off, cnt |-> cnt]
<1>1. r.cnt = 0 => r.off = 0
  OBVIOUS
<1>2. /\ todo' = todo \/ todo' = [todo EXCEPT ![s] = Append(@, r)]
      /\ UNCHANGED <<shipped, resp>>
  BY DEF SendRequest, wireVars
<1> HIDE DEF r
<1>3. todo \in [Slots -> Seq(Requests)]
  BY DEF TypeInv, TypeOK, LinkTypeOK
<1>4. /\ \A i \in DOMAIN todo[s] : i \in DOMAIN Append(todo[s], r)
                                   /\ Append(todo[s], r)[i] = todo[s][i]
      /\ \A i \in DOMAIN Append(todo[s], r) : i \in DOMAIN todo[s]
                                   \/ Append(todo[s], r)[i] = r
  <2>1. todo[s] \in Seq(Requests)
    BY <1>3
  <2> QED
    BY <2>1
<1>5. \A g \in Slots :
          /\ \A i \in DOMAIN todo[g] : i \in DOMAIN todo'[g] /\ todo'[g][i] = todo[g][i]
          /\ \A i \in DOMAIN todo'[g] : i \in DOMAIN todo[g] \/ todo'[g][i] = r
  BY <1>2, <1>3, <1>4
<1>6. \A g \in Slots : \A i \in DOMAIN todo'[g] :
          todo'[g][i].cnt = 0 => todo'[g][i].off = 0
  BY <1>1, <1>5 DEF WorkersShip
<1>7. \A g \in Slots : shipped'[g] =>
          1 \in DOMAIN todo'[g] /\ JobOf(todo'[g][1]) \in Shipped'
  BY <1>2, <1>5 DEF WorkersShip
<1>8. \A h \in Hosts : \A i \in DOMAIN resp'[h] :
          IF resp'[h][i].cnt = 0 THEN resp'[h][i].off = 0
          ELSE JobOf(resp'[h][i]) \in Shipped'
  BY <1>2 DEF WorkersShip
<1> QED
  BY <1>6, <1>7, <1>8 DEF WorkersShip, JobOf

\* The scheduler sends requests for jobs that are not empty, and empty ones at
\* pixel 0.
LEMMA SchedulerShip ==
    ASSUME TypeInv, JobInv, WorkersShip, Shipped \subseteq Shipped',
           KickOffAssign \/ Refill \/ AnswerThenRedispatch
    PROVE  WorkersShip'
<1>1. ASSUME failed # {}
      PROVE  FirstFailed.off \in Nat /\ FirstFailed.cnt \in Nat \ {0}
  <2>1. FirstFailed \in Jobs /\ FirstFailed \in AllJobs
    BY <1>1, FirstFailedIn, JobSets DEF TypeInv, TypeOK
  <2> QED
    BY <2>1 DEF JobInv, Apart, Jobs
<1>2. ASSUME NEW s \in Slots, NEW w \in Nat \ {0}, current < NumPixels,
             RequestFault(s, TRUE) = "none", SendNextJob(s, w)
      PROVE  WorkersShip'
  <2>1. RefillSize(s[1], w) \in 1 .. NumPixels - current
    BY <1>2, SendNextJobType
  <2>2. current \in Nat
    BY DEF TypeInv, TypeOK
  <2>3. PICK cnt \in Nat \ {0} : cnt = RefillSize(s[1], w)
    BY <2>1, <2>2, TrackerAssumption
  <2>4. SendRequest(s, current, cnt)
    BY <1>2, <2>3 DEF SendNextJob, Assign
  <2> QED
    BY <2>2, <2>3, <2>4, SendShip
<1>3. CASE KickOffAssign
  <2> DEFINE s == <<hostWorkers[pos.index], pos.pipe>>
  <2>1. /\ pc = "assign"
        /\ RequestFault(s, current < NumPixels) = "none"
        /\ \/ current < NumPixels /\ SendNextJob(s, workload)
           \/ current >= NumPixels /\ SendRequest(s, 0, 0)
    BY <1>3 DEF KickOffAssign
  <2>2. s \in Slots /\ workload \in Nat \ {0}
    <3>1. /\ hostWorkers[pos.index] \in Hosts
          /\ pos.pipe \in Pipelines(hostWorkers[pos.index])
      BY <2>1 DEF TypeInv, TypeOK, TrackerTypeOK, Places
    <3> QED
      BY <2>1, <3>1, SlotFacts DEF TypeInv, TypeOK, Places
  <2> HIDE DEF s
  <2>3. CASE current < NumPixels /\ SendNextJob(s, workload)
    <3>1. RequestFault(s, TRUE) = "none"
      BY <2>1, <2>3 DEF RequestFault
    <3> QED
      BY <1>2, <2>2, <2>3, <3>1
  <2>4. CASE SendRequest(s, 0, 0)
    BY <2>2, <2>4, SendShip
  <2> QED
    BY <2>1, <2>3, <2>4
<1>4. CASE Refill
  <2>1. slot \in Slots /\ current < NumPixels
    BY <1>4 DEF Refill, TypeInv, Places
  <2>2. CASE failed # {}
    <3>1. SendRequest(slot, FirstFailed.off, FirstFailed.cnt)
      BY <1>4, <2>2 DEF Refill, Assign
    <3> QED
      BY <1>1, <2>1, <2>2, <3>1, SendShip
  <2>3. CASE failed = {}
    <3>1. /\ workload' = MaxOf((workload * Decay) \div 10000, ChunkMin)
          /\ SendNextJob(slot, workload')
      BY <1>4, <2>3 DEF Refill
    <3>2. workload' \in Nat \ {0}
      <4>1. workload * Decay \in Nat
        BY SchedulerAssumption DEF TypeInv, TypeOK
      <4>2. (workload * Decay) \div 10000 \in Nat
        BY <4>1
      <4> QED
        BY <3>1, <4>2, TrackerAssumption DEF MaxOf
    <3>3. PICK w \in Nat \ {0} : w = workload'
      BY <3>2
    <3>4. SendNextJob(slot, w)
      BY <3>1, <3>3
    <3>5. RequestFault(slot, TRUE) = "none"
      BY <1>4, <2>3 DEF Refill, RequestFault
    <3> QED
      BY <1>2, <2>1, <3>4, <3>5
  <2> QED
    BY <2>2, <2>3
<1>5. CASE AnswerThenRedispatch
  <2>1. /\ failed # {} /\ msgQ # <<>> /\ Head(msgQ).kind = "answer"
        /\ SendRequest(AnswerSlot, FirstFailed.off, FirstFailed.cnt)
    BY <1>5 DEF AnswerThenRedispatch, Assign, Handle
  <2>2. AnswerSlot \in Slots
    BY <2>1, HeadFacts DEF TypeInv
  <2> QED
    BY <1>1, <2>1, <2>2, SendShip
<1> QED
  BY <1>3, <1>4, <1>5

\* A pipeline ships the pixels of its first request.
LEMMA ShipSegmentShip ==
    ASSUME TypeInv, WorkersShip, Shipped \subseteq Shipped',
           NEW s \in Slots, ShipSegment(s)
    PROVE  WorkersShip'
<1> DEFINE job == JobOf(todo[s][1])
<1>1. todo[s] \in Seq(Requests) /\ todo[s] # <<>> /\ s[1] \in Hosts
  BY SlotFacts DEF ShipSegment, TypeInv, TypeOK, LinkTypeOK
<1>2. Head(todo[s]) = todo[s][1] /\ 1 \in DOMAIN todo[s]
  BY <1>1, LenProperties, EmptySeq
<1>3. /\ shipped' = [shipped EXCEPT ![s] = TRUE]
      /\ segments' = [segments EXCEPT ![s[1]] = @ \cup {job}]
      /\ UNCHANGED <<todo, resp>>
  BY <1>2 DEF ShipSegment, JobOf
<1> HIDE DEF job
<1>4. job \in segments'[s[1]]
  BY <1>1, <1>3 DEF TypeInv, TypeOK, LinkTypeOK
<1>5. job \in Shipped'
  BY <1>1, <1>4, JobSets
<1>6. \A g \in Slots : shipped'[g] =>
          1 \in DOMAIN todo'[g] /\ JobOf(todo'[g][1]) \in Shipped'
  <2>1. \A g \in Slots : shipped'[g] => g = s \/ shipped[g]
    BY <1>3 DEF TypeInv, TypeOK, LinkTypeOK
  <2> QED
    BY <1>2, <1>3, <1>5, <2>1 DEF WorkersShip, job
<1>7. /\ \A h \in Hosts : \A i \in DOMAIN resp'[h] :
             IF resp'[h][i].cnt = 0 THEN resp'[h][i].off = 0
             ELSE JobOf(resp'[h][i]) \in Shipped'
      /\ \A g \in Slots : \A i \in DOMAIN todo'[g] :
             todo'[g][i].cnt = 0 => todo'[g][i].off = 0
  BY <1>3 DEF WorkersShip
<1> QED
  BY <1>6, <1>7 DEF WorkersShip, JobOf

\* It answers a request whose pixels it has shipped, or that has none.
LEMMA RespondShip ==
    ASSUME TypeInv, WorkersShip, Shipped \subseteq Shipped',
           NEW s \in Slots, Respond(s)
    PROVE  WorkersShip'
<1>1. PICK n \in Answerable(s) :
          /\ n \in DOMAIN todo[s] /\ todo[s][n] \in Requests
          /\ resp' = [resp EXCEPT ![s[1]] =
                        Append(@, [pipe |-> s[2], tag |-> todo[s][n].tag,
                                   off |-> todo[s][n].off, cnt |-> todo[s][n].cnt])]
          /\ todo' = [todo EXCEPT ![s] = RemoveAt(@, n)]
          /\ RemoveAt(todo[s], n) \in Seq(Requests)
          /\ Len(RemoveAt(todo[s], n)) = Len(todo[s]) - 1
          /\ \A i \in 1 .. Len(todo[s]) - 1 : RemoveAt(todo[s], n)[i] =
                 IF i < n THEN todo[s][i] ELSE todo[s][i + 1]
          /\ shipped' = [shipped EXCEPT ![s] = @ /\ n # 1]
  BY RespondFacts
<1> DEFINE rest == RemoveAt(todo[s], n)
<1>2. /\ todo \in [Slots -> Seq(Requests)] /\ shipped \in [Slots -> BOOLEAN]
      /\ resp \in [Hosts -> Seq(Responses)] /\ s[1] \in Hosts
      /\ todo[s] \in Seq(Requests)
  BY SlotFacts DEF TypeInv, TypeOK, LinkTypeOK
<1>3. /\ Len(todo[s]) \in Nat /\ DOMAIN todo[s] = 1 .. Len(todo[s])
      /\ DOMAIN rest = 1 .. Len(todo[s]) - 1
  BY <1>1, <1>2, LenProperties
<1>4. \A i \in DOMAIN rest : \E k \in DOMAIN todo[s] : rest[i] = todo[s][k]
  <2> SUFFICES ASSUME NEW i \in 1 .. Len(todo[s]) - 1
               PROVE  \E k \in DOMAIN todo[s] : rest[i] = todo[s][k]
    BY <1>3
  <2>1. i \in 1 .. Len(todo[s]) /\ i + 1 \in 1 .. Len(todo[s])
    BY <1>3
  <2>2. rest[i] = IF i < n THEN todo[s][i] ELSE todo[s][i + 1]
    BY <1>1
  <2> QED
    BY <1>3, <2>1, <2>2
<1>5. n # 1 => 1 \in DOMAIN rest /\ rest[1] = todo[s][1]
  <2> SUFFICES ASSUME n # 1 PROVE 1 \in DOMAIN rest /\ rest[1] = todo[s][1]
    OBVIOUS
  <2>1. n \in 2 .. Len(todo[s])
    BY <1>1, <1>3
  <2>2. 1 \in 1 .. Len(todo[s]) - 1 /\ 1 < n
    BY <1>3, <2>1
  <2> QED
    BY <1>1, <1>3, <2>2
<1> HIDE DEF rest
<1>6. \A g \in Slots : todo'[g] = IF g = s THEN rest ELSE todo[g]
  BY <1>1, <1>2 DEF rest
<1>7. \A g \in Slots : \A i \in DOMAIN todo'[g] :
          todo'[g][i].cnt = 0 => todo'[g][i].off = 0
  BY <1>4, <1>6 DEF WorkersShip
<1>8. \A g \in Slots : shipped'[g] =>
          1 \in DOMAIN todo'[g] /\ JobOf(todo'[g][1]) \in Shipped'
  <2>1. \A g \in Slots : shipped'[g] => shipped[g] /\ (g = s => n # 1)
    BY <1>1, <1>2
  <2> QED
    BY <1>5, <1>6, <2>1 DEF WorkersShip
<1> DEFINE a == [pipe |-> s[2], tag |-> todo[s][n].tag,
                 off |-> todo[s][n].off, cnt |-> todo[s][n].cnt]
<1>9. IF a.cnt = 0 THEN a.off = 0 ELSE JobOf(a) \in Shipped'
  <2>1. todo[s][n].cnt = 0 => todo[s][n].off = 0
    BY <1>1 DEF WorkersShip
  <2>2. todo[s][n].cnt # 0 => n = 1 /\ shipped[s]
    BY DEF Answerable
  <2>3. todo[s][n].cnt # 0 => JobOf(todo[s][n]) \in Shipped
    BY <2>2 DEF WorkersShip
  <2>4. JobOf(a) = JobOf(todo[s][n])
    BY DEF JobOf
  <2> QED
    BY <2>1, <2>3, <2>4
<1>10. resp' = [resp EXCEPT ![s[1]] = Append(@, a)]
  BY <1>1
<1> HIDE DEF a
<1>11. ASSUME NEW h \in Hosts, NEW i \in DOMAIN resp'[h]
       PROVE  IF resp'[h][i].cnt = 0 THEN resp'[h][i].off = 0
              ELSE JobOf(resp'[h][i]) \in Shipped'
  <2>1. resp'[h] = IF h = s[1] THEN Append(resp[h], a) ELSE resp[h]
    BY <1>2, <1>10
  <2>2. resp[h] \in Seq(Responses)
    BY <1>2
  <2>3. \A k \in DOMAIN Append(resp[h], a) :
            (k \in DOMAIN resp[h] /\ Append(resp[h], a)[k] = resp[h][k])
               \/ Append(resp[h], a)[k] = a
    BY <2>2
  <2>4. (i \in DOMAIN resp[h] /\ resp'[h][i] = resp[h][i]) \/ resp'[h][i] = a
    BY <1>11, <2>1, <2>3
  <2> QED
    BY <1>9, <2>4 DEF WorkersShip
<1> QED
  BY <1>7, <1>8, <1>11 DEF WorkersShip, JobOf

\* A worker that dies takes its requests along.
LEMMA PerishShip ==
    ASSUME TypeInv, WorkersShip, Shipped \subseteq Shipped',
           NEW h \in Hosts, Perish(h)
    PROVE  WorkersShip'
<1>1. \A g \in Hosts : \A i \in DOMAIN resp'[g] :
          i \in DOMAIN resp[g] /\ resp'[g][i] = resp[g][i]
  BY PerishFacts
<1>2. /\ todo' = [s \in Slots |-> IF s[1] = h THEN <<>> ELSE todo[s]]
      /\ shipped' = [s \in Slots |-> s[1] # h /\ shipped[s]]
  BY DEF Perish
<1>3. \A g \in Hosts : \A i \in DOMAIN resp'[g] :
          IF resp'[g][i].cnt = 0 THEN resp'[g][i].off = 0
          ELSE JobOf(resp'[g][i]) \in Shipped'
  BY <1>1 DEF WorkersShip
<1>4. \A s \in Slots : \A i \in DOMAIN todo'[s] :
          todo'[s][i].cnt = 0 => todo'[s][i].off = 0
  BY <1>2 DEF WorkersShip
<1>5. \A s \in Slots : shipped'[s] =>
          1 \in DOMAIN todo'[s] /\ JobOf(todo'[s][1]) \in Shipped'
  <2>1. \A s \in Slots : shipped'[s] => shipped[s] /\ todo'[s] = todo[s]
    BY <1>2
  <2> QED
    BY <2>1 DEF WorkersShip
<1> QED
  BY <1>3, <1>4, <1>5 DEF WorkersShip, JobOf

\* A connection delivers the first response.
LEMMA ReceiveShip ==
    ASSUME TypeInv, WorkersShip, Shipped \subseteq Shipped',
           NEW h \in Hosts, Receive(h)
    PROVE  /\ WorkersShip'
           /\ IF Head(resp[h]).cnt = 0 THEN Head(resp[h]).off = 0
              ELSE JobOf(Head(resp[h])) \in Shipped'
<1>1. /\ resp[h] # <<>> /\ resp' = [resp EXCEPT ![h] = Tail(@)]
      /\ UNCHANGED <<todo, shipped>>
  BY DEF Receive
<1>2. resp \in [Hosts -> Seq(Responses)] /\ resp[h] \in Seq(Responses)
  BY DEF TypeInv, TypeOK, LinkTypeOK
<1>3. /\ Head(resp[h]) = resp[h][1] /\ 1 \in DOMAIN resp[h]
      /\ \A i \in DOMAIN Tail(resp[h]) : i + 1 \in DOMAIN resp[h]
                                         /\ Tail(resp[h])[i] = resp[h][i + 1]
  <2>1. /\ Tail(resp[h]) \in Seq(Responses)
        /\ Len(Tail(resp[h])) = Len(resp[h]) - 1
        /\ \A i \in 1 .. Len(Tail(resp[h])) : Tail(resp[h])[i] = resp[h][i + 1]
    BY <1>1, <1>2, HeadTailProperties
  <2>2. /\ DOMAIN resp[h] = 1 .. Len(resp[h])
        /\ DOMAIN Tail(resp[h]) = 1 .. Len(Tail(resp[h]))
        /\ Len(resp[h]) \in Nat \ {0}
    BY <1>1, <1>2, <2>1, LenProperties, EmptySeq
  <2> QED
    BY <1>1, <1>2, <2>1, <2>2
<1>4. \A g \in Hosts : \A i \in DOMAIN resp'[g] :
          \E k \in DOMAIN resp[g] : resp'[g][i] = resp[g][k]
  <2>1. \A g \in Hosts : resp'[g] = IF g = h THEN Tail(resp[h]) ELSE resp[g]
    BY <1>1, <1>2
  <2> QED
    BY <1>3, <2>1
<1>5. \A g \in Hosts : \A i \in DOMAIN resp'[g] :
          IF resp'[g][i].cnt = 0 THEN resp'[g][i].off = 0
          ELSE JobOf(resp'[g][i]) \in Shipped'
  BY <1>4 DEF WorkersShip
<1>6. /\ \A s \in Slots : \A i \in DOMAIN todo'[s] :
             todo'[s][i].cnt = 0 => todo'[s][i].off = 0
      /\ \A s \in Slots : shipped'[s] =>
             1 \in DOMAIN todo'[s] /\ JobOf(todo'[s][1]) \in Shipped'
  BY <1>1 DEF WorkersShip
<1>7. IF Head(resp[h]).cnt = 0 THEN Head(resp[h]).off = 0
      ELSE JobOf(Head(resp[h])) \in Shipped'
  BY <1>3 DEF WorkersShip
<1> QED
  BY <1>5, <1>6, <1>7 DEF WorkersShip, JobOf

LEMMA WorkersShipStep ==
    ASSUME TypeInv, JobInv, WorkersShip, [Next]_vars
    PROVE  WorkersShip'
<1> DEFINE quiet == UNCHANGED <<todo, shipped, resp>>
<1>1. Shipped \subseteq Shipped'
  BY ShippedStays
<1>2. quiet => WorkersShip'
  BY <1>1, QuietShip
<1> USE DEF linkVars, wireVars
<1>3. ASSUME NEW f, Die(f) PROVE quiet
  BY <1>3 DEF Die
<1>4. CASE Request
  <2>1. RejectScene \/ AcceptScene => quiet
    BY DEF RejectScene, AcceptScene
  <2>2. AcceptDies => quiet
    BY <1>3 DEF AcceptDies
  <2> QED
    BY <1>2, <1>4, <2>1, <2>2 DEF Request
<1>5. CASE Scheduler
  <2>1. KickOffFind \/ KickOffNextRound => quiet
    BY DEF KickOffFind, KickOffNextRound
  <2>2. AnswerDies \/ SendDies \/ ExceptionDies => quiet
    BY <1>3 DEF AnswerDies, SendDies, ExceptionDies
  <2>3. AnswerThenRefill \/ AnswerThenFinish \/ AnswerThenWait => quiet
    BY DEF AnswerThenRefill, AnswerThenFinish, AnswerThenWait, FreeAppTag
  <2>4. HandleException \/ HandleDetachedAnswer \/ HandleDetachedException => quiet
    BY DEF HandleException, HandleDetachedAnswer, HandleDetachedException, Close
  <2> HIDE DEF quiet
  <2> QED
    BY <1>1, <1>2, <1>5, <2>1, <2>2, <2>3, <2>4, SchedulerShip DEF Scheduler
<1>6. ASSUME NEW h \in Hosts, Connection(h) \/ RegisterWorker(h) PROVE WorkersShip'
  <2>1. ReportException(h) \/ NoteFailure(h) \/ CloseConnection(h)
           \/ RegisterWorker(h) => quiet
    BY DEF ReportException, NoteFailure, CloseConnection, RegisterWorker, Close
  <2> HIDE DEF quiet
  <2> QED
    BY <1>1, <1>2, <1>6, <2>1, ReceiveShip DEF Connection
<1>7. ASSUME NEW h \in Hosts, Client(h) \/ WorkerDies(h) PROVE WorkersShip'
  <2>1. Client(h) => quiet
    BY DEF Client, Deliver
  <2> HIDE DEF quiet
  <2> QED
    BY <1>1, <1>2, <1>7, <2>1, PerishShip DEF WorkerDies, Crash
<1>8. ASSUME NEW s \in Slots, Worker(s) PROVE WorkersShip'
  <2>1. ProduceUnknownScene(s) => WorkersShip'
    BY <1>1, PerishShip, SlotFacts DEF ProduceUnknownScene
  <2> QED
    BY <1>1, <1>8, <2>1, ShipSegmentShip, RespondShip DEF Worker
<1>9. UNCHANGED vars => quiet
  BY DEF vars
<1> HIDE DEF quiet
<1> QED
  BY <1>2, <1>4, <1>5, <1>6, <1>7, <1>8, <1>9 DEF Next

LEMMA AnswersShippedStep ==
    ASSUME TypeInv, JobInv, WorkersShip, AnswersShipped, [Next]_vars
    PROVE  AnswersShipped'
<1>1. Shipped \subseteq Shipped'
  BY ShippedStays
<1>2. ASSUME NEW i \in DOMAIN msgQ', msgQ'[i].kind = "answer"
      PROVE  IF msgQ'[i].cnt = 0 THEN msgQ'[i].off = 0
             ELSE JobOf(msgQ'[i]) \in Shipped'
  <2>1. CASE \E k \in DOMAIN msgQ : msgQ'[i] = msgQ[k]
    BY <1>1, <1>2, <2>1 DEF AnswersShipped, AnswerAt
  <2>2. ASSUME NEW h \in Hosts, NewAnswer(i, h)
        PROVE  IF msgQ'[i].cnt = 0 THEN msgQ'[i].off = 0
               ELSE JobOf(msgQ'[i]) \in Shipped'
    <3>1. /\ Receive(h)
          /\ msgQ'[i].cnt = Head(resp[h]).cnt
          /\ msgQ'[i].off = Head(resp[h]).off
          /\ JobOf(msgQ'[i]) = JobOf(Head(resp[h]))
      BY <2>2 DEF NewAnswer, JobOf
    <3> QED
      BY <1>1, <3>1, ReceiveShip
  <2>3. ~NewException(i)
    BY <1>2 DEF NewException
  <2> QED
    BY <2>1, <2>2, <2>3, QueueChange
<1> QED
  BY <1>2 DEF AnswersShipped, AnswerAt, JobOf

\* What a step that hands out nothing leaves known: all but the job at offset 0,
\* which an answer without work names.
LEMMA OthersKept ==
    ASSUME TypeInv, JobInv, WorkersShip, AnswersShipped, [Next]_vars,
           Keeps \/ Forgets,
           NEW j \in Known, j.off # 0
    PROVE  j \in Known'
<1>1. /\ AllJobs \subseteq Jobs /\ Known \subseteq AllJobs
      /\ Apart(AllJobs, current)
  BY JobsAreJobs DEF AllJobs, JobInv, TypeInv, TypeOK
<1>2. CASE Keeps
  BY <1>2 DEF Keeps
<1>3. CASE Forgets
  <2> DEFINE m == Head(msgQ)
  <2>1. /\ msgQ # <<>> /\ m.kind = "answer" /\ TypeOK
        /\ \A k \in Known : k.off # m.off => k \in Known'
    BY <1>3 DEF Forgets, TypeInv
  <2>2. m = msgQ[1] /\ 1 \in DOMAIN msgQ
    BY <2>1, TailFacts
  <2>3. IF m.cnt = 0 THEN m.off = 0 ELSE JobOf(m) \in Shipped
    BY <2>1, <2>2 DEF AnswersShipped, AnswerAt
  <2> HIDE DEF m
  <2>4. CASE j.off # m.off
    BY <2>1, <2>4
  <2>5. CASE j.off = m.off
    <3>1. JobOf(m) \in Shipped /\ JobOf(m).off = j.off
      BY <2>3, <2>5 DEF JobOf
    <3>2. /\ JobOf(m) \in AllJobs /\ j \in AllJobs
          /\ JobOf(m) \in Jobs /\ j \in Jobs
      BY <1>1, <3>1, JobSets
    <3>3. /\ j.cnt # 0 /\ j.off \in Nat /\ j.cnt \in Nat
          /\ j.off <= JobOf(m).off /\ j # JobOf(m) => j.off + j.cnt <= JobOf(m).off
      BY <1>1, <3>2 DEF Apart, Jobs
    <3>4. j = JobOf(m)
      BY <3>1, <3>3
    <3>5. JobOf(m) \in Shipped'
      BY <3>1, ShippedStays
    <3> QED
      BY <3>4, <3>5, JobSets
  <2> QED
    BY <2>4, <2>5
<1> QED
  BY <1>2, <1>3

\* Handing out the first job, or more jobs, and forgetting what is answered,
\* leaves the pixels from some place on covered.
LEMMA CoveredStep ==
    ASSUME TypeInv, JobInv, Covered, [Next]_vars
    PROVE  \E c \in Nat : CoveredFrom(c)'
<1>1. PICK c \in Nat : CoveredFrom(c)
  BY DEF Covered
<1>2. /\ AllJobs \subseteq Jobs /\ Known \subseteq AllJobs
      /\ current \in Nat /\ current' \in Nat
      /\ Apart(AllJobs, current)
  BY JobsAreJobs, TypeStep DEF AllJobs, JobInv, TypeInv, TypeOK
<1>3. ASSUME current' = current, AllJobs' \subseteq AllJobs,
             \A j \in Known : j.off # 0 => j \in Known'
      PROVE  CoveredFrom(c)'
  <2>1. ASSUME NEW px \in c .. current - 1 PROVE px \in PixelsOf(Known')
    <3>1. PICK j \in Known : px \in j.off .. j.off + j.cnt - 1
      BY <1>1 DEF CoveredFrom, PixelsOf
    <3>2. j \in Jobs /\ j \in AllJobs
      BY <1>2
    <3>3. j.off # 0
      <4> SUFFICES ASSUME j.off = 0 PROVE FALSE
        OBVIOUS
      <4>1. c = 0 \/ j.cnt = c
        BY <1>1, <3>2 DEF CoveredFrom, Jobs
      <4>2. c # 0
        BY <1>1, <1>2 DEF CoveredFrom
      <4> QED
        BY <1>2, <3>1, <3>2, <4>1, <4>2 DEF Jobs
    <3>4. j \in Known'
      BY <1>3, <3>3
    <3> QED
      BY <3>1, <3>4 DEF PixelsOf
  <2>2. \A j \in AllJobs' : j.off >= c \/ (j.off = 0 /\ j.cnt = c)
    BY <1>1, <1>3 DEF CoveredFrom
  <2> QED
    BY <1>1, <1>3, <2>1, <2>2 DEF CoveredFrom, PixelsOf
<1>4. CASE Keeps
  BY <1>3, <1>4 DEF Keeps
<1>5. CASE Forgets
  BY <1>3, <1>5, OthersKept DEF Forgets, Covered
<1>6. ASSUME NEW cnt \in Nat, HandsOut(cnt) PROVE \E d \in Nat : CoveredFrom(d)'
  <2> DEFINE job == [off |-> current, cnt |-> cnt]
  <2>1. /\ cnt \in Nat \ {0}
        /\ current' = current + cnt
        /\ AllJobs' \subseteq AllJobs \cup {job}
        /\ Known \subseteq Known' /\ job \in Known'
    BY <1>6 DEF HandsOut
  <2>2. job.off = current /\ job.cnt = cnt
    OBVIOUS
  <2> HIDE DEF job
  <2>3. CASE current = 0
    <3>1. AllJobs = {}
      BY <1>2, <2>3 DEF Apart, Jobs
    <3>2. \A j \in AllJobs' : j.off = 0 /\ j.cnt = cnt
      BY <2>1, <2>2, <2>3, <3>1
    <3>3. \A px \in cnt .. current' - 1 : FALSE
      BY <2>1, <2>3
    <3> QED
      BY <2>1, <2>3, <3>2, <3>3 DEF CoveredFrom
  <2>4. CASE current # 0
    <3>1. ASSUME NEW px \in c .. current' - 1 PROVE px \in PixelsOf(Known')
      <4>1. CASE px < current
        <5>1. px \in PixelsOf(Known)
          BY <1>1, <1>2, <4>1 DEF CoveredFrom
        <5> QED
          BY <2>1, <5>1 DEF PixelsOf
      <4>2. CASE px >= current
        <5>1. px \in job.off .. job.off + job.cnt - 1
          BY <1>2, <2>1, <2>2, <4>2
        <5> QED
          BY <2>1, <5>1 DEF PixelsOf
      <4> QED
        BY <1>2, <4>1, <4>2
    <3>2. \A j \in AllJobs' : j.off >= c \/ (j.off = 0 /\ j.cnt = c)
      BY <1>1, <2>1, <2>2 DEF CoveredFrom
    <3>3. c <= current' /\ c # 0
      BY <1>1, <1>2, <2>1, <2>4 DEF CoveredFrom
    <3> QED
      BY <3>1, <3>2, <3>3 DEF CoveredFrom, PixelsOf
  <2> QED
    BY <2>3, <2>4
<1>7. CASE AcceptScene
  <2>1. /\ scene = "none" /\ scene' = "running" /\ current' = 0
        /\ UNCHANGED <<failed, tracked, image, lost, segments, todo>>
    BY <1>7 DEF AcceptScene, trackerVars, wireVars
  <2>2. Shipped' = Shipped /\ Known' = Known /\ Promised' = Promised
    BY <2>1 DEF Shipped, Known, Promised, JobOf
  <2>3. AllJobs' = {}
    BY <2>1, <2>2 DEF JobInv, Fresh, AllJobs
  <2>4. \A px \in 0 .. current' - 1 : FALSE
    BY <2>1
  <2>5. CoveredFrom(0)'
    BY <2>1, <2>3, <2>4 DEF CoveredFrom
  <2> QED
    BY <2>5
<1> QED
  BY <1>4, <1>5, <1>6, <1>7, JobsChange DEF JobInv, JobStep

LEMMA CoveredInit == Init => Covered
<1> SUFFICES ASSUME Init PROVE Covered
  OBVIOUS
<1>1. Shipped = {} /\ Known = {} /\ Promised = {}
  BY DEF Init, TrackerInit, LinkInit, Shipped, Known, Promised
<1>2. \A px \in 0 .. current - 1 : FALSE
  BY DEF Init
<1>3. CoveredFrom(0)
  BY <1>1, <1>2 DEF Init, CoveredFrom, AllJobs
<1>4. WorkersShip /\ AnswersShipped
  BY DEF Init, LinkInit, WorkersShip, AnswersShipped
<1> QED
  BY <1>3, <1>4 DEF Covered

\* No step loses sight of what has been handed out, but for the job at offset
\* 0: what is handed out is tracked, and a job that is not at offset 0 stays
\* shipped, tracked or failed.  (The answers to requests without work name
\* offset 0, and untrack it: NotifyJobDone as called by
\* SceneSchedulerDynamic::OnPixelProduceResponseMsg.)
THEOREM OnlyFirstJobLost == Spec => OnlyFirstJobForgotten
<1> DEFINE Inv == TypeInv /\ JobInv /\ Covered
           Kept == /\ current .. current' - 1 \subseteq PixelsOf(Known')
                   /\ \A j \in Known : j.off # 0 => j \in Known'
<1>1. Init => Inv
  BY TypeInit, JobInit, CoveredInit
<1>2. Inv /\ [Next]_vars => Inv'
  <2> SUFFICES ASSUME TypeInv, JobInv, Covered, [Next]_vars
               PROVE  (TypeInv /\ JobInv /\ Covered)'
    OBVIOUS
  <2>1. TypeInv' /\ JobInv'
    BY TypeStep, JobInvStep
  <2>2. WorkersShip' /\ AnswersShipped'
    BY WorkersShipStep, AnswersShippedStep DEF Covered
  <2>3. \E c \in Nat : CoveredFrom(c)'
    BY CoveredStep
  <2> QED
    BY <2>1, <2>2, <2>3 DEF Covered
<1>3. Inv /\ [Next]_vars => [Kept]_vars
  <2> SUFFICES ASSUME TypeInv, JobInv, Covered, [Next]_vars
               PROVE  Kept
    OBVIOUS
  <2>1. current \in Nat /\ current' \in Nat
    BY TypeStep DEF TypeInv, TypeOK
  <2>2. CASE Keeps \/ Forgets
    <3>1. \A j \in Known : j.off # 0 => j \in Known'
      BY <2>2, OthersKept DEF Covered
    <3>2. current' = current
      BY <2>2 DEF Keeps, Forgets
    <3>3. \A px \in current .. current' - 1 : FALSE
      BY <2>1, <3>2
    <3> QED
      BY <3>1, <3>3
  <2>3. ASSUME NEW cnt \in Nat, HandsOut(cnt) PROVE Kept
    <3> DEFINE job == [off |-> current, cnt |-> cnt]
    <3>1. current' = current + cnt /\ Known \subseteq Known' /\ job \in Known'
      BY <2>3 DEF HandsOut
    <3>2. job.off = current /\ job.cnt = cnt
      OBVIOUS
    <3> HIDE DEF job
    <3>3. \A px \in current .. current' - 1 : px \in job.off .. job.off + job.cnt - 1
      BY <2>1, <2>3, <3>1, <3>2
    <3> QED
      BY <3>1, <3>3 DEF PixelsOf
  <2>4. CASE AcceptScene
    <3>1. /\ scene = "none" /\ scene' = "running" /\ current' = 0
      BY <2>4 DEF AcceptScene
    <3>2. AllJobs = {}
      BY <3>1 DEF JobInv, Fresh
    <3>3. Known = {} /\ \A px \in current .. current' - 1 : FALSE
      BY <2>1, <3>1, <3>2 DEF AllJobs
    <3> QED
      BY <3>3
  <2> QED
    BY <2>2, <2>3, <2>4, JobsChange DEF JobInv, JobStep
<1>4. QED
  <2> HIDE DEF Inv, Kept
  <2>1. [][Kept]_vars <=> OnlyFirstJobForgotten
    BY DEF Kept, OnlyFirstJobForgotten
  <2> QED
    BY <1>1, <1>2, <1>3, <2>1, PTL DEF Spec

-----------------------------------------------------------------------------
(* No answer after the exception of its host                               *)

LEMMA OrderInit == Init => OrderInv
BY DEF Init, LinkInit, OrderInv, AnswersBeforeException

\* Only the handling of an exception takes a host off the list, and then the
\* scheduler's thread is idle and the connection is closed.
LEMMA ListedStays ==
    ASSUME TypeInv, OrderInv, [Next]_vars, NEW g \in Listed
    PROVE  \/ g \in Listed'
           \/ /\ msgQ # <<>> /\ Head(msgQ).kind = "exception"
              /\ Head(msgQ).host = g /\ g \in Hosts
              /\ msgQ' = Tail(msgQ)
              /\ link[g] = "closed"
              /\ pc' = "idle"
              /\ UNCHANGED link
<1> DEFINE same == hostWorkers' = hostWorkers
<1> USE DEF trackerVars
<1>1. same => g \in Listed'
  BY DEF Listed
<1>2. ASSUME NEW f, Die(f) PROVE same
  BY <1>2 DEF Die
<1>3. Request => same
  BY <1>2 DEF Request, RejectScene, AcceptScene, AcceptDies
<1>4. ASSUME NEW s \in Slots, NEW w, SendNextJob(s, w) PROVE same
  BY <1>4 DEF SendNextJob, TrackJob
<1>5. CASE HandleException
  <2> DEFINE h == Head(msgQ).host
  <2>1. /\ TypeOK /\ msgQ # <<>> /\ Head(msgQ).kind = "exception"
        /\ msgQ' = Tail(msgQ) /\ pc = "idle" /\ h # NoHost
        /\ RemoveFailedJobs(h)
        /\ pc' = pc /\ link' = link
    BY <1>5 DEF HandleException, Handle, TypeInv, placeVars, linkVars
  <2>2. h \in Hosts
    BY <2>1, HeadFacts DEF TypeInv
  <2>3. link[h] = "closed"
    BY <2>1, TailFacts DEF OrderInv, ExceptionAt
  <2>4. CASE h \in Listed
    <3>1. RemoveHost(h)
      BY <2>1, <2>4 DEF RemoveFailedJobs
    <3>2. Listed \ {h} \subseteq Listed'
      BY <2>1, <2>4, <3>1, RemoveHostFacts DEF TypeOK
    <3> QED
      BY <2>1, <2>2, <2>3, <3>2
  <2>5. CASE h \notin Listed
    BY <1>1, <2>1, <2>5 DEF RemoveFailedJobs
  <2> QED
    BY <2>4, <2>5
<1>6. KickOffAssign => same
  BY DEF KickOffAssign, SendNextJob, TrackJob
<1>7. Refill => same
  BY DEF Refill, SendNextJob, TrackJob
<1>8. AnswerDies \/ SendDies \/ ExceptionDies => same
  BY <1>2 DEF AnswerDies, SendDies, ExceptionDies
<1>9. Scheduler => same \/ HandleException
  BY <1>6, <1>7, <1>8 DEF Scheduler, KickOffFind, KickOffNextRound,
     AnswerThenRefill, AnswerThenRedispatch, AnswerThenFinish, AnswerThenWait,
     NotifyJobDone, HandleDetachedAnswer, HandleDetachedException,
     NotifyHostFailure
<1>10. ASSUME NEW h \in Hosts,
              \/ Receive(h) \/ ReportException(h) \/ NoteFailure(h)
              \/ CloseConnection(h) \/ Client(h) \/ WorkerDies(h)
       PROVE  same
  BY <1>10 DEF Receive, ReportException, NoteFailure, CloseConnection,
               NotifyHostFailure, Client, WorkerDies
<1>11. ASSUME NEW h \in Hosts, RegisterWorker(h) PROVE g \in Listed'
  <2>1. hostWorkers' = Append(hostWorkers, h) /\ hostWorkers \in Seq(Hosts)
    BY <1>11 DEF RegisterWorker, AddWorker, TypeInv, TypeOK, TrackerTypeOK
  <2>2. PICK i \in DOMAIN hostWorkers : hostWorkers[i] = g
    BY DEF Listed, Range
  <2>3. i \in DOMAIN hostWorkers' /\ hostWorkers'[i] = g
    BY <2>1, <2>2
  <2> QED
    BY <2>3 DEF Listed, Range
<1>12. ASSUME NEW s \in Slots, Worker(s) PROVE same
  BY <1>12 DEF Worker
<1>13. UNCHANGED vars => same
  BY DEF vars
<1> HIDE DEF same
<1> QED
  BY <1>1, <1>3, <1>5, <1>9, <1>10, <1>11, <1>12, <1>13 DEF Next, Connection

\* A closed connection stays closed, and one that becomes open is of a host
\* that is listed from then on.
LEMMA LinkLife ==
    ASSUME TypeInv, [Next]_vars, NEW h \in Hosts
    PROVE  /\ link[h] = "closed" => link'[h] = "closed"
           /\ link'[h] \notin {"absent", "closed"} =>
                  link[h] \notin {"absent", "closed"} \/ h \in Listed'
<1> DEFINE fine == /\ link[h] = "closed" => link'[h] = "closed"
                   /\ link'[h] \notin {"absent", "closed"} =>
                          link[h] \notin {"absent", "closed"} \/ h \in Listed'
           same == link' = link
<1>0. link \in [Hosts -> LinkStates]
  BY DEF TypeInv, TypeOK, LinkTypeOK
<1>1. same => fine
  OBVIOUS
<1> USE DEF linkVars
<1>2. ASSUME NEW f, Die(f) PROVE same
  BY <1>2 DEF Die
<1>3. Request => fine
  <2>1. AcceptScene => fine
    BY <1>0 DEF AcceptScene
  <2> QED
    BY <1>1, <1>2, <2>1 DEF Request, RejectScene, AcceptDies
<1>4. ASSUME NEW g, NEW q, Close(g, q) PROVE fine
  BY <1>0, <1>4 DEF Close
<1>5. Scheduler => fine
  <2>1. ASSUME NEW s, NEW w, SendNextJob(s, w) PROVE same
    BY <2>1 DEF SendNextJob, Assign, SendRequest
  <2>2. KickOffAssign \/ Refill => same
    BY <2>1 DEF KickOffAssign, Refill, Assign, SendRequest
  <2>3. AnswerDies \/ SendDies \/ ExceptionDies => same
    BY <1>2 DEF AnswerDies, SendDies, ExceptionDies
  <2>4. HandleDetachedException => fine
    BY <1>4 DEF HandleDetachedException
  <2>5. KickOffFind \/ KickOffNextRound \/ HandleException \/ HandleDetachedAnswer
           => same
    BY DEF KickOffFind, KickOffNextRound, HandleException, HandleDetachedAnswer
  <2>6. AnswerThenRefill \/ AnswerThenRedispatch \/ AnswerThenFinish
           \/ AnswerThenWait => same
    BY DEF AnswerThenRefill, AnswerThenRedispatch, AnswerThenFinish,
           AnswerThenWait, Assign, SendRequest, FreeAppTag
  <2> HIDE DEF fine, same
  <2> QED
    BY <1>1, <2>2, <2>3, <2>4, <2>5, <2>6 DEF Scheduler
<1>6. ASSUME NEW g \in Hosts, CloseConnection(g) PROVE fine
  BY <1>4, <1>6 DEF CloseConnection
<1>7. ASSUME NEW g \in Hosts, Receive(g) \/ Client(g) PROVE same
  BY <1>7 DEF Receive, Client, Deliver
<1>8. ASSUME NEW g \in Hosts, ReportException(g) \/ NoteFailure(g) PROVE fine
  BY <1>0, <1>8 DEF ReportException, NoteFailure
<1>9. ASSUME NEW g \in Hosts, RegisterWorker(g) PROVE fine
  <2>1. hostWorkers' = Append(hostWorkers, g) /\ hostWorkers \in Seq(Hosts)
    BY <1>9 DEF RegisterWorker, AddWorker, TypeInv, TypeOK, TrackerTypeOK
  <2>2. Len(hostWorkers) + 1 \in DOMAIN hostWorkers'
        /\ hostWorkers'[Len(hostWorkers) + 1] = g
    BY <2>1
  <2>3. g \in Listed'
    BY <2>2 DEF Listed, Range
  <2>4. link' = [link EXCEPT ![g] = "up"] /\ link[g] = "absent"
    BY <1>9 DEF RegisterWorker
  <2> QED
    BY <1>0, <2>3, <2>4
<1>10. ASSUME NEW g \in Hosts, link[g] = "up", Perish(g) PROVE fine
  BY <1>0, <1>10 DEF Perish
<1>11. ASSUME NEW g \in Hosts, WorkerDies(g) PROVE fine
  BY <1>10, <1>11 DEF WorkerDies, Crash
<1>12. ASSUME NEW s \in Slots, Worker(s) PROVE fine
  <2>1. ShipSegment(s) \/ Respond(s) => same
    BY DEF ShipSegment, Respond
  <2>2. ProduceUnknownScene(s) => fine
    BY <1>10, SlotFacts DEF ProduceUnknownScene
  <2> QED
    BY <1>1, <1>12, <2>1, <2>2 DEF Worker
<1>13. UNCHANGED vars => same
  BY DEF vars
<1> HIDE DEF fine, same
<1>14. fine
  BY <1>1, <1>3, <1>5, <1>6, <1>7, <1>8, <1>9, <1>11, <1>12, <1>13
     DEF Next, Connection
<1> QED
  BY <1>14 DEF fine

\* A refill starts for a host that is listed.
LEMMA RefillStarts ==
    ASSUME TypeInv, [Next]_vars, pc' = "refill"
    PROVE  \/ UNCHANGED <<pc, slot>>
           \/ slot'[1] \in Listed /\ hostWorkers' = hostWorkers
<1> USE DEF placeVars
<1>1. Request => UNCHANGED <<pc, slot>>
  BY DEF Request, RejectScene, AcceptScene, AcceptDies, Die
<1>2. CASE Scheduler
  <2>1. AnswerThenRefill => slot'[1] \in Listed /\ hostWorkers' = hostWorkers
    BY DEF AnswerThenRefill, AnswerSlot, NotifyJobDone
  <2>2. KickOffFind \/ KickOffNextRound \/ KickOffAssign \/ Refill
           => UNCHANGED <<pc, slot>>
    BY DEF KickOffFind, KickOffNextRound, KickOffAssign, Refill
  <2>3. AnswerThenRedispatch \/ AnswerThenFinish \/ AnswerThenWait
           \/ HandleException \/ HandleDetachedAnswer \/ HandleDetachedException
           => UNCHANGED <<pc, slot>>
    BY DEF AnswerThenRedispatch, AnswerThenFinish, AnswerThenWait,
           HandleException, HandleDetachedAnswer, HandleDetachedException
  <2>4. AnswerDies \/ SendDies \/ ExceptionDies => UNCHANGED <<pc, slot>>
    BY DEF AnswerDies, SendDies, ExceptionDies, Die
  <2> QED
    BY <1>2, <2>1, <2>2, <2>3, <2>4 DEF Scheduler
<1>3. ASSUME NEW h \in Hosts,
             Connection(h) \/ RegisterWorker(h) \/ Client(h) \/ WorkerDies(h)
      PROVE  UNCHANGED <<pc, slot>>
  BY <1>3 DEF Connection, RegisterWorker, Receive, ReportException,
              NoteFailure, CloseConnection, Client, WorkerDies
<1>4. ASSUME NEW s \in Slots, Worker(s) PROVE UNCHANGED <<pc, slot>>
  BY <1>4 DEF Worker
<1>5. UNCHANGED vars => UNCHANGED <<pc, slot>>
  BY DEF vars
<1> QED
  BY <1>1, <1>2, <1>3, <1>4, <1>5 DEF Next

LEMMA OrderStep ==
    ASSUME TypeInv, OrderInv, [Next]_vars
    PROVE  OrderInv'
<1>1. /\ TypeInv' /\ TypeOK
      /\ DOMAIN msgQ = 1 .. Len(msgQ) /\ Len(msgQ) \in Nat
      /\ DOMAIN msgQ' = 1 .. Len(msgQ') /\ Len(msgQ') \in Nat
  <2>1. TypeInv'
    BY TypeStep
  <2>2. /\ msgQ \in Seq(Answers \cup Exceptions)
        /\ msgQ' \in Seq(Answers \cup Exceptions)
    BY <2>1 DEF TypeInv, TypeOK
  <2> QED
    BY <2>1, <2>2, LenProperties DEF TypeInv
<1>2. ASSUME NEW i \in DOMAIN msgQ', msgQ'[i].kind = "exception",
             msgQ'[i].host # NoHost
      PROVE  link'[msgQ'[i].host] = "closed"
  <2>1. msgQ'[i].host \in Hosts
    <3>1. msgQ'[i] \in Answers \cup Exceptions
      BY <1>1 DEF TypeInv, TypeOK
    <3>2. msgQ'[i] \in Exceptions
      BY <1>2, <3>1 DEF Answers
    <3> QED
      BY <1>2, <3>2 DEF Exceptions
  <2>2. CASE \E k \in DOMAIN msgQ : msgQ'[i] = msgQ[k]
    BY <1>2, <2>1, <2>2, LinkLife DEF OrderInv, ExceptionAt
  <2>3. CASE NewException(i)
    BY <1>2, <2>3 DEF NewException
  <2>4. ASSUME NEW h \in Hosts, NewAnswer(i, h) PROVE FALSE
    BY <1>2, <2>4 DEF NewAnswer
  <2> QED
    BY <2>2, <2>3, <2>4, QueueChange
<1>3. \A h \in Hosts : link'[h] \notin {"absent", "closed"} => h \in Listed'
  <2> SUFFICES ASSUME NEW h \in Hosts, link'[h] \notin {"absent", "closed"}
               PROVE  h \in Listed'
    OBVIOUS
  <2>1. h \in Listed' \/ (link[h] \notin {"absent", "closed"} /\ h \in Listed)
    BY LinkLife DEF OrderInv
  <2> QED
    BY <2>1, ListedStays
<1>4. ASSUME NEW h \in Hosts, Receive(h)
      PROVE  /\ h \in Listed /\ h \in Listed'
             /\ link'[h] \notin {"absent", "closed"}
  <2>1. link[h] \in {"up", "crashed"} /\ link' = link /\ hostWorkers' = hostWorkers
    BY <1>4 DEF Receive, trackerVars
  <2> QED
    BY <2>1 DEF OrderInv, Listed
<1>5. ASSUME NEW i \in DOMAIN msgQ', NEW k \in DOMAIN msgQ', i < k,
             msgQ'[i].kind = "exception", msgQ'[k].kind = "answer"
      PROVE  msgQ'[i].host # msgQ'[k].host
  <2>1. ~NewException(k) /\ \A h \in Hosts : ~NewAnswer(i, h)
    BY <1>5 DEF NewException, NewAnswer
  <2>2. ASSUME NEW h \in Hosts, NewAnswer(k, h)
        PROVE  msgQ'[i].host # msgQ'[k].host
    <3>1. msgQ'[k].host = h /\ h # NoHost /\ link'[h] # "closed"
      BY <1>4, <2>2, SchedulerAssumption DEF NewAnswer
    <3> QED
      BY <1>2, <1>5, <3>1
  <2>3. ASSUME NEW n \in {0, 1}, Queued(n), k + n \in DOMAIN msgQ
        PROVE  msgQ'[i].host # msgQ'[k].host
    <3>1. i + n \in DOMAIN msgQ /\ i + n < k + n
      BY <1>1, <1>5, <2>3
    <3>2. msgQ'[i] = msgQ[i + n] /\ msgQ'[k] = msgQ[k + n]
      BY <2>3, <3>1 DEF Queued
    <3> QED
      BY <1>5, <2>3, <3>1, <3>2 DEF OrderInv, AnswersBeforeException
  <2>4. ASSUME NEW n \in {0, 1}, Queued(n), k + n \notin DOMAIN msgQ
        PROVE  \E h \in Hosts : NewAnswer(k, h)
    BY <2>1, <2>4 DEF Queued
  <2> QED
    BY <2>2, <2>3, <2>4, QueueMoves
<1>6. ASSUME NEW i \in DOMAIN msgQ', msgQ'[i].kind = "answer"
      PROVE  msgQ'[i].host \in Listed'
  <2>1. ~NewException(i)
    BY <1>6 DEF NewException
  <2>2. ASSUME NEW h \in Hosts, NewAnswer(i, h) PROVE msgQ'[i].host \in Listed'
    BY <1>4, <2>2 DEF NewAnswer
  <2>3. ASSUME NEW k \in DOMAIN msgQ, msgQ'[i] = msgQ[k], msgQ'[i].host \notin Listed'
        PROVE  FALSE
    <3> DEFINE g == msgQ'[i].host
    <3>1. g \in Listed
      BY <1>6, <2>3 DEF OrderInv, AnswersBeforeException
    <3>2. /\ msgQ # <<>> /\ Head(msgQ).kind = "exception"
          /\ Head(msgQ).host = g /\ msgQ' = Tail(msgQ)
      BY <2>3, <3>1, ListedStays
    <3>3. /\ Head(msgQ) = msgQ[1] /\ 1 \in DOMAIN msgQ
          /\ i + 1 \in DOMAIN msgQ /\ msgQ'[i] = msgQ[i + 1]
      BY <1>1, <3>2, TailFacts
    <3>4. 1 < i + 1
      BY <1>1
    <3> QED
      BY <1>6, <3>2, <3>3, <3>4 DEF OrderInv, AnswersBeforeException
  <2> QED
    BY <2>1, <2>2, <2>3, QueueChange
<1>7. pc' = "refill" => slot'[1] \in Listed'
  <2> SUFFICES ASSUME pc' = "refill" PROVE slot'[1] \in Listed'
    OBVIOUS
  <2>1. CASE UNCHANGED <<pc, slot>>
    <3>1. slot[1] \in Listed
      BY <2>1 DEF OrderInv, AnswersBeforeException
    <3> QED
      BY <2>1, <3>1, ListedStays
  <2>2. CASE slot'[1] \in Listed /\ hostWorkers' = hostWorkers
    BY <2>2 DEF Listed
  <2> QED
    BY <2>1, <2>2, RefillStarts
<1> QED
  BY <1>2, <1>3, <1>5, <1>6, <1>7 DEF OrderInv, AnswersBeforeException, ExceptionAt

\* The scheduler meets all answers of a host before the exception of its
\* connection, whose handling drops the pipeline managers that the handler of
\* an answer dereferences (ResourceTracker::NotifyJobDone).
THEOREM AnswersComeFirst == Spec => []AnswersBeforeException
<1>1. Init => TypeInv /\ OrderInv
  BY TypeInit, OrderInit
<1>2. TypeInv /\ OrderInv /\ [Next]_vars => (TypeInv /\ OrderInv)'
  BY TypeStep, OrderStep
<1>3. OrderInv => AnswersBeforeException
  BY DEF OrderInv
<1> QED
  BY <1>1, <1>2, <1>3, PTL DEF Spec

-----------------------------------------------------------------------------
(* Requests and answers on their way are letters, kept in boxes: the queue *)
(* of a pipeline, the answers of a host, the scheduler's queue.            *)

Letter(h, p, r) ==
    [host |-> h, pipe |-> p, tag |-> r.tag, off |-> r.off, cnt |-> r.cnt]

TodoMail(s) == {Letter(s[1], s[2], todo[s][i]) : i \in DOMAIN todo[s]}

RespMail(h) == {Letter(h, resp[h][i].pipe, resp[h][i]) : i \in DOMAIN resp[h]}

QueueMail == {Letter(msgQ[i].host, msgQ[i].pipe, msgQ[i]) :
                 i \in {k \in DOMAIN msgQ : AnswerAt(k)}}

Boxes == ({"todo"} \X Slots) \cup ({"resp"} \X Hosts) \cup {<<"msgQ", NoHost>>}

Box(b) == IF b[1] = "todo" THEN TodoMail(b[2])
          ELSE IF b[1] = "resp" THEN RespMail(b[2])
          ELSE QueueMail

Mail == UNION {Box(b) : b \in Boxes}

\* Two letters carry the same tag of the same connection.
Same(l, k) == l.host = k.host /\ l.tag = k.tag

\* A sequence that holds every tag once.
OneEach(q) == \A i, k \in DOMAIN q : q[i].tag = q[k].tag => i = k

OneAnswer ==
    \A i, k \in DOMAIN msgQ :
        /\ AnswerAt(i) /\ AnswerAt(k)
        /\ msgQ[i].host = msgQ[k].host /\ msgQ[i].tag = msgQ[k].tag
        => i = k

Separate ==
    \A b, c \in Boxes : b # c => \A l \in Box(b), k \in Box(c) : ~Same(l, k)

\* No two places hold the same tag of the same connection.
Once ==
    /\ \A s \in Slots : OneEach(todo[s])
    /\ \A h \in Hosts : OneEach(resp[h])
    /\ OneAnswer
    /\ Separate

-----------------------------------------------------------------------------
(* Lemmas about sequences and boxes                                        *)

\* What follows the first element does not carry its tag.
LEMMA OneEachTail ==
    ASSUME NEW S, NEW q \in Seq(S), q # <<>>, OneEach(q)
    PROVE  /\ OneEach(Tail(q))
           /\ \A i \in DOMAIN Tail(q) :
                  /\ Tail(q)[i].tag # Head(q).tag
                  /\ \E k \in DOMAIN q : Tail(q)[i] = q[k]
<1>1. /\ Head(q) = q[1] /\ 1 \in DOMAIN q
      /\ \A i \in DOMAIN Tail(q) : /\ i \in Nat \ {0}
                                   /\ i + 1 \in DOMAIN q
                                   /\ Tail(q)[i] = q[i + 1]
  BY SeqTail
<1> QED
  BY <1>1 DEF OneEach

\* An element with a new tag is put behind the others.
LEMMA OneEachAppend ==
    ASSUME NEW S, NEW q \in Seq(S), NEW e \in S, OneEach(q),
           \A i \in DOMAIN q : q[i].tag # e.tag
    PROVE  OneEach(Append(q, e))
<1>1. /\ DOMAIN Append(q, e) = 1 .. Len(q) + 1
      /\ DOMAIN q = 1 .. Len(q) /\ Len(q) \in Nat
      /\ \A i \in 1 .. Len(q) : Append(q, e)[i] = q[i]
      /\ Append(q, e)[Len(q) + 1] = e
  BY AppendProperties, LenProperties
<1> QED
  BY <1>1 DEF OneEach

\* What is left when an element is taken out does not carry its tag.
LEMMA OneEachRemove ==
    ASSUME NEW S, NEW q \in Seq(S), NEW n \in DOMAIN q, OneEach(q)
    PROVE  /\ OneEach(RemoveAt(q, n))
           /\ \A i \in DOMAIN RemoveAt(q, n) :
                  /\ RemoveAt(q, n)[i].tag # q[n].tag
                  /\ \E k \in DOMAIN q : RemoveAt(q, n)[i] = q[k]
<1>1. /\ RemoveAt(q, n) \in Seq(S)
      /\ Len(RemoveAt(q, n)) = Len(q) - 1
      /\ \A i \in 1 .. Len(q) - 1 :
             RemoveAt(q, n)[i] = IF i < n THEN q[i] ELSE q[i + 1]
  BY RemoveAtFacts
<1>2. /\ DOMAIN RemoveAt(q, n) = 1 .. Len(q) - 1
      /\ DOMAIN q = 1 .. Len(q) /\ Len(q) \in Nat
  BY <1>1, LenProperties
<1> DEFINE at(i) == IF i < n THEN i ELSE i + 1
<1>3. \A i \in 1 .. Len(q) - 1 : /\ at(i) \in DOMAIN q /\ at(i) # n
                                 /\ RemoveAt(q, n)[i] = q[at(i)]
  BY <1>1, <1>2
<1>4. \A i, k \in 1 .. Len(q) - 1 : at(i) = at(k) => i = k
  BY <1>2
<1> HIDE DEF at
<1>5. OneEach(RemoveAt(q, n))
  <2> SUFFICES ASSUME NEW i \in 1 .. Len(q) - 1, NEW k \in 1 .. Len(q) - 1,
                      RemoveAt(q, n)[i].tag = RemoveAt(q, n)[k].tag
               PROVE  i = k
    BY <1>2 DEF OneEach
  <2>1. q[at(i)].tag = q[at(k)].tag /\ at(i) \in DOMAIN q /\ at(k) \in DOMAIN q
    BY <1>3
  <2> QED
    BY <1>4, <2>1 DEF OneEach
<1>6. ASSUME NEW i \in DOMAIN RemoveAt(q, n)
      PROVE  /\ RemoveAt(q, n)[i].tag # q[n].tag
             /\ \E k \in DOMAIN q : RemoveAt(q, n)[i] = q[k]
  BY <1>2, <1>3 DEF OneEach
<1> QED
  BY <1>5, <1>6

\* A letter is in a box when the sequence behind the box holds it.
LEMMA BoxFacts ==
    /\ \A s \in Slots : <<"todo", s>> \in Boxes /\ Box(<<"todo", s>>) = TodoMail(s)
    /\ \A h \in Hosts : <<"resp", h>> \in Boxes /\ Box(<<"resp", h>>) = RespMail(h)
    /\ <<"msgQ", NoHost>> \in Boxes /\ Box(<<"msgQ", NoHost>>) = QueueMail
    /\ \A b \in Boxes : \/ \E s \in Slots : b = <<"todo", s>>
                        \/ \E h \in Hosts : b = <<"resp", h>>
                        \/ b = <<"msgQ", NoHost>>
    /\ \A s \in Slots, h \in Hosts :
           /\ <<"todo", s>> # <<"resp", h>>
           /\ <<"todo", s>> # <<"msgQ", NoHost>>
           /\ <<"resp", h>> # <<"msgQ", NoHost>>
BY DEF Boxes, Box

LEMMA BoxFactsNext ==
    /\ \A s \in Slots : Box(<<"todo", s>>)' = TodoMail(s)'
    /\ \A h \in Hosts : Box(<<"resp", h>>)' = RespMail(h)'
    /\ Box(<<"msgQ", NoHost>>)' = QueueMail'
BY DEF Box

\* A letter that is put into a box is not in another one, and the others are
\* left where they are or thrown away.
Delivers(l, to) ==
    /\ Box(to)' \subseteq Box(to) \cup {l}
    /\ \A b \in Boxes : b # to =>
           \A k \in Box(b)' : k \in Box(b) /\ ~Same(k, l)

Loses == \A b \in Boxes : Box(b)' \subseteq Box(b)

\* Boxes stay separate when letters are lost or one is delivered.
LEMMA SeparateStays ==
    ASSUME Separate, Loses \/ \E l, to : to \in Boxes /\ Delivers(l, to)
    PROVE  Separate'
<1> SUFFICES ASSUME NEW b \in Boxes, NEW c \in Boxes, b # c,
                    NEW l \in Box(b)', NEW k \in Box(c)'
             PROVE  ~Same(l, k)
  BY DEF Separate, Same, Boxes
<1>1. CASE Loses
  BY <1>1 DEF Loses, Separate
<1>2. ASSUME NEW m, NEW to \in Boxes, Delivers(m, to)
      PROVE  ~Same(l, k)
  <2>1. CASE b # to /\ c # to
    BY <1>2, <2>1 DEF Delivers, Separate
  <2>2. CASE b = to
    <3>1. k \in Box(c) /\ ~Same(k, m)
      BY <1>2, <2>2 DEF Delivers
    <3>2. l \in Box(b) \/ l = m
      BY <1>2, <2>2 DEF Delivers
    <3> QED
      BY <3>1, <3>2 DEF Separate, Same
  <2>3. CASE c = to
    <3>1. l \in Box(b) /\ ~Same(l, m)
      BY <1>2, <2>3 DEF Delivers
    <3>2. k \in Box(c) \/ k = m
      BY <1>2, <2>3 DEF Delivers
    <3> QED
      BY <3>1, <3>2 DEF Separate, Same
  <2> QED
    BY <2>1, <2>2, <2>3
<1> QED
  BY <1>1, <1>2

\* A letter that is as fresh as its tag: nothing in the boxes has it.
LEMMA OneLetter ==
    ASSUME Once, NEW l \in Mail, NEW k \in Mail, Same(l, k)
    PROVE  l = k
<1>1. PICK b \in Boxes : l \in Box(b)
  BY DEF Mail
<1>2. k \in Box(b)
  BY <1>1 DEF Mail, Once, Separate
<1>3. ASSUME NEW s \in Slots, b = <<"todo", s>> PROVE l = k
  <2>1. l \in TodoMail(s) /\ k \in TodoMail(s)
    BY <1>1, <1>2, <1>3, BoxFacts
  <2> QED
    BY <2>1 DEF TodoMail, Letter, Same, Once, OneEach
<1>4. ASSUME NEW h \in Hosts, b = <<"resp", h>> PROVE l = k
  <2>1. l \in RespMail(h) /\ k \in RespMail(h)
    BY <1>1, <1>2, <1>4, BoxFacts
  <2> QED
    BY <2>1 DEF RespMail, Letter, Same, Once, OneEach
<1>5. CASE b = <<"msgQ", NoHost>>
  <2>1. l \in QueueMail /\ k \in QueueMail
    BY <1>1, <1>2, <1>5, BoxFacts
  <2> QED
    BY <2>1 DEF QueueMail, Letter, Same, Once, OneAnswer
<1> QED
  BY <1>3, <1>4, <1>5, BoxFacts

-----------------------------------------------------------------------------
(* How steps move letters                                                  *)

\* The letter of an answer at the head of the queue.
HeadLetter == Letter(Head(msgQ).host, Head(msgQ).pipe, Head(msgQ))

\* The letter of the request that is sent to pipeline s.
NewLetter(s, off, cnt) ==
    [host |-> s[1], pipe |-> s[2], tag |-> Head(freeTags[s[1]]),
     off |-> off, cnt |-> cnt]

LEMMA QueueSeq ==
    ASSUME TypeInv, [Next]_vars
    PROVE  msgQ' \in Seq(Answers \cup Exceptions)
BY TypeStep DEF TypeInv, TypeOK

\* The scheduler's queue is used up and grows, but for answers.
LEMMA QueueKept ==
    ASSUME TypeInv, [Next]_vars, OneAnswer, NEW n \in {0, 1}, Queued(n),
           resp' = resp
    PROVE  /\ OneAnswer'
           /\ QueueMail' \subseteq QueueMail
           /\ n = 1 /\ msgQ # <<>> =>
                  \A k \in QueueMail' : AnswerAt(1) => ~Same(k, HeadLetter)
<1>1. ASSUME NEW h \in Hosts PROVE ~Receive(h)
  <2> SUFFICES ASSUME Receive(h) PROVE FALSE
    OBVIOUS
  <2>1. resp[h] # <<>> /\ resp[h] \in Seq(Responses) /\ resp'[h] = Tail(resp[h])
    BY DEF Receive, TypeInv, TypeOK, LinkTypeOK
  <2>2. Len(resp'[h]) = Len(resp[h]) - 1 /\ Len(resp[h]) \in Nat
    BY <2>1, HeadTailProperties, LenProperties
  <2> QED
    BY <2>2
<1>2. \A i \in DOMAIN msgQ' :
          msgQ'[i].kind = "answer" =>
              /\ i + n \in DOMAIN msgQ /\ msgQ'[i] = msgQ[i + n]
  BY <1>1 DEF Queued, NewAnswer, NewException
<1>3. /\ msgQ \in Seq(Answers \cup Exceptions)
      /\ DOMAIN msgQ \subseteq Nat \ {0}
      /\ DOMAIN msgQ' \subseteq Nat \ {0}
  <2>1. msgQ' \in Seq(Answers \cup Exceptions)
    BY QueueSeq
  <2> QED
    BY <2>1 DEF TypeInv, TypeOK
<1>4. OneAnswer'
  BY <1>2, <1>3 DEF OneAnswer, AnswerAt
<1>5. QueueMail' \subseteq QueueMail
  BY <1>2 DEF QueueMail, AnswerAt
<1>6. ASSUME n = 1, msgQ # <<>>, AnswerAt(1), NEW k \in QueueMail'
      PROVE  ~Same(k, HeadLetter)
  <2>1. Head(msgQ) = msgQ[1] /\ 1 \in DOMAIN msgQ
    BY <1>3, <1>6, SeqTail
  <2>2. PICK i \in DOMAIN msgQ' : /\ msgQ'[i].kind = "answer"
                                  /\ k = Letter(msgQ'[i].host, msgQ'[i].pipe, msgQ'[i])
    BY <1>6 DEF QueueMail, AnswerAt
  <2>3. i + 1 \in DOMAIN msgQ /\ msgQ'[i] = msgQ[i + 1] /\ i + 1 # 1
    BY <1>2, <1>3, <1>6, <2>2
  <2> QED
    BY <1>6, <2>1, <2>2, <2>3 DEF OneAnswer, AnswerAt, Same, HeadLetter, Letter
<1> QED
  BY <1>4, <1>5, <1>6

\* A request that is sent is put behind those that wait for its pipeline, or
\* is lost.
LEMMA SendMail ==
    ASSUME TypeInv, Once, NEW s \in Slots, NEW off \in Nat, NEW cnt \in Nat,
           SendRequest(s, off, cnt),
           \A k \in Mail : ~Same(k, NewLetter(s, off, cnt))
    PROVE  /\ \A g \in Slots : OneEach(todo'[g])
           /\ \A g \in Slots : g # s => TodoMail(g)' = TodoMail(g)
           /\ TodoMail(s)' = IF link[s[1]] = "up"
                             THEN TodoMail(s) \cup {NewLetter(s, off, cnt)}
                             ELSE TodoMail(s)
           /\ \A h \in Hosts : RespMail(h)' = RespMail(h)
           /\ resp' = resp
<1> DEFINE r == [tag |-> Head(freeTags[s[1]]), off |-> off, cnt |-> cnt]
<1>1. /\ todo \in [Slots -> Seq(Requests)]
      /\ \A g \in Slots : OneEach(todo[g])
      /\ s[1] \in Hosts
      /\ resp' = resp
  BY SlotFacts DEF TypeInv, TypeOK, LinkTypeOK, Once, SendRequest, wireVars
<1>2. \A h \in Hosts : RespMail(h)' = RespMail(h)
  BY <1>1 DEF RespMail
<1>3. CASE link[s[1]] # "up"
  <2>1. todo' = todo
    BY <1>3 DEF SendRequest
  <2> QED
    BY <1>1, <1>2, <1>3, <2>1 DEF TodoMail
<1>4. CASE link[s[1]] = "up"
  <2>1. todo' = [todo EXCEPT ![s] = Append(@, r)]
    BY <1>4 DEF SendRequest
  <2>2. r \in Requests
    <3>1. Head(freeTags[s[1]]) \in Tags
      BY <1>1, HeadTailProperties
         DEF SendRequest, TypeInv, TypeOK, LinkTypeOK
    <3> QED
      BY <3>1 DEF Requests
  <2>3. /\ Letter(s[1], s[2], r) = NewLetter(s, off, cnt)
        /\ r.tag = NewLetter(s, off, cnt).tag
        /\ NewLetter(s, off, cnt).host = s[1]
    BY DEF Letter, NewLetter
  <2> HIDE DEF r
  <2>4. todo'[s] = Append(todo[s], r) /\ \A g \in Slots : g # s => todo'[g] = todo[g]
    BY <1>1, <2>1
  <2>5. \A i \in DOMAIN todo[s] : todo[s][i].tag # r.tag
    <3> SUFFICES ASSUME NEW i \in DOMAIN todo[s] PROVE todo[s][i].tag # r.tag
      OBVIOUS
    <3>1. Letter(s[1], s[2], todo[s][i]) \in Mail
      BY BoxFacts DEF Mail, TodoMail
    <3> QED
      BY <3>1, <2>3 DEF Same, Letter
  <2>6. OneEach(todo'[s])
    BY <1>1, <2>2, <2>4, <2>5, OneEachAppend
  <2>7. TodoMail(s)' = TodoMail(s) \cup {Letter(s[1], s[2], r)}
    <3>1. /\ DOMAIN todo'[s] = 1 .. Len(todo[s]) + 1
          /\ DOMAIN todo[s] = 1 .. Len(todo[s]) /\ Len(todo[s]) \in Nat
          /\ \A i \in 1 .. Len(todo[s]) : todo'[s][i] = todo[s][i]
          /\ todo'[s][Len(todo[s]) + 1] = r
      BY <1>1, <2>2, <2>4, AppendProperties, LenProperties
    <3>2. \A i \in DOMAIN todo'[s] : i \in DOMAIN todo[s] \/ i = Len(todo[s]) + 1
      BY <3>1
    <3>3. /\ Len(todo[s]) + 1 \in DOMAIN todo'[s]
          /\ \A i \in DOMAIN todo[s] : i \in DOMAIN todo'[s]
      BY <3>1
    <3> QED
      BY <3>1, <3>2, <3>3 DEF TodoMail
  <2>8. \A g \in Slots : g # s => TodoMail(g)' = TodoMail(g)
    BY <2>4 DEF TodoMail
  <2> QED
    BY <1>1, <1>2, <1>4, <2>3, <2>4, <2>6, <2>7, <2>8
<1> QED
  BY <1>3, <1>4

\* A pipeline's answer goes from its box to that of its host.
LEMMA RespondMail ==
    ASSUME TypeInv, Once, NEW s \in Slots, Respond(s), msgQ' = msgQ
    PROVE  Once' /\ Mail' \subseteq Mail
<1>1. PICK n \in Answerable(s) :
          LET r == todo[s][n]
          IN  /\ n \in DOMAIN todo[s] /\ r \in Requests
              /\ resp' = [resp EXCEPT ![s[1]] =
                     Append(@, [pipe |-> s[2], tag |-> r.tag,
                                off |-> r.off, cnt |-> r.cnt])]
              /\ todo' = [todo EXCEPT ![s] = RemoveAt(@, n)]
  BY RespondFacts
<1> DEFINE h == s[1]
           r == todo[s][n]
           a == [pipe |-> s[2], tag |-> r.tag, off |-> r.off, cnt |-> r.cnt]
           l == Letter(s[1], s[2], r)
<1>2. /\ todo \in [Slots -> Seq(Requests)] /\ resp \in [Hosts -> Seq(Responses)]
      /\ h \in Hosts /\ s[2] \in Nat
      /\ \A g \in Slots : OneEach(todo[g])
      /\ \A g \in Hosts : OneEach(resp[g])
  BY SlotFacts DEF TypeInv, TypeOK, LinkTypeOK, Once
<1>3. a \in Responses /\ Letter(h, a.pipe, a) = l /\ a.tag = l.tag /\ l.host = h
  BY <1>1, <1>2 DEF Requests, Responses, Letter
<1>4. l \in TodoMail(s) /\ r.tag = l.tag
  BY <1>1 DEF TodoMail, Letter
<1>5. /\ resp'[h] = Append(resp[h], a)
      /\ \A g \in Hosts : g # h => resp'[g] = resp[g]
      /\ todo'[s] = RemoveAt(todo[s], n)
      /\ \A g \in Slots : g # s => todo'[g] = todo[g]
  BY <1>1, <1>2
<1> HIDE DEF a, l
<1>6. /\ OneEach(todo'[s])
      /\ \A i \in DOMAIN todo'[s] :
             /\ todo'[s][i].tag # r.tag
             /\ \E k \in DOMAIN todo[s] : todo'[s][i] = todo[s][k]
  BY <1>1, <1>2, <1>5, OneEachRemove
<1>7. /\ TodoMail(s)' \subseteq TodoMail(s)
      /\ \A k \in TodoMail(s)' : ~Same(k, l)
  BY <1>4, <1>6 DEF TodoMail, Same, Letter
<1>8. \A i \in DOMAIN resp[h] : resp[h][i].tag # a.tag
  <2> SUFFICES ASSUME NEW i \in DOMAIN resp[h] PROVE resp[h][i].tag # a.tag
    OBVIOUS
  <2>1. Letter(h, resp[h][i].pipe, resp[h][i]) \in Box(<<"resp", h>>)
    BY <1>2, BoxFacts DEF RespMail
  <2>2. l \in Box(<<"todo", s>>)
    BY <1>4, BoxFacts
  <2>3. ~Same(l, Letter(h, resp[h][i].pipe, resp[h][i]))
    BY <1>2, <2>1, <2>2, BoxFacts DEF Once, Separate
  <2> QED
    BY <1>3, <2>3 DEF Same, Letter
<1>9. OneEach(resp'[h])
  <2>1. resp[h] \in Seq(Responses) /\ OneEach(resp[h])
    BY <1>2
  <2>2. OneEach(Append(resp[h], a))
    BY <1>3, <1>8, <2>1, OneEachAppend
  <2> QED
    BY <1>5, <2>2
<1>10. RespMail(h)' \subseteq RespMail(h) \cup {l}
  <2>1. \A i \in DOMAIN resp'[h] :
            (i \in DOMAIN resp[h] /\ resp'[h][i] = resp[h][i]) \/ resp'[h][i] = a
    BY <1>2, <1>3, <1>5, AppendFacts
  <2> QED
    BY <1>3, <2>1 DEF RespMail
<1>11. Delivers(l, <<"resp", h>>)
  <2> SUFFICES ASSUME NEW b \in Boxes, b # <<"resp", h>>, NEW k \in Box(b)'
               PROVE  k \in Box(b) /\ ~Same(k, l)
    BY <1>2, <1>10, BoxFacts, BoxFactsNext DEF Delivers
  <2>1. k \in Box(b)
    <3>1. ASSUME NEW g \in Slots, b = <<"todo", g>> PROVE k \in Box(b)
      <4>1. TodoMail(g)' \subseteq TodoMail(g)
        BY <1>5, <1>7 DEF TodoMail
      <4> QED
        BY <3>1, <4>1, BoxFacts, BoxFactsNext
    <3>2. ASSUME NEW g \in Hosts, b = <<"resp", g>> PROVE k \in Box(b)
      <4>1. g # h /\ RespMail(g)' = RespMail(g)
        BY <1>5, <3>2 DEF RespMail
      <4> QED
        BY <3>2, <4>1, BoxFacts, BoxFactsNext
    <3>3. QueueMail' = QueueMail
      BY DEF QueueMail, AnswerAt
    <3> QED
      BY <3>1, <3>2, <3>3, BoxFacts, BoxFactsNext
  <2>2. CASE b = <<"todo", s>>
    <3>1. k \in TodoMail(s)'
      BY <2>2, BoxFactsNext
    <3> QED
      BY <1>7, <2>1, <3>1
  <2>3. CASE b # <<"todo", s>>
    <3>1. l \in Box(<<"todo", s>>) /\ <<"todo", s>> \in Boxes
      BY <1>4, BoxFacts
    <3> QED
      BY <2>1, <2>3, <3>1 DEF Once, Separate, Same
  <2> QED
    BY <2>1, <2>2, <2>3
<1>12. Separate'
  BY <1>2, <1>11, SeparateStays, BoxFacts DEF Once
<1>13. OneAnswer'
  BY DEF Once, OneAnswer, AnswerAt
<1>14. Once'
  <2>1. \A g \in Slots : OneEach(todo'[g])
    BY <1>2, <1>5, <1>6
  <2>2. \A g \in Hosts : OneEach(resp'[g])
    BY <1>2, <1>5, <1>9
  <2> QED
    BY <1>12, <1>13, <2>1, <2>2 DEF Once, OneEach
<1>15. Mail' \subseteq Mail
  <2>1. l \in Mail
    BY <1>4, BoxFacts DEF Mail
  <2>2. \A b \in Boxes : Box(b)' \subseteq Box(b) \cup {l}
    BY <1>11 DEF Delivers
  <2> QED
    BY <2>1, <2>2 DEF Mail, Boxes
<1> QED
  BY <1>14, <1>15

\* An answer goes from its host's box to the scheduler's queue, or is dropped.
LEMMA ReceiveMail ==
    ASSUME TypeInv, Once, NEW h \in Hosts, Receive(h)
    PROVE  Once' /\ Mail' \subseteq Mail
<1> DEFINE r == Head(resp[h])
           l == Letter(h, r.pipe, r)
           m == [kind |-> "answer", cmd |-> Attached, host |-> h, pipe |-> r.pipe,
                 tag |-> r.tag, off |-> r.off, cnt |-> r.cnt]
<1>1. /\ resp \in [Hosts -> Seq(Responses)] /\ resp[h] \in Seq(Responses)
      /\ resp[h] # <<>>
      /\ resp' = [resp EXCEPT ![h] = Tail(@)]
      /\ todo' = todo
      /\ msgQ' = Append(msgQ, m) \/ msgQ' = msgQ
      /\ msgQ \in Seq(Answers \cup Exceptions)
      /\ \A g \in Hosts : OneEach(resp[g])
  BY DEF Receive, TypeInv, TypeOK, LinkTypeOK, Once
<1>2. /\ r = resp[h][1] /\ 1 \in DOMAIN resp[h]
      /\ r \in Responses
  BY <1>1, SeqTail
<1>3. /\ m.kind = "answer" /\ Letter(m.host, m.pipe, m) = l
      /\ m.host = l.host /\ m.tag = l.tag /\ l.host = h /\ r.tag = l.tag
  BY DEF Letter
<1>4. m \in Answers \cup Exceptions
  BY <1>2 DEF Responses, Answers, Attached
<1>5. l \in RespMail(h)
  BY <1>2 DEF RespMail
<1> HIDE DEF l, m
<1>6. /\ OneEach(resp'[h])
      /\ \A i \in DOMAIN resp'[h] :
             /\ resp'[h][i].tag # r.tag
             /\ \E k \in DOMAIN resp[h] : resp'[h][i] = resp[h][k]
      /\ \A g \in Hosts : g # h => resp'[g] = resp[g]
  <2>1. resp'[h] = Tail(resp[h]) /\ \A g \in Hosts : g # h => resp'[g] = resp[g]
    BY <1>1
  <2>2. /\ OneEach(Tail(resp[h]))
        /\ \A i \in DOMAIN Tail(resp[h]) :
               /\ Tail(resp[h])[i].tag # r.tag
               /\ \E k \in DOMAIN resp[h] : Tail(resp[h])[i] = resp[h][k]
    BY <1>1, OneEachTail
  <2> QED
    BY <2>1, <2>2
<1>7. /\ RespMail(h)' \subseteq RespMail(h)
      /\ \A k \in RespMail(h)' : ~Same(k, l)
  BY <1>3, <1>6 DEF RespMail, Same, Letter
<1>8. /\ DOMAIN msgQ = 1 .. Len(msgQ) /\ Len(msgQ) \in Nat
      /\ \A i \in DOMAIN msgQ' :
             \/ i \in DOMAIN msgQ /\ msgQ'[i] = msgQ[i]
             \/ i = Len(msgQ) + 1 /\ msgQ'[i] = m
  <2>1. DOMAIN msgQ = 1 .. Len(msgQ) /\ Len(msgQ) \in Nat
    BY <1>1, LenProperties
  <2>2. ASSUME msgQ' = Append(msgQ, m)
        PROVE  /\ DOMAIN msgQ' = 1 .. Len(msgQ) + 1
               /\ \A i \in 1 .. Len(msgQ) : msgQ'[i] = msgQ[i]
               /\ msgQ'[Len(msgQ) + 1] = m
    BY <1>1, <1>4, <2>2, AppendProperties, LenProperties
  <2> QED
    BY <1>1, <2>1, <2>2
<1>9. QueueMail' \subseteq QueueMail \cup {l}
  BY <1>3, <1>8 DEF QueueMail, AnswerAt
<1>10. \A i \in DOMAIN msgQ : AnswerAt(i) => ~(msgQ[i].host = h /\ msgQ[i].tag = l.tag)
  <2> SUFFICES ASSUME NEW i \in DOMAIN msgQ, AnswerAt(i)
               PROVE  ~(msgQ[i].host = h /\ msgQ[i].tag = l.tag)
    OBVIOUS
  <2> DEFINE k == Letter(msgQ[i].host, msgQ[i].pipe, msgQ[i])
  <2>1. k \in Box(<<"msgQ", NoHost>>) /\ l \in Box(<<"resp", h>>)
    BY <1>5, BoxFacts DEF QueueMail
  <2>2. ~Same(k, l)
    BY <2>1, BoxFacts DEF Once, Separate
  <2> QED
    BY <1>3, <2>2 DEF Same, Letter
<1>11. OneAnswer'
  <2> SUFFICES ASSUME NEW i \in DOMAIN msgQ', NEW k \in DOMAIN msgQ',
                      msgQ'[i].kind = "answer", msgQ'[k].kind = "answer",
                      msgQ'[i].host = msgQ'[k].host, msgQ'[i].tag = msgQ'[k].tag
               PROVE  i = k
    BY DEF OneAnswer, AnswerAt
  <2> QED
    BY <1>3, <1>8, <1>10 DEF Once, OneAnswer, AnswerAt
<1>12. Delivers(l, <<"msgQ", NoHost>>)
  <2> SUFFICES ASSUME NEW b \in Boxes, b # <<"msgQ", NoHost>>, NEW k \in Box(b)'
               PROVE  k \in Box(b) /\ ~Same(k, l)
    BY <1>9, BoxFacts, BoxFactsNext DEF Delivers
  <2>1. k \in Box(b)
    <3>1. ASSUME NEW g \in Slots, b = <<"todo", g>> PROVE k \in Box(b)
      <4>1. TodoMail(g)' = TodoMail(g)
        BY <1>1 DEF TodoMail
      <4> QED
        BY <3>1, <4>1, BoxFacts, BoxFactsNext
    <3>2. ASSUME NEW g \in Hosts, b = <<"resp", g>> PROVE k \in Box(b)
      <4>1. RespMail(g)' \subseteq RespMail(g)
        BY <1>6, <1>7 DEF RespMail
      <4> QED
        BY <3>2, <4>1, BoxFacts, BoxFactsNext
    <3> QED
      BY <3>1, <3>2, BoxFacts
  <2>2. CASE b = <<"resp", h>>
    <3>1. k \in RespMail(h)'
      BY <2>2, BoxFactsNext
    <3> QED
      BY <1>7, <2>1, <3>1
  <2>3. CASE b # <<"resp", h>>
    <3>1. l \in Box(<<"resp", h>>) /\ <<"resp", h>> \in Boxes
      BY <1>5, BoxFacts
    <3> QED
      BY <2>1, <2>3, <3>1 DEF Once, Separate, Same
  <2> QED
    BY <2>1, <2>2, <2>3
<1>13. Separate'
  BY <1>12, SeparateStays, BoxFacts DEF Once
<1>14. Once'
  <2>1. \A g \in Slots : OneEach(todo'[g])
    BY <1>1 DEF Once
  <2>2. \A g \in Hosts : OneEach(resp'[g])
    BY <1>1, <1>6
  <2> QED
    BY <1>11, <1>13, <2>1, <2>2 DEF Once, OneEach
<1>15. Mail' \subseteq Mail
  <2>1. l \in Mail
    BY <1>5, BoxFacts DEF Mail
  <2>2. \A b \in Boxes : Box(b)' \subseteq Box(b) \cup {l}
    BY <1>12 DEF Delivers
  <2> QED
    BY <2>1, <2>2 DEF Mail, Boxes
<1> QED
  BY <1>14, <1>15

\* Letters are lost from the ends of the boxes, when a worker dies.
LEMMA ShrinkMail ==
    ASSUME TypeInv, Once,
           \A s \in Slots : \A i \in DOMAIN todo'[s] :
               i \in DOMAIN todo[s] /\ todo'[s][i] = todo[s][i],
           \A h \in Hosts : \A i \in DOMAIN resp'[h] :
               i \in DOMAIN resp[h] /\ resp'[h][i] = resp[h][i],
           OneAnswer', QueueMail' \subseteq QueueMail
    PROVE  Once' /\ Mail' \subseteq Mail
<1>1. \A s \in Slots : OneEach(todo'[s]) /\ TodoMail(s)' \subseteq TodoMail(s)
  BY DEF Once, OneEach, TodoMail
<1>2. \A h \in Hosts : OneEach(resp'[h]) /\ RespMail(h)' \subseteq RespMail(h)
  BY DEF Once, OneEach, RespMail
<1>3. Loses
  <2> SUFFICES ASSUME NEW b \in Boxes PROVE Box(b)' \subseteq Box(b)
    BY DEF Loses
  <2>1. ASSUME NEW g \in Slots, b = <<"todo", g>> PROVE Box(b)' \subseteq Box(b)
    BY <1>1, <2>1, BoxFacts, BoxFactsNext
  <2>2. ASSUME NEW g \in Hosts, b = <<"resp", g>> PROVE Box(b)' \subseteq Box(b)
    BY <1>2, <2>2, BoxFacts, BoxFactsNext
  <2>3. CASE b = <<"msgQ", NoHost>>
    BY <2>3, BoxFacts, BoxFactsNext
  <2> QED
    BY <2>1, <2>2, <2>3, BoxFacts
<1>4. Separate'
  BY <1>3, SeparateStays DEF Once
<1>5. Once'
  BY <1>1, <1>2, <1>4 DEF Once, OneEach
<1>6. Mail' \subseteq Mail
  BY <1>3 DEF Loses, Mail, Boxes
<1> QED
  BY <1>5, <1>6

\* What the scheduler takes from the head of its queue is nowhere else.
LEMMA TakenMail ==
    ASSUME TypeInv, Once, msgQ # <<>>, AnswerAt(1), NEW x, ~Same(x, HeadLetter),
           QueueMail' \subseteq QueueMail,
           \A k \in QueueMail' : ~Same(k, HeadLetter),
           \A s \in Slots : TodoMail(s)' \subseteq TodoMail(s) \cup {x},
           \A h \in Hosts : RespMail(h)' \subseteq RespMail(h)
    PROVE  /\ HeadLetter \in Mail
           /\ \A k \in Mail' : ~Same(k, HeadLetter)
<1>1. HeadLetter \in Box(<<"msgQ", NoHost>>)
  <2>1. Head(msgQ) = msgQ[1] /\ 1 \in DOMAIN msgQ
    BY TailFacts DEF TypeInv
  <2> QED
    BY <2>1, BoxFacts DEF QueueMail, HeadLetter
<1>2. ASSUME NEW b \in Boxes, NEW k \in Box(b)'
      PROVE  ~Same(k, HeadLetter)
  <2>1. ASSUME k \in Box(b), b # <<"msgQ", NoHost>> PROVE ~Same(k, HeadLetter)
    BY <1>1, <2>1, BoxFacts DEF Once, Separate
  <2>2. ASSUME NEW s \in Slots, b = <<"todo", s>> PROVE ~Same(k, HeadLetter)
    <3>1. k \in TodoMail(s) \/ k = x
      BY <1>2, <2>2, BoxFactsNext
    <3> QED
      BY <2>1, <2>2, <3>1, BoxFacts
  <2>3. ASSUME NEW h \in Hosts, b = <<"resp", h>> PROVE ~Same(k, HeadLetter)
    <3>1. k \in RespMail(h)
      BY <1>2, <2>3, BoxFactsNext
    <3> QED
      BY <2>1, <2>3, <3>1, BoxFacts
  <2>4. CASE b = <<"msgQ", NoHost>>
    BY <1>2, <2>4, BoxFactsNext
  <2> QED
    BY <2>2, <2>3, <2>4, BoxFacts
<1>3. HeadLetter \in Mail
  BY <1>1, BoxFacts DEF Mail
<1>4. \A k \in Mail' : ~Same(k, HeadLetter)
  BY <1>2 DEF Mail, Boxes
<1> QED
  BY <1>3, <1>4

\* A new letter joins those there are, of which the scheduler may take one.
LEMMA PostMail ==
    ASSUME TypeInv, Once, NEW s \in Slots, NEW off \in Nat, NEW cnt \in Nat,
           SendRequest(s, off, cnt),
           \A k \in Mail : ~Same(k, NewLetter(s, off, cnt)),
           OneAnswer', QueueMail' \subseteq QueueMail
    PROVE  /\ Once'
           /\ Mail' \subseteq Mail \cup {NewLetter(s, off, cnt)}
           /\ link[s[1]] = "up" => NewLetter(s, off, cnt) \in Mail'
<1> DEFINE new == NewLetter(s, off, cnt)
<1>0. QueueMail' \subseteq QueueMail
  OBVIOUS
<1>1. /\ \A g \in Slots : OneEach(todo'[g])
      /\ \A g \in Slots : g # s => TodoMail(g)' = TodoMail(g)
      /\ TodoMail(s)' = IF link[s[1]] = "up" THEN TodoMail(s) \cup {new}
                        ELSE TodoMail(s)
      /\ \A h \in Hosts : RespMail(h)' = RespMail(h)
      /\ resp' = resp
  BY SendMail
<1>2. \A k \in Mail : ~Same(k, new)
  OBVIOUS
<1> HIDE DEF new
<1>3. Delivers(new, <<"todo", s>>)
  <2>1. Box(<<"todo", s>>)' \subseteq Box(<<"todo", s>>) \cup {new}
    BY <1>1, BoxFacts, BoxFactsNext
  <2>2. ASSUME NEW b \in Boxes, b # <<"todo", s>>, NEW k \in Box(b)'
        PROVE  k \in Box(b) /\ ~Same(k, new)
    <3>1. ASSUME NEW g \in Slots, b = <<"todo", g>> PROVE k \in Box(b)
      <4>1. g # s /\ k \in TodoMail(g)'
        BY <2>2, <3>1, BoxFactsNext
      <4> QED
        BY <1>1, <3>1, <4>1, BoxFacts
    <3>2. ASSUME NEW g \in Hosts, b = <<"resp", g>> PROVE k \in Box(b)
      <4>1. k \in RespMail(g)'
        BY <2>2, <3>2, BoxFactsNext
      <4> QED
        BY <1>1, <3>2, <4>1, BoxFacts
    <3>3. ASSUME b = <<"msgQ", NoHost>> PROVE k \in Box(b)
      <4>1. k \in QueueMail
        BY <1>0, <2>2, <3>3, BoxFactsNext
      <4>2. Box(b) = QueueMail
        BY <3>3, BoxFacts
      <4> QED
        BY <4>1, <4>2
    <3>4. k \in Box(b)
      BY <3>1, <3>2, <3>3, BoxFacts
    <3> QED
      BY <1>2, <3>4 DEF Mail
  <2> QED
    BY <2>1, <2>2 DEF Delivers
<1>4. Separate'
  BY <1>3, SeparateStays, BoxFacts DEF Once
<1>5. \A h \in Hosts : OneEach(resp'[h])
  BY <1>1 DEF Once
<1>6. Once'
  BY <1>1, <1>4, <1>5 DEF Once, OneEach
<1>7. Mail' \subseteq Mail \cup {new}
  BY <1>3 DEF Delivers, Mail, Boxes
<1>8. link[s[1]] = "up" => new \in Mail'
  <2> SUFFICES ASSUME link[s[1]] = "up" PROVE new \in Mail'
    OBVIOUS
  <2>1. new \in Box(<<"todo", s>>)'
    BY <1>1, BoxFactsNext
  <2> QED
    BY <2>1, BoxFacts DEF Mail, Boxes
<1> QED
  BY <1>6, <1>7, <1>8 DEF new

-----------------------------------------------------------------------------
(* Tags                                                                    *)

\* Free tags are free once, and not routed; a tag on its way is not free, and
\* routed while the connection is there.
TagInv ==
    \A h \in Hosts :
        /\ IsInjective(freeTags[h])
        /\ routed[h] \cap Range(freeTags[h]) = {}
        /\ \A l \in Mail : l.host = h =>
               /\ l.tag \notin Range(freeTags[h])
               /\ link[h] # "closed" => l.tag \in routed[h]

\* The tag that is allocated is new to the letters and to the routing.
LEMMA FreshTag ==
    ASSUME TypeInv, TagInv, NEW s \in Slots, NEW off, NEW cnt,
           freeTags[s[1]] # <<>>
    PROVE  /\ Head(freeTags[s[1]]) \in Range(freeTags[s[1]])
           /\ Head(freeTags[s[1]]) \in Tags
           /\ Head(freeTags[s[1]]) \notin routed[s[1]]
           /\ \A k \in Mail : ~Same(k, NewLetter(s, off, cnt))
<1>1. s[1] \in Hosts /\ freeTags[s[1]] \in Seq(Tags)
  BY SlotFacts DEF TypeInv, TypeOK, LinkTypeOK
<1>2. Head(freeTags[s[1]]) = freeTags[s[1]][1] /\ 1 \in DOMAIN freeTags[s[1]]
  BY <1>1, SeqTail
<1>3. Head(freeTags[s[1]]) \in Range(freeTags[s[1]])
  BY <1>2 DEF Range
<1>4. Head(freeTags[s[1]]) \in Tags
  BY <1>1, <1>2, ElementOfSeq, LenProperties
<1> QED
  BY <1>1, <1>3, <1>4 DEF TagInv, Same, NewLetter

\* A step that sends and frees nothing may close connections and lose letters.
Quiet ==
    /\ Once'
    /\ Mail' \subseteq Mail
    /\ freeTags' = freeTags
    /\ \A h \in Hosts : \/ routed'[h] = routed[h]
                        \/ routed'[h] = {} /\ link'[h] = "closed"

LEMMA QuietTags ==
    ASSUME TypeInv, TagInv, [Next]_vars, Quiet
    PROVE  TagInv'
<1> SUFFICES ASSUME NEW h \in Hosts
             PROVE  /\ IsInjective(freeTags'[h])
                    /\ routed'[h] \cap Range(freeTags'[h]) = {}
                    /\ \A l \in Mail' : l.host = h =>
                           /\ l.tag \notin Range(freeTags'[h])
                           /\ link'[h] # "closed" => l.tag \in routed'[h]
  BY DEF TagInv, IsInjective, Range
<1>1. link[h] = "closed" => link'[h] = "closed"
  BY LinkLife
<1> QED
  BY <1>1 DEF Quiet, TagInv

\* The tag of a request that is sent is allocated and routed.
LEMMA SendTags ==
    ASSUME TypeInv, TagInv, [Next]_vars,
           NEW s \in Slots, NEW off, NEW cnt, SendRequest(s, off, cnt),
           Mail' \subseteq Mail \cup {NewLetter(s, off, cnt)}
    PROVE  TagInv'
<1> DEFINE h == s[1]
           x == Head(freeTags[h])
<1>1. /\ h \in Hosts /\ freeTags[h] # <<>> /\ freeTags[h] \in Seq(Tags)
      /\ freeTags' = [freeTags EXCEPT ![h] = Tail(@)]
      /\ freeTags \in [Hosts -> Seq(Tags)]
      /\ routed' = [routed EXCEPT ![h] = @ \cup {x}]
      /\ routed \in [Hosts -> SUBSET Tags]
      /\ link' = link
      /\ IsInjective(freeTags[h])
  BY SlotFacts DEF TypeInv, TypeOK, LinkTypeOK, SendRequest, AllocateAppTag, TagInv
<1>2. /\ IsInjective(Tail(freeTags[h]))
      /\ Range(Tail(freeTags[h])) \subseteq Range(freeTags[h])
      /\ x \notin Range(Tail(freeTags[h]))
  BY <1>1, TagTaken
<1>3. /\ NewLetter(s, off, cnt).host = h /\ NewLetter(s, off, cnt).tag = x
      /\ x \notin routed[h]
  BY <1>1, FreshTag DEF NewLetter
<1> HIDE DEF h, x
<1> SUFFICES ASSUME NEW g \in Hosts
             PROVE  /\ IsInjective(freeTags'[g])
                    /\ routed'[g] \cap Range(freeTags'[g]) = {}
                    /\ \A l \in Mail' : l.host = g =>
                           /\ l.tag \notin Range(freeTags'[g])
                           /\ link'[g] # "closed" => l.tag \in routed'[g]
  BY DEF TagInv, IsInjective, Range
<1>4. CASE g # h
  <2>1. freeTags'[g] = freeTags[g] /\ routed'[g] = routed[g]
    BY <1>1, <1>4
  <2>2. \A l \in Mail' : l.host = g => l \in Mail
    BY <1>3, <1>4
  <2> QED
    BY <1>1, <2>1, <2>2 DEF TagInv
<1>5. CASE g = h
  <2>1. freeTags'[g] = Tail(freeTags[h]) /\ routed'[g] = routed[h] \cup {x}
    BY <1>1, <1>5
  <2>2. /\ routed[h] \cap Range(freeTags[h]) = {}
        /\ \A l \in Mail : l.host = g =>
               /\ l.tag \notin Range(freeTags[h])
               /\ link[h] # "closed" => l.tag \in routed[h]
    BY <1>1, <1>5 DEF TagInv
  <2>3. routed'[g] \cap Range(freeTags'[g]) = {}
    BY <1>2, <2>1, <2>2
  <2>4. ASSUME NEW l \in Mail', l.host = g
        PROVE  /\ l.tag \notin Range(freeTags'[g])
               /\ link'[g] # "closed" => l.tag \in routed'[g]
    BY <1>1, <1>2, <1>3, <1>5, <2>1, <2>2, <2>4
  <2> QED
    BY <1>2, <2>1, <2>3, <2>4
<1> QED
  BY <1>4, <1>5

\* The tag of an answer that has been taken is freed.
LEMMA FreeTagsKept ==
    ASSUME TypeInv, TagInv, NEW l \in Mail, l.host \in Hosts, l.tag \in Tags,
           FreeAppTag(l.host, l.tag),
           Mail' \subseteq Mail, \A k \in Mail' : ~Same(k, l)
    PROVE  TagInv'
<1> DEFINE h == l.host
           x == l.tag
<1>1. /\ h \in Hosts /\ freeTags[h] \in Seq(Tags) /\ x \in Tags
      /\ freeTags' = [freeTags EXCEPT ![h] = Append(@, x)]
      /\ freeTags \in [Hosts -> Seq(Tags)]
      /\ routed' = [routed EXCEPT ![h] = @ \ {x}]
      /\ routed \in [Hosts -> SUBSET Tags]
      /\ link' = link
      /\ IsInjective(freeTags[h])
      /\ x \notin Range(freeTags[h])
  BY DEF TypeInv, TypeOK, LinkTypeOK, FreeAppTag, TagInv
<1>2. /\ IsInjective(Append(freeTags[h], x))
      /\ Range(Append(freeTags[h], x)) = Range(freeTags[h]) \cup {x}
  BY <1>1, TagFreed
<1>3. \A k \in Mail' : k.host = h => k.tag # x
  BY DEF Same
<1> HIDE DEF h, x
<1> SUFFICES ASSUME NEW g \in Hosts
             PROVE  /\ IsInjective(freeTags'[g])
                    /\ routed'[g] \cap Range(freeTags'[g]) = {}
                    /\ \A k \in Mail' : k.host = g =>
                           /\ k.tag \notin Range(freeTags'[g])
                           /\ link'[g] # "closed" => k.tag \in routed'[g]
  BY DEF TagInv, IsInjective, Range
<1>4. CASE g # h
  <2>1. freeTags'[g] = freeTags[g] /\ routed'[g] = routed[g]
    BY <1>1, <1>4
  <2> QED
    BY <1>1, <2>1 DEF TagInv
<1>5. CASE g = h
  <2>1. freeTags'[g] = Append(freeTags[h], x) /\ routed'[g] = routed[h] \ {x}
    BY <1>1, <1>5
  <2>2. /\ routed[h] \cap Range(freeTags[h]) = {}
        /\ \A k \in Mail : k.host = g =>
               /\ k.tag \notin Range(freeTags[h])
               /\ link[h] # "closed" => k.tag \in routed[h]
    BY <1>1, <1>5 DEF TagInv
  <2>3. routed'[g] \cap Range(freeTags'[g]) = {}
    BY <1>2, <2>1, <2>2
  <2>4. ASSUME NEW k \in Mail', k.host = g
        PROVE  /\ k.tag \notin Range(freeTags'[g])
               /\ link'[g] # "closed" => k.tag \in routed'[g]
    BY <1>1, <1>2, <1>3, <1>5, <2>1, <2>2, <2>4
  <2> QED
    BY <1>2, <2>1, <2>3, <2>4
<1> QED
  BY <1>4, <1>5

-----------------------------------------------------------------------------
(* The steps, by what they do to the letters                               *)

\* The steps of the connections, the workers and the client, and those of the
\* scheduler that neither take an answer nor send a request.
Outside ==
    \/ \E h \in Hosts : Connection(h) \/ RegisterWorker(h) \/ Client(h) \/ WorkerDies(h)
    \/ \E s \in Slots : Worker(s)

Idles ==
    \/ Request \/ KickOffFind \/ KickOffNextRound
    \/ AnswerDies \/ SendDies \/ ExceptionDies
    \/ HandleException \/ HandleDetachedException
    \/ UNCHANGED vars

\* The scheduler takes an answer from its queue.
Takes ==
    /\ msgQ # <<>> /\ AnswerAt(1) /\ msgQ' = Tail(msgQ)
    /\ HeadLetter \in Mail /\ HeadLetter.host \in Hosts /\ HeadLetter.tag \in Tags
    /\ \A k \in Mail' : ~Same(k, HeadLetter)

\* The scheduler sends a request to s.
Sends(s, off, cnt) ==
    /\ SendRequest(s, off, cnt)
    /\ s \in Slots /\ off \in Nat /\ cnt \in Nat
    /\ Mail' \subseteq Mail \cup {NewLetter(s, off, cnt)}
    /\ link[s[1]] = "up" => NewLetter(s, off, cnt) \in Mail'

\* A step that touches neither the pipelines' queues nor the answers on their
\* way only shortens the scheduler's queue.
LEMMA StillMail ==
    ASSUME TypeInv, Once, [Next]_vars, todo' = todo, resp' = resp
    PROVE  Once' /\ Mail' \subseteq Mail
<1>1. OneAnswer' /\ QueueMail' \subseteq QueueMail
  BY QueueMoves, QueueKept DEF Once
<1> QED
  BY <1>1, ShrinkMail

\* The steps that neither take an answer nor send a request.
LEMMA IdleMail ==
    ASSUME TypeInv, Once, [Next]_vars, Idles
    PROVE  Quiet
<1> USE DEF linkVars, wireVars
<1>1. /\ todo' = todo /\ resp' = resp /\ freeTags' = freeTags
      /\ \/ routed' = routed
         \/ \E h \in Hosts : \E q : Close(h, q)
  <2>1. ASSUME NEW f, Die(f) PROVE UNCHANGED linkVars
    BY <2>1 DEF Die
  <2>2. CASE Request
    BY <2>1, <2>2 DEF Request, RejectScene, AcceptScene, AcceptDies
  <2>3. CASE KickOffFind \/ KickOffNextRound \/ HandleException
    BY <2>3 DEF KickOffFind, KickOffNextRound, HandleException
  <2>4. CASE AnswerDies \/ SendDies \/ ExceptionDies
    BY <2>1, <2>4 DEF AnswerDies, SendDies, ExceptionDies
  <2>5. CASE HandleDetachedException
    <3>1. Head(msgQ).host \in Hosts
      BY <2>5, HeadFacts DEF HandleDetachedException, TypeInv
    <3> QED
      BY <2>5, <3>1 DEF HandleDetachedException, Close
  <2>6. CASE UNCHANGED vars
    BY <2>6 DEF vars
  <2> QED
    BY <2>2, <2>3, <2>4, <2>5, <2>6 DEF Idles
<1>2. Once' /\ Mail' \subseteq Mail
  BY <1>1, StillMail
<1>3. ASSUME NEW h \in Hosts, NEW q, Close(h, q), NEW g \in Hosts
      PROVE  routed'[g] = routed[g] \/ (routed'[g] = {} /\ link'[g] = "closed")
  BY <1>3 DEF Close, TypeInv, TypeOK, LinkTypeOK
<1> QED
  BY <1>1, <1>2, <1>3 DEF Quiet

\* The steps of the other threads and of the workers move letters, lose them
\* with a worker, and close connections.
LEMMA OutsideMail ==
    ASSUME TypeInv, Once, [Next]_vars, Outside
    PROVE  Quiet
<1> USE DEF linkVars, wireVars
<1>1. ASSUME todo' = todo, resp' = resp, freeTags' = freeTags, routed' = routed
      PROVE  Quiet
  BY <1>1, StillMail DEF Quiet
<1>2. ASSUME NEW h \in Hosts, Receive(h) PROVE Quiet
  BY <1>2, ReceiveMail DEF Quiet, Receive
<1>3. ASSUME NEW h \in Hosts, CloseConnection(h) PROVE Quiet
  <2>1. Close(h, msgQ)
    BY <1>3 DEF CloseConnection
  <2>2. Once' /\ Mail' \subseteq Mail
    BY <2>1, StillMail DEF Close
  <2>3. \A g \in Hosts : \/ routed'[g] = routed[g]
                         \/ routed'[g] = {} /\ link'[g] = "closed"
    BY <2>1 DEF Close, TypeInv, TypeOK, LinkTypeOK
  <2> QED
    BY <2>1, <2>2, <2>3 DEF Quiet, Close
<1>4. ASSUME NEW h \in Hosts, ReportException(h) \/ NoteFailure(h) \/ RegisterWorker(h)
      PROVE  Quiet
  BY <1>1, <1>4 DEF ReportException, NoteFailure, RegisterWorker
<1>5. ASSUME NEW h \in Hosts, Client(h) PROVE Quiet
  BY <1>1, <1>5 DEF Client, Deliver
<1>6. ASSUME NEW h \in Hosts, Perish(h), msgQ' = msgQ PROVE Quiet
  <2>1. \A s \in Slots : \A i \in DOMAIN todo'[s] :
            i \in DOMAIN todo[s] /\ todo'[s][i] = todo[s][i]
    <3> SUFFICES ASSUME NEW s \in Slots
                 PROVE  \A i \in DOMAIN todo'[s] :
                            i \in DOMAIN todo[s] /\ todo'[s][i] = todo[s][i]
      OBVIOUS
    <3>1. todo'[s] = <<>> \/ todo'[s] = todo[s]
      BY <1>6 DEF Perish
    <3> QED
      BY <3>1
  <2>2. \A g \in Hosts : \A i \in DOMAIN resp'[g] :
            i \in DOMAIN resp[g] /\ resp'[g][i] = resp[g][i]
    BY <1>6, PerishFacts
  <2>3. OneAnswer' /\ QueueMail' \subseteq QueueMail
    BY <1>6 DEF Once, OneAnswer, QueueMail, AnswerAt
  <2>4. Once' /\ Mail' \subseteq Mail
    BY <2>1, <2>2, <2>3, ShrinkMail
  <2>5. freeTags' = freeTags /\ routed' = routed
    BY <1>6 DEF Perish
  <2> QED
    BY <2>4, <2>5 DEF Quiet
<1>7. ASSUME NEW h \in Hosts, WorkerDies(h) PROVE Quiet
  BY <1>6, <1>7 DEF WorkerDies, Crash
<1>8. ASSUME NEW s \in Slots, Worker(s) PROVE Quiet
  <2>1. msgQ' = msgQ
    BY <1>8 DEF Worker
  <2>2. CASE ShipSegment(s)
    BY <1>1, <2>2 DEF ShipSegment
  <2>3. CASE Respond(s)
    BY <2>1, <2>3, RespondMail DEF Quiet, Respond
  <2>4. CASE ProduceUnknownScene(s)
    BY <1>6, <2>1, <2>4, SlotFacts DEF ProduceUnknownScene
  <2> QED
    BY <1>8, <2>2, <2>3, <2>4 DEF Worker
<1> QED
  BY <1>2, <1>3, <1>4, <1>5, <1>7, <1>8 DEF Outside, Connection

\* An answer is taken off the queue, and nothing is sent.
LEMMA TakeMail ==
    ASSUME TypeInv, Once, [Next]_vars, NEW c \in BOOLEAN, Handle("answer", c),
           todo' = todo, resp' = resp
    PROVE  Once' /\ Mail' \subseteq Mail /\ Takes
<1>1. msgQ # <<>> /\ msgQ' = Tail(msgQ) /\ AnswerAt(1)
  BY TailFacts DEF Handle, AnswerAt, TypeInv
<1>2. Queued(1)
  BY <1>1, TailFacts DEF Queued, TypeInv
<1>3. /\ OneAnswer' /\ QueueMail' \subseteq QueueMail
      /\ \A k \in QueueMail' : ~Same(k, HeadLetter)
  BY <1>1, <1>2, QueueKept DEF Once
<1>4. Once' /\ Mail' \subseteq Mail
  BY StillMail
<1>5. HeadLetter.host \in Hosts /\ HeadLetter.tag \in Tags
  BY AnswerHead DEF HeadLetter, Letter
<1>6. /\ \A s \in Slots : TodoMail(s)' \subseteq TodoMail(s)
      /\ \A h \in Hosts : RespMail(h)' \subseteq RespMail(h)
  BY DEF TodoMail, RespMail
<1>7. ~Same([HeadLetter EXCEPT !.tag = 0], HeadLetter)
  <2>1. HeadLetter.tag # 0
    BY <1>5 DEF Tags
  <2>2. [HeadLetter EXCEPT !.tag = 0].tag = 0
    BY DEF HeadLetter, Letter
  <2> QED
    BY <2>1, <2>2 DEF Same
<1>8. HeadLetter \in Mail /\ \A k \in Mail' : ~Same(k, HeadLetter)
  BY <1>1, <1>3, <1>6, <1>7, TakenMail
<1> QED
  BY <1>1, <1>4, <1>5, <1>8 DEF Takes

-----------------------------------------------------------------------------
(* The steps that send                                                     *)

\* What a pipeline is sent: the next pixels of the scene, a job of a failed
\* host, or nothing to do.
NextJob(off, cnt) ==
    /\ off = current
    /\ cnt \in 1 .. NumPixels - current
    /\ current' = current + cnt
    /\ failed' = failed

FailedJob(off, cnt) ==
    /\ [off |-> off, cnt |-> cnt] \in failed
    /\ cnt # 0
    /\ failed' = failed \ {[off |-> off, cnt |-> cnt]}
    /\ current' = current

NoJob(off, cnt) ==
    /\ off = 0 /\ cnt = 0
    /\ current = NumPixels
    /\ UNCHANGED <<current, failed, pending, tracked>>

Counted(s, off, cnt) ==
    /\ pending' = (pending + 1) % UIntMod
    /\ tracked' = [tracked EXCEPT ![s] = @ \cup {[off |-> off, cnt |-> cnt]}]

\* The steps of the scheduler that send and take no answer.
LEMMA NextJobSent ==
    ASSUME TypeInv, NEW s \in Slots, NEW w \in Nat \ {0}, current < NumPixels,
           RequestFault(s, TRUE) = "none", SendNextJob(s, w), failed' = failed
    PROVE  \E off, cnt \in Nat : /\ SendRequest(s, off, cnt)
                                 /\ Counted(s, off, cnt) /\ NextJob(off, cnt)
<1>1. PICK cnt \in Nat : cnt = RefillSize(s[1], w)
  <2>1. RefillSize(s[1], w) \in 1 .. NumPixels - current
    BY SendNextJobType
  <2> QED
    BY <2>1, TrackerAssumption DEF TypeInv, TypeOK
<1>2. cnt \in 1 .. NumPixels - current /\ current' = current + cnt
  BY <1>1, SendNextJobType
<1>3. SendRequest(s, current, cnt) /\ Counted(s, current, cnt)
  BY <1>1 DEF SendNextJob, TrackJob, Assign, Counted
<1>4. current \in Nat
  BY DEF TypeInv, TypeOK
<1> QED
  BY <1>2, <1>3, <1>4 DEF NextJob

LEMMA KickOffSends ==
    ASSUME TypeInv, KickOffAssign
    PROVE  LET s == <<hostWorkers[pos.index], pos.pipe>>
           IN  /\ pc = "assign" /\ s \in Slots /\ msgQ' = msgQ
               /\ hostWorkers' = hostWorkers
               /\ \E off, cnt \in Nat :
                      /\ SendRequest(s, off, cnt)
                      /\ \/ Counted(s, off, cnt) /\ NextJob(off, cnt)
                         \/ NoJob(off, cnt)
<1> DEFINE s == <<hostWorkers[pos.index], pos.pipe>>
<1>1. /\ pc = "assign" /\ failed' = failed /\ msgQ' = msgQ
      /\ RequestFault(s, current < NumPixels) = "none"
      /\ \/ current < NumPixels /\ SendNextJob(s, workload)
         \/ current >= NumPixels /\ SendRequest(s, 0, 0)
            /\ UNCHANGED <<trackerVars, current, pending>>
  BY DEF KickOffAssign
<1>2. s \in Slots /\ workload \in Nat \ {0}
  <2>1. /\ hostWorkers[pos.index] \in Hosts
        /\ pos.pipe \in Pipelines(hostWorkers[pos.index])
    BY <1>1 DEF TypeInv, TypeOK, TrackerTypeOK, Places
  <2> QED
    BY <1>1, <2>1, SlotFacts DEF TypeInv, TypeOK, Places
<1> HIDE DEF s
<1>3. CASE current < NumPixels /\ SendNextJob(s, workload)
  <2>1. RequestFault(s, TRUE) = "none"
    BY <1>1, <1>3 DEF RequestFault
  <2>2. \E off, cnt \in Nat : /\ SendRequest(s, off, cnt)
                              /\ Counted(s, off, cnt) /\ NextJob(off, cnt)
    BY <1>1, <1>2, <1>3, <2>1, NextJobSent
  <2>3. hostWorkers' = hostWorkers
    BY <1>3 DEF SendNextJob, TrackJob
  <2> QED
    BY <1>1, <1>2, <2>2, <2>3 DEF s
<1>4. CASE /\ current >= NumPixels /\ SendRequest(s, 0, 0)
           /\ UNCHANGED <<trackerVars, current, pending>>
  <2>1. current = NumPixels
    BY <1>4, TrackerAssumption DEF TypeInv, TypeOK, Bounded
  <2>2. NoJob(0, 0)
    BY <1>1, <1>4, <2>1 DEF NoJob, trackerVars
  <2> QED
    BY <1>1, <1>2, <1>4, <2>2 DEF s, trackerVars
<1> QED
  BY <1>1, <1>3, <1>4

LEMMA RefillSends ==
    ASSUME TypeInv, Apart(AllJobs, current), Refill, NEW s, s = slot
    PROVE  /\ pc = "refill" /\ s \in Slots /\ msgQ' = msgQ
           /\ pc' = "idle" /\ hostWorkers' = hostWorkers
           /\ current < NumPixels
           /\ \E off, cnt \in Nat : /\ SendRequest(s, off, cnt)
                                    /\ Counted(s, off, cnt)
                                    /\ NextJob(off, cnt) \/ FailedJob(off, cnt)
<1>1. /\ pc = "refill" /\ s \in Slots /\ current < NumPixels
      /\ pc' = "idle" /\ msgQ' = msgQ
  BY DEF Refill, TypeInv, Places
<1>2. CASE failed # {}
  <2>1. /\ SendRequest(s, FirstFailed.off, FirstFailed.cnt)
        /\ tracked' = [tracked EXCEPT ![s] = @ \cup {FirstFailed}]
        /\ pending' = (pending + 1) % UIntMod
        /\ failed' = failed \ {FirstFailed}
        /\ current' = current /\ hostWorkers' = hostWorkers
    BY <1>2 DEF Refill, TrackJob, Assign
  <2>2. FirstFailed \in failed /\ FirstFailed \in Jobs
    BY <1>2, FirstFailedIn DEF TypeInv, TypeOK
  <2>3. FirstFailed = [off |-> FirstFailed.off, cnt |-> FirstFailed.cnt]
    BY <2>2 DEF Jobs
  <2>4. FirstFailed.cnt # 0
    BY <2>2, JobSets DEF Apart
  <2> QED
    BY <1>1, <2>1, <2>2, <2>3, <2>4 DEF Jobs, Counted, FailedJob
<1>3. CASE failed = {}
  <2>1. /\ workload' = MaxOf((workload * Decay) \div 10000, ChunkMin)
        /\ SendNextJob(s, workload')
        /\ failed' = failed
    BY <1>3 DEF Refill
  <2>2. RequestFault(s, TRUE) = "none"
    BY <1>3 DEF Refill, RequestFault
  <2>3. workload' \in Nat \ {0}
    <3>1. workload * Decay \in Nat
      BY SchedulerAssumption DEF TypeInv, TypeOK
    <3>2. (workload * Decay) \div 10000 \in Nat
      BY <3>1
    <3> QED
      BY <2>1, <3>2, TrackerAssumption DEF MaxOf
  <2>4. PICK w \in Nat \ {0} : w = workload'
    BY <2>3
  <2>5. SendNextJob(s, w)
    BY <2>1, <2>4
  <2>6. \E off, cnt \in Nat : /\ SendRequest(s, off, cnt)
                              /\ Counted(s, off, cnt) /\ NextJob(off, cnt)
    <3>1. failed' = failed /\ s \in Slots /\ current < NumPixels
      BY <1>1, <2>1
    <3> QED
      BY <2>2, <2>5, <3>1, NextJobSent
  <2>7. hostWorkers' = hostWorkers
    BY <2>5 DEF SendNextJob, TrackJob
  <2> QED
    BY <1>1, <2>6, <2>7
<1> QED
  BY <1>2, <1>3

\* The letters after a request has been sent and no answer taken.
LEMMA SentMail ==
    ASSUME TypeInv, Once, TagInv, NEW s \in Slots, NEW off \in Nat, NEW cnt \in Nat,
           SendRequest(s, off, cnt), msgQ' = msgQ
    PROVE  /\ Once' /\ Sends(s, off, cnt)
           /\ Mail \subseteq Mail'
<1>1. \A k \in Mail : ~Same(k, NewLetter(s, off, cnt))
  BY FreshTag DEF SendRequest
<1>2. OneAnswer' /\ QueueMail' = QueueMail
  BY DEF Once, OneAnswer, QueueMail, AnswerAt
<1>3. /\ Once'
      /\ Mail' \subseteq Mail \cup {NewLetter(s, off, cnt)}
      /\ link[s[1]] = "up" => NewLetter(s, off, cnt) \in Mail'
  BY <1>1, <1>2, PostMail
<1>4. /\ \A g \in Slots : g # s => TodoMail(g)' = TodoMail(g)
      /\ TodoMail(s) \subseteq TodoMail(s)'
      /\ \A h \in Hosts : RespMail(h)' = RespMail(h)
  BY <1>1, SendMail
<1>5. \A b \in Boxes : Box(b) \subseteq Box(b)'
  <2> SUFFICES ASSUME NEW b \in Boxes PROVE Box(b) \subseteq Box(b)'
    OBVIOUS
  <2>1. ASSUME NEW g \in Slots, b = <<"todo", g>> PROVE Box(b) \subseteq Box(b)'
    BY <1>4, <2>1, BoxFacts, BoxFactsNext
  <2>2. ASSUME NEW g \in Hosts, b = <<"resp", g>> PROVE Box(b) \subseteq Box(b)'
    BY <1>4, <2>2, BoxFacts, BoxFactsNext
  <2>3. ASSUME b = <<"msgQ", NoHost>> PROVE Box(b) \subseteq Box(b)'
    BY <1>2, <2>3, BoxFacts, BoxFactsNext
  <2> QED
    BY <2>1, <2>2, <2>3, BoxFacts
<1>6. Mail \subseteq Mail'
  BY <1>5 DEF Mail, Boxes
<1> QED
  BY <1>3, <1>6 DEF Sends

\* An answer is taken and a job of a failed host sent instead.
LEMMA RedispatchMail ==
    ASSUME TypeInv, Once, TagInv, Apart(AllJobs, current), [Next]_vars,
           AnswerThenRedispatch
    PROVE  /\ Once' /\ Takes /\ AnswerSlot \in Slots
           /\ current = NumPixels /\ failed # {} /\ pc' = pc /\ pc = "idle"
           /\ pending' = (PendingAfter + 1) % UIntMod
           /\ \E off, cnt \in Nat : Sends(AnswerSlot, off, cnt) /\ FailedJob(off, cnt)
<1>1. /\ Handle("answer", TRUE) /\ current = NumPixels /\ failed # {}
      /\ SendRequest(AnswerSlot, FirstFailed.off, FirstFailed.cnt)
      /\ failed' = failed \ {FirstFailed}
      /\ current' = current /\ pc' = pc /\ pc = "idle"
      /\ pending' = (PendingAfter + 1) % UIntMod
  BY DEF AnswerThenRedispatch, AllHandedOut, Assign, placeVars, Handle
<1>2. /\ msgQ # <<>> /\ msgQ' = Tail(msgQ) /\ AnswerAt(1)
      /\ AnswerSlot \in Slots
      /\ HeadLetter.host \in Hosts /\ HeadLetter.tag \in Tags
  BY <1>1, TailFacts, AnswerHead DEF Handle, AnswerAt, TypeInv, HeadLetter, Letter
<1>3. FirstFailed \in failed /\ FirstFailed \in Jobs
  BY <1>1, FirstFailedIn DEF TypeInv, TypeOK
<1>4. /\ FirstFailed.off \in Nat /\ FirstFailed.cnt \in Nat
      /\ FirstFailed = [off |-> FirstFailed.off, cnt |-> FirstFailed.cnt]
  BY <1>3 DEF Jobs
<1>5. FirstFailed.cnt # 0
  BY <1>3, JobSets DEF Apart
<1> DEFINE x == NewLetter(AnswerSlot, FirstFailed.off, FirstFailed.cnt)
<1>6. \A k \in Mail : ~Same(k, x)
  BY <1>1, <1>2, FreshTag DEF SendRequest
<1>7. /\ \A g \in Slots : TodoMail(g)' \subseteq TodoMail(g) \cup {x}
      /\ \A h \in Hosts : RespMail(h)' \subseteq RespMail(h)
      /\ resp' = resp
  BY <1>1, <1>2, <1>4, <1>6, SendMail
<1>8. Queued(1)
  BY <1>2, TailFacts DEF Queued, TypeInv
<1>9. /\ OneAnswer' /\ QueueMail' \subseteq QueueMail
      /\ \A k \in QueueMail' : ~Same(k, HeadLetter)
  BY <1>2, <1>7, <1>8, QueueKept DEF Once
<1>10. /\ Once'
       /\ Mail' \subseteq Mail \cup {x}
       /\ link[AnswerSlot[1]] = "up" => x \in Mail'
  BY <1>1, <1>2, <1>4, <1>6, <1>9, PostMail
<1>11. HeadLetter \in Mail
  <2>1. Head(msgQ) = msgQ[1] /\ 1 \in DOMAIN msgQ
    BY <1>2, TailFacts DEF TypeInv
  <2>2. HeadLetter \in QueueMail
    BY <1>2, <2>1 DEF QueueMail, HeadLetter
  <2> QED
    BY <2>2, BoxFacts DEF Mail
<1>12. ~Same(x, HeadLetter)
  BY <1>6, <1>11 DEF Same
<1>13. \A k \in Mail' : ~Same(k, HeadLetter)
  BY <1>2, <1>7, <1>9, <1>12, TakenMail
<1>14. Takes
  BY <1>2, <1>11, <1>13 DEF Takes
<1>15. Sends(AnswerSlot, FirstFailed.off, FirstFailed.cnt)
  BY <1>1, <1>2, <1>4, <1>10 DEF Sends
<1>16. FailedJob(FirstFailed.off, FirstFailed.cnt)
  BY <1>1, <1>3, <1>4, <1>5 DEF FailedJob
<1> QED
  BY <1>1, <1>2, <1>4, <1>10, <1>14, <1>15, <1>16

\* An answer is taken and nothing sent in the same step.
LEMMA TakingMail ==
    ASSUME TypeInv, Once, TagInv, [Next]_vars,
           \/ AnswerThenRefill \/ AnswerThenFinish \/ AnswerThenWait
           \/ HandleDetachedAnswer
    PROVE  /\ Once' /\ Mail' \subseteq Mail /\ Takes /\ TagInv'
           /\ HeadLetter.host = AnswerSlot[1] /\ HeadLetter.pipe = AnswerSlot[2]
           /\ AnswerSlot \in Slots /\ pc = "idle"
<1>1. PICK c \in BOOLEAN : Handle("answer", c)
  BY DEF AnswerThenRefill, AnswerThenFinish, AnswerThenWait, HandleDetachedAnswer
<1>2. \/ FreeAppTag(Head(msgQ).host, Head(msgQ).tag)
      \/ UNCHANGED linkVars
  BY DEF AnswerThenRefill, AnswerThenFinish, AnswerThenWait, HandleDetachedAnswer
<1>3. todo' = todo /\ resp' = resp
  BY <1>2 DEF FreeAppTag, linkVars, wireVars
<1>4. Once' /\ Mail' \subseteq Mail /\ Takes
  BY <1>1, <1>3, TakeMail
<1>5. /\ HeadLetter.host = AnswerSlot[1] /\ HeadLetter.pipe = AnswerSlot[2]
      /\ HeadLetter.tag = Head(msgQ).tag /\ HeadLetter.host = Head(msgQ).host
      /\ AnswerSlot \in Slots /\ pc = "idle"
  BY <1>1, AnswerHead DEF HeadLetter, Letter, AnswerSlot
<1>6. ASSUME FreeAppTag(Head(msgQ).host, Head(msgQ).tag) PROVE TagInv'
  BY <1>4, <1>5, <1>6, FreeTagsKept DEF Takes
<1>7. ASSUME UNCHANGED linkVars PROVE TagInv'
  <2>1. Quiet
    BY <1>4, <1>7 DEF Quiet, linkVars
  <2> QED
    BY <2>1, QuietTags
<1> QED
  BY <1>2, <1>4, <1>5, <1>6, <1>7

\* Every step is of one of these kinds.
LEMMA StepKinds ==
    ASSUME [Next]_vars
    PROVE  \/ Idles \/ Outside
           \/ AnswerThenRefill \/ AnswerThenFinish \/ AnswerThenWait
           \/ HandleDetachedAnswer
           \/ KickOffAssign \/ Refill \/ AnswerThenRedispatch
BY DEF Next, Scheduler, Idles, Outside

-----------------------------------------------------------------------------
(* Tags are unique                                                         *)

MailInv == Once /\ TagInv

LEMMA NoMailAtFirst ==
    ASSUME Init
    PROVE  /\ \A s \in Slots : todo[s] = <<>>
           /\ \A h \in Hosts : resp[h] = <<>>
           /\ msgQ = <<>>
           /\ Mail = {}
<1>1. /\ \A s \in Slots : todo[s] = <<>>
      /\ \A h \in Hosts : resp[h] = <<>>
      /\ msgQ = <<>>
  BY DEF Init, LinkInit
<1>2. /\ \A s \in Slots : TodoMail(s) = {}
      /\ \A h \in Hosts : RespMail(h) = {}
      /\ QueueMail = {}
  BY <1>1 DEF TodoMail, RespMail, QueueMail
<1>3. \A b \in Boxes : Box(b) = {}
  BY <1>2, BoxFacts
<1> QED
  BY <1>1, <1>3 DEF Mail

LEMMA MailInit == Init => MailInv
<1> SUFFICES ASSUME Init PROVE MailInv
  OBVIOUS
<1>1. /\ \A s \in Slots : todo[s] = <<>>
      /\ \A h \in Hosts : resp[h] = <<>>
      /\ msgQ = <<>>
      /\ Mail = {}
  BY NoMailAtFirst
<1>2. Once
  <2>1. Separate
    BY <1>1 DEF Separate, Mail
  <2> QED
    BY <1>1, <2>1 DEF Once, OneEach, OneAnswer
<1>3. \A h \in Hosts : /\ freeTags[h] = [i \in 1 .. NumTags |-> i]
                       /\ routed[h] = {}
  BY DEF Init, LinkInit
<1>4. \A h \in Hosts : IsInjective(freeTags[h])
  <2>1. \A i, k \in DOMAIN [i \in 1 .. NumTags |-> i] :
            [i_1 \in 1 .. NumTags |-> i_1][i] = [i_1 \in 1 .. NumTags |-> i_1][k] => i = k
    OBVIOUS
  <2>2. IsInjective([i \in 1 .. NumTags |-> i])
    BY <2>1 DEF IsInjective
  <2> QED
    BY <1>3, <2>2
<1> QED
  BY <1>1, <1>2, <1>3, <1>4 DEF MailInv, TagInv

LEMMA MailStep ==
    ASSUME TypeInv, Apart(AllJobs, current), MailInv, [Next]_vars
    PROVE  MailInv'
<1> USE DEF MailInv
<1>1. CASE Idles \/ Outside
  BY <1>1, IdleMail, OutsideMail, QuietTags DEF Quiet
<1>2. CASE AnswerThenRefill \/ AnswerThenFinish \/ AnswerThenWait
           \/ HandleDetachedAnswer
  BY <1>2, TakingMail
<1>3. ASSUME NEW s \in Slots, NEW off \in Nat, NEW cnt \in Nat, Once',
             Sends(s, off, cnt)
      PROVE  MailInv'
  BY <1>3, SendTags DEF Sends
<1>4. CASE KickOffAssign
  BY <1>3, <1>4, KickOffSends, SentMail
<1>5. CASE Refill
  <2>1. PICK s \in Slots : s = slot
    BY <1>5 DEF Refill, TypeInv, Places
  <2>2. /\ msgQ' = msgQ
        /\ \E off, cnt \in Nat : /\ SendRequest(s, off, cnt)
                                 /\ Counted(s, off, cnt)
                                 /\ NextJob(off, cnt) \/ FailedJob(off, cnt)
    BY <1>5, <2>1, RefillSends
  <2>3. ASSUME NEW off \in Nat, NEW cnt \in Nat, SendRequest(s, off, cnt)
        PROVE  MailInv'
    BY <1>3, <2>2, <2>3, SentMail
  <2> QED
    BY <2>2, <2>3
<1>6. CASE AnswerThenRedispatch
  BY <1>3, <1>6, RedispatchMail
<1> QED
  BY <1>1, <1>2, <1>4, <1>5, <1>6, StepKinds

\* The carrier of a request is in one of the boxes of its host.
LEMMA CarrierBoxes ==
    ASSUME TypeInv, NEW h \in Hosts, NEW c \in Carriers(h)
    PROVE  \/ \E p \in Pipelines(h) : \E i \in DOMAIN todo[<<h, p>>] :
                 c = [at |-> <<"todo", p, i>>, pipe |-> p, req |-> todo[<<h, p>>][i]]
           \/ \E i \in DOMAIN resp[h] :
                 c = [at |-> <<"resp", i>>, pipe |-> resp[h][i].pipe, req |-> resp[h][i]]
           \/ \E i \in DOMAIN msgQ :
                 /\ AnswerAt(i) /\ msgQ[i].host = h
                 /\ c = [at |-> <<"msgQ", i>>, pipe |-> msgQ[i].pipe, req |-> msgQ[i]]
<1> DEFINE Waiting(p) == {[at |-> <<"todo", p, i>>, pipe |-> p,
                          req |-> todo[<<h, p>>][i]] : i \in DOMAIN todo[<<h, p>>]}
           Sent == {[at |-> <<"resp", i>>, pipe |-> resp[h][i].pipe,
                     req |-> resp[h][i]] : i \in DOMAIN resp[h]}
           Received == {[at |-> <<"msgQ", i>>, pipe |-> msgQ[i].pipe,
                         req |-> msgQ[i]] : i \in AnswersIn(msgQ, h)}
<1>1. c \in (UNION {Waiting(p) : p \in Pipelines(h)}) \cup Sent \cup Received
  BY DEF Carriers
<1>2. ASSUME NEW p \in Pipelines(h), c \in Waiting(p)
      PROVE  \E i \in DOMAIN todo[<<h, p>>] :
                 c = [at |-> <<"todo", p, i>>, pipe |-> p, req |-> todo[<<h, p>>][i]]
  BY <1>2
<1>3. ASSUME c \in Sent
      PROVE  \E i \in DOMAIN resp[h] :
                 c = [at |-> <<"resp", i>>, pipe |-> resp[h][i].pipe, req |-> resp[h][i]]
  BY <1>3
<1>4. ASSUME c \in Received
      PROVE  \E i \in DOMAIN msgQ :
                 /\ AnswerAt(i) /\ msgQ[i].host = h
                 /\ c = [at |-> <<"msgQ", i>>, pipe |-> msgQ[i].pipe, req |-> msgQ[i]]
  <2>1. PICK i \in AnswersIn(msgQ, h) :
            c = [at |-> <<"msgQ", i>>, pipe |-> msgQ[i].pipe, req |-> msgQ[i]]
    BY <1>4
  <2> QED
    BY <2>1 DEF AnswersIn, AnswerAt
<1>5. c \in Sent \/ c \in Received \/ \E p \in Pipelines(h) : c \in Waiting(p)
  <2>1. ASSUME c \in UNION {Waiting(p) : p \in Pipelines(h)}
        PROVE  \E p \in Pipelines(h) : c \in Waiting(p)
    <3>1. PICK S \in {Waiting(p) : p \in Pipelines(h)} : c \in S
      BY <2>1, Zenon
    <3>2. PICK p \in Pipelines(h) : S = Waiting(p)
      BY <3>1, Zenon
    <3> QED
      BY <3>1, <3>2, Zenon
  <2>2. \/ c \in UNION {Waiting(p) : p \in Pipelines(h)}
        \/ c \in Sent \/ c \in Received
    BY <1>1, Zenon
  <2> QED
    BY <2>1, <2>2, Zenon
<1> HIDE DEF Waiting, Sent, Received
<1> QED
  BY <1>2, <1>3, <1>4, <1>5

\* Every carrier has a letter, and carriers with the same tag are the same.
LEMMA CarrierLetters ==
    ASSUME TypeInv, NEW h \in Hosts, NEW c \in Carriers(h)
    PROVE  Letter(h, c.pipe, c.req) \in Mail
<1>1. ASSUME NEW p \in Pipelines(h), NEW i \in DOMAIN todo[<<h, p>>],
             c = [at |-> <<"todo", p, i>>, pipe |-> p, req |-> todo[<<h, p>>][i]]
      PROVE  Letter(h, c.pipe, c.req) \in Mail
  <2>1. /\ <<h, p>> \in Slots /\ <<h, p>>[1] = h /\ <<h, p>>[2] = p
        /\ c.pipe = p /\ c.req = todo[<<h, p>>][i]
    BY <1>1, SlotFacts
  <2>2. Letter(h, c.pipe, c.req) \in TodoMail(<<h, p>>)
    BY <2>1 DEF TodoMail
  <2> QED
    BY <2>1, <2>2, BoxFacts DEF Mail
<1>2. ASSUME NEW i \in DOMAIN resp[h],
             c = [at |-> <<"resp", i>>, pipe |-> resp[h][i].pipe, req |-> resp[h][i]]
      PROVE  Letter(h, c.pipe, c.req) \in Mail
  <2>1. Letter(h, c.pipe, c.req) \in RespMail(h)
    BY <1>2 DEF RespMail
  <2> QED
    BY <2>1, BoxFacts DEF Mail
<1>3. ASSUME NEW i \in DOMAIN msgQ, AnswerAt(i), msgQ[i].host = h,
             c = [at |-> <<"msgQ", i>>, pipe |-> msgQ[i].pipe, req |-> msgQ[i]]
      PROVE  Letter(h, c.pipe, c.req) \in Mail
  <2>1. Letter(h, c.pipe, c.req) \in QueueMail
    BY <1>3 DEF QueueMail
  <2> QED
    BY <2>1, BoxFacts DEF Mail
<1> QED
  BY <1>1, <1>2, <1>3, CarrierBoxes

LEMMA OneCarrier ==
    ASSUME TypeInv, Once, NEW h \in Hosts,
           NEW c \in Carriers(h), NEW d \in Carriers(h), c.req.tag = d.req.tag
    PROVE  c = d
<1> DEFINE AtTodo(x, p, i) == x = [at |-> <<"todo", p, i>>, pipe |-> p,
                                   req |-> todo[<<h, p>>][i]]
           AtResp(x, i) == x = [at |-> <<"resp", i>>, pipe |-> resp[h][i].pipe,
                                req |-> resp[h][i]]
           AtQueue(x, i) == /\ AnswerAt(i) /\ msgQ[i].host = h
                            /\ x = [at |-> <<"msgQ", i>>, pipe |-> msgQ[i].pipe,
                                    req |-> msgQ[i]]
           Bin(x, b) ==
               /\ b \in Boxes /\ Letter(h, x.pipe, x.req) \in Box(b)
               /\ \A p \in Pipelines(h) : b = <<"todo", <<h, p>>>> =>
                      \E i \in DOMAIN todo[<<h, p>>] : AtTodo(x, p, i)
               /\ b = <<"resp", h>> => \E i \in DOMAIN resp[h] : AtResp(x, i)
               /\ b = <<"msgQ", NoHost>> => \E i \in DOMAIN msgQ : AtQueue(x, i)
               /\ \/ \E p \in Pipelines(h) : b = <<"todo", <<h, p>>>>
                  \/ b = <<"resp", h>>
                  \/ b = <<"msgQ", NoHost>>
<1>1. ASSUME NEW x \in Carriers(h) PROVE \E b : Bin(x, b)
  <2>1. ASSUME NEW p \in Pipelines(h), NEW i \in DOMAIN todo[<<h, p>>], AtTodo(x, p, i)
        PROVE  Bin(x, <<"todo", <<h, p>>>>)
    <3>1. /\ <<h, p>> \in Slots /\ <<h, p>>[1] = h /\ <<h, p>>[2] = p
          /\ x.pipe = p /\ x.req = todo[<<h, p>>][i]
      BY <2>1, SlotFacts
    <3>2. Letter(h, x.pipe, x.req) \in TodoMail(<<h, p>>)
      BY <3>1 DEF TodoMail
    <3>3. \A q \in Pipelines(h) : <<"todo", <<h, p>>>> = <<"todo", <<h, q>>>> => p = q
      OBVIOUS
    <3> QED
      BY <2>1, <3>1, <3>2, <3>3, BoxFacts
  <2>2. ASSUME NEW i \in DOMAIN resp[h], AtResp(x, i) PROVE Bin(x, <<"resp", h>>)
    <3>1. Letter(h, x.pipe, x.req) \in RespMail(h)
      BY <2>2 DEF RespMail
    <3> QED
      BY <2>2, <3>1, BoxFacts, SlotFacts
  <2>3. ASSUME NEW i \in DOMAIN msgQ, AtQueue(x, i) PROVE Bin(x, <<"msgQ", NoHost>>)
    <3>1. Letter(h, x.pipe, x.req) \in QueueMail
      BY <2>3 DEF QueueMail
    <3> QED
      BY <2>3, <3>1, BoxFacts, SlotFacts
  <2> HIDE DEF Bin
  <2> QED
    BY <2>1, <2>2, <2>3, CarrierBoxes
<1>2. PICK b : Bin(c, b)
  BY <1>1
<1>3. PICK e : Bin(d, e)
  BY <1>1
<1>4. b = e
  <2>1. Same(Letter(h, c.pipe, c.req), Letter(h, d.pipe, d.req))
    BY DEF Same, Letter
  <2> QED
    BY <1>2, <1>3, <2>1 DEF Once, Separate
<1>5. ASSUME NEW p \in Pipelines(h), b = <<"todo", <<h, p>>>> PROVE c = d
  <2>1. PICK i \in DOMAIN todo[<<h, p>>] : AtTodo(c, p, i)
    BY <1>2, <1>5
  <2>2. PICK k \in DOMAIN todo[<<h, p>>] : AtTodo(d, p, k)
    BY <1>3, <1>4, <1>5
  <2>3. c.req = todo[<<h, p>>][i] /\ d.req = todo[<<h, p>>][k]
    BY <2>1, <2>2
  <2>4. i = k
    BY <2>3, SlotFacts DEF Once, OneEach
  <2> QED
    BY <2>1, <2>2, <2>4
<1>6. ASSUME b = <<"resp", h>> PROVE c = d
  <2>1. PICK i \in DOMAIN resp[h] : AtResp(c, i)
    BY <1>2, <1>6
  <2>2. PICK k \in DOMAIN resp[h] : AtResp(d, k)
    BY <1>3, <1>4, <1>6
  <2>3. c.req = resp[h][i] /\ d.req = resp[h][k]
    BY <2>1, <2>2
  <2>4. i = k
    BY <2>3 DEF Once, OneEach
  <2> QED
    BY <2>1, <2>2, <2>4
<1>7. ASSUME b = <<"msgQ", NoHost>> PROVE c = d
  <2>1. PICK i \in DOMAIN msgQ : AtQueue(c, i)
    BY <1>2, <1>7
  <2>2. PICK k \in DOMAIN msgQ : AtQueue(d, k)
    BY <1>3, <1>4, <1>7
  <2>3. c.req = msgQ[i] /\ d.req = msgQ[k]
    BY <2>1, <2>2
  <2>4. i = k
    BY <2>1, <2>2, <2>3 DEF Once, OneAnswer
  <2> QED
    BY <2>1, <2>2, <2>4
<1> QED
  BY <1>2, <1>5, <1>6, <1>7

\* No tag is free, routed to nobody or given away a second time while the
\* request that carries it is on its way (TCPIOConnection's m_AppTagQ and
\* m_ClientRespRoutingMap), however connections fail and answers pile up.
THEOREM TagsAreUnique == Spec => []TagsKeptWhileInUse
<1>1. Init => TypeInv /\ JobInv /\ MailInv
  BY TypeInit, JobInit, MailInit
<1>2. TypeInv /\ JobInv /\ MailInv /\ [Next]_vars => (TypeInv /\ JobInv /\ MailInv)'
  BY TypeStep, JobInvStep, MailStep DEF JobInv
<1>3. TypeInv /\ MailInv => TagsKeptWhileInUse
  <2> SUFFICES ASSUME TypeInv, MailInv, NEW h \in Hosts
               PROVE  /\ IsInjective(freeTags[h])
                      /\ TagsInUse(h) \cap Range(freeTags[h]) = {}
                      /\ link[h] # "closed" => TagsInUse(h) \subseteq routed[h]
                      /\ \A c, d \in Carriers(h) : c.req.tag = d.req.tag => c = d
    BY DEF TagsKeptWhileInUse
  <2>1. \A c \in Carriers(h) :
            /\ Letter(h, c.pipe, c.req) \in Mail
            /\ Letter(h, c.pipe, c.req).host = h
            /\ Letter(h, c.pipe, c.req).tag = c.req.tag
    BY CarrierLetters DEF Letter
  <2>2. \A t \in TagsInUse(h) : \E l \in Mail : l.host = h /\ l.tag = t
    BY <2>1 DEF TagsInUse
  <2> QED
    BY <2>2, OneCarrier DEF MailInv, TagInv
<1> QED
  BY <1>1, <1>2, <1>3, PTL DEF Spec

-----------------------------------------------------------------------------
(* The life of a scene and of the connections                              *)

\* Before a scene is accepted there is nothing on its way; while it runs all
\* entries in the queue are for the command; afterwards all is handed out.
StageInv ==
    /\ scene \in {"none", "rejected"} =>
           /\ msgQ = <<>> /\ Mail = {} /\ briefed = {}
           /\ \A h \in Hosts : routed[h] = {}
    /\ scene = "running" => \A i \in DOMAIN msgQ : msgQ[i].cmd
    /\ pc # "idle" => scene = "running"
    /\ scene = "finished" => current = NumPixels

\* The list of hosts has none twice and none that has not registered.
Members ==
    /\ IsInjective(hostWorkers)
    /\ \A h \in Hosts : link[h] = "absent" => h \notin Listed /\ h \notin briefed

\* The letters of a pipeline, and how many it has been given in the kick-off:
\* in every round one, when its turn has come.
Of(s) == {l \in Mail : l.host = s[1] /\ l.pipe = s[2]}

Served(s) ==
    \E i \in DOMAIN hostWorkers :
        hostWorkers[i] = s[1] /\ (i < pos.index \/ (i = pos.index /\ s[2] < pos.pipe))

Given(s) ==
    IF s[1] \notin Listed THEN 0
    ELSE IF Served(s) THEN pos.round ELSE pos.round - 1

\* S has at most n elements, for n up to two.
AtMost(S, n) ==
    /\ n = 0 => S = {}
    /\ n = 1 => \A x, y \in S : x = y
    /\ n = 2 => \A x, y, z \in S : x = y \/ x = z \/ y = z

TwoInv ==
    /\ \A s \in Slots : AtMost(Of(s), 2)
    /\ pc \in {"find", "assign"} => \A s \in Slots : AtMost(Of(s), Given(s))
    /\ pc = "refill" => AtMost(Of(slot), 1)

\* Pixels are only sent by hosts that were sent the scene; a request without
\* work is sent when all pixels have been handed out.
BriefedInv ==
    /\ \A h \in Hosts : \A i \in DOMAIN resp[h] :
           resp[h][i].cnt # 0 => h \in briefed
    /\ \A i \in DOMAIN msgQ :
           AnswerAt(i) /\ msgQ[i].cnt # 0 => msgQ[i].host \in briefed
    /\ \A s \in Slots : shipped[s] => s[1] \in briefed

WorklessInv == \A l \in Mail : l.cnt = 0 => current = NumPixels

\* There is an exception of h in the queue.
Reported(h) == \E i \in DOMAIN msgQ : ExceptionAt(i) /\ msgQ[i].host = h

\* Two tags are routed on the connection of h, or one, and if it is closed
\* then its exception is in the queue.
Kept(h) ==
    IF link[h] = "closed" THEN Reported(h) ELSE \E t, u \in routed[h] : t # u

KeptOne(h) ==
    IF link[h] = "closed" THEN Reported(h) ELSE routed[h] # {}

\* A tag is routed on the connection of h unless it is closed.
Routed(h) == link[h] # "closed" => routed[h] # {}

\* While pixels are left, all hosts that were sent the scene have two tags
\* routed after the kick-off, one less for the host that is being refilled.
KickOffRoutes ==
    \A i \in DOMAIN hostWorkers :
        LET h == hostWorkers[i]
            done == i < pos.index \/ (i = pos.index /\ pos.pipe > 0)
        IN  h \in briefed =>
                IF pos.round = 1 THEN done => Routed(h)
                ELSE IF done THEN Kept(h)
                ELSE IF i = pos.index /\ pc = "assign" THEN KeptOne(h)
                ELSE Routed(h)

RouteInv ==
    /\ scene = "running" /\ pc = "idle" /\ current < NumPixels =>
           \A h \in Listed \cap briefed : Kept(h)
    /\ pc = "refill" =>
           /\ slot[1] \in briefed /\ KeptOne(slot[1])
           /\ \A h \in Listed \cap briefed : h # slot[1] => Kept(h)
    /\ pc \in {"find", "assign"} /\ current < NumPixels => KickOffRoutes

\* How the life of a connection goes on.
LEMMA LinkMoves ==
    ASSUME TypeInv, OrderInv, [Next]_vars, NEW h \in Hosts
    PROVE  \/ link'[h] = link[h]
           \/ link[h] = "absent" /\ RegisterWorker(h)
           \/ link[h] = "up" /\ link'[h] = "crashed" /\ Perish(h)
           \/ link[h] = "crashed" /\ link'[h] = "reported" /\ ReportException(h)
           \/ link[h] = "reported" /\ link'[h] = "noted" /\ NoteFailure(h)
           \/ link[h] = "noted" /\ link'[h] = "closed" /\ CloseConnection(h)
           \/ link[h] = "noted" /\ link'[h] = "closed" /\ AcceptScene
<1> DEFINE moved == \/ link[h] = "absent" /\ RegisterWorker(h)
                    \/ link[h] = "up" /\ link'[h] = "crashed" /\ Perish(h)
                    \/ link[h] = "crashed" /\ link'[h] = "reported" /\ ReportException(h)
                    \/ link[h] = "reported" /\ link'[h] = "noted" /\ NoteFailure(h)
                    \/ link[h] = "noted" /\ link'[h] = "closed" /\ CloseConnection(h)
                    \/ link[h] = "noted" /\ link'[h] = "closed" /\ AcceptScene
           fine == link'[h] = link[h] \/ moved
           same == link' = link
<1>0. link \in [Hosts -> LinkStates]
  BY DEF TypeInv, TypeOK, LinkTypeOK
<1>1. same => fine
  OBVIOUS
<1> USE DEF linkVars
<1>2. ASSUME NEW f, Die(f) PROVE same
  BY <1>2 DEF Die
<1>3. Request => fine
  <2>1. AcceptScene => fine
    BY <1>0 DEF AcceptScene
  <2> QED
    BY <1>1, <1>2, <2>1 DEF Request, RejectScene, AcceptDies
<1>4. Scheduler => fine
  <2>1. ASSUME NEW s, NEW w, SendNextJob(s, w) PROVE same
    BY <2>1 DEF SendNextJob, Assign, SendRequest
  <2>2. KickOffAssign \/ Refill => same
    BY <2>1 DEF KickOffAssign, Refill, Assign, SendRequest
  <2>3. AnswerDies \/ SendDies \/ ExceptionDies => same
    BY <1>2 DEF AnswerDies, SendDies, ExceptionDies
  <2>4. ASSUME HandleDetachedException PROVE fine
    <3> DEFINE g == Head(msgQ).host
    <3>1. /\ msgQ # <<>> /\ Head(msgQ).kind = "exception" /\ g # NoHost
          /\ Close(g, Tail(msgQ))
      BY <2>4 DEF HandleDetachedException
    <3>2. g \in Hosts
      BY <3>1, HeadFacts DEF TypeInv
    <3>3. link[g] = "closed"
      BY <3>1, TailFacts DEF OrderInv, ExceptionAt, TypeInv
    <3>4. link' = [link EXCEPT ![g] = "closed"]
      BY <3>1 DEF Close
    <3> HIDE DEF g
    <3>5. link'[h] = link[h]
      BY <1>0, <3>2, <3>3, <3>4
    <3> QED
      BY <3>5
  <2>5. KickOffFind \/ KickOffNextRound \/ HandleException \/ HandleDetachedAnswer
           => same
    BY DEF KickOffFind, KickOffNextRound, HandleException, HandleDetachedAnswer
  <2>6. AnswerThenRefill \/ AnswerThenRedispatch \/ AnswerThenFinish
           \/ AnswerThenWait => same
    BY DEF AnswerThenRefill, AnswerThenRedispatch, AnswerThenFinish,
           AnswerThenWait, Assign, SendRequest, FreeAppTag
  <2> HIDE DEF fine, same
  <2> QED
    BY <1>1, <2>2, <2>3, <2>4, <2>5, <2>6 DEF Scheduler
<1>5. ASSUME NEW g \in Hosts, CloseConnection(g) PROVE fine
  <2>1. link[g] = "noted" /\ link' = [link EXCEPT ![g] = "closed"]
    BY <1>5 DEF CloseConnection, Close
  <2> QED
    BY <1>0, <1>5, <2>1
<1>6. ASSUME NEW g \in Hosts, Receive(g) \/ Client(g) PROVE same
  BY <1>6 DEF Receive, Client, Deliver
<1>7. ASSUME NEW g \in Hosts, ReportException(g) PROVE fine
  BY <1>0, <1>7 DEF ReportException
<1>8. ASSUME NEW g \in Hosts, NoteFailure(g) PROVE fine
  BY <1>0, <1>8 DEF NoteFailure
<1>9. ASSUME NEW g \in Hosts, RegisterWorker(g) PROVE fine
  BY <1>0, <1>9 DEF RegisterWorker
<1>10. ASSUME NEW g \in Hosts, link[g] = "up", Perish(g) PROVE fine
  BY <1>0, <1>10 DEF Perish
<1>11. ASSUME NEW g \in Hosts, WorkerDies(g) PROVE fine
  BY <1>10, <1>11 DEF WorkerDies, Crash
<1>12. ASSUME NEW s \in Slots, Worker(s) PROVE fine
  <2>1. ShipSegment(s) \/ Respond(s) => same
    BY DEF ShipSegment, Respond
  <2>2. ProduceUnknownScene(s) => fine
    BY <1>10, SlotFacts DEF ProduceUnknownScene
  <2> QED
    BY <1>1, <1>12, <2>1, <2>2 DEF Worker
<1>13. UNCHANGED vars => same
  BY DEF vars
<1> HIDE DEF fine, same
<1>14. fine
  BY <1>1, <1>3, <1>4, <1>5, <1>6, <1>7, <1>8, <1>9, <1>11, <1>12, <1>13
     DEF Next, Connection
<1> QED
  BY <1>14 DEF fine, moved

\* The list of hosts grows by registrations and shrinks by exceptions.
LEMMA ListMoves ==
    ASSUME [Next]_vars
    PROVE  /\ hostWorkers' = hostWorkers \/ HandleException
              \/ \E h \in Hosts : RegisterWorker(h)
           /\ briefed' = briefed \/ AcceptScene
<1> DEFINE same == hostWorkers' = hostWorkers
           told == briefed' = briefed
<1> USE DEF trackerVars, linkVars
<1>1. ASSUME NEW f, Die(f) PROVE same /\ told
  BY <1>1 DEF Die
<1>2. Request => same /\ (told \/ AcceptScene)
  BY <1>1 DEF Request, RejectScene, AcceptScene, AcceptDies
<1>3. KickOffAssign => same /\ told
  BY DEF KickOffAssign, SendNextJob, TrackJob, Assign, SendRequest
<1>4. Refill => same /\ told
  BY DEF Refill, SendNextJob, TrackJob, Assign, SendRequest
<1>5. AnswerDies \/ SendDies \/ ExceptionDies => same /\ told
  BY <1>1 DEF AnswerDies, SendDies, ExceptionDies
<1>6. KickOffFind \/ KickOffNextRound \/ HandleDetachedAnswer
         \/ HandleDetachedException => same /\ told
  BY DEF KickOffFind, KickOffNextRound, HandleDetachedAnswer,
         HandleDetachedException, NotifyHostFailure, Close
<1>7. AnswerThenRefill \/ AnswerThenRedispatch \/ AnswerThenFinish
         \/ AnswerThenWait => same /\ told
  BY DEF AnswerThenRefill, AnswerThenRedispatch, AnswerThenFinish,
         AnswerThenWait, Assign, SendRequest, FreeAppTag, NotifyJobDone
<1>8. HandleException => told
  BY DEF HandleException
<1>9. ASSUME NEW h \in Hosts,
             \/ Receive(h) \/ ReportException(h) \/ NoteFailure(h)
             \/ CloseConnection(h) \/ Client(h) \/ WorkerDies(h)
      PROVE  same /\ told
  BY <1>9 DEF Receive, ReportException, NoteFailure, CloseConnection, Close,
              NotifyHostFailure, Client, Deliver, WorkerDies, Crash, Perish
<1>10. ASSUME NEW h \in Hosts, RegisterWorker(h) PROVE told
  BY <1>10 DEF RegisterWorker
<1>11. ASSUME NEW s \in Slots, Worker(s) PROVE same /\ told
  BY <1>11 DEF Worker, ShipSegment, Respond, ProduceUnknownScene, Perish
<1>12. UNCHANGED vars => same /\ told
  BY DEF vars
<1> HIDE DEF same, told
<1>13. /\ same \/ HandleException \/ \E h \in Hosts : RegisterWorker(h)
       /\ told \/ AcceptScene
  BY <1>2, <1>3, <1>4, <1>5, <1>6, <1>7, <1>8, <1>9, <1>10, <1>11, <1>12
     DEF Next, Connection, Scheduler
<1> QED
  BY <1>13 DEF same, told

\* How the scheduler's thread moves.
LEMMA PlaceMoves ==
    ASSUME [Next]_vars
    PROVE  \/ /\ UNCHANGED <<scene, pc, pos, slot, current>>
              /\ \/ Idles \/ Outside \/ AnswerThenWait \/ HandleDetachedAnswer
                 \/ AnswerThenRedispatch
           \/ RejectScene \/ AcceptScene \/ KickOffFind \/ KickOffNextRound
           \/ KickOffAssign \/ Refill \/ AnswerThenRefill \/ AnswerThenFinish
<1> DEFINE same == UNCHANGED <<scene, pc, pos, slot, current>>
<1> USE DEF placeVars, sceneVars, jobVars
<1>1. ASSUME NEW f, Die(f) PROVE same
  BY <1>1 DEF Die
<1>2. CASE Request
  BY <1>1, <1>2 DEF Request, AcceptDies, Idles
<1>3. CASE Scheduler
  <2>1. AnswerDies \/ SendDies \/ ExceptionDies => same
    BY <1>1 DEF AnswerDies, SendDies, ExceptionDies
  <2>2. HandleException \/ HandleDetachedAnswer \/ HandleDetachedException => same
    BY DEF HandleException, HandleDetachedAnswer, HandleDetachedException
  <2>3. AnswerThenWait \/ AnswerThenRedispatch => same
    BY DEF AnswerThenWait, AnswerThenRedispatch
  <2> HIDE DEF same
  <2>4. \/ same /\ (Idles \/ AnswerThenWait \/ HandleDetachedAnswer
                    \/ AnswerThenRedispatch)
        \/ KickOffFind \/ KickOffNextRound \/ KickOffAssign \/ Refill
        \/ AnswerThenRefill \/ AnswerThenFinish
    BY <1>3, <2>1, <2>2, <2>3 DEF Scheduler, Idles
  <2> QED
    BY <2>4 DEF same
<1>4. ASSUME NEW h \in Hosts,
             Connection(h) \/ RegisterWorker(h) \/ Client(h) \/ WorkerDies(h)
      PROVE  same /\ Outside
  BY <1>4 DEF Connection, RegisterWorker, Receive, ReportException, Outside,
              NoteFailure, CloseConnection, Client, WorkerDies
<1>5. ASSUME NEW s \in Slots, Worker(s) PROVE same /\ Outside
  BY <1>5 DEF Worker, Outside
<1>6. UNCHANGED vars => same /\ Idles
  BY DEF vars, Idles
<1> QED
  BY <1>2, <1>3, <1>4, <1>5, <1>6 DEF Next

\* How the scheduler's queue changes.
LEMMA QueueUse ==
    ASSUME [Next]_vars
    PROVE  \/ msgQ' = msgQ
           \/ /\ msgQ # <<>> /\ pc = "idle" /\ msgQ' = Tail(msgQ)
              /\ Head(msgQ).kind = "answer" \/ HandleException
           \/ HandleDetachedException \/ AcceptScene
           \/ \E h \in Hosts : Receive(h) \/ CloseConnection(h)
<1>1. ASSUME NEW f, Die(f) PROVE msgQ' = msgQ
  BY <1>1 DEF Die
<1>2. CASE Request
  BY <1>1, <1>2 DEF Request, RejectScene, AcceptDies
<1>3. CASE Scheduler
  <2>1. KickOffFind \/ KickOffNextRound \/ KickOffAssign \/ Refill => msgQ' = msgQ
    BY DEF KickOffFind, KickOffNextRound, KickOffAssign, Refill
  <2>2. AnswerDies \/ SendDies \/ ExceptionDies => msgQ' = msgQ
    BY <1>1 DEF AnswerDies, SendDies, ExceptionDies
  <2>3. AnswerThenRefill \/ AnswerThenRedispatch \/ AnswerThenFinish
           \/ AnswerThenWait \/ HandleException \/ HandleDetachedAnswer
           => /\ msgQ # <<>> /\ pc = "idle" /\ msgQ' = Tail(msgQ)
              /\ Head(msgQ).kind = "answer" \/ HandleException
    BY DEF AnswerThenRefill, AnswerThenRedispatch, AnswerThenFinish,
           AnswerThenWait, HandleException, HandleDetachedAnswer, Handle
  <2> QED
    BY <1>3, <2>1, <2>2, <2>3 DEF Scheduler
<1>4. ASSUME NEW h \in Hosts,
             \/ ReportException(h) \/ NoteFailure(h) \/ RegisterWorker(h)
             \/ Client(h) \/ WorkerDies(h)
      PROVE  msgQ' = msgQ
  BY <1>4 DEF ReportException, NoteFailure, RegisterWorker, Client, WorkerDies
<1>5. ASSUME NEW s \in Slots, Worker(s) PROVE msgQ' = msgQ
  BY <1>5 DEF Worker
<1>6. UNCHANGED vars => msgQ' = msgQ
  BY DEF vars
<1> QED
  BY <1>2, <1>3, <1>4, <1>5, <1>6 DEF Next, Connection

\* What a closed connection leaves in the queue.
LEMMA ClosingQueue ==
    ASSUME TypeInv, NEW h \in Hosts, CloseConnection(h)
    PROVE  /\ \A i \in DOMAIN msgQ : i \in DOMAIN msgQ' /\ msgQ'[i] = msgQ[i]
           /\ \A i \in DOMAIN msgQ' :
                  \/ i \in DOMAIN msgQ /\ msgQ'[i] = msgQ[i]
                  \/ msgQ'[i] = [kind |-> "exception", cmd |-> Attached, host |-> h]
           /\ routed[h] = {} => msgQ' = msgQ
           /\ routed[h] # {} => \E i \in DOMAIN msgQ' :
                  msgQ'[i] = [kind |-> "exception", cmd |-> Attached, host |-> h]
           /\ \A g \in Hosts : g # h => routed'[g] = routed[g]
           /\ scene' = scene
<1> DEFINE e == [kind |-> "exception", cmd |-> Attached, host |-> h]
<1>1. /\ Close(h, msgQ) /\ Connected(h) /\ TypeOK /\ scene' = scene
      /\ msgQ \in Seq(Answers \cup Exceptions)
  BY DEF CloseConnection, Connected, TypeInv, TypeOK, sceneVars
<1>2. /\ msgQ' \in Seq(Answers \cup Exceptions)
      /\ Len(msgQ') = Len(msgQ) <=> routed[h] = {}
      /\ Grown(msgQ', msgQ, e)
  BY <1>1, CloseFacts
<1>9. Len(msgQ') >= Len(msgQ)
  BY <1>1, CloseFacts
<1> HIDE DEF e
<1>3. /\ DOMAIN msgQ = 1 .. Len(msgQ) /\ Len(msgQ) \in Nat
      /\ DOMAIN msgQ' = 1 .. Len(msgQ') /\ Len(msgQ') \in Nat
  BY <1>1, <1>2, LenProperties
<1>4. \A i \in DOMAIN msgQ' :
          IF i <= Len(msgQ) THEN i \in DOMAIN msgQ /\ msgQ'[i] = msgQ[i] ELSE msgQ'[i] = e
  BY <1>2 DEF Grown
<1>5. \A i \in DOMAIN msgQ : i \in DOMAIN msgQ' /\ msgQ'[i] = msgQ[i]
  <2> SUFFICES ASSUME NEW i \in DOMAIN msgQ
               PROVE  i \in DOMAIN msgQ' /\ msgQ'[i] = msgQ[i]
    OBVIOUS
  <2>1. i \in DOMAIN msgQ' /\ i <= Len(msgQ)
    BY <1>3, <1>9
  <2> QED
    BY <1>4, <2>1
<1>6. routed[h] = {} => msgQ' = msgQ
  <2> SUFFICES ASSUME routed[h] = {} PROVE msgQ' = msgQ
    OBVIOUS
  <2>1. Len(msgQ') = Len(msgQ) /\ \A i \in 1 .. Len(msgQ) : msgQ'[i] = msgQ[i]
    BY <1>2, <1>3, <1>5
  <2> QED
    BY <1>1, <1>2, <2>1, SeqEqual
<1>7. routed[h] # {} => \E i \in DOMAIN msgQ' : msgQ'[i] = e
  <2> SUFFICES ASSUME routed[h] # {} PROVE \E i \in DOMAIN msgQ' : msgQ'[i] = e
    OBVIOUS
  <2>1. Len(msgQ') # Len(msgQ)
    BY <1>2
  <2>3. \A m, n \in Nat : m >= n /\ m # n => m \in 1 .. m /\ ~(m <= n)
    OBVIOUS
  <2>2. Len(msgQ') \in DOMAIN msgQ' /\ ~(Len(msgQ') <= Len(msgQ))
    BY <1>3, <1>9, <2>1, <2>3
  <2> QED
    BY <1>4, <2>2
<1>8. \A g \in Hosts : g # h => routed'[g] = routed[g]
  BY <1>1 DEF Close, TypeOK, LinkTypeOK
<1> QED
  BY <1>1, <1>4, <1>5, <1>6, <1>7, <1>8 DEF e

\* What the answer that a connection delivers leaves there.
LEMMA ReceivedQueue ==
    ASSUME TypeInv, NEW h \in Hosts, Receive(h)
    PROVE  /\ \A i \in DOMAIN msgQ : i \in DOMAIN msgQ' /\ msgQ'[i] = msgQ[i]
           /\ \A i \in DOMAIN msgQ' :
                  \/ i \in DOMAIN msgQ /\ msgQ'[i] = msgQ[i]
                  \/ /\ msgQ'[i].kind = "answer"
                     /\ msgQ'[i].cmd = Attached
                     /\ msgQ'[i].host = h
<1> DEFINE m == [kind |-> "answer", cmd |-> Attached, host |-> h,
                 pipe |-> Head(resp[h]).pipe, tag |-> Head(resp[h]).tag,
                 off |-> Head(resp[h]).off, cnt |-> Head(resp[h]).cnt]
<1>1. msgQ' = msgQ \/ msgQ' = Append(msgQ, m)
  BY DEF Receive
<1>2. m.kind = "answer" /\ m.cmd = Attached /\ m.host = h
  OBVIOUS
<1>3. msgQ \in Seq(Answers \cup Exceptions)
  BY DEF TypeInv, TypeOK
<1> HIDE DEF m
<1>4. \A i \in DOMAIN Append(msgQ, m) :
          (i \in DOMAIN msgQ /\ Append(msgQ, m)[i] = msgQ[i]) \/ Append(msgQ, m)[i] = m
  BY <1>3
<1>5. \A i \in DOMAIN msgQ :
          i \in DOMAIN Append(msgQ, m) /\ Append(msgQ, m)[i] = msgQ[i]
  BY <1>3
<1> QED
  BY <1>1, <1>2, <1>4, <1>5

\* What a scene that is accepted finds in the queue, and leaves there.
LEMMA AcceptQueue ==
    ASSUME TypeInv, AcceptScene, msgQ = <<>>
    PROVE  \A i \in DOMAIN msgQ' :
               msgQ'[i] = [kind |-> "exception", cmd |-> TRUE, host |-> NoHost]
<1> DEFINE e == [kind |-> "exception", cmd |-> TRUE, host |-> NoHost]
<1>1. PICK late \in SUBSET Hosts : msgQ' = msgQ \o Times(e, Cardinality(late))
  <2>1. Listed \subseteq Hosts
    BY DEF TypeInv, TypeOK, TrackerTypeOK, Listed, Range
  <2> QED
    BY <2>1 DEF AcceptScene, Times
<1>2. Cardinality(late) \in Nat
  BY FS_Subset, FS_CardinalityType, LinkAssumption
<1>3. e \in Exceptions
  BY DEF Exceptions
<1> HIDE DEF e
<1>4. Grown(msgQ', msgQ, e)
  BY <1>1, <1>2, <1>3, RepeatedEntries DEF TypeInv, TypeOK
<1>5. \A i \in DOMAIN msgQ' : msgQ'[i] = e
  BY <1>4 DEF Grown
<1> QED
  BY <1>5 DEF e

LEMMA StageInit == Init => StageInv
BY NoMailAtFirst DEF Init, LinkInit, StageInv

\* The steps that move the command or the scheduler's thread, by where they
\* begin and where they lead.
LEMMA StageMoves ==
    ASSUME TypeInv, StageInv, [Next]_vars
    PROVE  \/ /\ UNCHANGED <<scene, pc, current>>
              /\ \/ Idles \/ Outside
                 \/ msgQ # <<>> /\ pc = "idle"
           \/ scene = "none" /\ pc = "idle" /\ scene' = "rejected" /\ pc' = "idle"
              /\ current' = current /\ Idles
           \/ AcceptScene /\ scene = "none" /\ scene' = "running"
           \/ pc # "idle" /\ scene = "running" /\ scene' = "running"
           \/ scene = "running" /\ scene' = "running" /\ AnswerThenRefill
              /\ current' = current
           \/ msgQ # <<>> /\ pc = "idle" /\ pc' = "idle" /\ scene' = "finished"
              /\ current' = NumPixels
<1> USE DEF sceneVars, placeVars
<1>1. ASSUME KickOffFind \/ KickOffNextRound \/ KickOffAssign \/ Refill
      PROVE  pc # "idle" /\ scene = "running" /\ scene' = "running"
  BY <1>1 DEF KickOffFind, KickOffNextRound, KickOffAssign, Refill, StageInv
<1>2. ASSUME RejectScene
      PROVE  scene = "none" /\ pc = "idle" /\ scene' = "rejected" /\ pc' = "idle"
             /\ current' = current /\ Idles
  BY <1>2 DEF RejectScene, jobVars, Idles, Request
<1>3. ASSUME AcceptScene
      PROVE  scene = "none" /\ scene' = "running"
  BY <1>3 DEF AcceptScene
<1>4. ASSUME AnswerThenRefill
      PROVE  scene = "running" /\ scene' = "running" /\ current' = current
  BY <1>4 DEF AnswerThenRefill, Handle, AllHandedOut, StageInv, TypeInv, TypeOK
<1>5. ASSUME AnswerThenFinish
      PROVE  msgQ # <<>> /\ pc = "idle" /\ pc' = "idle" /\ scene' = "finished"
             /\ current' = NumPixels
  BY <1>5 DEF AnswerThenFinish, Handle, AllHandedOut
<1>6. AnswerThenWait \/ HandleDetachedAnswer \/ AnswerThenRedispatch
         => msgQ # <<>> /\ pc = "idle"
  BY DEF AnswerThenWait, HandleDetachedAnswer, AnswerThenRedispatch, Handle
<1> QED
  BY <1>1, <1>2, <1>3, <1>4, <1>5, <1>6, PlaceMoves

LEMMA StageStep ==
    ASSUME TypeInv, MailInv, StageInv, [Next]_vars
    PROVE  StageInv'
<1>1. ASSUME scene' \in {"none", "rejected"}
      PROVE  /\ msgQ' = <<>> /\ Mail' = {} /\ briefed' = {}
             /\ \A h \in Hosts : routed'[h] = {}
  <2>1. scene \in {"none", "rejected"}
    BY <1>1, StageMoves
  <2>2. /\ msgQ = <<>> /\ Mail = {} /\ briefed = {}
        /\ \A h \in Hosts : routed[h] = {}
    BY <2>1 DEF StageInv
  <2>3. Idles \/ Outside
    BY <1>1, <2>1, <2>2, StageMoves
  <2>4. Quiet
    BY <2>3, IdleMail, OutsideMail DEF MailInv
  <2>5. Mail' = {} /\ \A h \in Hosts : routed'[h] = {}
    BY <2>2, <2>4 DEF Quiet
  <2>6. ASSUME NEW h \in Hosts, Receive(h) PROVE FALSE
    <3>1. resp[h] # <<>> /\ resp[h] \in Seq(Responses)
      BY <2>6 DEF Receive, TypeInv, TypeOK, LinkTypeOK
    <3>2. 1 \in DOMAIN resp[h]
      BY <3>1, SeqTail
    <3>3. RespMail(h) # {}
      BY <3>2 DEF RespMail
    <3> QED
      BY <2>2, <3>3, BoxFacts DEF Mail
  <2>7. ASSUME NEW h \in Hosts, CloseConnection(h) PROVE msgQ' = msgQ
    BY <2>2, <2>7, ClosingQueue
  <2>8. ~HandleDetachedException /\ ~AcceptScene
    BY <1>1, <2>2 DEF HandleDetachedException, AcceptScene
  <2>9. msgQ' = <<>>
    BY <2>2, <2>6, <2>7, <2>8, QueueUse
  <2>10. briefed' = {}
    BY <2>2, <2>8, ListMoves
  <2> QED
    BY <2>5, <2>9, <2>10
<1>2. ASSUME scene' = "running" PROVE \A i \in DOMAIN msgQ' : msgQ'[i].cmd
  <2>1. CASE scene = "running"
    <3>1. \A i \in DOMAIN msgQ : msgQ[i].cmd
      BY <2>1 DEF StageInv
    <3>2. CASE msgQ' = msgQ
      BY <3>1, <3>2
    <3>3. CASE msgQ # <<>> /\ msgQ' = Tail(msgQ)
      BY <3>1, <3>3, TailFacts DEF TypeInv
    <3>4. ~HandleDetachedException
      BY <3>1, TailFacts DEF HandleDetachedException, TypeInv
    <3>5. ~AcceptScene
      BY <2>1 DEF AcceptScene
    <3>6. ASSUME NEW h \in Hosts, CloseConnection(h)
          PROVE  \A i \in DOMAIN msgQ' : msgQ'[i].cmd
      <4>1. Attached
        BY <2>1 DEF Attached
      <4> QED
        BY <3>1, <3>6, <4>1, ClosingQueue
    <3>7. ASSUME NEW h \in Hosts, Receive(h)
          PROVE  \A i \in DOMAIN msgQ' : msgQ'[i].cmd
      <4>1. Attached
        BY <2>1 DEF Attached
      <4> QED
        BY <3>1, <3>7, <4>1, ReceivedQueue
    <3> QED
      BY <3>2, <3>3, <3>4, <3>5, <3>6, <3>7, QueueUse
  <2>2. CASE scene # "running"
    <3>1. AcceptScene /\ msgQ = <<>>
      BY <1>2, <2>2, StageMoves DEF StageInv
    <3> QED
      BY <3>1, AcceptQueue
  <2> QED
    BY <2>1, <2>2
<1>3. pc' # "idle" => scene' = "running"
  BY StageMoves DEF StageInv
<1>4. scene' = "finished" => current' = NumPixels
  BY StageMoves DEF StageInv
<1> QED
  BY <1>1, <1>2, <1>3, <1>4 DEF StageInv

-----------------------------------------------------------------------------
(* The list of hosts                                                       *)

\* The host of an exception leaves the list.
LEMMA DropHost ==
    ASSUME TypeInv, Members, HandleException, NEW h, h = Head(msgQ).host
    PROVE  /\ h \in Hosts
           /\ Listed' = Listed \ {h}
           /\ IsInjective(hostWorkers')
           /\ msgQ # <<>> /\ Head(msgQ).kind = "exception" /\ pc = "idle"
           /\ link' = link
<1>1. /\ msgQ # <<>> /\ Head(msgQ).kind = "exception" /\ h # NoHost
      /\ pc = "idle" /\ RemoveFailedJobs(h)
  BY DEF HandleException, Handle
<1>2. h \in Hosts
  BY <1>1, HeadFacts DEF TypeInv
<1>3. link' = link
  BY DEF HandleException, linkVars
<1>4. CASE h \in Listed
  <2>1. hostWorkers \in Seq(Hosts) /\ IsInjective(hostWorkers)
    BY DEF Members, TypeInv, TypeOK, TrackerTypeOK
  <2> DEFINE i == CHOOSE n \in DOMAIN hostWorkers : hostWorkers[n] = h
  <2>2. \E n \in DOMAIN hostWorkers : hostWorkers[n] = h
    BY <1>4 DEF Listed, Range
  <2>3. i \in DOMAIN hostWorkers /\ hostWorkers[i] = h
    BY <2>2
  <2>4. hostWorkers' = RemoveAt(hostWorkers, i)
    BY <1>1, <1>4 DEF RemoveFailedJobs, RemoveHost
  <2> HIDE DEF i
  <2>5. /\ IsInjective(RemoveAt(hostWorkers, i))
        /\ Range(RemoveAt(hostWorkers, i)) = Range(hostWorkers) \ {h}
    BY <2>1, <2>3, RemoveOnce
  <2> QED
    BY <1>1, <1>2, <1>3, <2>4, <2>5 DEF Listed
<1>5. CASE h \notin Listed
  <2>1. hostWorkers' = hostWorkers
    BY <1>1, <1>5 DEF RemoveFailedJobs, trackerVars
  <2> QED
    BY <1>1, <1>2, <1>3, <1>5, <2>1 DEF Listed, Members
<1> QED
  BY <1>4, <1>5

\* A host that registers is put on the list.
LEMMA AddHost ==
    ASSUME TypeInv, Members, NEW h \in Hosts, RegisterWorker(h)
    PROVE  /\ Listed' = Listed \cup {h}
           /\ IsInjective(hostWorkers')
           /\ hostWorkers' = Append(hostWorkers, h)
           /\ h \notin Listed /\ h \notin briefed
           /\ link[h] = "absent" /\ link' = [link EXCEPT ![h] = "up"]
           /\ link'[h] = "up"
<1>1. /\ link[h] = "absent" /\ link' = [link EXCEPT ![h] = "up"]
      /\ hostWorkers' = Append(hostWorkers, h)
  BY DEF RegisterWorker, AddWorker
<1>2. h \notin Listed /\ h \notin briefed /\ IsInjective(hostWorkers)
  BY <1>1 DEF Members
<1>3. hostWorkers \in Seq(Hosts) /\ link \in [Hosts -> LinkStates]
  BY DEF TypeInv, TypeOK, TrackerTypeOK, LinkTypeOK
<1>4. link'[h] = "up"
  BY <1>1, <1>3
<1> DEFINE q == Append(hostWorkers, h)
<1>5. /\ Len(hostWorkers) \in Nat /\ DOMAIN hostWorkers = 1 .. Len(hostWorkers)
      /\ DOMAIN q = 1 .. Len(hostWorkers) + 1
      /\ \A i \in 1 .. Len(hostWorkers) : q[i] = hostWorkers[i]
      /\ q[Len(hostWorkers) + 1] = h
  BY <1>3
<1> HIDE DEF q
<1>6. \A i \in DOMAIN hostWorkers : hostWorkers[i] # h
  BY <1>2 DEF Listed, Range
<1>7. \A i, k \in DOMAIN q : q[i] = q[k] => i = k
  BY <1>2, <1>5, <1>6 DEF IsInjective
<1>8. \A x : (\E i \in DOMAIN q : q[i] = x)
                 <=> (\E i \in DOMAIN hostWorkers : hostWorkers[i] = x) \/ x = h
  BY <1>5
<1>9. Range(q) = Range(hostWorkers) \cup {h}
  BY <1>8 DEF Range
<1> QED
  BY <1>1, <1>2, <1>4, <1>7, <1>9 DEF q, Listed, IsInjective

LEMMA MembersInit == Init => Members
BY DEF Init, LinkInit, TrackerInit, Members, Listed, Range, IsInjective

LEMMA MembersStep ==
    ASSUME TypeInv, OrderInv, Members, [Next]_vars
    PROVE  Members'
<1>1. \/ hostWorkers' = hostWorkers
      \/ HandleException
      \/ \E h \in Hosts : RegisterWorker(h)
  BY ListMoves
<1>2. IsInjective(hostWorkers')
  BY <1>1, DropHost, AddHost DEF Members
<1>3. ASSUME NEW g \in Hosts, link'[g] = "absent"
      PROVE  g \notin Listed' /\ g \notin briefed'
  <2>1. link[g] = "absent"
    BY <1>3, LinkMoves, AddHost
  <2>2. ~RegisterWorker(g)
    BY <1>3, AddHost
  <2>3. g \notin Listed /\ g \notin briefed
    BY <2>1 DEF Members
  <2>4. g \notin Listed'
    BY <1>1, <2>2, <2>3, DropHost, AddHost DEF Listed
  <2>5. AcceptScene => briefed' = Listed
    BY DEF AcceptScene
  <2> QED
    BY <2>3, <2>4, <2>5, ListMoves
<1> QED
  BY <1>2, <1>3 DEF Members

-----------------------------------------------------------------------------
(* Two requests per pipeline                                               *)

LEMMA AtMostMore ==
    ASSUME NEW S, NEW T, T \subseteq S, NEW n \in 0 .. 2, NEW m \in 0 .. 2,
           n <= m, AtMost(S, n)
    PROVE  AtMost(T, m)
<1>1. CASE n = 0
  BY <1>1 DEF AtMost
<1>2. CASE n = 1
  BY <1>2 DEF AtMost
<1>3. CASE n = 2
  BY <1>3 DEF AtMost
<1> QED
  BY <1>1, <1>2, <1>3

LEMMA AtMostAdd ==
    ASSUME NEW S, NEW x, NEW T, T \subseteq S \cup {x}, NEW n \in 0 .. 1,
           AtMost(S, n)
    PROVE  AtMost(T, n + 1)
<1>1. CASE n = 0
  BY <1>1 DEF AtMost
<1>2. CASE n = 1
  BY <1>2 DEF AtMost
<1> QED
  BY <1>1, <1>2

LEMMA AtMostTake ==
    ASSUME NEW S, NEW x \in S, NEW T, T \subseteq S \ {x}, AtMost(S, 2)
    PROVE  AtMost(T, 1)
BY DEF AtMost

\* What the kick-off has given is a number of requests.
LEMMA GivenType ==
    ASSUME TypeInv, NEW s
    PROVE  Given(s) \in 0 .. 2
<1>1. pos.round \in 1 .. 2
  BY DEF TypeInv, TypeOK
<1> QED
  BY <1>1 DEF Given

\* The kick-off goes on to the next host or the next round: nothing that has
\* been given counts less.
LEMMA GivenFind ==
    ASSUME TypeInv, KickOffFind \/ KickOffNextRound, pc' \in {"find", "assign"},
           NEW s \in Slots
    PROVE  Given(s) <= Given(s)'
<1>1. /\ hostWorkers' = hostWorkers /\ Listed' = Listed
      /\ pos.round \in 1 .. 2 /\ pos.index \in Nat /\ pos.pipe \in Nat
      /\ hostWorkers \in Seq(Hosts)
      /\ pos = [round |-> pos.round, index |-> pos.index, pipe |-> pos.pipe]
  BY DEF KickOffFind, KickOffNextRound, trackerVars, TypeInv, TypeOK,
         TrackerTypeOK, Listed
<1>2. DOMAIN hostWorkers = 1 .. Len(hostWorkers) /\ Len(hostWorkers) \in Nat
  BY <1>1, LenProperties
<1>3. CASE pos' = pos
  <2>1. Given(s)' = Given(s)
    BY <1>1, <1>3 DEF Given, Served
  <2> QED
    BY <2>1, GivenType
<1>4. CASE KickOffFind /\ pos' # pos
  <2>1. /\ pos' = [pos EXCEPT !.index = @ + 1]
        /\ pos.pipe = 0
    BY <1>4 DEF KickOffFind, TypeInv, Places
  <2>2. /\ pos'.round = pos.round /\ pos'.index = pos.index + 1
        /\ pos'.pipe = 0
    BY <1>1, <2>1
  <2>3. s[2] \in Nat
    BY SlotFacts
  <2>4. Served(s) => Served(s)'
    BY <1>1, <1>2, <2>1, <2>2, <2>3 DEF Served
  <2> QED
    BY <1>1, <2>2, <2>4 DEF Given
<1>5. CASE KickOffNextRound
  <2>1. /\ pos.round = 1 /\ pos' = [Start EXCEPT !.round = pos.round + 1]
    BY <1>1, <1>5 DEF KickOffNextRound, Rounds
  <2>2. pos'.round = 2
    BY <2>1 DEF Start
  <2> QED
    BY <1>1, <2>1, <2>2 DEF Given
<1> QED
  BY <1>3, <1>4, <1>5

\* A host that registers meanwhile has been given nothing.
LEMMA GivenStays ==
    ASSUME TypeInv, Members, [Next]_vars, pos' = pos, pc # "idle",
           NEW s \in Slots
    PROVE  Given(s) <= Given(s)'
<1>1. CASE hostWorkers' = hostWorkers
  <2>1. Given(s)' = Given(s)
    BY <1>1 DEF Given, Served, Listed
  <2> QED
    BY <2>1, GivenType
<1>2. ASSUME NEW h \in Hosts, RegisterWorker(h)
      PROVE  Given(s) <= Given(s)'
  <2>1. Listed' = Listed \cup {h} /\ hostWorkers' = Append(hostWorkers, h)
    BY <1>2, AddHost
  <2>2. \A i \in DOMAIN hostWorkers :
            i \in DOMAIN hostWorkers' /\ hostWorkers'[i] = hostWorkers[i]
    BY <2>1 DEF TypeInv, TypeOK, TrackerTypeOK
  <2>3. Served(s) => Served(s)'
    BY <2>2 DEF Served
  <2>4. pos.round \in 1 .. 2
    BY DEF TypeInv, TypeOK
  <2> QED
    BY <2>1, <2>3, <2>4 DEF Given
<1>3. ~HandleException
  BY DEF HandleException, Handle
<1> QED
  BY <1>1, <1>2, <1>3, ListMoves

\* The pipeline that is sent a request has not been served in this round.
LEMMA GivenAssign ==
    ASSUME TypeInv, Members, KickOffAssign,
           NEW s, s = <<hostWorkers[pos.index], pos.pipe>>
    PROVE  /\ Given(s) \in 0 .. 1 /\ Given(s)' = Given(s) + 1
           /\ \A g \in Slots : g # s => Given(g) <= Given(g)'
<1>1. /\ pc = "assign" /\ hostWorkers' = hostWorkers /\ s \in Slots
  BY KickOffSends
<1>2. /\ pos.round \in 1 .. 2 /\ pos.index \in Nat /\ pos.pipe \in Nat
      /\ pos = [round |-> pos.round, index |-> pos.index, pipe |-> pos.pipe]
      /\ pos.index \in DOMAIN hostWorkers
      /\ hostWorkers \in Seq(Hosts)
  BY <1>1 DEF TypeInv, TypeOK, TrackerTypeOK, Places
<1>3. DOMAIN hostWorkers = 1 .. Len(hostWorkers) /\ Len(hostWorkers) \in Nat
  BY <1>2, LenProperties
<1>4. /\ s[1] = hostWorkers[pos.index] /\ s[2] = pos.pipe
      /\ s[1] \in Listed /\ Listed' = Listed
  BY <1>1, <1>2 DEF Listed, Range
<1>5. ~Served(s)
  BY <1>2, <1>3, <1>4 DEF Served, Members, IsInjective
<1>6. /\ pos'.round = pos.round
      /\ \/ pos'.index = pos.index /\ pos'.pipe = pos.pipe + 1
         \/ pos'.index = pos.index + 1 /\ pos'.pipe = 0
            /\ pos.pipe + 1 >= NumPipelines[s[1]]
  BY <1>2, <1>4 DEF KickOffAssign
<1>7. Served(s)'
  BY <1>1, <1>2, <1>3, <1>4, <1>6 DEF Served
<1>8. ASSUME NEW g \in Slots PROVE Served(g) => Served(g)'
  <2>1. g[2] \in Nat
    BY SlotFacts
  <2> QED
    BY <1>1, <1>2, <1>3, <1>6, <2>1 DEF Served
<1>9. Given(s) = pos.round - 1 /\ Given(s)' = pos.round
  BY <1>4, <1>5, <1>6, <1>7 DEF Given
<1>10. ASSUME NEW g \in Slots PROVE Given(g) <= Given(g)'
  BY <1>2, <1>4, <1>6, <1>8 DEF Given
<1> QED
  BY <1>2, <1>9, <1>10

LEMMA TwoInit == Init => TwoInv
BY NoMailAtFirst DEF TwoInv, Of, AtMost, Init

\* Without a new letter no pipeline has more than before.
LEMMA TwoFewer ==
    ASSUME TypeInv, TwoInv, Mail' \subseteq Mail, NEW s \in Slots
    PROVE  /\ Of(s)' \subseteq Of(s) /\ AtMost(Of(s)', 2)
           /\ \A n \in 0 .. 2 : pc \in {"find", "assign"} /\ Given(s) <= n
                  => AtMost(Of(s)', n)
<1>1. Of(s)' \subseteq Of(s) /\ AtMost(Of(s), 2)
  BY DEF Of, TwoInv
<1>2. AtMost(Of(s)', 2)
  BY <1>1, AtMostMore
<1>3. ASSUME NEW n \in 0 .. 2, pc \in {"find", "assign"}, Given(s) <= n
      PROVE  AtMost(Of(s)', n)
  <2>1. AtMost(Of(s), Given(s)) /\ Given(s) \in 0 .. 2
    BY <1>3, GivenType DEF TwoInv
  <2> QED
    BY <1>1, <1>3, <2>1, AtMostMore
<1> QED
  BY <1>1, <1>2, <1>3

\* A pipeline that is sent a request has one more, the others have not.
LEMMA TwoMore ==
    ASSUME TypeInv, NEW s \in Slots, NEW off \in Nat, NEW cnt \in Nat,
           Mail' \subseteq Mail \cup {NewLetter(s, off, cnt)}
    PROVE  /\ Of(s)' \subseteq Of(s) \cup {NewLetter(s, off, cnt)}
           /\ \A g \in Slots : g # s => Of(g)' \subseteq Of(g)
<1> DEFINE x == NewLetter(s, off, cnt)
<1>1. x.host = s[1] /\ x.pipe = s[2]
  BY DEF NewLetter
<1> HIDE DEF x
<1>2. Mail' \subseteq Mail \cup {x}
  BY DEF x
<1>3. Of(s)' \subseteq Of(s) \cup {x}
  BY <1>2 DEF Of
<1>4. ASSUME NEW g \in Slots, g # s PROVE Of(g)' \subseteq Of(g)
  <2>1. g = <<g[1], g[2]>> /\ s = <<s[1], s[2]>>
    BY SlotFacts
  <2>2. ~(x.host = g[1] /\ x.pipe = g[2])
    BY <1>1, <1>4, <2>1
  <2> QED
    BY <1>2, <2>2 DEF Of
<1> QED
  BY <1>3, <1>4 DEF x

LEMMA TwoStep ==
    ASSUME TypeInv, Apart(AllJobs, current), MailInv, StageInv, Members, TwoInv,
           [Next]_vars
    PROVE  TwoInv'
<1> DEFINE place == UNCHANGED <<scene, pc, pos, slot, current>>
<1> USE DEF MailInv
<1>1. CASE place /\ (Idles \/ Outside)
  <2>1. Mail' \subseteq Mail
    BY <1>1, IdleMail, OutsideMail DEF Quiet
  <2>2. \A s \in Slots : Of(s)' \subseteq Of(s) /\ AtMost(Of(s)', 2)
    BY <2>1, TwoFewer
  <2>3. ASSUME pc' \in {"find", "assign"}, NEW s \in Slots
        PROVE  AtMost(Of(s)', Given(s)')
    <3>1. pc \in {"find", "assign"} /\ pos' = pos
      BY <1>1, <2>3
    <3>2. Given(s) <= Given(s)' /\ Given(s)' \in 0 .. 2
      <4>1. TypeInv'
        BY TypeStep
      <4>2. \A g : Given(g)' \in 0 .. 2
        <5>1. pos'.round \in 1 .. 2
          BY <4>1 DEF TypeInv, TypeOK
        <5> QED
          BY <5>1 DEF Given
      <4> QED
        BY <3>1, <4>2, GivenStays
    <3> QED
      BY <2>1, <3>1, <3>2, TwoFewer
  <2>4. ASSUME pc' = "refill" PROVE AtMost(Of(slot)', 1)
    <3>1. /\ pc = "refill" /\ slot' = slot /\ slot \in Slots
          /\ AtMost(Of(slot), 1)
      BY <1>1, <2>4 DEF TypeInv, Places, TwoInv
    <3>2. Of(slot)' \subseteq Of(slot)
      BY <2>1, <3>1 DEF Of
    <3> QED
      BY <3>1, <3>2, AtMostMore
  <2> QED
    BY <2>2, <2>3, <2>4 DEF TwoInv
<1>2. CASE AnswerThenWait \/ HandleDetachedAnswer \/ AnswerThenFinish
  <2>1. Mail' \subseteq Mail /\ pc' = "idle"
    BY <1>2, TakingMail DEF AnswerThenWait, HandleDetachedAnswer,
       AnswerThenFinish, placeVars
  <2> QED
    BY <2>1, TwoFewer DEF TwoInv
<1>3. CASE AnswerThenRedispatch
  <2>1. /\ Takes /\ AnswerSlot \in Slots /\ pc' = "idle"
        /\ \E off, cnt \in Nat : Sends(AnswerSlot, off, cnt)
    BY <1>3, RedispatchMail
  <2>2. PICK off \in Nat, cnt \in Nat : Sends(AnswerSlot, off, cnt)
    BY <2>1
  <2>3. PICK s \in Slots : s = AnswerSlot
    BY <2>1
  <2>4. PICK x : x = NewLetter(s, off, cnt)
    OBVIOUS
  <2>5. /\ HeadLetter \in Of(s) /\ HeadLetter \notin Of(s)'
    BY <2>1, <2>3 DEF Takes, Same, HeadLetter, Letter, AnswerSlot, Of
  <2>6. Mail' \subseteq Mail \cup {x}
    BY <2>2, <2>3, <2>4 DEF Sends
  <2>7. /\ Of(s)' \subseteq Of(s) \cup {x}
        /\ \A g \in Slots : g # s => Of(g)' \subseteq Of(g)
    BY <2>4, <2>6, TwoMore
  <2>8. AtMost(Of(s)', 2)
    <3>1. Of(s)' \ {x} \subseteq Of(s) \ {HeadLetter} /\ AtMost(Of(s), 2)
      BY <2>5, <2>7 DEF TwoInv
    <3>2. PICK T : T = Of(s)' \ {x}
      OBVIOUS
    <3>3. AtMost(T, 1)
      BY <2>5, <3>1, <3>2, AtMostTake
    <3>4. Of(s)' \subseteq T \cup {x}
      BY <3>2
    <3>5. \A y, z \in T : y = z
      BY <3>3 DEF AtMost
    <3> QED
      BY <3>4, <3>5 DEF AtMost
  <2>9. ASSUME NEW g \in Slots, g # s PROVE AtMost(Of(g)', 2)
    <3>1. Of(g)' \subseteq Of(g) /\ AtMost(Of(g), 2)
      BY <2>7, <2>9 DEF TwoInv
    <3> QED
      BY <3>1, AtMostMore
  <2> QED
    BY <2>1, <2>8, <2>9 DEF TwoInv
<1>4. CASE AnswerThenRefill
  <2>1. /\ Mail' \subseteq Mail /\ Takes
        /\ HeadLetter.host = AnswerSlot[1] /\ HeadLetter.pipe = AnswerSlot[2]
        /\ AnswerSlot \in Slots
    BY <1>4, TakingMail
  <2>2. pc' = "refill" /\ slot' = AnswerSlot
    BY <1>4 DEF AnswerThenRefill
  <2>7. PICK s \in Slots : s = AnswerSlot
    BY <2>1
  <2>3. HeadLetter \in Of(s) /\ HeadLetter \notin Of(s)'
    BY <2>1, <2>7 DEF Takes, Same, Of
  <2>4. Of(s)' \subseteq Of(s) /\ AtMost(Of(s), 2)
    BY <2>1 DEF Of, TwoInv
  <2>5. AtMost(Of(s)', 1)
    BY <2>3, <2>4, AtMostTake
  <2>6. AtMost(Of(slot)', 1)
    BY <2>2, <2>5, <2>7 DEF Of
  <2> QED
    BY <2>1, <2>2, <2>6, TwoFewer DEF TwoInv
<1>5. CASE RejectScene
  <2>1. Mail' \subseteq Mail /\ pc' = "idle"
    BY <1>5, IdleMail DEF Idles, Request, Quiet, RejectScene, placeVars
  <2> QED
    BY <2>1, TwoFewer DEF TwoInv
<1>6. CASE AcceptScene
  <2>1. Mail = {} /\ pc' = "find"
    BY <1>6 DEF AcceptScene, StageInv
  <2>2. Mail' = {}
    BY <1>6, <2>1, IdleMail DEF Idles, Request, Quiet
  <2>3. \A s : Of(s)' = {}
    BY <2>2 DEF Of
  <2> QED
    BY <2>1, <2>3 DEF TwoInv, AtMost
<1>7. CASE KickOffFind \/ KickOffNextRound
  <2>1. Mail' \subseteq Mail /\ pc' # "refill" /\ pc \in {"find", "assign"}
    BY <1>7, IdleMail DEF Idles, Quiet, KickOffFind, KickOffNextRound
  <2>2. ASSUME pc' \in {"find", "assign"}, NEW s \in Slots
        PROVE  AtMost(Of(s)', Given(s)')
    <3>1. TypeInv'
      BY TypeStep
    <3>2. Given(s)' \in 0 .. 2
      <4>1. pos'.round \in 1 .. 2
        BY <3>1 DEF TypeInv, TypeOK
      <4> QED
        BY <4>1 DEF Given
    <3> QED
      BY <1>7, <2>1, <2>2, <3>2, GivenFind, TwoFewer
  <2> QED
    BY <2>1, <2>2, TwoFewer DEF TwoInv
<1>8. CASE KickOffAssign
  <2>0. PICK s : s = <<hostWorkers[pos.index], pos.pipe>>
    OBVIOUS
  <2>1. /\ pc = "assign" /\ s \in Slots /\ msgQ' = msgQ
        /\ \E off, cnt \in Nat : SendRequest(s, off, cnt)
    BY <1>8, <2>0, KickOffSends
  <2>2. pc' \in {"find", "assign"}
    BY <1>8 DEF KickOffAssign
  <2>3. /\ Given(s) \in 0 .. 1 /\ Given(s)' = Given(s) + 1
        /\ \A g \in Slots : g # s => Given(g) <= Given(g)'
    BY <1>8, <2>0, GivenAssign
  <2>4. PICK off \in Nat, cnt \in Nat : SendRequest(s, off, cnt)
    BY <2>1
  <2>5. Mail' \subseteq Mail \cup {NewLetter(s, off, cnt)}
    BY <2>1, <2>4, SentMail DEF Sends
  <2>6. AtMost(Of(s)', Given(s)')
    <3>1. AtMost(Of(s), Given(s))
      BY <2>1 DEF TwoInv
    <3>2. Of(s)' \subseteq Of(s) \cup {NewLetter(s, off, cnt)}
      BY <2>1, <2>5, TwoMore
    <3> QED
      BY <2>3, <3>1, <3>2, AtMostAdd
  <2>7. ASSUME NEW g \in Slots, g # s PROVE AtMost(Of(g)', Given(g)')
    <3>1. Of(g)' \subseteq Of(g) /\ AtMost(Of(g), Given(g))
      BY <2>1, <2>5, <2>7, TwoMore DEF TwoInv
    <3>2. Given(g)' \in 0 .. 2
      <4>1. TypeInv'
        BY TypeStep
      <4>2. pos'.round \in 1 .. 2
        BY <4>1 DEF TypeInv, TypeOK
      <4> QED
        BY <4>2 DEF Given
    <3> QED
      BY <2>3, <2>7, <3>1, <3>2, GivenType, AtMostMore
  <2>8. \A g \in Slots : Given(g)' \in 0 .. 2 /\ AtMost(Of(g)', Given(g)')
    <3>1. TypeInv'
      BY TypeStep
    <3>2. pos'.round \in 1 .. 2
      BY <3>1 DEF TypeInv, TypeOK
    <3>3. \A g \in Slots : Given(g)' \in 0 .. 2
      BY <3>2 DEF Given
    <3> QED
      BY <2>6, <2>7, <3>3
  <2>9. \A g \in Slots : AtMost(Of(g)', 2)
    BY <2>8, AtMostMore
  <2> QED
    BY <2>2, <2>8, <2>9 DEF TwoInv
<1>9. CASE Refill
  <2>0. PICK s : s = slot
    OBVIOUS
  <2>1. /\ pc = "refill" /\ s \in Slots /\ msgQ' = msgQ /\ pc' = "idle"
        /\ \E off, cnt \in Nat : SendRequest(s, off, cnt)
    BY <1>9, <2>0, RefillSends
  <2>2. PICK off \in Nat, cnt \in Nat : SendRequest(s, off, cnt)
    BY <2>1
  <2>3. AtMost(Of(s), 1)
    BY <2>0, <2>1 DEF TwoInv
  <2>4. Mail' \subseteq Mail \cup {NewLetter(s, off, cnt)}
    BY <2>1, <2>2, SentMail DEF Sends
  <2>5. AtMost(Of(s)', 2)
    <3>1. Of(s)' \subseteq Of(s) \cup {NewLetter(s, off, cnt)}
      BY <2>1, <2>4, TwoMore
    <3>2. AtMost(Of(s)', 1 + 1)
      BY <2>3, <3>1, AtMostAdd
    <3> QED
      BY <3>2
  <2>6. ASSUME NEW g \in Slots, g # s PROVE AtMost(Of(g)', 2)
    <3>1. Of(g)' \subseteq Of(g) /\ AtMost(Of(g), 2)
      BY <2>1, <2>4, <2>6, TwoMore DEF TwoInv
    <3> QED
      BY <3>1, AtMostMore
  <2> QED
    BY <2>1, <2>5, <2>6 DEF TwoInv
<1> HIDE DEF place
<1> QED
  BY <1>1, <1>2, <1>3, <1>4, <1>5, <1>6, <1>7, <1>8, <1>9, PlaceMoves DEF place

\* A set with at most two elements has at most two elements.
LEMMA AtMostTwo ==
    ASSUME NEW S, AtMost(S, 2)
    PROVE  IsFiniteSet(S) /\ Cardinality(S) <= 2
<1>1. CASE S = {}
  BY <1>1, FS_EmptySet
<1>2. CASE S # {}
  <2>1. PICK x \in S : TRUE
    BY <1>2
  <2>2. CASE S = {x}
    <3>1. IsFiniteSet({x}) /\ Cardinality({x}) = 1
      BY FS_Singleton
    <3> QED
      BY <2>2, <3>1
  <2>3. CASE S # {x}
    <3>1. PICK y \in S : y # x
      BY <2>1, <2>3
    <3>2. S = {x} \cup {y}
      BY <3>1 DEF AtMost
    <3>3. IsFiniteSet({x}) /\ Cardinality({x}) = 1 /\ y \notin {x}
      BY <3>1, FS_Singleton
    <3>4. IsFiniteSet({x} \cup {y}) /\ Cardinality({x} \cup {y}) = 1 + 1
      BY <3>3, FS_AddElement
    <3> QED
      BY <3>2, <3>4
  <2> QED
    BY <2>2, <2>3
<1> QED
  BY <1>1, <1>2

Safe == TypeInv /\ JobInv /\ MailInv /\ OrderInv /\ StageInv /\ Members

LEMMA SafeInit == Init => Safe
BY TypeInit, JobInit, MailInit, OrderInit, StageInit, MembersInit DEF Safe

LEMMA SafeStep == Safe /\ [Next]_vars => Safe'
BY TypeStep, JobInvStep, MailStep, OrderStep, StageStep, MembersStep
   DEF Safe, JobInv

\* No pipeline ever has more than two requests that are not answered: one to
\* work on and one to go on with (SceneSchedulerDynamic::KickOffSceneScheduling
\* and ::OnPixelProduceResponseMsg), so that the queues stay short.
THEOREM TwoRequestsAtMost == Spec => []TwoRequestsPerPipeline
<1>1. Init => Safe /\ TwoInv
  BY SafeInit, TwoInit
<1>2. Safe /\ TwoInv /\ [Next]_vars => (Safe /\ TwoInv)'
  BY SafeStep, TwoStep DEF Safe, JobInv
<1>3. Safe /\ TwoInv => TwoRequestsPerPipeline
  <2> SUFFICES ASSUME Safe, TwoInv, NEW s \in Slots
               PROVE  InFlight(s) <= 2
    BY DEF TwoRequestsPerPipeline
  <2> DEFINE C == {c \in Carriers(s[1]) : c.pipe = s[2]}
  <2>1. s[1] \in Hosts
    BY SlotFacts
  <2>2. \A c \in C : /\ c \in Carriers(s[1])
                     /\ Letter(s[1], c.pipe, c.req) \in Of(s)
                     /\ Letter(s[1], c.pipe, c.req).tag = c.req.tag
    <3> SUFFICES ASSUME NEW c \in C
                 PROVE  Letter(s[1], c.pipe, c.req) \in Of(s)
      BY DEF Letter
    <3>1. Letter(s[1], c.pipe, c.req) \in Mail
      BY <2>1, CarrierLetters DEF Safe
    <3> QED
      BY <3>1 DEF Of, Letter
  <2>3. AtMost(Of(s), 2)
    BY DEF TwoInv
  <2> HIDE DEF C
  <2>4. \A c, d \in C : c.req.tag = d.req.tag => c = d
    BY <2>1, <2>2, OneCarrier DEF Safe, MailInv
  <2>5. AtMost(C, 2)
    BY <2>2, <2>3, <2>4 DEF AtMost
  <2>6. Cardinality(C) <= 2
    BY <2>5, AtMostTwo
  <2> QED
    BY <2>6 DEF C, InFlight
<1> QED
  BY <1>1, <1>2, <1>3, PTL DEF Spec

-----------------------------------------------------------------------------
(* Who sends pixels                                                        *)

\* What the workers' ends of the connections do.
LEMMA WorkerMoves ==
    ASSUME [Next]_vars
    PROVE  \/ UNCHANGED <<shipped, resp>>
           \/ \E h \in Hosts : Receive(h) \/ Perish(h)
           \/ \E s \in Slots : ShipSegment(s) \/ Respond(s)
<1> DEFINE same == UNCHANGED <<shipped, resp>>
<1> USE DEF linkVars, wireVars
<1>1. ASSUME NEW f, Die(f) PROVE same
  BY <1>1 DEF Die
<1>2. CASE Request
  BY <1>1, <1>2 DEF Request, RejectScene, AcceptScene, AcceptDies
<1>3. CASE Scheduler
  <2>1. KickOffFind \/ KickOffNextRound \/ HandleException \/ HandleDetachedAnswer
           \/ HandleDetachedException \/ AnswerThenWait => same
    BY DEF KickOffFind, KickOffNextRound, HandleException, HandleDetachedAnswer,
           HandleDetachedException, Close, AnswerThenWait
  <2>2. KickOffAssign \/ Refill \/ AnswerThenRedispatch => same
    <3>1. \A s, off, cnt : SendRequest(s, off, cnt) => same
      BY DEF SendRequest
    <3> HIDE DEF same
    <3>2. KickOffAssign => same
      BY <3>1 DEF KickOffAssign, SendNextJob, Assign
    <3>3. Refill => same
      BY <3>1 DEF Refill, SendNextJob, Assign
    <3>4. AnswerThenRedispatch => same
      BY <3>1 DEF AnswerThenRedispatch, Assign
    <3> QED
      BY <3>2, <3>3, <3>4
  <2>3. AnswerThenRefill \/ AnswerThenFinish => same
    BY DEF AnswerThenRefill, AnswerThenFinish, FreeAppTag
  <2>4. AnswerDies \/ SendDies \/ ExceptionDies => same
    BY <1>1 DEF AnswerDies, SendDies, ExceptionDies
  <2> QED
    BY <1>3, <2>1, <2>2, <2>3, <2>4 DEF Scheduler
<1>4. ASSUME NEW h \in Hosts,
             \/ ReportException(h) \/ NoteFailure(h) \/ CloseConnection(h)
             \/ RegisterWorker(h) \/ Client(h)
      PROVE  same
  BY <1>4 DEF ReportException, NoteFailure, CloseConnection, Close,
              RegisterWorker, Client, Deliver
<1>5. ASSUME NEW h \in Hosts, WorkerDies(h) PROVE Perish(h)
  BY <1>5 DEF WorkerDies, Crash
<1>6. ASSUME NEW s \in Slots, Worker(s)
      PROVE  ShipSegment(s) \/ Respond(s) \/ \E h \in Hosts : Perish(h)
  BY <1>6, SlotFacts DEF Worker, ProduceUnknownScene
<1>7. UNCHANGED vars => same
  BY DEF vars
<1> QED
  BY <1>2, <1>3, <1>4, <1>5, <1>6, <1>7 DEF Next, Connection

\* A host that was sent the scene still was.
LEMMA BriefedGrows ==
    ASSUME StageInv, [Next]_vars
    PROVE  briefed \subseteq briefed'
BY ListMoves DEF StageInv, AcceptScene

LEMMA BriefedInit == Init => BriefedInv /\ WorklessInv
BY NoMailAtFirst DEF Init, LinkInit, BriefedInv, WorklessInv

LEMMA BriefedStep ==
    ASSUME TypeInv, StageInv, BriefedInv, [Next]_vars
    PROVE  BriefedInv'
<1>1. briefed \subseteq briefed'
  BY BriefedGrows
<1>2. ASSUME NEW h \in Hosts, NEW i \in DOMAIN resp'[h], resp'[h][i].cnt # 0
      PROVE  h \in briefed
  <2>1. CASE UNCHANGED <<shipped, resp>>
    BY <1>2, <2>1 DEF BriefedInv
  <2>2. ASSUME NEW g \in Hosts, Perish(g) PROVE h \in briefed
    BY <1>2, <2>2, PerishFacts DEF BriefedInv
  <2>3. ASSUME NEW g \in Hosts, Receive(g) PROVE h \in briefed
    <3>1. /\ resp \in [Hosts -> Seq(Responses)] /\ resp[g] # <<>>
          /\ resp' = [resp EXCEPT ![g] = Tail(@)]
      BY <2>3 DEF Receive, TypeInv, TypeOK, LinkTypeOK
    <3>2. \E k \in DOMAIN resp[h] : resp'[h][i] = resp[h][k]
      <4>1. CASE h = g
        BY <1>2, <3>1, <4>1, SeqTail
      <4>2. CASE h # g
        BY <1>2, <3>1, <4>2
      <4> QED
        BY <4>1, <4>2
    <3> QED
      BY <1>2, <3>2 DEF BriefedInv
  <2>4. ASSUME NEW s \in Slots, ShipSegment(s) PROVE h \in briefed
    BY <1>2, <2>4 DEF ShipSegment, BriefedInv
  <2>5. ASSUME NEW s \in Slots, Respond(s) PROVE h \in briefed
    <3>1. PICK n \in Answerable(s) :
              LET r == todo[s][n]
              IN  /\ n \in DOMAIN todo[s] /\ r \in Requests
                  /\ resp' = [resp EXCEPT ![s[1]] =
                         Append(@, [pipe |-> s[2], tag |-> r.tag,
                                    off |-> r.off, cnt |-> r.cnt])]
      BY <2>5, RespondFacts
    <3> DEFINE a == [pipe |-> s[2], tag |-> todo[s][n].tag,
                     off |-> todo[s][n].off, cnt |-> todo[s][n].cnt]
    <3>2. a.cnt # 0 => shipped[s]
      BY <3>1 DEF Answerable
    <3>3. a \in Responses
      BY <3>1, SlotFacts DEF Responses, Requests
    <3>4. /\ resp \in [Hosts -> Seq(Responses)] /\ s[1] \in Hosts
          /\ resp' = [resp EXCEPT ![s[1]] = Append(@, a)]
      BY <3>1, SlotFacts DEF TypeInv, TypeOK, LinkTypeOK
    <3> HIDE DEF a
    <3>5. \/ \E k \in DOMAIN resp[h] : resp'[h][i] = resp[h][k]
          \/ h = s[1] /\ resp'[h][i] = a
      <4>1. CASE h = s[1]
        <5>1. resp'[h] = Append(resp[h], a)
          BY <3>4, <4>1
        <5> QED
          BY <1>2, <3>3, <3>4, <4>1, <5>1, AppendFacts
      <4>2. CASE h # s[1]
        BY <1>2, <3>4, <4>2
      <4> QED
        BY <4>1, <4>2
    <3> QED
      BY <1>2, <3>2, <3>5 DEF BriefedInv
  <2> QED
    BY <2>1, <2>2, <2>3, <2>4, <2>5, WorkerMoves
<1>3. ASSUME NEW i \in DOMAIN msgQ', msgQ'[i].kind = "answer", msgQ'[i].cnt # 0
      PROVE  msgQ'[i].host \in briefed
  <2>1. CASE \E k \in DOMAIN msgQ : msgQ'[i] = msgQ[k]
    BY <1>3, <2>1 DEF BriefedInv, AnswerAt
  <2>2. CASE NewException(i)
    BY <1>3, <2>2 DEF NewException
  <2>3. ASSUME NEW h \in Hosts, NewAnswer(i, h) PROVE msgQ'[i].host \in briefed
    <3>1. /\ resp[h] \in Seq(Responses) /\ resp[h] # <<>>
          /\ msgQ'[i].host = h /\ msgQ'[i].cnt = Head(resp[h]).cnt
      BY <2>3 DEF NewAnswer, Receive, TypeInv, TypeOK, LinkTypeOK
    <3>2. 1 \in DOMAIN resp[h] /\ Head(resp[h]) = resp[h][1]
      BY <3>1, SeqTail
    <3> QED
      BY <1>3, <3>1, <3>2 DEF BriefedInv
  <2> QED
    BY <2>1, <2>2, <2>3, QueueChange
<1>4. ASSUME NEW s \in Slots, shipped'[s] PROVE s[1] \in briefed
  <2>1. shipped \in [Slots -> BOOLEAN]
    BY DEF TypeInv, TypeOK, LinkTypeOK
  <2>2. CASE shipped[s]
    BY <2>2 DEF BriefedInv
  <2>3. ASSUME NEW g \in Slots, ShipSegment(g), ~shipped[s] PROVE s[1] \in briefed
    BY <1>4, <2>1, <2>3 DEF ShipSegment
  <2>4. ASSUME NEW g \in Slots, Respond(g) PROVE shipped[s]
    BY <1>4, <2>1, <2>4 DEF Respond
  <2>5. ASSUME NEW h \in Hosts, Receive(h) \/ Perish(h) PROVE shipped[s]
    BY <1>4, <2>5 DEF Receive, Perish
  <2> QED
    BY <1>4, <2>2, <2>3, <2>4, <2>5, WorkerMoves
<1> QED
  BY <1>1, <1>2, <1>3, <1>4 DEF BriefedInv, AnswerAt

\* Once all pixels are handed out they stay so, while the scene goes on.
LEMMA HandedOutStays ==
    ASSUME TypeInv, Apart(AllJobs, current), [Next]_vars, current = NumPixels
    PROVE  current' = NumPixels \/ AcceptScene
<1>1. KickOffAssign \/ Refill => current' = current
  <2>1. ASSUME KickOffAssign PROVE current' = current
    <3>1. \E off, cnt \in Nat : NextJob(off, cnt) \/ NoJob(off, cnt)
      BY <2>1, KickOffSends
    <3> QED
      BY <3>1 DEF NextJob, NoJob
  <2>2. ASSUME Refill PROVE FALSE
    <3>1. pc = "refill" /\ current < NumPixels
      BY <2>2 DEF Refill, TypeInv, Places
    <3> QED
      BY <3>1, TrackerAssumption
  <2> QED
    BY <2>1, <2>2
<1>2. RejectScene \/ KickOffFind \/ KickOffNextRound \/ AnswerThenRefill
         \/ AnswerThenFinish => current' = current
  BY DEF RejectScene, KickOffFind, KickOffNextRound, AnswerThenRefill,
         AnswerThenFinish, jobVars
<1> QED
  BY <1>1, <1>2, PlaceMoves

LEMMA WorklessStep ==
    ASSUME TypeInv, Apart(AllJobs, current), MailInv, StageInv, WorklessInv,
           [Next]_vars
    PROVE  WorklessInv'
<1> USE DEF MailInv
<1>1. ASSUME Mail' \subseteq Mail PROVE WorklessInv'
  <2>1. AcceptScene => Mail = {}
    BY DEF AcceptScene, StageInv
  <2> QED
    BY <1>1, <2>1, HandedOutStays DEF WorklessInv
<1>2. ASSUME NEW s \in Slots, NEW off \in Nat, NEW cnt \in Nat,
             Mail' \subseteq Mail \cup {NewLetter(s, off, cnt)},
             cnt = 0 => current = NumPixels,
             ~AcceptScene
      PROVE  WorklessInv'
  <2>1. NewLetter(s, off, cnt).cnt = cnt
    BY DEF NewLetter
  <2> QED
    BY <1>2, <2>1, HandedOutStays DEF WorklessInv
<1>3. CASE Idles \/ Outside \/ AnswerThenRefill \/ AnswerThenFinish
           \/ AnswerThenWait \/ HandleDetachedAnswer
  BY <1>1, <1>3, IdleMail, OutsideMail, TakingMail DEF Quiet
<1>4. CASE KickOffAssign
  <2>1. PICK s \in Slots : s = <<hostWorkers[pos.index], pos.pipe>>
    BY <1>4, KickOffSends
  <2>2. PICK off \in Nat, cnt \in Nat :
            /\ SendRequest(s, off, cnt)
            /\ NextJob(off, cnt) \/ NoJob(off, cnt)
    BY <1>4, <2>1, KickOffSends
  <2>3. msgQ' = msgQ /\ ~AcceptScene
    BY <1>4, KickOffSends DEF AcceptScene
  <2>4. Mail' \subseteq Mail \cup {NewLetter(s, off, cnt)}
    BY <2>2, <2>3, SentMail DEF Sends
  <2>5. cnt = 0 => current = NumPixels
    BY <2>2 DEF NextJob, NoJob
  <2> QED
    BY <1>2, <2>3, <2>4, <2>5
<1>5. CASE Refill
  <2>1. PICK s \in Slots : s = slot
    BY <1>5, RefillSends
  <2>2. PICK off \in Nat, cnt \in Nat :
            /\ SendRequest(s, off, cnt)
            /\ NextJob(off, cnt) \/ FailedJob(off, cnt)
    BY <1>5, <2>1, RefillSends
  <2>3. msgQ' = msgQ /\ ~AcceptScene
    BY <1>5, <2>1, RefillSends DEF AcceptScene
  <2>4. Mail' \subseteq Mail \cup {NewLetter(s, off, cnt)}
    BY <2>2, <2>3, SentMail DEF Sends
  <2>5. cnt # 0
    BY <2>2 DEF NextJob, FailedJob
  <2> QED
    BY <1>2, <2>3, <2>4, <2>5
<1>6. CASE AnswerThenRedispatch
  <2>1. PICK s \in Slots : s = AnswerSlot
    BY <1>6, RedispatchMail
  <2>2. PICK off \in Nat, cnt \in Nat : Sends(s, off, cnt) /\ FailedJob(off, cnt)
    BY <1>6, <2>1, RedispatchMail
  <2>3. ~AcceptScene
    BY <1>6 DEF AcceptScene, AnswerThenRedispatch, Handle, StageInv
  <2>4. Mail' \subseteq Mail \cup {NewLetter(s, off, cnt)}
    BY <2>2 DEF Sends
  <2>5. cnt # 0
    BY <2>2 DEF FailedJob
  <2> QED
    BY <1>2, <2>3, <2>4, <2>5
<1> QED
  BY <1>3, <1>4, <1>5, <1>6, StepKinds

-----------------------------------------------------------------------------
(* Connections that fail in a refill                                       *)

\* While the scene runs, an exception stays in the queue until its handling
\* takes the host off the list.
LEMMA ReportedStays ==
    ASSUME TypeInv, StageInv, Members, [Next]_vars, scene = "running",
           NEW h \in Hosts, Reported(h), h \in Listed'
    PROVE  Reported(h)'
<1>1. PICK i \in DOMAIN msgQ : ExceptionAt(i) /\ msgQ[i].host = h
  BY DEF Reported
<1>2. ASSUME \E k \in DOMAIN msgQ' : msgQ'[k] = msgQ[i] PROVE Reported(h)'
  BY <1>1, <1>2 DEF Reported, ExceptionAt
<1>3. CASE msgQ' = msgQ
  BY <1>2, <1>3
<1>4. CASE msgQ # <<>> /\ msgQ' = Tail(msgQ)
           /\ (Head(msgQ).kind = "answer" \/ HandleException)
  <2>1. msgQ \in Seq(Answers \cup Exceptions)
    BY DEF TypeInv, TypeOK
  <2>2. i # 1
    <3>1. Head(msgQ) = msgQ[1]
      BY <1>4, <2>1, SeqTail
    <3>2. HandleException => Listed' = Listed \ {Head(msgQ).host}
      BY DropHost
    <3> QED
      BY <1>1, <1>4, <3>1, <3>2 DEF ExceptionAt
  <2>3. /\ i - 1 \in DOMAIN Tail(msgQ) /\ Tail(msgQ)[i - 1] = msgQ[i]
    <3>1. /\ DOMAIN msgQ = 1 .. Len(msgQ) /\ Len(msgQ) \in Nat
          /\ DOMAIN Tail(msgQ) = 1 .. Len(msgQ) - 1
      BY <1>4, <2>1, HeadTailProperties, LenProperties
    <3>2. i - 1 \in DOMAIN Tail(msgQ) /\ (i - 1) + 1 = i
      BY <2>2, <3>1
    <3> QED
      BY <1>4, <2>1, <3>2, SeqTail
  <2> QED
    BY <1>2, <1>4, <2>3
<1>5. ~HandleDetachedException /\ ~AcceptScene
  BY TailFacts DEF HandleDetachedException, AcceptScene, StageInv, TypeInv
<1>6. ASSUME NEW g \in Hosts, Receive(g) \/ CloseConnection(g) PROVE Reported(h)'
  BY <1>1, <1>2, <1>6, ReceivedQueue, ClosingQueue
<1> QED
  BY <1>3, <1>4, <1>5, <1>6, QueueUse

\* The steps that take a route away.
LEMMA RoutesGrow ==
    ASSUME TypeInv, [Next]_vars, NEW h \in Hosts
    PROVE  \/ routed[h] \subseteq routed'[h]
           \/ CloseConnection(h) \/ HandleDetachedException
           \/ AnswerThenRefill \/ AnswerThenFinish
<1> DEFINE grows == routed[h] \subseteq routed'[h]
<1> USE DEF linkVars, wireVars
<1>0. routed \in [Hosts -> SUBSET Tags]
  BY DEF TypeInv, TypeOK, LinkTypeOK
<1>1. routed' = routed => grows
  OBVIOUS
<1>2. ASSUME NEW f, Die(f) PROVE routed' = routed
  BY <1>2 DEF Die
<1>3. \A s \in Slots : \A off, cnt : SendRequest(s, off, cnt) => grows
  <2> SUFFICES ASSUME NEW s \in Slots, NEW off, NEW cnt, SendRequest(s, off, cnt)
               PROVE  grows
    OBVIOUS
  <2>1. routed' = [routed EXCEPT ![s[1]] = @ \cup {Head(freeTags[s[1]])}]
    BY DEF SendRequest
  <2> QED
    BY <1>0, <2>1
<1>4. Request => routed' = routed
  BY <1>2 DEF Request, RejectScene, AcceptScene, AcceptDies
<1>5. KickOffFind \/ KickOffNextRound \/ HandleException \/ HandleDetachedAnswer
         \/ AnswerThenWait => routed' = routed
  BY DEF KickOffFind, KickOffNextRound, HandleException, HandleDetachedAnswer,
         AnswerThenWait
<1>6. AnswerDies \/ SendDies \/ ExceptionDies => routed' = routed
  BY <1>2 DEF AnswerDies, SendDies, ExceptionDies
<1> HIDE DEF grows
<1>7. KickOffAssign => grows
  BY <1>3, KickOffSends
<1>8. Refill => grows
  <2> SUFFICES ASSUME Refill PROVE grows
    OBVIOUS
  <2>1. slot \in Slots
    BY DEF Refill, TypeInv, Places
  <2>2. \E off, cnt : SendRequest(slot, off, cnt)
    BY DEF Refill, SendNextJob, Assign
  <2> QED
    BY <1>3, <2>1, <2>2
<1>9. AnswerThenRedispatch => grows
  <2> SUFFICES ASSUME AnswerThenRedispatch PROVE grows
    OBVIOUS
  <2>1. AnswerSlot \in Slots
    BY AnswerHead DEF AnswerThenRedispatch
  <2>2. \E off, cnt : SendRequest(AnswerSlot, off, cnt)
    BY DEF AnswerThenRedispatch, Assign
  <2> QED
    BY <1>3, <2>1, <2>2
<1>10. ASSUME NEW g \in Hosts,
              \/ Receive(g) \/ ReportException(g) \/ NoteFailure(g)
              \/ RegisterWorker(g) \/ Client(g) \/ WorkerDies(g)
       PROVE  routed' = routed
  BY <1>10 DEF Receive, ReportException, NoteFailure, RegisterWorker, Client,
               Deliver, WorkerDies, Crash, Perish
<1>11. ASSUME NEW g \in Hosts, CloseConnection(g) PROVE g = h \/ grows
  BY <1>11, ClosingQueue DEF grows
<1>12. ASSUME NEW s \in Slots, Worker(s) PROVE routed' = routed
  BY <1>12 DEF Worker, ShipSegment, Respond, ProduceUnknownScene, Perish
<1>13. UNCHANGED vars => routed' = routed
  BY DEF vars
<1>14. grows \/ CloseConnection(h) \/ HandleDetachedException
         \/ AnswerThenRefill \/ AnswerThenFinish
  BY <1>1, <1>4, <1>5, <1>6, <1>7, <1>8, <1>9, <1>10, <1>11, <1>12, <1>13
     DEF Next, Scheduler, Connection
<1> QED
  BY <1>14 DEF grows

\* What a connection has in routes it keeps, or reports when it is closed.
LEMMA RoutesStay ==
    ASSUME TypeInv, OrderInv, StageInv, Members, [Next]_vars, scene = "running",
           NEW h \in Hosts, h \in Listed', ~AnswerThenRefill, ~AnswerThenFinish
    PROVE  /\ Kept(h) => Kept(h)'
           /\ KeptOne(h) => KeptOne(h)'
           /\ Routed(h) => Routed(h)'
<1>1. CASE link[h] = "closed"
  <2>1. link'[h] = "closed"
    BY <1>1, LinkLife
  <2>2. Reported(h) => Reported(h)'
    BY ReportedStays
  <2> QED
    BY <1>1, <2>1, <2>2 DEF Kept, KeptOne, Routed
<1>2. CASE link[h] # "closed" /\ link'[h] # "closed"
  <2>1. ~HandleDetachedException
    BY TailFacts DEF HandleDetachedException, StageInv, TypeInv
  <2>2. ~CloseConnection(h)
    <3>1. CloseConnection(h) => link'[h] = "closed"
      BY DEF CloseConnection, Close, TypeInv, TypeOK, LinkTypeOK
    <3> QED
      BY <1>2, <3>1
  <2>3. routed[h] \subseteq routed'[h]
    BY <2>1, <2>2, RoutesGrow
  <2> QED
    BY <1>2, <2>3 DEF Kept, KeptOne, Routed
<1>3. CASE link[h] # "closed" /\ link'[h] = "closed"
  <2>1. CloseConnection(h)
    <3>1. ~AcceptScene
      BY DEF AcceptScene
    <3>2. RegisterWorker(h) => link'[h] = "up"
      BY AddHost
    <3> QED
      BY <1>3, <3>1, <3>2, LinkMoves
  <2>2. routed[h] # {} => Reported(h)'
    BY <2>1, ClosingQueue DEF Reported, ExceptionAt
  <2> QED
    BY <1>3, <2>2 DEF Kept, KeptOne, Routed
<1> QED
  BY <1>1, <1>2, <1>3

\* A tag that is registered is one more.
LEMMA FreshRoute ==
    ASSUME TypeInv, TagInv, NEW s \in Slots, NEW off, NEW cnt,
           SendRequest(s, off, cnt), msgQ' = msgQ
    PROVE  /\ Routed(s[1])'
           /\ KeptOne(s[1]) => Kept(s[1])'
           /\ link' = link
<1> DEFINE h == s[1]
           t == Head(freeTags[h])
<1>1. /\ freeTags[h] # <<>> /\ link' = link
      /\ routed' = [routed EXCEPT ![h] = @ \cup {t}]
  BY DEF SendRequest
<1>2. h \in Hosts /\ routed \in [Hosts -> SUBSET Tags]
  BY SlotFacts DEF TypeInv, TypeOK, LinkTypeOK
<1>3. t \notin routed[h]
  BY <1>1, FreshTag
<1>4. routed'[h] = routed[h] \cup {t}
  BY <1>1, <1>2
<1>5. Reported(h) => Reported(s[1])'
  BY DEF Reported, ExceptionAt
<1> QED
  BY <1>1, <1>3, <1>4, <1>5 DEF Routed, Kept, KeptOne

\* A host that was sent the scene and is listed was so before.
LEMMA BriefedListed ==
    ASSUME TypeInv, Members, [Next]_vars, ~AcceptScene,
           NEW h \in Listed' \cap briefed'
    PROVE  h \in Listed \cap briefed
BY ListMoves, DropHost, AddHost DEF Listed

\* The routes while the kick-off or the refill goes on elsewhere.
LEMMA RouteAway ==
    ASSUME Safe, RouteInv, [Next]_vars, Idles \/ Outside,
           UNCHANGED <<scene, pc, pos, slot, current>>
    PROVE  RouteInv'
<1> USE DEF Safe
<1>1. scene = "running" =>
          ~AcceptScene /\ ~AnswerThenRefill /\ ~AnswerThenFinish
  <2>1. ~AnswerThenRefill
    BY DEF AnswerThenRefill, Handle
  <2>2. scene = "running" => ~AcceptScene /\ ~AnswerThenFinish
    BY DEF AcceptScene, AnswerThenFinish
  <2> QED
    BY <2>1, <2>2
<1>2. briefed \subseteq briefed' /\ (scene = "running" => briefed' = briefed)
  BY <1>1, BriefedGrows, ListMoves
<1>3. Listed \subseteq Hosts /\ Listed' \subseteq Hosts
  <2>1. TypeInv'
    BY TypeStep
  <2> QED
    BY <2>1 DEF TypeInv, TypeOK, TrackerTypeOK, Listed, Range
<1>4. scene' = "running" /\ pc' = "idle" /\ current' < NumPixels =>
          \A h \in Listed' \cap briefed' : Kept(h)'
  BY <1>1, <1>3, RoutesStay, BriefedListed DEF RouteInv
<1>5. ASSUME pc' = "refill"
      PROVE  /\ slot'[1] \in briefed' /\ KeptOne(slot[1])'
             /\ \A h \in Listed' \cap briefed' : h # slot'[1] => Kept(h)'
  <2>1. pc = "refill" /\ scene = "running" /\ slot' = slot
    BY <1>5 DEF StageInv
  <2>2. slot[1] \in briefed /\ KeptOne(slot[1])
    BY <2>1 DEF RouteInv
  <2>3. slot'[1] \in Listed'
    BY <1>5, OrderStep DEF OrderInv, AnswersBeforeException
  <2>4. PICK h0 : h0 = slot[1]
    OBVIOUS
  <2>5. h0 \in Hosts /\ h0 \in Listed'
    BY <1>3, <2>1, <2>3, <2>4
  <2>6. KeptOne(h0)'
    BY <1>1, <2>1, <2>2, <2>4, <2>5, RoutesStay
  <2>7. KeptOne(slot[1])'
    BY <2>1, <2>4, <2>6 DEF KeptOne, Reported
  <2>8. \A h \in Listed' \cap briefed' : h # slot[1] => Kept(h)'
    BY <1>1, <1>3, <2>1, RoutesStay, BriefedListed DEF RouteInv
  <2> QED
    BY <1>2, <2>1, <2>2, <2>7, <2>8
<1>6. ASSUME pc' \in {"find", "assign"}, current' < NumPixels
      PROVE  KickOffRoutes'
  <2>1. /\ pc \in {"find", "assign"} /\ current < NumPixels /\ scene = "running"
        /\ pc' = pc /\ pos' = pos /\ KickOffRoutes /\ briefed' = briefed
    BY <1>2, <1>6 DEF StageInv, RouteInv
  <2>2. \A i \in DOMAIN hostWorkers' :
            hostWorkers'[i] \in briefed =>
                i \in DOMAIN hostWorkers /\ hostWorkers[i] = hostWorkers'[i]
    <3>1. ~HandleException
      BY <2>1 DEF HandleException, Handle
    <3>2. ASSUME NEW h \in Hosts, RegisterWorker(h)
          PROVE  \A i \in DOMAIN hostWorkers' :
                     hostWorkers'[i] \in briefed =>
                         i \in DOMAIN hostWorkers /\ hostWorkers[i] = hostWorkers'[i]
      <4>1. hostWorkers' = Append(hostWorkers, h) /\ h \notin briefed
        BY <3>2, AddHost
      <4>2. hostWorkers \in Seq(Hosts)
        BY DEF TypeInv, TypeOK, TrackerTypeOK
      <4> QED
        BY <4>1, <4>2, AppendFacts
    <3> QED
      BY <3>1, <3>2, ListMoves
  <2>3. \A i \in DOMAIN hostWorkers' :
            hostWorkers'[i] \in Hosts /\ hostWorkers'[i] \in Listed'
    BY <1>3 DEF Listed, Range
  <2>4. ASSUME NEW i \in DOMAIN hostWorkers', NEW h, h = hostWorkers'[i], h \in briefed'
        PROVE  LET done == i < pos.index \/ (i = pos.index /\ pos.pipe > 0)
               IN  IF pos.round = 1 THEN done => Routed(h)'
                   ELSE IF done THEN Kept(h)'
                   ELSE IF i = pos.index /\ pc = "assign" THEN KeptOne(h)'
                   ELSE Routed(h)'
    <3>1. i \in DOMAIN hostWorkers /\ hostWorkers[i] = h /\ h \in briefed
      BY <2>1, <2>2, <2>4
    <3>2. LET done == i < pos.index \/ (i = pos.index /\ pos.pipe > 0)
          IN  IF pos.round = 1 THEN done => Routed(h)
              ELSE IF done THEN Kept(h)
              ELSE IF i = pos.index /\ pc = "assign" THEN KeptOne(h)
              ELSE Routed(h)
      BY <2>1, <3>1 DEF KickOffRoutes
    <3>3. /\ Kept(h) => Kept(h)'
          /\ KeptOne(h) => KeptOne(h)'
          /\ Routed(h) => Routed(h)'
      BY <1>1, <2>1, <2>3, <2>4, RoutesStay
    <3> QED
      BY <3>2, <3>3
  <2> QED
    BY <2>1, <2>4 DEF KickOffRoutes
<1> QED
  BY <1>4, <1>5, <1>6 DEF RouteInv

\* The kick-off goes on to the next host, or to its next round.
LEMMA RouteFind ==
    ASSUME Safe, RouteInv, [Next]_vars, KickOffFind \/ KickOffNextRound
    PROVE  RouteInv'
<1> USE DEF Safe
<1>1. /\ pc = "find" /\ pos.pipe = 0 /\ scene = "running"
      /\ pos.round \in 1 .. 2 /\ pos.index \in Nat
      /\ pos = [round |-> pos.round, index |-> pos.index, pipe |-> pos.pipe]
      /\ UNCHANGED <<hostWorkers, current, link, routed, msgQ, briefed>>
      /\ current < NumPixels => KickOffRoutes
  BY DEF KickOffFind, KickOffNextRound, TypeInv, TypeOK, Places, StageInv,
         trackerVars, linkVars, jobVars, RouteInv
<1>2. hostWorkers \in Seq(Hosts)
  BY DEF TypeInv, TypeOK, TrackerTypeOK
<1>3. DOMAIN hostWorkers = 1 .. Len(hostWorkers) /\ Len(hostWorkers) \in Nat
  BY <1>2, LenProperties
<1>4. \A h : /\ Kept(h)' <=> Kept(h)
             /\ KeptOne(h)' <=> KeptOne(h)
             /\ Routed(h)' <=> Routed(h)
  BY <1>1 DEF Kept, KeptOne, Routed, Reported, ExceptionAt
<1>5. CASE KickOffFind /\ current < NumPixels
  <2>1. /\ pc' = "assign" /\ pos' = pos
        /\ link[hostWorkers[pos.index]] # "closed"
    BY <1>5, TrackerAssumption DEF KickOffFind, Connected, TypeInv, TypeOK
  <2>2. ASSUME NEW i \in DOMAIN hostWorkers, NEW h, h = hostWorkers[i], h \in briefed
        PROVE  LET done == i < pos.index \/ (i = pos.index /\ pos.pipe > 0)
               IN  IF pos.round = 1 THEN done => Routed(h)
                   ELSE IF done THEN Kept(h)
                   ELSE IF i = pos.index THEN KeptOne(h)
                   ELSE Routed(h)
    <3>1. i = pos.index => (Routed(h) => KeptOne(h))
      BY <2>1, <2>2 DEF Routed, KeptOne
    <3> QED
      BY <1>1, <1>5, <2>2, <3>1 DEF KickOffRoutes
  <2>3. KickOffRoutes'
    BY <1>1, <1>4, <2>1, <2>2 DEF KickOffRoutes
  <2> QED
    BY <2>1, <2>3 DEF RouteInv
<1>6. CASE KickOffFind /\ ~(current < NumPixels)
  BY <1>1, <1>6 DEF KickOffFind, RouteInv
<1>7. CASE KickOffNextRound /\ pos.round = 1
  <2>1. pc' = "find" /\ pos' = [Start EXCEPT !.round = pos.round + 1]
    BY <1>1, <1>7 DEF KickOffNextRound, Rounds
  <2>2. pos'.round = 2 /\ pos'.index = 1 /\ pos'.pipe = 0
    BY <1>7, <2>1 DEF Start
  <2>3. ASSUME current < NumPixels PROVE KickOffRoutes'
    <3>1. \A i \in DOMAIN hostWorkers : i < pos.index
      BY <1>1, <1>3, <1>7 DEF KickOffNextRound
    <3>2. \A i \in DOMAIN hostWorkers :
              hostWorkers[i] \in briefed => Routed(hostWorkers[i])
      BY <1>1, <1>7, <2>3, <3>1 DEF KickOffRoutes
    <3>3. \A i \in DOMAIN hostWorkers :
              ~(i < pos'.index \/ (i = pos'.index /\ pos'.pipe > 0))
      BY <1>3, <2>2
    <3>4. \A i \in DOMAIN hostWorkers :
              hostWorkers[i] \in briefed => Routed(hostWorkers[i])'
      BY <1>1, <3>2 DEF Routed
    <3> QED
      BY <1>1, <2>1, <2>2, <3>3, <3>4 DEF KickOffRoutes
  <2> QED
    BY <1>1, <2>1, <2>3 DEF RouteInv
<1>8. CASE KickOffNextRound /\ pos.round = 2
  <2>1. pc' = "idle"
    BY <1>1, <1>8 DEF KickOffNextRound, Rounds
  <2>2. ASSUME current < NumPixels, NEW h \in Listed' \cap briefed'
        PROVE  Kept(h)'
    <3>1. PICK i \in DOMAIN hostWorkers : hostWorkers[i] = h
      BY <1>1, <2>2 DEF Listed, Range
    <3>2. i < pos.index /\ h \in briefed
      BY <1>1, <1>3, <1>8, <2>2, <3>1 DEF KickOffNextRound
    <3>3. Kept(h)
      BY <1>1, <1>8, <2>2, <3>1, <3>2 DEF KickOffRoutes
    <3> QED
      BY <1>4, <3>3
  <2> QED
    BY <1>1, <2>1, <2>2 DEF RouteInv
<1> QED
  BY <1>1, <1>5, <1>6, <1>7, <1>8

\* A pipeline is sent its first or second request.
LEMMA RouteAssign ==
    ASSUME Safe, RouteInv, [Next]_vars, KickOffAssign
    PROVE  RouteInv'
<1> USE DEF Safe
<1>0. PICK s : s = <<hostWorkers[pos.index], pos.pipe>>
  OBVIOUS
<1>1. /\ pc = "assign" /\ s \in Slots /\ msgQ' = msgQ /\ hostWorkers' = hostWorkers
      /\ \E off, cnt \in Nat : /\ SendRequest(s, off, cnt)
                               /\ NextJob(off, cnt) \/ NoJob(off, cnt)
  BY <1>0, KickOffSends
<1>2. PICK off \in Nat, cnt \in Nat : /\ SendRequest(s, off, cnt)
                                      /\ NextJob(off, cnt) \/ NoJob(off, cnt)
  BY <1>1
<1>3. /\ pos.round \in 1 .. 2 /\ pos.index \in DOMAIN hostWorkers
      /\ pos.pipe \in Nat /\ pos.index \in Nat
      /\ pos = [round |-> pos.round, index |-> pos.index, pipe |-> pos.pipe]
      /\ scene = "running" /\ current \in Nat
      /\ current < NumPixels => KickOffRoutes
      /\ hostWorkers \in Seq(Hosts)
  BY <1>1 DEF TypeInv, TypeOK, TrackerTypeOK, Places, StageInv, RouteInv
<1>4. DOMAIN hostWorkers = 1 .. Len(hostWorkers) /\ Len(hostWorkers) \in Nat
  BY <1>3, LenProperties
<1>5. /\ pc' \in {"find", "assign"} /\ pos'.round = pos.round
      /\ \/ pos'.index = pos.index /\ pos'.pipe = pos.pipe + 1 /\ pc' = "assign"
         \/ pos'.index = pos.index + 1 /\ pos'.pipe = 0 /\ pc' = "find"
  BY <1>1, <1>3 DEF KickOffAssign
<1>6. current' < NumPixels => current < NumPixels
  BY <1>2, <1>3, TrackerAssumption DEF NextJob, NoJob
<1>7. s[1] = hostWorkers[pos.index]
  BY <1>0
<1>8. /\ Routed(s[1])'
      /\ KeptOne(s[1]) => Kept(s[1])'
  BY <1>1, <1>2, FreshRoute DEF MailInv
<1>9. briefed' = briefed
  BY <1>2 DEF SendRequest
<1>10. ASSUME NEW h \in Listed
       PROVE  (Kept(h) => Kept(h)') /\ (Routed(h) => Routed(h)')
  <2>1. ~AnswerThenRefill /\ ~AnswerThenFinish
    BY <1>1 DEF AnswerThenRefill, AnswerThenFinish, Handle
  <2>2. h \in Hosts /\ h \in Listed'
    BY <1>1, <1>3 DEF Listed, Range
  <2> QED
    BY <1>3, <2>1, <2>2, RoutesStay
<1>11. ASSUME current' < NumPixels,
              NEW i \in DOMAIN hostWorkers, NEW h, h = hostWorkers[i], h \in briefed
       PROVE  LET done == i < pos'.index \/ (i = pos'.index /\ pos'.pipe > 0)
              IN  IF pos.round = 1 THEN done => Routed(h)'
                  ELSE IF done THEN Kept(h)'
                  ELSE IF i = pos'.index /\ pc' = "assign" THEN KeptOne(h)'
                  ELSE Routed(h)'
  <2>1. LET done == i < pos.index \/ (i = pos.index /\ pos.pipe > 0)
        IN  IF pos.round = 1 THEN done => Routed(h)
            ELSE IF done THEN Kept(h)
            ELSE IF i = pos.index THEN KeptOne(h)
            ELSE Routed(h)
    BY <1>1, <1>3, <1>6, <1>11 DEF KickOffRoutes
  <2>2. (Kept(h) => Kept(h)') /\ (Routed(h) => Routed(h)')
    BY <1>10, <1>11 DEF Listed, Range
  <2>3. i \in Nat
    BY <1>4
  <2>4. CASE i = pos.index
    <3>1. i < pos'.index \/ (i = pos'.index /\ pos'.pipe > 0)
      BY <1>3, <1>5, <2>4
    <3>2. Routed(h)' /\ (KeptOne(h) => Kept(h)')
      BY <1>7, <1>8, <1>11, <2>4
    <3> QED
      BY <2>1, <2>2, <2>4, <3>1, <3>2
  <2>5. CASE i # pos.index
    <3>1. /\ (i < pos'.index \/ (i = pos'.index /\ pos'.pipe > 0)) <=> i < pos.index
          /\ ~(i = pos'.index /\ pc' = "assign")
      BY <1>3, <1>5, <2>3, <2>5
    <3> QED
      BY <2>1, <2>2, <2>5, <3>1
  <2> QED
    BY <2>4, <2>5
<1>12. current' < NumPixels => KickOffRoutes'
  BY <1>1, <1>5, <1>9, <1>11 DEF KickOffRoutes
<1> QED
  BY <1>5, <1>12 DEF RouteInv

\* The tag of an answer is freed: the host has one less.
LEMMA RouteAnswer ==
    ASSUME Safe, BriefedInv, WorklessInv, RouteInv, [Next]_vars, AnswerThenRefill
    PROVE  RouteInv'
<1> USE DEF Safe
<1>1. PICK h : h = Head(msgQ).host
  OBVIOUS
<1>2. /\ h \in Hosts /\ h \in Listed /\ pc = "idle"
      /\ msgQ # <<>> /\ msgQ' = Tail(msgQ) /\ Head(msgQ).kind = "answer"
      /\ Head(msgQ).cmd /\ ~(current = NumPixels)
      /\ current' = current /\ scene' = scene
      /\ pc' = "refill" /\ slot'[1] = h
      /\ hostWorkers' = hostWorkers
      /\ FreeAppTag(h, Head(msgQ).tag)
  <2>1. Head(msgQ).host \in Hosts
    BY AnswerHead DEF AnswerThenRefill
  <2> QED
    BY <1>1, <2>1 DEF AnswerThenRefill, Handle, AllHandedOut, NotifyJobDone,
       AnswerSlot, sceneVars
<1>3. /\ link' = link /\ briefed' = briefed
      /\ routed' = [routed EXCEPT ![h] = @ \ {Head(msgQ).tag}]
  BY <1>2 DEF FreeAppTag
<1>4. /\ routed \in [Hosts -> SUBSET Tags] /\ current <= NumPixels
      /\ msgQ \in Seq(Answers \cup Exceptions)
  BY DEF TypeInv, TypeOK, LinkTypeOK, Bounded
<1>5. 1 \in DOMAIN msgQ /\ Head(msgQ) = msgQ[1]
  BY <1>2, <1>4, SeqTail
<1>6. h \in briefed
  <2>1. HeadLetter \in Mail /\ HeadLetter.cnt = Head(msgQ).cnt
    BY TakingMail DEF MailInv, Takes, HeadLetter, Letter
  <2>2. Head(msgQ).cnt # 0
    BY <1>2, <2>1 DEF WorklessInv
  <2> QED
    BY <1>1, <1>2, <1>5, <2>2 DEF BriefedInv, AnswerAt
<1>7. scene = "running" /\ current < NumPixels
  <2>1. scene # "none" /\ scene # "rejected" /\ scene # "finished"
    BY <1>2 DEF StageInv
  <2> QED
    BY <1>2, <1>4, <2>1, TrackerAssumption DEF TypeInv, TypeOK
<1>8. \A g \in Listed \cap briefed : Kept(g)
  BY <1>2, <1>7 DEF RouteInv
<1>9. Listed' = Listed /\ Listed \subseteq Hosts
  BY <1>2 DEF Listed, Range, TypeInv, TypeOK, TrackerTypeOK
<1>10. ASSUME NEW g \in Hosts, g \in Listed, Reported(g) PROVE Reported(g)'
  BY <1>7, <1>9, <1>10, ReportedStays
<1>11. KeptOne(h)'
  <2>1. Kept(h) /\ (Reported(h) => Reported(h)')
    BY <1>2, <1>6, <1>8, <1>10
  <2>2. routed'[h] = routed[h] \ {Head(msgQ).tag}
    BY <1>2, <1>3, <1>4
  <2> QED
    BY <1>3, <2>1, <2>2 DEF Kept, KeptOne
<1>12. ASSUME NEW g \in Listed \cap briefed, g # h PROVE Kept(g)'
  <2>1. Kept(g) /\ (Reported(g) => Reported(g)')
    BY <1>8, <1>9, <1>10
  <2>2. routed'[g] = routed[g]
    BY <1>3, <1>4, <1>9, <1>12
  <2> QED
    BY <1>3, <2>1, <2>2 DEF Kept
<1>13. KeptOne(slot[1])'
  BY <1>2, <1>11 DEF KeptOne, Reported
<1> QED
  BY <1>2, <1>3, <1>6, <1>9, <1>12, <1>13 DEF RouteInv

\* The host of a refill has its second tag again.
LEMMA RouteRefill ==
    ASSUME Safe, RouteInv, [Next]_vars, Refill
    PROVE  RouteInv'
<1> USE DEF Safe
<1>0. PICK s : s = slot
  OBVIOUS
<1>1. /\ pc = "refill" /\ s \in Slots /\ msgQ' = msgQ /\ pc' = "idle"
      /\ hostWorkers' = hostWorkers
      /\ \E off, cnt \in Nat : SendRequest(s, off, cnt)
  BY <1>0, RefillSends DEF JobInv
<1>2. PICK off \in Nat, cnt \in Nat : SendRequest(s, off, cnt)
  BY <1>1
<1>3. KeptOne(s[1]) /\ \A h \in Listed \cap briefed : h # s[1] => Kept(h)
  BY <1>0, <1>1 DEF RouteInv
<1>4. Kept(s[1])'
  BY <1>1, <1>2, <1>3, FreshRoute DEF MailInv
<1>5. ASSUME NEW h \in Listed' \cap briefed', h # s[1] PROVE Kept(h)'
  <2>1. ~AcceptScene /\ ~AnswerThenRefill /\ ~AnswerThenFinish
    BY <1>1 DEF AcceptScene, AnswerThenRefill, AnswerThenFinish, Handle
  <2>2. h \in Listed \cap briefed /\ scene = "running" /\ h \in Hosts
    BY <1>1, <1>5, <2>1, BriefedListed
       DEF StageInv, Listed, Range, TypeInv, TypeOK, TrackerTypeOK
  <2> QED
    BY <1>3, <1>5, <2>1, <2>2, RoutesStay
<1> QED
  BY <1>1, <1>4, <1>5 DEF RouteInv

LEMMA RouteInit == Init => RouteInv
BY DEF Init, RouteInv

LEMMA RouteStep ==
    ASSUME Safe, BriefedInv, WorklessInv, RouteInv, [Next]_vars
    PROVE  RouteInv'
<1> DEFINE place == UNCHANGED <<scene, pc, pos, slot, current>>
<1> USE DEF Safe
<1>1. CASE place /\ (AnswerThenWait \/ AnswerThenRedispatch)
  <2>1. pc = "idle" /\ current = NumPixels
    BY <1>1 DEF AnswerThenWait, AnswerThenRedispatch, Handle, AllHandedOut
  <2> QED
    BY <1>1, <2>1, TrackerAssumption DEF RouteInv
<1>2. CASE place /\ HandleDetachedAnswer
  <2>1. pc = "idle" /\ msgQ # <<>> /\ ~Head(msgQ).cmd
    BY <1>2 DEF HandleDetachedAnswer, Handle
  <2>2. scene # "running"
    BY <2>1, TailFacts DEF StageInv, TypeInv
  <2> QED
    BY <1>2, <2>1, <2>2 DEF RouteInv
<1>3. CASE RejectScene \/ AnswerThenFinish
  <2>1. pc' = "idle" /\ scene' # "running"
    BY <1>3 DEF RejectScene, AnswerThenFinish, Handle, placeVars
  <2> QED
    BY <2>1 DEF RouteInv
<1>4. CASE AcceptScene
  <2>1. pc' = "find" /\ pos' = Start /\ hostWorkers' = hostWorkers
    BY <1>4 DEF AcceptScene, trackerVars
  <2>2. pos'.round = 1 /\ pos'.index = 1 /\ pos'.pipe = 0
    BY <2>1 DEF Start
  <2>3. hostWorkers \in Seq(Hosts)
    BY DEF TypeInv, TypeOK, TrackerTypeOK
  <2>4. \A i \in DOMAIN hostWorkers' :
            ~(i < pos'.index \/ (i = pos'.index /\ pos'.pipe > 0))
    BY <2>1, <2>2, <2>3
  <2> QED
    BY <2>1, <2>2, <2>4 DEF RouteInv, KickOffRoutes
<1>5. place /\ (Idles \/ Outside) => RouteInv'
  BY RouteAway
<1>6. KickOffFind \/ KickOffNextRound => RouteInv'
  BY RouteFind
<1>7. KickOffAssign => RouteInv'
  BY RouteAssign
<1>8. AnswerThenRefill => RouteInv'
  BY RouteAnswer
<1>9. Refill => RouteInv'
  BY RouteRefill
<1> HIDE DEF place
<1> QED
  BY <1>1, <1>2, <1>3, <1>4, <1>5, <1>6, <1>7, <1>8, <1>9, PlaceMoves DEF place

\* A connection that is closed while the answer to a request is turned into a
\* refill (TCPIOConnection::Close against
\* SceneSchedulerDynamic::OnPixelProduceResponseMsg) has put its exception into
\* the queue, so that the job about to be sent will be recovered.
THEOREM RefillsAreReported == Spec => []ClosedRefillIsReported
<1> DEFINE Inv == Safe /\ BriefedInv /\ WorklessInv /\ RouteInv
<1>1. Init => Inv
  BY SafeInit, BriefedInit, RouteInit
<1>2. Inv /\ [Next]_vars => Inv'
  BY SafeStep, BriefedStep, WorklessStep, RouteStep DEF Safe, JobInv
<1>3. Inv => ClosedRefillIsReported
  BY DEF RouteInv, KeptOne, Reported, ExceptionAt, ClosedRefillIsReported
<1> QED
  BY <1>1, <1>2, <1>3, PTL DEF Spec

-----------------------------------------------------------------------------
(* The counter of pending answers                                          *)

\* The letters with work, and the tags that they carry.
Work == {l \in Mail : l.cnt # 0}

TagOf(l) == <<l.host, l.tag>>

Due == {TagOf(l) : l \in Work}

\* The tags that are taken and do not belong to a request without work.
Spent ==
    {x \in Hosts \X Tags :
        /\ x[2] \notin Range(freeTags[x[1]])
        /\ \A l \in Mail : TagOf(l) = x => l.cnt # 0}

\* What a request for the job [off, cnt] at pipeline s looks like.
Carries(l, s, off, cnt) ==
    l.host = s[1] /\ l.pipe = s[2] /\ l.off = off /\ l.cnt = cnt

\* Nothing has gone with a worker that failed: every pixel handed out has been
\* shipped or is in a request on its way, no job of a failed host waits, and
\* every tracked job has its request.
Traced ==
    /\ \A px \in 0 .. current - 1 :
           \/ \E j \in Shipped : px \in j.off .. j.off + j.cnt - 1
           \/ \E l \in Work : px \in l.off .. l.off + l.cnt - 1
    /\ failed = {}
    /\ \A s \in Slots : \A j \in tracked[s] : \E l \in Work : Carries(l, s, j.off, j.cnt)

\* The counter is at least the number of answers to come, and one more once
\* something has gone with a worker; it does not reach its modulus.
CountInv ==
    /\ Cardinality(Due) + (IF Traced THEN 0 ELSE 1) <= pending
    /\ pending <= Cardinality(Spent)

EndInv ==
    /\ scene = "finished" => pending = 0
    /\ cleaned # {} => scene = "finished"

\* A worker that has failed has no requests, and after its connection has been
\* given up there are no answers from it on their way.
Silent ==
    \A h \in Hosts :
        /\ link[h] # "up" => \A p \in Pipelines(h) : todo[<<h, p>>] = <<>>
        /\ link[h] \notin {"up", "crashed"} => resp[h] = <<>>

-----------------------------------------------------------------------------
(* Counting                                                                *)

LEMMA ModSmall ==
    ASSUME NEW m \in Nat \ {0}, NEW n \in Nat, n < m
    PROVE  n % m = n
OBVIOUS

\* Every letter is of a host and has a tag.
LEMMA LetterTypes ==
    ASSUME TypeInv, NEW l \in Mail
    PROVE  l.host \in Hosts /\ l.tag \in Tags
<1>1. CASE \E s \in Slots : l \in TodoMail(s)
  <2>1. PICK s \in Slots : \E i \in DOMAIN todo[s] : l = Letter(s[1], s[2], todo[s][i])
    BY <1>1 DEF TodoMail
  <2>2. PICK i \in DOMAIN todo[s] : l = Letter(s[1], s[2], todo[s][i])
    BY <2>1
  <2>3. todo[s] \in Seq(Requests)
    BY DEF TypeInv, TypeOK, LinkTypeOK
  <2>4. todo[s][i] \in Requests
    BY <2>3, ElementOfSeq
  <2> QED
    BY <2>2, <2>4, SlotFacts DEF Letter, Requests
<1>2. CASE \E h \in Hosts : l \in RespMail(h)
  <2>1. PICK h \in Hosts : \E i \in DOMAIN resp[h] : l = Letter(h, resp[h][i].pipe, resp[h][i])
    BY <1>2 DEF RespMail
  <2>2. PICK i \in DOMAIN resp[h] : l = Letter(h, resp[h][i].pipe, resp[h][i])
    BY <2>1
  <2>3. resp[h] \in Seq(Responses)
    BY DEF TypeInv, TypeOK, LinkTypeOK
  <2>4. resp[h][i] \in Responses
    BY <2>3, ElementOfSeq
  <2> QED
    BY <2>2, <2>4 DEF Letter, Responses
<1>3. CASE l \in QueueMail
  <2>1. PICK i \in DOMAIN msgQ : AnswerAt(i) /\ l = Letter(msgQ[i].host, msgQ[i].pipe, msgQ[i])
    BY <1>3 DEF QueueMail
  <2>2. msgQ \in Seq(Answers \cup Exceptions)
    BY DEF TypeInv, TypeOK
  <2>3. msgQ[i] \in Answers
    <3>1. msgQ[i] \in Answers \cup Exceptions
      BY <2>2, ElementOfSeq
    <3> QED
      BY <2>1, <3>1 DEF AnswerAt, Answers, Exceptions
  <2> QED
    BY <2>1, <2>3 DEF Letter, Answers
<1> QED
  BY <1>1, <1>2, <1>3, BoxFacts DEF Mail

\* There are fewer tags than numbers.
LEMMA TagsCount ==
    ASSUME NEW S \in SUBSET (Hosts \X Tags)
    PROVE  IsFiniteSet(S) /\ Cardinality(S) \in Nat /\ Cardinality(S) < UIntMod
<1>1. IsFiniteSet(Hosts) /\ NumTags \in Nat
  BY LinkAssumption
<1>2. IsFiniteSet(Tags) /\ Cardinality(Tags) = NumTags
  <2>1. IsFiniteSet(1 .. NumTags)
    BY <1>1, FS_Interval
  <2>2. Cardinality(1 .. NumTags) = IF 1 > NumTags THEN 0 ELSE NumTags - 1 + 1
    BY <1>1, FS_Interval
  <2> QED
    BY <1>1, <2>1, <2>2 DEF Tags
<1>3. /\ IsFiniteSet(Hosts \X Tags)
      /\ Cardinality(Hosts \X Tags) = Cardinality(Hosts) * Cardinality(Tags)
  BY <1>1, <1>2, FS_Product
<1>4. /\ IsFiniteSet(S)
      /\ Cardinality(S) <= Cardinality(Hosts \X Tags)
  BY <1>3, FS_Subset
<1>5. /\ Cardinality(S) \in Nat /\ Cardinality(Hosts) \in Nat
      /\ Cardinality(Hosts \X Tags) \in Nat
  BY <1>1, <1>3, <1>4, FS_CardinalityType
<1>6. Cardinality(Hosts \X Tags) < UIntMod
  BY <1>1, <1>2, <1>3, <1>5, CounterAssumption, TrackerAssumption
<1> QED
  BY <1>4, <1>5, <1>6, TrackerAssumption

\* The tags that are counted are tags, before and after a step.
CountTyped == Due \in SUBSET (Hosts \X Tags) /\ Spent \in SUBSET (Hosts \X Tags)

LEMMA CountTypedOnce == TypeInv => CountTyped
BY LetterTypes DEF CountTyped, Due, Work, TagOf, Spent

LEMMA CountTypes ==
    ASSUME TypeInv, TypeInv'
    PROVE  /\ Due \in SUBSET (Hosts \X Tags) /\ Spent \in SUBSET (Hosts \X Tags)
           /\ Due' \in SUBSET (Hosts \X Tags) /\ Spent' \in SUBSET (Hosts \X Tags)
<1>1. CountTyped
  BY CountTypedOnce
<1>2. CountTyped'
  BY CountTypedOnce, PTL
<1> QED
  BY <1>1, <1>2 DEF CountTyped

\* A set that lost an element, or gained one.
LEMMA CountLess ==
    ASSUME NEW S \in SUBSET (Hosts \X Tags), NEW T \in SUBSET S
    PROVE  /\ Cardinality(T) <= Cardinality(S)
           /\ T # S => Cardinality(T) + 1 <= Cardinality(S)
<1>1. IsFiniteSet(S) /\ Cardinality(S) \in Nat
  BY TagsCount
<1>2. T \in SUBSET (Hosts \X Tags)
  OBVIOUS
<1>3. IsFiniteSet(T) /\ Cardinality(T) \in Nat
  BY <1>2, TagsCount
<1>4. Cardinality(T) <= Cardinality(S) /\ (Cardinality(S) = Cardinality(T) => S = T)
  BY <1>1, FS_Subset
<1> QED
  BY <1>1, <1>3, <1>4

LEMMA CountOneMore ==
    ASSUME NEW S \in SUBSET (Hosts \X Tags), NEW x
    PROVE  /\ Cardinality(S \cup {x}) <= Cardinality(S) + 1
           /\ x \notin S => Cardinality(S \cup {x}) = Cardinality(S) + 1
           /\ x \in S => Cardinality(S \ {x}) + 1 = Cardinality(S)
           /\ Cardinality(S) <= Cardinality(S \ {x}) + 1
<1>1. IsFiniteSet(S) /\ Cardinality(S) \in Nat
  BY TagsCount
<1>2. Cardinality(S \cup {x}) = IF x \in S THEN Cardinality(S) ELSE Cardinality(S) + 1
  BY <1>1, FS_AddElement
<1>3. Cardinality(S \ {x}) = IF x \in S THEN Cardinality(S) - 1 ELSE Cardinality(S)
  BY <1>1, FS_RemoveElement
<1> QED
  BY <1>1, <1>2, <1>3

-----------------------------------------------------------------------------
(* What the steps do to the counter                                        *)

\* Nothing is counted, and of the requests some may be lost.
LEMMA CountQuiet ==
    ASSUME TypeInv, TypeInv', CountInv,
           Due' \subseteq Due, Spent \subseteq Spent', pending' = pending,
           Due' = Due /\ Traced => Traced'
    PROVE  CountInv'
<1>1. /\ Due \in SUBSET (Hosts \X Tags) /\ Spent' \in SUBSET (Hosts \X Tags)
      /\ Due' \in SUBSET (Hosts \X Tags) /\ Spent \in SUBSET (Hosts \X Tags)
  BY CountTypes
<1>2. /\ Cardinality(Due) \in Nat /\ Cardinality(Due') \in Nat
      /\ Cardinality(Spent) \in Nat /\ Cardinality(Spent') \in Nat
  BY <1>1, TagsCount
<1>3. /\ Cardinality(Due') <= Cardinality(Due)
      /\ Due' # Due => Cardinality(Due') + 1 <= Cardinality(Due)
  BY <1>1, CountLess
<1>4. Cardinality(Spent) <= Cardinality(Spent')
  BY <1>1, CountLess
<1>5. pending \in Nat
  BY DEF TypeInv, TypeOK
<1>6. pending <= Cardinality(Spent')
  BY <1>2, <1>4, <1>5 DEF CountInv
<1>7. Cardinality(Due') + (IF Traced' THEN 0 ELSE 1) <= pending
  <2>1. CASE Due' = Due
    BY <1>2, <1>5, <2>1 DEF CountInv
  <2>2. CASE Due' # Due
    BY <1>2, <1>3, <1>5, <2>2 DEF CountInv
  <2> QED
    BY <2>1, <2>2
<1> QED
  BY <1>6, <1>7 DEF CountInv

\* An answer with work is taken off the counter.
LEMMA CountTaken ==
    ASSUME TypeInv, TypeInv', CountInv, NEW x, x \in Due,
           Due' \subseteq Due \ {x}, Spent \ {x} \subseteq Spent',
           pending' = (pending - 1) % UIntMod,
           Due' = Due \ {x} /\ Traced => Traced'
    PROVE  CountInv'
<1>1. /\ Due \in SUBSET (Hosts \X Tags) /\ Spent' \in SUBSET (Hosts \X Tags)
      /\ Due' \in SUBSET (Hosts \X Tags) /\ Spent \in SUBSET (Hosts \X Tags)
      /\ Due \ {x} \in SUBSET (Hosts \X Tags) /\ Spent \ {x} \in SUBSET (Hosts \X Tags)
  BY CountTypes
<1>2. /\ Cardinality(Due) \in Nat /\ Cardinality(Due') \in Nat
      /\ Cardinality(Spent) \in Nat /\ Cardinality(Spent') \in Nat
      /\ Cardinality(Due \ {x}) \in Nat /\ Cardinality(Spent \ {x}) \in Nat
  BY <1>1, TagsCount
<1>3. /\ Cardinality(Due') <= Cardinality(Due \ {x})
      /\ Due' # Due \ {x} => Cardinality(Due') + 1 <= Cardinality(Due \ {x})
      /\ Cardinality(Due \ {x}) + 1 = Cardinality(Due)
  BY <1>1, CountLess, CountOneMore
<1>4. /\ Cardinality(Spent \ {x}) <= Cardinality(Spent')
      /\ Cardinality(Spent) <= Cardinality(Spent \ {x}) + 1
  BY <1>1, CountLess, CountOneMore
<1>5. pending \in 0 .. UIntMod - 1 /\ UIntMod \in Nat \ {0}
  BY TrackerAssumption DEF TypeInv, TypeOK
<1>6. pending >= 1
  BY <1>2, <1>3, <1>5 DEF CountInv
<1>7. pending' = pending - 1
  <2>1. pending - 1 \in Nat /\ pending - 1 < UIntMod
    BY <1>5, <1>6
  <2> QED
    BY <1>5, <2>1, ModSmall
<1>8. pending' <= Cardinality(Spent')
  BY <1>2, <1>4, <1>5, <1>7 DEF CountInv
<1>9. Cardinality(Due') + (IF Traced' THEN 0 ELSE 1) <= pending'
  <2>1. CASE Due' = Due \ {x}
    BY <1>2, <1>3, <1>5, <1>7, <2>1 DEF CountInv
  <2>2. CASE Due' # Due \ {x}
    BY <1>2, <1>3, <1>5, <1>7, <2>2 DEF CountInv
  <2> QED
    BY <2>1, <2>2
<1> QED
  BY <1>8, <1>9 DEF CountInv

\* A request with work is added to the counter.
LEMMA CountSent ==
    ASSUME TypeInv, TypeInv', CountInv, NEW x, x \notin Spent,
           Due' \subseteq Due \cup {x}, Spent \cup {x} \subseteq Spent',
           pending' = (pending + 1) % UIntMod,
           Due' = Due \cup {x} /\ Traced => Traced'
    PROVE  CountInv'
<1>1. /\ Due \in SUBSET (Hosts \X Tags) /\ Spent' \in SUBSET (Hosts \X Tags)
      /\ Due' \in SUBSET (Hosts \X Tags) /\ Spent \in SUBSET (Hosts \X Tags)
  BY CountTypes
<1>2. x \in Hosts \X Tags
  BY <1>1
<1>3. /\ Due \cup {x} \in SUBSET (Hosts \X Tags)
      /\ Spent \cup {x} \in SUBSET (Hosts \X Tags)
  BY <1>1, <1>2
<1>4. /\ Cardinality(Due) \in Nat /\ Cardinality(Due') \in Nat
      /\ Cardinality(Spent) \in Nat /\ Cardinality(Spent') \in Nat
      /\ Cardinality(Due \cup {x}) \in Nat /\ Cardinality(Spent \cup {x}) \in Nat
      /\ Cardinality(Spent') < UIntMod
  BY <1>1, <1>3, TagsCount
<1>5. /\ Cardinality(Due') <= Cardinality(Due \cup {x})
      /\ Due' # Due \cup {x} => Cardinality(Due') + 1 <= Cardinality(Due \cup {x})
      /\ Cardinality(Due \cup {x}) <= Cardinality(Due) + 1
  BY <1>1, <1>3, CountLess, CountOneMore
<1>6. /\ Cardinality(Spent \cup {x}) <= Cardinality(Spent')
      /\ Cardinality(Spent \cup {x}) = Cardinality(Spent) + 1
  BY <1>1, CountLess, CountOneMore
<1>7. pending \in 0 .. UIntMod - 1 /\ UIntMod \in Nat \ {0}
  BY TrackerAssumption DEF TypeInv, TypeOK
<1>8. pending' = pending + 1 /\ pending' <= Cardinality(Spent')
  <2>1. pending + 1 \in Nat /\ pending + 1 <= Cardinality(Spent')
    BY <1>4, <1>6, <1>7 DEF CountInv
  <2>2. pending + 1 < UIntMod
    BY <1>4, <1>7, <2>1
  <2> QED
    BY <1>7, <2>1, <2>2, ModSmall
<1>9. Cardinality(Due') + (IF Traced' THEN 0 ELSE 1) <= pending'
  <2>1. CASE Due' = Due \cup {x}
    BY <1>4, <1>5, <1>7, <1>8, <2>1 DEF CountInv
  <2>2. CASE Due' # Due \cup {x}
    BY <1>4, <1>5, <1>7, <1>8, <2>2 DEF CountInv
  <2> QED
    BY <2>1, <2>2
<1> QED
  BY <1>8, <1>9 DEF CountInv

\* The answer that brings a job of a failed host to another pipeline is taken
\* off the counter, and its request is added to it.
LEMMA CountResent ==
    ASSUME TypeInv, TypeInv', CountInv, NEW x, x \in Due, NEW y, ~Traced,
           Due' \subseteq (Due \ {x}) \cup {y}, Spent \subseteq Spent',
           pending' = (((pending - 1) % UIntMod) + 1) % UIntMod
    PROVE  CountInv'
<1>1. /\ Due \in SUBSET (Hosts \X Tags) /\ Spent' \in SUBSET (Hosts \X Tags)
      /\ Due' \in SUBSET (Hosts \X Tags) /\ Spent \in SUBSET (Hosts \X Tags)
      /\ Due \ {x} \in SUBSET (Hosts \X Tags)
  BY CountTypes
<1>2. /\ Cardinality(Due) \in Nat /\ Cardinality(Due') \in Nat
      /\ Cardinality(Spent) \in Nat /\ Cardinality(Spent') \in Nat
      /\ Cardinality(Due \ {x}) \in Nat
  BY <1>1, TagsCount
<1>3. Cardinality(Due \ {x}) + 1 = Cardinality(Due)
  BY <1>1, CountOneMore
<1>4. Cardinality(Due') <= Cardinality(Due \ {x}) + 1
  <2>1. CASE y \in Due'
    <3>1. Due' \ {y} \subseteq Due \ {x}
      OBVIOUS
    <3>2. Due' \ {y} \in SUBSET (Hosts \X Tags)
      BY <1>1
    <3>3. Cardinality(Due' \ {y}) <= Cardinality(Due \ {x})
      BY <1>1, <3>1, CountLess
    <3>4. Cardinality(Due' \ {y}) + 1 = Cardinality(Due')
      BY <1>1, <2>1, CountOneMore
    <3>5. Cardinality(Due' \ {y}) \in Nat
      BY <3>2, TagsCount
    <3> QED
      BY <1>2, <3>3, <3>4, <3>5
  <2>2. CASE y \notin Due'
    <3>1. Due' \subseteq Due \ {x}
      BY <2>2
    <3>2. Cardinality(Due') <= Cardinality(Due \ {x})
      BY <1>1, <3>1, CountLess
    <3> QED
      BY <1>2, <3>2
  <2> QED
    BY <2>1, <2>2
<1>5. Cardinality(Spent) <= Cardinality(Spent')
  BY <1>1, CountLess
<1>6. pending \in 0 .. UIntMod - 1 /\ UIntMod \in Nat \ {0}
  BY TrackerAssumption DEF TypeInv, TypeOK
<1>7. pending >= Cardinality(Due) + 1 /\ pending <= Cardinality(Spent)
  BY <1>2, <1>6 DEF CountInv
<1>8. pending' = pending
  <2>1. pending - 1 \in Nat /\ pending - 1 < UIntMod
    BY <1>2, <1>6, <1>7
  <2>2. (pending - 1) % UIntMod = pending - 1
    BY <1>6, <2>1, ModSmall
  <2>3. pending - 1 + 1 = pending /\ pending \in Nat /\ pending < UIntMod
    BY <1>6
  <2> QED
    BY <1>6, <2>2, <2>3, ModSmall
<1>9. Cardinality(Due') + 1 <= pending'
  BY <1>2, <1>3, <1>4, <1>6, <1>7, <1>8
<1>10. pending' <= Cardinality(Spent')
  BY <1>2, <1>5, <1>6, <1>7, <1>8
<1> QED
  BY <1>2, <1>6, <1>8, <1>9, <1>10 DEF CountInv
-----------------------------------------------------------------------------
(* Workers that have failed are silent                                     *)

\* Which steps change the requests of the pipelines.
LEMMA TodoMoves ==
    ASSUME TypeInv, MailInv, Apart(AllJobs, current), [Next]_vars
    PROVE  \/ todo' = todo
           \/ \E h \in Hosts : Perish(h)
           \/ \E s \in Slots : Respond(s)
           \/ \E s \in Slots, off, cnt \in Nat :
                  /\ SendRequest(s, off, cnt)
                  /\ NextJob(off, cnt) \/ NoJob(off, cnt) \/ FailedJob(off, cnt)
<1> USE DEF linkVars, wireVars, MailInv
<1>1. CASE Idles
  <2>1. ASSUME NEW f, Die(f) PROVE todo' = todo
    BY <2>1 DEF Die
  <2>2. CASE Request
    BY <2>1, <2>2 DEF Request, RejectScene, AcceptScene, AcceptDies
  <2>3. CASE AnswerDies \/ SendDies \/ ExceptionDies
    BY <2>1, <2>3 DEF AnswerDies, SendDies, ExceptionDies
  <2>4. CASE KickOffFind \/ KickOffNextRound \/ HandleException
    BY <2>4 DEF KickOffFind, KickOffNextRound, HandleException
  <2>5. CASE HandleDetachedException \/ UNCHANGED vars
    BY <2>5 DEF HandleDetachedException, Close, vars
  <2> QED
    BY <1>1, <2>2, <2>3, <2>4, <2>5 DEF Idles
<1>2. CASE Outside
  <2>1. ASSUME NEW h \in Hosts, Connection(h) \/ RegisterWorker(h) \/ Client(h)
        PROVE  todo' = todo
    BY <2>1 DEF Connection, Receive, ReportException, NoteFailure,
                CloseConnection, Close, RegisterWorker, Client, Deliver
  <2>2. ASSUME NEW h \in Hosts, WorkerDies(h) PROVE Perish(h)
    BY <2>2 DEF WorkerDies, Crash
  <2>3. ASSUME NEW s \in Slots, Worker(s)
        PROVE  todo' = todo \/ Respond(s) \/ \E h \in Hosts : Perish(h)
    BY <2>3, SlotFacts DEF Worker, ShipSegment, ProduceUnknownScene
  <2> QED
    BY <1>2, <2>1, <2>2, <2>3 DEF Outside
<1>3. CASE AnswerThenRefill \/ AnswerThenFinish \/ AnswerThenWait
           \/ HandleDetachedAnswer
  BY <1>3 DEF AnswerThenRefill, AnswerThenFinish, AnswerThenWait,
              HandleDetachedAnswer, FreeAppTag
<1>4. CASE KickOffAssign
  BY <1>4, KickOffSends
<1>5. CASE Refill
  <2>1. PICK s : s = slot
    OBVIOUS
  <2> QED
    BY <1>5, <2>1, RefillSends
<1>6. CASE AnswerThenRedispatch
  BY <1>6, RedispatchMail DEF Sends
<1> QED
  BY <1>1, <1>2, <1>3, <1>4, <1>5, <1>6, StepKinds

LEMMA SilentInit == Init => Silent
BY SlotFacts DEF Init, LinkInit, Silent, Slots

\* A worker that fails loses its requests, and is sent no others; its answers
\* have been read before its failure is reported.
LEMMA SilentStep ==
    ASSUME TypeInv, MailInv, Apart(AllJobs, current), OrderInv, Silent, [Next]_vars
    PROVE  Silent'
<1>0. /\ link \in [Hosts -> LinkStates] /\ todo \in [Slots -> Seq(Requests)]
      /\ resp \in [Hosts -> Seq(Responses)]
  BY DEF TypeInv, TypeOK, LinkTypeOK
<1>1. ASSUME NEW h \in Hosts, link'[h] # "up"
      PROVE  link[h] # "up" \/ (link'[h] = "crashed" /\ Perish(h))
  BY <1>1, LinkMoves
<1>2. ASSUME NEW h \in Hosts, NEW p \in Pipelines(h), link'[h] # "up"
      PROVE  todo'[<<h, p>>] = <<>>
  <2>1. PICK s \in Slots : s = <<h, p>> /\ s[1] = h
    BY SlotFacts
  <2>2. ASSUME NEW g \in Hosts, Perish(g), todo'[s] # <<>>
        PROVE  g # h /\ todo'[s] = todo[s]
    BY <2>1, <2>2 DEF Perish
  <2>3. ASSUME NEW g \in Slots, Respond(g) PROVE link[h] # "up" /\ todo'[s] = todo[s]
    <3>1. link' = link /\ link[g[1]] = "up"
      BY <2>3 DEF Respond
    <3>2. link[h] # "up" /\ g # s
      BY <1>2, <2>1, <3>1
    <3>3. \E q : todo' = [todo EXCEPT ![g] = q]
      BY <2>3 DEF Respond
    <3> QED
      BY <1>0, <3>2, <3>3
  <2>4. ASSUME NEW g \in Slots, NEW off \in Nat, NEW cnt \in Nat,
               SendRequest(g, off, cnt)
        PROVE  link[h] # "up" /\ todo'[s] = todo[s]
    <3>1. link' = link
      BY <2>4 DEF SendRequest
    <3>2. link[h] # "up"
      BY <1>2, <3>1
    <3>3. todo' = todo \/ (link[g[1]] = "up" /\ \E q : todo' = [todo EXCEPT ![g] = q])
      BY <2>4 DEF SendRequest
    <3> QED
      BY <1>0, <2>1, <3>2, <3>3
  <2>5. todo'[s] = <<>> \/ todo'[s] = todo[s]
    BY <2>2, <2>3, <2>4, TodoMoves
  <2>6. CASE link[h] # "up"
    BY <2>1, <2>5, <2>6 DEF Silent
  <2>7. CASE Perish(h)
    BY <2>1, <2>2, <2>7
  <2> QED
    BY <1>1, <1>2, <2>1, <2>6, <2>7
<1>3. ASSUME NEW h \in Hosts, link'[h] \notin {"up", "crashed"}
      PROVE  resp'[h] = <<>>
  <2>1. resp[h] = <<>>
    <3>1. CASE link[h] \notin {"up", "crashed"}
      BY <3>1 DEF Silent
    <3>2. CASE link[h] = "crashed"
      <4>1. ReportException(h)
        BY <1>3, <3>2, LinkMoves
      <4> QED
        BY <4>1 DEF ReportException
    <3>3. CASE link[h] = "up"
      BY <1>3, <3>3, LinkMoves
    <3> QED
      BY <3>1, <3>2, <3>3
  <2>2. ASSUME NEW g \in Hosts, Receive(g) PROVE resp'[h] = resp[h]
    <3>1. resp[g] # <<>> /\ resp' = [resp EXCEPT ![g] = Tail(@)]
      BY <2>2 DEF Receive
    <3> QED
      BY <1>0, <2>1, <3>1
  <2>3. ASSUME NEW g \in Hosts, Perish(g) PROVE resp'[h] = resp[h]
    <3>1. g # h
      BY <1>0, <1>3, <2>3 DEF Perish
    <3> QED
      BY <1>0, <2>3, <3>1 DEF Perish
  <2>4. ASSUME NEW s \in Slots, Respond(s) PROVE resp'[h] = resp[h]
    <3>1. link' = link /\ link[s[1]] = "up" /\ \E q : resp' = [resp EXCEPT ![s[1]] = q]
      BY <2>4 DEF Respond
    <3>2. h # s[1]
      BY <1>3, <3>1
    <3> QED
      BY <1>0, <3>1, <3>2
  <2>5. resp'[h] = resp[h]
    BY <2>2, <2>3, <2>4, WorkerMoves DEF ShipSegment
  <2> QED
    BY <2>1, <2>5
<1> QED
  BY <1>2, <1>3 DEF Silent

-----------------------------------------------------------------------------
(* Letters with work, and pixels that are accounted for                    *)

\* A letter with work is still there if its tag is still counted.
LEMMA WorkKept ==
    ASSUME Once, NEW l \in Work, TagOf(l) \in Due',
           \A k \in Work' : k \in Work \/ TagOf(k) # TagOf(l)
    PROVE  l \in Work'
<1>1. PICK k \in Work' : TagOf(k)' = TagOf(l)
  BY DEF Due, TagOf
<1>2. TagOf(k)' = TagOf(k)
  BY DEF TagOf
<1>3. k \in Work /\ Same(l, k)
  BY <1>1, <1>2 DEF TagOf, Same
<1>4. k = l
  BY <1>3, OneLetter DEF Work
<1> QED
  BY <1>1, <1>4

\* When the pixels handed out are still all accounted for.
LEMMA TracedStays ==
    ASSUME Traced, Shipped \subseteq Shipped', failed' = {},
           TypeInv, TypeInv',
           \A l \in Work : l \in Work' \/ JobOf(l) \in Shipped',
           \A px \in current .. current' - 1 :
               \E l \in Work' : px \in l.off .. l.off + l.cnt - 1,
           \A s \in Slots : \A j \in tracked'[s] :
               \/ \E l \in Work' : Carries(l, s, j.off, j.cnt)
               \/ /\ j \in tracked[s]
                  /\ \A l \in Work : Carries(l, s, j.off, j.cnt) => l \in Work'
    PROVE  Traced'
<1>1. current \in Nat /\ current' \in Nat
  BY DEF TypeInv, TypeOK
<1>2. PICK n \in Nat : n = current'
  BY <1>1
<1>3. ASSUME NEW px \in 0 .. n - 1
      PROVE  \/ \E j \in Shipped' : px \in j.off .. j.off + j.cnt - 1
             \/ \E l \in Work' : px \in l.off .. l.off + l.cnt - 1
  <2>1. CASE px < current
    <3>1. px \in 0 .. current - 1
      BY <1>1, <2>1
    <3>2. CASE \E j \in Shipped : px \in j.off .. j.off + j.cnt - 1
      BY <3>2
    <3>3. CASE \E l \in Work : px \in l.off .. l.off + l.cnt - 1
      <4>1. PICK l \in Work : px \in l.off .. l.off + l.cnt - 1
        BY <3>3
      <4>2. CASE JobOf(l) \in Shipped'
        BY <4>1, <4>2 DEF JobOf
      <4> QED
        BY <4>1, <4>2
    <3> QED
      BY <3>1, <3>2, <3>3 DEF Traced
  <2>2. CASE ~(px < current)
    <3>1. px \in current .. n - 1
      BY <1>1, <2>2
    <3> QED
      BY <1>2, <3>1
  <2> QED
    BY <2>1, <2>2
<1>4. ASSUME NEW s \in Slots, NEW j \in tracked'[s]
      PROVE  \E l \in Work' : Carries(l, s, j.off, j.cnt)
  BY <1>4 DEF Traced
<1> QED
  BY <1>2, <1>3, <1>4 DEF Traced, Carries

\* Nothing is counted.
LEMMA QuietCount ==
    ASSUME TypeInv, TypeInv', JobInv, MailInv, CountInv, [Next]_vars,
           Work' \subseteq Work, Spent \subseteq Spent',
           UNCHANGED <<pending, current>>, Traced => failed' = {},
           \A s \in Slots : tracked'[s] \subseteq tracked[s]
    PROVE  CountInv'
<1>1. Due' \subseteq Due
  BY DEF Due, TagOf
<1>2. ASSUME Due' = Due, Traced PROVE Traced'
  <2>1. \A l \in Work : l \in Work'
    <3> SUFFICES ASSUME NEW l \in Work PROVE l \in Work'
      OBVIOUS
    <3>1. TagOf(l) \in Due'
      BY <1>2 DEF Due
    <3> QED
      BY <3>1, WorkKept DEF MailInv
  <2>2. current .. current' - 1 = {}
    BY DEF TypeInv, TypeOK
  <2> QED
    BY <1>2, <2>1, <2>2, TracedStays, ShippedStays
<1> QED
  BY <1>1, <1>2, CountQuiet

\* The answer to a request with work is taken from the queue.
LEMMA TakenCount ==
    ASSUME TypeInv, TypeInv', JobInv, MailInv, AnswersShipped, CountInv,
           [Next]_vars, Takes, Mail' \subseteq Mail, Head(msgQ).cnt # 0,
           Spent \ {TagOf(HeadLetter)} \subseteq Spent',
           pending' = (pending - 1) % UIntMod,
           UNCHANGED <<current, failed>>,
           tracked' = Untracked(AnswerSlot, Head(msgQ).off)
    PROVE  CountInv'
<1>1. PICK x : x = HeadLetter
  OBVIOUS
<1>2. /\ x \in Work
      /\ \A k \in Mail' : ~Same(k, x)
      /\ x.host = AnswerSlot[1] /\ x.pipe = AnswerSlot[2] /\ x.off = Head(msgQ).off
      /\ JobOf(x) = JobOf(Head(msgQ))
  BY <1>1 DEF Takes, Work, HeadLetter, Letter, AnswerSlot, JobOf
<1>3. JobOf(x) \in Shipped
  <2>1. Head(msgQ) = msgQ[1] /\ 1 \in DOMAIN msgQ /\ AnswerAt(1)
    BY TailFacts DEF Takes, TypeInv
  <2> QED
    BY <1>2, <2>1 DEF AnswersShipped
<1>4. PICK t : t = TagOf(x)
  OBVIOUS
<1>5. /\ t \in Due
      /\ Work' \subseteq Work
      /\ \A k \in Work' : TagOf(k) # t
  BY <1>2, <1>4 DEF Due, Work, TagOf, Same
<1>6. Due' \subseteq Due \ {t}
  BY <1>5 DEF Due, TagOf
<1>7. ASSUME Due' = Due \ {t}, Traced PROVE Traced'
  <2>1. \A l \in Work : l \in Work' \/ l = x
    <3> SUFFICES ASSUME NEW l \in Work, l # x PROVE l \in Work'
      OBVIOUS
    <3>1. ~Same(l, x)
      BY <1>2, OneLetter DEF MailInv, Work
    <3>2. TagOf(l) \in Due'
      BY <1>4, <1>7, <3>1 DEF Due, TagOf, Same
    <3> QED
      BY <1>5, <3>2, WorkKept DEF MailInv
  <2>2. current .. current' - 1 = {} /\ failed' = {}
    BY <1>7 DEF TypeInv, TypeOK, Traced
  <2>3. ASSUME NEW s \in Slots, NEW j \in tracked'[s]
        PROVE  j \in tracked[s] /\ ~Carries(x, s, j.off, j.cnt)
    <3>1. tracked \in [Slots -> SUBSET Jobs] /\ s = <<s[1], s[2]>>
      BY SlotFacts DEF TypeInv, TypeOK, TrackerTypeOK
    <3>2. j \in tracked[s] /\ (s = AnswerSlot => j.off # Head(msgQ).off)
      BY <2>3, <3>1 DEF Untracked
    <3>3. AnswerSlot = <<AnswerSlot[1], AnswerSlot[2]>>
      BY DEF AnswerSlot
    <3> QED
      BY <1>2, <3>1, <3>2, <3>3 DEF Carries
  <2> QED
    BY <1>3, <1>7, <2>1, <2>2, <2>3, TracedStays, ShippedStays
<1> QED
  BY <1>1, <1>4, <1>5, <1>6, <1>7, CountTaken

\* A request with work is sent: for the next pixels of the scene, or for a job
\* of a failed host.
LEMMA SentCount ==
    ASSUME TypeInv, TypeInv', JobInv, MailInv, CountInv, [Next]_vars,
           NEW s \in Slots, NEW off \in Nat, NEW cnt \in Nat \ {0},
           SendRequest(s, off, cnt),
           Mail' \subseteq Mail \cup {NewLetter(s, off, cnt)},
           NEW t, t = TagOf(NewLetter(s, off, cnt)), t \notin Spent,
           Spent \cup {t} \subseteq Spent',
           pending' = (pending + 1) % UIntMod,
           Traced => NextJob(off, cnt) /\ Counted(s, off, cnt)
    PROVE  CountInv'
<1>1. PICK x : x = NewLetter(s, off, cnt)
  OBVIOUS
<1>2. /\ \A k \in Mail : ~Same(k, x)
      /\ x.host = s[1] /\ x.pipe = s[2] /\ x.off = off /\ x.cnt = cnt
  BY <1>1, FreshTag DEF NewLetter, MailInv, SendRequest
<1>3. Work' \subseteq Work \cup {x}
  BY <1>1 DEF Work
<1>4. Due' \subseteq Due \cup {t}
  BY <1>1, <1>3 DEF Due, TagOf
<1>5. ASSUME Due' = Due \cup {t}, Traced PROVE Traced'
  <2>1. x \in Work'
    <3>1. PICK k \in Work' : TagOf(k) = t
      BY <1>5 DEF Due, TagOf
    <3>2. k \notin Work
      BY <1>1, <1>2, <3>1 DEF Work, TagOf, Same
    <3> QED
      BY <1>3, <3>2
  <2>2. \A l \in Work : l \in Work'
    <3> SUFFICES ASSUME NEW l \in Work PROVE l \in Work'
      OBVIOUS
    <3>1. TagOf(l) \in Due'
      BY <1>5 DEF Due
    <3>2. TagOf(x) # TagOf(l)
      BY <1>2 DEF Work, TagOf, Same
    <3> QED
      BY <1>3, <3>1, <3>2, WorkKept DEF MailInv
  <2>3. off = current /\ current' = current + cnt /\ failed' = {}
    BY <1>5 DEF NextJob, Traced
  <2>4. \A px \in current .. current' - 1 : px \in x.off .. x.off + x.cnt - 1
    BY <1>2, <2>3
  <2>5. ASSUME NEW g \in Slots, NEW j \in tracked'[g]
        PROVE  j \in tracked[g] \/ Carries(x, g, j.off, j.cnt)
    <3>1. tracked \in [Slots -> SUBSET Jobs]
      BY DEF TypeInv, TypeOK, TrackerTypeOK
    <3>2. j \in tracked[g] \/ (g = s /\ j = [off |-> off, cnt |-> cnt])
      BY <1>5, <2>5, <3>1 DEF Counted
    <3> QED
      BY <1>2, <3>2 DEF Carries
  <2> QED
    BY <1>5, <2>1, <2>2, <2>3, <2>4, <2>5, TracedStays, ShippedStays
<1> QED
  BY <1>4, <1>5, CountSent

-----------------------------------------------------------------------------
(* Tags that are taken                                                     *)

\* No tag is freed or taken.
LEMMA SpentQuiet ==
    ASSUME Mail' \subseteq Mail, freeTags' = freeTags
    PROVE  Spent \subseteq Spent'
BY DEF Spent, TagOf

\* The tag of the answer that is handled is freed; it was not counted if the
\* answer is to a request without work.
LEMMA SpentFreed ==
    ASSUME TypeInv, Takes, FreeAppTag(Head(msgQ).host, Head(msgQ).tag),
           Mail' \subseteq Mail
    PROVE  /\ Spent \ {TagOf(HeadLetter)} \subseteq Spent'
           /\ Head(msgQ).cnt = 0 => Spent \subseteq Spent'
<1>1. PICK h \in Hosts, t \in Tags : h = Head(msgQ).host /\ t = Head(msgQ).tag
  BY DEF Takes, HeadLetter, Letter
<1>2. TagOf(HeadLetter) = <<h, t>> /\ HeadLetter.cnt = Head(msgQ).cnt
  BY <1>1 DEF TagOf, HeadLetter, Letter
<1>3. /\ freeTags \in [Hosts -> Seq(Tags)]
      /\ freeTags' = [freeTags EXCEPT ![h] = Append(@, t)]
  BY <1>1 DEF TypeInv, TypeOK, LinkTypeOK, FreeAppTag
<1>4. ASSUME NEW x \in Spent, x # <<h, t>> PROVE x \in Spent'
  <2>1. x \in Hosts \X Tags /\ x[2] \notin Range(freeTags[x[1]])
    BY <1>4 DEF Spent
  <2>2. x[2] \notin Range(freeTags'[x[1]])
    <3>1. CASE x[1] # h
      BY <1>3, <2>1, <3>1
    <3>2. CASE x[1] = h
      <4>1. freeTags[h] \in Seq(Tags) /\ freeTags'[h] = Append(freeTags[h], t)
        BY <1>3
      <4>2. Range(freeTags'[h]) \subseteq Range(freeTags[h]) \cup {t}
        BY <4>1 DEF Range
      <4>3. x[2] # t
        BY <1>4, <2>1, <3>2
      <4> QED
        BY <2>1, <3>2, <4>2, <4>3
    <3> QED
      BY <3>1, <3>2
  <2> QED
    BY <1>4, <2>1, <2>2 DEF Spent, TagOf
<1>5. Head(msgQ).cnt = 0 => <<h, t>> \notin Spent
  BY <1>2 DEF Spent, Takes
<1> QED
  BY <1>2, <1>4, <1>5

\* A request takes a tag, which is counted if the request is with work.
LEMMA SpentSent ==
    ASSUME TypeInv, MailInv, NEW s \in Slots, NEW off \in Nat, NEW cnt \in Nat,
           SendRequest(s, off, cnt),
           Mail' \subseteq Mail \cup {NewLetter(s, off, cnt)},
           NEW t, t = TagOf(NewLetter(s, off, cnt))
    PROVE  /\ t \notin Spent /\ Spent \subseteq Spent'
           /\ cnt # 0 => t \in Spent'
<1>1. PICK h \in Hosts : h = s[1]
  BY SlotFacts
<1>2. PICK x : x = NewLetter(s, off, cnt)
  OBVIOUS
<1>3. /\ freeTags \in [Hosts -> Seq(Tags)] /\ freeTags[h] # <<>>
      /\ freeTags' = [freeTags EXCEPT ![h] = Tail(@)]
      /\ IsInjective(freeTags[h])
  BY <1>1 DEF TypeInv, TypeOK, LinkTypeOK, SendRequest, AllocateAppTag,
              MailInv, TagInv
<1>4. /\ Head(freeTags[h]) \in Range(freeTags[h])
      /\ Head(freeTags[h]) \in Tags
      /\ \A k \in Mail : ~Same(k, x)
  BY <1>1, <1>2, <1>3, FreshTag DEF MailInv
<1>5. t = <<h, Head(freeTags[h])>> /\ TagOf(x) = t /\ x.cnt = cnt
  BY <1>1, <1>2 DEF NewLetter, TagOf
<1>6. freeTags[h] \in Seq(Tags) /\ freeTags'[h] = Tail(freeTags[h])
  BY <1>3
<1>7. /\ Range(freeTags'[h]) \subseteq Range(freeTags[h])
      /\ Head(freeTags[h]) \notin Range(freeTags'[h])
  BY <1>3, <1>6, TagTaken
<1>8. t \notin Spent
  BY <1>4, <1>5 DEF Spent
<1>9. ASSUME NEW y \in Spent PROVE y \in Spent'
  <2>1. y \in Hosts \X Tags /\ y[2] \notin Range(freeTags[y[1]]) /\ y # t
    BY <1>8 DEF Spent
  <2>2. y[2] \notin Range(freeTags'[y[1]])
    BY <1>3, <1>7, <2>1
  <2> QED
    BY <1>2, <1>5, <1>9, <2>1, <2>2 DEF Spent, TagOf
<1>10. ASSUME cnt # 0 PROVE t \in Spent'
  <2>1. t \in Hosts \X Tags /\ t[2] \notin Range(freeTags'[t[1]])
    BY <1>4, <1>5, <1>7
  <2>2. \A l \in Mail' : TagOf(l) = t => l = x
    BY <1>2, <1>4, <1>5 DEF TagOf, Same
  <2> QED
    BY <1>5, <1>10, <2>1, <2>2 DEF Spent, TagOf
<1> QED
  BY <1>8, <1>9, <1>10

-----------------------------------------------------------------------------
(* The counter in every step                                               *)

\* Which steps change the counter, the jobs and the end of the scene.
LEMMA CountMoves ==
    ASSUME [Next]_vars
    PROVE  \/ /\ UNCHANGED <<pending, current, failed, tracked, cleaned>>
              /\ scene' = scene \/ RejectScene
              /\ Idles \/ Outside
           \/ AcceptScene \/ HandleException
           \/ AnswerThenRefill \/ AnswerThenFinish \/ AnswerThenWait
           \/ HandleDetachedAnswer
           \/ KickOffAssign \/ Refill \/ AnswerThenRedispatch
<1> DEFINE same == /\ UNCHANGED <<pending, current, failed, tracked, cleaned>>
                   /\ scene' = scene \/ RejectScene
<1> USE DEF trackerVars, jobVars, sceneVars
<1>1. ASSUME NEW f, Die(f) PROVE same
  BY <1>1 DEF Die
<1>2. CASE Idles
  <2>1. Request => same \/ AcceptScene
    BY <1>1 DEF Request, RejectScene, AcceptDies
  <2>2. AnswerDies \/ SendDies \/ ExceptionDies => same
    BY <1>1 DEF AnswerDies, SendDies, ExceptionDies
  <2>3. KickOffFind \/ KickOffNextRound => same
    BY DEF KickOffFind, KickOffNextRound
  <2>4. HandleDetachedException => same
    BY DEF HandleDetachedException, NotifyHostFailure
  <2>5. UNCHANGED vars => same
    BY DEF vars
  <2>6. same \/ AcceptScene \/ HandleException
    BY <1>2, <2>1, <2>2, <2>3, <2>4, <2>5 DEF Idles
  <2> QED
    BY <1>2, <2>6
<1>3. CASE Outside
  <2>1. ASSUME NEW h \in Hosts,
               Connection(h) \/ RegisterWorker(h) \/ Client(h) \/ WorkerDies(h)
        PROVE  same
    BY <2>1 DEF Connection, Receive, ReportException, NoteFailure, CloseConnection,
                NotifyHostFailure, RegisterWorker, AddWorker, Client, WorkerDies
  <2>2. ASSUME NEW s \in Slots, Worker(s) PROVE same
    BY <2>2 DEF Worker
  <2>3. same
    BY <1>3, <2>1, <2>2 DEF Outside
  <2> QED
    BY <1>3, <2>3
<1> QED
  BY <1>2, <1>3, StepKinds

\* What the proofs of the counter rely on.
Counting == Safe /\ Covered /\ Silent /\ CountInv

\* A scene that is accepted starts with nothing on its way.
LEMMA CountAccept ==
    ASSUME Counting, TypeInv', [Next]_vars, AcceptScene
    PROVE  CountInv'
<1> USE DEF Counting, Safe, MailInv
<1>1. Mail = {} /\ AllJobs = {}
  BY DEF AcceptScene, StageInv, JobInv, Fresh
<1>2. Mail' = {}
  BY <1>1, IdleMail DEF Idles, Request, Quiet
<1>3. Due' = {} /\ pending' = 0 /\ current' = 0
  BY <1>2 DEF Due, Work, AcceptScene
<1>4. UNCHANGED <<failed, tracked>>
  BY DEF AcceptScene, trackerVars
<1>5. failed' = {} /\ \A s \in Slots : tracked'[s] = {}
  BY <1>1, <1>4, JobSets
<1>6. Traced'
  <2>1. 0 .. current' - 1 = {}
    BY <1>3
  <2> QED
    BY <1>5, <2>1 DEF Traced
<1>7. Cardinality(Due') = 0
  BY <1>3, FS_EmptySet
<1>8. Spent' \in SUBSET (Hosts \X Tags)
  BY DEF Spent
<1>9. Cardinality(Spent') \in Nat
  BY <1>8, TagsCount
<1> QED
  BY <1>3, <1>6, <1>7, <1>9 DEF CountInv

\* The exception of a connection is handled: a worker that has failed has
\* neither requests nor answers left, so that a job tracked for it is lost.
LEMMA CountException ==
    ASSUME Counting, TypeInv', [Next]_vars, HandleException
    PROVE  CountInv'
<1> USE DEF Counting, Safe, MailInv
<1>1. PICK h : h = Head(msgQ).host
  OBVIOUS
<1>2. /\ msgQ # <<>> /\ Head(msgQ).kind = "exception" /\ h # NoHost
      /\ failed' = IF h \in Listed THEN WithFailed(failed, JobsOf(h)) ELSE failed
      /\ RemoveFailedJobs(h) /\ msgQ' = Tail(msgQ)
      /\ UNCHANGED <<linkVars, current, pending>>
  BY <1>1 DEF HandleException, Handle
<1>3. h \in Hosts /\ link[h] = "closed"
  <2>1. h \in Hosts
    BY <1>1, <1>2, HeadFacts DEF TypeInv
  <2> QED
    BY <1>1, <1>2, <2>1, TailFacts DEF OrderInv, ExceptionAt, TypeInv
<1>4. Mail' \subseteq Mail /\ freeTags' = freeTags
  BY IdleMail DEF Idles, Quiet
<1>5. Work' \subseteq Work /\ Spent \subseteq Spent'
  BY <1>4, SpentQuiet DEF Work
<1>6. \A s \in Slots : tracked'[s] \subseteq tracked[s]
  BY <1>2 DEF RemoveFailedJobs, trackerVars
<1>7. \A l \in Mail : l.host # h
  <2> SUFFICES ASSUME NEW l \in Mail PROVE l.host # h
    OBVIOUS
  <2>1. CASE \E s \in Slots : l \in TodoMail(s)
    <3>1. PICK s \in Slots : \E i \in DOMAIN todo[s] : l = Letter(s[1], s[2], todo[s][i])
      BY <2>1 DEF TodoMail
    <3>2. PICK i \in DOMAIN todo[s] : l = Letter(s[1], s[2], todo[s][i])
      BY <3>1
    <3>3. l.host = s[1] /\ s[2] \in Pipelines(s[1]) /\ s = <<s[1], s[2]>>
      BY <3>2, SlotFacts DEF Letter
    <3>4. s[1] = h => todo[s] = <<>>
      BY <1>3, <3>3 DEF Silent
    <3>5. todo[s] # <<>>
      BY <3>2
    <3> QED
      BY <3>3, <3>4, <3>5
  <2>2. CASE \E g \in Hosts : l \in RespMail(g)
    <3>1. PICK g \in Hosts : \E i \in DOMAIN resp[g] : l = Letter(g, resp[g][i].pipe, resp[g][i])
      BY <2>2 DEF RespMail
    <3>2. l.host = g /\ resp[g] # <<>>
      BY <3>1 DEF Letter
    <3>3. resp[h] = <<>>
      BY <1>3 DEF Silent
    <3> QED
      BY <3>2, <3>3
  <2>3. CASE l \in QueueMail
    <3>1. PICK i \in DOMAIN msgQ : AnswerAt(i) /\ l = Letter(msgQ[i].host, msgQ[i].pipe, msgQ[i])
      BY <2>3 DEF QueueMail
    <3>2. l.host = msgQ[i].host
      BY <3>1 DEF Letter
    <3>3. Head(msgQ) = msgQ[1] /\ 1 \in DOMAIN msgQ
      BY <1>2, TailFacts DEF TypeInv
    <3>4. msgQ \in Seq(Answers \cup Exceptions)
      BY DEF TypeInv, TypeOK
    <3>5. i \in Nat /\ 1 <= i
      BY <3>4
    <3>6. 1 < i
      BY <1>2, <3>1, <3>3, <3>5 DEF AnswerAt
    <3> QED
      BY <1>1, <1>2, <3>1, <3>2, <3>3, <3>6 DEF AnswerAt, OrderInv, AnswersBeforeException
  <2> QED
    BY <2>1, <2>2, <2>3, BoxFacts DEF Mail
<1>8. Traced => failed' = {}
  <2> SUFFICES ASSUME Traced PROVE failed' = {}
    OBVIOUS
  <2>1. \A p \in Pipelines(h) : tracked[<<h, p>>] = {}
    <3> SUFFICES ASSUME NEW p \in Pipelines(h), NEW j \in tracked[<<h, p>>] PROVE FALSE
      OBVIOUS
    <3>1. PICK s \in Slots : s = <<h, p>>
      BY <1>3, SlotFacts
    <3>2. PICK l \in Work : Carries(l, s, j.off, j.cnt)
      BY <3>1 DEF Traced
    <3> QED
      BY <1>7, <3>1, <3>2 DEF Carries, Work
  <2>2. JobsOf(h) = {}
    BY <2>1 DEF JobsOf
  <2> QED
    BY <1>2, <2>2 DEF WithFailed, Traced
<1> QED
  BY <1>2, <1>5, <1>6, <1>8, QuietCount

\* An answer is taken from the queue, and nothing is sent.
LEMMA CountAnswer ==
    ASSUME Counting, TypeInv', [Next]_vars,
           AnswerThenRefill \/ AnswerThenFinish \/ AnswerThenWait
    PROVE  CountInv'
<1> USE DEF Counting, Safe, MailInv
<1>1. /\ Mail' \subseteq Mail /\ Takes
  BY TakingMail
<1>2. /\ pending' = PendingAfter
      /\ UNCHANGED <<current, failed>>
      /\ tracked' = Untracked(AnswerSlot, Head(msgQ).off)
  BY DEF AnswerThenRefill, AnswerThenFinish, AnswerThenWait, NotifyJobDone
<1>3. /\ Spent \ {TagOf(HeadLetter)} \subseteq Spent'
      /\ Head(msgQ).cnt = 0 => Spent \subseteq Spent'
  <2>1. CASE AnswerThenWait
    BY <1>1, <2>1, SpentQuiet DEF AnswerThenWait, linkVars
  <2>2. CASE AnswerThenRefill \/ AnswerThenFinish
    <3>1. FreeAppTag(Head(msgQ).host, Head(msgQ).tag)
      BY <2>2 DEF AnswerThenRefill, AnswerThenFinish
    <3> QED
      BY <1>1, <3>1, SpentFreed
  <2> QED
    BY <2>1, <2>2
<1>4. CASE Head(msgQ).cnt # 0
  BY <1>1, <1>2, <1>3, <1>4, TakenCount DEF PendingAfter, Covered
<1>5. CASE Head(msgQ).cnt = 0
  <2>1. pending' = pending
    BY <1>2, <1>5 DEF PendingAfter
  <2>2. \A s \in Slots : tracked'[s] \subseteq tracked[s]
    BY <1>2 DEF Untracked, TypeInv, TypeOK, TrackerTypeOK
  <2>3. Work' \subseteq Work
    BY <1>1 DEF Work
  <2>4. Traced => failed' = {}
    BY <1>2 DEF Traced
  <2> QED
    BY <1>2, <1>3, <1>5, <2>1, <2>2, <2>3, <2>4, QuietCount
<1> QED
  BY <1>4, <1>5

\* The kick-off sends requests, with work as long as there are pixels.
LEMMA CountKickOff ==
    ASSUME Counting, TypeInv', [Next]_vars, KickOffAssign
    PROVE  CountInv'
<1> USE DEF Counting, Safe, MailInv
<1>1. PICK s \in Slots : s = <<hostWorkers[pos.index], pos.pipe>>
  BY KickOffSends
<1>2. PICK off \in Nat, cnt \in Nat :
          /\ SendRequest(s, off, cnt)
          /\ \/ Counted(s, off, cnt) /\ NextJob(off, cnt)
             \/ NoJob(off, cnt)
  BY <1>1, KickOffSends
<1>3. Mail' \subseteq Mail \cup {NewLetter(s, off, cnt)}
  BY <1>2, KickOffSends, SentMail DEF Sends
<1>4. PICK t : t = TagOf(NewLetter(s, off, cnt))
  OBVIOUS
<1>5. /\ t \notin Spent /\ Spent \subseteq Spent'
      /\ cnt # 0 => t \in Spent'
  BY <1>2, <1>3, <1>4, SpentSent
<1>6. CASE Counted(s, off, cnt) /\ NextJob(off, cnt)
  <2>1. cnt \in Nat \ {0} /\ Spent \cup {t} \subseteq Spent'
    BY <1>5, <1>6 DEF NextJob
  <2> QED
    BY <1>2, <1>3, <1>4, <1>5, <1>6, <2>1, SentCount DEF Counted
<1>7. CASE NoJob(off, cnt)
  <2>1. Work' \subseteq Work
    BY <1>3, <1>7 DEF Work, NewLetter, NoJob
  <2> QED
    BY <1>5, <1>7, <2>1, QuietCount DEF NoJob, Traced
<1> QED
  BY <1>2, <1>6, <1>7

\* A refill sends a request with work.
LEMMA CountRefill ==
    ASSUME Counting, TypeInv', [Next]_vars, Refill
    PROVE  CountInv'
<1> USE DEF Counting, Safe, MailInv, JobInv
<1>1. PICK s : s = slot
  OBVIOUS
<1>2. s \in Slots /\ msgQ' = msgQ
  BY <1>1, RefillSends
<1>3. PICK off \in Nat, cnt \in Nat :
          /\ SendRequest(s, off, cnt)
          /\ Counted(s, off, cnt)
          /\ NextJob(off, cnt) \/ FailedJob(off, cnt)
  BY <1>1, RefillSends
<1>4. Mail' \subseteq Mail \cup {NewLetter(s, off, cnt)}
  BY <1>2, <1>3, SentMail DEF Sends
<1>5. PICK t : t = TagOf(NewLetter(s, off, cnt))
  OBVIOUS
<1>6. cnt \in Nat \ {0}
  BY <1>3 DEF NextJob, FailedJob
<1>7. t \notin Spent /\ Spent \cup {t} \subseteq Spent'
  BY <1>2, <1>3, <1>4, <1>5, <1>6, SpentSent
<1>8. Traced => NextJob(off, cnt)
  BY <1>3 DEF Traced, FailedJob
<1>9. pending' = (pending + 1) % UIntMod
  BY <1>3 DEF Counted
<1> QED
  BY <1>2, <1>3, <1>4, <1>5, <1>6, <1>7, <1>8, <1>9, SentCount

\* A job of a failed host goes to the pipeline that has answered.
LEMMA CountRedispatch ==
    ASSUME Counting, TypeInv', [Next]_vars, AnswerThenRedispatch
    PROVE  CountInv'
<1> USE DEF Counting, Safe, MailInv, JobInv
<1>1. PICK s \in Slots : s = AnswerSlot
  BY RedispatchMail
<1>2. /\ Takes /\ failed # {}
      /\ pending' = (PendingAfter + 1) % UIntMod
  BY RedispatchMail
<1>3. PICK off \in Nat, cnt \in Nat : Sends(s, off, cnt) /\ FailedJob(off, cnt)
  BY <1>1, RedispatchMail
<1>4. /\ SendRequest(s, off, cnt) /\ cnt \in Nat \ {0}
      /\ Mail' \subseteq Mail \cup {NewLetter(s, off, cnt)}
  BY <1>3 DEF Sends, FailedJob
<1>5. ~Traced
  BY <1>2 DEF Traced
<1>6. PICK t : t = TagOf(NewLetter(s, off, cnt))
  OBVIOUS
<1>7. t \notin Spent /\ Spent \cup {t} \subseteq Spent'
  BY <1>4, <1>6, SpentSent
<1>8. CASE Head(msgQ).cnt = 0
  BY <1>2, <1>4, <1>5, <1>6, <1>7, <1>8, SentCount DEF PendingAfter
<1>9. CASE Head(msgQ).cnt # 0
  <2>1. PICK x : x = TagOf(HeadLetter)
    OBVIOUS
  <2>2. x \in Due
    BY <1>2, <1>9, <2>1 DEF Takes, Due, Work, HeadLetter, Letter
  <2>3. Due' \subseteq (Due \ {x}) \cup {t}
    <3>1. \A k \in Work' : TagOf(k) # x
      BY <1>2, <2>1 DEF Takes, Work, TagOf, Same
    <3>2. \A k \in Work' : k \in Work \/ TagOf(k) = t
      BY <1>4, <1>6 DEF Work
    <3> QED
      BY <3>1, <3>2 DEF Due, TagOf
  <2>4. Spent \subseteq Spent' /\ pending' = (((pending - 1) % UIntMod) + 1) % UIntMod
    BY <1>2, <1>7, <1>9 DEF PendingAfter
  <2> QED
    BY <1>5, <2>2, <2>3, <2>4, CountResent
<1> QED
  BY <1>8, <1>9

LEMMA CountStep ==
    ASSUME Counting, [Next]_vars
    PROVE  CountInv'
<1> USE DEF Counting, Safe, MailInv
<1>1. TypeInv'
  BY TypeStep
<1>2. CASE /\ UNCHANGED <<pending, current, failed, tracked, cleaned>>
           /\ Idles \/ Outside
  <2>1. Mail' \subseteq Mail /\ freeTags' = freeTags
    BY <1>2, IdleMail, OutsideMail DEF Quiet
  <2>2. Work' \subseteq Work /\ Spent \subseteq Spent'
    BY <2>1, SpentQuiet DEF Work
  <2> QED
    BY <1>1, <1>2, <2>2, QuietCount DEF Traced
<1>3. CASE HandleDetachedAnswer
  <2>1. /\ Mail' \subseteq Mail
        /\ UNCHANGED <<freeTags, pending, current, failed, tracked>>
    BY <1>3, TakingMail DEF HandleDetachedAnswer, linkVars, trackerVars, jobVars
  <2>2. Work' \subseteq Work /\ Spent \subseteq Spent'
    BY <2>1, SpentQuiet DEF Work
  <2> QED
    BY <1>1, <2>1, <2>2, QuietCount DEF Traced
<1> QED
  BY <1>1, <1>2, <1>3, CountMoves, CountAccept, CountException, CountAnswer,
     CountKickOff, CountRefill, CountRedispatch

-----------------------------------------------------------------------------
(* The end of a scene                                                      *)

\* When a scene is finished no answer is expected and nothing is lost.
LEMMA NothingDue ==
    ASSUME TypeInv, CountInv, pending = 0
    PROVE  Traced /\ Due = {} /\ Work = {}
<1>1. Due \in SUBSET (Hosts \X Tags)
  BY CountTypedOnce DEF CountTyped
<1>2. IsFiniteSet(Due) /\ Cardinality(Due) \in Nat
  BY <1>1, TagsCount
<1>3. Traced /\ Cardinality(Due) = 0
  BY <1>2 DEF CountInv
<1>4. Due = {}
  BY <1>2, <1>3, FS_EmptySet
<1> QED
  BY <1>3, <1>4 DEF Due

LEMMA EndStep ==
    ASSUME Counting, EndInv, [Next]_vars
    PROVE  EndInv'
<1> USE DEF Counting, Safe, MailInv
<1>1. CASE /\ UNCHANGED <<pending, cleaned>>
           /\ scene' = scene \/ RejectScene
  BY <1>1 DEF EndInv, RejectScene
<1>2. CASE AcceptScene
  BY <1>2 DEF AcceptScene, EndInv
<1>3. CASE HandleException \/ HandleDetachedAnswer
  BY <1>3 DEF HandleException, HandleDetachedAnswer, sceneVars, jobVars, EndInv
<1>4. CASE KickOffAssign \/ Refill
  <2>1. pc # "idle" /\ UNCHANGED <<scene, cleaned>>
    BY <1>4 DEF KickOffAssign, Refill, sceneVars
  <2> QED
    BY <2>1 DEF StageInv, EndInv
<1>5. CASE AnswerThenRefill
  <2>1. ~(current = NumPixels) /\ UNCHANGED <<scene, cleaned>>
    BY <1>5 DEF AnswerThenRefill, AllHandedOut, sceneVars
  <2> QED
    BY <2>1 DEF StageInv, EndInv
<1>6. CASE AnswerThenFinish
  BY <1>6 DEF AnswerThenFinish, EndInv
<1>7. CASE AnswerThenWait
  <2>1. pending' = PendingAfter /\ PendingAfter # 0 /\ UNCHANGED <<scene, cleaned>>
    BY <1>7 DEF AnswerThenWait, sceneVars
  <2>2. pending = 0 => Head(msgQ).cnt = 0
    <3> SUFFICES ASSUME pending = 0, Head(msgQ).cnt # 0 PROVE FALSE
      OBVIOUS
    <3>1. HeadLetter \in Work
      BY <1>7, TakingMail DEF Takes, Work, HeadLetter, Letter
    <3> QED
      BY <3>1, NothingDue
  <2>3. pending # 0
    BY <2>1, <2>2 DEF PendingAfter
  <2> QED
    BY <2>1, <2>3 DEF EndInv
<1>8. CASE AnswerThenRedispatch
  <2>1. failed # {} /\ UNCHANGED <<scene, cleaned>>
    BY <1>8 DEF AnswerThenRedispatch, sceneVars
  <2>2. pending # 0
    BY <2>1, NothingDue DEF Traced
  <2> QED
    BY <2>1, <2>2 DEF EndInv
<1> QED
  BY <1>1, <1>2, <1>3, <1>4, <1>5, <1>6, <1>7, <1>8, CountMoves

\* The inductive invariant of the theorems below.
Ending == Counting /\ EndInv

LEMMA EndingInit == Init => Ending
<1> SUFFICES ASSUME Init PROVE CountInv /\ EndInv
  BY SafeInit, CoveredInit, SilentInit DEF Ending, Counting
<1>1. /\ Mail = {} /\ current = 0 /\ pending = 0 /\ failed = {}
      /\ \A s \in Slots : tracked[s] = {}
      /\ scene = "none" /\ cleaned = {}
  BY NoMailAtFirst DEF Init, TrackerInit
<1>2. Due = {}
  BY <1>1 DEF Due, Work
<1>3. Traced
  BY <1>1 DEF Traced
<1>4. Cardinality(Due) = 0
  BY <1>2, FS_EmptySet
<1>5. Spent \in SUBSET (Hosts \X Tags)
  BY DEF Spent
<1>6. Cardinality(Spent) \in Nat
  BY <1>5, TagsCount
<1> QED
  BY <1>1, <1>3, <1>4, <1>6 DEF CountInv, EndInv

LEMMA EndingStep == Ending /\ [Next]_vars => Ending'
<1> SUFFICES ASSUME Ending, [Next]_vars PROVE Ending'
  OBVIOUS
<1> USE DEF Ending, Counting
<1>1. Safe'
  BY SafeStep
<1>2. Covered'
  BY CoveredStep, WorkersShipStep, AnswersShippedStep DEF Covered, Safe
<1>3. Silent'
  BY SilentStep DEF Safe, JobInv
<1> QED
  BY <1>1, <1>2, <1>3, CountStep, EndStep

LEMMA EndingHolds == Spec => []Ending
BY EndingInit, EndingStep, PTL DEF Spec

\* The counter of the answers still to come (m_NumPendingCompletionResponse) is
\* never lower than their number, whichever workers fail and whatever is sent
\* again: every one of them carries a tag of its own that is counted.
THEOREM CounterNeverTooLow == Spec => []PendingNeverTooLow
<1>1. Ending => PendingNeverTooLow
  <2> SUFFICES ASSUME Ending PROVE pending >= ExpectedAnswers
    BY DEF PendingNeverTooLow
  <2> USE DEF Ending, Counting, Safe, MailInv
  <2> DEFINE E == UNION {{h} \X {c \in Carriers(h) : c.req.cnt # 0} : h \in Hosts}
             f == [e \in E |-> <<e[1], e[2].req.tag>>]
  <2>1. \A e \in E : /\ e[1] \in Hosts /\ e[2] \in Carriers(e[1])
                     /\ e[2].req.cnt # 0 /\ e = <<e[1], e[2]>>
    OBVIOUS
  <2> HIDE DEF E
  <2>2. \A e \in E : f[e] \in Due
    <3> SUFFICES ASSUME NEW e \in E PROVE <<e[1], e[2].req.tag>> \in Due
      OBVIOUS
    <3>1. Letter(e[1], e[2].pipe, e[2].req) \in Mail
      BY <2>1, CarrierLetters
    <3> QED
      BY <2>1, <3>1 DEF Due, Work, TagOf, Letter
  <2>3. \A d, e \in E : f[d] = f[e] => d = e
    <3> SUFFICES ASSUME NEW d \in E, NEW e \in E,
                        d[1] = e[1], d[2].req.tag = e[2].req.tag
                 PROVE  d = e
      OBVIOUS
    <3>1. d[2] = e[2]
      BY <2>1, OneCarrier
    <3> QED
      BY <2>1, <3>1
  <2>4. f \in [E -> Due]
    BY <2>2
  <2> HIDE DEF f
  <2>5. f \in Injection(E, Due)
    BY <2>3, <2>4 DEF Injection, IsInjective
  <2>6. Due \in SUBSET (Hosts \X Tags)
    BY CountTypedOnce DEF CountTyped
  <2>7. IsFiniteSet(Due) /\ Cardinality(Due) \in Nat
    BY <2>6, TagsCount
  <2>8. IsFiniteSet(E) /\ Cardinality(E) <= Cardinality(Due)
    BY <2>5, <2>7, FS_Injection
  <2>9. Cardinality(E) \in Nat
    BY <2>8, FS_CardinalityType
  <2>10. Cardinality(Due) <= pending /\ pending \in Nat
    BY <2>7 DEF CountInv, TypeInv, TypeOK
  <2> QED
    BY <2>7, <2>8, <2>9, <2>10 DEF E, ExpectedAnswers
<1> QED
  BY <1>1, EndingHolds, PTL

\* A scene is declared finished (the test of m_NumPendingCompletionResponse in
\* SceneSchedulerDynamic::OnPixelProduceResponseMsg) only when the pixels of the
\* whole image, and no others, have been handed to the client's connections.
THEOREM FinishedScenesAreShipped == Spec => []FinishedOnlyWhenShipped
<1>1. Ending => FinishedOnlyWhenShipped
  <2> SUFFICES ASSUME Ending, scene = "finished"
               PROVE  PixelsOf(Shipped) = 0 .. NumPixels - 1
    BY DEF FinishedOnlyWhenShipped
  <2> USE DEF Ending, Counting, Safe
  <2>1. Traced /\ Work = {} /\ current = NumPixels
    BY NothingDue DEF EndInv, StageInv
  <2>2. ASSUME NEW px \in 0 .. NumPixels - 1 PROVE px \in PixelsOf(Shipped)
    <3>1. PICK j \in Shipped : px \in j.off .. j.off + j.cnt - 1
      BY <2>1, <2>2 DEF Traced
    <3> QED
      BY <3>1 DEF PixelsOf
  <2>3. ASSUME NEW px \in PixelsOf(Shipped) PROVE px \in 0 .. NumPixels - 1
    <3>1. PICK j \in Shipped : px \in j.off .. j.off + j.cnt - 1
      BY <2>3 DEF PixelsOf
    <3>2. j \in AllJobs
      BY <3>1, JobSets
    <3>3. j \in Jobs
      BY <3>2, JobsAreJobs DEF TypeInv
    <3>4. j.off \in Nat /\ j.cnt \in Nat /\ j.off + j.cnt <= NumPixels
      BY <2>1, <3>2, <3>3 DEF JobInv, Apart, Jobs
    <3> QED
      BY <3>1, <3>4, TrackerAssumption
  <2> QED
    BY <2>2, <2>3
<1> QED
  BY <1>1, EndingHolds, PTL

\* When the workers are told to drop the scene (SceneProduceCleanupMsg) no
\* request with pixels waits at any of their pipelines, so that no producer
\* looks for a scene that is gone.
THEOREM CleanupComesLast == Spec => []CleanupAfterWork
<1>1. Ending => CleanupAfterWork
  <2> SUFFICES ASSUME Ending, cleaned # {}, NEW s \in Slots, NEW i \in DOMAIN todo[s]
               PROVE  todo[s][i].cnt = 0
    BY DEF CleanupAfterWork
  <2> USE DEF Ending, Counting, Safe
  <2>1. Work = {}
    BY NothingDue DEF EndInv
  <2>2. Letter(s[1], s[2], todo[s][i]) \in Mail
    BY BoxFacts DEF Mail, TodoMail
  <2> QED
    BY <2>1, <2>2 DEF Work, Letter
<1> QED
  BY <1>1, EndingHolds, PTL

-----------------------------------------------------------------------------
(* Without a failure                                                       *)

\* A pipeline that holds two requests may answer one and be sent a third.
EnoughTags == \A h \in Hosts : 2 * NumPipelines[h] <= NumTags

AllAnswers == \A i \in DOMAIN msgQ : AnswerAt(i)

\* Every host of the list has an entry and counts, and with no more pipelines
\* than tags the counter does not wrap.
AllCounted ==
    /\ Listed \subseteq lookup
    /\ Len(hostWorkers) <= total
    /\ total <= NumTags * Len(hostWorkers)

\* The scheduler is handing out pixels, or will have to.
Busy == pc # "idle" \/ current < NumPixels

\* No tag is lost, and until the last pixels are handed out every tag that is
\* routed is that of a request on its way.
NoTagLost ==
    /\ \A h \in Hosts : Tags \subseteq routed[h] \cup Range(freeTags[h])
    /\ Busy => \A h \in Hosts : \A t \in routed[h] :
                   \E l \in Mail : l.host = h /\ l.tag = t

Unharmed ==
    NoFailure => Alive /\ failed = {} /\ AllAnswers /\ AllCounted /\ NoTagLost

\* g puts the things 1 .. n into m boxes, three into none, and two not into q.
Packs(g, n, m, q) ==
    /\ g \in [1 .. n -> 0 .. m - 1]
    /\ q \in 0 .. m - 1
    /\ \A t, u, v \in 1 .. n :
           g[t] = g[u] /\ g[u] = g[v] => t = u \/ t = v \/ u = v
    /\ \A t, u \in 1 .. n : g[t] = q /\ g[u] = q => t = u

\* There are then fewer than twice as many things as boxes.
LEMMA Packing ==
    ASSUME NEW n \in Nat, NEW m \in Nat \ {0}, NEW g, NEW q, Packs(g, n, m, q)
    PROVE  n < 2 * m
<1> SUFFICES ASSUME n >= 2 * m
             PROVE  FALSE
  OBVIOUS
<1> USE DEF Packs
<1> DEFINE Rank(t) == IF \E u \in 1 .. n : u < t /\ g[u] = g[t] THEN 2 ELSE 1
           f == [t \in 1 .. n |-> <<g[t], Rank(t)>>]
           Seats == (0 .. m - 1) \X {1, 2}
           T == Seats \ {<<q, 2>>}
<1>1. IsFiniteSet(0 .. m - 1) /\ Cardinality(0 .. m - 1) = m
  <2>1. /\ IsFiniteSet(0 .. m - 1)
        /\ Cardinality(0 .. m - 1) = IF 0 > m - 1 THEN 0 ELSE m - 1 - 0 + 1
    BY FS_Interval
  <2> QED
    BY <2>1
<1>2. IsFiniteSet({1, 2}) /\ Cardinality({1, 2}) = 2
  <2>1. IsFiniteSet({1}) /\ Cardinality({1}) = 1
    BY FS_Singleton
  <2>2. /\ IsFiniteSet({1} \cup {2})
        /\ Cardinality({1} \cup {2}) = IF 2 \in {1} THEN 1 ELSE 1 + 1
    BY <2>1, FS_AddElement
  <2>3. {1} \cup {2} = {1, 2} /\ 2 \notin {1}
    OBVIOUS
  <2>4. IsFiniteSet({1, 2}) /\ Cardinality({1, 2}) = 1 + 1
    BY <2>2, <2>3
  <2> QED
    BY <2>4
<1>3. IsFiniteSet(Seats) /\ Cardinality(Seats) = m * 2
  <2> HIDE DEF Seats
  <2>1. /\ IsFiniteSet((0 .. m - 1) \X {1, 2})
        /\ Cardinality((0 .. m - 1) \X {1, 2})
               = Cardinality(0 .. m - 1) * Cardinality({1, 2})
    BY <1>1, <1>2, FS_Product
  <2> QED
    BY <1>1, <1>2, <2>1 DEF Seats
<1>4. IsFiniteSet(T) /\ Cardinality(T) = m * 2 - 1
  <2>1. <<q, 2>> \in Seats
    OBVIOUS
  <2>2. PICK x : x = <<q, 2>>
    OBVIOUS
  <2> HIDE DEF Seats
  <2>3. /\ IsFiniteSet(Seats \ {x})
        /\ Cardinality(Seats \ {x}) = IF x \in Seats THEN Cardinality(Seats) - 1
                                        ELSE Cardinality(Seats)
    BY <1>3, FS_RemoveElement
  <2> QED
    BY <1>3, <2>1, <2>2, <2>3
<1>5. IsFiniteSet(1 .. n) /\ Cardinality(1 .. n) = n
  <2>1. /\ IsFiniteSet(1 .. n)
        /\ Cardinality(1 .. n) = IF 1 > n THEN 0 ELSE n - 1 + 1
    BY FS_Interval
  <2> QED
    BY <2>1
<1>6. \A t \in 1 .. n : f[t] \in T
  <2> TAKE t \in 1 .. n
  <2>1. f[t] = <<g[t], Rank(t)>> /\ g[t] \in 0 .. m - 1 /\ Rank(t) \in {1, 2}
    OBVIOUS
  <2>2. ASSUME g[t] = q
        PROVE  Rank(t) = 1
    BY <2>2
  <2> QED
    BY <2>1, <2>2
<1>7. f \in [1 .. n -> T]
  BY <1>6
<1>8. Cardinality(T) < Cardinality(1 .. n)
  BY <1>4, <1>5
<1>9. PICK t, u \in 1 .. n : t # u /\ f[t] = f[u]
  <2>1. IsFiniteSet(T) /\ IsFiniteSet(1 .. n)
    BY <1>4, <1>5
  <2> HIDE DEF f, T
  <2>2. \E t, u \in 1 .. n : t # u /\ f[t] = f[u]
    BY <1>7, <1>8, <2>1, FS_PigeonHole
  <2> QED
    BY <2>2
<1>10. g[t] = g[u] /\ Rank(t) = Rank(u)
  BY <1>9
<1>11. ASSUME NEW x \in 1 .. n, NEW y \in 1 .. n, x < y, g[x] = g[y],
              Rank(x) = Rank(y)
       PROVE  FALSE
  <2>1. Rank(y) = 2
    BY <1>11
  <2>2. PICK v \in 1 .. n : v < x /\ g[v] = g[x]
    BY <1>11, <2>1
  <2> QED
    BY <1>11, <2>2
<1>12. t < u \/ u < t
  BY <1>9
<1> QED
  BY <1>10, <1>11, <1>12

\* Every letter is of a pipeline.
LEMMA LetterPipes ==
    ASSUME TypeInv, NEW l \in Mail
    PROVE  l.host \in Hosts /\ l.pipe \in Pipelines(l.host)
<1>1. CASE \E s \in Slots : l \in TodoMail(s)
  <2>1. PICK s \in Slots : \E i \in DOMAIN todo[s] : l = Letter(s[1], s[2], todo[s][i])
    BY <1>1 DEF TodoMail
  <2> QED
    BY <2>1, SlotFacts DEF Letter
<1>2. CASE \E h \in Hosts : l \in RespMail(h)
  <2>1. PICK h \in Hosts : \E i \in DOMAIN resp[h] :
                l = Letter(h, resp[h][i].pipe, resp[h][i])
    BY <1>2 DEF RespMail
  <2> QED
    BY <2>1 DEF Letter, TypeInv, PipesKnown
<1>3. CASE l \in QueueMail
  <2>1. PICK i \in DOMAIN msgQ : AnswerAt(i) /\ l = Letter(msgQ[i].host, msgQ[i].pipe, msgQ[i])
    BY <1>3 DEF QueueMail
  <2>2. msgQ[i].pipe \in Pipelines(msgQ[i].host)
    BY <2>1 DEF TypeInv, PipesKnown
  <2> QED
    BY <2>1, <2>2, LetterTypes DEF Letter
<1> QED
  BY <1>1, <1>2, <1>3, BoxFacts DEF Mail

\* A pipeline that may be sent a request finds a tag for it.
LEMMA TagLeft ==
    ASSUME EnoughTags, Safe, TwoInv, NoTagLost, Busy,
           NEW s \in Slots, AtMost(Of(s), 1)
    PROVE  freeTags[s[1]] # <<>>
<1> SUFFICES ASSUME freeTags[s[1]] = <<>>
             PROVE  FALSE
  OBVIOUS
<1>1. PICK h \in Hosts : h = s[1]
  BY SlotFacts
<1>2. Range(freeTags[h]) = {}
  BY <1>1 DEF Range
<1>3. \A t \in Tags : \E l \in Mail : l.host = h /\ l.tag = t
  BY <1>2 DEF NoTagLost
<1> DEFINE n == NumTags
           m == NumPipelines[h]
           let == [t \in 1 .. n |-> CHOOSE l \in Mail : l.host = h /\ l.tag = t]
           g == [t \in 1 .. n |-> let[t].pipe]
<1>4. n \in Nat /\ m \in Nat \ {0} /\ 2 * m <= n
  BY LinkAssumption, TrackerAssumption DEF EnoughTags
<1>5. \A t \in 1 .. n : let[t] \in Mail /\ let[t].host = h /\ let[t].tag = t
  BY <1>3 DEF Tags
<1>6. \A l \in Mail : l.host = h => l.pipe \in 0 .. m - 1
  BY LetterPipes DEF Safe, Pipelines
<1> HIDE DEF let
<1>7. g \in [1 .. n -> 0 .. m - 1]
  BY <1>5, <1>6
<1>8. \A t \in 1 .. n : let[t] \in Of(<<h, g[t]>>) /\ <<h, g[t]>> \in Slots
  BY <1>5, <1>7, SlotFacts DEF Of, Pipelines
<1>9. s[2] \in 0 .. m - 1 /\ s = <<h, s[2]>>
  BY <1>1, SlotFacts DEF Pipelines
<1>10. ASSUME NEW t \in 1 .. n, NEW u \in 1 .. n, NEW v \in 1 .. n,
              g[t] = g[u], g[u] = g[v]
       PROVE  t = u \/ t = v \/ u = v
  <2>1. AtMost(Of(<<h, g[t]>>), 2)
    BY <1>8 DEF TwoInv
  <2>2. let[t] = let[u] \/ let[t] = let[v] \/ let[u] = let[v]
    BY <1>8, <1>10, <2>1 DEF AtMost
  <2> QED
    BY <1>5, <2>2
<1>11. ASSUME NEW t \in 1 .. n, NEW u \in 1 .. n, g[t] = s[2], g[u] = s[2]
       PROVE  t = u
  <2>1. let[t] \in Of(s) /\ let[u] \in Of(s)
    BY <1>8, <1>9, <1>11
  <2>2. let[t] = let[u]
    BY <2>1 DEF AtMost
  <2> QED
    BY <1>5, <2>2
<1> HIDE DEF g, n, m
<1>12. PICK a, b, f : a \in Nat /\ b \in Nat \ {0} /\ a = n /\ b = m /\ f = g
  BY <1>4
<1>13. Packs(f, a, b, s[2])
  BY <1>4, <1>7, <1>9, <1>10, <1>11, <1>12 DEF Packs
<1>14. a < 2 * b
  BY <1>12, <1>13, Packing
<1> QED
  BY <1>4, <1>12, <1>14

-----------------------------------------------------------------------------
\* A failure is never undone, and without one a host only ever registers.
LEMMA NoFailureBefore ==
    ASSUME TypeInv, OrderInv, [Next]_vars, NoFailure'
    PROVE  /\ NoFailure
           /\ \A h \in Hosts : link'[h] = link[h] \/ RegisterWorker(h)
<1>1. \A h \in Hosts : link'[h] \notin Dead
  BY DEF NoFailure
<1>2. ASSUME NEW h \in Hosts
      PROVE  link[h] \notin Dead /\ (link'[h] = link[h] \/ RegisterWorker(h))
  <2>1. link'[h] \notin Dead
    BY <1>1
  <2> QED
    BY <2>1, LinkMoves DEF Dead
<1> QED
  BY <1>2 DEF NoFailure

\* What does not happen without a failure.
LEMMA NothingFails ==
    ASSUME TypeInv, AllAnswers, [Next]_vars, NoFailure, NoFailure'
    PROVE  /\ ~HandleException /\ ~HandleDetachedException /\ ~ExceptionDies
           /\ \A h \in Hosts : /\ ~NoteFailure(h) /\ ~CloseConnection(h)
                               /\ ~ReportException(h) /\ ~Perish(h)
<1>1. msgQ # <<>> => Head(msgQ).kind = "answer"
  BY TailFacts DEF AllAnswers, AnswerAt, TypeInv
<1>2. ASSUME NEW h \in Hosts
      PROVE  link[h] \in {"absent", "up"} /\ link'[h] \notin Dead
  BY <1>2 DEF NoFailure, TypeInv, TypeOK, LinkTypeOK, LinkStates, Dead
<1>3. ASSUME NEW h \in Hosts, Perish(h)
      PROVE  FALSE
  <2>1. link'[h] = "crashed"
    BY <1>3 DEF Perish, TypeInv, TypeOK, LinkTypeOK
  <2> QED
    BY <2>1, <1>2 DEF Dead
<1> QED
  BY <1>1, <1>2, <1>3 DEF HandleException, HandleDetachedException, Handle,
     ExceptionDies, NoteFailure, CloseConnection, ReportException

\* How the process may die.
LEMMA FaultMoves ==
    ASSUME [Next]_vars
    PROVE  fault' = fault \/ AcceptDies \/ AnswerDies \/ SendDies \/ ExceptionDies
<1>1. ASSUME Outside
      PROVE  fault' = fault
  BY <1>1 DEF Outside, Connection, Client, WorkerDies, Worker, Receive,
     ReportException, NoteFailure, CloseConnection, RegisterWorker, sceneVars
<1>2. ASSUME UNCHANGED vars
      PROVE  fault' = fault
  BY <1>2 DEF vars, sceneVars
<1>3. ASSUME Request \/ Scheduler
      PROVE  fault' = fault \/ AcceptDies \/ AnswerDies \/ SendDies \/ ExceptionDies
  <2>1. RejectScene \/ AcceptScene => fault' = fault
    BY DEF RejectScene, AcceptScene
  <2>2. KickOffFind \/ KickOffNextRound => fault' = fault
    BY DEF KickOffFind, KickOffNextRound, sceneVars
  <2>3. KickOffAssign \/ Refill => fault' = fault
    BY DEF KickOffAssign, Refill, sceneVars
  <2>4. AnswerThenRefill \/ AnswerThenRedispatch => fault' = fault
    BY DEF AnswerThenRefill, AnswerThenRedispatch, sceneVars
  <2>5. AnswerThenFinish \/ AnswerThenWait \/ HandleException => fault' = fault
    BY DEF AnswerThenFinish, AnswerThenWait, HandleException, sceneVars
  <2>6. HandleDetachedAnswer \/ HandleDetachedException => fault' = fault
    BY DEF HandleDetachedAnswer, HandleDetachedException, sceneVars
  <2> QED
    BY <1>3, <2>1, <2>2, <2>3, <2>4, <2>5, <2>6 DEF Request, Scheduler
<1> QED
  BY <1>1, <1>2, <1>3 DEF Next, Outside

\* What changes the list of hosts and the number of their pipelines.
LEMMA CountMembers ==
    ASSUME [Next]_vars
    PROVE  \/ UNCHANGED <<hostWorkers, lookup, total>>
           \/ HandleException \/ HandleDetachedException
           \/ \E h \in Hosts : NoteFailure(h) \/ RegisterWorker(h)
<1>1. ASSUME Outside
      PROVE  \/ UNCHANGED <<hostWorkers, lookup, total>>
             \/ \E h \in Hosts : NoteFailure(h) \/ RegisterWorker(h)
  BY <1>1 DEF Outside, Connection, Client, WorkerDies, Worker, Receive,
     ReportException, CloseConnection, trackerVars
<1>2. ASSUME UNCHANGED vars
      PROVE  UNCHANGED <<hostWorkers, lookup, total>>
  BY <1>2 DEF vars, trackerVars
<1>3. ASSUME Request \/ Scheduler
      PROVE  \/ UNCHANGED <<hostWorkers, lookup, total>>
             \/ HandleException \/ HandleDetachedException
  <2>1. ASSUME Request \/ KickOffFind \/ KickOffNextRound
        PROVE  UNCHANGED <<hostWorkers, lookup, total>>
    BY <2>1 DEF Request, RejectScene, AcceptScene, AcceptDies, Die, KickOffFind,
       KickOffNextRound, trackerVars
  <2>2. ASSUME KickOffAssign \/ Refill
        PROVE  UNCHANGED <<hostWorkers, lookup, total>>
    BY <2>2 DEF KickOffAssign, Refill, SendNextJob, TrackJob, trackerVars
  <2>3. ASSUME \/ AnswerThenRefill \/ AnswerThenRedispatch \/ AnswerThenFinish
               \/ AnswerThenWait \/ HandleDetachedAnswer
        PROVE  UNCHANGED <<hostWorkers, lookup, total>>
    BY <2>3 DEF AnswerThenRefill, AnswerThenRedispatch, AnswerThenFinish,
       AnswerThenWait, HandleDetachedAnswer, NotifyJobDone, trackerVars
  <2>4. ASSUME AnswerDies \/ SendDies \/ ExceptionDies
        PROVE  UNCHANGED <<hostWorkers, lookup, total>>
    BY <2>4 DEF AnswerDies, SendDies, ExceptionDies, Die, trackerVars
  <2> QED
    BY <1>3, <2>1, <2>2, <2>3, <2>4 DEF Scheduler
<1> QED
  BY <1>1, <1>2, <1>3 DEF Next, Outside

\* A host is in the list once.
ShortList == Len(hostWorkers) <= Cardinality(Hosts)

LEMMA ListIsShort == TypeInv /\ Members => ShortList
<1> SUFFICES ASSUME TypeInv, Members
             PROVE  ShortList
  OBVIOUS
<1>1. hostWorkers \in Seq(Hosts)
  BY DEF TypeInv, TypeOK, TrackerTypeOK
<1>2. PICK n \in Nat : n = Len(hostWorkers)
  BY <1>1
<1>3. hostWorkers \in Injection(1 .. n, Hosts)
  BY <1>1, <1>2 DEF Members, IsInjective, Injection
<1>4. Cardinality(1 .. n) <= Cardinality(Hosts)
  BY <1>3, LinkAssumption, FS_Injection
<1>5. Cardinality(1 .. n) = IF 1 > n THEN 0 ELSE n - 1 + 1
  BY FS_Interval
<1> QED
  BY <1>2, <1>4, <1>5 DEF ShortList

LEMMA CountedStep ==
    ASSUME EnoughTags, TypeInv, TypeInv', Members', AllAnswers, AllCounted,
           NoFailure, NoFailure', [Next]_vars
    PROVE  AllCounted'
<1>1. CASE UNCHANGED <<hostWorkers, lookup, total>>
  BY <1>1 DEF AllCounted, Listed
<1>2. ASSUME NEW h \in Hosts, RegisterWorker(h)
      PROVE  AllCounted'
  <2>1. hostWorkers \in Seq(Hosts) /\ total \in Nat /\ NumTags \in Nat
    BY LinkAssumption, TrackerAssumption DEF TypeInv, TypeOK, TrackerTypeOK
  <2>2. PICK n \in Nat : n = Len(hostWorkers)
    BY <2>1
  <2>3. hostWorkers' = Append(hostWorkers, h) /\ lookup' = lookup \cup {h}
        /\ total' = (total + NumPipelines[h]) % UIntMod
    BY <1>2 DEF RegisterWorker, AddWorker
  <2>4. Len(hostWorkers') = n + 1 /\ Listed' = Listed \cup {h}
    <3>1. Listed' = Listed \cup {h}
      BY <2>1, <2>3 DEF Listed, Range
    <3> QED
      BY <2>1, <2>2, <2>3, <3>1
  <2>5. NumPipelines[h] \in Nat \ {0} /\ NumPipelines[h] <= NumTags
    BY <2>1, TrackerAssumption DEF EnoughTags
  <2>6. PICK c \in Nat : c = Cardinality(Hosts)
    BY LinkAssumption, FS_CardinalityType
  <2>7. n + 1 <= c
    <3>1. ShortList'
      BY ListIsShort, PTL
    <3> QED
      BY <2>4, <2>6, <3>1 DEF ShortList
  <2>8. NumTags * n + NumTags = NumTags * (n + 1) /\ NumTags * (n + 1) <= NumTags * c
    BY <2>1, <2>7
  <2>9. total + NumPipelines[h] <= NumTags * (n + 1)
    BY <2>1, <2>2, <2>5, <2>8 DEF AllCounted
  <2>10. total + NumPipelines[h] < UIntMod
    BY <2>1, <2>5, <2>6, <2>8, <2>9, CounterAssumption, TrackerAssumption
  <2>11. total' = total + NumPipelines[h]
    <3>1. PICK k \in Nat : k = total + NumPipelines[h]
      BY <2>1, <2>5
    <3>2. k % UIntMod = k
      BY <2>10, <3>1, TrackerAssumption, ModSmall
    <3> QED
      BY <2>3, <3>1, <3>2
  <2> QED
    BY <2>1, <2>2, <2>3, <2>4, <2>5, <2>9, <2>11 DEF AllCounted
<1> QED
  BY <1>1, <1>2, CountMembers, NothingFails

LEMMA AnswersStep ==
    ASSUME TypeInv, TypeInv', StageInv, AllAnswers, NoFailure, NoFailure', [Next]_vars
    PROVE  AllAnswers'
<1>1. CASE msgQ' = msgQ
  BY <1>1 DEF AllAnswers, AnswerAt
<1>2. CASE msgQ # <<>> /\ msgQ' = Tail(msgQ)
  BY <1>2, TailFacts DEF AllAnswers, AnswerAt, TypeInv
<1>3. CASE AcceptScene
  <2>1. msgQ = <<>> /\ {h \in Listed : link[h] = "noted"} = {}
    <3>1. scene = "none"
      BY <1>3 DEF AcceptScene
    <3>2. Listed \subseteq Hosts
      BY DEF TypeInv, TypeOK, TrackerTypeOK, Listed, Range
    <3> QED
      BY <3>1, <3>2 DEF StageInv, NoFailure, Dead
  <2>2. PICK late \in SUBSET {h \in Listed : link[h] = "noted"} :
            msgQ' = msgQ \o [i \in 1 .. Cardinality(late) |->
                                 [kind |-> "exception", cmd |-> TRUE, host |-> NoHost]]
    BY <1>3 DEF AcceptScene
  <2>3. late = {} /\ Cardinality(late) = 0
    BY <2>1, <2>2, FS_EmptySet
  <2>4. Len(msgQ') = 0
    <3> DEFINE e == [kind |-> "exception", cmd |-> TRUE, host |-> NoHost]
    <3>1. e \in Answers \cup Exceptions
      BY DEF Exceptions
    <3>2. msgQ' = msgQ \o Times(e, 0) /\ msgQ \in Seq(Answers \cup Exceptions)
      BY <2>2, <2>3 DEF Times, TypeInv, TypeOK
    <3> HIDE DEF e
    <3>3. Len(msgQ \o Times(e, 0)) = Len(msgQ) + 0
      BY <3>1, <3>2, RepeatedEntries
    <3> QED
      BY <2>1, <3>2, <3>3
  <2> QED
    BY <2>4 DEF AllAnswers, TypeInv, TypeOK
<1>4. ASSUME NEW h \in Hosts, Receive(h)
      PROVE  AllAnswers'
  BY <1>4, ReceivedQueue DEF AllAnswers, AnswerAt
<1> QED
  BY <1>1, <1>2, <1>3, <1>4, QueueUse, NothingFails

LEMMA FailedStep ==
    ASSUME TypeInv, AllAnswers, NoFailure, NoFailure', [Next]_vars, failed = {}
    PROVE  failed' = {}
<1>1. CASE failed' = failed
  BY <1>1
<1>2. CASE AcceptScene \/ KickOffAssign \/ AnswerThenRefill \/ AnswerThenFinish
           \/ AnswerThenWait \/ HandleDetachedAnswer
  BY <1>2 DEF AcceptScene, KickOffAssign, AnswerThenRefill, AnswerThenFinish,
     AnswerThenWait, HandleDetachedAnswer, jobVars
<1>3. CASE Refill \/ AnswerThenRedispatch
  BY <1>3 DEF Refill, AnswerThenRedispatch
<1> QED
  BY <1>1, <1>2, <1>3, CountMoves, NothingFails

-----------------------------------------------------------------------------
\* Without a failure no letter is lost: it stays, moves on, or is handled.
Taking ==
    \/ AnswerThenRefill \/ AnswerThenFinish \/ AnswerThenWait
    \/ AnswerThenRedispatch \/ HandleDetachedAnswer

\* What is in a box is mail.
Boxed ==
    /\ \A s \in Slots : \A i \in DOMAIN todo[s] :
           Letter(s[1], s[2], todo[s][i]) \in Mail
    /\ \A h \in Hosts : \A i \in DOMAIN resp[h] :
           Letter(h, resp[h][i].pipe, resp[h][i]) \in Mail
    /\ \A i \in DOMAIN msgQ : AnswerAt(i) =>
           Letter(msgQ[i].host, msgQ[i].pipe, msgQ[i]) \in Mail

LEMMA AllBoxed == Boxed
<1>1. \A s \in Slots : TodoMail(s) \subseteq Mail
  BY BoxFacts DEF Mail
<1>2. \A h \in Hosts : RespMail(h) \subseteq Mail
  BY BoxFacts DEF Mail
<1>3. QueueMail \subseteq Mail
  BY BoxFacts DEF Mail
<1> QED
  BY <1>1, <1>2, <1>3 DEF Boxed, TodoMail, RespMail, QueueMail

LEMMA TodoKept ==
    ASSUME Safe, NoFailure, NoFailure', AllAnswers, [Next]_vars,
           NEW s \in Slots, NEW i \in DOMAIN todo[s],
           NEW l, l = Letter(s[1], s[2], todo[s][i])
    PROVE  l \in Mail'
<1>1. Boxed'
  BY AllBoxed, PTL
<1>2. TypeInv
  BY DEF Safe
<1>3. todo[s] \in Seq(Requests) /\ s[1] \in Hosts /\ resp[s[1]] \in Seq(Responses)
      /\ s[2] \in Nat
  BY <1>2, SlotFacts DEF TypeInv, TypeOK, LinkTypeOK
<1>4. CASE todo' = todo
  BY <1>1, <1>4 DEF Boxed
<1>5. ASSUME NEW g \in Slots, Respond(g)
      PROVE  l \in Mail'
  <2>1. PICK n \in Answerable(g) :
            LET r == todo[g][n]
            IN  /\ n \in DOMAIN todo[g] /\ r \in Requests
                /\ resp' = [resp EXCEPT ![g[1]] =
                       Append(@, [pipe |-> g[2], tag |-> r.tag,
                                  off |-> r.off, cnt |-> r.cnt])]
                /\ todo' = [todo EXCEPT ![g] = RemoveAt(@, n)]
    BY <1>2, <1>5, RespondFacts
  <2>2. CASE g # s
    <3>1. todo'[s] = todo[s]
      BY <1>2, <2>1, <2>2 DEF TypeInv, TypeOK, LinkTypeOK
    <3> QED
      BY <1>1, <3>1 DEF Boxed
  <2>3. CASE g = s /\ n # i
    <3>1. todo'[s] = RemoveAt(todo[s], n)
      BY <1>2, <2>1, <2>3 DEF TypeInv, TypeOK, LinkTypeOK
    <3>2. \E k \in DOMAIN todo'[s] : todo'[s][k] = todo[s][i]
      <4>1. n \in DOMAIN todo[s] /\ n \in Nat /\ i \in Nat
        BY <1>3, <2>1, <2>3
      <4>2. CASE i < n
        <5>1. i \in 1 .. Len(todo[s]) - 1
          BY <1>3, <4>1, <4>2
        <5>2. DOMAIN RemoveAt(todo[s], n) = 1 .. Len(todo[s]) - 1
          BY <1>3, <4>1, RemoveAtFacts
        <5>3. RemoveAt(todo[s], n)[i] = todo[s][i]
          BY <1>3, <4>1, <4>2, <5>1, RemoveAtFacts
        <5> QED
          BY <3>1, <5>1, <5>2, <5>3
      <4>3. CASE i > n
        <5>1. i - 1 \in 1 .. Len(todo[s]) - 1 /\ ~(i - 1 < n) /\ i - 1 + 1 = i
          BY <1>3, <4>1, <4>3
        <5>2. DOMAIN RemoveAt(todo[s], n) = 1 .. Len(todo[s]) - 1
          BY <1>3, <4>1, RemoveAtFacts
        <5>3. RemoveAt(todo[s], n)[i - 1] = todo[s][i]
          BY <1>3, <4>1, <5>1, RemoveAtFacts
        <5> QED
          BY <3>1, <5>1, <5>2, <5>3
      <4> QED
        BY <2>3, <4>1, <4>2, <4>3
    <3> QED
      BY <1>1, <3>2 DEF Boxed
  <2>4. CASE g = s /\ n = i
    <3> DEFINE r == todo[s][i]
               a == [pipe |-> s[2], tag |-> r.tag, off |-> r.off, cnt |-> r.cnt]
    <3>1. resp'[s[1]] = Append(resp[s[1]], a)
      BY <1>2, <1>3, <2>1, <2>4 DEF TypeInv, TypeOK, LinkTypeOK
    <3>2. a \in Responses
      BY <1>3, <2>1, <2>4 DEF Requests, Responses
    <3> HIDE DEF a
    <3>3. \E k \in DOMAIN resp'[s[1]] : resp'[s[1]][k] = a
      BY <1>3, <3>1, <3>2
    <3>4. Letter(s[1], a.pipe, a) = l
      BY DEF Letter, a
    <3> QED
      BY <1>1, <1>3, <3>3, <3>4 DEF Boxed
  <2> QED
    BY <2>2, <2>3, <2>4
<1>6. ASSUME NEW g \in Slots, NEW off \in Nat, NEW cnt \in Nat,
             SendRequest(g, off, cnt)
      PROVE  l \in Mail'
  <2>1. i \in DOMAIN todo'[s] /\ todo'[s][i] = todo[s][i]
    <3>1. CASE todo' = todo
      BY <3>1
    <3>2. CASE g # s
      BY <1>2, <1>6, <3>2 DEF SendRequest, TypeInv, TypeOK, LinkTypeOK
    <3>3. CASE g = s /\ todo' # todo
      <4>1. PICK e : todo'[s] = Append(todo[s], e)
        BY <1>2, <1>6, <3>3 DEF SendRequest, TypeInv, TypeOK, LinkTypeOK
      <4> QED
        BY <1>3, <4>1
    <3> QED
      BY <3>1, <3>2, <3>3
  <2> QED
    BY <1>1, <2>1 DEF Boxed
<1> QED
  BY <1>2, <1>4, <1>5, <1>6, TodoMoves, NothingFails DEF Safe, JobInv

LEMMA RespKept ==
    ASSUME Safe, NoFailure, NoFailure', AllAnswers, [Next]_vars,
           NEW h \in Hosts, NEW i \in DOMAIN resp[h],
           NEW l, l = Letter(h, resp[h][i].pipe, resp[h][i])
    PROVE  l \in Mail'
<1>1. Boxed'
  BY AllBoxed, PTL
<1>2. TypeInv /\ resp[h] \in Seq(Responses)
  BY DEF Safe, TypeInv, TypeOK, LinkTypeOK
<1>3. CASE resp' = resp
  BY <1>1, <1>3 DEF Boxed
<1>4. ASSUME NEW g \in Hosts, Receive(g)
      PROVE  l \in Mail'
  <2>1. CASE g # h
    <3>1. resp'[h] = resp[h]
      BY <1>2, <1>4, <2>1 DEF Receive, TypeInv, TypeOK, LinkTypeOK
    <3> QED
      BY <1>1, <3>1 DEF Boxed
  <2>2. CASE g = h /\ i # 1
    <3>1. resp'[h] = Tail(resp[h])
      BY <1>2, <1>4, <2>2 DEF Receive, TypeInv, TypeOK, LinkTypeOK
    <3>2. i - 1 \in DOMAIN resp'[h] /\ resp'[h][i - 1] = resp[h][i]
      BY <1>2, <2>2, <3>1
    <3> QED
      BY <1>1, <3>2 DEF Boxed
  <2>3. CASE g = h /\ i = 1
    <3> DEFINE r == resp[h][1]
               m == [kind |-> "answer", cmd |-> Attached, host |-> h, pipe |-> r.pipe,
                     tag |-> r.tag, off |-> r.off, cnt |-> r.cnt]
    <3>1. l \in Mail /\ l.host = h /\ l.tag = r.tag
      BY <2>3, AllBoxed DEF Boxed, Letter
    <3>2. link[h] # "closed"
      BY <1>4, <2>3 DEF Receive
    <3>3. r.tag \in routed[h]
      BY <3>1, <3>2 DEF Safe, MailInv, TagInv
    <3>4. msgQ' = Append(msgQ, m)
      BY <1>2, <1>4, <2>3, <3>3 DEF Receive
    <3>5. msgQ \in Seq(Answers \cup Exceptions)
      BY <1>2 DEF TypeInv, TypeOK
    <3>6. m.kind = "answer" /\ Letter(m.host, m.pipe, m) = l
      BY <2>3 DEF Letter
    <3> HIDE DEF m
    <3>7. \E k \in DOMAIN msgQ' : msgQ'[k] = m
      BY <3>4, <3>5
    <3> QED
      BY <1>1, <3>6, <3>7 DEF Boxed, AnswerAt
  <2> QED
    BY <2>1, <2>2, <2>3
<1>5. ASSUME NEW s \in Slots, Respond(s)
      PROVE  l \in Mail'
  <2>1. PICK a : resp' = [resp EXCEPT ![s[1]] = Append(@, a)]
    BY <1>5 DEF Respond
  <2>2. i \in DOMAIN resp'[h] /\ resp'[h][i] = resp[h][i]
    <3>1. CASE s[1] = h
      <4>1. resp'[h] = Append(resp[h], a)
        BY <1>2, <2>1, <3>1 DEF TypeInv, TypeOK, LinkTypeOK
      <4> QED
        BY <1>2, <4>1
    <3>2. CASE s[1] # h
      BY <1>2, <2>1, <3>2 DEF TypeInv, TypeOK, LinkTypeOK
    <3> QED
      BY <3>1, <3>2
  <2> QED
    BY <1>1, <2>2 DEF Boxed
<1>6. ASSUME NEW s \in Slots, ShipSegment(s)
      PROVE  l \in Mail'
  <2>1. resp' = resp
    BY <1>6 DEF ShipSegment
  <2> QED
    BY <1>3, <2>1
<1> QED
  BY <1>2, <1>3, <1>4, <1>5, <1>6, WorkerMoves, NothingFails

LEMMA QueueUses ==
    ASSUME [Next]_vars
    PROVE  \/ msgQ' = msgQ
           \/ Taking /\ msgQ' = Tail(msgQ)
           \/ HandleException \/ HandleDetachedException \/ AcceptScene
           \/ \E h \in Hosts : Receive(h) \/ CloseConnection(h)
<1>1. CASE Taking
  BY <1>1 DEF Taking, AnswerThenRefill, AnswerThenRedispatch, AnswerThenFinish,
     AnswerThenWait, HandleDetachedAnswer, Handle
<1>2. CASE Request
  BY <1>2 DEF Request, RejectScene, AcceptDies, Die
<1>3. CASE KickOffFind \/ KickOffNextRound \/ KickOffAssign \/ Refill
  BY <1>3 DEF KickOffFind, KickOffNextRound, KickOffAssign, Refill
<1>4. CASE AnswerDies \/ SendDies \/ ExceptionDies
  BY <1>4 DEF AnswerDies, SendDies, ExceptionDies, Die
<1>5. CASE Outside
  BY <1>5 DEF Outside, Connection, ReportException, NoteFailure, RegisterWorker,
     Client, WorkerDies, Worker
<1>6. CASE UNCHANGED vars
  BY <1>6 DEF vars
<1>7. Taking \/ KickOffAssign \/ Refill \/ Idles \/ Outside
  BY StepKinds DEF Taking
<1> QED
  BY <1>1, <1>2, <1>3, <1>4, <1>5, <1>6, <1>7 DEF Idles

LEMMA QueueMailKept ==
    ASSUME Safe, NoFailure, NoFailure', AllAnswers, [Next]_vars,
           NEW i \in DOMAIN msgQ, AnswerAt(i),
           NEW l, l = Letter(msgQ[i].host, msgQ[i].pipe, msgQ[i])
    PROVE  l \in Mail' \/ (l = HeadLetter /\ Taking)
<1>1. Boxed'
  BY AllBoxed, PTL
<1>2. TypeInv /\ StageInv /\ msgQ \in Seq(Answers \cup Exceptions)
  BY DEF Safe, TypeInv, TypeOK
<1>3. CASE \A k \in DOMAIN msgQ : k \in DOMAIN msgQ' /\ msgQ'[k] = msgQ[k]
  BY <1>1, <1>3 DEF Boxed, AnswerAt
<1>4. CASE Taking /\ msgQ' = Tail(msgQ)
  <2>1. CASE i = 1
    BY <1>2, <1>4, <2>1 DEF HeadLetter
  <2>2. CASE i # 1
    <3>1. i - 1 \in DOMAIN msgQ' /\ msgQ'[i - 1] = msgQ[i]
      BY <1>2, <1>4, <2>2
    <3> QED
      BY <1>1, <3>1 DEF Boxed, AnswerAt
  <2> QED
    BY <2>1, <2>2
<1>5. CASE AcceptScene
  <2>1. scene = "none"
    BY <1>5 DEF AcceptScene
  <2> QED
    BY <1>2, <2>1 DEF StageInv
<1>6. CASE msgQ' = msgQ
  BY <1>3, <1>6
<1>7. ASSUME NEW h \in Hosts, Receive(h)
      PROVE  l \in Mail' \/ (l = HeadLetter /\ Taking)
  <2>1. \A k \in DOMAIN msgQ : k \in DOMAIN msgQ' /\ msgQ'[k] = msgQ[k]
    BY <1>2, <1>7, ReceivedQueue
  <2> QED
    BY <1>3, <2>1
<1> QED
  BY <1>2, <1>4, <1>5, <1>6, <1>7, QueueUses, NothingFails

LEMMA MailKept ==
    ASSUME Safe, NoFailure, NoFailure', AllAnswers, [Next]_vars, NEW l \in Mail
    PROVE  l \in Mail' \/ (l = HeadLetter /\ Taking)
<1>1. CASE \E s \in Slots : l \in TodoMail(s)
  BY <1>1, TodoKept DEF TodoMail
<1>2. CASE \E h \in Hosts : l \in RespMail(h)
  BY <1>2, RespKept DEF RespMail
<1>3. CASE l \in QueueMail
  BY <1>3, QueueMailKept DEF QueueMail
<1> QED
  BY <1>1, <1>2, <1>3, BoxFacts DEF Mail

-----------------------------------------------------------------------------
LEMMA BusyBefore ==
    ASSUME TypeInv, Apart(AllJobs, current), [Next]_vars, Busy'
    PROVE  Busy \/ AcceptScene
<1> SUFFICES ASSUME ~Busy, ~AcceptScene
             PROVE  FALSE
  OBVIOUS
<1>1. pc = "idle" /\ current = NumPixels
  BY TrackerAssumption DEF Busy, TypeInv, TypeOK, Bounded
<1>2. current' = NumPixels
  BY <1>1, HandedOutStays
<1>3. pc' = "idle"
  <2>1. ~KickOffFind /\ ~KickOffNextRound /\ ~KickOffAssign /\ ~Refill
        /\ ~AnswerThenRefill
    BY <1>1 DEF KickOffFind, KickOffNextRound, KickOffAssign, Refill,
       AnswerThenRefill, AllHandedOut
  <2>2. RejectScene \/ AnswerThenFinish => pc' = pc
    BY DEF RejectScene, AnswerThenFinish, placeVars
  <2> QED
    BY <1>1, <2>1, <2>2, PlaceMoves
<1> QED
  BY <1>2, <1>3, TrackerAssumption DEF Busy

\* A host to which a request is sent is up.
LEMMA ListedUp ==
    ASSUME TypeInv, Members, NoFailure, NEW h \in Listed
    PROVE  link[h] = "up"
<1>1. h \in Hosts
  BY DEF TypeInv, TypeOK, TrackerTypeOK, Listed, Range
<1>2. link[h] # "absent" /\ link[h] \notin Dead /\ link[h] \in LinkStates
  BY <1>1 DEF Members, NoFailure, TypeInv, TypeOK, LinkTypeOK
<1> QED
  BY <1>2 DEF Dead, LinkStates

LEMMA SendLosesNone ==
    ASSUME TypeInv, TagInv, NoTagLost, Busy, Mail \subseteq Mail',
           NEW s \in Slots, NEW off, NEW cnt, SendRequest(s, off, cnt),
           NewLetter(s, off, cnt) \in Mail'
    PROVE  NoTagLost'
<1>1. PICK h \in Hosts : h = s[1]
  BY SlotFacts
<1>2. PICK t : t = Head(freeTags[h])
  OBVIOUS
<1>3. /\ freeTags[h] \in Seq(Tags) /\ freeTags[h] # <<>> /\ IsInjective(freeTags[h])
      /\ freeTags' = [freeTags EXCEPT ![h] = Tail(@)]
      /\ routed' = [routed EXCEPT ![h] = @ \cup {t}]
  BY <1>1, <1>2 DEF SendRequest, AllocateAppTag, TagInv, TypeInv, TypeOK, LinkTypeOK
<1>4. Range(freeTags[h]) \subseteq Range(Tail(freeTags[h])) \cup {t}
  BY <1>2, <1>3, TagTaken
<1>5. \A g \in Hosts : /\ routed'[g] = IF g = h THEN routed[g] \cup {t} ELSE routed[g]
                       /\ freeTags'[g] = IF g = h THEN Tail(freeTags[g]) ELSE freeTags[g]
  BY <1>3 DEF TypeInv, TypeOK, LinkTypeOK
<1>6. \A g \in Hosts : Tags \subseteq routed'[g] \cup Range(freeTags'[g])
  <2> TAKE g \in Hosts
  <2>1. Tags \subseteq routed[g] \cup Range(freeTags[g])
    BY DEF NoTagLost
  <2>2. CASE g = h
    BY <1>4, <1>5, <2>1, <2>2
  <2>3. CASE g # h
    BY <1>5, <2>1, <2>3
  <2> QED
    BY <2>2, <2>3
<1>7. ASSUME NEW g \in Hosts, NEW u \in routed'[g]
      PROVE  \E l \in Mail' : l.host = g /\ l.tag = u
  <2>1. CASE u \in routed[g]
    BY <2>1 DEF NoTagLost
  <2>2. CASE u \notin routed[g]
    <3>1. g = h /\ u = t
      BY <1>5, <1>7, <2>2
    <3>2. NewLetter(s, off, cnt).host = h /\ NewLetter(s, off, cnt).tag = t
      BY <1>1, <1>2 DEF NewLetter
    <3> QED
      BY <3>1, <3>2
  <2> QED
    BY <2>1, <2>2
<1> QED
  BY <1>6, <1>7 DEF NoTagLost

LEMMA TagsStep ==
    ASSUME Safe, AllAnswers, failed = {}, NoTagLost, NoFailure, NoFailure', [Next]_vars
    PROVE  NoTagLost'
<1> USE DEF Safe
<1>1. CASE ~Taking /\ (Idles \/ Outside)
  <2>1. Quiet
    BY <1>1, IdleMail, OutsideMail DEF MailInv
  <2>2. \A h \in Hosts : freeTags'[h] = freeTags[h] /\ routed'[h] = routed[h]
    BY <2>1 DEF Quiet, NoFailure, Dead
  <2>3. ASSUME Busy', NEW h \in Hosts, NEW t \in routed'[h]
        PROVE  \E l \in Mail' : l.host = h /\ l.tag = t
    <3>1. CASE AcceptScene
      <4>1. scene = "none"
        BY <3>1 DEF AcceptScene
      <4> QED
        BY <2>2, <2>3, <4>1 DEF StageInv
    <3>2. CASE ~AcceptScene
      <4>1. Busy
        BY <2>3, <3>2, BusyBefore DEF JobInv
      <4>2. PICK l \in Mail : l.host = h /\ l.tag = t
        BY <2>2, <2>3, <4>1 DEF NoTagLost
      <4> QED
        BY <1>1, <4>2, MailKept
    <3> QED
      BY <3>1, <3>2
  <2> QED
    BY <2>2, <2>3 DEF NoTagLost
<1>2. CASE AnswerThenRefill
  <2>1. /\ Mail' \subseteq Mail /\ Takes /\ pc = "idle"
    BY <1>2, TakingMail DEF MailInv
  <2>2. PICK h \in Hosts, t \in Tags : h = Head(msgQ).host /\ t = Head(msgQ).tag
    BY <2>1 DEF Takes, HeadLetter, Letter
  <2>3. /\ freeTags' = [freeTags EXCEPT ![h] = Append(@, t)]
        /\ routed' = [routed EXCEPT ![h] = @ \ {t}]
        /\ current \in Nat /\ current # NumPixels /\ current <= NumPixels
    BY <1>2, <2>2 DEF AnswerThenRefill, FreeAppTag, AllHandedOut, TypeInv, TypeOK,
       Bounded
  <2>4. \A g \in Hosts : /\ routed'[g] = IF g = h THEN routed[g] \ {t} ELSE routed[g]
                         /\ freeTags'[g] = IF g = h THEN Append(freeTags[g], t)
                                           ELSE freeTags[g]
    BY <2>3 DEF TypeInv, TypeOK, LinkTypeOK
  <2>5. HeadLetter \in Mail /\ HeadLetter.host = h /\ HeadLetter.tag = t
    BY <2>1, <2>2 DEF Takes, HeadLetter, Letter
  <2>6. t \notin Range(freeTags[h]) /\ IsInjective(freeTags[h])
        /\ freeTags[h] \in Seq(Tags)
    BY <2>5 DEF MailInv, TagInv, TypeInv, TypeOK, LinkTypeOK
  <2>7. Range(Append(freeTags[h], t)) = Range(freeTags[h]) \cup {t}
    BY <2>6, TagFreed
  <2>8. \A g \in Hosts : Tags \subseteq routed'[g] \cup Range(freeTags'[g])
    <3> TAKE g \in Hosts
    <3>1. Tags \subseteq routed[g] \cup Range(freeTags[g])
      BY DEF NoTagLost
    <3>2. CASE g = h
      BY <2>4, <2>7, <3>1, <3>2
    <3>3. CASE g # h
      BY <2>4, <3>1, <3>3
    <3> QED
      BY <3>2, <3>3
  <2>9. Busy
    BY <2>3, TrackerAssumption DEF Busy
  <2>10. ASSUME NEW g \in Hosts, NEW u \in routed'[g]
         PROVE  \E l \in Mail' : l.host = g /\ l.tag = u
    <3>1. u \in routed[g] /\ ~(g = h /\ u = t)
      BY <2>4, <2>10
    <3>2. PICK l \in Mail : l.host = g /\ l.tag = u
      BY <2>9, <3>1 DEF NoTagLost
    <3>3. l # HeadLetter
      BY <2>5, <3>1, <3>2
    <3> QED
      BY <3>2, <3>3, MailKept
  <2> QED
    BY <2>8, <2>10 DEF NoTagLost
<1>3. CASE AnswerThenFinish \/ AnswerThenWait \/ HandleDetachedAnswer
  <2>1. /\ Takes /\ pc = "idle"
    BY <1>3, TakingMail DEF MailInv
  <2>2. current = NumPixels
    <3>1. CASE AnswerThenFinish \/ AnswerThenWait
      BY <3>1 DEF AnswerThenFinish, AnswerThenWait, AllHandedOut
    <3>2. CASE HandleDetachedAnswer
      <4>1. msgQ # <<>> /\ ~Head(msgQ).cmd
        BY <3>2 DEF HandleDetachedAnswer, Handle
      <4>2. scene \notin {"none", "rejected", "running"}
        BY <4>1, TailFacts DEF StageInv, TypeInv
      <4> QED
        BY <4>2 DEF StageInv, TypeInv, TypeOK
    <3> QED
      BY <1>3, <3>1, <3>2
  <2>3. ~Busy'
    <3>1. ~AcceptScene
      BY <1>3 DEF AcceptScene, AnswerThenFinish, AnswerThenWait, HandleDetachedAnswer,
         Handle, StageInv
    <3> QED
      BY <2>1, <2>2, <3>1, BusyBefore, TrackerAssumption DEF Busy, JobInv
  <2>4. \A g \in Hosts : Tags \subseteq routed'[g] \cup Range(freeTags'[g])
    <3>1. CASE UNCHANGED <<routed, freeTags>>
      BY <3>1 DEF NoTagLost
    <3>2. CASE AnswerThenFinish
      <4>1. PICK h \in Hosts, t \in Tags : h = Head(msgQ).host /\ t = Head(msgQ).tag
        BY <2>1 DEF Takes, HeadLetter, Letter
      <4>2. /\ freeTags' = [freeTags EXCEPT ![h] = Append(@, t)]
            /\ routed' = [routed EXCEPT ![h] = @ \ {t}]
        BY <3>2, <4>1 DEF AnswerThenFinish, FreeAppTag
      <4>3. HeadLetter \in Mail /\ HeadLetter.host = h /\ HeadLetter.tag = t
        BY <2>1, <4>1 DEF Takes, HeadLetter, Letter
      <4>4. t \notin Range(freeTags[h]) /\ IsInjective(freeTags[h])
            /\ freeTags[h] \in Seq(Tags)
        BY <4>3 DEF MailInv, TagInv, TypeInv, TypeOK, LinkTypeOK
      <4>5. Range(Append(freeTags[h], t)) = Range(freeTags[h]) \cup {t}
        BY <4>4, TagFreed
      <4> TAKE g \in Hosts
      <4>6. Tags \subseteq routed[g] \cup Range(freeTags[g])
        BY DEF NoTagLost
      <4>7. CASE g = h
        BY <4>2, <4>5, <4>6, <4>7 DEF TypeInv, TypeOK, LinkTypeOK
      <4>8. CASE g # h
        BY <4>2, <4>6, <4>8 DEF TypeInv, TypeOK, LinkTypeOK
      <4> QED
        BY <4>7, <4>8
    <3> QED
      BY <1>3, <3>1, <3>2 DEF AnswerThenWait, HandleDetachedAnswer, linkVars
  <2> QED
    BY <2>3, <2>4 DEF NoTagLost
<1>4. CASE KickOffAssign
  <2>1. PICK s : s = <<hostWorkers[pos.index], pos.pipe>>
    OBVIOUS
  <2>2. /\ pc = "assign" /\ s \in Slots /\ msgQ' = msgQ
        /\ \E off, cnt \in Nat : SendRequest(s, off, cnt)
    BY <1>4, <2>1, KickOffSends
  <2>3. PICK off \in Nat, cnt \in Nat : SendRequest(s, off, cnt)
    BY <2>2
  <2>4. Sends(s, off, cnt) /\ Mail \subseteq Mail'
    BY <2>2, <2>3, SentMail DEF MailInv
  <2>5. s[1] \in Listed
    BY <2>1, <2>2 DEF Listed, Range, TypeInv, Places
  <2>6. NewLetter(s, off, cnt) \in Mail'
    BY <2>4, <2>5, ListedUp DEF Sends
  <2> QED
    BY <2>2, <2>3, <2>4, <2>6, SendLosesNone DEF MailInv, Busy
<1>5. CASE Refill
  <2>1. PICK s : s = slot
    OBVIOUS
  <2>2. /\ pc = "refill" /\ s \in Slots /\ msgQ' = msgQ
        /\ \E off, cnt \in Nat : SendRequest(s, off, cnt)
    BY <1>5, <2>1, RefillSends DEF JobInv
  <2>3. PICK off \in Nat, cnt \in Nat : SendRequest(s, off, cnt)
    BY <2>2
  <2>4. Sends(s, off, cnt) /\ Mail \subseteq Mail'
    BY <2>2, <2>3, SentMail DEF MailInv
  <2>5. s[1] \in Listed
    BY <2>1, <2>2 DEF OrderInv, AnswersBeforeException
  <2>6. NewLetter(s, off, cnt) \in Mail'
    BY <2>4, <2>5, ListedUp DEF Sends
  <2> QED
    BY <2>2, <2>3, <2>4, <2>6, SendLosesNone DEF MailInv, Busy
<1>6. ~AnswerThenRedispatch
  BY DEF AnswerThenRedispatch
<1> QED
  BY <1>1, <1>2, <1>3, <1>4, <1>5, <1>6, StepKinds DEF Taking

-----------------------------------------------------------------------------
\* The pipeline to be served in the kick-off has at most one request.
LEMMA NextInKickOff ==
    ASSUME TypeInv, Members, TwoInv, pc = "assign",
           NEW s, s = <<hostWorkers[pos.index], pos.pipe>>
    PROVE  s \in Slots /\ s[1] \in Listed /\ AtMost(Of(s), 1)
<1>1. /\ pos.index \in DOMAIN hostWorkers /\ pos.index \in Nat
      /\ pos.pipe \in Pipelines(hostWorkers[pos.index]) /\ pos.pipe \in Nat
      /\ pos.round \in 1 .. 2 /\ hostWorkers \in Seq(Hosts)
  BY DEF TypeInv, TypeOK, TrackerTypeOK, Places
<1>2. hostWorkers[pos.index] \in Hosts
  BY <1>1
<1>3. s \in Slots /\ s[1] \in Listed
  BY <1>1, <1>2, SlotFacts DEF Listed, Range
<1>4. ~Served(s)
  BY <1>1 DEF Served, Members, IsInjective
<1>5. Given(s) = pos.round - 1
  BY <1>3, <1>4 DEF Given
<1>6. AtMost(Of(s), Given(s))
  BY <1>3 DEF TwoInv
<1>7. Given(s) \in 0 .. 1
  BY <1>1, <1>5
<1> QED
  BY <1>3, <1>6, <1>7, AtMostMore

\* Requests can be sent, hosts have connections, answers have managers.
LEMMA NobodyDies ==
    ASSUME EnoughTags, Safe, TwoInv, NoFailure, failed = {}, AllAnswers,
           AllCounted, NoTagLost
    PROVE  ~AcceptDies /\ ~AnswerDies /\ ~SendDies /\ ~ExceptionDies
<1> USE DEF Safe
<1>1. AllConnected
  <2>1. Listed \subseteq Hosts
    BY DEF TypeInv, TypeOK, TrackerTypeOK, Listed, Range
  <2> QED
    BY <2>1 DEF AllConnected, Connected, NoFailure, Dead
<1>2. hostWorkers # <<>> => total # 0
  <2>1. hostWorkers \in Seq(Hosts) /\ total \in Nat
    BY TrackerAssumption DEF TypeInv, TypeOK, TrackerTypeOK
  <2>2. hostWorkers # <<>> => Len(hostWorkers) >= 1
    BY <2>1
  <2> QED
    BY <2>1, <2>2 DEF AllCounted
<1>3. ASSUME NEW s \in Slots, s[1] \in Listed, AtMost(Of(s), 1), pc # "idle"
      PROVE  /\ RequestFault(s, TRUE) = "none"
             /\ RequestFault(s, current < NumPixels) = "none"
  <2>1. freeTags[s[1]] # <<>>
    BY <1>3, TagLeft DEF Busy
  <2>2. s[1] \in lookup
    BY <1>3 DEF AllCounted
  <2> QED
    BY <1>3, <2>1, <2>2 DEF RequestFault
<1>4. ~AcceptDies
  BY <1>1, <1>2 DEF AcceptDies
<1>5. ~ExceptionDies
  BY TailFacts DEF ExceptionDies, AllAnswers, AnswerAt, TypeInv
<1>6. ~AnswerDies
  <2> SUFFICES ASSUME AnswerDies
               PROVE  FALSE
    OBVIOUS
  <2>1. Head(msgQ) = msgQ[1] /\ 1 \in DOMAIN msgQ
    BY TailFacts DEF AnswerDies, TypeInv
  <2>2. Head(msgQ).host \in Listed
    BY <2>1 DEF AnswerDies, OrderInv, AnswersBeforeException
  <2> QED
    BY <1>1, <2>2 DEF AnswerDies, AnswerFault
<1>7. SendFault = "none"
  <2>1. CASE pc = "find"
    <3>1. pos.index \in Nat /\ pos.index >= 1 /\ hostWorkers \in Seq(Hosts)
      BY DEF TypeInv, TypeOK, TrackerTypeOK, Places
    <3>2. pos.index <= Len(hostWorkers) => hostWorkers[pos.index] \in Listed
      BY <3>1 DEF Listed, Range
    <3> QED
      BY <1>1, <2>1, <3>2 DEF SendFault, AllConnected
  <2>2. CASE pc = "assign"
    <3>1. PICK s : s = <<hostWorkers[pos.index], pos.pipe>>
      OBVIOUS
    <3>2. s \in Slots /\ s[1] \in Listed /\ AtMost(Of(s), 1)
      BY <2>2, <3>1, NextInKickOff
    <3>3. RequestFault(s, current < NumPixels) = "none"
      BY <1>3, <2>2, <3>2
    <3> QED
      BY <2>2, <3>1, <3>3 DEF SendFault
  <2>3. CASE pc = "refill"
    <3>1. PICK s : s = slot
      OBVIOUS
    <3>2. s \in Slots /\ s[1] \in Listed
      BY <2>3, <3>1 DEF TypeInv, Places, OrderInv, AnswersBeforeException
    <3>3. AtMost(Of(s), 1)
      BY <2>3, <3>1 DEF TwoInv
    <3>4. RequestFault(s, TRUE) = "none"
      BY <1>3, <2>3, <3>2, <3>3
    <3> QED
      BY <2>3, <3>1, <3>4 DEF SendFault
  <2> QED
    BY <2>1, <2>2, <2>3 DEF SendFault
<1> QED
  BY <1>4, <1>5, <1>6, <1>7 DEF SendDies

Unharming == Safe /\ TwoInv /\ Unharmed

LEMMA UnharmingInit == Init => Unharming
<1> SUFFICES ASSUME Init
             PROVE  Unharming
  OBVIOUS
<1>1. Safe /\ TwoInv
  BY SafeInit, TwoInit
<1>2. Alive /\ failed = {} /\ msgQ = <<>> /\ hostWorkers = <<>> /\ total = 0
  BY DEF Init, TrackerInit, Alive
<1>3. AllAnswers
  BY <1>2 DEF AllAnswers
<1>4. AllCounted
  <2>1. Listed = {} /\ Len(hostWorkers) = 0
    BY <1>2 DEF Listed, Range
  <2> QED
    BY <1>2, <2>1, LinkAssumption DEF AllCounted
<1>5. NoTagLost
  <2>1. \A h \in Hosts : routed[h] = {} /\ freeTags[h] = [i \in 1 .. NumTags |-> i]
    BY DEF Init, LinkInit
  <2>2. \A h \in Hosts : Tags \subseteq Range(freeTags[h])
    BY <2>1 DEF Tags, Range
  <2> QED
    BY <2>1, <2>2 DEF NoTagLost
<1> QED
  BY <1>1, <1>2, <1>3, <1>4, <1>5 DEF Unharming, Unharmed

LEMMA UnharmingStep == EnoughTags /\ Unharming /\ [Next]_vars => Unharming'
<1> SUFFICES ASSUME EnoughTags, Unharming, [Next]_vars
             PROVE  Unharming'
  OBVIOUS
<1>1. Safe /\ Safe' /\ TwoInv /\ TwoInv'
  BY SafeStep, TwoStep DEF Unharming, Safe, JobInv
<1>2. ASSUME NoFailure'
      PROVE  Alive' /\ failed' = {} /\ AllAnswers' /\ AllCounted' /\ NoTagLost'
  <2>1. /\ NoFailure /\ Alive /\ failed = {} /\ AllAnswers /\ AllCounted
        /\ NoTagLost
    BY <1>1, <1>2, NoFailureBefore DEF Unharming, Unharmed, Safe
  <2>2. Alive'
    BY <1>1, <2>1, FaultMoves, NobodyDies DEF Alive
  <2>3. failed' = {}
    BY <1>1, <1>2, <2>1, FailedStep DEF Safe
  <2>4. AllAnswers'
    BY <1>1, <1>2, <2>1, AnswersStep DEF Safe
  <2>5. AllCounted'
    BY <1>1, <1>2, <2>1, CountedStep DEF Safe
  <2>6. NoTagLost'
    BY <1>1, <1>2, <2>1, TagsStep
  <2> QED
    BY <2>2, <2>3, <2>4, <2>5, <2>6
<1> QED
  BY <1>1, <1>2 DEF Unharming, Unharmed

\* Without a failed worker the master never follows a null connection, runs
\* out of tags or divides by zero (SchedulerBase::SendNextJob, ResourceTracker),
\* if a connection has two tags for each pipeline at its other end.
THEOREM OnlyFailuresKill ==
    ASSUME EnoughTags
    PROVE  Spec => []NoFaultWithoutFailure
<1>1. Unharming /\ [Next]_vars => Unharming'
  BY UnharmingStep
<1>2. Unharming => NoFaultWithoutFailure
  BY DEF Unharming, Unharmed, NoFaultWithoutFailure
<1> QED
  BY <1>1, <1>2, UnharmingInit, PTL DEF Spec

-----------------------------------------------------------------------------
(* No work is done twice                                                   *)

\* No two requests on their way are for the same pixels, and none is for
\* pixels that have been shipped but the one whose pixels have just been.
OneJob ==
    NoFailure => \A l, k \in Work : l.off = k.off => l = k

Unshipped ==
    NoFailure =>
        \A s \in Slots : \A i \in DOMAIN todo[s] :
            todo[s][i].cnt # 0 /\ ~(i = 1 /\ shipped[s])
                => JobOf(todo[s][i]) \notin Shipped

\* A request with work is for a job.
LEMMA WorkJobs ==
    ASSUME TypeInv, Covered, NEW l \in Work
    PROVE  JobOf(l) \in AllJobs
<1>0. l \in Mail /\ l.cnt # 0
  BY DEF Work
<1>1. CASE \E s \in Slots : l \in TodoMail(s)
  <2>1. PICK s \in Slots : \E i \in DOMAIN todo[s] : l = Letter(s[1], s[2], todo[s][i])
    BY <1>1 DEF TodoMail
  <2>2. PICK i \in DOMAIN todo[s] : l = Letter(s[1], s[2], todo[s][i])
    BY <2>1
  <2>3. todo[s] \in Seq(Requests) /\ todo[s][i] \in Requests
    BY ElementOfSeq DEF TypeInv, TypeOK, LinkTypeOK
  <2>4. JobOf(l) = JobOf(todo[s][i]) /\ JobOf(l) \in Jobs /\ JobOf(l).cnt # 0
    BY <1>0, <2>2, <2>3 DEF JobOf, Letter, Requests, Jobs
  <2> QED
    BY <2>4, JobSets
<1>2. CASE \E h \in Hosts : l \in RespMail(h)
  <2>1. PICK h \in Hosts : \E i \in DOMAIN resp[h] :
                l = Letter(h, resp[h][i].pipe, resp[h][i])
    BY <1>2 DEF RespMail
  <2>2. JobOf(l) \in Shipped
    BY <1>0, <2>1 DEF Covered, WorkersShip, JobOf, Letter
  <2> QED
    BY <2>2, JobSets
<1>3. CASE l \in QueueMail
  <2>1. PICK i \in DOMAIN msgQ :
            AnswerAt(i) /\ l = Letter(msgQ[i].host, msgQ[i].pipe, msgQ[i])
    BY <1>3 DEF QueueMail
  <2>2. JobOf(l) \in Shipped
    BY <1>0, <2>1 DEF Covered, AnswersShipped, JobOf, Letter
  <2> QED
    BY <2>2, JobSets
<1> QED
  BY <1>0, <1>1, <1>2, <1>3, BoxFacts DEF Mail

\* All that is known of lies before the next job.
LEMMA NextJobIsNew ==
    ASSUME TypeInv, JobInv, NEW j \in AllJobs
    PROVE  j.off < current
<1>1. j \in Jobs /\ j.cnt # 0 /\ j.off + j.cnt <= current
  BY JobsAreJobs DEF JobInv, Apart, TypeInv
<1> QED
  BY <1>1 DEF Jobs, TypeInv, TypeOK

\* How mail with work comes about without a failure.
LEMMA NewWork ==
    ASSUME Safe, NoFailure, NoFailure', AllAnswers, failed = {}, [Next]_vars
    PROVE  \/ Mail' \subseteq Mail
           \/ \E s \in Slots, off, cnt \in Nat :
                  /\ SendRequest(s, off, cnt)
                  /\ Mail' \subseteq Mail \cup {NewLetter(s, off, cnt)}
                  /\ off = current \/ cnt = 0
<1> USE DEF Safe, MailInv
<1>1. CASE Idles \/ Outside
  BY <1>1, IdleMail, OutsideMail DEF Quiet
<1>2. CASE AnswerThenRefill \/ AnswerThenFinish \/ AnswerThenWait
           \/ HandleDetachedAnswer
  BY <1>2, TakingMail
<1>3. CASE KickOffAssign
  <2>1. PICK s : s = <<hostWorkers[pos.index], pos.pipe>>
    OBVIOUS
  <2>2. /\ s \in Slots /\ msgQ' = msgQ
        /\ \E off, cnt \in Nat : /\ SendRequest(s, off, cnt)
                                 /\ NextJob(off, cnt) \/ NoJob(off, cnt)
    BY <1>3, <2>1, KickOffSends
  <2>3. PICK off \in Nat, cnt \in Nat : /\ SendRequest(s, off, cnt)
                                        /\ NextJob(off, cnt) \/ NoJob(off, cnt)
    BY <2>2
  <2>4. Mail' \subseteq Mail \cup {NewLetter(s, off, cnt)}
    BY <2>2, <2>3, SentMail DEF Sends
  <2> QED
    BY <2>2, <2>3, <2>4 DEF NextJob, NoJob
<1>4. CASE Refill
  <2>1. PICK s : s = slot
    OBVIOUS
  <2>2. /\ s \in Slots /\ msgQ' = msgQ
        /\ \E off, cnt \in Nat : /\ SendRequest(s, off, cnt)
                                 /\ NextJob(off, cnt) \/ FailedJob(off, cnt)
    BY <1>4, <2>1, RefillSends DEF JobInv
  <2>3. PICK off \in Nat, cnt \in Nat : /\ SendRequest(s, off, cnt)
                                        /\ NextJob(off, cnt)
    BY <2>2 DEF FailedJob
  <2>4. Mail' \subseteq Mail \cup {NewLetter(s, off, cnt)}
    BY <2>2, <2>3, SentMail DEF Sends
  <2> QED
    BY <2>2, <2>3, <2>4 DEF NextJob
<1>5. ~AnswerThenRedispatch
  BY DEF AnswerThenRedispatch
<1> QED
  BY <1>1, <1>2, <1>3, <1>4, <1>5, StepKinds

LEMMA OneJobStep ==
    ASSUME Safe, Covered, NoFailure, NoFailure', AllAnswers, failed = {}, OneJob,
           [Next]_vars
    PROVE  OneJob'
<1>0. TypeInv /\ JobInv
  BY DEF Safe
<1>1. CASE Mail' \subseteq Mail
  BY <1>1 DEF OneJob, Work
<1>2. ASSUME NEW s \in Slots, NEW off \in Nat, NEW cnt \in Nat,
             Mail' \subseteq Mail \cup {NewLetter(s, off, cnt)},
             off = current \/ cnt = 0
      PROVE  OneJob'
  <2>1. PICK n : n = NewLetter(s, off, cnt)
    OBVIOUS
  <2>2. n.off = off /\ n.cnt = cnt
    BY <2>1 DEF NewLetter
  <2>3. \A l \in Work : l.off < current
    <3> TAKE l \in Work
    <3>1. JobOf(l) \in AllJobs /\ JobOf(l).off = l.off
      BY <1>0, WorkJobs DEF JobOf
    <3> QED
      BY <1>0, <3>1, NextJobIsNew
  <2>4. current \in Nat
    BY <1>0 DEF TypeInv, TypeOK
  <2>5. \A l \in Work' : l \in Work \/ (l = n /\ l.off = current)
    BY <1>2, <2>1, <2>2 DEF Work
  <2> QED
    BY <2>3, <2>4, <2>5 DEF OneJob
<1> QED
  BY <1>1, <1>2, NewWork

\* What moves segments.
LEMMA SegmentMoves ==
    ASSUME [Next]_vars
    PROVE  \/ UNCHANGED <<image, lost, segments>>
           \/ \E h \in Hosts : Client(h) \/ Perish(h)
           \/ \E s \in Slots : ShipSegment(s)
<1> DEFINE same == UNCHANGED <<image, lost, segments>>
<1> USE DEF linkVars, wireVars
<1>1. CASE Idles
  <2>1. ASSUME NEW f, Die(f) PROVE same
    BY <2>1 DEF Die
  <2>2. CASE Request
    BY <2>1, <2>2 DEF Request, RejectScene, AcceptScene, AcceptDies
  <2>3. CASE AnswerDies \/ SendDies \/ ExceptionDies
    BY <2>1, <2>3 DEF AnswerDies, SendDies, ExceptionDies
  <2>4. CASE KickOffFind \/ KickOffNextRound \/ HandleException
    BY <2>4 DEF KickOffFind, KickOffNextRound, HandleException
  <2>5. CASE HandleDetachedException \/ UNCHANGED vars
    BY <2>5 DEF HandleDetachedException, Close, vars
  <2> QED
    BY <1>1, <2>2, <2>3, <2>4, <2>5 DEF Idles
<1>2. CASE Outside
  <2>1. ASSUME NEW h \in Hosts, Connection(h) \/ RegisterWorker(h)
        PROVE  same
    BY <2>1 DEF Connection, Receive, ReportException, NoteFailure,
                CloseConnection, Close, RegisterWorker
  <2>2. ASSUME NEW h \in Hosts, WorkerDies(h) PROVE Perish(h)
    BY <2>2 DEF WorkerDies, Crash
  <2>3. ASSUME NEW s \in Slots, Worker(s)
        PROVE  same \/ ShipSegment(s) \/ \E h \in Hosts : Perish(h)
    BY <2>3, SlotFacts DEF Worker, Respond, ProduceUnknownScene
  <2> QED
    BY <1>2, <2>1, <2>2, <2>3 DEF Outside
<1>3. CASE AnswerThenRefill \/ AnswerThenFinish \/ AnswerThenWait
           \/ HandleDetachedAnswer
  BY <1>3 DEF AnswerThenRefill, AnswerThenFinish, AnswerThenWait,
              HandleDetachedAnswer, FreeAppTag
<1>4. CASE KickOffAssign \/ Refill \/ AnswerThenRedispatch
  <2>1. \A s, off, cnt : SendRequest(s, off, cnt) => same
    BY DEF SendRequest
  <2> HIDE DEF same
  <2>2. KickOffAssign => same
    BY <2>1 DEF KickOffAssign, SendNextJob, Assign
  <2>3. Refill => same
    BY <2>1 DEF Refill, SendNextJob, Assign
  <2>4. AnswerThenRedispatch => same
    BY <2>1 DEF AnswerThenRedispatch, Assign
  <2> QED
    BY <1>4, <2>2, <2>3, <2>4 DEF same
<1> QED
  BY <1>1, <1>2, <1>3, <1>4, StepKinds

\* How the set of shipped jobs grows.
LEMMA ShippedMoves ==
    ASSUME TypeInv, [Next]_vars
    PROVE  \/ Shipped' \subseteq Shipped
           \/ \E s \in Slots : /\ ShipSegment(s)
                               /\ Shipped' \subseteq Shipped \cup {JobOf(Head(todo[s]))}
<1>1. CASE UNCHANGED <<image, lost, segments>>
  BY <1>1 DEF Shipped
<1>2. ASSUME NEW h \in Hosts, Client(h)
      PROVE  Shipped' \subseteq Shipped
  <2>1. PICK job \in segments[h] : Deliver(h, job)
    BY <1>2 DEF Client
  <2>2. \A g \in Hosts : segments'[g] \subseteq segments[g]
    BY <2>1 DEF Deliver, TypeInv, TypeOK, LinkTypeOK
  <2>3. image' = image \cup {job} /\ lost' = lost
    BY <2>1 DEF Deliver
  <2> QED
    BY <2>1, <2>2, <2>3, JobSets
<1>3. ASSUME NEW h \in Hosts, Perish(h)
      PROVE  Shipped' \subseteq Shipped
  <2>1. \A g \in Hosts : segments'[g] \subseteq segments[g]
    BY <1>3 DEF Perish, TypeInv, TypeOK, LinkTypeOK
  <2>2. image' = image /\ lost' \subseteq lost \cup segments[h]
    BY <1>3 DEF Perish
  <2> QED
    BY <2>1, <2>2, JobSets
<1>4. ASSUME NEW s \in Slots, ShipSegment(s)
      PROVE  Shipped' \subseteq Shipped \cup {JobOf(Head(todo[s]))}
  <2>1. \A g \in Hosts : segments'[g] \subseteq segments[g] \cup {JobOf(Head(todo[s]))}
    BY <1>4 DEF ShipSegment, JobOf, TypeInv, TypeOK, LinkTypeOK
  <2>2. image' = image /\ lost' = lost
    BY <1>4 DEF ShipSegment
  <2> QED
    BY <2>1, <2>2, JobSets
<1>5. \/ UNCHANGED <<image, lost, segments>>
      \/ \E h \in Hosts : Client(h) \/ Perish(h)
      \/ \E s \in Slots : ShipSegment(s)
  BY SegmentMoves
<1> QED
  BY <1>1, <1>2, <1>3, <1>4, <1>5

LEMMA UnshippedStep ==
    ASSUME Safe, Covered, NoFailure, NoFailure', AllAnswers, failed = {},
           OneJob, Unshipped, [Next]_vars
    PROVE  Unshipped'
<1>0. TypeInv /\ JobInv /\ MailInv
  BY DEF Safe
<1>1. \A j \in Shipped : j \in AllJobs /\ j.off # current
  <2> TAKE j \in Shipped
  <2>1. j \in AllJobs
    BY JobSets
  <2>2. j.off < current /\ j.off \in Nat /\ current \in Nat
    BY <1>0, <2>1, NextJobIsNew, JobsAreJobs DEF TypeInv, TypeOK, Jobs
  <2> QED
    BY <2>1, <2>2
<1>2. SUFFICES ASSUME NEW s \in Slots, NEW i \in DOMAIN todo'[s],
                      todo'[s][i].cnt # 0, ~(i = 1 /\ shipped'[s])
               PROVE  JobOf(todo'[s][i]) \notin Shipped'
  BY DEF Unshipped
<1>3. todo[s] \in Seq(Requests) /\ s[1] \in Hosts
  BY <1>0, SlotFacts DEF TypeInv, TypeOK, LinkTypeOK
<1>4. ASSUME NEW g \in Slots, ShipSegment(g)
      PROVE  JobOf(todo'[s][i]) \notin Shipped'
  <2>1. /\ todo' = todo /\ todo[g] # <<>> /\ Head(todo[g]).cnt # 0
        /\ shipped' = [shipped EXCEPT ![g] = TRUE]
    BY <1>4 DEF ShipSegment
  <2>2. shipped[s] => shipped'[s]
    BY <1>0, <2>1 DEF TypeInv, TypeOK, LinkTypeOK
  <2>3. JobOf(todo[s][i]) \notin Shipped
    BY <1>2, <2>1, <2>2 DEF Unshipped
  <2>4. Shipped' \subseteq Shipped \cup {JobOf(Head(todo[g]))}
    <3>1. \A f \in Slots : ShipSegment(f) => f = g
      BY <1>0, <2>1 DEF ShipSegment, TypeInv, TypeOK, LinkTypeOK
    <3> QED
      BY <1>0, <3>1, ShippedMoves
  <2>5. JobOf(todo[s][i]) # JobOf(Head(todo[g]))
    <3> SUFFICES ASSUME JobOf(todo[s][i]) = JobOf(Head(todo[g]))
                 PROVE  FALSE
      OBVIOUS
    <3>1. todo[g] \in Seq(Requests) /\ 1 \in DOMAIN todo[g] /\ Head(todo[g]) = todo[g][1]
      BY <1>0, <2>1, SeqTail DEF TypeInv, TypeOK, LinkTypeOK
    <3>2. PICK l, k : l = Letter(s[1], s[2], todo[s][i]) /\ k = Letter(g[1], g[2], todo[g][1])
      OBVIOUS
    <3>3. l \in Mail /\ k \in Mail
      BY <1>2, <2>1, <3>1, <3>2, AllBoxed DEF Boxed
    <3>4. l \in Work /\ k \in Work /\ l.off = k.off
      BY <1>2, <2>1, <3>1, <3>2, <3>3 DEF Work, Letter, JobOf
    <3>5. l = k
      BY <3>4 DEF OneJob
    <3>6. s[1] = g[1] /\ s[2] = g[2] /\ todo[s][i].tag = todo[g][1].tag
      BY <3>2, <3>5 DEF Letter
    <3>7. s = g
      BY <3>6, SlotFacts
    <3>8. i = 1
      BY <1>0, <1>2, <2>1, <3>1, <3>6, <3>7 DEF MailInv, Once, OneEach
    <3>9. shipped'[s]
      BY <1>0, <2>1, <3>7 DEF TypeInv, TypeOK, LinkTypeOK
    <3> QED
      BY <1>2, <3>8, <3>9
  <2> QED
    BY <2>1, <2>3, <2>4, <2>5
<1>5. ASSUME Shipped' \subseteq Shipped,
             \/ todo'[s][i].off = current
             \/ \E m \in DOMAIN todo[s] : /\ todo[s][m] = todo'[s][i]
                                          /\ (m = 1 /\ shipped[s]) => (i = 1 /\ shipped'[s])
      PROVE  JobOf(todo'[s][i]) \notin Shipped'
  <2>1. CASE todo'[s][i].off = current
    <3>1. JobOf(todo'[s][i]).off = current
      BY <2>1 DEF JobOf
    <3> QED
      BY <1>1, <1>5, <3>1
  <2>2. CASE \E m \in DOMAIN todo[s] : /\ todo[s][m] = todo'[s][i]
                                       /\ (m = 1 /\ shipped[s]) => (i = 1 /\ shipped'[s])
    <3> PICK m \in DOMAIN todo[s] : /\ todo[s][m] = todo'[s][i]
                                    /\ (m = 1 /\ shipped[s]) => (i = 1 /\ shipped'[s])
      BY <2>2
    <3>1. todo[s][m].cnt # 0 /\ ~(m = 1 /\ shipped[s])
      BY <1>2
    <3>2. JobOf(todo[s][m]) \notin Shipped
      BY <3>1 DEF Unshipped
    <3> QED
      BY <1>5, <3>2
  <2> QED
    BY <1>5, <2>1, <2>2
<1>6. ASSUME NEW g \in Slots, Respond(g)
      PROVE  \E m \in DOMAIN todo[s] : /\ todo[s][m] = todo'[s][i]
                                       /\ (m = 1 /\ shipped[s]) => (i = 1 /\ shipped'[s])
  <2>1. PICK n \in DOMAIN todo[g] :
            /\ todo' = [todo EXCEPT ![g] = RemoveAt(@, n)]
            /\ shipped' = [shipped EXCEPT ![g] = @ /\ n # 1]
    BY <1>0, <1>6, RespondFacts
  <2>2. CASE g # s
    BY <1>0, <1>2, <2>1, <2>2 DEF TypeInv, TypeOK, LinkTypeOK
  <2>3. CASE g = s
    <3>1. /\ todo'[s] = RemoveAt(todo[s], n) /\ n \in DOMAIN todo[s]
          /\ shipped'[s] <=> (shipped[s] /\ n # 1)
      BY <1>0, <2>1, <2>3 DEF TypeInv, TypeOK, LinkTypeOK
    <3>2. /\ i \in 1 .. Len(todo[s]) - 1 /\ n \in Nat /\ n >= 1
          /\ todo'[s][i] = IF i < n THEN todo[s][i] ELSE todo[s][i + 1]
      <4>1. DOMAIN RemoveAt(todo[s], n) = 1 .. Len(todo[s]) - 1
        BY <1>3, <3>1, RemoveAtFacts
      <4>2. i \in 1 .. Len(todo[s]) - 1
        BY <1>2, <3>1, <4>1
      <4>3. RemoveAt(todo[s], n)[i] = IF i < n THEN todo[s][i] ELSE todo[s][i + 1]
        BY <1>3, <3>1, <4>2, RemoveAtFacts
      <4>4. n \in Nat /\ n >= 1
        BY <1>3, <3>1
      <4> QED
        BY <3>1, <4>2, <4>3, <4>4
    <3>3. CASE i < n
      BY <1>3, <3>1, <3>2, <3>3
    <3>4. CASE ~(i < n)
      <4>1. i + 1 \in DOMAIN todo[s] /\ i + 1 # 1
        BY <1>3, <3>2
      <4> QED
        BY <3>2, <3>4, <4>1
    <3> QED
      BY <3>3, <3>4
  <2> QED
    BY <2>2, <2>3
<1>7. ASSUME \A g \in Slots : ~ShipSegment(g) /\ ~Respond(g)
      PROVE  \/ todo'[s][i].off = current
             \/ \E m \in DOMAIN todo[s] : /\ todo[s][m] = todo'[s][i]
                                          /\ (m = 1 /\ shipped[s]) => (i = 1 /\ shipped'[s])
  <2>1. shipped' = shipped
    BY <1>0, <1>7, WorkerMoves, NothingFails DEF Receive
  <2>2. CASE todo' = todo
    BY <1>2, <2>1, <2>2
  <2>3. ASSUME NEW g \in Slots, NEW off \in Nat, NEW cnt \in Nat,
               SendRequest(g, off, cnt),
               NextJob(off, cnt) \/ NoJob(off, cnt) \/ FailedJob(off, cnt)
        PROVE  \/ todo'[s][i].off = current
               \/ i \in DOMAIN todo[s] /\ todo[s][i] = todo'[s][i]
    <3>1. CASE g # s \/ todo' = todo
      <4>1. todo'[s] = todo[s]
        BY <1>0, <2>3, <3>1 DEF SendRequest, TypeInv, TypeOK, LinkTypeOK
      <4> QED
        BY <1>2, <4>1
    <3>2. CASE g = s /\ todo' # todo
      <4> DEFINE e == [tag |-> Head(freeTags[s[1]]), off |-> off, cnt |-> cnt]
      <4>1. todo'[s] = Append(todo[s], e)
        BY <1>0, <2>3, <3>2 DEF SendRequest, TypeInv, TypeOK, LinkTypeOK
      <4>2. e.off = current \/ e.cnt = 0
        BY <2>3 DEF NextJob, NoJob, FailedJob
      <4> HIDE DEF e
      <4>3. (i \in DOMAIN todo[s] /\ todo'[s][i] = todo[s][i]) \/ todo'[s][i] = e
        BY <1>2, <1>3, <4>1
      <4> QED
        BY <1>2, <4>2, <4>3
    <3> QED
      BY <3>1, <3>2
  <2> QED
    BY <1>0, <1>7, <2>1, <2>2, <2>3, TodoMoves, NothingFails DEF JobInv
<1>8. CASE \E g \in Slots : ShipSegment(g)
  BY <1>4, <1>8
<1>9. CASE ~\E g \in Slots : ShipSegment(g)
  <2>1. Shipped' \subseteq Shipped
    BY <1>0, <1>9, ShippedMoves
  <2> QED
    BY <1>5, <1>6, <1>7, <1>9, <2>1
<1> QED
  BY <1>8, <1>9

Frugal == Unharming /\ Covered /\ OneJob /\ Unshipped

LEMMA FrugalInit == Init => Frugal
<1> SUFFICES ASSUME Init
             PROVE  Frugal
  OBVIOUS
<1>1. Mail = {} /\ \A s \in Slots : todo[s] = <<>>
  BY NoMailAtFirst
<1>2. OneJob /\ Unshipped
  BY <1>1 DEF OneJob, Work, Unshipped
<1> QED
  BY <1>2, UnharmingInit, CoveredInit DEF Frugal

LEMMA FrugalStep == EnoughTags /\ Frugal /\ [Next]_vars => Frugal'
<1> SUFFICES ASSUME EnoughTags, Frugal, [Next]_vars
             PROVE  Frugal'
  OBVIOUS
<1>1. Safe /\ Unharming'
  BY UnharmingStep DEF Frugal, Unharming
<1>2. Covered'
  BY <1>1, WorkersShipStep, AnswersShippedStep, CoveredStep DEF Frugal, Covered, Safe
<1>3. ASSUME NoFailure'
      PROVE  OneJob' /\ Unshipped'
  <2>1. NoFailure /\ failed = {} /\ AllAnswers
    BY <1>1, <1>3, NoFailureBefore DEF Frugal, Unharming, Unharmed, Safe
  <2> QED
    BY <1>1, <1>3, <2>1, OneJobStep, UnshippedStep DEF Frugal
<1> QED
  BY <1>1, <1>2, <1>3 DEF Frugal, OneJob, Unshipped

\* A segment goes out when its pipeline has not shipped it yet.
LEMMA ShipsNew ==
    ASSUME Frugal, [Next]_vars, NEW s \in Slots, shipped'[s], ~shipped[s], NoFailure
    PROVE  [off |-> Head(todo[s]).off, cnt |-> Head(todo[s]).cnt] \notin Shipped
<1>1. TypeInv
  BY DEF Frugal, Unharming, Safe
<1>2. ShipSegment(s)
  <2>1. ASSUME NEW g \in Slots, ShipSegment(g), g # s
        PROVE  FALSE
    BY <1>1, <2>1 DEF ShipSegment, TypeInv, TypeOK, LinkTypeOK
  <2>2. ASSUME NEW g \in Slots, Respond(g)
        PROVE  FALSE
    BY <1>1, <2>2 DEF Respond, TypeInv, TypeOK, LinkTypeOK
  <2>3. ASSUME NEW h \in Hosts, Perish(h)
        PROVE  FALSE
    BY <1>1, <2>3 DEF Perish, TypeInv, TypeOK, LinkTypeOK
  <2>4. ASSUME NEW h \in Hosts, Receive(h)
        PROVE  FALSE
    BY <2>4 DEF Receive
  <2> QED
    BY <2>1, <2>2, <2>3, <2>4, WorkerMoves
<1>3. todo[s] # <<>> /\ Head(todo[s]).cnt # 0
  BY <1>2 DEF ShipSegment
<1>4. 1 \in DOMAIN todo[s] /\ Head(todo[s]) = todo[s][1]
  BY <1>1, <1>3, SeqTail DEF TypeInv, TypeOK, LinkTypeOK
<1> QED
  BY <1>3, <1>4 DEF Frugal, Unshipped, JobOf

\* Without a failed worker no segment is shipped twice: every pixel is
\* produced once (PixelProduceRequestMsg, SceneSchedulerDynamic::SendNextJob).
THEOREM NothingShippedTwice ==
    ASSUME EnoughTags
    PROVE  Spec => ShippedOnce
<1>1. Frugal /\ [Next]_vars => Frugal'
  BY FrugalStep
<1>2. Frugal /\ [Next]_vars =>
          [\A s \in Slots :
               shipped'[s] /\ ~shipped[s] /\ NoFailure =>
                   [off |-> Head(todo[s]).off, cnt |-> Head(todo[s]).cnt]
                       \notin Shipped]_vars
  BY ShipsNew
<1> QED
  BY <1>1, <1>2, FrugalInit, PTL DEF Spec, ShippedOnce

=============================================================================
