------------------------- MODULE BlockingQueueProofs ------------------------
(***************************************************************************)
(* The safety of the bounded queue for any number of producers, consumers  *)
(* and slots.  The invariant IInv adds to the properties the runs check    *)
(* that the thread holding the mutex is inside its critical section and    *)
(* that the threads of the two wait sets are suspended.                    *)
(***************************************************************************)
EXTENDS BlockingQueue, TLAPS, SequenceTheorems

MutexHeldInside == \A t \in Threads : mutex = t => pc[t] = "locked"

WaitersSuspended == \A t \in fullWait \cup emptyWait : pc[t] = "waiting"

Discipline == TypeOK /\ MutexHeldInside /\ WaitersSuspended

IInv ==
    /\ Discipline
    /\ CapacityRespected
    /\ NoLostWakeup
    /\ FirstInFirstOut

-----------------------------------------------------------------------------
\* The empty queue with no thread inside satisfies the invariant.
LEMMA InitIInv == Init => IInv
<1> SUFFICES ASSUME Init PROVE IInv
  OBVIOUS
<1>1. Discipline
  BY BoundAssumption, ThreadAssumption
  DEF Init, Discipline, TypeOK, MutexHeldInside, WaitersSuspended, Threads
<1>2. CapacityRespected /\ NoLostWakeup /\ FirstInFirstOut
  BY CapacityAssumption
  DEF Init, CapacityRespected, NoLostWakeup, FirstInFirstOut
<1> QED BY <1>1, <1>2 DEF IInv

\* What a producer inside its critical section is about to push.
LEMMA PushedItem ==
  ASSUME Discipline, NEW p \in Producers, mutex = p
  PROVE  <<p, puts[p]>> \in Items
<1>1. pc[p] = "locked"
  BY DEF Discipline, MutexHeldInside, Threads
<1>2. puts[p] \in 0 .. MaxPuts /\ puts[p] > 0
  BY <1>1 DEF Discipline, TypeOK
<1>3. puts[p] \in 1 .. MaxPuts
  BY <1>2, BoundAssumption
<1> QED BY <1>3 DEF Items

\* Every step of every thread keeps the types and the mutex discipline.
LEMMA DisciplineStep == Discipline /\ [Next]_vars => Discipline'
<1> SUFFICES ASSUME Discipline, [Next]_vars PROVE Discipline'
  OBVIOUS
<1> USE ThreadAssumption, BoundAssumption
    DEF Discipline, TypeOK, MutexHeldInside, WaitersSuspended, Threads
<1>1. ASSUME NEW p \in Producers, CallPut(p) PROVE Discipline'
  BY <1>1 DEF CallPut
<1>2. ASSUME NEW p \in Producers, PutWait(p) PROVE Discipline'
  BY <1>2 DEF PutWait, Suspend
<1>3. ASSUME NEW p \in Producers, PutPush(p) PROVE Discipline'
  <2>1. <<p, puts[p]>> \in Items
    BY <1>3, PushedItem DEF PutPush
  <2>2. queue' \in Seq(Items) /\ put' \in Seq(Items)
    BY <1>3, <2>1 DEF PutPush
  <2> QED
    BY <1>3, <2>2 DEF PutPush, ReturnAndNotify, Notify
<1>4. ASSUME NEW c \in Consumers, CallTake(c) PROVE Discipline'
  BY <1>4 DEF CallTake
<1>5. ASSUME NEW c \in Consumers, TakeWait(c) PROVE Discipline'
  BY <1>5 DEF TakeWait, Suspend
<1>6. ASSUME NEW c \in Consumers, TakePop(c) PROVE Discipline'
  <2>1. Head(queue) \in Items /\ Tail(queue) \in Seq(Items)
    BY <1>6 DEF TakePop
  <2>2. queue' \in Seq(Items) /\ got' \in Seq(Items)
    BY <1>6, <2>1 DEF TakePop
  <2> QED
    BY <1>6, <2>2 DEF TakePop, ReturnAndNotify, Notify
<1>7. ASSUME NEW t \in Threads, Lock(t) PROVE Discipline'
  BY <1>7 DEF Lock
<1>8. ASSUME NEW t \in Threads, SpuriousWakeup(t) PROVE Discipline'
  BY <1>8 DEF SpuriousWakeup
<1>9. CASE UNCHANGED vars
  BY <1>9 DEF vars
<1> QED
  BY <1>1, <1>2, <1>3, <1>4, <1>5, <1>6, <1>7, <1>8, <1>9
  DEF Next, Put, Take

\* Every step keeps the bound, the wait sets and the order of the elements.
LEMMA QueueStep == IInv /\ [Next]_vars =>
                     CapacityRespected' /\ NoLostWakeup' /\ FirstInFirstOut'
<1> DEFINE Good == CapacityRespected /\ NoLostWakeup /\ FirstInFirstOut
<1> SUFFICES ASSUME IInv, [Next]_vars PROVE Good'
  OBVIOUS
<1> USE CapacityAssumption DEF IInv, Discipline, TypeOK
<1>1. ASSUME NEW p \in Producers, PutPush(p) PROVE Good'
  <2> DEFINE i == <<p, puts[p]>>
  <2>1. i \in Items
    BY <1>1, PushedItem DEF PutPush
  <2> HIDE DEF i
  <2>2. queue' = Append(queue, i) /\ put' = Append(put, i) /\ got' = got
    BY <1>1 DEF PutPush, i
  <2>3. Len(queue') = Len(queue) + 1 /\ Len(queue) < Capacity
    BY <1>1, <2>1, <2>2 DEF PutPush, Full
  <2>4. CapacityRespected'
    BY <2>3 DEF CapacityRespected
  <2>5. NoLostWakeup'
    BY <1>1, <2>3 DEF PutPush, Notify, NoLostWakeup
  <2>6. FirstInFirstOut'
    <3>1. Append(got \o queue, i) = (got \o queue) \o <<i>>
      BY <2>1, AppendIsConcat
    <3>2. got \o Append(queue, i) = got \o (queue \o <<i>>)
      BY <2>1, AppendIsConcat
    <3>3. (got \o queue) \o <<i>> = got \o (queue \o <<i>>)
      BY <2>1, ConcatAssociative
    <3> QED BY <2>2, <3>1, <3>2, <3>3 DEF FirstInFirstOut
  <2> QED BY <2>4, <2>5, <2>6
<1>2. ASSUME NEW c \in Consumers, TakePop(c) PROVE Good'
  <2>1. /\ queue # <<>> /\ queue' = Tail(queue)
        /\ got' = Append(got, Head(queue)) /\ put' = put
    BY <1>2 DEF TakePop
  <2>2. Len(queue') = Len(queue) - 1
    BY <2>1
  <2>3. CapacityRespected'
    BY <2>2 DEF CapacityRespected
  <2>4. NoLostWakeup'
    BY <1>2, <2>1 DEF TakePop, Notify, NoLostWakeup
  <2>5. FirstInFirstOut'
    <3>1. Append(got, Head(queue)) \o Tail(queue) = got \o queue
      BY <2>1
    <3> QED BY <2>1, <3>1 DEF FirstInFirstOut
  <2> QED BY <2>3, <2>4, <2>5
<1>3. ASSUME NEW p \in Producers, PutWait(p) PROVE Good'
  BY <1>3 DEF PutWait, Full, CapacityRespected, NoLostWakeup, FirstInFirstOut
<1>4. ASSUME NEW c \in Consumers, TakeWait(c) PROVE Good'
  BY <1>4 DEF TakeWait, CapacityRespected, NoLostWakeup, FirstInFirstOut
<1>5. ASSUME NEW t \in Threads, SpuriousWakeup(t) PROVE Good'
  BY <1>5 DEF SpuriousWakeup, CapacityRespected, NoLostWakeup, FirstInFirstOut
<1>6. ASSUME UNCHANGED <<queue, fullWait, emptyWait, put, got>> PROVE Good'
  BY <1>6 DEF CapacityRespected, NoLostWakeup, FirstInFirstOut
<1>7. ASSUME NEW t \in Threads, CallPut(t) \/ CallTake(t) \/ Lock(t)
      PROVE  Good'
  BY <1>6, <1>7 DEF CallPut, CallTake, Lock
<1> QED
  BY <1>1, <1>2, <1>3, <1>4, <1>5, <1>6, <1>7
  DEF Next, Put, Take, vars, Threads

\* IInv is an invariant of the queue.
THEOREM Invariance == Spec => []IInv
<1>1. IInv /\ [Next]_vars => IInv'
  BY DisciplineStep, QueueStep DEF IInv
<1> QED
  BY InitIInv, <1>1, PTL DEF Spec

\* Type correctness of the queue, its threads and its wait sets.
THEOREM TypeCorrect == Spec => []TypeOK
  BY Invariance, PTL DEF IInv, Discipline

\* No race of producers pushes the queue over m_MaxSize.
THEOREM CapacityIsRespected == Spec => []CapacityRespected
  BY Invariance, PTL DEF IInv

\* No producer sleeps while there is a free slot, no consumer while there is
\* an element: the notify_all calls of Put and Take lose no wakeup.
THEOREM NoWakeupIsLost == Spec => []NoLostWakeup
  BY Invariance, PTL DEF IInv

\* The elements taken followed by those queued are those put, in order.
THEOREM OrderIsKept == Spec => []FirstInFirstOut
  BY Invariance, PTL DEF IInv

-----------------------------------------------------------------------------
\* The lock-level queue implements the bounded channel: a push is a Put, a
\* pop is a Take, and every other step of a thread leaves the channel alone.
THEOREM Refinement == Spec => ImplementsChannel
<1>1. Init => Channel!Init
  BY DEF Init, Channel!Init
<1>2. IInv /\ [Next]_vars => [Channel!Next]_queue
  <2> SUFFICES ASSUME IInv, [Next]_vars, queue' # queue
               PROVE  Channel!Next
    BY DEF Channel!Next
  <2> USE DEF IInv, Discipline, TypeOK
  <2>1. ASSUME NEW p \in Producers, PutPush(p) PROVE Channel!Next
    <3>1. <<p, puts[p]>> \in Items
      BY <2>1, PushedItem DEF PutPush
    <3>2. Len(queue) < Capacity
      BY <2>1, CapacityAssumption DEF PutPush, Full
    <3> QED
      BY <2>1, <3>1, <3>2 DEF PutPush, Channel!Next, Channel!Put
  <2>2. ASSUME NEW c \in Consumers, TakePop(c) PROVE Channel!Next
    BY <2>2 DEF TakePop, Channel!Next, Channel!Take
  <2> QED
    BY <2>1, <2>2
    DEF Next, Put, Take, vars, CallPut, PutWait, CallTake, TakeWait, Lock,
        SpuriousWakeup
<1> QED
  BY <1>1, <1>2, Invariance, PTL DEF Spec, ImplementsChannel, Channel!Spec
=============================================================================
