--------------------------- MODULE BlockingQueue ----------------------------
(***************************************************************************)
(* framework/blocking_queue.hpp: the bounded queue every pair of threads   *)
(* of the ray tracer talks through.  Any number of threads call Put and    *)
(* Take; both lock m_Mutex, test the queue in a while loop around a wait   *)
(* on a condition variable, and wake every thread of the other condition   *)
(* variable before they unlock.                                            *)
(*                                                                         *)
(* The steps of a call are the points at which another thread can come in  *)
(* between: acquiring the mutex, and the critical section up to the        *)
(* release of the mutex, which is either the return of the call or the     *)
(* release by wait().  A woken thread has to acquire the mutex again       *)
(* before it re-tests its condition.                                       *)
(***************************************************************************)
EXTENDS Naturals, Sequences

CONSTANTS Producers,  \* threads that call Put
          Consumers,  \* threads that call Take
          Capacity,   \* m_MaxSize
          MaxPuts,    \* bound on the calls of Put of each producer
          NoThread    \* nobody holds the mutex

ASSUME ThreadAssumption ==
    /\ Producers \cap Consumers = {}
    /\ NoThread \notin Producers \cup Consumers

ASSUME CapacityAssumption == Capacity \in Nat \ {0}

ASSUME BoundAssumption == MaxPuts \in Nat

Threads == Producers \cup Consumers

\* The n-th element that producer p puts.
Items == Producers \X (1 .. MaxPuts)

VARIABLES
    queue,      \* the std::queue the class derives from
    mutex,      \* the thread that holds m_Mutex, or NoThread
    pc,         \* where each thread is in Put or Take
    fullWait,   \* the threads waiting on m_FullCondition
    emptyWait,  \* the threads waiting on m_EmptyCondition
    puts,       \* how many calls of Put each producer has started
    put,        \* history: every element pushed, in order
    got         \* history: every element popped, in order

vars == <<queue, mutex, pc, fullWait, emptyWait, puts, put, got>>

Init ==
    /\ queue = <<>>
    /\ mutex = NoThread
    /\ pc = [t \in Threads |-> "idle"]
    /\ fullWait = {}
    /\ emptyWait = {}
    /\ puts = [p \in Producers |-> 0]
    /\ put = <<>>
    /\ got = <<>>

Full == Len(queue) >= Capacity

-----------------------------------------------------------------------------
\* A thread enters Put or Take and asks for the mutex.
CallPut(p) ==
    /\ pc[p] = "idle"
    /\ puts[p] < MaxPuts
    /\ puts' = [puts EXCEPT ![p] = @ + 1]
    /\ pc' = [pc EXCEPT ![p] = "locking"]
    /\ UNCHANGED <<queue, mutex, fullWait, emptyWait, put, got>>

CallTake(c) ==
    /\ pc[c] = "idle"
    /\ pc' = [pc EXCEPT ![c] = "locking"]
    /\ UNCHANGED <<queue, mutex, fullWait, emptyWait, puts, put, got>>

\* The mutex is granted, on entry or after a wait() has been woken up.
Lock(t) ==
    /\ pc[t] = "locking"
    /\ mutex = NoThread
    /\ mutex' = t
    /\ pc' = [pc EXCEPT ![t] = "locked"]
    /\ UNCHANGED <<queue, fullWait, emptyWait, puts, put, got>>

\* (variant: the call is missing; no specification uses the variants, they show
\* what the properties detect)
NotifyNobody(waiting) == {}

\* notify_all wakes all that wait.
Notify(waiting) == waiting

\* The threads of one wait set are woken; t itself returns.
ReturnAndNotify(t, woken) ==
    /\ mutex' = NoThread
    /\ pc' = [u \in Threads |-> IF u = t THEN "idle"
                                ELSE IF u \in woken THEN "locking" ELSE pc[u]]

\* wait() releases the mutex and suspends the thread in one step.
Suspend(t) ==
    /\ mutex' = NoThread
    /\ pc' = [pc EXCEPT ![t] = "waiting"]

PutWait(p) ==
    /\ mutex = p
    /\ Full
    /\ Suspend(p)
    /\ fullWait' = fullWait \cup {p}
    /\ UNCHANGED <<queue, emptyWait, puts, put, got>>

PutPush(p) ==
    /\ mutex = p
    /\ ~Full
    /\ queue' = Append(queue, <<p, puts[p]>>)
    /\ put' = Append(put, <<p, puts[p]>>)
    /\ emptyWait' = emptyWait \ Notify(emptyWait)
    /\ ReturnAndNotify(p, Notify(emptyWait))
    /\ UNCHANGED <<fullWait, puts, got>>

TakeWait(c) ==
    /\ mutex = c
    /\ queue = <<>>
    /\ Suspend(c)
    /\ emptyWait' = emptyWait \cup {c}
    /\ UNCHANGED <<queue, fullWait, puts, put, got>>

\* (variant: the newest element is taken)
TakeNewest(c) ==
    /\ mutex = c
    /\ queue # <<>>
    /\ queue' = SubSeq(queue, 1, Len(queue) - 1)
    /\ got' = Append(got, queue[Len(queue)])
    /\ fullWait' = {}
    /\ ReturnAndNotify(c, fullWait)
    /\ UNCHANGED <<emptyWait, puts, put>>

TakePop(c) ==
    /\ mutex = c
    /\ queue # <<>>
    /\ queue' = Tail(queue)
    /\ got' = Append(got, Head(queue))
    /\ fullWait' = fullWait \ Notify(fullWait)
    /\ ReturnAndNotify(c, Notify(fullWait))
    /\ UNCHANGED <<emptyWait, puts, put>>

\* A condition variable may return from wait() without a notification.
SpuriousWakeup(t) ==
    /\ t \in fullWait \cup emptyWait
    /\ fullWait' = fullWait \ {t}
    /\ emptyWait' = emptyWait \ {t}
    /\ pc' = [pc EXCEPT ![t] = "locking"]
    /\ UNCHANGED <<queue, mutex, puts, put, got>>

-----------------------------------------------------------------------------
Put(p) == CallPut(p) \/ PutWait(p) \/ PutPush(p)

Take(c) == CallTake(c) \/ TakeWait(c) \/ TakePop(c)

Next ==
    \/ \E p \in Producers : Put(p)
    \/ \E c \in Consumers : Take(c)
    \/ \E t \in Threads : Lock(t) \/ SpuriousWakeup(t)

Spec == Init /\ [][Next]_vars

(***************************************************************************)
(* A thread that holds the mutex runs on, a consumer comes back to Take    *)
(* (its Run loop), and a thread that keeps asking for a mutex that keeps   *)
(* being released gets it.  Nothing is assumed of spurious wakeups.        *)
(***************************************************************************)
Fairness ==
    /\ \A p \in Producers : WF_vars(Put(p))
    /\ \A c \in Consumers : WF_vars(Take(c))
    /\ \A t \in Threads : SF_vars(Lock(t))

FairSpec == Spec /\ Fairness

-----------------------------------------------------------------------------
TypeOK ==
    /\ queue \in Seq(Items)
    /\ mutex \in Threads \cup {NoThread}
    /\ pc \in [Threads -> {"idle", "locking", "locked", "waiting"}]
    /\ fullWait \in SUBSET Producers
    /\ emptyWait \in SUBSET Consumers
    /\ puts \in [Producers -> 0 .. MaxPuts]
    /\ \A p \in Producers : pc[p] # "idle" => puts[p] > 0
    /\ put \in Seq(Items)
    /\ got \in Seq(Items)

\* The queue never grows beyond m_MaxSize, whatever threads raced for the
\* last slot (blocking_queue.hpp: the test of Full is repeated after wait).
CapacityRespected == Len(queue) <= Capacity

\* No wakeup is lost: a thread sleeps on m_FullCondition only while the queue
\* is full and on m_EmptyCondition only while it is empty, so both kinds of
\* thread can never sleep on each other (the notify_all calls of Put, Take).
NoLostWakeup ==
    /\ fullWait # {} => Len(queue) = Capacity
    /\ emptyWait # {} => queue = <<>>

\* Every element put is taken exactly once and in the order of the puts, or
\* is still queued: nothing is lost, duplicated or overtaken.
FirstInFirstOut == put = got \o queue

\* Whatever has been put is eventually taken: no producer sleeps for ever on
\* a queue the consumers drain, and no consumer on one that holds elements.
EverythingIsTaken ==
    <>[](/\ queue = <<>>
         /\ \A p \in Producers : <<p, MaxPuts>> \in {got[i] : i \in DOMAIN got})

-----------------------------------------------------------------------------
Channel == INSTANCE BoundedChannel WITH channel <- queue

\* The queue with its mutex and condition variables implements the bounded
\* first-in first-out channel.
ImplementsChannel == Channel!Spec
=============================================================================
