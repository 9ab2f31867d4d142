-------------------------- MODULE ResourceTracker ---------------------------
(***************************************************************************)
(* master/resource_tracker: the singleton that knows the registered hosts, *)
(* the pixel production pipelines they offer and, per pipeline, the jobs   *)
(* of the scene being produced that have been handed to it.  Every method  *)
(* holds the tracker's mutex, so each is one operator here; the scheduler  *)
(* modules that EXTEND this one use them as parts of their actions.        *)
(*                                                                         *)
(* A job is the run of pixels off .. off + cnt - 1.  The tracker keeps the *)
(* jobs of one scene: the scene id in the keys of its maps is left out.    *)
(***************************************************************************)
EXTENDS Integers, Sequences, SequencesExt

CONSTANTS
    Hosts,           \* the worker processes that may register
    NumPipelines,    \* pipelines each host advertises
    ProductionTime,  \* m_PixelProductionTimeInSecForKnownScene of each host
    NumPixels,       \* m_NX * m_NY of the scene
    ChunkMin,        \* m_DynamicSchedulePixelChunkMin
    ChunkMax,        \* m_DynamicScheduleInitialPixelChunkMax
    UIntMod          \* the width of the unsigned counters: they wrap here

ASSUME TrackerAssumption ==
    /\ NumPipelines \in [Hosts -> Nat \ {0}]
    /\ ProductionTime \in [Hosts -> Nat \ {0}]
    /\ NumPixels \in Nat \ {0}
    /\ ChunkMin \in Nat \ {0}
    /\ ChunkMax \in Nat
    /\ UIntMod \in Nat \ {0}

Pipelines(h) == 0 .. NumPipelines[h] - 1

\* <<h, p>> is pipeline p of host h, "hostname:p" in the code.
Slots == UNION {{h} \X Pipelines(h) : h \in Hosts}

Jobs == [off : Nat, cnt : Nat]

VARIABLES
    hostWorkers,  \* m_HostWorkers
    lookup,       \* the hosts with an entry in m_WorkerLookupTable
    total,        \* m_TotalNumPixelProductionPipelines
    maxRate,      \* m_MaxPixelProductionRate: the least production time so far
    tracked       \* m_OutstandingRequestMap of the manager of each pipeline

trackerVars == <<hostWorkers, lookup, total, maxRate, tracked>>

TrackerTypeOK ==
    /\ hostWorkers \in Seq(Hosts)
    /\ lookup \in SUBSET Hosts
    /\ total \in 0 .. UIntMod - 1
    /\ maxRate \in Nat \ {0}
    /\ tracked \in [Slots -> SUBSET Jobs]

TrackerInit ==
    /\ hostWorkers = <<>>
    /\ lookup = {}
    /\ total = 0
    /\ maxRate = 9999999
    /\ tracked = [s \in Slots |-> {}]

\* The hosts that are in m_HostWorkers.  With a single scene a host's pipeline
\* managers exist exactly as long as the host is listed.
Listed == Range(hostWorkers)

MinOf(a, b) == IF a < b THEN a ELSE b

MaxOf(a, b) == IF a < b THEN b ELSE a

-----------------------------------------------------------------------------
\* The chunk per pipeline after k doublings, and the loop's condition to
\* double once more, for t pipelines.
Chunk[k \in 0 .. ChunkMax + 2] ==
    IF k = 0 THEN ChunkMin ELSE 2 * Chunk[k - 1]

Doubles(k, t) ==
    /\ NumPixels > Chunk[k + 2] * t
    /\ Chunk[k + 1] <= ChunkMax

\* The number of pixels with which a new scene may load t pipelines.
GetWorkEstimationForNewScene(t) ==
    LET k == CHOOSE n \in 0 .. ChunkMax :
                 ~Doubles(n, t) /\ \A m \in 0 .. n - 1 : Doubles(m, t)
    IN  MinOf(Chunk[k] * t, NumPixels)

\* Variants with a plausible bug come before the definition they are variants
\* of; no specification uses them, they show what the properties detect.
\* (variant: the host is not entered into the look-up table)
AddWorkerUnnamed(h) ==
    /\ hostWorkers' = Append(hostWorkers, h)
    /\ total' = (total + NumPipelines[h]) % UIntMod
    /\ maxRate' = MinOf(maxRate, ProductionTime[h])
    /\ UNCHANGED <<lookup, tracked>>

\* A host is appended to the list and its pipelines are counted.
AddWorker(h) ==
    /\ hostWorkers' = Append(hostWorkers, h)
    /\ lookup' = lookup \cup {h}
    /\ total' = (total + NumPipelines[h]) % UIntMod
    /\ maxRate' = MinOf(maxRate, ProductionTime[h])
    /\ UNCHANGED tracked

\* (variant: the counter is signed)
NotifyHostFailureSigned(h) ==
    /\ total' = IF h \in Listed THEN total - NumPipelines[h] ELSE total
    /\ UNCHANGED <<hostWorkers, lookup, maxRate, tracked>>

\* The pipelines of a failed host are no longer counted; it stays listed.
NotifyHostFailure(h) ==
    /\ total' = IF h \in Listed THEN (total - NumPipelines[h]) % UIntMod
                ELSE total
    /\ UNCHANGED <<hostWorkers, lookup, maxRate, tracked>>

TrackJob(s, job) ==
    /\ tracked' = [tracked EXCEPT ![s] = @ \cup {job}]
    /\ UNCHANGED <<hostWorkers, lookup, total, maxRate>>

\* (variant: all jobs of the pipeline are taken for done)
UntrackedAll(s, off) == [tracked EXCEPT ![s] = {}]

\* The entry is found by its offset alone.
Untracked(s, off) ==
    [tracked EXCEPT ![s] = {j \in @ : j.off # off}]

NotifyJobDone(s, off) ==
    /\ tracked' = Untracked(s, off)
    /\ UNCHANGED <<hostWorkers, lookup, total, maxRate>>

\* What the host still had to produce.
JobsOf(h) == UNION {tracked[<<h, p>>] : p \in Pipelines(h)}

\* An entry of std::map is not overwritten by insert.
WithFailed(failed, jobs) ==
    failed \cup {j \in jobs : \A f \in failed : f.off # j.off}

\* The host leaves the list.  The iterator is used once more after the erase:
\* it then stands for the next host of the list, if there is one, and that
\* host's lookup entry is dropped in place of the failed host's.
RemoveHost(h) ==
    LET i == CHOOSE n \in DOMAIN hostWorkers : hostWorkers[n] = h
    IN  /\ hostWorkers' = RemoveAt(hostWorkers, i)
        /\ lookup' = lookup \ {IF i < Len(hostWorkers)
                               THEN hostWorkers[i + 1] ELSE h}

\* The jobs of a failed host are handed over and the host is dropped.
RemoveFailedJobs(h) ==
    IF h \in Listed
    THEN /\ tracked' = [s \in Slots |-> IF s[1] = h THEN {} ELSE tracked[s]]
         /\ RemoveHost(h)
         /\ UNCHANGED <<total, maxRate>>
    ELSE UNCHANGED trackerVars
=============================================================================
