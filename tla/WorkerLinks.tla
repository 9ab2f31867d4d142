---------------------------- MODULE WorkerLinks -----------------------------
(***************************************************************************)
(* The master's TCP connections to the workers, with their app tags and    *)
(* response routing, and the pixel production pipelines at the other end.  *)
(*                                                                         *)
(* Messages of one connection are delivered in order and requests to one   *)
(* pipeline are queued in order, so the send queue of a connection, the    *)
(* socket, the worker's queue and the pipeline's queue are one sequence    *)
(* per pipeline, todo.  The answers of a worker travel on one sequence per *)
(* connection, resp, until the connection's receiver thread reads them.    *)
(***************************************************************************)
EXTENDS ResourceTracker, FiniteSets

CONSTANTS
    NumTags,    \* app tags per connection (4999 in the constructor)
    MaxCrashes  \* bound: workers that crash

ASSUME LinkAssumption ==
    /\ IsFiniteSet(Hosts)
    /\ NumTags \in Nat
    /\ MaxCrashes \in Nat

Tags == 1 .. NumTags

\* A request or response of one pipeline; cnt = 0 is a request without work.
Requests == [tag : Tags, off : Nat, cnt : Nat]

Responses == [pipe : Nat, tag : Tags, off : Nat, cnt : Nat]

VARIABLES
    link,      \* how far the life of each host's connection has got
    freeTags,  \* m_AppTagQ of each connection
    routed,    \* the tags in m_ClientRespRoutingMap; each names the scheduler
    todo,      \* the requests waiting for each pipeline, and the one in work
    briefed,   \* the hosts that were sent the scene file
    shipped,   \* the pipeline has sent the pixels of the first to the client
    resp,      \* responses on their way to the master, per host
    segments,  \* segments on their way from each host to the client
    image,     \* the segments the client has received
    lost       \* history: segments that died with the worker that sent them

wireVars == <<resp, segments, image, lost>>

linkVars == <<link, freeTags, routed, todo, briefed, shipped, wireVars>>

(***************************************************************************)
(* absent    the worker has not registered                                 *)
(* up        registered and running                                        *)
(* crashed   the worker is dead, the receiver thread has not noticed yet   *)
(* reported  the receiver thread has seen the error and has exited         *)
(* noted     a master thread has called NotifyHostFailure                  *)
(* closed    and has called Close: the connection is out of m_Connections  *)
(***************************************************************************)
LinkStates == {"absent", "up", "crashed", "reported", "noted", "closed"}

Dead == {"crashed", "reported", "noted", "closed"}

LinkTypeOK ==
    /\ link \in [Hosts -> LinkStates]
    /\ freeTags \in [Hosts -> Seq(Tags)]
    /\ routed \in [Hosts -> SUBSET Tags]
    /\ todo \in [Slots -> Seq(Requests)]
    /\ briefed \in SUBSET Hosts
    /\ shipped \in [Slots -> BOOLEAN]
    /\ resp \in [Hosts -> Seq(Responses)]
    /\ segments \in [Hosts -> SUBSET Jobs]
    /\ image \in SUBSET Jobs
    /\ lost \in SUBSET Jobs

LinkInit ==
    /\ link = [h \in Hosts |-> "absent"]
    /\ freeTags = [h \in Hosts |-> [i \in 1 .. NumTags |-> i]]
    /\ routed = [h \in Hosts |-> {}]
    /\ todo = [s \in Slots |-> <<>>]
    /\ briefed = {}
    /\ shipped = [s \in Slots |-> FALSE]
    /\ resp = [h \in Hosts |-> <<>>]
    /\ segments = [h \in Hosts |-> {}]
    /\ image = {}
    /\ lost = {}

-----------------------------------------------------------------------------
\* The master's side, used by the scheduler's actions.

\* FindConnection returns a connection for every host that is not closed.
Connected(h) == link[h] # "closed"

\* (variant: the tag that is handed out stays in the queue of tags)
AllocateWithoutPop(h) == freeTags

AllocateAppTag(h) == [freeTags EXCEPT ![h] = Tail(@)]

\* The front of the queue of tags is allocated, RegisterNotification routes it
\* to the scheduler and SendMsg queues the request; what is sent to a dead
\* worker, or on a closed connection, is lost without a notice.
SendRequest(s, off, cnt) ==
    LET h == s[1]
        t == Head(freeTags[h])
    IN  /\ freeTags[h] # <<>>
        /\ freeTags' = AllocateAppTag(h)
        /\ routed' = [routed EXCEPT ![h] = @ \cup {t}]
        /\ todo' = IF link[h] = "up"
                   THEN [todo EXCEPT ![s] =
                            Append(@, [tag |-> t, off |-> off, cnt |-> cnt])]
                   ELSE todo
        /\ UNCHANGED <<link, briefed, shipped, wireVars>>

FreeAppTag(h, t) ==
    /\ freeTags' = [freeTags EXCEPT ![h] = Append(@, t)]
    /\ routed' = [routed EXCEPT ![h] = @ \ {t}]
    /\ UNCHANGED <<link, todo, briefed, shipped, wireVars>>

-----------------------------------------------------------------------------
\* The worker's side.

\* A pipeline hands the pixels of its next request with work to the
\* connection to the client.
ShipSegment(s) ==
    LET r == Head(todo[s])
    IN  /\ link[s[1]] = "up"
        /\ todo[s] # <<>>
        /\ r.cnt # 0
        /\ s[1] \in briefed
        /\ ~shipped[s]
        /\ shipped' = [shipped EXCEPT ![s] = TRUE]
        /\ segments' = [segments EXCEPT ![s[1]] =
                           @ \cup {[off |-> r.off, cnt |-> r.cnt]}]
        /\ UNCHANGED <<link, freeTags, routed, todo, briefed, resp, image, lost>>

\* It answers the master once the pixels are handed over, without waiting for
\* the client to have them.  A request without work is answered at once, even
\* while the pixels of an earlier one wait for the connection to the client.
Answerable(s) ==
    {i \in DOMAIN todo[s] :
        IF todo[s][i].cnt = 0 THEN \A k \in 1 .. i - 1 : todo[s][k].cnt # 0
        ELSE i = 1 /\ shipped[s]}

Respond(s) ==
    /\ link[s[1]] = "up"
    /\ \E i \in Answerable(s) :
           LET r == todo[s][i]
           IN  /\ resp' = [resp EXCEPT ![s[1]] =
                              Append(@, [pipe |-> s[2], tag |-> r.tag,
                                         off |-> r.off, cnt |-> r.cnt])]
               /\ todo' = [todo EXCEPT ![s] = RemoveAt(@, i)]
               /\ shipped' = [shipped EXCEPT ![s] = @ /\ i # 1]
    /\ UNCHANGED <<link, freeTags, routed, briefed, segments, image, lost>>

\* A segment reaches the client.
Deliver(h, job) ==
    /\ job \in segments[h]
    /\ segments' = [segments EXCEPT ![h] = @ \ {job}]
    /\ image' = image \cup {job}
    /\ UNCHANGED <<link, freeTags, routed, todo, briefed, shipped, resp, lost>>

\* A worker dies: its pipelines stop, and of the responses and the segments it
\* has sent only some reach the master and the client.
Perish(h) ==
    /\ link' = [link EXCEPT ![h] = "crashed"]
    /\ \E n \in 0 .. Len(resp[h]) :
           resp' = [resp EXCEPT ![h] = SubSeq(@, 1, n)]
    /\ \E kept \in SUBSET segments[h] :
           /\ segments' = [segments EXCEPT ![h] = kept]
           /\ lost' = lost \cup (segments[h] \ kept)
    /\ todo' = [s \in Slots |-> IF s[1] = h THEN <<>> ELSE todo[s]]
    /\ shipped' = [s \in Slots |-> s[1] # h /\ shipped[s]]
    /\ UNCHANGED <<freeTags, routed, briefed, image>>

Crash(h) ==
    /\ link[h] = "up"
    /\ Cardinality({g \in Hosts : link[g] \in Dead}) < MaxCrashes
    /\ Perish(h)

\* A pipeline looks up the descriptor of a scene that its worker was never
\* sent: the entry is a null pointer.
ProduceUnknownScene(s) ==
    /\ link[s[1]] = "up"
    /\ todo[s] # <<>>
    /\ Head(todo[s]).cnt # 0
    /\ s[1] \notin briefed
    /\ Perish(s[1])
=============================================================================
