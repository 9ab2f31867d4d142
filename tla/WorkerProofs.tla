---------------------------- MODULE WorkerProofs ----------------------------
(***************************************************************************)
(* Proofs about Worker, for any number of orders, clients, pipelines and   *)
(* requests and any depth of the queues: every request is answered once,   *)
(* its segment goes to the client that ordered the scene, and no producer  *)
(* waits for a connection that does not come.                              *)
(***************************************************************************)
EXTENDS Worker, TLAPS, FiniteSetTheorems, SequenceTheorems

-----------------------------------------------------------------------------
(* What the variables hold                                                 *)

Connections == [kind : {"connected"}, to : Clients, order : Orders]

MasterMsgs ==
    [kind : {"registered"}] \cup [kind : {"scene", "cleanup"}, order : Orders]
        \cup [kind : {"pixels"}, order : Orders, rs : Seq(Nat)]

\* The way to the connection with the master.
ServerIsUp == [kind |-> "server"]

MasterIsUp == [kind |-> "connected", to |-> Master, order |-> None]

Starting ==
    /\ toMaster = None /\ net = <<>> /\ phase = [o \in Orders |-> "none"]
    /\ \/ pc = "take" /\ job = NoJob /\ inbox = <<ServerIsUp>>
       \/ pc \in {"connect", "report"} /\ inbox = <<>> /\ job = MasterIsUp
       \/ pc = "take" /\ job = NoJob /\ inbox = <<MasterIsUp>>

JobTyped ==
    \/ pc = "take" /\ job = NoJob
    \/ pc \in {"connect", "report"} /\ job \in Connections
    \/ pc = "hand" /\ job \in [kind : {"hand"}, id : Ids \cup {0}, to : Clients]
    \/ /\ pc \in {"dispatch", "enlist"}
       /\ job \in [kind : {"dispatch"}, rs : Seq(Nat), to : Clients \cup {None}]
       /\ job.rs # <<>>

Running ==
    /\ toMaster = Master
    /\ inbox \in Seq(MasterMsgs \cup Connections)
    /\ JobTyped

MapsTyped ==
    /\ DOMAIN file \subseteq Ids /\ file \in [DOMAIN file -> Orders]
    /\ client \in [DOMAIN file -> Clients]
    /\ DOMAIN scene \subseteq Clients \cup {None}
    /\ scene \in [DOMAIN scene -> Ids \cup {0}]
    /\ DOMAIN conn \subseteq Ids \cup {0} /\ conn \in [DOMAIN conn -> Clients]

Produced == [order : Orders, pipe : Pipelines, work : BOOLEAN]

RequestsTyped ==
    /\ asked \in Seq(Produced)
    /\ pipeQ \in [Pipelines -> Seq(Nat)] /\ at \in [Pipelines -> Nat]
    /\ link \in [DOMAIN link -> Clients \cup {None}]
    /\ answers \in [DOMAIN link -> Nat]
    /\ waiters \in Seq(Ids \X Nat)

SizesKept ==
    /\ Len(inbox) <= QDepth
    /\ \A p \in Pipelines : Len(pipeQ[p]) <= PipeDepth
    /\ Len(asked) <= MaxRequests

TypeInv ==
    /\ net \in Seq(MasterMsgs)
    /\ IF registered = "no" THEN Starting ELSE Running
    /\ MapsTyped /\ RequestsTyped /\ SizesKept
    /\ phase \in [Orders -> {"none", "rendering", "over"}]
    /\ registered \in {"no", "asked", "yes"}
    /\ listening \subseteq Clients /\ misread \in BOOLEAN
    /\ fault \in {"none", "null scene", "broken pipe", "freed address"}

-----------------------------------------------------------------------------
(* Where a request is                                                      *)

\* What is on its way to the worker's thread.
Coming == inbox \o net

\* No producer has been made for the requests of a message.
Fresh(m) ==
    /\ m.rs # <<>> /\ IsInjective(m.rs)
    /\ \A n \in DOMAIN m.rs :
           /\ m.rs[n] \in DOMAIN asked /\ m.rs[n] \notin DOMAIN link
           /\ asked[m.rs[n]].order = m.order

Apart(m, n) == Range(m.rs) \cap Range(n.rs) = {}

MsgInv ==
    /\ \A k \in DOMAIN Coming : Coming[k].kind = "pixels" => Fresh(Coming[k])
    /\ \A k, l \in DOMAIN Coming :
           k # l /\ Coming[k].kind = "pixels" /\ Coming[l].kind = "pixels" =>
               Apart(Coming[k], Coming[l])

\* The requests of the message being handed out.
DispatchInv ==
    pc \in {"dispatch", "enlist"} =>
        /\ IsInjective(job.rs)
        /\ \A i \in DOMAIN job.rs :
               /\ job.rs[i] \in DOMAIN asked
               /\ asked[job.rs[i]].order = asked[job.rs[1]].order
               /\ job.rs[i] \in DOMAIN link <=> (pc = "enlist" /\ i = 1)
        /\ \A k \in DOMAIN Coming : Coming[k].kind = "pixels" => Apart(Coming[k], job)

\* A request with the pipeline, before its pixels are shipped or parked.
Producing(r, p) ==
    /\ r \in DOMAIN link /\ asked[r].pipe = p
    /\ answers[r] = 0 /\ r \notin parked

PipeOrder(p) ==
    /\ IsInjective(pipeQ[p])
    /\ \A i \in DOMAIN pipeQ[p] : Producing(pipeQ[p][i], p) /\ pipeQ[p][i] # at[p]
    /\ at[p] # 0 => Producing(at[p], p) /\ asked[at[p]].work

PipeInv == \A p \in Pipelines : PipeOrder(p)

LinkInv ==
    /\ DOMAIN link \subseteq DOMAIN asked
    /\ parked \subseteq {r \in DOMAIN link : asked[r].work}
    /\ \A r \in DOMAIN link : link[r] = None /\ asked[r].work => answers[r] = 0
    /\ shipped \subseteq Clients \X DOMAIN link

BeingEnlisted(r) == pc = "enlist" /\ r = job.rs[1]

Waits(r) == \E i \in DOMAIN waiters : waiters[i][2] = r

WaitInv ==
    /\ \A i \in DOMAIN waiters :
           /\ waiters[i][2] \in DOMAIN link /\ waiters[i][1] = Id(waiters[i][2])
           /\ link[waiters[i][2]] = None
           /\ ~BeingEnlisted(waiters[i][2])
    /\ \A i, k \in DOMAIN waiters : waiters[i][2] = waiters[k][2] => i = k
    /\ \A r \in DOMAIN link : link[r] = None => Waits(r) \/ BeingEnlisted(r)
    /\ pc = "enlist" => job.to = None /\ link[job.rs[1]] = None

OnceInv ==
    MsgInv /\ DispatchInv /\ PipeInv /\ LinkInv /\ WaitInv /\ AnsweredOnce

-----------------------------------------------------------------------------
(* Whose connection it is                                                  *)

\* Clients make up scene ids of their own (client.cpp:188).
DistinctIds == \A o, q \in Orders : SceneId[o] = SceneId[q] => o = q

OwnerOf(r) == ClientOf[asked[r].order]

\* The client of a scene is connected to for that scene.
Rightly(m) ==
    m.kind = "connected" /\ m.to # Master => m.to = ClientOf[m.order]

ConnectionsRight ==
    /\ \A i \in DOMAIN inbox : Rightly(inbox[i])
    /\ pc \in {"connect", "report"} => Rightly(job)

MapsRight ==
    /\ \A a \in DOMAIN scene : scene[a] # 0 =>
           \E o \in Orders : SceneId[o] = scene[a] /\ ClientOf[o] = a
    /\ \A o \in Orders : SceneId[o] \in DOMAIN conn => conn[SceneId[o]] = ClientOf[o]
    /\ \A o \in Orders : pc = "hand" /\ job.id = SceneId[o] => job.to = ClientOf[o]

ProducersRight ==
    /\ pc \in {"dispatch", "enlist"} => job.to \in {None, OwnerOf(job.rs[1])}
    /\ \A r \in DOMAIN link : link[r] \in {None, OwnerOf(r)}
    /\ \A s \in shipped : s[1] = OwnerOf(s[2])

RightClients ==
    ConnectionsRight /\ (~misread => MapsRight /\ ProducersRight)

-----------------------------------------------------------------------------
(* Whether a connection is to come                                         *)

\* Orders come from different addresses (a client process orders one scene).
DistinctClients == \A o, q \in Orders : ClientOf[o] = ClientOf[q] => o = q

About(m, o) == m.kind \in {"scene", "pixels", "cleanup", "connected"} /\ m.order = o

IsScene(m, o) == m.kind = "scene" /\ m.order = o

Unheard(o) == \E i \in DOMAIN Coming : IsScene(Coming[i], o)

\* What is kept for a scene id is of the order that has this id.
FilesRight ==
    \A id \in DOMAIN file : SceneId[file[id]] = id /\ client[id] = ClientOf[file[id]]

\* The master's side of an order.
Ordered(o) ==
    /\ \A i \in DOMAIN Coming :
           Coming[i].kind = "cleanup" /\ Coming[i].order = o => phase[o] = "over"
    /\ phase[o] = "over" =>
           \A r \in DOMAIN asked : asked[r].order = o /\ asked[r].work => Answered(r)
    /\ phase[o] = "none" =>
           /\ \A i \in DOMAIN Coming : ~About(Coming[i], o)
           /\ \A r \in DOMAIN asked : asked[r].order # o

\* The scene comes before all else about it.
SceneFirst(o) ==
    \A i, k \in DOMAIN Coming : IsScene(Coming[i], o) /\ About(Coming[k], o) => i <= k

\* Nothing of the order has been handled.
Untouched(o) ==
    /\ SceneId[o] \notin DOMAIN file /\ SceneId[o] \notin DOMAIN conn
    /\ ClientOf[o] \notin DOMAIN scene
    /\ ~ConnectionToCome(o)
    /\ \A r \in DOMAIN link : asked[r].order # o
    /\ pc \in {"dispatch", "enlist"} => asked[job.rs[1]].order # o

\* The scene is the worker's, and its client connected or being connected to.
Kept(o) ==
    /\ SceneIsKept(o)
    /\ ClientOf[o] \in DOMAIN scene /\ scene[ClientOf[o]] = SceneId[o]
    /\ SceneId[o] \in DOMAIN conn \/ ConnectionToCome(o)

OrderOfLife(o) ==
    /\ Ordered(o) /\ SceneFirst(o)
    /\ phase[o] = "none" \/ Unheard(o) => Untouched(o)
    /\ phase[o] = "rendering" /\ ~Unheard(o) => Kept(o)

\* A producer with pixels that has no connection.
Lacks(r) == link[r] = None /\ asked[r].work

Hoping(r) == ConnectionToCome(asked[r].order) \/ (pc = "hand" /\ job.id = Id(r))

NoneInVain ==
    /\ \A r \in DOMAIN link : Lacks(r) => Hoping(r)
    /\ pc \in {"dispatch", "enlist"} /\ job.to = None =>
           \A i \in DOMAIN job.rs :
               asked[job.rs[i]].work => ConnectionToCome(asked[job.rs[i]].order)

LifeInv == FilesRight /\ (\A o \in Orders : OrderOfLife(o)) /\ NoneInVain

-----------------------------------------------------------------------------
(* Lemmas about sequences and functions                                    *)

LEMMA TailFacts ==
    ASSUME NEW S, NEW q \in Seq(S), q # <<>>
    PROVE  /\ Head(q) = q[1] /\ Head(q) \in S /\ 1 \in DOMAIN q
           /\ Tail(q) \in Seq(S) /\ Len(Tail(q)) = Len(q) - 1 /\ Len(q) \in Nat \ {0}
           /\ \A i \in DOMAIN Tail(q) : /\ i \in Nat \ {0} /\ i + 1 \in DOMAIN q
                                        /\ Tail(q)[i] = q[i + 1]
OBVIOUS

LEMMA AppendFacts ==
    ASSUME NEW S, NEW q \in Seq(S), NEW e \in S
    PROVE  /\ Append(q, e) \in Seq(S) /\ Len(Append(q, e)) = Len(q) + 1
           /\ \A i \in DOMAIN q : i \in DOMAIN Append(q, e) /\ Append(q, e)[i] = q[i]
           /\ Len(q) + 1 \in DOMAIN Append(q, e) /\ Append(q, e)[Len(q) + 1] = e
           /\ \A i \in DOMAIN Append(q, e) : i \in DOMAIN q \/ i = Len(q) + 1
OBVIOUS

LEMMA WiderSeq ==
    ASSUME NEW S, NEW T, S \subseteq T, NEW q \in Seq(S)
    PROVE  q \in Seq(T)
OBVIOUS

LEMMA RemoveAtFacts ==
    ASSUME NEW S, NEW q \in Seq(S), NEW n \in DOMAIN q
    PROVE  /\ RemoveAt(q, n) \in Seq(S) /\ Len(RemoveAt(q, n)) = Len(q) - 1
           /\ \A i \in 1 .. Len(q) - 1 :
                  RemoveAt(q, n)[i] = IF i < n THEN q[i] ELSE q[i + 1]
<1> DEFINE front == SubSeq(q, 1, n - 1)
           back == SubSeq(q, n + 1, Len(q))
<1>1. front \in Seq(S) /\ Len(front) = n - 1 /\ \A i \in 1 .. n - 1 : front[i] = q[i]
  OBVIOUS
<1>2. /\ back \in Seq(S) /\ Len(back) = Len(q) - n
      /\ \A i \in 1 .. Len(q) - n : back[i] = q[n + i]
  OBVIOUS
<1>3. n \in Nat /\ Len(q) \in Nat /\ 1 <= n /\ n <= Len(q) /\ RemoveAt(q, n) = front \o back
  BY DEF RemoveAt
<1> HIDE DEF front, back
<1>4. /\ front \o back \in Seq(S) /\ Len(front \o back) = Len(front) + Len(back)
      /\ \A i \in 1 .. Len(front) + Len(back) : (front \o back)[i] =
             IF i <= Len(front) THEN front[i] ELSE back[i - Len(front)]
  BY <1>1, <1>2, ConcatProperties
<1>5. Len(front) + Len(back) = Len(q) - 1
  BY <1>1, <1>2, <1>3
<1>6. /\ front \o back \in Seq(S) /\ Len(front \o back) = Len(q) - 1
      /\ \A i \in 1 .. Len(q) - 1 : (front \o back)[i] =
             IF i <= Len(front) THEN front[i] ELSE back[i - Len(front)]
  BY <1>4, <1>5
<1>7. ASSUME NEW i \in 1 .. Len(q) - 1
      PROVE  (front \o back)[i] = IF i < n THEN q[i] ELSE q[i + 1]
  <2>1. CASE i < n
    BY <1>1, <1>3, <1>6, <2>1
  <2>2. CASE ~(i < n)
    <3>1. i - Len(front) \in 1 .. Len(q) - n /\ n + (i - Len(front)) = i + 1
          /\ ~(i <= Len(front))
      BY <1>1, <1>3, <2>2
    <3> QED
      BY <1>2, <1>6, <2>2, <3>1
  <2> QED
    BY <2>1, <2>2
<1> QED
  BY <1>3, <1>6, <1>7

\* What is not in f is added, what is there stays.
LEMMA InsertedFacts ==
    ASSUME NEW f, NEW x, NEW y
    PROVE  /\ DOMAIN Inserted(f, x, y) = DOMAIN f \cup {x}
           /\ \A z \in DOMAIN f : Inserted(f, x, y)[z] = f[z]
           /\ x \notin DOMAIN f => Inserted(f, x, y)[x] = y
           /\ \A D, R : f \in [D -> R] /\ y \in R => Inserted(f, x, y) \in [D \cup {x} -> R]
BY DEF Inserted

LEMMA WithoutFacts ==
    ASSUME NEW f, NEW x
    PROVE  /\ DOMAIN Without(f, x) = DOMAIN f \ {x}
           /\ \A z \in DOMAIN f \ {x} : Without(f, x)[z] = f[z]
           /\ \A R : f \in [DOMAIN f -> R] => Without(f, x) \in [DOMAIN f \ {x} -> R]
BY DEF Without

LEMMA TypeInit == Init => TypeInv
<1> SUFFICES ASSUME Init PROVE TypeInv
  OBVIOUS
<1> USE DEF Init
<1>1. \A S : <<>> \in Seq(S)
  OBVIOUS
<1>2. DOMAIN <<>> = {} /\ Len(<<>>) = 0
  OBVIOUS
<1>3. \A R : <<>> \in [{} -> R]
  OBVIOUS
<1>4. Starting
  BY DEF Starting, ServerIsUp
<1>5. MapsTyped
  BY <1>2, <1>3 DEF MapsTyped
<1>6. RequestsTyped
  BY <1>1, <1>2, <1>3 DEF RequestsTyped
<1>7. SizesKept
  BY <1>2, WorkerAssumption DEF SizesKept
<1> QED
  BY <1>1, <1>4, <1>5, <1>6, <1>7 DEF TypeInv

-----------------------------------------------------------------------------
(* The types                                                               *)

LEMMA Kinds ==
    /\ \A m \in Connections :
           m.kind = "connected" /\ m.to \in Clients /\ m.order \in Orders
    /\ \A m \in MasterMsgs :
           /\ m.kind \in {"registered", "scene", "cleanup", "pixels"}
           /\ m.kind # "registered" => m.order \in Orders
           /\ m.kind = "pixels" => m.rs \in Seq(Nat)
<1>1. \A m \in Connections :
           m.kind = "connected" /\ m.to \in Clients /\ m.order \in Orders
  BY DEF Connections
<1>2. \A m \in [kind : {"registered"}] : m.kind = "registered"
  OBVIOUS
<1>3. \A m \in [kind : {"scene", "cleanup"}, order : Orders] :
          m.kind \in {"scene", "cleanup"} /\ m.order \in Orders
  OBVIOUS
<1>4. \A m \in [kind : {"pixels"}, order : Orders, rs : Seq(Nat)] :
          m.kind = "pixels" /\ m.order \in Orders /\ m.rs \in Seq(Nat)
  OBVIOUS
<1> QED
  BY <1>1, <1>2, <1>3, <1>4 DEF MasterMsgs

\* The message that the worker's thread takes.
LEMMA TakeFacts ==
    ASSUME TypeInv, NEW kind, Take(kind)
    PROVE  /\ pc = "take" /\ inbox # <<>> /\ Head(inbox) = inbox[1] /\ 1 \in DOMAIN inbox
           /\ inbox' = Tail(inbox) /\ Len(Tail(inbox)) <= QDepth
           /\ IF registered = "no"
              THEN /\ Tail(inbox) = <<>>
                   /\ Head(inbox) = IF kind = "server" THEN ServerIsUp ELSE MasterIsUp
                   /\ kind \in {"server", "connected"}
              ELSE /\ Running /\ kind # "server"
                   /\ Tail(inbox) \in Seq(MasterMsgs \cup Connections)
                   /\ Head(inbox) \in IF kind = "connected" THEN Connections ELSE MasterMsgs
<1>0. pc = "take" /\ inbox # <<>> /\ inbox' = Tail(inbox) /\ Head(inbox).kind = kind
  BY DEF Take
<1>1. CASE registered = "no"
  <2>1. \E m \in {ServerIsUp, MasterIsUp} : inbox = <<m>>
    BY <1>1, <1>0 DEF TypeInv, Starting
  <2>2. PICK m \in {ServerIsUp, MasterIsUp} : inbox = <<m>>
    BY <2>1
  <2>3. Head(inbox) = m /\ Tail(inbox) = <<>> /\ Len(Tail(inbox)) = 0 /\ inbox[1] = m
        /\ 1 \in DOMAIN inbox
    BY <2>2
  <2>4. m.kind = kind
    BY <1>0, <2>3
  <2>5. /\ kind \in {"server", "connected"}
        /\ m = IF kind = "server" THEN ServerIsUp ELSE MasterIsUp
    <3>1. CASE m = ServerIsUp
      BY <2>4, <3>1 DEF ServerIsUp
    <3>2. CASE m = MasterIsUp
      BY <2>4, <3>2 DEF MasterIsUp
    <3> QED
      BY <3>1, <3>2
  <2>6. 0 <= QDepth
    BY WorkerAssumption
  <2> QED
    BY <1>0, <1>1, <2>3, <2>5, <2>6
<1>2. CASE registered # "no"
  <2>1. Running
    BY <1>2 DEF TypeInv
  <2>2. inbox \in Seq(MasterMsgs \cup Connections) /\ inbox # <<>>
    BY <1>0, <2>1 DEF Running
  <2>3. /\ Head(inbox) = inbox[1] /\ Head(inbox) \in MasterMsgs \cup Connections
        /\ 1 \in DOMAIN inbox /\ Tail(inbox) \in Seq(MasterMsgs \cup Connections)
        /\ Len(Tail(inbox)) = Len(inbox) - 1 /\ Len(inbox) \in Nat
    BY <2>2, TailFacts
  <2>4. Len(inbox) <= QDepth /\ QDepth \in Nat
    BY WorkerAssumption DEF TypeInv, SizesKept
  <2>5. Len(Tail(inbox)) <= QDepth
    BY <2>3, <2>4
  <2>6. kind # "server" /\ Head(inbox) \in IF kind = "connected" THEN Connections ELSE MasterMsgs
    BY <1>0, <2>3, Kinds
  <2> QED
    BY <1>0, <1>2, <2>1, <2>3, <2>5, <2>6
<1> QED
  BY <1>1, <1>2

LEMMA ReceiverTypes ==
    ASSUME TypeInv, ReceiverReads
    PROVE  TypeInv'
<1>1. net # <<>> /\ net \in Seq(MasterMsgs)
  BY DEF TypeInv, ReceiverReads
<1>2. Running /\ registered # "no"
  BY <1>1 DEF TypeInv, Starting
<1>3. Head(net) \in MasterMsgs /\ Tail(net) \in Seq(MasterMsgs)
  BY <1>1, TailFacts
<1>4. inbox' \in Seq(MasterMsgs \cup Connections) /\ Len(inbox') = Len(inbox) + 1
  BY <1>2, <1>3 DEF Running, ReceiverReads
<1>5. Len(inbox) \in Nat /\ Len(inbox) < QDepth
  BY <1>2 DEF Running, ReceiverReads, InboxHasRoom
<1>6. Len(inbox') <= QDepth
  BY <1>4, <1>5, WorkerAssumption
<1>7. Running' /\ net' = Tail(net)
  BY <1>2, <1>4 DEF Running, JobTyped, ReceiverReads
<1> QED
  BY <1>2, <1>3, <1>6, <1>7 DEF TypeInv, ReceiverReads, MapsTyped, RequestsTyped, SizesKept,
     mapVars, pipeVars, producerVars, masterVars, endVars

LEMMA StartTypes ==
    ASSUME TypeInv,
           \/ OnCreateServerResponse \/ MakeConnection \/ ReportConnection
           \/ RegisterWithMaster \/ OnWorkerRegistrationRespMsg
    PROVE  TypeInv'
<1> USE DEF mapVars, pipeVars, producerVars, masterVars, endVars, threadVars, Proceed
<1>1. ASSUME UNCHANGED <<mapVars, waiters, pipeVars, link, answers, asked, phase, endVars>>,
             net' = net, registered' \in {"no", "asked", "yes"}, Len(inbox') <= QDepth,
             IF registered' = "no" THEN Starting' ELSE Running'
      PROVE  TypeInv'
  BY <1>1 DEF TypeInv, MapsTyped, RequestsTyped, SizesKept
<1>2. Len(inbox) <= QDepth /\ registered \in {"no", "asked", "yes"}
  BY DEF TypeInv, SizesKept
<1>3. CASE OnCreateServerResponse
  <2>1. registered = "no" /\ inbox' = <<>> /\ Len(<<>>) <= QDepth /\ Starting
    BY <1>3, TakeFacts DEF OnCreateServerResponse, TypeInv
  <2>2. Starting'
    BY <1>3, <2>1 DEF OnCreateServerResponse, Starting, MasterIsUp
  <2> QED
    BY <1>1, <1>3, <2>1, <2>2 DEF OnCreateServerResponse
<1>4. CASE MakeConnection
  <2>1. IF registered = "no" THEN Starting' ELSE Running'
    BY <1>4 DEF TypeInv, MakeConnection, Starting, Running, JobTyped
  <2> QED
    BY <1>1, <1>2, <1>4, <2>1 DEF MakeConnection
<1>5. CASE ReportConnection
  <2>1. CASE registered = "no"
    <3>0. inbox = <<>> /\ job = MasterIsUp
      BY <1>5, <2>1 DEF ReportConnection, TypeInv, Starting
    <3>1. inbox' = <<MasterIsUp>> /\ Len(inbox') = 1
      BY <1>5, <3>0 DEF ReportConnection
    <3>2. Starting'
      BY <1>5, <2>1, <3>1 DEF ReportConnection, TypeInv, Starting
    <3> QED
      BY <1>1, <1>2, <1>5, <2>1, <3>1, <3>2, WorkerAssumption DEF ReportConnection
  <2>2. CASE registered # "no"
    <3>1. job \in Connections /\ inbox \in Seq(MasterMsgs \cup Connections)
      BY <1>5, <2>2 DEF ReportConnection, TypeInv, Running, JobTyped
    <3>2. inbox' \in Seq(MasterMsgs \cup Connections) /\ Len(inbox') <= QDepth
      BY <1>5, <3>1, WorkerAssumption DEF ReportConnection, InboxHasRoom
    <3>3. Running'
      BY <1>5, <2>2, <3>2 DEF ReportConnection, TypeInv, Running, JobTyped
    <3> QED
      BY <1>1, <1>2, <1>5, <2>2, <3>2, <3>3 DEF ReportConnection
  <2> QED
    BY <2>1, <2>2
<1>6. CASE RegisterWithMaster
  <2>1. registered = "no"
    BY <1>6, TakeFacts, WorkerAssumption DEF RegisterWithMaster, Running
  <2>0. Take("connected") /\ "connected" # "server"
    BY <1>6 DEF RegisterWithMaster
  <2>2. inbox' = <<>> /\ Head(inbox) = MasterIsUp /\ Len(<<>>) <= QDepth
    <3>1. /\ inbox' = Tail(inbox) /\ Tail(inbox) = <<>> /\ Len(Tail(inbox)) <= QDepth
          /\ Head(inbox) = IF "connected" = "server" THEN ServerIsUp ELSE MasterIsUp
      BY <2>0, <2>1, TakeFacts
    <3> QED
      BY <2>0, <3>1
  <2>3. Running'
    BY <1>6, <2>2 DEF RegisterWithMaster, Running, JobTyped, MasterIsUp
  <2> QED
    BY <1>1, <1>6, <2>2, <2>3 DEF RegisterWithMaster
<1>7. CASE OnWorkerRegistrationRespMsg
  <2>1. registered # "no" /\ Running /\ Len(inbox') <= QDepth
        /\ inbox' \in Seq(MasterMsgs \cup Connections)
    BY <1>7, TakeFacts DEF OnWorkerRegistrationRespMsg
  <2>2. Running'
    BY <1>7, <2>1 DEF OnWorkerRegistrationRespMsg, Running, JobTyped, Take
  <2> QED
    BY <1>1, <1>2, <1>7, <2>1, <2>2 DEF OnWorkerRegistrationRespMsg
<1> QED
  BY <1>3, <1>4, <1>5, <1>6, <1>7

LEMMA ConnectedTypes ==
    ASSUME TypeInv, ClientConnected
    PROVE  TypeInv'
<1> DEFINE m == Head(inbox)
<1>1. Take("connected") /\ toMaster # None
  BY DEF ClientConnected
<1>2. Running /\ registered # "no"
  BY <1>1 DEF TypeInv, Starting
<1>3. m \in Connections /\ Len(inbox') <= QDepth /\ inbox' \in Seq(MasterMsgs \cup Connections)
  BY <1>1, <1>2, TakeFacts
<1>4. m.to \in Clients
  BY <1>3, Kinds
<1> HIDE DEF m
<1>5. /\ UNCHANGED <<net, toMaster, file, client, waiters, pipeQ, at, link, parked, shipped,
                     answers, asked, phase, registered, listening>>
      /\ \/ \E a \in Clients \cup {None} :
               /\ scene' = Inserted(scene, a, 0)
               /\ conn' = Inserted(conn, scene'[a], m.to)
               /\ misread' = (misread \/ a # m.to)
               /\ Proceed("hand", [kind |-> "hand", id |-> scene'[a], to |-> m.to])
               /\ UNCHANGED fault
         \/ /\ fault' = "freed address"
            /\ UNCHANGED <<pc, job, scene, conn, misread>>
  <2>1. AddressesRead(m) \subseteq Clients \cup {None}
    BY <1>4 DEF TypeInv, MapsTyped, AddressesRead
  <2> QED
    BY <2>1 DEF ClientConnected, m, pipeVars, producerVars, masterVars
<1>6. RequestsTyped' /\ SizesKept'
  BY <1>3, <1>5 DEF TypeInv, RequestsTyped, SizesKept
<1>7. MapsTyped /\ misread \in BOOLEAN
  BY DEF TypeInv
<1>8. CASE fault' = "freed address" /\ UNCHANGED <<pc, job, scene, conn, misread>>
  <2>1. MapsTyped' /\ misread' \in BOOLEAN
    BY <1>5, <1>7, <1>8 DEF MapsTyped
  <2>2. Running'
    BY <1>2, <1>3, <1>5, <1>8 DEF Running, JobTyped
  <2> QED
    BY <1>2, <1>5, <1>6, <1>8, <2>1, <2>2 DEF TypeInv
<1>9. ASSUME NEW a \in Clients \cup {None},
             scene' = Inserted(scene, a, 0), conn' = Inserted(conn, scene'[a], m.to),
             misread' = (misread \/ a # m.to), UNCHANGED fault,
             Proceed("hand", [kind |-> "hand", id |-> scene'[a], to |-> m.to])
      PROVE  TypeInv'
  <2>1. /\ DOMAIN scene' = DOMAIN scene \cup {a}
        /\ scene' \in [DOMAIN scene \cup {a} -> Ids \cup {0}]
    BY <1>7, <1>9, InsertedFacts DEF MapsTyped
  <2>2. scene'[a] \in Ids \cup {0}
    BY <2>1
  <2>3. /\ DOMAIN conn' = DOMAIN conn \cup {scene'[a]}
        /\ conn' \in [DOMAIN conn \cup {scene'[a]} -> Clients]
    <3>1. conn \in [DOMAIN conn -> Clients]
      BY <1>7 DEF MapsTyped
    <3>2. PICK b : b = scene'[a]
      OBVIOUS
    <3>3. conn' = Inserted(conn, b, m.to)
      BY <1>9, <3>2
    <3>4. DOMAIN conn' = DOMAIN conn \cup {b} /\ conn' \in [DOMAIN conn \cup {b} -> Clients]
      BY <1>4, <3>1, <3>3, InsertedFacts
    <3> QED
      BY <3>2, <3>4
  <2>4. MapsTyped' /\ misread' \in BOOLEAN
    BY <1>5, <1>7, <1>9, <2>1, <2>2, <2>3 DEF MapsTyped
  <2>5. Running'
    BY <1>2, <1>3, <1>4, <1>5, <1>9, <2>2 DEF Running, JobTyped, Proceed
  <2> QED
    BY <1>2, <1>5, <1>6, <1>9, <2>4, <2>5 DEF TypeInv
<1> QED
  BY <1>5, <1>8, <1>9

LEMMA OneMore ==
    ASSUME NEW D, NEW f \in [D -> Nat], NEW r
    PROVE  [f EXCEPT ![r] = @ + 1] \in [D -> Nat]
<1> DEFINE g == [f EXCEPT ![r] = @ + 1]
<1>1. ASSUME NEW q \in D
      PROVE  g[q] = IF q = r THEN f[q] + 1 ELSE f[q]
  OBVIOUS
<1>2. \A q \in D : f[q] \in Nat /\ f[q] + 1 \in Nat
  OBVIOUS
<1>3. g = [q \in D |-> g[q]]
  OBVIOUS
<1> HIDE DEF g
<1>4. \A q \in D : g[q] \in Nat
  BY <1>1, <1>2
<1>5. g \in [D -> Nat]
  BY <1>3, <1>4
<1> QED
  BY <1>5 DEF g

LEMMA AnswerTypes ==
    ASSUME TypeInv, NEW r, NEW to, DoCommandComplete(r, to)
    PROVE  /\ answers' \in [DOMAIN link -> Nat]
           /\ fault' \in {"none", "null scene", "broken pipe", "freed address"}
<1>1. answers \in [DOMAIN link -> Nat]
  BY DEF TypeInv, RequestsTyped
<1>2. answers' \in [DOMAIN link -> Nat]
  BY <1>1, OneMore DEF DoCommandComplete
<1>3. /\ fault' \in {fault, "broken pipe"}
      /\ fault \in {"none", "null scene", "broken pipe", "freed address"}
  BY DEF DoCommandComplete, TypeInv
<1> QED
  BY <1>2, <1>3

LEMMA HandTypes ==
    ASSUME TypeInv, HandConnection
    PROVE  TypeInv'
<1>1. /\ pc = "hand"
      /\ UNCHANGED <<net, inbox, pc, job, toMaster, file, client, scene, conn, pipeQ, at,
                     parked, asked, phase, registered, listening, misread>>
  BY DEF HandConnection, threadVars, mapVars, pipeVars, masterVars
<1>2. PICK i \in WaitersOfScene :
          LET r == waiters[i][2]
          IN  /\ waiters' = RemoveAt(waiters, i)
              /\ link' = [link EXCEPT ![r] = job.to]
              /\ SendParked(r)
  BY DEF HandConnection
<1>3. Running /\ registered # "no" /\ job.to \in Clients
  BY <1>1 DEF TypeInv, Starting, Running, JobTyped
<1>4. waiters' \in Seq(Ids \X Nat)
  BY <1>2, RemoveAtFacts DEF WaitersOfScene, TypeInv, RequestsTyped
<1>5. DOMAIN link' = DOMAIN link /\ link' \in [DOMAIN link -> Clients \cup {None}]
  BY <1>2, <1>3 DEF TypeInv, RequestsTyped
<1>6. /\ answers' \in [DOMAIN link -> Nat]
      /\ fault' \in {"none", "null scene", "broken pipe", "freed address"}
  BY <1>2, AnswerTypes DEF SendParked, TypeInv, RequestsTyped
<1>7. RequestsTyped' /\ SizesKept' /\ MapsTyped' /\ Running'
  BY <1>1, <1>3, <1>4, <1>5, <1>6
     DEF TypeInv, RequestsTyped, SizesKept, MapsTyped, Running, JobTyped
<1> QED
  BY <1>1, <1>3, <1>6, <1>7 DEF TypeInv

LEMMA AllHandedTypes ==
    ASSUME TypeInv, AllHanded
    PROVE  TypeInv'
<1>1. Running /\ registered # "no"
  BY DEF AllHanded, TypeInv, Starting
<1>2. Running'
  BY <1>1 DEF AllHanded, Running, JobTyped, Proceed
<1> QED
  BY <1>1, <1>2 DEF AllHanded, TypeInv, MapsTyped, RequestsTyped, SizesKept,
     mapVars, pipeVars, producerVars, masterVars, endVars

LEMMA SceneTypes ==
    ASSUME TypeInv, OnSceneProduceRequestMsg
    PROVE  TypeInv'
<1> DEFINE o == Head(inbox).order
<1>1. Take("scene") /\ "scene" # "server" /\ "scene" # "connected"
  BY DEF OnSceneProduceRequestMsg
<1>2. Running /\ registered # "no" /\ Head(inbox) \in MasterMsgs /\ Len(inbox') <= QDepth
      /\ inbox' \in Seq(MasterMsgs \cup Connections) /\ Head(inbox).kind = "scene"
  BY <1>1, TakeFacts DEF Take
<1>3. o \in Orders /\ ClientOf[o] \in Clients /\ SceneId[o] \in Ids
  <2>1. o \in Orders
    BY <1>2, Kinds
  <2> QED
    BY <2>1, WorkerAssumption DEF Ids, Range
<1> HIDE DEF o
<1>4. /\ file' = Inserted(file, SceneId[o], o)
      /\ client' = Inserted(client, SceneId[o], ClientOf[o])
      /\ scene' = Inserted(scene, ClientOf[o], SceneId[o])
      /\ pc' = "connect" /\ job' = [kind |-> "connected", to |-> ClientOf[o], order |-> o]
      /\ UNCHANGED <<net, toMaster, conn, waiters, pipeQ, at, link, parked, shipped, answers,
                     asked, phase, registered, listening, misread, fault>>
  BY DEF OnSceneProduceRequestMsg, o, Proceed, pipeVars, producerVars, masterVars, endVars
<1>5. /\ DOMAIN file' = DOMAIN file \cup {SceneId[o]}
      /\ file' \in [DOMAIN file \cup {SceneId[o]} -> Orders]
      /\ client' \in [DOMAIN file \cup {SceneId[o]} -> Clients]
      /\ DOMAIN scene' = DOMAIN scene \cup {ClientOf[o]}
      /\ scene' \in [DOMAIN scene \cup {ClientOf[o]} -> Ids \cup {0}]
  <2>1. /\ file \in [DOMAIN file -> Orders] /\ client \in [DOMAIN file -> Clients]
        /\ DOMAIN client = DOMAIN file /\ scene \in [DOMAIN scene -> Ids \cup {0}]
    BY DEF TypeInv, MapsTyped
  <2>2. SceneId[o] \in Ids \cup {0}
    BY <1>3
  <2>3. /\ DOMAIN file' = DOMAIN file \cup {SceneId[o]}
        /\ file' \in [DOMAIN file \cup {SceneId[o]} -> Orders]
    BY <1>3, <1>4, <2>1, InsertedFacts
  <2>4. client' \in [DOMAIN file \cup {SceneId[o]} -> Clients]
    BY <1>3, <1>4, <2>1, InsertedFacts
  <2>5. /\ DOMAIN scene' = DOMAIN scene \cup {ClientOf[o]}
        /\ scene' \in [DOMAIN scene \cup {ClientOf[o]} -> Ids \cup {0}]
    BY <1>4, <2>1, <2>2, InsertedFacts
  <2> QED
    BY <2>3, <2>4, <2>5
<1>6. MapsTyped'
  BY <1>3, <1>4, <1>5 DEF TypeInv, MapsTyped
<1>7. Running'
  <2>1. job' \in Connections
    BY <1>3, <1>4 DEF Connections
  <2> QED
    BY <1>2, <1>4, <2>1 DEF Running, JobTyped
<1>8. RequestsTyped' /\ SizesKept'
  BY <1>2, <1>4 DEF TypeInv, RequestsTyped, SizesKept
<1> QED
  BY <1>2, <1>4, <1>6, <1>7, <1>8 DEF TypeInv

LEMMA CleanupTypes ==
    ASSUME TypeInv, OnSceneProduceCleanupMsg
    PROVE  TypeInv'
<1> DEFINE id == SceneId[Head(inbox).order]
<1>1. Take("cleanup") /\ "cleanup" # "server" /\ "cleanup" # "connected"
  BY DEF OnSceneProduceCleanupMsg
<1>2. /\ Running /\ registered # "no" /\ Len(inbox') <= QDepth /\ pc = "take"
      /\ inbox' \in Seq(MasterMsgs \cup Connections)
  BY <1>1, TakeFacts
<1> HIDE DEF id
<1>3. /\ UNCHANGED <<net, pc, job, toMaster, waiters, pipeQ, at, link, parked, shipped,
                     answers, asked, phase, registered, listening, misread, fault>>
      /\ \/ /\ id \in DOMAIN file
            /\ file' = Without(file, id) /\ client' = Without(client, id)
            /\ conn' = Without(conn, id) /\ scene' = Without(scene, client[id])
         \/ UNCHANGED <<file, client, scene, conn>>
  BY DEF OnSceneProduceCleanupMsg, id, mapVars, pipeVars, producerVars, masterVars, endVars
<1>4. MapsTyped'
  <2>1. CASE UNCHANGED <<file, client, scene, conn>>
    BY <2>1 DEF TypeInv, MapsTyped
  <2>2. CASE /\ id \in DOMAIN file
             /\ file' = Without(file, id) /\ client' = Without(client, id)
             /\ conn' = Without(conn, id) /\ scene' = Without(scene, client[id])
    <3>1. /\ DOMAIN file \subseteq Ids /\ file \in [DOMAIN file -> Orders]
          /\ client \in [DOMAIN client -> Clients] /\ DOMAIN client = DOMAIN file
          /\ scene \in [DOMAIN scene -> Ids \cup {0}] /\ DOMAIN scene \subseteq Clients \cup {None}
          /\ conn \in [DOMAIN conn -> Clients] /\ DOMAIN conn \subseteq Ids \cup {0}
      BY DEF TypeInv, MapsTyped
    <3>2. /\ file' \in [DOMAIN file \ {id} -> Orders] /\ DOMAIN file' = DOMAIN file \ {id}
          /\ client' \in [DOMAIN file \ {id} -> Clients]
      BY <2>2, <3>1, WithoutFacts
    <3>3. /\ DOMAIN scene' = DOMAIN scene \ {client[id]}
          /\ scene' \in [DOMAIN scene \ {client[id]} -> Ids \cup {0}]
      BY <2>2, <3>1, WithoutFacts
    <3>4. /\ DOMAIN conn' = DOMAIN conn \ {id} /\ conn' \in [DOMAIN conn \ {id} -> Clients]
      BY <2>2, <3>1, WithoutFacts
    <3> QED
      BY <3>1, <3>2, <3>3, <3>4 DEF MapsTyped
  <2> QED
    BY <1>3, <2>1, <2>2
<1>5. Running' /\ RequestsTyped' /\ SizesKept'
  BY <1>2, <1>3 DEF TypeInv, Running, JobTyped, RequestsTyped, SizesKept
<1> QED
  BY <1>2, <1>3, <1>4, <1>5 DEF TypeInv

LEMMA PixelsTypes ==
    ASSUME TypeInv, OnPixelProduceRequestMsg, Head(inbox).rs # <<>>
    PROVE  TypeInv'
<1> DEFINE id == SceneId[Head(inbox).order]
           to == IF id \in DOMAIN conn THEN conn[id] ELSE None
<1>1. Take("pixels") /\ "pixels" # "server" /\ "pixels" # "connected"
  BY DEF OnPixelProduceRequestMsg
<1>2. /\ Running /\ registered # "no" /\ Len(inbox') <= QDepth
      /\ inbox' \in Seq(MasterMsgs \cup Connections)
      /\ Head(inbox) \in MasterMsgs /\ Head(inbox).kind = "pixels"
  BY <1>1, TakeFacts DEF Take
<1>3. Head(inbox).rs \in Seq(Nat)
  BY <1>2, Kinds
<1>4. to \in Clients \cup {None}
  BY DEF TypeInv, MapsTyped
<1>5. pc' = "dispatch" /\ job' = [kind |-> "dispatch", rs |-> Head(inbox).rs, to |-> to]
  BY DEF OnPixelProduceRequestMsg, Proceed
<1> HIDE DEF to
<1>6. Running'
  BY <1>2, <1>3, <1>4, <1>5 DEF OnPixelProduceRequestMsg, Running, JobTyped
<1> QED
  BY <1>2, <1>6 DEF OnPixelProduceRequestMsg, TypeInv, MapsTyped, RequestsTyped, SizesKept,
     mapVars, pipeVars, producerVars, masterVars, endVars

LEMMA NextTypes ==
    ASSUME TypeInv, pc \in {"dispatch", "enlist"}
    PROVE  /\ Running /\ registered # "no" /\ job.to \in Clients \cup {None}
           /\ job.rs \in Seq(Nat) /\ job.rs # <<>>
           /\ Head(job.rs) = job.rs[1] /\ job.rs[1] \in Nat /\ 1 \in DOMAIN job.rs
           /\ UNCHANGED <<inbox, toMaster>> /\ (NextRequest \/ Proceed("enlist", job)) => Running'
<1>1. Running /\ registered # "no"
  BY DEF TypeInv, Starting
<1>2. /\ job \in [kind : {"dispatch"}, rs : Seq(Nat), to : Clients \cup {None}]
      /\ job.rs # <<>>
  BY <1>1 DEF Running, JobTyped
<1>3. job.rs \in Seq(Nat) /\ job.to \in Clients \cup {None}
  BY <1>2
<1>4. /\ Head(job.rs) = job.rs[1] /\ job.rs[1] \in Nat /\ 1 \in DOMAIN job.rs
      /\ Tail(job.rs) \in Seq(Nat) /\ Len(Tail(job.rs)) = Len(job.rs) - 1
      /\ Len(job.rs) \in Nat \ {0}
  BY <1>2, <1>3, TailFacts
<1>5. ASSUME UNCHANGED <<inbox, toMaster>>, Proceed("enlist", job)
      PROVE  Running'
  BY <1>1, <1>2, <1>5 DEF Running, JobTyped, Proceed
<1>6. ASSUME UNCHANGED <<inbox, toMaster>>, NextRequest
      PROVE  Running'
  <2>1. CASE Len(job.rs) = 1
    BY <1>1, <1>6, <2>1 DEF NextRequest, Running, JobTyped, Proceed
  <2>2. CASE Len(job.rs) # 1
    <3>1. job' = [job EXCEPT !.rs = Tail(job.rs)] /\ pc' = "dispatch"
      BY <1>6, <2>2 DEF NextRequest, Proceed
    <3>2. Len(Tail(job.rs)) # 0 /\ Len(<<>>) = 0
      BY <1>4, <2>2
    <3>3. Tail(job.rs) # <<>>
      BY <3>2
    <3>4. /\ job' \in [kind : {"dispatch"}, rs : Seq(Nat), to : Clients \cup {None}]
          /\ job'.rs = Tail(job.rs)
      BY <1>2, <1>4, <3>1
    <3> QED
      BY <1>1, <1>6, <3>1, <3>3, <3>4 DEF Running, JobTyped
  <2> QED
    BY <2>1, <2>2
<1> QED
  BY <1>1, <1>2, <1>3, <1>4, <1>5, <1>6

LEMMA DispatchTypes ==
    ASSUME TypeInv, Dispatch
    PROVE  TypeInv'
<1> DEFINE r == Head(job.rs)
           p == asked[r].pipe
<1>1. pc \in {"dispatch", "enlist"} /\ Running /\ registered # "no"
      /\ job.to \in Clients \cup {None} /\ r \in Nat
  BY NextTypes DEF Dispatch
<1>2. /\ Len(pipeQ[p]) < PipeDepth /\ pipeQ' = [pipeQ EXCEPT ![p] = Append(pipeQ[p], r)]
      /\ link' = Inserted(link, r, job.to) /\ answers' = Inserted(answers, r, 0)
      /\ NextRequest \/ Proceed("enlist", job)
      /\ UNCHANGED <<net, inbox, toMaster, file, client, scene, conn, waiters, at, parked,
                     shipped, asked, phase, registered, listening, misread, fault>>
  BY DEF Dispatch, mapVars, masterVars, endVars
<1> HIDE DEF r, p
<1>3. Running'
  BY <1>1, <1>2, NextTypes
<1>4. /\ DOMAIN link' = DOMAIN link \cup {r}
      /\ link' \in [DOMAIN link \cup {r} -> Clients \cup {None}]
      /\ answers' \in [DOMAIN link \cup {r} -> Nat]
  <2>1. link \in [DOMAIN link -> Clients \cup {None}] /\ answers \in [DOMAIN link -> Nat]
    BY DEF TypeInv, RequestsTyped
  <2>2. /\ DOMAIN link' = DOMAIN link \cup {r}
        /\ link' \in [DOMAIN link \cup {r} -> Clients \cup {None}]
    BY <1>1, <1>2, <2>1, InsertedFacts
  <2>3. answers' \in [DOMAIN link \cup {r} -> Nat]
    BY <1>2, <2>1, InsertedFacts
  <2> QED
    BY <2>2, <2>3
<1>5. /\ pipeQ' \in [Pipelines -> Seq(Nat)]
      /\ \A x \in Pipelines : Len(pipeQ'[x]) <= PipeDepth
  <2>1. pipeQ \in [Pipelines -> Seq(Nat)] /\ \A x \in Pipelines : Len(pipeQ[x]) <= PipeDepth
    BY DEF TypeInv, RequestsTyped, SizesKept
  <2>2. ASSUME NEW x \in Pipelines
        PROVE  pipeQ'[x] \in Seq(Nat) /\ Len(pipeQ'[x]) <= PipeDepth
    <3>1. pipeQ[x] \in Seq(Nat)
      BY <2>1
    <3>2. Append(pipeQ[x], r) \in Seq(Nat) /\ Len(Append(pipeQ[x], r)) = Len(pipeQ[x]) + 1
      BY <1>1, <3>1
    <3>3. PipeDepth \in Nat /\ Len(pipeQ[x]) \in Nat
      BY <3>1, WorkerAssumption
    <3>4. CASE x = p
      BY <1>2, <2>1, <3>2, <3>3, <3>4
    <3>5. CASE x # p
      BY <1>2, <2>1, <3>5
    <3> QED
      BY <3>4, <3>5
  <2>3. pipeQ' = [x \in Pipelines |-> pipeQ'[x]]
    BY <1>2, <2>1
  <2> QED
    BY <2>2, <2>3
<1>6. RequestsTyped' /\ SizesKept' /\ MapsTyped'
  BY <1>2, <1>4, <1>5 DEF TypeInv, RequestsTyped, SizesKept, MapsTyped
<1> QED
  BY <1>1, <1>2, <1>3, <1>6 DEF TypeInv

LEMMA AskedFacts ==
    ASSUME TypeInv
    PROVE  /\ asked \in Seq(Produced) /\ Len(asked) \in Nat /\ DOMAIN asked = 1 .. Len(asked)
           /\ \A r \in DOMAIN asked :
                  /\ r \in Nat \ {0} /\ asked[r] \in Produced
                  /\ asked[r].order \in Orders /\ asked[r].pipe \in Pipelines
                  /\ asked[r].work \in BOOLEAN /\ Id(r) \in Ids
<1>1. asked \in Seq(Produced)
  BY DEF TypeInv, RequestsTyped
<1>2. /\ Len(asked) \in Nat /\ DOMAIN asked = 1 .. Len(asked)
      /\ \A r \in DOMAIN asked : asked[r] \in Produced
  BY <1>1
<1>3. \A r \in DOMAIN asked :
          /\ asked[r].order \in Orders /\ asked[r].pipe \in Pipelines
          /\ asked[r].work \in BOOLEAN
  BY <1>2 DEF Produced
<1>4. \A o \in Orders : SceneId[o] \in Ids
  BY WorkerAssumption DEF Ids, Range
<1>5. \A r \in DOMAIN asked : r \in Nat \ {0} /\ Id(r) \in Ids
  BY <1>2, <1>3, <1>4 DEF Id
<1> QED
  BY <1>1, <1>2, <1>3, <1>5

LEMMA EnlistTypes ==
    ASSUME TypeInv, Enlist, job.rs[1] \in DOMAIN asked
    PROVE  TypeInv'
<1>1. /\ pc \in {"dispatch", "enlist"} /\ Running /\ registered # "no"
      /\ Head(job.rs) = job.rs[1] /\ job.rs[1] \in Nat
  BY NextTypes DEF Enlist
<1>2. Id(job.rs[1]) \in Ids
  BY AskedFacts
<1>3. waiters' \in Seq(Ids \X Nat)
  <2>1. <<Id(job.rs[1]), job.rs[1]>> \in Ids \X Nat /\ waiters \in Seq(Ids \X Nat)
    BY <1>1, <1>2 DEF TypeInv, RequestsTyped
  <2>2. waiters' = Append(waiters, <<Id(job.rs[1]), job.rs[1]>>)
    BY <1>1 DEF Enlist
  <2> QED
    BY <2>1, <2>2
<1>4. Running'
  BY <1>1, NextTypes DEF Enlist
<1>5. RequestsTyped'
  BY <1>3 DEF Enlist, TypeInv, RequestsTyped, pipeVars, producerVars, masterVars
<1> QED
  BY <1>1, <1>4, <1>5 DEF Enlist, TypeInv, MapsTyped, SizesKept,
     mapVars, pipeVars, producerVars, masterVars, endVars

LEMMA PipelineTypes ==
    ASSUME TypeInv, NEW p \in Pipelines, Pipeline(p)
    PROVE  TypeInv'
<1>1. /\ UNCHANGED <<net, inbox, pc, job, toMaster, file, client, scene, conn, waiters, link,
                     asked, phase, registered, listening, misread>>
      /\ pipeQ' = pipeQ \/ (pipeQ[p] # <<>> /\ pipeQ' = [pipeQ EXCEPT ![p] = Tail(pipeQ[p])])
      /\ at' = at \/ at' = [at EXCEPT ![p] = 0]
            \/ (pipeQ[p] # <<>> /\ at' = [at EXCEPT ![p] = Head(pipeQ[p])])
  BY DEF Pipeline, ProduceNothing, ProducePixels, CheckConnectionAndSendResponse,
     threadVars, mapVars, pipeVars, producerVars, masterVars, endVars
<1>2. pipeQ \in [Pipelines -> Seq(Nat)] /\ at \in [Pipelines -> Nat] /\ pipeQ[p] \in Seq(Nat)
  BY DEF TypeInv, RequestsTyped
<1>3. pipeQ[p] # <<>> => /\ Head(pipeQ[p]) \in Nat /\ Tail(pipeQ[p]) \in Seq(Nat)
                         /\ Len(Tail(pipeQ[p])) <= Len(pipeQ[p])
  BY <1>2
<1>4. pipeQ' \in [Pipelines -> Seq(Nat)] /\ at' \in [Pipelines -> Nat]
  <2>1. pipeQ' \in [Pipelines -> Seq(Nat)]
    BY <1>1, <1>2, <1>3
  <2>2. at' \in [Pipelines -> Nat]
    <3>1. CASE at' = at
      BY <1>2, <3>1
    <3>2. CASE at' = [at EXCEPT ![p] = 0]
      BY <1>2, <3>2
    <3>3. CASE pipeQ[p] # <<>> /\ at' = [at EXCEPT ![p] = Head(pipeQ[p])]
      BY <1>2, <1>3, <3>3
    <3> QED
      BY <1>1, <3>1, <3>2, <3>3
  <2> QED
    BY <2>1, <2>2
<1>5. ASSUME NEW x \in Pipelines
      PROVE  Len(pipeQ'[x]) <= PipeDepth
  <2>0. pipeQ[x] \in Seq(Nat) /\ Len(pipeQ[x]) <= PipeDepth
    BY <1>2 DEF TypeInv, SizesKept
  <2>1. Len(pipeQ[x]) <= PipeDepth /\ Len(pipeQ[x]) \in Nat /\ PipeDepth \in Nat
    BY <2>0, WorkerAssumption
  <2>2. pipeQ'[x] = pipeQ[x] \/ (x = p /\ pipeQ[p] # <<>> /\ pipeQ'[x] = Tail(pipeQ[p]))
    BY <1>1, <1>2
  <2>3. pipeQ[p] # <<>> => Tail(pipeQ[p]) \in Seq(Nat) /\ Len(Tail(pipeQ[p])) \in Nat
    BY <1>3
  <2>4. CASE pipeQ'[x] = pipeQ[x]
    BY <2>1, <2>4
  <2>5. CASE x = p /\ pipeQ[p] # <<>> /\ pipeQ'[x] = Tail(pipeQ[p])
    BY <1>3, <2>1, <2>3, <2>5
  <2> QED
    BY <2>2, <2>4, <2>5
<1>6. /\ answers' \in [DOMAIN link -> Nat]
      /\ fault' \in {"none", "null scene", "broken pipe", "freed address"}
  <2>1. CASE ProduceNothing(p)
    <3>1. /\ answers' = [answers EXCEPT ![Head(pipeQ[p])] = answers[Head(pipeQ[p])] + 1]
          /\ fault' = fault
      BY <2>1 DEF ProduceNothing, endVars
    <3>2. answers \in [DOMAIN link -> Nat]
          /\ fault \in {"none", "null scene", "broken pipe", "freed address"}
      BY DEF TypeInv, RequestsTyped
    <3> QED
      BY <3>1, <3>2, OneMore
  <2>2. CASE ProducePixels(p)
    BY <2>2 DEF ProducePixels, producerVars, TypeInv, RequestsTyped
  <2>3. CASE CheckConnectionAndSendResponse(p)
    <3>1. DoCommandComplete(at[p], link[at[p]]) \/ UNCHANGED <<answers, fault>>
      BY <2>3 DEF CheckConnectionAndSendResponse
    <3> QED
      BY <3>1, AnswerTypes DEF TypeInv, RequestsTyped
  <2> QED
    BY <2>1, <2>2, <2>3 DEF Pipeline
<1>7. RequestsTyped'
  BY <1>1, <1>4, <1>6 DEF TypeInv, RequestsTyped
<1>8. SizesKept' /\ MapsTyped' /\ (IF registered' = "no" THEN Starting' ELSE Running')
  BY <1>1, <1>5 DEF TypeInv, SizesKept, MapsTyped, Starting, Running, JobTyped
<1> QED
  BY <1>1, <1>6, <1>7, <1>8 DEF TypeInv

\* What a request of the master adds to the requests, and what its message says.
LEMMA RequestFacts ==
    ASSUME TypeInv, NEW o \in Orders, NEW n \in Nat, NEW ps \in [1 .. n -> Pipelines],
           Request(o, ps)
    PROVE  /\ asked' \in Seq(Produced) /\ Len(asked') = Len(asked) + n
           /\ Len(asked) \in Nat /\ Len(asked') <= MaxRequests
           /\ \A r \in DOMAIN asked : r \in DOMAIN asked' /\ asked'[r] = asked[r]
           /\ \A i \in 1 .. n : /\ Len(asked) + i \in DOMAIN asked'
                                /\ asked'[Len(asked) + i].order = o
                                /\ asked'[Len(asked) + i].work = (o \notin Sparse)
           /\ Requested(o) = [kind |-> "pixels", order |-> o,
                              rs |-> [i \in 1 .. n |-> Len(asked) + i]]
           /\ Requested(o) \in MasterMsgs
<1> DEFINE new == [i \in 1 .. n |-> [order |-> o, pipe |-> ps[i], work |-> o \notin Sparse]]
<1>1. asked \in Seq(Produced) /\ Len(asked) \in Nat
  BY AskedFacts
<1>2. new \in Seq(Produced) /\ Len(new) = n
  <2>1. \A i \in 1 .. n : new[i] \in Produced
    BY DEF Produced
  <2> QED
    BY <2>1
<1>3. \A i \in 1 .. n : new[i].order = o /\ new[i].work = (o \notin Sparse)
  OBVIOUS
<1>4. asked' = asked \o new /\ Len(asked) + n <= MaxRequests
  <2>1. DOMAIN ps = 1 .. n /\ Len(ps) = n
    OBVIOUS
  <2> QED
    BY <2>1 DEF Request
<1> HIDE DEF new
<1>5. /\ asked' \in Seq(Produced) /\ Len(asked') = Len(asked) + n
      /\ \A r \in 1 .. Len(asked) + n :
             asked'[r] = IF r <= Len(asked) THEN asked[r] ELSE new[r - Len(asked)]
  BY <1>1, <1>2, <1>4, ConcatProperties
<1>6. DOMAIN asked = 1 .. Len(asked) /\ DOMAIN asked' = 1 .. Len(asked) + n
  BY <1>1, <1>5
<1>7. \A r \in DOMAIN asked : r \in DOMAIN asked' /\ asked'[r] = asked[r]
  BY <1>1, <1>5, <1>6
<1>8. ASSUME NEW i \in 1 .. n
      PROVE  /\ Len(asked) + i \in DOMAIN asked' /\ asked'[Len(asked) + i] = new[i]
             /\ new[i].order = o /\ new[i].work = (o \notin Sparse)
  <2>1. /\ Len(asked) + i \in 1 .. Len(asked) + n /\ ~(Len(asked) + i <= Len(asked))
        /\ (Len(asked) + i) - Len(asked) = i
    BY <1>1
  <2>2. asked'[Len(asked) + i] = new[(Len(asked) + i) - Len(asked)]
    BY <1>5, <2>1
  <2> QED
    BY <1>3, <1>6, <2>1, <2>2
<1>9. Requested(o) = [kind |-> "pixels", order |-> o, rs |-> [i \in 1 .. n |-> Len(asked) + i]]
  <2>1. Len(asked') - Len(asked) = n
    BY <1>1, <1>5
  <2> QED
    BY <2>1 DEF Requested
<1>10. Requested(o) \in MasterMsgs
  <2>1. [i \in 1 .. n |-> Len(asked) + i] \in Seq(Nat)
    <3>1. \A i \in 1 .. n : Len(asked) + i \in Nat
      BY <1>1
    <3> QED
      BY <3>1
  <2> QED
    BY <1>9, <2>1 DEF MasterMsgs
<1> QED
  BY <1>1, <1>4, <1>5, <1>7, <1>8, <1>9, <1>10

\* Turns are sequences of as many pipelines as there are.
LEMMA TurnFacts ==
    /\ Cardinality(Pipelines) \in Nat \ {0}
    /\ \A ps \in EachInTurn : ps \in [1 .. Cardinality(Pipelines) -> Pipelines]
<1>1. Cardinality(Pipelines) \in Nat /\ Cardinality(Pipelines) # 0
  BY FS_CardinalityType, FS_EmptySet, WorkerAssumption
<1> QED
  BY <1>1 DEF EachInTurn

LEMMA MasterTypes ==
    ASSUME TypeInv, Environment
    PROVE  TypeInv'
<1> USE DEF threadVars, mapVars, pipeVars, producerVars, endVars
<1>1. net \in Seq(MasterMsgs) /\ phase \in [Orders -> {"none", "rendering", "over"}]
  BY DEF TypeInv
<1>2. ASSUME UNCHANGED <<threadVars, mapVars, waiters, pipeVars, link, answers, misread, fault>>,
             net' \in Seq(MasterMsgs), asked' \in Seq(Produced), Len(asked') <= MaxRequests,
             phase' \in [Orders -> {"none", "rendering", "over"}],
             listening' \subseteq Clients, registered' \in {"no", "asked", "yes"},
             registered = "no" => UNCHANGED <<net, phase, registered>>,
             registered # "no" => registered' # "no"
      PROVE  TypeInv'
  <2>1. RequestsTyped' /\ SizesKept' /\ MapsTyped'
    BY <1>2 DEF TypeInv, RequestsTyped, SizesKept, MapsTyped
  <2>2. IF registered' = "no" THEN Starting' ELSE Running'
    BY <1>2 DEF TypeInv, Starting, Running, JobTyped
  <2> QED
    BY <1>2, <2>1, <2>2 DEF TypeInv
<1>3. /\ asked \in Seq(Produced) /\ Len(asked) <= MaxRequests /\ listening \subseteq Clients
      /\ registered \in {"no", "asked", "yes"}
  BY AskedFacts DEF TypeInv, SizesKept
<1>4. CASE MasterRegisters
  <2>1. [kind |-> "registered"] \in MasterMsgs
    BY DEF MasterMsgs
  <2>2. net' \in Seq(MasterMsgs)
    BY <1>1, <1>4, <2>1 DEF MasterRegisters
  <2> QED
    BY <1>1, <1>2, <1>3, <1>4, <2>2 DEF MasterRegisters
<1>5. ASSUME NEW o \in Orders, MasterKicksOff(o)
      PROVE  TypeInv'
  <2>1. PICK ps \in EachInTurn : Request(o, ps)
    BY <1>5 DEF MasterKicksOff
  <2>2. /\ asked' \in Seq(Produced) /\ Len(asked') <= MaxRequests
        /\ Requested(o) \in MasterMsgs
    BY <2>1, TurnFacts, RequestFacts
  <2>3. [kind |-> "scene", order |-> o] \in MasterMsgs
    BY DEF MasterMsgs
  <2>4. net' \in Seq(MasterMsgs)
    BY <1>1, <1>5, <2>2, <2>3 DEF MasterKicksOff
  <2>5. phase' \in [Orders -> {"none", "rendering", "over"}]
    BY <1>1, <1>5 DEF MasterKicksOff
  <2> QED
    BY <1>2, <1>3, <1>5, <2>2, <2>4, <2>5 DEF MasterKicksOff
<1>6. ASSUME NEW o \in Orders, MasterRefills(o)
      PROVE  TypeInv'
  <2>1. PICK p \in Pipelines : Request(o, <<p>>)
    BY <1>6 DEF MasterRefills
  <2>2. <<p>> \in [1 .. 1 -> Pipelines]
    OBVIOUS
  <2>3. /\ asked' \in Seq(Produced) /\ Len(asked') <= MaxRequests
        /\ Requested(o) \in MasterMsgs
    BY <2>1, <2>2, RequestFacts
  <2>4. net' \in Seq(MasterMsgs)
    BY <1>1, <1>6, <2>3 DEF MasterRefills
  <2>5. registered # "no"
    BY <1>6 DEF MasterRefills, TypeInv, Starting
  <2> QED
    BY <1>1, <1>2, <1>3, <1>6, <2>3, <2>4, <2>5 DEF MasterRefills
<1>7. ASSUME NEW o \in Orders, MasterCleansUp(o)
      PROVE  TypeInv'
  <2>1. [kind |-> "cleanup", order |-> o] \in MasterMsgs
    BY DEF MasterMsgs
  <2>2. net' \in Seq(MasterMsgs) /\ phase' \in [Orders -> {"none", "rendering", "over"}]
    BY <1>1, <1>7, <2>1 DEF MasterCleansUp
  <2>3. registered # "no"
    BY <1>7 DEF MasterCleansUp, TypeInv, Starting
  <2> QED
    BY <1>2, <1>3, <1>7, <2>2, <2>3 DEF MasterCleansUp
<1>8. ASSUME NEW c \in Clients, ClientQuits(c)
      PROVE  TypeInv'
  BY <1>1, <1>2, <1>3, <1>8 DEF ClientQuits, masterVars
<1> QED
  BY <1>4, <1>5, <1>6, <1>7, <1>8 DEF Environment

-----------------------------------------------------------------------------
(* How the queues move                                                     *)

Msgs == MasterMsgs \cup Connections \cup {ServerIsUp, MasterIsUp}

LEMMA QueueTypes ==
    ASSUME TypeInv
    PROVE  /\ inbox \in Seq(Msgs) /\ net \in Seq(Msgs) /\ Coming \in Seq(Msgs)
           /\ Len(inbox) \in Nat /\ Len(net) \in Nat /\ Len(Coming) = Len(inbox) + Len(net)
           /\ \A i \in 1 .. Len(inbox) + Len(net) :
                  Coming[i] = IF i <= Len(inbox) THEN inbox[i] ELSE net[i - Len(inbox)]
<1>1. net \in Seq(Msgs)
  <2>1. net \in Seq(MasterMsgs) /\ MasterMsgs \subseteq Msgs
    BY DEF TypeInv, Msgs
  <2> QED
    BY <2>1, WiderSeq
<1>2. inbox \in Seq(Msgs)
  <2>1. CASE registered = "no"
    <3>1. ServerIsUp \in Msgs /\ MasterIsUp \in Msgs
      BY DEF Msgs
    <3>2. inbox = <<>> \/ inbox = <<ServerIsUp>> \/ inbox = <<MasterIsUp>>
      BY <2>1 DEF TypeInv, Starting
    <3>3. \A m \in Msgs : <<m>> \in Seq(Msgs)
      OBVIOUS
    <3>4. <<>> \in Seq(Msgs)
      OBVIOUS
    <3> QED
      BY <3>1, <3>2, <3>3, <3>4
  <2>2. CASE registered # "no"
    <3>1. inbox \in Seq(MasterMsgs \cup Connections) /\ MasterMsgs \cup Connections \subseteq Msgs
      BY <2>2 DEF TypeInv, Running, Msgs
    <3> QED
      BY <3>1, WiderSeq
  <2> QED
    BY <2>1, <2>2
<1>3. Len(inbox) \in Nat /\ Len(net) \in Nat
  BY <1>1, <1>2
<1>4. /\ inbox \o net \in Seq(Msgs) /\ Len(inbox \o net) = Len(inbox) + Len(net)
      /\ \A i \in 1 .. Len(inbox) + Len(net) :
             (inbox \o net)[i] = IF i <= Len(inbox) THEN inbox[i] ELSE net[i - Len(inbox)]
  BY <1>1, <1>2, ConcatProperties
<1> QED
  BY <1>1, <1>2, <1>3, <1>4 DEF Coming

\* The receiver thread only moves a message on.
LEMMA ReceiverComing ==
    ASSUME TypeInv, ReceiverReads
    PROVE  Coming' = Coming
<1>1. inbox \in Seq(Msgs) /\ net \in Seq(Msgs) /\ net # <<>>
  BY QueueTypes DEF ReceiverReads
<1>2. inbox' = Append(inbox, Head(net)) /\ net' = Tail(net)
  BY DEF ReceiverReads
<1>3. Append(inbox, Head(net)) \o Tail(net) = inbox \o net
  BY <1>1
<1> QED
  BY <1>2, <1>3 DEF Coming

\* The worker's thread takes the first.
LEMMA TakeComing ==
    ASSUME TypeInv, NEW kind, Take(kind), net' = net
    PROVE  /\ 1 \in DOMAIN Coming /\ Coming[1] = Head(inbox) /\ Coming[1].kind = kind
           /\ Coming \in Seq(Msgs) /\ Coming' \in Seq(Msgs)
           /\ \A i \in DOMAIN Coming' : /\ i \in Nat \ {0} /\ i + 1 \in DOMAIN Coming
                                        /\ Coming'[i] = Coming[i + 1]
           /\ \A i \in DOMAIN Coming : i = 1 \/ (i - 1 \in DOMAIN Coming' /\ i \in Nat)
<1>1. /\ inbox \in Seq(Msgs) /\ net \in Seq(Msgs) /\ Coming \in Seq(Msgs) /\ inbox # <<>>
      /\ inbox' = Tail(inbox) /\ Head(inbox).kind = kind
  BY QueueTypes DEF Take
<1>2. Tail(inbox) \o net = Tail(inbox \o net) /\ Head(inbox \o net) = Head(inbox)
      /\ inbox \o net # <<>>
  BY <1>1
<1>3. Coming' = Tail(Coming) /\ Head(Coming) = Head(inbox) /\ Coming # <<>>
  BY <1>1, <1>2 DEF Coming
<1>4. /\ Head(Coming) = Coming[1] /\ 1 \in DOMAIN Coming /\ Tail(Coming) \in Seq(Msgs)
      /\ Len(Tail(Coming)) = Len(Coming) - 1 /\ Len(Coming) \in Nat \ {0}
      /\ \A i \in DOMAIN Tail(Coming) : /\ i \in Nat \ {0} /\ i + 1 \in DOMAIN Coming
                                        /\ Tail(Coming)[i] = Coming[i + 1]
  BY <1>1, <1>3, TailFacts
<1>5. ASSUME NEW i \in DOMAIN Coming, i # 1
      PROVE  i - 1 \in DOMAIN Tail(Coming) /\ i \in Nat
  <2>1. i \in 1 .. Len(Coming) /\ DOMAIN Tail(Coming) = 1 .. Len(Coming) - 1
    BY <1>1, <1>4
  <2> QED
    BY <1>4, <1>5, <2>1
<1> QED
  BY <1>1, <1>3, <1>4, <1>5

\* What the master sends comes last.
LEMMA SendComing ==
    ASSUME TypeInv, NEW ms \in Seq(Msgs), net' = net \o ms, inbox' = inbox
    PROVE  /\ Coming \in Seq(Msgs) /\ Coming' \in Seq(Msgs) /\ Len(Coming) \in Nat
           /\ Len(Coming') = Len(Coming) + Len(ms)
           /\ \A i \in DOMAIN Coming : /\ i \in 1 .. Len(Coming) /\ i \in DOMAIN Coming'
                                       /\ Coming'[i] = Coming[i]
           /\ \A i \in DOMAIN Coming' : i \in DOMAIN Coming
                  \/ (i - Len(Coming) \in DOMAIN ms /\ i \in Nat /\ i > Len(Coming)
                         /\ Coming'[i] = ms[i - Len(Coming)])
<1>1. Coming \in Seq(Msgs) /\ inbox \in Seq(Msgs) /\ net \in Seq(Msgs)
  BY QueueTypes
<1>2. inbox \o (net \o ms) = (inbox \o net) \o ms
  BY <1>1
<1>3. Coming' = Coming \o ms
  BY <1>2 DEF Coming
<1>4. /\ Coming \o ms \in Seq(Msgs) /\ Len(Coming \o ms) = Len(Coming) + Len(ms)
      /\ Len(Coming) \in Nat /\ Len(ms) \in Nat
      /\ \A i \in 1 .. Len(Coming) + Len(ms) :
             (Coming \o ms)[i] = IF i <= Len(Coming) THEN Coming[i] ELSE ms[i - Len(Coming)]
  BY <1>1, ConcatProperties, LenProperties
<1>5. /\ DOMAIN Coming = 1 .. Len(Coming) /\ DOMAIN ms = 1 .. Len(ms)
      /\ DOMAIN Coming' = 1 .. Len(Coming) + Len(ms)
  BY <1>1, <1>3, <1>4
<1>6. ASSUME NEW i \in DOMAIN Coming', i \notin DOMAIN Coming
      PROVE  /\ i - Len(Coming) \in DOMAIN ms /\ i \in Nat /\ i > Len(Coming)
             /\ Coming'[i] = ms[i - Len(Coming)]
  <2>1. i \in Nat /\ i > Len(Coming) /\ i - Len(Coming) \in 1 .. Len(ms) /\ ~(i <= Len(Coming))
    BY <1>4, <1>5, <1>6
  <2> QED
    BY <1>3, <1>4, <1>5, <2>1
<1>7. ASSUME NEW i \in DOMAIN Coming
      PROVE  i \in 1 .. Len(Coming) /\ i \in DOMAIN Coming' /\ Coming'[i] = Coming[i]
  <2>1. i \in 1 .. Len(Coming) + Len(ms) /\ i <= Len(Coming)
    BY <1>4, <1>5
  <2> QED
    BY <1>3, <1>4, <1>5, <2>1
<1> QED
  BY <1>1, <1>3, <1>4, <1>6, <1>7

\* The report of a connection comes between what is in the queue and the rest.
LEMMA ReportComing ==
    ASSUME TypeInv, ReportConnection
    PROVE  /\ Coming \in Seq(Msgs) /\ Coming' \in Seq(Msgs)
           /\ Len(inbox) + 1 \in DOMAIN Coming' /\ Coming'[Len(inbox) + 1] = job
           /\ Len(inbox) + 1 \in DOMAIN inbox' /\ inbox'[Len(inbox) + 1] = job
           /\ Len(inbox) \in Nat
           /\ \A i \in DOMAIN Coming' : i \in Nat /\
                  \/ i <= Len(inbox) /\ i \in DOMAIN Coming /\ Coming'[i] = Coming[i]
                  \/ i = Len(inbox) + 1
                  \/ i > Len(inbox) + 1 /\ i - 1 \in DOMAIN Coming /\ Coming'[i] = Coming[i - 1]
           /\ \A i \in DOMAIN Coming : i \in Nat /\
                  \/ i <= Len(inbox) /\ i \in DOMAIN Coming' /\ Coming'[i] = Coming[i]
                  \/ i > Len(inbox) /\ i + 1 \in DOMAIN Coming' /\ Coming'[i + 1] = Coming[i]
<1>1. /\ inbox \in Seq(Msgs) /\ net \in Seq(Msgs) /\ Coming \in Seq(Msgs)
      /\ Len(inbox) \in Nat /\ Len(net) \in Nat /\ Len(Coming) = Len(inbox) + Len(net)
      /\ \A i \in 1 .. Len(inbox) + Len(net) :
             Coming[i] = IF i <= Len(inbox) THEN inbox[i] ELSE net[i - Len(inbox)]
  BY QueueTypes
<1>2. job \in Msgs
  BY DEF ReportConnection, TypeInv, Starting, Running, JobTyped, Msgs
<1>3. inbox' = Append(inbox, job) /\ net' = net
  BY DEF ReportConnection
<1>4. /\ inbox' \in Seq(Msgs) /\ Len(inbox') = Len(inbox) + 1
      /\ \A i \in 1 .. Len(inbox) : inbox'[i] = inbox[i]
      /\ inbox'[Len(inbox) + 1] = job
  BY <1>1, <1>2, <1>3, AppendProperties
<1>5. /\ Coming' \in Seq(Msgs) /\ Len(Coming') = Len(inbox) + 1 + Len(net)
      /\ \A i \in 1 .. Len(inbox) + 1 + Len(net) :
             Coming'[i] = IF i <= Len(inbox) + 1 THEN inbox'[i] ELSE net[i - (Len(inbox) + 1)]
  <2>1. /\ inbox' \o net \in Seq(Msgs) /\ Len(inbox' \o net) = Len(inbox') + Len(net)
        /\ \A i \in 1 .. Len(inbox') + Len(net) :
               (inbox' \o net)[i] = IF i <= Len(inbox') THEN inbox'[i] ELSE net[i - Len(inbox')]
    BY <1>1, <1>4, ConcatProperties
  <2> QED
    BY <1>3, <1>4, <2>1 DEF Coming
<1>6. /\ DOMAIN Coming = 1 .. Len(inbox) + Len(net)
      /\ DOMAIN Coming' = 1 .. Len(inbox) + 1 + Len(net) /\ DOMAIN inbox' = 1 .. Len(inbox) + 1
  BY <1>1, <1>4, <1>5
<1>7. ASSUME NEW i \in DOMAIN Coming'
      PROVE  i \in Nat /\
                  \/ i <= Len(inbox) /\ i \in DOMAIN Coming /\ Coming'[i] = Coming[i]
                  \/ i = Len(inbox) + 1
                  \/ i > Len(inbox) + 1 /\ i - 1 \in DOMAIN Coming /\ Coming'[i] = Coming[i - 1]
  <2>1. i \in Nat /\ i >= 1 /\ i <= Len(inbox) + 1 + Len(net)
    BY <1>1, <1>6
  <2>2. CASE i <= Len(inbox)
    <3>1. i \in 1 .. Len(inbox) /\ i \in DOMAIN Coming /\ i <= Len(inbox) + 1
      BY <1>1, <1>6, <2>1, <2>2
    <3>2. Coming'[i] = inbox'[i] /\ inbox'[i] = inbox[i]
      BY <1>4, <1>5, <1>6, <3>1
    <3>3. Coming[i] = inbox[i]
      BY <1>1, <1>6, <2>2, <3>1
    <3> QED
      BY <2>1, <2>2, <3>1, <3>2, <3>3
  <2>3. CASE i > Len(inbox) + 1
    <3>1. i - 1 \in 1 .. Len(inbox) + Len(net) /\ ~(i - 1 <= Len(inbox))
          /\ (i - 1) - Len(inbox) = i - (Len(inbox) + 1) /\ ~(i <= Len(inbox) + 1)
      BY <1>1, <2>1, <2>3
    <3>2. Coming[i - 1] = net[(i - 1) - Len(inbox)]
      BY <1>1, <3>1
    <3> QED
      BY <1>5, <1>6, <2>1, <2>3, <3>1, <3>2
  <2> QED
    BY <1>1, <2>1, <2>2, <2>3
<1>8. ASSUME NEW i \in DOMAIN Coming
      PROVE  i \in Nat /\
                  \/ i <= Len(inbox) /\ i \in DOMAIN Coming' /\ Coming'[i] = Coming[i]
                  \/ i > Len(inbox) /\ i + 1 \in DOMAIN Coming' /\ Coming'[i + 1] = Coming[i]
  <2>1. i \in Nat /\ i >= 1 /\ i <= Len(inbox) + Len(net)
    BY <1>1, <1>6
  <2>2. CASE i <= Len(inbox)
    <3>1. /\ i \in 1 .. Len(inbox) /\ i \in 1 .. Len(inbox) + 1 + Len(net)
          /\ i \in 1 .. Len(inbox) + Len(net) /\ i <= Len(inbox) + 1
      BY <1>1, <2>1, <2>2
    <3> QED
      BY <1>1, <1>4, <1>5, <1>6, <2>1, <2>2, <3>1
  <2>3. CASE i > Len(inbox)
    <3>1. i + 1 \in 1 .. Len(inbox) + 1 + Len(net) /\ ~(i + 1 <= Len(inbox) + 1)
          /\ (i + 1) - (Len(inbox) + 1) = i - Len(inbox) /\ ~(i <= Len(inbox))
      BY <1>1, <2>1, <2>3
    <3>2. Coming'[i + 1] = net[(i + 1) - (Len(inbox) + 1)]
      BY <1>5, <3>1
    <3> QED
      BY <1>1, <1>6, <2>1, <2>3, <3>1, <3>2
  <2> QED
    BY <1>1, <2>1, <2>2, <2>3
<1> QED
  BY <1>1, <1>4, <1>5, <1>6, <1>7, <1>8

-----------------------------------------------------------------------------
(* A request is answered once                                              *)

\* The messages that ask for pixels are old ones.
Moved(f) ==
    /\ \A k \in DOMAIN Coming' : Coming'[k].kind = "pixels" =>
           f[k] \in DOMAIN Coming /\ Coming[f[k]] = Coming'[k]
    /\ \A k, l \in DOMAIN Coming' :
           k # l /\ Coming'[k].kind = "pixels" /\ Coming'[l].kind = "pixels" => f[k] # f[l]

\* The requests there were are as they were.
AskedGrows ==
    \A r \in DOMAIN asked : r \in DOMAIN asked' /\ asked'[r] = asked[r]

LEMMA MovedMsgs ==
    ASSUME MsgInv, NEW f, Moved(f), AskedGrows, DOMAIN link' = DOMAIN link
    PROVE  MsgInv'
<1>1. ASSUME NEW k \in DOMAIN Coming', Coming'[k].kind = "pixels"
      PROVE  Fresh(Coming[k])'
  <2>1. Fresh(Coming[f[k]]) /\ Coming[f[k]] = Coming'[k]
    BY <1>1 DEF Moved, MsgInv
  <2> QED
    BY <2>1 DEF Fresh, AskedGrows
<1>2. ASSUME NEW k \in DOMAIN Coming', NEW l \in DOMAIN Coming', k # l,
             Coming'[k].kind = "pixels", Coming'[l].kind = "pixels"
      PROVE  Apart(Coming'[k], Coming'[l])
  BY <1>2 DEF Moved, MsgInv
<1> QED
  BY <1>1, <1>2 DEF MsgInv, Apart

LEMMA QuietOnce ==
    ASSUME OnceInv, NEW f, Moved(f),
           UNCHANGED <<asked, link, pipeQ, at, answers, parked, shipped, waiters, listening>>,
           \/ UNCHANGED <<pc, job>>
           \/ pc \notin {"dispatch", "enlist"} /\ pc' \notin {"dispatch", "enlist"}
    PROVE  OnceInv'
<1>1. MsgInv'
  BY MovedMsgs DEF OnceInv, AskedGrows
<1>2. DispatchInv'
  <2>1. CASE pc' \notin {"dispatch", "enlist"}
    BY <2>1 DEF DispatchInv
  <2>2. CASE pc' \in {"dispatch", "enlist"}
    <3>1. UNCHANGED <<pc, job>>
      BY <2>2
    <3>2. ASSUME NEW k \in DOMAIN Coming', Coming'[k].kind = "pixels"
          PROVE  Apart(Coming'[k], job)
      BY <2>2, <3>1, <3>2 DEF Moved, OnceInv, DispatchInv
    <3> QED
      BY <2>2, <3>1, <3>2 DEF OnceInv, DispatchInv, Apart
  <2> QED
    BY <2>1, <2>2
<1>3. PipeInv' /\ LinkInv' /\ AnsweredOnce'
  BY DEF OnceInv, PipeInv, PipeOrder, Producing, LinkInv, AnsweredOnce
<1>4. WaitInv'
  BY DEF OnceInv, WaitInv, Waits, BeingEnlisted, Id
<1> QED
  BY <1>1, <1>2, <1>3, <1>4 DEF OnceInv

LEMMA ReceiverOnce ==
    ASSUME TypeInv, OnceInv, ReceiverReads
    PROVE  OnceInv'
<1> DEFINE f == [k \in DOMAIN Coming |-> k]
<1>1. Moved(f)
  BY ReceiverComing DEF Moved
<1> QED
  BY <1>1, QuietOnce DEF ReceiverReads, pipeVars, producerVars, masterVars, endVars

\* What the worker's thread takes does not come again.
LEMMA TakeMoves ==
    ASSUME TypeInv, NEW kind, Take(kind), net' = net
    PROVE  Moved([k \in DOMAIN Coming' |-> k + 1])
BY TakeComing DEF Moved

LEMMA ThreadOnce ==
    ASSUME TypeInv, OnceInv,
           \/ OnCreateServerResponse \/ MakeConnection \/ ReportConnection
           \/ RegisterWithMaster \/ ClientConnected \/ AllHanded
           \/ OnWorkerRegistrationRespMsg \/ OnSceneProduceRequestMsg
           \/ OnSceneProduceCleanupMsg
    PROVE  OnceInv'
<1> USE DEF mapVars, pipeVars, producerVars, masterVars, endVars, Proceed
<1>1. /\ UNCHANGED <<asked, link, pipeQ, at, answers, parked, shipped, waiters, listening>>
      /\ net' = net /\ pc \notin {"dispatch", "enlist"} /\ pc' \notin {"dispatch", "enlist"}
  BY DEF OnCreateServerResponse, MakeConnection, ReportConnection, RegisterWithMaster,
     ClientConnected, AllHanded, OnWorkerRegistrationRespMsg, OnSceneProduceRequestMsg,
     OnSceneProduceCleanupMsg, Take
<1>2. ASSUME NEW f, Moved(f)
      PROVE  OnceInv'
  BY <1>1, <1>2, QuietOnce
<1>3. CASE MakeConnection \/ AllHanded
  <2>1. Coming' = Coming
    BY <1>3 DEF MakeConnection, AllHanded, Coming
  <2>2. Moved([k \in DOMAIN Coming |-> k])
    BY <2>1 DEF Moved
  <2> QED
    BY <1>2, <2>2
<1>4. CASE ReportConnection
  <2> DEFINE f == [k \in DOMAIN Coming' |-> IF k <= Len(inbox) THEN k ELSE k - 1]
  <2>1. job.kind = "connected"
    <3>1. job = MasterIsUp \/ job \in Connections
      BY <1>4 DEF ReportConnection, TypeInv, Starting, Running, JobTyped
    <3> QED
      BY <3>1, Kinds DEF MasterIsUp
  <2>2. Moved(f)
    <3>1. ASSUME NEW k \in DOMAIN Coming', Coming'[k].kind = "pixels"
          PROVE  /\ f[k] \in DOMAIN Coming /\ Coming[f[k]] = Coming'[k]
                 /\ k \in Nat /\ k # Len(inbox) + 1 /\ Len(inbox) \in Nat
      <4>1. /\ k \in Nat /\ Len(inbox) \in Nat /\ Coming'[Len(inbox) + 1] = job
            /\ \/ k <= Len(inbox) /\ k \in DOMAIN Coming /\ Coming'[k] = Coming[k]
               \/ k = Len(inbox) + 1
               \/ k > Len(inbox) + 1 /\ k - 1 \in DOMAIN Coming /\ Coming'[k] = Coming[k - 1]
        BY <1>4, ReportComing
      <4>2. k # Len(inbox) + 1 /\ f[k] = IF k <= Len(inbox) THEN k ELSE k - 1
        BY <2>1, <3>1, <4>1
      <4>3. CASE k <= Len(inbox)
        BY <4>1, <4>2, <4>3
      <4>4. CASE ~(k <= Len(inbox))
        BY <4>1, <4>2, <4>4
      <4> QED
        BY <4>3, <4>4
    <3>2. ASSUME NEW k \in DOMAIN Coming', NEW l \in DOMAIN Coming', k # l,
                 Coming'[k].kind = "pixels", Coming'[l].kind = "pixels"
          PROVE  f[k] # f[l]
      BY <3>1, <3>2
    <3> HIDE DEF f
    <3> QED
      BY <3>1, <3>2 DEF Moved
  <2> QED
    BY <1>2, <2>2
<1>5. CASE OnCreateServerResponse \/ RegisterWithMaster \/ ClientConnected
           \/ OnWorkerRegistrationRespMsg \/ OnSceneProduceRequestMsg
           \/ OnSceneProduceCleanupMsg
  <2>1. \E kind \in {"server", "connected", "registered", "scene", "cleanup"} : Take(kind)
    BY <1>5 DEF OnCreateServerResponse, RegisterWithMaster, ClientConnected,
       OnWorkerRegistrationRespMsg, OnSceneProduceRequestMsg, OnSceneProduceCleanupMsg
  <2> QED
    BY <1>1, <1>2, <2>1, TakeMoves
<1> QED
  BY <1>3, <1>4, <1>5

LEMMA PixelsOnce ==
    ASSUME TypeInv, OnceInv, OnPixelProduceRequestMsg
    PROVE  OnceInv' /\ Head(inbox).rs # <<>>
<1>1. /\ Take("pixels") /\ pc' = "dispatch" /\ job'.rs = Head(inbox).rs
      /\ UNCHANGED <<net, waiters, pipeQ, at, link, parked, shipped, answers, asked, listening>>
  BY DEF OnPixelProduceRequestMsg, Proceed, pipeVars, producerVars, masterVars, endVars
<1>2. /\ 1 \in DOMAIN Coming /\ Coming[1] = Head(inbox) /\ Coming[1].kind = "pixels"
      /\ \A i \in DOMAIN Coming' : /\ i \in Nat \ {0} /\ i + 1 \in DOMAIN Coming
                                   /\ Coming'[i] = Coming[i + 1]
  BY <1>1, TakeComing
<1>3. Fresh(Head(inbox))
  BY <1>2 DEF OnceInv, MsgInv
<1>4. Head(inbox).rs # <<>> /\ Head(inbox).rs \in Seq(Nat)
  <2>1. Take("pixels") /\ "pixels" # "server" /\ "pixels" # "connected"
    BY <1>1
  <2>2. Head(inbox) \in MasterMsgs /\ Head(inbox).kind = "pixels"
    BY <2>1, TakeFacts DEF Take
  <2> QED
    BY <1>3, <2>2, Kinds DEF Fresh
<1>5. MsgInv'
  <2>1. Moved([k \in DOMAIN Coming' |-> k + 1])
    BY <1>1, TakeMoves
  <2> QED
    BY <1>1, <2>1, MovedMsgs DEF OnceInv, AskedGrows
<1>6. DispatchInv'
  <2>1. 1 \in DOMAIN job'.rs
    BY <1>1, <1>4, TailFacts
  <2>2. ASSUME NEW i \in DOMAIN job'.rs
        PROVE  /\ job'.rs[i] \in DOMAIN asked /\ job'.rs[i] \notin DOMAIN link
               /\ asked[job'.rs[i]].order = asked[job'.rs[1]].order
    BY <1>1, <1>3, <2>1 DEF Fresh
  <2>3. ASSUME NEW k \in DOMAIN Coming', Coming'[k].kind = "pixels"
        PROVE  Apart(Coming'[k], job')
    <3>1. k + 1 \in DOMAIN Coming /\ k + 1 # 1 /\ Coming[k + 1] = Coming'[k]
      BY <1>2
    <3>2. Apart(Coming[k + 1], Coming[1])
      BY <1>2, <2>3, <3>1 DEF OnceInv, MsgInv
    <3> QED
      BY <1>1, <1>2, <3>1, <3>2 DEF Apart
  <2>4. IsInjective(job'.rs)
    BY <1>1, <1>3 DEF Fresh
  <2> QED
    BY <1>1, <2>2, <2>3, <2>4 DEF DispatchInv, Apart
<1>7. PipeInv' /\ LinkInv' /\ AnsweredOnce'
  BY <1>1 DEF OnceInv, PipeInv, PipeOrder, Producing, LinkInv, AnsweredOnce
<1>8. WaitInv'
  <2>1. pc # "enlist" /\ pc' # "enlist"
    BY <1>1 DEF Take
  <2> QED
    BY <1>1, <2>1 DEF OnceInv, WaitInv, Waits, BeingEnlisted, Id
<1> QED
  BY <1>4, <1>5, <1>6, <1>7, <1>8 DEF OnceInv

\* The rest of the requests of the message being handed out.
LEMMA NextOnce ==
    ASSUME TypeInv, pc \in {"dispatch", "enlist"}, DispatchInv, NextRequest,
           Coming' = Coming, asked' = asked,
           DOMAIN link' \subseteq DOMAIN link \cup {job.rs[1]}
    PROVE  DispatchInv' /\ pc' # "enlist"
<1>1. /\ job.rs \in Seq(Nat) /\ job.rs # <<>> /\ 1 \in DOMAIN job.rs
      /\ job \in [kind : {"dispatch"}, rs : Seq(Nat), to : Clients \cup {None}]
  BY NextTypes DEF Running, JobTyped
<1>2. CASE Len(job.rs) = 1
  BY <1>2 DEF NextRequest, Proceed, DispatchInv
<1>3. CASE Len(job.rs) # 1
  <2>1. pc' = "dispatch" /\ job' = [job EXCEPT !.rs = Tail(job.rs)] /\ job'.rs = Tail(job.rs)
    BY <1>1, <1>3 DEF NextRequest, Proceed
  <2>2. \A i \in DOMAIN job'.rs : /\ i \in Nat \ {0} /\ i + 1 \in DOMAIN job.rs
                                  /\ job'.rs[i] = job.rs[i + 1]
    BY <1>1, <2>1, TailFacts
  <2>3. 1 \in DOMAIN job'.rs
    <3>1. Tail(job.rs) \in Seq(Nat) /\ Len(Tail(job.rs)) = Len(job.rs) - 1
          /\ Len(job.rs) \in Nat \ {0}
      BY <1>1, TailFacts
    <3>2. \A n \in Nat \ {0} : n # 1 => 1 \in 1 .. n - 1
      OBVIOUS
    <3>3. 1 \in 1 .. Len(Tail(job.rs))
      BY <1>3, <3>1, <3>2, Zenon
    <3> QED
      BY <2>1, <3>1, <3>3
  <2>4. ASSUME NEW i \in DOMAIN job'.rs
        PROVE  /\ job'.rs[i] \in DOMAIN asked /\ job'.rs[i] \notin DOMAIN link'
               /\ asked[job'.rs[i]].order = asked[job'.rs[1]].order
    <3>1. i + 1 \in DOMAIN job.rs /\ i + 1 # 1 /\ job'.rs[i] = job.rs[i + 1]
      BY <2>2
    <3>2. job.rs[i + 1] \in DOMAIN asked /\ job.rs[i + 1] \notin DOMAIN link
          /\ job.rs[i + 1] # job.rs[1]
      BY <1>1, <3>1 DEF DispatchInv, IsInjective
    <3>3. job'.rs[1] = job.rs[1 + 1] /\ 1 + 1 \in DOMAIN job.rs
      BY <2>2, <2>3
    <3>4. asked[job.rs[1 + 1]].order = asked[job.rs[1]].order
          /\ asked[job.rs[i + 1]].order = asked[job.rs[1]].order
      BY <3>1, <3>3 DEF DispatchInv
    <3> QED
      BY <3>1, <3>2, <3>3, <3>4
  <2>5. IsInjective(job'.rs)
    <3>1. ASSUME NEW i \in DOMAIN job'.rs, NEW k \in DOMAIN job'.rs, job'.rs[i] = job'.rs[k]
          PROVE  i = k
      <4>1. i + 1 = k + 1 /\ i \in Nat /\ k \in Nat
        BY <2>2, <3>1 DEF DispatchInv, IsInjective
      <4> QED
        BY <4>1
    <3> QED
      BY <3>1 DEF IsInjective
  <2>6. ASSUME NEW k \in DOMAIN Coming, Coming[k].kind = "pixels"
        PROVE  Apart(Coming[k], job')
    <3>1. Range(job'.rs) \subseteq Range(job.rs)
      BY <2>2 DEF Range
    <3>2. Apart(Coming[k], job)
      BY <2>6 DEF DispatchInv
    <3> QED
      BY <3>1, <3>2 DEF Apart
  <2> QED
    BY <2>1, <2>4, <2>5, <2>6 DEF DispatchInv, Apart
<1> QED
  BY <1>2, <1>3

LEMMA EnlistOnce ==
    ASSUME TypeInv, OnceInv, Enlist
    PROVE  OnceInv' /\ job.rs[1] \in DOMAIN asked
<1> DEFINE r == job.rs[1]
<1>1. /\ pc = "enlist" /\ Head(job.rs) = r /\ 1 \in DOMAIN job.rs
      /\ waiters' = Append(waiters, <<Id(r), r>>) /\ NextRequest /\ Coming' = Coming
      /\ UNCHANGED <<pipeQ, at, link, parked, shipped, answers, asked, listening>>
  BY NextTypes DEF Enlist, pipeVars, producerVars, masterVars, endVars, Coming
<1>2. r \in DOMAIN asked /\ r \in DOMAIN link /\ link[r] = None
  BY <1>1 DEF OnceInv, DispatchInv, WaitInv
<1>3. DispatchInv' /\ pc' # "enlist"
  BY <1>1, NextOnce DEF OnceInv
<1>4. MsgInv' /\ PipeInv' /\ LinkInv' /\ AnsweredOnce'
  <2>1. MsgInv'
    BY <1>1 DEF OnceInv, MsgInv, Fresh, Apart
  <2>2. PipeInv'
    BY <1>1 DEF OnceInv, PipeInv, PipeOrder, Producing
  <2>3. LinkInv' /\ AnsweredOnce'
    BY <1>1 DEF OnceInv, LinkInv, AnsweredOnce
  <2> QED
    BY <2>1, <2>2, <2>3
<1>5. WaitInv'
  <2>1. waiters \in Seq(Ids \X Nat) /\ <<Id(r), r>> \in Ids \X Nat
    BY <1>2, AskedFacts DEF TypeInv, RequestsTyped
  <2> HIDE DEF r
  <2>2. /\ \A i \in DOMAIN waiters : i \in DOMAIN waiters' /\ waiters'[i] = waiters[i]
        /\ Len(waiters) + 1 \in DOMAIN waiters' /\ waiters'[Len(waiters) + 1] = <<Id(r), r>>
        /\ \A i \in DOMAIN waiters' : i \in DOMAIN waiters \/ i = Len(waiters) + 1
    BY <1>1, <2>1, AppendFacts
  <2>3. \A i \in DOMAIN waiters : waiters[i][2] # r
    BY <1>1 DEF OnceInv, WaitInv, BeingEnlisted, r
  <2>4. \A x : ~BeingEnlisted(x)' /\ (BeingEnlisted(x) <=> x = r)
    BY <1>1, <1>3 DEF BeingEnlisted, r
  <2>5. ASSUME NEW i \in DOMAIN waiters'
        PROVE  /\ waiters'[i][2] \in DOMAIN link /\ waiters'[i][1] = Id(waiters'[i][2])
               /\ link[waiters'[i][2]] = None
    <3>1. CASE i \in DOMAIN waiters
      BY <2>2, <3>1 DEF OnceInv, WaitInv
    <3>2. CASE i = Len(waiters) + 1
      BY <1>2, <2>2, <3>2
    <3> QED
      BY <2>2, <3>1, <3>2
  <2>6. ASSUME NEW i \in DOMAIN waiters', NEW k \in DOMAIN waiters',
               waiters'[i][2] = waiters'[k][2]
        PROVE  i = k
    <3>1. CASE i \in DOMAIN waiters /\ k \in DOMAIN waiters
      BY <2>2, <2>6, <3>1 DEF OnceInv, WaitInv
    <3>2. CASE i \notin DOMAIN waiters \/ k \notin DOMAIN waiters
      BY <2>2, <2>3, <2>6, <3>2
    <3> QED
      BY <3>1, <3>2
  <2>7. ASSUME NEW x \in DOMAIN link, link[x] = None
        PROVE  \E i \in DOMAIN waiters' : waiters'[i][2] = x
    <3>1. CASE x = r
      BY <2>2, <3>1
    <3>2. CASE x # r
      BY <2>2, <2>4, <2>7, <3>2 DEF OnceInv, WaitInv, Waits
    <3> QED
      BY <3>1, <3>2
  <2> QED
    BY <1>1, <1>3, <2>4, <2>5, <2>6, <2>7 DEF WaitInv, Waits, Id
<1> QED
  BY <1>2, <1>3, <1>4, <1>5 DEF OnceInv

StillProducing(r, p) ==
    /\ r \in DOMAIN link' /\ asked'[r].pipe = p
    /\ answers'[r] = 0 /\ r \notin parked'

\* A pipeline that does nothing, while its requests are not answered.
LEMMA PipeRests ==
    ASSUME NEW p, PipeOrder(p), pipeQ'[p] = pipeQ[p], at'[p] = at[p], AskedGrows,
           DOMAIN link \subseteq DOMAIN asked,
           \A r : Producing(r, p) => StillProducing(r, p)
    PROVE  PipeOrder(p)'
<1>1. \A i \in DOMAIN pipeQ[p] : StillProducing(pipeQ[p][i], p) /\ pipeQ[p][i] # at[p]
  BY DEF PipeOrder
<1>2. at[p] # 0 => StillProducing(at[p], p) /\ asked'[at[p]].work
  BY DEF PipeOrder, Producing, AskedGrows
<1> QED
  BY <1>1, <1>2 DEF PipeOrder, Producing, StillProducing

LEMMA DispatchOnce ==
    ASSUME TypeInv, OnceInv, Dispatch
    PROVE  OnceInv'
<1> DEFINE r == job.rs[1]
           p == asked[r].pipe
<1>1. /\ pc = "dispatch" /\ Head(job.rs) = r /\ 1 \in DOMAIN job.rs
      /\ IF MustWait THEN pc' = "enlist" /\ job' = job ELSE NextRequest
      /\ pipeQ' = [pipeQ EXCEPT ![p] = Append(pipeQ[p], r)]
      /\ link' = Inserted(link, r, job.to) /\ answers' = Inserted(answers, r, 0)
      /\ Coming' = Coming
      /\ UNCHANGED <<waiters, at, parked, shipped, asked, listening>>
  BY NextTypes DEF Dispatch, masterVars, endVars, Coming, Proceed
<1>2. /\ r \in DOMAIN asked /\ r \notin DOMAIN link /\ p \in Pipelines /\ r \in Nat \ {0}
  BY <1>1, AskedFacts DEF OnceInv, DispatchInv
<1>3. /\ DOMAIN link' = DOMAIN link \cup {r} /\ link'[r] = job.to /\ answers'[r] = 0
      /\ DOMAIN answers = DOMAIN link /\ DOMAIN answers' = DOMAIN link \cup {r}
      /\ \A x \in DOMAIN link : link'[x] = link[x] /\ answers'[x] = answers[x]
  <2>1. DOMAIN answers = DOMAIN link
    BY DEF TypeInv, RequestsTyped
  <2> HIDE DEF r
  <2>2. /\ DOMAIN link' = DOMAIN link \cup {r} /\ link'[r] = job.to
        /\ \A x \in DOMAIN link : link'[x] = link[x]
    BY <1>1, <1>2 DEF Inserted
  <2>3. /\ DOMAIN answers' = DOMAIN answers \cup {r} /\ answers'[r] = 0
        /\ \A x \in DOMAIN answers : answers'[x] = answers[x]
    BY <1>1, <1>2, <2>1 DEF Inserted
  <2> QED
    BY <2>1, <2>2, <2>3
<1>4. MsgInv'
  <2>1. ASSUME NEW k \in DOMAIN Coming, Coming[k].kind = "pixels"
        PROVE  Fresh(Coming[k])'
    <3>1. Fresh(Coming[k]) /\ Apart(Coming[k], job)
      BY <1>1, <2>1 DEF OnceInv, MsgInv, DispatchInv
    <3>2. \A n \in DOMAIN Coming[k].rs : Coming[k].rs[n] # r
      BY <1>1, <3>1 DEF Apart, Range
    <3> QED
      BY <1>1, <1>3, <3>1, <3>2 DEF Fresh
  <2> QED
    BY <1>1, <2>1 DEF OnceInv, MsgInv, Apart
<1>5. DispatchInv'
  <2>1. CASE MustWait
    <3>1. pc' = "enlist" /\ job' = job
      BY <1>1, <2>1
    <3>2. ASSUME NEW i \in DOMAIN job.rs
          PROVE  job.rs[i] \in DOMAIN link' <=> i = 1
      BY <1>1, <1>3 DEF OnceInv, DispatchInv, IsInjective
    <3> QED
      BY <1>1, <3>1, <3>2 DEF OnceInv, DispatchInv, Apart
  <2>2. CASE ~MustWait
    BY <1>1, <1>3, <2>2, NextOnce DEF OnceInv
  <2> QED
    BY <2>1, <2>2
<1> HIDE DEF r, p
<1>6. PipeInv'
  <2>1. ASSUME NEW q \in Pipelines, NEW x, Producing(x, q)
        PROVE  StillProducing(x, q) /\ x # r
    BY <1>1, <1>2, <1>3, <2>1 DEF Producing, StillProducing
  <2>2. StillProducing(r, p)
    BY <1>1, <1>2, <1>3 DEF StillProducing, OnceInv, LinkInv, p
  <2>3. ASSUME NEW q \in Pipelines
        PROVE  PipeOrder(q)'
    <3>1. PipeOrder(q) /\ pipeQ[q] \in Seq(Nat) /\ pipeQ \in [Pipelines -> Seq(Nat)]
      BY DEF OnceInv, PipeInv, TypeInv, RequestsTyped
    <3>2. \A i \in DOMAIN pipeQ[q] : StillProducing(pipeQ[q][i], q) /\ pipeQ[q][i] # r
                                     /\ pipeQ[q][i] # at[q]
      BY <2>1, <3>1 DEF PipeOrder
    <3>3. at[q] # r /\ (at[q] # 0 => StillProducing(at[q], q) /\ asked[at[q]].work)
      BY <1>2, <2>1, <3>1 DEF PipeOrder
    <3>4. CASE q # p
      <4>1. pipeQ'[q] = pipeQ[q]
        BY <1>1, <3>1, <3>4
      <4> QED
        BY <1>1, <2>1, <3>1, <4>1, PipeRests DEF AskedGrows, OnceInv, LinkInv
    <3>5. CASE q = p
      <4>1. pipeQ'[q] = Append(pipeQ[q], r)
        BY <1>1, <3>1, <3>5
      <4>2. /\ \A i \in DOMAIN pipeQ[q] : pipeQ'[q][i] = pipeQ[q][i]
            /\ pipeQ'[q][Len(pipeQ[q]) + 1] = r
            /\ \A i \in DOMAIN pipeQ'[q] : i \in DOMAIN pipeQ[q] \/ i = Len(pipeQ[q]) + 1
        BY <1>2, <3>1, <4>1, AppendFacts
      <4>3. ASSUME NEW i \in DOMAIN pipeQ'[q]
            PROVE  StillProducing(pipeQ'[q][i], q) /\ pipeQ'[q][i] # at[q]
        <5>1. CASE i \in DOMAIN pipeQ[q]
          BY <3>2, <4>2, <5>1
        <5>2. CASE i = Len(pipeQ[q]) + 1
          BY <2>2, <3>3, <3>5, <4>2, <5>2
        <5> QED
          BY <4>2, <5>1, <5>2
      <4>4. IsInjective(pipeQ'[q])
        BY <3>1, <3>2, <4>2 DEF PipeOrder, IsInjective
      <4> QED
        BY <1>1, <3>3, <4>3, <4>4 DEF PipeOrder, Producing, StillProducing
    <3> QED
      BY <3>4, <3>5
  <2> QED
    BY <2>3 DEF PipeInv
<1>7. LinkInv' /\ AnsweredOnce'
  <2>1. LinkInv'
    BY <1>1, <1>2, <1>3 DEF OnceInv, LinkInv
  <2>2. AnsweredOnce'
    BY <1>1, <1>2, <1>3 DEF OnceInv, AnsweredOnce
  <2> QED
    BY <2>1, <2>2
<1>8. WaitInv'
  <2>1. MustWait <=> job.to = None
    BY DEF MustWait
  <2>2. pc' = "enlist" <=> MustWait
    BY <1>1, NextOnce, <1>3 DEF OnceInv, NextRequest, Proceed
  <2>3. \A x : BeingEnlisted(x)' <=> (MustWait /\ x = r)
    BY <1>1, <2>2 DEF BeingEnlisted, r
  <2>4. \A x : ~BeingEnlisted(x)
    BY <1>1 DEF BeingEnlisted
  <2>5. \A i \in DOMAIN waiters : waiters[i][2] \in DOMAIN link /\ waiters[i][2] # r
    BY <1>2 DEF OnceInv, WaitInv
  <2>6. ASSUME NEW x \in DOMAIN link', link'[x] = None
        PROVE  Waits(x) \/ BeingEnlisted(x)'
    BY <1>2, <1>3, <2>1, <2>3, <2>4, <2>6 DEF OnceInv, WaitInv
  <2>7. pc' = "enlist" => job'.to = None /\ link'[job'.rs[1]] = None
    BY <1>1, <1>3, <2>1, <2>2 DEF r
  <2>8. ASSUME NEW i \in DOMAIN waiters
        PROVE  /\ waiters[i][2] \in DOMAIN link' /\ waiters[i][1] = Id(waiters[i][2])'
               /\ link'[waiters[i][2]] = None /\ ~BeingEnlisted(waiters[i][2])'
    BY <1>1, <1>3, <2>3, <2>5 DEF OnceInv, WaitInv, Id
  <2> QED
    BY <1>1, <2>6, <2>7, <2>8 DEF OnceInv, WaitInv, Waits
<1> QED
  BY <1>4, <1>5, <1>6, <1>7, <1>8 DEF OnceInv

LEMMA CompleteFacts ==
    ASSUME TypeInv, NEW r \in DOMAIN link, NEW to, DoCommandComplete(r, to)
    PROVE  /\ DOMAIN answers = DOMAIN link /\ DOMAIN answers' = DOMAIN link
           /\ answers'[r] = answers[r] + 1
           /\ \A x \in DOMAIN link : x # r => answers'[x] = answers[x]
           /\ shipped \subseteq shipped' /\ shipped' \subseteq shipped \cup {<<to, r>>}
           /\ <<to, r>> \in shipped' \/ to \notin listening
<1>1. answers \in [DOMAIN link -> Nat] /\ answers' = [answers EXCEPT ![r] = answers[r] + 1]
  BY DEF TypeInv, RequestsTyped, DoCommandComplete
<1>2. /\ DOMAIN answers = DOMAIN link /\ DOMAIN answers' = DOMAIN link
      /\ answers'[r] = answers[r] + 1
      /\ \A x \in DOMAIN link : x # r => answers'[x] = answers[x]
  BY <1>1
<1>3. /\ shipped \subseteq shipped' /\ shipped' \subseteq shipped \cup {<<to, r>>}
      /\ <<to, r>> \in shipped' \/ to \notin listening
  BY DEF DoCommandComplete
<1> QED
  BY <1>2, <1>3

\* The one who waited longest is served, the others still wait.
LEMMA ServedFacts ==
    ASSUME TypeInv, NEW i \in DOMAIN waiters, waiters' = RemoveAt(waiters, i)
    PROVE  /\ \A k \in DOMAIN waiters' : \E l \in DOMAIN waiters :
                  l # i /\ waiters'[k] = waiters[l] /\ l = IF k < i THEN k ELSE k + 1
           /\ \A l \in DOMAIN waiters \ {i} : \E k \in DOMAIN waiters' : waiters'[k] = waiters[l]
           /\ DOMAIN waiters' \subseteq Nat /\ i \in Nat
<1>1. waiters \in Seq(Ids \X Nat)
  BY DEF TypeInv, RequestsTyped
<1>2. /\ waiters' \in Seq(Ids \X Nat) /\ Len(waiters') = Len(waiters) - 1
      /\ \A k \in 1 .. Len(waiters) - 1 :
             waiters'[k] = IF k < i THEN waiters[k] ELSE waiters[k + 1]
  BY <1>1, RemoveAtFacts
<1>3. /\ DOMAIN waiters = 1 .. Len(waiters) /\ DOMAIN waiters' = 1 .. Len(waiters) - 1
      /\ Len(waiters) \in Nat
  BY <1>1, <1>2
<1>4. ASSUME NEW k \in DOMAIN waiters'
      PROVE  \E l \in DOMAIN waiters :
                 l # i /\ waiters'[k] = waiters[l] /\ l = IF k < i THEN k ELSE k + 1
  <2>1. CASE k < i
    <3>1. k \in DOMAIN waiters /\ k # i /\ k \in 1 .. Len(waiters) - 1
      BY <1>3, <2>1
    <3> QED
      BY <1>2, <2>1, <3>1
  <2>2. CASE ~(k < i)
    <3>1. k + 1 \in DOMAIN waiters /\ k + 1 # i
      BY <1>3, <2>2
    <3> QED
      BY <1>2, <1>3, <2>2, <3>1
  <2> QED
    BY <2>1, <2>2
<1>5. ASSUME NEW l \in DOMAIN waiters, l # i
      PROVE  \E k \in DOMAIN waiters' : waiters'[k] = waiters[l]
  <2>1. CASE l < i
    <3>1. l \in DOMAIN waiters'
      BY <1>3, <2>1
    <3> QED
      BY <1>2, <1>3, <2>1, <3>1
  <2>2. CASE l > i
    <3>1. l - 1 \in DOMAIN waiters' /\ ~(l - 1 < i) /\ (l - 1) + 1 = l
      BY <1>3, <2>2
    <3> QED
      BY <1>2, <1>3, <3>1
  <2> QED
    BY <1>3, <1>5, <2>1, <2>2
<1> QED
  BY <1>3, <1>4, <1>5

LEMMA HandOnce ==
    ASSUME TypeInv, OnceInv, HandConnection
    PROVE  OnceInv'
<1>1. /\ pc = "hand" /\ Coming' = Coming
      /\ UNCHANGED <<pc, job, pipeQ, at, parked, asked, listening>>
  BY DEF HandConnection, threadVars, pipeVars, masterVars, Coming
<1>2. PICK i \in WaitersOfScene :
          /\ waiters' = RemoveAt(waiters, i)
          /\ link' = [link EXCEPT ![waiters[i][2]] = job.to]
          /\ SendParked(waiters[i][2])
  BY DEF HandConnection
<1>3. PICK r : r = waiters[i][2]
  OBVIOUS
<1>4. i \in DOMAIN waiters /\ r \in DOMAIN link /\ link[r] = None
  BY <1>2, <1>3 DEF WaitersOfScene, OnceInv, WaitInv
<1>5. job.to \in Clients /\ job.to # None
  <2>1. Running
    BY <1>1 DEF TypeInv, Starting
  <2> QED
    BY <1>1, <2>1, WorkerAssumption DEF Running, JobTyped
<1>6. /\ DOMAIN link' = DOMAIN link /\ link'[r] = job.to
      /\ \A x \in DOMAIN link : x # r => link'[x] = link[x]
  BY <1>2, <1>3, <1>4 DEF TypeInv, RequestsTyped
<1>7. /\ DOMAIN answers = DOMAIN link /\ DOMAIN answers' = DOMAIN link
      /\ \A x \in DOMAIN link : x # r => answers'[x] = answers[x]
      /\ shipped \subseteq shipped' /\ shipped' \subseteq shipped \cup {<<job.to, r>>}
      /\ IF r \in parked
         THEN /\ answers'[r] = answers[r] + 1
              /\ <<job.to, r>> \in shipped' \/ job.to \notin listening
         ELSE answers'[r] = answers[r]
  <2>0. DOMAIN answers = DOMAIN link
    BY DEF TypeInv, RequestsTyped
  <2>1. CASE r \in parked
    BY <1>2, <1>3, <1>4, <2>1, CompleteFacts DEF SendParked
  <2>2. CASE r \notin parked
    BY <1>2, <1>3, <2>0, <2>2 DEF SendParked
  <2> QED
    BY <2>1, <2>2
<1>8. MsgInv' /\ DispatchInv'
  BY <1>1, <1>6 DEF OnceInv, MsgInv, Fresh, Apart, DispatchInv
<1>9. PipeInv'
  <2>1. ASSUME NEW p \in Pipelines, NEW x, Producing(x, p)
        PROVE  StillProducing(x, p)
    BY <1>1, <1>6, <1>7, <2>1 DEF Producing, StillProducing
  <2> QED
    BY <1>1, <2>1, PipeRests DEF OnceInv, PipeInv, LinkInv, AskedGrows
<1>10. LinkInv'
  <2>1. \A x \in DOMAIN link' : link'[x] = None /\ asked'[x].work => answers'[x] = 0
    BY <1>1, <1>5, <1>6, <1>7 DEF OnceInv, LinkInv
  <2>2. shipped' \subseteq Clients \X DOMAIN link'
    BY <1>4, <1>5, <1>6, <1>7 DEF OnceInv, LinkInv
  <2> QED
    BY <1>1, <1>6, <2>1, <2>2 DEF OnceInv, LinkInv
<1>11. AnsweredOnce'
  <2>1. ASSUME NEW x \in DOMAIN answers'
        PROVE  /\ answers'[x] <= 1
               /\ answers'[x] = 1 /\ asked[x].work =>
                      <<link'[x], x>> \in shipped' \/ link'[x] \notin listening
    <3>1. CASE x = r
      <4>1. r \in parked => answers[r] = 0
        BY <1>4 DEF OnceInv, LinkInv
      <4>2. answers[r] <= 1 /\ (asked[r].work => answers[r] = 0)
        BY <1>4, <1>7 DEF OnceInv, LinkInv, AnsweredOnce
      <4> QED
        BY <1>6, <1>7, <3>1, <4>1, <4>2
    <3>2. CASE x # r
      BY <1>6, <1>7, <2>1, <3>2 DEF OnceInv, AnsweredOnce
    <3> QED
      BY <3>1, <3>2
  <2> QED
    BY <1>1, <2>1 DEF AnsweredOnce
<1>12. WaitInv'
  <2>1. \A x : ~BeingEnlisted(x) /\ ~BeingEnlisted(x)'
    BY <1>1 DEF BeingEnlisted
  <2>2. /\ \A k \in DOMAIN waiters' : \E l \in DOMAIN waiters :
                  l # i /\ waiters'[k] = waiters[l] /\ l = IF k < i THEN k ELSE k + 1
        /\ \A l \in DOMAIN waiters \ {i} : \E k \in DOMAIN waiters' : waiters'[k] = waiters[l]
        /\ DOMAIN waiters' \subseteq Nat /\ i \in Nat
    BY <1>2, <1>4, ServedFacts
  <2>3. ASSUME NEW k \in DOMAIN waiters'
        PROVE  /\ waiters'[k][2] \in DOMAIN link /\ waiters'[k][1] = Id(waiters'[k][2])
               /\ link'[waiters'[k][2]] = None
    <3>1. PICK l \in DOMAIN waiters : l # i /\ waiters'[k] = waiters[l]
      BY <2>2
    <3>2. waiters[l][2] # r
      BY <1>3, <1>4, <3>1 DEF OnceInv, WaitInv
    <3> QED
      BY <1>6, <3>1, <3>2 DEF OnceInv, WaitInv
  <2>4. ASSUME NEW k \in DOMAIN waiters', NEW m \in DOMAIN waiters',
               waiters'[k][2] = waiters'[m][2]
        PROVE  k = m
    <3>1. PICK l \in DOMAIN waiters :
              waiters'[k] = waiters[l] /\ l = IF k < i THEN k ELSE k + 1
      BY <2>2
    <3>2. PICK n \in DOMAIN waiters :
              waiters'[m] = waiters[n] /\ n = IF m < i THEN m ELSE m + 1
      BY <2>2
    <3>3. l = n
      BY <2>4, <3>1, <3>2 DEF OnceInv, WaitInv
    <3>4. k \in Nat /\ m \in Nat /\ i \in Nat
      BY <2>2
    <3> QED
      BY <3>1, <3>2, <3>3, <3>4
  <2>5. ASSUME NEW x \in DOMAIN link, link'[x] = None
        PROVE  \E k \in DOMAIN waiters' : waiters'[k][2] = x
    <3>1. x # r /\ link[x] = None
      BY <1>5, <1>6, <2>5
    <3>2. PICK l \in DOMAIN waiters : waiters[l][2] = x
      BY <2>1, <3>1 DEF OnceInv, WaitInv, Waits
    <3>3. l # i
      BY <1>3, <3>1, <3>2
    <3> QED
      BY <2>2, <3>2, <3>3
  <2> QED
    BY <1>1, <1>6, <2>1, <2>3, <2>4, <2>5 DEF WaitInv, Waits, Id
<1> QED
  BY <1>8, <1>9, <1>10, <1>11, <1>12 DEF OnceInv

LEMMA PipelineOnce ==
    ASSUME TypeInv, OnceInv, NEW p \in Pipelines, Pipeline(p)
    PROVE  OnceInv'
<1>1. /\ UNCHANGED <<inbox, net, pc, job, waiters, link, asked, listening>>
      /\ Coming' = Coming
  BY DEF Pipeline, ProduceNothing, ProducePixels, CheckConnectionAndSendResponse,
     threadVars, mapVars, producerVars, masterVars, endVars, Coming
<1>2. MsgInv' /\ DispatchInv' /\ WaitInv'
  <2>1. MsgInv'
    BY <1>1 DEF OnceInv, MsgInv, Fresh, Apart
  <2>2. DispatchInv'
    BY <1>1 DEF OnceInv, DispatchInv, Apart
  <2>3. WaitInv'
    BY <1>1 DEF OnceInv, WaitInv, Waits, BeingEnlisted, Id
  <2> QED
    BY <2>1, <2>2, <2>3
<1>3. /\ PipeOrder(p) /\ pipeQ \in [Pipelines -> Seq(Nat)] /\ at \in [Pipelines -> Nat]
      /\ pipeQ[p] \in Seq(Nat) /\ DOMAIN answers = DOMAIN link
      /\ DOMAIN link \subseteq DOMAIN asked /\ AskedGrows
  BY <1>1 DEF OnceInv, PipeInv, LinkInv, TypeInv, RequestsTyped, AskedGrows
<1>4. pipeQ[p] # <<>> => /\ Head(pipeQ[p]) = pipeQ[p][1] /\ 1 \in DOMAIN pipeQ[p]
                         /\ \A i \in DOMAIN Tail(pipeQ[p]) :
                                /\ i \in Nat \ {0} /\ i + 1 \in DOMAIN pipeQ[p]
                                /\ Tail(pipeQ[p])[i] = pipeQ[p][i + 1]
  BY <1>3, TailFacts
\* The requests of the pipeline that are left, and those of the others.
<1>5. ASSUME NEW r, Producing(r, p), UNCHANGED link,
             \A x \in DOMAIN link : x # r => answers'[x] = answers[x],
             parked' \subseteq parked \cup {r},
             pipeQ' = [pipeQ EXCEPT ![p] = pipeQ'[p]], at' = [at EXCEPT ![p] = at'[p]],
             PipeOrder(p)'
      PROVE  PipeInv'
  <2>1. ASSUME NEW q \in Pipelines, q # p
        PROVE  PipeOrder(q)'
    <3>1. ASSUME NEW x, Producing(x, q)
          PROVE  StillProducing(x, q)
      BY <1>1, <1>5, <2>1, <3>1 DEF Producing, StillProducing
    <3>2. pipeQ'[q] = pipeQ[q] /\ at'[q] = at[q]
      BY <1>3, <1>5, <2>1
    <3> QED
      BY <1>3, <3>1, <3>2, PipeRests DEF OnceInv, PipeInv
  <2> QED
    BY <1>5, <2>1 DEF PipeInv
<1>6. ASSUME NEW q, pipeQ[p] # <<>>, pipeQ' = [pipeQ EXCEPT ![p] = Tail(pipeQ[p])],
             q = Head(pipeQ[p]), at[p] = 0, UNCHANGED parked,
             \A x \in DOMAIN link : x # q => answers'[x] = answers[x]
      PROVE  /\ Producing(q, p) /\ IsInjective(pipeQ'[p])
             /\ pipeQ' = [pipeQ EXCEPT ![p] = pipeQ'[p]]
             /\ \A i \in DOMAIN pipeQ'[p] : StillProducing(pipeQ'[p][i], p) /\ pipeQ'[p][i] # q
                                            /\ pipeQ'[p][i] # 0
  <2>1. pipeQ'[p] = Tail(pipeQ[p]) /\ pipeQ' = [pipeQ EXCEPT ![p] = pipeQ'[p]]
    BY <1>3, <1>6
  <2>2. Producing(q, p)
    BY <1>3, <1>4, <1>6 DEF PipeOrder
  <2>3. ASSUME NEW i \in DOMAIN pipeQ'[p]
        PROVE  /\ i \in Nat /\ i + 1 \in DOMAIN pipeQ[p] /\ pipeQ'[p][i] = pipeQ[p][i + 1]
               /\ pipeQ'[p][i] # q
    BY <1>3, <1>4, <1>6, <2>1 DEF PipeOrder, IsInjective
  <2>4. ASSUME NEW i \in DOMAIN pipeQ'[p]
        PROVE  StillProducing(pipeQ'[p][i], p) /\ pipeQ'[p][i] # 0
    <3>1. Producing(pipeQ[p][i + 1], p) /\ pipeQ[p][i + 1] # at[p]
      BY <1>3, <2>3 DEF PipeOrder
    <3> QED
      BY <1>1, <1>6, <2>3, <3>1 DEF Producing, StillProducing
  <2>5. IsInjective(pipeQ'[p])
    <3>1. ASSUME NEW i \in DOMAIN pipeQ'[p], NEW k \in DOMAIN pipeQ'[p],
                 pipeQ'[p][i] = pipeQ'[p][k]
          PROVE  i = k
      <4>1. i + 1 = k + 1
        BY <1>3, <2>3, <3>1 DEF PipeOrder, IsInjective
      <4> QED
        BY <2>3, <4>1
    <3> QED
      BY <3>1 DEF IsInjective
  <2> QED
    BY <2>1, <2>2, <2>3, <2>4, <2>5
<1>7. CASE ProduceNothing(p)
  <2> DEFINE q == Head(pipeQ[p])
  <2>1. /\ pipeQ[p] # <<>> /\ pipeQ' = [pipeQ EXCEPT ![p] = Tail(pipeQ[p])] /\ at[p] = 0
        /\ UNCHANGED <<at, link, parked, shipped>> /\ ~asked[q].work
        /\ answers' = [answers EXCEPT ![q] = answers[q] + 1]
    BY <1>7 DEF ProduceNothing
  <2> HIDE DEF q
  <2>2. \A x \in DOMAIN link : x # q => answers'[x] = answers[x]
    BY <1>3, <2>1
  <2>3. /\ Producing(q, p) /\ IsInjective(pipeQ'[p])
        /\ pipeQ' = [pipeQ EXCEPT ![p] = pipeQ'[p]]
        /\ \A i \in DOMAIN pipeQ'[p] : StillProducing(pipeQ'[p][i], p) /\ pipeQ'[p][i] # q
                                       /\ pipeQ'[p][i] # 0
    BY <1>6, <2>1, <2>2 DEF q
  <2>4. PipeOrder(p)'
    BY <2>1, <2>3 DEF PipeOrder, Producing, StillProducing
  <2>5. at' = [at EXCEPT ![p] = at'[p]]
    BY <1>3, <2>1
  <2>6. PipeInv'
    BY <1>5, <2>1, <2>2, <2>3, <2>4, <2>5
  <2>7. /\ answers[q] = 0 /\ q \in DOMAIN link /\ answers'[q] = 1
        /\ DOMAIN answers' = DOMAIN link
    BY <1>3, <2>1, <2>3 DEF Producing
  <2>8. LinkInv' /\ AnsweredOnce'
    BY <1>1, <1>3, <2>1, <2>2, <2>7 DEF OnceInv, LinkInv, AnsweredOnce
  <2> QED
    BY <1>2, <2>6, <2>8 DEF OnceInv
<1>8. CASE ProducePixels(p)
  <2> DEFINE q == Head(pipeQ[p])
  <2>1. /\ pipeQ[p] # <<>> /\ pipeQ' = [pipeQ EXCEPT ![p] = Tail(pipeQ[p])] /\ at[p] = 0
        /\ UNCHANGED <<link, parked, shipped, answers>> /\ asked[q].work
        /\ at' = [at EXCEPT ![p] = q]
    BY <1>8 DEF ProducePixels, producerVars
  <2> HIDE DEF q
  <2>2. /\ Producing(q, p) /\ IsInjective(pipeQ'[p])
        /\ pipeQ' = [pipeQ EXCEPT ![p] = pipeQ'[p]]
        /\ \A i \in DOMAIN pipeQ'[p] : StillProducing(pipeQ'[p][i], p) /\ pipeQ'[p][i] # q
                                       /\ pipeQ'[p][i] # 0
    BY <1>6, <2>1 DEF q
  <2>3. at'[p] = q /\ at' = [at EXCEPT ![p] = at'[p]]
    BY <1>3, <2>1
  <2>4. PipeOrder(p)'
    BY <1>1, <2>1, <2>2, <2>3 DEF PipeOrder, Producing, StillProducing
  <2>5. PipeInv'
    BY <1>5, <2>1, <2>2, <2>3, <2>4
  <2>6. LinkInv' /\ AnsweredOnce'
    BY <1>1, <2>1 DEF OnceInv, LinkInv, AnsweredOnce
  <2> QED
    BY <1>2, <2>5, <2>6 DEF OnceInv
<1>9. CASE CheckConnectionAndSendResponse(p)
  <2>1. PICK q : q = at[p]
    OBVIOUS
  <2>2. /\ q # 0 /\ at' = [at EXCEPT ![p] = 0] /\ UNCHANGED <<pipeQ, link>>
        /\ IF link[q] # None
           THEN DoCommandComplete(q, link[q]) /\ UNCHANGED parked
           ELSE parked' = parked \cup {q} /\ UNCHANGED <<answers, shipped>>
    BY <1>9, <2>1 DEF CheckConnectionAndSendResponse
  <2>3. Producing(q, p) /\ asked[q].work /\ q \in DOMAIN link /\ answers[q] = 0
    BY <1>3, <2>1, <2>2 DEF PipeOrder, Producing
  <2>4. \A x \in DOMAIN link : x # q => answers'[x] = answers[x]
    BY <2>2, <2>3, CompleteFacts
  <2>5. at'[p] = 0 /\ at' = [at EXCEPT ![p] = at'[p]] /\ pipeQ' = [pipeQ EXCEPT ![p] = pipeQ'[p]]
    BY <1>3, <2>2
  <2>6. PipeOrder(p)'
    <3>1. \A i \in DOMAIN pipeQ[p] : pipeQ[p][i] # q /\ StillProducing(pipeQ[p][i], p)
                                     /\ pipeQ[p][i] # 0
      <4>1. ASSUME NEW i \in DOMAIN pipeQ[p]
            PROVE  /\ pipeQ[p][i] # q /\ Producing(pipeQ[p][i], p)
                   /\ pipeQ[p][i] \in DOMAIN asked
        BY <1>3, <2>1 DEF PipeOrder, Producing
      <4>2. 0 \notin DOMAIN asked
        BY AskedFacts
      <4> QED
        BY <1>1, <2>2, <2>4, <4>1, <4>2 DEF Producing, StillProducing
    <3> QED
      BY <1>3, <2>2, <2>5, <3>1 DEF PipeOrder, Producing, StillProducing
  <2>7. PipeInv'
    <3>1. parked' \subseteq parked \cup {q}
      BY <2>2
    <3> QED
      BY <1>5, <2>2, <2>3, <2>4, <2>5, <2>6, <3>1
  <2>8. CASE link[q] # None
    <3>1. /\ DOMAIN answers' = DOMAIN link /\ answers'[q] = 1
          /\ shipped \subseteq shipped' /\ shipped' \subseteq shipped \cup {<<link[q], q>>}
          /\ <<link[q], q>> \in shipped' \/ link[q] \notin listening
      BY <2>2, <2>3, <2>8, CompleteFacts
    <3>2. link[q] \in Clients
      BY <2>3, <2>8 DEF TypeInv, RequestsTyped
    <3>3. LinkInv'
      BY <1>1, <2>2, <2>3, <2>4, <2>8, <3>1, <3>2 DEF OnceInv, LinkInv
    <3>4. AnsweredOnce'
      <4>1. ASSUME NEW x \in DOMAIN link
            PROVE  /\ answers'[x] <= 1
                   /\ answers'[x] = 1 /\ asked[x].work =>
                          <<link[x], x>> \in shipped' \/ link[x] \notin listening
        <5>1. CASE x = q
          BY <3>1, <5>1
        <5>2. CASE x # q
          BY <1>3, <2>4, <3>1, <5>2 DEF OnceInv, AnsweredOnce
        <5> QED
          BY <5>1, <5>2
      <4> QED
        BY <1>1, <3>1, <4>1 DEF AnsweredOnce
    <3> QED
      BY <1>2, <2>7, <3>3, <3>4 DEF OnceInv
  <2>9. CASE link[q] = None
    <3>1. LinkInv' /\ AnsweredOnce'
      BY <1>1, <2>2, <2>3, <2>9 DEF OnceInv, LinkInv, AnsweredOnce
    <3> QED
      BY <1>2, <2>7, <3>1 DEF OnceInv
  <2> QED
    BY <2>8, <2>9
<1> QED
  BY <1>7, <1>8, <1>9 DEF Pipeline

\* What a message of the master asks for has not been asked for before.
NewRequests(o, m) ==
    /\ m \in MasterMsgs /\ m.kind = "pixels" /\ m.order = o
    /\ m.rs # <<>> /\ IsInjective(m.rs)
    /\ \A n \in DOMAIN m.rs :
           /\ m.rs[n] \in DOMAIN asked' /\ m.rs[n] \notin DOMAIN asked
           /\ asked'[m.rs[n]].order = o /\ asked'[m.rs[n]].work = (o \notin Sparse)

LEMMA NewRequestsFacts ==
    ASSUME TypeInv, NEW o \in Orders, NEW n \in Nat \ {0}, NEW ps \in [1 .. n -> Pipelines],
           Request(o, ps)
    PROVE  NewRequests(o, Requested(o)) /\ AskedGrows
<1> DEFINE rs == [i \in 1 .. n |-> Len(asked) + i]
<1>1. /\ Len(asked) \in Nat /\ Requested(o) \in MasterMsgs /\ AskedGrows
      /\ \A i \in 1 .. n : /\ Len(asked) + i \in DOMAIN asked'
                           /\ asked'[Len(asked) + i].order = o
                           /\ asked'[Len(asked) + i].work = (o \notin Sparse)
      /\ Requested(o) = [kind |-> "pixels", order |-> o, rs |-> rs]
  BY RequestFacts DEF AskedGrows
<1>2. /\ Requested(o).kind = "pixels" /\ Requested(o).order = o /\ Requested(o).rs = rs
  BY <1>1
<1>3. DOMAIN rs = 1 .. n /\ 1 \in DOMAIN rs /\ rs # <<>>
  OBVIOUS
<1>4. ASSUME NEW i \in 1 .. n
      PROVE  rs[i] = Len(asked) + i /\ rs[i] \notin DOMAIN asked
  <2>1. DOMAIN asked = 1 .. Len(asked)
    BY AskedFacts
  <2> QED
    BY <1>1, <2>1
<1>5. IsInjective(rs)
  BY <1>1 DEF IsInjective
<1> HIDE DEF rs
<1> QED
  BY <1>1, <1>2, <1>3, <1>4, <1>5 DEF NewRequests

\* Requests that come are new.
LEMMA EnvironmentOnce ==
    ASSUME TypeInv, OnceInv, Environment
    PROVE  OnceInv'
<1> USE DEF threadVars, mapVars, pipeVars, producerVars, endVars
<1>1. /\ UNCHANGED <<inbox, pc, job, waiters, link, pipeQ, at, parked, shipped, answers>>
      /\ listening' \subseteq listening
  BY DEF Environment, MasterRegisters, MasterKicksOff, MasterRefills, MasterCleansUp,
     ClientQuits, masterVars
<1>2. ASSUME NEW ms \in Seq(Msgs), net' = net \o ms, AskedGrows,
             \A i \in DOMAIN ms : ms[i].kind = "pixels" =>
                 /\ ms[i].rs # <<>> /\ IsInjective(ms[i].rs)
                 /\ \A n \in DOMAIN ms[i].rs :
                        /\ ms[i].rs[n] \in DOMAIN asked' /\ ms[i].rs[n] \notin DOMAIN asked
                        /\ asked'[ms[i].rs[n]].order = ms[i].order,
             \A i, k \in DOMAIN ms : ms[i].kind = "pixels" /\ ms[k].kind = "pixels" => i = k
      PROVE  OnceInv'
  <2>1. /\ Len(Coming) \in Nat
        /\ \A i \in DOMAIN Coming : /\ i \in 1 .. Len(Coming) /\ i \in DOMAIN Coming'
                                    /\ Coming'[i] = Coming[i]
        /\ \A i \in DOMAIN Coming' : i \in DOMAIN Coming
               \/ (i - Len(Coming) \in DOMAIN ms /\ i \in Nat /\ i > Len(Coming)
                      /\ Coming'[i] = ms[i - Len(Coming)])
    BY <1>1, <1>2, SendComing
  <2>2. DOMAIN link \subseteq DOMAIN asked
    BY DEF OnceInv, LinkInv
  \* A message that was there asks for requests that were there.
  <2>3. ASSUME NEW k \in DOMAIN Coming, Coming[k].kind = "pixels"
        PROVE  Fresh(Coming[k]) /\ Range(Coming[k].rs) \subseteq DOMAIN asked
    BY <2>3 DEF OnceInv, MsgInv, Fresh, Range
  <2>4. ASSUME NEW k \in DOMAIN Coming', k \notin DOMAIN Coming, Coming'[k].kind = "pixels"
        PROVE  Range(Coming'[k].rs) \cap DOMAIN asked = {}
    BY <1>2, <2>1, <2>4 DEF Range
  <2>5. MsgInv'
    <3>1. ASSUME NEW k \in DOMAIN Coming', Coming'[k].kind = "pixels"
          PROVE  Fresh(Coming[k])'
      <4>1. CASE k \in DOMAIN Coming
        <5>1. Fresh(Coming[k]) /\ Coming'[k] = Coming[k]
          BY <2>1, <2>3, <3>1, <4>1
        <5> QED
          BY <1>1, <1>2, <5>1 DEF Fresh, AskedGrows
      <4>2. CASE k \notin DOMAIN Coming
        <5>1. PICK i \in DOMAIN ms : Coming'[k] = ms[i]
          BY <2>1, <4>2
        <5> QED
          BY <1>1, <1>2, <2>2, <3>1, <5>1 DEF Fresh
      <4> QED
        BY <4>1, <4>2
    <3>2. ASSUME NEW k \in DOMAIN Coming', NEW l \in DOMAIN Coming', k # l,
                 Coming'[k].kind = "pixels", Coming'[l].kind = "pixels"
          PROVE  Apart(Coming'[k], Coming'[l])
      <4>1. CASE k \in DOMAIN Coming /\ l \in DOMAIN Coming
        BY <2>1, <3>2, <4>1 DEF OnceInv, MsgInv
      <4>2. CASE k \in DOMAIN Coming /\ l \notin DOMAIN Coming
        BY <2>1, <2>3, <2>4, <3>2, <4>2 DEF Apart
      <4>3. CASE k \notin DOMAIN Coming /\ l \in DOMAIN Coming
        BY <2>1, <2>3, <2>4, <3>2, <4>3 DEF Apart
      <4>4. CASE k \notin DOMAIN Coming /\ l \notin DOMAIN Coming
        <5>1. /\ k \in Nat /\ k - Len(Coming) \in DOMAIN ms /\ Coming'[k] = ms[k - Len(Coming)]
              /\ l \in Nat /\ l - Len(Coming) \in DOMAIN ms /\ Coming'[l] = ms[l - Len(Coming)]
          BY <2>1, <4>4
        <5>2. k - Len(Coming) = l - Len(Coming)
          BY <1>2, <3>2, <5>1
        <5> QED
          BY <2>1, <3>2, <5>1, <5>2
      <4> QED
        BY <4>1, <4>2, <4>3, <4>4
    <3> QED
      BY <3>1, <3>2 DEF MsgInv, Apart
  <2>6. DispatchInv'
    <3>1. CASE pc \notin {"dispatch", "enlist"}
      BY <1>1, <3>1 DEF DispatchInv
    <3>2. CASE pc \in {"dispatch", "enlist"}
      <4>1. Range(job.rs) \subseteq DOMAIN asked /\ 1 \in DOMAIN job.rs
        BY <3>2, NextTypes DEF OnceInv, DispatchInv, Range
      <4>2. ASSUME NEW k \in DOMAIN Coming', Coming'[k].kind = "pixels"
            PROVE  Apart(Coming'[k], job)
        <5>1. CASE k \in DOMAIN Coming
          BY <2>1, <3>2, <4>2, <5>1 DEF OnceInv, DispatchInv
        <5>2. CASE k \notin DOMAIN Coming
          BY <2>4, <4>1, <4>2, <5>2 DEF Apart
        <5> QED
          BY <5>1, <5>2
      <4>3. ASSUME NEW i \in DOMAIN job.rs
            PROVE  /\ job.rs[i] \in DOMAIN asked'
                   /\ asked'[job.rs[i]].order = asked'[job.rs[1]].order
                   /\ job.rs[i] \in DOMAIN link <=> (pc = "enlist" /\ i = 1)
        BY <1>2, <3>2, <4>1 DEF OnceInv, DispatchInv, AskedGrows
      <4> QED
        BY <1>1, <3>2, <4>2, <4>3 DEF OnceInv, DispatchInv, Apart
    <3> QED
      BY <3>1, <3>2
  <2>7. PipeInv'
    <3>1. ASSUME NEW p \in Pipelines, NEW x, Producing(x, p)
          PROVE  StillProducing(x, p)
      BY <1>1, <1>2, <2>2, <3>1 DEF Producing, StillProducing, AskedGrows
    <3> QED
      BY <1>1, <1>2, <2>2, <3>1, PipeRests DEF OnceInv, PipeInv
  <2>8. LinkInv'
    BY <1>1, <1>2, <2>2 DEF OnceInv, LinkInv, AskedGrows
  <2>9. WaitInv'
    <3>1. \A x : BeingEnlisted(x)' <=> BeingEnlisted(x)
      BY <1>1 DEF BeingEnlisted
    <3>2. \A x \in DOMAIN asked : Id(x)' = Id(x)
      BY <1>2 DEF AskedGrows, Id
    <3> QED
      BY <1>1, <2>2, <3>1, <3>2 DEF OnceInv, WaitInv, Waits
  <2>10. AnsweredOnce'
    BY <1>1, <1>2, <2>2 DEF OnceInv, AnsweredOnce, AskedGrows, TypeInv, RequestsTyped
  <2> QED
    BY <2>5, <2>6, <2>7, <2>8, <2>9, <2>10 DEF OnceInv
<1>3. net \in Seq(Msgs) /\ \A m \in Msgs : Append(net, m) = net \o <<m>> /\ <<m>> \in Seq(Msgs)
  <2>1. net \in Seq(Msgs)
    BY QueueTypes
  <2> QED
    BY <2>1
<1>4. MasterMsgs \subseteq Msgs
  BY DEF Msgs
<1>5. ASSUME NEW m \in MasterMsgs, m.kind # "pixels", net' = Append(net, m), UNCHANGED asked
      PROVE  OnceInv'
  <2>1. /\ <<m>> \in Seq(Msgs) /\ net' = net \o <<m>> /\ DOMAIN <<m>> = {1} /\ <<m>>[1] = m
    BY <1>3, <1>4, <1>5
  <2> QED
    BY <1>2, <1>5, <2>1 DEF AskedGrows
<1>6. CASE MasterRegisters
  <2>1. [kind |-> "registered"] \in MasterMsgs
    BY DEF MasterMsgs
  <2> QED
    BY <1>5, <1>6, <2>1 DEF MasterRegisters
<1>7. ASSUME NEW o \in Orders, MasterKicksOff(o)
      PROVE  OnceInv'
  <2>1. PICK ps \in EachInTurn : Request(o, ps)
    BY <1>7 DEF MasterKicksOff
  <2>2. NewRequests(o, Requested(o)) /\ AskedGrows
    BY <2>1, TurnFacts, NewRequestsFacts
  <2>3. PICK m : m = Requested(o)
    OBVIOUS
  <2>4. PICK s : s = [kind |-> "scene", order |-> o]
    OBVIOUS
  <2>5. s \in Msgs /\ m \in Msgs /\ s.kind = "scene"
    BY <1>4, <2>2, <2>3, <2>4 DEF MasterMsgs, NewRequests
  <2>6. /\ <<s, m>> \in Seq(Msgs) /\ net' = net \o <<s, m>>
        /\ DOMAIN <<s, m>> = {1, 2} /\ <<s, m>>[1] = s /\ <<s, m>>[2] = m
    BY <1>7, <2>3, <2>4, <2>5 DEF MasterKicksOff
  <2>7. PICK ms : ms = <<s, m>>
    OBVIOUS
  <2>8. \A i \in DOMAIN ms : (i = 1 /\ ms[i] = s) \/ (i = 2 /\ ms[i] = m)
    BY <2>6, <2>7
  <2>9. NewRequests(o, m)
    BY <2>2, <2>3
  <2>10. /\ ms \in Seq(Msgs) /\ net' = net \o ms
         /\ \A i \in DOMAIN ms : ms[i].kind = "pixels" => i = 2 /\ ms[i] = m
    BY <2>5, <2>6, <2>7, <2>8
  <2>11. \A i, k \in DOMAIN ms : ms[i].kind = "pixels" /\ ms[k].kind = "pixels" => i = k
    BY <2>10
  <2>12. \A i \in DOMAIN ms : ms[i].kind = "pixels" =>
             /\ ms[i].rs # <<>> /\ IsInjective(ms[i].rs)
             /\ \A n \in DOMAIN ms[i].rs :
                    /\ ms[i].rs[n] \in DOMAIN asked' /\ ms[i].rs[n] \notin DOMAIN asked
                    /\ asked'[ms[i].rs[n]].order = ms[i].order
    BY <2>9, <2>10 DEF NewRequests
  <2> QED
    BY <1>2, <2>2, <2>10, <2>11, <2>12
<1>8. ASSUME NEW o \in Orders, MasterRefills(o)
      PROVE  OnceInv'
  <2>1. PICK p \in Pipelines : Request(o, <<p>>)
    BY <1>8 DEF MasterRefills
  <2>2. PICK n \in Nat \ {0} : <<p>> \in [1 .. n -> Pipelines]
    <3>1. 1 \in Nat \ {0} /\ <<p>> \in [1 .. 1 -> Pipelines]
      OBVIOUS
    <3> QED
      BY <3>1
  <2>3. NewRequests(o, Requested(o)) /\ AskedGrows
    BY <2>1, <2>2, NewRequestsFacts
  <2>4. PICK m : m = Requested(o)
    OBVIOUS
  <2>5. m \in Msgs
    BY <1>4, <2>3, <2>4 DEF NewRequests
  <2>6. /\ <<m>> \in Seq(Msgs) /\ net' = net \o <<m>> /\ DOMAIN <<m>> = {1} /\ <<m>>[1] = m
    BY <1>3, <1>8, <2>4, <2>5 DEF MasterRefills
  <2> QED
    BY <1>2, <2>3, <2>4, <2>6 DEF NewRequests
<1>9. ASSUME NEW o \in Orders, MasterCleansUp(o)
      PROVE  OnceInv'
  <2>1. [kind |-> "cleanup", order |-> o] \in MasterMsgs
    BY DEF MasterMsgs
  <2> QED
    BY <1>5, <1>9, <2>1 DEF MasterCleansUp
<1>10. ASSUME NEW c \in Clients, ClientQuits(c)
       PROVE  OnceInv'
  <2>1. net' = net /\ UNCHANGED asked
    BY <1>10 DEF ClientQuits, masterVars
  <2>2. <<>> \in Seq(Msgs) /\ net \o <<>> = net /\ DOMAIN <<>> = {}
    BY <1>3
  <2> QED
    BY <1>2, <2>1, <2>2 DEF AskedGrows
<1> QED
  BY <1>6, <1>7, <1>8, <1>9, <1>10 DEF Environment

LEMMA OnceInit == Init => OnceInv
<1> SUFFICES ASSUME Init PROVE OnceInv
  OBVIOUS
<1>1. TypeInv /\ DOMAIN <<>> = {}
  BY TypeInit
<1>2. Coming \in Seq(Msgs) /\ Len(Coming) = 1 /\ Coming[1] = ServerIsUp
  <2>1. inbox = <<ServerIsUp>> /\ net = <<>>
    BY DEF Init, ServerIsUp
  <2> QED
    BY <1>1, <2>1, QueueTypes
<1>3. \A k \in DOMAIN Coming : Coming[k].kind # "pixels"
  <2>1. DOMAIN Coming = {1}
    BY <1>2
  <2> QED
    BY <1>2, <2>1 DEF ServerIsUp
<1>4. MsgInv /\ DispatchInv
  BY <1>3 DEF MsgInv, DispatchInv, Init
<1>5. PipeInv
  BY <1>1 DEF PipeInv, PipeOrder, Init, IsInjective
<1>6. LinkInv /\ WaitInv /\ AnsweredOnce
  BY <1>1 DEF LinkInv, WaitInv, AnsweredOnce, Init
<1> QED
  BY <1>4, <1>5, <1>6 DEF OnceInv

-----------------------------------------------------------------------------
TypeOnce == TypeInv /\ OnceInv

LEMMA TypeOnceStep == TypeOnce /\ [Next]_vars => TypeOnce'
<1> SUFFICES ASSUME TypeInv, OnceInv, [Next]_vars PROVE TypeInv' /\ OnceInv'
  BY DEF TypeOnce
<1>1. CASE ReceiverReads
  BY <1>1, ReceiverTypes, ReceiverOnce
<1>2. CASE \/ OnCreateServerResponse \/ MakeConnection \/ ReportConnection
           \/ RegisterWithMaster \/ OnWorkerRegistrationRespMsg
  BY <1>2, StartTypes, ThreadOnce
<1>3. CASE ClientConnected
  BY <1>3, ConnectedTypes, ThreadOnce
<1>4. CASE HandConnection
  BY <1>4, HandTypes, HandOnce
<1>5. CASE AllHanded
  BY <1>5, AllHandedTypes, ThreadOnce
<1>6. CASE OnSceneProduceRequestMsg
  BY <1>6, SceneTypes, ThreadOnce
<1>7. CASE OnSceneProduceCleanupMsg
  BY <1>7, CleanupTypes, ThreadOnce
<1>8. CASE OnPixelProduceRequestMsg
  BY <1>8, PixelsTypes, PixelsOnce
<1>9. CASE Dispatch
  BY <1>9, DispatchTypes, DispatchOnce
<1>10. CASE Enlist
  BY <1>10, EnlistTypes, EnlistOnce
<1>11. ASSUME NEW p \in Pipelines, Pipeline(p)
       PROVE  TypeInv' /\ OnceInv'
  BY <1>11, PipelineTypes, PipelineOnce
<1>12. CASE Environment
  BY <1>12, MasterTypes, EnvironmentOnce
<1>13. CASE UNCHANGED vars
  <2> USE DEF vars, threadVars, mapVars, pipeVars, producerVars, masterVars, endVars
  <2>1. TypeInv'
    BY <1>13 DEF TypeInv, Starting, Running, JobTyped, MapsTyped, RequestsTyped, SizesKept
  <2>2. Coming' = Coming
    BY <1>13 DEF Coming
  <2>3. Moved([k \in DOMAIN Coming |-> k])
    BY <2>2 DEF Moved
  <2>4. OnceInv'
    BY <1>13, <2>3, QuietOnce
  <2> QED
    BY <2>1, <2>4
<1> QED
  BY <1>1, <1>2, <1>3, <1>4, <1>5, <1>6, <1>7, <1>8, <1>9, <1>10, <1>11, <1>12, <1>13
     DEF Next, WorkerThread

THEOREM TypeOnceInvariant == Spec => []TypeOnce
<1>1. Init => TypeOnce
  BY TypeInit, OnceInit DEF TypeOnce
<1> QED
  BY <1>1, TypeOnceStep, PTL DEF Spec

LEMMA TypesFollow == TypeOnce => TypeOK
<1> SUFFICES ASSUME TypeInv, OnceInv PROVE TypeOK
  BY DEF TypeOnce
<1>1. pc \in {"take", "connect", "report", "hand", "dispatch", "enlist"}
  BY DEF TypeInv, Starting, Running, JobTyped
<1>2. toMaster \in Clients \cup {None, Master}
  BY DEF TypeInv, Starting, Running
<1>3. /\ DOMAIN file \subseteq Ids /\ Range(file) \subseteq Orders
      /\ DOMAIN client = DOMAIN file /\ Range(client) \subseteq Clients
      /\ DOMAIN scene \subseteq Clients \cup {None}
      /\ DOMAIN conn \subseteq Ids \cup {0} /\ Range(conn) \subseteq Clients
  BY DEF TypeInv, MapsTyped, Range
<1>4. DOMAIN link \subseteq DOMAIN asked /\ parked \subseteq DOMAIN link
  BY DEF OnceInv, LinkInv
<1> QED
  BY <1>1, <1>2, <1>3, <1>4 DEF TypeOK, TypeInv, SizesKept

(***************************************************************************)
(* The queues of the worker keep their sizes, and every map of the worker  *)
(* holds what the threads that look it up expect, from the first message   *)
(* to the last.                                                            *)
(***************************************************************************)
THEOREM TypesHold == Spec => []TypeOK
BY TypeOnceInvariant, TypesFollow, PTL

(***************************************************************************)
(* Every request is answered at most once, by its pipeline or by the       *)
(* worker's thread, and a request for pixels with its segment or after its *)
(* client has quit.                                                        *)
(***************************************************************************)
THEOREM AnswersAreSingle == Spec => []AnsweredOnce
<1>1. TypeOnce => AnsweredOnce
  BY DEF TypeOnce, OnceInv
<1> QED
  BY <1>1, TypeOnceInvariant, PTL

-----------------------------------------------------------------------------
(* Segments reach their client                                             *)

LEMMA RightInit == Init => RightClients
<1> SUFFICES ASSUME Init PROVE RightClients
  OBVIOUS
<1>1. DOMAIN <<>> = {} /\ DOMAIN inbox = {1} /\ inbox[1].kind = "server"
  BY DEF Init
<1>2. ConnectionsRight
  BY <1>1 DEF ConnectionsRight, Rightly, Init
<1>3. MapsRight /\ ProducersRight
  BY <1>1 DEF MapsRight, ProducersRight, Init
<1> QED
  BY <1>2, <1>3 DEF RightClients

\* What comes to the worker's queue is what it reports, or the master's.
LEMMA InboxMoves ==
    ASSUME TypeInv, ConnectionsRight,
           \/ inbox' = inbox
           \/ inbox # <<>> /\ inbox' = Tail(inbox)
           \/ pc = "report" /\ inbox' = Append(inbox, job)
           \/ ReceiverReads
    PROVE  \A i \in DOMAIN inbox' : Rightly(inbox'[i])
<1>1. inbox \in Seq(Msgs)
  BY QueueTypes
<1>2. CASE inbox' = inbox
  BY <1>2 DEF ConnectionsRight
<1>3. CASE inbox # <<>> /\ inbox' = Tail(inbox)
  BY <1>1, <1>3, TailFacts DEF ConnectionsRight
<1>4. ASSUME NEW m \in Msgs, Rightly(m), inbox' = Append(inbox, m)
      PROVE  \A i \in DOMAIN inbox' : Rightly(inbox'[i])
  <2>1. /\ \A i \in DOMAIN inbox : inbox'[i] = inbox[i]
        /\ inbox'[Len(inbox) + 1] = m
        /\ \A i \in DOMAIN inbox' : i \in DOMAIN inbox \/ i = Len(inbox) + 1
    BY <1>1, <1>4, AppendFacts
  <2> QED
    BY <1>4, <2>1 DEF ConnectionsRight
<1>5. CASE pc = "report" /\ inbox' = Append(inbox, job)
  <2>1. job \in Msgs
    BY <1>5 DEF TypeInv, Starting, Running, JobTyped, Msgs
  <2> QED
    BY <1>4, <1>5, <2>1 DEF ConnectionsRight
<1>6. CASE ReceiverReads
  <2>1. net # <<>> /\ net \in Seq(MasterMsgs) /\ inbox' = Append(inbox, Head(net))
    BY <1>6 DEF ReceiverReads, TypeInv
  <2>2. Head(net) \in MasterMsgs /\ Head(net) \in Msgs
    BY <2>1, TailFacts DEF Msgs
  <2>3. Rightly(Head(net))
    BY <2>2, Kinds DEF Rightly
  <2> QED
    BY <1>4, <2>1, <2>2, <2>3
<1> QED
  BY <1>2, <1>3, <1>5, <1>6

LEMMA ConnectionsRightStep ==
    ASSUME TypeInv, ConnectionsRight, Next
    PROVE  ConnectionsRight'
<1> USE DEF threadVars, Proceed
<1>1. \/ inbox' = inbox
      \/ inbox # <<>> /\ inbox' = Tail(inbox)
      \/ pc = "report" /\ inbox' = Append(inbox, job)
      \/ ReceiverReads
  BY DEF Next, WorkerThread, OnCreateServerResponse, MakeConnection, ReportConnection,
     RegisterWithMaster, ClientConnected, HandConnection, AllHanded,
     OnWorkerRegistrationRespMsg, OnSceneProduceRequestMsg, OnSceneProduceCleanupMsg,
     OnPixelProduceRequestMsg, Dispatch, Enlist, Take, Pipeline, ProduceNothing,
     ProducePixels, CheckConnectionAndSendResponse, Environment, MasterRegisters,
     MasterKicksOff, MasterRefills, MasterCleansUp, ClientQuits
<1>2. ASSUME pc' \in {"connect", "report"}
      PROVE  Rightly(job')
  <2>1. \/ OnCreateServerResponse \/ OnSceneProduceRequestMsg
        \/ pc \in {"connect", "report"} /\ job' = job
    BY <1>2 DEF Next, WorkerThread, OnCreateServerResponse, MakeConnection, ReportConnection,
       RegisterWithMaster, ClientConnected, HandConnection, AllHanded,
       OnWorkerRegistrationRespMsg, OnSceneProduceRequestMsg, OnSceneProduceCleanupMsg,
       OnPixelProduceRequestMsg, Dispatch, Enlist, NextRequest, Take, Pipeline, ProduceNothing,
       ProducePixels, CheckConnectionAndSendResponse, Environment, MasterRegisters,
       MasterKicksOff, MasterRefills, MasterCleansUp, ClientQuits, ReceiverReads
  <2>2. CASE OnCreateServerResponse
    BY <2>2 DEF OnCreateServerResponse, Rightly
  <2>3. CASE OnSceneProduceRequestMsg
    BY <2>3 DEF OnSceneProduceRequestMsg, Rightly
  <2>4. CASE pc \in {"connect", "report"} /\ job' = job
    BY <2>4 DEF ConnectionsRight
  <2> QED
    BY <2>1, <2>2, <2>3, <2>4
<1>3. \A i \in DOMAIN inbox' : Rightly(inbox'[i])
  BY <1>1, InboxMoves
<1> QED
  BY <1>2, <1>3 DEF ConnectionsRight, Rightly

\* The connection for an order.
Reports(m, o) == m.kind = "connected" /\ m.order = o

\* A connection is set under the scene id of its client, when its address is read.
LEMMA ConnectedFacts ==
    ASSUME TypeInv, ConnectionsRight, ClientConnected, ~misread'
    PROVE  /\ Take("connected") /\ net' = net /\ pc = "take"
           /\ Head(inbox).order \in Orders /\ Reports(Head(inbox), Head(inbox).order)
           /\ Head(inbox).to = ClientOf[Head(inbox).order]
           /\ \/ /\ scene' = Inserted(scene, Head(inbox).to, 0)
                 /\ conn' = Inserted(conn, scene'[Head(inbox).to], Head(inbox).to)
                 /\ pc' = "hand" /\ job'.id = scene'[Head(inbox).to] /\ job'.to = Head(inbox).to
              \/ ~SceneIsKept(Head(inbox).order) /\ UNCHANGED <<pc, job, scene, conn>>
<1>1. Take("connected") /\ toMaster # None /\ net' = net /\ pc = "take"
  BY DEF ClientConnected, Take
<1>2. Running /\ registered # "no"
  BY <1>1 DEF TypeInv, Starting
<1>3. Head(inbox) \in Connections /\ Head(inbox) = inbox[1] /\ 1 \in DOMAIN inbox
  BY <1>1, <1>2, TakeFacts
<1>4. PICK m : m = Head(inbox)
  OBVIOUS
<1>5. /\ m \in Connections /\ m.kind = "connected" /\ m.to \in Clients /\ m.order \in Orders
      /\ m.to = ClientOf[m.order]
  BY <1>3, <1>4, Kinds, WorkerAssumption DEF ConnectionsRight, Rightly
<1>6. ASSUME NEW a, scene' = Inserted(scene, a, 0), conn' = Inserted(conn, scene'[a], m.to),
             misread' = (misread \/ a # m.to),
             pc' = "hand", job' = [kind |-> "hand", id |-> scene'[a], to |-> m.to]
      PROVE  /\ scene' = Inserted(scene, m.to, 0) /\ conn' = Inserted(conn, scene'[m.to], m.to)
             /\ pc' = "hand" /\ job'.id = scene'[m.to] /\ job'.to = m.to
  <2>1. a = m.to
    BY <1>6
  <2> QED
    BY <1>6, <2>1
<1>7. \/ \E a \in AddressesRead(m) :
            /\ scene' = Inserted(scene, a, 0) /\ conn' = Inserted(conn, scene'[a], m.to)
            /\ misread' = (misread \/ a # m.to)
            /\ pc' = "hand" /\ job' = [kind |-> "hand", id |-> scene'[a], to |-> m.to]
      \/ ~SceneIsKept(m.order) /\ UNCHANGED <<pc, job, scene, conn>>
  BY <1>4 DEF ClientConnected, Proceed
<1>8. \/ /\ scene' = Inserted(scene, m.to, 0)
         /\ conn' = Inserted(conn, scene'[m.to], m.to)
         /\ pc' = "hand" /\ job'.id = scene'[m.to] /\ job'.to = m.to
      \/ ~SceneIsKept(m.order) /\ UNCHANGED <<pc, job, scene, conn>>
  BY <1>6, <1>7
<1> QED
  BY <1>1, <1>4, <1>5, <1>8 DEF Reports

\* The worker's maps.
LEMMA MapsRightStep ==
    ASSUME TypeInv, ConnectionsRight, MapsRight, DistinctIds, Next, ~misread'
    PROVE  MapsRight'
<1> USE DEF threadVars, mapVars, endVars, Proceed
<1>0. SceneId \in [Orders -> Nat \ {0}] /\ ClientOf \in [Orders -> Clients]
  BY WorkerAssumption
<1>1. CASE ClientConnected
  <2>1. PICK m : m = Head(inbox)
    OBVIOUS
  <2>2. \/ /\ scene' = Inserted(scene, m.to, 0) /\ conn' = Inserted(conn, scene'[m.to], m.to)
           /\ pc' = "hand" /\ job'.id = scene'[m.to] /\ job'.to = m.to
        \/ UNCHANGED <<pc, job, scene, conn>>
    BY <1>1, <2>1, ConnectedFacts
  <2>3. CASE UNCHANGED <<pc, job, scene, conn>>
    BY <2>3 DEF MapsRight
  <2>4. CASE /\ scene' = Inserted(scene, m.to, 0) /\ conn' = Inserted(conn, scene'[m.to], m.to)
             /\ pc' = "hand" /\ job'.id = scene'[m.to] /\ job'.to = m.to
    <3>1. ASSUME NEW a \in DOMAIN scene', scene'[a] # 0
          PROVE  \E o \in Orders : SceneId[o] = scene'[a] /\ ClientOf[o] = a
      BY <2>4, <3>1 DEF Inserted, MapsRight
    <3>2. m.to \in DOMAIN scene'
      BY <2>4 DEF Inserted
    <3>3. ASSUME NEW o \in Orders, scene'[m.to] = SceneId[o]
          PROVE  m.to = ClientOf[o]
      BY <1>0, <3>1, <3>2, <3>3 DEF DistinctIds
    <3>4. ASSUME NEW o \in Orders, SceneId[o] \in DOMAIN conn'
          PROVE  conn'[SceneId[o]] = ClientOf[o]
      <4>1. CASE SceneId[o] \in DOMAIN conn
        BY <2>4, <4>1 DEF Inserted, MapsRight
      <4>2. CASE SceneId[o] \notin DOMAIN conn
        BY <2>4, <3>3, <3>4, <4>2 DEF Inserted
      <4> QED
        BY <4>1, <4>2
    <3> QED
      BY <2>4, <3>1, <3>3, <3>4 DEF MapsRight
  <2> QED
    BY <2>2, <2>3, <2>4
<1>2. CASE OnSceneProduceRequestMsg
  <2> DEFINE o == Head(inbox).order
  <2>1. Take("scene") /\ "scene" # "server" /\ "scene" # "connected"
    BY <1>2 DEF OnSceneProduceRequestMsg
  <2>2. o \in Orders
    <3>1. Head(inbox) \in MasterMsgs /\ Head(inbox).kind = "scene"
      BY <2>1, TakeFacts DEF Take
    <3> QED
      BY <3>1, Kinds
  <2>3. /\ scene' = Inserted(scene, ClientOf[o], SceneId[o]) /\ conn' = conn
        /\ pc' = "connect"
    BY <1>2 DEF OnSceneProduceRequestMsg
  <2> HIDE DEF o
  <2>4. ASSUME NEW a \in DOMAIN scene', scene'[a] # 0
        PROVE  \E q \in Orders : SceneId[q] = scene'[a] /\ ClientOf[q] = a
    BY <2>2, <2>3, <2>4 DEF Inserted, MapsRight
  <2> QED
    BY <2>3, <2>4 DEF MapsRight
<1>3. CASE OnSceneProduceCleanupMsg
  BY <1>3 DEF OnSceneProduceCleanupMsg, MapsRight, Without, Take
<1>4. CASE ~(ClientConnected \/ OnSceneProduceRequestMsg \/ OnSceneProduceCleanupMsg)
  <2>1. /\ UNCHANGED <<scene, conn>>
        /\ pc' = "hand" => pc = "hand" /\ job' = job
    BY <1>4 DEF Next, WorkerThread, OnCreateServerResponse, MakeConnection, ReportConnection,
       RegisterWithMaster, HandConnection, AllHanded, OnWorkerRegistrationRespMsg,
       OnPixelProduceRequestMsg, Dispatch, Enlist, NextRequest, Pipeline, ProduceNothing,
       ProducePixels, CheckConnectionAndSendResponse, Environment, MasterRegisters,
       MasterKicksOff, MasterRefills, MasterCleansUp, ClientQuits, ReceiverReads
  <2> QED
    BY <2>1 DEF MapsRight
<1> QED
  BY <1>1, <1>2, <1>3, <1>4

\* Requests are only added.
LEMMA AskedGrowsStep ==
    ASSUME TypeInv, Next
    PROVE  AskedGrows
<1> USE DEF threadVars, mapVars, pipeVars, producerVars, masterVars, endVars
<1>1. ASSUME NEW o \in Orders, MasterKicksOff(o)
      PROVE  AskedGrows
  <2>1. PICK ps \in EachInTurn : Request(o, ps)
    BY <1>1 DEF MasterKicksOff
  <2> QED
    BY <2>1, TurnFacts, NewRequestsFacts
<1>2. ASSUME NEW o \in Orders, MasterRefills(o)
      PROVE  AskedGrows
  <2>1. PICK p \in Pipelines : Request(o, <<p>>)
    BY <1>2 DEF MasterRefills
  <2>2. PICK n \in Nat \ {0} : <<p>> \in [1 .. n -> Pipelines]
    <3>1. 1 \in Nat \ {0} /\ <<p>> \in [1 .. 1 -> Pipelines]
      OBVIOUS
    <3> QED
      BY <3>1
  <2> QED
    BY <2>1, <2>2, NewRequestsFacts
<1>3. CASE ~\E o \in Orders : MasterKicksOff(o) \/ MasterRefills(o)
  <2>1. UNCHANGED asked
    BY <1>3 DEF Next, WorkerThread, OnCreateServerResponse, MakeConnection, ReportConnection,
       RegisterWithMaster, ClientConnected, HandConnection, AllHanded,
       OnWorkerRegistrationRespMsg, OnSceneProduceRequestMsg, OnSceneProduceCleanupMsg,
       OnPixelProduceRequestMsg, Dispatch, Enlist, Pipeline, ProduceNothing,
       ProducePixels, CheckConnectionAndSendResponse, Environment, MasterRegisters,
       MasterCleansUp, ClientQuits, ReceiverReads
  <2> QED
    BY <2>1 DEF AskedGrows
<1> QED
  BY <1>1, <1>2, <1>3

\* The requests of a message are of one order.
LEMMA NextOwner ==
    ASSUME TypeInv, pc \in {"dispatch", "enlist"}, DispatchInv, asked' = asked,
           NextRequest \/ job' = job, pc' \in {"dispatch", "enlist"}
    PROVE  /\ job'.to = job.to /\ OwnerOf(job.rs[1])' = OwnerOf(job.rs[1])
           /\ asked'[job'.rs[1]].order = asked[job.rs[1]].order
<1>1. job.rs \in Seq(Nat) /\ job.rs # <<>> /\ Running
  BY NextTypes
<1>2. job \in [kind : {"dispatch"}, rs : Seq(Nat), to : Clients \cup {None}]
  BY <1>1 DEF Running, JobTyped
<1>3. CASE job' = job
  BY <1>3 DEF OwnerOf
<1>4. CASE NextRequest
  <2>1. Len(job.rs) # 1 /\ job' = [job EXCEPT !.rs = Tail(job.rs)]
    BY <1>4 DEF NextRequest, Proceed
  <2>2. job'.to = job.to /\ job'.rs = Tail(job.rs)
    BY <1>2, <2>1
  <2>3. Tail(job.rs)[1] = job.rs[1 + 1] /\ 1 + 1 \in DOMAIN job.rs /\ 1 \in DOMAIN job.rs
    <3>1. /\ Len(job.rs) \in Nat \ {0} /\ Len(Tail(job.rs)) = Len(job.rs) - 1
          /\ 1 \in DOMAIN job.rs /\ Tail(job.rs) \in Seq(Nat)
          /\ \A i \in DOMAIN Tail(job.rs) : /\ i + 1 \in DOMAIN job.rs
                                            /\ Tail(job.rs)[i] = job.rs[i + 1]
      BY <1>1, TailFacts
    <3>2. \A n \in Nat \ {0} : n # 1 => 1 \in 1 .. n - 1
      OBVIOUS
    <3>3. 1 \in DOMAIN Tail(job.rs)
      <4>1. DOMAIN Tail(job.rs) = 1 .. Len(Tail(job.rs))
        BY <3>1
      <4> QED
        BY <2>1, <3>1, <3>2, <4>1, Zenon
    <3> QED
      BY <3>1, <3>3
  <2>4. asked[job.rs[1 + 1]].order = asked[job.rs[1]].order
    BY <2>3 DEF DispatchInv
  <2> QED
    BY <2>2, <2>3, <2>4 DEF OwnerOf
<1> QED
  BY <1>3, <1>4

LEMMA ProducersRightStep ==
    ASSUME TypeInv, OnceInv, MapsRight, ProducersRight, Next
    PROVE  ProducersRight'
<1> USE DEF threadVars, mapVars, pipeVars, producerVars, masterVars, endVars
<1>0. DOMAIN link \subseteq DOMAIN asked /\ shipped \subseteq Clients \X DOMAIN link
  BY DEF OnceInv, LinkInv
<1>1. AskedGrows
  BY AskedGrowsStep
<1>2. \A r \in DOMAIN asked : OwnerOf(r)' = OwnerOf(r)
  BY <1>1 DEF AskedGrows, OwnerOf
<1>3. ASSUME UNCHANGED <<link, shipped>>,
             pc' \in {"dispatch", "enlist"} => job'.to \in {None, OwnerOf(job.rs[1])'}
      PROVE  ProducersRight'
  <2>1. \A r \in DOMAIN link : link[r] \in {None, OwnerOf(r)'}
    BY <1>0, <1>2 DEF ProducersRight
  <2>2. \A s \in shipped : s[1] = OwnerOf(s[2])'
    BY <1>0, <1>2 DEF ProducersRight
  <2> QED
    BY <1>3, <2>1, <2>2 DEF ProducersRight, OwnerOf
<1>4. CASE OnPixelProduceRequestMsg
  <2> DEFINE o == Head(inbox).order
  <2>1. /\ Take("pixels") /\ pc' = "dispatch" /\ job'.rs = Head(inbox).rs
        /\ job'.to = IF SceneId[o] \in DOMAIN conn THEN conn[SceneId[o]] ELSE None
        /\ UNCHANGED <<net, link, shipped, asked>> /\ "pixels" # "server" /\ "pixels" # "connected"
    BY <1>4 DEF OnPixelProduceRequestMsg, Proceed
  <2>2. Head(inbox) \in MasterMsgs /\ Head(inbox).kind = "pixels"
    BY <2>1, TakeFacts DEF Take
  <2>3. o \in Orders /\ Head(inbox).rs \in Seq(Nat)
    BY <2>2, Kinds
  <2>4. Fresh(Head(inbox))
    <3>1. 1 \in DOMAIN Coming /\ Coming[1] = Head(inbox) /\ Coming[1].kind = "pixels"
      BY <2>1, TakeComing
    <3> QED
      BY <3>1 DEF OnceInv, MsgInv
  <2>5. 1 \in DOMAIN Head(inbox).rs
    BY <2>3, <2>4, TailFacts DEF Fresh
  <2>6. asked[Head(inbox).rs[1]].order = o
    BY <2>4, <2>5 DEF Fresh
  <2>7. job'.to \in {None, ClientOf[o]}
    BY <2>1, <2>3 DEF MapsRight
  <2> QED
    BY <1>3, <2>1, <2>6, <2>7 DEF OwnerOf
<1>5. CASE Dispatch
  <2> DEFINE r == job.rs[1]
  <2>1. /\ pc = "dispatch" /\ Head(job.rs) = r /\ link' = Inserted(link, r, job.to)
        /\ IF MustWait THEN job' = job ELSE NextRequest
        /\ UNCHANGED <<asked, shipped>>
    BY <1>5, NextTypes DEF Dispatch, Proceed
  <2>2. pc' \in {"dispatch", "enlist"} =>
            job'.to = job.to /\ OwnerOf(job.rs[1])' = OwnerOf(job.rs[1])
    BY <2>1, NextOwner DEF OnceInv
  <2>3. job.to \in {None, OwnerOf(r)}
    BY <2>1 DEF ProducersRight
  <2>4. ASSUME NEW x \in DOMAIN link'
        PROVE  link'[x] \in {None, OwnerOf(x)}
    BY <2>1, <2>3 DEF Inserted, ProducersRight
  <2>5. \A x : OwnerOf(x)' = ClientOf[asked[x].order] /\ OwnerOf(x) = ClientOf[asked[x].order]
    BY <2>1 DEF OwnerOf
  <2>6. pc' \in {"dispatch", "enlist"} => job'.to \in {None, OwnerOf(job.rs[1])'}
    BY <2>2, <2>3
  <2> QED
    BY <2>1, <2>4, <2>6 DEF ProducersRight, OwnerOf
<1>6. CASE Enlist
  <2>1. /\ pc = "enlist" /\ NextRequest /\ UNCHANGED <<asked, link, shipped>>
    BY <1>6 DEF Enlist
  <2>2. pc' \in {"dispatch", "enlist"} =>
            job'.to = job.to /\ OwnerOf(job.rs[1])' = OwnerOf(job.rs[1])
    BY <2>1, NextOwner DEF OnceInv
  <2> QED
    BY <1>3, <2>1, <2>2 DEF ProducersRight
<1>7. CASE HandConnection
  <2>1. pc = "hand" /\ UNCHANGED <<pc, job, asked>>
    BY <1>7 DEF HandConnection
  <2>2. PICK i \in WaitersOfScene :
            /\ link' = [link EXCEPT ![waiters[i][2]] = job.to]
            /\ SendParked(waiters[i][2])
    BY <1>7 DEF HandConnection
  <2>3. PICK r : r = waiters[i][2]
    OBVIOUS
  <2>4. r \in DOMAIN link /\ Id(r) = job.id /\ r \in DOMAIN asked
    BY <1>0, <2>2, <2>3 DEF WaitersOfScene, OnceInv, WaitInv
  <2>5. asked[r].order \in Orders
    BY <2>4, AskedFacts
  <2>6. job.to = OwnerOf(r)
    BY <2>1, <2>4, <2>5 DEF MapsRight, Id, OwnerOf
  <2>7. shipped' \subseteq shipped \cup {<<job.to, r>>}
    BY <2>2, <2>3 DEF SendParked, DoCommandComplete
  <2>8. ASSUME NEW x \in DOMAIN link'
        PROVE  link'[x] \in {None, OwnerOf(x)}
    BY <2>2, <2>3, <2>4, <2>6 DEF ProducersRight, TypeInv, RequestsTyped
  <2>9. \A s \in shipped' : s[1] = OwnerOf(s[2])
    BY <2>6, <2>7 DEF ProducersRight
  <2> QED
    BY <2>1, <2>8, <2>9 DEF ProducersRight, OwnerOf
<1>8. ASSUME NEW p \in Pipelines, CheckConnectionAndSendResponse(p)
      PROVE  ProducersRight'
  <2>1. PICK r : r = at[p]
    OBVIOUS
  <2>2. /\ UNCHANGED <<pc, job, link, asked>> /\ r # 0
        /\ link[r] # None => DoCommandComplete(r, link[r])
        /\ link[r] = None => UNCHANGED shipped
    BY <1>8, <2>1 DEF CheckConnectionAndSendResponse
  <2>3. r \in DOMAIN link
    BY <2>1, <2>2 DEF OnceInv, PipeInv, PipeOrder, Producing
  <2>4. shipped' \subseteq shipped \cup {<<link[r], r>>} /\ (link[r] = None => shipped' = shipped)
    BY <2>2 DEF DoCommandComplete
  <2>5. \A s \in shipped' : s[1] = OwnerOf(s[2])
    BY <2>3, <2>4 DEF ProducersRight
  <2> QED
    BY <2>2, <2>5 DEF ProducersRight, OwnerOf
<1>9. ASSUME UNCHANGED <<link, shipped, pc, job>>
      PROVE  ProducersRight'
  <2>1. pc \in {"dispatch", "enlist"} => job.rs[1] \in DOMAIN asked
    BY NextTypes DEF OnceInv, DispatchInv
  <2>2. pc \in {"dispatch", "enlist"} => OwnerOf(job.rs[1])' = OwnerOf(job.rs[1])
    BY <1>1, <1>9, <2>1 DEF AskedGrows, OwnerOf
  <2> QED
    BY <1>3, <1>9, <2>2 DEF ProducersRight
<1>10. CASE ReceiverReads \/ Environment \/ OnWorkerRegistrationRespMsg \/ OnSceneProduceCleanupMsg
            \/ \E p \in Pipelines : ProduceNothing(p) \/ ProducePixels(p)
  <2>1. UNCHANGED <<link, shipped, pc, job>>
    BY <1>10 DEF ReceiverReads, Environment, OnWorkerRegistrationRespMsg,
       OnSceneProduceCleanupMsg, ProduceNothing, ProducePixels, MasterRegisters,
       MasterKicksOff, MasterRefills, MasterCleansUp, ClientQuits
  <2> QED
    BY <1>9, <2>1
<1>11. CASE OnCreateServerResponse \/ MakeConnection \/ ReportConnection \/ RegisterWithMaster
            \/ ClientConnected \/ AllHanded \/ OnSceneProduceRequestMsg
  <2>1. UNCHANGED <<link, shipped>> /\ pc' \notin {"dispatch", "enlist"}
    BY <1>11 DEF OnCreateServerResponse, MakeConnection, ReportConnection, RegisterWithMaster,
       ClientConnected, AllHanded, OnSceneProduceRequestMsg, Take, Proceed
  <2> QED
    BY <1>3, <2>1
<1> QED
  BY <1>4, <1>5, <1>6, <1>7, <1>8, <1>10, <1>11 DEF Next, WorkerThread, Pipeline

LEMMA MisreadStays ==
    ASSUME Next, ~misread'
    PROVE  ~misread
BY DEF Next, WorkerThread, OnCreateServerResponse, MakeConnection, ReportConnection,
   RegisterWithMaster, ClientConnected, HandConnection, AllHanded,
   OnWorkerRegistrationRespMsg, OnSceneProduceRequestMsg, OnSceneProduceCleanupMsg,
   OnPixelProduceRequestMsg, Dispatch, Enlist, Pipeline, ProduceNothing,
   ProducePixels, CheckConnectionAndSendResponse, Environment, MasterRegisters,
   MasterKicksOff, MasterRefills, MasterCleansUp, ClientQuits, ReceiverReads, endVars

RightInv == TypeOnce /\ RightClients

LEMMA RightStep == DistinctIds /\ RightInv /\ [Next]_vars => RightInv'
<1> SUFFICES ASSUME DistinctIds, TypeOnce, RightClients, [Next]_vars PROVE RightInv'
  BY DEF RightInv
<1>1. TypeOnce'
  BY TypeOnceStep
<1>2. CASE Next
  <2>1. ConnectionsRight'
    BY <1>2, ConnectionsRightStep DEF TypeOnce, RightClients
  <2>2. ASSUME ~misread'
        PROVE  MapsRight' /\ ProducersRight'
    <3>1. ~misread
      BY <1>2, <2>2, MisreadStays
    <3> QED
      BY <1>2, <2>2, <3>1, MapsRightStep, ProducersRightStep DEF TypeOnce, RightClients
  <2> QED
    BY <1>1, <2>1, <2>2 DEF RightInv, RightClients
<1>3. CASE UNCHANGED vars
  <2>1. RightClients'
    BY <1>3 DEF vars, threadVars, mapVars, pipeVars, producerVars, masterVars, endVars,
       RightClients, ConnectionsRight, Rightly, MapsRight, ProducersRight, OwnerOf
  <2> QED
    BY <1>1, <2>1 DEF RightInv
<1> QED
  BY <1>2, <1>3

(***************************************************************************)
(* When scene ids are distinct, a segment goes to the client that ordered  *)
(* the scene, as long as no address has been read after it was freed.      *)
(***************************************************************************)
THEOREM ClientsGetTheirSegments ==
    ASSUME DistinctIds
    PROVE  Spec => []SegmentsReachTheirClient
<1>1. Init => RightInv
  BY TypeInit, OnceInit, RightInit DEF RightInv, TypeOnce
<1>2. RightInv /\ [Next]_vars => RightInv'
  BY RightStep
<1>3. RightInv => SegmentsReachTheirClient
  BY DEF RightInv, RightClients, ProducersRight, SegmentsReachTheirClient, OwnerOf
<1> QED
  BY <1>1, <1>2, <1>3, PTL DEF Spec

-----------------------------------------------------------------------------
(* What becomes of the connections that are to come                        *)

LEMMA JobKinds ==
    ASSUME TypeInv
    PROVE  /\ pc = "take" => job = NoJob /\ job.kind = "none"
           /\ pc = "hand" => job.kind = "hand" /\ job.to \in Clients
           /\ pc \in {"dispatch", "enlist"} => job.kind = "dispatch"
           /\ pc \in {"connect", "report"} => job.kind = "connected" /\ job \in Msgs
           /\ pc \in {"take", "connect", "report", "hand", "dispatch", "enlist"}
<1>1. CASE registered = "no"
  <2>1. NoJob.kind = "none" /\ MasterIsUp.kind = "connected" /\ MasterIsUp \in Msgs
    BY DEF NoJob, MasterIsUp, Msgs
  <2>2. \/ pc = "take" /\ job = NoJob
        \/ pc \in {"connect", "report"} /\ job = MasterIsUp
    <3>1. Starting
      BY <1>1 DEF TypeInv
    <3> QED
      BY <3>1 DEF Starting
  <2> QED
    BY <2>1, <2>2
<1>2. CASE registered # "no"
  <2>1. JobTyped
    BY <1>2 DEF TypeInv, Running
  <2>2. CASE pc = "take" /\ job = NoJob
    BY <2>2 DEF NoJob
  <2>3. CASE pc \in {"connect", "report"} /\ job \in Connections
    BY <2>3, Kinds DEF Msgs
  <2>4. CASE pc = "hand" /\ job \in [kind : {"hand"}, id : Ids \cup {0}, to : Clients]
    BY <2>4
  <2>5. CASE /\ pc \in {"dispatch", "enlist"}
             /\ job \in [kind : {"dispatch"}, rs : Seq(Nat), to : Clients \cup {None}]
    BY <2>5
  <2> QED
    BY <2>1, <2>2, <2>3, <2>4, <2>5 DEF JobTyped
<1> QED
  BY <1>1, <1>2

Reported(o) == \E i \in DOMAIN inbox : Reports(inbox[i], o)

LEMMA ComeMeans ==
    ASSUME NEW o
    PROVE  ConnectionToCome(o) <=> Reported(o) \/ Reports(job, o)
BY DEF ConnectionToCome, Reported, Reports, Range

\* The queue of the worker's thread.
LEMMA ReportedMoves ==
    ASSUME TypeInv, NEW o
    PROVE  /\ inbox # <<>> /\ inbox' = Tail(inbox) =>
                  /\ Reported(o) => Reported(o)' \/ Reports(Head(inbox), o)
                  /\ Reported(o)' => Reported(o)
           /\ \A m \in Msgs : inbox' = Append(inbox, m) =>
                  (Reported(o)' <=> Reported(o) \/ Reports(m, o))
           /\ inbox' = inbox => (Reported(o)' <=> Reported(o))
<1>1. inbox \in Seq(Msgs)
  BY QueueTypes
<1>2. ASSUME inbox # <<>>, inbox' = Tail(inbox)
      PROVE  /\ Reported(o) => Reported(o)' \/ Reports(Head(inbox), o)
             /\ Reported(o)' => Reported(o)
  <2>1. /\ Head(inbox) = inbox[1]
        /\ \A i \in DOMAIN inbox' : i + 1 \in DOMAIN inbox /\ inbox'[i] = inbox[i + 1]
    BY <1>1, <1>2, TailFacts
  <2>2. ASSUME NEW i \in DOMAIN inbox, i # 1
        PROVE  i - 1 \in DOMAIN inbox' /\ inbox'[i - 1] = inbox[i]
    <3>1. /\ DOMAIN inbox = 1 .. Len(inbox) /\ DOMAIN Tail(inbox) = 1 .. Len(inbox) - 1
          /\ Len(inbox) \in Nat
      BY <1>1, <1>2, TailFacts
    <3>2. i - 1 \in DOMAIN inbox' /\ (i - 1) + 1 = i
      BY <1>2, <2>2, <3>1
    <3> QED
      BY <2>1, <3>2
  <2> QED
    BY <2>1, <2>2 DEF Reported
<1>3. ASSUME NEW m \in Msgs, inbox' = Append(inbox, m)
      PROVE  Reported(o)' <=> Reported(o) \/ Reports(m, o)
  <2>1. /\ \A i \in DOMAIN inbox : i \in DOMAIN inbox' /\ inbox'[i] = inbox[i]
        /\ Len(inbox) + 1 \in DOMAIN inbox' /\ inbox'[Len(inbox) + 1] = m
        /\ \A i \in DOMAIN inbox' : i \in DOMAIN inbox \/ i = Len(inbox) + 1
    BY <1>1, <1>3, AppendFacts
  <2> QED
    BY <2>1 DEF Reported, Reports
<1>4. ASSUME inbox' = inbox
      PROVE  Reported(o)' <=> Reported(o)
  BY <1>4 DEF Reported, Reports
<1> QED
  BY <1>2, <1>3, <1>4

\* A connection to come is lost only when it has come.
LEMMA ComeMoves ==
    ASSUME TypeInv, Next, NEW o \in Orders
    PROVE  /\ ConnectionToCome(o) =>
                  ConnectionToCome(o)' \/ (ClientConnected /\ Head(inbox).order = o)
           /\ ConnectionToCome(o)' =>
                  \/ ConnectionToCome(o)
                  \/ OnSceneProduceRequestMsg /\ Head(inbox).order = o
<1> USE DEF threadVars
<1>1. /\ ConnectionToCome(o) <=> Reported(o) \/ Reports(job, o)
      /\ ConnectionToCome(o)' <=> Reported(o)' \/ Reports(job', o)
  BY ComeMeans DEF ConnectionToCome, Reported, Reports, Range
<1>2. CASE inbox' = inbox /\ job' = job
  BY <1>1, <1>2, ReportedMoves
<1>3. CASE ReceiverReads
  <2>1. net # <<>> /\ net \in Seq(MasterMsgs) /\ inbox' = Append(inbox, Head(net)) /\ job' = job
    BY <1>3 DEF ReceiverReads, TypeInv
  <2>2. Head(net) \in MasterMsgs /\ Head(net) \in Msgs
    BY <2>1, TailFacts DEF Msgs
  <2>3. ~Reports(Head(net), o)
    BY <2>2, Kinds DEF Reports
  <2> QED
    BY <1>1, <2>1, <2>2, <2>3, ReportedMoves
<1>4. CASE ReportConnection
  <2>1. /\ job \in Msgs /\ inbox' = Append(inbox, job) /\ job' = NoJob
    BY <1>4, JobKinds DEF ReportConnection, Proceed
  <2>2. ~Reports(job', o)
    BY <2>1 DEF Reports, NoJob
  <2> QED
    BY <1>1, <2>1, <2>2, ReportedMoves
<1>5. ASSUME NEW kind, Take(kind), Reports(Head(inbox), o) => ClientConnected,
             Reports(job', o) => OnSceneProduceRequestMsg /\ Head(inbox).order = o
      PROVE  /\ ConnectionToCome(o) =>
                    ConnectionToCome(o)' \/ (ClientConnected /\ Head(inbox).order = o)
             /\ ConnectionToCome(o)' =>
                    \/ ConnectionToCome(o)
                    \/ OnSceneProduceRequestMsg /\ Head(inbox).order = o
  <2>1. inbox # <<>> /\ inbox' = Tail(inbox) /\ pc = "take"
    BY <1>5 DEF Take
  <2>2. ~Reports(job, o)
    BY <2>1, JobKinds DEF Reports
  <2>3. Reports(Head(inbox), o) => Head(inbox).order = o
    BY DEF Reports
  <2> QED
    BY <1>1, <1>5, <2>1, <2>2, <2>3, ReportedMoves
<1>6. CASE OnCreateServerResponse
  <2>1. Take("server") /\ job' = MasterIsUp
    BY <1>6 DEF OnCreateServerResponse, Proceed, MasterIsUp
  <2>2. ~Reports(job', o) /\ ~Reports(Head(inbox), o)
    BY <2>1, WorkerAssumption DEF Reports, Take, MasterIsUp
  <2> QED
    BY <1>5, <2>1, <2>2
<1>7. CASE RegisterWithMaster
  <2>1. Take("connected") /\ job' = NoJob /\ toMaster = None /\ "connected" # "server"
    BY <1>7 DEF RegisterWithMaster, Proceed
  <2>2. registered = "no"
    BY <2>1, WorkerAssumption DEF TypeInv, Running
  <2>3. Head(inbox) = MasterIsUp
    <3>1. Head(inbox) = IF "connected" = "server" THEN ServerIsUp ELSE MasterIsUp
      BY <2>1, <2>2, TakeFacts
    <3> QED
      BY <2>1, <3>1
  <2>4. ~Reports(job', o) /\ ~Reports(Head(inbox), o)
    BY <2>1, <2>3, WorkerAssumption DEF Reports, MasterIsUp, NoJob
  <2> QED
    BY <1>5, <2>1, <2>4
<1>8. CASE ClientConnected
  <2>1. Take("connected")
    BY <1>8 DEF ClientConnected
  <2>2. ~Reports(job', o)
    <3>1. pc = "take"
      BY <2>1 DEF Take
    <3>2. (\E x : job' = [kind |-> "hand", id |-> x, to |-> Head(inbox).to]) \/ job' = job
      BY <1>8 DEF ClientConnected, Proceed
    <3> QED
      BY <3>1, <3>2, JobKinds DEF Reports
  <2> QED
    BY <1>5, <1>8, <2>1, <2>2
<1>9. CASE OnWorkerRegistrationRespMsg \/ OnSceneProduceCleanupMsg
  <2>1. PICK kind \in {"registered", "cleanup"} : Take(kind) /\ job' = job /\ pc = "take"
    BY <1>9 DEF OnWorkerRegistrationRespMsg, OnSceneProduceCleanupMsg, Take
  <2>2. ~Reports(job', o) /\ ~Reports(Head(inbox), o)
    BY <2>1, JobKinds DEF Reports, Take
  <2> QED
    BY <1>5, <2>1, <2>2
<1>10. CASE OnSceneProduceRequestMsg
  <2>1. Take("scene") /\ job'.order = Head(inbox).order
    BY <1>10 DEF OnSceneProduceRequestMsg, Proceed
  <2>2. ~Reports(Head(inbox), o)
    BY <2>1 DEF Reports, Take
  <2> QED
    BY <1>5, <1>10, <2>1, <2>2 DEF Reports
<1>11. CASE OnPixelProduceRequestMsg
  <2>1. Take("pixels") /\ job'.kind = "dispatch"
    BY <1>11 DEF OnPixelProduceRequestMsg, Proceed
  <2>2. ~Reports(job', o) /\ ~Reports(Head(inbox), o)
    BY <2>1 DEF Reports, Take
  <2> QED
    BY <1>5, <2>1, <2>2
<1>12. CASE AllHanded \/ Dispatch \/ Enlist
  <2>1. inbox' = inbox /\ pc \in {"hand", "dispatch", "enlist"}
    BY <1>12 DEF AllHanded, Dispatch, Enlist
  <2>2. ~Reports(job, o)
    BY <2>1, JobKinds DEF Reports
  <2>3. \/ job' = NoJob \/ job' = job
        \/ pc \in {"dispatch", "enlist"} /\ job' = [job EXCEPT !.rs = Tail(job.rs)]
    BY <1>12 DEF AllHanded, Dispatch, Enlist, NextRequest, Proceed
  <2>4. ~Reports(job', o)
    <3>1. CASE pc \in {"dispatch", "enlist"} /\ job' = [job EXCEPT !.rs = Tail(job.rs)]
      <4>1. job \in [kind : {"dispatch"}, rs : Seq(Nat), to : Clients \cup {None}]
        BY <3>1, NextTypes DEF Running, JobTyped
      <4>2. job'.kind = "dispatch"
        BY <3>1, <4>1
      <4> QED
        BY <4>2 DEF Reports
    <3> QED
      BY <2>2, <2>3, <3>1 DEF Reports, NoJob
  <2> QED
    BY <1>1, <2>1, <2>2, <2>4, ReportedMoves
<1>13. CASE MakeConnection \/ HandConnection \/ Environment \/ \E p \in Pipelines : Pipeline(p)
  <2>1. inbox' = inbox /\ job' = job
    BY <1>13 DEF MakeConnection, HandConnection, Environment, MasterRegisters, MasterKicksOff,
       MasterRefills, MasterCleansUp, ClientQuits, Pipeline, ProduceNothing, ProducePixels,
       CheckConnectionAndSendResponse, Proceed
  <2> QED
    BY <1>2, <2>1
<1> QED
  BY <1>3, <1>4, <1>6, <1>7, <1>8, <1>9, <1>10, <1>11, <1>12, <1>13 DEF Next, WorkerThread

-----------------------------------------------------------------------------
(* What the master sends                                                   *)

\* The stage of the order when the master sends m about it.
Sending(m, o) ==
    /\ m.kind # "connected" /\ phase[o] # "over" /\ phase'[o] # "none"
    /\ m.kind = "scene" => phase[o] = "none"
    /\ m.kind = "cleanup" => phase'[o] = "over"

\* The scene is the first that is sent of an order, and nothing else is then.
SentInStage(ms) ==
    /\ net' = net \o ms
    /\ \A i \in DOMAIN ms : \A o \in Orders :
           About(ms[i], o) => Sending(ms[i], o) /\ (ms[i].kind = "scene" => i = 1)
    /\ \A o \in Orders : phase[o] = "none" /\ phase'[o] # "none" =>
           1 \in DOMAIN ms /\ IsScene(ms[1], o)

LEMMA MasterSends ==
    ASSUME TypeInv, Environment
    PROVE  \E ms \in Seq(Msgs) : SentInStage(ms)
<1>0. phase \in [Orders -> {"none", "rendering", "over"}]
  BY DEF TypeInv
<1>1. net \in Seq(Msgs) /\ \A m \in Msgs : Append(net, m) = net \o <<m>> /\ <<m>> \in Seq(Msgs)
  <2>1. net \in Seq(Msgs)
    BY QueueTypes
  <2> QED
    BY <2>1
<1>2. MasterMsgs \subseteq Msgs
  BY DEF Msgs
<1>3. ASSUME NEW m \in MasterMsgs, net' = Append(net, m),
             \A o \in Orders : About(m, o) => Sending(m, o) /\ m.kind # "scene",
             \A o \in Orders : phase'[o] # "none" => phase[o] # "none"
      PROVE  \E ms \in Seq(Msgs) : SentInStage(ms)
  <2>1. PICK ms : ms = <<m>>
    OBVIOUS
  <2>2. ms \in Seq(Msgs) /\ net' = net \o ms
    BY <1>1, <1>2, <1>3, <2>1
  <2>3. \A i \in DOMAIN ms : ms[i] = m
    BY <2>1
  <2>4. SentInStage(ms)
    BY <1>3, <2>2, <2>3 DEF SentInStage
  <2> QED
    BY <2>2, <2>4
<1>4. CASE MasterRegisters
  <2>1. PICK m : m = [kind |-> "registered"]
    OBVIOUS
  <2>2. m \in MasterMsgs /\ m.kind = "registered" /\ net' = Append(net, m) /\ phase' = phase
    BY <1>4, <2>1 DEF MasterMsgs, MasterRegisters
  <2> QED
    BY <1>3, <2>2 DEF About
<1>5. ASSUME NEW q \in Orders, MasterKicksOff(q)
      PROVE  \E ms \in Seq(Msgs) : SentInStage(ms)
  <2>1. PICK ps \in EachInTurn : Request(q, ps)
    BY <1>5 DEF MasterKicksOff
  <2>2. NewRequests(q, Requested(q))
    BY <2>1, TurnFacts, NewRequestsFacts
  <2>3. PICK m : m = Requested(q)
    OBVIOUS
  <2>4. PICK s : s = [kind |-> "scene", order |-> q]
    OBVIOUS
  <2>5. /\ s \in Msgs /\ s.kind = "scene" /\ s.order = q
        /\ m \in Msgs /\ m.kind = "pixels" /\ m.order = q
    BY <1>2, <2>2, <2>3, <2>4 DEF MasterMsgs, NewRequests
  <2>6. PICK ms : ms = <<s, m>>
    OBVIOUS
  <2>7. ms \in Seq(Msgs) /\ net' = net \o ms
    BY <1>5, <2>3, <2>4, <2>5, <2>6 DEF MasterKicksOff
  <2>8. /\ \A i \in DOMAIN ms : (i = 1 /\ ms[i] = s) \/ (i = 2 /\ ms[i] = m)
        /\ 1 \in DOMAIN ms /\ ms[1] = s
    BY <2>6
  <2>9. /\ phase[q] = "none" /\ phase'[q] = "rendering"
        /\ \A o \in Orders : o # q => phase'[o] = phase[o]
    BY <1>0, <1>5 DEF MasterKicksOff
  <2>10. ASSUME NEW i \in DOMAIN ms, NEW o \in Orders, About(ms[i], o)
         PROVE  Sending(ms[i], o) /\ (ms[i].kind = "scene" => i = 1)
    <3>1. o = q /\ ms[i].kind \in {"scene", "pixels"} /\ (ms[i].kind = "scene" => i = 1)
      BY <2>5, <2>8, <2>10 DEF About
    <3> QED
      BY <2>9, <3>1 DEF Sending
  <2>11. SentInStage(ms)
    BY <2>5, <2>7, <2>8, <2>9, <2>10 DEF SentInStage, IsScene
  <2> QED
    BY <2>7, <2>11
<1>6. ASSUME NEW q \in Orders, MasterRefills(q)
      PROVE  \E ms \in Seq(Msgs) : SentInStage(ms)
  <2>1. PICK p \in Pipelines : Request(q, <<p>>)
    BY <1>6 DEF MasterRefills
  <2>2. PICK n \in Nat \ {0} : <<p>> \in [1 .. n -> Pipelines]
    <3>1. 1 \in Nat \ {0} /\ <<p>> \in [1 .. 1 -> Pipelines]
      OBVIOUS
    <3> QED
      BY <3>1
  <2>3. NewRequests(q, Requested(q))
    BY <2>1, <2>2, NewRequestsFacts
  <2>4. PICK m : m = Requested(q)
    OBVIOUS
  <2>5. /\ m \in MasterMsgs /\ m.kind = "pixels" /\ m.order = q
        /\ net' = Append(net, m) /\ phase' = phase /\ phase[q] = "rendering"
    BY <1>6, <2>3, <2>4 DEF NewRequests, MasterRefills
  <2>6. \A o \in Orders : About(m, o) => Sending(m, o) /\ m.kind # "scene"
    BY <2>5 DEF About, Sending
  <2> QED
    BY <1>3, <2>5, <2>6
<1>7. ASSUME NEW q \in Orders, MasterCleansUp(q)
      PROVE  \E ms \in Seq(Msgs) : SentInStage(ms)
  <2>1. PICK m : m = [kind |-> "cleanup", order |-> q]
    OBVIOUS
  <2>2. /\ m \in MasterMsgs /\ m.kind = "cleanup" /\ m.order = q /\ net' = Append(net, m)
    BY <1>7, <2>1 DEF MasterMsgs, MasterCleansUp
  <2>3. /\ phase[q] = "rendering" /\ phase'[q] = "over"
        /\ \A o \in Orders : o # q => phase'[o] = phase[o]
    BY <1>0, <1>7 DEF MasterCleansUp
  <2>4. \A o \in Orders : About(m, o) => Sending(m, o) /\ m.kind # "scene"
    BY <2>2, <2>3 DEF About, Sending
  <2>5. \A o \in Orders : phase'[o] # "none" => phase[o] # "none"
    BY <2>3
  <2> QED
    BY <1>3, <2>2, <2>4, <2>5
<1>8. ASSUME NEW c \in Clients, ClientQuits(c)
      PROVE  \E ms \in Seq(Msgs) : SentInStage(ms)
  <2>1. net' = net /\ phase' = phase
    BY <1>8 DEF ClientQuits, masterVars
  <2>2. <<>> \in Seq(Msgs) /\ net \o <<>> = net /\ DOMAIN <<>> = {}
    BY <1>1
  <2>3. SentInStage(<<>>)
    BY <2>1, <2>2 DEF SentInStage
  <2> QED
    BY <2>2, <2>3
<1> QED
  BY <1>4, <1>5, <1>6, <1>7, <1>8 DEF Environment

\* Only the master's actions change what it knows.
LEMMA QuietMaster ==
    ASSUME Next, ~Environment
    PROVE  phase' = phase /\ asked' = asked
BY DEF Next, WorkerThread, OnCreateServerResponse, MakeConnection, ReportConnection,
   RegisterWithMaster, ClientConnected, HandConnection, AllHanded,
   OnWorkerRegistrationRespMsg, OnSceneProduceRequestMsg, OnSceneProduceCleanupMsg,
   OnPixelProduceRequestMsg, Dispatch, Enlist, Pipeline, ProduceNothing, ProducePixels,
   CheckConnectionAndSendResponse, ReceiverReads, masterVars

\* The stages of an order.
LEMMA PhaseMoves ==
    ASSUME TypeInv, Next, NEW o \in Orders
    PROVE  /\ phase[o] \in {"none", "rendering", "over"}
           /\ \/ phase'[o] = phase[o]
              \/ phase[o] = "none" /\ phase'[o] = "rendering" /\ Environment
              \/ /\ phase[o] = "rendering" /\ phase'[o] = "over" /\ Environment
                 /\ asked' = asked /\ answers' = answers
                 /\ \A r \in Open(o) : ~asked[r].work
           /\ ~Environment => phase' = phase /\ asked' = asked
<1>0. phase \in [Orders -> {"none", "rendering", "over"}] /\ phase[o] \in {"none", "rendering", "over"}
  BY DEF TypeInv
<1>1. CASE ~Environment
  BY <1>0, <1>1, QuietMaster
<1>2. CASE Environment
  <2>1. CASE MasterRegisters \/ \E c \in Clients : ClientQuits(c)
    BY <1>0, <1>2, <2>1 DEF MasterRegisters, ClientQuits, masterVars
  <2>2. ASSUME NEW q \in Orders, MasterKicksOff(q)
        PROVE  \/ phase'[o] = phase[o]
               \/ phase[o] = "none" /\ phase'[o] = "rendering"
    BY <1>0, <2>2 DEF MasterKicksOff
  <2>3. ASSUME NEW q \in Orders, MasterRefills(q)
        PROVE  phase'[o] = phase[o]
    BY <2>3 DEF MasterRefills
  <2>4. ASSUME NEW q \in Orders, MasterCleansUp(q)
        PROVE  \/ phase'[o] = phase[o]
               \/ /\ phase[o] = "rendering" /\ phase'[o] = "over"
                  /\ asked' = asked /\ answers' = answers
                  /\ \A r \in Open(o) : ~asked[r].work
    BY <1>0, <2>4 DEF MasterCleansUp, producerVars
  <2> QED
    BY <1>0, <1>2, <2>1, <2>2, <2>3, <2>4 DEF Environment
<1> QED
  BY <1>1, <1>2

\* New requests are for orders at work.
LEMMA NewAreOf ==
    ASSUME TypeInv, NEW o \in Orders, NEW n \in Nat, NEW ps \in [1 .. n -> Pipelines],
           Request(o, ps), NEW r \in DOMAIN asked', r \notin DOMAIN asked
    PROVE  asked'[r].order = o
<1>1. /\ asked' \in Seq(Produced) /\ Len(asked') = Len(asked) + n /\ Len(asked) \in Nat
      /\ \A i \in 1 .. n : asked'[Len(asked) + i].order = o
  BY RequestFacts
<1>2. DOMAIN asked = 1 .. Len(asked) /\ DOMAIN asked' = 1 .. Len(asked) + n
  BY <1>1, AskedFacts
<1>3. r - Len(asked) \in 1 .. n /\ Len(asked) + (r - Len(asked)) = r
  BY <1>1, <1>2
<1> QED
  BY <1>1, <1>3

LEMMA AskedMoves ==
    ASSUME TypeInv, Next, NEW r \in DOMAIN asked', r \notin DOMAIN asked
    PROVE  phase[asked'[r].order] # "over" /\ phase'[asked'[r].order] # "none"
<1>0. phase \in [Orders -> {"none", "rendering", "over"}]
  BY DEF TypeInv
<1>1. asked' # asked
  OBVIOUS
<1>2. Environment
  BY <1>1, QuietMaster
<1>3. ~MasterRegisters /\ \A c \in Clients : ~ClientQuits(c)
  BY <1>1 DEF MasterRegisters, ClientQuits, masterVars
<1>4. PICK o \in Orders : MasterKicksOff(o) \/ MasterRefills(o)
  BY <1>1, <1>2, <1>3 DEF Environment, MasterCleansUp
<1>5. CASE MasterKicksOff(o)
  <2>1. PICK ps \in EachInTurn : Request(o, ps)
    BY <1>5 DEF MasterKicksOff
  <2>2. asked'[r].order = o
    BY <2>1, TurnFacts, NewAreOf
  <2> QED
    BY <1>0, <1>5, <2>2 DEF MasterKicksOff
<1>6. CASE MasterRefills(o)
  <2>1. PICK p \in Pipelines : Request(o, <<p>>)
    BY <1>6 DEF MasterRefills
  <2>2. PICK n \in Nat : <<p>> \in [1 .. n -> Pipelines]
    <3>1. 1 \in Nat /\ <<p>> \in [1 .. 1 -> Pipelines]
      OBVIOUS
    <3> QED
      BY <3>1
  <2>3. asked'[r].order = o
    BY <2>1, <2>2, NewAreOf
  <2> QED
    BY <1>6, <2>3 DEF MasterRefills
<1> QED
  BY <1>4, <1>5, <1>6

-----------------------------------------------------------------------------
(* The scene comes before all else about an order                          *)

LEMMA AnsweredStays ==
    ASSUME TypeInv, Next, NEW r, Answered(r)
    PROVE  Answered(r)'
<1>1. r \in DOMAIN answers /\ answers[r] > 0 /\ answers \in [DOMAIN answers -> Nat]
  BY DEF Answered, TypeInv, RequestsTyped
<1>2. CASE UNCHANGED answers
  BY <1>1, <1>2 DEF Answered
<1>3. ASSUME NEW x, answers' = [answers EXCEPT ![x] = @ + 1]
      PROVE  Answered(r)'
  <2>1. r \in DOMAIN answers' /\ answers'[r] > 0
    BY <1>1, <1>3
  <2> QED
    BY <2>1 DEF Answered
<1>4. ASSUME NEW x, NEW y, answers' = Inserted(answers, x, y)
      PROVE  Answered(r)'
  BY <1>1, <1>4 DEF Answered, Inserted
<1>5. \/ UNCHANGED answers
      \/ \E x : answers' = [answers EXCEPT ![x] = @ + 1]
      \/ \E x, y : answers' = Inserted(answers, x, y)
  BY DEF Next, WorkerThread, OnCreateServerResponse, MakeConnection, ReportConnection,
     RegisterWithMaster, ClientConnected, HandConnection, SendParked, DoCommandComplete, AllHanded,
     OnWorkerRegistrationRespMsg, OnSceneProduceRequestMsg, OnSceneProduceCleanupMsg,
     OnPixelProduceRequestMsg, Dispatch, Enlist, Pipeline, ProduceNothing, ProducePixels,
     CheckConnectionAndSendResponse, ReceiverReads, Environment, MasterRegisters,
     MasterKicksOff, MasterRefills, MasterCleansUp, ClientQuits, producerVars
<1> QED
  BY <1>2, <1>3, <1>4, <1>5

LEMMA ComingCases ==
    ASSUME TypeInv, Next
    PROVE  \/ Coming' = Coming
           \/ \E kind : Take(kind) /\ net' = net /\ (kind = "scene" => OnSceneProduceRequestMsg)
           \/ ReportConnection
           \/ Environment
<1>1. CASE \/ MakeConnection \/ HandConnection \/ AllHanded \/ Dispatch \/ Enlist
           \/ \E p \in Pipelines : Pipeline(p)
  BY <1>1 DEF MakeConnection, HandConnection, AllHanded, Dispatch, Enlist, Pipeline,
     ProduceNothing, ProducePixels, CheckConnectionAndSendResponse, threadVars, Coming
<1>2. CASE ReceiverReads
  BY <1>2, ReceiverComing
<1>3. CASE \/ OnCreateServerResponse \/ RegisterWithMaster \/ ClientConnected
           \/ OnWorkerRegistrationRespMsg \/ OnSceneProduceCleanupMsg \/ OnPixelProduceRequestMsg
  <2>1. PICK kind \in {"server", "connected", "registered", "cleanup", "pixels"} :
            Take(kind) /\ net' = net
    BY <1>3 DEF OnCreateServerResponse, RegisterWithMaster, ClientConnected,
       OnWorkerRegistrationRespMsg, OnSceneProduceCleanupMsg, OnPixelProduceRequestMsg
  <2>2. kind # "scene"
    BY <2>1
  <2> QED
    BY <2>1, <2>2
<1>4. CASE OnSceneProduceRequestMsg
  <2>1. Take("scene") /\ net' = net
    BY <1>4 DEF OnSceneProduceRequestMsg
  <2> QED
    BY <1>4, <2>1
<1> QED
  BY <1>1, <1>2, <1>3, <1>4 DEF Next, WorkerThread

\* The scene of an order is unheard from when the master sends it until it is taken.
LEMMA UnheardMoves ==
    ASSUME TypeInv, Next, NEW o \in Orders
    PROVE  /\ Unheard(o)' => Unheard(o) \/ phase[o] = "none"
           /\ Unheard(o) => Unheard(o)' \/ (OnSceneProduceRequestMsg /\ Head(inbox).order = o)
           /\ phase[o] = "none" /\ phase'[o] # "none" => Unheard(o)'
<1>0. ~Environment => phase' = phase
  BY QuietMaster
<1>1. CASE Coming' = Coming /\ ~Environment
  BY <1>0, <1>1 DEF Unheard, IsScene
<1>2. CASE ReportConnection /\ ~Environment
  <2>1. job.kind = "connected"
    BY <1>2, JobKinds DEF ReportConnection
  <2>2. ASSUME NEW i \in DOMAIN Coming', IsScene(Coming'[i], o)
        PROVE  Unheard(o)
    <3>1. i # Len(inbox) + 1
      BY <1>2, <2>1, <2>2, ReportComing DEF IsScene
    <3>2. \E k \in DOMAIN Coming : Coming[k] = Coming'[i]
      BY <1>2, <3>1, ReportComing
    <3> QED
      BY <2>2, <3>2 DEF Unheard
  <2>3. ASSUME NEW i \in DOMAIN Coming, IsScene(Coming[i], o)
        PROVE  Unheard(o)'
    <3>1. \E k \in DOMAIN Coming' : Coming'[k] = Coming[i]
      BY <1>2, ReportComing
    <3> QED
      BY <2>3, <3>1 DEF Unheard, IsScene
  <2> QED
    BY <1>0, <1>2, <2>2, <2>3 DEF Unheard, IsScene
<1>3. ASSUME NEW kind, Take(kind), net' = net, ~Environment,
             kind = "scene" => OnSceneProduceRequestMsg
      PROVE  /\ Unheard(o)' => Unheard(o)
             /\ Unheard(o) => Unheard(o)' \/ (OnSceneProduceRequestMsg /\ Head(inbox).order = o)
  <2>1. /\ 1 \in DOMAIN Coming /\ Coming[1] = Head(inbox) /\ Coming[1].kind = kind
        /\ \A i \in DOMAIN Coming' : /\ i \in Nat \ {0} /\ i + 1 \in DOMAIN Coming
                                     /\ Coming'[i] = Coming[i + 1]
        /\ \A i \in DOMAIN Coming : i = 1 \/ (i - 1 \in DOMAIN Coming' /\ i \in Nat)
    BY <1>3, TakeComing
  <2>2. ASSUME NEW i \in DOMAIN Coming, i # 1
        PROVE  i - 1 \in DOMAIN Coming' /\ Coming'[i - 1] = Coming[i]
    <3>1. i - 1 \in DOMAIN Coming' /\ (i - 1) + 1 = i
      BY <2>1, <2>2
    <3> QED
      BY <2>1, <3>1
  <2>3. Unheard(o)' => Unheard(o)
    BY <2>1 DEF Unheard, IsScene
  <2>4. ASSUME NEW i \in DOMAIN Coming, IsScene(Coming[i], o), i # 1
        PROVE  Unheard(o)'
    BY <2>2, <2>4 DEF Unheard, IsScene
  <2>5. ASSUME IsScene(Coming[1], o)
        PROVE  OnSceneProduceRequestMsg /\ Head(inbox).order = o
    BY <1>3, <2>1, <2>5 DEF IsScene
  <2> QED
    BY <2>3, <2>4, <2>5 DEF Unheard
<1>4. CASE Environment
  <2>1. PICK ms \in Seq(Msgs) : SentInStage(ms)
    BY <1>4, MasterSends
  <2>2. inbox' = inbox
    BY <1>4 DEF Environment, MasterRegisters, MasterKicksOff, MasterRefills, MasterCleansUp,
       ClientQuits, threadVars
  <2>3. /\ Len(Coming) \in Nat /\ Len(Coming') = Len(Coming) + Len(ms)
        /\ Coming \in Seq(Msgs) /\ Coming' \in Seq(Msgs)
        /\ \A i \in DOMAIN Coming : i \in DOMAIN Coming' /\ Coming'[i] = Coming[i]
        /\ \A i \in DOMAIN Coming' : i \in DOMAIN Coming
               \/ (i - Len(Coming) \in DOMAIN ms /\ i \in Nat /\ i > Len(Coming)
                      /\ Coming'[i] = ms[i - Len(Coming)])
    BY <2>1, <2>2, SendComing DEF SentInStage
  <2>4. Unheard(o) => Unheard(o)'
    BY <2>3 DEF Unheard, IsScene
  <2>5. ASSUME NEW i \in DOMAIN Coming', IsScene(Coming'[i], o), i \notin DOMAIN Coming
        PROVE  phase[o] = "none"
    BY <2>1, <2>3, <2>5 DEF SentInStage, Sending, About, IsScene
  <2>6. ASSUME phase[o] = "none", phase'[o] # "none"
        PROVE  Unheard(o)'
    <3>1. 1 \in DOMAIN ms /\ IsScene(ms[1], o)
      BY <2>1, <2>6 DEF SentInStage
    <3>2. Len(Coming) + 1 \in DOMAIN Coming' /\ Len(Coming) + 1 \notin DOMAIN Coming
          /\ (Len(Coming) + 1) - Len(Coming) = 1
      BY <2>1, <2>3, <3>1
    <3>3. Coming'[Len(Coming) + 1] = ms[1]
      BY <2>3, <3>2
    <3> QED
      BY <3>1, <3>2, <3>3 DEF Unheard, IsScene
  <2> QED
    BY <2>3, <2>4, <2>5, <2>6 DEF Unheard, IsScene
<1> QED
  BY <1>0, <1>1, <1>2, <1>3, <1>4, ComingCases

LEMMA HeadHeard ==
    ASSUME TypeInv, NEW o \in Orders, Ordered(o), SceneFirst(o),
           NEW kind, Take(kind), net' = net, About(Head(inbox), o)
    PROVE  phase[o] # "none" /\ ~Unheard(o)' /\ (kind # "scene" => ~Unheard(o))
<1>1. /\ 1 \in DOMAIN Coming /\ Coming[1] = Head(inbox) /\ Coming[1].kind = kind
      /\ Coming \in Seq(Msgs)
      /\ \A i \in DOMAIN Coming' : /\ i \in Nat \ {0} /\ i + 1 \in DOMAIN Coming
                                   /\ Coming'[i] = Coming[i + 1]
  BY TakeComing
<1>2. phase[o] # "none"
  BY <1>1 DEF Ordered
<1>3. ASSUME NEW i \in DOMAIN Coming, IsScene(Coming[i], o)
      PROVE  i = 1 /\ kind = "scene"
  <2>1. i <= 1 /\ i \in Nat \ {0}
    BY <1>1, <1>3 DEF SceneFirst
  <2>2. i = 1
    BY <2>1
  <2> QED
    BY <1>1, <1>3, <2>2 DEF IsScene
<1>4. ASSUME NEW i \in DOMAIN Coming', IsScene(Coming'[i], o)
      PROVE  FALSE
  <2>1. i + 1 = 1 /\ i \in Nat \ {0}
    BY <1>1, <1>3, <1>4
  <2> QED
    BY <2>1
<1> QED
  BY <1>2, <1>3, <1>4 DEF Unheard, IsScene

\* What has not been handled is not handled by a step that leaves it so.
LEMMA StillUntouched ==
    ASSUME TypeInv, Next, NEW o \in Orders, OrderOfLife(o),
           phase'[o] = "none" \/ Unheard(o)'
    PROVE  /\ Untouched(o)
           /\ \A kind : Take(kind) /\ net' = net => ~About(Head(inbox), o)
<1>1. phase'[o] = "none" => phase[o] = "none"
  BY PhaseMoves
<1>2. phase[o] = "none" \/ Unheard(o)
  BY <1>1, UnheardMoves
<1>3. Untouched(o)
  BY <1>2 DEF OrderOfLife
<1>4. ASSUME NEW kind, Take(kind), net' = net, About(Head(inbox), o)
      PROVE  FALSE
  <2>1. phase[o] # "none" /\ ~Unheard(o)'
    BY <1>4, HeadHeard DEF OrderOfLife
  <2> QED
    BY <1>1, <2>1
<1> QED
  BY <1>3, <1>4

LEMMA OrderedStep ==
    ASSUME TypeInv, Next, NEW o \in Orders, OrderOfLife(o)
    PROVE  Ordered(o)'
<1>0. Ordered(o) /\ (phase[o] = "none" => Untouched(o))
  BY DEF OrderOfLife
<1>1. AskedGrows
  BY AskedGrowsStep
<1>2. phase'[o] = "over" \/ phase'[o] = phase[o] \/ (phase[o] = "none" /\ phase'[o] = "rendering")
  BY PhaseMoves
\* What comes has been coming, or is sent, or is the report of a connection.
<1>3. ASSUME NEW i \in DOMAIN Coming', About(Coming'[i], o)
      PROVE  /\ Coming'[i].kind = "cleanup" => phase'[o] = "over"
             /\ phase'[o] # "none"
  <2>1. ASSUME NEW k \in DOMAIN Coming, Coming[k] = Coming'[i]
        PROVE  /\ Coming'[i].kind = "cleanup" => phase'[o] = "over"
               /\ phase'[o] # "none"
    <3>1. phase[o] # "none" /\ (Coming'[i].kind = "cleanup" => phase[o] = "over")
      BY <1>0, <1>3, <2>1 DEF Ordered, About
    <3> QED
      BY <1>2, <3>1
  <2>2. CASE Coming' = Coming
    BY <2>1, <2>2
  <2>3. CASE \E kind : Take(kind) /\ net' = net
    BY <2>1, <2>3, TakeComing
  <2>4. CASE ReportConnection
    <3>1. CASE i = Len(inbox) + 1
      <4>1. Coming'[i] = job /\ job.kind = "connected" /\ job.order = o /\ pc = "report"
        <5>1. pc = "report"
          BY <2>4 DEF ReportConnection
        <5> QED
          BY <1>3, <2>4, <3>1, <5>1, ReportComing, JobKinds DEF About
      <4>2. ConnectionToCome(o)
        BY <4>1 DEF ConnectionToCome
      <4>3. phase[o] # "none"
        BY <1>0, <4>2 DEF Untouched
      <4> QED
        BY <1>2, <4>1, <4>3
    <3>2. CASE i # Len(inbox) + 1
      <4>1. \E k \in DOMAIN Coming : Coming[k] = Coming'[i]
        BY <2>4, <3>2, ReportComing
      <4> QED
        BY <2>1, <4>1
    <3> QED
      BY <3>1, <3>2
  <2>5. CASE Environment
    <3>1. PICK ms \in Seq(Msgs) : SentInStage(ms)
      BY <2>5, MasterSends
    <3>2. inbox' = inbox
      BY <2>5 DEF Environment, MasterRegisters, MasterKicksOff, MasterRefills, MasterCleansUp,
         ClientQuits, threadVars
    <3>3. /\ \A k \in DOMAIN Coming : Coming'[k] = Coming[k]
          /\ i \in DOMAIN Coming
               \/ (i - Len(Coming) \in DOMAIN ms /\ Coming'[i] = ms[i - Len(Coming)])
      BY <3>1, <3>2, SendComing DEF SentInStage
    <3>4. CASE i \in DOMAIN Coming
      BY <2>1, <3>3, <3>4
    <3>5. CASE i - Len(Coming) \in DOMAIN ms /\ Coming'[i] = ms[i - Len(Coming)]
      BY <1>3, <3>1, <3>5 DEF SentInStage, Sending
    <3> QED
      BY <3>3, <3>4, <3>5
  <2> QED
    BY <2>2, <2>3, <2>4, <2>5, ComingCases
<1>4. ASSUME phase'[o] = "over", NEW r \in DOMAIN asked', asked'[r].order = o, asked'[r].work
      PROVE  Answered(r)'
  <2>1. r \in DOMAIN asked /\ asked'[r] = asked[r]
    BY <1>1, <1>4, AskedMoves, PhaseMoves DEF AskedGrows
  <2>2. CASE phase[o] = "over"
    BY <1>0, <1>4, <2>1, <2>2, AnsweredStays DEF Ordered
  <2>3. CASE phase[o] # "over"
    <3>1. \A x \in Open(o) : ~asked[x].work
      BY <1>4, <2>3, PhaseMoves
    <3>2. Answered(r)
      BY <1>4, <2>1, <3>1 DEF Open
    <3> QED
      BY <3>2, AnsweredStays
  <2> QED
    BY <2>2, <2>3
<1>5. ASSUME phase'[o] = "none", NEW r \in DOMAIN asked'
      PROVE  asked'[r].order # o
  <2>1. phase[o] = "none"
    BY <1>5, PhaseMoves
  <2> QED
    BY <1>0, <1>1, <1>5, <2>1, AskedMoves DEF Ordered, AskedGrows
<1> QED
  BY <1>3, <1>4, <1>5 DEF Ordered, About

LEMMA SceneFirstStep ==
    ASSUME TypeInv, Next, NEW o \in Orders, OrderOfLife(o)
    PROVE  SceneFirst(o)'
<1>0. SceneFirst(o) /\ Coming \in Seq(Msgs)
  BY QueueTypes DEF OrderOfLife
<1> SUFFICES ASSUME NEW i \in DOMAIN Coming', NEW k \in DOMAIN Coming',
                    IsScene(Coming'[i], o), About(Coming'[k], o)
             PROVE  i <= k
  BY DEF SceneFirst, IsScene, About
<1>1. Unheard(o)'
  BY DEF Unheard, IsScene
<1>2. Untouched(o)
  BY <1>1, StillUntouched
<1>3. CASE Coming' = Coming
  BY <1>0, <1>3 DEF SceneFirst
<1>4. ASSUME NEW kind, Take(kind), net' = net
      PROVE  i <= k
  <2>1. \A n \in DOMAIN Coming' : /\ n \in Nat \ {0} /\ n + 1 \in DOMAIN Coming
                                  /\ Coming'[n] = Coming[n + 1]
    BY <1>4, TakeComing
  <2>2. i + 1 <= k + 1
    BY <1>0, <2>1 DEF SceneFirst
  <2> QED
    BY <2>1, <2>2
<1>5. CASE ReportConnection
  <2>1. job.kind = "connected" /\ pc = "report"
    BY <1>5, JobKinds DEF ReportConnection
  <2>2. ~About(job, o)
    BY <1>2, <2>1 DEF About, Untouched, ConnectionToCome
  <2>3. Coming'[Len(inbox) + 1] = job
    BY <1>5, ReportComing
  <2>4. i # Len(inbox) + 1 /\ k # Len(inbox) + 1
    BY <2>1, <2>2, <2>3 DEF IsScene
  <2>5. /\ Len(inbox) \in Nat /\ i \in Nat
        /\ \/ i <= Len(inbox) /\ i \in DOMAIN Coming /\ Coming'[i] = Coming[i]
           \/ i > Len(inbox) + 1 /\ i - 1 \in DOMAIN Coming /\ Coming'[i] = Coming[i - 1]
    BY <1>5, <2>4, ReportComing
  <2>6. /\ k \in Nat
        /\ \/ k <= Len(inbox) /\ k \in DOMAIN Coming /\ Coming'[k] = Coming[k]
           \/ k > Len(inbox) + 1 /\ k - 1 \in DOMAIN Coming /\ Coming'[k] = Coming[k - 1]
    BY <1>5, <2>4, ReportComing
  <2>7. CASE i <= Len(inbox) /\ i \in DOMAIN Coming /\ Coming'[i] = Coming[i]
    <3>1. CASE k <= Len(inbox) /\ k \in DOMAIN Coming /\ Coming'[k] = Coming[k]
      BY <1>0, <2>7, <3>1 DEF SceneFirst
    <3>2. CASE k > Len(inbox) + 1
      BY <2>5, <2>6, <2>7, <3>2
    <3> QED
      BY <2>6, <3>1, <3>2
  <2>8. CASE i > Len(inbox) + 1 /\ i - 1 \in DOMAIN Coming /\ Coming'[i] = Coming[i - 1]
    <3>1. CASE k <= Len(inbox) /\ k \in DOMAIN Coming /\ Coming'[k] = Coming[k]
      <4>1. i - 1 <= k
        BY <1>0, <2>8, <3>1 DEF SceneFirst
      <4> QED
        BY <2>5, <2>6, <2>8, <3>1, <4>1
    <3>2. CASE k > Len(inbox) + 1 /\ k - 1 \in DOMAIN Coming /\ Coming'[k] = Coming[k - 1]
      <4>1. i - 1 <= k - 1
        BY <1>0, <2>8, <3>2 DEF SceneFirst
      <4> QED
        BY <2>5, <2>6, <4>1
    <3> QED
      BY <2>6, <3>1, <3>2
  <2> QED
    BY <2>5, <2>7, <2>8
<1>6. CASE Environment
  <2>1. PICK ms \in Seq(Msgs) : SentInStage(ms)
    BY <1>6, MasterSends
  <2>2. inbox' = inbox
    BY <1>6 DEF Environment, MasterRegisters, MasterKicksOff, MasterRefills, MasterCleansUp,
       ClientQuits, threadVars
  <2>3. /\ Len(Coming) \in Nat
        /\ \A n \in DOMAIN Coming : n \in 1 .. Len(Coming) /\ Coming'[n] = Coming[n]
        /\ \A n \in DOMAIN Coming' : n \in DOMAIN Coming
               \/ (n - Len(Coming) \in DOMAIN ms /\ n \in Nat /\ n > Len(Coming)
                      /\ Coming'[n] = ms[n - Len(Coming)])
    BY <2>1, <2>2, SendComing DEF SentInStage
  <2>4. CASE i \in DOMAIN Coming /\ k \in DOMAIN Coming
    BY <1>0, <2>3, <2>4 DEF SceneFirst
  <2>5. CASE i \in DOMAIN Coming /\ k \notin DOMAIN Coming
    BY <2>3, <2>5
  <2>6. CASE i \notin DOMAIN Coming
    <3>1. i - Len(Coming) \in DOMAIN ms /\ i \in Nat /\ Coming'[i] = ms[i - Len(Coming)]
      BY <2>3, <2>6
    <3>2. i - Len(Coming) = 1 /\ phase[o] = "none"
      BY <2>1, <3>1 DEF SentInStage, Sending, About, IsScene
    <3>3. k \notin DOMAIN Coming
      BY <2>3, <3>2 DEF OrderOfLife, Ordered
    <3>4. k \in Nat /\ k > Len(Coming)
      BY <2>3, <3>3
    <3> QED
      BY <2>3, <3>1, <3>2, <3>4
  <2> QED
    BY <2>4, <2>5, <2>6
<1> QED
  BY <1>3, <1>4, <1>5, <1>6, ComingCases

-----------------------------------------------------------------------------
(* What the worker keeps of an order                                       *)

\* The maps of the worker.
MapsStay == UNCHANGED <<file, client, scene, conn>>

LEMMA MapCases ==
    ASSUME Next
    PROVE  \/ MapsStay
           \/ ClientConnected /\ UNCHANGED <<file, client>>
           \/ OnSceneProduceRequestMsg /\ UNCHANGED conn
           \/ OnSceneProduceCleanupMsg
BY DEF Next, WorkerThread, OnCreateServerResponse, MakeConnection, ReportConnection,
   RegisterWithMaster, ClientConnected, HandConnection, AllHanded,
   OnWorkerRegistrationRespMsg, OnSceneProduceRequestMsg, OnSceneProduceCleanupMsg,
   OnPixelProduceRequestMsg, Dispatch, Enlist, Pipeline, ProduceNothing, ProducePixels,
   CheckConnectionAndSendResponse, ReceiverReads, Environment, MasterRegisters,
   MasterKicksOff, MasterRefills, MasterCleansUp, ClientQuits, mapVars, MapsStay

LEMMA MasterMsgTaken ==
    ASSUME TypeInv, NEW kind \in {"scene", "cleanup", "pixels"}, Take(kind)
    PROVE  /\ Head(inbox) \in MasterMsgs /\ Head(inbox).kind = kind
           /\ Head(inbox).order \in Orders /\ About(Head(inbox), Head(inbox).order)
<1>1. kind # "server" /\ kind # "connected" /\ Head(inbox).kind = kind
  BY DEF Take
<1>2. Head(inbox) \in MasterMsgs
  BY <1>1, TakeFacts
<1> QED
  BY <1>1, <1>2, Kinds DEF About

LEMMA FilesRightStep ==
    ASSUME TypeInv, FilesRight, DistinctIds, Next
    PROVE  FilesRight'
<1>0. SceneId \in [Orders -> Nat \ {0}] /\ ClientOf \in [Orders -> Clients] /\ DOMAIN client = DOMAIN file
  BY WorkerAssumption DEF TypeInv, MapsTyped
<1>1. CASE UNCHANGED <<file, client>>
  BY <1>1 DEF FilesRight
<1>2. CASE OnSceneProduceRequestMsg
  <2>1. PICK q : q = Head(inbox).order
    OBVIOUS
  <2>2. /\ file' = Inserted(file, SceneId[q], q)
        /\ client' = Inserted(client, SceneId[q], ClientOf[q])
    BY <1>2, <2>1 DEF OnSceneProduceRequestMsg
  <2>3. ASSUME NEW id \in DOMAIN file'
        PROVE  SceneId[file'[id]] = id /\ client'[id] = ClientOf[file'[id]]
    <3>1. CASE id \in DOMAIN file
      BY <1>0, <2>2, <3>1 DEF FilesRight, Inserted
    <3>2. CASE id \notin DOMAIN file
      <4>1. id = SceneId[q] /\ file'[id] = q /\ client'[id] = ClientOf[q]
        BY <1>0, <2>2, <3>2 DEF Inserted
      <4> QED
        BY <4>1
    <3> QED
      BY <3>1, <3>2
  <2> QED
    BY <2>3 DEF FilesRight
<1>3. CASE OnSceneProduceCleanupMsg
  <2>1. PICK id : id = SceneId[Head(inbox).order]
    OBVIOUS
  <2>2. \/ UNCHANGED <<file, client>>
        \/ file' = Without(file, id) /\ client' = Without(client, id)
    BY <1>3, <2>1 DEF OnSceneProduceCleanupMsg, mapVars
  <2> QED
    BY <1>0, <1>1, <2>2 DEF FilesRight, Without
<1> QED
  BY <1>1, <1>2, <1>3, MapCases DEF MapsStay

\* New producers, and the requests being handed out, are of the order they were of.
LEMMA ProducersMove ==
    ASSUME TypeInv, OnceInv, Next, NEW o \in Orders, Untouched(o),
           \A kind : Take(kind) /\ net' = net => ~About(Head(inbox), o)
    PROVE  /\ \A r \in DOMAIN link' : asked'[r].order # o
           /\ pc' \in {"dispatch", "enlist"} => asked'[job'.rs[1]].order # o
<1> USE DEF threadVars, producerVars, masterVars, Proceed
<1>0. /\ \A r \in DOMAIN link : r \in DOMAIN asked /\ asked[r].order # o
      /\ pc \in {"dispatch", "enlist"} =>
             job.rs[1] \in DOMAIN asked /\ asked[job.rs[1]].order # o
  BY NextTypes DEF Untouched, OnceInv, LinkInv, DispatchInv
<1>1. AskedGrows
  BY AskedGrowsStep
<1>2. CASE DOMAIN link' = DOMAIN link /\ UNCHANGED <<pc, job>>
  BY <1>0, <1>1, <1>2 DEF AskedGrows
<1>3. CASE link' = link /\ pc' \notin {"dispatch", "enlist"}
  BY <1>0, <1>1, <1>3 DEF AskedGrows
<1>4. CASE OnPixelProduceRequestMsg
  <2>1. /\ Take("pixels") /\ net' = net /\ link' = link /\ asked' = asked
        /\ job'.rs = Head(inbox).rs
    BY <1>4 DEF OnPixelProduceRequestMsg
  <2>2. Head(inbox).kind = "pixels" /\ Head(inbox).order # o /\ Head(inbox).rs \in Seq(Nat)
    BY <2>1, MasterMsgTaken, Kinds DEF About
  <2>3. 1 \in DOMAIN Coming /\ Coming[1] = Head(inbox)
    BY <2>1, TakeComing
  <2>4. Fresh(Head(inbox))
    BY <2>2, <2>3 DEF OnceInv, MsgInv
  <2>5. 1 \in DOMAIN Head(inbox).rs
    BY <2>2, <2>4 DEF Fresh
  <2> QED
    BY <1>0, <2>1, <2>2, <2>4, <2>5 DEF Fresh
<1>5. CASE Dispatch \/ Enlist
  <2>1. /\ pc \in {"dispatch", "enlist"} /\ asked' = asked
        /\ NextRequest \/ (pc' = "enlist" /\ job' = job)
        /\ link' = link \/ link' = Inserted(link, Head(job.rs), job.to)
    BY <1>5 DEF Dispatch, Enlist
  <2>2. Head(job.rs) = job.rs[1]
    BY <2>1, NextTypes
  <2>3. pc' \in {"dispatch", "enlist"} => asked'[job'.rs[1]].order = asked[job.rs[1]].order
    BY <2>1, NextOwner DEF OnceInv
  <2>4. DOMAIN link' \subseteq DOMAIN link \cup {job.rs[1]}
    BY <2>1, <2>2 DEF Inserted
  <2> QED
    BY <1>0, <2>1, <2>3, <2>4
<1>6. CASE \/ OnCreateServerResponse \/ MakeConnection \/ ReportConnection
           \/ RegisterWithMaster \/ ClientConnected \/ AllHanded \/ OnSceneProduceRequestMsg
  <2>1. link' = link /\ pc' \notin {"dispatch", "enlist"}
    BY <1>6 DEF OnCreateServerResponse, MakeConnection, ReportConnection, RegisterWithMaster,
       ClientConnected, AllHanded, OnSceneProduceRequestMsg, Take
  <2> QED
    BY <1>3, <2>1
<1>7. CASE \/ ReceiverReads \/ Environment \/ OnWorkerRegistrationRespMsg
           \/ OnSceneProduceCleanupMsg \/ HandConnection
           \/ \E p \in Pipelines : Pipeline(p)
  <2>1. DOMAIN link' = DOMAIN link /\ UNCHANGED <<pc, job>>
    BY <1>7 DEF ReceiverReads, Environment, OnWorkerRegistrationRespMsg,
       OnSceneProduceCleanupMsg, HandConnection, Pipeline, ProduceNothing, ProducePixels,
       CheckConnectionAndSendResponse, MasterRegisters, MasterKicksOff, MasterRefills,
       MasterCleansUp, ClientQuits
  <2> QED
    BY <1>2, <2>1
<1> QED
  BY <1>4, <1>5, <1>6, <1>7 DEF Next, WorkerThread

LEMMA UntouchedStep ==
    ASSUME TypeInv, OnceInv, ConnectionsRight, MapsRight, DistinctIds, DistinctClients,
           Next, ~misread', NEW o \in Orders, OrderOfLife(o),
           phase'[o] = "none" \/ Unheard(o)'
    PROVE  Untouched(o)'
<1>0. SceneId \in [Orders -> Nat \ {0}] /\ ClientOf \in [Orders -> Clients]
  BY WorkerAssumption
<1>1. /\ Untouched(o)
      /\ \A kind : Take(kind) /\ net' = net => ~About(Head(inbox), o)
  BY StillUntouched
<1>2. /\ \A r \in DOMAIN link' : asked'[r].order # o
      /\ pc' \in {"dispatch", "enlist"} => asked'[job'.rs[1]].order # o
  BY <1>1, ProducersMove
<1>3. ASSUME OnSceneProduceRequestMsg
      PROVE  Head(inbox).order \in Orders /\ Head(inbox).order # o
  <2>1. Take("scene") /\ net' = net
    BY <1>3 DEF OnSceneProduceRequestMsg
  <2> QED
    BY <1>1, <2>1, MasterMsgTaken
<1>4. ~ConnectionToCome(o)'
  BY <1>1, <1>3, ComeMoves DEF Untouched
<1>5. /\ SceneId[o] \notin DOMAIN file' /\ SceneId[o] \notin DOMAIN conn'
      /\ ClientOf[o] \notin DOMAIN scene'
  <2>0. /\ SceneId[o] \notin DOMAIN file /\ SceneId[o] \notin DOMAIN conn
        /\ ClientOf[o] \notin DOMAIN scene
    BY <1>1 DEF Untouched
  <2>1. CASE MapsStay
    BY <2>0, <2>1 DEF MapsStay
  <2>2. CASE OnSceneProduceRequestMsg /\ UNCHANGED conn
    <3>1. PICK q \in Orders : q = Head(inbox).order /\ q # o
      BY <1>3, <2>2
    <3>2. file' = Inserted(file, SceneId[q], q) /\ scene' = Inserted(scene, ClientOf[q], SceneId[q])
      BY <2>2, <3>1 DEF OnSceneProduceRequestMsg
    <3>3. SceneId[q] # SceneId[o] /\ ClientOf[q] # ClientOf[o]
      BY <3>1 DEF DistinctIds, DistinctClients
    <3> QED
      BY <2>0, <2>2, <3>2, <3>3 DEF Inserted
  <2>3. CASE ClientConnected /\ UNCHANGED <<file, client>>
    <3>1. PICK m : m = Head(inbox)
      OBVIOUS
    <3>2. /\ m.order \in Orders /\ Reports(m, m.order) /\ m.to = ClientOf[m.order]
          /\ Take("connected") /\ net' = net
          /\ \/ scene' = Inserted(scene, m.to, 0) /\ conn' = Inserted(conn, scene'[m.to], m.to)
             \/ UNCHANGED <<scene, conn>>
      BY <2>3, <3>1, ConnectedFacts
    <3>3. m.order # o
      BY <1>1, <3>1, <3>2 DEF About, Reports
    <3>4. m.to # ClientOf[o]
      BY <3>2, <3>3 DEF DistinctClients
    <3>5. CASE scene' = Inserted(scene, m.to, 0) /\ conn' = Inserted(conn, scene'[m.to], m.to)
      <4>1. ASSUME scene'[m.to] = SceneId[o]
            PROVE  FALSE
        <5>1. m.to \in DOMAIN scene /\ scene[m.to] = SceneId[o] /\ SceneId[o] # 0
          BY <1>0, <3>5, <4>1 DEF Inserted
        <5>2. PICK p \in Orders : SceneId[p] = scene[m.to] /\ ClientOf[p] = m.to
          BY <5>1 DEF MapsRight
        <5>3. p = o
          BY <5>1, <5>2 DEF DistinctIds
        <5> QED
          BY <3>4, <5>2, <5>3
      <4> QED
        BY <2>0, <2>3, <3>4, <3>5, <4>1 DEF Inserted
    <3> QED
      BY <2>0, <2>3, <3>2, <3>5
  <2>4. CASE OnSceneProduceCleanupMsg
    <3>1. DOMAIN file' \subseteq DOMAIN file /\ DOMAIN conn' \subseteq DOMAIN conn
          /\ DOMAIN scene' \subseteq DOMAIN scene
      BY <2>4 DEF OnSceneProduceCleanupMsg, mapVars, Without
    <3> QED
      BY <2>0, <3>1
  <2> QED
    BY <2>1, <2>2, <2>3, <2>4, MapCases
<1> QED
  BY <1>2, <1>4, <1>5 DEF Untouched

\* A connection that comes for an order whose scene is kept is set for its scene id.
LEMMA KeptConnected ==
    ASSUME TypeInv, ConnectionsRight, NEW o \in Orders, Kept(o),
           ClientConnected, Head(inbox).order = o, ~misread'
    PROVE  /\ pc' = "hand" /\ job'.id = SceneId[o] /\ SceneId[o] \in DOMAIN conn'
<1>1. PICK m : m = Head(inbox)
  OBVIOUS
<1>2. /\ m.to = ClientOf[o] /\ SceneIsKept(o) /\ m.order = o
      /\ m.to \in DOMAIN scene /\ scene[m.to] = SceneId[o]
  BY <1>1, ConnectedFacts DEF Kept
<1>3. /\ scene' = Inserted(scene, m.to, 0) /\ conn' = Inserted(conn, scene'[m.to], m.to)
      /\ pc' = "hand" /\ job'.id = scene'[m.to]
  BY <1>1, <1>2, ConnectedFacts
<1>4. scene'[m.to] = SceneId[o]
  BY <1>2, <1>3 DEF Inserted
<1> QED
  BY <1>3, <1>4 DEF Inserted

\* An order at work: its scene has been kept, or is the one being taken.
LEMMA KeptBefore ==
    ASSUME TypeInv, Next, NEW o \in Orders, OrderOfLife(o),
           phase'[o] = "rendering", ~Unheard(o)'
    PROVE  /\ phase[o] = "rendering"
           /\ Kept(o) \/ (OnSceneProduceRequestMsg /\ Head(inbox).order = o /\ Untouched(o))
<1>1. phase[o] = "rendering"
  BY PhaseMoves, UnheardMoves
<1>2. CASE Unheard(o)
  BY <1>1, <1>2, UnheardMoves DEF OrderOfLife
<1>3. CASE ~Unheard(o)
  BY <1>1, <1>3 DEF OrderOfLife
<1> QED
  BY <1>1, <1>2, <1>3

LEMMA KeptStep ==
    ASSUME TypeInv, ConnectionsRight, FilesRight, DistinctIds, DistinctClients,
           Next, ~misread', NEW o \in Orders, OrderOfLife(o),
           phase'[o] = "rendering", ~Unheard(o)'
    PROVE  Kept(o)'
<1>0. SceneId \in [Orders -> Nat \ {0}] /\ ClientOf \in [Orders -> Clients]
  BY WorkerAssumption
<1>1. phase[o] = "rendering"
  BY KeptBefore
<1>2. CASE OnSceneProduceRequestMsg /\ Head(inbox).order = o /\ Untouched(o)
  <2>1. /\ file' = Inserted(file, SceneId[o], o)
        /\ scene' = Inserted(scene, ClientOf[o], SceneId[o])
        /\ job' = [kind |-> "connected", to |-> ClientOf[o], order |-> o]
    BY <1>2 DEF OnSceneProduceRequestMsg, Proceed
  <2>2. SceneId[o] \notin DOMAIN file /\ ClientOf[o] \notin DOMAIN scene
    BY <1>2 DEF Untouched
  <2>3. job'.kind = "connected" /\ job'.order = o
    BY <2>1
  <2>4. ConnectionToCome(o)'
    BY <2>3 DEF ConnectionToCome
  <2>5. /\ SceneId[o] \in DOMAIN file' /\ file'[SceneId[o]] = o
        /\ ClientOf[o] \in DOMAIN scene' /\ scene'[ClientOf[o]] = SceneId[o]
    BY <2>1, <2>2 DEF Inserted
  <2> QED
    BY <2>4, <2>5 DEF Kept, SceneIsKept
<1>3. CASE Kept(o)
  <2>1. /\ SceneId[o] \in DOMAIN file /\ file[SceneId[o]] = o
        /\ ClientOf[o] \in DOMAIN scene /\ scene[ClientOf[o]] = SceneId[o]
    BY <1>3 DEF Kept, SceneIsKept
  <2>2. /\ SceneId[o] \in DOMAIN file' /\ file'[SceneId[o]] = o
        /\ ClientOf[o] \in DOMAIN scene' /\ scene'[ClientOf[o]] = SceneId[o]
        /\ SceneId[o] \in DOMAIN conn => SceneId[o] \in DOMAIN conn'
    <3>1. CASE MapsStay
      BY <2>1, <3>1 DEF MapsStay
    <3>2. CASE OnSceneProduceRequestMsg /\ UNCHANGED conn
      BY <2>1, <3>2 DEF OnSceneProduceRequestMsg, Inserted
    <3>3. CASE ClientConnected /\ UNCHANGED <<file, client>>
      <4>1. \/ \E a, c : scene' = Inserted(scene, a, 0) /\ conn' = Inserted(conn, scene'[a], c)
            \/ UNCHANGED <<scene, conn>>
        BY <3>3, ConnectedFacts
      <4> QED
        BY <2>1, <3>3, <4>1 DEF Inserted
    <3>4. CASE OnSceneProduceCleanupMsg
      <4>1. Take("cleanup") /\ net' = net
        BY <3>4 DEF OnSceneProduceCleanupMsg
      <4>2. PICK q \in Orders : q = Head(inbox).order
        BY <4>1, MasterMsgTaken
      <4>3. phase[q] = "over" \/ q # o
        <5>1. 1 \in DOMAIN Coming /\ Coming[1] = Head(inbox) /\ Coming[1].kind = "cleanup"
          BY <4>1, TakeComing
        <5> QED
          BY <4>2, <5>1 DEF OrderOfLife, Ordered
      <4>4. q # o
        BY <1>1, <4>3
      <4>5. SceneId[q] # SceneId[o] /\ ClientOf[q] # ClientOf[o]
        BY <4>2, <4>4 DEF DistinctIds, DistinctClients
      <4>6. CASE SceneId[q] \in DOMAIN file
        <5>1. /\ file' = Without(file, SceneId[q]) /\ conn' = Without(conn, SceneId[q])
              /\ scene' = Without(scene, client[SceneId[q]])
          BY <3>4, <4>2, <4>6 DEF OnSceneProduceCleanupMsg
        <5>2. client[SceneId[q]] = ClientOf[q]
          <6>1. file[SceneId[q]] \in Orders /\ SceneId[file[SceneId[q]]] = SceneId[q]
            BY <4>6 DEF FilesRight, TypeInv, MapsTyped
          <6>2. file[SceneId[q]] = q
            BY <4>2, <6>1 DEF DistinctIds
          <6> QED
            BY <4>6, <6>2 DEF FilesRight
        <5> QED
          BY <2>1, <4>5, <5>1, <5>2 DEF Without
      <4>7. CASE SceneId[q] \notin DOMAIN file
        BY <2>1, <3>4, <4>2, <4>7 DEF OnSceneProduceCleanupMsg, mapVars
      <4> QED
        BY <4>6, <4>7
    <3> QED
      BY <3>1, <3>2, <3>3, <3>4, MapCases
  <2>3. SceneId[o] \in DOMAIN conn' \/ ConnectionToCome(o)'
    <3>1. CASE SceneId[o] \in DOMAIN conn
      BY <2>2, <3>1
    <3>2. CASE ConnectionToCome(o)
      BY <1>3, <3>2, ComeMoves, KeptConnected
    <3> QED
      BY <1>3, <3>1, <3>2 DEF Kept
  <2> QED
    BY <2>2, <2>3 DEF Kept, SceneIsKept
<1> QED
  BY <1>2, <1>3, KeptBefore

-----------------------------------------------------------------------------
(* Nobody waits in vain                                                    *)

\* Producers are made by Dispatch and never lose their connection.
LEMMA LinksMove ==
    ASSUME TypeInv, OnceInv, Next, NEW r \in DOMAIN link', link'[r] = None
    PROVE  \/ r \in DOMAIN link /\ link[r] = None
           \/ Dispatch /\ r = job.rs[1] /\ job.to = None /\ r \notin DOMAIN link
<1> USE DEF producerVars
<1>1. CASE Dispatch
  <2>1. link' = Inserted(link, job.rs[1], job.to)
    <3>1. link' = Inserted(link, Head(job.rs), job.to) /\ Head(job.rs) = job.rs[1]
      BY <1>1, NextTypes DEF Dispatch
    <3> QED
      BY <3>1
  <2> QED
    BY <1>1, <2>1 DEF Inserted
<1>2. CASE HandConnection
  <2>1. PICK i \in WaitersOfScene : link' = [link EXCEPT ![waiters[i][2]] = job.to]
    BY <1>2 DEF HandConnection
  <2>2. job.to # None
    BY <1>2, JobKinds, WorkerAssumption DEF HandConnection
  <2>3. PICK x : x = waiters[i][2]
    OBVIOUS
  <2>4. link' = [link EXCEPT ![x] = job.to] /\ x \in DOMAIN link
    BY <2>1, <2>3 DEF WaitersOfScene, OnceInv, WaitInv
  <2> QED
    BY <2>2, <2>4
<1>3. CASE ~Dispatch /\ ~HandConnection
  <2>1. link' = link
    BY <1>3 DEF Next, WorkerThread, OnCreateServerResponse, MakeConnection, ReportConnection,
       RegisterWithMaster, ClientConnected, AllHanded, OnWorkerRegistrationRespMsg,
       OnSceneProduceRequestMsg, OnSceneProduceCleanupMsg, OnPixelProduceRequestMsg, Enlist,
       Pipeline, ProduceNothing, ProducePixels, CheckConnectionAndSendResponse,
       ReceiverReads, Environment, MasterRegisters, MasterKicksOff, MasterRefills,
       MasterCleansUp, ClientQuits
  <2> QED
    BY <2>1
<1> QED
  BY <1>1, <1>2, <1>3

\* The scene of a producer that lacks a connection is kept when the connection comes.
LEMMA LackKept ==
    ASSUME TypeInv, OnceInv, NEW r \in DOMAIN link, Lacks(r), OrderOfLife(asked[r].order)
    PROVE  Kept(asked[r].order)
<1>1. /\ r \in DOMAIN asked /\ asked[r].order \in Orders
      /\ phase[asked[r].order] \in {"none", "rendering", "over"}
  BY AskedFacts DEF OnceInv, LinkInv, TypeInv
<1>2. answers[r] = 0
  BY DEF OnceInv, LinkInv, Lacks
<1>3. phase[asked[r].order] # "over"
  <2>1. ~Answered(r)
    BY <1>2 DEF Answered
  <2> QED
    BY <1>1, <2>1 DEF OrderOfLife, Ordered, Lacks
<1>4. ~Untouched(asked[r].order)
  BY DEF Untouched
<1> QED
  BY <1>1, <1>3, <1>4 DEF OrderOfLife

LEMMA HopingStays ==
    ASSUME TypeInv, OnceInv, ConnectionsRight, Next, ~misread',
           NEW r \in DOMAIN link, Lacks(r), Hoping(r), OrderOfLife(asked[r].order),
           link'[r] = None
    PROVE  Hoping(r)'
<1>0. AskedGrows /\ r \in DOMAIN asked /\ asked[r].order \in Orders
  BY AskedGrowsStep, AskedFacts DEF OnceInv, LinkInv
<1>1. asked'[r] = asked[r]
  BY <1>0 DEF AskedGrows
<1>2. PICK o \in Orders : o = asked[r].order
  BY <1>0
<1>3. CASE ConnectionToCome(o)
  <2>1. CASE ConnectionToCome(o)'
    BY <1>1, <1>2, <2>1 DEF Hoping, ConnectionToCome
  <2>2. CASE ClientConnected /\ Head(inbox).order = o
    <3>1. pc' = "hand" /\ job'.id = SceneId[o]
      BY <1>2, <2>2, LackKept, KeptConnected
    <3> QED
      BY <1>1, <1>2, <3>1 DEF Hoping, Id
  <2> QED
    BY <1>3, <2>1, <2>2, ComeMoves
<1>4. CASE pc = "hand" /\ job.id = Id(r)
  <2>1. ~AllHanded
    <3>1. Waits(r)
      BY <1>4 DEF Lacks, OnceInv, WaitInv, BeingEnlisted
    <3>2. PICK i \in DOMAIN waiters : waiters[i][2] = r
      BY <3>1 DEF Waits
    <3>3. i \in WaitersOfScene
      BY <1>4, <3>2 DEF WaitersOfScene, OnceInv, WaitInv
    <3> QED
      BY <3>3 DEF AllHanded
  <2>2. UNCHANGED <<pc, job>>
    BY <1>4, <2>1 DEF Next, WorkerThread, OnCreateServerResponse, MakeConnection,
       ReportConnection, RegisterWithMaster, ClientConnected, HandConnection,
       OnWorkerRegistrationRespMsg, OnSceneProduceRequestMsg, OnSceneProduceCleanupMsg,
       OnPixelProduceRequestMsg, Dispatch, Enlist, Take, Pipeline, ProduceNothing,
       ProducePixels, CheckConnectionAndSendResponse, ReceiverReads, Environment,
       MasterRegisters, MasterKicksOff, MasterRefills, MasterCleansUp, ClientQuits, threadVars
  <2> QED
    BY <1>1, <1>4, <2>2 DEF Hoping, Id
<1> QED
  BY <1>2, <1>3, <1>4 DEF Hoping

LEMMA NextRequests ==
    ASSUME TypeInv, pc \in {"dispatch", "enlist"},
           NextRequest \/ job' = job, pc' \in {"dispatch", "enlist"}
    PROVE  /\ job'.to = job.to
           /\ \A i \in DOMAIN job'.rs : \E k \in DOMAIN job.rs : job'.rs[i] = job.rs[k]
<1>1. job.rs \in Seq(Nat) /\ job.rs # <<>> /\ Running
  BY NextTypes
<1>2. job \in [kind : {"dispatch"}, rs : Seq(Nat), to : Clients \cup {None}]
  BY <1>1 DEF Running, JobTyped
<1>3. CASE job' = job
  BY <1>3
<1>4. CASE NextRequest
  <2>1. job' = [job EXCEPT !.rs = Tail(job.rs)]
    BY <1>4 DEF NextRequest, Proceed
  <2>2. job'.to = job.to /\ job'.rs = Tail(job.rs)
    BY <1>2, <2>1
  <2> QED
    BY <1>1, <2>2, TailFacts
<1> QED
  BY <1>3, <1>4

\* Of requests that come, the scene is kept.
LEMMA PixelsKept ==
    ASSUME TypeInv, OnceInv, OnPixelProduceRequestMsg, NEW o \in Orders, Head(inbox).order = o,
           OrderOfLife(o), NEW i \in DOMAIN Head(inbox).rs, asked[Head(inbox).rs[i]].work
    PROVE  Kept(o) /\ asked[Head(inbox).rs[i]].order = o /\ Head(inbox).rs[i] \in DOMAIN asked
<1>1. Take("pixels") /\ net' = net
  BY DEF OnPixelProduceRequestMsg
<1>2. PICK m : m = Head(inbox)
  OBVIOUS
<1>3. /\ m.kind = "pixels" /\ m.order = o /\ About(m, o)
      /\ 1 \in DOMAIN Coming /\ Coming[1] = m /\ i \in DOMAIN m.rs /\ asked[m.rs[i]].work
  BY <1>1, <1>2, MasterMsgTaken, TakeComing
<1>4. Fresh(m)
  BY <1>3 DEF OnceInv, MsgInv
<1>5. m.rs[i] \in DOMAIN asked /\ m.rs[i] \notin DOMAIN link /\ asked[m.rs[i]].order = o
  BY <1>3, <1>4 DEF Fresh
<1>6. ~Answered(m.rs[i])
  BY <1>5 DEF Answered, TypeInv, RequestsTyped
<1>7. phase[o] # "over"
  BY <1>3, <1>5, <1>6 DEF OrderOfLife, Ordered
<1>8. phase[o] # "none" /\ ~Unheard(o)
  <2>1. Ordered(o) /\ SceneFirst(o) /\ "pixels" # "scene"
    BY DEF OrderOfLife
  <2> QED
    BY <1>1, <1>2, <1>3, <2>1, HeadHeard
<1>9. phase[o] = "rendering"
  BY <1>7, <1>8 DEF TypeInv
<1> QED
  BY <1>2, <1>5, <1>8, <1>9 DEF OrderOfLife

LEMMA NoneInVainStep ==
    ASSUME TypeInv, OnceInv, ConnectionsRight, Next, ~misread',
           NoneInVain, \A o \in Orders : OrderOfLife(o)
    PROVE  NoneInVain'
<1> USE DEF threadVars, masterVars, mapVars, Proceed
<1>1. AskedGrows
  BY AskedGrowsStep
<1>2. ASSUME pc \in {"dispatch", "enlist"}, NEW o \in Orders, ConnectionToCome(o)
      PROVE  ConnectionToCome(o)'
  BY <1>2, ComeMoves DEF ClientConnected, Take
<1>3. pc \in {"dispatch", "enlist"} =>
          /\ 1 \in DOMAIN job.rs
          /\ \A i \in DOMAIN job.rs : /\ job.rs[i] \in DOMAIN asked /\ asked[job.rs[i]].order \in Orders
                                      /\ asked'[job.rs[i]] = asked[job.rs[i]]
  BY <1>1, NextTypes, AskedFacts DEF OnceInv, DispatchInv, AskedGrows
<1>4. ASSUME NEW r \in DOMAIN link', Lacks(r)'
      PROVE  Hoping(r)'
  <2>1. CASE r \in DOMAIN link /\ link[r] = None
    <3>1. /\ asked[r].order \in Orders /\ asked'[r] = asked[r]
      BY <1>1, <2>1, AskedFacts DEF AskedGrows, OnceInv, LinkInv
    <3>2. Lacks(r) /\ link'[r] = None
      BY <1>4, <2>1, <3>1 DEF Lacks
    <3>3. Hoping(r)
      BY <2>1, <3>2 DEF NoneInVain
    <3> QED
      BY <2>1, <3>1, <3>2, <3>3, HopingStays
  <2>2. CASE Dispatch /\ r = job.rs[1] /\ job.to = None
    <3>1. pc \in {"dispatch", "enlist"}
      BY <2>2 DEF Dispatch
    <3>2. asked'[r] = asked[r] /\ asked[r].order \in Orders /\ asked[r].work
      BY <1>3, <1>4, <2>2, <3>1 DEF Lacks
    <3>3. ConnectionToCome(asked[r].order)
      BY <1>3, <2>2, <3>1, <3>2 DEF NoneInVain
    <3>4. ConnectionToCome(asked[r].order)'
      <4>1. PICK o \in Orders : o = asked[r].order /\ o = asked'[r].order
        BY <3>2
      <4>2. ConnectionToCome(o)'
        BY <1>2, <3>1, <3>3, <4>1
      <4> QED
        BY <4>1, <4>2 DEF ConnectionToCome
    <3> QED
      BY <3>4 DEF Hoping
  <2>3. link'[r] = None
    BY <1>4 DEF Lacks
  <2> QED
    BY <1>4, <2>1, <2>2, <2>3, LinksMove
<1>5. ASSUME pc' \in {"dispatch", "enlist"}, job'.to = None,
             NEW i \in DOMAIN job'.rs, asked'[job'.rs[i]].work
      PROVE  ConnectionToCome(asked[job.rs[i]].order)'
  <2>1. CASE OnPixelProduceRequestMsg
    <3>1. /\ Take("pixels") /\ job'.rs = Head(inbox).rs /\ asked' = asked
          /\ job'.to = IF SceneId[Head(inbox).order] \in DOMAIN conn
                       THEN conn[SceneId[Head(inbox).order]] ELSE None
      BY <2>1 DEF OnPixelProduceRequestMsg
    <3>2. PICK o \in Orders : o = Head(inbox).order
      BY <3>1, MasterMsgTaken
    <3>3. Kept(o) /\ asked[job'.rs[i]].order = o
      BY <1>5, <2>1, <3>1, <3>2, PixelsKept
    <3>4. SceneId[o] \notin DOMAIN conn
      <4>1. None \notin Clients
        BY WorkerAssumption
      <4> QED
        BY <1>5, <3>1, <3>2, <4>1 DEF TypeInv, MapsTyped
    <3>5. ConnectionToCome(o)
      BY <3>3, <3>4 DEF Kept
    <3>6. ~ClientConnected
      BY <3>1 DEF ClientConnected, Take
    <3>7. ConnectionToCome(o)'
      BY <3>5, <3>6, ComeMoves
    <3> QED
      BY <3>1, <3>3, <3>7 DEF ConnectionToCome
  <2>2. ASSUME pc \in {"dispatch", "enlist"}, NextRequest \/ job' = job
        PROVE  ConnectionToCome(asked[job.rs[i]].order)'
    <3>1. PICK k \in DOMAIN job.rs : job'.rs[i] = job.rs[k]
      BY <1>5, <2>2, NextRequests
    <3>2. job.to = None
      BY <1>5, <2>2, NextRequests
    <3>3. /\ asked'[job.rs[k]] = asked[job.rs[k]] /\ asked[job.rs[k]].order \in Orders
          /\ asked[job.rs[k]].work
      BY <1>3, <1>5, <2>2, <3>1
    <3>4. ConnectionToCome(asked[job.rs[k]].order)
      BY <2>2, <3>2, <3>3 DEF NoneInVain
    <3>5. PICK o \in Orders : o = asked[job.rs[k]].order /\ o = asked'[job'.rs[i]].order
      BY <3>1, <3>3
    <3>6. ConnectionToCome(o)'
      BY <1>2, <2>2, <3>4, <3>5
    <3> QED
      BY <3>5, <3>6 DEF ConnectionToCome
  <2>3. CASE Dispatch \/ Enlist
    <3>1. pc \in {"dispatch", "enlist"} /\ (NextRequest \/ job' = job)
      BY <2>3 DEF Dispatch, Enlist
    <3> QED
      BY <2>2, <3>1
  <2>4. CASE \/ OnCreateServerResponse \/ MakeConnection \/ ReportConnection
             \/ RegisterWithMaster \/ ClientConnected \/ AllHanded \/ OnSceneProduceRequestMsg
    BY <1>5, <2>4 DEF OnCreateServerResponse, MakeConnection, ReportConnection,
       RegisterWithMaster, ClientConnected, AllHanded, OnSceneProduceRequestMsg, Take
  <2>5. CASE \/ ReceiverReads \/ Environment \/ OnWorkerRegistrationRespMsg
             \/ OnSceneProduceCleanupMsg \/ HandConnection
             \/ \E p \in Pipelines : Pipeline(p)
    <3>1. UNCHANGED <<pc, job>>
      BY <2>5 DEF ReceiverReads, Environment, OnWorkerRegistrationRespMsg,
         OnSceneProduceCleanupMsg, HandConnection, Pipeline, ProduceNothing, ProducePixels,
         CheckConnectionAndSendResponse, MasterRegisters, MasterKicksOff, MasterRefills,
         MasterCleansUp, ClientQuits
    <3> QED
      BY <1>5, <2>2, <3>1
  <2> QED
    BY <2>1, <2>3, <2>4, <2>5 DEF Next, WorkerThread
<1> QED
  BY <1>4, <1>5 DEF NoneInVain

LEMMA LifeInit == Init => LifeInv
<1> SUFFICES ASSUME Init PROVE LifeInv
  OBVIOUS
<1>1. /\ inbox = <<[kind |-> "server"]>> /\ net = <<>> /\ pc = "take" /\ job.kind = "none"
      /\ file = <<>> /\ scene = <<>> /\ conn = <<>> /\ link = <<>> /\ asked = <<>>
      /\ phase = [o \in Orders |-> "none"] /\ DOMAIN <<>> = {}
  BY DEF Init, NoJob
<1>2. PICK s : s = [kind |-> "server"]
  OBVIOUS
<1>3. s.kind = "server" /\ inbox = <<s>> /\ Coming = <<s>>
  BY <1>1, <1>2 DEF Coming
<1>4. DOMAIN Coming = {1} /\ Coming[1] = s /\ Range(inbox) = {s}
  BY <1>3 DEF Range
<1>5. \A o : ~ConnectionToCome(o)
  BY <1>1, <1>3, <1>4 DEF ConnectionToCome
<1>6. FilesRight /\ NoneInVain
  BY <1>1 DEF FilesRight, NoneInVain
<1>7. ASSUME NEW o \in Orders
      PROVE  OrderOfLife(o)
  <2>1. phase[o] = "none" /\ \A i \in DOMAIN Coming : ~About(Coming[i], o)
    BY <1>1, <1>3, <1>4 DEF About
  <2>2. Ordered(o) /\ SceneFirst(o)
    BY <1>1, <2>1 DEF Ordered, SceneFirst, About
  <2>3. Untouched(o)
    BY <1>1, <1>5 DEF Untouched
  <2> QED
    BY <2>1, <2>2, <2>3 DEF OrderOfLife
<1> QED
  BY <1>6, <1>7 DEF LifeInv

LEMMA LifeStep ==
    ASSUME DistinctIds, DistinctClients, RightInv, LifeInv, [Next]_vars, ~misread, ~misread'
    PROVE  LifeInv'
<1>0. TypeInv /\ OnceInv /\ ConnectionsRight /\ MapsRight
  BY DEF RightInv, TypeOnce, RightClients
<1>1. CASE Next
  <2>1. FilesRight /\ NoneInVain /\ \A o \in Orders : OrderOfLife(o)
    BY DEF LifeInv
  <2>2. FilesRight'
    BY <1>0, <1>1, <2>1, FilesRightStep
  <2>3. NoneInVain'
    BY <1>0, <1>1, <2>1, NoneInVainStep
  <2>4. ASSUME NEW o \in Orders
        PROVE  OrderOfLife(o)'
    <3>1. OrderOfLife(o)
      BY <2>1
    <3>2. Ordered(o)' /\ SceneFirst(o)'
      BY <1>0, <1>1, <3>1, OrderedStep, SceneFirstStep
    <3>3. phase'[o] = "none" \/ Unheard(o)' => Untouched(o)'
      BY <1>0, <1>1, <3>1, UntouchedStep
    <3>4. phase'[o] = "rendering" /\ ~Unheard(o)' => Kept(o)'
      BY <1>0, <1>1, <2>1, <3>1, KeptStep
    <3> QED
      BY <3>2, <3>3, <3>4 DEF OrderOfLife
  <2> QED
    BY <2>2, <2>3, <2>4 DEF LifeInv
<1>2. CASE UNCHANGED vars
  <2> USE <1>2 DEF vars, threadVars, mapVars, pipeVars, producerVars, masterVars, endVars
  <2>1. Coming' = Coming /\ \A o : ConnectionToCome(o)' <=> ConnectionToCome(o)
    BY DEF Coming, ConnectionToCome
  <2>2. \A r : Answered(r)' <=> Answered(r)
    BY DEF Answered
  <2>3. FilesRight'
    BY DEF LifeInv, FilesRight
  <2>4. ASSUME NEW o \in Orders, OrderOfLife(o)
        PROVE  OrderOfLife(o)'
    <3>1. Ordered(o)' /\ SceneFirst(o)' /\ (Unheard(o)' <=> Unheard(o))
      BY <2>1, <2>2, <2>4 DEF OrderOfLife, Ordered, SceneFirst, Unheard, About, IsScene
    <3>2. Untouched(o) => Untouched(o)'
      BY <2>1 DEF Untouched
    <3>3. Kept(o) => Kept(o)'
      BY <2>1 DEF Kept, SceneIsKept
    <3> QED
      BY <2>4, <3>1, <3>2, <3>3 DEF OrderOfLife
  <2>5. NoneInVain'
    BY <2>1 DEF LifeInv, NoneInVain, Lacks, Hoping, Id
  <2> QED
    BY <2>3, <2>4, <2>5 DEF LifeInv
<1> QED
  BY <1>1, <1>2

\* What the invariant says of those who wait.
LEMMA LifeMeans ==
    ASSUME RightInv, ~misread => LifeInv
    PROVE  NobodyWaitsInVain
<1> SUFFICES ASSUME ~misread, NEW r \in DOMAIN link, link[r] = None, asked[r].work
             PROVE  /\ \/ <<Id(r), r>> \in Range(waiters)
                       \/ pc = "enlist" /\ r = Head(job.rs)
                    /\ \/ ConnectionToCome(asked[r].order)
                       \/ pc = "hand" /\ job.id = Id(r)
  BY DEF NobodyWaitsInVain
<1>1. TypeInv /\ WaitInv /\ NoneInVain
  BY DEF RightInv, TypeOnce, OnceInv, LifeInv
<1>2. Hoping(r)
  BY <1>1 DEF NoneInVain, Lacks
<1>3. CASE Waits(r)
  <2>1. PICK i \in DOMAIN waiters : waiters[i][2] = r /\ waiters[i][1] = Id(r)
    BY <1>1, <1>3 DEF WaitInv, Waits
  <2>2. waiters[i] \in Ids \X Nat
    <3>1. waiters \in Seq(Ids \X Nat)
      BY <1>1 DEF TypeInv, RequestsTyped
    <3> QED
      BY <3>1
  <2>3. waiters[i] = <<Id(r), r>>
    BY <2>1, <2>2
  <2> QED
    BY <1>2, <2>3 DEF Range, Hoping
<1>4. CASE BeingEnlisted(r)
  <2>1. pc = "enlist" /\ r = job.rs[1]
    BY <1>4 DEF BeingEnlisted
  <2>2. Head(job.rs) = job.rs[1]
    BY <1>1, <2>1, NextTypes
  <2> QED
    BY <1>2, <2>1, <2>2 DEF Hoping
<1> QED
  BY <1>1, <1>3, <1>4 DEF WaitInv

(***************************************************************************)
(* When scene ids are distinct and every order has an address of its own,  *)
(* a producer with pixels and no connection is, or is about to be, among   *)
(* the waiters of its scene id, and the connection that will be handed to  *)
(* them is still to come or being handed out: no cleanup, no other order   *)
(* and no order of messages can take it away (as long as no address has    *)
(* been read after it was freed).                                          *)
(***************************************************************************)
THEOREM WaitersAreServed ==
    ASSUME DistinctIds, DistinctClients
    PROVE  Spec => []NobodyWaitsInVain
<1> DEFINE Inv == RightInv /\ (~misread => LifeInv)
<1>1. Init => Inv
  BY TypeInit, OnceInit, RightInit, LifeInit DEF RightInv, TypeOnce
<1>2. Inv /\ [Next]_vars => Inv'
  <2> SUFFICES ASSUME Inv, [Next]_vars PROVE Inv'
    OBVIOUS
  <2>1. RightInv'
    BY RightStep
  <2>2. ASSUME ~misread'
        PROVE  LifeInv'
    <3>1. ~misread
      BY <2>2, MisreadStays DEF vars, endVars
    <3> QED
      BY <2>2, <3>1, LifeStep
  <2> QED
    BY <2>1, <2>2
<1>3. Inv => NobodyWaitsInVain
  BY LifeMeans
<1> QED
  BY <1>1, <1>2, <1>3, PTL DEF Spec
=============================================================================
