------------------------- MODULE WorkerLinksProofs --------------------------
(***************************************************************************)
(* Lemmas about WorkerLinks and ResourceTracker and about the operators on *)
(* sequences they use: what the proofs about both schedulers rest on.      *)
(***************************************************************************)
EXTENDS WorkerLinks, TLAPS, FiniteSetTheorems, SequenceTheorems

-----------------------------------------------------------------------------
(* Slots                                                                   *)

\* What the assumptions say of slots, in the form the proofs use.
LEMMA SlotFacts ==
    /\ \A s \in Slots : /\ s[1] \in Hosts
                        /\ s[2] \in Pipelines(s[1])
                        /\ s[2] \in Nat
                        /\ s = <<s[1], s[2]>>
    /\ \A h \in Hosts : \A p \in Pipelines(h) : <<h, p>> \in Slots
    /\ \A h \in Hosts : 0 \in Pipelines(h) /\ NumPipelines[h] \in Nat \ {0}
<1>1. \A s \in Slots : \E h \in Hosts : s \in {h} \X Pipelines(h)
  BY DEF Slots
<1>2. \A h \in Hosts : NumPipelines[h] \in Nat \ {0}
  BY TrackerAssumption
<1>3. \A h \in Hosts : Pipelines(h) \subseteq Nat /\ 0 \in Pipelines(h)
  BY <1>2 DEF Pipelines
<1>4. \A s \in Slots : /\ s[1] \in Hosts
                       /\ s[2] \in Pipelines(s[1])
                       /\ s = <<s[1], s[2]>>
  BY <1>1
<1>5. \A h \in Hosts : \A p \in Pipelines(h) : <<h, p>> \in Slots
  BY DEF Slots
<1> QED
  BY <1>2, <1>3, <1>4, <1>5

-----------------------------------------------------------------------------
(* Sequences and numbers                                                   *)

\* An element that is removed from a sequence leaves a sequence of the others.
LEMMA RemoveAtFacts ==
    ASSUME NEW S, NEW seq \in Seq(S), NEW n \in DOMAIN seq
    PROVE  /\ RemoveAt(seq, n) \in Seq(S)
           /\ Len(RemoveAt(seq, n)) = Len(seq) - 1
           /\ \A i \in 1 .. Len(seq) - 1 :
                  RemoveAt(seq, n)[i] = IF i < n THEN seq[i] ELSE seq[i + 1]
<1>1. /\ Len(seq) \in Nat
      /\ n \in 1 .. Len(seq)
  BY LenProperties
<1> DEFINE front == SubSeq(seq, 1, n - 1)
           back == SubSeq(seq, n + 1, Len(seq))
<1>2. /\ front \in Seq(S)
      /\ Len(front) = n - 1
      /\ \A i \in 1 .. n - 1 : front[i] = seq[i]
  <2>1. \A i \in 1 .. n - 1 : seq[i] \in S
    BY <1>1, ElementOfSeq
  <2>2. /\ SubSeq(seq, 1, n - 1) \in Seq(S)
        /\ Len(SubSeq(seq, 1, n - 1)) = IF 1 <= n - 1 THEN n - 1 - 1 + 1 ELSE 0
        /\ \A i \in 1 .. n - 1 - 1 + 1 : SubSeq(seq, 1, n - 1)[i] = seq[1 + i - 1]
    BY <1>1, <2>1, SubSeqProperties
  <2> QED
    BY <1>1, <2>2
<1>3. /\ back \in Seq(S)
      /\ Len(back) = Len(seq) - n
      /\ \A i \in 1 .. Len(seq) - n : back[i] = seq[n + i]
  <2>1. \A i \in n + 1 .. Len(seq) : seq[i] \in S
    BY <1>1, ElementOfSeq
  <2>2. /\ SubSeq(seq, n + 1, Len(seq)) \in Seq(S)
        /\ Len(SubSeq(seq, n + 1, Len(seq)))
               = IF n + 1 <= Len(seq) THEN Len(seq) - (n + 1) + 1 ELSE 0
        /\ \A i \in 1 .. Len(seq) - (n + 1) + 1 :
               SubSeq(seq, n + 1, Len(seq))[i] = seq[(n + 1) + i - 1]
    BY <1>1, <2>1, SubSeqProperties
  <2> QED
    BY <1>1, <2>2
<1> HIDE DEF front, back
<1>4. /\ front \o back \in Seq(S)
      /\ Len(front \o back) = Len(front) + Len(back)
      /\ \A i \in 1 .. Len(front) + Len(back) : (front \o back)[i] =
             IF i <= Len(front) THEN front[i] ELSE back[i - Len(front)]
  BY <1>2, <1>3, ConcatProperties
<1>5. RemoveAt(seq, n) = front \o back
  BY DEF RemoveAt, front, back
<1>6. \A i \in 1 .. Len(seq) - 1 :
          (front \o back)[i] = IF i < n THEN seq[i] ELSE seq[i + 1]
  <2> TAKE i \in 1 .. Len(seq) - 1
  <2>1. CASE i < n
    <3>1. /\ i \in 1 .. Len(front) + Len(back)
          /\ i <= Len(front) /\ i \in 1 .. n - 1
      BY <2>1, <1>1, <1>2, <1>3
    <3>2. (front \o back)[i] = front[i]
      BY <3>1, <1>4
    <3> QED
      BY <2>1, <3>1, <3>2, <1>2
  <2>2. CASE ~(i < n)
    <3>1. /\ i - (n - 1) \in 1 .. Len(seq) - n
          /\ n + (i - (n - 1)) = i + 1
      BY <2>2, <1>1
    <3>2. /\ i \in 1 .. Len(front) + Len(back)
          /\ ~(i <= Len(front))
          /\ i - Len(front) = i - (n - 1)
      BY <2>2, <1>1, <1>2, <1>3
    <3>3. (front \o back)[i] = back[i - (n - 1)]
      BY <3>2, <1>4
    <3>4. back[i - (n - 1)] = seq[n + (i - (n - 1))]
      BY <3>1, <1>3
    <3> QED
      BY <2>2, <3>1, <3>3, <3>4
  <2> QED
    BY <2>1, <2>2
<1>7. Len(front \o back) = Len(seq) - 1
  BY <1>1, <1>2, <1>3, <1>4
<1> QED
  BY <1>4, <1>5, <1>6, <1>7

\* What is behind the first element of a sequence.
LEMMA SeqTail ==
    ASSUME NEW S, NEW q \in Seq(S), q # <<>>
    PROVE  /\ Tail(q) \in Seq(S)
           /\ Head(q) = q[1] /\ 1 \in DOMAIN q
           /\ \A i \in DOMAIN Tail(q) : /\ i \in Nat \ {0}
                                        /\ i + 1 \in DOMAIN q
                                        /\ Tail(q)[i] = q[i + 1]
<1>1. /\ Tail(q) \in Seq(S)
      /\ Len(Tail(q)) = Len(q) - 1
      /\ \A i \in 1 .. Len(Tail(q)) : Tail(q)[i] = q[i + 1]
  BY HeadTailProperties
<1>2. /\ DOMAIN q = 1 .. Len(q)
      /\ DOMAIN Tail(q) = 1 .. Len(Tail(q))
      /\ Len(q) \in Nat \ {0}
  BY <1>1, LenProperties, EmptySeq
<1>3. Head(q) = q[1]
  OBVIOUS
<1> QED
  BY <1>1, <1>2, <1>3

\* Every entry of a sequence with one more is an old one or the new one.
LEMMA AppendFacts ==
    ASSUME NEW S, NEW q \in Seq(S), NEW e \in S
    PROVE  /\ Append(q, e) \in Seq(S)
           /\ Len(Append(q, e)) = Len(q) + 1
           /\ Len(q) + 1 \in DOMAIN Append(q, e) /\ Append(q, e)[Len(q) + 1] = e
           /\ \A i \in DOMAIN Append(q, e) :
                  \/ i \in DOMAIN q /\ Append(q, e)[i] = q[i]
                  \/ i = Len(q) + 1 /\ Append(q, e)[i] = e
<1>1. /\ Append(q, e) \in Seq(S)
      /\ Len(Append(q, e)) = Len(q) + 1
      /\ \A i \in 1 .. Len(q) : Append(q, e)[i] = q[i]
      /\ Append(q, e)[Len(q) + 1] = e
  BY AppendProperties
<1>2. /\ DOMAIN q = 1 .. Len(q) /\ Len(q) \in Nat
      /\ DOMAIN Append(q, e) = 1 .. Len(q) + 1
  BY <1>1, LenProperties
<1> QED
  BY <1>1, <1>2

\* The entry e, n times.
Times(e, n) == [i \in 1 .. n |-> e]

\* What r holds beyond the entries of q is the entry e.
Grown(r, q, e) ==
    \A i \in DOMAIN r :
        IF i <= Len(q) THEN i \in DOMAIN q /\ r[i] = q[i] ELSE r[i] = e

\* The same entry, put n times behind a queue.
LEMMA RepeatedEntries ==
    ASSUME NEW S, NEW q \in Seq(S), NEW n \in Nat, NEW e \in S
    PROVE  /\ q \o Times(e, n) \in Seq(S)
           /\ Len(q \o Times(e, n)) = Len(q) + n
           /\ Grown(q \o Times(e, n), q, e)
<1> DEFINE t == Times(e, n)
<1>1. t \in Seq(S) /\ Len(t) = n /\ \A i \in 1 .. n : t[i] = e
  BY DEF Times
<1> HIDE DEF t
<1>2. /\ q \o t \in Seq(S)
      /\ Len(q \o t) = Len(q) + Len(t)
      /\ \A i \in 1 .. Len(q) + Len(t) :
             (q \o t)[i] = IF i <= Len(q) THEN q[i] ELSE t[i - Len(q)]
  BY <1>1, ConcatProperties
<1>3. /\ DOMAIN (q \o t) = 1 .. Len(q) + n
      /\ DOMAIN q = 1 .. Len(q)
      /\ Len(q) \in Nat
  BY <1>1, <1>2, LenProperties
<1>4. Grown(q \o t, q, e)
  <2> SUFFICES ASSUME NEW i \in DOMAIN (q \o t)
               PROVE  IF i <= Len(q) THEN i \in DOMAIN q /\ (q \o t)[i] = q[i]
                      ELSE (q \o t)[i] = e
    BY DEF Grown
  <2>1. i \in 1 .. Len(q) + Len(t) /\ i \in Nat
    BY <1>1, <1>3
  <2>2. (q \o t)[i] = IF i <= Len(q) THEN q[i] ELSE t[i - Len(q)]
    BY <1>2, <2>1
  <2>3. i > Len(q) => i - Len(q) \in 1 .. n
    BY <1>1, <1>3, <2>1
  <2> QED
    BY <1>1, <1>3, <2>1, <2>2, <2>3
<1> QED
  BY <1>1, <1>2, <1>4 DEF t

\* A set of natural numbers has a least element.
LEMMA LeastNumber ==
    ASSUME NEW T, T \subseteq Nat, T # {}
    PROVE  \E n \in T : \A m \in T : n <= m
<1> DEFINE R == {ss \in Nat \X Nat : ss[1] < ss[2]}
<1>1. IsWellFoundedOn(R, Nat)
  BY NatLessThanWellFounded, Zenon DEF OpToRel
<1> HIDE DEF R
<1>2. PICK n \in T : \A m \in T : <<m, n>> \notin R
  BY <1>1, WFMin
<1>3. ASSUME NEW m \in T PROVE n <= m
  <2>1. m \in Nat /\ n \in Nat
    OBVIOUS
  <2>2. m < n => <<m, n>> \in R
    BY <2>1 DEF R
  <2> QED
    BY <1>2, <2>1, <2>2
<1> QED
  BY <1>3

\* A tag is taken off the free ones.
LEMMA TagTaken ==
    ASSUME NEW q \in Seq(Tags), q # <<>>, IsInjective(q)
    PROVE  /\ IsInjective(Tail(q))
           /\ Range(Tail(q)) \subseteq Range(q)
           /\ Head(q) \notin Range(Tail(q))
           /\ Range(q) \subseteq Range(Tail(q)) \cup {Head(q)}
<1>1. /\ Head(q) = q[1] /\ 1 \in DOMAIN q
      /\ \A i \in DOMAIN Tail(q) : /\ i \in Nat \ {0}
                                   /\ i + 1 \in DOMAIN q
                                   /\ Tail(q)[i] = q[i + 1]
  BY SeqTail
<1>2. \A i \in DOMAIN q : i = 1 \/ (i - 1 \in DOMAIN Tail(q) /\ Tail(q)[i - 1] = q[i])
  <2>1. /\ Len(Tail(q)) = Len(q) - 1 /\ Len(q) \in Nat
        /\ DOMAIN q = 1 .. Len(q) /\ DOMAIN Tail(q) = 1 .. Len(Tail(q))
    BY HeadTailProperties, LenProperties
  <2> QED
    BY <1>1, <2>1
<1>3. \A i, k \in DOMAIN q : q[i] = q[k] => i = k
  BY DEF IsInjective
<1>4. IsInjective(Tail(q))
  <2> SUFFICES ASSUME NEW i \in DOMAIN Tail(q), NEW k \in DOMAIN Tail(q),
                      Tail(q)[i] = Tail(q)[k]
               PROVE  i = k
    BY DEF IsInjective
  <2> QED
    BY <1>1, <1>3
<1>5. \A i \in DOMAIN Tail(q) : Tail(q)[i] # Head(q)
  BY <1>1, <1>3
<1> QED
  BY <1>1, <1>2, <1>4, <1>5 DEF Range

\* A tag is put behind the free ones.
LEMMA TagFreed ==
    ASSUME NEW q \in Seq(Tags), NEW x \in Tags, IsInjective(q), x \notin Range(q)
    PROVE  /\ IsInjective(Append(q, x))
           /\ Range(Append(q, x)) = Range(q) \cup {x}
<1>1. /\ DOMAIN Append(q, x) = 1 .. Len(q) + 1
      /\ DOMAIN q = 1 .. Len(q) /\ Len(q) \in Nat
      /\ \A i \in 1 .. Len(q) : Append(q, x)[i] = q[i]
      /\ Append(q, x)[Len(q) + 1] = x
  BY AppendProperties, LenProperties
<1>2. \A i, k \in DOMAIN q : q[i] = q[k] => i = k
  BY DEF IsInjective
<1>3. \A i \in DOMAIN q : q[i] # x
  BY DEF Range
<1>4. IsInjective(Append(q, x))
  <2> SUFFICES ASSUME NEW i \in DOMAIN Append(q, x), NEW k \in DOMAIN Append(q, x),
                      Append(q, x)[i] = Append(q, x)[k]
               PROVE  i = k
    BY DEF IsInjective
  <2> QED
    BY <1>1, <1>2, <1>3
<1>5. Range(Append(q, x)) = Range(q) \cup {x}
  <2>1. \A i \in DOMAIN Append(q, x) : i \in DOMAIN q \/ i = Len(q) + 1
    BY <1>1
  <2>2. /\ \A i \in DOMAIN q : i \in DOMAIN Append(q, x)
        /\ Len(q) + 1 \in DOMAIN Append(q, x)
    BY <1>1
  <2> QED
    BY <1>1, <2>1, <2>2 DEF Range
<1> QED
  BY <1>4, <1>5

\* An element that occurs once is gone when it is removed, the others are not.
LEMMA RemoveOnce ==
    ASSUME NEW S, NEW q \in Seq(S), NEW n \in DOMAIN q, IsInjective(q)
    PROVE  /\ IsInjective(RemoveAt(q, n))
           /\ Range(RemoveAt(q, n)) = Range(q) \ {q[n]}
<1> DEFINE r == RemoveAt(q, n)
<1>1. /\ r \in Seq(S) /\ Len(r) = Len(q) - 1
      /\ \A i \in 1 .. Len(q) - 1 : r[i] = IF i < n THEN q[i] ELSE q[i + 1]
  BY RemoveAtFacts
<1>2. /\ DOMAIN q = 1 .. Len(q) /\ Len(q) \in Nat
      /\ DOMAIN r = 1 .. Len(q) - 1
  BY <1>1, LenProperties
<1>3. \A i, k \in DOMAIN q : q[i] = q[k] => i = k
  BY DEF IsInjective
<1> HIDE DEF r
<1>4. \A i, k \in DOMAIN r : r[i] = r[k] => i = k
  <2> SUFFICES ASSUME NEW i \in DOMAIN r, NEW k \in DOMAIN r, r[i] = r[k]
               PROVE  i = k
    OBVIOUS
  <2> DEFINE up(j) == IF j < n THEN j ELSE j + 1
  <2>1. /\ up(i) \in DOMAIN q /\ r[i] = q[up(i)]
        /\ up(k) \in DOMAIN q /\ r[k] = q[up(k)]
    BY <1>1, <1>2
  <2>2. up(i) = up(k)
    BY <1>3, <2>1
  <2> QED
    BY <1>2, <2>2
<1>5. \A i \in DOMAIN r : r[i] \in Range(q) /\ r[i] # q[n]
  <2> SUFFICES ASSUME NEW i \in DOMAIN r
               PROVE  r[i] \in Range(q) /\ r[i] # q[n]
    OBVIOUS
  <2>1. PICK k \in DOMAIN q : k # n /\ r[i] = q[k]
    BY <1>1, <1>2
  <2> QED
    BY <1>3, <2>1 DEF Range
<1>6. \A k \in DOMAIN q : k # n => \E i \in DOMAIN r : r[i] = q[k]
  <2> SUFFICES ASSUME NEW k \in DOMAIN q, k # n
               PROVE  \E i \in DOMAIN r : r[i] = q[k]
    OBVIOUS
  <2>1. CASE k < n
    BY <1>1, <1>2, <2>1
  <2>2. CASE ~(k < n)
    <3>1. /\ k - 1 \in DOMAIN r /\ k - 1 \in 1 .. Len(q) - 1
          /\ ~(k - 1 < n) /\ k - 1 + 1 = k
      BY <1>2, <2>2
    <3>2. r[k - 1] = q[k]
      BY <1>1, <3>1
    <3> QED
      BY <3>1, <3>2
  <2> QED
    BY <2>1, <2>2
<1>7. IsInjective(r)
  BY <1>4 DEF IsInjective
<1>8. Range(r) \subseteq Range(q) \ {q[n]}
  BY <1>5 DEF Range
<1>9. Range(q) \ {q[n]} \subseteq Range(r)
  BY <1>6 DEF Range
<1> QED
  BY <1>7, <1>8, <1>9 DEF r

-----------------------------------------------------------------------------
(* What the tracker's methods do                                           *)

\* Doubling is defined: the chunk is doubled as often as it is asked for.
LEMMA ChunkDef ==
    /\ \A k \in 0 .. ChunkMax + 2 :
           Chunk[k] = IF k = 0 THEN ChunkMin ELSE 2 * Chunk[k - 1]
    /\ \A k \in 0 .. ChunkMax + 2 : Chunk[k] \in Nat /\ Chunk[k] > k
<1> DEFINE Doubling(g, n) ==
               \A k \in 0 .. n : g[k] = IF k = 0 THEN ChunkMin ELSE 2 * g[k - 1]
           Works(n) == \E g \in [0 .. n -> Nat] : Doubling(g, n)
           Bad == {n \in Nat : ~Works(n)}
<1>1. \A n \in Nat : Works(n)
  <2> SUFFICES ASSUME Bad # {} PROVE FALSE
    OBVIOUS
  <2>1. PICK n \in Bad : \A m \in Bad : n <= m
    <3> HIDE DEF Works
    <3> QED
      BY LeastNumber
  <2>2. CASE n = 0
    <3> DEFINE g == [k \in 0 .. 0 |-> ChunkMin]
    <3>1. g \in [0 .. 0 -> Nat] /\ Doubling(g, 0)
      BY TrackerAssumption
    <3> QED
      BY <2>1, <2>2, <3>1
  <2>3. CASE n # 0
    <3>1. n - 1 \in Nat /\ Works(n - 1)
      <4> HIDE DEF Works
      <4> QED
        BY <2>1, <2>3
    <3>2. PICK g \in [0 .. n - 1 -> Nat] : Doubling(g, n - 1)
      BY <3>1
    <3> DEFINE f == [k \in 0 .. n |-> IF k = n THEN 2 * g[n - 1] ELSE g[k]]
    <3>3. f \in [0 .. n -> Nat]
      BY <3>1, <3>2
    <3>4. Doubling(f, n)
      BY <3>1, <3>2
    <3> QED
      BY <2>1, <3>3, <3>4
  <2> QED
    BY <2>2, <2>3
<1>2. PICK g \in [0 .. ChunkMax + 2 -> Nat] : Doubling(g, ChunkMax + 2)
  <2>1. ChunkMax + 2 \in Nat
    BY TrackerAssumption
  <2>2. Works(ChunkMax + 2)
    <3> HIDE DEF Works
    <3> QED
      BY <1>1, <2>1
  <2> QED
    BY <2>2
<1>3. g = [k \in 0 .. ChunkMax + 2 |-> IF k = 0 THEN ChunkMin ELSE 2 * g[k - 1]]
  BY <1>2
<1>4. Chunk = [k \in 0 .. ChunkMax + 2 |->
                  IF k = 0 THEN ChunkMin ELSE 2 * Chunk[k - 1]]
  BY <1>3 DEF Chunk
<1>5. \A k \in 0 .. ChunkMax + 2 :
          Chunk[k] = IF k = 0 THEN ChunkMin ELSE 2 * Chunk[k - 1]
  BY <1>4
<1> DEFINE Small == {k \in 0 .. ChunkMax + 2 : ~(Chunk[k] \in Nat /\ Chunk[k] > k)}
<1>6. Small = {}
  <2> SUFFICES ASSUME Small # {} PROVE FALSE
    OBVIOUS
  <2>0. Small \subseteq Nat
    BY TrackerAssumption
  <2>1. PICK n \in Small : \A m \in Small : n <= m
    <3> HIDE DEF Small
    <3> QED
      BY <2>0, LeastNumber
  <2>2. n # 0
    BY <1>5, <2>1, TrackerAssumption
  <2>3. /\ n - 1 \in 0 .. ChunkMax + 2
        /\ n - 1 \notin Small
    BY <2>1, <2>2, TrackerAssumption
  <2>4. Chunk[n - 1] \in Nat /\ Chunk[n - 1] > n - 1
    BY <2>3
  <2>5. Chunk[n] = 2 * Chunk[n - 1]
    BY <1>5, <2>1, <2>2
  <2> QED
    BY <2>1, <2>2, <2>4, <2>5, TrackerAssumption
<1> QED
  BY <1>5, <1>6

\* A scene starts with a workload that is a number of pixels, at least one, and,
\* when there are enough pixels, not more than every pipeline can have.
LEMMA WorkloadType ==
    ASSUME NEW t \in Nat \ {0}
    PROVE  LET w == MaxOf(1, GetWorkEstimationForNewScene(t) \div t)
           IN  /\ w \in Nat \ {0}
               /\ IF t <= NumPixels THEN t * w <= NumPixels ELSE w = 1
<1> DEFINE Stops == {n \in 0 .. ChunkMax : ~Doubles(n, t)}
<1>1. Stops # {}
  <2>1. ChunkMax + 1 \in 0 .. ChunkMax + 2 /\ ChunkMax \in 0 .. ChunkMax
    BY TrackerAssumption
  <2>2. ~(Chunk[ChunkMax + 1] <= ChunkMax)
    BY <2>1, ChunkDef, TrackerAssumption
  <2>3. ~Doubles(ChunkMax, t)
    BY <2>2 DEF Doubles
  <2> QED
    BY <2>1, <2>3
<1>2. PICK n \in Stops : \A m \in Stops : n <= m
  <2>1. Stops \subseteq Nat
    BY TrackerAssumption
  <2> QED
    BY <1>1, <2>1, LeastNumber
<1>3. n \in 0 .. ChunkMax /\ ~Doubles(n, t) /\ \A m \in 0 .. n - 1 : Doubles(m, t)
  BY <1>2, TrackerAssumption
<1> DEFINE k == CHOOSE n_1 \in 0 .. ChunkMax :
                    ~Doubles(n_1, t) /\ \A m \in 0 .. n_1 - 1 : Doubles(m, t)
<1>4. k \in 0 .. ChunkMax
  BY <1>3
<1>5. Chunk[k] \in Nat
  BY <1>4, ChunkDef, TrackerAssumption
<1>6. GetWorkEstimationForNewScene(t) = MinOf(Chunk[k] * t, NumPixels)
  BY DEF GetWorkEstimationForNewScene
<1> HIDE DEF k
<1> DEFINE e == GetWorkEstimationForNewScene(t)
<1>7. e \in Nat /\ e <= NumPixels
  BY <1>5, <1>6, TrackerAssumption DEF MinOf
<1> HIDE DEF e
<1> DEFINE d == e \div t
<1>8. d \in Nat /\ t * d <= e /\ (t > e => d = 0)
  BY <1>7
<1> HIDE DEF d
<1>9. MaxOf(1, d) = IF 1 < d THEN d ELSE 1
  BY DEF MaxOf
<1>10. /\ MaxOf(1, d) \in Nat \ {0}
       /\ IF t <= NumPixels THEN t * MaxOf(1, d) <= NumPixels ELSE MaxOf(1, d) = 1
  <2>1. CASE 1 < d
    BY <1>7, <1>8, <1>9, <2>1, TrackerAssumption
  <2>2. CASE ~(1 < d)
    BY <1>7, <1>8, <1>9, <2>2, TrackerAssumption
  <2> QED
    BY <2>1, <2>2
<1> QED
  BY <1>10 DEF d, e

\* A job is taken off the tracker.
LEMMA UntrackedType ==
    ASSUME TrackerTypeOK, NEW s \in Slots, NEW n
    PROVE  Untracked(s, n) \in [Slots -> SUBSET Jobs]
<1>1. tracked \in [Slots -> SUBSET Jobs]
  BY DEF TrackerTypeOK
<1> QED
  BY <1>1 DEF Untracked

LEMMA JobDoneType ==
    ASSUME TrackerTypeOK, NEW s \in Slots, NEW n, NotifyJobDone(s, n)
    PROVE  TrackerTypeOK' /\ UNCHANGED <<hostWorkers, lookup, maxRate>>
<1>1. /\ tracked' = Untracked(s, n)
      /\ UNCHANGED <<hostWorkers, lookup, total, maxRate>>
  BY DEF NotifyJobDone
<1>2. tracked' \in [Slots -> SUBSET Jobs]
  BY <1>1, UntrackedType
<1> QED
  BY <1>1, <1>2 DEF TrackerTypeOK

\* A listed host is found in the list; without it the list is still one, and
\* everybody else is on it.
LEMMA RemoveHostFacts ==
    ASSUME TrackerTypeOK, NEW h \in Listed, RemoveHost(h)
    PROVE  /\ hostWorkers' \in Seq(Hosts)
           /\ Listed \ {h} \subseteq Listed'
           /\ lookup' \in SUBSET Hosts
           /\ lookup' \subseteq lookup
<1> DEFINE n == CHOOSE i \in DOMAIN hostWorkers : hostWorkers[i] = h
<1>1. n \in DOMAIN hostWorkers /\ hostWorkers[n] = h
  BY DEF Listed, Range
<1>2. /\ hostWorkers' = RemoveAt(hostWorkers, n)
      /\ lookup' \subseteq lookup
  BY DEF RemoveHost
<1> HIDE DEF n
<1>3. /\ hostWorkers' \in Seq(Hosts)
      /\ Len(hostWorkers') = Len(hostWorkers) - 1
      /\ \A i \in 1 .. Len(hostWorkers) - 1 : hostWorkers'[i] =
             IF i < n THEN hostWorkers[i] ELSE hostWorkers[i + 1]
  BY <1>1, <1>2, RemoveAtFacts DEF TrackerTypeOK
<1>4. ASSUME NEW g \in Listed \ {h} PROVE g \in Listed'
  <2>1. PICK i \in DOMAIN hostWorkers : hostWorkers[i] = g
    BY DEF Listed, Range
  <2>2. /\ DOMAIN hostWorkers = 1 .. Len(hostWorkers)
        /\ DOMAIN hostWorkers' = 1 .. Len(hostWorkers')
        /\ Len(hostWorkers) \in Nat
    BY <1>3, LenProperties DEF TrackerTypeOK
  <2>3. i # n
    BY <1>1, <2>1
  <2>4. \E k \in DOMAIN hostWorkers' : hostWorkers'[k] = g
    <3>1. CASE i < n
      BY <1>1, <1>3, <2>1, <2>2, <3>1
    <3>2. CASE i > n
      <4>1. i - 1 \in DOMAIN hostWorkers' /\ ~(i - 1 < n) /\ (i - 1) + 1 = i
        BY <1>1, <1>3, <2>1, <2>2, <3>2
      <4>2. hostWorkers'[i - 1] = hostWorkers[(i - 1) + 1]
        BY <1>3, <2>2, <4>1
      <4> QED
        BY <2>1, <4>1, <4>2
    <3> QED
      BY <1>1, <2>1, <2>2, <2>3, <3>1, <3>2
  <2> QED
    BY <2>4 DEF Listed, Range
<1> QED
  BY <1>2, <1>3, <1>4 DEF TrackerTypeOK

\* Fewer pipelines are counted.
LEMMA HostFailureType ==
    ASSUME TrackerTypeOK, NEW h \in Hosts, NotifyHostFailure(h)
    PROVE  TrackerTypeOK' /\ UNCHANGED <<hostWorkers, lookup, maxRate>>
<1>1. total \in 0 .. UIntMod - 1 /\ NumPipelines[h] \in Nat
  BY SlotFacts DEF TrackerTypeOK
<1>2. (total - NumPipelines[h]) % UIntMod \in 0 .. UIntMod - 1
  BY <1>1, TrackerAssumption
<1>3. total' \in 0 .. UIntMod - 1
  BY <1>1, <1>2 DEF NotifyHostFailure
<1>4. UNCHANGED <<hostWorkers, lookup, maxRate, tracked>>
  BY DEF NotifyHostFailure
<1> QED
  BY <1>3, <1>4 DEF TrackerTypeOK
=============================================================================
