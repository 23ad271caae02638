--------------------------- MODULE SchedulerProofs ---------------------------
(***************************************************************************)
(* Proofs about the scheduler and the linked lists under it, for any CPUs, *)
(* threads, memory for nodes, and calls that take only threads with a      *)
(* neighbour on either side out of a list.  First what findValue,          *)
(* removeAt and the two insertions do to one list, pointer by pointer;     *)
(* then what they do to the three lists that share the memory; then what   *)
(* every call does to the threads.                                         *)
(***************************************************************************)
EXTENDS SchedulerMC, FiniteSetTheorems, SequenceTheorems, TLAPS

\* The least of some natural numbers.
LEMMA Least ==
    ASSUME NEW T, T \subseteq Nat, T # {}
    PROVE  \E n \in T : \A m \in T : n <= m
<1> DEFINE Less == {ss \in Nat \X Nat : ss[1] < ss[2]}
<1>1. IsWellFoundedOn(Less, Nat)
  BY NatLessThanWellFounded DEF OpToRel
<1> HIDE DEF Less
<1>2. PICK n \in T : \A m \in T : ~ (<<m, n>> \in Less)
  BY <1>1, WFMin
<1>3. ASSUME NEW m \in T
      PROVE  n <= m
  <2>1. ~ (<<m, n>> \in Less) /\ <<m, n>> \in Nat \X Nat
    BY <1>2
  <2>2. ~ (m < n)
    BY <2>1 DEF Less
  <2> QED
    BY <2>2
<1> QED
  BY <1>3

\* What holds at 0 and from each number to the next up to k, holds up to k.
LEMMA UpTo ==
    ASSUME NEW k \in Nat, NEW P, 0 \in P, \A i \in 1 .. k : i - 1 \in P => i \in P
    PROVE  \A i \in 0 .. k : i \in P
<1> DEFINE T == {i \in 0 .. k : i \notin P}
<1>1. SUFFICES ASSUME T # {} PROVE FALSE
  OBVIOUS
<1>2. PICK n \in T : \A m \in T : n <= m
  <2>1. T \subseteq Nat
    OBVIOUS
  <2> HIDE DEF T
  <2> QED
    BY <1>1, <2>1, Least
<1>3. n \in 1 .. k /\ n - 1 \in 0 .. k /\ ~ (n <= n - 1)
  BY <1>2
<1>4. n - 1 \in P
  BY <1>2, <1>3
<1> QED
  BY <1>2, <1>3, <1>4

\* A sequence is as long as its domain.
LEMMA LengthIs ==
    ASSUME NEW X, NEW w \in Seq(X), NEW n \in Nat, DOMAIN w = 1 .. n
    PROVE  Len(w) = n
  OBVIOUS
------------------------------------------------------------------------------
\* The memory of the nodes, and low memory.
Memories == [Nodes \cup {NULL} -> [data : Threads \cup {Wild},
                                   prev : Nodes \cup {NULL, Wild},
                                   next : Nodes \cup {NULL, Wild}]]

\* No two of the n elements of s are the same.
Distinct(n, s) == \A j, k \in 1 .. n : s[j] = s[k] => j = k

\* l is the list of the n nodes s, in this order, in memory m.
Chain(m, l, n, s) ==
    /\ n \in Nat /\ s \in [1 .. n -> Nodes]
    /\ Distinct(n, s)
    /\ l = IF n = 0 THEN Empty ELSE [head |-> s[1], tail |-> s[n]]
    /\ \A k \in 1 .. n : /\ m[s[k]].prev = IF k = 1 THEN NULL ELSE s[k - 1]
                         /\ m[s[k]].next = IF k = n THEN NULL ELSE s[k + 1]

\* The addresses met on the way through it.
Trail(n, s) == [k \in 1 .. n + 1 |-> IF k = n + 1 THEN NULL ELSE s[k]]

\* Addresses of nodes and threads are numbers, and neither NULL nor Wild.
LEMMA NodeFacts ==
    /\ Nodes \subseteq Nat /\ NULL \notin Nodes /\ Wild \notin Nodes
    /\ IsFiniteSet(Nodes) /\ Cardinality(Nodes) \in Nat
    /\ Nodes \cup {NULL, Wild} \subseteq Int /\ NULL # Wild
    /\ Threads \subseteq Nat /\ None \notin Threads /\ Wild \notin Threads /\ Wild # None
<1>1. Nodes \subseteq Nat \ {NULL} /\ IsFiniteSet(Nodes)
  BY NodesOK
<1>2. Cardinality(Nodes) \in Nat
  BY <1>1, FS_CardinalityType
<1>3. Threads \subseteq Nat \ {None}
  BY ThreadsOK
<1> QED
  BY <1>1, <1>2, <1>3 DEF NULL, Wild, None

\* A list has no more nodes than there are.
LEMMA ChainIsShort ==
    ASSUME NEW m, NEW l, NEW n, NEW s, Chain(m, l, n, s)
    PROVE  n <= Cardinality(Nodes)
<1>1. n \in Nat /\ s \in [1 .. n -> Nodes] /\ Distinct(n, s)
  BY DEF Chain
<1>2. IsFiniteSet(1 .. n) /\ Cardinality(1 .. n) = n
  BY <1>1, FS_Interval
<1>3. IsFiniteSet(Nodes) /\ Cardinality(Nodes) \in Nat
  BY NodeFacts
<1>4. ~ (Cardinality(Nodes) < Cardinality(1 .. n))
  BY <1>1, <1>2, <1>3, FS_PigeonHole DEF Distinct
<1> QED
  BY <1>1, <1>2, <1>3, <1>4

\* The trail is a sequence of addresses that ends at NULL.
LEMMA TrailFacts ==
    ASSUME NEW n \in Nat, NEW s \in [1 .. n -> Nodes]
    PROVE  /\ Trail(n, s) \in Seq(Int) /\ Len(Trail(n, s)) = n + 1
           /\ DOMAIN Trail(n, s) = 1 .. n + 1
           /\ \A k \in 1 .. n : Trail(n, s)[k] = s[k]
           /\ Trail(n, s)[n + 1] = NULL
<1> DEFINE t == Trail(n, s)
<1>1. t \in [1 .. n + 1 -> Int]
  BY NodeFacts DEF Trail, NULL
<1>2. t \in Seq(Int)
  BY <1>1, SeqDef
<1>3. DOMAIN t = 1 .. n + 1
  BY DEF Trail
<1>4. Len(t) = n + 1
  <2> HIDE DEF t
  <2> QED
    BY <1>2, <1>3, LengthIs
<1> QED
  BY <1>2, <1>3, <1>4 DEF Trail
------------------------------------------------------------------------------
\* One turn of Walk's loop at w, the rest of it being f.
Turn(m, f, w) == IF w[Len(w)] \in Nodes /\ Len(w) <= Cardinality(Nodes)
                 THEN f[Append(w, m[w[Len(w)]].next)]
                 ELSE w

\* The recursion of Walk ends: by induction on how many nodes are left to meet,
\* there is a function that satisfies its definition.
LEMMA WalkExists ==
    ASSUME NEW m \in Memories
    PROVE  \E f : f = [w \in Seq(Int) |-> Turn(m, f, w)]
<1> DEFINE N == Cardinality(Nodes)
           Long(d) == {w \in Seq(Int) : N + 1 <= Len(w) + d}
           Loop(f, d) == f = [w \in Long(d) |-> Turn(m, f, w)]
           P == {d \in Nat : \E f : Loop(f, d)}
<1>n. N \in Nat
  BY NodeFacts
<1>l. \A w \in Seq(Int) : Len(w) \in Nat
  BY LenProperties
<1>a. ASSUME NEW w \in Seq(Int), w[Len(w)] \in Nodes
      PROVE  /\ Append(w, m[w[Len(w)]].next) \in Seq(Int)
             /\ Len(Append(w, m[w[Len(w)]].next)) = Len(w) + 1
  <2>1. m[w[Len(w)]].next \in Int
    BY <1>a, NodeFacts DEF Memories
  <2> QED
    BY <2>1
<1> HIDE DEF N
<1>1. 0 \in P
  <2> DEFINE f == [w \in Long(0) |-> w]
  <2>1. \A w \in Long(0) : Turn(m, f, w) = w
    BY <1>l, <1>n DEF Turn, N
  <2>2. Loop(f, 0)
    BY <2>1
  <2> QED
    BY <2>2
<1>2. ASSUME NEW d \in 1 .. N + 1, d - 1 \in P
      PROVE  d \in P
  <2>1. PICK f : Loop(f, d - 1)
    BY <1>2
  <2> DEFINE g == [w \in Long(d) |-> Turn(m, f, w)]
  <2>2. ASSUME NEW w \in Long(d)
        PROVE  Turn(m, f, w) = Turn(m, g, w)
    <3>1. CASE w[Len(w)] \in Nodes /\ Len(w) <= N
      <4> DEFINE v == Append(w, m[w[Len(w)]].next)
      <4>1. v \in Seq(Int) /\ Len(v) = Len(w) + 1
        BY <3>1, <1>a
      <4>2. v \in Long(d - 1) /\ v \in Long(d)
        BY <4>1, <1>l, <1>n
      <4> HIDE DEF v
      <4>3. f[v] = Turn(m, f, v) /\ g[v] = Turn(m, f, v)
        BY <2>1, <4>2
      <4> QED
        BY <3>1, <4>3 DEF Turn, v, N
    <3>2. CASE ~ (w[Len(w)] \in Nodes /\ Len(w) <= N)
      BY <3>2 DEF Turn, N
    <3> QED
      BY <3>1, <3>2
  <2>3. Loop(g, d)
    BY <2>2
  <2>4. d \in Nat
    BY <1>n
  <2> HIDE DEF Loop, g
  <2> QED
    BY <2>3, <2>4
<1>3. N + 1 \in P
  <2> HIDE DEF P
  <2>1. \A d \in 0 .. N + 1 : d \in P
    BY <1>1, <1>2, <1>n, UpTo
  <2> QED
    BY <2>1, <1>n
<1>4. PICK f : Loop(f, N + 1)
  BY <1>3
<1>5. Long(N + 1) = Seq(Int)
  BY <1>l, <1>n
<1> QED
  BY <1>4, <1>5

\* The walk through a list in one piece meets its nodes in order, and NULL.
LEMMA WalkIs ==
    ASSUME NEW m \in Memories, NEW l, NEW n, NEW s, Chain(m, l, n, s)
    PROVE  Walk(m, l.head) = Trail(n, s)
<1> DEFINE Loop(f) == f = [w \in Seq(Int) |-> Turn(m, f, w)]
           Part(k) == [j \in 1 .. k |-> IF j = n + 1 THEN NULL ELSE s[j]]
<1>c. /\ n \in Nat /\ s \in [1 .. n -> Nodes]
      /\ l = IF n = 0 THEN Empty ELSE [head |-> s[1], tail |-> s[n]]
      /\ \A k \in 1 .. n : m[s[k]].next = IF k = n THEN NULL ELSE s[k + 1]
  BY DEF Chain
<1>n. n <= Cardinality(Nodes) /\ Cardinality(Nodes) \in Nat
  BY ChainIsShort, NodeFacts
<1>1. PICK from : from = CHOOSE f : Loop(f)
  OBVIOUS
<1>2. Loop(from)
  <2>1. \E f : Loop(f)
    BY WalkExists
  <2> HIDE DEF Loop
  <2> QED
    BY <2>1, <1>1
<1>3. Walk(m, l.head) = from[<<l.head>>]
  BY <1>1 DEF Walk, Turn
<1>4. ASSUME NEW k \in 1 .. n + 1
      PROVE  /\ Part(k) \in Seq(Int) /\ Len(Part(k)) = k /\ DOMAIN Part(k) = 1 .. k
             /\ \A j \in 1 .. k : Part(k)[j] = IF j = n + 1 THEN NULL ELSE s[j]
  <2> DEFINE p == Part(k)
  <2>1. p \in [1 .. k -> Int]
    BY <1>c, NodeFacts DEF NULL
  <2>2. p \in Seq(Int)
    BY <2>1, <1>c, SeqDef
  <2>3. DOMAIN p = 1 .. k
    OBVIOUS
  <2>4. Len(p) = k
    <3>1. k \in Nat
      BY <1>c
    <3> HIDE DEF p
    <3> QED
      BY <3>1, <2>2, <2>3, LengthIs
  <2> QED
    BY <2>2, <2>3, <2>4
<1>5. <<l.head>> = Part(1)
  <2>1. l.head = IF 1 = n + 1 THEN NULL ELSE s[1]
    BY <1>c DEF Empty
  <2> QED
    BY <2>1
<1>6. ASSUME NEW k \in 1 .. n
      PROVE  from[Part(k)] = from[Part(k + 1)]
  <2> DEFINE p == Part(k)
             q == Part(k + 1)
  <2>1. p \in Seq(Int) /\ Len(p) = k /\ p[k] = s[k] /\ s[k] \in Nodes
    BY <1>4, <1>c
  <2>2. /\ q \in Seq(Int) /\ Len(q) = k + 1
        /\ \A j \in 1 .. k + 1 : q[j] = IF j = n + 1 THEN NULL ELSE s[j]
    BY <1>4, <1>c
  <2>3. \A j \in 1 .. k : p[j] = s[j]
    BY <1>4, <1>c
  <2> HIDE DEF p, q
  <2>4. Append(p, m[s[k]].next) = q
    <3> DEFINE v == m[s[k]].next
    <3>1. v = q[k + 1] /\ v \in Int
      BY <2>2, <1>c, NodeFacts DEF NULL
    <3> HIDE DEF v
    <3>2. Append(p, v) \in Seq(Int) /\ Len(Append(p, v)) = k + 1
          /\ Append(p, v)[k + 1] = v
          /\ \A j \in 1 .. k : Append(p, v)[j] = p[j]
      BY <3>1, <2>1
    <3>3. \A j \in 1 .. k + 1 : Append(p, v)[j] = q[j]
      BY <3>1, <3>2, <2>2, <2>3, <1>c
    <3> QED
      BY <3>2, <3>3, <2>2, SeqEqual DEF v
  <2>5. from[p] = Turn(m, from, p)
    BY <1>2, <2>1
  <2>6. Turn(m, from, p) = from[Append(p, m[s[k]].next)]
    BY <2>1, <1>n, <1>c DEF Turn
  <2> QED
    BY <2>4, <2>5, <2>6 DEF p, q
<1>7. from[Part(n + 1)] = Part(n + 1)
  <2> DEFINE p == Part(n + 1)
  <2>1. p \in Seq(Int) /\ Len(p) = n + 1 /\ p[n + 1] = NULL
    BY <1>4, <1>c
  <2> HIDE DEF p
  <2>2. from[p] = Turn(m, from, p)
    BY <1>2, <2>1
  <2> QED
    BY <2>1, <2>2, NodeFacts DEF Turn, p
<1>8. from[Part(1)] = from[Part(n + 1)]
  <2> DEFINE P == {i \in Nat : i <= n => from[Part(1)] = from[Part(i + 1)]}
  <2>1. 0 \in P
    OBVIOUS
  <2>2. ASSUME NEW i \in 1 .. n, i - 1 \in P
        PROVE  i \in P
    <3>1. from[Part(1)] = from[Part((i - 1) + 1)]
      BY <2>2, <1>c
    <3>2. (i - 1) + 1 = i
      BY <1>c
    <3>3. from[Part(i)] = from[Part(i + 1)]
      BY <1>6
    <3> QED
      BY <3>1, <3>2, <3>3, <1>c
  <2>3. n \in P
    <3> HIDE DEF P
    <3>1. \A i \in 0 .. n : i \in P
      BY <2>1, <2>2, <1>c, UpTo
    <3> QED
      BY <3>1, <1>c
  <2> QED
    BY <2>3, <1>c
<1> QED
  BY <1>3, <1>5, <1>7, <1>8 DEF Trail
------------------------------------------------------------------------------
\* l holds the values v, each once, in the nodes s.
Tidy(m, l, n, s, v) ==
    /\ Chain(m, l, n, s)
    /\ v \in [1 .. n -> Threads]
    /\ Distinct(n, v)
    /\ \A k \in 1 .. n : m[s[k]].data = v[k]

\* Contents reads the values of such a list.
LEMMA ContentsIs ==
    ASSUME NEW m \in Memories, NEW l, NEW n, NEW s, NEW v, Tidy(m, l, n, s, v)
    PROVE  Contents(m, l) = v
<1> DEFINE w == Trail(n, s)
<1>1. Chain(m, l, n, s) /\ n \in Nat /\ s \in [1 .. n -> Nodes] /\ v \in [1 .. n -> Threads]
      /\ \A k \in 1 .. n : m[s[k]].data = v[k]
  BY DEF Tidy, Chain
<1>2. Walk(m, l.head) = w
  BY <1>1, WalkIs
<1>t. w \in Seq(Int) /\ Len(w) = n + 1 /\ \A k \in 1 .. n : w[k] = s[k]
  BY <1>1, TrailFacts
<1> HIDE DEF w
<1>3. w \in Seq(Int) /\ Len(w) - 1 = n /\ \A k \in 1 .. n : w[k] = s[k]
  BY <1>1, <1>t
<1>4. Contents(m, l) = [k \in 1 .. Len(w) - 1 |-> m[w[k]].data]
  BY <1>2, <1>3 DEF Contents
<1>5. Contents(m, l) = [k \in 1 .. n |-> v[k]]
  BY <1>1, <1>3, <1>4
<1> QED
  BY <1>1, <1>5

\* What findValue makes of the way w it went.
Found(m, w, t) ==
    IF \E k \in 1 .. Len(w) - 1 : m[w[k]].data = t
    THEN w[CHOOSE k \in 1 .. Len(w) - 1 :
               m[w[k]].data = t /\ \A j \in 1 .. k - 1 : m[w[j]].data # t]
    ELSE IF w[Len(w)] = NULL THEN NULL ELSE Wild

\* findValue finds the node of a value that is there, and NULL for another.
LEMMA FindIs ==
    ASSUME NEW m \in Memories, NEW l, NEW n, NEW s, NEW v, Tidy(m, l, n, s, v)
    PROVE  /\ \A k \in 1 .. n : FindValue(m, l, v[k]) = s[k]
           /\ \A t : (\A k \in 1 .. n : v[k] # t) => FindValue(m, l, t) = NULL
<1> DEFINE w == Trail(n, s)
<1>1. /\ Chain(m, l, n, s) /\ n \in Nat /\ s \in [1 .. n -> Nodes] /\ v \in [1 .. n -> Threads]
      /\ \A k \in 1 .. n : m[s[k]].data = v[k]
      /\ Distinct(n, v)
  BY DEF Tidy, Chain
<1>2. Walk(m, l.head) = w
  BY <1>1, WalkIs
<1>t. /\ w \in Seq(Int) /\ Len(w) = n + 1
      /\ \A k \in 1 .. n : w[k] = s[k]
      /\ w[n + 1] = NULL
  BY <1>1, TrailFacts
<1> HIDE DEF w
<1>3. /\ w \in Seq(Int) /\ Len(w) - 1 = n /\ Len(w) = n + 1
      /\ \A k \in 1 .. n : w[k] = s[k]
      /\ w[n + 1] = NULL
  BY <1>1, <1>t
<1>4. ASSUME NEW t
      PROVE  FindValue(m, l, t) = Found(m, w, t)
  <2>1. FindValue(m, l, t) = [x \in Seq(Int) |-> Found(m, x, t)][Walk(m, l.head)]
    BY DEF FindValue, Found
  <2> QED
    BY <1>2, <1>3, <2>1
<1>5. ASSUME NEW k \in 1 .. n
      PROVE  FindValue(m, l, v[k]) = s[k]
  <2> DEFINE First(i) == m[w[i]].data = v[k] /\ \A j \in 1 .. i - 1 : m[w[j]].data # v[k]
  <2>1. First(k)
    <3>1. m[w[k]].data = v[k]
      BY <1>1, <1>3
    <3>2. ASSUME NEW j \in 1 .. k - 1
          PROVE  m[w[j]].data # v[k]
      <4>1. j \in 1 .. n /\ k \in 1 .. n /\ j # k
        BY <1>1
      <4>2. m[w[j]].data = v[j]
        BY <4>1, <1>1, <1>3
      <4>3. v[j] # v[k]
        BY <4>1, <1>1 DEF Distinct
      <4> QED
        BY <4>2, <4>3
    <3> QED
      BY <3>1, <3>2
  <2>2. \A i \in 1 .. n : First(i) => i = k
    BY <1>1, <1>3 DEF Distinct
  <2>3. (CHOOSE i \in 1 .. Len(w) - 1 : First(i)) = k
    <3> HIDE DEF First
    <3> QED
      BY <2>1, <2>2, <1>3
  <2>4. \E i \in 1 .. Len(w) - 1 : m[w[i]].data = v[k]
    BY <2>1, <1>3
  <2>5. FindValue(m, l, v[k]) = w[CHOOSE i \in 1 .. Len(w) - 1 : First(i)]
    BY <1>4, <2>4 DEF Found
  <2> QED
    BY <2>3, <2>5, <1>3
<1>6. ASSUME NEW t, \A k \in 1 .. n : v[k] # t
      PROVE  FindValue(m, l, t) = NULL
  <2>1. ~ \E k \in 1 .. Len(w) - 1 : m[w[k]].data = t
    BY <1>1, <1>3, <1>6
  <2> QED
    BY <1>3, <1>4, <2>1 DEF Found
<1> QED
  BY <1>5, <1>6

\* The list is in one piece, of these nodes.
LEMMA PieceIs ==
    ASSUME NEW m \in Memories, NEW l, NEW n, NEW s, Chain(m, l, n, s)
    PROVE  InOnePiece(m, l) /\ NodesOf(m, l) = {s[k] : k \in 1 .. n}
<1> DEFINE w == Trail(n, s)
<1>1. /\ n \in Nat /\ s \in [1 .. n -> Nodes]
      /\ l = IF n = 0 THEN Empty ELSE [head |-> s[1], tail |-> s[n]]
      /\ \A k \in 1 .. n : m[s[k]].prev = IF k = 1 THEN NULL ELSE s[k - 1]
  BY DEF Chain
<1>2. Walk(m, l.head) = w
  BY WalkIs
<1>t. /\ Len(w) = n + 1 /\ DOMAIN w = 1 .. n + 1
      /\ \A k \in 1 .. n : w[k] = s[k]
      /\ w[n + 1] = NULL
  BY <1>1, TrailFacts
<1> HIDE DEF w
<1>3. /\ Len(w) - 1 = n /\ Len(w) = n + 1 /\ DOMAIN w = 1 .. n + 1
      /\ \A k \in 1 .. n : w[k] = s[k]
      /\ w[n + 1] = NULL
  BY <1>1, <1>t
<1>4. l.tail = IF n + 1 = 1 THEN NULL ELSE w[n]
  BY <1>1, <1>3 DEF Empty
<1>5. InOnePiece(m, l)
  <2>1. \A k \in 1 .. n : m[w[k]].prev = IF k = 1 THEN NULL ELSE w[k - 1]
    BY <1>1, <1>3
  <2>2. l.tail = IF Len(w) = 1 THEN NULL ELSE w[Len(w) - 1]
    BY <1>3, <1>4
  <2>3. w[Len(w)] = NULL
    BY <1>3
  <2> QED
    BY <1>2, <1>3, <2>1, <2>2, <2>3 DEF InOnePiece
<1>6. NodesOf(m, l) = {s[k] : k \in 1 .. n}
  <2>1. NULL \notin Nodes
    BY NodeFacts
  <2>2. \A k \in 1 .. n + 1 : w[k] \in Nodes <=> k \in 1 .. n
    BY <1>1, <1>3, <2>1
  <2>3. NodesOf(m, l) = {w[k] : k \in 1 .. n + 1} \cap Nodes
    BY <1>2, <1>3 DEF NodesOf
  <2>4. {w[k] : k \in 1 .. n + 1} \cap Nodes = {s[k] : k \in 1 .. n}
    <3>1. \A k \in 1 .. n : k \in 1 .. n + 1
      BY <1>1
    <3> QED
      BY <1>1, <1>3, <2>2, <3>1
  <2> QED
    BY <2>3, <2>4
<1> QED
  BY <1>5, <1>6
------------------------------------------------------------------------------
On(n, s, x) == \E k \in 1 .. n : s[k] = x

\* x behind the n elements of s, x in front of them, and s without place c.
Put(n, s, x)  == [k \in 1 .. n + 1 |-> IF k = n + 1 THEN x ELSE s[k]]
Push(n, s, x) == [k \in 1 .. n + 1 |-> IF k = 1 THEN x ELSE s[k - 1]]
Cut(n, s, c)  == [k \in 1 .. n - 1 |-> IF k < c THEN s[k] ELSE s[k + 1]]

\* What is in a cell of memory.
LEMMA MemoryFacts ==
    ASSUME NEW m \in Memories, NEW i \in Nodes \cup {NULL}
    PROVE  /\ m[i] \in [data : Threads \cup {Wild}, prev : Nodes \cup {NULL, Wild},
                        next : Nodes \cup {NULL, Wild}]
           /\ m = [x \in Nodes \cup {NULL} |-> m[x]]
  BY DEF Memories

\* insertToTail links the new node behind the old tail.
LEMMA TailMemory ==
    ASSUME NEW m \in Memories, NEW l, NEW n, NEW s, Chain(m, l, n, s),
           NEW i \in Nodes, \A k \in 1 .. n : s[k] # i, NEW t \in Threads
    PROVE  LET a == InsertToTail(m, l, i, t)
           IN  /\ a.mem \in Memories
               /\ a.list = [head |-> IF n = 0 THEN i ELSE s[1], tail |-> i]
               /\ a.mem[i].data = t /\ a.mem[i].next = NULL
               /\ a.mem[i].prev = IF n = 0 THEN NULL ELSE s[n]
               /\ \A x \in Nodes \cup {NULL} : x # i =>
                    /\ a.mem[x].data = m[x].data /\ a.mem[x].prev = m[x].prev
                    /\ n = 0 \/ x # s[n] => a.mem[x] = m[x]
               /\ n # 0 => a.mem[s[n]].next = i
<1> DEFINE a == InsertToTail(m, l, i, t)
<1>1. /\ n \in Nat /\ s \in [1 .. n -> Nodes]
      /\ l = IF n = 0 THEN Empty ELSE [head |-> s[1], tail |-> s[n]]
      /\ NULL \notin Nodes
  BY NodeFacts DEF Chain
<1>2. CASE n = 0
  <2>1. a = [mem  |-> [m EXCEPT ![i] = Node(t, NULL, NULL)],
             list |-> [head |-> i, tail |-> i]]
    BY <1>1, <1>2 DEF InsertToTail, Empty
  <2>2. a.mem = [m EXCEPT ![i] = Node(t, NULL, NULL)] /\ a.list = [head |-> i, tail |-> i]
    BY <2>1
  <2> HIDE DEF a
  <2> QED
    <3>1. \A x \in Nodes \cup {NULL} :
             a.mem[x] = IF x = i THEN [data |-> t, prev |-> NULL, next |-> NULL] ELSE m[x]
      BY <2>2 DEF Memories, Node
    <3>2. a.mem \in Memories
      BY <2>2 DEF Memories, Node
    <3> QED
      BY <2>2, <3>1, <3>2, <1>2 DEF a
<1>3. CASE n # 0
  <2>1. s[n] \in Nodes /\ s[n] # i /\ l.tail = s[n] /\ l.tail # NULL /\ l.head = s[1]
    BY <1>1, <1>3
  <2>2. /\ a.mem = [m EXCEPT ![i] = Node(t, NULL, NULL), ![s[n]].next = i, ![i].prev = s[n]]
        /\ a.list = [l EXCEPT !.tail = i]
    BY <2>1 DEF InsertToTail
  <2>3. a.list = [head |-> s[1], tail |-> i]
    BY <2>2, <1>1, <1>3
  <2> DEFINE p == s[n]
  <2>p. p \in Nodes /\ p # i
    BY <2>1
  <2> HIDE DEF a, p
  <2>4. \A x \in Nodes \cup {NULL} :
           a.mem[x] = IF x = i THEN [data |-> t, prev |-> p, next |-> NULL]
                      ELSE IF x = p THEN [m[x] EXCEPT !.next = i] ELSE m[x]
    BY <2>1, <2>2 DEF Memories, Node, p
  <2>i. a.mem[i] = [data |-> t, prev |-> p, next |-> NULL]
    BY <2>4
  <2>5. a.mem \in Memories
    <3>1. a.mem = [x \in Nodes \cup {NULL} |-> a.mem[x]]
      BY <2>2 DEF Memories
    <3>2. \A x \in Nodes \cup {NULL} :
             a.mem[x] \in [data : Threads \cup {Wild}, prev : Nodes \cup {NULL, Wild},
                           next : Nodes \cup {NULL, Wild}]
      <4> SUFFICES ASSUME NEW x \in Nodes \cup {NULL}
                   PROVE  a.mem[x] \in [data : Threads \cup {Wild}, prev : Nodes \cup {NULL, Wild},
                                        next : Nodes \cup {NULL, Wild}]
        OBVIOUS
      <4>1. CASE x = i
        BY <4>1, <2>i, <2>p
      <4>2. CASE x # i
        <5>1. CASE x = p
          <6>1. a.mem[x] = [m[x] EXCEPT !.next = i]
            BY <4>2, <5>1, <2>4
          <6> QED
            BY <6>1, MemoryFacts
        <5>2. CASE x # p
          BY <4>2, <5>2, <2>4, MemoryFacts
        <5> QED
          BY <5>1, <5>2
      <4> QED
        BY <4>1, <4>2
    <3> QED
      BY <3>1, <3>2 DEF Memories
  <2>6. \A x \in Nodes \cup {NULL} : x # i =>
           /\ a.mem[x].data = m[x].data /\ a.mem[x].prev = m[x].prev
           /\ x # p => a.mem[x] = m[x]
    <3>1. ASSUME p \in Nodes \cup {NULL}, p # i
          PROVE  a.mem[p].data = m[p].data /\ a.mem[p].prev = m[p].prev
      <4>1. a.mem[p] = [m[p] EXCEPT !.next = i]
        BY <3>1, <2>4
      <4> QED
        BY <4>1, <3>1, MemoryFacts
    <3> QED
      BY <3>1, <2>4
  <2>7. a.mem[p].next = i
    <3>1. a.mem[p] = [m[p] EXCEPT !.next = i]
      BY <2>4, <2>p
    <3> QED
      BY <3>1, <2>p, MemoryFacts
  <2> QED
    <3>1. a.mem[i].data = t /\ a.mem[i].next = NULL /\ a.mem[i].prev = p
      BY <2>i
    <3>2. \A x \in Nodes \cup {NULL} : x # i =>
             /\ a.mem[x].data = m[x].data /\ a.mem[x].prev = m[x].prev
             /\ n = 0 \/ x # p => a.mem[x] = m[x]
      BY <2>6, <1>3
    <3> QED
      BY <2>3, <2>5, <2>7, <3>1, <3>2, <1>3 DEF a, p
<1> QED
  BY <1>2, <1>3

\* insertToHead links the new node before the old head.
LEMMA HeadMemory ==
    ASSUME NEW m \in Memories, NEW l, NEW n, NEW s, Chain(m, l, n, s),
           NEW i \in Nodes, \A k \in 1 .. n : s[k] # i, NEW t \in Threads
    PROVE  LET a == InsertToHead(m, l, i, t)
           IN  /\ a.mem \in Memories
               /\ a.list = [head |-> i, tail |-> IF n = 0 THEN i ELSE s[n]]
               /\ a.mem[i].data = t /\ a.mem[i].prev = NULL
               /\ a.mem[i].next = IF n = 0 THEN NULL ELSE s[1]
               /\ \A x \in Nodes \cup {NULL} : x # i =>
                    /\ a.mem[x].data = m[x].data /\ a.mem[x].next = m[x].next
                    /\ n = 0 \/ x # s[1] => a.mem[x] = m[x]
               /\ n # 0 => a.mem[s[1]].prev = i
<1> DEFINE a == InsertToHead(m, l, i, t)
<1>1. /\ n \in Nat /\ s \in [1 .. n -> Nodes]
      /\ l = IF n = 0 THEN Empty ELSE [head |-> s[1], tail |-> s[n]]
      /\ NULL \notin Nodes
  BY NodeFacts DEF Chain
<1>2. CASE n = 0
  <2>1. a = [mem  |-> [m EXCEPT ![i] = Node(t, NULL, NULL)],
             list |-> [head |-> i, tail |-> i]]
    BY <1>1, <1>2 DEF InsertToHead, Empty
  <2>2. a.mem = [m EXCEPT ![i] = Node(t, NULL, NULL)] /\ a.list = [head |-> i, tail |-> i]
    BY <2>1
  <2> HIDE DEF a
  <2> QED
    <3>1. \A x \in Nodes \cup {NULL} :
             a.mem[x] = IF x = i THEN [data |-> t, prev |-> NULL, next |-> NULL] ELSE m[x]
      BY <2>2 DEF Memories, Node
    <3>2. a.mem \in Memories
      BY <2>2 DEF Memories, Node
    <3> QED
      BY <2>2, <3>1, <3>2, <1>2 DEF a
<1>3. CASE n # 0
  <2>1. s[1] \in Nodes /\ s[1] # i /\ l.head = s[1] /\ l.head # NULL /\ l.tail = s[n]
    BY <1>1, <1>3
  <2>2. /\ a.mem = [m EXCEPT ![i] = Node(t, NULL, s[1]), ![s[1]].prev = i]
        /\ a.list = [l EXCEPT !.head = i]
    BY <2>1 DEF InsertToHead
  <2>3. a.list = [head |-> i, tail |-> s[n]]
    BY <2>2, <1>1, <1>3
  <2> DEFINE p == s[1]
  <2>p. p \in Nodes /\ p # i
    BY <2>1
  <2> HIDE DEF a, p
  <2>4. \A x \in Nodes \cup {NULL} :
           a.mem[x] = IF x = i THEN [data |-> t, prev |-> NULL, next |-> p]
                      ELSE IF x = p THEN [m[x] EXCEPT !.prev = i] ELSE m[x]
    BY <2>1, <2>2 DEF Memories, Node, p
  <2>i. a.mem[i] = [data |-> t, prev |-> NULL, next |-> p]
    BY <2>4
  <2>5. a.mem \in Memories
    <3>1. a.mem = [x \in Nodes \cup {NULL} |-> a.mem[x]]
      BY <2>2 DEF Memories
    <3>2. \A x \in Nodes \cup {NULL} :
             a.mem[x] \in [data : Threads \cup {Wild}, prev : Nodes \cup {NULL, Wild},
                           next : Nodes \cup {NULL, Wild}]
      <4> SUFFICES ASSUME NEW x \in Nodes \cup {NULL}
                   PROVE  a.mem[x] \in [data : Threads \cup {Wild}, prev : Nodes \cup {NULL, Wild},
                                        next : Nodes \cup {NULL, Wild}]
        OBVIOUS
      <4>1. CASE x = i
        BY <4>1, <2>i, <2>p
      <4>2. CASE x # i
        <5>1. CASE x = p
          <6>1. a.mem[x] = [m[x] EXCEPT !.prev = i]
            BY <4>2, <5>1, <2>4
          <6> QED
            BY <6>1, MemoryFacts
        <5>2. CASE x # p
          BY <4>2, <5>2, <2>4, MemoryFacts
        <5> QED
          BY <5>1, <5>2
      <4> QED
        BY <4>1, <4>2
    <3> QED
      BY <3>1, <3>2 DEF Memories
  <2>6. \A x \in Nodes \cup {NULL} : x # i =>
           /\ a.mem[x].data = m[x].data /\ a.mem[x].next = m[x].next
           /\ x # p => a.mem[x] = m[x]
    <3>1. ASSUME p \in Nodes \cup {NULL}, p # i
          PROVE  a.mem[p].data = m[p].data /\ a.mem[p].next = m[p].next
      <4>1. a.mem[p] = [m[p] EXCEPT !.prev = i]
        BY <3>1, <2>4
      <4> QED
        BY <4>1, <3>1, MemoryFacts
    <3> QED
      BY <3>1, <2>4
  <2>7. a.mem[p].prev = i
    <3>1. a.mem[p] = [m[p] EXCEPT !.prev = i]
      BY <2>4, <2>p
    <3> QED
      BY <3>1, <2>p, MemoryFacts
  <2> QED
    <3>1. a.mem[i].data = t /\ a.mem[i].prev = NULL /\ a.mem[i].next = p
      BY <2>i
    <3>2. \A x \in Nodes \cup {NULL} : x # i =>
             /\ a.mem[x].data = m[x].data /\ a.mem[x].next = m[x].next
             /\ n = 0 \/ x # p => a.mem[x] = m[x]
      BY <2>6, <1>3
    <3> QED
      BY <2>3, <2>5, <2>7, <3>1, <3>2, <1>3 DEF a, p
<1> QED
  BY <1>2, <1>3

\* removeAt makes the two neighbours of the node each other's.
LEMMA RemoveMemory ==
    ASSUME NEW m \in Memories, NEW l, NEW n, NEW s, Chain(m, l, n, s),
           NEW c \in 2 .. n - 1
    PROVE  LET a == RemoveAt(m, s[c])
           IN  /\ a \in Memories
               /\ \A x \in Nodes \cup {NULL} :
                    /\ a[x].data = m[x].data
                    /\ a[x].next = IF x = s[c - 1] THEN s[c + 1] ELSE m[x].next
                    /\ a[x].prev = IF x = s[c + 1] THEN s[c - 1] ELSE m[x].prev
                    /\ x # s[c - 1] /\ x # s[c + 1] => a[x] = m[x]
<1> DEFINE a == RemoveAt(m, s[c])
<1>1. /\ n \in Nat /\ s \in [1 .. n -> Nodes]
      /\ Distinct(n, s)
      /\ \A k \in 1 .. n : /\ m[s[k]].prev = IF k = 1 THEN NULL ELSE s[k - 1]
                           /\ m[s[k]].next = IF k = n THEN NULL ELSE s[k + 1]
  BY DEF Chain
<1>2. c \in 1 .. n /\ c - 1 \in 1 .. n /\ c + 1 \in 1 .. n /\ c - 1 # c + 1 /\ c # 1 /\ c # n
  BY <1>1
<1>3. /\ m[s[c]].prev = s[c - 1] /\ m[s[c]].next = s[c + 1]
      /\ s[c - 1] \in Nodes /\ s[c + 1] \in Nodes /\ s[c - 1] # s[c + 1]
  BY <1>1, <1>2 DEF Distinct
<1>4. a = [m EXCEPT ![s[c - 1]].next = s[c + 1], ![s[c + 1]].prev = s[c - 1]]
  BY <1>3 DEF RemoveAt
<1> HIDE DEF a
<1> DEFINE p == s[c - 1]
           q == s[c + 1]
<1>5. p \in Nodes /\ q \in Nodes /\ p # q /\ a = [m EXCEPT ![p].next = q, ![q].prev = p]
  BY <1>3, <1>4
<1> HIDE DEF p, q
<1>6. \A x \in Nodes \cup {NULL} :
         a[x] = IF x = p THEN [m[x] EXCEPT !.next = q]
                ELSE IF x = q THEN [m[x] EXCEPT !.prev = p] ELSE m[x]
  BY <1>5 DEF Memories
<1>7. a \in Memories
  <2>1. a = [x \in Nodes \cup {NULL} |-> a[x]]
    BY <1>5 DEF Memories
  <2>2. \A x \in Nodes \cup {NULL} :
           a[x] \in [data : Threads \cup {Wild}, prev : Nodes \cup {NULL, Wild},
                     next : Nodes \cup {NULL, Wild}]
    BY <1>5, <1>6, MemoryFacts
  <2> QED
    BY <2>1, <2>2 DEF Memories
<1>8. \A x \in Nodes \cup {NULL} :
         /\ a[x].data = m[x].data
         /\ a[x].next = IF x = p THEN q ELSE m[x].next
         /\ a[x].prev = IF x = q THEN p ELSE m[x].prev
         /\ x # p /\ x # q => a[x] = m[x]
  BY <1>5, <1>6, MemoryFacts
<1> QED
  BY <1>7, <1>8 DEF a, p, q
------------------------------------------------------------------------------
\* A list is not disturbed by what happens elsewhere in memory.
LEMMA SameTidy ==
    ASSUME NEW m, NEW l, NEW n, NEW s, NEW v, Tidy(m, l, n, s, v),
           NEW o, \A k \in 1 .. n : o[s[k]] = m[s[k]]
    PROVE  Tidy(o, l, n, s, v)
  BY DEF Tidy, Chain

\* Element by element.
LEMMA PutFacts ==
    ASSUME NEW n \in Nat, NEW S, NEW s \in [1 .. n -> S], NEW x \in S
    PROVE  /\ Put(n, s, x) \in [1 .. n + 1 -> S] /\ Put(n, s, x)[n + 1] = x
           /\ \A k \in 1 .. n : Put(n, s, x)[k] = s[k]
  BY DEF Put

\* Element by element.
LEMMA PushFacts ==
    ASSUME NEW n \in Nat, NEW S, NEW s \in [1 .. n -> S], NEW x \in S
    PROVE  /\ Push(n, s, x) \in [1 .. n + 1 -> S] /\ Push(n, s, x)[1] = x
           /\ \A k \in 2 .. n + 1 : Push(n, s, x)[k] = s[k - 1]
           /\ \A k \in 1 .. n : Push(n, s, x)[k + 1] = s[k]
<1>1. /\ Push(n, s, x) \in [1 .. n + 1 -> S] /\ Push(n, s, x)[1] = x
      /\ \A k \in 2 .. n + 1 : Push(n, s, x)[k] = s[k - 1]
  BY DEF Push
<1> QED
  BY <1>1

\* A new element at the end does not repeat one.
LEMMA PutDistinct ==
    ASSUME NEW n \in Nat, NEW s, Distinct(n, s), NEW x, \A k \in 1 .. n : s[k] # x
    PROVE  Distinct(n + 1, Put(n, s, x)) /\ Distinct(n + 1, Push(n, s, x))
<1>1. Put(n, s, x)[n + 1] = x /\ \A k \in 1 .. n : Put(n, s, x)[k] = s[k]
  BY DEF Put
<1>2. Push(n, s, x)[1] = x /\ \A k \in 2 .. n + 1 : Push(n, s, x)[k] = s[k - 1]
  BY DEF Push
<1>3. ASSUME NEW j \in 1 .. n + 1, NEW k \in 1 .. n + 1,
             Put(n, s, x)[j] = Put(n, s, x)[k]
      PROVE  j = k
  BY <1>1, <1>3 DEF Distinct
<1>4. ASSUME NEW j \in 1 .. n + 1, NEW k \in 1 .. n + 1,
             Push(n, s, x)[j] = Push(n, s, x)[k]
      PROVE  j = k
  <2>1. \A i \in 2 .. n + 1 : i - 1 \in 1 .. n /\ Push(n, s, x)[i] # x
    BY <1>2
  <2>2. CASE j = 1 \/ k = 1
    BY <2>1, <2>2, <1>2, <1>4
  <2>3. CASE j \in 2 .. n + 1 /\ k \in 2 .. n + 1
    BY <2>1, <2>3, <1>2, <1>4 DEF Distinct
  <2> QED
    BY <2>2, <2>3
<1> QED
  BY <1>3, <1>4 DEF Distinct

\* Every element of what is left was an element.
LEMMA CutFrom ==
    ASSUME NEW n \in Nat, NEW s, NEW c \in 1 .. n, NEW k \in 1 .. n - 1
    PROVE  \E j \in 1 .. n : Cut(n, s, c)[k] = s[j] /\ j # c
<1>1. CASE k < c
  BY <1>1 DEF Cut
<1>2. CASE ~ (k < c)
  <2>1. k + 1 \in 1 .. n /\ k + 1 # c
    BY <1>2
  <2> QED
    BY <2>1, <1>2 DEF Cut
<1> QED
  BY <1>1, <1>2

\* Every element but the one cut is still there.
LEMMA CutOnto ==
    ASSUME NEW n \in Nat, NEW s, NEW c \in 1 .. n, NEW j \in 1 .. n, j # c
    PROVE  \E k \in 1 .. n - 1 : Cut(n, s, c)[k] = s[j]
<1>1. CASE j < c
  <2>1. j \in 1 .. n - 1
    BY <1>1
  <2> QED
    BY <2>1, <1>1 DEF Cut
<1>2. CASE j > c
  <2>1. j - 1 \in 1 .. n - 1 /\ ~ (j - 1 < c) /\ (j - 1) + 1 = j
    BY <1>2
  <2> QED
    BY <2>1 DEF Cut
<1> QED
  BY <1>1, <1>2

\* Nothing is repeated in what is left.
LEMMA CutDistinct ==
    ASSUME NEW n \in Nat, NEW s, NEW c \in 1 .. n, Distinct(n, s)
    PROVE  Distinct(n - 1, Cut(n, s, c))
<1>1. \A k \in 1 .. n - 1 : Cut(n, s, c)[k] = IF k < c THEN s[k] ELSE s[k + 1]
  BY DEF Cut
<1> QED
  BY <1>1 DEF Distinct

\* The elements that are left are all but the one that was cut.
LEMMA CutOn ==
    ASSUME NEW n \in Nat, NEW s, NEW c \in 1 .. n, Distinct(n, s), NEW x
    PROVE  On(n - 1, Cut(n, s, c), x) <=> On(n, s, x) /\ x # s[c]
<1>1. ASSUME NEW k \in 1 .. n - 1, Cut(n, s, c)[k] = x
      PROVE  On(n, s, x) /\ x # s[c]
  <2>1. PICK j \in 1 .. n : Cut(n, s, c)[k] = s[j] /\ j # c
    BY CutFrom
  <2> QED
    BY <1>1, <2>1 DEF On, Distinct
<1>2. ASSUME NEW j \in 1 .. n, s[j] = x, x # s[c]
      PROVE  On(n - 1, Cut(n, s, c), x)
  <2>1. PICK k \in 1 .. n - 1 : Cut(n, s, c)[k] = s[j]
    BY <1>2, CutOnto
  <2> QED
    BY <1>2, <2>1 DEF On
<1> QED
  BY <1>1, <1>2 DEF On

\* insertToTail puts a value at the end of a list.
LEMMA TailTidy ==
    ASSUME NEW m \in Memories, NEW l, NEW n, NEW s, NEW v, Tidy(m, l, n, s, v),
           NEW i \in Nodes, \A k \in 1 .. n : s[k] # i,
           NEW t \in Threads, \A k \in 1 .. n : v[k] # t
    PROVE  LET a == InsertToTail(m, l, i, t)
           IN  Tidy(a.mem, a.list, n + 1, Put(n, s, i), Put(n, v, t))
<1> DEFINE a  == InsertToTail(m, l, i, t)
           ss == Put(n, s, i)
           vv == Put(n, v, t)
<1>1. /\ Chain(m, l, n, s) /\ n \in Nat /\ s \in [1 .. n -> Nodes]
      /\ v \in [1 .. n -> Threads]
      /\ Distinct(n, s)
      /\ Distinct(n, v)
      /\ \A k \in 1 .. n : /\ m[s[k]].prev = IF k = 1 THEN NULL ELSE s[k - 1]
                           /\ m[s[k]].next = IF k = n THEN NULL ELSE s[k + 1]
                           /\ m[s[k]].data = v[k]
  BY DEF Tidy, Chain
<1>2. /\ a.mem \in Memories
      /\ a.list = [head |-> IF n = 0 THEN i ELSE s[1], tail |-> i]
      /\ a.mem[i].data = t /\ a.mem[i].next = NULL
      /\ a.mem[i].prev = IF n = 0 THEN NULL ELSE s[n]
      /\ \A x \in Nodes \cup {NULL} : x # i =>
           /\ a.mem[x].data = m[x].data /\ a.mem[x].prev = m[x].prev
           /\ n = 0 \/ x # s[n] => a.mem[x] = m[x]
      /\ n # 0 => a.mem[s[n]].next = i
  BY <1>1, TailMemory
<1>3. /\ ss \in [1 .. n + 1 -> Nodes] /\ ss[n + 1] = i /\ \A k \in 1 .. n : ss[k] = s[k]
      /\ Distinct(n + 1, ss)
  <2>1. Distinct(n + 1, Put(n, s, i))
    BY <1>1, PutDistinct
  <2>2. n \in Nat /\ s \in [1 .. n -> Nodes] /\ i \in Nodes
    BY <1>1
  <2>3. Put(n, s, i) \in [1 .. n + 1 -> Nodes]
    BY <2>2, PutFacts
  <2> QED
    BY <2>1, <2>2, <2>3 DEF Put
<1>4. /\ vv \in [1 .. n + 1 -> Threads] /\ vv[n + 1] = t /\ \A k \in 1 .. n : vv[k] = v[k]
      /\ Distinct(n + 1, vv)
  <2>1. Distinct(n + 1, Put(n, v, t))
    BY <1>1, PutDistinct
  <2>2. n \in Nat /\ v \in [1 .. n -> Threads] /\ t \in Threads
    BY <1>1
  <2>3. Put(n, v, t) \in [1 .. n + 1 -> Threads]
    BY <2>2, PutFacts
  <2> QED
    BY <2>1, <2>2, <2>3 DEF Put
<1> HIDE DEF a, ss, vv
<1>5. a.list = [head |-> ss[1], tail |-> ss[n + 1]]
  BY <1>1, <1>2, <1>3
<1>6. ASSUME NEW k \in 1 .. n + 1
      PROVE  /\ a.mem[ss[k]].prev = IF k = 1 THEN NULL ELSE ss[k - 1]
             /\ a.mem[ss[k]].next = IF k = n + 1 THEN NULL ELSE ss[k + 1]
             /\ a.mem[ss[k]].data = vv[k]
  <2>1. CASE k = n + 1
    <3>1. a.mem[ss[k]].prev = IF k = 1 THEN NULL ELSE ss[k - 1]
      BY <2>1, <1>1, <1>2, <1>3
    <3> QED
      BY <2>1, <3>1, <1>1, <1>2, <1>3, <1>4
  <2>2. CASE k \in 1 .. n
    <3>1. ss[k] = s[k] /\ s[k] # i /\ s[k] \in Nodes /\ k # n + 1
          /\ a.mem[s[k]].data = m[s[k]].data /\ a.mem[s[k]].prev = m[s[k]].prev
      BY <2>2, <1>1, <1>2, <1>3
    <3>2. k # 1 => ss[k - 1] = s[k - 1]
      BY <2>2, <1>1, <1>3
    <3>3. a.mem[ss[k]].next = ss[k + 1]
      <4>1. CASE k = n
        BY <4>1, <2>2, <3>1, <1>1, <1>2, <1>3
      <4>2. CASE k # n
        <5>1. s[k] # s[n] /\ k + 1 \in 1 .. n
          BY <4>2, <2>2, <1>1 DEF Distinct
        <5>2. a.mem[s[k]] = m[s[k]]
          BY <5>1, <3>1, <1>2
        <5> QED
          BY <4>2, <5>1, <5>2, <2>2, <3>1, <1>1, <1>3
      <4> QED
        BY <4>1, <4>2
    <3> QED
      BY <2>2, <3>1, <3>2, <3>3, <1>1, <1>4
  <2> QED
    BY <2>1, <2>2, <1>1
<1>7. Chain(a.mem, a.list, n + 1, ss)
  BY <1>1, <1>3, <1>5, <1>6 DEF Chain
<1>8. Tidy(a.mem, a.list, n + 1, ss, vv)
  BY <1>4, <1>6, <1>7 DEF Tidy
<1> QED
  BY <1>8 DEF a, ss, vv

\* insertToHead puts a value in front of a list.
LEMMA HeadTidy ==
    ASSUME NEW m \in Memories, NEW l, NEW n, NEW s, NEW v, Tidy(m, l, n, s, v),
           NEW i \in Nodes, \A k \in 1 .. n : s[k] # i,
           NEW t \in Threads, \A k \in 1 .. n : v[k] # t
    PROVE  LET a == InsertToHead(m, l, i, t)
           IN  Tidy(a.mem, a.list, n + 1, Push(n, s, i), Push(n, v, t))
<1> DEFINE a  == InsertToHead(m, l, i, t)
           ss == Push(n, s, i)
           vv == Push(n, v, t)
<1>1. /\ Chain(m, l, n, s) /\ n \in Nat /\ s \in [1 .. n -> Nodes]
      /\ v \in [1 .. n -> Threads]
      /\ Distinct(n, s)
      /\ Distinct(n, v)
      /\ \A k \in 1 .. n : /\ m[s[k]].prev = IF k = 1 THEN NULL ELSE s[k - 1]
                           /\ m[s[k]].next = IF k = n THEN NULL ELSE s[k + 1]
                           /\ m[s[k]].data = v[k]
  BY DEF Tidy, Chain
<1>2. /\ a.mem \in Memories
      /\ a.list = [head |-> i, tail |-> IF n = 0 THEN i ELSE s[n]]
      /\ a.mem[i].data = t /\ a.mem[i].prev = NULL
      /\ a.mem[i].next = IF n = 0 THEN NULL ELSE s[1]
      /\ \A x \in Nodes \cup {NULL} : x # i =>
           /\ a.mem[x].data = m[x].data /\ a.mem[x].next = m[x].next
           /\ n = 0 \/ x # s[1] => a.mem[x] = m[x]
      /\ n # 0 => a.mem[s[1]].prev = i
  BY <1>1, HeadMemory
<1>3. /\ ss \in [1 .. n + 1 -> Nodes] /\ ss[1] = i
      /\ \A k \in 2 .. n + 1 : ss[k] = s[k - 1]
      /\ \A k \in 1 .. n : ss[k + 1] = s[k]
      /\ Distinct(n + 1, ss)
  <2>1. Distinct(n + 1, Push(n, s, i))
    BY <1>1, PutDistinct
  <2>2. n \in Nat /\ s \in [1 .. n -> Nodes] /\ i \in Nodes
    BY <1>1
  <2>3. Push(n, s, i) \in [1 .. n + 1 -> Nodes]
    BY <2>2, PushFacts
  <2> QED
    BY <2>1, <2>2, <2>3 DEF Push
<1>4. /\ vv \in [1 .. n + 1 -> Threads] /\ vv[1] = t /\ \A k \in 2 .. n + 1 : vv[k] = v[k - 1]
      /\ Distinct(n + 1, vv)
  <2>1. Distinct(n + 1, Push(n, v, t))
    BY <1>1, PutDistinct
  <2>2. n \in Nat /\ v \in [1 .. n -> Threads] /\ t \in Threads
    BY <1>1
  <2>3. Push(n, v, t) \in [1 .. n + 1 -> Threads]
    BY <2>2, PushFacts
  <2> QED
    BY <2>1, <2>2, <2>3 DEF Push
<1> HIDE DEF a, ss, vv
<1>5. a.list = [head |-> ss[1], tail |-> ss[n + 1]]
  BY <1>1, <1>2, <1>3
<1>6. ASSUME NEW k \in 1 .. n + 1
      PROVE  /\ a.mem[ss[k]].prev = IF k = 1 THEN NULL ELSE ss[k - 1]
             /\ a.mem[ss[k]].next = IF k = n + 1 THEN NULL ELSE ss[k + 1]
             /\ a.mem[ss[k]].data = vv[k]
  <2>1. CASE k = 1
    <3>1. a.mem[ss[k]].next = IF k = n + 1 THEN NULL ELSE ss[k + 1]
      BY <2>1, <1>1, <1>2, <1>3
    <3> QED
      BY <2>1, <3>1, <1>1, <1>2, <1>3, <1>4
  <2>2. CASE k \in 2 .. n + 1
    <3> DEFINE j == k - 1
    <3>j. j \in 1 .. n /\ k = j + 1 /\ k # 1
      BY <2>2, <1>1
    <3> HIDE DEF j
    <3>1. ss[k] = s[j] /\ s[j] # i /\ s[j] \in Nodes /\ vv[k] = v[j]
      BY <2>2, <3>j, <1>1, <1>3, <1>4 DEF j
    <3>2. a.mem[s[j]].data = m[s[j]].data /\ a.mem[s[j]].next = m[s[j]].next
      BY <3>1, <1>2
    <3>3. IF k = n + 1 THEN m[s[j]].next = NULL ELSE m[s[j]].next = ss[k + 1]
      BY <3>j, <1>1, <1>3
    <3>4. a.mem[ss[k]].prev = ss[k - 1]
      <4>1. CASE j = 1
        BY <4>1, <3>j, <3>1, <1>1, <1>2, <1>3
      <4>2. CASE j # 1
        <5>1. s[j] # s[1] /\ ss[k - 1] = s[j - 1] /\ m[s[j]].prev = s[j - 1]
          BY <4>2, <3>j, <1>1, <1>3 DEF Distinct
        <5>2. a.mem[s[j]] = m[s[j]]
          BY <5>1, <3>1, <1>2
        <5> QED
          BY <5>1, <5>2, <3>1
      <4> QED
        BY <4>1, <4>2
    <3> QED
      BY <3>j, <3>1, <3>2, <3>3, <3>4, <1>1
  <2> QED
    BY <2>1, <2>2, <1>1
<1>7. Chain(a.mem, a.list, n + 1, ss)
  BY <1>1, <1>3, <1>5, <1>6 DEF Chain
<1>8. Tidy(a.mem, a.list, n + 1, ss, vv)
  BY <1>4, <1>6, <1>7 DEF Tidy
<1> QED
  BY <1>8 DEF a, ss, vv

\* removeAt takes a value out of a list, provided that it has a neighbour on
\* either side.
LEMMA RemoveTidy ==
    ASSUME NEW m \in Memories, NEW l, NEW n, NEW s, NEW v, Tidy(m, l, n, s, v),
           NEW c \in 2 .. n - 1
    PROVE  Tidy(RemoveAt(m, s[c]), l, n - 1, Cut(n, s, c), Cut(n, v, c))
<1> DEFINE a  == RemoveAt(m, s[c])
           ss == Cut(n, s, c)
           vv == Cut(n, v, c)
<1>1. /\ Chain(m, l, n, s) /\ n \in Nat /\ s \in [1 .. n -> Nodes]
      /\ l = IF n = 0 THEN Empty ELSE [head |-> s[1], tail |-> s[n]]
      /\ v \in [1 .. n -> Threads]
      /\ Distinct(n, s)
      /\ Distinct(n, v)
      /\ \A k \in 1 .. n : /\ m[s[k]].prev = IF k = 1 THEN NULL ELSE s[k - 1]
                           /\ m[s[k]].next = IF k = n THEN NULL ELSE s[k + 1]
                           /\ m[s[k]].data = v[k]
  BY DEF Tidy, Chain
<1>c. c \in 1 .. n /\ c - 1 \in 1 .. n /\ c + 1 \in 1 .. n /\ n - 1 \in Nat /\ n > 2
  BY <1>1
<1>2. /\ a \in Memories
      /\ \A x \in Nodes \cup {NULL} :
           /\ a[x].data = m[x].data
           /\ a[x].next = IF x = s[c - 1] THEN s[c + 1] ELSE m[x].next
           /\ a[x].prev = IF x = s[c + 1] THEN s[c - 1] ELSE m[x].prev
  <2>1. Chain(m, l, n, s)
    BY <1>1
  <2> QED
    BY <2>1, RemoveMemory
<1>3. /\ ss \in [1 .. n - 1 -> Nodes]
      /\ \A k \in 1 .. n - 1 : ss[k] = IF k < c THEN s[k] ELSE s[k + 1]
      /\ Distinct(n - 1, ss)
  <2>1. n \in Nat /\ s \in [1 .. n -> Nodes] /\ Distinct(n, s) /\ c \in 1 .. n
    BY <1>1, <1>c
  <2>2. Distinct(n - 1, Cut(n, s, c))
    BY <2>1, CutDistinct
  <2> QED
    BY <2>1, <2>2 DEF Cut
<1>4. /\ vv \in [1 .. n - 1 -> Threads]
      /\ \A k \in 1 .. n - 1 : vv[k] = IF k < c THEN v[k] ELSE v[k + 1]
      /\ Distinct(n - 1, vv)
  <2>1. n \in Nat /\ v \in [1 .. n -> Threads] /\ Distinct(n, v) /\ c \in 1 .. n
    BY <1>1, <1>c
  <2>2. Distinct(n - 1, Cut(n, v, c))
    BY <2>1, CutDistinct
  <2> QED
    BY <2>1, <2>2 DEF Cut
<1> HIDE DEF a, ss, vv
<1>5. l = [head |-> ss[1], tail |-> ss[n - 1]]
  BY <1>1, <1>c, <1>3
<1>6. ASSUME NEW k \in 1 .. n - 1
      PROVE  /\ a[ss[k]].prev = IF k = 1 THEN NULL ELSE ss[k - 1]
             /\ a[ss[k]].next = IF k = n - 1 THEN NULL ELSE ss[k + 1]
             /\ a[ss[k]].data = vv[k]
  <2>1. CASE k < c
    <3>1. ss[k] = s[k] /\ vv[k] = v[k] /\ k \in 1 .. n /\ s[k] \in Nodes /\ k # n /\ k # n - 1
      BY <2>1, <1>1, <1>3, <1>4
    <3>2. s[k] # s[c + 1] /\ (s[k] = s[c - 1] <=> k = c - 1)
      BY <2>1, <3>1, <1>1, <1>c DEF Distinct
    <3>3. a[ss[k]].prev = IF k = 1 THEN NULL ELSE ss[k - 1]
      BY <2>1, <3>1, <3>2, <1>1, <1>2, <1>3
    <3>4. a[ss[k]].next = ss[k + 1]
      <4>1. CASE k = c - 1
        BY <4>1, <3>1, <3>2, <1>2, <1>3, <1>c
      <4>2. CASE k # c - 1
        BY <4>2, <2>1, <3>1, <3>2, <1>1, <1>2, <1>3, <1>c
      <4> QED
        BY <4>1, <4>2
    <3>d. a[ss[k]].data = m[ss[k]].data
      BY <3>1, <1>2
    <3>5. a[ss[k]].data = vv[k]
      BY <3>d, <3>1, <1>1
    <3> QED
      BY <3>1, <3>3, <3>4, <3>5
  <2>2. CASE ~ (k < c)
    <3>1. ss[k] = s[k + 1] /\ vv[k] = v[k + 1] /\ k + 1 \in 1 .. n /\ s[k + 1] \in Nodes /\ k # 1
      <4>1. k + 1 \in 1 .. n /\ k # 1
        BY <2>2, <1>1, <1>c
      <4>2. ss[k] = s[k + 1]
        BY <2>2, <1>3
      <4>3. vv[k] = v[k + 1]
        BY <2>2, <1>4
      <4>4. s[k + 1] \in Nodes
        BY <4>1, <1>1
      <4> QED
        BY <4>1, <4>2, <4>3, <4>4
    <3>2. s[k + 1] # s[c - 1] /\ (s[k + 1] = s[c + 1] <=> k = c)
      BY <2>2, <3>1, <1>1, <1>c DEF Distinct
    <3>3. a[ss[k]].next = IF k = n - 1 THEN NULL ELSE ss[k + 1]
      <4>1. a[s[k + 1]].next = m[s[k + 1]].next
        BY <3>1, <3>2, <1>2
      <4>2. m[s[k + 1]].next = IF k + 1 = n THEN NULL ELSE s[(k + 1) + 1]
        BY <3>1, <1>1
      <4>3. ASSUME k # n - 1
            PROVE  ss[k + 1] = s[(k + 1) + 1]
        <5>1. k + 1 \in 1 .. n - 1 /\ ~ (k + 1 < c)
          BY <4>3, <2>2, <1>1, <1>c
        <5> QED
          BY <5>1, <1>3
      <4>4. k = n - 1 <=> k + 1 = n
        BY <1>1
      <4> QED
        BY <4>1, <4>2, <4>3, <4>4, <3>1
    <3>4. a[ss[k]].prev = ss[k - 1]
      <4>1. CASE k = c
        BY <4>1, <3>1, <3>2, <1>2, <1>3, <1>c
      <4>2. CASE k # c
        <5>1. a[s[k + 1]].prev = m[s[k + 1]].prev
          BY <4>2, <3>1, <3>2, <1>2
        <5>2. ss[k - 1] = s[k] /\ m[s[k + 1]].prev = s[k]
          BY <4>2, <2>2, <3>1, <1>1, <1>3, <1>c
        <5> QED
          BY <5>1, <5>2, <3>1
      <4> QED
        BY <4>1, <4>2
    <3>d. a[ss[k]].data = m[ss[k]].data
      BY <3>1, <1>2
    <3>5. a[ss[k]].data = vv[k]
      BY <3>d, <3>1, <1>1
    <3> QED
      BY <3>1, <3>3, <3>4, <3>5
  <2> QED
    BY <2>1, <2>2
<1>7. Chain(a, l, n - 1, ss)
  BY <1>c, <1>3, <1>5, <1>6 DEF Chain
<1>8. Tidy(a, l, n - 1, ss, vv)
  BY <1>4, <1>6, <1>7 DEF Tidy
<1> QED
  BY <1>8 DEF a, ss, vv
------------------------------------------------------------------------------
\* The three lists in the memory m: list l has N[l] nodes S[l] with the values
\* V[l], no node is on two lists, and the free nodes are on none.
Names == {"threads", "running", "blocked"}

\* A LinkedList object: its head and tail pointers.
Ends == [head : Nodes \cup {NULL}, tail : Nodes \cup {NULL}]

\* The memory, the free nodes and the list objects fit together.
Shape(m, fr, ls, N, S, V) ==
    /\ m \in Memories /\ m[NULL] = LowMemory
    /\ ls \in [Names -> Ends]
    /\ \A l \in Names : Tidy(m, ls[l], N[l], S[l], V[l])
    /\ \A l, k \in Names, x \in Nodes : On(N[l], S[l], x) /\ On(N[k], S[k], x) => l = k
    /\ fr \subseteq Nodes
    /\ \A x \in Nodes : x \in fr <=> \A l \in Names : ~ On(N[l], S[l], x)

\* F with x for list l.
With(F, l, x) == [k \in Names |-> IF k = l THEN x ELSE F[k]]

\* For list l and for the others.
LEMMA WithFacts ==
    ASSUME NEW F, NEW l \in Names, NEW x
    PROVE  With(F, l, x)[l] = x /\ \A k \in Names : k # l => With(F, l, x)[k] = F[k]
  BY DEF With

\* One list changes, and only its own nodes and free ones are written.
LEMMA ShapeStep ==
    ASSUME NEW m, NEW fr, NEW ls, NEW N, NEW S, NEW V, Shape(m, fr, ls, N, S, V),
           NEW l \in Names, NEW o \in Memories, NEW e \in Ends, NEW n, NEW s, NEW v,
           Tidy(o, e, n, s, v),
           \A x \in Nodes \cup {NULL} : x \notin fr /\ ~ On(N[l], S[l], x) => o[x] = m[x],
           \A x \in Nodes : On(n, s, x) => x \in fr \/ On(N[l], S[l], x),
           NEW gr, gr \subseteq Nodes,
           \A x \in Nodes : x \in gr <=> (x \in fr \/ On(N[l], S[l], x)) /\ ~ On(n, s, x)
    PROVE  Shape(o, gr, [ls EXCEPT ![l] = e], With(N, l, n), With(S, l, s), With(V, l, v))
<1> DEFINE N2 == With(N, l, n)
           S2 == With(S, l, s)
           V2 == With(V, l, v)
           l2 == [ls EXCEPT ![l] = e]
<1>1. /\ N2[l] = n /\ S2[l] = s /\ V2[l] = v
      /\ \A k \in Names : k # l => N2[k] = N[k] /\ S2[k] = S[k] /\ V2[k] = V[k]
  BY DEF With
<1>2. /\ l2 \in [Names -> Ends] /\ l2[l] = e
      /\ \A k \in Names : k # l => l2[k] = ls[k]
  BY DEF Shape
<1> HIDE DEF N2, S2, V2, l2
<1>3. o[NULL] = LowMemory
  <2>1. NULL \notin fr
    BY NodeFacts DEF Shape
  <2>2. ~ On(N[l], S[l], NULL)
    <3>1. S[l] \in [1 .. N[l] -> Nodes]
      BY DEF Shape, Tidy, Chain
    <3>2. NULL \notin Nodes
      BY NodeFacts
    <3>3. ASSUME NEW k \in 1 .. N[l]
          PROVE  S[l][k] # NULL
      BY <3>1, <3>2
    <3> QED
      BY <3>3 DEF On
  <2> QED
    BY <2>1, <2>2 DEF Shape
<1>4. ASSUME NEW k \in Names
      PROVE  Tidy(o, l2[k], N2[k], S2[k], V2[k])
  <2>1. CASE k = l
    BY <2>1, <1>1, <1>2
  <2>2. CASE k # l
    <3>1. Tidy(m, ls[k], N[k], S[k], V[k])
      BY DEF Shape
    <3>2. ASSUME NEW j \in 1 .. N[k]
          PROVE  o[S[k][j]] = m[S[k][j]]
      <4>1. S[k][j] \in Nodes
        BY <3>1 DEF Tidy, Chain
      <4>2. On(N[k], S[k], S[k][j])
        BY DEF On
      <4>3. S[k][j] \notin fr /\ ~ On(N[l], S[l], S[k][j])
        BY <2>2, <4>1, <4>2 DEF Shape
      <4> QED
        BY <4>1, <4>3
    <3>3. Tidy(o, ls[k], N[k], S[k], V[k])
      BY <3>1, <3>2, SameTidy
    <3> QED
      BY <3>3, <2>2, <1>1, <1>2
  <2> QED
    BY <2>1, <2>2
<1>5. ASSUME NEW j \in Names, NEW k \in Names, NEW x \in Nodes,
             On(N2[j], S2[j], x), On(N2[k], S2[k], x)
      PROVE  j = k
  <2>1. \A i \in Names : i # l /\ On(N[i], S[i], x) => ~ On(n, s, x)
    BY DEF Shape
  <2>2. CASE j = l \/ k = l
    BY <2>1, <2>2, <1>1, <1>5
  <2>3. CASE j # l /\ k # l
    BY <2>3, <1>1, <1>5 DEF Shape
  <2> QED
    BY <2>2, <2>3
<1>6. ASSUME NEW x \in Nodes
      PROVE  x \in gr <=> \A k \in Names : ~ On(N2[k], S2[k], x)
  <2>1. x \in fr <=> \A k \in Names : ~ On(N[k], S[k], x)
    BY DEF Shape
  <2>2. \A j, k \in Names : On(N[j], S[j], x) /\ On(N[k], S[k], x) => j = k
    BY DEF Shape
  <2> QED
    BY <2>1, <2>2, <1>1
<1> QED
  BY <1>2, <1>3, <1>4, <1>5, <1>6 DEF Shape, N2, S2, V2, l2

\* insertToTail on one of the three lists, with a free node.
LEMMA ShapeTail ==
    ASSUME NEW m, NEW fr, NEW ls, NEW N, NEW S, NEW V, Shape(m, fr, ls, N, S, V),
           NEW l \in Names, NEW i \in fr, NEW t \in Threads, ~ On(N[l], V[l], t),
           NEW gr, gr = fr \ {i}
    PROVE  LET a == InsertToTail(m, ls[l], i, t)
           IN  Shape(a.mem, gr, [ls EXCEPT ![l] = a.list], With(N, l, N[l] + 1),
                     With(S, l, Put(N[l], S[l], i)), With(V, l, Put(N[l], V[l], t)))
<1> DEFINE a == InsertToTail(m, ls[l], i, t)
           n == N[l]
           s == S[l]
           v == V[l]
           ss == Put(n, s, i)
           vv == Put(n, v, t)
<1>1. /\ m \in Memories /\ Tidy(m, ls[l], n, s, v) /\ fr \subseteq Nodes
      /\ Chain(m, ls[l], n, s) /\ n \in Nat /\ s \in [1 .. n -> Nodes]
  BY DEF Shape, Tidy, Chain
<1>2. i \in Nodes /\ ~ On(n, s, i)
  BY <1>1 DEF Shape
<1>3. (\A k \in 1 .. n : s[k] # i) /\ (\A k \in 1 .. n : v[k] # t)
  BY <1>2 DEF On
<1>4. /\ a.mem \in Memories
      /\ a.list = [head |-> IF n = 0 THEN i ELSE s[1], tail |-> i]
      /\ \A x \in Nodes \cup {NULL} : x # i =>
           (n = 0 \/ x # s[n] => a.mem[x] = m[x])
  <2> HIDE DEF n, s, v
  <2> QED
    BY <1>1, <1>2, <1>3, TailMemory
<1>5. Tidy(a.mem, a.list, n + 1, ss, vv)
  <2> HIDE DEF n, s, v
  <2> QED
    BY <1>1, <1>2, <1>3, TailTidy
<1>6. ss[n + 1] = i /\ \A k \in 1 .. n : ss[k] = s[k]
  <2> HIDE DEF n, s, v
  <2> QED
    BY <1>1 DEF Put
<1>7. a.list \in Ends
  <2> HIDE DEF n, s, v, a
  <2> QED
    BY <1>1, <1>2, <1>4 DEF Ends
<1>f. fr \subseteq Nodes /\ \A x \in Nodes : x \in gr <=> x \in fr /\ x # i
  BY <1>1
<1> HIDE DEF a, n, s, v, ss, vv
<1>8. \A x \in Nodes : On(n + 1, ss, x) <=> On(n, s, x) \/ x = i
  BY <1>1, <1>6 DEF On
<1>9. \A x \in Nodes \cup {NULL} : x \notin fr /\ ~ On(n, s, x) => a.mem[x] = m[x]
  <2>1. n # 0 => On(n, s, s[n])
    BY <1>1 DEF On
  <2> QED
    BY <2>1, <1>4
<1>10. \A x \in Nodes : On(n + 1, ss, x) => x \in fr \/ On(n, s, x)
  BY <1>8
<1>11. gr \subseteq Nodes
       /\ \A x \in Nodes : x \in gr <=> (x \in fr \/ On(n, s, x)) /\ ~ On(n + 1, ss, x)
  <2>1. \A x \in Nodes : On(n, s, x) => x \notin fr
    BY DEF Shape, n, s
  <2> QED
    BY <2>1, <1>f, <1>8
<1> QED
  BY <1>4, <1>5, <1>7, <1>9, <1>10, <1>11, ShapeStep DEF a, n, s, v, ss, vv

\* insertToHead on one of the three lists, with a free node.
LEMMA ShapeHead ==
    ASSUME NEW m, NEW fr, NEW ls, NEW N, NEW S, NEW V, Shape(m, fr, ls, N, S, V),
           NEW l \in Names, NEW i \in fr, NEW t \in Threads, ~ On(N[l], V[l], t),
           NEW gr, gr = fr \ {i}
    PROVE  LET a == InsertToHead(m, ls[l], i, t)
           IN  Shape(a.mem, gr, [ls EXCEPT ![l] = a.list], With(N, l, N[l] + 1),
                     With(S, l, Push(N[l], S[l], i)), With(V, l, Push(N[l], V[l], t)))
<1> DEFINE a == InsertToHead(m, ls[l], i, t)
           n == N[l]
           s == S[l]
           v == V[l]
           ss == Push(n, s, i)
           vv == Push(n, v, t)
<1>1. /\ m \in Memories /\ Tidy(m, ls[l], n, s, v) /\ fr \subseteq Nodes
      /\ Chain(m, ls[l], n, s) /\ n \in Nat /\ s \in [1 .. n -> Nodes]
  BY DEF Shape, Tidy, Chain
<1>2. i \in Nodes /\ ~ On(n, s, i)
  BY <1>1 DEF Shape
<1>3. (\A k \in 1 .. n : s[k] # i) /\ (\A k \in 1 .. n : v[k] # t)
  BY <1>2 DEF On
<1>4. /\ a.mem \in Memories
      /\ a.list = [head |-> i, tail |-> IF n = 0 THEN i ELSE s[n]]
      /\ \A x \in Nodes \cup {NULL} : x # i =>
           (n = 0 \/ x # s[1] => a.mem[x] = m[x])
  <2> HIDE DEF n, s, v
  <2> QED
    BY <1>1, <1>2, <1>3, HeadMemory
<1>5. Tidy(a.mem, a.list, n + 1, ss, vv)
  <2> HIDE DEF n, s, v
  <2> QED
    BY <1>1, <1>2, <1>3, HeadTidy
<1>6. ss[1] = i /\ \A k \in 2 .. n + 1 : ss[k] = s[k - 1]
  <2> HIDE DEF n, s, v
  <2> QED
    BY <1>1 DEF Push
<1>7. a.list \in Ends
  <2> HIDE DEF n, s, v, a
  <2> QED
    BY <1>1, <1>2, <1>4 DEF Ends
<1>f. fr \subseteq Nodes /\ \A x \in Nodes : x \in gr <=> x \in fr /\ x # i
  BY <1>1
<1> HIDE DEF a, n, s, v, ss, vv
<1>8. ASSUME NEW x \in Nodes
      PROVE  On(n + 1, ss, x) <=> On(n, s, x) \/ x = i
  <2>1. ASSUME NEW k \in 1 .. n, s[k] = x
        PROVE  On(n + 1, ss, x)
    <3>1. k + 1 \in 2 .. n + 1 /\ k + 1 \in 1 .. n + 1 /\ (k + 1) - 1 = k
      BY <1>1
    <3>2. ss[k + 1] = x
      BY <3>1, <2>1, <1>6
    <3> QED
      BY <3>1, <3>2 DEF On
  <2>2. 1 \in 1 .. n + 1
    BY <1>1
  <2>3. ASSUME NEW k \in 1 .. n + 1, ss[k] = x
        PROVE  On(n, s, x) \/ x = i
    <3>1. CASE k = 1
      BY <3>1, <2>3, <1>6
    <3>2. CASE k # 1
      <4>1. k \in 2 .. n + 1 /\ k - 1 \in 1 .. n
        BY <3>2, <1>1
      <4> QED
        BY <4>1, <2>3, <1>6 DEF On
    <3> QED
      BY <3>1, <3>2
  <2> QED
    BY <2>1, <2>2, <2>3, <1>6 DEF On
<1>9. \A x \in Nodes \cup {NULL} : x \notin fr /\ ~ On(n, s, x) => a.mem[x] = m[x]
  <2>1. n # 0 => On(n, s, s[1])
    BY <1>1 DEF On
  <2> QED
    BY <2>1, <1>4
<1>10. \A x \in Nodes : On(n + 1, ss, x) => x \in fr \/ On(n, s, x)
  BY <1>8
<1>11. gr \subseteq Nodes
       /\ \A x \in Nodes : x \in gr <=> (x \in fr \/ On(n, s, x)) /\ ~ On(n + 1, ss, x)
  <2>1. \A x \in Nodes : On(n, s, x) => x \notin fr
    BY DEF Shape, n, s
  <2> QED
    BY <2>1, <1>f, <1>8
<1> QED
  BY <1>4, <1>5, <1>7, <1>9, <1>10, <1>11, ShapeStep DEF a, n, s, v, ss, vv

\* removeAt on one of the three lists, from between two neighbours.
LEMMA ShapeCut ==
    ASSUME NEW m, NEW fr, NEW ls, NEW N, NEW S, NEW V, Shape(m, fr, ls, N, S, V),
           NEW l \in Names, NEW c \in 2 .. N[l] - 1,
           NEW gr, gr = fr \cup {S[l][c]}
    PROVE  Shape(RemoveAt(m, S[l][c]), gr, ls, With(N, l, N[l] - 1),
                 With(S, l, Cut(N[l], S[l], c)), With(V, l, Cut(N[l], V[l], c)))
<1> DEFINE n == N[l]
           s == S[l]
           v == V[l]
           a == RemoveAt(m, s[c])
           ss == Cut(n, s, c)
           vv == Cut(n, v, c)
<1>1. /\ m \in Memories /\ Tidy(m, ls[l], n, s, v) /\ fr \subseteq Nodes
      /\ Chain(m, ls[l], n, s) /\ n \in Nat /\ s \in [1 .. n -> Nodes] /\ Distinct(n, s)
      /\ ls \in [Names -> Ends]
  BY DEF Shape, Tidy, Chain
<1>2. [ls EXCEPT ![l] = ls[l]] = ls /\ ls[l] \in Ends
  BY <1>1
<1>f. fr \subseteq Nodes /\ \A x \in Nodes : x \in gr <=> x \in fr \/ x = s[c]
  BY <1>1
<1> HIDE DEF n, s, v
<1>c. c \in 2 .. n - 1 /\ c \in 1 .. n /\ c - 1 \in 1 .. n /\ c + 1 \in 1 .. n /\ s[c] \in Nodes
  BY <1>1 DEF n
<1>3. /\ a \in Memories
      /\ \A x \in Nodes \cup {NULL} : x # s[c - 1] /\ x # s[c + 1] => a[x] = m[x]
  <2>1. m \in Memories /\ Chain(m, ls[l], n, s) /\ c \in 2 .. n - 1
    BY <1>1, <1>c
  <2> QED
    BY <2>1, RemoveMemory
<1>4. Tidy(a, ls[l], n - 1, ss, vv)
  BY <1>1, <1>c, RemoveTidy
<1>6. \A x : On(n - 1, ss, x) <=> On(n, s, x) /\ x # s[c]
  BY <1>1, <1>c, CutOn
<1> HIDE DEF a, ss, vv
<1>7. \A x \in Nodes \cup {NULL} : x \notin fr /\ ~ On(n, s, x) => a[x] = m[x]
  BY <1>3, <1>c DEF On
<1>8. \A x \in Nodes : On(n - 1, ss, x) => x \in fr \/ On(n, s, x)
  BY <1>6
<1>9. gr \subseteq Nodes
      /\ \A x \in Nodes : x \in gr <=> (x \in fr \/ On(n, s, x)) /\ ~ On(n - 1, ss, x)
  <2>1. \A x \in Nodes : On(n, s, x) => x \notin fr
    BY DEF Shape, n, s
  <2>2. On(n, s, s[c])
    BY <1>c DEF On
  <2>3. gr \subseteq Nodes
    BY <1>f, <1>c DEF s
  <2> QED
    BY <2>1, <2>2, <2>3, <1>f, <1>6
<1>10. Shape(a, gr, [ls EXCEPT ![l] = ls[l]], With(N, l, n - 1), With(S, l, ss), With(V, l, vv))
  BY <1>2, <1>3, <1>4, <1>7, <1>8, <1>9, ShapeStep DEF n, s
<1> QED
  BY <1>2, <1>10 DEF a, n, s, v, ss, vv
------------------------------------------------------------------------------
\* What is on a list when x has been put at its end.
LEMMA PutOn ==
    ASSUME NEW n \in Nat, NEW s, NEW x, NEW y
    PROVE  On(n + 1, Put(n, s, x), y) <=> On(n, s, y) \/ y = x
<1>1. Put(n, s, x)[n + 1] = x /\ \A k \in 1 .. n : Put(n, s, x)[k] = s[k]
  BY DEF Put
<1> QED
  BY <1>1 DEF On

\* What is on a list when x has been put in front of it.
LEMMA PushOn ==
    ASSUME NEW n \in Nat, NEW s, NEW x, NEW y
    PROVE  On(n + 1, Push(n, s, x), y) <=> On(n, s, y) \/ y = x
<1>1. Push(n, s, x)[1] = x /\ \A k \in 2 .. n + 1 : Push(n, s, x)[k] = s[k - 1]
  BY DEF Push
<1>2. ASSUME NEW k \in 1 .. n, s[k] = y
      PROVE  On(n + 1, Push(n, s, x), y)
  <2>1. k + 1 \in 2 .. n + 1 /\ k + 1 \in 1 .. n + 1 /\ (k + 1) - 1 = k
    OBVIOUS
  <2>2. Push(n, s, x)[k + 1] = y
    BY <2>1, <1>1, <1>2
  <2> QED
    BY <2>1, <2>2 DEF On
<1>3. 1 \in 1 .. n + 1
  OBVIOUS
<1>4. ASSUME NEW k \in 1 .. n + 1, Push(n, s, x)[k] = y
      PROVE  On(n, s, y) \/ y = x
  <2>1. CASE k = 1
    BY <2>1, <1>1, <1>4
  <2>2. CASE k # 1
    <3>1. k \in 2 .. n + 1 /\ k - 1 \in 1 .. n
      BY <2>2
    <3> QED
      BY <3>1, <1>1, <1>4 DEF On
  <2> QED
    BY <2>1, <2>2
<1> QED
  BY <1>1, <1>2, <1>3, <1>4 DEF On

\* What the program reads of the lists.
LEMMA ShapeFacts ==
    ASSUME NEW m, NEW fr, NEW ls, NEW N, NEW S, NEW V, Shape(m, fr, ls, N, S, V),
           NEW l \in Names
    PROVE  /\ m \in Memories /\ N[l] \in Nat
           /\ S[l] \in [1 .. N[l] -> Nodes] /\ V[l] \in [1 .. N[l] -> Threads]
           /\ Distinct(N[l], V[l])
           /\ Contents(m, ls[l]) = V[l] /\ V[l] \in Seq(Threads) /\ Len(V[l]) = N[l]
           /\ \A k \in 1 .. N[l] : /\ FindValue(m, ls[l], V[l][k]) = S[l][k]
                                   /\ S[l][k] \in Nodes \ fr
           /\ \A t : ~ On(N[l], V[l], t) => FindValue(m, ls[l], t) = NULL
<1> DEFINE n == N[l]
           s == S[l]
           v == V[l]
           e == ls[l]
<1>1. m \in Memories /\ Tidy(m, e, n, s, v)
  BY DEF Shape
<1>2. \A k \in 1 .. n : s[k] \in Nodes => s[k] \notin fr
  BY DEF Shape, On
<1> HIDE DEF n, s, v, e
<1>3. n \in Nat /\ s \in [1 .. n -> Nodes] /\ v \in [1 .. n -> Threads] /\ Distinct(n, v)
  BY <1>1 DEF Tidy, Chain
<1>4. Contents(m, e) = v
  BY <1>1, ContentsIs
<1>5. v \in Seq(Threads) /\ Len(v) = n
  <2>1. v \in Seq(Threads) /\ DOMAIN v = 1 .. n
    BY <1>3, SeqDef
  <2> QED
    BY <2>1, <1>3, LengthIs
<1>6. /\ \A k \in 1 .. n : FindValue(m, e, v[k]) = s[k]
      /\ \A t : (\A k \in 1 .. n : v[k] # t) => FindValue(m, e, t) = NULL
  BY <1>1, FindIs
<1>7. \A k \in 1 .. n : FindValue(m, e, v[k]) = s[k] /\ s[k] \in Nodes \ fr
  BY <1>2, <1>3, <1>6
<1>8. \A t : ~ On(n, v, t) => FindValue(m, e, t) = NULL
  BY <1>6 DEF On
<1> QED
  BY <1>1, <1>3, <1>4, <1>5, <1>7, <1>8 DEF n, s, v, e

\* Every thread is on the process's list and on one of the other two, as its
\* waitcount says.
Well(N, V, al, wc) ==
    LET is(l, t) == On(N[l], V[l], t)
    IN  \A t \in Threads : /\ t \in al <=> is("threads", t)
                           /\ t \in al <=> is("running", t) \/ is("blocked", t)
                           /\ ~ (is("running", t) /\ is("blocked", t))
                           /\ t \in al => (wc[t] = 0 <=> is("running", t))

\* Such lists exist for the memory as it is.
InOrder(m, fr, ls, al, wc) ==
    \E N, S, V : Shape(m, fr, ls, N, S, V) /\ Well(N, V, al, wc)

\* The types of what is not in the lists.
Typed ==
    /\ alive \subseteq Threads
    /\ waitcount \in [Threads -> 0 .. MaxSleeps]
    /\ exec \in [CPUs -> Threads \cup {None}]
    /\ ctx \in [Threads -> {"none", "start", "saved"}]
    /\ lock \in {0, 1}
    /\ pc \in [CPUs -> {"run", "leave", "leavetwice", "unlockself", "again",
                        "switch", "jump", "resumed", "stuck"}]
    /\ wild \in BOOLEAN

\* The inductive invariant.
IInv == InOrder(mem, free, lists, alive, waitcount) /\ Typed

\* A step that leaves the lists and the CPUs alone.
LEMMA Idle ==
    ASSUME IInv, UNCHANGED <<kept, exec>>, Typed'
    PROVE  IInv' /\ UNCHANGED Queue!vars
  BY DEF IInv, kept, Queue!vars

\* initialise() leaves one thread, on the running list.
LEMMA InitInOrder ==
    ASSUME Init
    PROVE  IInv /\ Queue!Init
<1> DEFINE N == [l \in Names |-> IF l = "blocked" THEN 0 ELSE 1]
           one(x) == [k \in 1 .. 1 |-> x]
           none == [k \in 1 .. 0 |-> 1]
           S == [l \in Names |-> IF l = "threads" THEN one(1)
                                 ELSE IF l = "running" THEN one(2) ELSE none]
           V == [l \in Names |-> IF l = "blocked" THEN none ELSE one(1)]
<1>1. /\ N["threads"] = 1 /\ N["running"] = 1 /\ N["blocked"] = 0
      /\ S["threads"] = one(1) /\ S["running"] = one(2) /\ S["blocked"] = none
      /\ V["threads"] = one(1) /\ V["running"] = one(1) /\ V["blocked"] = none
  BY DEF Names
<1>2. \A x, y : On(1, one(x), y) <=> y = x
  BY DEF On
<1>3. \A y : ~ On(0, none, y)
  BY DEF On
<1>n. {1, 2} \subseteq Nodes /\ 1 \in Threads /\ 1 \in CPUs /\ NULL \notin Nodes
  BY BootOK, ThreadsOK, NodeFacts
<1>m. /\ mem \in Memories /\ mem[NULL] = LowMemory
      /\ mem[1] = Node(1, NULL, NULL) /\ mem[2] = Node(1, NULL, NULL)
  BY <1>n DEF Init, Memories, Node, LowMemory, NULL
<1>4. ASSUME NEW i \in {1, 2}
      PROVE  Tidy(mem, [head |-> i, tail |-> i], 1, one(i), one(1))
  <2>1. one(i)[1] = i /\ one(1)[1] = 1 /\ one(i) \in [1 .. 1 -> Nodes]
        /\ one(1) \in [1 .. 1 -> Threads] /\ Distinct(1, one(i)) /\ Distinct(1, one(1))
    BY <1>n DEF Distinct
  <2> HIDE DEF one
  <2> QED
    BY <2>1, <1>m DEF Tidy, Chain, Node
<1>5. Tidy(mem, Empty, 0, none, none)
  <2>1. none \in [1 .. 0 -> Nodes] /\ none \in [1 .. 0 -> Threads] /\ Distinct(0, none)
    BY DEF Distinct
  <2> HIDE DEF none
  <2> QED
    BY <2>1 DEF Tidy, Chain
<1>l. /\ lists \in [Names -> Ends]
      /\ lists["threads"] = [head |-> 1, tail |-> 1] /\ lists["running"] = [head |-> 2, tail |-> 2]
      /\ lists["blocked"] = Empty
  BY <1>n DEF Init, Names, Ends, Empty
<1> HIDE DEF N, S, V, one, none
<1>6. \A l \in Names : Tidy(mem, lists[l], N[l], S[l], V[l])
  BY <1>1, <1>4, <1>5, <1>l DEF Names
<1>7. \A l, k \in Names, x \in Nodes : On(N[l], S[l], x) /\ On(N[k], S[k], x) => l = k
  BY <1>1, <1>2, <1>3 DEF Names
<1>8. free \subseteq Nodes
      /\ \A x \in Nodes : x \in free <=> \A l \in Names : ~ On(N[l], S[l], x)
  BY <1>1, <1>2, <1>3 DEF Init, Names
<1>9. Shape(mem, free, lists, N, S, V)
  BY <1>m, <1>l, <1>6, <1>7, <1>8 DEF Shape
<1>10. Well(N, V, alive, waitcount)
  BY <1>1, <1>2, <1>3, <1>n DEF Well, Init, None
<1>11. Typed
  <2>1. waitcount \in [Threads -> 0 .. MaxSleeps]
    BY CountsOK DEF Init
  <2>2. alive \subseteq Threads /\ exec \in [CPUs -> Threads \cup {None}]
    BY <1>n DEF Init
  <2>3. ctx \in [Threads -> {"none", "start", "saved"}]
    BY DEF Init
  <2>4. /\ lock \in {0, 1} /\ wild \in BOOLEAN
        /\ pc \in [CPUs -> {"run", "leave", "leavetwice", "unlockself", "again",
                            "switch", "jump", "resumed", "stuck"}]
    BY DEF Init
  <2> QED
    BY <2>1, <2>2, <2>3, <2>4 DEF Typed
<1>12. Queue!Init
  <2>1. "running" \in Names
    BY DEF Names
  <2>2. Contents(mem, lists["running"]) = V["running"]
    BY <2>1, <1>9, ShapeFacts
  <2>3. one(1) = <<1>>
    BY DEF one
  <2>4. Contents(mem, lists.running) = <<1>>
    BY <2>2, <2>3, <1>1
  <2>5. [t \in Threads |-> IF t \in alive THEN waitcount[t] ELSE 0] = [t \in Threads |-> 0]
    BY DEF Init
  <2>6. exec \in [CPUs -> {1, 0}] /\ exec[1] = 1
    BY <1>n DEF Init, None
  <2> QED
    BY <2>4, <2>5, <2>6, <1>n DEF Queue!Init
<1> QED
  BY <1>9, <1>10, <1>11, <1>12 DEF IInv, InOrder
------------------------------------------------------------------------------
\* The lists as the actions see them.
LEMMA Views ==
    ASSUME NEW N, NEW S, NEW V, Shape(mem, free, lists, N, S, V), NEW l \in Names
    PROVE  /\ \A k \in 1 .. N[l] : Find(l, V[l][k]) = S[l][k] /\ Removable(S[l][k])
           /\ \A t : ~ On(N[l], V[l], t) => Find(l, t) = NULL
           /\ \A t : Inside(l, t) <=> \E k \in 2 .. N[l] - 1 : V[l][k] = t
<1>1. /\ N[l] \in Nat /\ Contents(mem, lists[l]) = V[l] /\ Len(V[l]) = N[l]
      /\ \A k \in 1 .. N[l] : /\ FindValue(mem, lists[l], V[l][k]) = S[l][k]
                              /\ S[l][k] \in Nodes \ free
      /\ \A t : ~ On(N[l], V[l], t) => FindValue(mem, lists[l], t) = NULL
  <2>1. /\ N[l] \in Nat /\ Contents(mem, lists[l]) = V[l] /\ Len(V[l]) = N[l]
    BY ShapeFacts
  <2>2. \A k \in 1 .. N[l] : /\ FindValue(mem, lists[l], V[l][k]) = S[l][k]
                              /\ S[l][k] \in Nodes \ free
    BY ShapeFacts
  <2>3. \A t : ~ On(N[l], V[l], t) => FindValue(mem, lists[l], t) = NULL
    BY ShapeFacts
  <2> QED
    BY <2>1, <2>2, <2>3
<1>2. \A k \in 1 .. N[l] : Find(l, V[l][k]) = S[l][k] /\ Removable(S[l][k])
  BY <1>1 DEF Find, Removable
<1>3. \A t : ~ On(N[l], V[l], t) => Find(l, t) = NULL
  BY <1>1 DEF Find
<1>4. \A t : Inside(l, t) <=> \E k \in 2 .. N[l] - 1 : V[l][k] = t
  BY <1>1 DEF Inside
<1> QED
  BY <1>2, <1>3, <1>4

\* A call that is done keeps the types.
LEMMA LeaveTyped ==
    ASSUME Typed, NEW p \in CPUs, Done(p)
    PROVE  /\ exec' \in [CPUs -> Threads \cup {None}] /\ lock' \in {0, 1}
           /\ pc' \in [CPUs -> {"run", "leave", "leavetwice", "unlockself", "again",
                                "switch", "jump", "resumed", "stuck"}]
           /\ wild' \in BOOLEAN /\ exec' = exec
  BY DEF Typed, Done, Goto

\* createThread() puts the new thread at the end of its two lists.
LEMMA CreateStep ==
    ASSUME IInv, NEW p \in CPUs, NEW t \in Threads, NEW s \in BOOLEAN, CreateThread(p, t, s)
    PROVE  IInv' /\ Queue!Start(t)
<1> DEFINE x == IF s THEN "blocked" ELSE "running"
<1>1. PICK N, S, V : Shape(mem, free, lists, N, S, V) /\ Well(N, V, alive, waitcount)
  BY DEF IInv, InOrder
<1>x. x \in Names /\ x # "threads" /\ "threads" \in Names /\ "running" \in Names
      /\ (s => x = "blocked") /\ (~ s => x = "running")
  BY DEF Names
<1>2. /\ t \notin alive /\ alive' = alive \cup {t}
      /\ waitcount' = [waitcount EXCEPT ![t] = IF s THEN 1 ELSE 0]
      /\ ctx' = [ctx EXCEPT ![t] = "start"]
      /\ Done(p)
  BY DEF CreateThread
<1>3. PICK i \in free, j \in free :
         LET a == InsertToTail(mem, lists[x], i, t)
             b == InsertToTail(a.mem, lists.threads, j, t)
         IN  /\ i # j
             /\ mem' = b.mem
             /\ lists' = [lists EXCEPT ![x] = a.list, !.threads = b.list]
             /\ free' = free \ {i, j}
  BY DEF CreateThread
<1> DEFINE a == InsertToTail(mem, lists[x], i, t)
           b == InsertToTail(a.mem, lists["threads"], j, t)
           f1 == free \ {i}
           l1 == [lists EXCEPT ![x] = a.list]
           N1 == With(N, x, N[x] + 1)
           S1 == With(S, x, Put(N[x], S[x], i))
           V1 == With(V, x, Put(N[x], V[x], t))
           N2 == With(N1, "threads", N1["threads"] + 1)
           S2 == With(S1, "threads", Put(N1["threads"], S1["threads"], j))
           V2 == With(V1, "threads", Put(N1["threads"], V1["threads"], t))
<1> HIDE DEF x
<1>4. mem' = b.mem /\ lists' = [lists EXCEPT ![x] = a.list, !["threads"] = b.list]
      /\ free' = f1 \ {j} /\ j \in f1 /\ i # j
  BY <1>3
<1>5. /\ ~ On(N["threads"], V["threads"], t)
      /\ ~ On(N["running"], V["running"], t)
      /\ ~ On(N["blocked"], V["blocked"], t)
  BY <1>1, <1>2 DEF Well
<1>6. ~ On(N[x], V[x], t)
  BY <1>5, <1>x
<1> HIDE DEF a, b, f1, l1, N1, S1, V1, N2, S2, V2
<1>7. Shape(a.mem, f1, l1, N1, S1, V1)
  BY <1>1, <1>x, <1>6, ShapeTail DEF a, f1, l1, N1, S1, V1
<1>8. /\ lists \in [Names -> Ends]
      /\ l1["threads"] = lists["threads"]
  BY <1>1, <1>x DEF Shape, l1
<1>9. ~ On(N1["threads"], V1["threads"], t)
  BY <1>5, <1>x DEF N1, V1, With
<1>10. Shape(mem', free', lists', N2, S2, V2)
  <2>1. b = InsertToTail(a.mem, l1["threads"], j, t)
    BY <1>8 DEF b
  <2>2. lists' = [l1 EXCEPT !["threads"] = b.list]
    BY <1>4 DEF l1
  <2>3. Shape(b.mem, f1 \ {j}, [l1 EXCEPT !["threads"] = b.list], N2, S2, V2)
    BY <1>4, <1>7, <1>9, <1>x, <2>1, ShapeTail DEF N2, S2, V2
  <2> QED
    BY <1>4, <2>2, <2>3
<1>11. N["threads"] \in Nat /\ N["running"] \in Nat /\ N["blocked"] \in Nat /\ N[x] \in Nat
  BY <1>1, <1>x, ShapeFacts DEF Names
<1>12. /\ N2[x] = N[x] + 1 /\ V2[x] = Put(N[x], V[x], t)
       /\ N2["threads"] = N["threads"] + 1 /\ V2["threads"] = Put(N["threads"], V["threads"], t)
       /\ \A l \in Names \ {x, "threads"} : N2[l] = N[l] /\ V2[l] = V[l]
  BY <1>x DEF N1, V1, N2, V2, With
<1>13. /\ \A u : On(N2["threads"], V2["threads"], u) <=> On(N["threads"], V["threads"], u) \/ u = t
       /\ \A u : On(N2[x], V2[x], u) <=> On(N[x], V[x], u) \/ u = t
       /\ \A l \in Names \ {x, "threads"} : \A u : On(N2[l], V2[l], u) <=> On(N[l], V[l], u)
  <2>1. \A u : On(N2["threads"], V2["threads"], u) <=> On(N["threads"], V["threads"], u) \/ u = t
    BY <1>11, <1>12, PutOn
  <2>2. \A u : On(N2[x], V2[x], u) <=> On(N[x], V[x], u) \/ u = t
    <3>1. \A u : On(N[x] + 1, Put(N[x], V[x], t), u) <=> On(N[x], V[x], u) \/ u = t
      BY <1>11, PutOn
    <3> QED
      BY <3>1, <1>12
  <2> QED
    BY <2>1, <2>2, <1>12
<1>14. Well(N2, V2, alive', waitcount')
  <2>1. exec' = exec /\ exec \in [CPUs -> Threads \cup {None}] /\ waitcount \in [Threads -> 0 .. MaxSleeps]
        /\ alive \subseteq Threads
    BY <1>2 DEF Done, IInv, Typed
  <2>2. CASE s
    <3>1. /\ x = "blocked" /\ waitcount' = [waitcount EXCEPT ![t] = 1]
          /\ \A u : On(N2["blocked"], V2["blocked"], u) <=> On(N["blocked"], V["blocked"], u) \/ u = t
          /\ \A u : On(N2["running"], V2["running"], u) <=> On(N["running"], V["running"], u)
      BY <2>2, <1>2, <1>x, <1>13 DEF Names
    <3> QED
      BY <3>1, <2>1, <1>1, <1>2, <1>5, <1>13 DEF Well
  <2>3. CASE ~ s
    <3>1. /\ x = "running" /\ waitcount' = [waitcount EXCEPT ![t] = 0]
          /\ \A u : On(N2["running"], V2["running"], u) <=> On(N["running"], V["running"], u) \/ u = t
          /\ \A u : On(N2["blocked"], V2["blocked"], u) <=> On(N["blocked"], V["blocked"], u)
      BY <2>3, <1>2, <1>x, <1>13 DEF Names
    <3> QED
      BY <3>1, <2>1, <1>1, <1>2, <1>5, <1>13 DEF Well
  <2> QED
    BY <2>2, <2>3
<1>15. Typed'
  <2>1. waitcount' \in [Threads -> 0 .. MaxSleeps]
    BY <1>2, CountsOK DEF IInv, Typed
  <2>2. alive' \subseteq Threads /\ ctx' \in [Threads -> {"none", "start", "saved"}]
    BY <1>2 DEF IInv, Typed
  <2> QED
    BY <2>1, <2>2, <1>2, LeaveTyped DEF IInv, Typed
<1>16. IInv'
  BY <1>10, <1>14, <1>15 DEF IInv, InOrder
<1>17. /\ Contents(mem, lists.running) = V["running"] /\ Contents(mem', lists'.running) = V2["running"]
       /\ V["running"] \in Seq(Threads) /\ Len(V["running"]) = N["running"]
       /\ V["running"] \in [1 .. N["running"] -> Threads]
  BY <1>1, <1>10, <1>x, ShapeFacts
<1>18. ~ Queue!Known(t)
  <2>1. \A k \in DOMAIN V["running"] : V["running"][k] # t
    BY <1>5, <1>17 DEF On
  <2> QED
    BY <2>1, <1>2, <1>17 DEF Queue!Known
<1>19. ~ s => V2["running"] = Append(V["running"], t)
  BY <1>x, <1>12, <1>17 DEF Put
<1>20. s => V2["running"] = V["running"]
  BY <1>x, <1>12
<1>21. [u \in Threads |-> IF u \in alive' THEN waitcount'[u] ELSE 0] =
          [[u \in Threads |-> IF u \in alive THEN waitcount[u] ELSE 0]
              EXCEPT ![t] = IF s THEN 1 ELSE 0]
  BY <1>2 DEF IInv, Typed
<1>22. [u \in Threads |-> IF u \in alive THEN waitcount[u] ELSE 0][t] = 0
  BY <1>2
<1>23. Queue!Start(t)
  <2>1. exec' = exec
    BY <1>2 DEF Done
  <2>2. CASE s
    BY <2>1, <2>2, <1>17, <1>18, <1>20, <1>21 DEF Queue!Start
  <2>3. CASE ~ s
    <3>1. [u \in Threads |-> IF u \in alive' THEN waitcount'[u] ELSE 0] =
             [u \in Threads |-> IF u \in alive THEN waitcount[u] ELSE 0]
      BY <2>3, <1>21, <1>22
    <3> QED
      BY <2>1, <2>3, <3>1, <1>17, <1>18, <1>19 DEF Queue!Start
  <2> QED
    BY <2>2, <2>3
<1> QED
  BY <1>16, <1>23

\* The queue without one of its elements, as RunQueue has it.
LEMMA WithoutIs ==
    ASSUME NEW n \in Nat, NEW v \in Seq(Threads), Len(v) = n, Distinct(n, v)
    PROVE  /\ \A c \in 1 .. n : Queue!Without(v, v[c]) = Cut(n, v, c)
           /\ \A t : ~ On(n, v, t) => Queue!Without(v, t) = v
<1>1. DOMAIN v = 1 .. n
  BY LenProperties
<1>2. ASSUME NEW c \in 1 .. n
      PROVE  Queue!Without(v, v[c]) = Cut(n, v, c)
  <2>1. (CHOOSE k \in DOMAIN v : v[k] = v[c]) = c
    BY <1>1 DEF Distinct
  <2>2. \E k \in DOMAIN v : v[k] = v[c]
    BY <1>1
  <2>3. Queue!Without(v, v[c]) = [k \in 1 .. Len(v) - 1 |-> v[IF k < c THEN k ELSE k + 1]]
    BY <2>1, <2>2 DEF Queue!Without
  <2> QED
    BY <2>3 DEF Cut
<1>3. ASSUME NEW t, ~ On(n, v, t)
      PROVE  Queue!Without(v, t) = v
  BY <1>1, <1>3 DEF Queue!Without, On
<1> QED
  BY <1>2, <1>3

\* What a thread a caller may touch is in: one list, at one place.
LEMMA SleepStep ==
    ASSUME IInv, NEW p \in CPUs, NEW t \in Threads, NEW c \in Counts, SleepThread(p, t, c),
           t \in alive => Asleep(t) \/ Inside("running", t)
    PROVE  IInv' /\ (Queue!Sleep(t, c) \/ UNCHANGED Queue!vars)
<1>1. PICK N, S, V : Shape(mem, free, lists, N, S, V) /\ Well(N, V, alive, waitcount)
  BY DEF IInv, InOrder
<1> DEFINE R == "running"
           B == "blocked"
<1>n. R \in Names /\ B \in Names /\ R # B /\ R # "threads" /\ B # "threads"
  BY DEF Names
<1> HIDE DEF R, B
<1>t. /\ alive \subseteq Threads /\ waitcount \in [Threads -> 0 .. MaxSleeps] /\ Typed
      /\ exec \in [CPUs -> Threads \cup {None}]
  BY DEF IInv, Typed
<1>c. c \in Nat /\ c > 0 /\ waitcount[t] \in Nat /\ waitcount[t] + c <= MaxSleeps /\ MaxSleeps \in Nat
  BY <1>t, CountsOK DEF SleepThread
<1>w. /\ t \in alive <=> On(N[R], V[R], t) \/ On(N[B], V[B], t)
      /\ ~ (On(N[R], V[R], t) /\ On(N[B], V[B], t))
      /\ t \in alive => (waitcount[t] = 0 <=> On(N[R], V[R], t))
  BY <1>1 DEF Well, R, B
<1>r. /\ Contents(mem, lists[R]) = V[R] /\ V[R] \in Seq(Threads) /\ Len(V[R]) = N[R]
      /\ N[R] \in Nat /\ V[R] \in [1 .. N[R] -> Threads] /\ Distinct(N[R], V[R])
  BY <1>1, <1>n, ShapeFacts
<1>b. /\ N[B] \in Nat /\ V[B] \in [1 .. N[B] -> Threads]
      /\ \A k \in 1 .. N[B] : Find(B, V[B][k]) = S[B][k] /\ S[B][k] \in Nodes
  <2>1. /\ N[B] \in Nat /\ V[B] \in [1 .. N[B] -> Threads] /\ S[B] \in [1 .. N[B] -> Nodes]
    BY <1>1, <1>n, ShapeFacts
  <2>2. \A k \in 1 .. N[B] : Find(B, V[B][k]) = S[B][k]
    BY <1>1, <1>n, Views
  <2> QED
    BY <2>1, <2>2
<1>nw. NULL \notin Nodes /\ Wild \notin Nodes /\ NULL # Wild
  BY NodeFacts
<1>f. /\ ~ On(N[R], V[R], t) => Find(R, t) = NULL
      /\ ~ On(N[B], V[B], t) => Find(B, t) = NULL
  BY <1>1, <1>n, Views
<1>2. CASE ~ On(N[R], V[R], t)
  <2>1. Find(R, t) = NULL /\ ~ Removable(NULL) /\ (Find(B, t) = NULL \/ Find(B, t) \in Nodes)
    BY <1>2, <1>f, <1>b, <1>nw DEF On, Removable
  <2>2. /\ UNCHANGED <<mem, free, lists, alive, ctx>> /\ Done(p)
        /\ waitcount' = IF Find(B, t) = NULL THEN waitcount ELSE [waitcount EXCEPT ![t] = @ + c]
    BY <2>1, <1>nw DEF SleepThread, R, B
  <2>3. CASE Find(B, t) = NULL
    <3>1. UNCHANGED <<kept, exec>>
      BY <2>2, <2>3 DEF kept, Done
    <3>2. Typed'
      BY <1>t, <2>2, <2>3, LeaveTyped DEF Typed
    <3> QED
      BY <3>1, <3>2, <2>2, Idle DEF Done
  <2>4. CASE Find(B, t) # NULL
    <3>1. On(N[B], V[B], t) /\ t \in alive /\ waitcount[t] > 0
      BY <2>4, <1>c, <1>f, <1>w
    <3>2. waitcount' = [waitcount EXCEPT ![t] = waitcount[t] + c]
      BY <2>2, <2>4
    <3>3. Typed'
      <4>1. waitcount' \in [Threads -> 0 .. MaxSleeps]
        BY <3>2, <1>t, <1>c
      <4> QED
        BY <4>1, <1>t, <2>2, LeaveTyped DEF Typed
    <3>4. Well(N, V, alive, waitcount')
      <4>1. \A u \in Threads : u # t => waitcount'[u] = waitcount[u]
        BY <3>2, <1>t
      <4>2. waitcount'[t] # 0
        BY <3>2, <1>t, <1>c
      <4> QED
        BY <4>1, <4>2, <3>1, <1>1, <1>w DEF Well, R
    <3>5. IInv'
      BY <3>3, <3>4, <1>1, <2>2 DEF IInv, InOrder, Done
    <3>6. [u \in Threads |-> IF u \in alive' THEN waitcount'[u] ELSE 0] =
             [[u \in Threads |-> IF u \in alive THEN waitcount[u] ELSE 0] EXCEPT ![t] = @ + c]
      BY <3>1, <3>2, <2>2, <1>t
    <3>7. [u \in Threads |-> IF u \in alive THEN waitcount[u] ELSE 0][t] > 0
      BY <3>1
    <3>8. Contents(mem', lists'.running) = Queue!Without(Contents(mem, lists.running), t)
      BY <2>2, <1>2, <1>r, WithoutIs DEF R
    <3>9. Queue!Sleep(t, c)
      BY <3>6, <3>7, <3>8, <2>2 DEF Queue!Sleep, Queue!Known, Done
    <3> QED
      BY <3>5, <3>9, <2>2 DEF Done
  <2> QED
    BY <2>3, <2>4
<1>3. CASE On(N[R], V[R], t)
  <2>1. t \in alive /\ ~ On(N[B], V[B], t) /\ Find(B, t) = NULL
    BY <1>3, <1>w, <1>f
  <2>2. Inside(R, t)
    BY <2>1 DEF Asleep, R, B
  <2>3. PICK k \in 2 .. N[R] - 1 : V[R][k] = t
    BY <2>2, <1>1, <1>n, Views
  <2> DEFINE r == S[R][k]
  <2>4. k \in 1 .. N[R] /\ Find(R, t) = r /\ Removable(r)
    <3>1. k \in 1 .. N[R]
      BY <1>r
    <3> QED
      BY <3>1, <2>3, <1>1, <1>n, Views
  <2>5. r \in Nodes /\ r # NULL
    BY <2>4, <1>nw DEF Removable
  <2>6. PICK i \in free \cup {r} :
           LET a == InsertToTail(RemoveAt(mem, r), lists.blocked, i, t)
           IN  /\ mem' = a.mem
               /\ lists' = [lists EXCEPT !.blocked = a.list]
               /\ free' = (free \cup {r}) \ {i}
    BY <2>4, <2>5 DEF SleepThread, R, B
  <2>7. waitcount' = [waitcount EXCEPT ![t] = waitcount[t] + c] /\ UNCHANGED <<alive, ctx>> /\ Done(p)
    BY <2>4, <2>5 DEF SleepThread, R, B
  <2> DEFINE f1 == free \cup {r}
             m1 == RemoveAt(mem, r)
             N1 == With(N, R, N[R] - 1)
             S1 == With(S, R, Cut(N[R], S[R], k))
             V1 == With(V, R, Cut(N[R], V[R], k))
             a  == InsertToTail(m1, lists[B], i, t)
             N2 == With(N1, B, N1[B] + 1)
             S2 == With(S1, B, Put(N1[B], S1[B], i))
             V2 == With(V1, B, Put(N1[B], V1[B], t))
  <2>8. mem' = a.mem /\ lists' = [lists EXCEPT ![B] = a.list] /\ free' = f1 \ {i} /\ i \in f1
    BY <2>6 DEF B
  <2> HIDE DEF f1, m1, N1, S1, V1, a, N2, S2, V2
  <2>9. Shape(m1, f1, lists, N1, S1, V1)
    BY <1>1, <1>n, ShapeCut DEF m1, f1, N1, S1, V1
  <2>10. N1[B] = N[B] /\ V1[B] = V[B] /\ N1[R] = N[R] - 1 /\ V1[R] = Cut(N[R], V[R], k)
         /\ N1["threads"] = N["threads"] /\ V1["threads"] = V["threads"]
    BY <1>n DEF N1, V1, With, Names
  <2>11. Shape(mem', free', lists', N2, S2, V2)
    <3>1. ~ On(N1[B], V1[B], t)
      BY <2>1, <2>10
    <3>2. Shape(a.mem, f1 \ {i}, [lists EXCEPT ![B] = a.list], N2, S2, V2)
      BY <2>8, <2>9, <3>1, <1>n, ShapeTail DEF a, N2, S2, V2
    <3> QED
      BY <3>2, <2>8
  <2>12. /\ N2[R] = N[R] - 1 /\ V2[R] = Cut(N[R], V[R], k)
         /\ N2[B] = N[B] + 1 /\ V2[B] = Put(N[B], V[B], t)
         /\ N2["threads"] = N["threads"] /\ V2["threads"] = V["threads"]
    BY <2>10, <1>n DEF N2, V2, With, Names
  <2>13. \A u : On(N2[R], V2[R], u) <=> On(N[R], V[R], u) /\ u # t
    BY <2>3, <2>4, <2>12, <1>r, CutOn
  <2>14. \A u : On(N2[B], V2[B], u) <=> On(N[B], V[B], u) \/ u = t
    <3>1. N[B] \in Nat
      BY <1>b
    <3>2. \A u : On(N[B] + 1, Put(N[B], V[B], t), u) <=> On(N[B], V[B], u) \/ u = t
      BY <3>1, PutOn
    <3>3. N2[B] = N[B] + 1 /\ V2[B] = Put(N[B], V[B], t)
      BY <2>12
    <3> QED
      BY <3>2, <3>3
  <2>15. Well(N2, V2, alive', waitcount')
    <3>1. \A u \in Threads : u # t => waitcount'[u] = waitcount[u]
      BY <2>7, <1>t
    <3>2. waitcount'[t] # 0
      BY <2>7, <1>t, <1>c
    <3>3. alive' = alive
      BY <2>7
    <3> QED
      BY <3>1, <3>2, <3>3, <2>1, <2>12, <2>13, <2>14, <1>1 DEF Well, R, B
  <2>16. Typed'
    <3>1. waitcount' \in [Threads -> 0 .. MaxSleeps]
      BY <2>7, <1>t, <1>c
    <3> QED
      BY <3>1, <1>t, <2>7, LeaveTyped DEF Typed
  <2>17. IInv'
    BY <2>11, <2>15, <2>16 DEF IInv, InOrder
  <2>18. Contents(mem', lists'[R]) = V2[R]
    BY <2>11, <1>n, ShapeFacts
  <2>19. Contents(mem', lists'.running) = Queue!Without(Contents(mem, lists.running), t)
    BY <2>3, <2>4, <2>12, <2>18, <1>r, WithoutIs DEF R
  <2>20. [u \in Threads |-> IF u \in alive' THEN waitcount'[u] ELSE 0] =
             [[u \in Threads |-> IF u \in alive THEN waitcount[u] ELSE 0] EXCEPT ![t] = @ + c]
    BY <2>1, <2>7, <1>t
  <2>21. Queue!Known(t)
    <3>1. DOMAIN V[R] = 1 .. N[R]
      BY <1>r
    <3> QED
      BY <3>1, <2>3, <2>4, <1>r DEF Queue!Known, R
  <2>22. Queue!Sleep(t, c)
    BY <2>19, <2>20, <2>21, <2>7 DEF Queue!Sleep, Done
  <2> QED
    BY <2>17, <2>22, <2>7 DEF Done
<1> QED
  BY <1>2, <1>3

\* wakeThread() puts the thread in front, or only lowers waitcount.
LEMMA WakeStep ==
    ASSUME IInv, NEW p \in CPUs, NEW t \in Threads, NEW c \in Counts, WakeThread(p, t, c),
           c >= waitcount[t] /\ Asleep(t) => Inside("blocked", t)
    PROVE  IInv' /\ (Queue!Wake(t, c) \/ UNCHANGED Queue!vars)
<1>1. PICK N, S, V : Shape(mem, free, lists, N, S, V) /\ Well(N, V, alive, waitcount)
  BY DEF IInv, InOrder
<1> DEFINE R == "running"
           B == "blocked"
<1>n. R \in Names /\ B \in Names /\ R # B /\ R # "threads" /\ B # "threads"
  BY DEF Names
<1> HIDE DEF R, B
<1>t. /\ alive \subseteq Threads /\ waitcount \in [Threads -> 0 .. MaxSleeps] /\ Typed
      /\ exec \in [CPUs -> Threads \cup {None}]
  BY DEF IInv, Typed
<1>c. c \in Nat /\ c > 0 /\ waitcount[t] \in Nat /\ waitcount[t] <= MaxSleeps /\ MaxSleeps \in Nat
  BY <1>t, CountsOK
<1>w. /\ t \in alive <=> On(N[R], V[R], t) \/ On(N[B], V[B], t)
      /\ ~ (On(N[R], V[R], t) /\ On(N[B], V[B], t))
      /\ t \in alive => (waitcount[t] = 0 <=> On(N[R], V[R], t))
  BY <1>1 DEF Well, R, B
<1>r. /\ Contents(mem, lists[R]) = V[R] /\ V[R] \in Seq(Threads) /\ Len(V[R]) = N[R]
      /\ N[R] \in Nat /\ V[R] \in [1 .. N[R] -> Threads] /\ Distinct(N[R], V[R])
  BY <1>1, <1>n, ShapeFacts
<1>b. N[B] \in Nat /\ V[B] \in [1 .. N[B] -> Threads] /\ Distinct(N[B], V[B])
  BY <1>1, <1>n, ShapeFacts
<1>nw. NULL \notin Nodes /\ Wild \notin Nodes /\ NULL # Wild
  BY NodeFacts
<1>f. ~ On(N[B], V[B], t) => Find(B, t) = NULL
  BY <1>1, <1>n, Views
<1>l. Lowered(t, c) = IF c > waitcount[t] THEN 0 ELSE waitcount[t] - c
  BY DEF Lowered
<1> DEFINE left == Lowered(t, c)
<1> HIDE DEF left
<1>2. CASE ~ On(N[B], V[B], t)
  <2>1. Find(B, t) = NULL /\ ~ Removable(NULL) /\ NULL \notin Nodes /\ NULL # Wild /\ NULL \notin free
    BY <1>2, <1>f, <1>nw, <1>1 DEF Removable, Shape
  <2>2. UNCHANGED <<kept, ctx>> /\ Done(p)
    BY <2>1 DEF WakeThread, B
  <2>3. UNCHANGED <<kept, exec>> /\ Typed'
    BY <2>2, <1>t, LeaveTyped DEF Done, kept, Typed
  <2> QED
    BY <2>3, <2>2, Idle DEF Done
<1>3. CASE On(N[B], V[B], t)
  <2>1. t \in alive /\ ~ On(N[R], V[R], t) /\ waitcount[t] > 0
    BY <1>3, <1>w, <1>c
  <2>b. Removable(Find(B, t)) /\ Find(B, t) \in Nodes /\ Find(B, t) # NULL /\ Find(B, t) # Wild
        /\ Find(B, t) \notin free
    <3>1. PICK k \in 1 .. N[B] : V[B][k] = t
      BY <1>3 DEF On
    <3>2. Find(B, V[B][k]) = S[B][k] /\ Removable(S[B][k])
      BY <1>1, <1>n, Views
    <3> QED
      BY <3>1, <3>2, <1>nw DEF Removable
  <2>2. CASE left # 0
    <3>1. waitcount' = [waitcount EXCEPT ![t] = left] /\ UNCHANGED <<mem, free, lists, alive, ctx>> /\ Done(p)
      BY <2>2, <2>b DEF WakeThread, B, left
    <3>2. left = waitcount[t] - c /\ c < waitcount[t] /\ left \in 0 .. MaxSleeps
      BY <2>2, <1>l, <1>c DEF left
    <3>3. Typed'
      <4>1. waitcount' \in [Threads -> 0 .. MaxSleeps]
        BY <3>1, <3>2, <1>t
      <4> QED
        BY <4>1, <1>t, <3>1, LeaveTyped DEF Typed
    <3>4. Well(N, V, alive, waitcount')
      <4>1. \A u \in Threads : u # t => waitcount'[u] = waitcount[u]
        BY <3>1, <1>t
      <4>2. waitcount'[t] # 0
        BY <3>1, <2>2, <1>t
      <4> QED
        BY <4>1, <4>2, <2>1, <1>1 DEF Well, R
    <3>5. IInv'
      BY <3>3, <3>4, <1>1, <3>1 DEF IInv, InOrder, Done
    <3>6. [u \in Threads |-> IF u \in alive' THEN waitcount'[u] ELSE 0] =
             [[u \in Threads |-> IF u \in alive THEN waitcount[u] ELSE 0] EXCEPT ![t] = @ - c]
      BY <3>1, <3>2, <2>1, <1>t
    <3>7. [u \in Threads |-> IF u \in alive THEN waitcount[u] ELSE 0][t] = waitcount[t]
      BY <2>1
    <3>8. Queue!Wake(t, c)
      BY <3>1, <3>2, <3>6, <3>7, <2>1 DEF Queue!Wake, Done
    <3> QED
      BY <3>5, <3>8, <3>1 DEF Done
  <2>3. CASE left = 0
    <3>1. c >= waitcount[t]
      BY <2>3, <1>l, <1>c DEF left
    <3>2. Inside(B, t)
      BY <3>1, <2>b DEF Asleep, B
    <3>3. PICK k \in 2 .. N[B] - 1 : V[B][k] = t
      BY <3>2, <1>1, <1>n, Views
    <3> DEFINE r == S[B][k]
    <3>4. k \in 1 .. N[B] /\ Find(B, t) = r
      <4>1. k \in 1 .. N[B]
        BY <1>b
      <4> QED
        BY <4>1, <3>3, <1>1, <1>n, Views
    <3>6. /\ waitcount' = [waitcount EXCEPT ![t] = 0] /\ UNCHANGED <<alive, ctx>> /\ Done(p)
          /\ \E i \in free \cup {r} :
                LET a == InsertToHead(RemoveAt(mem, r), lists.running, i, t)
                IN  /\ mem' = a.mem
                    /\ lists' = [lists EXCEPT !.running = a.list]
                    /\ free' = (free \cup {r}) \ {i}
      BY <2>3, <2>b, <3>4 DEF WakeThread, B, left
    <3>7. PICK i \in free \cup {r} :
             LET a == InsertToHead(RemoveAt(mem, r), lists.running, i, t)
             IN  /\ mem' = a.mem
                 /\ lists' = [lists EXCEPT !.running = a.list]
                 /\ free' = (free \cup {r}) \ {i}
      BY <3>6
    <3> DEFINE f1 == free \cup {r}
               m1 == RemoveAt(mem, r)
               N1 == With(N, B, N[B] - 1)
               S1 == With(S, B, Cut(N[B], S[B], k))
               V1 == With(V, B, Cut(N[B], V[B], k))
               a  == InsertToHead(m1, lists[R], i, t)
               N2 == With(N1, R, N1[R] + 1)
               S2 == With(S1, R, Push(N1[R], S1[R], i))
               V2 == With(V1, R, Push(N1[R], V1[R], t))
    <3>8. mem' = a.mem /\ lists' = [lists EXCEPT ![R] = a.list] /\ free' = f1 \ {i} /\ i \in f1
      BY <3>7 DEF R
    <3> HIDE DEF f1, m1, N1, S1, V1, a, N2, S2, V2
    <3>9. Shape(m1, f1, lists, N1, S1, V1)
      BY <1>1, <1>n, ShapeCut DEF m1, f1, N1, S1, V1
    <3>10. N1[R] = N[R] /\ V1[R] = V[R] /\ N1[B] = N[B] - 1 /\ V1[B] = Cut(N[B], V[B], k)
           /\ N1["threads"] = N["threads"] /\ V1["threads"] = V["threads"]
      BY <1>n DEF N1, V1, With, Names
    <3>11. Shape(mem', free', lists', N2, S2, V2)
      <4>1. ~ On(N1[R], V1[R], t)
        BY <2>1, <3>10
      <4>2. Shape(a.mem, f1 \ {i}, [lists EXCEPT ![R] = a.list], N2, S2, V2)
        BY <3>8, <3>9, <4>1, <1>n, ShapeHead DEF a, N2, S2, V2
      <4> QED
        BY <4>2, <3>8
    <3>12. /\ N2[B] = N[B] - 1 /\ V2[B] = Cut(N[B], V[B], k)
           /\ N2[R] = N[R] + 1 /\ V2[R] = Push(N[R], V[R], t)
           /\ N2["threads"] = N["threads"] /\ V2["threads"] = V["threads"]
      BY <3>10, <1>n DEF N2, V2, With, Names
    <3>13. \A u : On(N2[B], V2[B], u) <=> On(N[B], V[B], u) /\ u # t
      BY <3>3, <3>4, <3>12, <1>b, CutOn
    <3>14. \A u : On(N2[R], V2[R], u) <=> On(N[R], V[R], u) \/ u = t
      <4>1. \A u : On(N[R] + 1, Push(N[R], V[R], t), u) <=> On(N[R], V[R], u) \/ u = t
        BY <1>r, PushOn
      <4> QED
        BY <4>1, <3>12
    <3>15. Well(N2, V2, alive', waitcount')
      <4>1. \A u \in Threads : u # t => waitcount'[u] = waitcount[u]
        BY <3>6, <1>t
      <4>2. waitcount'[t] = 0
        BY <3>6, <1>t
      <4>4. exec' = exec /\ alive' = alive
        BY <3>6 DEF Done
      <4> QED
        BY <4>1, <4>2, <4>4, <2>1, <3>12, <3>13, <3>14, <1>1 DEF Well, R, B
    <3>16. Typed'
      <4>1. waitcount' \in [Threads -> 0 .. MaxSleeps]
        BY <3>6, <1>t, <1>c
      <4> QED
        BY <4>1, <1>t, <3>6, LeaveTyped DEF Typed
    <3>17. IInv'
      BY <3>11, <3>15, <3>16 DEF IInv, InOrder
    <3>18. Contents(mem', lists'[R]) = V2[R]
      BY <3>11, <1>n, ShapeFacts
    <3>19. V2[R] = <<t>> \o V[R]
      <4> DEFINE u == Push(N[R], V[R], t)
                 w == <<t>> \o V[R]
      <4>1. \A q \in 1 .. N[R] + 1 : u[q] = w[q]
        BY <1>r DEF Push
      <4>2. w \in Seq(Threads) /\ Len(w) = N[R] + 1
        BY <1>r
      <4>3. u \in [1 .. N[R] + 1 -> Threads] /\ DOMAIN u = 1 .. N[R] + 1
        BY <1>r DEF Push
      <4>4. u \in Seq(Threads)
        BY <4>3, <1>r, SeqDef
      <4> HIDE DEF u, w
      <4>5. Len(u) = N[R] + 1
        BY <4>3, <4>4, <1>r, LengthIs
      <4>6. u = w
        BY <4>1, <4>2, <4>4, <4>5, SeqEqual
      <4> QED
        BY <4>6, <3>12 DEF u, w
    <3>20. [u \in Threads |-> IF u \in alive' THEN waitcount'[u] ELSE 0] =
             [[u \in Threads |-> IF u \in alive THEN waitcount[u] ELSE 0] EXCEPT ![t] = 0]
      BY <2>1, <3>6, <1>t
    <3>21. [u \in Threads |-> IF u \in alive THEN waitcount[u] ELSE 0][t] = waitcount[t]
      BY <2>1
    <3>22. Contents(mem', lists'.running) = <<t>> \o Contents(mem, lists.running)
      BY <3>18, <3>19, <1>r DEF R
    <3>23. Queue!Wake(t, c)
      BY <3>1, <3>20, <3>21, <3>22, <2>1, <3>6 DEF Queue!Wake, Done
    <3> QED
      BY <3>17, <3>23, <3>6 DEF Done
  <2> QED
    BY <2>2, <2>3
<1> QED
  BY <1>2, <1>3

\* killThread() takes the thread off its two lists.
LEMMA KillStep ==
    ASSUME IInv, NEW p \in CPUs, NEW t \in Threads, KillThread(p, t),
           t \in alive => /\ Inside("threads", t)
                          /\ Inside("blocked", t) \/ Inside("running", t)
    PROVE  IInv' /\ (Queue!Kill(t) \/ UNCHANGED Queue!vars)
<1>1. PICK N, S, V : Shape(mem, free, lists, N, S, V) /\ Well(N, V, alive, waitcount)
  BY DEF IInv, InOrder
<1> DEFINE R == "running"
           B == "blocked"
           T == "threads"
<1>n. R \in Names /\ B \in Names /\ T \in Names /\ R # B /\ R # T /\ B # T
      /\ \A l \in Names : l \in {R, B, T}
  BY DEF Names
<1> HIDE DEF R, B, T
<1>t. /\ alive \subseteq Threads /\ waitcount \in [Threads -> 0 .. MaxSleeps] /\ Typed
      /\ exec \in [CPUs -> Threads \cup {None}]
  BY DEF IInv, Typed
<1>w. /\ t \in alive <=> On(N[R], V[R], t) \/ On(N[B], V[B], t)
      /\ ~ (On(N[R], V[R], t) /\ On(N[B], V[B], t))
      /\ t \in alive => (waitcount[t] = 0 <=> On(N[R], V[R], t))
      /\ t \in alive <=> On(N[T], V[T], t)
  BY <1>1 DEF Well, R, B, T
<1>r. /\ Contents(mem, lists[R]) = V[R] /\ V[R] \in Seq(Threads) /\ Len(V[R]) = N[R]
      /\ V[R] \in [1 .. N[R] -> Threads]
  BY <1>1, <1>n, ShapeFacts
<1>d. \A l \in Names : N[l] \in Nat /\ Distinct(N[l], V[l])
  BY <1>1, <1>n, ShapeFacts
<1>f. /\ ~ On(N[R], V[R], t) => Find(R, t) = NULL
      /\ ~ On(N[B], V[B], t) => Find(B, t) = NULL
  BY <1>1, <1>n, Views
<1>nw. NULL \notin Nodes /\ ~ Removable(NULL)
  BY NodeFacts DEF Removable
<1>2. CASE t \notin alive
  <2>1. Find(R, t) = NULL /\ Find(B, t) = NULL
    BY <1>2, <1>w, <1>f
  <2>2. UNCHANGED <<kept, ctx>> /\ Done(p)
    BY <2>1, <1>nw DEF KillThread, R, B
  <2>3. UNCHANGED <<kept, exec>> /\ Typed'
    BY <2>2, <1>t, LeaveTyped DEF Done, kept, Typed
  <2> QED
    BY <2>3, <2>2, Idle DEF Done
<1>3. CASE t \in alive
  \* The list x it is on besides the process's, and its places on both.
  <2>1. PICK x \in {R, B} : Inside(x, t)
    BY <1>3 DEF R, B
  <2>x. x \in Names /\ x # T
    BY <2>1, <1>n
  <2>2. PICK k \in 2 .. N[x] - 1 : V[x][k] = t
    BY <2>1, <2>x, <1>1, Views
  <2>3. PICK h \in 2 .. N[T] - 1 : V[T][h] = t
    <3>1. Inside(T, t)
      BY <1>3 DEF T
    <3> QED
      BY <3>1, <1>1, <1>n, Views
  <2> DEFINE i == S[x][k]
             j == S[T][h]
  <2>4. k \in 1 .. N[x] /\ h \in 1 .. N[T]
    BY <2>x, <1>n, <1>d
  <2>5. Find(x, t) = i /\ Removable(i) /\ Find(T, t) = j /\ Removable(j)
    BY <2>2, <2>3, <2>4, <2>x, <1>1, <1>n, Views
  <2>6. On(N[x], V[x], t)
    BY <2>2, <2>4 DEF On
  <2> HIDE DEF i, j
  <2>7. (IF Find(R, t) = NULL THEN Find(B, t) ELSE Find(R, t)) = i /\ i # NULL
    <3>1. CASE x = R
      BY <3>1, <2>5, <1>nw
    <3>2. CASE x = B
      BY <3>2, <2>5, <2>6, <1>w, <1>f, <1>nw
    <3> QED
      BY <2>1, <3>1, <3>2
  <2>8. /\ mem' = RemoveAt(RemoveAt(mem, i), j)
        /\ free' = free \cup {i, j}
        /\ alive' = alive \ {t}
        /\ lock' = 1
        /\ Goto(p, IF exec[p] = t THEN "unlockself" ELSE "leave")
        /\ UNCHANGED <<lists, waitcount, exec, ctx, wild>>
    <3> DEFINE fr == Find("running", t)
               fb == Find("blocked", t)
               ft == Find("threads", t)
    <3>1. ft = j /\ Removable(j) /\ Removable(i) /\ i # NULL /\ (IF fr = NULL THEN fb ELSE fr) = i
      BY <2>5, <2>7 DEF R, B, T
    <3> HIDE DEF fr, fb, ft
    <3>2. \E z \in {IF fr = NULL THEN fb ELSE fr} :
             \/ z = NULL
             \/ /\ mem' = RemoveAt(RemoveAt(mem, z), ft)
                /\ free' = free \cup {z, ft}
                /\ alive' = alive \ {t}
                /\ lock' = 1
                /\ Goto(p, IF exec[p] = t THEN "unlockself" ELSE "leave")
                /\ UNCHANGED <<lists, waitcount, exec, ctx, wild>>
             \/ ~(Removable(z) /\ Removable(ft) /\ t \in alive)
      BY DEF KillThread, fr, fb, ft
    <3> QED
      BY <3>1, <3>2, <1>3
  <2> DEFINE f1 == free \cup {i}
             m1 == RemoveAt(mem, i)
             N1 == With(N, x, N[x] - 1)
             S1 == With(S, x, Cut(N[x], S[x], k))
             V1 == With(V, x, Cut(N[x], V[x], k))
             N2 == With(N1, T, N1[T] - 1)
             S2 == With(S1, T, Cut(N1[T], S1[T], h))
             V2 == With(V1, T, Cut(N1[T], V1[T], h))
  <2> HIDE DEF f1, m1, N1, S1, V1, N2, S2, V2
  <2>9. Shape(m1, f1, lists, N1, S1, V1)
    BY <2>2, <2>x, <1>1, ShapeCut DEF m1, f1, N1, S1, V1, i
  <2>10. N1[T] = N[T] /\ V1[T] = V[T] /\ S1[T] = S[T]
    BY <2>x, <1>n DEF N1, V1, S1, With
  <2>11. Shape(mem', free', lists', N2, S2, V2)
    <3>1. free' = f1 \cup {S1[T][h]} /\ mem' = RemoveAt(m1, S1[T][h]) /\ lists' = lists
      BY <2>8, <2>10 DEF f1, m1, j
    <3>2. h \in 2 .. N1[T] - 1
      BY <2>10
    <3> QED
      BY <3>1, <3>2, <2>9, <1>n, ShapeCut DEF N2, S2, V2
  <2>12. /\ N2[x] = N[x] - 1 /\ V2[x] = Cut(N[x], V[x], k)
         /\ N2[T] = N[T] - 1 /\ V2[T] = Cut(N[T], V[T], h)
         /\ \A l \in Names : l # x /\ l # T => N2[l] = N[l] /\ V2[l] = V[l]
    BY <2>10, <2>x, <1>n DEF N1, V1, N2, V2, With
  <2>13. \A u : On(N2[x], V2[x], u) <=> On(N[x], V[x], u) /\ u # t
    <3>1. N[x] \in Nat /\ Distinct(N[x], V[x])
      BY <2>x, <1>d
    <3> QED
      BY <3>1, <2>2, <2>4, <2>12, CutOn
  <2>14. \A u : On(N2[T], V2[T], u) <=> On(N[T], V[T], u) /\ u # t
    <3>1. N[T] \in Nat /\ Distinct(N[T], V[T])
      BY <1>n, <1>d
    <3> QED
      BY <3>1, <2>3, <2>4, <2>12, CutOn
  <2>15. \A l \in Names : \A u : On(N2[l], V2[l], u) <=> On(N[l], V[l], u) /\ u # t
    <3>1. \A l \in Names : l # x /\ l # T => ~ On(N[l], V[l], t)
      BY <2>1, <2>6, <1>n, <1>w
    <3> QED
      BY <3>1, <2>12, <2>13, <2>14
  <2>16. Well(N2, V2, alive', waitcount')
    <3>1. alive' = alive \ {t} /\ waitcount' = waitcount
      BY <2>8
    <3> QED
      BY <3>1, <2>15, <1>n, <1>1 DEF Well, R, B, T
  <2>17. Typed'
    BY <2>8, <1>t DEF Typed, Goto
  <2>18. IInv'
    BY <2>11, <2>16, <2>17 DEF IInv, InOrder
  <2>19. Contents(mem', lists'[R]) = V2[R]
    BY <2>11, <1>n, ShapeFacts
  <2>20. Contents(mem', lists'.running) = Queue!Without(Contents(mem, lists.running), t)
    <3>1. N[R] \in Nat /\ Distinct(N[R], V[R])
      BY <1>n, <1>d
    <3>2. CASE x = R
      BY <3>1, <3>2, <2>2, <2>4, <2>12, <2>19, <1>r, WithoutIs DEF R
    <3>3. CASE x = B
      <4>1. V2[R] = V[R] /\ ~ On(N[R], V[R], t)
        BY <3>3, <2>6, <2>12, <1>n, <1>w
      <4> QED
        BY <4>1, <3>1, <2>19, <1>r, WithoutIs DEF R
    <3> QED
      BY <2>1, <3>2, <3>3
  <2>21. [u \in Threads |-> IF u \in alive' THEN waitcount'[u] ELSE 0] =
             [[u \in Threads |-> IF u \in alive THEN waitcount[u] ELSE 0] EXCEPT ![t] = 0]
    BY <2>8, <1>t
  <2>22. Queue!Known(t)
    <3>1. CASE x = R
      <4>1. DOMAIN V[R] = 1 .. N[R]
        BY <1>r
      <4> QED
        BY <4>1, <3>1, <2>2, <2>4, <1>r DEF Queue!Known, R
    <3>2. CASE x = B
      <4>1. waitcount[t] \in 0 .. MaxSleeps /\ waitcount[t] # 0
        BY <3>2, <2>6, <1>3, <1>t, <1>w
      <4>2. waitcount[t] > 0
        BY <4>1, CountsOK
      <4> QED
        BY <4>2, <1>3 DEF Queue!Known
    <3> QED
      BY <2>1, <3>1, <3>2
  <2>23. Queue!Kill(t)
    BY <2>20, <2>21, <2>22, <2>8 DEF Queue!Kill
  <2> QED
    BY <2>18, <2>23
<1> QED
  BY <1>2, <1>3
------------------------------------------------------------------------------
\* Place k after place i of a round of n.
Round(n, i, k) == IF i + k <= n THEN i + k ELSE (i + k) - n

\* It is a place, and the next one is the next of the round.
LEMMA RoundFacts ==
    ASSUME NEW n \in Nat, NEW i \in 1 .. n, NEW k \in 0 .. n
    PROVE  /\ Round(n, i, k) \in 1 .. n
           /\ Round(n, i, n) = i /\ Round(n, i, 0) = i
           /\ k < n => Round(n, i, k + 1) = IF Round(n, i, k) = n THEN 1 ELSE Round(n, i, k) + 1
           /\ k \in 1 .. n - 1 => ((i + k - 1) % n) + 1 = Round(n, i, k)
<1>1. CASE i + k <= n
  <2>1. i + k - 1 \in Nat /\ i + k - 1 < n
    BY <1>1
  <2>2. (i + k - 1) % n = i + k - 1
    BY <2>1
  <2> QED
    BY <1>1, <2>2 DEF Round
<1>2. CASE ~ (i + k <= n)
  <2>1. i + k - 1 \in Nat /\ n <= i + k - 1 /\ i + k - 1 < n + n
    BY <1>2
  <2>2. (i + k - 1) % n = (i + k - 1) - n
    BY <2>1
  <2> QED
    BY <1>2, <2>2 DEF Round
<1> QED
  BY <1>1, <1>2

\* The loop of schedule on CPU p: where it stops, and what it does at a.
Stop(p, a)   == ThreadAt(a) = exec[p] \/ ~ Running(ThreadAt(a))
Onward(p)    == [a \in Int |-> IF Stop(p, a) THEN a ELSE RoundFrom(a)]
Way(p, a, f) == f = [k \in Nat |-> IF k = 0 THEN RoundFrom(a) ELSE Onward(p)[f[k - 1]]]

\* The search from a place of the running list goes round the list and stops at
\* the first thread that nobody else executes.
LEMMA SearchFinds ==
    ASSUME NEW N, NEW S, NEW V, Shape(mem, free, lists, N, S, V), NEW p \in CPUs,
           NEW n, n = N["running"], NEW s, s = S["running"], NEW v, v = V["running"],
           NEW i \in 1 .. n, v[i] = exec[p]
    PROVE  \E d \in 1 .. n :
              /\ Search(p, s[i]) = s[Round(n, i, d)]
              /\ ThreadAt(s[Round(n, i, d)]) = v[Round(n, i, d)]
              /\ v[Round(n, i, d)] = exec[p] \/ ~ Running(v[Round(n, i, d)])
              /\ \A k \in 1 .. d - 1 : v[Round(n, i, k)] # exec[p] /\ Running(v[Round(n, i, k)])
<1> DEFINE e == lists["running"]
<1>1. Tidy(mem, e, n, s, v) /\ "running" \in Names /\ mem \in Memories
  BY DEF Shape, Names
<1> HIDE DEF e
<1>2. /\ Chain(mem, e, n, s) /\ n \in Nat /\ s \in [1 .. n -> Nodes]
      /\ \A k \in 1 .. n : mem[s[k]].data = v[k]
      /\ \A k \in 1 .. n : mem[s[k]].next = IF k = n THEN NULL ELSE s[k + 1]
      /\ e.head = s[1]
  BY <1>1 DEF Tidy, Chain
<1>3. /\ Nodes \subseteq Int /\ NULL \notin Nodes /\ Wild \notin Nodes
      /\ Cardinality(Nodes) \in Nat /\ n <= Cardinality(Nodes)
  <2>1. n <= Cardinality(Nodes)
    BY <1>2, ChainIsShort
  <2> QED
    BY <2>1, NodeFacts
<1> DEFINE at(k) == s[Round(n, i, k)]
<1>4. ASSUME NEW k \in 0 .. n
      PROVE  /\ Round(n, i, k) \in 1 .. n /\ at(k) \in Nodes
             /\ ThreadAt(at(k)) = v[Round(n, i, k)]
  <2>1. Round(n, i, k) \in 1 .. n
    BY <1>2, RoundFacts
  <2>2. at(k) \in Nodes /\ at(k) # Wild
    BY <2>1, <1>2, <1>3
  <2> QED
    BY <2>1, <2>2, <1>2 DEF ThreadAt
<1>5. ASSUME NEW k \in 0 .. n - 1
      PROVE  RoundFrom(at(k)) = at(k + 1)
  <2> DEFINE j == Round(n, i, k)
  <2>k. k \in 0 .. n /\ k < n
    BY <1>2
  <2>1. j \in 1 .. n /\ s[j] \in Nodes /\ s[j] # Wild
    BY <2>k, <1>2, <1>3, <1>4
  <2>2. Round(n, i, k + 1) = IF j = n THEN 1 ELSE j + 1
    <3>1. k < n => Round(n, i, k + 1) = IF Round(n, i, k) = n THEN 1 ELSE Round(n, i, k) + 1
      BY <2>k, <1>2, RoundFacts
    <3> QED
      BY <3>1, <2>k
  <2> HIDE DEF j
  <2>3. mem[s[j]].next = IF j = n THEN NULL ELSE s[j + 1]
    BY <2>1, <1>2
  <2>4. ASSUME j # n PROVE s[j + 1] # NULL
    <3>1. j + 1 \in 1 .. n
      BY <2>1, <2>4, <1>2
    <3>2. s[j + 1] \in Nodes
      BY <3>1, <1>2
    <3> QED
      BY <3>2, <1>3
  <2>5. RoundFrom(s[j]) = s[Round(n, i, k + 1)]
    BY <2>1, <2>2, <2>3, <2>4, <1>2 DEF RoundFrom, e
  <2> QED
    BY <2>5 DEF j
<1> DEFINE D == {k \in 1 .. n : Stop(p, at(k))}
<1>6. PICK d \in D : \A k \in D : d <= k
  <2>1. n \in 1 .. n
    BY <1>2
  <2>n. n \in 0 .. n
    BY <1>2
  <2>2. Round(n, i, n) = i /\ n \in 0 .. n
    BY <2>n, <1>2, RoundFacts
  <2>3. Stop(p, at(n))
    BY <2>2, <1>4 DEF Stop
  <2>4. D # {} /\ D \subseteq Nat
    BY <2>1, <2>3
  <2> HIDE DEF D
  <2> QED
    BY <2>4, Least
<1>7. d \in 1 .. n /\ Stop(p, at(d)) /\ \A k \in 1 .. d - 1 : ~ Stop(p, at(k))
  <2>1. d \in 1 .. n /\ Stop(p, at(d))
    BY <1>6
  <2>2. ASSUME NEW k \in 1 .. d - 1
        PROVE  ~ Stop(p, at(k))
    <3>1. k \in 1 .. n /\ ~ (d <= k)
      BY <2>1, <1>2
    <3> QED
      BY <3>1, <1>6
  <2> QED
    BY <2>1, <2>2
<1> HIDE DEF D
<1> DEFINE f == [k \in Nat |-> IF k + 1 <= d THEN at(k + 1) ELSE at(d)]
<1>8. Way(p, s[i], f)
  <2>1. f[0] = RoundFrom(s[i])
    <3>1. Round(n, i, 0) = i /\ 0 \in 0 .. n - 1 /\ 0 \in 0 .. n
      BY <1>2, RoundFacts
    <3>2. RoundFrom(at(0)) = at(0 + 1)
      BY <3>1, <1>5
    <3>3. f[0] = at(0 + 1)
      BY <1>7, <1>2
    <3> QED
      BY <3>1, <3>2, <3>3
  <2>2. ASSUME NEW k \in Nat, k # 0
        PROVE  f[k] = Onward(p)[f[k - 1]]
    <3>1. CASE k < d
      <4>d. d \in Nat /\ d <= n /\ n \in Nat
        BY <1>2, <1>7
      <4>1. /\ k \in 1 .. d - 1 /\ k \in 0 .. n - 1 /\ k \in 0 .. n
            /\ (k - 1) + 1 = k /\ k <= d /\ k + 1 <= d /\ k - 1 \in Nat
        BY <4>d, <3>1, <2>2
      <4>2. f[k - 1] = at(k) /\ f[k] = at(k + 1)
        <5> HIDE DEF at
        <5>1. f[k] = at(k + 1)
          BY <4>1, <2>2
        <5>2. f[k - 1] = at((k - 1) + 1)
          BY <4>1
        <5> QED
          BY <4>1, <5>1, <5>2
      <4>3. at(k) \in Int /\ ~ Stop(p, at(k)) /\ RoundFrom(at(k)) = at(k + 1)
        BY <4>1, <1>3, <1>4, <1>5, <1>7
      <4> HIDE DEF f, at
      <4> QED
        BY <4>2, <4>3 DEF Onward
    <3>2. CASE ~ (k < d)
      <4>d. d \in Nat /\ k >= d
        BY <3>2, <2>2, <1>2, <1>7
      <4>1. k - 1 \in Nat /\ ~ (k + 1 <= d) /\ (k - 1) + 1 = k
        BY <4>d, <2>2
      <4>5. f[k] = at(d)
        BY <4>1, <2>2
      <4>6. f[k - 1] = at(d)
        <5>1. CASE k = d
          BY <5>1, <4>1, <4>d
        <5>2. CASE k > d
          <6>1. ~ ((k - 1) + 1 <= d)
            BY <5>2, <4>d, <2>2
          <6> QED
            BY <6>1, <4>1
        <5> QED
          BY <5>1, <5>2, <4>d, <2>2
      <4>2. f[k - 1] = at(d) /\ f[k] = at(d)
        BY <4>5, <4>6
      <4>3. at(d) \in Int /\ Stop(p, at(d))
        <5>1. d \in 0 .. n
          BY <1>2, <1>7
        <5>2. at(d) \in Nodes
          BY <5>1, <1>4
        <5> HIDE DEF at
        <5> QED
          BY <5>2, <1>3, <1>7
      <4> HIDE DEF f, at
      <4> QED
        BY <4>2, <4>3 DEF Onward
    <3> QED
      BY <3>1, <3>2
  <2>3. f = [k \in Nat |-> f[k]]
    OBVIOUS
  <2> HIDE DEF f
  <2>4. [k \in Nat |-> f[k]] = [k \in Nat |-> IF k = 0 THEN RoundFrom(s[i]) ELSE Onward(p)[f[k - 1]]]
    BY <2>1, <2>2
  <2> QED
    BY <2>3, <2>4 DEF Way
<1>9. PICK g : g = CHOOSE h : Way(p, s[i], h)
  OBVIOUS
<1>10. Way(p, s[i], g)
  BY <1>8, <1>9
<1> DEFINE last == g[2 * Cardinality(Nodes)]
<1>11. Search(p, s[i]) = IF Stop(p, last) THEN last ELSE Endless
  BY <1>9 DEF Search, Way, Onward, Stop
<1>12. \A k \in Nat : g[k] = f[k]
  <2> DEFINE P == {k \in Nat : g[k] = f[k]}
  <2> HIDE DEF f
  <2>1. 0 \in P
    BY <1>8, <1>10 DEF Way
  <2>2. ASSUME NEW k \in Nat, k # 0, k - 1 \in P
        PROVE  k \in P
    <3>1. g[k - 1] = f[k - 1]
      BY <2>2
    <3>2. g[k] = Onward(p)[g[k - 1]]
      BY <1>10, <2>2 DEF Way
    <3>3. f[k] = Onward(p)[f[k - 1]]
      BY <1>8, <2>2 DEF Way
    <3> QED
      BY <3>1, <3>2, <3>3
  <2> HIDE DEF P
  <2>3. ASSUME NEW k \in Nat
        PROVE  k \in P
    <3>1. \A j \in 1 .. k : j - 1 \in P => j \in P
      BY <2>2
    <3>2. \A j \in 0 .. k : j \in P
      BY <2>1, <3>1, UpTo
    <3> QED
      BY <3>2
  <2> QED
    BY <2>3 DEF P
<1>13. last = at(d)
  <2>1. 2 * Cardinality(Nodes) \in Nat /\ d <= 2 * Cardinality(Nodes)
    BY <1>2, <1>3, <1>7
  <2>2. f[2 * Cardinality(Nodes)] = at(d)
    BY <2>1, <1>2, <1>7
  <2> QED
    BY <2>1, <2>2, <1>12
<1> HIDE DEF last, f
<1>14. Search(p, s[i]) = at(d)
  BY <1>7, <1>11, <1>13
<1>15. ThreadAt(at(d)) = v[Round(n, i, d)]
       /\ (v[Round(n, i, d)] = exec[p] \/ ~ Running(v[Round(n, i, d)]))
  BY <1>2, <1>4, <1>7 DEF Stop
<1>16. ASSUME NEW k \in 1 .. d - 1
       PROVE  v[Round(n, i, k)] # exec[p] /\ Running(v[Round(n, i, k)])
  <2>1. k \in 0 .. n /\ ~ Stop(p, at(k))
    BY <1>2, <1>7
  <2> QED
    BY <2>1, <1>4 DEF Stop
<1> QED
  BY <1>7, <1>14, <1>15, <1>16

\* The search for a thread that is not on the list starts at NULL, and what low
\* memory holds there is its end.
LEMMA SearchFails ==
    ASSUME NEW p \in CPUs, exec \in [CPUs -> Threads \cup {None}], mem[NULL] = LowMemory
    PROVE  Search(p, NULL) = Wild /\ ThreadAt(Wild) = Wild
<1>1. Wild # NULL /\ Wild \in Int /\ Cardinality(Nodes) \in Nat
      /\ Wild \notin Threads \cup {None}
  BY NodeFacts
<1>2. RoundFrom(NULL) = Wild /\ ThreadAt(Wild) = Wild
  BY <1>1 DEF RoundFrom, ThreadAt, LowMemory
<1>3. Stop(p, Wild)
  BY <1>1, <1>2 DEF Stop, Running
<1> DEFINE f == [k \in Nat |-> Wild]
<1>4. Way(p, NULL, f)
  <2>1. Onward(p)[Wild] = Wild
    BY <1>1, <1>3 DEF Onward
  <2>2. \A k \in Nat : (IF k = 0 THEN RoundFrom(NULL) ELSE Onward(p)[f[k - 1]]) = Wild
    BY <1>2, <2>1
  <2> QED
    BY <2>2 DEF Way
<1>5. PICK g : g = CHOOSE h : Way(p, NULL, h)
  OBVIOUS
<1>6. Way(p, NULL, g)
  BY <1>4, <1>5
<1> DEFINE last == g[2 * Cardinality(Nodes)]
<1>7. Search(p, NULL) = IF Stop(p, last) THEN last ELSE Endless
  BY <1>5 DEF Search, Way, Onward, Stop
<1>8. ASSUME NEW k \in Nat
      PROVE  g[k] = Wild
  <2> DEFINE P == {j \in Nat : g[j] = Wild}
  <2>1. 0 \in P
    BY <1>2, <1>6 DEF Way
  <2>2. \A j \in 1 .. k : j - 1 \in P => j \in P
    BY <1>1, <1>3, <1>6 DEF Way, Onward
  <2> HIDE DEF P
  <2>3. \A j \in 0 .. k : j \in P
    BY <2>1, <2>2, UpTo
  <2> QED
    BY <2>3 DEF P
<1>9. last = Wild
  BY <1>1, <1>8
<1> QED
  BY <1>2, <1>3, <1>7, <1>9

\* schedule() changes nothing but the thread its CPU executes.
LEMMA ScheduleStep ==
    ASSUME IInv, NEW p \in CPUs, Schedule(p)
    PROVE  IInv' /\ (Queue!Switch(p) \/ UNCHANGED Queue!vars)
<1>1. PICK N, S, V : Shape(mem, free, lists, N, S, V) /\ Well(N, V, alive, waitcount)
  BY DEF IInv, InOrder
<1>t. Typed
  BY DEF IInv
<1> DEFINE a == Search(p, Find("running", exec[p]))
<1>2. \/ UNCHANGED <<kept, exec>> /\ Typed'
      \/ /\ a # Endless /\ ThreadAt(a) \in Threads \ {exec[p]} /\ exec[p] # None
         /\ exec' = [exec EXCEPT ![p] = ThreadAt(a)]
         /\ ctx' = [ctx EXCEPT ![exec[p]] = "saved"]
         /\ lock' = 1
         /\ Goto(p, "switch")
         /\ UNCHANGED <<kept, wild>>
  <2>1. CASE UNCHANGED <<kept, exec, ctx, wild>> /\ lock' = 1
             /\ (Goto(p, IF pc[p] = "again" THEN "leavetwice" ELSE "leave") \/ Goto(p, "stuck"))
    BY <2>1, <1>t DEF Typed, Goto, kept
  <2>2. CASE GoWild
    BY <2>2, <1>t DEF Typed, GoWild, kept
  <2> QED
    BY <2>1, <2>2 DEF Schedule
<1>3. CASE UNCHANGED <<kept, exec>> /\ Typed'
  BY <1>3, Idle
<1>4. CASE /\ a # Endless /\ ThreadAt(a) \in Threads \ {exec[p]} /\ exec[p] # None
           /\ exec' = [exec EXCEPT ![p] = ThreadAt(a)]
           /\ ctx' = [ctx EXCEPT ![exec[p]] = "saved"]
           /\ lock' = 1
           /\ Goto(p, "switch")
           /\ UNCHANGED <<kept, wild>>
  <2> DEFINE n == N["running"]
             s == S["running"]
             v == V["running"]
             u == ThreadAt(a)
  <2>1. "running" \in Names /\ Contents(mem, lists["running"]) = v /\ v \in Seq(Threads) /\ Len(v) = n
        /\ n \in Nat /\ v \in [1 .. n -> Threads]
    BY <1>1, ShapeFacts DEF Names
  <2>2. PICK i \in 1 .. n : v[i] = exec[p]
    <3>1. CASE ~ On(n, v, exec[p])
      <4>1. Find("running", exec[p]) = NULL
        BY <3>1, <2>1, <1>1, Views
      <4>2. ThreadAt(a) = Wild /\ Wild \notin Threads
        BY <4>1, <1>1, <1>t, SearchFails, NodeFacts DEF Shape, Typed
      <4> QED
        BY <4>2, <1>4
    <3> QED
      BY <3>1 DEF On
  <2>3. Find("running", exec[p]) = s[i]
    BY <2>1, <2>2, <1>1, Views
  <2>4. PICK d \in 1 .. n :
           /\ Search(p, s[i]) = s[Round(n, i, d)]
           /\ ThreadAt(s[Round(n, i, d)]) = v[Round(n, i, d)]
           /\ v[Round(n, i, d)] = exec[p] \/ ~ Running(v[Round(n, i, d)])
           /\ \A k \in 1 .. d - 1 : v[Round(n, i, k)] # exec[p] /\ Running(v[Round(n, i, k)])
    <3> HIDE DEF n, s, v
    <3> QED
      BY <1>1, <2>2, SearchFinds DEF n, s, v
  <2> HIDE DEF n, s, v
  <2>5. u = v[Round(n, i, d)] /\ u \in Threads /\ u # exec[p]
    BY <2>3, <2>4, <1>4
  <2> HIDE DEF u, a
  <2>6. d \in 1 .. n - 1
    <3>1. d # n
      <4>1. Round(n, i, n) = i
        BY <2>1, RoundFacts
      <4> QED
        BY <4>1, <2>2, <2>5
    <3> QED
      BY <3>1, <2>1
  <2>7. exec' = [exec EXCEPT ![p] = u] /\ exec \in [CPUs -> Threads \cup {None}]
        /\ exec[p] \in Threads
    BY <1>4, <1>t DEF Typed, u
  <2>9. Typed'
    BY <2>5, <2>7, <1>4, <1>t DEF Typed, kept, Goto
  <2>10. IInv'
    BY <2>9, <1>1, <1>4 DEF IInv, InOrder, kept
  <2>11. ASSUME NEW k \in 1 .. n - 1
         PROVE  Queue!After(i, k) = v[Round(n, i, k)]
    <3>1. ((i + k - 1) % n) + 1 = Round(n, i, k)
      BY <2>1, RoundFacts
    <3> QED
      BY <3>1, <2>1 DEF Queue!After
  <2>12. \A w : Queue!Free(w) <=> ~ Running(w)
    BY DEF Queue!Free, Running
  <2>13. Queue!Free(Queue!After(i, d))
    BY <2>4, <2>5, <2>6, <2>11, <2>12
  <2>14. \A k \in 1 .. d - 1 : ~ Queue!Free(Queue!After(i, k))
    <3>1. \A k \in 1 .. d - 1 : k \in 1 .. n - 1
      BY <2>1, <2>6
    <3> QED
      BY <3>1, <2>4, <2>11, <2>12
  <2>15. i \in DOMAIN Contents(mem, lists.running) /\ Contents(mem, lists.running)[i] = exec[p]
         /\ Len(Contents(mem, lists.running)) = n
    BY <2>1, <2>2
  <2>16. exec' = [exec EXCEPT ![p] = Queue!After(i, d)]
    BY <2>5, <2>6, <2>7, <2>11
  <2>17. UNCHANGED Contents(mem, lists.running)
         /\ UNCHANGED [t \in Threads |-> IF t \in alive THEN waitcount[t] ELSE 0]
    BY <1>4 DEF kept
  <2>18. Queue!Switch(p)
    BY <2>6, <2>13, <2>14, <2>15, <2>16, <2>17 DEF Queue!Switch
  <2> QED
    BY <2>10, <2>18
<1> QED
  BY <1>2, <1>3, <1>4

\* What follows a call, until its thread runs again, leaves the lists alone.
LEMMA ContinueStep ==
    ASSUME IInv, NEW p \in CPUs, Continue(p)
    PROVE  IInv' /\ UNCHANGED Queue!vars
<1>1. UNCHANGED <<kept, exec>>
  BY DEF Continue, Leave, SwitchUnlock, Jump, GoWild
<1>2. Typed'
  <2>1. Typed
    BY DEF IInv
  <2>2. CASE Leave(p)
    BY <1>1, <2>1, <2>2 DEF Typed, kept, Leave, Goto
  <2>3. CASE SwitchUnlock(p)
    BY <1>1, <2>1, <2>3 DEF Typed, kept, SwitchUnlock, Goto
  <2>4. CASE Jump(p)
    BY <1>1, <2>1, <2>4 DEF Typed, kept, Jump, Goto, GoWild
  <2> QED
    BY <2>2, <2>3, <2>4 DEF Continue
<1> QED
  BY <1>1, <1>2, Idle

\* Step by step: the invariant is kept, and the step is one of the queue's.
LEMMA CarefulStep ==
    ASSUME IInv, [CarefulNext]_vars
    PROVE  IInv' /\ [Queue!Next]_Queue!vars
<1>1. CASE UNCHANGED vars
  <2>1. UNCHANGED <<kept, exec>> /\ Typed'
    BY <1>1 DEF vars, kept, IInv, Typed
  <2> QED
    BY <2>1, Idle
<1>2. CASE CarefulNext
  <2>1. PICK p \in CPUs : CarefulCall(p, Threads) \/ Schedule(p) \/ Continue(p)
    BY <1>2 DEF CarefulNext
  <2>2. CASE Schedule(p)
    BY <2>2, ScheduleStep DEF Queue!Next
  <2>3. CASE Continue(p)
    BY <2>3, ContinueStep
  <2>4. ASSUME NEW t \in Threads, NEW s \in BOOLEAN, CreateThread(p, t, s)
        PROVE  IInv' /\ [Queue!Next]_Queue!vars
    BY <2>4, CreateStep DEF Queue!Next
  <2>5. ASSUME NEW t \in Threads, NEW c \in Counts, SleepThread(p, t, c),
               t \in alive => Asleep(t) \/ Inside("running", t)
        PROVE  IInv' /\ [Queue!Next]_Queue!vars
    BY <2>5, SleepStep DEF Queue!Next
  <2>6. ASSUME NEW t \in Threads, NEW c \in Counts, WakeThread(p, t, c),
               c >= waitcount[t] /\ Asleep(t) => Inside("blocked", t)
        PROVE  IInv' /\ [Queue!Next]_Queue!vars
    BY <2>6, WakeStep DEF Queue!Next
  <2>7. ASSUME NEW t \in Threads, KillThread(p, t),
               t \in alive => /\ Inside("threads", t)
                              /\ Inside("blocked", t) \/ Inside("running", t)
        PROVE  IInv' /\ [Queue!Next]_Queue!vars
    BY <2>7, KillStep DEF Queue!Next
  <2>8. CASE CarefulCall(p, Threads)
    BY <2>8, <2>4, <2>5, <2>6, <2>7 DEF CarefulCall
  <2> QED
    BY <2>1, <2>2, <2>3, <2>8
<1> QED
  BY <1>1, <1>2

\* The invariant holds: createThread, sleepThread, wakeThread, killThread and
\* schedule leave three lists in one piece that share no node, and a thread on the
\* process's list and on one of the others, as its waitcount says.
THEOREM SchedulerInvariantHolds == CarefulSpec => []IInv
<1>1. Init => IInv
  BY InitInOrder
<1>2. IInv /\ [CarefulNext]_vars => IInv'
  BY CarefulStep
<1> QED
  BY <1>1, <1>2, PTL DEF CarefulSpec

\* No call gives a variable a value out of its type: no waitcount is lowered below
\* zero by wakeThread, and the lists' heads and tails are nodes or NULL.
THEOREM SchedulerTypeCorrect == CarefulSpec => []TypeOK
<1>1. IInv => TypeOK
  <2> SUFFICES ASSUME IInv PROVE TypeOK
    OBVIOUS
  <2>1. PICK N, S, V : Shape(mem, free, lists, N, S, V)
    BY DEF IInv, InOrder
  <2>2. Typed
    BY DEF IInv
  <2> QED
    BY <2>1, <2>2 DEF TypeOK, Typed, Shape, Memories, Names, Ends
<1> QED
  BY <1>1, SchedulerInvariantHolds, PTL

\* The distinct elements of a sequence are as many as it is long.
LEMMA CountDistinct ==
    ASSUME NEW n \in Nat, NEW v \in [1 .. n -> Threads], Distinct(n, v)
    PROVE  Cardinality({v[k] : k \in 1 .. n}) = n
<1> DEFINE E == {v[k] : k \in 1 .. n}
<1>1. v \in [1 .. n -> E]
  OBVIOUS
<1>2. \A e \in E : \E k \in 1 .. n : v[k] = e
  OBVIOUS
<1>3. \A j, k \in 1 .. n : v[j] = v[k] => j = k
  BY DEF Distinct
<1> HIDE DEF E
<1>4. v \in Bijection(1 .. n, E)
  BY <1>1, <1>2, <1>3 DEF Bijection, Injection, Surjection, IsInjective
<1>5. ExistsBijection(1 .. n, E)
  BY <1>4 DEF ExistsBijection
<1> QED
  BY <1>5, FS_CountingElements DEF E

\* insertToHead, insertToTail and removeAt, which leave head and tail and the
\* pointers of other nodes to their callers' care, keep the scheduler's three
\* lists in one piece, every thread on the two it belongs on, once, and every
\* node on a list or free.
THEOREM ListsStayExact == CarefulSpec => []ListsExact
<1>1. IInv => ListsExact
  <2> SUFFICES ASSUME IInv PROVE ListsExact
    OBVIOUS
  <2>1. PICK N, S, V : Shape(mem, free, lists, N, S, V) /\ Well(N, V, alive, waitcount)
    BY DEF IInv, InOrder
  <2>2. DOMAIN lists = Names
    BY <2>1 DEF Shape
  <2>3. ASSUME NEW l \in Names
        PROVE  /\ InOnePiece(mem, lists[l])
               /\ NodesOf(mem, lists[l]) = {S[l][k] : k \in 1 .. N[l]}
               /\ Elements(l) = {V[l][k] : k \in 1 .. N[l]}
               /\ Len(Contents(mem, lists[l])) = Cardinality(Elements(l))
    <3>1. mem \in Memories /\ Chain(mem, lists[l], N[l], S[l])
      BY <2>1 DEF Shape, Tidy
    <3>2. InOnePiece(mem, lists[l]) /\ NodesOf(mem, lists[l]) = {S[l][k] : k \in 1 .. N[l]}
      BY <3>1, PieceIs
    <3>3. /\ Contents(mem, lists[l]) = V[l] /\ Len(V[l]) = N[l] /\ N[l] \in Nat
          /\ V[l] \in [1 .. N[l] -> Threads] /\ Distinct(N[l], V[l])
      BY <2>1, ShapeFacts
    <3>4. Elements(l) = {V[l][k] : k \in 1 .. N[l]}
      BY <3>3 DEF Elements
    <3>5. Cardinality({V[l][k] : k \in 1 .. N[l]}) = N[l]
      BY <3>3, CountDistinct
    <3> QED
      BY <3>2, <3>3, <3>4, <3>5
  <2>4. "threads" \in Names /\ "running" \in Names /\ "blocked" \in Names
    BY DEF Names
  <2>5. \A l \in Names : \A t : t \in Elements(l) <=> On(N[l], V[l], t)
    BY <2>3 DEF On
  <2>6. \A l \in Names : \A x : x \in NodesOf(mem, lists[l]) <=> On(N[l], S[l], x)
    BY <2>3 DEF On
  <2>7. \A l \in Names : Elements(l) \subseteq Threads /\ NodesOf(mem, lists[l]) \subseteq Nodes
    <3>1. ASSUME NEW l \in Names
          PROVE  Elements(l) \subseteq Threads /\ NodesOf(mem, lists[l]) \subseteq Nodes
      <4>1. V[l] \in [1 .. N[l] -> Threads] /\ S[l] \in [1 .. N[l] -> Nodes]
        BY <2>1, ShapeFacts
      <4>2. \A k \in 1 .. N[l] : V[l][k] \in Threads /\ S[l][k] \in Nodes
        BY <4>1
      <4>3. Elements(l) = {V[l][k] : k \in 1 .. N[l]}
            /\ NodesOf(mem, lists[l]) = {S[l][k] : k \in 1 .. N[l]}
        BY <2>3
      <4> QED
        BY <4>2, <4>3
    <3> QED
      BY <3>1
  <2>8. alive \subseteq Threads
    BY DEF IInv, Typed
  <2>9. /\ Elements("running") \cap Elements("blocked") = {}
        /\ Elements("running") \cup Elements("blocked") = alive
        /\ Elements("threads") = alive
    BY <2>1, <2>4, <2>5, <2>7, <2>8 DEF Well
  <2>10. \A l, k \in Names : l # k => NodesOf(mem, lists[l]) \cap NodesOf(mem, lists[k]) = {}
    BY <2>1, <2>6, <2>7 DEF Shape
  <2>11. UNION {NodesOf(mem, lists[l]) : l \in Names} = Nodes \ free
    BY <2>1, <2>6, <2>7 DEF Shape
  <2> QED
    BY <2>2, <2>3, <2>9, <2>10, <2>11 DEF ListsExact
<1> QED
  BY <1>1, SchedulerInvariantHolds, PTL

\* Whatever the addresses of the nodes, the scheduler is the queue of RunQueue:
\* sleepThread takes a thread out of the round, the last wakeThread puts it back
\* in front, killThread removes it, and schedule moves a CPU to the next thread of
\* the round that no CPU executes.
THEOREM SchedulerImplementsRunQueue == CarefulSpec => ImplementsRunQueue
<1>1. Init => Queue!Init
  BY InitInOrder
<1>2. IInv /\ [CarefulNext]_vars => [Queue!Next]_Queue!vars
  BY CarefulStep
<1> QED
  BY <1>1, <1>2, SchedulerInvariantHolds, PTL DEF CarefulSpec, ImplementsRunQueue, Queue!Spec
------------------------------------------------------------------------------
\* A CPU whose thread is on the running list finds it, and another or the same
\* to go on with.
LEMMA ScheduleServed ==
    ASSUME IInv, NEW p \in CPUs, Find("running", exec[p]) # NULL, Schedule(p)
    PROVE  ~ wild' /\ \E label \in {"leave", "leavetwice", "switch"} : Goto(p, label)
<1>1. PICK N, S, V : Shape(mem, free, lists, N, S, V) /\ Well(N, V, alive, waitcount)
  BY DEF IInv, InOrder
<1> DEFINE a == Search(p, Find("running", exec[p]))
<1>2. a # Endless /\ ThreadAt(a) \in Threads
  <2> DEFINE n == N["running"]
             s == S["running"]
             v == V["running"]
  <2>1. "running" \in Names /\ n \in Nat /\ v \in [1 .. n -> Threads] /\ s \in [1 .. n -> Nodes]
    BY <1>1, ShapeFacts DEF Names
  <2>2. PICK i \in 1 .. n : v[i] = exec[p]
    <3>1. On(n, v, exec[p])
      BY <2>1, <1>1, Views
    <3> QED
      BY <3>1 DEF On
  <2>3. Find("running", exec[p]) = s[i]
    BY <2>1, <2>2, <1>1, Views
  <2>4. PICK d \in 1 .. n :
           /\ Search(p, s[i]) = s[Round(n, i, d)]
           /\ ThreadAt(s[Round(n, i, d)]) = v[Round(n, i, d)]
    <3> HIDE DEF n, s, v
    <3> QED
      BY <1>1, <2>2, SearchFinds DEF n, s, v
  <2> HIDE DEF n, s, v
  <2>5. Round(n, i, d) \in 1 .. n
    BY <2>1, RoundFacts
  <2>6. Endless \notin Nodes
    BY NodeFacts DEF Endless
  <2> QED
    BY <2>1, <2>3, <2>4, <2>5, <2>6
<1>3. exec[p] # None
  <2>1. \A t : ~ On(N["running"], V["running"], t) => Find("running", t) = NULL
    BY <1>1, Views DEF Names
  <2>2. On(N["running"], V["running"], exec[p]) /\ V["running"] \in [1 .. N["running"] -> Threads]
    BY <2>1, <1>1, ShapeFacts DEF Names
  <2>3. exec[p] \in Threads
    BY <2>2 DEF On
  <2> QED
    BY <2>3, NodeFacts
<1> HIDE DEF a
<1>4. ~ wild
  BY DEF Schedule
<1> QED
  BY <1>2, <1>3, <1>4 DEF Schedule, a

\* Any other CPU follows a pointer that leads nowhere.
LEMMA ScheduleLost ==
    ASSUME IInv, NEW p \in CPUs, Find("running", exec[p]) = NULL, Schedule(p)
    PROVE  wild' /\ pc' = pc /\ pc[p] # "stuck"
<1>1. mem[NULL] = LowMemory /\ exec \in [CPUs -> Threads \cup {None}]
  BY DEF IInv, InOrder, Shape, Typed
<1>2. Search(p, NULL) = Wild /\ ThreadAt(Wild) = Wild
  BY <1>1, SearchFails
<1>3. Wild # Endless /\ Wild \notin Threads /\ Wild # exec[p]
  BY <1>1, NodeFacts DEF Wild, Endless
<1>4. GoWild /\ pc[p] \in {"run", "again"}
  BY <1>2, <1>3 DEF Schedule
<1> QED
  BY <1>4 DEF GoWild

\* On any number of CPUs, whatever calls came before, schedule() fails exactly on a
\* CPU whose thread is not on the running list (put to sleep or killed by itself
\* or from another CPU, or not there yet), where it follows a pointer that leads
\* nowhere.  It never searches for ever with the lock, and every other tick ends
\* at a thread.
THEOREM TicksFailOffTheList == CarefulSpec => TicksFailExactlyOffTheList
<1> DEFINE Tick(p) == Schedule(p) =>
                         pc'[p] # "stuck" /\ (wild' <=> Find("running", exec[p]) = NULL)
<1>1. ASSUME IInv, [CarefulNext]_vars
      PROVE  [\A p \in CPUs : Tick(p)]_vars
  <2>1. ASSUME NEW p \in CPUs, Schedule(p)
        PROVE  pc'[p] # "stuck" /\ (wild' <=> Find("running", exec[p]) = NULL)
    <3>p. pc \in [CPUs -> {"run", "leave", "leavetwice", "unlockself", "again",
                           "switch", "jump", "resumed", "stuck"}]
      BY <1>1 DEF IInv, Typed
    <3>1. CASE Find("running", exec[p]) = NULL
      BY <3>1, <2>1, <1>1, ScheduleLost
    <3>2. CASE Find("running", exec[p]) # NULL
      <4>1. ~ wild' /\ \E label \in {"leave", "leavetwice", "switch"} : Goto(p, label)
        BY <3>2, <2>1, <1>1, ScheduleServed
      <4> QED
        BY <4>1, <3>2, <3>p DEF Goto
    <3> QED
      BY <3>1, <3>2
  <2> QED
    BY <2>1
<1> QED
  BY <1>1, SchedulerInvariantHolds, PTL DEF CarefulSpec, TicksFailExactlyOffTheList
==============================================================================
