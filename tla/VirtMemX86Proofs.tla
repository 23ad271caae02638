--------------------------- MODULE VirtMemX86Proofs ---------------------------
(***************************************************************************)
(* Proofs about the i386 virtual memory manager, for any callers, requests,*)
(* size of tables and memory: pages are handed out as the abstract         *)
(* allocator hands out frames, they stay mapped to what was asked for, and *)
(* the kernel is told it is out of pages only when it is.                  *)
(*                                                                         *)
(* One invariant carries all three.  A step is looked at in two halves:    *)
(* what it does to the caller that takes it (Moves), and what it does to   *)
(* the pages it shares with the others (Changes, Kept); Sound puts them    *)
(* together, SoundKeeps shows that such a step keeps the invariant.        *)
(***************************************************************************)
EXTENDS VirtMemX86, FiniteSetTheorems, SequenceTheorems, WellFoundedInduction, TLAPS

\* What an entry that is present may hold.
Frame == Nat \cup {Old}
\* The requests for given frames.
Maps  == {"map", "mapAt"}

Points == {"out", "page", "swap", "drop", "free", "give"}

Codes == {"none", "done", "OUT_OF_VMEM", "OUT_OF_PHYMEM", "BOUNDS_ERROR"}

Calls(c) == [use : Uses[c] \cup {NoUse}, base : Nat, cnt : Nat, page : Nat,
             frame : Frame, todo : Seq(Pages), phys : BOOLEAN, res : Codes]

\* The pages of the run of a call k, and all it holds at p: InHand, by values.
RunOf(k)    == {k.base + n : n \in 0 .. (k.cnt - 1)}
Holds(p, k) == RunOf(k) \cup ToSet(k.todo)
               \cup (IF p \in {"swap", "drop"} THEN {k.page} ELSE {})

Distinct(s) == \A i, j \in 1 .. Len(s) : s[i] = s[j] => i = j

\* The locals of a call at p: its run and the pages it is to free are distinct
\* pages, it has a request with room for another page while it gathers, and an
\* error leaves no run behind.
CallInv(c, p, k) ==
    /\ k \in Calls(c)
    /\ RunOf(k) \subseteq Pages /\ Distinct(k.todo) /\ RunOf(k) \cap ToSet(k.todo) = {}
    /\ p = "out" => k = NoCall
    /\ p \in {"page", "swap", "drop"} => k.use \in Uses[c] /\ k.cnt < k.use.len /\ k.res = "none"
    /\ p \in {"swap", "drop"} =>
          k.use.op = "map" /\ k.page \in Pages /\ k.page \notin RunOf(k) \cup ToSet(k.todo)
    /\ p = "free" => k.todo # <<>>
    /\ p \in {"free", "give"} /\ k.res # "done" => k.cnt = 0

\* What the pages of a caller are mapped to, by table m: those it owns (o) and the
\* run of a mapping to what was asked for, the rest at least present.
MapInv(p, k, o, m) ==
    /\ DOMAIN o \subseteq Pages /\ DOMAIN o \cap Holds(p, k) = {}
    /\ \A v \in DOMAIN o : m[v] = o[v]
    /\ k.use.op \in Maps => \A n \in 0 .. (k.cnt - 1) : m[k.base + n] = k.use.to + n
    /\ p = "drop" => m[k.page] = k.use.to + k.cnt
    /\ \A v \in DOMAIN o \cup Holds(p, k) : m[v] # NotPresent

SpaceTypes ==
    /\ table \in [Pd -> Frame \cup {NotPresent}]
    /\ freepages \in [Pd -> BOOLEAN] /\ user \in [Pd -> BOOLEAN]
    /\ pte \in [Pages -> Frame \cup {NotPresent}]
    /\ free \subseteq Frame
    /\ made \subseteq Pd

CallTypes ==
    /\ pc \in [Callers -> Points]
    /\ call = [c \in Callers |-> call[c]] /\ owned = [c \in Callers |-> owned[c]]

\* An entry without a table has no pages, the boot code's tables and pages stay,
\* and a table that allocateSinglePage made is marked as having room unless it is
\* full: what the scan for a page goes by.
SpaceInv ==
    /\ \A v \in Pages : table[PdIndex(v)] = NotPresent => pte[v] = NotPresent
    /\ \A v \in BootPages : pte[v] # NotPresent
    /\ \A i \in BootTables : table[i] # NotPresent
    /\ \A i \in made : table[i] # NotPresent /\ (Full(i) \/ freepages[i])

\* Nobody's page is anybody else's, or the boot code's, and every page mapped is
\* somebody's, the boot code's or a stale entry of a table that was not cleared.
HandInv ==
    /\ \A c, d \in Callers : c # d => Hand(c) \cap Hand(d) = {}
    /\ \A c \in Callers : Hand(c) \cap BootPages = {}
    /\ \A v \in Pages : pte[v] # NotPresent =>
          (\E c \in Callers : v \in Hand(c)) \/ (pte[v] = Old /\ Leftover(v))

\* MappedAsAsked is not inductive: that no step of another caller touches a page
\* needs the hands to be disjoint, those of calls in progress included.
IInv ==
    /\ SpaceTypes /\ CallTypes /\ SpaceInv /\ HandInv
    /\ \A c \in Callers : CallInv(c, pc[c], call[c]) /\ MapInv(pc[c], call[c], owned[c], pte)
------------------------------------------------------------------------------
\* Assumptions on the constants, in the form the proofs use.
LEMMA ConstantFacts ==
    /\ PtEntries \in Nat /\ PtEntries > 0 /\ PdEntries \in Nat
    /\ Pages \subseteq Nat /\ Pd \subseteq Nat
    /\ BootPages \subseteq Pages
    /\ KernelPd \in Nat
BY PagingOK DEF Pages, Pd

\* Quotient and remainder are unique.
LEMMA Quotient ==
    ASSUME NEW q \in Nat, NEW r \in Nat, NEW m \in Nat, r < m
    PROVE  (q * m + r) \div m = q /\ (q * m + r) % m = r
BY Z3

\* A number is its quotient times the divisor plus its remainder.
LEMMA Division ==
    ASSUME NEW v \in Nat, NEW m \in Nat, m > 0
    PROVE  /\ v \div m \in Nat /\ v % m \in 0 .. (m - 1)
           /\ v = (v \div m) * m + (v % m)
<1>1. PICK q \in Nat : q = v \div m
  BY Z3
<1>2. v >= q * m /\ v < (q + 1) * m /\ q * m \in Nat
  BY <1>1, Z3
<1>3. PICK r \in Nat : r = v - q * m
  BY <1>2
<1>4. r < m
  BY <1>2, <1>3, Z3
<1>5. v = q * m + r
  BY <1>2, <1>3
<1>6. v \div m = q /\ v % m = r
  BY <1>4, <1>5, Quotient
<1>7. v = (v \div m) * m + (v % m)
  BY <1>5, <1>6
<1>8. v \div m \in Nat /\ v % m \in 0 .. (m - 1)
  BY <1>4, <1>6
<1> QED
  BY <1>7, <1>8

\* A page is its directory index and its table index.
LEMMA Indices ==
    /\ \A v \in Pages : /\ PdIndex(v) \in Pd /\ PtIndex(v) \in 0 .. (PtEntries - 1)
                         /\ PageAt(PdIndex(v), PtIndex(v)) = v
    /\ \A i \in Pd, j \in 0 .. (PtEntries - 1) :
          /\ PageAt(i, j) \in Pages
          /\ PdIndex(PageAt(i, j)) = i /\ PtIndex(PageAt(i, j)) = j
<1>1. ASSUME NEW v \in Pages
      PROVE  /\ PdIndex(v) \in Pd /\ PtIndex(v) \in 0 .. (PtEntries - 1)
             /\ PageAt(PdIndex(v), PtIndex(v)) = v
  <2>1. v \in Nat /\ v < PdEntries * PtEntries
    BY ConstantFacts DEF Pages
  <2>2. /\ v \div PtEntries \in Nat /\ v % PtEntries \in 0 .. (PtEntries - 1)
        /\ v = (v \div PtEntries) * PtEntries + (v % PtEntries)
    BY <2>1, ConstantFacts, Division
  <2>3. v \div PtEntries < PdEntries
    BY <2>1, ConstantFacts, Z3
  <2>4. v \div PtEntries \in 0 .. (PdEntries - 1)
    BY <2>2, <2>3, ConstantFacts
  <2> QED
    BY <2>2, <2>4 DEF PdIndex, PtIndex, PageAt, Pd
<1>2. ASSUME NEW i \in Pd, NEW j \in 0 .. (PtEntries - 1)
      PROVE  /\ PageAt(i, j) \in Pages
             /\ PdIndex(PageAt(i, j)) = i /\ PtIndex(PageAt(i, j)) = j
  <2>1. i \in Nat /\ j \in Nat /\ j < PtEntries /\ i + 1 <= PdEntries
    BY ConstantFacts DEF Pd
  <2>2. i * PtEntries + j \in Nat
    BY <2>1, ConstantFacts, Z3
  <2>3. (i + 1) * PtEntries <= PdEntries * PtEntries
    BY <2>1, ConstantFacts, Z3
  <2>4. (i + 1) * PtEntries = i * PtEntries + PtEntries
    BY <2>1, ConstantFacts, Z3
  <2>5. i * PtEntries + j \in Pages
    BY <2>1, <2>2, <2>3, <2>4, ConstantFacts, Z3 DEF Pages
  <2>6. (i * PtEntries + j) \div PtEntries = i /\ (i * PtEntries + j) % PtEntries = j
    BY <2>1, ConstantFacts, Quotient
  <2> QED
    BY <2>5, <2>6 DEF PdIndex, PtIndex, PageAt
<1> QED
  BY <1>1, <1>2

\* The least element of a set of frames is one of them.
LEMMA LowestIn ==
    ASSUME NEW S, S \subseteq Nat \cup {Old}, S # {}
    PROVE  Lowest(S) \in S
<1> DEFINE T == {x + 2 : x \in S}
<1>1. T \subseteq Nat /\ T # {}
  <2>1. \A x \in S : x + 2 \in Nat
    <3> TAKE x \in S
    <3>1. x \in Nat \/ x = -2
      BY DEF Old
    <3> QED
      BY <3>1
  <2>2. PICK x \in S : TRUE
    OBVIOUS
  <2>3. x + 2 \in T
    BY <2>2
  <2> QED
    BY <2>1, <2>3
<1> DEFINE Less == {ss \in Nat \X Nat : ss[1] < ss[2]}
<1> HIDE DEF T
<1>0. IsWellFoundedOn(Less, Nat)
  BY NatLessThanWellFounded DEF OpToRel
<1>2. PICK t \in T : \A y \in T : ~ (<<y, t>> \in Less)
  BY <1>0, <1>1, WFMin
<1>3. PICK x \in S : t = x + 2
  BY DEF T
<1>4. \A y \in S : x <= y
  <2> TAKE y \in S
  <2>1. y + 2 \in T /\ y + 2 \in Nat /\ t \in Nat
    BY <1>1 DEF T
  <2>2. ~ (y + 2 < t)
    BY <1>2, <2>1
  <2>3. y \in Int /\ x \in Int
    BY DEF Old
  <2> QED
    BY <1>3, <2>1, <2>2, <2>3
<1> QED
  BY <1>4 DEF Lowest

\* A table is full when all of its entries are present.
LEMMA FullMeansAll ==
    ASSUME NEW i
    PROVE  Full(i) <=> MappedIn(i) = 0 .. (PtEntries - 1)
<1>1. IsFiniteSet(0 .. (PtEntries - 1)) /\ Cardinality(0 .. (PtEntries - 1)) = PtEntries
  BY FS_Interval, ConstantFacts
<1>2. MappedIn(i) \in SUBSET (0 .. (PtEntries - 1))
  BY DEF MappedIn
<1> QED
  BY <1>1, <1>2, FS_Subset DEF Full

\* The same of the table after a step.
LEMMA FullMeansAllNext ==
    ASSUME NEW i
    PROVE  Full(i)' <=> MappedIn(i)' = 0 .. (PtEntries - 1)
<1>1. IsFiniteSet(0 .. (PtEntries - 1)) /\ Cardinality(0 .. (PtEntries - 1)) = PtEntries
  BY FS_Interval, ConstantFacts
<1>2. MappedIn(i)' \in SUBSET (0 .. (PtEntries - 1))
  BY DEF MappedIn
<1> QED
  BY <1>1, <1>2, FS_Subset DEF Full

------------------------------------------------------------------------------
(* Sequences of pages without repetition. *)

\* The elements of a sequence over S are in S.
LEMMA InSet ==
    ASSUME NEW s \in Seq(Pages)
    PROVE  /\ \A i \in 1 .. Len(s) : s[i] \in ToSet(s)
           /\ \A v \in ToSet(s) : v \in Pages /\ \E i \in 1 .. Len(s) : s[i] = v
BY LenProperties DEF ToSet

\* The pages of a run, in order.
LEMMA RunSeq ==
    ASSUME NEW c \in Callers, NEW k \in Calls(c), RunOf(k) \subseteq Pages,
           NEW s, s = [m \in 1 .. k.cnt |-> k.base + m - 1]
    PROVE  /\ s \in Seq(Pages) /\ Len(s) = k.cnt
           /\ ToSet(s) = RunOf(k) /\ Distinct(s)
<1>1. k.cnt \in Nat /\ k.base \in Nat
  BY DEF Calls
<1>2. \A m \in 1 .. k.cnt : m - 1 \in 0 .. (k.cnt - 1) /\ k.base + m - 1 = k.base + (m - 1)
  BY <1>1
<1>3. \A n \in 0 .. (k.cnt - 1) : n + 1 \in 1 .. k.cnt /\ k.base + n = k.base + (n + 1) - 1
  BY <1>1
<1>4. ToSet(s) = RunOf(k)
  BY <1>2, <1>3 DEF ToSet, RunOf
<1>5. s \in [1 .. k.cnt -> Pages]
  BY <1>4 DEF ToSet
<1>6. s \in Seq(Pages)
  BY <1>1, <1>5, SeqDef
<1>7. Len(s) = k.cnt
  BY <1>1, <1>5, <1>6, LenProperties
<1>8. Distinct(s)
  BY <1>1, <1>7 DEF Distinct
<1> QED
  BY <1>4, <1>6, <1>7, <1>8

\* Two sequences without common elements joined.
LEMMA JoinDistinct ==
    ASSUME NEW s \in Seq(Pages), NEW t \in Seq(Pages), Distinct(s), Distinct(t),
           ToSet(s) \cap ToSet(t) = {}
    PROVE  /\ s \o t \in Seq(Pages) /\ Distinct(s \o t)
           /\ ToSet(s \o t) = ToSet(s) \cup ToSet(t)
<1> DEFINE u == s \o t
<1>1. /\ u \in Seq(Pages) /\ Len(u) = Len(s) + Len(t)
      /\ \A i \in 1 .. Len(s) + Len(t) : u[i] = IF i <= Len(s) THEN s[i] ELSE t[i - Len(s)]
  BY ConcatProperties
<1>2. Len(s) \in Nat /\ Len(t) \in Nat
  BY LenProperties
<1> HIDE DEF u
<1>a. PICK a \in Nat, b \in Nat : a = Len(s) /\ b = Len(t)
  BY <1>2
<1>3. \A i \in 1 .. a : i \in 1 .. a + b /\ u[i] = s[i]
  BY <1>1, <1>a
<1>4. \A i \in 1 .. b : i + a \in 1 .. a + b /\ u[i + a] = t[i]
  <2> TAKE i \in 1 .. b
  <2>1. i + a \in 1 .. a + b /\ ~ (i + a <= a) /\ (i + a) - a = i
    OBVIOUS
  <2> QED
    BY <1>1, <1>a, <2>1
<1>5. \A i \in 1 .. a + b : \/ i \in 1 .. a /\ u[i] = s[i]
                            \/ i - a \in 1 .. b /\ u[i] = t[i - a]
  BY <1>1, <1>a
<1>b. /\ \A i \in 1 .. a : s[i] \in ToSet(s)
      /\ \A i \in 1 .. b : t[i] \in ToSet(t)
  BY <1>a, InSet
<1>6. Distinct(u)
  <2> SUFFICES ASSUME NEW i \in 1 .. a + b, NEW j \in 1 .. a + b, u[i] = u[j] PROVE i = j
    BY <1>1, <1>a DEF Distinct
  <2>1. CASE i \in 1 .. a /\ j \in 1 .. a
    BY <2>1, <1>3, <1>a DEF Distinct
  <2>2. CASE i \notin 1 .. a /\ j \notin 1 .. a
    <3>1. t[i - a] = t[j - a] /\ i - a \in 1 .. b /\ j - a \in 1 .. b
      BY <2>2, <1>5
    <3>2. i - a = j - a
      BY <3>1, <1>a DEF Distinct
    <3> QED
      BY <3>2
  <2>3. CASE i \in 1 .. a /\ j \notin 1 .. a
    <3>1. u[i] = s[i] /\ u[j] = t[j - a] /\ j - a \in 1 .. b
      BY <2>3, <1>3, <1>5
    <3> QED
      BY <3>1, <2>3, <1>b
  <2>4. CASE i \notin 1 .. a /\ j \in 1 .. a
    <3>1. u[j] = s[j] /\ u[i] = t[i - a] /\ i - a \in 1 .. b
      BY <2>4, <1>3, <1>5
    <3> QED
      BY <3>1, <2>4, <1>b
  <2> QED
    BY <2>1, <2>2, <2>3, <2>4
<1>7. ToSet(u) = ToSet(s) \cup ToSet(t)
  <2>1. ASSUME NEW v \in ToSet(u) PROVE v \in ToSet(s) \cup ToSet(t)
    <3>1. PICK i \in 1 .. a + b : u[i] = v
      <4>1. u \in Seq(Pages) /\ Len(u) = a + b
        BY <1>1, <1>a
      <4>2. \E i \in 1 .. Len(u) : u[i] = v
        BY <4>1, InSet
      <4> QED
        BY <4>1, <4>2
    <3> QED
      BY <3>1, <1>5, <1>b
  <2>2. ASSUME NEW v \in ToSet(s) PROVE v \in ToSet(u)
    <3>1. PICK i \in 1 .. a : s[i] = v
      BY <1>a, InSet
    <3>2. i \in 1 .. Len(u) /\ u[i] = v
      BY <3>1, <1>1, <1>3, <1>a
    <3> QED
      BY <3>2, <1>1, InSet
  <2>3. ASSUME NEW v \in ToSet(t) PROVE v \in ToSet(u)
    <3>1. PICK i \in 1 .. b : t[i] = v
      BY <1>a, InSet
    <3>2. i + a \in 1 .. Len(u) /\ u[i + a] = v
      BY <3>1, <1>1, <1>4, <1>a
    <3> QED
      BY <3>2, <1>1, InSet
  <2> QED
    BY <2>1, <2>2, <2>3
<1> QED
  BY <1>1, <1>6, <1>7 DEF u

\* A sequence and one new element.
LEMMA AppendDistinct ==
    ASSUME NEW s \in Seq(Pages), NEW v \in Pages, Distinct(s), v \notin ToSet(s)
    PROVE  /\ Append(s, v) \in Seq(Pages) /\ Distinct(Append(s, v))
           /\ ToSet(Append(s, v)) = ToSet(s) \cup {v}
<1>1. <<v>> \in Seq(Pages) /\ ToSet(<<v>>) = {v} /\ Distinct(<<v>>)
  BY DEF ToSet, Distinct
<1>2. Append(s, v) = s \o <<v>>
  BY AppendIsConcat
<1>3. ToSet(s) \cap ToSet(<<v>>) = {}
  BY <1>1
<1>4. /\ s \o <<v>> \in Seq(Pages) /\ Distinct(s \o <<v>>)
      /\ ToSet(s \o <<v>>) = ToSet(s) \cup ToSet(<<v>>)
  BY <1>1, <1>3, JoinDistinct
<1> QED
  BY <1>1, <1>2, <1>4

\* A sequence without its head.
LEMMA TailDistinct ==
    ASSUME NEW s \in Seq(Pages), s # <<>>, Distinct(s)
    PROVE  /\ Tail(s) \in Seq(Pages) /\ Distinct(Tail(s))
           /\ ToSet(Tail(s)) = ToSet(s) \ {Head(s)}
           /\ Head(s) \in ToSet(s) /\ Head(s) \in Pages
<1> DEFINE t == Tail(s)
<1>1. /\ t \in Seq(Pages) /\ Len(t) = Len(s) - 1
      /\ \A i \in 1 .. Len(t) : t[i] = s[i + 1]
      /\ Head(s) \in Pages
  BY HeadTailProperties
<1>2. Len(s) \in Nat /\ Len(s) > 0 /\ Head(s) = s[1]
  BY EmptySeq, LenProperties
<1> HIDE DEF t
<1>3. Distinct(t)
  BY <1>1, <1>2 DEF Distinct
<1>4. ToSet(t) = ToSet(s) \ {Head(s)}
  <2>1. ASSUME NEW v \in ToSet(t) PROVE v \in ToSet(s) \ {Head(s)}
    <3>1. PICK i \in 1 .. Len(t) : t[i] = v
      BY <1>1, InSet
    <3>2. i + 1 \in 1 .. Len(s) /\ s[i + 1] = v /\ 1 \in 1 .. Len(s) /\ i + 1 # 1
      BY <1>1, <1>2, <3>1
    <3> QED
      BY <1>2, <3>2, InSet DEF Distinct
  <2>2. ASSUME NEW v \in ToSet(s), v # Head(s) PROVE v \in ToSet(t)
    <3>1. PICK i \in 1 .. Len(s) : s[i] = v
      BY InSet
    <3>2. i - 1 \in 1 .. Len(t) /\ t[i - 1] = v
      BY <1>1, <1>2, <2>2, <3>1
    <3> QED
      BY <1>1, <3>2, InSet
  <2> QED
    BY <2>1, <2>2
<1>5. Head(s) \in ToSet(s)
  BY <1>2, InSet
<1> QED
  BY <1>1, <1>3, <1>4, <1>5 DEF t
------------------------------------------------------------------------------
(* The end of a step: what Finish, Fail and Place leave to their caller. *)

\* In this step the hand of caller c becomes H, and its locals are sound.
Moves(c, H) ==
    \E p \in Points : \E o, k :
        /\ owned' = [owned EXCEPT ![c] = o]
        /\ pc' = [pc EXCEPT ![c] = p]
        /\ call' = [call EXCEPT ![c] = k]
        /\ CallInv(c, p, k) /\ MapInv(p, k, o, pte')
        /\ H = DOMAIN o \cup Holds(p, k)

\* The locals of a caller that is outside.
LEMMA NoCallIs ==
    ASSUME NEW c \in Callers
    PROVE  /\ NoCall \in Calls(c) /\ RunOf(NoCall) = {} /\ ToSet(NoCall.todo) = {}
           /\ Distinct(NoCall.todo) /\ CallInv(c, "out", NoCall) /\ Holds("out", NoCall) = {}
<1>1. NoCall \in Calls(c)
  BY EmptySeq DEF NoCall, Calls, NoUse, Frame, Codes
<1>2. RunOf(NoCall) = {} /\ ToSet(NoCall.todo) = {} /\ Distinct(NoCall.todo)
  BY DEF NoCall, RunOf, ToSet, Distinct
<1> QED
  BY <1>1, <1>2 DEF CallInv, Holds

\* Finish: the caller has what it had, as its own or still to free.
LEMMA FinishMoves ==
    ASSUME CallTypes, NEW c \in Callers, NEW k,
           CallInv(c, "give", k), MapInv("give", k, owned[c], pte'), Finish(c, k)
    PROVE  Moves(c, DOMAIN owned[c] \cup Holds("give", k))
<1>1. CASE k.todo # <<>>
  <2>1. CallInv(c, "free", k) /\ MapInv("free", k, owned[c], pte') /\ Holds("free", k) = Holds("give", k)
    BY <1>1 DEF CallInv, MapInv, Holds
  <2>2. /\ owned' = [owned EXCEPT ![c] = owned[c]] /\ pc' = [pc EXCEPT ![c] = "free"]
        /\ call' = [call EXCEPT ![c] = k]
    BY <1>1 DEF Finish, CallTypes
  <2> QED
    BY <2>1, <2>2 DEF Moves, Points
<1>2. CASE k.todo = <<>> /\ k.res # "done"
  <2>1. k.cnt = 0 /\ Holds("give", k) = {}
    BY <1>2 DEF CallInv, Holds, RunOf, ToSet
  <2>2. /\ owned' = [owned EXCEPT ![c] = owned[c]] /\ pc' = [pc EXCEPT ![c] = "out"]
        /\ call' = [call EXCEPT ![c] = NoCall]
    BY <1>2 DEF Finish, Return, CallTypes
  <2>3. MapInv("out", NoCall, owned[c], pte')
    BY NoCallIs, <2>1 DEF MapInv, NoCall, NoUse, Maps
  <2> QED
    BY <2>1, <2>2, <2>3, NoCallIs DEF Moves, Points
<1>3. CASE k.todo = <<>> /\ k.res = "done"
  <2> DEFINE o == [v \in DOMAIN owned[c] \cup RunOf(k) |->
                      IF v \in DOMAIN owned[c] THEN owned[c][v]
                      ELSE IF k.use.op \in Maps THEN k.use.to + (v - k.base) ELSE pte'[v]]
  <2>1. /\ owned' = [owned EXCEPT ![c] = o] /\ pc' = [pc EXCEPT ![c] = "out"]
        /\ call' = [call EXCEPT ![c] = NoCall]
    BY <1>3 DEF Finish, Return, RunOf, Maps
  <2>2. DOMAIN o = DOMAIN owned[c] \cup RunOf(k) /\ DOMAIN o \subseteq Pages
    BY DEF CallInv, MapInv
  <2>3. Holds("give", k) = RunOf(k)
    BY <1>3 DEF Holds, ToSet
  <2>4. ASSUME NEW v \in DOMAIN o PROVE pte'[v] = o[v]
    <3>1. CASE v \in DOMAIN owned[c]
      BY <3>1 DEF MapInv
    <3>2. CASE v \notin DOMAIN owned[c] /\ k.use.op \in Maps
      <4>1. PICK n \in 0 .. (k.cnt - 1) : v = k.base + n
        BY <3>2 DEF RunOf
      <4>2. k.base \in Nat /\ k.cnt \in Nat
        BY DEF CallInv, Calls
      <4>3. v - k.base = n
        BY <4>1, <4>2
      <4> QED
        BY <3>2, <4>1, <4>3 DEF MapInv
    <3>3. CASE v \notin DOMAIN owned[c] /\ k.use.op \notin Maps
      BY <3>3
    <3> QED
      BY <3>1, <3>2, <3>3
  <2>5. \A v \in DOMAIN o : pte'[v] # NotPresent
    BY <2>2, <2>3 DEF MapInv
  <2> HIDE DEF o
  <2>6. MapInv("out", NoCall, o, pte')
    BY NoCallIs, <2>2, <2>4, <2>5 DEF MapInv, NoCall, NoUse, Maps
  <2>7. /\ CallInv(c, "out", NoCall) /\ "out" \in Points
        /\ DOMAIN owned[c] \cup Holds("give", k) = DOMAIN o \cup Holds("out", NoCall)
    BY <2>2, <2>3, NoCallIs DEF Points
  <2> QED
    BY <2>1, <2>6, <2>7 DEF Moves
<1> QED
  BY <1>1, <1>2, <1>3

\* Fail: the run becomes pages to free.
LEMMA FailMoves ==
    ASSUME CallTypes, NEW c \in Callers, NEW code \in Codes \ {"done"},
           CallInv(c, "page", call[c]), MapInv("page", call[c], owned[c], pte'),
           Fail(c, code)
    PROVE  Moves(c, DOMAIN owned[c] \cup Holds("page", call[c]))
<1> DEFINE q == call[c]
           k == [q EXCEPT !.todo = Run(c) \o @, !.cnt = 0, !.res = code]
<1>1. /\ q \in Calls(c) /\ RunOf(q) \subseteq Pages /\ Distinct(q.todo)
      /\ RunOf(q) \cap ToSet(q.todo) = {} /\ q.todo \in Seq(Pages)
  BY DEF CallInv, Calls
<1>2. /\ Run(c) \in Seq(Pages) /\ ToSet(Run(c)) = RunOf(q) /\ Distinct(Run(c))
  BY <1>1, RunSeq DEF Run
<1>3. /\ Run(c) \o q.todo \in Seq(Pages) /\ Distinct(Run(c) \o q.todo)
      /\ ToSet(Run(c) \o q.todo) = RunOf(q) \cup ToSet(q.todo)
  BY <1>1, <1>2, JoinDistinct
<1>4. /\ k \in Calls(c) /\ k.todo = Run(c) \o q.todo /\ k.cnt = 0 /\ k.use = q.use
  BY <1>1, <1>3 DEF Calls
<1>5. RunOf(k) = {}
  BY <1>4 DEF RunOf
<1>6. Holds("give", k) = Holds("page", q)
  BY <1>3, <1>4, <1>5 DEF Holds
<1>7. CallInv(c, "give", k)
  BY <1>3, <1>4, <1>5 DEF CallInv
<1>8. MapInv("give", k, owned[c], pte')
  BY <1>4, <1>6 DEF MapInv
<1>9. Finish(c, k)
  BY DEF Fail
<1> HIDE DEF k
<1> QED
  BY <1>6, <1>7, <1>8, <1>9, FinishMoves

\* Place: page v joins the run, completes the region, or joins the pages to
\* free with the whole run.
LEMMA PlaceMoves ==
    ASSUME CallTypes, NEW c \in Callers, NEW v \in Pages,
           CallInv(c, "page", call[c]), MapInv("page", call[c], owned[c], pte'),
           v \notin DOMAIN owned[c] \cup Holds("page", call[c]), pte'[v] # NotPresent,
           call[c].use.op \in Maps => pte'[v] = call[c].use.to + call[c].cnt,
           Place(c, v)
    PROVE  Moves(c, DOMAIN owned[c] \cup Holds("page", call[c]) \cup {v})
<1> DEFINE q == call[c]
           first == q.cnt = 0
           grown == [q EXCEPT !.base = IF first THEN v ELSE @, !.cnt = @ + 1]
           whole == [grown EXCEPT !.res = "done"]
           over == [q EXCEPT !.todo = Append(Run(c), v) \o @, !.cnt = 0]
           H == DOMAIN owned[c] \cup Holds("page", q) \cup {v}
<1>1. /\ q \in Calls(c) /\ RunOf(q) \subseteq Pages /\ Distinct(q.todo)
      /\ RunOf(q) \cap ToSet(q.todo) = {} /\ q.todo \in Seq(Pages)
      /\ q.use \in Uses[c] /\ q.cnt < q.use.len /\ q.res = "none"
      /\ q.cnt \in Nat /\ q.base \in Nat /\ v \in Nat
  BY ConstantFacts DEF CallInv, Calls
<1>2. v \notin RunOf(q) \cup ToSet(q.todo)
  BY DEF Holds
<1>3. q.use.len \in Nat
  BY <1>1, UsesOK
<1>4. CASE first \/ v = q.base + q.cnt
  <2>1. grown \in Calls(c) /\ whole \in Calls(c)
    <3>1. (IF first THEN v ELSE q.base) \in Nat /\ q.cnt + 1 \in Nat /\ "done" \in Codes
      BY <1>1 DEF Codes
    <3>2. grown \in Calls(c)
      BY <1>1, <3>1 DEF Calls
    <3> QED
      BY <3>1, <3>2 DEF Calls
  <2>2. /\ grown.cnt = q.cnt + 1 /\ grown.use = q.use /\ grown.todo = q.todo
        /\ grown.base = IF first THEN v ELSE q.base
        /\ grown.res = "none"
        /\ v = grown.base + q.cnt
    BY <1>1, <1>4 DEF Calls
  <2>3. /\ whole.cnt = q.cnt + 1 /\ whole.use = q.use /\ whole.todo = q.todo
        /\ whole.base = grown.base /\ whole.res = "done"
    BY <2>1, <2>2 DEF Calls
  <2>4. \A n \in 0 .. q.cnt : n = q.cnt \/ (n \in 0 .. (q.cnt - 1) /\ grown.base = q.base)
    BY <1>1, <2>2
  <2> HIDE DEF grown, whole, over
  <2>5. RunOf(grown) = RunOf(q) \cup {v}
    <3>1. (q.cnt + 1) - 1 = q.cnt /\ q.cnt \in 0 .. q.cnt
          /\ \A n \in 0 .. (q.cnt - 1) : n \in 0 .. q.cnt /\ grown.base = q.base
      BY <1>1, <2>2
    <3> QED
      BY <2>2, <2>4, <3>1 DEF RunOf
  <2>6. RunOf(whole) = RunOf(grown)
    BY <2>2, <2>3 DEF RunOf
  <2>7. \A p \in {"page", "give"} : /\ Holds(p, grown) = Holds("page", q) \cup {v}
                                    /\ Holds(p, whole) = Holds("page", q) \cup {v}
    BY <2>2, <2>3, <2>5, <2>6 DEF Holds
  <2>8. q.use.op \in Maps =>
            \A n \in 0 .. q.cnt : pte'[grown.base + n] = q.use.to + n
    BY <2>2, <2>4 DEF MapInv
  <2>9. CASE grown.cnt = q.use.len
    <3>1. CallInv(c, "give", whole)
      BY <1>1, <1>2, <2>1, <2>3, <2>5, <2>6 DEF CallInv
    <3>2. MapInv("give", whole, owned[c], pte')
      <4>1. whole.use.op \in Maps =>
               \A n \in 0 .. (whole.cnt - 1) : pte'[whole.base + n] = whole.use.to + n
        BY <1>1, <2>3, <2>8
      <4> QED
        BY <2>7, <4>1 DEF MapInv
    <3>3. Finish(c, whole)
      BY <1>4, <2>9 DEF Place, grown, whole
    <3>4. Moves(c, DOMAIN owned[c] \cup Holds("give", whole))
      BY <3>1, <3>2, <3>3, FinishMoves
    <3> QED
      BY <2>7, <3>4
  <2>10. CASE grown.cnt # q.use.len
    <3>1. /\ owned' = [owned EXCEPT ![c] = owned[c]] /\ pc' = [pc EXCEPT ![c] = "page"]
          /\ call' = [call EXCEPT ![c] = grown]
      BY <1>4, <2>10 DEF Place, grown, CallTypes
    <3>2. CallInv(c, "page", grown)
      BY <1>1, <1>2, <1>3, <2>1, <2>2, <2>5, <2>10 DEF CallInv
    <3>3. MapInv("page", grown, owned[c], pte')
      <4>1. grown.use.op \in Maps =>
               \A n \in 0 .. (grown.cnt - 1) : pte'[grown.base + n] = grown.use.to + n
        BY <1>1, <2>2, <2>8
      <4> QED
        BY <2>7, <4>1 DEF MapInv
    <3>4. H = DOMAIN owned[c] \cup Holds("page", grown)
      BY <2>7
    <3> QED
      BY <3>1, <3>2, <3>3, <3>4 DEF Moves, Points
  <2> QED
    BY <2>9, <2>10
<1>5. CASE ~ (first \/ v = q.base + q.cnt)
  <2>1. /\ Run(c) \in Seq(Pages) /\ ToSet(Run(c)) = RunOf(q) /\ Distinct(Run(c))
    BY <1>1, RunSeq DEF Run
  <2> DEFINE s == Append(Run(c), v)
  <2>2. s \in Seq(Pages) /\ Distinct(s) /\ ToSet(s) = RunOf(q) \cup {v}
    BY <1>2, <2>1, AppendDistinct
  <2> HIDE DEF s
  <2>3. ToSet(s) \cap ToSet(q.todo) = {}
    BY <1>1, <1>2, <2>2
  <2>4. /\ s \o q.todo \in Seq(Pages) /\ Distinct(s \o q.todo)
        /\ ToSet(s \o q.todo) = RunOf(q) \cup {v} \cup ToSet(q.todo)
    BY <1>1, <2>2, <2>3, JoinDistinct
  <2>5. /\ over \in Calls(c) /\ over.todo = s \o q.todo /\ over.cnt = 0 /\ over.use = q.use
        /\ over.res = "none"
    BY <1>1, <2>4 DEF Calls, s
  <2>6. /\ owned' = [owned EXCEPT ![c] = owned[c]] /\ pc' = [pc EXCEPT ![c] = "page"]
        /\ call' = [call EXCEPT ![c] = over]
    BY <1>5 DEF Place, CallTypes
  <2> HIDE DEF over
  <2>7. RunOf(over) = {}
    BY <2>5 DEF RunOf
  <2>8. Holds("page", over) = Holds("page", q) \cup {v}
    BY <2>4, <2>5, <2>7 DEF Holds
  <2>9. CallInv(c, "page", over)
    BY <1>1, <1>3, <2>4, <2>5, <2>7, UsesOK DEF CallInv
  <2>10. MapInv("page", over, owned[c], pte')
    BY <2>5, <2>8 DEF MapInv
  <2>11. H = DOMAIN owned[c] \cup Holds("page", over)
    BY <2>8
  <2> QED
    BY <2>6, <2>9, <2>10, <2>11 DEF Moves, Points
<1> QED
  BY <1>4, <1>5
------------------------------------------------------------------------------
(* What a step does to the hands. *)

\* Hand, by values ...
LEMMA HandIs ==
    ASSUME NEW c \in Callers, CallInv(c, pc[c], call[c])
    PROVE  Hand(c) = DOMAIN owned[c] \cup Holds(pc[c], call[c])
<1>1. ToSet(Run(c)) = RunOf(call[c])
  BY RunSeq DEF Run, CallInv
<1> QED
  BY <1>1 DEF Hand, InHand, Holds

\* ... and after a step.
LEMMA HandIsNext ==
    ASSUME NEW c \in Callers, CallInv(c, pc'[c], call'[c])
    PROVE  Hand(c)' = DOMAIN owned'[c] \cup Holds(pc'[c], call'[c])
<1>1. ToSet([m \in 1 .. call'[c].cnt |-> call'[c].base + m - 1]) = RunOf(call'[c])
  BY RunSeq DEF CallInv
<1> QED
  BY <1>1 DEF Hand, InHand, Holds, Run

\* The locals of a call stay sound when its pages stay mapped as they are.
LEMMA MapStays ==
    ASSUME NEW p, NEW k, NEW o, NEW m, NEW n, MapInv(p, k, o, m),
           \A v \in DOMAIN o \cup Holds(p, k) : n[v] = m[v]
    PROVE  MapInv(p, k, o, n)
<1>1. \A i \in 0 .. (k.cnt - 1) : k.base + i \in Holds(p, k)
  BY DEF Holds, RunOf
<1>2. p = "drop" => k.page \in Holds(p, k)
  BY DEF Holds
<1> QED
  BY <1>1, <1>2 DEF MapInv

\* Hand H of caller c is its hand before the step, or one page was taken that
\* was in no hand, or one was given.
Changes(c, H) ==
    \/ H = Hand(c)
    \/ \E v \in Pages \ BootPages : /\ \A d \in Callers : v \notin Hand(d)
                                     /\ H = Hand(c) \cup {v}
    \/ \E v \in Hand(c) : H = Hand(c) \ {v}

\* What is left from the boot code or in a table not cleared is so still.
LeftoverStays == \A v \in Pages : pte[v] # NotPresent /\ Leftover(v) => Leftover(v)'

\* The pages of the others stay mapped, and c leaves none mapped behind but what
\* a table it made shows.
Kept(c, H) ==
    /\ \A d \in Callers \ {c} : \A v \in Hand(d) : pte'[v] = pte[v]
    /\ \A v \in Pages : pte'[v] # NotPresent =>
          \/ v \in H
          \/ pte'[v] = pte[v] /\ v \notin Hand(c)
          \/ pte'[v] = Old /\ Leftover(v)'
    /\ LeftoverStays

Sound(c) == /\ SpaceTypes' /\ SpaceInv'
            /\ \E H : Moves(c, H) /\ Changes(c, H) /\ Kept(c, H)

\* A caller's hand holds pages that are mapped.
LEMMA HandFacts ==
    ASSUME IInv, NEW c \in Callers
    PROVE  /\ Hand(c) = DOMAIN owned[c] \cup Holds(pc[c], call[c])
           /\ Hand(c) \subseteq Pages
           /\ \A v \in Hand(c) : pte[v] # NotPresent
<1>1. CallInv(c, pc[c], call[c]) /\ MapInv(pc[c], call[c], owned[c], pte)
  BY DEF IInv
<1>2. Hand(c) = DOMAIN owned[c] \cup Holds(pc[c], call[c])
  BY <1>1, HandIs
<1>3. call[c].todo \in Seq(Pages)
  BY <1>1 DEF CallInv, Calls
<1>4. ToSet(call[c].todo) \subseteq Pages
  BY <1>3, InSet
<1> QED
  BY <1>1, <1>2, <1>4 DEF CallInv, MapInv, Holds

\* A step of c moves c's hand and no other.
LEMMA OneHandMoves ==
    ASSUME IInv, NEW c \in Callers, NEW H, Moves(c, H)
    PROVE  /\ CallTypes' /\ Hand(c)' = H
           /\ \A d \in Callers \ {c} : Hand(d)' = Hand(d)
           /\ CallInv(c, pc'[c], call'[c]) /\ MapInv(pc'[c], call'[c], owned'[c], pte')
           /\ \A d \in Callers \ {c} : pc'[d] = pc[d] /\ call'[d] = call[d] /\ owned'[d] = owned[d]
<1>1. PICK p \in Points : \E o, k :
        /\ owned' = [owned EXCEPT ![c] = o]
        /\ pc' = [pc EXCEPT ![c] = p]
        /\ call' = [call EXCEPT ![c] = k]
        /\ CallInv(c, p, k) /\ MapInv(p, k, o, pte')
        /\ H = DOMAIN o \cup Holds(p, k)
  BY DEF Moves
<1>2. PICK o, k :
        /\ owned' = [owned EXCEPT ![c] = o]
        /\ pc' = [pc EXCEPT ![c] = p]
        /\ call' = [call EXCEPT ![c] = k]
        /\ CallInv(c, p, k) /\ MapInv(p, k, o, pte')
        /\ H = DOMAIN o \cup Holds(p, k)
  BY <1>1
<1>3. CallTypes'
  BY <1>2 DEF IInv, CallTypes
<1>4. pc'[c] = p /\ call'[c] = k /\ owned'[c] = o
  BY <1>2 DEF IInv, CallTypes
<1>5. \A d \in Callers \ {c} : pc'[d] = pc[d] /\ call'[d] = call[d] /\ owned'[d] = owned[d]
  BY <1>2 DEF IInv, CallTypes
<1>6. Hand(c)' = H
  BY <1>2, <1>4, HandIsNext
<1>7. \A d \in Callers \ {c} : Hand(d)' = Hand(d)
  BY <1>5 DEF Hand, InHand, Run
<1> QED
  BY <1>2, <1>3, <1>4, <1>5, <1>6, <1>7

\* A sound step keeps the invariant: the hands of the others stay disjoint from
\* the one that moves, and their pages mapped.
LEMMA SoundKeeps ==
    ASSUME IInv, NEW c \in Callers, Sound(c)
    PROVE  IInv'
<1>1. PICK H : Moves(c, H) /\ Changes(c, H) /\ Kept(c, H)
  BY DEF Sound
<1>2. /\ CallTypes' /\ Hand(c)' = H
      /\ \A d \in Callers \ {c} : Hand(d)' = Hand(d)
      /\ CallInv(c, pc'[c], call'[c]) /\ MapInv(pc'[c], call'[c], owned'[c], pte')
      /\ \A d \in Callers \ {c} : pc'[d] = pc[d] /\ call'[d] = call[d] /\ owned'[d] = owned[d]
  BY <1>1, OneHandMoves
<1>3. \A v \in H : v \in Hand(c) \/ (v \notin BootPages /\ \A d \in Callers : v \notin Hand(d))
  BY <1>1 DEF Changes
<1>4. HandInv'
  <2>1. \A d \in Callers \ {c} : Hand(d) \cap H = {}
    BY <1>3 DEF IInv, HandInv
  <2>2. (\A d, e \in Callers : d # e => Hand(d) \cap Hand(e) = {})'
    BY <1>2, <2>1 DEF IInv, HandInv
  <2>3. (\A d \in Callers : Hand(d) \cap BootPages = {})'
    BY <1>2, <1>3 DEF IInv, HandInv
  <2>4. ASSUME NEW v \in Pages, pte'[v] # NotPresent
        PROVE  (\E d \in Callers : v \in Hand(d)') \/ (pte'[v] = Old /\ Leftover(v)')
    <3>1. CASE v \in H
      BY <3>1, <1>2
    <3>2. CASE pte'[v] = pte[v] /\ v \notin Hand(c)
      <4>1. CASE \E d \in Callers : v \in Hand(d)
        BY <3>2, <4>1, <1>2
      <4>2. CASE ~ (\E d \in Callers : v \in Hand(d))
        <5>1. pte[v] = Old /\ Leftover(v)
          BY <3>2, <2>4, <4>2 DEF IInv, HandInv
        <5> QED
          BY <3>2, <2>4, <5>1, <1>1 DEF Kept, LeftoverStays
      <4> QED
        BY <4>1, <4>2
    <3> QED
      BY <3>1, <3>2, <2>4, <1>1 DEF Kept
  <2> QED
    BY <2>2, <2>3, <2>4 DEF HandInv
<1>5. ASSUME NEW d \in Callers
      PROVE  CallInv(d, pc'[d], call'[d]) /\ MapInv(pc'[d], call'[d], owned'[d], pte')
  <2>1. CASE d = c
    BY <2>1, <1>2
  <2>2. CASE d # c
    <3>1. CallInv(d, pc[d], call[d]) /\ MapInv(pc[d], call[d], owned[d], pte)
      BY DEF IInv
    <3>2. \A v \in DOMAIN owned[d] \cup Holds(pc[d], call[d]) : pte'[v] = pte[v]
      BY <2>2, <1>1, HandFacts DEF Kept
    <3>3. MapInv(pc[d], call[d], owned[d], pte')
      BY <3>1, <3>2, MapStays
    <3> QED
      BY <2>2, <1>2, <3>1, <3>3
  <2> QED
    BY <2>1, <2>2
<1> QED
  BY <1>2, <1>4, <1>5 DEF Sound, IInv, CallInv, MapInv
------------------------------------------------------------------------------
(* allocateSinglePage, and what steps that only add pages have in common. *)

\* A page that is not present is in nobody's hands.
LEMMA FreshPage ==
    ASSUME IInv, NEW v \in Pages, pte[v] = NotPresent
    PROVE  v \notin BootPages /\ \A d \in Callers : v \notin Hand(d)
BY HandFacts DEF IInv, SpaceInv

\* A step that unmaps nothing keeps the facts about tables and marks.
LEMMA SpaceGrows ==
    ASSUME IInv,
           \A w \in Pages : pte[w] # NotPresent => pte'[w] # NotPresent,
           \A i \in Pd : table[i] # NotPresent => table'[i] # NotPresent,
           \A w \in Pages : pte[w] = NotPresent /\ pte'[w] # NotPresent
                               => table'[PdIndex(w)] # NotPresent,
           \A i \in made' : i \in Pd /\ table'[i] # NotPresent /\ (Full(i) \/ freepages'[i])
    PROVE  SpaceInv'
<1>1. ASSUME NEW i \in Pd, Full(i) PROVE Full(i)'
  <2>1. MappedIn(i) = 0 .. (PtEntries - 1)
    BY <1>1, FullMeansAll
  <2>2. MappedIn(i)' = 0 .. (PtEntries - 1)
    BY <2>1, Indices DEF MappedIn
  <2> QED
    BY <2>2, FullMeansAllNext
<1>2. (\A v \in Pages : table[PdIndex(v)] = NotPresent => pte[v] = NotPresent)'
  BY Indices DEF IInv, SpaceInv
<1>3. (\A v \in BootPages : pte[v] # NotPresent)'
  BY ConstantFacts DEF IInv, SpaceInv
<1>4. (\A i \in made : table[i] # NotPresent /\ (Full(i) \/ freepages[i]))'
  BY <1>1
<1>5. (\A i \in BootTables : table[i] # NotPresent)'
  BY PagingOK DEF IInv, SpaceInv
<1> QED
  BY <1>2, <1>3, <1>4, <1>5 DEF SpaceInv

\* One page is added to c's hand, or none, and nobody's page changes.
LEMMA HandGrows ==
    ASSUME IInv, NEW c \in Callers, NEW V, V = {} \/ \E v \in Pages : V = {v} /\ pte[v] = NotPresent,
           \A w \in Pages : pte[w] # NotPresent => pte'[w] = pte[w],
           \A w \in Pages \ V : pte'[w] = pte[w] \/ (pte'[w] = Old /\ Leftover(w)'),
           LeftoverStays,
           Moves(c, Hand(c) \cup V)
    PROVE  \E H : Moves(c, H) /\ Changes(c, H) /\ Kept(c, H)
<1> DEFINE H == Hand(c) \cup V
<1>1. Changes(c, H)
  BY FreshPage DEF Changes
<1>2. Kept(c, H)
  <2>1. \A d \in Callers \ {c} : \A v \in Hand(d) : pte'[v] = pte[v]
    BY HandFacts
  <2>2. \A v \in Pages : \/ v \in H
                         \/ pte'[v] = pte[v] /\ v \notin Hand(c)
                         \/ pte'[v] = Old /\ Leftover(v)'
    OBVIOUS
  <2> QED
    BY <2>1, <2>2 DEF Kept
<1> QED
  BY <1>1, <1>2

\* allocateSinglePage makes and clears a table only where there is none, and the
\* other steps make none or one they do not clear.
LEMMA MadeMeansCleared ==
    ASSUME IInv, \A i \in made' : i \in made \/ (i \in Pd /\ table[i] = NotPresent)
    PROVE  LeftoverStays
BY DEF IInv, SpaceInv, LeftoverStays, Leftover

\* What a call holds at the head of its loop.
LEMMA PageFacts ==
    ASSUME IInv, NEW c \in Callers, pc[c] = "page",
           \A w \in Pages : pte[w] # NotPresent => pte'[w] = pte[w]
    PROVE  /\ CallInv(c, "page", call[c]) /\ MapInv("page", call[c], owned[c], pte')
           /\ DOMAIN owned[c] \cup Holds("page", call[c]) = Hand(c)
           /\ call[c].use \in Uses[c] /\ call[c].cnt \in 0 .. (call[c].use.len - 1)
<1>1. CallInv(c, "page", call[c]) /\ MapInv("page", call[c], owned[c], pte)
  BY DEF IInv
<1>2. DOMAIN owned[c] \cup Holds("page", call[c]) = Hand(c)
  BY HandFacts
<1>3. MapInv("page", call[c], owned[c], pte')
  BY <1>1, <1>2, HandFacts, MapStays
<1>4. call[c].use \in Uses[c] /\ call[c].cnt \in Nat /\ call[c].cnt < call[c].use.len
  BY <1>1 DEF CallInv, Calls
<1> QED
  BY <1>1, <1>2, <1>3, <1>4, UsesOK

\* allocateSinglePage has mapped v, for allocate or mapSinglePhysicalPage.
LEMMA GotMoves ==
    ASSUME IInv, NEW c \in Callers, NEW v \in Pages, pc[c] = "page",
           call[c].use.op \in {"allocate", "map"},
           \A w \in Pages : pte[w] # NotPresent => pte'[w] = pte[w],
           pte[v] = NotPresent, pte'[v] # NotPresent, Got(c, v)
    PROVE  Moves(c, Hand(c) \cup {v})
<1> DEFINE q == call[c]
<1>1. /\ CallInv(c, "page", q) /\ MapInv("page", q, owned[c], pte')
      /\ DOMAIN owned[c] \cup Holds("page", q) = Hand(c)
  BY PageFacts
<1>2. v \notin Hand(c)
  BY FreshPage
<1>3. CASE q.use.op = "map"
  <2> DEFINE k == [q EXCEPT !.page = v]
  <2>1. /\ owned' = [owned EXCEPT ![c] = owned[c]] /\ pc' = [pc EXCEPT ![c] = "swap"]
        /\ call' = [call EXCEPT ![c] = k]
    BY <1>3 DEF Got, IInv, CallTypes
  <2>2. /\ k \in Calls(c) /\ k.page = v /\ k.cnt = q.cnt /\ k.base = q.base /\ k.use = q.use
        /\ k.todo = q.todo /\ k.res = q.res
    BY <1>1, ConstantFacts DEF CallInv, Calls
  <2> HIDE DEF k
  <2>3. RunOf(k) = RunOf(q)
    BY <2>2 DEF RunOf
  <2>4. Holds("swap", k) = Holds("page", q) \cup {v}
    BY <2>2, <2>3 DEF Holds
  <2>5. CallInv(c, "swap", k)
    BY <1>1, <1>2, <1>3, <2>2, <2>3 DEF CallInv, Holds
  <2>6. MapInv("swap", k, owned[c], pte')
    BY <1>1, <1>2, <2>2, <2>4 DEF MapInv
  <2>7. Hand(c) \cup {v} = DOMAIN owned[c] \cup Holds("swap", k)
    BY <1>1, <2>4
  <2> QED
    BY <2>1, <2>5, <2>6, <2>7 DEF Moves, Points
<1>4. CASE q.use.op = "allocate"
  <2>1. Place(c, v) /\ q.use.op \notin Maps
    BY <1>4 DEF Got, Maps
  <2> QED
    BY <1>1, <1>2, <2>1, PlaceMoves DEF IInv
<1> QED
  BY <1>3, <1>4

\* A step that maps nothing and fails.
LEMMA FailedStep ==
    ASSUME IInv, NEW c \in Callers, pc[c] = "page", NEW code \in Codes \ {"done"},
           Fail(c, code), pte' = pte, SpaceTypes', SpaceInv', LeftoverStays
    PROVE  Sound(c)
<1>1. Moves(c, Hand(c) \cup {})
  <2>1. /\ CallInv(c, "page", call[c]) /\ MapInv("page", call[c], owned[c], pte')
        /\ DOMAIN owned[c] \cup Holds("page", call[c]) = Hand(c)
    BY PageFacts
  <2>2. Moves(c, Hand(c))
    BY <2>1, FailMoves DEF IInv
  <2> QED
    BY <2>2
<1>2. \E H : Moves(c, H) /\ Changes(c, H) /\ Kept(c, H)
  BY <1>1, HandGrows
<1> QED
  BY <1>2 DEF Sound

\* The scan's passing of full tables keeps the marks that are needed.
LEMMA ForgetFull ==
    ASSUME IInv, NEW attr, NEW S, S \subseteq Passed(attr), Forget(S)
    PROVE  /\ freepages' \in [Pd -> BOOLEAN]
           /\ \A i \in made : i \in Pd /\ table[i] # NotPresent /\ (Full(i) \/ freepages'[i])
BY DEF IInv, SpaceTypes, SpaceInv, Passed, Forget

\* allocateSinglePage finds no entry.
LEMMA NoPageStep ==
    ASSUME IInv, NEW c \in Callers, pc[c] = "page", NEW attr, NoPage(c, attr)
    PROVE  Sound(c)
<1> DEFINE outs == {i \in Stops(attr) : OutOfBounds(attr, i)}
           S == IF outs = {} THEN Passed(attr) ELSE Before(Passed(attr), Lowest(outs))
           code == IF outs = {} THEN "OUT_OF_VMEM" ELSE "BOUNDS_ERROR"
<1>1. S \subseteq Passed(attr) /\ code \in Codes \ {"done"}
  BY DEF Before, Codes
<1>2. Forget(S) /\ Fail(c, code) /\ UNCHANGED <<table, user, pte, free, made>>
  BY DEF NoPage
<1> HIDE DEF S, code
<1>3. /\ freepages' \in [Pd -> BOOLEAN]
      /\ \A i \in made : i \in Pd /\ table[i] # NotPresent /\ (Full(i) \/ freepages'[i])
  BY <1>1, <1>2, ForgetFull
<1>4. SpaceInv'
  BY <1>2, <1>3, SpaceGrows
<1>5. SpaceTypes'
  BY <1>2, <1>3 DEF IInv, SpaceTypes
<1>6. LeftoverStays
  BY <1>2, MadeMeansCleared
<1> QED
  BY <1>1, <1>2, <1>4, <1>5, <1>6, FailedStep

\* allocateSinglePage finds room in a table: lowest page, lowest frame.
LEMMA PageInTableStep ==
    ASSUME IInv, NEW c \in Callers, pc[c] = "page", call[c].use.op \in {"allocate", "map"},
           NEW attr, NEW i \in Pd, PageInTable(c, attr, i)
    PROVE  Sound(c)
<1>1. /\ freepages' \in [Pd -> BOOLEAN]
      /\ \A k \in made : k \in Pd /\ table[k] # NotPresent /\ (Full(k) \/ freepages'[k])
  <2>1. Before(Passed(attr), i) \subseteq Passed(attr) /\ Forget(Before(Passed(attr), i))
    BY DEF Before, PageInTable
  <2> QED
    BY <2>1, ForgetFull
<1>2. UNCHANGED <<table, user, made>> /\ LeftoverStays
  BY MadeMeansCleared DEF PageInTable
<1>3. CASE free = {}
  <2>1. Fail(c, "OUT_OF_PHYMEM") /\ pte' = pte /\ free' = free
    BY <1>3 DEF PageInTable
  <2>2. SpaceInv'
    BY <1>1, <1>2, <2>1, SpaceGrows
  <2>3. SpaceTypes'
    BY <1>1, <1>2, <2>1 DEF IInv, SpaceTypes
  <2> QED
    BY <1>2, <2>1, <2>2, <2>3, FailedStep DEF Codes
<1>4. CASE free # {}
  <2> DEFINE j == Lowest((0 .. (PtEntries - 1)) \ MappedIn(i))
             f == Lowest(free)
             v == PageAt(i, j)
  <2>1. f \in free /\ f \in Frame
    BY <1>4, LowestIn DEF IInv, SpaceTypes, Frame
  <2>2. j \in (0 .. (PtEntries - 1)) \ MappedIn(i)
    <3>1. MappedIn(i) # 0 .. (PtEntries - 1)
      BY FullMeansAll DEF PageInTable, Room, Passed
    <3>2. MappedIn(i) \subseteq 0 .. (PtEntries - 1)
      BY DEF MappedIn
    <3>3. (0 .. (PtEntries - 1)) \ MappedIn(i) \subseteq Nat \cup {Old}
      BY ConstantFacts
    <3> QED
      BY <3>1, <3>2, <3>3, LowestIn
  <2>3. v \in Pages /\ PdIndex(v) = i /\ pte[v] = NotPresent
    BY <2>2, Indices DEF MappedIn
  <2>4. pte' = [pte EXCEPT ![v] = f] /\ free' = free \ {f} /\ Got(c, v)
    BY <1>4 DEF PageInTable
  <2> HIDE DEF j, f, v
  <2>5. f # NotPresent
    BY <2>1 DEF Frame, NotPresent, Old
  <2>6. pte'[v] = f /\ \A w \in Pages \ {v} : pte'[w] = pte[w]
    BY <2>3, <2>4 DEF IInv, SpaceTypes
  <2>7. \A w \in Pages : pte[w] # NotPresent => pte'[w] = pte[w]
    BY <2>3, <2>6
  <2>8. SpaceInv'
    <3>1. table[i] # NotPresent
      BY DEF PageInTable
    <3> QED
      BY <1>1, <1>2, <2>3, <2>6, <2>7, <3>1, SpaceGrows
  <2>9. SpaceTypes'
    BY <1>1, <1>2, <2>1, <2>4 DEF IInv, SpaceTypes
  <2>10. Moves(c, Hand(c) \cup {v})
    BY <2>3, <2>4, <2>5, <2>6, <2>7, GotMoves
  <2>11. \E H : Moves(c, H) /\ Changes(c, H) /\ Kept(c, H)
    BY <1>2, <2>3, <2>6, <2>7, <2>10, HandGrows
  <2> QED
    BY <2>8, <2>9, <2>11 DEF Sound
<1> QED
  BY <1>3, <1>4

\* allocateSinglePage makes a table, and finds a frame for its page or not.
LEMMA PageInNewTableStep ==
    ASSUME IInv, NEW c \in Callers, pc[c] = "page", call[c].use.op \in {"allocate", "map"},
           NEW attr, NEW i \in Pd, PageInNewTable(c, attr, i)
    PROVE  Sound(c)
<1>1. table[i] = NotPresent
  BY DEF PageInNewTable
<1>2. CASE free = {}
  <2>1. /\ Forget(Before(Passed(attr), i)) /\ Fail(c, "OUT_OF_PHYMEM")
        /\ UNCHANGED <<table, user, pte, free, made>>
    BY <1>2 DEF PageInNewTable
  <2>2. /\ freepages' \in [Pd -> BOOLEAN]
        /\ \A k \in made : k \in Pd /\ table[k] # NotPresent /\ (Full(k) \/ freepages'[k])
    BY <2>1, ForgetFull DEF Before
  <2>3. SpaceInv'
    BY <2>1, <2>2, SpaceGrows
  <2>4. SpaceTypes'
    BY <2>1, <2>2 DEF IInv, SpaceTypes
  <2>5. LeftoverStays
    BY <2>1, MadeMeansCleared
  <2> QED
    BY <2>1, <2>3, <2>4, <2>5, FailedStep DEF Codes
<1>3. CASE free # {}
  <2> DEFINE t == Lowest(free)
             f == Lowest(free \ {t})
             v == PageAt(i, 0)
  <2>1. t \in free /\ t \in Frame
    BY <1>3, LowestIn DEF IInv, SpaceTypes, Frame
  <2>2. [w \in Pages |-> IF PdIndex(w) = i THEN NotPresent ELSE pte[w]] = pte
    BY <1>1 DEF IInv, SpaceInv, SpaceTypes
  <2>3. /\ table' = [table EXCEPT ![i] = t]
        /\ freepages' = [k \in Pd |-> k = i \/ (freepages[k] /\ k \notin Before(Passed(attr), i))]
        /\ user' = [user EXCEPT ![i] = attr = "user" \/ i < KernelPd]
        /\ made' = made \cup {i}
        /\ IF free = {t}
           THEN pte' = pte /\ free' = {} /\ Fail(c, "OUT_OF_PHYMEM")
           ELSE pte' = [pte EXCEPT ![v] = f] /\ free' = free \ {t, f} /\ Got(c, v)
    BY <1>3, <2>2 DEF PageInNewTable
  <2>4. v \in Pages /\ PdIndex(v) = i /\ pte[v] = NotPresent
    <3>1. 0 \in 0 .. (PtEntries - 1)
      BY ConstantFacts
    <3>2. v \in Pages /\ PdIndex(v) = i
      BY <3>1, Indices
    <3> QED
      BY <1>1, <3>2 DEF IInv, SpaceInv
  <2> HIDE DEF v
  <2>5. t # NotPresent
    BY <2>1 DEF Frame, NotPresent, Old
  <2>6. table'[i] = t /\ \A k \in Pd \ {i} : table'[k] = table[k]
    BY <2>3 DEF IInv, SpaceTypes
  <2>7. \A k \in made' : k \in Pd /\ table'[k] # NotPresent /\ (Full(k) \/ freepages'[k])
    <3>1. \A k \in made : k \in Pd /\ table[k] # NotPresent /\ (Full(k) \/ freepages[k])
      BY DEF IInv, SpaceTypes, SpaceInv
    <3> QED
      BY <2>3, <2>5, <2>6, <3>1 DEF Before, Passed
  <2>8. /\ table' \in [Pd -> Frame \cup {NotPresent}] /\ freepages' \in [Pd -> BOOLEAN]
        /\ user' \in [Pd -> BOOLEAN] /\ made' \subseteq Pd
    BY <2>1, <2>3 DEF IInv, SpaceTypes
  <2>l. LeftoverStays
    BY <1>1, <2>3, MadeMeansCleared
  <2>9. CASE free = {t}
    <3>1. pte' = pte /\ free' = {} /\ Fail(c, "OUT_OF_PHYMEM")
      BY <2>3, <2>9
    <3>2. SpaceInv'
      BY <2>5, <2>6, <2>7, <3>1, SpaceGrows
    <3>3. SpaceTypes'
      BY <2>8, <3>1 DEF IInv, SpaceTypes
    <3> QED
      BY <2>l, <3>1, <3>2, <3>3, FailedStep DEF Codes
  <2>10. CASE free # {t}
    <3>1. f \in free \ {t} /\ f \in Frame
      <4>1. free \ {t} \subseteq Nat \cup {Old} /\ free \ {t} # {}
        BY <2>1, <2>10 DEF IInv, SpaceTypes, Frame
      <4> QED
        BY <4>1, LowestIn DEF Frame
    <3>2. pte' = [pte EXCEPT ![v] = f] /\ free' = free \ {t, f} /\ Got(c, v)
      BY <2>3, <2>10
    <3> HIDE DEF t, f
    <3>3. f # NotPresent
      BY <3>1 DEF Frame, NotPresent, Old
    <3>4. pte'[v] = f /\ \A w \in Pages \ {v} : pte'[w] = pte[w]
      BY <2>4, <3>2 DEF IInv, SpaceTypes
    <3>5. \A w \in Pages : pte[w] # NotPresent => pte'[w] = pte[w]
      BY <2>4, <3>4
    <3>6. SpaceInv'
      BY <2>4, <2>5, <2>6, <2>7, <3>4, <3>5, SpaceGrows
    <3>7. SpaceTypes'
      BY <2>8, <3>1, <3>2 DEF IInv, SpaceTypes
    <3>8. Moves(c, Hand(c) \cup {v})
      BY <2>4, <3>2, <3>3, <3>4, <3>5, GotMoves
    <3>9. \E H : Moves(c, H) /\ Changes(c, H) /\ Kept(c, H)
      BY <2>4, <2>l, <3>4, <3>5, <3>8, HandGrows
    <3> QED
      BY <3>6, <3>7, <3>9 DEF Sound
  <2> QED
    BY <2>9, <2>10
<1> QED
  BY <1>2, <1>3

\* Whatever allocateSinglePage does is sound.
LEMMA AllocateStep ==
    ASSUME IInv, NEW c \in Callers, AllocateSinglePage(c)
    PROVE  Sound(c)
<1>1. pc[c] = "page" /\ call[c].use.op \in {"allocate", "map"}
  BY DEF AllocateSinglePage
<1>2. \/ NoPage(c, call[c].use.attr)
      \/ \E i \in Pd : \/ PageInTable(c, call[c].use.attr, i)
                       \/ PageInNewTable(c, call[c].use.attr, i)
  BY DEF AllocateSinglePage
<1> QED
  BY <1>1, <1>2, NoPageStep, PageInTableStep, PageInNewTableStep
------------------------------------------------------------------------------
(* The other steps. *)

\* Nothing but pages' entries and the free frames change.
LEMMA SpaceStays ==
    ASSUME IInv, UNCHANGED <<table, freepages, user, made>>,
           free' \subseteq Frame, pte' \in [Pages -> Frame \cup {NotPresent}],
           \A w \in Pages : pte[w] # NotPresent <=> pte'[w] # NotPresent
    PROVE  SpaceTypes' /\ SpaceInv'
<1>1. SpaceTypes'
  BY DEF IInv, SpaceTypes
<1>2. \A i \in made' : i \in Pd /\ table'[i] # NotPresent /\ (Full(i) \/ freepages'[i])
  BY DEF IInv, SpaceTypes, SpaceInv
<1>3. SpaceInv'
  BY <1>2, SpaceGrows
<1> QED
  BY <1>1, <1>3

\* mapSinglePhysicalPage puts in the frame asked for.
LEMMA SwapStep ==
    ASSUME IInv, NEW c \in Callers, SwapFrame(c)
    PROVE  Sound(c)
<1> DEFINE q == call[c]
           v == q.page
           k == [q EXCEPT !.frame = pte[v]]
           f == q.use.to + q.cnt
<1>1. /\ pc[c] = "swap" /\ CallInv(c, "swap", q) /\ MapInv("swap", q, owned[c], pte)
      /\ Hand(c) = DOMAIN owned[c] \cup Holds("swap", q)
  BY HandFacts DEF IInv, SwapFrame
<1>2. /\ q \in Calls(c) /\ q.use.op = "map" /\ v \in Pages /\ v \notin RunOf(q) \cup ToSet(q.todo)
      /\ v \in Holds("swap", q) /\ v \in Hand(c)
      /\ q.use \in Uses[c] /\ q.cnt \in Nat /\ q.use.to \in Nat
  BY <1>1, UsesOK DEF CallInv, Calls, Holds
<1>3. pte[v] \in Frame
  BY <1>1, <1>2, HandFacts DEF IInv, SpaceTypes
<1>4. /\ owned' = [owned EXCEPT ![c] = owned[c]] /\ pc' = [pc EXCEPT ![c] = "drop"]
      /\ call' = [call EXCEPT ![c] = k] /\ pte' = [pte EXCEPT ![v] = f]
      /\ UNCHANGED <<table, freepages, user, free, made>>
  BY DEF SwapFrame, IInv, CallTypes
<1>5. f \in Nat /\ f # NotPresent /\ f \in Frame
  BY <1>2 DEF NotPresent, Frame
<1>6. /\ k \in Calls(c) /\ k.page = v /\ k.cnt = q.cnt /\ k.base = q.base /\ k.use = q.use
      /\ k.todo = q.todo /\ k.res = q.res
  BY <1>2, <1>3 DEF Calls
<1>7. pte'[v] = f /\ \A w \in Pages \ {v} : pte'[w] = pte[w]
  BY <1>2, <1>4 DEF IInv, SpaceTypes
<1> HIDE DEF k
<1>8. RunOf(k) = RunOf(q) /\ Holds("drop", k) = Holds("swap", q)
  BY <1>6 DEF RunOf, Holds
<1>9. CallInv(c, "drop", k)
  BY <1>1, <1>2, <1>6, <1>8 DEF CallInv
<1>10. MapInv("drop", k, owned[c], pte')
  <2>1. v \notin DOMAIN owned[c] /\ DOMAIN owned[c] \subseteq Pages
    BY <1>1, <1>2 DEF MapInv
  <2>2. \A w \in DOMAIN owned[c] : pte'[w] = owned[c][w]
    BY <1>1, <1>7, <2>1 DEF MapInv
  <2>3. \A n \in 0 .. (k.cnt - 1) : pte'[k.base + n] = k.use.to + n
    <3>1. \A n \in 0 .. (q.cnt - 1) : q.base + n \in Pages \ {v}
      BY <1>1, <1>2 DEF RunOf, CallInv
    <3> QED
      BY <1>1, <1>2, <1>6, <1>7, <3>1 DEF MapInv, Maps
  <2>4. \A w \in DOMAIN owned[c] \cup Holds("drop", k) : pte'[w] # NotPresent
    BY <1>1, <1>5, <1>7, <1>8, HandFacts
  <2> QED
    BY <1>1, <1>6, <1>7, <1>8, <2>1, <2>2, <2>3, <2>4 DEF MapInv
<1>11. Moves(c, Hand(c))
  BY <1>1, <1>4, <1>8, <1>9, <1>10 DEF Moves, Points
<1>12. Kept(c, Hand(c))
  <2>1. \A d \in Callers \ {c} : \A w \in Hand(d) : pte'[w] = pte[w]
    BY <1>2, <1>7, HandFacts DEF IInv, HandInv
  <2>2. \A w \in Pages : w \in Hand(c) \/ (pte'[w] = pte[w] /\ w \notin Hand(c))
    BY <1>2, <1>7
  <2> QED
    BY <1>4, <2>1, <2>2, MadeMeansCleared DEF Kept
<1>13. SpaceTypes' /\ SpaceInv'
  <2>1. \A w \in Pages : pte[w] # NotPresent <=> pte'[w] # NotPresent
    BY <1>2, <1>5, <1>7, HandFacts
  <2>2. pte' \in [Pages -> Frame \cup {NotPresent}] /\ free' \subseteq Frame
    BY <1>4, <1>5 DEF IInv, SpaceTypes
  <2> QED
    BY <1>4, <2>1, <2>2, SpaceStays
<1> QED
  BY <1>11, <1>12, <1>13 DEF Sound, Changes

\* mapSinglePhysicalPage gives back the frame allocated.
LEMMA DropStep ==
    ASSUME IInv, NEW c \in Callers, DropFrame(c)
    PROVE  Sound(c)
<1> DEFINE q == call[c]
           v == q.page
<1>1. /\ pc[c] = "drop" /\ CallInv(c, "drop", q) /\ MapInv("drop", q, owned[c], pte)
      /\ Hand(c) = DOMAIN owned[c] \cup Holds("drop", q)
  BY HandFacts DEF IInv, DropFrame
<1>2. /\ free' = free \cup {q.frame} /\ Place(c, v)
      /\ UNCHANGED <<table, freepages, user, pte, made>>
  BY DEF DropFrame
<1>3. Holds("drop", q) = Holds("page", q) \cup {v} /\ v \in Pages /\ v \notin Holds("page", q)
  BY <1>1 DEF Holds, CallInv
<1>4. CallInv(c, "page", q) /\ MapInv("page", q, owned[c], pte')
  BY <1>1, <1>2, <1>3 DEF CallInv, MapInv
<1>5. /\ v \notin DOMAIN owned[c] \cup Holds("page", q) /\ pte'[v] # NotPresent
      /\ q.use.op \in Maps => pte'[v] = q.use.to + q.cnt
  BY <1>1, <1>2, <1>3 DEF MapInv
<1>6. Moves(c, DOMAIN owned[c] \cup Holds("page", q) \cup {v})
  BY <1>2, <1>3, <1>4, <1>5, PlaceMoves DEF IInv
<1>7. Moves(c, Hand(c))
  BY <1>1, <1>3, <1>6
<1>8. Kept(c, Hand(c))
  BY <1>2, MadeMeansCleared DEF Kept
<1>9. q.frame \in Frame
  BY <1>1 DEF CallInv, Calls
<1>10. SpaceTypes' /\ SpaceInv'
  BY <1>2, <1>9, SpaceStays DEF IInv, SpaceTypes
<1> QED
  BY <1>7, <1>8, <1>10 DEF Sound, Changes

\* freeSinglePage of the physical manager, then the next page or the end.
LEMMA GiveStep ==
    ASSUME IInv, NEW c \in Callers, GiveFrame(c)
    PROVE  Sound(c)
<1> DEFINE q == call[c]
           k == [q EXCEPT !.frame = 0]
<1>1. /\ pc[c] = "give" /\ CallInv(c, "give", q) /\ MapInv("give", q, owned[c], pte)
      /\ Hand(c) = DOMAIN owned[c] \cup Holds("give", q)
  BY HandFacts DEF IInv, GiveFrame
<1>2. /\ free' = free \cup {q.frame} /\ Finish(c, k)
      /\ UNCHANGED <<table, freepages, user, pte, made>>
  BY DEF GiveFrame
<1>3. /\ k \in Calls(c) /\ k.cnt = q.cnt /\ k.base = q.base /\ k.use = q.use
      /\ k.todo = q.todo /\ k.res = q.res /\ q.frame \in Frame
  BY <1>1 DEF CallInv, Calls, Frame
<1> HIDE DEF k
<1>4. RunOf(k) = RunOf(q) /\ Holds("give", k) = Holds("give", q)
  BY <1>3 DEF RunOf, Holds
<1>5. CallInv(c, "give", k) /\ MapInv("give", k, owned[c], pte')
  BY <1>1, <1>2, <1>3, <1>4 DEF CallInv, MapInv
<1>6. Moves(c, Hand(c))
  BY <1>1, <1>2, <1>4, <1>5, FinishMoves DEF IInv
<1>7. Kept(c, Hand(c))
  BY <1>2, MadeMeansCleared DEF Kept
<1>8. SpaceTypes' /\ SpaceInv'
  BY <1>2, <1>3, SpaceStays DEF IInv, SpaceTypes
<1> QED
  BY <1>6, <1>7, <1>8 DEF Sound, Changes

\* freeSinglePage unmaps its page, and marks the table as having room.
LEMMA FreeSingleStep ==
    ASSUME IInv, NEW c \in Callers, FreeSinglePage(c)
    PROVE  Sound(c)
<1> DEFINE q == call[c]
           v == Head(q.todo)
           entry == PageAt(PdIndex(v), PdIndex(v))
           rest == [q EXCEPT !.todo = Tail(@)]
           H == Hand(c) \ {v}
<1>1. /\ pc[c] = "free" /\ CallInv(c, "free", q) /\ MapInv("free", q, owned[c], pte)
      /\ Hand(c) = DOMAIN owned[c] \cup Holds("free", q)
  BY HandFacts DEF IInv, FreeSinglePage
<1>2. q \in Calls(c) /\ q.todo \in Seq(Pages) /\ q.todo # <<>> /\ Distinct(q.todo)
  BY <1>1 DEF CallInv, Calls
<1>3. /\ Tail(q.todo) \in Seq(Pages) /\ Distinct(Tail(q.todo))
      /\ ToSet(Tail(q.todo)) = ToSet(q.todo) \ {v} /\ v \in ToSet(q.todo) /\ v \in Pages
  BY <1>2, TailDistinct
<1>4. v \in Hand(c) /\ v \notin RunOf(q) /\ v \notin DOMAIN owned[c]
  BY <1>1, <1>3 DEF Holds, CallInv, MapInv
<1>5. Reads(entry) \subseteq Frame
  <2>1. PdIndex(v) \in Pd /\ PdIndex(v) \in 0 .. (PtEntries - 1)
    <3>1. PdIndex(v) \in Pd
      BY <1>3, Indices
    <3> QED
      BY <3>1, PagingOK DEF Pd
  <2>2. PageAt(PdIndex(v), PdIndex(v)) \in Pages
    BY <2>1, Indices
  <2> QED
    BY <2>2 DEF IInv, SpaceTypes, Reads, Frame
<1>6. /\ freepages' = [freepages EXCEPT ![PdIndex(v)] = TRUE]
      /\ pte' = [pte EXCEPT ![v] = NotPresent]
      /\ UNCHANGED <<table, user, free, made>>
      /\ IF q.phys
         THEN /\ \E f \in Reads(entry) : call' = [call EXCEPT ![c] = [rest EXCEPT !.frame = f]]
              /\ pc' = [pc EXCEPT ![c] = "give"]
              /\ UNCHANGED owned
         ELSE Finish(c, rest)
  BY DEF FreeSinglePage
<1>f. PICK f \in Frame : q.phys => call' = [call EXCEPT ![c] = [rest EXCEPT !.frame = f]]
  BY <1>5, <1>6 DEF Frame
<1> DEFINE back == [rest EXCEPT !.frame = f]
<1>7. /\ rest \in Calls(c) /\ rest.todo = Tail(q.todo) /\ rest.cnt = q.cnt /\ rest.base = q.base
      /\ rest.use = q.use /\ rest.res = q.res
  BY <1>2, <1>3 DEF Calls
<1>8. /\ back \in Calls(c) /\ back.todo = rest.todo /\ back.cnt = q.cnt /\ back.base = q.base
      /\ back.use = q.use /\ back.res = q.res
  BY <1>7, <1>f DEF Calls
<1>9. pte'[v] = NotPresent /\ \A w \in Pages \ {v} : pte'[w] = pte[w]
  BY <1>3, <1>6 DEF IInv, SpaceTypes
<1> HIDE DEF v, entry, rest, back
<1>10. \A k \in {rest, back} :
          /\ RunOf(k) = RunOf(q) /\ Holds("give", k) = Holds("free", q) \ {v}
  <2>1. RunOf(rest) = RunOf(q) /\ RunOf(back) = RunOf(q)
    BY <1>7, <1>8 DEF RunOf
  <2> QED
    BY <1>3, <1>4, <1>7, <1>8, <2>1 DEF Holds
<1>11. \A k \in {rest, back} : CallInv(c, "give", k)
  BY <1>1, <1>3, <1>7, <1>8, <1>10 DEF CallInv
<1>12. \A k \in {rest, back} : MapInv("give", k, owned[c], pte')
  <2> TAKE k \in {rest, back}
  <2>1. DOMAIN owned[c] \cup Holds("give", k) \subseteq Hand(c) \ {v}
    BY <1>1, <1>4, <1>10
  <2>2. MapInv("give", k, owned[c], pte)
    BY <1>1, <1>7, <1>8, <1>10 DEF MapInv
  <2> QED
    BY <1>9, <2>1, <2>2, HandFacts, MapStays
<1>13. \A k \in {rest, back} : H = DOMAIN owned[c] \cup Holds("give", k)
  BY <1>1, <1>4, <1>10
<1>14. Moves(c, H)
  <2>1. CASE q.phys
    <3>1. owned' = [owned EXCEPT ![c] = owned[c]]
      BY <1>6, <2>1 DEF IInv, CallTypes
    <3>2. call' = [call EXCEPT ![c] = back] /\ pc' = [pc EXCEPT ![c] = "give"]
      BY <1>6, <1>f, <2>1 DEF back
    <3> QED
      BY <1>11, <1>12, <1>13, <3>1, <3>2 DEF Moves, Points
  <2>2. CASE ~ q.phys
    <3>1. Moves(c, DOMAIN owned[c] \cup Holds("give", rest))
      BY <1>6, <1>11, <1>12, <2>2, FinishMoves DEF IInv
    <3> QED
      BY <1>13, <3>1
  <2> QED
    BY <2>1, <2>2
<1>15. Changes(c, H)
  BY <1>4 DEF Changes
<1>16. Kept(c, H)
  <2>1. \A d \in Callers \ {c} : \A w \in Hand(d) : pte'[w] = pte[w]
    BY <1>4, <1>9, HandFacts DEF IInv, HandInv
  <2>2. \A w \in Pages : pte'[w] # NotPresent =>
            w \in H \/ (pte'[w] = pte[w] /\ w \notin Hand(c))
    BY <1>9
  <2> QED
    BY <1>6, <2>1, <2>2, MadeMeansCleared DEF Kept
<1>17. SpaceTypes'
  BY <1>6 DEF IInv, SpaceTypes
<1>18. SpaceInv'
  <2>1. (\A w \in Pages : table[PdIndex(w)] = NotPresent => pte[w] = NotPresent)'
    BY <1>6, <1>9 DEF IInv, SpaceInv
  <2>2. (\A w \in BootPages : pte[w] # NotPresent)'
    BY <1>4, <1>9, ConstantFacts DEF IInv, SpaceInv, HandInv
  <2>3. ASSUME NEW i \in made PROVE table'[i] # NotPresent /\ (Full(i)' \/ freepages'[i])
    <3>1. i \in Pd /\ table[i] # NotPresent /\ (Full(i) \/ freepages[i])
      BY DEF IInv, SpaceTypes, SpaceInv
    <3>2. CASE i = PdIndex(v)
      BY <1>6, <3>1, <3>2 DEF IInv, SpaceTypes
    <3>3. CASE i # PdIndex(v)
      <4>1. \A j \in 0 .. (PtEntries - 1) : pte'[PageAt(i, j)] = pte[PageAt(i, j)]
        BY <1>9, <3>1, <3>3, Indices
      <4>2. MappedIn(i)' = MappedIn(i)
        BY <4>1 DEF MappedIn
      <4>3. Full(i) => Full(i)'
        BY <4>2 DEF Full
      <4> QED
        BY <1>6, <3>1, <3>3, <4>3 DEF IInv, SpaceTypes
    <3> QED
      BY <3>2, <3>3
  <2>4. (\A i \in BootTables : table[i] # NotPresent)'
    BY <1>6 DEF IInv, SpaceInv
  <2> QED
    BY <1>6, <2>1, <2>2, <2>3, <2>4 DEF SpaceInv
<1> QED
  BY <1>14, <1>15, <1>16, <1>17, <1>18 DEF Sound

\* A call begins with nothing in hand.
LEMMA AskStep ==
    ASSUME IInv, NEW c \in Callers, NEW use \in Uses[c], Ask(c, use)
    PROVE  Sound(c)
<1> DEFINE k == [NoCall EXCEPT !.use = use, !.phys = use.op \in {"allocate", "allocateAt"}]
<1>1. /\ pc[c] = "out" /\ CallInv(c, "out", call[c]) /\ MapInv("out", call[c], owned[c], pte)
      /\ Hand(c) = DOMAIN owned[c] \cup Holds("out", call[c])
  BY HandFacts DEF IInv, Ask
<1>2. Hand(c) = DOMAIN owned[c]
  BY <1>1, NoCallIs DEF CallInv
<1>3. /\ owned' = [owned EXCEPT ![c] = owned[c]] /\ pc' = [pc EXCEPT ![c] = "page"]
      /\ call' = [call EXCEPT ![c] = k] /\ UNCHANGED space
  BY DEF Ask, IInv, CallTypes
<1>4. /\ k \in Calls(c) /\ k.use = use /\ k.cnt = 0 /\ k.todo = <<>> /\ k.res = "none"
  <2> DEFINE b == use.op \in {"allocate", "allocateAt"}
  <2>1. NoCall \in Calls(c) /\ b \in BOOLEAN
    BY NoCallIs
  <2> HIDE DEF b
  <2>2. [NoCall EXCEPT !.use = use, !.phys = b] \in Calls(c)
    BY <2>1 DEF Calls
  <2>3. k = [NoCall EXCEPT !.use = use, !.phys = b]
    BY DEF b
  <2>4. k.use = use /\ k.cnt = 0 /\ k.todo = <<>> /\ k.res = "none"
    BY DEF NoCall
  <2> QED
    BY <2>2, <2>3, <2>4
<1> HIDE DEF k
<1>5. RunOf(k) = {} /\ ToSet(k.todo) = {} /\ Distinct(k.todo)
  BY <1>4 DEF RunOf, ToSet, Distinct
<1>6. Holds("page", k) = {}
  BY <1>5 DEF Holds
<1>7. use.len > 0
  BY UsesOK
<1>8. CallInv(c, "page", k)
  BY <1>4, <1>5, <1>7 DEF CallInv
<1>9. MapInv("page", k, owned[c], pte')
  BY <1>1, <1>3, <1>4, <1>6 DEF MapInv, space
<1>10. Moves(c, Hand(c))
  BY <1>2, <1>3, <1>6, <1>8, <1>9 DEF Moves, Points
<1>11. Kept(c, Hand(c))
  BY <1>3, MadeMeansCleared DEF Kept, space
<1>12. SpaceTypes' /\ SpaceInv'
  BY <1>3, SpaceStays DEF space, IInv, SpaceTypes
<1> QED
  BY <1>10, <1>11, <1>12 DEF Sound, Changes

\* The pages a caller frees go from those it owns to those of its call.
LEMMA FreeStep ==
    ASSUME IInv, NEW c \in Callers, NEW v \in DOMAIN owned[c], NEW len \in Nat \ {0},
           NEW phys \in BOOLEAN, Free(c, v, len, phys)
    PROVE  Sound(c)
<1> DEFINE s == [n \in 1 .. len |-> v + n - 1]
           V == v .. (v + len - 1)
           k == [NoCall EXCEPT !.todo = s, !.phys = phys]
           o == [w \in DOMAIN owned[c] \ V |-> owned[c][w]]
           r == [NoCall EXCEPT !.base = v, !.cnt = len]
<1>1. /\ pc[c] = "out" /\ CallInv(c, "out", call[c]) /\ MapInv("out", call[c], owned[c], pte)
      /\ Hand(c) = DOMAIN owned[c] \cup Holds("out", call[c])
  BY HandFacts DEF IInv, Free
<1>2. Hand(c) = DOMAIN owned[c] /\ DOMAIN owned[c] \subseteq Pages
  BY <1>1, NoCallIs DEF CallInv, MapInv
<1>3. /\ owned' = [owned EXCEPT ![c] = o] /\ pc' = [pc EXCEPT ![c] = "free"]
      /\ call' = [call EXCEPT ![c] = k] /\ UNCHANGED space
      /\ V \subseteq DOMAIN owned[c]
  BY DEF Free
<1>4. v \in Nat
  BY <1>2, ConstantFacts
<1>5. s \in Seq(Pages) /\ Len(s) = len /\ Distinct(s) /\ ToSet(s) = V
  <2>1. r \in Calls(c) /\ r.base = v /\ r.cnt = len
    <3>1. NoCall \in Calls(c)
      BY NoCallIs
    <3> QED
      BY <1>4, <3>1 DEF Calls, NoCall
  <2>2. RunOf(r) = V
    <3>1. \A n \in 0 .. (len - 1) : v + n \in V
      BY <1>4
    <3>2. \A w \in V : w - v \in 0 .. (len - 1) /\ w = v + (w - v)
      BY <1>4
    <3> QED
      BY <2>1, <3>1, <3>2 DEF RunOf
  <2>3. RunOf(r) \subseteq Pages
    BY <1>2, <1>3, <2>2
  <2>4. s = [m \in 1 .. r.cnt |-> r.base + m - 1]
    BY <2>1
  <2> HIDE DEF r, s, V
  <2> QED
    BY <2>1, <2>2, <2>3, <2>4, RunSeq
<1>6. s # <<>>
  BY <1>5
<1> HIDE DEF s, V
<1>7. k \in Calls(c) /\ k.cnt = 0 /\ k.todo = s /\ k.use = NoUse /\ k.res = "none"
  <2>1. NoCall \in Calls(c)
    BY NoCallIs
  <2> QED
    BY <1>5, <2>1 DEF Calls, NoCall
<1> HIDE DEF k
<1>8. RunOf(k) = {} /\ Holds("free", k) = V
  BY <1>5, <1>7 DEF RunOf, Holds
<1>9. CallInv(c, "free", k)
  BY <1>5, <1>6, <1>7, <1>8 DEF CallInv
<1>10. DOMAIN o = DOMAIN owned[c] \ V /\ \A w \in DOMAIN o : o[w] = owned[c][w]
  OBVIOUS
<1> HIDE DEF o
<1>11. Hand(c) = DOMAIN o \cup Holds("free", k)
  BY <1>2, <1>3, <1>8, <1>10
<1>12. MapInv("free", k, o, pte')
  <2>1. \A w \in Hand(c) : pte'[w] # NotPresent
    BY <1>3, HandFacts DEF space
  <2>2. \A w \in DOMAIN o : pte'[w] = o[w]
    BY <1>1, <1>3, <1>10 DEF MapInv, space
  <2>3. DOMAIN o \cap Holds("free", k) = {} /\ DOMAIN o \subseteq Pages
    BY <1>2, <1>8, <1>10
  <2>4. k.use.op \notin Maps
    BY <1>7 DEF NoUse, Maps
  <2> QED
    BY <1>11, <2>1, <2>2, <2>3, <2>4 DEF MapInv
<1>13. Moves(c, Hand(c))
  BY <1>3, <1>9, <1>11, <1>12 DEF Moves, Points
<1>14. Kept(c, Hand(c))
  BY <1>3, MadeMeansCleared DEF Kept, space
<1>15. SpaceTypes' /\ SpaceInv'
  BY <1>3, SpaceStays DEF space, IInv, SpaceTypes
<1> QED
  BY <1>13, <1>14, <1>15 DEF Sound, Changes

\* allocateSingleAt and mapSinglePhysicalAddressAt: the page is taken only when
\* not present, whatever a new table shows.
LEMMA AtStep ==
    ASSUME IInv, NEW c \in Callers, At(c)
    PROVE  Sound(c)
<1> DEFINE use   == call[c].use
           v     == use.at + call[c].cnt
           i     == PdIndex(v)
           t     == Lowest(free)
           new   == IF table[i] = NotPresent /\ free # {} THEN {t} ELSE {}
           frame == IF use.op = "mapAt" THEN use.to + call[c].cnt
                    ELSE IF free = new THEN 0 ELSE Lowest(free \ new)
<1>1. /\ pc[c] = "page" /\ use.op \in {"allocateAt", "mapAt"}
      /\ freepages' = freepages /\ made' = made
  BY DEF At
<1>2. CallInv(c, "page", call[c]) /\ use \in Uses[c] /\ call[c].cnt \in Nat /\ call[c].cnt < use.len
  BY <1>1 DEF IInv, CallInv, Calls
<1>3. v \in Pages /\ use.to + call[c].cnt \in Nat
  <2>1. /\ use.at \in Nat /\ use.len \in Nat /\ use.to \in Nat
        /\ use.at .. (use.at + use.len - 1) \subseteq Pages
    BY <1>1, <1>2, UsesOK
  <2> QED
    BY <1>2, <2>1
<1>4. i \in Pd
  BY <1>3, Indices
<1> HIDE DEF v, i
<1>5. /\ new \subseteq free /\ free \subseteq Frame
      /\ new # {} => table[i] = NotPresent /\ new = {t} /\ t \in Frame /\ t # NotPresent
  <2>1. free \subseteq Frame
    BY DEF IInv, SpaceTypes
  <2>2. free # {} => t \in free
    BY <2>1, LowestIn DEF Frame
  <2>3. \A f \in Frame : f # NotPresent
    BY DEF Frame, NotPresent, Old
  <2> QED
    BY <2>1, <2>2, <2>3
<1> HIDE DEF t
<1>6. frame \in Frame /\ frame # NotPresent
  <2>1. CASE use.op = "mapAt"
    BY <1>3, <2>1 DEF Frame, NotPresent
  <2>2. CASE use.op # "mapAt" /\ free = new
    BY <2>2 DEF Frame, NotPresent
  <2>3. CASE use.op # "mapAt" /\ free # new
    <3>1. free \ new # {} /\ free \ new \subseteq Nat \cup {Old}
      BY <1>5, <2>3 DEF Frame
    <3>2. Lowest(free \ new) \in free \ new
      BY <3>1, LowestIn
    <3>3. \A f \in Frame : f # NotPresent
      BY DEF Frame, NotPresent, Old
    <3> QED
      BY <1>5, <2>3, <3>2, <3>3
  <2> QED
    BY <2>1, <2>2, <2>3
<1> DEFINE found(S) == [w \in Pages |->
                            IF new = {} \/ PdIndex(w) # i THEN pte[w]
                            ELSE IF PtIndex(w) \in S THEN Old ELSE NotPresent]
           error(S) == IF table[i] = NotPresent /\ new = {} THEN "OUT_OF_PHYMEM"
                       ELSE IF found(S)[v] # NotPresent THEN "BOUNDS_ERROR"
                       ELSE IF frame = 0 THEN "OUT_OF_PHYMEM" ELSE "none"
<1>7. PICK S \in IF new = {} THEN {{}} ELSE Stale :
          /\ table' = IF new = {} THEN table ELSE [table EXCEPT ![i] = Lowest(new)]
          /\ user'  = IF new = {} THEN user
                      ELSE [user EXCEPT ![i] = use.attr = "user" \/ i < KernelPd]
          /\ pte'   = IF error(S) = "none" THEN [found(S) EXCEPT ![v] = frame] ELSE found(S)
          /\ free'  = free \ (new \cup IF error(S) = "none" /\ use.op = "allocateAt"
                                    THEN {frame} ELSE {})
          /\ IF error(S) = "none" THEN Place(c, v) ELSE Fail(c, error(S))
  BY DEF At, v, i, t
<1> DEFINE F == found(S)
           e == error(S)
<1>8. /\ F \in [Pages -> Frame \cup {NotPresent}]
      /\ \A w \in Pages : F[w] \in {pte[w], Old}
      /\ \A w \in Pages : pte[w] # NotPresent => F[w] = pte[w]
      /\ \A w \in Pages : F[w] # pte[w] => PdIndex(w) = i /\ new # {}
  <2>1. pte \in [Pages -> Frame \cup {NotPresent}] /\ Old \in Frame
    BY DEF IInv, SpaceTypes, Frame
  <2>2. \A w \in Pages : new # {} /\ PdIndex(w) = i => pte[w] = NotPresent
    BY <1>5 DEF IInv, SpaceInv
  <2> QED
    BY <2>1, <2>2
<1>9. /\ e \in Codes \ {"done"}
      /\ e = "none" => F[v] = NotPresent /\ (table[i] = NotPresent => new # {})
  BY DEF Codes
<1>10. /\ table' = IF new = {} THEN table ELSE [table EXCEPT ![i] = t]
       /\ table' \in [Pd -> Frame \cup {NotPresent}]
       /\ \A k \in Pd : table[k] # NotPresent => table'[k] # NotPresent
       /\ new # {} => table'[i] # NotPresent
  <2>1. new # {} => Lowest(new) = t
    <3>1. ASSUME new # {} PROVE Lowest(new) \in new
      BY <1>5, <3>1, LowestIn DEF Frame
    <3> QED
      BY <1>5, <3>1
  <2> HIDE DEF new
  <2> QED
    BY <1>4, <1>5, <1>7, <2>1 DEF IInv, SpaceTypes
<1>11. user' \in [Pd -> BOOLEAN] /\ free' \subseteq Frame
  BY <1>4, <1>5, <1>7 DEF IInv, SpaceTypes
<1>12. pte' = IF e = "none" THEN [F EXCEPT ![v] = frame] ELSE F
  BY <1>7
<1>13. IF e = "none" THEN Place(c, v) ELSE Fail(c, e)
  BY <1>7
<1>14. use.op \in Maps => frame = use.to + call[c].cnt
  BY <1>1 DEF Maps
<1> HIDE DEF new, frame, F, e
<1>15. /\ pte' \in [Pages -> Frame \cup {NotPresent}]
       /\ \A w \in Pages : w # v \/ e # "none" => pte'[w] = F[w]
       /\ e = "none" => pte'[v] = frame /\ pte[v] = NotPresent
  BY <1>3, <1>6, <1>8, <1>9, <1>12
<1>16. \A w \in Pages : pte[w] # NotPresent => pte'[w] = pte[w]
  BY <1>8, <1>15
<1>17. SpaceTypes'
  BY <1>1, <1>10, <1>11, <1>15 DEF IInv, SpaceTypes
<1>18. SpaceInv'
  <2>1. ASSUME NEW w \in Pages, pte[w] = NotPresent, pte'[w] # NotPresent
        PROVE  table'[PdIndex(w)] # NotPresent
    <3>1. CASE F[w] # pte[w]
      BY <1>8, <1>10, <3>1
    <3>2. CASE F[w] = pte[w]
      <4>1. w = v /\ e = "none"
        BY <1>15, <2>1, <3>2
      <4> QED
        BY <1>4, <1>9, <1>10, <4>1 DEF i
    <3> QED
      BY <3>1, <3>2
  <2>2. \A k \in made' : k \in Pd /\ table'[k] # NotPresent /\ (Full(k) \/ freepages'[k])
    BY <1>1, <1>10 DEF IInv, SpaceTypes, SpaceInv
  <2> QED
    BY <1>10, <1>16, <2>1, <2>2, SpaceGrows
<1>l. LeftoverStays
  BY <1>1, MadeMeansCleared
<1>m. \A w \in Pages : F[w] = pte[w] \/ (F[w] = Old /\ Leftover(w)')
  <2> SUFFICES ASSUME NEW w \in Pages, F[w] # pte[w] PROVE F[w] = Old /\ Leftover(w)'
    OBVIOUS
  <2>1. F[w] = Old /\ table[PdIndex(w)] = NotPresent
    BY <1>5, <1>8
  <2> QED
    BY <1>1, <2>1 DEF Leftover, IInv, SpaceInv
<1>19. /\ MapInv("page", call[c], owned[c], pte')
       /\ DOMAIN owned[c] \cup Holds("page", call[c]) = Hand(c)
  BY <1>1, <1>16, PageFacts
<1>20. CASE e = "none"
  <2>1. v \notin DOMAIN owned[c] \cup Holds("page", call[c])
    BY <1>3, <1>15, <1>19, <1>20, FreshPage
  <2>2. Moves(c, Hand(c) \cup {v})
    BY <1>2, <1>3, <1>6, <1>13, <1>14, <1>15, <1>19, <1>20, <2>1, PlaceMoves DEF IInv
  <2>3. \A w \in Pages \ {v} : pte'[w] = pte[w] \/ (pte'[w] = Old /\ Leftover(w)')
    BY <1>15, <1>m
  <2>4. \E H : Moves(c, H) /\ Changes(c, H) /\ Kept(c, H)
    BY <1>3, <1>15, <1>16, <1>20, <1>l, <2>2, <2>3, HandGrows
  <2> QED
    BY <1>17, <1>18, <2>4 DEF Sound
<1>21. CASE e # "none"
  <2>1. Moves(c, Hand(c))
    BY <1>2, <1>9, <1>13, <1>19, <1>21, FailMoves DEF IInv
  <2>2. \A w \in Pages \ {} : pte'[w] = pte[w] \/ (pte'[w] = Old /\ Leftover(w)')
    BY <1>15, <1>21, <1>m
  <2>3. Hand(c) \cup {} = Hand(c)
    OBVIOUS
  <2>4. \E H : Moves(c, H) /\ Changes(c, H) /\ Kept(c, H)
    BY <1>16, <1>l, <2>1, <2>2, <2>3, HandGrows
  <2> QED
    BY <1>17, <1>18, <2>4 DEF Sound
<1> QED
  BY <1>20, <1>21
------------------------------------------------------------------------------
(* The theorems. *)

\* Requests have at least one page.
LEMMA LensOK == \A c \in Callers : {use.len : use \in Uses[c]} \subseteq Nat \ {0}
BY UsesOK

\* Every step is a sound step of one caller.
LEMMA NextSound ==
    ASSUME IInv, Next
    PROVE  \E c \in Callers : Sound(c)
<1>1. PICK c \in Callers :
        \/ Step(c)
        \/ \E use \in Uses[c] : Ask(c, use)
        \/ \E v \in DOMAIN owned[c], len \in {use.len : use \in Uses[c]},
              phys \in BOOLEAN : Free(c, v, len, phys)
  BY DEF Next
<1>2. Step(c) => Sound(c)
  BY AllocateStep, SwapStep, DropStep, AtStep, FreeSingleStep, GiveStep DEF Step
<1> QED
  BY <1>1, <1>2, AskStep, FreeStep, LensOK

\* The invariant holds initially ...
LEMMA InitIInv == Init => IInv
<1> SUFFICES ASSUME Init PROVE IInv
  OBVIOUS
<1>1. SpaceTypes /\ CallTypes
  BY PagingOK DEF Init, SpaceTypes, CallTypes, Points, Frame
<1>2. SpaceInv
  BY Indices, PagingOK DEF Init, SpaceInv, NotPresent, Old
<1>3. ASSUME NEW c \in Callers
      PROVE  CallInv(c, pc[c], call[c]) /\ MapInv(pc[c], call[c], owned[c], pte)
  BY NoCallIs DEF Init, MapInv, NoCall, NoUse, Maps
<1>4. \A c \in Callers : Hand(c) = {}
  BY <1>3, HandIs, NoCallIs DEF Init
<1>5. HandInv
  BY <1>4 DEF HandInv, Init, NotPresent, Leftover
<1> QED
  BY <1>1, <1>2, <1>3, <1>5 DEF IInv

\* ... and every step keeps it.
LEMMA StepIInv == IInv /\ [Next]_vars => IInv'
<1> SUFFICES ASSUME IInv, [Next]_vars PROVE IInv'
  OBVIOUS
<1>1. CASE Next
  BY <1>1, NextSound, SoundKeeps
<1>2. CASE UNCHANGED vars
  <2> USE <1>2 DEF vars, space
  <2>1. SpaceTypes' /\ CallTypes'
    BY DEF IInv, SpaceTypes, CallTypes
  <2>2. \A i : Full(i)' = Full(i)
    BY DEF Full, MappedIn
  <2>3. SpaceInv'
    BY <2>2 DEF IInv, SpaceInv
  <2>4. \A c \in Callers : Hand(c)' = Hand(c)
    BY DEF Hand, InHand, Run
  <2>7. \A v : Leftover(v)' = Leftover(v)
    BY DEF Leftover
  <2>5. HandInv'
    BY <2>4, <2>7 DEF IInv, HandInv
  <2>6. (\A c \in Callers : CallInv(c, pc[c], call[c]) /\ MapInv(pc[c], call[c], owned[c], pte))'
    BY DEF IInv, CallInv, MapInv
  <2> QED
    BY <2>1, <2>3, <2>5, <2>6 DEF IInv
<1> QED
  BY <1>1, <1>2

\* The invariant holds for any interleaving of page steps of any callers.
THEOREM InvariantHolds == Spec => []IInv
BY InitIInv, StepIInv, PTL DEF Spec

\* A caller's pages stay mapped to what it asked for until it frees them, with the
\* lock released between the pages of a region and half-gathered regions given up
\* (allocate, mapPhysicalAddress).  What is mapped and in nobody's hands is the
\* boot code's, or a stale entry of a table allocateSingleAt or
\* mapSinglePhysicalAddressAt made and did not clear; in the boot code's tables
\* and in those allocateSinglePage made there are no such entries.
THEOREM PagesStayMapped == Spec => []MappedAsAsked
<1>1. IInv => MappedAsAsked
  BY DEF IInv, MapInv, HandInv, MappedAsAsked
<1> QED
  BY <1>1, InvariantHolds, PTL

\* Pages are handed out one at a time, each to one caller, and none the boot code
\* mapped: the manager's page tables implement the abstract allocator of frames.
THEOREM RefinesPageAllocator == Spec => ImplementsPageAllocator
<1> DEFINE held == [c \in Callers |-> Hand(c)]
<1>1. Init => PageAllocator!Init
  <2>1. Init => \A c \in Callers : Hand(c) = {}
    BY HandIs, NoCallIs DEF Init
  <2> QED
    BY <2>1 DEF PageAllocator!Init
<1>2. IInv /\ [Next]_vars => [PageAllocator!Next]_held
  <2> SUFFICES ASSUME IInv, [Next]_vars PROVE PageAllocator!Next \/ held' = held
    OBVIOUS
  <2>1. CASE UNCHANGED vars
    BY <2>1 DEF vars, space, Hand, InHand, Run
  <2>2. CASE Next
    <3>1. PICK c \in Callers : Sound(c)
      BY <2>2, NextSound
    <3>2. PICK H : Moves(c, H) /\ Changes(c, H)
      BY <3>1 DEF Sound
    <3>3. Hand(c)' = H /\ \A d \in Callers \ {c} : Hand(d)' = Hand(d)
      BY <3>2, OneHandMoves
    <3>4. held' = [held EXCEPT ![c] = H]
      BY <3>3
    <3>5. CASE H = Hand(c)
      BY <3>4, <3>5
    <3>6. ASSUME NEW v \in Pages \ BootPages, \A d \in Callers : v \notin Hand(d),
                 H = Hand(c) \cup {v}
          PROVE  PageAllocator!Next
      <4>1. PageAllocator!Take(c, v)
        BY <3>4, <3>6 DEF PageAllocator!Take, PageAllocator!Taken
      <4> QED
        BY <4>1 DEF PageAllocator!Next
    <3>7. ASSUME NEW v \in Hand(c), H = Hand(c) \ {v}
          PROVE  PageAllocator!Next
      <4>1. PageAllocator!Give(c, v)
        BY <3>4, <3>7 DEF PageAllocator!Give
      <4>2. v \in Pages
        BY HandFacts
      <4> QED
        BY <4>1, <4>2 DEF PageAllocator!Next
    <3> QED
      BY <3>2, <3>5, <3>6, <3>7 DEF Changes
  <2> QED
    BY <2>1, <2>2
<1> QED
  BY <1>1, <1>2, InvariantHolds, PTL DEF Spec, ImplementsPageAllocator, PageAllocator!Spec

\* allocateSinglePage fails with ALLOC_OUT_OF_VMEM for the kernel only when no
\* directory entry is left and every table it made is full: the mark it searches
\* by is never missing where a page is free.
THEOREM GivesUpOnlyWhenFull == Spec => OutOfVMemOnlyWhenFull
<1> DEFINE A == \A c \in Callers : GivesUp(c, "kernel") =>
                    \A i \in Pd : i >= KernelPd => table[i] # NotPresent /\ (i \in made => Full(i))
<1>1. IInv /\ [Next]_vars => A \/ UNCHANGED vars
  <2> SUFFICES ASSUME IInv, NEW c \in Callers, GivesUp(c, "kernel"), NEW i \in Pd, i >= KernelPd
               PROVE  table[i] # NotPresent /\ (i \in made => Full(i))
    OBVIOUS
  <2>1. \A k \in Stops("kernel") : k \in Passed("kernel")
    BY DEF GivesUp, NoPage, OutOfBounds
  <2>2. freepages[i] \/ table[i] = NotPresent => i \in Stops("kernel")
    BY DEF Stops, MinPd
  <2>3. i \in made => Full(i) \/ freepages[i]
    BY DEF IInv, SpaceInv
  <2> QED
    BY <2>1, <2>2, <2>3 DEF Passed
<1> QED
  BY <1>1, InvariantHolds, PTL DEF Spec, OutOfVMemOnlyWhenFull
==============================================================================
