------------------------ MODULE VirtMemX86FrameProofs ------------------------
(***************************************************************************)
(* Proofs about the physical frames behind the i386 virtual memory         *)
(* manager: for any callers, requests, tables and memory, each frame is in *)
(* exactly one place for as long as every step is a SafeStep.  Two kinds   *)
(* of steps are not: freeSinglePage with freePhys for a page whose         *)
(* directory and table indices differ, which gives back a frame other than *)
(* the page's (VirtMemX86Fail shows it), and the mapping of a frame of the *)
(* physical manager, which is then in use where it was and behind the page.*)
(***************************************************************************)
EXTENDS VirtMemX86Proofs

\* The requests for frames of the manager's choice.
Allocates == {"allocate", "allocateAt"}

\* A step that gives back the right frame, if it unmaps a page along with its frame,
\* and maps a device's or firmware's, if it maps a frame of the caller's choice.
\* freeSinglePage reads the frame from the entry with the page's directory index.
SafeStep ==
    \A c \in Callers :
        /\ FreeSinglePage(c) /\ call[c].phys =>
              PdIndex(Head(call[c].todo)) = PtIndex(Head(call[c].todo))
        /\ SwapFrame(c) \/ (At(c) /\ call[c].use.op = "mapAt") =>
              call[c].use.to + call[c].cnt \notin Ram

\* The frames behind the pages that call k at p has in hand, by table m: the physical
\* manager's when they were allocated or are to be given back (freePhys), and not
\* when they are mapped or only unmapped; but the page of a mapping has one between
\* its allocation and the swap, and the call itself has one on its way back.
RamInv(p, k, m) ==
    /\ p = "swap" => m[k.page] \in Ram
    /\ p = "drop" => m[k.page] \notin Ram
    /\ p \in {"drop", "give"} => k.frame \in Ram
    /\ \A v \in RunOf(k) \cup ToSet(k.todo) : m[v] \in Ram <=> k.phys
    /\ k.use.op \in Maps => ~k.phys
    /\ k.use.op \in Allocates => k.phys

\* The places of frame f: tables, pages and calls in progress.
TablesOf(f) == {i \in Pd : table[i] = f}
PagesOf(f)  == {v \in Pages : pte[v] = f}
CallsOf(f)  == {c \in Callers : pc[c] \in {"drop", "give"} /\ call[c].frame = f}

\* Frame f is in one place: one table, one page, one call, or free.
OneSpot(f) ==
    \/ (\E i \in Pd : TablesOf(f) = {i}) /\ PagesOf(f) = {} /\ CallsOf(f) = {} /\ f \notin free
    \/ TablesOf(f) = {} /\ (\E v \in Pages : PagesOf(f) = {v}) /\ CallsOf(f) = {} /\ f \notin free
    \/ TablesOf(f) = {} /\ PagesOf(f) = {} /\ (\E c \in Callers : CallsOf(f) = {c}) /\ f \notin free
    \/ TablesOf(f) = {} /\ PagesOf(f) = {} /\ CallsOf(f) = {} /\ f \in free

\* FramesExact is not inductive: that the frame a call gives back is one, and that
\* an unmapped page loses none, needs to know what a call has in hand (RamInv).
FramesInv ==
    /\ table \in [Pd -> Ram \cup {Old, NotPresent}] /\ free \subseteq Ram
    /\ \A c \in Callers : RamInv(pc[c], call[c], pte)
    /\ \A f \in Ram : OneSpot(f)
------------------------------------------------------------------------------
\* The marks for absent and old entries are no frames, nor is 0.
LEMMA RamFacts == Ram \subseteq Nat /\ 0 \notin Ram /\ Old \notin Ram /\ NotPresent \notin Ram
BY PagingOK DEF Old, NotPresent

\* RamInv looks only at the pages in hand.
LEMMA RamStays ==
    ASSUME NEW p, NEW k, NEW m, NEW n, RamInv(p, k, m), \A v \in Holds(p, k) : n[v] = m[v]
    PROVE  RamInv(p, k, n)
BY DEF RamInv, Holds

\* Finish leaves no frame in the call ...
LEMMA FinishRam ==
    ASSUME CallTypes, NEW c \in Callers, NEW k, Finish(c, k), RamInv("free", k, pte')
    PROVE  RamInv(pc'[c], call'[c], pte') /\ pc'[c] \notin {"drop", "give"}
<1>1. CASE k.todo # <<>>
  <2>1. pc'[c] = "free" /\ call'[c] = k
    BY <1>1 DEF Finish, CallTypes
  <2> QED
    BY <2>1
<1>2. CASE k.todo = <<>>
  <2>1. pc'[c] = "out" /\ call'[c] = NoCall
    BY <1>2 DEF Finish, Return, CallTypes
  <2>2. RunOf(NoCall) \cup ToSet(NoCall.todo) = {} /\ NoCall.use.op \notin Maps \cup Allocates
    BY NoCallIs DEF NoCall, NoUse, Maps, Allocates
  <2> QED
    BY <2>1, <2>2 DEF RamInv
<1> QED
  BY <1>1, <1>2

\* ... nor does Fail: the run becomes pages to free, with their frames if it was
\* allocated ...
LEMMA FailRam ==
    ASSUME CallTypes, NEW c \in Callers, NEW code, CallInv(c, "page", call[c]),
           RamInv("page", call[c], pte'), Fail(c, code)
    PROVE  RamInv(pc'[c], call'[c], pte') /\ pc'[c] \notin {"drop", "give"}
<1> DEFINE q == call[c]
           k == [q EXCEPT !.todo = Run(c) \o @, !.cnt = 0, !.res = code]
<1>1. /\ q \in Calls(c) /\ RunOf(q) \subseteq Pages /\ Distinct(q.todo)
      /\ RunOf(q) \cap ToSet(q.todo) = {} /\ q.todo \in Seq(Pages)
  BY DEF CallInv, Calls
<1>2. Run(c) \in Seq(Pages) /\ ToSet(Run(c)) = RunOf(q) /\ Distinct(Run(c))
  BY <1>1, RunSeq DEF Run
<1>3. ToSet(Run(c) \o q.todo) = RunOf(q) \cup ToSet(q.todo)
  BY <1>1, <1>2, JoinDistinct
<1>4. k.todo = Run(c) \o q.todo /\ k.use = q.use /\ k.phys = q.phys /\ k.cnt = 0
  BY <1>1 DEF Calls
<1>5. Finish(c, k)
  BY DEF Fail
<1> HIDE DEF k
<1>6. RunOf(k) \cup ToSet(k.todo) = RunOf(q) \cup ToSet(q.todo)
  BY <1>3, <1>4 DEF RunOf
<1>7. RamInv("free", k, pte')
  BY <1>4, <1>6 DEF RamInv
<1> QED
  BY <1>5, <1>7, FinishRam

\* ... nor Place, with a page that has the right kind of frame.
LEMMA PlaceRam ==
    ASSUME CallTypes, NEW c \in Callers, NEW v \in Pages, CallInv(c, "page", call[c]),
           v \notin Holds("page", call[c]), pte'[v] \in Ram <=> call[c].phys,
           RamInv("page", call[c], pte'), Place(c, v)
    PROVE  RamInv(pc'[c], call'[c], pte') /\ pc'[c] \notin {"drop", "give"}
<1> DEFINE q == call[c]
           first == q.cnt = 0
           grown == [q EXCEPT !.base = IF first THEN v ELSE @, !.cnt = @ + 1]
           whole == [grown EXCEPT !.res = "done"]
           over == [q EXCEPT !.todo = Append(Run(c), v) \o @, !.cnt = 0]
<1>1. /\ q \in Calls(c) /\ RunOf(q) \subseteq Pages /\ Distinct(q.todo)
      /\ RunOf(q) \cap ToSet(q.todo) = {} /\ q.todo \in Seq(Pages)
      /\ q.cnt \in Nat /\ q.base \in Nat /\ v \in Nat
  BY ConstantFacts DEF CallInv, Calls
<1>2. /\ grown.todo = q.todo /\ grown.use = q.use /\ grown.phys = q.phys /\ grown.cnt = q.cnt + 1
      /\ grown.base = IF first THEN v ELSE q.base
      /\ whole.todo = q.todo /\ whole.use = q.use /\ whole.phys = q.phys
      /\ whole.cnt = grown.cnt /\ whole.base = grown.base
  BY <1>1 DEF Calls
<1>3. RunOf(whole) = RunOf(grown)
  BY <1>2 DEF RunOf
<1>4. (first \/ v = q.base + q.cnt) => RunOf(grown) \subseteq RunOf(q) \cup {v}
  <2> SUFFICES ASSUME first \/ v = q.base + q.cnt, NEW n \in 0 .. (grown.cnt - 1)
               PROVE  grown.base + n \in RunOf(q) \cup {v}
    BY DEF RunOf
  <2>1. CASE first
    BY <1>1, <1>2, <2>1
  <2>2. CASE ~ first
    <3>1. n \in 0 .. (q.cnt - 1) \/ n = q.cnt
      BY <1>1, <1>2
    <3> QED
      BY <1>2, <2>2, <3>1 DEF RunOf
  <2> QED
    BY <2>1, <2>2
<1> HIDE DEF grown, whole
<1>5. (first \/ v = q.base + q.cnt) => RamInv("free", whole, pte') /\ RamInv("page", grown, pte')
  BY <1>2, <1>3, <1>4 DEF RamInv
<1>6. CASE (first \/ v = q.base + q.cnt) /\ grown.cnt = q.use.len
  <2>1. Finish(c, whole)
    BY <1>6 DEF Place, grown, whole
  <2> QED
    BY <1>5, <1>6, <2>1, FinishRam
<1>7. CASE (first \/ v = q.base + q.cnt) /\ grown.cnt # q.use.len
  <2>1. pc'[c] = "page" /\ call'[c] = grown
    BY <1>7 DEF Place, CallTypes, grown
  <2> QED
    BY <1>5, <1>7, <2>1
<1>8. CASE ~ (first \/ v = q.base + q.cnt)
  <2>1. pc'[c] = "page" /\ call'[c] = over
    BY <1>8 DEF Place, CallTypes
  <2>2. Run(c) \in Seq(Pages) /\ ToSet(Run(c)) = RunOf(q) /\ Distinct(Run(c))
    BY <1>1, RunSeq DEF Run
  <2> DEFINE s == Append(Run(c), v)
  <2>3. v \notin RunOf(q) \cup ToSet(q.todo)
    BY DEF Holds
  <2>4. s \in Seq(Pages) /\ Distinct(s) /\ ToSet(s) = RunOf(q) \cup {v}
    BY <2>2, <2>3, AppendDistinct
  <2> HIDE DEF s
  <2>5. ToSet(s) \cap ToSet(q.todo) = {}
    BY <1>1, <2>3, <2>4
  <2>6. ToSet(s \o q.todo) = RunOf(q) \cup {v} \cup ToSet(q.todo)
    BY <1>1, <2>4, <2>5, JoinDistinct
  <2>7. over.todo = s \o q.todo /\ over.use = q.use /\ over.phys = q.phys /\ over.cnt = 0
    BY <1>1 DEF Calls, s
  <2> HIDE DEF over
  <2>8. RunOf(over) \cup ToSet(over.todo) = RunOf(q) \cup {v} \cup ToSet(q.todo)
    BY <2>6, <2>7 DEF RunOf
  <2>9. RamInv("page", over, pte')
    BY <2>7, <2>8 DEF RamInv
  <2> QED
    BY <2>1, <2>9
<1> QED
  BY <1>6, <1>7, <1>8

\* The page allocateSinglePage mapped has a frame, to be swapped out or kept.
LEMMA GotRam ==
    ASSUME CallTypes, NEW c \in Callers, NEW v \in Pages, CallInv(c, "page", call[c]),
           v \notin Holds("page", call[c]), call[c].use.op \in {"allocate", "map"},
           pte'[v] \in Ram, RamInv("page", call[c], pte'), Got(c, v)
    PROVE  RamInv(pc'[c], call'[c], pte') /\ pc'[c] \notin {"drop", "give"}
<1>1. CASE call[c].use.op = "map"
  <2> DEFINE k == [call[c] EXCEPT !.page = v]
  <2>1. pc'[c] = "swap" /\ call'[c] = k
    BY <1>1 DEF Got, CallTypes
  <2>2. /\ k.page = v /\ k.todo = call[c].todo /\ k.use = call[c].use /\ k.phys = call[c].phys
        /\ k.base = call[c].base /\ k.cnt = call[c].cnt
    BY DEF CallInv, Calls
  <2> HIDE DEF k
  <2>3. RunOf(k) = RunOf(call[c])
    BY <2>2 DEF RunOf
  <2> QED
    BY <2>1, <2>2, <2>3 DEF RamInv
<1>2. CASE call[c].use.op # "map"
  <2>1. Place(c, v) /\ call[c].phys
    BY <1>2 DEF Got, Allocates, RamInv
  <2> QED
    BY <2>1, PlaceRam
<1> QED
  BY <1>1, <1>2
------------------------------------------------------------------------------
(* Where the frames go in a step. *)

\* The frame tables and free frames keep to the physical manager's frames, c's
\* locals are sound, and every frame is in one place after the step.
Exact(c) == /\ table' \in [Pd -> Ram \cup {Old, NotPresent}] /\ free' \subseteq Ram
            /\ RamInv(pc'[c], call'[c], pte')
            /\ \A f \in Ram : OneSpot(f)'

\* A sound step that moves frames exactly keeps the invariant.
LEMMA ExactKeeps ==
    ASSUME IInv, FramesInv, NEW c \in Callers, Sound(c), Exact(c)
    PROVE  FramesInv'
<1>1. PICK H : Moves(c, H) /\ Kept(c, H)
  BY DEF Sound
<1>2. ASSUME NEW d \in Callers \ {c} PROVE RamInv(pc'[d], call'[d], pte')
  <2>1. pc'[d] = pc[d] /\ call'[d] = call[d]
    BY <1>1, OneHandMoves
  <2>2. RamInv(pc[d], call[d], pte)
    BY DEF FramesInv
  <2>3. \A v \in Holds(pc[d], call[d]) : pte'[v] = pte[v]
    BY <1>1, HandFacts DEF Kept
  <2> QED
    BY <2>1, <2>2, <2>3, RamStays
<1>3. (\A d \in Callers : RamInv(pc[d], call[d], pte))'
  BY <1>2 DEF Exact
<1> QED
  BY <1>3 DEF Exact, FramesInv

\* A step of c puts no frame into another call.
LEMMA CallsMove ==
    ASSUME IInv, NEW c \in Callers, Sound(c), NEW f
    PROVE  CallsOf(f)' = (CallsOf(f) \ {c}) \cup
                {d \in {c} : pc'[c] \in {"drop", "give"} /\ call'[c].frame = f}
<1>1. \A d \in Callers \ {c} : pc'[d] = pc[d] /\ call'[d] = call[d]
  BY OneHandMoves DEF Sound
<1> QED
  BY <1>1 DEF CallsOf

\* A step that begins and ends outside "drop" and "give" moves no call's frame.
LEMMA CallsStay ==
    ASSUME IInv, NEW c \in Callers, Sound(c), NEW f,
           pc[c] \notin {"drop", "give"}, pc'[c] \notin {"drop", "give"}
    PROVE  CallsOf(f)' = CallsOf(f)
BY CallsMove DEF CallsOf

\* A call between its pages whose pages stay mapped.
LEMMA PageRam ==
    ASSUME IInv, FramesInv, NEW c \in Callers, pc[c] = "page",
           \A w \in Pages : pte[w] # NotPresent => pte'[w] = pte[w]
    PROVE  /\ RamInv("page", call[c], pte')
           /\ CallInv(c, "page", call[c]) /\ MapInv("page", call[c], owned[c], pte')
           /\ DOMAIN owned[c] \cup Holds("page", call[c]) = Hand(c)
<1>1. /\ CallInv(c, "page", call[c]) /\ MapInv("page", call[c], owned[c], pte')
      /\ DOMAIN owned[c] \cup Holds("page", call[c]) = Hand(c)
  BY PageFacts
<1>2. \A v \in Holds("page", call[c]) : pte'[v] = pte[v]
  BY <1>1, HandFacts
<1>3. RamInv("page", call[c], pte)
  BY DEF FramesInv
<1> QED
  BY <1>1, <1>2, <1>3, RamStays

\* A step that fails and moves no frame.
LEMMA FailExact ==
    ASSUME IInv, FramesInv, NEW c \in Callers, Sound(c), NEW code,
           pc[c] = "page", Fail(c, code), UNCHANGED <<table, pte, free>>
    PROVE  Exact(c)
<1>1. RamInv(pc'[c], call'[c], pte') /\ pc'[c] \notin {"drop", "give"}
  BY PageRam, FailRam DEF IInv
<1>2. \A f \in Ram : OneSpot(f)'
  BY <1>1, CallsStay DEF FramesInv, OneSpot, TablesOf, PagesOf
<1> QED
  BY <1>1, <1>2 DEF Exact, FramesInv

\* allocateSinglePage finds no entry: no frame moves.
LEMMA NoPageExact ==
    ASSUME IInv, FramesInv, NEW c \in Callers, Sound(c), pc[c] = "page",
           NEW attr, NoPage(c, attr)
    PROVE  Exact(c)
<1>1. PICK code : Fail(c, code)
  BY DEF NoPage
<1>2. UNCHANGED <<table, pte, free>>
  BY DEF NoPage
<1> QED
  BY <1>1, <1>2, FailExact

\* allocateSinglePage finds room: the lowest free frame goes behind the page.
LEMMA PageInTableExact ==
    ASSUME IInv, FramesInv, NEW c \in Callers, Sound(c), pc[c] = "page",
           call[c].use.op \in {"allocate", "map"},
           NEW attr, NEW i \in Pd, PageInTable(c, attr, i)
    PROVE  Exact(c)
<1>1. CASE free = {}
  <2>1. Fail(c, "OUT_OF_PHYMEM") /\ UNCHANGED <<table, pte, free>>
    BY <1>1 DEF PageInTable
  <2> QED
    BY <2>1, FailExact
<1>2. CASE free # {}
  <2> DEFINE g == Lowest(free)
  <2>1. PICK v \in Pages : /\ pte[v] = NotPresent
                           /\ pte' = [pte EXCEPT ![v] = g] /\ free' = free \ {g} /\ Got(c, v)
    <3> DEFINE j == Lowest((0 .. (PtEntries - 1)) \ MappedIn(i))
               v == PageAt(i, j)
    <3>1. j \in (0 .. (PtEntries - 1)) \ MappedIn(i)
      <4>1. MappedIn(i) # 0 .. (PtEntries - 1)
        BY FullMeansAll DEF PageInTable, Room, Passed
      <4>2. MappedIn(i) \subseteq 0 .. (PtEntries - 1)
        BY DEF MappedIn
      <4>3. (0 .. (PtEntries - 1)) \ MappedIn(i) \subseteq Nat \cup {Old}
        BY ConstantFacts
      <4> QED
        BY <4>1, <4>2, <4>3, LowestIn
    <3>2. v \in Pages /\ pte[v] = NotPresent
      BY <3>1, Indices DEF MappedIn
    <3>3. pte' = [pte EXCEPT ![v] = g] /\ free' = free \ {g} /\ Got(c, v)
      BY <1>2 DEF PageInTable
    <3> QED
      BY <3>2, <3>3
  <2>2. g \in free /\ g \in Ram /\ free \subseteq Ram
    <3>1. free \subseteq Ram /\ free \subseteq Nat \cup {Old}
      BY RamFacts DEF FramesInv
    <3> QED
      BY <1>2, <3>1, LowestIn
  <2>3. table' = table
    BY DEF PageInTable
  <2> HIDE DEF g
  <2>4. pte'[v] = g /\ \A w \in Pages \ {v} : pte'[w] = pte[w]
    BY <2>1 DEF IInv, SpaceTypes
  <2>5. \A w \in Pages : pte[w] # NotPresent => pte'[w] = pte[w]
    BY <2>1, <2>4
  <2>6. RamInv(pc'[c], call'[c], pte') /\ pc'[c] \notin {"drop", "give"}
    <3>1. v \notin Holds("page", call[c])
      BY <2>1, <2>5, FreshPage, PageRam
    <3> QED
      BY <2>1, <2>2, <2>4, <2>5, <3>1, PageRam, GotRam DEF IInv
  <2>7. ASSUME NEW f \in Ram PROVE OneSpot(f)'
    <3>1. OneSpot(f) /\ CallsOf(f)' = CallsOf(f) /\ TablesOf(f)' = TablesOf(f)
      BY <2>3, <2>6, CallsStay DEF FramesInv, TablesOf
    <3>2. CASE f = g
      <4>1. PagesOf(f) = {} /\ TablesOf(f) = {} /\ CallsOf(f) = {}
        BY <2>2, <3>1, <3>2 DEF OneSpot
      <4>2. PagesOf(f)' = {v} /\ f \notin free'
        BY <2>1, <2>4, <3>2, <4>1 DEF PagesOf
      <4> QED
        BY <3>1, <4>1, <4>2 DEF OneSpot
    <3>3. CASE f # g
      <4>1. PagesOf(f)' = PagesOf(f)
        BY <2>1, <2>4, <3>3, RamFacts DEF PagesOf
      <4>2. f \in free' <=> f \in free
        BY <2>1, <3>3
      <4> QED
        BY <3>1, <4>1, <4>2 DEF OneSpot
    <3> QED
      BY <3>2, <3>3
  <2> QED
    BY <2>1, <2>2, <2>3, <2>6, <2>7 DEF Exact, FramesInv
<1> QED
  BY <1>1, <1>2

\* allocateSinglePage makes a table: one free frame becomes the table, the next,
\* if there is one, goes behind the page.
LEMMA PageInNewTableExact ==
    ASSUME IInv, FramesInv, NEW c \in Callers, Sound(c), pc[c] = "page",
           call[c].use.op \in {"allocate", "map"},
           NEW attr, NEW i \in Pd, PageInNewTable(c, attr, i)
    PROVE  Exact(c)
<1>1. table[i] = NotPresent
  BY DEF PageInNewTable
<1>2. CASE free = {}
  <2>1. Fail(c, "OUT_OF_PHYMEM") /\ UNCHANGED <<table, pte, free>>
    BY <1>2 DEF PageInNewTable
  <2> QED
    BY <2>1, FailExact
<1>3. CASE free # {}
  <2>0. free \subseteq Ram /\ free \subseteq Nat \cup {Old}
    BY RamFacts DEF FramesInv
  <2>1. PICK t \in Ram : t = Lowest(free) /\ t \in free
    BY <1>3, <2>0, LowestIn
  <2> DEFINE f == Lowest(free \ {t})
             v == PageAt(i, 0)
  <2>2. [w \in Pages |-> IF PdIndex(w) = i THEN NotPresent ELSE pte[w]] = pte
    BY <1>1 DEF IInv, SpaceInv, SpaceTypes
  <2>3. /\ table' = [table EXCEPT ![i] = t]
        /\ IF free = {t}
           THEN pte' = pte /\ free' = {} /\ Fail(c, "OUT_OF_PHYMEM")
           ELSE pte' = [pte EXCEPT ![v] = f] /\ free' = free \ {t, f} /\ Got(c, v)
    BY <1>3, <2>1, <2>2 DEF PageInNewTable
  <2>4. v \in Pages /\ pte[v] = NotPresent
    <3>1. 0 \in 0 .. (PtEntries - 1)
      BY ConstantFacts
    <3>2. v \in Pages /\ PdIndex(v) = i
      BY <3>1, Indices
    <3> QED
      BY <1>1, <3>2 DEF IInv, SpaceInv
  <2> HIDE DEF v
  <2>5. /\ table' \in [Pd -> Ram \cup {Old, NotPresent}]
        /\ table'[i] = t /\ \A k \in Pd \ {i} : table'[k] = table[k]
    BY <2>1, <2>3 DEF FramesInv
  <2>6. /\ TablesOf(t) = {} /\ PagesOf(t) = {} /\ CallsOf(t) = {}
        /\ TablesOf(t)' = {i}
        /\ \A g \in Ram \ {t} : TablesOf(g)' = TablesOf(g)
    <3>1. TablesOf(t) = {} /\ PagesOf(t) = {} /\ CallsOf(t) = {}
      BY <2>1 DEF FramesInv, OneSpot
    <3>2. TablesOf(t)' = {i}
      BY <2>5, <3>1 DEF TablesOf
    <3>3. \A g \in Ram \ {t} : TablesOf(g)' = TablesOf(g)
      BY <1>1, <2>5, RamFacts DEF TablesOf
    <3> QED
      BY <3>1, <3>2, <3>3
  <2>7. CASE free = {t}
    <3>1. pte' = pte /\ free' = {} /\ Fail(c, "OUT_OF_PHYMEM")
      BY <2>3, <2>7
    <3>2. RamInv(pc'[c], call'[c], pte') /\ pc'[c] \notin {"drop", "give"}
      BY <3>1, PageRam, FailRam DEF IInv
    <3>3. ASSUME NEW g \in Ram PROVE OneSpot(g)'
      <4>1. OneSpot(g) /\ CallsOf(g)' = CallsOf(g) /\ PagesOf(g)' = PagesOf(g) /\ g \notin free'
        BY <3>1, <3>2, CallsStay DEF FramesInv, PagesOf
      <4>2. CASE g = t
        BY <2>6, <4>1, <4>2 DEF OneSpot
      <4>3. CASE g # t
        <5>1. g \notin free /\ TablesOf(g)' = TablesOf(g)
          BY <2>6, <2>7, <4>3
        <5> QED
          BY <4>1, <5>1 DEF OneSpot
      <4> QED
        BY <4>2, <4>3
    <3> QED
      BY <2>5, <3>1, <3>2, <3>3 DEF Exact
  <2>8. CASE free # {t}
    <3>1. f \in free \ {t} /\ f \in Ram
      <4>1. free \ {t} \subseteq Nat \cup {Old} /\ free \ {t} # {}
        BY <2>0, <2>1, <2>8
      <4> QED
        BY <2>0, <4>1, LowestIn
    <3>2. pte' = [pte EXCEPT ![v] = f] /\ free' = free \ {t, f} /\ Got(c, v)
      BY <2>3, <2>8
    <3> HIDE DEF f
    <3>3. pte'[v] = f /\ \A w \in Pages \ {v} : pte'[w] = pte[w]
      BY <2>4, <3>2 DEF IInv, SpaceTypes
    <3>4. \A w \in Pages : pte[w] # NotPresent => pte'[w] = pte[w]
      BY <2>4, <3>3
    <3>5. RamInv(pc'[c], call'[c], pte') /\ pc'[c] \notin {"drop", "give"}
      <4>1. v \notin Holds("page", call[c])
        BY <2>4, <3>4, FreshPage, PageRam
      <4> QED
        BY <2>4, <3>1, <3>2, <3>3, <3>4, <4>1, PageRam, GotRam DEF IInv
    <3>6. ASSUME NEW g \in Ram PROVE OneSpot(g)'
      <4>1. OneSpot(g) /\ CallsOf(g)' = CallsOf(g)
        BY <3>5, CallsStay DEF FramesInv
      <4>2. CASE g = t
        <5>1. PagesOf(g)' = {} /\ g \notin free'
          BY <2>6, <3>1, <3>2, <3>3, <4>2 DEF PagesOf
        <5> QED
          BY <2>6, <4>1, <4>2, <5>1 DEF OneSpot
      <4>3. CASE g = f
        <5>1. PagesOf(g) = {} /\ TablesOf(g) = {} /\ CallsOf(g) = {}
          BY <3>1, <4>1, <4>3 DEF OneSpot
        <5>2. PagesOf(g)' = {v} /\ g \notin free'
          BY <2>4, <3>2, <3>3, <4>3, <5>1 DEF PagesOf
        <5>3. TablesOf(g)' = {}
          BY <2>6, <3>1, <4>3, <5>1
        <5> QED
          BY <2>4, <4>1, <5>1, <5>2, <5>3 DEF OneSpot
      <4>4. CASE g # t /\ g # f
        <5>1. PagesOf(g)' = PagesOf(g)
          BY <2>4, <3>3, <4>4, RamFacts DEF PagesOf
        <5>2. (g \in free' <=> g \in free) /\ TablesOf(g)' = TablesOf(g)
          BY <2>6, <3>2, <4>4
        <5> QED
          BY <4>1, <5>1, <5>2 DEF OneSpot
      <4> QED
        BY <4>2, <4>3, <4>4
    <3>7. free' \subseteq Ram
      BY <2>0, <3>2
    <3> QED
      BY <2>5, <3>5, <3>6, <3>7 DEF Exact
  <2> QED
    BY <2>7, <2>8
<1> QED
  BY <1>2, <1>3

\* The frame allocated goes from the page to the call ...
LEMMA SwapExact ==
    ASSUME SafeStep, IInv, FramesInv, NEW c \in Callers, Sound(c), SwapFrame(c)
    PROVE  Exact(c)
<1> DEFINE q == call[c]
           v == q.page
           g == pte[v]
           k == [q EXCEPT !.frame = g]
           h == q.use.to + q.cnt
<1>1. /\ pc[c] = "swap" /\ CallInv(c, "swap", q) /\ MapInv("swap", q, owned[c], pte)
      /\ RamInv("swap", q, pte)
  BY DEF IInv, SwapFrame, FramesInv
<1>2. /\ q \in Calls(c) /\ q.use.op = "map" /\ v \in Pages /\ v \notin RunOf(q) \cup ToSet(q.todo)
  BY <1>1 DEF CallInv, Calls
<1>3. g \in Ram /\ h \notin Ram
  BY <1>1 DEF RamInv, SafeStep
<1>4. /\ pc' = [pc EXCEPT ![c] = "drop"] /\ call' = [call EXCEPT ![c] = k]
      /\ pte' = [pte EXCEPT ![v] = h] /\ UNCHANGED <<table, free>>
  BY DEF SwapFrame
<1>5. /\ k.frame = g /\ k.use = q.use /\ k.todo = q.todo /\ k.phys = q.phys
      /\ k.page = v /\ k.base = q.base /\ k.cnt = q.cnt
  BY <1>2 DEF Calls
<1>6. pte'[v] = h /\ \A w \in Pages \ {v} : pte'[w] = pte[w]
  BY <1>2, <1>4 DEF IInv, SpaceTypes
<1>7. pc'[c] = "drop" /\ call'[c] = k
  BY <1>4 DEF IInv, CallTypes
<1> HIDE DEF k, g, h
<1>8. RamInv("drop", k, pte')
  <2>1. \A w \in RunOf(q) \cup ToSet(q.todo) : pte'[w] = pte[w]
    <3>1. RunOf(q) \cup ToSet(q.todo) \subseteq Pages
      BY <1>1, <1>2, InSet DEF Calls, CallInv
    <3> QED
      BY <1>2, <1>6, <3>1
  <2>2. RunOf(k) = RunOf(q)
    BY <1>5 DEF RunOf
  <2> QED
    BY <1>1, <1>3, <1>5, <1>6, <2>1, <2>2 DEF RamInv
<1>9. ASSUME NEW f \in Ram PROVE OneSpot(f)'
  <2>1. OneSpot(f) /\ TablesOf(f)' = TablesOf(f) /\ (f \in free' <=> f \in free)
    BY <1>4 DEF FramesInv, TablesOf
  <2>2. CASE f = g
    <3>1. v \in PagesOf(f) /\ c \notin CallsOf(f)
      BY <1>1, <1>2, <2>2 DEF PagesOf, CallsOf, g
    <3>2. PagesOf(f) = {v} /\ TablesOf(f) = {} /\ CallsOf(f) = {} /\ f \notin free
      BY <2>1, <3>1 DEF OneSpot
    <3>3. PagesOf(f)' = {}
      BY <1>3, <1>6, <3>2 DEF PagesOf
    <3>4. CallsOf(f)' = {c}
      BY <1>5, <1>7, <2>2, <3>2, CallsMove
    <3> QED
      BY <2>1, <3>2, <3>3, <3>4 DEF OneSpot
  <2>3. CASE f # g
    <3>1. PagesOf(f)' = PagesOf(f)
      BY <1>2, <1>3, <1>6, <2>3 DEF PagesOf, g
    <3>2. CallsOf(f)' = CallsOf(f)
      <4>1. c \notin CallsOf(f)
        BY <1>1 DEF CallsOf
      <4> QED
        BY <1>5, <1>7, <2>3, <4>1, CallsMove
    <3> QED
      BY <2>1, <3>1, <3>2 DEF OneSpot
  <2> QED
    BY <2>2, <2>3
<1> QED
  BY <1>4, <1>7, <1>8, <1>9 DEF Exact, FramesInv

\* ... and from there to the free ones.
LEMMA DropExact ==
    ASSUME IInv, FramesInv, NEW c \in Callers, Sound(c), DropFrame(c)
    PROVE  Exact(c)
<1> DEFINE q == call[c]
           v == q.page
           g == q.frame
<1>1. /\ pc[c] = "drop" /\ CallInv(c, "drop", q) /\ MapInv("drop", q, owned[c], pte)
      /\ RamInv("drop", q, pte)
  BY DEF IInv, DropFrame, FramesInv
<1>2. free' = free \cup {g} /\ Place(c, v) /\ UNCHANGED <<table, pte>> /\ g \in Ram
  BY <1>1 DEF DropFrame, RamInv
<1>3. Holds("drop", q) = Holds("page", q) \cup {v} /\ v \in Pages /\ v \notin Holds("page", q)
  BY <1>1 DEF Holds, CallInv
<1>4. CallInv(c, "page", q) /\ RamInv("page", q, pte')
  BY <1>1, <1>2, <1>3 DEF CallInv, RamInv
<1>5. pte'[v] \notin Ram /\ ~ q.phys
  BY <1>1, <1>2 DEF RamInv, CallInv, Maps
<1>6. RamInv(pc'[c], call'[c], pte') /\ pc'[c] \notin {"drop", "give"}
  BY <1>2, <1>3, <1>4, <1>5, PlaceRam DEF IInv
<1>7. ASSUME NEW f \in Ram PROVE OneSpot(f)'
  <2>1. OneSpot(f) /\ TablesOf(f)' = TablesOf(f) /\ PagesOf(f)' = PagesOf(f)
    BY <1>2 DEF FramesInv, TablesOf, PagesOf
  <2>2. CallsOf(f)' = CallsOf(f) \ {c}
    BY <1>6, CallsMove
  <2>3. CASE f = g
    <3>1. c \in CallsOf(f)
      BY <1>1, <2>3 DEF CallsOf
    <3> QED
      BY <1>2, <2>1, <2>2, <2>3, <3>1 DEF OneSpot
  <2>4. CASE f # g
    <3>1. c \notin CallsOf(f) /\ (f \in free' <=> f \in free)
      BY <1>2, <2>4 DEF CallsOf
    <3> QED
      BY <2>1, <2>2, <3>1 DEF OneSpot
  <2> QED
    BY <2>3, <2>4
<1> QED
  BY <1>2, <1>6, <1>7 DEF Exact, FramesInv

\* The frame of an unmapped page goes from the call to the free ones.
LEMMA GiveExact ==
    ASSUME IInv, FramesInv, NEW c \in Callers, Sound(c), GiveFrame(c)
    PROVE  Exact(c)
<1> DEFINE q == call[c]
           g == q.frame
           k == [q EXCEPT !.frame = 0]
<1>1. /\ pc[c] = "give" /\ CallInv(c, "give", q) /\ RamInv("give", q, pte)
  BY DEF IInv, GiveFrame, FramesInv
<1>2. free' = free \cup {g} /\ Finish(c, k) /\ UNCHANGED <<table, pte>> /\ g \in Ram
  BY <1>1 DEF GiveFrame, RamInv
<1>3. k.use = q.use /\ k.todo = q.todo /\ k.phys = q.phys /\ k.base = q.base /\ k.cnt = q.cnt
  BY <1>1 DEF CallInv, Calls
<1> HIDE DEF k
<1>4. RunOf(k) = RunOf(q)
  BY <1>3 DEF RunOf
<1>5. RamInv("free", k, pte')
  BY <1>1, <1>2, <1>3, <1>4 DEF RamInv
<1>6. RamInv(pc'[c], call'[c], pte') /\ pc'[c] \notin {"drop", "give"}
  BY <1>2, <1>5, FinishRam DEF IInv
<1>7. ASSUME NEW f \in Ram PROVE OneSpot(f)'
  <2>1. OneSpot(f) /\ TablesOf(f)' = TablesOf(f) /\ PagesOf(f)' = PagesOf(f)
    BY <1>2 DEF FramesInv, TablesOf, PagesOf
  <2>2. CallsOf(f)' = CallsOf(f) \ {c}
    BY <1>6, CallsMove
  <2>3. CASE f = g
    <3>1. c \in CallsOf(f)
      BY <1>1, <2>3 DEF CallsOf
    <3> QED
      BY <1>2, <2>1, <2>2, <2>3, <3>1 DEF OneSpot
  <2>4. CASE f # g
    <3>1. c \notin CallsOf(f) /\ (f \in free' <=> f \in free)
      BY <1>2, <2>4 DEF CallsOf
    <3> QED
      BY <2>1, <2>2, <3>1 DEF OneSpot
  <2> QED
    BY <2>3, <2>4
<1> QED
  BY <1>2, <1>6, <1>7 DEF Exact, FramesInv

\* A page at a given place: a free frame becomes a missing table, and stays there
\* when the page fails; another goes behind the page that is allocated.
LEMMA AtExact ==
    ASSUME SafeStep, IInv, FramesInv, NEW c \in Callers, Sound(c), At(c)
    PROVE  Exact(c)
<1> DEFINE use   == call[c].use
           v     == use.at + call[c].cnt
           i     == PdIndex(v)
           t     == Lowest(free)
           new   == IF table[i] = NotPresent /\ free # {} THEN {t} ELSE {}
           frame == IF use.op = "mapAt" THEN use.to + call[c].cnt
                    ELSE IF free = new THEN 0 ELSE Lowest(free \ new)
<1>1. pc[c] = "page" /\ use.op \in {"allocateAt", "mapAt"}
  BY DEF At
<1>2. CallInv(c, "page", call[c]) /\ use \in Uses[c] /\ call[c].cnt \in Nat /\ call[c].cnt < use.len
  BY <1>1 DEF IInv, CallInv, Calls
<1>3. v \in Pages
  <2>1. /\ use.at \in Nat /\ use.len \in Nat /\ use.to \in Nat
        /\ use.at .. (use.at + use.len - 1) \subseteq Pages
    BY <1>1, <1>2, UsesOK
  <2> QED
    BY <1>2, <2>1
<1>4. i \in Pd
  BY <1>3, Indices
<1> HIDE DEF v, i
<1>5. /\ new \subseteq free /\ free \subseteq Ram /\ free \subseteq Nat \cup {Old}
      /\ new # {} => table[i] = NotPresent /\ new = {t} /\ t \in Ram
  <2>1. free \subseteq Ram /\ free \subseteq Nat \cup {Old}
    BY RamFacts DEF FramesInv
  <2>2. free # {} => t \in free
    BY <2>1, LowestIn
  <2> QED
    BY <2>1, <2>2
<1> HIDE DEF t
<1>6. /\ use.op = "mapAt" => frame \notin Ram
      /\ use.op # "mapAt" /\ frame # 0 => frame \in free \ new
  <2>1. use.op = "mapAt" => frame \notin Ram
    BY DEF SafeStep
  <2>2. ASSUME use.op # "mapAt", frame # 0 PROVE frame \in free \ new
    <3>1. free \ new # {} /\ free \ new \subseteq Nat \cup {Old}
      BY <1>5, <2>2
    <3>2. Lowest(free \ new) \in free \ new
      BY <3>1, LowestIn
    <3> QED
      BY <2>2, <3>1, <3>2
  <2> QED
    BY <2>1, <2>2
<1> DEFINE found(S) == [w \in Pages |->
                            IF new = {} \/ PdIndex(w) # i THEN pte[w]
                            ELSE IF PtIndex(w) \in S THEN Old ELSE NotPresent]
           error(S) == IF table[i] = NotPresent /\ new = {} THEN "OUT_OF_PHYMEM"
                       ELSE IF found(S)[v] # NotPresent THEN "BOUNDS_ERROR"
                       ELSE IF frame = 0 THEN "OUT_OF_PHYMEM" ELSE "none"
<1>7. PICK S \in IF new = {} THEN {{}} ELSE Stale :
          /\ table' = IF new = {} THEN table ELSE [table EXCEPT ![i] = Lowest(new)]
          /\ pte'   = IF error(S) = "none" THEN [found(S) EXCEPT ![v] = frame] ELSE found(S)
          /\ free'  = free \ (new \cup IF error(S) = "none" /\ use.op = "allocateAt"
                                    THEN {frame} ELSE {})
          /\ IF error(S) = "none" THEN Place(c, v) ELSE Fail(c, error(S))
  BY DEF At, v, i, t
<1> DEFINE F == found(S)
           e == error(S)
<1>8. /\ DOMAIN F = Pages /\ F = [w \in Pages |-> F[w]]
      /\ \A w \in Pages : F[w] = pte[w] \/ (F[w] = Old /\ pte[w] = NotPresent)
  <2>1. \A w \in Pages : new # {} /\ PdIndex(w) = i => pte[w] = NotPresent
    BY <1>5 DEF IInv, SpaceInv
  <2> QED
    BY <2>1
<1>9. e = "none" => F[v] = NotPresent /\ frame # 0
  OBVIOUS
<1>10. table' = IF new = {} THEN table ELSE [table EXCEPT ![i] = t]
  <2>1. new # {} => Lowest(new) = t
    <3>1. ASSUME new # {} PROVE Lowest(new) \in new
      BY <1>5, <3>1, LowestIn
    <3> QED
      BY <1>5, <3>1
  <2> HIDE DEF new
  <2> QED
    BY <1>7, <2>1
<1>11. /\ pte' = IF e = "none" THEN [F EXCEPT ![v] = frame] ELSE F
       /\ free' = free \ (new \cup IF e = "none" /\ use.op = "allocateAt" THEN {frame} ELSE {})
       /\ IF e = "none" THEN Place(c, v) ELSE Fail(c, e)
  BY <1>7
<1>12. e = "none" => (frame \in Ram <=> call[c].phys)
  <2>1. RamInv("page", call[c], pte)
    BY <1>1 DEF FramesInv
  <2> QED
    BY <1>1, <1>5, <1>6, <1>9, <2>1 DEF RamInv, Maps, Allocates
<1>13. e = "none" => (new # {} \/ table[i] # NotPresent)
  OBVIOUS
<1> HIDE DEF new, frame, F, e
<1>14. /\ \A w \in Pages : w # v \/ e # "none" => pte'[w] = F[w]
       /\ e = "none" => pte'[v] = frame /\ pte[v] = NotPresent
  BY <1>3, <1>8, <1>9, <1>11, RamFacts DEF Old, NotPresent
<1>15. \A w \in Pages : pte[w] # NotPresent => pte'[w] = pte[w]
  BY <1>8, <1>14
<1>16. RamInv(pc'[c], call'[c], pte') /\ pc'[c] \notin {"drop", "give"}
  <2>1. CASE e = "none"
    <3>1. v \notin Holds("page", call[c])
      BY <1>1, <1>3, <1>14, <1>15, <2>1, FreshPage, PageRam
    <3> QED
      BY <1>1, <1>3, <1>11, <1>12, <1>14, <1>15, <2>1, <3>1, PageRam, PlaceRam DEF IInv
  <2>2. CASE e # "none"
    BY <1>1, <1>11, <1>15, <2>2, PageRam, FailRam DEF IInv
  <2> QED
    BY <2>1, <2>2
<1>17. table' \in [Pd -> Ram \cup {Old, NotPresent}] /\ free' \subseteq Ram
  BY <1>4, <1>5, <1>10, <1>11 DEF FramesInv
<1>18. ASSUME NEW g \in Ram PROVE OneSpot(g)'
  <2>1. OneSpot(g) /\ CallsOf(g)' = CallsOf(g)
    BY <1>1, <1>16, CallsStay DEF FramesInv
  <2>2. \A w \in Pages : F[w] = g <=> pte[w] = g
    BY <1>8, RamFacts
  <2>3. CASE g \in new
    <3>1. g = t /\ new = {t} /\ g \in free /\ table[i] = NotPresent /\ g \notin free'
      BY <1>5, <1>11, <2>3
    <3>2. PagesOf(g) = {} /\ TablesOf(g) = {} /\ CallsOf(g) = {}
      BY <2>1, <3>1 DEF OneSpot
    <3>3. TablesOf(g)' = {i}
      BY <1>4, <1>10, <3>1, <3>2 DEF TablesOf, FramesInv
    <3>4. e = "none" => frame # g
      BY <1>1, <1>6, <1>9, <2>3
    <3>5. PagesOf(g)' = {}
      BY <1>14, <2>2, <3>2, <3>4 DEF PagesOf
    <3> QED
      BY <1>4, <2>1, <3>1, <3>2, <3>3, <3>5 DEF OneSpot
  <2>4. CASE g \notin new /\ e = "none" /\ g = frame
    <3>1. g \in free
      BY <1>1, <1>6, <1>9, <2>4
    <3>2. PagesOf(g) = {} /\ TablesOf(g) = {} /\ CallsOf(g) = {}
      BY <2>1, <3>1 DEF OneSpot
    <3>3. TablesOf(g)' = {}
      BY <1>4, <1>5, <1>10, <2>4, <3>2 DEF TablesOf, FramesInv
    <3>4. use.op = "allocateAt"
      BY <1>1, <1>6, <2>4
    <3>5. PagesOf(g)' = {v} /\ g \notin free'
      BY <1>3, <1>11, <1>14, <2>2, <2>4, <3>2, <3>4 DEF PagesOf
    <3> QED
      BY <1>3, <2>1, <3>2, <3>3, <3>5 DEF OneSpot
  <2>5. CASE g \notin new /\ ~ (e = "none" /\ g = frame)
    <3>1. TablesOf(g)' = TablesOf(g)
      BY <1>4, <1>5, <1>10, <2>5, RamFacts DEF TablesOf, FramesInv
    <3>2. PagesOf(g)' = PagesOf(g)
      BY <1>3, <1>14, <2>2, <2>5, RamFacts DEF PagesOf
    <3>3. g \in free' <=> g \in free
      BY <1>11, <2>5
    <3> QED
      BY <2>1, <3>1, <3>2, <3>3 DEF OneSpot
  <2> QED
    BY <2>3, <2>4, <2>5
<1> QED
  BY <1>16, <1>17, <1>18 DEF Exact

\* The frame of the page goes to the call, if it is to be given back.
LEMMA FreeSingleExact ==
    ASSUME SafeStep, IInv, FramesInv, NEW c \in Callers, Sound(c), FreeSinglePage(c)
    PROVE  Exact(c)
<1> DEFINE q == call[c]
           v == Head(q.todo)
           rest == [q EXCEPT !.todo = Tail(@)]
           back == [rest EXCEPT !.frame = pte[v]]
<1>1. /\ pc[c] = "free" /\ CallInv(c, "free", q) /\ RamInv("free", q, pte)
  BY DEF IInv, FreeSinglePage, FramesInv
<1>2. q \in Calls(c) /\ q.todo \in Seq(Pages) /\ q.todo # <<>> /\ Distinct(q.todo)
  BY <1>1 DEF CallInv, Calls
<1>3. /\ Tail(q.todo) \in Seq(Pages)
      /\ ToSet(Tail(q.todo)) = ToSet(q.todo) \ {v} /\ v \in ToSet(q.todo) /\ v \in Pages
      /\ ToSet(q.todo) \subseteq Pages /\ RunOf(q) \subseteq Pages \ {v}
  BY <1>1, <1>2, TailDistinct, InSet DEF CallInv
<1>4. /\ pte' = [pte EXCEPT ![v] = NotPresent]
      /\ UNCHANGED <<table, free>>
      /\ IF q.phys
         THEN call' = [call EXCEPT ![c] = back] /\ pc' = [pc EXCEPT ![c] = "give"]
         ELSE Finish(c, rest)
  <2>1. q.phys => Reads(PageAt(PdIndex(v), PdIndex(v))) = {pte[v]}
    <3>1. q.phys => pte[v] # NotPresent
      BY <1>1, <1>3, RamFacts DEF RamInv
    <3>2. q.phys => PageAt(PdIndex(v), PdIndex(v)) = v
      BY <1>3, Indices DEF SafeStep
    <3> QED
      BY <3>1, <3>2 DEF Reads
  <2> QED
    BY <2>1 DEF FreeSinglePage
<1>5. /\ rest.todo = Tail(q.todo) /\ rest.use = q.use /\ rest.phys = q.phys
      /\ back.todo = Tail(q.todo) /\ back.use = q.use /\ back.phys = q.phys
      /\ back.frame = pte[v]
      /\ rest.base = q.base /\ rest.cnt = q.cnt /\ back.base = q.base /\ back.cnt = q.cnt
  BY <1>2 DEF Calls
<1>6. pte'[v] = NotPresent /\ \A w \in Pages \ {v} : pte'[w] = pte[w]
  BY <1>3, <1>4 DEF IInv, SpaceTypes
<1>7. q.phys <=> pte[v] \in Ram
  BY <1>1, <1>3 DEF RamInv
<1> HIDE DEF v, rest, back
<1>8. RamInv("free", rest, pte') /\ (q.phys => RamInv("give", back, pte'))
  <2>1. \A w \in RunOf(q) \cup ToSet(Tail(q.todo)) : pte'[w] = pte[w] /\ w \in RunOf(q) \cup ToSet(q.todo)
    BY <1>3, <1>6
  <2>2. RunOf(rest) = RunOf(q) /\ RunOf(back) = RunOf(q)
    BY <1>5 DEF RunOf
  <2> QED
    BY <1>1, <1>5, <1>7, <2>1, <2>2 DEF RamInv
<1>9. CASE q.phys
  <2>1. pc'[c] = "give" /\ call'[c] = back
    BY <1>4, <1>9 DEF IInv, CallTypes
  <2>2. ASSUME NEW f \in Ram PROVE OneSpot(f)'
    <3>1. OneSpot(f) /\ TablesOf(f)' = TablesOf(f) /\ (f \in free' <=> f \in free)
      BY <1>4 DEF FramesInv, TablesOf
    <3>2. c \notin CallsOf(f)
      BY <1>1 DEF CallsOf
    <3>3. CASE f = pte[v]
      <4>1. v \in PagesOf(f)
        BY <1>3, <3>3 DEF PagesOf
      <4>2. PagesOf(f) = {v} /\ TablesOf(f) = {} /\ CallsOf(f) = {} /\ f \notin free
        BY <3>1, <4>1 DEF OneSpot
      <4>3. PagesOf(f)' = {}
        BY <1>6, <4>2, RamFacts DEF PagesOf
      <4>4. CallsOf(f)' = {c}
        BY <1>5, <2>1, <3>3, <4>2, CallsMove
      <4> QED
        BY <3>1, <4>2, <4>3, <4>4 DEF OneSpot
    <3>4. CASE f # pte[v]
      <4>1. PagesOf(f)' = PagesOf(f)
        BY <1>6, <3>4, RamFacts DEF PagesOf
      <4>2. CallsOf(f)' = CallsOf(f)
        BY <1>5, <2>1, <3>2, <3>4, CallsMove
      <4> QED
        BY <3>1, <4>1, <4>2 DEF OneSpot
    <3> QED
      BY <3>3, <3>4
  <2> QED
    BY <1>4, <1>8, <1>9, <2>1, <2>2 DEF Exact, FramesInv
<1>10. CASE ~ q.phys
  <2>1. RamInv(pc'[c], call'[c], pte') /\ pc'[c] \notin {"drop", "give"}
    BY <1>4, <1>8, <1>10, FinishRam DEF IInv
  <2>2. ASSUME NEW f \in Ram PROVE OneSpot(f)'
    <3>1. OneSpot(f) /\ TablesOf(f)' = TablesOf(f) /\ (f \in free' <=> f \in free)
      BY <1>4 DEF FramesInv, TablesOf
    <3>2. CallsOf(f)' = CallsOf(f)
      BY <1>1, <2>1, CallsStay
    <3>3. pte[v] \notin Ram
      BY <1>7, <1>10
    <3>4. PagesOf(f)' = PagesOf(f)
      BY <1>6, <3>3, RamFacts DEF PagesOf
    <3> QED
      BY <3>1, <3>2, <3>4 DEF OneSpot
  <2> QED
    BY <1>4, <2>1, <2>2 DEF Exact, FramesInv
<1> QED
  BY <1>9, <1>10

\* A caller outside takes no frame along.
LEMMA OutsideExact ==
    ASSUME IInv, FramesInv, NEW c \in Callers, Sound(c), UNCHANGED space,
           pc[c] \notin {"drop", "give"}, pc'[c] \notin {"drop", "give"},
           RamInv(pc'[c], call'[c], pte')
    PROVE  Exact(c)
BY CallsStay DEF Exact, FramesInv, OneSpot, TablesOf, PagesOf, space

\* A call begins: no frame moves ...
LEMMA AskExact ==
    ASSUME IInv, FramesInv, NEW c \in Callers, Sound(c),
           NEW use \in Uses[c], Ask(c, use)
    PROVE  Exact(c)
<1> DEFINE b == use.op \in Allocates
           k == [NoCall EXCEPT !.use = use, !.phys = b]
<1>1. pc[c] = "out" /\ pc'[c] = "page" /\ call'[c] = k /\ UNCHANGED space
  BY DEF Ask, IInv, CallTypes, Allocates
<1>2. k.use = use /\ k.todo = <<>> /\ k.phys = b /\ k.cnt = 0
  BY DEF NoCall
<1>3. ToSet(k.todo) = {} /\ RunOf(k) = {}
  BY <1>2 DEF ToSet, RunOf
<1> HIDE DEF k
<1>4. RamInv("page", k, pte')
  BY <1>2, <1>3 DEF RamInv, Maps, Allocates
<1> QED
  BY <1>1, <1>4, OutsideExact

\* ... nor when it is a call to free.
LEMMA FreeExact ==
    ASSUME IInv, FramesInv, NEW c \in Callers, Sound(c), NEW v \in DOMAIN owned[c],
           NEW len \in Nat \ {0}, NEW phys \in BOOLEAN, Free(c, v, len, phys)
    PROVE  Exact(c)
<1> DEFINE s == [n \in 1 .. len |-> v + n - 1]
           V == v .. (v + len - 1)
           k == [NoCall EXCEPT !.todo = s, !.phys = phys]
<1>1. /\ pc[c] = "out" /\ pc'[c] = "free" /\ call'[c] = k /\ UNCHANGED space
      /\ \A w \in V : w \in DOMAIN owned[c] /\ (owned[c][w] \in Ram <=> phys)
  BY DEF Free, IInv, CallTypes
<1>2. v \in Nat
  BY ConstantFacts DEF IInv, MapInv
<1>3. \A w \in V : pte[w] = owned[c][w]
  BY <1>1 DEF IInv, MapInv
<1>4. ToSet(s) \subseteq V
  BY <1>2 DEF ToSet
<1>5. k.use = NoUse /\ k.todo = s /\ k.phys = phys /\ k.cnt = 0
  BY DEF NoCall
<1> HIDE DEF k, s, V
<1>6. /\ \A w \in ToSet(s) : pte'[w] \in Ram <=> phys
      /\ RunOf(k) = {}
  BY <1>1, <1>3, <1>4, <1>5 DEF space, RunOf
<1>7. RamInv("free", k, pte')
  BY <1>5, <1>6 DEF RamInv, NoUse, Maps, Allocates
<1> QED
  BY <1>1, <1>7, OutsideExact
------------------------------------------------------------------------------
(* The theorems. *)

\* Every step is a sound step of one caller that moves frames exactly.
LEMMA NextExact ==
    ASSUME SafeStep, IInv, FramesInv, Next
    PROVE  \E c \in Callers : Sound(c) /\ Exact(c)
<1>1. PICK c \in Callers :
        \/ Step(c)
        \/ \E use \in Uses[c] : Ask(c, use)
        \/ \E v \in DOMAIN owned[c], len \in {use.len : use \in Uses[c]},
              phys \in BOOLEAN : Free(c, v, len, phys)
  BY DEF Next
<1>2. CASE AllocateSinglePage(c)
  <2>1. Sound(c) /\ pc[c] = "page" /\ call[c].use.op \in {"allocate", "map"}
    BY <1>2, AllocateStep DEF AllocateSinglePage
  <2>2. \/ NoPage(c, call[c].use.attr)
        \/ \E i \in Pd : \/ PageInTable(c, call[c].use.attr, i)
                         \/ PageInNewTable(c, call[c].use.attr, i)
    BY <1>2 DEF AllocateSinglePage
  <2> QED
    BY <2>1, <2>2, NoPageExact, PageInTableExact, PageInNewTableExact
<1>3. CASE SwapFrame(c)
  BY <1>3, SwapStep, SwapExact
<1>4. CASE DropFrame(c)
  BY <1>4, DropStep, DropExact
<1>5. CASE At(c)
  BY <1>5, AtStep, AtExact
<1>6. CASE FreeSinglePage(c)
  BY <1>6, FreeSingleStep, FreeSingleExact
<1>7. CASE GiveFrame(c)
  BY <1>7, GiveStep, GiveExact
<1>8. CASE \E use \in Uses[c] : Ask(c, use)
  BY <1>8, AskStep, AskExact
<1>9. ASSUME NEW v \in DOMAIN owned[c], NEW len \in {use.len : use \in Uses[c]},
             NEW phys \in BOOLEAN, Free(c, v, len, phys)
      PROVE  Sound(c) /\ Exact(c)
  <2>1. len \in Nat \ {0}
    BY LensOK
  <2> QED
    BY <1>9, <2>1, FreeStep, FreeExact
<1> QED
  BY <1>1, <1>2, <1>3, <1>4, <1>5, <1>6, <1>7, <1>8, <1>9 DEF Step

\* Initially every frame is free ...
LEMMA InitFrames == Init => FramesInv
<1> SUFFICES ASSUME Init PROVE FramesInv
  OBVIOUS
<1>1. table \in [Pd -> Ram \cup {Old, NotPresent}] /\ free \subseteq Ram
  BY DEF Init
<1>2. ASSUME NEW c \in Callers PROVE RamInv(pc[c], call[c], pte)
  BY NoCallIs DEF Init, RamInv, NoCall, NoUse, Maps, Allocates
<1>3. ASSUME NEW f \in Ram PROVE OneSpot(f)
  BY <1>2, RamFacts DEF Init, OneSpot, TablesOf, PagesOf, CallsOf
<1> QED
  BY <1>1, <1>2, <1>3 DEF FramesInv

\* ... and every step keeps each in one place.
LEMMA StepFrames == IInv /\ FramesInv /\ [Next]_vars /\ [SafeStep]_vars => FramesInv'
<1> SUFFICES ASSUME IInv, FramesInv, [Next]_vars, [SafeStep]_vars PROVE FramesInv'
  OBVIOUS
<1>1. CASE Next /\ SafeStep
  BY <1>1, NextExact, ExactKeeps
<1>2. CASE UNCHANGED vars
  <2> USE <1>2 DEF vars, space
  <2>1. (\A c \in Callers : RamInv(pc[c], call[c], pte))'
    BY DEF FramesInv, RamInv
  <2>2. \A f \in Ram : OneSpot(f)'
    BY DEF FramesInv, OneSpot, TablesOf, PagesOf, CallsOf
  <2> QED
    BY <2>1, <2>2 DEF FramesInv
<1> QED
  BY <1>1, <1>2

\* While every step is safe, the places of frames and the contents of calls stay as
\* said, for any interleaving.
THEOREM FramesInvariantHolds == Spec /\ [][SafeStep]_vars => []FramesInv
BY StepFrames, InitFrames, InvariantHolds, PTL DEF Spec

\* With one frame in one spot, the set that Places counts is a singleton.
LEMMA OneSpotIsOnePlace ==
    ASSUME NEW f, OneSpot(f)
    PROVE  Places(f) = 1
<1> DEFINE P == {<<"table", i>> : i \in TablesOf(f)} \cup {<<"page", v>> : v \in PagesOf(f)}
                \cup {<<"call", c>> : c \in CallsOf(f)}
                \cup {<<"free", x>> : x \in free \cap {f}}
<1>1. Places(f) = Cardinality(P)
  BY DEF Places, TablesOf, PagesOf, CallsOf
<1>2. \E x : P = {x}
  <2>1. CASE (\E i \in Pd : TablesOf(f) = {i}) /\ PagesOf(f) = {} /\ CallsOf(f) = {} /\ f \notin free
    <3>1. PICK i : TablesOf(f) = {i}
      BY <2>1
    <3>2. P = {<<"table", i>>}
      BY <2>1, <3>1
    <3> QED
      BY <3>2
  <2>2. CASE TablesOf(f) = {} /\ (\E v \in Pages : PagesOf(f) = {v}) /\ CallsOf(f) = {} /\ f \notin free
    <3>1. PICK v : PagesOf(f) = {v}
      BY <2>2
    <3>2. P = {<<"page", v>>}
      BY <2>2, <3>1
    <3> QED
      BY <3>2
  <2>3. CASE TablesOf(f) = {} /\ PagesOf(f) = {} /\ (\E c \in Callers : CallsOf(f) = {c}) /\ f \notin free
    <3>1. PICK c : CallsOf(f) = {c}
      BY <2>3
    <3>2. P = {<<"call", c>>}
      BY <2>3, <3>1
    <3> QED
      BY <3>2
  <2>4. CASE TablesOf(f) = {} /\ PagesOf(f) = {} /\ CallsOf(f) = {} /\ f \in free
    <3>2. P = {<<"free", f>>}
      BY <2>4
    <3> QED
      BY <3>2
  <2> HIDE DEF P
  <2> QED
    BY <2>1, <2>2, <2>3, <2>4 DEF OneSpot
<1> HIDE DEF P
<1> QED
  BY <1>1, <1>2, FS_Singleton

\* While every step is safe, every frame of the physical manager is in exactly one
\* place, free, a table, a page or a call's hands: allocations of any length, the
\* frames mappings swap out, regions that start over, failures that give back what
\* was gathered, and frees lose none and use none twice.  A state says nothing of
\* later steps, so this holds up to the first free that reads another page's frame,
\* or mapping of one of the manager's own.
THEOREM FramesStayExact == Spec /\ [][SafeStep]_vars => []FramesExact
<1>1. FramesInv => FramesExact
  BY OneSpotIsOnePlace DEF FramesInv, FramesExact
<1> QED
  BY <1>1, FramesInvariantHolds, PTL

\* While every step is safe, entries, free frames, calls and owned pages have their
\* types: a directory entry is never anything but a frame the physical manager gave,
\* and what is freed was its own.
THEOREM TypeCorrect == Spec /\ [][SafeStep]_vars => []TypeOK
<1>1. IInv /\ FramesInv => TypeOK
  <2> SUFFICES ASSUME IInv, FramesInv PROVE TypeOK
    OBVIOUS
  <2>1. pte \in [Pages -> Nat \cup {Old, NotPresent}]
    BY DEF IInv, SpaceTypes, Frame
  <2>2. ASSUME NEW c \in Callers
        PROVE  /\ DOMAIN owned[c] \subseteq Pages /\ call[c].use \in Uses[c] \cup {NoUse}
               /\ ToSet(call[c].todo) \subseteq Pages
    <3>1. call[c] \in Calls(c) /\ DOMAIN owned[c] \subseteq Pages
      BY DEF IInv, CallInv, MapInv
    <3>2. call[c].todo \in Seq(Pages) /\ call[c].use \in Uses[c] \cup {NoUse}
      BY <3>1 DEF Calls
    <3> QED
      BY <3>1, <3>2, InSet
  <2> QED
    BY <2>1, <2>2 DEF IInv, SpaceTypes, CallTypes, Points, FramesInv, TypeOK
<1> QED
  BY <1>1, InvariantHolds, FramesInvariantHolds, PTL
==============================================================================
