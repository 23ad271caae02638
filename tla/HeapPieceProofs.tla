------------------------- MODULE HeapPieceProofs -------------------------
(***************************************************************************)
(* The helpers of ChaiOS/liballoc.cpp, for any heap they may be called on: *)
(* what each stores, and that it leaves the free lists linked, the blocks  *)
(* tiled by their pieces, and the counts and regions as malloc and free    *)
(* rely on.  A helper works under a precondition of its own (remove_tag on *)
(* a tag that is in a list, insert_tag on one with no free neighbour, ...),*)
(* which HeapProofs shows at every call.                                   *)
(***************************************************************************)
EXTENDS Heap, FiniteSetTheorems, TLAPS

\* The heap records the operators work on: any tags at any addresses but NULL.
Heaps == [tags : UNION {[D -> Tag] : D \in SUBSET (Nat \ {NULL})},
          free : [Classes -> Nat], complete : [Classes -> Int],
          mapped : SUBSET Pages]

\* Membership in Heaps, field by field.
LEMMA HeapsAre ==
    ASSUME NEW h
    PROVE  h \in Heaps <=>
              /\ h = [tags |-> h.tags, free |-> h.free, complete |-> h.complete,
                      mapped |-> h.mapped]
              /\ h.tags \in [DOMAIN h.tags -> Tag]
              /\ DOMAIN h.tags \subseteq Nat \ {NULL}
              /\ h.free \in [Classes -> Nat]
              /\ h.complete \in [Classes -> Int]
              /\ h.mapped \subseteq Pages
<1>1. h.tags \in UNION {[D -> Tag] : D \in SUBSET (Nat \ {NULL})}
      <=> h.tags \in [DOMAIN h.tags -> Tag] /\ DOMAIN h.tags \subseteq Nat \ {NULL}
  OBVIOUS
<1>2. ASSUME h \in Heaps
      PROVE  h = [tags |-> h.tags, free |-> h.free, complete |-> h.complete,
                  mapped |-> h.mapped]
  BY <1>2 DEF Heaps
<1> DEFINE TT == UNION {[D -> Tag] : D \in SUBSET (Nat \ {NULL})}
<1>3. h \in Heaps <=> h \in [tags : TT, free : [Classes -> Nat], complete : [Classes -> Int],
          mapped : SUBSET Pages]
  BY DEF Heaps
<1> HIDE DEF TT
<1>4. h \in Heaps <=>
         /\ h = [tags |-> h.tags, free |-> h.free, complete |-> h.complete,
                      mapped |-> h.mapped]
         /\ h.tags \in TT
         /\ h.free \in [Classes -> Nat]
         /\ h.complete \in [Classes -> Int]
         /\ h.mapped \subseteq Pages
  BY <1>3
<1> QED
  BY <1>1, <1>4 DEF TT

\* What HeapSizesOK says of each constant, and of the classes.
LEMMA ConstantFacts ==
    /\ Hdr \in Nat /\ Hdr >= 1
    /\ PageSize \in Nat /\ PageSize >= 1
    /\ PageCount \in Nat /\ PageCount >= 1
    /\ MinExp \in Nat /\ MaxExp \in Nat /\ MinExp < MaxExp
    /\ Classes \subseteq Nat
    /\ MinExp \in Classes
    /\ \A i \in Classes : i # -1 /\ ~(i < 0)
    /\ Sizes \subseteq Nat \ {0}
    /\ Pages \subseteq Nat \ {0}
    /\ MaxComplete \in Nat
  BY HeapSizesOK DEF Classes

\* The types of the fields of a tag of a heap.
LEMMA TagFields ==
    ASSUME NEW h \in Heaps, NEW u \in DOMAIN h.tags
    PROVE  /\ u \in Nat /\ u # NULL
           /\ h.tags[u] \in Tag
           /\ h.tags[u].real_size \in Nat /\ h.tags[u].size \in Nat
           /\ h.tags[u].index \in Int /\ (h.tags[u].index = -1 \/ h.tags[u].index \in Classes)
           /\ h.tags[u].next \in Nat /\ h.tags[u].prev \in Nat
           /\ h.tags[u].split_left \in Nat /\ h.tags[u].split_right \in Nat
<1>1. h.tags[u] \in Tag /\ u \in Nat /\ u # NULL
  BY HeapsAre
<1>2. \A x \in Tag : /\ x.real_size \in Nat /\ x.size \in Nat
                      /\ x.next \in Nat /\ x.prev \in Nat
                      /\ x.split_left \in Nat /\ x.split_right \in Nat
                      /\ x.index \in {-1} \cup Classes
  BY DEF Tag, Addresses
<1>3. \A i \in {-1} \cup Classes : i \in Int /\ (i = -1 \/ i \in Classes)
  BY ConstantFacts
<1> QED
  BY <1>1, <1>2, <1>3
------------------------------------------------------------------------------
(* One store into a tag.                                                   *)

\* Storing next leaves every other field of a boundary_tag alone.
LEMMA SetNext ==
    ASSUME NEW x \in Tag, NEW v \in Nat
    PROVE  LET y == [x EXCEPT !.next = v] IN
             /\ y \in Tag
             /\ y.real_size = x.real_size
             /\ y.size = x.size
             /\ y.index = x.index
             /\ y.next = v
             /\ y.prev = x.prev
             /\ y.split_left = x.split_left
             /\ y.split_right = x.split_right
  BY DEF Tag, Addresses

\* Storing prev leaves every other field alone.
LEMMA SetPrev ==
    ASSUME NEW x \in Tag, NEW v \in Nat
    PROVE  LET y == [x EXCEPT !.prev = v] IN
             /\ y \in Tag
             /\ y.real_size = x.real_size
             /\ y.size = x.size
             /\ y.index = x.index
             /\ y.next = x.next
             /\ y.prev = v
             /\ y.split_left = x.split_left
             /\ y.split_right = x.split_right
  BY DEF Tag, Addresses

\* Storing index leaves every other field alone.
LEMMA SetIndex ==
    ASSUME NEW x \in Tag, NEW v \in Classes
    PROVE  LET y == [x EXCEPT !.index = v] IN
             /\ y \in Tag
             /\ y.real_size = x.real_size
             /\ y.size = x.size
             /\ y.index = v
             /\ y.next = x.next
             /\ y.prev = x.prev
             /\ y.split_left = x.split_left
             /\ y.split_right = x.split_right
  BY DEF Tag, Addresses

\* Storing size leaves every other field alone.
LEMMA SetSize ==
    ASSUME NEW x \in Tag, NEW v \in Nat
    PROVE  LET y == [x EXCEPT !.size = v] IN
             /\ y \in Tag
             /\ y.real_size = x.real_size
             /\ y.size = v
             /\ y.index = x.index
             /\ y.next = x.next
             /\ y.prev = x.prev
             /\ y.split_left = x.split_left
             /\ y.split_right = x.split_right
  BY DEF Tag, Addresses

\* Storing split_left leaves every other field alone.
LEMMA SetLeft ==
    ASSUME NEW x \in Tag, NEW v \in Nat
    PROVE  LET y == [x EXCEPT !.split_left = v] IN
             /\ y \in Tag
             /\ y.real_size = x.real_size
             /\ y.size = x.size
             /\ y.index = x.index
             /\ y.next = x.next
             /\ y.prev = x.prev
             /\ y.split_left = v
             /\ y.split_right = x.split_right
  BY DEF Tag, Addresses

\* remove_tag takes a tag off its list: next, prev and index are cleared.
LEMMA ClearLinks ==
    ASSUME NEW x \in Tag
    PROVE  LET y == [x EXCEPT !.next = NULL, !.prev = NULL, !.index = -1] IN
             /\ y \in Tag
             /\ y.real_size = x.real_size
             /\ y.size = x.size
             /\ y.index = -1
             /\ y.next = NULL
             /\ y.prev = NULL
             /\ y.split_left = x.split_left
             /\ y.split_right = x.split_right
  BY DEF Tag, Addresses, NULL

\* melt_left and absorb_right store real_size and split_right together.
LEMMA SetExtent ==
    ASSUME NEW x \in Tag, NEW v \in Nat, NEW w \in Nat
    PROVE  /\ [x EXCEPT !.real_size = v, !.split_right = w]
                = [real_size |-> v, size |-> x.size, index |-> x.index,
                   next |-> x.next, prev |-> x.prev,
                   split_left |-> x.split_left, split_right |-> w]
           /\ [x EXCEPT !.real_size = v, !.split_right = w] \in Tag
<1>1. ASSUME NEW y, y = [x EXCEPT !.real_size = v, !.split_right = w]
      PROVE  y = [real_size |-> v, size |-> x.size, index |-> x.index,
                  next |-> x.next, prev |-> x.prev,
                  split_left |-> x.split_left, split_right |-> w]
  BY <1>1 DEF Tag
<1>2. [x EXCEPT !.real_size = v, !.split_right = w] \in Tag
  BY DEF Tag, Addresses
<1> QED
  BY <1>1, <1>2

\* split_tag stores the same two the other way round.
LEMMA SetExtentRightFirst ==
    ASSUME NEW x \in Tag, NEW v \in Nat, NEW w \in Nat
    PROVE  /\ [x EXCEPT !.split_right = w, !.real_size = v]
                = [real_size |-> v, size |-> x.size, index |-> x.index,
                   next |-> x.next, prev |-> x.prev,
                   split_left |-> x.split_left, split_right |-> w]
           /\ [x EXCEPT !.split_right = w, !.real_size = v] \in Tag
<1>1. ASSUME NEW y, y = [x EXCEPT !.split_right = w, !.real_size = v]
      PROVE  y = [real_size |-> v, size |-> x.size, index |-> x.index,
                  next |-> x.next, prev |-> x.prev,
                  split_left |-> x.split_left, split_right |-> w]
  BY <1>1 DEF Tag
<1>2. [x EXCEPT !.split_right = w, !.real_size = v] \in Tag
  BY DEF Tag, Addresses
<1> QED
  BY <1>1, <1>2
------------------------------------------------------------------------------
(* What each helper of liballoc.cpp stores, tag by tag.                      *)

\* What remove_tag stores in each tag and each list head, for a tag that is in a
\* list and is not its own neighbour there.
LEMMA RemoveShape ==
    ASSUME NEW h \in Heaps, NEW t \in DOMAIN h.tags, h.tags[t].index \in Classes,
           h.tags[t].next # t, h.tags[t].prev # t,
           h.tags[t].prev # NULL => h.tags[t].prev # h.tags[t].next,
           NEW g, g = remove_tag(h, t)
    PROVE  /\ g \in Heaps
           /\ DOMAIN g.tags = DOMAIN h.tags
           /\ g.mapped = h.mapped /\ g.complete = h.complete
           /\ \A i \in Classes : g.free[i] = IF i = h.tags[t].index /\ h.free[i] = t
                                             THEN h.tags[t].next ELSE h.free[i]
           /\ \A u \in DOMAIN h.tags :
                 /\ g.tags[u].real_size = h.tags[u].real_size
                 /\ g.tags[u].size = h.tags[u].size
                 /\ g.tags[u].split_left = h.tags[u].split_left
                 /\ g.tags[u].split_right = h.tags[u].split_right
                 /\ g.tags[u].index = IF u = t THEN -1 ELSE h.tags[u].index
                 /\ g.tags[u].next = IF u = t THEN NULL
                                     ELSE IF u = h.tags[t].prev THEN h.tags[t].next
                                     ELSE h.tags[u].next
                 /\ g.tags[u].prev = IF u = t THEN NULL
                                     ELSE IF u = h.tags[t].next THEN h.tags[t].prev
                                     ELSE h.tags[u].prev
<1> DEFINE D == DOMAIN h.tags
           tag == h.tags[t]
           New(u) == CASE u = t        -> [tag EXCEPT !.next = NULL, !.prev = NULL, !.index = -1]
                       [] u = tag.prev -> [h.tags[u] EXCEPT !.next = tag.next]
                       [] u = tag.next -> [h.tags[u] EXCEPT !.prev = tag.prev]
                       [] OTHER        -> h.tags[u]
           gt == [u \in D |-> New(u)]
           gf == [h.free EXCEPT ![tag.index] = IF @ = t THEN tag.next ELSE @]
<1>h. /\ h = [tags |-> h.tags, free |-> h.free, complete |-> h.complete, mapped |-> h.mapped]
      /\ h.free \in [Classes -> Nat] /\ h.complete \in [Classes -> Int] /\ h.mapped \subseteq Pages
      /\ D \subseteq Nat \ {NULL}
  BY HeapsAre
<1>1. g = [h EXCEPT !.free = gf, !.tags = gt]
  BY DEF remove_tag
<1>2. g = [tags |-> gt, free |-> gf, complete |-> h.complete, mapped |-> h.mapped]
  <2> HIDE DEF gt, gf
  <2> QED BY <1>1, <1>h
<1>3. g.tags = gt /\ g.free = gf /\ g.complete = h.complete /\ g.mapped = h.mapped
  <2> HIDE DEF gt, gf
  <2> QED BY <1>2
<1>4. ASSUME NEW u \in D
      PROVE  /\ New(u) \in Tag
             /\ New(u).real_size = h.tags[u].real_size
             /\ New(u).size = h.tags[u].size
             /\ New(u).split_left = h.tags[u].split_left
             /\ New(u).split_right = h.tags[u].split_right
             /\ New(u).index = IF u = t THEN -1 ELSE h.tags[u].index
             /\ New(u).next = IF u = t THEN NULL
                                     ELSE IF u = h.tags[t].prev THEN h.tags[t].next
                                     ELSE h.tags[u].next
             /\ New(u).prev = IF u = t THEN NULL
                                     ELSE IF u = h.tags[t].next THEN h.tags[t].prev
                                     ELSE h.tags[u].prev
  <2>0. u # NULL
    BY <1>h
  <2>1. h.tags[u] \in Tag /\ h.tags[t] \in Tag
    BY HeapsAre
  <2>a. CASE u = t
    <3>1. New(u) = [tag EXCEPT !.next = NULL, !.prev = NULL, !.index = -1]
      BY <2>a, <2>0
    <3> HIDE DEF New
    <3> QED
      BY <3>1, <2>1, <2>a, ClearLinks
  <2>b. CASE u # t /\ u = tag.prev
    <3>1. New(u) = [h.tags[u] EXCEPT !.next = tag.next]
      BY <2>b, <2>0
    <3> HIDE DEF New
    <3> QED
      BY <3>1, <2>1, <2>b, SetNext, TagFields
  <2>c. CASE u # t /\ u = tag.next
    <3>1. New(u) = [h.tags[u] EXCEPT !.prev = tag.prev]
      BY <2>c, <2>0
    <3> HIDE DEF New
    <3> QED
      BY <3>1, <2>1, <2>c, SetPrev, TagFields
  <2>d. CASE u # t /\ u # tag.prev /\ u # tag.next
    <3>1. New(u) = h.tags[u]
      BY <2>d, <2>0
    <3> HIDE DEF New
    <3> QED
      BY <3>1, <2>1, <2>d
  <2> HIDE DEF New
  <2> QED
    BY <2>a, <2>b, <2>c, <2>d
<1>5. gt \in [D -> Tag] /\ gf \in [Classes -> Nat]
  <2>1. tag.next \in Nat
    BY TagFields
  <2> QED
  BY <1>4, <1>h, <2>1
<1>6. g \in Heaps
  <2>1. DOMAIN g.tags = D
    BY <1>3
  <2> HIDE DEF gt, gf, D
  <2> QED
  BY <1>2, <1>3, <1>5, <1>h, <2>1, HeapsAre
<1>7. \A i \in Classes : gf[i] = IF i = tag.index /\ h.free[i] = t THEN tag.next ELSE h.free[i]
  BY <1>h
<1>8. DOMAIN gt = D /\ \A u \in D : gt[u] = New(u)
  OBVIOUS
<1> HIDE DEF New, gt, gf
<1> QED
  BY <1>3, <1>4, <1>6, <1>7, <1>8

\* What insert_tag stores, for a tag that has no next and a class whose head is
\* NULL or another tag.
LEMMA InsertShape ==
    ASSUME NEW h \in Heaps, NEW t \in DOMAIN h.tags, NEW index \in Int, NEW k \in Classes,
           k = IF index < 0 THEN Class(Usable(h, t)) ELSE index,
           h.free[k] # NULL => h.free[k] \in DOMAIN h.tags /\ h.free[k] # t,
           h.tags[t].next = NULL,
           NEW g, g = insert_tag(h, t, index)
    PROVE  /\ g \in Heaps
           /\ DOMAIN g.tags = DOMAIN h.tags
           /\ g.mapped = h.mapped /\ g.complete = h.complete
           /\ \A i \in Classes : g.free[i] = IF i = k THEN t ELSE h.free[i]
           /\ \A u \in DOMAIN h.tags :
                 /\ g.tags[u].real_size = h.tags[u].real_size
                 /\ g.tags[u].size = h.tags[u].size
                 /\ g.tags[u].split_left = h.tags[u].split_left
                 /\ g.tags[u].split_right = h.tags[u].split_right
                 /\ g.tags[u].index = IF u = t THEN k ELSE h.tags[u].index
                 /\ g.tags[u].next = IF u = t THEN h.free[k] ELSE h.tags[u].next
                 /\ g.tags[u].prev = IF u = h.free[k] THEN t ELSE h.tags[u].prev
<1> DEFINE D == DOMAIN h.tags
           first == h.free[k]
           indexed == [h.tags[t] EXCEPT !.index = k]
           gf == [h.free EXCEPT ![k] = t]
<1>h. /\ h = [tags |-> h.tags, free |-> h.free, complete |-> h.complete, mapped |-> h.mapped]
      /\ h.tags \in [D -> Tag]
      /\ h.free \in [Classes -> Nat] /\ h.complete \in [Classes -> Int] /\ h.mapped \subseteq Pages
      /\ D \subseteq Nat \ {NULL}
  BY HeapsAre
<1>i. /\ indexed \in Tag /\ indexed.index = k /\ indexed.next = h.tags[t].next
      /\ indexed.prev = h.tags[t].prev /\ indexed.size = h.tags[t].size
      /\ indexed.real_size = h.tags[t].real_size
      /\ indexed.split_left = h.tags[t].split_left
      /\ indexed.split_right = h.tags[t].split_right
  BY <1>h, SetIndex
<1>f. gf \in [Classes -> Nat] /\ \A i \in Classes : gf[i] = IF i = k THEN t ELSE h.free[i]
  BY <1>h
<1>a. CASE first = NULL
  <2> DEFINE gt == [h.tags EXCEPT ![t] = indexed]
  <2>1. g = [h EXCEPT !.tags = gt, !.free = gf]
    BY <1>a DEF insert_tag
  <2>2. /\ g = [tags |-> gt, free |-> gf, complete |-> h.complete, mapped |-> h.mapped]
        /\ g.tags = gt /\ g.free = gf /\ g.complete = h.complete /\ g.mapped = h.mapped
    <3> HIDE DEF gt, gf
    <3> QED
      BY <2>1, <1>h
  <2>3. gt \in [D -> Tag] /\ \A u \in D : gt[u] = IF u = t THEN indexed ELSE h.tags[u]
    <3> HIDE DEF indexed
    <3> QED
      BY <1>h, <1>i
  <2> HIDE DEF gt, gf
  <2>4. DOMAIN g.tags = D
    BY <2>2, <2>3
  <2>5. g \in Heaps
    BY <2>2, <2>3, <2>4, <1>h, <1>f, HeapsAre
  <2>6. \A u \in D : u # first
    BY <1>a, <1>h
  <2> HIDE DEF indexed, D
  <2> QED
    BY <2>2, <2>3, <2>4, <2>5, <2>6, <1>f, <1>i, <1>a DEF D
<1>b. CASE first # NULL
  <2> DEFINE told == [h.tags[first] EXCEPT !.prev = t]
             linked == [indexed EXCEPT !.next = first]
             gt == [[[h.tags EXCEPT ![t] = indexed] EXCEPT ![first] = [@ EXCEPT !.prev = t]]
                       EXCEPT ![t] = [@ EXCEPT !.next = first]]
  <2>1. g = [h EXCEPT !.tags = gt, !.free = gf]
    BY <1>b DEF insert_tag
  <2>2. /\ g = [tags |-> gt, free |-> gf, complete |-> h.complete, mapped |-> h.mapped]
        /\ g.tags = gt /\ g.free = gf /\ g.complete = h.complete /\ g.mapped = h.mapped
    <3> HIDE DEF gt, gf
    <3> QED
      BY <2>1, <1>h
  <2>t. /\ told \in Tag /\ told.index = h.tags[first].index /\ told.next = h.tags[first].next
        /\ told.prev = t /\ told.size = h.tags[first].size
        /\ told.real_size = h.tags[first].real_size
        /\ told.split_left = h.tags[first].split_left
        /\ told.split_right = h.tags[first].split_right
    BY <1>h, <1>b, SetPrev
  <2>l. /\ linked \in Tag /\ linked.index = k /\ linked.next = first
        /\ linked.prev = h.tags[t].prev /\ linked.size = h.tags[t].size
        /\ linked.real_size = h.tags[t].real_size
        /\ linked.split_left = h.tags[t].split_left
        /\ linked.split_right = h.tags[t].split_right
    <3>1. first \in Nat
      BY <1>h
    <3> HIDE DEF indexed
    <3> QED
      BY <1>i, <3>1, SetNext
  <2>3. /\ gt \in [D -> Tag]
        /\ \A u \in D : gt[u] = IF u = t THEN linked ELSE IF u = first THEN told ELSE h.tags[u]
    <3>1. first \in D /\ first # t
      BY <1>b
    <3>2. gt = [u \in D |-> IF u = t THEN linked ELSE IF u = first THEN told ELSE h.tags[u]]
      <4>1. h.tags = [u \in D |-> h.tags[u]]
        BY <1>h
      <4> HIDE DEF indexed
      <4>2. [h.tags EXCEPT ![t] = indexed] = [u \in D |-> IF u = t THEN indexed ELSE h.tags[u]]
        BY <4>1
      <4> DEFINE g1 == [h.tags EXCEPT ![t] = indexed]
      <4>3. [g1 EXCEPT ![first] = [@ EXCEPT !.prev = t]] =
              [u \in D |-> IF u = t THEN indexed ELSE IF u = first THEN told ELSE h.tags[u]]
        <5>1. g1[first] = h.tags[first]
          BY <4>2, <3>1
        <5>2. g1 = [u \in D |-> g1[u]]
          BY <4>2
        <5>3. \A u \in D : g1[u] = IF u = t THEN indexed ELSE h.tags[u]
          BY <4>2
        <5> HIDE DEF g1
        <5>4. [g1[first] EXCEPT !.prev = t] = told
          BY <5>1
        <5>5. [g1 EXCEPT ![first] = told] = [u \in D |-> IF u = first THEN told ELSE g1[u]]
          <6> HIDE DEF told
          <6> QED
            BY <5>2, <3>1
        <5> HIDE DEF told
        <5> QED
          BY <5>3, <5>4, <5>5, <3>1
      <4> DEFINE g2 == [g1 EXCEPT ![first] = [@ EXCEPT !.prev = t]]
      <4>4. g2 = [u \in D |-> IF u = t THEN indexed ELSE IF u = first THEN told ELSE h.tags[u]]
        BY <4>3
      <4> HIDE DEF g2, told
      <4>5. g2[t] = indexed
        BY <4>4
      <4>6. [g2 EXCEPT ![t] = [@ EXCEPT !.next = first]] =
              [u \in D |-> IF u = t THEN linked ELSE g2[u]]
        <5>1. [g2[t] EXCEPT !.next = first] = linked
          BY <4>5
        <5>2. g2 = [u \in D |-> g2[u]]
          BY <4>4
        <5> HIDE DEF linked
        <5> QED
          BY <5>1, <5>2
      <4>7. gt = [g2 EXCEPT ![t] = [@ EXCEPT !.next = first]]
        BY DEF g2
      <4> HIDE DEF gt, linked
      <4> QED
        BY <4>4, <4>6, <4>7
    <3> HIDE DEF gt, linked, told
    <3> QED
      BY <3>2, <2>t, <2>l, <1>h
  <2> HIDE DEF gt, gf
  <2>4. DOMAIN g.tags = D
    BY <2>2, <2>3
  <2>5. g \in Heaps
    BY <2>2, <2>3, <2>4, <1>h, <1>f, HeapsAre
  <2>6. first # t
    BY <1>b
  <2> HIDE DEF indexed, D, linked, told
  <2> QED
    BY <2>2, <2>3, <2>4, <2>5, <2>6, <2>t, <2>l, <1>f, <1>b DEF D
<1> QED
  BY <1>a, <1>b

\* What melting a piece with its right neighbour stores.
LEMMA JoinShape ==
    ASSUME NEW h \in Heaps, NEW l \in DOMAIN h.tags, NEW r \in DOMAIN h.tags, l # r,
           h.tags[r].split_right # l,
           NEW g, g = Join(h, l, r)
    PROVE  /\ g \in Heaps
           /\ DOMAIN g.tags = DOMAIN h.tags \ {r}
           /\ g.free = h.free /\ g.mapped = h.mapped /\ g.complete = h.complete
           /\ \A u \in DOMAIN h.tags \ {r} :
                 /\ g.tags[u].real_size = IF u = l THEN h.tags[l].real_size + h.tags[r].real_size
                                          ELSE h.tags[u].real_size
                 /\ g.tags[u].size = h.tags[u].size
                 /\ g.tags[u].index = h.tags[u].index
                 /\ g.tags[u].next = h.tags[u].next
                 /\ g.tags[u].prev = h.tags[u].prev
                 /\ g.tags[u].split_left = IF u = h.tags[r].split_right THEN l
                                           ELSE h.tags[u].split_left
                 /\ g.tags[u].split_right = IF u = l THEN h.tags[r].split_right
                                            ELSE h.tags[u].split_right
<1> DEFINE D == DOMAIN h.tags
           beyond == h.tags[r].split_right
           size == h.tags[l].real_size + h.tags[r].real_size
           New(u) == CASE u = l      -> [h.tags[u] EXCEPT !.real_size = size,
                                                          !.split_right = beyond]
                       [] u = beyond -> [h.tags[u] EXCEPT !.split_left = l]
                       [] OTHER      -> h.tags[u]
           gt == [u \in D \ {r} |-> New(u)]
<1>h. /\ h = [tags |-> h.tags, free |-> h.free, complete |-> h.complete, mapped |-> h.mapped]
      /\ h.tags \in [D -> Tag]
      /\ h.free \in [Classes -> Nat] /\ h.complete \in [Classes -> Int] /\ h.mapped \subseteq Pages
      /\ D \subseteq Nat \ {NULL}
  BY HeapsAre
<1>1. g = [h EXCEPT !.tags = gt]
  BY DEF Join
<1>2. g = [tags |-> gt, free |-> h.free, complete |-> h.complete, mapped |-> h.mapped]
  <2> HIDE DEF gt
  <2> QED BY <1>1, <1>h
<1>3. g.tags = gt /\ g.free = h.free /\ g.complete = h.complete /\ g.mapped = h.mapped
  <2> HIDE DEF gt
  <2> QED BY <1>2
<1>4. ASSUME NEW u \in D \ {r}
      PROVE  /\ New(u) \in Tag
             /\ New(u).real_size = IF u = l THEN h.tags[l].real_size + h.tags[r].real_size
                                   ELSE h.tags[u].real_size
             /\ New(u).size = h.tags[u].size
             /\ New(u).index = h.tags[u].index
             /\ New(u).next = h.tags[u].next
             /\ New(u).prev = h.tags[u].prev
             /\ New(u).split_left = IF u = h.tags[r].split_right THEN l ELSE h.tags[u].split_left
             /\ New(u).split_right = IF u = l THEN h.tags[r].split_right
                                     ELSE h.tags[u].split_right
  <2>1. h.tags[u] \in Tag /\ h.tags[l] \in Tag /\ h.tags[r] \in Tag /\ l \in Nat
    BY <1>h
  <2>2. h.tags[r].real_size \in Nat /\ h.tags[l].real_size \in Nat
        /\ h.tags[r].split_right \in Nat
    BY TagFields
  <2>a. CASE u = l
    <3>1. New(u) = [h.tags[u] EXCEPT !.real_size = size, !.split_right = beyond]
      BY <2>a
    <3>2. size \in Nat
      BY <2>2
    <3> HIDE DEF New, size, beyond
    <3>3. h.tags[u] \in Tag /\ beyond \in Nat
      BY <2>1, <2>2 DEF beyond
    <3>4. /\ New(u) = [real_size |-> size, size |-> h.tags[u].size, index |-> h.tags[u].index,
                      next |-> h.tags[u].next, prev |-> h.tags[u].prev,
                      split_left |-> h.tags[u].split_left, split_right |-> beyond]
          /\ New(u) \in Tag
      <4>1. PICK x, y : x = h.tags[u] /\ y = New(u)
        OBVIOUS
      <4>2. y = [x EXCEPT !.real_size = size, !.split_right = beyond]
        BY <3>1, <4>1
      <4>3. x \in Tag
        BY <4>1, <3>3
      <4>4. /\ y = [real_size |-> size, size |-> x.size, index |-> x.index,
                     next |-> x.next, prev |-> x.prev,
                     split_left |-> x.split_left, split_right |-> beyond]
            /\ y \in Tag
        BY <4>2, <4>3, <3>2, <3>3, SetExtent
      <4> QED
        BY <4>1, <4>4
    <3>5. l # beyond
      BY DEF beyond
    <3> QED
      BY <3>4, <3>5, <2>a DEF size, beyond
  <2>b. CASE u # l /\ u = beyond
    <3>1. New(u) = [h.tags[u] EXCEPT !.split_left = l]
      BY <2>b
    <3> HIDE DEF New
    <3> QED
      BY <3>1, <2>1, <2>b, SetLeft
  <2>c. CASE u # l /\ u # beyond
    <3>1. New(u) = h.tags[u]
      BY <2>c
    <3> HIDE DEF New
    <3> QED
      BY <3>1, <2>1, <2>c
  <2> HIDE DEF New
  <2> QED
    BY <2>a, <2>b, <2>c
<1>5. gt \in [D \ {r} -> Tag]
  BY <1>4
<1>8. DOMAIN gt = D \ {r} /\ \A u \in D \ {r} : gt[u] = New(u)
  OBVIOUS
<1>6. g \in Heaps
  <2>1. DOMAIN g.tags = D \ {r}
    BY <1>3
  <2> HIDE DEF gt, D
  <2> QED
  BY <1>2, <1>3, <1>5, <1>h, <2>1, HeapsAre
<1> HIDE DEF New, gt
<1> QED
  BY <1>3, <1>4, <1>6, <1>8

\* Note the size of a piece.
Sized(h, t, size) == [h EXCEPT !.tags[t].size = size]

\* Noting the size of a piece stores nothing else.
LEMMA SizedShape ==
    ASSUME NEW h \in Heaps, NEW t \in DOMAIN h.tags, NEW size \in Nat,
           NEW g, g = Sized(h, t, size)
    PROVE  /\ g \in Heaps
           /\ DOMAIN g.tags = DOMAIN h.tags
           /\ g.free = h.free /\ g.mapped = h.mapped /\ g.complete = h.complete
           /\ \A u \in DOMAIN h.tags :
                 /\ g.tags[u].real_size = h.tags[u].real_size
                 /\ g.tags[u].size = IF u = t THEN size ELSE h.tags[u].size
                 /\ g.tags[u].index = h.tags[u].index
                 /\ g.tags[u].next = h.tags[u].next
                 /\ g.tags[u].prev = h.tags[u].prev
                 /\ g.tags[u].split_left = h.tags[u].split_left
                 /\ g.tags[u].split_right = h.tags[u].split_right
<1> DEFINE D == DOMAIN h.tags
           sized == [h.tags[t] EXCEPT !.size = size]
           gt == [h.tags EXCEPT ![t] = sized]
<1>h. /\ h = [tags |-> h.tags, free |-> h.free, complete |-> h.complete, mapped |-> h.mapped]
      /\ h.tags \in [D -> Tag]
      /\ h.free \in [Classes -> Nat] /\ h.complete \in [Classes -> Int] /\ h.mapped \subseteq Pages
      /\ D \subseteq Nat \ {NULL}
  BY HeapsAre
<1>1. g = [h EXCEPT !.tags = gt]
  BY DEF Sized
<1>2. g = [tags |-> gt, free |-> h.free, complete |-> h.complete, mapped |-> h.mapped]
  <2> HIDE DEF gt
  <2> QED BY <1>1, <1>h
<1>3. g.tags = gt /\ g.free = h.free /\ g.complete = h.complete /\ g.mapped = h.mapped
  <2> HIDE DEF gt
  <2> QED BY <1>2
<1>4. /\ sized \in Tag /\ sized.index = h.tags[t].index /\ sized.next = h.tags[t].next
      /\ sized.prev = h.tags[t].prev /\ sized.size = size
      /\ sized.real_size = h.tags[t].real_size
      /\ sized.split_left = h.tags[t].split_left
      /\ sized.split_right = h.tags[t].split_right
  BY <1>h, SetSize
<1> HIDE DEF sized
<1>5. gt \in [D -> Tag] /\ \A u \in D : gt[u] = IF u = t THEN sized ELSE h.tags[u]
  BY <1>4, <1>h
<1>6. DOMAIN g.tags = D
  BY <1>3, <1>5
<1> HIDE DEF gt
<1>7. g \in Heaps
  BY <1>2, <1>3, <1>5, <1>6, <1>h, HeapsAre
<1> HIDE DEF D
<1> QED
  BY <1>3, <1>4, <1>5, <1>6, <1>7 DEF D

\* What split_tag stores before it calls insert_tag.
LEMMA HalvedShape ==
    ASSUME NEW h \in Heaps, NEW t \in DOMAIN h.tags, NEW new \in Nat \ {NULL},
           new \notin DOMAIN h.tags,
           h.tags[t].split_right # t, h.tags[t].split_right # new,
           h.tags[t].real_size >= Hdr + h.tags[t].size,
           NEW g, g = Halved(h, t, new)
    PROVE  /\ g \in Heaps
           /\ DOMAIN g.tags = DOMAIN h.tags \cup {new}
           /\ g.free = h.free /\ g.mapped = h.mapped /\ g.complete = h.complete
           /\ /\ g.tags[new].real_size = h.tags[t].real_size - Hdr - h.tags[t].size
              /\ g.tags[new].size = 0 /\ g.tags[new].index = -1
              /\ g.tags[new].next = NULL /\ g.tags[new].prev = NULL
              /\ g.tags[new].split_left = t
              /\ g.tags[new].split_right = h.tags[t].split_right
           /\ \A u \in DOMAIN h.tags :
                 /\ g.tags[u].real_size = IF u = t THEN Hdr + h.tags[t].size
                                          ELSE h.tags[u].real_size
                 /\ g.tags[u].size = h.tags[u].size
                 /\ g.tags[u].index = h.tags[u].index
                 /\ g.tags[u].next = h.tags[u].next
                 /\ g.tags[u].prev = h.tags[u].prev
                 /\ g.tags[u].split_left = IF u = h.tags[t].split_right THEN new
                                           ELSE h.tags[u].split_left
                 /\ g.tags[u].split_right = IF u = t THEN new ELSE h.tags[u].split_right
<1> DEFINE D == DOMAIN h.tags
           right == h.tags[t].split_right
           fresh == [real_size |-> h.tags[t].real_size - Hdr - h.tags[t].size,
                              size |-> 0, index |-> -1, next |-> NULL, prev |-> NULL,
                              split_left |-> t, split_right |-> right]
           cut == [h.tags[t] EXCEPT !.split_right = new, !.real_size = Hdr + h.tags[t].size]
           New(u) == CASE u = new -> fresh
                       [] u = t -> cut
                       [] u = right -> [h.tags[u] EXCEPT !.split_left = new]
                       [] OTHER -> h.tags[u]
           gt == [u \in D \cup {new} |-> New(u)]
<1>h. /\ h = [tags |-> h.tags, free |-> h.free, complete |-> h.complete, mapped |-> h.mapped]
      /\ h.tags \in [D -> Tag]
      /\ h.free \in [Classes -> Nat] /\ h.complete \in [Classes -> Int] /\ h.mapped \subseteq Pages
      /\ D \subseteq Nat \ {NULL}
  BY HeapsAre
<1>1. g = [h EXCEPT !.tags = gt]
  BY DEF Halved
<1>2. g = [tags |-> gt, free |-> h.free, complete |-> h.complete, mapped |-> h.mapped]
  <2> HIDE DEF gt
  <2> QED BY <1>1, <1>h
<1>3. g.tags = gt /\ g.free = h.free /\ g.complete = h.complete /\ g.mapped = h.mapped
  <2> HIDE DEF gt
  <2> QED BY <1>2
<1>t. /\ h.tags[t] \in Tag /\ t \in Nat /\ h.tags[t].real_size \in Nat /\ h.tags[t].size \in Nat
      /\ right \in Nat /\ Hdr \in Nat
  BY TagFields, <1>h, ConstantFacts
<1>n. /\ fresh \in Tag /\ fresh.real_size = h.tags[t].real_size - Hdr - h.tags[t].size
      /\ fresh.size = 0 /\ fresh.index = -1 /\ fresh.next = NULL /\ fresh.prev = NULL
      /\ fresh.split_left = t /\ fresh.split_right = right
  <2>1. h.tags[t].real_size - Hdr - h.tags[t].size \in Nat
    BY <1>t
  <2>2. ASSUME NEW rs \in Nat, NEW l \in Nat, NEW r \in Nat
        PROVE  [real_size |-> rs, size |-> 0, index |-> -1, next |-> NULL, prev |-> NULL,
                split_left |-> l, split_right |-> r] \in Tag
    BY DEF Tag, Addresses, NULL
  <2> QED
    BY <2>1, <2>2, <1>t
<1>c. /\ cut \in Tag /\ cut.real_size = Hdr + h.tags[t].size /\ cut.split_right = new
      /\ cut.size = h.tags[t].size /\ cut.index = h.tags[t].index
      /\ cut.next = h.tags[t].next /\ cut.prev = h.tags[t].prev
      /\ cut.split_left = h.tags[t].split_left
  <2> DEFINE size == Hdr + h.tags[t].size
  <2>1. size \in Nat /\ new \in Nat
    BY <1>t
  <2> HIDE DEF size
  <2>2. cut = [h.tags[t] EXCEPT !.split_right = new, !.real_size = size]
    BY DEF size
  <2> HIDE DEF cut
  <2>3. /\ cut = [real_size |-> size, size |-> h.tags[t].size, index |-> h.tags[t].index,
                  next |-> h.tags[t].next, prev |-> h.tags[t].prev,
                  split_left |-> h.tags[t].split_left, split_right |-> new]
        /\ cut \in Tag
    BY <2>1, <2>2, <1>t, SetExtentRightFirst
  <2> QED
    BY <2>3 DEF size
<1> HIDE DEF fresh, cut
<1>4. ASSUME NEW u \in D
      PROVE  /\ New(u) \in Tag
             /\ New(u).real_size = IF u = t THEN Hdr + h.tags[t].size ELSE h.tags[u].real_size
             /\ New(u).size = h.tags[u].size
             /\ New(u).index = h.tags[u].index
             /\ New(u).next = h.tags[u].next
             /\ New(u).prev = h.tags[u].prev
             /\ New(u).split_left = IF u = h.tags[t].split_right THEN new
                                    ELSE h.tags[u].split_left
             /\ New(u).split_right = IF u = t THEN new ELSE h.tags[u].split_right
  <2>1. h.tags[u] \in Tag /\ u # new /\ new \in Nat
    BY <1>h
  <2>a. CASE u = t
    <3>1. New(u) = cut
      BY <2>a, <2>1
    <3> HIDE DEF New
    <3> QED
      BY <3>1, <1>c, <2>a
  <2>b. CASE u # t /\ u = right
    <3>1. New(u) = [h.tags[u] EXCEPT !.split_left = new]
      BY <2>b, <2>1
    <3> HIDE DEF New
    <3> QED
      BY <3>1, <2>1, <2>b, SetLeft
  <2>c. CASE u # t /\ u # right
    <3>1. New(u) = h.tags[u]
      BY <2>c, <2>1
    <3> HIDE DEF New
    <3> QED
      BY <3>1, <2>1, <2>c
  <2> HIDE DEF New
  <2> QED
    BY <2>a, <2>b, <2>c
<1>m. New(new) = fresh
  <2>1. new # t
    OBVIOUS
  <2> QED
    BY <2>1
<1>8. DOMAIN gt = D \cup {new} /\ \A u \in D \cup {new} : gt[u] = New(u)
  OBVIOUS
<1>9. gt = [u \in D \cup {new} |-> New(u)]
  OBVIOUS
<1> HIDE DEF New, gt
<1>5. gt \in [D \cup {new} -> Tag]
  BY <1>4, <1>m, <1>n, <1>9
<1>6. g \in Heaps
  <2>1. DOMAIN g.tags = D \cup {new}
    BY <1>3, <1>8
  <2> HIDE DEF D
  <2> QED
  BY <1>2, <1>3, <1>5, <1>h, <2>1, HeapsAre
<1>10. gt[new] = fresh /\ \A u \in D : gt[u] = New(u)
  BY <1>8, <1>m
<1> QED
  BY <1>3, <1>4, <1>6, <1>8, <1>10, <1>n

\* What allocate_new_tag stores: one tag that is the whole of a new block.
LEMMA AllocateShape ==
    ASSUME NEW h \in Heaps, NEW size \in Nat, NEW b, NEW n, NEW t, NEW extent \in Nat,
           n = PagesFor(size + Hdr), t = b * PageSize, extent = n * PageSize,
           t \in Nat \ {NULL}, t \notin DOMAIN h.tags, b .. (b + n - 1) \subseteq Pages,
           NEW g, g = allocate_new_tag(h, size, b)
    PROVE  /\ g \in Heaps
           /\ DOMAIN g.tags = DOMAIN h.tags \cup {t}
           /\ g.free = h.free /\ g.complete = h.complete
           /\ g.mapped = h.mapped \cup (b .. (b + n - 1))
           /\ g.tags[t].real_size = extent /\ g.tags[t].size = size
           /\ g.tags[t].index = -1 /\ g.tags[t].next = NULL /\ g.tags[t].prev = NULL
           /\ g.tags[t].split_left = NULL /\ g.tags[t].split_right = NULL
           /\ \A u \in DOMAIN h.tags : g.tags[u] = h.tags[u]
<1> DEFINE D == DOMAIN h.tags
           fresh == [real_size |-> extent, size |-> size, index |-> -1, next |-> NULL,
                     prev |-> NULL, split_left |-> NULL, split_right |-> NULL]
           gt == [u \in D \cup {t} |-> IF u = t THEN fresh ELSE h.tags[u]]
           gm == h.mapped \cup (b .. (b + n - 1))
<1>h. /\ h = [tags |-> h.tags, free |-> h.free, complete |-> h.complete, mapped |-> h.mapped]
      /\ h.tags \in [D -> Tag]
      /\ h.free \in [Classes -> Nat] /\ h.complete \in [Classes -> Int] /\ h.mapped \subseteq Pages
      /\ D \subseteq Nat \ {NULL}
  BY HeapsAre
<1>1. g = [h EXCEPT !.mapped = gm, !.tags = gt]
  BY DEF allocate_new_tag
<1>2. /\ g = [tags |-> gt, free |-> h.free, complete |-> h.complete, mapped |-> gm]
      /\ g.tags = gt /\ g.free = h.free /\ g.complete = h.complete /\ g.mapped = gm
  <2> HIDE DEF gt, gm
  <2> QED BY <1>1, <1>h
<1>3. fresh \in Tag
  BY DEF Tag, Addresses, NULL
<1>4. fresh.real_size = extent /\ fresh.size = size /\ fresh.index = -1 /\ fresh.next = NULL
      /\ fresh.prev = NULL /\ fresh.split_left = NULL /\ fresh.split_right = NULL
  OBVIOUS
<1> HIDE DEF fresh
<1>5. /\ gt \in [D \cup {t} -> Tag] /\ gt[t] = fresh
      /\ \A u \in D : gt[u] = h.tags[u]
  BY <1>3, <1>h
<1> HIDE DEF gt
<1>6. DOMAIN g.tags = D \cup {t}
  BY <1>2, <1>5
<1>7. g \in Heaps
  <2>1. gm \subseteq Pages
    BY <1>h
  <2> HIDE DEF gm, D
  <2> QED
    BY <1>2, <1>5, <1>6, <1>h, <2>1, HeapsAre
<1> QED
  BY <1>2, <1>4, <1>5, <1>6, <1>7

\* liballoc_free takes the tag of a block away with its pages.
LEMMA GiveBackShape ==
    ASSUME NEW h \in Heaps, NEW t \in DOMAIN h.tags, NEW b, NEW n,
           n = PagesFor(h.tags[t].real_size), b = t \div PageSize,
           NEW g, g = GiveBack(h, t)
    PROVE  /\ g \in Heaps
           /\ DOMAIN g.tags = DOMAIN h.tags \ {t}
           /\ g.free = h.free /\ g.complete = h.complete
           /\ g.mapped = h.mapped \ (b .. (b + n - 1))
           /\ \A u \in DOMAIN h.tags \ {t} : g.tags[u] = h.tags[u]
<1> DEFINE D == DOMAIN h.tags
           gt == [u \in D \ {t} |-> h.tags[u]]
           gm == h.mapped \ (b .. (b + n - 1))
<1>h. /\ h = [tags |-> h.tags, free |-> h.free, complete |-> h.complete, mapped |-> h.mapped]
      /\ h.tags \in [D -> Tag]
      /\ h.free \in [Classes -> Nat] /\ h.complete \in [Classes -> Int] /\ h.mapped \subseteq Pages
      /\ D \subseteq Nat \ {NULL}
  BY HeapsAre
<1>1. g = [h EXCEPT !.mapped = gm, !.tags = gt]
  BY DEF GiveBack
<1>2. /\ g = [tags |-> gt, free |-> h.free, complete |-> h.complete, mapped |-> gm]
      /\ g.tags = gt /\ g.free = h.free /\ g.complete = h.complete /\ g.mapped = gm
  <2> HIDE DEF gt, gm
  <2> QED BY <1>1, <1>h
<1>5. /\ gt \in [D \ {t} -> Tag]
      /\ \A u \in D \ {t} : gt[u] = h.tags[u]
  BY <1>h
<1> HIDE DEF gt
<1>6. DOMAIN g.tags = D \ {t}
  BY <1>2, <1>5
<1>7. g \in Heaps
  <2>1. gm \subseteq Pages
    BY <1>h
  <2> HIDE DEF gm, D
  <2> QED
    BY <1>2, <1>5, <1>6, <1>h, <2>1, HeapsAre
<1> QED
  BY <1>2, <1>5, <1>6, <1>7
------------------------------------------------------------------------------
(* The free lists.                                                          *)

\* The tags that are in a list.
InList(h) == {t \in DOMAIN h.tags : h.tags[t].index # -1}

\* Next and prev of every tag, the heads and the ends of the lists.
ListLinks(h) ==
    \A t \in DOMAIN h.tags :
        /\ h.tags[t].index # -1 /\ h.tags[t].prev = NULL => h.free[h.tags[t].index] = t
        /\ h.tags[t].index # -1 /\ h.tags[t].next # NULL =>
              /\ h.tags[t].next \in DOMAIN h.tags
              /\ h.tags[h.tags[t].next].index = h.tags[t].index
              /\ h.tags[h.tags[t].next].prev = t
        /\ h.tags[t].index # -1 /\ h.tags[t].prev # NULL =>
              /\ h.tags[t].prev \in DOMAIN h.tags
              /\ h.tags[h.tags[t].prev].index = h.tags[t].index
              /\ h.tags[h.tags[t].prev].next = t
        /\ h.tags[t].index = -1 => h.tags[t].next = NULL /\ h.tags[t].prev = NULL

\* The head of a list is in it and has no prev.
ListHeads(h) ==
    \A i \in Classes : h.free[i] # NULL =>
        /\ h.free[i] \in DOMAIN h.tags
        /\ h.tags[h.free[i]].index = i
        /\ h.tags[h.free[i]].prev = NULL

\* A list has one last tag ...
OneEnd(h) ==
    \A t, u \in InList(h) : /\ h.tags[t].index = h.tags[u].index
                            /\ h.tags[t].next = NULL /\ h.tags[u].next = NULL
                            => t = u

\* ... and runs in no circle: every set of tags in lists has one whose prev lies
\* outside.
NoCircle(h) ==
    \A S \in SUBSET InList(h) : S # {} => \E t \in S : h.tags[t].prev \notin S

Lists(h) == ListLinks(h) /\ ListHeads(h) /\ OneEnd(h) /\ NoCircle(h)

\* The neighbours of a tag in its list are not the tag, and not one another: the
\* cases of remove_tag do not overlap.
LEMMA Neighbours ==
    ASSUME NEW h \in Heaps, Lists(h), NEW t \in InList(h)
    PROVE  /\ h.tags[t].index \in Classes
           /\ h.tags[t].next # t /\ h.tags[t].prev # t
           /\ h.tags[t].prev # NULL => h.tags[t].prev # h.tags[t].next
<1>t. /\ t \in DOMAIN h.tags /\ h.tags[t].index # -1 /\ t # NULL
      /\ h.tags[t].index \in Classes
  BY TagFields DEF InList
<1>1. h.tags[t].prev # t
  <2>1. \E u \in {t} : h.tags[u].prev \notin {t}
    BY DEF Lists, NoCircle
  <2> QED
    BY <2>1
<1>2. h.tags[t].next # t
  <2>1. SUFFICES ASSUME h.tags[t].next = t PROVE FALSE
    OBVIOUS
  <2>2. h.tags[t].prev = t
    BY <1>t, <2>1 DEF Lists, ListLinks
  <2> QED
    BY <1>1, <2>2
<1>3. ASSUME h.tags[t].prev # NULL, h.tags[t].prev = h.tags[t].next
      PROVE  FALSE
  <2>1. PICK u : u = h.tags[t].next
    OBVIOUS
  <2>2. u \in InList(h) /\ h.tags[u].prev = t
    BY <1>t, <1>3, <2>1 DEF Lists, ListLinks, InList
  <2>3. PICK w \in {t, u} : h.tags[w].prev \notin {t, u}
    BY <2>2 DEF Lists, NoCircle
  <2> QED
    BY <1>3, <2>1, <2>2, <2>3
<1> QED
  BY <1>t, <1>1, <1>2, <1>3

\* A class whose head is NULL has no tag: a list that is finite and has no circle
\* is reached from its head.
LEMMA EmptyList ==
    ASSUME NEW h \in Heaps, Lists(h), NEW i \in Classes, h.free[i] = NULL
    PROVE  \A t \in DOMAIN h.tags : h.tags[t].index # i
<1>1. SUFFICES ASSUME NEW t \in DOMAIN h.tags, h.tags[t].index = i PROVE FALSE
  OBVIOUS
<1> DEFINE S == {u \in DOMAIN h.tags : h.tags[u].index = i}
<1>2. S \in SUBSET InList(h) /\ S # {}
  BY <1>1, ConstantFacts DEF InList
<1>3. PICK u \in S : h.tags[u].prev \notin S
  <2> HIDE DEF S
  <2> QED
    BY <1>2 DEF Lists, NoCircle
<1>4. u \in DOMAIN h.tags /\ h.tags[u].index = i /\ i # -1 /\ u # NULL
  BY <1>3, ConstantFacts, TagFields
<1>5. CASE h.tags[u].prev = NULL
  BY <1>4, <1>5 DEF Lists, ListLinks
<1>6. CASE h.tags[u].prev # NULL
  BY <1>3, <1>4, <1>6 DEF Lists, ListLinks
<1> QED
  BY <1>5, <1>6

\* remove_tag leaves the lists in order, whichever tag it takes: the last one of
\* a list has no next.
LEMMA RemoveLists ==
    ASSUME NEW h \in Heaps, Lists(h), NEW t \in InList(h), NEW g, g = remove_tag(h, t)
    PROVE  Lists(g)
<1> DEFINE D == DOMAIN h.tags
           p == h.tags[t].prev
           n == h.tags[t].next
           i == h.tags[t].index
<1>t. /\ t \in D /\ i # -1 /\ t # NULL /\ i \in Classes
      /\ n # t /\ p # t /\ (p # NULL => p # n)
      /\ p \in Nat /\ n \in Nat
  BY TagFields, Neighbours DEF InList
<1>g. /\ g \in Heaps /\ DOMAIN g.tags = D
      /\ \A j \in Classes : g.free[j] = IF j = i /\ h.free[j] = t THEN n ELSE h.free[j]
      /\ \A u \in D :
            /\ g.tags[u].index = IF u = t THEN -1 ELSE h.tags[u].index
            /\ g.tags[u].next = IF u = t THEN NULL ELSE IF u = p THEN n ELSE h.tags[u].next
            /\ g.tags[u].prev = IF u = t THEN NULL ELSE IF u = n THEN p ELSE h.tags[u].prev
  BY <1>t, RemoveShape
<1>l. ListLinks(h) /\ ListHeads(h) /\ OneEnd(h) /\ NoCircle(h)
  BY DEF Lists
<1>f. \A u \in D : /\ u # NULL /\ (h.tags[u].index = -1 \/ h.tags[u].index \in Classes)
                   /\ h.tags[u].next \in Nat /\ h.tags[u].prev \in Nat
  BY TagFields
<1>p. p # NULL => p \in D /\ h.tags[p].index = i /\ h.tags[p].next = t
  BY <1>l, <1>t DEF ListLinks
<1>n. n # NULL => n \in D /\ h.tags[n].index = i /\ h.tags[n].prev = t
  BY <1>l, <1>t DEF ListLinks
<1>d. (p = NULL <=> h.free[i] = t)
  BY <1>l, <1>t DEF ListLinks, ListHeads
<1> HIDE DEF p, n, i, D
<1>1. ListLinks(g)
  <2> SUFFICES ASSUME NEW u \in D
               PROVE  /\ g.tags[u].index # -1 /\ g.tags[u].prev = NULL =>
                            g.free[g.tags[u].index] = u
                      /\ g.tags[u].index # -1 /\ g.tags[u].next # NULL =>
                            /\ g.tags[u].next \in D
                            /\ g.tags[g.tags[u].next].index = g.tags[u].index
                            /\ g.tags[g.tags[u].next].prev = u
                      /\ g.tags[u].index # -1 /\ g.tags[u].prev # NULL =>
                            /\ g.tags[u].prev \in D
                            /\ g.tags[g.tags[u].prev].index = g.tags[u].index
                            /\ g.tags[g.tags[u].prev].next = u
                      /\ g.tags[u].index = -1 => g.tags[u].next = NULL /\ g.tags[u].prev = NULL
    BY <1>g DEF ListLinks
  <2>h. /\ h.tags[u].index # -1 /\ h.tags[u].prev = NULL => h.free[h.tags[u].index] = u
        /\ h.tags[u].index # -1 /\ h.tags[u].next # NULL =>
              /\ h.tags[u].next \in D
              /\ h.tags[h.tags[u].next].index = h.tags[u].index
              /\ h.tags[h.tags[u].next].prev = u
        /\ h.tags[u].index # -1 /\ h.tags[u].prev # NULL =>
              /\ h.tags[u].prev \in D
              /\ h.tags[h.tags[u].prev].index = h.tags[u].index
              /\ h.tags[h.tags[u].prev].next = u
        /\ h.tags[u].index = -1 => h.tags[u].next = NULL /\ h.tags[u].prev = NULL
    BY <1>l DEF ListLinks, D
  <2>1. CASE u = t
    BY <2>1, <1>g
  <2>2. CASE u # t /\ h.tags[u].index = -1
    BY <2>2, <2>h, <1>g, <1>p, <1>n, <1>t, <1>f
  <2>3. CASE u # t /\ h.tags[u].index # -1
    <3>1. g.tags[u].index = h.tags[u].index /\ h.tags[u].index \in Classes
      BY <2>3, <1>g, <1>f
    <3>2. g.tags[u].prev = NULL => g.free[g.tags[u].index] = u
      <4> SUFFICES ASSUME g.tags[u].prev = NULL PROVE g.free[h.tags[u].index] = u
        BY <3>1
      <4>1. CASE u = n
        <5>1. p = NULL /\ h.tags[u].index = i
          BY <4>1, <2>3, <1>g, <1>n, <1>f
        <5> QED
          BY <5>1, <4>1, <1>d, <1>g, <1>t
      <4>2. CASE u # n
        <5>1. h.tags[u].prev = NULL
          BY <4>2, <2>3, <1>g
        <5>2. h.free[h.tags[u].index] = u
          BY <5>1, <2>3, <2>h
        <5> QED
          BY <5>2, <3>1, <2>3, <1>g
      <4> QED
        BY <4>1, <4>2
    <3>3. ASSUME g.tags[u].next # NULL
          PROVE  /\ g.tags[u].next \in D
                 /\ g.tags[g.tags[u].next].index = g.tags[u].index
                 /\ g.tags[g.tags[u].next].prev = u
      <4>1. CASE u = p
        BY <4>1, <3>3, <3>1, <2>3, <1>g, <1>t, <1>p, <1>n, <1>f
      <4>2. CASE u # p
        <5>1. g.tags[u].next = h.tags[u].next
          BY <4>2, <2>3, <1>g
        <5>2. PICK w : w = h.tags[u].next
          OBVIOUS
        <5>3. w \in D /\ h.tags[w].prev = u /\ h.tags[w].index = h.tags[u].index
          BY <5>1, <5>2, <3>3, <2>3, <2>h
        <5>4. w # t
          BY <5>3, <4>2 DEF p
        <5>5. w # n
          BY <5>3, <2>3, <1>n, <1>f
        <5> QED
          BY <5>1, <5>2, <5>3, <5>4, <5>5, <3>1, <1>g
      <4> QED
        BY <4>1, <4>2
    <3>4. ASSUME g.tags[u].prev # NULL
          PROVE  /\ g.tags[u].prev \in D
                 /\ g.tags[g.tags[u].prev].index = g.tags[u].index
                 /\ g.tags[g.tags[u].prev].next = u
      <4>1. CASE u = n
        BY <4>1, <3>4, <3>1, <2>3, <1>g, <1>t, <1>p, <1>n, <1>f
      <4>2. CASE u # n
        <5>1. g.tags[u].prev = h.tags[u].prev
          BY <4>2, <2>3, <1>g
        <5>2. PICK w : w = h.tags[u].prev
          OBVIOUS
        <5>3. w \in D /\ h.tags[w].next = u /\ h.tags[w].index = h.tags[u].index
          BY <5>1, <5>2, <3>4, <2>3, <2>h
        <5>4. w # t
          BY <5>3, <4>2 DEF n
        <5>5. w # p
          BY <5>3, <2>3, <1>p, <1>f
        <5> QED
          BY <5>1, <5>2, <5>3, <5>4, <5>5, <3>1, <1>g
      <4> QED
        BY <4>1, <4>2
    <3> QED
      BY <2>3, <3>1, <3>2, <3>3, <3>4
  <2> QED
    BY <2>1, <2>2, <2>3
<1>2. ListHeads(g)
  <2> SUFFICES ASSUME NEW j \in Classes, g.free[j] # NULL
               PROVE  /\ g.free[j] \in D /\ g.tags[g.free[j]].index = j
                      /\ g.tags[g.free[j]].prev = NULL
    BY <1>g DEF ListHeads
  <2>h. h.free[j] # NULL => /\ h.free[j] \in D /\ h.tags[h.free[j]].index = j
                            /\ h.tags[h.free[j]].prev = NULL
    BY <1>l DEF ListHeads, D
  <2>1. CASE j = i /\ h.free[j] = t
    BY <2>1, <1>g, <1>n, <1>d, <1>t
  <2>2. CASE ~ (j = i /\ h.free[j] = t)
    <3>1. g.free[j] = h.free[j]
      BY <2>2, <1>g
    <3>2. h.free[j] # t
      BY <2>2, <2>h, <1>t DEF i
    <3>3. h.free[j] # n
      BY <2>h, <3>1, <1>n, <1>t
    <3> QED
      BY <3>1, <3>2, <3>3, <2>h, <1>g
  <2> QED
    BY <2>1, <2>2
<1>3. OneEnd(g)
  <2> SUFFICES ASSUME NEW u \in D, NEW w \in D,
                      g.tags[u].index # -1, g.tags[u].index = g.tags[w].index,
                      g.tags[u].next = NULL, g.tags[w].next = NULL
               PROVE  u = w
    BY <1>g DEF OneEnd, InList
  <2>0. /\ u # t /\ w # t /\ h.tags[u].index = h.tags[w].index /\ h.tags[u].index # -1
    BY <1>g
  <2>h. \A x, y \in D : /\ h.tags[x].index # -1 /\ h.tags[x].index = h.tags[y].index
                        /\ h.tags[x].next = NULL /\ h.tags[y].next = NULL
                        => x = y
    BY <1>l DEF OneEnd, InList, D
  <2>1. CASE u # p /\ w # p
    BY <2>0, <2>1, <2>h, <1>g
  <2>2. CASE u = p /\ w # p
    <3>1. n = NULL /\ h.tags[w].next = NULL /\ h.tags[w].index = i
      BY <2>0, <2>2, <1>g, <1>p, <1>f
    <3>2. h.tags[t].next = NULL /\ h.tags[t].index = i
      BY <3>1 DEF n, i
    <3>3. w = t
      BY <3>1, <3>2, <2>h, <1>t
    <3> QED
      BY <3>3, <2>0
  <2>3. CASE w = p /\ u # p
    <3>1. n = NULL /\ h.tags[u].next = NULL /\ h.tags[u].index = i
      BY <2>0, <2>3, <1>g, <1>p, <1>f
    <3>2. h.tags[t].next = NULL /\ h.tags[t].index = i
      BY <3>1 DEF n, i
    <3>3. u = t
      BY <3>1, <3>2, <2>h, <1>t
    <3> QED
      BY <3>3, <2>0
  <2> QED
    BY <2>1, <2>2, <2>3
<1>4. NoCircle(g)
  <2> SUFFICES ASSUME NEW S \in SUBSET InList(g), S # {}
               PROVE  \E u \in S : g.tags[u].prev \notin S
    BY DEF NoCircle
  <2>1. /\ \A u \in S : u \in D /\ u # t /\ h.tags[u].index # -1
        /\ S \subseteq InList(h)
    BY <1>g DEF InList, D
  <2>2. CASE n \notin S
    <3>1. PICK u \in S : h.tags[u].prev \notin S
      BY <2>1, <1>l DEF NoCircle
    <3> QED
      BY <3>1, <2>1, <2>2, <1>g
  <2>3. CASE n \in S
    <3>1. S \cup {t} \in SUBSET InList(h)
      BY <2>1, <1>t
    <3>2. PICK u \in S \cup {t} : h.tags[u].prev \notin S \cup {t}
      BY <3>1, <1>l DEF NoCircle
    <3>3. CASE u = t
      <4>1. p \notin S
        BY <3>2, <3>3 DEF p
      <4>2. g.tags[n].prev = p
        BY <2>3, <2>1, <1>g
      <4> QED
        BY <4>1, <4>2, <2>3
    <3>4. CASE u # t
      <4>1. u # n
        BY <3>2, <2>3, <2>1, <1>n, <1>f
      <4> QED
        BY <4>1, <3>2, <3>4, <2>1, <1>g
    <3> QED
      BY <3>3, <3>4
  <2> QED
    BY <2>2, <2>3
<1> QED
  BY <1>1, <1>2, <1>3, <1>4 DEF Lists

\* insert_tag leaves the lists in order although it stores neither prev of the
\* new head nor, in an empty list, its next.
LEMMA InsertLists ==
    ASSUME NEW h \in Heaps, Lists(h), NEW t \in DOMAIN h.tags, h.tags[t].index = -1,
           NEW index \in Int, NEW k \in Classes,
           k = IF index < 0 THEN Class(Usable(h, t)) ELSE index,
           NEW g, g = insert_tag(h, t, index)
    PROVE  Lists(g)
<1> DEFINE D == DOMAIN h.tags
           first == h.free[k]
<1>l. ListLinks(h) /\ ListHeads(h) /\ OneEnd(h) /\ NoCircle(h)
  BY DEF Lists
<1>t. h.tags[t].next = NULL /\ h.tags[t].prev = NULL /\ k # -1 /\ t # NULL /\ t \in D
  BY <1>l, ConstantFacts, TagFields DEF ListLinks
<1>i. first # NULL => first \in D /\ first # t /\ h.tags[first].index = k /\ h.tags[first].prev = NULL
  BY <1>l, <1>t DEF ListHeads
<1>e. first = NULL => \A u \in D : h.tags[u].index # k
  BY EmptyList
<1>g. /\ g \in Heaps /\ DOMAIN g.tags = D
      /\ \A j \in Classes : g.free[j] = IF j = k THEN t ELSE h.free[j]
      /\ \A u \in D :
            /\ g.tags[u].index = IF u = t THEN k ELSE h.tags[u].index
            /\ g.tags[u].next = IF u = t THEN first ELSE h.tags[u].next
            /\ g.tags[u].prev = IF u = first THEN t ELSE h.tags[u].prev
  BY <1>t, <1>i, InsertShape
<1>f. \A u \in D : /\ u # NULL /\ (h.tags[u].index = -1 \/ h.tags[u].index \in Classes)
                   /\ h.tags[u].next \in Nat /\ h.tags[u].prev \in Nat
  BY TagFields
<1> HIDE DEF first, D
<1>1. ListLinks(g)
  <2> SUFFICES ASSUME NEW u \in D
               PROVE  /\ g.tags[u].index # -1 /\ g.tags[u].prev = NULL =>
                            g.free[g.tags[u].index] = u
                      /\ g.tags[u].index # -1 /\ g.tags[u].next # NULL =>
                            /\ g.tags[u].next \in D
                            /\ g.tags[g.tags[u].next].index = g.tags[u].index
                            /\ g.tags[g.tags[u].next].prev = u
                      /\ g.tags[u].index # -1 /\ g.tags[u].prev # NULL =>
                            /\ g.tags[u].prev \in D
                            /\ g.tags[g.tags[u].prev].index = g.tags[u].index
                            /\ g.tags[g.tags[u].prev].next = u
                      /\ g.tags[u].index = -1 => g.tags[u].next = NULL /\ g.tags[u].prev = NULL
    BY <1>g DEF ListLinks
  <2>h. /\ h.tags[u].index # -1 /\ h.tags[u].prev = NULL => h.free[h.tags[u].index] = u
        /\ h.tags[u].index # -1 /\ h.tags[u].next # NULL =>
              /\ h.tags[u].next \in D
              /\ h.tags[h.tags[u].next].index = h.tags[u].index
              /\ h.tags[h.tags[u].next].prev = u
        /\ h.tags[u].index # -1 /\ h.tags[u].prev # NULL =>
              /\ h.tags[u].prev \in D
              /\ h.tags[h.tags[u].prev].index = h.tags[u].index
              /\ h.tags[h.tags[u].prev].next = u
        /\ h.tags[u].index = -1 => h.tags[u].next = NULL /\ h.tags[u].prev = NULL
    BY <1>l DEF ListLinks, D
  <2>1. CASE u = t
    BY <2>1, <1>g, <1>i, <1>t, <1>f
  <2>2. CASE u # t /\ h.tags[u].index = -1
    BY <2>2, <2>h, <1>g, <1>i, <1>t, <1>f
  <2>3. CASE u # t /\ h.tags[u].index # -1
    <3>1. /\ g.tags[u].index = h.tags[u].index /\ h.tags[u].index \in Classes
          /\ g.tags[u].next = h.tags[u].next
      BY <2>3, <1>g, <1>f
    <3>2. ASSUME g.tags[u].prev = NULL
          PROVE  g.free[g.tags[u].index] = u
      <4>1. u # first /\ h.tags[u].prev = NULL
        BY <3>2, <1>g, <1>t
      <4>2. h.free[h.tags[u].index] = u
        BY <4>1, <2>3, <2>h
      <4>3. h.tags[u].index # k
        BY <4>1, <4>2 DEF first
      <4> QED
        BY <4>2, <4>3, <3>1, <1>g
    <3>3. ASSUME g.tags[u].next # NULL
          PROVE  /\ g.tags[u].next \in D
                 /\ g.tags[g.tags[u].next].index = g.tags[u].index
                 /\ g.tags[g.tags[u].next].prev = u
      <4>2. PICK w : w = h.tags[u].next
        OBVIOUS
      <4>3. w \in D /\ h.tags[w].prev = u /\ h.tags[w].index = h.tags[u].index
        BY <3>1, <4>2, <3>3, <2>3, <2>h
      <4>4. w # t /\ w # first
        BY <4>3, <1>t, <1>i, <1>f
      <4> QED
        BY <4>2, <4>3, <4>4, <3>1, <1>g
    <3>4. ASSUME g.tags[u].prev # NULL
          PROVE  /\ g.tags[u].prev \in D
                 /\ g.tags[g.tags[u].prev].index = g.tags[u].index
                 /\ g.tags[g.tags[u].prev].next = u
      <4>1. CASE u = first
        BY <4>1, <2>3, <3>1, <1>g, <1>t, <1>i, <1>f
      <4>2. CASE u # first
        <5>1. g.tags[u].prev = h.tags[u].prev
          BY <4>2, <1>g
        <5>2. PICK w : w = h.tags[u].prev
          OBVIOUS
        <5>3. w \in D /\ h.tags[w].next = u /\ h.tags[w].index = h.tags[u].index
          BY <5>1, <5>2, <3>4, <2>3, <2>h
        <5>4. w # t
          BY <5>3, <1>t, <1>f
        <5> QED
          BY <5>1, <5>2, <5>3, <5>4, <3>1, <1>g
      <4> QED
        BY <4>1, <4>2
    <3> QED
      BY <2>3, <3>1, <3>2, <3>3, <3>4
  <2> QED
    BY <2>1, <2>2, <2>3
<1>2. ListHeads(g)
  <2> SUFFICES ASSUME NEW j \in Classes, g.free[j] # NULL
               PROVE  /\ g.free[j] \in D /\ g.tags[g.free[j]].index = j
                      /\ g.tags[g.free[j]].prev = NULL
    BY <1>g DEF ListHeads
  <2>1. CASE j = k
    <3>1. t # first
      BY <1>i, <1>t
    <3> QED
      BY <2>1, <3>1, <1>g, <1>t
  <2>2. CASE j # k
    <3>1. g.free[j] = h.free[j]
      BY <2>2, <1>g
    <3>2. /\ h.free[j] \in D /\ h.tags[h.free[j]].index = j
          /\ h.tags[h.free[j]].prev = NULL
      BY <3>1, <1>l DEF ListHeads, D
    <3>3. h.free[j] # t /\ h.free[j] # first
      BY <2>2, <3>2, <1>t, <1>i, <1>f, ConstantFacts
    <3> QED
      BY <3>1, <3>2, <3>3, <1>g
  <2> QED
    BY <2>1, <2>2
<1>3. OneEnd(g)
  <2> SUFFICES ASSUME NEW u \in D, NEW w \in D,
                      g.tags[u].index # -1, g.tags[u].index = g.tags[w].index,
                      g.tags[u].next = NULL, g.tags[w].next = NULL
               PROVE  u = w
    BY <1>g DEF OneEnd, InList
  <2>h. \A x, y \in D : /\ h.tags[x].index # -1 /\ h.tags[x].index = h.tags[y].index
                        /\ h.tags[x].next = NULL /\ h.tags[y].next = NULL
                        => x = y
    BY <1>l DEF OneEnd, InList, D
  <2>1. CASE u # t /\ w # t
    BY <2>1, <2>h, <1>g
  <2>2. CASE u = t /\ w # t
    BY <2>2, <1>g, <1>e
  <2>3. CASE u # t /\ w = t
    BY <2>3, <1>g, <1>e
  <2> QED
    BY <2>1, <2>2, <2>3
<1>4. NoCircle(g)
  <2> SUFFICES ASSUME NEW S \in SUBSET InList(g), S # {}
               PROVE  \E u \in S : g.tags[u].prev \notin S
    BY DEF NoCircle
  <2>0. \A u \in S : u \in D /\ (u # t => u \in InList(h))
    BY <1>g DEF InList, D
  <2>2. CASE t \in S
    <3>1. g.tags[t].prev = NULL
      BY <1>g, <1>t, <1>i
    <3>2. NULL \notin S
      BY <2>0, <1>f
    <3> QED
      BY <2>2, <3>1, <3>2
  <2>3. CASE t \notin S
    <3>1. S \in SUBSET InList(h)
      BY <2>0, <2>3
    <3>2. PICK u \in S : h.tags[u].prev \notin S
      BY <3>1, <1>l DEF NoCircle
    <3> QED
      BY <3>2, <2>0, <2>3, <1>g
  <2> QED
    BY <2>2, <2>3
<1> QED
  BY <1>1, <1>2, <1>3, <1>4 DEF Lists

\* The lists only see index, next and prev of the tags in them.
LEMMA KeepLists ==
    ASSUME NEW h \in Heaps, Lists(h), NEW g \in Heaps, g.free = h.free,
           \A u \in DOMAIN h.tags \cap DOMAIN g.tags :
               /\ g.tags[u].index = h.tags[u].index
               /\ g.tags[u].next = h.tags[u].next
               /\ g.tags[u].prev = h.tags[u].prev,
           \A u \in DOMAIN h.tags \ DOMAIN g.tags : h.tags[u].index = -1,
           \A u \in DOMAIN g.tags \ DOMAIN h.tags :
               g.tags[u].index = -1 /\ g.tags[u].next = NULL /\ g.tags[u].prev = NULL
    PROVE  Lists(g)
<1>l. ListLinks(h) /\ ListHeads(h) /\ OneEnd(h) /\ NoCircle(h)
  BY DEF Lists
<1>i. /\ InList(g) = InList(h)
      /\ \A u \in InList(h) : /\ u \in DOMAIN h.tags /\ u \in DOMAIN g.tags
                              /\ g.tags[u].index = h.tags[u].index
                              /\ g.tags[u].next = h.tags[u].next
                              /\ g.tags[u].prev = h.tags[u].prev
  BY DEF InList
<1>n. \A u \in InList(h) : /\ h.tags[u].next # NULL => h.tags[u].next \in InList(h)
                           /\ h.tags[u].prev # NULL => h.tags[u].prev \in InList(h)
  BY <1>l DEF ListLinks, InList
<1>1. ListLinks(g)
  <2> SUFFICES ASSUME NEW u \in DOMAIN g.tags
               PROVE  /\ g.tags[u].index # -1 /\ g.tags[u].prev = NULL =>
                            g.free[g.tags[u].index] = u
                      /\ g.tags[u].index # -1 /\ g.tags[u].next # NULL =>
                            /\ g.tags[u].next \in DOMAIN g.tags
                            /\ g.tags[g.tags[u].next].index = g.tags[u].index
                            /\ g.tags[g.tags[u].next].prev = u
                      /\ g.tags[u].index # -1 /\ g.tags[u].prev # NULL =>
                            /\ g.tags[u].prev \in DOMAIN g.tags
                            /\ g.tags[g.tags[u].prev].index = g.tags[u].index
                            /\ g.tags[g.tags[u].prev].next = u
                      /\ g.tags[u].index = -1 => g.tags[u].next = NULL /\ g.tags[u].prev = NULL
    BY DEF ListLinks
  <2>1. CASE g.tags[u].index = -1
    <3>1. CASE u \in DOMAIN h.tags
      BY <2>1, <3>1, <1>l DEF ListLinks
    <3>2. CASE u \notin DOMAIN h.tags
      BY <3>2, <2>1
    <3> QED
      BY <3>1, <3>2
  <2>2. CASE g.tags[u].index # -1
    <3>1. u \in InList(h)
      BY <2>2, <1>i DEF InList
    <3> QED
      BY <2>2, <3>1, <1>i, <1>n, <1>l DEF ListLinks
  <2> QED
    BY <2>1, <2>2
<1>2. ListHeads(g)
  <2> SUFFICES ASSUME NEW i \in Classes, h.free[i] # NULL
               PROVE  /\ h.free[i] \in DOMAIN g.tags
                      /\ g.tags[h.free[i]].index = i
                      /\ g.tags[h.free[i]].prev = NULL
    BY DEF ListHeads
  <2>1. /\ h.free[i] \in InList(h) /\ h.tags[h.free[i]].index = i
        /\ h.tags[h.free[i]].prev = NULL
    BY <1>l, ConstantFacts DEF ListHeads, InList
  <2> QED
    BY <2>1, <1>i
<1>3. OneEnd(g)
  BY <1>i, <1>l DEF OneEnd
<1>4. NoCircle(g)
  <2> SUFFICES ASSUME NEW S \in SUBSET InList(h), S # {}
               PROVE  \E u \in S : g.tags[u].prev \notin S
    BY <1>i DEF NoCircle
  <2>1. PICK u \in S : h.tags[u].prev \notin S
    BY <1>l DEF NoCircle
  <2> QED
    BY <2>1, <1>i
<1> QED
  BY <1>1, <1>2, <1>3, <1>4 DEF Lists
------------------------------------------------------------------------------
(* Pages, blocks and the pieces that tile them.                             *)

\* The first unit of page p.
Addr(p) == p * PageSize

\* The first units of pages: in order, PageSize apart, one page for every unit.
LEMMA AddrFacts ==
    /\ \A p \in Nat : Addr(p) \in Nat /\ Addr(p + 1) = Addr(p) + PageSize
                      /\ Addr(p) \div PageSize = p
    /\ \A p, q \in Nat : p < q => Addr(p) + PageSize <= Addr(q)
    /\ \A p, q \in Nat : Addr(p + q) = Addr(p) + Addr(q)
    /\ \A u \in Nat : \E p \in Nat : Addr(p) <= u /\ u < Addr(p + 1)
<1>c. PageSize \in Nat /\ PageSize >= 1
  BY ConstantFacts
<1>1. ASSUME NEW p \in Nat
      PROVE  Addr(p) \in Nat /\ Addr(p + 1) = Addr(p) + PageSize
  BY <1>c DEF Addr
<1>2. ASSUME NEW p \in Nat
      PROVE  (p * PageSize) \div PageSize = p
  BY <1>c
<1>3. ASSUME NEW p \in Nat, NEW q \in Nat, p < q
      PROVE  p * PageSize + PageSize <= q * PageSize
  BY <1>c, <1>3
<1>4. ASSUME NEW p \in Nat, NEW q \in Nat
      PROVE  (p + q) * PageSize = p * PageSize + q * PageSize
  BY <1>c
<1>5. ASSUME NEW u \in Nat
      PROVE  \E p \in Nat : p * PageSize <= u /\ u < (p + 1) * PageSize
  <2>1. u \div PageSize \in Nat
    BY <1>c
  <2>2. (u \div PageSize) * PageSize <= u /\ u < (u \div PageSize + 1) * PageSize
    BY <1>c
  <2> QED
    BY <2>1, <2>2
<1> QED
  BY <1>1, <1>2, <1>3, <1>4, <1>5 DEF Addr

\* Pages and their first units are in the same order.
LEMMA AddrMonotone ==
    ASSUME NEW p \in Nat, NEW q \in Nat, p <= q
    PROVE  Addr(p) <= Addr(q)
<1>1. Addr(p) \in Nat /\ Addr(q) \in Nat /\ PageSize \in Nat
  BY AddrFacts, ConstantFacts
<1>2. CASE p = q
  BY <1>1, <1>2
<1>3. CASE p < q
  <2>1. Addr(p) + PageSize <= Addr(q)
    BY <1>3, AddrFacts
  <2> QED
    BY <2>1, <1>1
<1> QED
  BY <1>2, <1>3

\* liballoc asks for enough pages, for PageCount at the least, and finds out from
\* real_size how many it was given: the rounding of liballoc_free undoes that of
\* allocate_new_tag.
LEMMA PagesForFacts ==
    /\ \A s \in Nat : PagesFor(s) \in Nat /\ PagesFor(s) >= PageCount /\ s <= Addr(PagesFor(s))
    /\ \A n \in Nat : n >= PageCount => PagesFor(Addr(n)) = n
<1>c. PageSize \in Nat /\ PageSize >= 1 /\ PageCount \in Nat /\ PageCount >= 1
  BY ConstantFacts
<1>1. ASSUME NEW s \in Nat
      PROVE  /\ (s + PageSize - 1) \div PageSize \in Nat
             /\ s <= ((s + PageSize - 1) \div PageSize) * PageSize
  BY <1>c
<1>2. ASSUME NEW n \in Nat
      PROVE  (n * PageSize + PageSize - 1) \div PageSize = n
  BY <1>c
<1>3. ASSUME NEW s \in Nat
      PROVE  PagesFor(s) \in Nat /\ PagesFor(s) >= PageCount /\ s <= Addr(PagesFor(s))
  <2> DEFINE q == (s + PageSize - 1) \div PageSize
  <2>1. q \in Nat /\ s <= Addr(q)
    BY <1>1 DEF Addr
  <2>2. PagesFor(s) = Larger(q, PageCount)
    BY DEF PagesFor
  <2> HIDE DEF q
  <2>3. PagesFor(s) \in Nat /\ PagesFor(s) >= PageCount /\ PagesFor(s) >= q
    BY <2>1, <2>2, <1>c DEF Larger
  <2>4. Addr(q) \in Nat /\ Addr(PagesFor(s)) \in Nat
    BY <2>1, <2>3, AddrFacts
  <2>5. Addr(q) <= Addr(PagesFor(s))
    BY <2>1, <2>3, AddrMonotone
  <2> QED
    BY <2>1, <2>3, <2>4, <2>5
<1>4. ASSUME NEW n \in Nat, n >= PageCount
      PROVE  PagesFor(Addr(n)) = n
  BY <1>2, <1>4, <1>c DEF PagesFor, Larger, Addr
<1> QED
  BY <1>3, <1>4

\* B is the set of the blocks in hand: each from its first unit to the first
\* unit after it.
BlocksAre(m, B) ==
    /\ \A x \in B : \E b \in Pages, n \in Nat :
          n >= PageCount /\ b .. (b + n - 1) \subseteq m /\ x = <<Addr(b), Addr(b + n)>>
    /\ \A p \in m : \E x \in B : x[1] <= Addr(p) /\ Addr(p + 1) <= x[2]
    /\ \A x, y \in B : x # y => x[2] <= y[1] \/ y[2] <= x[1]

\* The first unit after a piece.
End(h, t) == t + h.tags[t].real_size

\* Every piece lies in a block and reaches its ends where it has no neighbour;
\* every unit of a block is in a piece.
PiecesOf(h, B) ==
    /\ \A t \in DOMAIN h.tags : \E x \in B :
          /\ x[1] <= t /\ End(h, t) <= x[2]
          /\ h.tags[t].split_left = NULL <=> t = x[1]
          /\ h.tags[t].split_right = NULL <=> End(h, t) = x[2]
    /\ \A x \in B : \A u \in x[1] .. (x[2] - 1) :
          \E t \in DOMAIN h.tags : t <= u /\ u < End(h, t)

\* No two pieces overlap.
Disjoint(h) == \A t, u \in DOMAIN h.tags : t < u => End(h, t) <= u

\* A piece has room for its tag and its region.
Room(h) == \A t \in DOMAIN h.tags : h.tags[t].real_size >= Hdr + h.tags[t].size

\* The split links lead to the pieces at either end, and back.
Tied(h) ==
    \A t \in DOMAIN h.tags :
        /\ h.tags[t].split_right # NULL =>
              /\ h.tags[t].split_right \in DOMAIN h.tags
              /\ h.tags[t].split_right = End(h, t)
              /\ h.tags[h.tags[t].split_right].split_left = t
        /\ h.tags[t].split_left # NULL =>
              /\ h.tags[t].split_left \in DOMAIN h.tags
              /\ h.tags[h.tags[t].split_left].split_right = t

Tile(h, B) == BlocksAre(h.mapped, B) /\ PiecesOf(h, B) /\ Disjoint(h) /\ Room(h) /\ Tied(h)

\* Where a block lies, in pages and in units.
LEMMA BlockFacts ==
    ASSUME NEW h \in Heaps, NEW B, BlocksAre(h.mapped, B), NEW x \in B
    PROVE  \E b \in Pages, n \in Nat :
              /\ n >= PageCount /\ n >= 1 /\ b \in Nat /\ b >= 1
              /\ b .. (b + n - 1) \subseteq h.mapped
              /\ x[1] = Addr(b) /\ x[2] = Addr(b + n) /\ x = <<Addr(b), Addr(b + n)>>
              /\ x[1] \in Nat /\ x[2] \in Nat /\ x[1] < x[2]
<1>1. PICK b \in Pages, n \in Nat :
          n >= PageCount /\ b .. (b + n - 1) \subseteq h.mapped /\ x = <<Addr(b), Addr(b + n)>>
  BY DEF BlocksAre
<1>2. b \in Nat /\ b >= 1 /\ n >= 1 /\ b + n \in Nat /\ b < b + n /\ PageSize \in Nat /\ PageSize >= 1
  BY <1>1, ConstantFacts
<1>3. x[1] = Addr(b) /\ x[2] = Addr(b + n)
  BY <1>1
<1>4. Addr(b) \in Nat /\ Addr(b + n) \in Nat /\ Addr(b) + PageSize <= Addr(b + n)
  BY <1>2, AddrFacts
<1> QED
  BY <1>1, <1>2, <1>3, <1>4

\* Pieces that only change what the blocks do not see.
LEMMA KeepTile ==
    ASSUME NEW h \in Heaps, NEW B, Tile(h, B), NEW g \in Heaps,
           g.mapped = h.mapped, DOMAIN g.tags = DOMAIN h.tags,
           \A u \in DOMAIN h.tags :
               /\ g.tags[u].real_size = h.tags[u].real_size
               /\ g.tags[u].real_size >= Hdr + g.tags[u].size
               /\ g.tags[u].split_left = h.tags[u].split_left
               /\ g.tags[u].split_right = h.tags[u].split_right
    PROVE  Tile(g, B)
<1>e. \A u \in DOMAIN h.tags : End(g, u) = End(h, u)
  BY DEF End
<1>1. BlocksAre(g.mapped, B)
  BY DEF Tile
<1>2. PiecesOf(g, B)
  BY <1>e DEF Tile, PiecesOf
<1>3. Disjoint(g)
  BY <1>e DEF Tile, Disjoint
<1>4. Room(g)
  BY DEF Tile, Room
<1>5. Tied(g)
  BY <1>e DEF Tile, Tied
<1> QED
  BY <1>1, <1>2, <1>3, <1>4, <1>5 DEF Tile

\* What the tiling says of the place of a piece.
LEMMA PieceFacts ==
    ASSUME NEW h \in Heaps, NEW B, Tile(h, B), NEW t \in DOMAIN h.tags
    PROVE  /\ h.tags[t].real_size \in Nat /\ h.tags[t].real_size >= Hdr + h.tags[t].size
           /\ h.tags[t].size \in Nat /\ Hdr \in Nat /\ Hdr >= 1
           /\ t \in Nat /\ t # NULL /\ End(h, t) \in Nat /\ t < End(h, t)
           /\ h.tags[t].split_right # t
           /\ h.tags[t].split_left # t
<1>1. /\ h.tags[t].real_size \in Nat /\ h.tags[t].real_size >= Hdr + h.tags[t].size
      /\ h.tags[t].size \in Nat /\ Hdr \in Nat /\ Hdr >= 1 /\ t \in Nat /\ t # NULL
  BY TagFields, ConstantFacts DEF Tile, Room
<1>2. End(h, t) \in Nat /\ t < End(h, t)
  BY <1>1 DEF End
<1>3. h.tags[t].split_right # t
  BY <1>1, <1>2 DEF Tile, Tied
<1>4. h.tags[t].split_left # t
  BY <1>1, <1>3 DEF Tile, Tied
<1> QED
  BY <1>1, <1>2, <1>3, <1>4

\* Melting two neighbours leaves the memory tiled, both ends of the new piece
\* tied to the pieces beyond.
LEMMA JoinTile ==
    ASSUME NEW h \in Heaps, NEW B, Tile(h, B), NEW l \in DOMAIN h.tags,
           NEW r \in DOMAIN h.tags, h.tags[l].split_right = r,
           NEW g, g = Join(h, l, r)
    PROVE  Tile(g, B)
<1> DEFINE D == DOMAIN h.tags
           beyond == h.tags[r].split_right
<1>t. \A t \in D : /\ h.tags[t].real_size \in Nat /\ h.tags[t].real_size >= Hdr + h.tags[t].size
                   /\ h.tags[t].size \in Nat /\ Hdr \in Nat /\ Hdr >= 1
                   /\ t \in Nat /\ t # NULL /\ End(h, t) \in Nat /\ t < End(h, t)
                   /\ h.tags[t].split_right # t /\ h.tags[t].split_left # t
  BY PieceFacts
<1>p. BlocksAre(h.mapped, B) /\ PiecesOf(h, B) /\ Disjoint(h) /\ Room(h) /\ Tied(h)
  BY DEF Tile
<1>s. \A t \in D :
        /\ h.tags[t].split_right # NULL =>
              /\ h.tags[t].split_right \in D
              /\ h.tags[t].split_right = End(h, t)
              /\ h.tags[h.tags[t].split_right].split_left = t
        /\ h.tags[t].split_left # NULL =>
              /\ h.tags[t].split_left \in D
              /\ h.tags[h.tags[t].split_left].split_right = t
  BY <1>p DEF Tied
<1>r. r # NULL /\ r = End(h, l) /\ h.tags[r].split_left = l /\ l < r
  BY <1>s, <1>t
<1>b. beyond # NULL => beyond \in D /\ beyond = End(h, r) /\ h.tags[beyond].split_left = r
                       /\ r < beyond
  BY <1>s, <1>t
<1>d. \A t, u \in D : t < u => End(h, t) <= u
  BY <1>p DEF Disjoint
<1>n. l # beyond /\ l # r
  BY <1>r, <1>b, <1>t
<1>g. /\ g \in Heaps
      /\ DOMAIN g.tags = D \ {r}
      /\ g.mapped = h.mapped
      /\ \A u \in D \ {r} :
            /\ g.tags[u].real_size = IF u = l THEN h.tags[l].real_size + h.tags[r].real_size
                                     ELSE h.tags[u].real_size
            /\ g.tags[u].size = h.tags[u].size
            /\ g.tags[u].split_left = IF u = beyond THEN l ELSE h.tags[u].split_left
            /\ g.tags[u].split_right = IF u = l THEN beyond ELSE h.tags[u].split_right
  BY <1>n, JoinShape
<1>e. \A u \in D \ {r} : End(g, u) = IF u = l THEN End(h, r) ELSE End(h, u)
  BY <1>g, <1>r, <1>t, <1>n DEF End
<1> HIDE DEF beyond, D
<1>1. BlocksAre(g.mapped, B)
  BY <1>g, <1>p
<1>2. PiecesOf(g, B)
  <2>1. ASSUME NEW t \in D \ {r}
        PROVE  \E x \in B :
                 /\ x[1] <= t /\ End(g, t) <= x[2]
                 /\ g.tags[t].split_left = NULL <=> t = x[1]
                 /\ g.tags[t].split_right = NULL <=> End(g, t) = x[2]
    <3>1. PICK x \in B : /\ x[1] <= t /\ End(h, t) <= x[2]
                         /\ h.tags[t].split_left = NULL <=> t = x[1]
                         /\ h.tags[t].split_right = NULL <=> End(h, t) = x[2]
      BY <1>p DEF PiecesOf, D
    <3>x. x[1] \in Nat /\ x[2] \in Nat
      BY <1>p, BlockFacts
    <3>2. CASE t = l
      <4>1. PICK y \in B : /\ y[1] <= r /\ End(h, r) <= y[2]
                           /\ h.tags[r].split_left = NULL <=> r = y[1]
                           /\ h.tags[r].split_right = NULL <=> End(h, r) = y[2]
        BY <1>p DEF PiecesOf
      <4>2. y[1] \in Nat /\ y[2] \in Nat
        BY <1>p, BlockFacts
      <4>3. r < x[2] /\ x[1] < r /\ r < y[2]
        <5>1. r \in D /\ l \in D
          BY DEF D
        <5>2. r # x[2]
          BY <1>r, <3>1, <3>2
        <5> QED
          BY <3>1, <3>2, <3>x, <4>1, <4>2, <1>r, <1>t, <5>1, <5>2
      <4>4. x = y
        BY <1>p, <4>1, <4>2, <4>3, <3>x, <1>r, <1>t DEF BlocksAre, D
      <4>5. g.tags[t].split_left = h.tags[t].split_left /\ g.tags[t].split_right = beyond
            /\ End(g, t) = End(h, r)
        BY <3>2, <1>g, <1>e, <1>n
      <4> QED
        BY <3>1, <3>2, <4>1, <4>4, <4>5 DEF beyond
    <3>3. CASE t # l /\ t = beyond
      <4>1. /\ g.tags[t].split_left = l /\ g.tags[t].split_right = h.tags[t].split_right
            /\ End(g, t) = End(h, t)
        BY <3>3, <1>g, <1>e
      <4>2. h.tags[t].split_left = r /\ l # NULL
        BY <3>3, <1>b, <1>t DEF D
      <4> QED
        BY <3>1, <4>1, <4>2, <1>r
    <3>4. CASE t # l /\ t # beyond
      BY <3>1, <3>4, <1>g, <1>e
    <3> QED
      BY <3>2, <3>3, <3>4
  <2>2. ASSUME NEW x \in B, NEW u \in x[1] .. (x[2] - 1)
        PROVE  \E t \in D \ {r} : t <= u /\ u < End(g, t)
    <3>0. u \in Int
      OBVIOUS
    <3>1. PICK t \in D : t <= u /\ u < End(h, t)
      BY <1>p DEF PiecesOf, D
    <3>2. CASE t = r
      BY <3>1, <3>2, <3>0, <1>r, <1>e, <1>n, <1>t DEF D
    <3>3. CASE t = l
      <4>1. l \in D \ {r} /\ End(g, l) = End(h, r) /\ End(h, l) = r /\ r \in D /\ l \in D
        BY <1>e, <1>n, <1>r DEF D
      <4>2. r < End(h, r) /\ r \in Nat /\ End(h, r) \in Nat
        BY <4>1, <1>t
      <4> QED
        BY <3>1, <3>3, <3>0, <4>1, <4>2
    <3>4. CASE t # r /\ t # l
      BY <3>1, <3>4, <1>e
    <3> QED
      BY <3>2, <3>3, <3>4
  <2> QED
    BY <2>1, <2>2, <1>g DEF PiecesOf
<1>3. Disjoint(g)
  <2> SUFFICES ASSUME NEW t \in D \ {r}, NEW u \in D \ {r}, t < u PROVE End(g, t) <= u
    BY <1>g DEF Disjoint
  <2>1. CASE t = l
    <3>1. End(h, l) <= u /\ r # u /\ l \in D /\ r \in D
      BY <2>1, <1>d DEF D
    <3>2. r < u
      BY <3>1, <1>r, <1>t
    <3>3. End(h, r) <= u
      BY <3>1, <3>2, <1>d
    <3> QED
      BY <2>1, <3>3, <1>e
  <2>2. CASE t # l
    BY <2>2, <1>d, <1>e
  <2> QED
    BY <2>1, <2>2
<1>4. Room(g)
  BY <1>g, <1>t DEF Room, D
<1>5. Tied(g)
  <2> SUFFICES ASSUME NEW t \in D \ {r}
               PROVE  /\ g.tags[t].split_right # NULL =>
                            /\ g.tags[t].split_right \in D \ {r}
                            /\ g.tags[t].split_right = End(g, t)
                            /\ g.tags[g.tags[t].split_right].split_left = t
                      /\ g.tags[t].split_left # NULL =>
                            /\ g.tags[t].split_left \in D \ {r}
                            /\ g.tags[g.tags[t].split_left].split_right = t
    BY <1>g DEF Tied
  <2>0. l \in D /\ r \in D /\ h.tags[r].split_right = beyond
    BY DEF D, beyond
  <2>1. ASSUME g.tags[t].split_right # NULL
        PROVE  /\ g.tags[t].split_right \in D \ {r}
               /\ g.tags[t].split_right = End(g, t)
               /\ g.tags[g.tags[t].split_right].split_left = t
    <3>1. CASE t = l
      <4>1. g.tags[t].split_right = beyond
        BY <3>1, <1>g
      <4>2. beyond \in D \ {r} /\ beyond = End(h, r)
        BY <4>1, <2>1, <1>b, <1>t, <2>0
      <4> QED
        BY <3>1, <4>1, <4>2, <1>g, <1>e
    <3>2. CASE t # l
      <4>1. PICK y : y = h.tags[t].split_right
        OBVIOUS
      <4>2. g.tags[t].split_right = y
        BY <3>2, <4>1, <1>g
      <4>3. y \in D /\ y = End(h, t) /\ h.tags[y].split_left = t
        BY <4>1, <4>2, <2>1, <1>s
      <4>4. y # r
        BY <4>3, <3>2, <1>r
      <4>5. y # beyond
        BY <4>3, <1>b, <4>2, <2>1
      <4> QED
        BY <3>2, <4>2, <4>3, <4>4, <4>5, <1>g, <1>e
    <3> QED
      BY <3>1, <3>2
  <2>2. ASSUME g.tags[t].split_left # NULL
        PROVE  /\ g.tags[t].split_left \in D \ {r}
               /\ g.tags[g.tags[t].split_left].split_right = t
    <3>1. CASE t = beyond
      BY <3>1, <2>0, <1>n, <1>g
    <3>2. CASE t # beyond
      <4>1. PICK y : y = h.tags[t].split_left
        OBVIOUS
      <4>2. g.tags[t].split_left = y
        BY <3>2, <4>1, <1>g
      <4>3. y \in D /\ h.tags[y].split_right = t
        BY <4>1, <4>2, <2>2, <1>s
      <4>4. y # r /\ y # l
        BY <4>3, <3>2, <2>0
      <4> QED
        BY <4>2, <4>3, <4>4, <1>g
    <3> QED
      BY <3>1, <3>2
  <2> QED
    BY <2>1, <2>2
<1> QED
  BY <1>1, <1>2, <1>3, <1>4, <1>5 DEF Tile

\* So does cutting a piece in two where its region ends.
LEMMA HalvedTile ==
    ASSUME NEW h \in Heaps, NEW B, Tile(h, B), NEW t \in DOMAIN h.tags,
           h.tags[t].real_size >= h.tags[t].size + 2 * Hdr,
           NEW new, new = t + Hdr + h.tags[t].size,
           NEW g, g = Halved(h, t, new)
    PROVE  /\ Tile(g, B)
           /\ new \in Nat \ {NULL} /\ new \notin DOMAIN h.tags
           /\ h.tags[t].split_right # t /\ h.tags[t].split_right # new
<1> DEFINE D == DOMAIN h.tags
           right == h.tags[t].split_right
<1>t. \A u \in D : /\ h.tags[u].real_size \in Nat /\ h.tags[u].real_size >= Hdr + h.tags[u].size
                   /\ h.tags[u].size \in Nat /\ Hdr \in Nat /\ Hdr >= 1
                   /\ u \in Nat /\ u # NULL /\ End(h, u) \in Nat /\ u < End(h, u)
                   /\ h.tags[u].split_right # u /\ h.tags[u].split_left # u
  BY PieceFacts
<1>p. BlocksAre(h.mapped, B) /\ PiecesOf(h, B) /\ Disjoint(h) /\ Room(h) /\ Tied(h)
  BY DEF Tile
<1>s. \A u \in D :
        /\ h.tags[u].split_right # NULL =>
              /\ h.tags[u].split_right \in D
              /\ h.tags[u].split_right = End(h, u)
              /\ h.tags[h.tags[u].split_right].split_left = u
        /\ h.tags[u].split_left # NULL =>
              /\ h.tags[u].split_left \in D
              /\ h.tags[h.tags[u].split_left].split_right = u
  BY <1>p DEF Tied
<1>d. \A x, y \in D : x < y => End(h, x) <= y
  BY <1>p DEF Disjoint
<1>n. new \in Nat /\ new # NULL /\ t < new /\ new < End(h, t)
  BY <1>t DEF End, NULL
<1>o. new \notin D
  BY <1>n, <1>d, <1>t
<1>b. right # NULL => right \in D /\ right = End(h, t) /\ h.tags[right].split_left = t /\ new < right
  BY <1>s, <1>n
<1>r. right # t /\ right # new
  BY <1>b, <1>n, <1>t
<1>g. /\ g \in Heaps
      /\ DOMAIN g.tags = D \cup {new}
      /\ g.mapped = h.mapped
      /\ g.tags[new].real_size = h.tags[t].real_size - Hdr - h.tags[t].size
      /\ g.tags[new].size = 0
      /\ g.tags[new].split_left = t /\ g.tags[new].split_right = right
      /\ \A u \in D :
            /\ g.tags[u].real_size = IF u = t THEN Hdr + h.tags[t].size ELSE h.tags[u].real_size
            /\ g.tags[u].size = h.tags[u].size
            /\ g.tags[u].split_left = IF u = right THEN new ELSE h.tags[u].split_left
            /\ g.tags[u].split_right = IF u = t THEN new ELSE h.tags[u].split_right
  BY <1>n, <1>o, <1>r, <1>t, HalvedShape
<1>e. /\ \A u \in D : End(g, u) = IF u = t THEN new ELSE End(h, u)
      /\ End(g, new) = End(h, t)
  <2>1. ASSUME NEW u \in D, u # t
        PROVE  End(g, u) = End(h, u)
    BY <2>1, <1>g DEF End
  <2>2. End(g, t) = t + (Hdr + h.tags[t].size)
    BY <1>g DEF End
  <2>3. End(g, new) = new + (h.tags[t].real_size - Hdr - h.tags[t].size)
    BY <1>g DEF End
  <2>4. End(h, t) = t + h.tags[t].real_size
    BY DEF End
  <2>5. /\ h.tags[t].real_size \in Nat /\ h.tags[t].size \in Nat /\ Hdr \in Nat /\ t \in Nat
    BY <1>t
  <2> QED
    BY <2>1, <2>2, <2>3, <2>4, <2>5
<1>z. t \in D /\ h.tags[t].split_right = right
  OBVIOUS
<1>w. h.tags[t].real_size - Hdr - h.tags[t].size >= Hdr
  BY <1>t
<1> HIDE DEF right, D
<1>1. BlocksAre(g.mapped, B)
  BY <1>g, <1>p
<1>2. PiecesOf(g, B)
  <2>t. PICK x \in B : /\ x[1] <= t /\ End(h, t) <= x[2]
                       /\ h.tags[t].split_left = NULL <=> t = x[1]
                       /\ h.tags[t].split_right = NULL <=> End(h, t) = x[2]
    BY <1>p DEF PiecesOf
  <2>x. x[1] \in Nat /\ x[2] \in Nat
    BY <1>p, BlockFacts
  <2>1. ASSUME NEW u \in D \cup {new}
        PROVE  \E y \in B :
                 /\ y[1] <= u /\ End(g, u) <= y[2]
                 /\ g.tags[u].split_left = NULL <=> u = y[1]
                 /\ g.tags[u].split_right = NULL <=> End(g, u) = y[2]
    <3>1. CASE u = new
      <4>1. /\ g.tags[u].split_left = t /\ g.tags[u].split_right = right /\ End(g, u) = End(h, t)
        BY <3>1, <1>g, <1>e
      <4>2. t \in Nat /\ t # NULL
        BY <1>t, <1>z
      <4>3. x[1] <= u /\ u # x[1]
        BY <3>1, <4>2, <2>t, <2>x, <1>n
      <4>4. right = NULL <=> End(h, t) = x[2]
        BY <2>t, <1>z
      <4> QED
        BY <4>1, <4>2, <4>3, <4>4, <2>t
    <3>2. CASE u = t
      <4>1. /\ g.tags[u].split_left = h.tags[t].split_left /\ g.tags[u].split_right = new
            /\ End(g, u) = new
        BY <3>2, <1>g, <1>e, <1>r, <1>z
      <4>2. End(h, t) \in Nat
        BY <1>t, <1>z
      <4>3. new <= x[2] /\ new # x[2]
        BY <4>2, <2>t, <2>x, <1>n
      <4> QED
        BY <3>2, <4>1, <4>3, <2>t, <1>n
    <3>3. CASE u # new /\ u # t
      <4>1. PICK y \in B : /\ y[1] <= u /\ End(h, u) <= y[2]
                           /\ h.tags[u].split_left = NULL <=> u = y[1]
                           /\ h.tags[u].split_right = NULL <=> End(h, u) = y[2]
        BY <3>3, <1>p DEF PiecesOf, D
      <4>0. /\ u \in D /\ End(g, u) = End(h, u)
            /\ g.tags[u].split_left = IF u = right THEN new ELSE h.tags[u].split_left
            /\ g.tags[u].split_right = h.tags[u].split_right
        BY <3>3, <1>g, <1>e
      <4>2. CASE u = right
        <5>1. h.tags[u].split_left = t
          BY <4>2, <4>0, <1>b, <1>t
        <5>2. t # NULL /\ new # NULL
          BY <1>t, <1>z, <1>n
        <5> QED
          BY <4>0, <4>1, <4>2, <5>1, <5>2
      <4>3. CASE u # right
        BY <4>0, <4>1, <4>3
      <4> QED
        BY <4>2, <4>3
    <3> QED
      BY <3>1, <3>2, <3>3
  <2>2. ASSUME NEW y \in B, NEW u \in y[1] .. (y[2] - 1)
        PROVE  \E w \in D \cup {new} : w <= u /\ u < End(g, w)
    <3>0. u \in Int
      OBVIOUS
    <3>1. PICK w \in D : w <= u /\ u < End(h, w)
      BY <1>p DEF PiecesOf, D
    <3>2. CASE w = t
      BY <3>0, <3>1, <3>2, <1>e, <1>n, <1>t, <1>z
    <3>3. CASE w # t
      BY <3>1, <3>3, <1>e
    <3> QED
      BY <3>2, <3>3
  <2>3. DOMAIN g.tags = D \cup {new}
    BY <1>g
  <2> QED
    BY <2>1, <2>2, <2>3 DEF PiecesOf
<1>3. Disjoint(g)
  <2> SUFFICES ASSUME NEW u \in D \cup {new}, NEW w \in D \cup {new}, u < w
               PROVE End(g, u) <= w
    BY <1>g DEF Disjoint
  <2>1. CASE u = new
    <3>0. t \in Nat /\ new \in Nat /\ t < new
      BY <1>n, <1>t, <1>z
    <3>1. w \in D /\ w # t
      <4>1. w # new
        BY <2>1, <3>0
      <4>2. w # t
        BY <2>1, <3>0
      <4> QED
        BY <4>1, <4>2
    <3>2. t < w
      <4>1. w \in Nat
        BY <3>1, <1>t
      <4> QED
        BY <2>1, <3>0, <4>1
    <3> QED
      BY <2>1, <3>1, <3>2, <1>d, <1>e, <1>z
  <2>2. CASE u = t
    <3>1. CASE w = new
      BY <2>2, <3>1, <1>e, <1>z, <1>n
    <3>2. CASE w # new
      <4>1. w \in D /\ End(h, t) <= w
        BY <2>2, <3>2, <1>d, <1>z
      <4> QED
        BY <2>2, <4>1, <1>e, <1>z, <1>n, <1>t
    <3> QED
      BY <3>1, <3>2
  <2>3. CASE u # new /\ u # t
    <3>1. CASE w = new
      <4>1. u < t
        <5>1. SUFFICES ASSUME ~ (u < t) PROVE FALSE
          OBVIOUS
        <5>2. u \in D /\ t < u
          BY <2>3, <5>1, <1>t, <1>z
        <5> QED
          BY <5>2, <3>1, <1>d, <1>n, <1>t, <1>z
      <4>2. End(h, u) <= t
        BY <4>1, <2>3, <1>d, <1>z
      <4> QED
        BY <4>2, <3>1, <2>3, <1>e, <1>n, <1>t, <1>z
    <3>2. CASE w # new
      BY <2>3, <3>2, <1>d, <1>e
    <3> QED
      BY <3>1, <3>2
  <2> QED
    BY <2>1, <2>2, <2>3
<1>4. Room(g)
  BY <1>g, <1>t, <1>w, <1>z DEF Room
<1>5. Tied(g)
  <2> SUFFICES ASSUME NEW u \in D \cup {new}
               PROVE  /\ g.tags[u].split_right # NULL =>
                            /\ g.tags[u].split_right \in D \cup {new}
                            /\ g.tags[u].split_right = End(g, u)
                            /\ g.tags[g.tags[u].split_right].split_left = u
                      /\ g.tags[u].split_left # NULL =>
                            /\ g.tags[u].split_left \in D \cup {new}
                            /\ g.tags[g.tags[u].split_left].split_right = u
    BY <1>g DEF Tied
  <2>1. ASSUME g.tags[u].split_right # NULL
        PROVE  /\ g.tags[u].split_right \in D \cup {new}
               /\ g.tags[u].split_right = End(g, u)
               /\ g.tags[g.tags[u].split_right].split_left = u
    <3>1. CASE u = t
      BY <3>1, <1>g, <1>e, <1>z
    <3>2. CASE u = new
      BY <3>2, <2>1, <1>g, <1>e, <1>b
    <3>3. CASE u # t /\ u # new
      <4>1. PICK y : y = h.tags[u].split_right
        OBVIOUS
      <4>2. g.tags[u].split_right = y
        BY <3>3, <4>1, <1>g
      <4>3. y \in D /\ y = End(h, u) /\ h.tags[y].split_left = u
        BY <3>3, <4>1, <4>2, <2>1, <1>s
      <4>4. y # right
        BY <4>3, <3>3, <1>b, <4>2, <2>1
      <4> QED
        <5>1. /\ u \in D /\ End(g, u) = End(h, u)
              /\ g.tags[y].split_left = h.tags[y].split_left
          BY <3>3, <4>3, <4>4, <1>g, <1>e
        <5> QED
          BY <4>2, <4>3, <5>1
    <3> QED
      BY <3>1, <3>2, <3>3
  <2>2. ASSUME g.tags[u].split_left # NULL
        PROVE  /\ g.tags[u].split_left \in D \cup {new}
               /\ g.tags[g.tags[u].split_left].split_right = u
    <3>1. CASE u = new
      BY <3>1, <1>g, <1>z
    <3>2. CASE u # new /\ u = right
      BY <3>2, <1>g, <1>b, <1>z
    <3>3. CASE u # new /\ u # right
      <4>1. PICK y : y = h.tags[u].split_left
        OBVIOUS
      <4>2. g.tags[u].split_left = y
        BY <3>3, <4>1, <1>g
      <4>3. y \in D /\ h.tags[y].split_right = u
        BY <3>3, <4>1, <4>2, <2>2, <1>s
      <4>4. y # t
        BY <4>3, <3>3, <1>z
      <4> QED
        BY <4>2, <4>3, <4>4, <1>g
    <3> QED
      BY <3>1, <3>2, <3>3
  <2> QED
    BY <2>1, <2>2
<1> QED
  BY <1>1, <1>2, <1>3, <1>4, <1>5, <1>n, <1>o, <1>r DEF Tile, right, D

\* A new block lies apart from the old ones and is one piece.
LEMMA AllocateTile ==
    ASSUME NEW h \in Heaps, NEW B, Tile(h, B), NEW size \in Nat,
           NEW n, n = PagesFor(size + Hdr), NEW b \in Blocks(h, n),
           NEW g, g = allocate_new_tag(h, size, b)
    PROVE  /\ Tile(g, B \cup {<<Addr(b), Addr(b + n)>>})
           /\ Addr(b) \in Nat \ {NULL} /\ Addr(b) \notin DOMAIN h.tags
           /\ n \in Nat /\ Addr(n) \in Nat /\ Addr(n) >= size + Hdr
           /\ b .. (b + n - 1) \subseteq Pages
<1> DEFINE D == DOMAIN h.tags
           t == Addr(b)
           e == Addr(b + n)
           x == <<t, e>>
<1>c. Hdr \in Nat /\ Hdr >= 1 /\ PageSize \in Nat /\ PageSize >= 1 /\ PageCount \in Nat /\ PageCount >= 1
      /\ Pages \subseteq Nat \ {0}
  BY ConstantFacts
<1>n. n \in Nat /\ n >= PageCount /\ n >= 1 /\ size + Hdr <= Addr(n) /\ size + Hdr \in Nat
  BY <1>c, PagesForFacts
<1>b. b \in Pages /\ b \in Nat /\ b >= 1 /\ b + n \in Nat
      /\ b .. (b + n - 1) \subseteq Pages /\ b .. (b + n - 1) \cap h.mapped = {}
  BY <1>c, <1>n DEF Blocks
<1>a. /\ t \in Nat /\ e \in Nat /\ Addr(n) \in Nat /\ e = t + Addr(n) /\ t < e /\ t >= 1
  <2>1. t \in Nat /\ e \in Nat /\ Addr(n) \in Nat /\ e = t + Addr(n)
    BY <1>b, <1>n, AddrFacts
  <2>2. Addr(0) + PageSize <= Addr(b) /\ Addr(0) \in Nat
    BY <1>b, AddrFacts
  <2> QED
    BY <2>1, <2>2, <1>n, <1>c
<1>p. BlocksAre(h.mapped, B) /\ PiecesOf(h, B) /\ Disjoint(h) /\ Room(h) /\ Tied(h)
  BY DEF Tile
<1>f. \A u \in D : /\ u \in Nat /\ u # NULL /\ End(h, u) \in Nat /\ u < End(h, u)
  BY PieceFacts
\* The new block has nothing in common with the old ones.
<1>y. \A y \in B : /\ y[1] \in Nat /\ y[2] \in Nat /\ y[1] < y[2]
                   /\ y[2] <= t \/ e <= y[1]
  <2> TAKE y \in B
  <2>1. PICK c \in Pages, m \in Nat :
              /\ m >= 1 /\ c \in Nat /\ c .. (c + m - 1) \subseteq h.mapped
              /\ y[1] = Addr(c) /\ y[2] = Addr(c + m)
              /\ y[1] \in Nat /\ y[2] \in Nat /\ y[1] < y[2]
    BY <1>p, BlockFacts
  <2>2. c + m <= b \/ b + n <= c
    <3>1. SUFFICES ASSUME b < c + m, c < b + n PROVE FALSE
      BY <2>1, <1>b
    <3>2. CASE b <= c
      <4>1. c \in b .. (b + n - 1) /\ c \in c .. (c + m - 1)
        BY <3>1, <3>2, <2>1, <1>b, <1>n
      <4> QED
        BY <4>1, <2>1, <1>b
    <3>3. CASE c < b
      <4>1. b \in b .. (b + n - 1) /\ b \in c .. (c + m - 1)
        BY <3>1, <3>3, <2>1, <1>b, <1>n
      <4> QED
        BY <4>1, <2>1, <1>b
    <3> QED
      BY <3>2, <3>3, <2>1, <1>b
  <2>3. CASE c + m <= b
    <3>1. c + m \in Nat
      BY <2>1
    <3>2. Addr(c + m) <= Addr(b)
      BY <2>3, <3>1, <1>b, AddrMonotone
    <3> QED
      BY <3>2, <2>1
  <2>4. CASE b + n <= c
    <3>2. Addr(b + n) <= Addr(c)
      BY <2>4, <2>1, <1>b, AddrMonotone
    <3> QED
      BY <3>2, <2>1
  <2> QED
    BY <2>1, <2>2, <2>3, <2>4
<1>u. \A u \in D : End(h, u) <= t \/ e <= u
  <2> TAKE u \in D
  <2>1. PICK y \in B : y[1] <= u /\ End(h, u) <= y[2]
    BY <1>p DEF PiecesOf
  <2> QED
    BY <2>1, <1>y, <1>f, <1>a
<1>o. t \notin D
  BY <1>u, <1>f, <1>a
<1>g. /\ g \in Heaps
      /\ DOMAIN g.tags = D \cup {t}
      /\ g.mapped = h.mapped \cup (b .. (b + n - 1))
      /\ g.tags[t].real_size = Addr(n) /\ g.tags[t].size = size
      /\ g.tags[t].split_left = NULL /\ g.tags[t].split_right = NULL
      /\ \A u \in D : g.tags[u] = h.tags[u]
  <2>1. t = b * PageSize /\ Addr(n) = n * PageSize
    BY DEF Addr
  <2>2. t \in Nat \ {NULL}
    BY <1>a DEF NULL
  <2> HIDE DEF t
  <2> QED
    BY <2>1, <2>2, <1>o, <1>b, <1>n, <1>a, AllocateShape
<1>e. (\A u \in D : End(g, u) = End(h, u)) /\ End(g, t) = e
  BY <1>g, <1>a DEF End
<1>x. x[1] = t /\ x[2] = e
  OBVIOUS
<1> DEFINE C == B \cup {x}
<1>1. BlocksAre(g.mapped, C)
  <2>1. ASSUME NEW y \in C
        PROVE  \E c \in Pages, m \in Nat :
                  m >= PageCount /\ c .. (c + m - 1) \subseteq g.mapped /\ y = <<Addr(c), Addr(c + m)>>
    <3>1. CASE y = x
      BY <3>1, <1>b, <1>n, <1>g
    <3>2. CASE y \in B
      BY <3>2, <1>p, <1>g DEF BlocksAre
    <3> QED
      BY <3>1, <3>2
  <2>2. ASSUME NEW p \in g.mapped
        PROVE  \E y \in C : y[1] <= Addr(p) /\ Addr(p + 1) <= y[2]
    <3>1. CASE p \in h.mapped
      BY <3>1, <1>p DEF BlocksAre
    <3>2. CASE p \in b .. (b + n - 1)
      <4>1. p \in Nat /\ p + 1 \in Nat /\ b <= p /\ p + 1 <= b + n
        BY <3>2, <1>b, <1>n
      <4>2. Addr(b) <= Addr(p)
        BY <4>1, <1>b, AddrMonotone
      <4>3. Addr(p + 1) <= Addr(b + n)
        BY <4>1, <1>b, AddrMonotone
      <4> QED
        BY <4>2, <4>3, <1>x
    <3> QED
      BY <3>1, <3>2, <1>g
  <2>3. ASSUME NEW y \in C, NEW z \in C, y # z
        PROVE  y[2] <= z[1] \/ z[2] <= y[1]
    <3>1. CASE y \in B /\ z \in B
      BY <3>1, <2>3, <1>p DEF BlocksAre
    <3>2. CASE y = x \/ z = x
      <4> HIDE DEF x, t, e
      <4> QED
        BY <3>2, <2>3, <1>y, <1>x
    <3> QED
      BY <3>1, <3>2
  <2> QED
    BY <2>1, <2>2, <2>3 DEF BlocksAre
<1> HIDE DEF t, e, x
<1>2. PiecesOf(g, C)
  <2>1. ASSUME NEW u \in D \cup {t}
        PROVE  \E y \in C :
                 /\ y[1] <= u /\ End(g, u) <= y[2]
                 /\ g.tags[u].split_left = NULL <=> u = y[1]
                 /\ g.tags[u].split_right = NULL <=> End(g, u) = y[2]
    <3>1. CASE u = t
      BY <3>1, <1>x, <1>g, <1>e, <1>a
    <3>2. CASE u \in D
      BY <3>2, <1>p, <1>g, <1>e DEF PiecesOf, D
    <3> QED
      BY <3>1, <3>2
  <2>2. ASSUME NEW y \in C, NEW u \in y[1] .. (y[2] - 1)
        PROVE  \E w \in D \cup {t} : w <= u /\ u < End(g, w)
    <3>1. CASE y = x
      BY <3>1, <1>x, <1>e, <1>a
    <3>2. CASE y \in B
      <4>1. PICK w \in D : w <= u /\ u < End(h, w)
        BY <3>2, <1>p DEF PiecesOf, D
      <4> QED
        BY <4>1, <1>e
    <3> QED
      BY <3>1, <3>2
  <2> HIDE DEF C, D
  <2> QED
    BY <2>1, <2>2, <1>g DEF PiecesOf
<1>3. Disjoint(g)
  <2> SUFFICES ASSUME NEW u \in D \cup {t}, NEW w \in D \cup {t}, u < w
               PROVE End(g, u) <= w
    BY <1>g DEF Disjoint
  <2>1. CASE u = t
    <3>1. w \in D
      BY <2>1, <1>a
    <3> QED
      BY <2>1, <3>1, <1>u, <1>e, <1>f, <1>a
  <2>2. CASE u \in D /\ w = t
    BY <2>2, <1>u, <1>e, <1>f, <1>a
  <2>3. CASE u \in D /\ w \in D
    BY <2>3, <1>p, <1>e DEF Disjoint, D
  <2> QED
    BY <2>1, <2>2, <2>3
<1>4. Room(g)
  BY <1>g, <1>p, <1>n, <1>a, <1>c DEF Room, D
<1>5. Tied(g)
  <2> SUFFICES ASSUME NEW u \in D \cup {t}
               PROVE  /\ g.tags[u].split_right # NULL =>
                            /\ g.tags[u].split_right \in D \cup {t}
                            /\ g.tags[u].split_right = End(g, u)
                            /\ g.tags[g.tags[u].split_right].split_left = u
                      /\ g.tags[u].split_left # NULL =>
                            /\ g.tags[u].split_left \in D \cup {t}
                            /\ g.tags[g.tags[u].split_left].split_right = u
    BY <1>g DEF Tied
  <2>1. CASE u = t
    BY <2>1, <1>g
  <2>2. CASE u \in D
    BY <2>2, <1>p, <1>g, <1>e DEF Tied, D
  <2> QED
    BY <2>1, <2>2
<1> QED
  BY <1>1, <1>2, <1>3, <1>4, <1>5, <1>a, <1>b, <1>n, <1>o DEF Tile, x, t, e, NULL

\* A piece without neighbours is its block, and giving it back gives the pages
\* of the block back and no other.
LEMMA GiveBackTile ==
    ASSUME NEW h \in Heaps, NEW B, Tile(h, B), NEW t \in DOMAIN h.tags, Whole(h, t),
           NEW g, g = GiveBack(h, t)
    PROVE  \E C : Tile(g, C)
<1> DEFINE D == DOMAIN h.tags
<1>c. PageSize \in Nat /\ PageSize >= 1 /\ Hdr \in Nat /\ Hdr >= 1
      /\ Pages \subseteq Nat \ {0}
  BY ConstantFacts
<1>p. BlocksAre(h.mapped, B) /\ PiecesOf(h, B) /\ Disjoint(h) /\ Room(h) /\ Tied(h)
  BY DEF Tile
<1>f. \A u \in D : /\ u \in Nat /\ u # NULL /\ End(h, u) \in Nat /\ u < End(h, u)
                   /\ h.tags[u].real_size \in Nat
  BY PieceFacts
<1>n. /\ h.tags[t].split_left = NULL /\ h.tags[t].split_right = NULL /\ t \in D
  BY DEF Whole
<1>x. PICK x \in B : t = x[1] /\ End(h, t) = x[2]
  BY <1>p, <1>n DEF PiecesOf
<1>b. PICK b \in Pages, n \in Nat :
              /\ n >= PageCount /\ n >= 1 /\ b \in Nat
              /\ b .. (b + n - 1) \subseteq h.mapped
              /\ x[1] = Addr(b) /\ x[2] = Addr(b + n)
              /\ x[1] \in Nat /\ x[2] \in Nat /\ x[1] < x[2]
  BY <1>p, BlockFacts
<1>r. h.tags[t].real_size = Addr(n)
  <2>1. Addr(b + n) = Addr(b) + Addr(n) /\ Addr(n) \in Nat /\ Addr(b) \in Nat
    BY <1>b, AddrFacts
  <2>2. End(h, t) = t + h.tags[t].real_size
    BY DEF End
  <2>3. h.tags[t].real_size \in Nat
    BY <1>f
  <2> QED
    BY <2>1, <2>2, <2>3, <1>x, <1>b
<1>q. PagesFor(h.tags[t].real_size) = n /\ t \div PageSize = b
  BY <1>r, <1>x, <1>b, PagesForFacts, AddrFacts
<1>g. /\ g \in Heaps
      /\ DOMAIN g.tags = D \ {t}
      /\ g.mapped = h.mapped \ (b .. (b + n - 1))
      /\ \A u \in D \ {t} : g.tags[u] = h.tags[u]
  BY <1>q, GiveBackShape
<1>e. \A u \in D \ {t} : End(g, u) = End(h, u)
  BY <1>g DEF End
<1>y. \A y \in B : /\ y[1] \in Nat /\ y[2] \in Nat /\ y[1] < y[2]
                   /\ y # x => y[2] <= x[1] \/ x[2] <= y[1]
  BY <1>p, BlockFacts DEF BlocksAre
\* The other pieces lie in the other blocks.
<1>u. \A u \in D \ {t} : End(h, u) <= x[1] \/ x[2] <= u
  <2> TAKE u \in D \ {t}
  <2>1. u \in Nat /\ t \in Nat /\ End(h, u) \in Nat
    BY <1>f, <1>n
  <2>2. CASE u < t
    BY <2>2, <1>p, <1>n, <1>x DEF Disjoint
  <2>3. CASE t < u
    BY <2>3, <1>p, <1>n, <1>x DEF Disjoint
  <2> QED
    BY <2>1, <2>2, <2>3
\* A page of x is one of those given back.
<1>m. \A p \in Nat : x[1] < Addr(p + 1) /\ Addr(p) < x[2] => p \in b .. (b + n - 1)
  <2> TAKE p \in Nat
  <2> SUFFICES ASSUME x[1] < Addr(p + 1), Addr(p) < x[2] PROVE p \in b .. (b + n - 1)
    OBVIOUS
  <2>1. p + 1 \in Nat /\ b + n \in Nat /\ Addr(p) \in Nat /\ Addr(p + 1) \in Nat
    BY <1>b, AddrFacts
  <2>2. b <= p
    <3>1. CASE p + 1 <= b
      BY <3>1, <2>1, <1>b, AddrMonotone
    <3> QED
      BY <3>1, <1>b
  <2>3. p < b + n
    <3>1. CASE b + n <= p
      BY <3>1, <2>1, <1>b, AddrMonotone
    <3> QED
      BY <3>1, <1>b
  <2> QED
    BY <2>2, <2>3, <1>b
<1> DEFINE C == B \ {x}
<1> HIDE DEF D
<1>1. BlocksAre(g.mapped, C)
  <2>1. ASSUME NEW y \in C
        PROVE  \E c \in Pages, m \in Nat :
                  m >= PageCount /\ c .. (c + m - 1) \subseteq g.mapped /\ y = <<Addr(c), Addr(c + m)>>
    <3>1. PICK c \in Pages, m \in Nat :
              /\ m >= PageCount /\ m >= 1 /\ c \in Nat
              /\ c .. (c + m - 1) \subseteq h.mapped
              /\ y[1] = Addr(c) /\ y[2] = Addr(c + m) /\ y = <<Addr(c), Addr(c + m)>>
              /\ y[1] \in Nat /\ y[2] \in Nat /\ y[1] < y[2]
      BY <1>p, BlockFacts
    <3>2. ASSUME NEW p \in c .. (c + m - 1)
          PROVE  p \notin b .. (b + n - 1)
      <4>1. SUFFICES ASSUME p \in b .. (b + n - 1) PROVE FALSE
        OBVIOUS
      <4>2. /\ p \in Nat /\ p + 1 \in Nat /\ b <= p /\ p + 1 <= b + n /\ c <= p /\ p + 1 <= c + m
            /\ b + n \in Nat /\ c + m \in Nat
        BY <3>1, <1>b, <4>1
      <4>3. /\ Addr(b) <= Addr(p) /\ Addr(p + 1) <= Addr(b + n)
            /\ Addr(c) <= Addr(p) /\ Addr(p + 1) <= Addr(c + m)
        BY <4>2, <3>1, <1>b, AddrMonotone
      <4>4. Addr(p) \in Nat /\ Addr(p + 1) = Addr(p) + PageSize
        BY <4>2, AddrFacts
      <4> QED
        BY <4>3, <4>4, <3>1, <1>b, <1>y, <1>c
    <3> QED
      BY <3>1, <3>2, <1>g
  <2>2. ASSUME NEW p \in g.mapped
        PROVE  \E y \in C : y[1] <= Addr(p) /\ Addr(p + 1) <= y[2]
    <3>1. p \in h.mapped /\ p \notin b .. (b + n - 1) /\ p \in Nat
      BY <1>g, <1>c, HeapsAre
    <3>2. PICK y \in B : y[1] <= Addr(p) /\ Addr(p + 1) <= y[2]
      BY <3>1, <1>p DEF BlocksAre
    <3>3. y # x
      <4>1. Addr(p) \in Nat /\ Addr(p + 1) = Addr(p) + PageSize
        BY <3>1, AddrFacts
      <4>2. ~ (x[1] < Addr(p + 1) /\ Addr(p) < x[2])
        BY <3>1, <1>m
      <4> QED
        BY <3>2, <4>1, <4>2, <1>b, <1>c
    <3> QED
      BY <3>2, <3>3
  <2>3. ASSUME NEW y \in C, NEW z \in C, y # z
        PROVE  y[2] <= z[1] \/ z[2] <= y[1]
    BY <2>3, <1>p DEF BlocksAre
  <2> QED
    BY <2>1, <2>2, <2>3 DEF BlocksAre
<1>2. PiecesOf(g, C)
  <2>1. ASSUME NEW u \in D \ {t}
        PROVE  \E y \in C :
                 /\ y[1] <= u /\ End(g, u) <= y[2]
                 /\ g.tags[u].split_left = NULL <=> u = y[1]
                 /\ g.tags[u].split_right = NULL <=> End(g, u) = y[2]
    <3>1. PICK y \in B : /\ y[1] <= u /\ End(h, u) <= y[2]
                         /\ h.tags[u].split_left = NULL <=> u = y[1]
                         /\ h.tags[u].split_right = NULL <=> End(h, u) = y[2]
      BY <1>p DEF PiecesOf, D
    <3>2. y # x
      <4>1. u \in Nat /\ End(h, u) \in Nat /\ u < End(h, u)
        BY <1>f
      <4> QED
        BY <4>1, <3>1, <1>u, <1>b
    <3>3. g.tags[u] = h.tags[u] /\ End(g, u) = End(h, u)
      BY <1>g, <1>e
    <3> QED
      BY <3>1, <3>2, <3>3
  <2>2. ASSUME NEW y \in C, NEW u \in y[1] .. (y[2] - 1)
        PROVE  \E w \in D \ {t} : w <= u /\ u < End(g, w)
    <3>1. PICK w \in D : w <= u /\ u < End(h, w)
      BY <1>p DEF PiecesOf, D
    <3>2. w # t
      <4>1. /\ y[1] \in Nat /\ y[2] \in Nat /\ (y[2] <= x[1] \/ x[2] <= y[1])
            /\ x[1] \in Nat /\ x[2] \in Nat
        BY <1>y, <1>b
      <4>2. u \in Int /\ y[1] <= u /\ u < y[2]
        BY <4>1
      <4> QED
        BY <3>1, <4>1, <4>2, <1>x
    <3> QED
      BY <3>1, <3>2, <1>e
  <2>3. DOMAIN g.tags = D \ {t}
    BY <1>g
  <2> HIDE DEF C
  <2> QED
    BY <2>1, <2>2, <2>3 DEF PiecesOf
<1>3. Disjoint(g)
  <2> SUFFICES ASSUME NEW u \in D \ {t}, NEW w \in D \ {t}, u < w
               PROVE End(g, u) <= w
    BY <1>g DEF Disjoint
  <2> QED
    BY <1>p, <1>e DEF Disjoint, D
<1>4. Room(g)
  BY <1>g, <1>p DEF Room, D
<1>5. Tied(g)
  <2> SUFFICES ASSUME NEW u \in D \ {t}
               PROVE  /\ h.tags[u].split_right # NULL =>
                            /\ h.tags[u].split_right \in D \ {t}
                            /\ h.tags[u].split_right = End(g, u)
                            /\ g.tags[h.tags[u].split_right].split_left = u
                      /\ h.tags[u].split_left # NULL =>
                            /\ h.tags[u].split_left \in D \ {t}
                            /\ g.tags[h.tags[u].split_left].split_right = u
    BY <1>g DEF Tied
  <2>1. /\ h.tags[u].split_right # NULL =>
              /\ h.tags[u].split_right \in D
              /\ h.tags[u].split_right = End(h, u)
              /\ h.tags[h.tags[u].split_right].split_left = u
        /\ h.tags[u].split_left # NULL =>
              /\ h.tags[u].split_left \in D
              /\ h.tags[h.tags[u].split_left].split_right = u
    BY <1>p DEF Tied, D
  <2>2. u # NULL
    BY <1>f
  <2>3. h.tags[u].split_right # t /\ h.tags[u].split_left # t
    BY <2>1, <2>2, <1>n, <1>f
  <2> QED
    BY <2>1, <2>3, <1>g, <1>e
<1>6. Tile(g, C)
  BY <1>1, <1>2, <1>3, <1>4, <1>5 DEF Tile
<1> QED
  BY <1>6
------------------------------------------------------------------------------
(* A heap in shape, what is counted of it and who holds it.  A helper may   *)
(* leave a tag that is neither free nor a region: the tag being worked on.  *)

\* A free tag is in the class of its size.
Classed(h) ==
    \A t \in DOMAIN h.tags : h.tags[t].index # -1 =>
        h.tags[t].index = Class(Usable(h, t))

\* The right neighbour of a free piece is in use.
Merged(h) ==
    \A t \in DOMAIN h.tags : h.tags[t].index # -1 /\ h.tags[t].split_right # NULL =>
        h.tags[h.tags[t].split_right].index = -1

\* The whole free blocks of a class.
Complete(h, i) == {t \in DOMAIN h.tags : h.tags[t].index = i /\ Whole(h, t)}

\* l_completePages counts them, up to MAXCOMPLETE.
Counted(h) == \A i \in Classes : /\ h.complete[i] = Cardinality(Complete(h, i))
                                 /\ h.complete[i] <= MaxComplete

\* The tags in use are those of the regions o, and those of S.
Held(h, o, S) ==
    /\ \A p \in DOMAIN o : /\ p \in Nat
                           /\ p - Hdr \in DOMAIN h.tags \ S
                           /\ h.tags[p - Hdr].index = -1
                           /\ h.tags[p - Hdr].size = o[p]
    /\ \A t \in DOMAIN h.tags \ S : h.tags[t].index = -1 => t + Hdr \in DOMAIN o

\* All tags in use but t are regions; all of them are.
HeldBut(h, o, t) == Held(h, o, {t})
HeldAll(h, o)    == Held(h, o, {})

\* A heap in order, whatever callers hold of it.
Shape(h, B) == /\ h \in Heaps /\ IsFiniteSet(DOMAIN h.tags)
               /\ Tile(h, B) /\ Lists(h) /\ Classed(h) /\ Merged(h)

\* remove_tag keeps the shape of the heap. The tag it takes is no longer counted,
\* and is in use though no region is there.
LEMMA RemoveSound ==
    ASSUME NEW h, NEW B, Shape(h, B), NEW t \in InList(h), NEW g, g = remove_tag(h, t)
    PROVE  /\ Shape(g, B) /\ g.complete = h.complete
           /\ DOMAIN g.tags = DOMAIN h.tags
           /\ \A u \in DOMAIN h.tags :
                 /\ g.tags[u].real_size = h.tags[u].real_size
                 /\ g.tags[u].size = h.tags[u].size
                 /\ g.tags[u].split_left = h.tags[u].split_left
                 /\ g.tags[u].split_right = h.tags[u].split_right
                 /\ g.tags[u].index = IF u = t THEN -1 ELSE h.tags[u].index
           /\ \A i \in Classes : Complete(g, i) = Complete(h, i) \ {t}
           /\ \A o, S : Held(h, o, S) => Held(g, o, S \cup {t})
<1>h. h \in Heaps /\ IsFiniteSet(DOMAIN h.tags) /\ Tile(h, B) /\ Lists(h) /\ Classed(h) /\ Merged(h)
  BY DEF Shape
<1>t. t \in DOMAIN h.tags /\ h.tags[t].index # -1 /\ h.tags[t].index \in Classes
  BY <1>h, Neighbours DEF InList
<1>g. /\ g \in Heaps /\ DOMAIN g.tags = DOMAIN h.tags
      /\ g.mapped = h.mapped /\ g.complete = h.complete
      /\ \A u \in DOMAIN h.tags :
                 /\ g.tags[u].real_size = h.tags[u].real_size
                 /\ g.tags[u].size = h.tags[u].size
                 /\ g.tags[u].split_left = h.tags[u].split_left
                 /\ g.tags[u].split_right = h.tags[u].split_right
                 /\ g.tags[u].index = IF u = t THEN -1 ELSE h.tags[u].index
  BY <1>h, <1>t, Neighbours, RemoveShape
<1>1. Tile(g, B)
  <2>1. \A u \in DOMAIN h.tags : g.tags[u].real_size >= Hdr + g.tags[u].size
    BY <1>g, <1>h DEF Tile, Room
  <2> QED
    BY <2>1, <1>g, <1>h, KeepTile
<1>2. Lists(g)
  BY <1>h, RemoveLists
<1>3. Classed(g)
  BY <1>g, <1>h DEF Classed, Usable
<1>4. Merged(g)
  <2>1. \A u \in DOMAIN h.tags : h.tags[u].split_right # NULL => h.tags[u].split_right \in DOMAIN h.tags
    BY <1>h DEF Tile, Tied
  <2> QED
    BY <2>1, <1>g, <1>h DEF Merged
<1>5. ASSUME NEW i \in Classes
      PROVE  Complete(g, i) = Complete(h, i) \ {t}
  <2>1. i # -1
    BY ConstantFacts
  <2>2. \A u \in DOMAIN h.tags : Whole(g, u) <=> Whole(h, u)
    BY <1>g DEF Whole
  <2> QED
    BY <2>1, <2>2, <1>g DEF Complete
<1>6. ASSUME NEW o, NEW S, Held(h, o, S)
      PROVE  Held(g, o, S \cup {t})
  BY <1>6, <1>g, <1>t DEF Held, HeldBut, HeldAll
<1> QED
  BY <1>h, <1>g, <1>1, <1>2, <1>3, <1>4, <1>5, <1>6 DEF Shape

\* insert_tag keeps the shape of the heap if no neighbour of the tag is free.
LEMMA InsertSound ==
    ASSUME NEW h, NEW B, Shape(h, B), NEW t \in DOMAIN h.tags, h.tags[t].index = -1,
           h.tags[t].split_left # NULL => h.tags[h.tags[t].split_left].index = -1,
           h.tags[t].split_right # NULL => h.tags[h.tags[t].split_right].index = -1,
           NEW index \in Int, NEW k \in Classes, k = Class(Usable(h, t)),
           index < 0 \/ index = k,
           NEW g, g = insert_tag(h, t, index)
    PROVE  /\ Shape(g, B) /\ g.complete = h.complete
           /\ DOMAIN g.tags = DOMAIN h.tags
           /\ \A u \in DOMAIN h.tags :
                 /\ g.tags[u].real_size = h.tags[u].real_size
                 /\ g.tags[u].size = h.tags[u].size
                 /\ g.tags[u].split_left = h.tags[u].split_left
                 /\ g.tags[u].split_right = h.tags[u].split_right
                 /\ g.tags[u].index = IF u = t THEN k ELSE h.tags[u].index
           /\ \A i \in Classes : Complete(g, i) = IF i = k /\ Whole(h, t)
                                                  THEN Complete(h, i) \cup {t}
                                                  ELSE Complete(h, i)
           /\ t \notin Complete(h, k)
           /\ \A o, S : t \in S /\ Held(h, o, S) => Held(g, o, S \ {t})
<1>h. h \in Heaps /\ IsFiniteSet(DOMAIN h.tags) /\ Tile(h, B) /\ Lists(h) /\ Classed(h) /\ Merged(h)
  BY DEF Shape
<1>k. k = (IF index < 0 THEN Class(Usable(h, t)) ELSE index) /\ k # -1
  BY ConstantFacts
<1>i. \A j \in Classes : h.free[j] # NULL => h.free[j] \in DOMAIN h.tags /\ h.free[j] # t
  BY <1>h, ConstantFacts DEF Lists, ListHeads
<1>n. h.tags[t].next = NULL
  BY <1>h DEF Lists, ListLinks
<1>g. /\ g \in Heaps /\ DOMAIN g.tags = DOMAIN h.tags
      /\ g.mapped = h.mapped /\ g.complete = h.complete
      /\ \A u \in DOMAIN h.tags :
                 /\ g.tags[u].real_size = h.tags[u].real_size
                 /\ g.tags[u].size = h.tags[u].size
                 /\ g.tags[u].split_left = h.tags[u].split_left
                 /\ g.tags[u].split_right = h.tags[u].split_right
                 /\ g.tags[u].index = IF u = t THEN k ELSE h.tags[u].index
  BY <1>h, <1>k, <1>i, <1>n, InsertShape
<1>1. Tile(g, B)
  <2>1. \A u \in DOMAIN h.tags : g.tags[u].real_size >= Hdr + g.tags[u].size
    BY <1>g, <1>h DEF Tile, Room
  <2> QED
    BY <2>1, <1>g, <1>h, KeepTile
<1>2. Lists(g)
  BY <1>h, <1>k, InsertLists
<1>3. Classed(g)
  BY <1>g, <1>h DEF Classed, Usable
<1>4. Merged(g)
  <2> SUFFICES ASSUME NEW u \in DOMAIN h.tags, g.tags[u].index # -1, h.tags[u].split_right # NULL
               PROVE  g.tags[h.tags[u].split_right].index = -1
    BY <1>g DEF Merged
  <2>1. PICK r : r = h.tags[u].split_right
    OBVIOUS
  <2>2. r \in DOMAIN h.tags /\ h.tags[r].split_left = u
    BY <2>1, <1>h DEF Tile, Tied
  <2>3. r # t
    <3>1. SUFFICES ASSUME r = t PROVE FALSE
      OBVIOUS
    <3>2. h.tags[t].split_left = u
      BY <2>2, <3>1
    <3>3. u # NULL
      BY <1>h, TagFields
    <3>4. h.tags[u].index = -1
      BY <3>2, <3>3
    <3>5. u = t
      BY <3>4, <1>g
    <3> QED
      BY <3>2, <3>5, <1>h, PieceFacts
  <2>4. h.tags[r].index = -1
    <3>1. CASE u = t
      BY <3>1, <2>1
    <3>2. CASE u # t
      BY <3>2, <2>1, <1>g, <1>h DEF Merged
    <3> QED
      BY <3>1, <3>2
  <2> QED
    BY <2>1, <2>2, <2>3, <2>4, <1>g
<1>w. \A u \in DOMAIN h.tags : Whole(g, u) <=> Whole(h, u)
  BY <1>g DEF Whole
<1>5. ASSUME NEW i \in Classes
      PROVE  Complete(g, i) = IF i = k /\ Whole(h, t) THEN Complete(h, i) \cup {t}
                              ELSE Complete(h, i)
  <2>1. i # -1
    BY ConstantFacts
  <2> QED
    BY <2>1, <1>w, <1>g DEF Complete
<1>6. ASSUME NEW o, NEW S, t \in S, Held(h, o, S)
      PROVE  Held(g, o, S \ {t})
  BY <1>6, <1>g, <1>k DEF Held, HeldBut, HeldAll
<1>7. t \notin Complete(h, k)
  BY <1>k DEF Complete
<1> QED
  BY <1>h, <1>g, <1>1, <1>2, <1>3, <1>4, <1>5, <1>6, <1>7 DEF Shape

\* Melting two tags in use into one keeps the shape of the heap.
LEMMA JoinSound ==
    ASSUME NEW h, NEW B, Shape(h, B), NEW l \in DOMAIN h.tags, NEW r \in DOMAIN h.tags,
           h.tags[l].split_right = r, h.tags[l].index = -1, h.tags[r].index = -1,
           NEW g, g = Join(h, l, r)
    PROVE  /\ Shape(g, B) /\ g.complete = h.complete
           /\ DOMAIN g.tags = DOMAIN h.tags \ {r} /\ l # r
           /\ \A u \in DOMAIN h.tags \ {r} : g.tags[u].index = h.tags[u].index
           /\ g.tags[l].split_left = h.tags[l].split_left
           /\ g.tags[l].split_right = h.tags[r].split_right
           /\ \A i \in Classes : Complete(g, i) = Complete(h, i)
           /\ \A o, S : r \in S /\ Held(h, o, S) => Held(g, o, S \ {r})
<1>h. h \in Heaps /\ IsFiniteSet(DOMAIN h.tags) /\ Tile(h, B) /\ Lists(h) /\ Classed(h) /\ Merged(h)
  BY DEF Shape
<1>t. /\ r # NULL /\ l # NULL /\ h.tags[r].split_left = l /\ l # r
      /\ h.tags[r].split_right # l
  <2>1. r # NULL /\ l # NULL /\ h.tags[r].split_left = l /\ l # r
    BY <1>h, TagFields, PieceFacts DEF Tile, Tied
  <2>2. l < r
    BY <1>h, <2>1, PieceFacts DEF Tile, Tied
  <2>3. h.tags[r].split_right # NULL => r < h.tags[r].split_right
    BY <1>h, PieceFacts DEF Tile, Tied
  <2> QED
    BY <2>1, <2>2, <2>3, <1>h, TagFields
<1>g. /\ g \in Heaps
      /\ DOMAIN g.tags = DOMAIN h.tags \ {r}
      /\ g.free = h.free /\ g.complete = h.complete
      /\ \A u \in DOMAIN h.tags \ {r} :
                 /\ g.tags[u].real_size = IF u = l THEN h.tags[l].real_size + h.tags[r].real_size
                                          ELSE h.tags[u].real_size
                 /\ g.tags[u].size = h.tags[u].size
                 /\ g.tags[u].index = h.tags[u].index
                 /\ g.tags[u].next = h.tags[u].next
                 /\ g.tags[u].prev = h.tags[u].prev
                 /\ g.tags[u].split_left = IF u = h.tags[r].split_right THEN l
                                           ELSE h.tags[u].split_left
                 /\ g.tags[u].split_right = IF u = l THEN h.tags[r].split_right
                                            ELSE h.tags[u].split_right
  BY <1>h, <1>t, JoinShape
<1>0. IsFiniteSet(DOMAIN g.tags)
  BY <1>h, <1>g, FS_Subset
<1>1. Tile(g, B)
  BY <1>h, JoinTile
<1>2. Lists(g)
  <2>1. \A u \in DOMAIN h.tags \ DOMAIN g.tags : h.tags[u].index = -1
    BY <1>g
  <2>2. \A u \in DOMAIN g.tags \ DOMAIN h.tags :
            g.tags[u].index = -1 /\ g.tags[u].next = NULL /\ g.tags[u].prev = NULL
    BY <1>g
  <2> QED
    BY <2>1, <2>2, <1>h, <1>g, KeepLists
<1>3. Classed(g)
  BY <1>g, <1>h DEF Classed, Usable
<1>4. Merged(g)
  <2> SUFFICES ASSUME NEW u \in DOMAIN h.tags \ {r}, h.tags[u].index # -1, g.tags[u].split_right # NULL
               PROVE  g.tags[g.tags[u].split_right].index = -1
    BY <1>g DEF Merged
  <2>1. PICK y : y = h.tags[u].split_right
    OBVIOUS
  <2>2. u # l /\ g.tags[u].split_right = y /\ y # NULL
    BY <2>1, <1>g
  <2>3. y \in DOMAIN h.tags /\ h.tags[y].split_left = u /\ h.tags[y].index = -1
    BY <2>1, <2>2, <1>h DEF Tile, Tied, Merged
  <2>4. y # r
    BY <2>2, <2>3, <1>t
  <2> QED
    BY <2>2, <2>3, <2>4, <1>g
<1>5. ASSUME NEW i \in Classes
      PROVE  Complete(g, i) = Complete(h, i)
  <2>1. i # -1
    BY ConstantFacts
  <2>2. ASSUME NEW u \in DOMAIN h.tags \ {r}, u # l
        PROVE  Whole(g, u) <=> Whole(h, u)
    <3>1. CASE u = h.tags[r].split_right
      <4>1. u # NULL /\ h.tags[u].split_left = r
        BY <3>1, <1>h, TagFields DEF Tile, Tied
      <4> QED
        BY <3>1, <4>1, <1>t, <1>g DEF Whole
    <3>2. CASE u # h.tags[r].split_right
      BY <2>2, <3>2, <1>g DEF Whole
    <3> QED
      BY <3>1, <3>2
  <2> QED
    BY <2>1, <2>2, <1>g DEF Complete
<1>6. ASSUME NEW o, NEW S, r \in S, Held(h, o, S)
      PROVE  Held(g, o, S \ {r})
  BY <1>6, <1>g DEF Held, HeldBut, HeldAll
<1>7. g.tags[l].split_left = h.tags[l].split_left /\ g.tags[l].split_right = h.tags[r].split_right
  BY <1>g, <1>t
<1> QED
  BY <1>h, <1>g, <1>t, <1>0, <1>1, <1>2, <1>3, <1>4, <1>5, <1>6, <1>7 DEF Shape

\* Every size has a class, the smallest or the largest at the ends.
LEMMA ClassIs ==
    ASSUME NEW s \in Nat
    PROVE  Class(s) \in Classes
<1>c. /\ MinExp \in Nat /\ MaxExp \in Nat /\ MinExp < MaxExp /\ MinExp \in Classes
      /\ Classes = MinExp .. (MaxExp - 1)
  BY ConstantFacts DEF Classes
<1>1. CASE s < 2 ^ MinExp
  <2>1. getexp(s) = -1
    BY <1>1 DEF getexp
  <2> QED
    BY <2>1, <1>c DEF Class
<1>2. CASE ~ (s < 2 ^ MinExp)
  <2> DEFINE Right(e) == ~ (s < 2 ^ e) /\ (s < 2 ^ (e + 1) \/ e = MaxExp - 1)
             T == {e \in Nat : e \in Classes /\ (s < 2 ^ (e + 1) \/ e = MaxExp - 1)}
             Less == {ss \in Nat \X Nat : ss[1] < ss[2]}
  <2>1. T \subseteq Nat /\ MaxExp - 1 \in T
    BY <1>c
  <2>2. IsWellFoundedOn(Less, Nat)
    BY NatLessThanWellFounded DEF OpToRel
  <2>3. PICK e \in T : \A d \in T : ~ (<<d, e>> \in Less)
    <3> HIDE DEF T, Less
    <3> QED
      BY <2>1, <2>2, WFMin
  <2>4. e \in Nat /\ e \in Classes /\ (s < 2 ^ (e + 1) \/ e = MaxExp - 1)
    BY <2>3
  <2>5. ~ (s < 2 ^ e)
    <3>1. CASE e = MinExp
      BY <3>1, <1>2
    <3>2. CASE e # MinExp
      <4>1. e - 1 \in Nat /\ e - 1 \in Classes /\ e - 1 < e /\ (e - 1) + 1 = e
            /\ e - 1 # MaxExp - 1
        BY <3>2, <2>4, <1>c
      <4>2. e - 1 \notin T
        <5>1. <<e - 1, e>> \in Nat \X Nat
          BY <4>1, <2>4
        <5>2. <<e - 1, e>> \in Less
          BY <4>1, <5>1
        <5> HIDE DEF T, Less
        <5> QED
          BY <5>2, <2>3
      <4>3. ~ (s < 2 ^ ((e - 1) + 1))
        BY <4>1, <4>2
      <4> QED
        BY <4>1, <4>3
    <3> QED
      BY <3>1, <3>2
  <2>6. \E d \in Classes : Right(d)
    BY <2>4, <2>5
  <2>7. getexp(s) = CHOOSE d \in Classes : Right(d)
    BY <1>2 DEF getexp
  <2> HIDE DEF Right
  <2>8. getexp(s) \in Classes
    BY <2>6, <2>7
  <2> QED
    BY <2>8, <1>c DEF Class
<1> QED
  BY <1>1, <1>2

\* split_tag keeps the shape of the heap if the piece has room for another tag
\* and its right neighbour is in use.
LEMMA SplitSound ==
    ASSUME NEW h, NEW B, Shape(h, B), NEW t \in DOMAIN h.tags, h.tags[t].index = -1,
           h.tags[t].split_right # NULL => h.tags[h.tags[t].split_right].index = -1,
           h.tags[t].real_size >= h.tags[t].size + 2 * Hdr,
           NEW g, g = split_tag(h, t)
    PROVE  /\ Shape(g, B) /\ g.complete = h.complete
           /\ t \in DOMAIN g.tags /\ g.tags[t].index = -1 /\ g.tags[t].size = h.tags[t].size
           /\ \A i \in Classes : Complete(g, i) = Complete(h, i)
           /\ \A o : HeldBut(h, o, t) => HeldBut(g, o, t)
<1> DEFINE new == t + Hdr + h.tags[t].size
           m == Halved(h, t, new)
<1>h. h \in Heaps /\ IsFiniteSet(DOMAIN h.tags) /\ Tile(h, B) /\ Lists(h) /\ Classed(h) /\ Merged(h)
  BY DEF Shape
<1>g. g = insert_tag(m, new, -1)
  BY DEF split_tag, SplitAt
<1>t. /\ Tile(m, B)
      /\ new \in Nat \ {NULL} /\ new \notin DOMAIN h.tags
      /\ h.tags[t].split_right # t /\ h.tags[t].split_right # new
  BY <1>h, HalvedTile
<1>r. h.tags[t].real_size >= Hdr + h.tags[t].size
  BY <1>h, PieceFacts
<1>n. t # new /\ t # NULL /\ new # NULL
  BY <1>t, <1>h, TagFields
<1> HIDE DEF new, m
<1>m. /\ m \in Heaps
      /\ DOMAIN m.tags = DOMAIN h.tags \cup {new}
      /\ m.free = h.free /\ m.complete = h.complete
      /\ m.tags[new].real_size = h.tags[t].real_size - Hdr - h.tags[t].size
      /\ m.tags[new].index = -1
      /\ m.tags[new].next = NULL /\ m.tags[new].prev = NULL
      /\ m.tags[new].split_left = t
      /\ m.tags[new].split_right = h.tags[t].split_right
      /\ \A u \in DOMAIN h.tags :
                 /\ m.tags[u].real_size = IF u = t THEN Hdr + h.tags[t].size
                                          ELSE h.tags[u].real_size
                 /\ m.tags[u].size = h.tags[u].size
                 /\ m.tags[u].index = h.tags[u].index
                 /\ m.tags[u].next = h.tags[u].next
                 /\ m.tags[u].prev = h.tags[u].prev
                 /\ m.tags[u].split_left = IF u = h.tags[t].split_right THEN new
                                           ELSE h.tags[u].split_left
                 /\ m.tags[u].split_right = IF u = t THEN new ELSE h.tags[u].split_right
  <2>1. m = Halved(h, t, new)
    BY DEF m
  <2> HIDE DEF m
  <2> QED
    BY <2>1, <1>h, <1>t, <1>r, HalvedShape
<1>s. \A u \in DOMAIN h.tags : h.tags[u].split_right # NULL =>
          /\ h.tags[u].split_right \in DOMAIN h.tags
          /\ h.tags[h.tags[u].split_right].split_left = u
  BY <1>h DEF Tile, Tied
<1>1. Shape(m, B)
  <2>1. IsFiniteSet(DOMAIN m.tags)
    BY <1>h, <1>m, FS_AddElement
  <2>2. Lists(m)
    <3>1. \A u \in DOMAIN h.tags \ DOMAIN m.tags : h.tags[u].index = -1
      BY <1>m
    <3>2. \A u \in DOMAIN m.tags \ DOMAIN h.tags :
              m.tags[u].index = -1 /\ m.tags[u].next = NULL /\ m.tags[u].prev = NULL
      BY <1>m
    <3> QED
      BY <3>1, <3>2, <1>h, <1>m, KeepLists
  <2>3. Classed(m)
    <3> SUFFICES ASSUME NEW u \in DOMAIN m.tags, m.tags[u].index # -1
                 PROVE  m.tags[u].index = Class(Usable(m, u))
      BY DEF Classed
    <3>1. u \in DOMAIN h.tags /\ u # t /\ h.tags[u].index # -1
      BY <1>m
    <3>2. Usable(m, u) = Usable(h, u)
      BY <3>1, <1>m DEF Usable
    <3> QED
      BY <3>1, <3>2, <1>m, <1>h DEF Classed
  <2>4. Merged(m)
    <3> SUFFICES ASSUME NEW u \in DOMAIN m.tags, m.tags[u].index # -1, m.tags[u].split_right # NULL
                 PROVE  m.tags[m.tags[u].split_right].index = -1
      BY DEF Merged
    <3>1. u \in DOMAIN h.tags /\ u # t /\ h.tags[u].index # -1
          /\ m.tags[u].split_right = h.tags[u].split_right
      BY <1>m
    <3> QED
      BY <3>1, <1>m, <1>h, <1>s DEF Merged
  <2> QED
    BY <2>1, <2>2, <2>3, <2>4, <1>m, <1>t DEF Shape
<1>2. Class(Usable(m, new)) \in Classes
  <2>1. /\ h.tags[t].real_size \in Nat /\ h.tags[t].size \in Nat /\ Hdr \in Nat
    BY <1>h, PieceFacts
  <2>2. Usable(m, new) \in Nat
    BY <2>1, <1>m DEF Usable
  <2> QED
    BY <2>2, ClassIs
<1>3. /\ new \in DOMAIN m.tags /\ m.tags[new].index = -1
      /\ m.tags[new].split_left # NULL => m.tags[m.tags[new].split_left].index = -1
      /\ m.tags[new].split_right # NULL => m.tags[m.tags[new].split_right].index = -1
  BY <1>m, <1>n, <1>s
<1>4. ~ Whole(m, new)
  BY <1>m, <1>n DEF Whole
<1>5. \A i \in Classes : Complete(m, i) = Complete(h, i)
  <2> TAKE i \in Classes
  <2>1. i # -1
    BY ConstantFacts
  <2>2. ASSUME NEW u \in DOMAIN h.tags, u # t
        PROVE  Whole(m, u) <=> Whole(h, u)
    <3>1. CASE u = h.tags[t].split_right
      <4>1. u # NULL /\ h.tags[u].split_left = t
        BY <3>1, <1>h, <1>s, TagFields
      <4> QED
        BY <3>1, <4>1, <1>n, <1>m DEF Whole
    <3>2. CASE u # h.tags[t].split_right
      BY <2>2, <3>2, <1>m DEF Whole
    <3> QED
      BY <3>1, <3>2
  <2> QED
    BY <2>1, <2>2, <1>m DEF Complete
<1>6. ASSUME NEW o, HeldBut(h, o, t)
      PROVE  Held(m, o, {t, new})
  <2>1. ASSUME NEW p \in DOMAIN o
        PROVE  /\ p \in Nat /\ p - Hdr \in DOMAIN m.tags \ {t, new}
               /\ m.tags[p - Hdr].index = -1 /\ m.tags[p - Hdr].size = o[p]
    <3>1. /\ p \in Nat /\ p - Hdr \in DOMAIN h.tags /\ p - Hdr # t
          /\ h.tags[p - Hdr].index = -1 /\ h.tags[p - Hdr].size = o[p]
      BY <1>6 DEF Held, HeldBut, HeldAll
    <3>2. p - Hdr # new
      BY <3>1, <1>t
    <3> QED
      BY <3>1, <3>2, <1>m
  <2>2. ASSUME NEW u \in DOMAIN m.tags \ {t, new}, m.tags[u].index = -1
        PROVE  u + Hdr \in DOMAIN o
    <3>1. u \in DOMAIN h.tags \ {t} /\ h.tags[u].index = -1
      BY <2>2, <1>m
    <3> QED
      BY <3>1, <1>6 DEF Held, HeldBut, HeldAll
  <2> QED
    BY <2>1, <2>2 DEF Held, HeldBut, HeldAll
<1>7. PICK k \in Classes : k = Class(Usable(m, new))
  BY <1>2
<1>8. /\ Shape(g, B) /\ g.complete = m.complete
      /\ DOMAIN g.tags = DOMAIN m.tags
      /\ \A u \in DOMAIN m.tags :
            /\ g.tags[u].size = m.tags[u].size
            /\ g.tags[u].index = IF u = new THEN k ELSE m.tags[u].index
      /\ \A i \in Classes : Complete(g, i) = Complete(m, i)
      /\ \A o, S : new \in S /\ Held(m, o, S) => Held(g, o, S \ {new})
  BY <1>g, <1>1, <1>3, <1>4, <1>7, InsertSound
<1>9. ASSUME NEW o, HeldBut(h, o, t)
      PROVE  HeldBut(g, o, t)
  <2>1. Held(g, o, {t, new} \ {new})
    BY <1>6, <1>8, <1>9
  <2>2. {t, new} \ {new} = {t}
    BY <1>n
  <2> QED
    BY <2>1, <2>2 DEF HeldBut
<1>10. /\ t \in DOMAIN m.tags /\ t # new /\ m.tags[t].index = -1
       /\ m.tags[t].size = h.tags[t].size /\ m.complete = h.complete
  BY <1>m, <1>n
<1>11. \A i \in Classes : Complete(g, i) = Complete(h, i)
  BY <1>5, <1>8
<1> QED
  BY <1>8, <1>9, <1>10, <1>11

\* Noting a size that fits keeps the shape of the heap.
LEMMA SizedSound ==
    ASSUME NEW h, NEW B, Shape(h, B), NEW t \in DOMAIN h.tags, NEW size \in Nat,
           h.tags[t].real_size >= Hdr + size,
           NEW g, g = Sized(h, t, size)
    PROVE  /\ Shape(g, B) /\ g.complete = h.complete
           /\ DOMAIN g.tags = DOMAIN h.tags
           /\ \A u \in DOMAIN h.tags :
                 /\ g.tags[u].real_size = h.tags[u].real_size
                 /\ g.tags[u].size = IF u = t THEN size ELSE h.tags[u].size
                 /\ g.tags[u].index = h.tags[u].index
                 /\ g.tags[u].split_left = h.tags[u].split_left
                 /\ g.tags[u].split_right = h.tags[u].split_right
           /\ \A i \in Classes : Complete(g, i) = Complete(h, i)
           /\ \A o : HeldBut(h, o, t) => HeldBut(g, o, t)
<1>h. h \in Heaps /\ IsFiniteSet(DOMAIN h.tags) /\ Tile(h, B) /\ Lists(h) /\ Classed(h) /\ Merged(h)
  BY DEF Shape
<1>g. /\ g \in Heaps /\ DOMAIN g.tags = DOMAIN h.tags
      /\ g.free = h.free /\ g.mapped = h.mapped /\ g.complete = h.complete
      /\ \A u \in DOMAIN h.tags :
                 /\ g.tags[u].real_size = h.tags[u].real_size
                 /\ g.tags[u].size = IF u = t THEN size ELSE h.tags[u].size
                 /\ g.tags[u].index = h.tags[u].index
                 /\ g.tags[u].next = h.tags[u].next
                 /\ g.tags[u].prev = h.tags[u].prev
                 /\ g.tags[u].split_left = h.tags[u].split_left
                 /\ g.tags[u].split_right = h.tags[u].split_right
  BY <1>h, SizedShape
<1>1. Tile(g, B)
  <2>1. \A u \in DOMAIN h.tags : g.tags[u].real_size >= Hdr + g.tags[u].size
    BY <1>g, <1>h DEF Tile, Room
  <2> QED
    BY <2>1, <1>g, <1>h, KeepTile
<1>2. Lists(g)
  BY <1>h, <1>g, KeepLists
<1>3. Classed(g)
  BY <1>g, <1>h DEF Classed, Usable
<1>4. Merged(g)
  <2>1. \A u \in DOMAIN h.tags : h.tags[u].split_right # NULL => h.tags[u].split_right \in DOMAIN h.tags
    BY <1>h DEF Tile, Tied
  <2> QED
    BY <2>1, <1>g, <1>h DEF Merged
<1>5. \A i \in Classes : Complete(g, i) = Complete(h, i)
  BY <1>g DEF Complete, Whole
<1>6. ASSUME NEW o, HeldBut(h, o, t)
      PROVE  HeldBut(g, o, t)
  BY <1>6, <1>g DEF Held, HeldBut, HeldAll
<1> QED
  BY <1>h, <1>g, <1>1, <1>2, <1>3, <1>4, <1>5, <1>6 DEF Shape

\* allocate_new_tag keeps the shape of the heap; its tag is in use.
LEMMA AllocateSound ==
    ASSUME NEW h, NEW B, Shape(h, B), NEW size \in Nat,
           NEW b \in Blocks(h, PagesFor(size + Hdr)),
           NEW g, g = allocate_new_tag(h, size, b), NEW t, t = Addr(b)
    PROVE  /\ \E C : Shape(g, C)
           /\ g.complete = h.complete
           /\ t \in DOMAIN g.tags /\ g.tags[t].index = -1 /\ g.tags[t].split_right = NULL
           /\ g.tags[t].size = size /\ g.tags[t].real_size >= size + Hdr
           /\ \A i \in Classes : Complete(g, i) = Complete(h, i)
           /\ \A o : HeldAll(h, o) => HeldBut(g, o, t)
<1> DEFINE n == PagesFor(size + Hdr)
<1>h. h \in Heaps /\ IsFiniteSet(DOMAIN h.tags) /\ Tile(h, B) /\ Lists(h) /\ Classed(h) /\ Merged(h)
  BY DEF Shape
<1>t. /\ Tile(g, B \cup {<<Addr(b), Addr(b + n)>>})
      /\ t \in Nat \ {NULL} /\ t \notin DOMAIN h.tags
      /\ n \in Nat /\ Addr(n) \in Nat /\ Addr(n) >= size + Hdr
      /\ b .. (b + n - 1) \subseteq Pages
  BY <1>h, AllocateTile
<1>g. /\ g \in Heaps
      /\ DOMAIN g.tags = DOMAIN h.tags \cup {t}
      /\ g.free = h.free /\ g.complete = h.complete
      /\ g.tags[t].real_size = Addr(n) /\ g.tags[t].size = size
      /\ g.tags[t].index = -1 /\ g.tags[t].next = NULL /\ g.tags[t].prev = NULL
      /\ g.tags[t].split_left = NULL /\ g.tags[t].split_right = NULL
      /\ \A u \in DOMAIN h.tags : g.tags[u] = h.tags[u]
  <2>1. t = b * PageSize /\ Addr(n) = n * PageSize
    BY DEF Addr
  <2> QED
    BY <2>1, <1>h, <1>t, AllocateShape
<1> HIDE DEF n
<1>0. IsFiniteSet(DOMAIN g.tags)
  BY <1>h, <1>g, FS_AddElement
<1>2. Lists(g)
  BY <1>h, <1>g, KeepLists
<1>3. Classed(g)
  BY <1>g, <1>h DEF Classed, Usable
<1>4. Merged(g)
  <2>1. \A u \in DOMAIN h.tags : h.tags[u].split_right # NULL => h.tags[u].split_right \in DOMAIN h.tags
    BY <1>h DEF Tile, Tied
  <2> QED
    BY <2>1, <1>g, <1>h DEF Merged
<1>5. ASSUME NEW i \in Classes
      PROVE  Complete(g, i) = Complete(h, i)
  <2>1. i # -1
    BY ConstantFacts
  <2> QED
    BY <2>1, <1>g DEF Complete, Whole
<1>6. ASSUME NEW o, HeldAll(h, o)
      PROVE  HeldBut(g, o, t)
  BY <1>6, <1>g, <1>t DEF Held, HeldBut, HeldAll
<1> QED
  BY <1>g, <1>t, <1>0, <1>2, <1>3, <1>4, <1>5, <1>6 DEF Shape

\* Giving a block back that is one piece keeps the shape of the heap.
LEMMA GiveBackSound ==
    ASSUME NEW h, NEW B, Shape(h, B), NEW t \in DOMAIN h.tags, Whole(h, t),
           h.tags[t].index = -1, NEW g, g = GiveBack(h, t)
    PROVE  /\ \E C : Shape(g, C)
           /\ g.complete = h.complete
           /\ \A i \in Classes : Complete(g, i) = Complete(h, i)
           /\ \A o : HeldBut(h, o, t) => HeldAll(g, o)
<1>h. h \in Heaps /\ IsFiniteSet(DOMAIN h.tags) /\ Tile(h, B) /\ Lists(h) /\ Classed(h) /\ Merged(h)
  BY DEF Shape
<1>t. PICK C : Tile(g, C)
  BY <1>h, GiveBackTile
<1>g. /\ g \in Heaps
      /\ DOMAIN g.tags = DOMAIN h.tags \ {t}
      /\ g.free = h.free /\ g.complete = h.complete
      /\ \A u \in DOMAIN h.tags \ {t} : g.tags[u] = h.tags[u]
  BY <1>h, GiveBackShape
<1>0. IsFiniteSet(DOMAIN g.tags)
  BY <1>h, <1>g, FS_Subset
<1>2. Lists(g)
  BY <1>h, <1>g, KeepLists
<1>3. Classed(g)
  BY <1>g, <1>h DEF Classed, Usable
<1>4. Merged(g)
  <2> SUFFICES ASSUME NEW u \in DOMAIN h.tags \ {t}, h.tags[u].index # -1, h.tags[u].split_right # NULL
               PROVE  g.tags[h.tags[u].split_right].index = -1
    BY <1>g DEF Merged
  <2>1. /\ h.tags[u].split_right \in DOMAIN h.tags
        /\ h.tags[h.tags[u].split_right].split_left = u
        /\ h.tags[h.tags[u].split_right].index = -1
    BY <1>h DEF Tile, Tied, Merged
  <2>2. u # NULL
    BY <1>h, TagFields
  <2>3. h.tags[u].split_right # t
    BY <2>1, <2>2 DEF Whole
  <2> QED
    BY <2>1, <2>3, <1>g
<1>5. ASSUME NEW i \in Classes
      PROVE  Complete(g, i) = Complete(h, i)
  <2>1. i # -1
    BY ConstantFacts
  <2> QED
    BY <2>1, <1>g DEF Complete, Whole
<1>6. ASSUME NEW o, HeldBut(h, o, t)
      PROVE  HeldAll(g, o)
  BY <1>6, <1>g DEF Held, HeldBut, HeldAll
<1> QED
  BY <1>g, <1>t, <1>0, <1>2, <1>3, <1>4, <1>5, <1>6 DEF Shape
==============================================================================
