----------------------------- MODULE HeapProofs -----------------------------
(***************************************************************************)
(* The kernel heap for any pages, sizes and callers: the loops of free and *)
(* of the search end where the code relies on it, malloc and free keep the *)
(* heap in shape, every property the run checks holds, and callers hold    *)
(* disjoint regions.                                                       *)
(*                                                                         *)
(* The invariant is the shape of the heap (HeapPieceProofs), the exact     *)
(* counts and regions, and what a realloc in progress holds; the last is   *)
(* what keeps two reallocs, or a realloc and a free, off one region.       *)
(***************************************************************************)
EXTENDS HeapPieceProofs, WellFoundedInduction

\* Tags with the same fields are the same.
LEMMA SameTag ==
    ASSUME NEW x \in Tag, NEW y \in Tag, x.real_size = y.real_size, x.size = y.size,
           x.index = y.index, x.next = y.next, x.prev = y.prev,
           x.split_left = y.split_left, x.split_right = y.split_right
    PROVE  x = y
  BY DEF Tag

\* Heaps with the same fields in the same tags are the same.
LEMMA SameHeap ==
    ASSUME NEW g \in Heaps, NEW h \in Heaps,
           g.free = h.free, g.complete = h.complete, g.mapped = h.mapped,
           DOMAIN g.tags = DOMAIN h.tags,
           \A u \in DOMAIN h.tags :
               /\ g.tags[u].real_size = h.tags[u].real_size
               /\ g.tags[u].size = h.tags[u].size
               /\ g.tags[u].index = h.tags[u].index
               /\ g.tags[u].next = h.tags[u].next
               /\ g.tags[u].prev = h.tags[u].prev
               /\ g.tags[u].split_left = h.tags[u].split_left
               /\ g.tags[u].split_right = h.tags[u].split_right
    PROVE  g = h
<1>1. \A u \in DOMAIN h.tags : g.tags[u] \in Tag /\ h.tags[u] \in Tag
  BY TagFields
<1>2. \A u \in DOMAIN h.tags : g.tags[u] = h.tags[u]
  BY <1>1, SameTag
<1>3. g.tags \in [DOMAIN h.tags -> Tag] /\ h.tags \in [DOMAIN h.tags -> Tag]
  BY HeapsAre
<1>4. g.tags = h.tags
  BY <1>2, <1>3
<1>5. /\ g = [tags |-> g.tags, free |-> g.free, complete |-> g.complete, mapped |-> g.mapped]
      /\ h = [tags |-> h.tags, free |-> h.free, complete |-> h.complete, mapped |-> h.mapped]
  BY HeapsAre
<1> QED
  BY <1>4, <1>5

\* A free neighbour may leave its list before it is joined or after.
LEMMA RemoveThenJoin ==
    ASSUME NEW h \in Heaps, Lists(h), NEW l \in InList(h), NEW t \in DOMAIN h.tags,
           h.tags[t].index = -1, h.tags[t].split_right # l
    PROVE  remove_tag(Join(h, l, t), l) = Join(remove_tag(h, l), l, t)
<1> DEFINE D == DOMAIN h.tags
<1>t. /\ l \in D /\ h.tags[l].index \in Classes
      /\ h.tags[l].next # l /\ h.tags[l].prev # l
      /\ h.tags[l].prev # NULL => h.tags[l].prev # h.tags[l].next
      /\ l # t /\ l # NULL /\ t # NULL
  BY Neighbours, TagFields, ConstantFacts DEF InList
<1>n. h.tags[l].next # t /\ h.tags[l].prev # t
  BY <1>t, ConstantFacts DEF Lists, ListLinks
<1>j. PICK j : j = Join(h, l, t)
  OBVIOUS
<1>x. PICK x : x = remove_tag(j, l)
  OBVIOUS
<1>y. PICK y : y = remove_tag(h, l)
  OBVIOUS
<1>z. PICK z : z = Join(y, l, t)
  OBVIOUS
<1>1. /\ j \in Heaps
      /\ DOMAIN j.tags = D \ {t}
      /\ j.free = h.free /\ j.mapped = h.mapped /\ j.complete = h.complete
      /\ \A u \in D \ {t} :
            /\ j.tags[u].real_size = IF u = l THEN h.tags[l].real_size + h.tags[t].real_size
                                     ELSE h.tags[u].real_size
            /\ j.tags[u].size = h.tags[u].size
            /\ j.tags[u].index = h.tags[u].index
            /\ j.tags[u].next = h.tags[u].next
            /\ j.tags[u].prev = h.tags[u].prev
            /\ j.tags[u].split_left = IF u = h.tags[t].split_right THEN l
                                      ELSE h.tags[u].split_left
            /\ j.tags[u].split_right = IF u = l THEN h.tags[t].split_right
                                       ELSE h.tags[u].split_right
  BY <1>t, <1>j, JoinShape
<1>2. l \in DOMAIN j.tags /\ j.tags[l].index = h.tags[l].index /\ j.tags[l].next = h.tags[l].next
      /\ j.tags[l].prev = h.tags[l].prev
  BY <1>1, <1>t
<1>3. /\ x \in Heaps
      /\ DOMAIN x.tags = D \ {t}
      /\ x.mapped = h.mapped /\ x.complete = h.complete
      /\ \A i \in Classes : x.free[i] = IF i = h.tags[l].index /\ h.free[i] = l
                                        THEN h.tags[l].next ELSE h.free[i]
      /\ \A u \in D \ {t} :
            /\ x.tags[u].real_size = j.tags[u].real_size
            /\ x.tags[u].size = j.tags[u].size
            /\ x.tags[u].split_left = j.tags[u].split_left
            /\ x.tags[u].split_right = j.tags[u].split_right
            /\ x.tags[u].index = IF u = l THEN -1 ELSE j.tags[u].index
            /\ x.tags[u].next = IF u = l THEN NULL
                                ELSE IF u = h.tags[l].prev THEN h.tags[l].next
                                ELSE j.tags[u].next
            /\ x.tags[u].prev = IF u = l THEN NULL
                                ELSE IF u = h.tags[l].next THEN h.tags[l].prev
                                ELSE j.tags[u].prev
  <2>1. /\ j.tags[l].index \in Classes /\ j.tags[l].next # l /\ j.tags[l].prev # l
        /\ j.tags[l].prev # NULL => j.tags[l].prev # j.tags[l].next
    BY <1>2, <1>t
  <2>2. /\ x \in Heaps
        /\ DOMAIN x.tags = DOMAIN j.tags
        /\ x.mapped = j.mapped /\ x.complete = j.complete
        /\ \A i \in Classes : x.free[i] = IF i = j.tags[l].index /\ j.free[i] = l
                                          THEN j.tags[l].next ELSE j.free[i]
        /\ \A u \in DOMAIN j.tags :
              /\ x.tags[u].real_size = j.tags[u].real_size
              /\ x.tags[u].size = j.tags[u].size
              /\ x.tags[u].split_left = j.tags[u].split_left
              /\ x.tags[u].split_right = j.tags[u].split_right
              /\ x.tags[u].index = IF u = l THEN -1 ELSE j.tags[u].index
              /\ x.tags[u].next = IF u = l THEN NULL
                                  ELSE IF u = j.tags[l].prev THEN j.tags[l].next
                                  ELSE j.tags[u].next
              /\ x.tags[u].prev = IF u = l THEN NULL
                                  ELSE IF u = j.tags[l].next THEN j.tags[l].prev
                                  ELSE j.tags[u].prev
    BY <2>1, <1>1, <1>2, <1>x, RemoveShape
  <2> QED
    BY <2>2, <1>1, <1>2
<1>4. /\ y \in Heaps
      /\ DOMAIN y.tags = D
      /\ y.mapped = h.mapped /\ y.complete = h.complete
      /\ \A i \in Classes : y.free[i] = IF i = h.tags[l].index /\ h.free[i] = l
                                        THEN h.tags[l].next ELSE h.free[i]
      /\ \A u \in D :
            /\ y.tags[u].real_size = h.tags[u].real_size
            /\ y.tags[u].size = h.tags[u].size
            /\ y.tags[u].split_left = h.tags[u].split_left
            /\ y.tags[u].split_right = h.tags[u].split_right
            /\ y.tags[u].index = IF u = l THEN -1 ELSE h.tags[u].index
            /\ y.tags[u].next = IF u = l THEN NULL
                                ELSE IF u = h.tags[l].prev THEN h.tags[l].next
                                ELSE h.tags[u].next
            /\ y.tags[u].prev = IF u = l THEN NULL
                                ELSE IF u = h.tags[l].next THEN h.tags[l].prev
                                ELSE h.tags[u].prev
  BY <1>t, <1>y, RemoveShape
<1>5. l \in DOMAIN y.tags /\ t \in DOMAIN y.tags /\ y.tags[t].split_right = h.tags[t].split_right
      /\ y.tags[l].real_size = h.tags[l].real_size /\ y.tags[t].real_size = h.tags[t].real_size
  BY <1>4, <1>t
<1>6. /\ z \in Heaps
      /\ DOMAIN z.tags = D \ {t}
      /\ z.free = y.free /\ z.mapped = h.mapped /\ z.complete = h.complete
      /\ \A u \in D \ {t} :
            /\ z.tags[u].real_size = IF u = l THEN h.tags[l].real_size + h.tags[t].real_size
                                     ELSE y.tags[u].real_size
            /\ z.tags[u].size = y.tags[u].size
            /\ z.tags[u].index = y.tags[u].index
            /\ z.tags[u].next = y.tags[u].next
            /\ z.tags[u].prev = y.tags[u].prev
            /\ z.tags[u].split_left = IF u = h.tags[t].split_right THEN l
                                      ELSE y.tags[u].split_left
            /\ z.tags[u].split_right = IF u = l THEN h.tags[t].split_right
                                       ELSE y.tags[u].split_right
  <2>1. y.tags[t].split_right # l
    BY <1>5
  <2>2. /\ z \in Heaps
        /\ DOMAIN z.tags = DOMAIN y.tags \ {t}
        /\ z.free = y.free /\ z.mapped = y.mapped /\ z.complete = y.complete
        /\ \A u \in DOMAIN y.tags \ {t} :
              /\ z.tags[u].real_size = IF u = l THEN y.tags[l].real_size + y.tags[t].real_size
                                       ELSE y.tags[u].real_size
              /\ z.tags[u].size = y.tags[u].size
              /\ z.tags[u].index = y.tags[u].index
              /\ z.tags[u].next = y.tags[u].next
              /\ z.tags[u].prev = y.tags[u].prev
              /\ z.tags[u].split_left = IF u = y.tags[t].split_right THEN l
                                        ELSE y.tags[u].split_left
              /\ z.tags[u].split_right = IF u = l THEN y.tags[t].split_right
                                         ELSE y.tags[u].split_right
    BY <2>1, <1>4, <1>5, <1>t, <1>z, JoinShape
  <2> QED
    BY <2>2, <1>4, <1>5
<1>7. ASSUME NEW u \in D \ {t}
      PROVE  /\ x.tags[u].real_size = z.tags[u].real_size
             /\ x.tags[u].size = z.tags[u].size
             /\ x.tags[u].index = z.tags[u].index
             /\ x.tags[u].next = z.tags[u].next
             /\ x.tags[u].prev = z.tags[u].prev
             /\ x.tags[u].split_left = z.tags[u].split_left
             /\ x.tags[u].split_right = z.tags[u].split_right
  <2>1. x.tags[u].real_size = z.tags[u].real_size /\ x.tags[u].size = z.tags[u].size
    BY <1>1, <1>3, <1>4, <1>6
  <2>2. x.tags[u].index = z.tags[u].index
    BY <1>1, <1>3, <1>4, <1>6
  <2>3. x.tags[u].next = z.tags[u].next /\ x.tags[u].prev = z.tags[u].prev
    BY <1>1, <1>3, <1>4, <1>6
  <2>4. x.tags[u].split_left = z.tags[u].split_left /\ x.tags[u].split_right = z.tags[u].split_right
    BY <1>1, <1>3, <1>4, <1>6
  <2> QED
    BY <2>1, <2>2, <2>3, <2>4
<1>8. x.free = z.free
  <2>1. x.free \in [Classes -> Nat] /\ z.free \in [Classes -> Nat]
    BY <1>3, <1>6, HeapsAre
  <2>2. \A i \in Classes : x.free[i] = z.free[i]
    BY <1>3, <1>4, <1>6
  <2> QED
    BY <2>1, <2>2
<1>9. x = z
  <2>1. DOMAIN x.tags = DOMAIN z.tags /\ x.mapped = z.mapped /\ x.complete = z.complete
    BY <1>3, <1>6
  <2>2. \A u \in DOMAIN z.tags :
           /\ x.tags[u].real_size = z.tags[u].real_size
           /\ x.tags[u].size = z.tags[u].size
           /\ x.tags[u].index = z.tags[u].index
           /\ x.tags[u].next = z.tags[u].next
           /\ x.tags[u].prev = z.tags[u].prev
           /\ x.tags[u].split_left = z.tags[u].split_left
           /\ x.tags[u].split_right = z.tags[u].split_right
    BY <1>6, <1>7
  <2>3. x \in Heaps /\ z \in Heaps
    BY <1>3, <1>6
  <2> QED
    BY <2>1, <2>2, <2>3, <1>8, SameHeap
<1> QED
  BY <1>9, <1>j, <1>x, <1>y, <1>z

\* No free neighbour is left on that side of t.
LeftDone(h, t) == h.tags[t].split_left # NULL => h.tags[h.tags[t].split_left].index = -1
RightDone(h, t) == h.tags[t].split_right # NULL => h.tags[h.tags[t].split_right].index = -1

\* One turn of melting to the left.
LEMMA MeltSound ==
    ASSUME NEW h, NEW B, Shape(h, B), NEW t \in DOMAIN h.tags, h.tags[t].index = -1,
           ~ LeftDone(h, t), NEW l, l = h.tags[t].split_left,
           NEW g, g = remove_tag(Join(h, l, t), l)
    PROVE  /\ Shape(g, B) /\ g.complete = h.complete
           /\ DOMAIN g.tags = DOMAIN h.tags \ {t} /\ l \in DOMAIN g.tags
           /\ g.tags[l].index = -1
           /\ LeftDone(g, l)
           /\ \A i \in Classes : Complete(g, i) = Complete(h, i)
           /\ \A o : HeldBut(h, o, t) => HeldBut(g, o, l)
<1>h. h \in Heaps /\ Tile(h, B) /\ Lists(h) /\ Merged(h)
  BY DEF Shape
<1>t. /\ l \in DOMAIN h.tags /\ h.tags[l].split_right = t /\ l \in InList(h)
      /\ t # NULL /\ l # t /\ l # NULL /\ h.tags[l].index # -1
  BY <1>h, TagFields DEF Tile, Tied, InList, LeftDone
<1>r. h.tags[t].split_right # l
  <2>1. l < t
    BY <1>h, <1>t, PieceFacts DEF Tile, Tied
  <2>2. h.tags[t].split_right # NULL => t < h.tags[t].split_right
    BY <1>h, PieceFacts DEF Tile, Tied
  <2> QED
    BY <2>1, <2>2, <1>h, <1>t, TagFields
<1>y. PICK y : y = remove_tag(h, l)
  OBVIOUS
<1>j. PICK z : z = Join(y, l, t)
  OBVIOUS
<1>1. g = z
  BY <1>h, <1>t, <1>r, <1>y, <1>j, RemoveThenJoin
<1>2. /\ Shape(y, B) /\ y.complete = h.complete
      /\ DOMAIN y.tags = DOMAIN h.tags
      /\ \A u \in DOMAIN h.tags :
            /\ y.tags[u].split_left = h.tags[u].split_left
            /\ y.tags[u].split_right = h.tags[u].split_right
            /\ y.tags[u].index = IF u = l THEN -1 ELSE h.tags[u].index
      /\ \A i \in Classes : Complete(y, i) = Complete(h, i) \ {l}
      /\ \A o, S : Held(h, o, S) => Held(y, o, S \cup {l})
  BY <1>t, <1>y, RemoveSound
<1>3. \A i \in Classes : Complete(y, i) = Complete(h, i)
  BY <1>2, <1>t DEF Complete, Whole
<1>4. /\ l \in DOMAIN y.tags /\ t \in DOMAIN y.tags /\ y.tags[l].split_right = t
      /\ y.tags[l].index = -1 /\ y.tags[t].index = -1
  BY <1>2, <1>t
<1>z. /\ Shape(z, B) /\ z.complete = y.complete
      /\ DOMAIN z.tags = DOMAIN y.tags \ {t}
      /\ \A u \in DOMAIN y.tags \ {t} : z.tags[u].index = y.tags[u].index
      /\ z.tags[l].split_left = y.tags[l].split_left
      /\ \A i \in Classes : Complete(z, i) = Complete(y, i)
      /\ \A o, S : t \in S /\ Held(y, o, S) => Held(z, o, S \ {t})
  <2>1. Shape(y, B)
    BY <1>2
  <2>2. Shape(z, B)
    BY <2>1, <1>j, <1>4, JoinSound
  <2>3. z.complete = y.complete
    BY <2>1, <1>j, <1>4, JoinSound
  <2>4. DOMAIN z.tags = DOMAIN y.tags \ {t}
    BY <2>1, <1>j, <1>4, JoinSound
  <2>5. \A u \in DOMAIN y.tags \ {t} : z.tags[u].index = y.tags[u].index
    BY <2>1, <1>j, <1>4, JoinSound
  <2>6. z.tags[l].split_left = y.tags[l].split_left
    BY <2>1, <1>j, <1>4, JoinSound
  <2>8. \A i \in Classes : Complete(z, i) = Complete(y, i)
    BY <2>1, <1>j, <1>4, JoinSound
  <2>9. \A o, S : t \in S /\ Held(y, o, S) => Held(z, o, S \ {t})
    BY <2>1, <1>j, <1>4, JoinSound
  <2> QED
    BY <2>2, <2>3, <2>4, <2>5, <2>6, <2>8, <2>9
<1>5. /\ Shape(g, B) /\ g.complete = y.complete
      /\ DOMAIN g.tags = DOMAIN y.tags \ {t}
      /\ \A u \in DOMAIN y.tags \ {t} : g.tags[u].index = y.tags[u].index
      /\ g.tags[l].split_left = y.tags[l].split_left
      /\ \A i \in Classes : Complete(g, i) = Complete(y, i)
      /\ \A o, S : t \in S /\ Held(y, o, S) => Held(g, o, S \ {t})
  BY <1>z, <1>1
<1>6. LeftDone(g, l)
  <2> SUFFICES ASSUME g.tags[l].split_left # NULL PROVE g.tags[g.tags[l].split_left].index = -1
    BY DEF LeftDone
  <2>1. PICK k : k = h.tags[l].split_left
    OBVIOUS
  <2>2. g.tags[l].split_left = k /\ k # NULL
    BY <2>1, <1>5, <1>2, <1>t
  <2>3. k \in DOMAIN h.tags /\ h.tags[k].split_right = l
    BY <2>1, <2>2, <1>h, <1>t DEF Tile, Tied
  <2>4. h.tags[k].index = -1
    BY <2>3, <1>h, <1>t DEF Merged
  <2>5. k # t /\ k # l
    BY <2>3, <2>4, <1>r, <1>t
  <2>6. k \in DOMAIN y.tags \ {t} /\ y.tags[k].index = -1
    BY <2>3, <2>4, <2>5, <1>2
  <2>7. g.tags[k].index = y.tags[k].index
    BY <2>6, <1>5
  <2> QED
    BY <2>2, <2>6, <2>7
<1>7. ASSUME NEW o, HeldBut(h, o, t)
      PROVE  HeldBut(g, o, l)
  <2>1. Held(y, o, {t} \cup {l})
    BY <1>2, <1>7 DEF HeldBut
  <2>2. Held(g, o, ({t} \cup {l}) \ {t})
    BY <2>1, <1>5
  <2>3. ({t} \cup {l}) \ {t} = {l}
    BY <1>t
  <2> QED
    BY <2>2, <2>3 DEF HeldBut
<1> QED
  BY <1>2, <1>3, <1>4, <1>5, <1>6, <1>7, <1>t

\* One turn of absorbing the right neighbour.
LEMMA AbsorbSound ==
    ASSUME NEW h, NEW B, Shape(h, B), NEW t \in DOMAIN h.tags, h.tags[t].index = -1,
           LeftDone(h, t), ~ RightDone(h, t),
           NEW g, g = absorb_right(h, t)
    PROVE  /\ Shape(g, B) /\ g.complete = h.complete
           /\ t \in DOMAIN g.tags
           /\ g.tags[t].index = -1
           /\ LeftDone(g, t) /\ RightDone(g, t)
           /\ \A i \in Classes : Complete(g, i) = Complete(h, i)
           /\ \A o : HeldBut(h, o, t) => HeldBut(g, o, t)
<1>h. h \in Heaps /\ Tile(h, B) /\ Lists(h) /\ Merged(h)
  BY DEF Shape
<1>r. PICK r : r = h.tags[t].split_right
  OBVIOUS
<1>t. /\ r \in DOMAIN h.tags /\ r # NULL /\ h.tags[r].split_left = t /\ r \in InList(h)
      /\ r = h.tags[t].split_right /\ t # NULL /\ r # t /\ h.tags[r].index # -1
  BY <1>h, <1>r, TagFields DEF Tile, Tied, InList, RightDone
<1>y. PICK y : y = remove_tag(h, r)
  OBVIOUS
<1>j. PICK z : z = Join(y, t, r)
  OBVIOUS
<1>1. g = z
  BY <1>r, <1>y, <1>j DEF absorb_right
<1>2. /\ Shape(y, B) /\ y.complete = h.complete
      /\ DOMAIN y.tags = DOMAIN h.tags
      /\ \A u \in DOMAIN h.tags :
            /\ y.tags[u].split_left = h.tags[u].split_left
            /\ y.tags[u].split_right = h.tags[u].split_right
            /\ y.tags[u].index = IF u = r THEN -1 ELSE h.tags[u].index
      /\ \A i \in Classes : Complete(y, i) = Complete(h, i) \ {r}
      /\ \A o, S : Held(h, o, S) => Held(y, o, S \cup {r})
  BY <1>t, <1>y, RemoveSound
<1>3. \A i \in Classes : Complete(y, i) = Complete(h, i)
  BY <1>2, <1>t DEF Complete, Whole
<1>4. /\ t \in DOMAIN y.tags /\ r \in DOMAIN y.tags /\ y.tags[t].split_right = r
      /\ y.tags[t].index = -1 /\ y.tags[r].index = -1
  BY <1>2, <1>t
<1>z. /\ Shape(z, B) /\ z.complete = y.complete
      /\ DOMAIN z.tags = DOMAIN y.tags \ {r}
      /\ \A u \in DOMAIN y.tags \ {r} : z.tags[u].index = y.tags[u].index
      /\ z.tags[t].split_left = y.tags[t].split_left
      /\ z.tags[t].split_right = y.tags[r].split_right
      /\ \A i \in Classes : Complete(z, i) = Complete(y, i)
      /\ \A o, S : r \in S /\ Held(y, o, S) => Held(z, o, S \ {r})
  <2>1. Shape(y, B)
    BY <1>2
  <2>2. Shape(z, B)
    BY <2>1, <1>j, <1>4, JoinSound
  <2>3. z.complete = y.complete
    BY <2>1, <1>j, <1>4, JoinSound
  <2>4. DOMAIN z.tags = DOMAIN y.tags \ {r}
    BY <2>1, <1>j, <1>4, JoinSound
  <2>5. \A u \in DOMAIN y.tags \ {r} : z.tags[u].index = y.tags[u].index
    BY <2>1, <1>j, <1>4, JoinSound
  <2>6. z.tags[t].split_left = y.tags[t].split_left
    BY <2>1, <1>j, <1>4, JoinSound
  <2>7. z.tags[t].split_right = y.tags[r].split_right
    BY <2>1, <1>j, <1>4, JoinSound
  <2>8. \A i \in Classes : Complete(z, i) = Complete(y, i)
    BY <2>1, <1>j, <1>4, JoinSound
  <2>9. \A o, S : r \in S /\ Held(y, o, S) => Held(z, o, S \ {r})
    BY <2>1, <1>j, <1>4, JoinSound
  <2> QED
    BY <2>2, <2>3, <2>4, <2>5, <2>6, <2>7, <2>8, <2>9
<1>5. /\ Shape(g, B) /\ g.complete = y.complete
      /\ DOMAIN g.tags = DOMAIN y.tags \ {r}
      /\ \A u \in DOMAIN y.tags \ {r} : g.tags[u].index = y.tags[u].index
      /\ g.tags[t].split_left = y.tags[t].split_left
      /\ g.tags[t].split_right = y.tags[r].split_right
      /\ \A i \in Classes : Complete(g, i) = Complete(y, i)
      /\ \A o, S : r \in S /\ Held(y, o, S) => Held(g, o, S \ {r})
  BY <1>z, <1>1
<1>6. LeftDone(g, t)
  <2> SUFFICES ASSUME g.tags[t].split_left # NULL PROVE g.tags[g.tags[t].split_left].index = -1
    BY DEF LeftDone
  <2>1. PICK k : k = h.tags[t].split_left
    OBVIOUS
  <2>2. g.tags[t].split_left = k /\ k # NULL
    BY <2>1, <1>5, <1>2, <1>t
  <2>3. k \in DOMAIN h.tags /\ h.tags[k].index = -1
    BY <2>1, <2>2, <1>h DEF Tile, Tied, LeftDone
  <2>4. k # r
    BY <2>3, <1>t
  <2> QED
    BY <2>2, <2>3, <2>4, <1>5, <1>2
<1>7. RightDone(g, t)
  <2> SUFFICES ASSUME g.tags[t].split_right # NULL PROVE g.tags[g.tags[t].split_right].index = -1
    BY DEF RightDone
  <2>1. PICK k : k = h.tags[r].split_right
    OBVIOUS
  <2>2. g.tags[t].split_right = k /\ k # NULL
    BY <2>1, <1>5, <1>2, <1>t
  <2>3. k \in DOMAIN h.tags /\ h.tags[k].index = -1
    BY <2>1, <2>2, <1>h, <1>t DEF Tile, Tied, Merged
  <2>4. k # r
    BY <2>3, <1>t
  <2> QED
    BY <2>2, <2>3, <2>4, <1>5, <1>2
<1>8. ASSUME NEW o, HeldBut(h, o, t)
      PROVE  HeldBut(g, o, t)
  <2>1. Held(y, o, {t} \cup {r})
    BY <1>2, <1>8 DEF HeldBut
  <2>2. Held(g, o, ({t} \cup {r}) \ {r})
    BY <2>1, <1>5
  <2>3. ({t} \cup {r}) \ {r} = {t}
    BY <1>t
  <2> QED
    BY <2>2, <2>3 DEF HeldBut
<1>9. t \in DOMAIN g.tags /\ g.tags[t].index = -1 /\ g.complete = h.complete
  BY <1>2, <1>4, <1>5, <1>t
<1> QED
  BY <1>3, <1>5, <1>6, <1>7, <1>8, <1>9
------------------------------------------------------------------------------
(* A loop of at most k turns is a function on 0 .. k.                       *)

\* Two sequences with the same start and the same steps are the same.
LEMMA LoopsAgree ==
    ASSUME NEW k \in Nat, NEW f, NEW g, f[0] = g[0],
           \A i \in 1 .. k : f[i - 1] = g[i - 1] => f[i] = g[i]
    PROVE  \A i \in 0 .. k : f[i] = g[i]
<1> DEFINE T == {i \in Nat : i <= k /\ f[i] # g[i]}
           Less == {ss \in Nat \X Nat : ss[1] < ss[2]}
<1>1. SUFFICES ASSUME T # {} PROVE FALSE
  BY <1>1
<1>2. IsWellFoundedOn(Less, Nat)
  BY NatLessThanWellFounded DEF OpToRel
<1>3. PICK i \in T : \A j \in T : ~ (<<j, i>> \in Less)
  <2>1. T \subseteq Nat
    OBVIOUS
  <2> HIDE DEF T, Less
  <2> QED
    BY <1>1, <1>2, <2>1, WFMin
<1>4. i \in Nat /\ i <= k /\ f[i] # g[i] /\ i # 0
  BY <1>3
<1>5. i - 1 \in Nat /\ i - 1 < i /\ i \in 1 .. k
  BY <1>4
<1>6. <<i - 1, i>> \in Less
  <2>1. <<i - 1, i>> \in Nat \X Nat
    BY <1>4, <1>5
  <2> QED
    BY <2>1, <1>5
<1>7. i - 1 \notin T
  <2> HIDE DEF T, Less
  <2> QED
    BY <1>3, <1>6
<1>8. f[i - 1] = g[i - 1]
  BY <1>4, <1>5, <1>7
<1> QED
  BY <1>4, <1>5, <1>8

\* f is what k turns of G make of x.
Iterates(f, k, x, G, S) ==
    f \in [0 .. k -> S] /\ f[0] = x /\ \A i \in 1 .. k : f[i] = G[f[i - 1]]

\* k turns of G, from any x, can be made.
LEMMA LoopExists ==
    ASSUME NEW S, NEW G \in [S -> S], NEW x \in S, NEW k \in Nat
    PROVE  \E f : Iterates(f, k, x, G, S)
<1> DEFINE Has(n) == \E f \in [0 .. n -> S] : f[0] = x /\ \A i \in 1 .. n : f[i] = G[f[i - 1]]
           T == {n \in Nat : ~ Has(n)}
           Less == {ss \in Nat \X Nat : ss[1] < ss[2]}
<1>1. SUFFICES ASSUME T # {} PROVE FALSE
  <2>1. T = {} => Has(k)
    OBVIOUS
  <2> QED
    BY <1>1, <2>1 DEF Iterates
<1>2. IsWellFoundedOn(Less, Nat)
  BY NatLessThanWellFounded DEF OpToRel
<1>3. PICK n \in T : \A m \in T : ~ (<<m, n>> \in Less)
  <2>1. T \subseteq Nat
    OBVIOUS
  <2> HIDE DEF T, Less
  <2> QED
    BY <1>1, <1>2, <2>1, WFMin
<1>4. n \in Nat /\ ~ Has(n)
  BY <1>3
<1>5. CASE n = 0
  <2> DEFINE f == [i \in 0 .. 0 |-> x]
  <2>1. f \in [0 .. 0 -> S] /\ f[0] = x
    OBVIOUS
  <2>2. \A i \in 1 .. 0 : FALSE
    OBVIOUS
  <2>3. Has(0)
    BY <2>1, <2>2
  <2> QED
    BY <2>3, <1>4, <1>5
<1>6. CASE n # 0
  <2>1. n - 1 \in Nat /\ n - 1 < n
    BY <1>4, <1>6
  <2>2. <<n - 1, n>> \in Less
    <3>1. <<n - 1, n>> \in Nat \X Nat
      BY <1>4, <2>1
    <3> QED
      BY <3>1, <2>1
  <2>3. n - 1 \notin T
    <3> HIDE DEF T, Less
    <3> QED
      BY <1>3, <2>2
  <2>4. PICK f \in [0 .. (n - 1) -> S] : f[0] = x /\ \A i \in 1 .. (n - 1) : f[i] = G[f[i - 1]]
    BY <2>1, <2>3
  <2> DEFINE g == [i \in 0 .. n |-> IF i = n THEN G[f[n - 1]] ELSE f[i]]
  <2>5. f[n - 1] \in S
    BY <2>1
  <2>6. g \in [0 .. n -> S]
    BY <2>5, <1>4
  <2>7. g[0] = x
    BY <2>4, <1>4, <1>6
  <2>8. ASSUME NEW i \in 1 .. n PROVE g[i] = G[g[i - 1]]
    <3>1. CASE i = n
      <4>1. g[n] = G[f[n - 1]] /\ g[n - 1] = f[n - 1]
        BY <1>4, <2>1
      <4> QED
        BY <3>1, <4>1
    <3>2. CASE i # n
      <4>1. i \in 1 .. (n - 1) /\ i \in 0 .. n /\ i - 1 \in 0 .. n /\ i - 1 # n
        BY <1>4, <3>2
      <4>2. g[i] = f[i] /\ g[i - 1] = f[i - 1]
        BY <3>2, <4>1
      <4> QED
        BY <4>1, <4>2, <2>4
    <3> QED
      BY <3>1, <3>2
  <2> HIDE DEF g
  <2>9. Has(n)
    BY <2>6, <2>7, <2>8
  <2> QED
    BY <2>9, <1>4
<1> QED
  BY <1>5, <1>6

\* The test "index >= 0" of the code asks whether a tag is in a list.
LEMMA FreeIndex ==
    ASSUME NEW h, NEW B, Shape(h, B), NEW u \in DOMAIN h.tags
    PROVE  h.tags[u].index >= 0 <=> h.tags[u].index # -1
<1>1. h.tags[u].index \in Int /\ (h.tags[u].index = -1 \/ h.tags[u].index \in Classes)
  BY TagFields DEF Shape
<1>2. \A i \in Classes : i \in Nat
  BY ConstantFacts
<1> QED
  BY <1>1, <1>2

\* There are finitely many tags, and the loops may turn once at least.
LEMMA TagsCounted ==
    ASSUME NEW h, NEW B, Shape(h, B), NEW t \in DOMAIN h.tags
    PROVE  Cardinality(DOMAIN h.tags) \in Nat /\ Cardinality(DOMAIN h.tags) >= 1
<1>1. IsFiniteSet(DOMAIN h.tags)
  BY DEF Shape
<1>2. Cardinality(DOMAIN h.tags) \in Nat /\ Cardinality(DOMAIN h.tags) # 0
  BY <1>1, FS_EmptySet, FS_CardinalityType
<1> QED
  BY <1>2

\* The loop that absorbs right neighbours stops with no free one left: it turns
\* once at most, because free neighbours were melted before.
LEMMA MeltRightSound ==
    ASSUME NEW h, NEW B, Shape(h, B), NEW t \in DOMAIN h.tags, h.tags[t].index = -1,
           LeftDone(h, t), NEW g, g = MeltRight(h, t)
    PROVE  /\ Shape(g, B) /\ g.complete = h.complete
           /\ t \in DOMAIN g.tags /\ g.tags[t].index = -1
           /\ LeftDone(g, t) /\ RightDone(g, t)
           /\ \A i \in Classes : Complete(g, i) = Complete(h, i)
           /\ \A o : HeldBut(h, o, t) => HeldBut(g, o, t)
<1> DEFINE k == Cardinality(DOMAIN h.tags)
           Turn(y) == IF y.tags[t].split_right # NULL
                         /\ y.tags[y.tags[t].split_right].index >= 0
                      THEN absorb_right(y, t) ELSE y
           Loop(f) == f = [i \in 0 .. k |-> IF i = 0 THEN h ELSE Turn(f[i - 1])]
           Good(x) == /\ Shape(x, B) /\ x.complete = h.complete
                      /\ t \in DOMAIN x.tags /\ x.tags[t].index = -1
                      /\ LeftDone(x, t) /\ RightDone(x, t)
                      /\ \A i \in Classes : Complete(x, i) = Complete(h, i)
                      /\ \A o : HeldBut(h, o, t) => HeldBut(x, o, t)
<1>1. g = (CHOOSE f : Loop(f))[k]
  BY DEF MeltRight, Repeat
<1>2. k \in Nat /\ k >= 1
  BY TagsCounted
<1> HIDE DEF k
<1>3. ASSUME NEW x, Good(x)
      PROVE  Turn(x) = x
  <2>1. x.tags[t].split_right # NULL => x.tags[t].split_right \in DOMAIN x.tags
    BY <1>3 DEF Shape, Tile, Tied
  <2> QED
    BY <2>1, <1>3, FreeIndex DEF RightDone
<1>4. Good(Turn(h))
  <2>1. PICK r : r = h.tags[t].split_right
    OBVIOUS
  <2>2. r # NULL => r \in DOMAIN h.tags
    BY <2>1 DEF Shape, Tile, Tied
  <2>3. CASE r # NULL /\ h.tags[r].index # -1
    <3>1. Turn(h) = absorb_right(h, t)
      BY <2>1, <2>2, <2>3, FreeIndex
    <3>2. PICK x : x = absorb_right(h, t)
      OBVIOUS
    <3>3. ~ RightDone(h, t)
      BY <2>1, <2>3 DEF RightDone
    <3>4. Shape(x, B) /\ x.complete = h.complete /\ t \in DOMAIN x.tags /\ x.tags[t].index = -1
      BY <3>2, <3>3, AbsorbSound
    <3>5. LeftDone(x, t) /\ RightDone(x, t)
      BY <3>2, <3>3, AbsorbSound
    <3>6. \A i \in Classes : Complete(x, i) = Complete(h, i)
      BY <3>2, <3>3, AbsorbSound
    <3>7. \A o : HeldBut(h, o, t) => HeldBut(x, o, t)
      BY <3>2, <3>3, AbsorbSound
    <3> HIDE DEF Turn
    <3> QED
      BY <3>1, <3>2, <3>4, <3>5, <3>6, <3>7
  <2>4. CASE ~ (r # NULL /\ h.tags[r].index # -1)
    <3>1. Turn(h) = h
      BY <2>1, <2>2, <2>4, FreeIndex
    <3>2. RightDone(h, t)
      BY <2>1, <2>4 DEF RightDone
    <3> HIDE DEF Turn
    <3> QED
      BY <3>1, <3>2
  <2> QED
    BY <2>3, <2>4
<1>5. PICK y : y = Turn(h)
  OBVIOUS
<1>6. Turn(y) = y /\ Good(y)
  <2> HIDE DEF Turn, Good
  <2> QED
    BY <1>3, <1>4, <1>5
<1> HIDE DEF Turn, Good
<1>7. Loop([i \in 0 .. k |-> IF i = 0 THEN h ELSE y])
  <2> DEFINE once == [i \in 0 .. k |-> IF i = 0 THEN h ELSE y]
  <2>1. ASSUME NEW i \in 0 .. k, i # 0
        PROVE  once[i] = Turn(once[i - 1])
    <3>1. i - 1 \in 0 .. k
      BY <2>1, <1>2
    <3>2. once[i] = y /\ once[i - 1] = IF i - 1 = 0 THEN h ELSE y
      BY <2>1, <3>1
    <3> QED
      BY <3>2, <1>5, <1>6
  <2>2. \A i \in 0 .. k : once[i] = IF i = 0 THEN h ELSE Turn(once[i - 1])
    BY <2>1
  <2>3. once = [i \in 0 .. k |-> once[i]]
    OBVIOUS
  <2> HIDE DEF once
  <2>4. once = [i \in 0 .. k |-> IF i = 0 THEN h ELSE Turn(once[i - 1])]
    BY <2>2, <2>3
  <2> QED
    BY <2>4 DEF once
<1>8. PICK f : f = CHOOSE ff : Loop(ff)
  OBVIOUS
<1>9. Loop(f)
  <2> HIDE DEF Loop
  <2> QED
    BY <1>7, <1>8
<1>10. f[0] = h /\ \A i \in 1 .. k : f[i] = Turn(f[i - 1])
  BY <1>9, <1>2
<1> HIDE DEF Loop
<1>11. f[k] = y
  <2> DEFINE once == [i \in 0 .. k |-> IF i = 0 THEN h ELSE y]
  <2>1. once[0] = h /\ once[k] = y
    BY <1>2
  <2>2. ASSUME NEW i \in 1 .. k, f[i - 1] = once[i - 1]
        PROVE  f[i] = once[i]
    <3>1. i - 1 \in 0 .. k /\ i \in 0 .. k /\ i # 0
      BY <1>2
    <3>2. once[i] = y /\ once[i - 1] = IF i - 1 = 0 THEN h ELSE y
      BY <3>1
    <3>3. f[i] = Turn(once[i - 1])
      BY <1>10, <2>2
    <3> QED
      BY <3>2, <3>3, <1>5, <1>6
  <2>3. f[0] = once[0]
    BY <2>1, <1>10
  <2> HIDE DEF once
  <2>4. \A i \in 0 .. k : f[i] = once[i]
    BY <2>2, <2>3, <1>2, LoopsAgree
  <2> QED
    BY <2>1, <2>4, <1>2
<1>12. g = y
  BY <1>1, <1>8, <1>11
<1> QED
  BY <1>6, <1>12 DEF Good

\* So does the loop that melts into left neighbours.
LEMMA MeltLeftSound ==
    ASSUME NEW h, NEW B, Shape(h, B), NEW t \in DOMAIN h.tags, h.tags[t].index = -1,
           NEW m, m = MeltLeft(h, t)
    PROVE  /\ Shape(m.h, B) /\ m.h.complete = h.complete
           /\ m.tag \in DOMAIN m.h.tags /\ m.h.tags[m.tag].index = -1
           /\ LeftDone(m.h, m.tag)
           /\ \A i \in Classes : Complete(m.h, i) = Complete(h, i)
           /\ \A o : HeldBut(h, o, t) => HeldBut(m.h, o, m.tag)
<1> DEFINE k == Cardinality(DOMAIN h.tags)
           x0 == [h |-> h, tag |-> t]
           Turn(y) == IF y.h.tags[y.tag].split_left # NULL
                         /\ y.h.tags[y.h.tags[y.tag].split_left].index >= 0
                      THEN [melt_left(y.h, y.tag) EXCEPT
                               !.h = remove_tag(melt_left(y.h, y.tag).h, melt_left(y.h, y.tag).tag)]
                      ELSE y
           Loop(f) == f = [i \in 0 .. k |-> IF i = 0 THEN x0 ELSE Turn(f[i - 1])]
           Good(x) == /\ Shape(x.h, B) /\ x.h.complete = h.complete
                      /\ x.tag \in DOMAIN x.h.tags /\ x.h.tags[x.tag].index = -1
                      /\ LeftDone(x.h, x.tag)
                      /\ \A i \in Classes : Complete(x.h, i) = Complete(h, i)
                      /\ \A o : HeldBut(h, o, t) => HeldBut(x.h, o, x.tag)
<1>1. m = (CHOOSE f : Loop(f))[k]
  BY DEF MeltLeft, Repeat
<1>2. k \in Nat /\ k >= 1
  BY TagsCounted
<1> HIDE DEF k
<1>3. ASSUME NEW x, Good(x)
      PROVE  Turn(x) = x
  <2>1. x.h.tags[x.tag].split_left # NULL => x.h.tags[x.tag].split_left \in DOMAIN x.h.tags
    BY <1>3 DEF Shape, Tile, Tied
  <2>2. x.h.tags[x.tag].split_left # NULL => ~ (x.h.tags[x.h.tags[x.tag].split_left].index >= 0)
    BY <2>1, <1>3, FreeIndex DEF LeftDone
  <2> QED
    BY <2>2
<1>4. Good(Turn(x0))
  <2>1. PICK l : l = h.tags[t].split_left
    OBVIOUS
  <2>2. l # NULL => l \in DOMAIN h.tags
    BY <2>1 DEF Shape, Tile, Tied
  <2>x. x0.h = h /\ x0.tag = t
    OBVIOUS
  <2>3. CASE l # NULL /\ h.tags[l].index # -1
    <3>1. PICK x : x = remove_tag(Join(h, l, t), l)
      OBVIOUS
    <3>2. Turn(x0) = [h |-> x, tag |-> l]
      <4>1. h.tags[l].index >= 0
        BY <2>2, <2>3, FreeIndex
      <4>2. melt_left(h, t) = [h |-> Join(h, l, t), tag |-> l]
        BY <2>1 DEF melt_left
      <4>3. [melt_left(h, t) EXCEPT !.h = remove_tag(melt_left(h, t).h, melt_left(h, t).tag)]
            = [h |-> x, tag |-> l]
        BY <4>2, <3>1
      <4> HIDE DEF x0
      <4> QED
        BY <4>1, <4>3, <2>x, <2>1, <2>3
    <3>3. ~ LeftDone(h, t)
      BY <2>1, <2>3 DEF LeftDone
    <3>4. /\ Shape(x, B) /\ x.complete = h.complete
          /\ DOMAIN x.tags = DOMAIN h.tags \ {t} /\ l \in DOMAIN x.tags
          /\ x.tags[l].index = -1
          /\ LeftDone(x, l)
          /\ \A i \in Classes : Complete(x, i) = Complete(h, i)
          /\ \A o : HeldBut(h, o, t) => HeldBut(x, o, l)
      BY <3>1, <2>1, <3>3, MeltSound
    <3> HIDE DEF Turn, x0
    <3>8. Good([h |-> x, tag |-> l])
      BY <3>4
    <3> HIDE DEF Good
    <3> QED
      BY <3>2, <3>8
  <2>4. CASE ~ (l # NULL /\ h.tags[l].index # -1)
    <3>1. Turn(x0) = x0
      <4> HIDE DEF x0
      <4> QED
        BY <2>1, <2>2, <2>4, <2>x, FreeIndex
    <3>2. LeftDone(h, t)
      BY <2>1, <2>4 DEF LeftDone
    <3>3. Good(x0)
      <4> HIDE DEF x0
      <4> QED
        BY <2>x, <3>2
    <3> HIDE DEF Turn, Good, x0
    <3> QED
      BY <3>1, <3>3
  <2> QED
    BY <2>3, <2>4
<1> HIDE DEF x0
<1>5. PICK y : y = Turn(x0)
  OBVIOUS
<1>6. Turn(y) = y /\ Good(y)
  <2> HIDE DEF Turn, Good
  <2> QED
    BY <1>3, <1>4, <1>5
<1> HIDE DEF Turn, Good
<1>7. Loop([i \in 0 .. k |-> IF i = 0 THEN x0 ELSE y])
  <2> DEFINE once == [i \in 0 .. k |-> IF i = 0 THEN x0 ELSE y]
  <2>1. ASSUME NEW i \in 0 .. k, i # 0
        PROVE  once[i] = Turn(once[i - 1])
    <3>1. i - 1 \in 0 .. k
      BY <2>1, <1>2
    <3>2. once[i] = y /\ once[i - 1] = IF i - 1 = 0 THEN x0 ELSE y
      BY <2>1, <3>1
    <3> QED
      BY <3>2, <1>5, <1>6
  <2>2. \A i \in 0 .. k : once[i] = IF i = 0 THEN x0 ELSE Turn(once[i - 1])
    BY <2>1
  <2>3. once = [i \in 0 .. k |-> once[i]]
    OBVIOUS
  <2> HIDE DEF once
  <2>4. once = [i \in 0 .. k |-> IF i = 0 THEN x0 ELSE Turn(once[i - 1])]
    BY <2>2, <2>3
  <2> QED
    BY <2>4 DEF once
<1>8. PICK f : f = CHOOSE ff : Loop(ff)
  OBVIOUS
<1>9. Loop(f)
  <2> HIDE DEF Loop
  <2> QED
    BY <1>7, <1>8
<1>10. f[0] = x0 /\ \A i \in 1 .. k : f[i] = Turn(f[i - 1])
  BY <1>9, <1>2
<1> HIDE DEF Loop
<1>11. f[k] = y
  <2> DEFINE once == [i \in 0 .. k |-> IF i = 0 THEN x0 ELSE y]
  <2>1. once[0] = x0 /\ once[k] = y
    BY <1>2
  <2>2. ASSUME NEW i \in 1 .. k, f[i - 1] = once[i - 1]
        PROVE  f[i] = once[i]
    <3>1. i - 1 \in 0 .. k /\ i \in 0 .. k /\ i # 0
      BY <1>2
    <3>2. once[i] = y /\ once[i - 1] = IF i - 1 = 0 THEN x0 ELSE y
      BY <3>1
    <3>3. f[i] = Turn(once[i - 1])
      BY <1>10, <2>2
    <3> QED
      BY <3>2, <3>3, <1>5, <1>6
  <2>3. f[0] = once[0]
    BY <2>1, <1>10
  <2> HIDE DEF once
  <2>4. \A i \in 0 .. k : f[i] = once[i]
    BY <2>2, <2>3, <1>2, LoopsAgree, ZenonT(60)
  <2> QED
    BY <2>1, <2>4, <1>2
<1>12. m = y
  BY <1>1, <1>8, <1>11
<1> QED
  BY <1>6, <1>12 DEF Good

\* The search of one class ends at NULL or at a tag with room enough: it visits
\* no tag twice, and turns more often than there are tags.
LEMMA FoundSound ==
    ASSUME NEW h, NEW B, Shape(h, B), NEW size \in Nat, NEW t, t = Found(h, size)
    PROVE  \/ t = NULL
           \/ /\ t \in InList(h) /\ h.tags[t].index = Class(size)
              /\ Usable(h, t) >= size + Hdr
<1> DEFINE D == DOMAIN h.tags
           k == Cardinality(D)
           c == Class(size)
           first == h.free[c]
           More(y) == y # NULL /\ Usable(h, y) < size + Hdr
           Turn(y) == IF y # NULL /\ Usable(h, y) < size + Hdr THEN h.tags[y].next ELSE y
           Loop(f) == f = [i \in 0 .. k |-> IF i = 0 THEN first ELSE Turn(f[i - 1])]
           S == {u \in D : h.tags[u].index = c} \cup {NULL}
           G == [y \in S |-> Turn(y)]
<1>1. t = (CHOOSE f : Loop(f))[k]
  BY DEF Found, Repeat
<1>h. h \in Heaps /\ IsFiniteSet(D) /\ Lists(h)
  BY DEF Shape
<1>2. k \in Nat
  BY <1>h, FS_CardinalityType
<1>c. c \in Classes /\ c # -1
  BY ClassIs, ConstantFacts
<1>u. \A u \in D : u \in Nat /\ u # NULL /\ Usable(h, u) \in Int
  BY <1>h, TagFields, ConstantFacts DEF Usable
<1>3. first \in S /\ (first # NULL => h.tags[first].prev = NULL)
  BY <1>h, <1>c DEF Lists, ListHeads
<1> HIDE DEF k, c
<1>4. ASSUME NEW y \in S, More(y)
      PROVE  Turn(y) = h.tags[y].next /\ Turn(y) \in S
             /\ (Turn(y) # NULL => h.tags[Turn(y)].prev = y)
  <2>1. y \in D /\ h.tags[y].index = c
    BY <1>4
  <2>2. h.tags[y].next # NULL => /\ h.tags[y].next \in D
                                 /\ h.tags[h.tags[y].next].index = c
                                 /\ h.tags[h.tags[y].next].prev = y
    BY <2>1, <1>h, <1>c DEF Lists, ListLinks
  <2>3. Turn(y) = h.tags[y].next
    BY <1>4
  <2> QED
    BY <2>2, <2>3
<1>5. ASSUME NEW y \in S, ~ More(y)
      PROVE  Turn(y) = y
  BY <1>5
<1>6. G \in [S -> S]
  <2>1. \A y \in S : Turn(y) \in S
    BY <1>4, <1>5
  <2> HIDE DEF Turn, S
  <2> QED
    BY <2>1
<1> HIDE DEF first
<1>7. PICK g \in [0 .. k -> S] : g[0] = first /\ \A i \in 1 .. k : g[i] = G[g[i - 1]]
  <2>1. first \in S
    BY <1>3
  <2> HIDE DEF S, G
  <2>2. \E f \in [0 .. k -> S] : f[0] = first /\ \A i \in 1 .. k : f[i] = G[f[i - 1]]
    <3>1. \E f : Iterates(f, k, first, G, S)
      BY <1>2, <2>1, <1>6, LoopExists
    <3> QED
      BY <3>1 DEF Iterates
  <2> QED
    BY <2>2, Zenon
<1>8. \A i \in 1 .. k : g[i - 1] \in S /\ g[i] = Turn(g[i - 1])
  <2> TAKE i \in 1 .. k
  <2>1. i - 1 \in 0 .. k
    BY <1>2
  <2>2. g[i - 1] \in S
    BY <2>1
  <2> HIDE DEF S, Turn
  <2> QED
    BY <2>2, <1>7
<1> HIDE DEF Turn, G
<1>9. Loop(g)
  <2>1. \A i \in 0 .. k : g[i] = IF i = 0 THEN first ELSE Turn(g[i - 1])
    <3> TAKE i \in 0 .. k
    <3>1. i # 0 => i \in 1 .. k
      BY <1>2
    <3> QED
      BY <3>1, <1>7, <1>8
  <2>2. g = [i \in 0 .. k |-> g[i]]
    OBVIOUS
  <2> QED
    BY <2>1, <2>2
<1>10. PICK f : f = CHOOSE ff : Loop(ff)
  OBVIOUS
<1>11. Loop(f)
  <2> HIDE DEF Loop
  <2> QED
    BY <1>9, <1>10
<1>12. f[0] = first /\ \A i \in 1 .. k : f[i] = Turn(f[i - 1])
  BY <1>11, <1>2
<1> HIDE DEF Loop
<1>13. f[k] = g[k]
  <2>1. ASSUME NEW i \in 1 .. k, f[i - 1] = g[i - 1]
        PROVE  f[i] = g[i]
    BY <2>1, <1>8, <1>12
  <2>2. f[0] = g[0]
    BY <1>7, <1>12
  <2>3. \A i \in 0 .. k : f[i] = g[i]
    BY <2>1, <2>2, <1>2, LoopsAgree, ZenonT(60)
  <2> QED
    BY <2>3, <1>2
<1>14. t = g[k] /\ g[k] \in S
  BY <1>1, <1>2, <1>10, <1>13
<1>15. ~ More(g[k])
  <2> SUFFICES ASSUME More(g[k]) PROVE FALSE
    OBVIOUS
  <2> DEFINE Less == {ss \in Nat \X Nat : ss[1] < ss[2]}
             \* The steps to the end from the last tag that is not too small.
             Q == {n \in Nat : n <= k /\ ~ More(g[k - n])}
             R == {i \in Nat : i <= k /\ \E j \in 0 .. k : i < j /\ g[i] = g[j]}
  <2>w. IsWellFoundedOn(Less, Nat)
    BY NatLessThanWellFounded DEF OpToRel
  <2>1. Q = {}
    <3> SUFFICES ASSUME Q # {} PROVE FALSE
      OBVIOUS
    <3>1. PICK n \in Q : \A m \in Q : ~ (<<m, n>> \in Less)
      <4>1. Q \subseteq Nat
        OBVIOUS
      <4> HIDE DEF Q, Less
      <4> QED
        BY <2>w, <4>1, WFMin
    <3> HIDE DEF More
    <3>2. n \in Nat /\ n <= k /\ ~ More(g[k - n])
      BY <3>1
    <3>3. n # 0
      BY <3>2, <1>2
    <3>4. n - 1 \in Nat /\ n - 1 <= k /\ n - 1 < n /\ k - n \in Nat
          /\ k - (n - 1) \in 1 .. k /\ (k - (n - 1)) - 1 = k - n
      BY <3>2, <3>3, <1>2
    <3>5. n - 1 \notin Q
      <4>1. <<n - 1, n>> \in Nat \X Nat
        BY <3>2, <3>4
      <4>2. <<n - 1, n>> \in Less
        BY <4>1, <3>4
      <4> HIDE DEF Q, Less
      <4> QED
        BY <4>2, <3>1
    <3>6. More(g[k - (n - 1)])
      BY <3>4, <3>5
    <3>7. g[k - n] \in S /\ g[k - (n - 1)] = Turn(g[k - n])
      BY <3>4, <1>8
    <3>8. Turn(g[k - n]) = g[k - n]
      BY <3>2, <3>7, <1>5
    <3> QED
      BY <3>2, <3>6, <3>7, <3>8
  <2>2. ASSUME NEW i \in 0 .. k
        PROVE  More(g[i])
    <3> HIDE DEF More
    <3>1. k - i \in Nat /\ k - i <= k /\ k - (k - i) = i
      BY <1>2
    <3> QED
      BY <2>1, <3>1
  <2>3. \A i \in 0 .. k : g[i] \in D
    BY <2>2
  <2>4. ASSUME NEW i \in 1 .. k
        PROVE  h.tags[g[i]].prev = g[i - 1] /\ g[i - 1] # NULL
    <3>1. i - 1 \in 0 .. k /\ i \in 0 .. k
      BY <1>2
    <3>2. More(g[i - 1]) /\ g[i - 1] \in S /\ g[i] = Turn(g[i - 1]) /\ g[i] # NULL /\ g[i - 1] # NULL
      BY <3>1, <2>2, <1>8
    <3> HIDE DEF More, S
    <3> QED
      BY <3>2, <1>4
  <2>5. R = {}
    <3> SUFFICES ASSUME R # {} PROVE FALSE
      OBVIOUS
    <3>1. PICK i \in R : \A m \in R : ~ (<<m, i>> \in Less)
      <4>1. R \subseteq Nat
        OBVIOUS
      <4> HIDE DEF R, Less
      <4> QED
        BY <2>w, <4>1, WFMin
    <3>2. PICK j \in 0 .. k : i \in Nat /\ i <= k /\ i < j /\ g[i] = g[j]
      BY <3>1
    <3>3. j \in 1 .. k /\ j - 1 \in 0 .. k /\ i \in 0 .. k
      BY <3>2, <1>2
    <3>4. h.tags[g[j]].prev = g[j - 1] /\ g[j - 1] # NULL
      BY <3>3, <2>4
    <3>5. i # 0
      <4>1. g[0] # NULL
        BY <2>2, <1>2
      <4> QED
        BY <4>1, <3>2, <3>4, <1>3, <1>7
    <3>6. i - 1 \in Nat /\ i - 1 <= k /\ i - 1 < i /\ i \in 1 .. k /\ i - 1 < j - 1
      <4>1. i \in Nat /\ i <= k /\ i < j /\ i # 0 /\ j \in Nat /\ k \in Nat
        BY <3>2, <3>3, <3>5, <1>2
      <4> HIDE DEF R, Less
      <4> QED
        BY <4>1
    <3>7. g[i - 1] = g[j - 1]
      BY <3>2, <3>4, <3>6, <2>4
    <3>8. i - 1 \in R
      BY <3>3, <3>6, <3>7
    <3>9. <<i - 1, i>> \in Less
      <4>1. <<i - 1, i>> \in Nat \X Nat
        BY <3>2, <3>6
      <4> QED
        BY <4>1, <3>6
    <3> HIDE DEF R, Less
    <3> QED
      BY <3>1, <3>8, <3>9
  <2>6. \A i, j \in 0 .. k : i < j => g[i] # g[j]
    BY <2>5, <1>2
  <2>7. /\ IsFiniteSet(0 .. k) /\ Cardinality(0 .. k) = k + 1
    BY <1>2, FS_Interval
  <2>8. g \in [0 .. k -> D]
    BY <2>3
  <2>9. PICK i, j \in 0 .. k : i # j /\ g[i] = g[j]
    BY <1>h, <1>2, <2>7, <2>8, FS_PigeonHole DEF k
  <2> QED
    BY <2>6, <2>9, <1>2
<1>16. CASE t # NULL
  <2>1. t \in D /\ h.tags[t].index = c /\ ~ (Usable(h, t) < size + Hdr)
    BY <1>14, <1>15, <1>16
  <2>2. Usable(h, t) >= size + Hdr
    BY <2>1, <1>u, ConstantFacts
  <2> QED
    BY <2>1, <2>2, <1>c DEF InList, c
<1> QED
  BY <1>16
------------------------------------------------------------------------------
(* malloc and free.                                                         *)

\* What the shape of a heap, its counts and its regions depend on.
LEMMA SameShape ==
    ASSUME NEW h, NEW B, Shape(h, B), NEW g \in Heaps, g.tags = h.tags,
           g.free = h.free, g.mapped = h.mapped
    PROVE  /\ Shape(g, B)
           /\ \A i \in Classes : Complete(g, i) = Complete(h, i)
           /\ \A o, S : Held(h, o, S) => Held(g, o, S)
<1>h. h \in Heaps /\ IsFiniteSet(DOMAIN h.tags) /\ Tile(h, B) /\ Lists(h) /\ Classed(h) /\ Merged(h)
  BY DEF Shape
<1>1. Tile(g, B)
  BY <1>h DEF Tile, BlocksAre, PiecesOf, Disjoint, Room, Tied, End
<1>2. Lists(g)
  <2>1. InList(g) = InList(h)
    BY DEF InList
  <2>2. NoCircle(g)
    BY <1>h, <2>1 DEF Lists, NoCircle
  <2>3. ListLinks(g) /\ ListHeads(g)
    BY <1>h DEF Lists, ListLinks, ListHeads
  <2>4. OneEnd(g)
    BY <1>h, <2>1 DEF Lists, OneEnd
  <2> QED
    BY <2>2, <2>3, <2>4 DEF Lists
<1>3. Classed(g) /\ Merged(g)
  BY <1>h DEF Classed, Merged, Usable
<1>4. \A i \in Classes : Complete(g, i) = Complete(h, i)
  BY DEF Complete, Whole
<1>5. \A o, S : Held(h, o, S) => Held(g, o, S)
  BY DEF Held, HeldBut, HeldAll
<1> QED
  BY <1>h, <1>1, <1>2, <1>3, <1>4, <1>5 DEF Shape

\* Changing the count of a class changes nothing else.
LEMMA Recount ==
    ASSUME NEW h \in Heaps, NEW c \in Classes, NEW n \in Int,
           NEW g, g = [h EXCEPT !.complete[c] = n]
    PROVE  /\ g \in Heaps
           /\ g.tags = h.tags /\ g.free = h.free /\ g.mapped = h.mapped
           /\ \A i \in Classes : g.complete[i] = IF i = c THEN n ELSE h.complete[i]
<1> DEFINE gc == [h.complete EXCEPT ![c] = n]
<1>h. /\ h = [tags |-> h.tags, free |-> h.free, complete |-> h.complete, mapped |-> h.mapped]
      /\ h.tags \in [DOMAIN h.tags -> Tag] /\ DOMAIN h.tags \subseteq Nat \ {NULL}
      /\ h.free \in [Classes -> Nat] /\ h.complete \in [Classes -> Int] /\ h.mapped \subseteq Pages
  BY HeapsAre
<1>1. g = [h EXCEPT !.complete = gc]
  OBVIOUS
<1>2. g = [tags |-> h.tags, free |-> h.free, complete |-> gc, mapped |-> h.mapped]
  <2> HIDE DEF gc
  <2> QED
    BY <1>1, <1>h
<1>3. gc \in [Classes -> Int]
  BY <1>h
<1>4. \A i \in Classes : gc[i] = IF i = c THEN n ELSE h.complete[i]
  BY <1>h
<1> HIDE DEF gc
<1>5. /\ g.tags = h.tags /\ g.free = h.free /\ g.mapped = h.mapped /\ g.complete = gc
  BY <1>2
<1>6. g \in Heaps
  BY <1>2, <1>3, <1>5, <1>h, HeapsAre
<1> QED
  BY <1>4, <1>5, <1>6

\* A free tag is taken out of its list, and out of the count if it is a block.
LEMMA ReuseSound ==
    ASSUME NEW h, NEW B, Shape(h, B), Counted(h), NEW t \in InList(h), NEW size \in Nat,
           h.tags[t].index = Class(size), NEW g, g = Reuse(h, t, size)
    PROVE  /\ Shape(g, B) /\ Counted(g)
           /\ t \in DOMAIN g.tags /\ g.tags[t].index = -1
           /\ RightDone(g, t)
           /\ Usable(g, t) = Usable(h, t)
           /\ \A o : HeldAll(h, o) => HeldBut(g, o, t)
<1>h. h \in Heaps /\ IsFiniteSet(DOMAIN h.tags) /\ Tile(h, B) /\ Lists(h) /\ Classed(h) /\ Merged(h)
  BY DEF Shape
<1>t. t \in DOMAIN h.tags /\ h.tags[t].index # -1
  BY DEF InList
<1>c. PICK c \in Classes : c = Class(size)
  BY ClassIs
<1>x. PICK x : x = remove_tag(h, t)
  OBVIOUS
<1>1. /\ Shape(x, B) /\ x.complete = h.complete
      /\ DOMAIN x.tags = DOMAIN h.tags
      /\ \A u \in DOMAIN h.tags :
            /\ x.tags[u].real_size = h.tags[u].real_size
            /\ x.tags[u].split_right = h.tags[u].split_right
            /\ x.tags[u].index = IF u = t THEN -1 ELSE h.tags[u].index
      /\ \A i \in Classes : Complete(x, i) = Complete(h, i) \ {t}
      /\ \A o, S : Held(h, o, S) => Held(x, o, S \cup {t})
  BY <1>x, RemoveSound
<1>2. x \in Heaps
  BY <1>1 DEF Shape
<1>3. Usable(x, t) = Usable(h, t)
  BY <1>1, <1>t DEF Usable
<1>4. RightDone(x, t)
  <2> SUFFICES ASSUME x.tags[t].split_right # NULL
               PROVE  x.tags[x.tags[t].split_right].index = -1
    BY DEF RightDone
  <2>1. PICK r : r = h.tags[t].split_right
    OBVIOUS
  <2>2. r = x.tags[t].split_right /\ r # NULL
    BY <2>1, <1>1, <1>t
  <2>3. r \in DOMAIN h.tags /\ h.tags[r].index = -1
    BY <2>1, <2>2, <1>h, <1>t DEF Tile, Tied, Merged
  <2> QED
    BY <2>2, <2>3, <1>1
<1>5. ASSUME NEW o, HeldAll(h, o)
      PROVE  HeldBut(x, o, t)
  <2>1. Held(x, o, {} \cup {t})
    BY <1>1, <1>5 DEF HeldAll
  <2>2. {} \cup {t} = {t}
    OBVIOUS
  <2> QED
    BY <2>1, <2>2 DEF HeldBut
<1>f. \A i \in Classes : IsFiniteSet(Complete(h, i))
  <2> TAKE i \in Classes
  <2>1. Complete(h, i) \subseteq DOMAIN h.tags
    BY DEF Complete
  <2> QED
    BY <2>1, <1>h, FS_Subset
<1>6. CASE Whole(h, t)
  <2>1. g = [x EXCEPT !.complete[c] = @ - 1]
    BY <1>6, <1>x, <1>c DEF Reuse
  <2>2. PICK n \in Int : n = x.complete[c] - 1 /\ g = [x EXCEPT !.complete[c] = n]
    <3>1. x.complete[c] - 1 \in Int
      BY <1>2, HeapsAre
    <3> QED
      BY <2>1, <3>1
  <2>3. /\ g \in Heaps
        /\ g.tags = x.tags /\ g.free = x.free /\ g.mapped = x.mapped
        /\ \A i \in Classes : g.complete[i] = IF i = c THEN n ELSE x.complete[i]
    BY <2>2, <1>2, Recount
  <2>4. /\ Shape(g, B)
        /\ \A i \in Classes : Complete(g, i) = Complete(x, i)
        /\ \A o, S : Held(x, o, S) => Held(g, o, S)
    BY <2>3, <1>1, SameShape
  <2>9. \A o : HeldBut(x, o, t) => HeldBut(g, o, t)
    BY <2>4 DEF HeldBut
  <2>5. t \in Complete(h, c) /\ \A i \in Classes : i # c => t \notin Complete(h, i)
    BY <1>6, <1>t, <1>c DEF Complete
  <2>6. Counted(g)
    <3> SUFFICES ASSUME NEW i \in Classes
                 PROVE  g.complete[i] = Cardinality(Complete(g, i)) /\ g.complete[i] <= MaxComplete
      BY DEF Counted
    <3>1. h.complete[i] = Cardinality(Complete(h, i)) /\ h.complete[i] <= MaxComplete
      BY DEF Counted
    <3>2. Complete(g, i) = Complete(h, i) \ {t}
      BY <2>4, <1>1
    <3>3. CASE i = c
      <4>1. Cardinality(Complete(h, i) \ {t}) = Cardinality(Complete(h, i)) - 1
        BY <3>3, <2>5, <1>f, FS_RemoveElement
      <4>2. Cardinality(Complete(h, i)) \in Nat /\ MaxComplete \in Nat
        BY <1>f, FS_CardinalityType, ConstantFacts
      <4>3. g.complete[i] = h.complete[i] - 1
        BY <3>3, <2>2, <2>3, <1>1
      <4> QED
        BY <3>1, <3>2, <4>1, <4>2, <4>3
    <3>4. CASE i # c
      <4>1. Complete(h, i) \ {t} = Complete(h, i)
        BY <3>4, <2>5
      <4> QED
        BY <3>1, <3>2, <3>4, <4>1, <2>3, <1>1
    <3> QED
      BY <3>3, <3>4
  <2>7. t \in DOMAIN g.tags /\ g.tags[t].index = -1
    BY <2>3, <1>1, <1>t
  <2>8. RightDone(g, t) /\ Usable(g, t) = Usable(h, t)
    BY <2>3, <1>3, <1>4 DEF RightDone, Usable
  <2> QED
    BY <2>4, <2>6, <2>7, <2>8, <2>9, <1>5
<1>7. CASE ~ Whole(h, t)
  <2>1. g = x
    BY <1>7, <1>x DEF Reuse
  <2>2. \A i \in Classes : Complete(x, i) = Complete(h, i)
    BY <1>1, <1>7 DEF Complete
  <2>3. Counted(x)
    BY <2>2, <1>1 DEF Counted
  <2> QED
    BY <2>1, <2>3, <1>1, <1>3, <1>4, <1>5, <1>t
<1> QED
  BY <1>6, <1>7

\* The tag that malloc answers with holds size units, and keeps its place.
LEMMA CutSound ==
    ASSUME NEW h, NEW B, Shape(h, B), Counted(h), NEW t \in DOMAIN h.tags,
           h.tags[t].index = -1, RightDone(h, t), NEW size \in Nat,
           h.tags[t].real_size >= Hdr + size, NEW g, g = Cut(h, t, size)
    PROVE  /\ Shape(g, B) /\ Counted(g)
           /\ t \in DOMAIN g.tags /\ g.tags[t].index = -1 /\ g.tags[t].size = size
           /\ \A o : HeldBut(h, o, t) => HeldBut(g, o, t)
<1>c. Hdr \in Nat /\ h.tags[t].real_size \in Nat
  BY ConstantFacts, TagFields DEF Shape
<1>x. PICK x : x = Sized(h, t, size)
  OBVIOUS
<1>1. /\ Shape(x, B) /\ x.complete = h.complete
      /\ DOMAIN x.tags = DOMAIN h.tags
      /\ \A u \in DOMAIN h.tags :
                 /\ x.tags[u].real_size = h.tags[u].real_size
                 /\ x.tags[u].size = IF u = t THEN size ELSE h.tags[u].size
                 /\ x.tags[u].index = h.tags[u].index
                 /\ x.tags[u].split_left = h.tags[u].split_left
                 /\ x.tags[u].split_right = h.tags[u].split_right
      /\ \A i \in Classes : Complete(x, i) = Complete(h, i)
      /\ \A o : HeldBut(h, o, t) => HeldBut(x, o, t)
  <2>1. Shape(x, B)
    BY <1>x, SizedSound
  <2>2. x.complete = h.complete
    BY <2>1, <1>x, SizedSound
  <2>3. DOMAIN x.tags = DOMAIN h.tags
    BY <2>1, <1>x, SizedSound
  <2>4. \A u \in DOMAIN h.tags :
                 /\ x.tags[u].real_size = h.tags[u].real_size
                 /\ x.tags[u].size = IF u = t THEN size ELSE h.tags[u].size
                 /\ x.tags[u].index = h.tags[u].index
                 /\ x.tags[u].split_left = h.tags[u].split_left
                 /\ x.tags[u].split_right = h.tags[u].split_right
    BY <2>1, <1>x, SizedSound
  <2>5. \A i \in Classes : Complete(x, i) = Complete(h, i)
    BY <2>1, <1>x, SizedSound
  <2>6. \A o : HeldBut(h, o, t) => HeldBut(x, o, t)
    BY <2>1, <1>x, SizedSound
  <2> QED
    BY <2>1, <2>2, <2>3, <2>4, <2>5, <2>6
<1>2. Counted(x)
  BY <1>1 DEF Counted
<1>3. t \in DOMAIN x.tags /\ x.tags[t].index = -1 /\ x.tags[t].size = size
      /\ x.tags[t].real_size = h.tags[t].real_size
  BY <1>1
<1>4. x.tags[t].split_right # NULL => x.tags[x.tags[t].split_right].index = -1
  <2>1. h.tags[t].split_right # NULL => h.tags[t].split_right \in DOMAIN h.tags
    BY DEF Shape, Tile, Tied
  <2> QED
    BY <2>1, <1>1 DEF RightDone
<1>5. CASE x.tags[t].real_size - size - 2 * Hdr > 0 /\ getexp(x.tags[t].real_size - size - 2 * Hdr) >= 0
  <2>1. g = split_tag(x, t)
    BY <1>5, <1>x DEF Cut, Sized
  <2>2. x.tags[t].real_size >= x.tags[t].size + 2 * Hdr
    BY <1>5, <1>3, <1>c
  <2>3. /\ Shape(g, B) /\ g.complete = x.complete
        /\ t \in DOMAIN g.tags /\ g.tags[t].index = -1 /\ g.tags[t].size = x.tags[t].size
        /\ \A i \in Classes : Complete(g, i) = Complete(x, i)
        /\ \A o : HeldBut(x, o, t) => HeldBut(g, o, t)
    BY <2>1, <2>2, <1>1, <1>3, <1>4, SplitSound
  <2>4. Counted(g)
    BY <2>3, <1>2 DEF Counted
  <2> QED
    BY <2>3, <2>4, <1>1, <1>3
<1>6. CASE ~ (x.tags[t].real_size - size - 2 * Hdr > 0 /\ getexp(x.tags[t].real_size - size - 2 * Hdr) >= 0)
  <2>1. g = x
    BY <1>6, <1>x DEF Cut, Sized
  <2> QED
    BY <2>1, <1>1, <1>2, <1>3
<1> QED
  BY <1>5, <1>6

\* The regions o and one more, or one less.
And(o, p, size) == [q \in DOMAIN o \cup {p} |-> IF q = p THEN size ELSE o[q]]
But(o, p)       == [q \in DOMAIN o \ {p} |-> o[q]]

\* A tag in use that nobody held is a region once its size is noted: its address
\* plus Hdr is a new pointer, and not NULL.
LEMMA HandOver ==
    ASSUME NEW h \in Heaps, NEW o, NEW t \in DOMAIN h.tags, HeldBut(h, o, t),
           h.tags[t].index = -1, NEW size, h.tags[t].size = size
    PROVE  /\ t + Hdr \in Nat /\ t + Hdr # NULL /\ t + Hdr \notin DOMAIN o
           /\ HeldAll(h, And(o, t + Hdr, size))
<1>t. \A u \in DOMAIN h.tags : u \in Nat /\ u # NULL
  BY TagFields
<1>c. Hdr \in Nat /\ Hdr >= 1
  BY ConstantFacts
<1>p. PICK p : p = t + Hdr
  OBVIOUS
<1>1. p \in Nat /\ p # NULL /\ p - Hdr = t
  <2>1. t \in Nat /\ Hdr \in Nat /\ Hdr >= 1
    BY <1>t, <1>c
  <2>2. t + Hdr \in Nat /\ t + Hdr # 0 /\ (t + Hdr) - Hdr = t
    BY <2>1
  <2> QED
    BY <2>2, <1>p DEF NULL
<1>2. p \notin DOMAIN o
  BY <1>1 DEF Held, HeldBut, HeldAll
<1>a. PICK a : a = And(o, p, size)
  OBVIOUS
<1>3. /\ DOMAIN a = DOMAIN o \cup {p} /\ a[p] = size
      /\ \A q \in DOMAIN o : a[q] = o[q]
  BY <1>a, <1>2 DEF And
<1>4. ASSUME NEW q \in DOMAIN a
      PROVE  /\ q \in Nat /\ q - Hdr \in DOMAIN h.tags \ {}
             /\ h.tags[q - Hdr].index = -1 /\ h.tags[q - Hdr].size = a[q]
  <2>1. CASE q = p
    BY <2>1, <1>1, <1>3
  <2>2. CASE q # p
    <3>1. q \in DOMAIN o /\ a[q] = o[q]
      BY <2>2, <1>3
    <3> QED
      BY <3>1 DEF Held, HeldBut, HeldAll
  <2> QED
    BY <2>1, <2>2
<1>5. ASSUME NEW u \in DOMAIN h.tags, h.tags[u].index = -1
      PROVE  u + Hdr \in DOMAIN a
  BY <1>3, <1>5, <1>p DEF Held, HeldBut, HeldAll
<1>6. HeldAll(h, a)
  BY <1>4, <1>5 DEF Held, HeldBut, HeldAll
<1> QED
  BY <1>1, <1>2, <1>6, <1>a, <1>p

\* A pointer a caller holds leads to its tag, and the tag is nobody's after.
LEMMA TakeBack ==
    ASSUME NEW h \in Heaps, NEW o, HeldAll(h, o), NEW p \in DOMAIN o
    PROVE  /\ p - Hdr \in DOMAIN h.tags /\ h.tags[p - Hdr].index = -1
           /\ HeldBut(h, But(o, p), p - Hdr)
<1>t. \A u \in DOMAIN h.tags : u \in Nat
  BY TagFields
<1>c. Hdr \in Nat
  BY ConstantFacts
<1>a. PICK a : a = But(o, p)
  OBVIOUS
<1>1. DOMAIN a = DOMAIN o \ {p} /\ \A q \in DOMAIN a : a[q] = o[q]
  BY <1>a DEF But
<1>2. p \in Nat /\ p - Hdr \in DOMAIN h.tags /\ h.tags[p - Hdr].index = -1
  BY DEF Held, HeldBut, HeldAll
<1>3. ASSUME NEW q \in DOMAIN a
      PROVE  /\ q \in Nat /\ q - Hdr \in DOMAIN h.tags \ {p - Hdr}
             /\ h.tags[q - Hdr].index = -1 /\ h.tags[q - Hdr].size = a[q]
  <2>1. /\ q \in Nat /\ q - Hdr \in DOMAIN h.tags
        /\ h.tags[q - Hdr].index = -1 /\ h.tags[q - Hdr].size = a[q]
    BY <1>1 DEF Held, HeldBut, HeldAll
  <2>2. q - Hdr # p - Hdr
    BY <1>1, <1>2, <1>c, <2>1
  <2> QED
    BY <2>1, <2>2
<1>4. ASSUME NEW u \in DOMAIN h.tags \ {p - Hdr}, h.tags[u].index = -1
      PROVE  u + Hdr \in DOMAIN a
  <2>1. u + Hdr \in DOMAIN o
    BY <1>4 DEF Held, HeldBut, HeldAll
  <2>2. u + Hdr # p
    BY <1>t, <1>c, <1>2
  <2> QED
    BY <2>1, <2>2, <1>1
<1>5. HeldBut(h, a, p - Hdr)
  BY <1>3, <1>4 DEF Held, HeldBut, HeldAll
<1> QED
  BY <1>2, <1>5, <1>a

\* A tag with no free neighbour is put into the list of its class.
LEMMA InsertDone ==
    ASSUME NEW h, NEW B, Shape(h, B), NEW t \in DOMAIN h.tags, h.tags[t].index = -1,
           LeftDone(h, t), RightDone(h, t), NEW k \in Classes, k = Class(Usable(h, t)),
           NEW o, HeldBut(h, o, t), NEW g, g = insert_tag(h, t, k)
    PROVE  /\ Shape(g, B) /\ g.complete = h.complete
           /\ \A i \in Classes : Complete(g, i) = IF i = k /\ Whole(h, t)
                                                  THEN Complete(h, i) \cup {t}
                                                  ELSE Complete(h, i)
           /\ t \notin Complete(h, k)
           /\ HeldAll(g, o)
<1>1. k \in Int
  BY ConstantFacts
<1>2. /\ h.tags[t].split_left # NULL => h.tags[h.tags[t].split_left].index = -1
      /\ h.tags[t].split_right # NULL => h.tags[h.tags[t].split_right].index = -1
  BY DEF LeftDone, RightDone
<1>3. /\ Shape(g, B) /\ g.complete = h.complete
      /\ \A i \in Classes : Complete(g, i) = IF i = k /\ Whole(h, t)
                                             THEN Complete(h, i) \cup {t}
                                             ELSE Complete(h, i)
      /\ t \notin Complete(h, k)
      /\ \A oo, S : t \in S /\ Held(h, oo, S) => Held(g, oo, S \ {t})
  BY <1>1, <1>2, InsertSound
<1>4. HeldAll(g, o)
  <2>1. Held(g, o, {t} \ {t})
    BY <1>3 DEF HeldBut
  <2>2. {t} \ {t} = {}
    OBVIOUS
  <2> QED
    BY <2>1, <2>2 DEF HeldAll
<1> QED
  BY <1>3, <1>4

\* The end of malloc, on the tag it has taken.
LEMMA AnswerSound ==
    ASSUME NEW h, NEW B, Shape(h, B), Counted(h), NEW t \in DOMAIN h.tags,
           h.tags[t].index = -1, RightDone(h, t), NEW size \in Nat,
           h.tags[t].real_size >= Hdr + size, NEW o, HeldBut(h, o, t),
           NEW g, g = Cut(h, t, size)
    PROVE  /\ Shape(g, B) /\ Counted(g)
           /\ t + Hdr \in Nat /\ t + Hdr # NULL /\ t + Hdr \notin DOMAIN o
           /\ HeldAll(g, And(o, t + Hdr, size))
<1>1. /\ Shape(g, B) /\ Counted(g)
      /\ t \in DOMAIN g.tags /\ g.tags[t].index = -1 /\ g.tags[t].size = size
      /\ HeldBut(g, o, t)
  BY CutSound
<1>2. g \in Heaps
  BY <1>1 DEF Shape
<1> QED
  BY <1>1, <1>2, HandOver

\* malloc keeps the shape of the heap and its counts, and answers NULL or with a
\* region nobody held. It counts down in the class it searched, which is that of
\* the tag it found.
LEMMA MallocSound ==
    ASSUME NEW h, NEW B, Shape(h, B), Counted(h), NEW o, HeldAll(h, o),
           NEW size \in Sizes, NEW r \in malloc(h, size)
    PROVE  /\ \E C : Shape(r.h, C)
           /\ Counted(r.h)
           /\ \/ r.ptr = NULL /\ HeldAll(r.h, o)
              \/ /\ r.ptr \in Nat /\ r.ptr # NULL /\ r.ptr \notin DOMAIN o
                 /\ HeldAll(r.h, And(o, r.ptr, size))
<1>c. size \in Nat /\ Hdr \in Nat
  BY ConstantFacts
<1>t. PICK t : t = Found(h, size)
  OBVIOUS
<1>1. CASE t # NULL
  <2>1. r = [h |-> Cut(Reuse(h, t, size), t, size), ptr |-> t + Hdr]
    BY <1>1, <1>t DEF malloc
  <2>2. t \in InList(h) /\ h.tags[t].index = Class(size) /\ Usable(h, t) >= size + Hdr
    BY <1>1, <1>t, <1>c, FoundSound
  <2>3. PICK x : x = Reuse(h, t, size)
    OBVIOUS
  <2>4. /\ Shape(x, B) /\ Counted(x)
        /\ t \in DOMAIN x.tags /\ x.tags[t].index = -1
        /\ RightDone(x, t)
        /\ Usable(x, t) = Usable(h, t)
        /\ HeldBut(x, o, t)
    BY <2>2, <2>3, <1>c, ReuseSound
  <2>5. x.tags[t].real_size >= Hdr + size
    <3>1. x.tags[t].real_size \in Nat
      BY <2>4, TagFields DEF Shape
    <3>2. Usable(x, t) >= size + Hdr
      BY <2>2, <2>4
    <3> QED
      BY <3>1, <3>2, <1>c DEF Usable
  <2>6. PICK g : g = Cut(x, t, size)
    OBVIOUS
  <2>7. /\ Shape(g, B) /\ Counted(g)
        /\ t + Hdr \in Nat /\ t + Hdr # NULL /\ t + Hdr \notin DOMAIN o
        /\ HeldAll(g, And(o, t + Hdr, size))
    BY <2>4, <2>5, <2>6, <1>c, AnswerSound
  <2>8. r.h = g /\ r.ptr = t + Hdr
    BY <2>1, <2>3, <2>6
  <2> QED
    BY <2>7, <2>8
<1>2. CASE t = NULL /\ r = [h |-> h, ptr |-> NULL]
  BY <1>2
<1>3. CASE t = NULL /\ r # [h |-> h, ptr |-> NULL]
  <2>1. PICK b \in Blocks(h, PagesFor(size + Hdr)) :
           r = [h |-> Cut(allocate_new_tag(h, size, b), b * PageSize, size),
                ptr |-> b * PageSize + Hdr]
    BY <1>3, <1>t DEF malloc
  <2>2. PICK u : u = Addr(b)
    OBVIOUS
  <2>3. PICK x : x = allocate_new_tag(h, size, b)
    OBVIOUS
  <2>4. /\ \E C : Shape(x, C)
        /\ x.complete = h.complete
        /\ u \in DOMAIN x.tags /\ x.tags[u].index = -1 /\ x.tags[u].split_right = NULL
        /\ x.tags[u].real_size >= size + Hdr
        /\ \A i \in Classes : Complete(x, i) = Complete(h, i)
        /\ \A oo : HeldAll(h, oo) => HeldBut(x, oo, u)
    BY <2>2, <2>3, <1>c, AllocateSound
  <2>5. PICK C : Shape(x, C)
    BY <2>4
  <2>6. Counted(x)
    BY <2>4 DEF Counted
  <2>7. RightDone(x, u)
    BY <2>4 DEF RightDone
  <2>8. x.tags[u].real_size >= Hdr + size
    BY <2>4, <1>c
  <2>9. PICK g : g = Cut(x, u, size)
    OBVIOUS
  <2>10. HeldBut(x, o, u)
    BY <2>4
  <2>11. /\ Shape(g, C) /\ Counted(g)
         /\ u + Hdr \in Nat /\ u + Hdr # NULL /\ u + Hdr \notin DOMAIN o
         /\ HeldAll(g, And(o, u + Hdr, size))
    BY <2>4, <2>5, <2>6, <2>7, <2>8, <2>9, <2>10, <1>c, AnswerSound
  <2>12. r.h = g /\ r.ptr = u + Hdr
    BY <2>1, <2>2, <2>3, <2>9 DEF Addr
  <2> QED
    BY <2>11, <2>12
<1> QED
  BY <1>1, <1>2, <1>3

\* free keeps the shape of the heap and its counts: no free neighbour is left
\* beside the piece it puts in a list or gives back.
LEMMA FreeSound ==
    ASSUME NEW h, NEW B, Shape(h, B), Counted(h), NEW o, HeldAll(h, o), NEW p \in DOMAIN o,
           NEW g, g = free(h, p)
    PROVE  /\ \E C : Shape(g, C)
           /\ Counted(g) /\ HeldAll(g, But(o, p))
<1>h. h \in Heaps
  BY DEF Shape
<1>o. PICK w : w = But(o, p)
  OBVIOUS
<1>s. PICK s : s = p - Hdr
  OBVIOUS
<1>1. s \in DOMAIN h.tags /\ h.tags[s].index = -1 /\ HeldBut(h, w, s)
  BY <1>h, <1>o, <1>s, TakeBack
<1>m. PICK m : m = MeltLeft(h, s)
  OBVIOUS
<1>2. /\ Shape(m.h, B) /\ m.h.complete = h.complete
      /\ m.tag \in DOMAIN m.h.tags /\ m.h.tags[m.tag].index = -1
      /\ LeftDone(m.h, m.tag)
      /\ \A i \in Classes : Complete(m.h, i) = Complete(h, i)
      /\ HeldBut(m.h, w, m.tag)
  BY <1>1, <1>m, MeltLeftSound
<1>x. PICK x, t : x = MeltRight(m.h, m.tag) /\ t = m.tag
  OBVIOUS
<1>3. /\ Shape(x, B) /\ x.complete = m.h.complete
      /\ t \in DOMAIN x.tags /\ x.tags[t].index = -1
      /\ LeftDone(x, t) /\ RightDone(x, t)
      /\ \A i \in Classes : Complete(x, i) = Complete(m.h, i)
      /\ HeldBut(x, w, t)
  BY <1>2, <1>x, MeltRightSound
<1>4. \A i \in Classes : /\ x.complete[i] = Cardinality(Complete(x, i))
                         /\ x.complete[i] <= MaxComplete
  BY <1>2, <1>3 DEF Counted
<1>f. \A i \in Classes : IsFiniteSet(Complete(x, i))
  <2> TAKE i \in Classes
  <2>1. Complete(x, i) \subseteq DOMAIN x.tags /\ IsFiniteSet(DOMAIN x.tags)
    BY <1>3 DEF Complete, Shape
  <2> QED
    BY <2>1, FS_Subset
<1>5. Class(Usable(x, t)) \in Classes
  <2>1. /\ x.tags[t].real_size \in Nat /\ Hdr \in Nat /\ x.tags[t].size \in Nat
        /\ x.tags[t].real_size >= Hdr + x.tags[t].size
    BY <1>3, PieceFacts DEF Shape
  <2>2. Usable(x, t) \in Nat
    BY <2>1 DEF Usable
  <2> QED
    BY <2>2, ClassIs
<1>6. PICK k \in Classes : k = Class(Usable(x, t))
  BY <1>5
<1>7. k \in Int
  BY ConstantFacts
<1>g. g = IF ~ Whole(x, t) THEN insert_tag(x, t, k)
          ELSE IF x.complete[k] = MaxComplete THEN GiveBack(x, t)
          ELSE insert_tag([x EXCEPT !.complete[k] = @ + 1], t, k)
  BY <1>s, <1>m, <1>x, <1>6 DEF free
<1>8. CASE ~ Whole(x, t)
  <2>1. g = insert_tag(x, t, k)
    BY <1>8, <1>g
  <2>2. /\ Shape(g, B) /\ g.complete = x.complete
        /\ \A i \in Classes : Complete(g, i) = Complete(x, i)
        /\ HeldAll(g, w)
    BY <2>1, <1>3, <1>6, <1>7, <1>8, InsertDone
  <2>3. Counted(g)
    BY <2>2, <1>4 DEF Counted
  <2> QED
    BY <2>2, <2>3, <1>o
<1>9. CASE Whole(x, t) /\ x.complete[k] = MaxComplete
  <2>1. g = GiveBack(x, t)
    BY <1>9, <1>g
  <2>2. /\ \E C : Shape(g, C)
        /\ g.complete = x.complete
        /\ \A i \in Classes : Complete(g, i) = Complete(x, i)
        /\ HeldAll(g, w)
    BY <2>1, <1>3, <1>9, GiveBackSound
  <2>3. Counted(g)
    BY <2>2, <1>4 DEF Counted
  <2> QED
    BY <2>2, <2>3, <1>o
<1>10. CASE Whole(x, t) /\ x.complete[k] # MaxComplete
  <2>1. PICK n \in Int : n = x.complete[k] + 1
    <3>1. Cardinality(Complete(x, k)) \in Nat
      BY <1>f, FS_CardinalityType
    <3> QED
      BY <3>1, <1>4
  <2>2. PICK y : y = [x EXCEPT !.complete[k] = n]
    OBVIOUS
  <2>3. g = insert_tag(y, t, k)
    BY <1>10, <1>g, <2>1, <2>2
  <2>4. x \in Heaps
    BY <1>3 DEF Shape
  <2>5. /\ y \in Heaps
        /\ y.tags = x.tags /\ y.free = x.free /\ y.mapped = x.mapped
        /\ \A i \in Classes : y.complete[i] = IF i = k THEN n ELSE x.complete[i]
    BY <2>2, <2>4, Recount
  <2>6. /\ Shape(y, B)
        /\ \A i \in Classes : Complete(y, i) = Complete(x, i)
        /\ \A oo, S : Held(x, oo, S) => Held(y, oo, S)
    BY <2>5, <1>3, SameShape
  <2>7. /\ t \in DOMAIN y.tags /\ y.tags[t].index = -1
        /\ LeftDone(y, t) /\ RightDone(y, t) /\ Whole(y, t)
        /\ Usable(y, t) = Usable(x, t)
        /\ HeldBut(y, w, t)
    BY <2>5, <2>6, <1>3, <1>10 DEF LeftDone, RightDone, Whole, Usable, HeldBut
  <2>8. /\ Shape(g, B) /\ g.complete = y.complete
        /\ \A i \in Classes : Complete(g, i) = IF i = k THEN Complete(y, i) \cup {t}
                                               ELSE Complete(y, i)
        /\ t \notin Complete(y, k)
        /\ HeldAll(g, w)
    BY <2>3, <2>6, <2>7, <1>6, <1>7, InsertDone
  <2>9. Counted(g)
    <3> SUFFICES ASSUME NEW i \in Classes
                 PROVE  g.complete[i] = Cardinality(Complete(g, i)) /\ g.complete[i] <= MaxComplete
      BY DEF Counted
    <3>1. CASE i = k
      <4>1. Complete(g, i) = Complete(x, k) \cup {t} /\ t \notin Complete(x, k)
        BY <3>1, <2>6, <2>8
      <4>2. Cardinality(Complete(x, k) \cup {t}) = Cardinality(Complete(x, k)) + 1
        BY <4>1, <1>f, FS_AddElement
      <4>3. Cardinality(Complete(x, k)) \in Nat /\ MaxComplete \in Nat
        BY <1>f, FS_CardinalityType, ConstantFacts
      <4>4. /\ x.complete[k] = Cardinality(Complete(x, k)) /\ x.complete[k] <= MaxComplete
            /\ x.complete[k] # MaxComplete
        BY <1>4, <1>10
      <4>5. g.complete[i] = x.complete[k] + 1
        BY <3>1, <2>1, <2>5, <2>8
      <4> QED
        BY <4>1, <4>2, <4>3, <4>4, <4>5
    <3>2. CASE i # k
      BY <3>2, <2>5, <2>6, <2>8, <1>4
    <3> QED
      BY <3>1, <3>2
  <2> QED
    BY <2>8, <2>9, <1>o
<1> QED
  BY <1>8, <1>9, <1>10
------------------------------------------------------------------------------
(* The steps of the specification.                                          *)

\* The heap between two calls: the blocks B of pages are cut into the pieces
\* the tags describe, and the tags in use are what callers hold.
HeapInv == /\ \E B : Shape(H, B)
           /\ Counted(H)
           /\ HeldAll(H, owned)
           /\ \A p \in DOMAIN owned : owned[p] \in Sizes

\* The types of the locals of realloc.
LocalsOK == /\ pc \in [Callers -> {"out", "malloc", "copy"}]
            /\ old \in [Callers -> Nat] /\ got \in [Callers -> Nat]
            /\ want \in [Callers -> Nat] /\ keep \in [Callers -> Nat]

\* A realloc in progress holds its old region, and its new one once it has it,
\* has read no more than either can take, and shares neither with another.
ReallocInv ==
    /\ \A c \in Callers :
          /\ pc[c] = "out" <=> old[c] = NULL
          /\ got[c] # NULL => pc[c] = "copy" /\ got[c] \in DOMAIN owned /\ keep[c] <= owned[got[c]]
          /\ old[c] # NULL => old[c] \in DOMAIN owned /\ keep[c] <= owned[old[c]]
          /\ pc[c] # "out" => want[c] \in Sizes /\ keep[c] <= want[c]
    /\ \A c, d \in Callers :
          /\ old[c] # NULL => old[c] # got[d]
          /\ old[c] # NULL /\ c # d => old[c] # old[d]

\* The inductive invariant.
IInv == HeapInv /\ LocalsOK /\ ReallocInv

\* Regions and tags in use, one for one.
LEMMA HeldFacts ==
    ASSUME NEW h, NEW B, Shape(h, B), NEW o, HeldAll(h, o)
    PROVE  /\ \A p \in DOMAIN o : /\ p \in Nat /\ p # NULL /\ p - Hdr \in DOMAIN h.tags
                                  /\ h.tags[p - Hdr].index = -1
                                  /\ h.tags[p - Hdr].size = o[p]
                                  /\ o[p] \in Nat
           /\ \A t \in DOMAIN h.tags : h.tags[t].index = -1 =>
                 t + Hdr \in DOMAIN o /\ o[t + Hdr] = h.tags[t].size
<1>t. \A u \in DOMAIN h.tags : u \in Nat /\ u # NULL /\ h.tags[u].size \in Nat
  BY TagFields DEF Shape
<1>c. Hdr \in Nat
  BY ConstantFacts
<1>1. ASSUME NEW p \in DOMAIN o
      PROVE  /\ p \in Nat /\ p # NULL /\ p - Hdr \in DOMAIN h.tags
             /\ h.tags[p - Hdr].index = -1
             /\ h.tags[p - Hdr].size = o[p]
             /\ o[p] \in Nat
  <2>1. /\ p \in Nat /\ p - Hdr \in DOMAIN h.tags
        /\ h.tags[p - Hdr].index = -1 /\ h.tags[p - Hdr].size = o[p]
    BY DEF Held, HeldAll
  <2>2. p - Hdr \in Nat /\ p - Hdr # NULL /\ o[p] \in Nat
    BY <2>1, <1>t
  <2>3. p # NULL
    BY <2>1, <2>2, <1>c DEF NULL
  <2> QED
    BY <2>1, <2>2, <2>3
<1>2. ASSUME NEW t \in DOMAIN h.tags, h.tags[t].index = -1
      PROVE  t + Hdr \in DOMAIN o /\ o[t + Hdr] = h.tags[t].size
  <2>1. t + Hdr \in DOMAIN o
    BY <1>2 DEF Held, HeldAll
  <2>2. (t + Hdr) - Hdr = t
    BY <1>t, <1>c
  <2> QED
    BY <2>1, <2>2, <1>1
<1> QED
  BY <1>1, <1>2

\* The four variables hold the heap that was put.
LEMMA PutIs ==
    ASSUME NEW g \in Heaps, Put(g)
    PROVE  H' = g
<1>1. g = [tags |-> g.tags, free |-> g.free, complete |-> g.complete, mapped |-> g.mapped]
  BY HeapsAre
<1> QED
  BY <1>1 DEF Put, H

\* malloc, by whoever calls it.
LEMMA MallocStep ==
    ASSUME HeapInv, NEW size \in Sizes, NEW r \in malloc(H, size), Put(r.h),
           owned' = IF r.ptr = NULL THEN owned ELSE Handed(r.ptr, size)
    PROVE  /\ HeapInv'
           /\ r.ptr \in Nat
           /\ \A p \in DOMAIN owned : p \in DOMAIN owned' /\ owned'[p] = owned[p]
           /\ r.ptr # NULL => /\ r.ptr \notin DOMAIN owned
                              /\ r.ptr \in DOMAIN owned' /\ owned'[r.ptr] = size
<1>h. HeldAll(H, owned) /\ Counted(H)
  BY DEF HeapInv
<1>b. PICK B : Shape(H, B)
  BY DEF HeapInv
<1>1. /\ \E C : Shape(r.h, C)
      /\ Counted(r.h)
      /\ \/ r.ptr = NULL /\ HeldAll(r.h, owned)
         \/ /\ r.ptr \in Nat /\ r.ptr # NULL /\ r.ptr \notin DOMAIN owned
            /\ HeldAll(r.h, And(owned, r.ptr, size))
  BY <1>b, <1>h, MallocSound
<1>2. H' = r.h
  <2>1. r.h \in Heaps
    BY <1>1 DEF Shape
  <2> QED
    BY <2>1, PutIs
<1>p. (\E C : Shape(H', C)) /\ Counted(H')
  BY <1>1, <1>2
<1>3. CASE r.ptr = NULL
  <2>1. owned' = owned
    BY <1>3
  <2>2. HeldAll(H', owned')
    BY <1>1, <1>2, <1>3, <2>1
  <2>3. r.ptr \in Nat
    BY <1>3 DEF NULL
  <2>4. HeapInv'
    BY <2>1, <2>2, <1>p DEF HeapInv
  <2> QED
    BY <2>1, <2>3, <2>4, <1>3
<1>4. CASE r.ptr # NULL
  <2>1. owned' = And(owned, r.ptr, size)
    BY <1>4 DEF Handed, And
  <2>2. r.ptr \in Nat /\ r.ptr \notin DOMAIN owned /\ HeldAll(H', owned')
    BY <1>1, <1>2, <1>4, <2>1
  <2>3. /\ DOMAIN owned' = DOMAIN owned \cup {r.ptr} /\ owned'[r.ptr] = size
        /\ \A p \in DOMAIN owned : owned'[p] = owned[p]
    BY <2>1, <2>2 DEF And
  <2>4. \A p \in DOMAIN owned' : owned'[p] \in Sizes
    BY <2>3 DEF HeapInv
  <2>5. HeapInv'
    BY <2>2, <2>4, <1>p DEF HeapInv
  <2> QED
    BY <2>2, <2>3, <2>5
<1> QED
  BY <1>3, <1>4

\* free, by whoever calls it.
LEMMA FreeStep ==
    ASSUME HeapInv, NEW p \in DOMAIN owned, Put(free(H, p)), owned' = Without(p)
    PROVE  /\ HeapInv'
           /\ DOMAIN owned' = DOMAIN owned \ {p}
           /\ \A q \in DOMAIN owned' : owned'[q] = owned[q]
<1>h. HeldAll(H, owned) /\ Counted(H)
  BY DEF HeapInv
<1>b. PICK B : Shape(H, B)
  BY DEF HeapInv
<1>g. PICK g : g = free(H, p)
  OBVIOUS
<1>1. (\E C : Shape(g, C)) /\ Counted(g) /\ HeldAll(g, But(owned, p))
  BY <1>b, <1>h, <1>g, FreeSound
<1>2. H' = g
  <2>1. g \in Heaps
    BY <1>1 DEF Shape
  <2>2. Put(g)
    BY <1>g
  <2> QED
    BY <2>1, <2>2, PutIs
<1>3. owned' = But(owned, p)
  BY DEF Without, But
<1>4. DOMAIN owned' = DOMAIN owned \ {p} /\ \A q \in DOMAIN owned' : owned'[q] = owned[q]
  BY <1>3 DEF But
<1>5. \A q \in DOMAIN owned' : owned'[q] \in Sizes
  BY <1>4 DEF HeapInv
<1>6. (\E C : Shape(H', C)) /\ Counted(H') /\ HeldAll(H', owned')
  BY <1>1, <1>2, <1>3
<1> QED
  BY <1>4, <1>5, <1>6 DEF HeapInv

\* The heap starts empty.
LEMMA InitHolds ==
    ASSUME Init
    PROVE  IInv
<1>1. /\ H.tags = [t \in {} |-> NULL] /\ H.free = [i \in Classes |-> NULL]
      /\ H.complete = [i \in Classes |-> 0] /\ H.mapped = {}
      /\ H = [tags |-> H.tags, free |-> H.free, complete |-> H.complete, mapped |-> H.mapped]
  BY DEF Init, H
<1>d. DOMAIN H.tags = {}
  BY <1>1
<1>2. H \in Heaps
  <2>1. H.tags \in [DOMAIN H.tags -> Tag] /\ DOMAIN H.tags \subseteq Nat \ {NULL}
    BY <1>1, <1>d
  <2>2. H.free \in [Classes -> Nat] /\ H.complete \in [Classes -> Int] /\ H.mapped \subseteq Pages
    BY <1>1 DEF NULL
  <2> QED
    BY <2>1, <2>2, <1>1, HeapsAre
<1>3. Tile(H, {})
  BY <1>1, <1>d DEF Tile, BlocksAre, PiecesOf, Disjoint, Room, Tied
<1>4. Lists(H)
  <2>1. InList(H) = {}
    BY <1>d DEF InList
  <2>2. ListLinks(H) /\ ListHeads(H) /\ OneEnd(H)
    BY <1>1, <1>d, <2>1 DEF ListLinks, ListHeads, OneEnd
  <2>3. NoCircle(H)
    BY <2>1 DEF NoCircle
  <2> QED
    BY <2>2, <2>3 DEF Lists
<1>5. Shape(H, {})
  <2>1. IsFiniteSet(DOMAIN H.tags)
    BY <1>d, FS_EmptySet
  <2>2. Classed(H) /\ Merged(H)
    BY <1>d DEF Classed, Merged
  <2> QED
    BY <1>2, <1>3, <1>4, <2>1, <2>2 DEF Shape
<1>6. Counted(H)
  <2> SUFFICES ASSUME NEW i \in Classes
               PROVE  H.complete[i] = Cardinality(Complete(H, i)) /\ H.complete[i] <= MaxComplete
    BY DEF Counted
  <2>1. Complete(H, i) = {}
    BY <1>d DEF Complete
  <2>2. Cardinality(Complete(H, i)) = 0
    BY <2>1, FS_EmptySet
  <2> QED
    BY <2>2, <1>1, ConstantFacts
<1>7. DOMAIN owned = {} /\ HeldAll(H, owned)
  BY <1>d DEF Init, Held, HeldAll
<1>8. HeapInv
  BY <1>5, <1>6, <1>7 DEF HeapInv
<1>9. LocalsOK
  BY DEF Init, LocalsOK, NULL
<1>10. ReallocInv
  BY <1>7 DEF Init, ReallocInv
<1> QED
  BY <1>8, <1>9, <1>10 DEF IInv

\* malloc keeps the invariant.
LEMMA MallocHolds ==
    ASSUME IInv, NEW size \in Sizes, Malloc(size)
    PROVE  IInv'
<1>1. PICK r \in malloc(H, size) :
          Put(r.h) /\ owned' = IF r.ptr = NULL THEN owned ELSE Handed(r.ptr, size)
  BY DEF Malloc
<1>2. /\ HeapInv' /\ \A p \in DOMAIN owned : p \in DOMAIN owned' /\ owned'[p] = owned[p]
  BY <1>1, MallocStep DEF IInv
<1>3. UNCHANGED <<pc, old, want, keep, got>>
  BY DEF Malloc, locals
<1>4. LocalsOK'
  BY <1>3 DEF IInv, LocalsOK
<1>5. ReallocInv'
  BY <1>2, <1>3 DEF IInv, ReallocInv
<1> QED
  BY <1>2, <1>4, <1>5 DEF IInv

\* free keeps the invariant: the region it takes back is no realloc's.
LEMMA FreeHolds ==
    ASSUME IInv, NEW p \in DOMAIN owned, Free(p)
    PROVE  IInv'
<1>1. p \notin InUse /\ Put(free(H, p)) /\ owned' = Without(p)
  BY DEF Free
<1>2. /\ HeapInv' /\ DOMAIN owned' = DOMAIN owned \ {p}
      /\ \A q \in DOMAIN owned' : owned'[q] = owned[q]
  BY <1>1, FreeStep DEF IInv
<1>3. UNCHANGED <<pc, old, want, keep, got>>
  BY DEF Free, locals
<1>4. LocalsOK'
  BY <1>3 DEF IInv, LocalsOK
<1>5. \A c \in Callers : old[c] # p /\ got[c] # p
  BY <1>1 DEF InUse
<1>6. ReallocInv'
  BY <1>2, <1>3, <1>5 DEF IInv, ReallocInv
<1> QED
  BY <1>2, <1>4, <1>6 DEF IInv

\* So does the first step of realloc: the size it reads from the tag is that of
\* the region.
LEMMA ReallocHolds ==
    ASSUME IInv, NEW c \in Callers, NEW p \in DOMAIN owned, NEW size \in Sizes,
           Realloc(c, p, size)
    PROVE  IInv'
<1>1. PICK k : k = IF tags[p - Hdr].size > size THEN size ELSE tags[p - Hdr].size
  OBVIOUS
<1>2. /\ pc[c] = "out" /\ p \notin InUse
      /\ keep' = [keep EXCEPT ![c] = k]
      /\ old' = [old EXCEPT ![c] = p] /\ want' = [want EXCEPT ![c] = size]
      /\ pc' = [pc EXCEPT ![c] = "malloc"]
      /\ UNCHANGED <<heapvars, owned, got>>
  BY <1>1 DEF Realloc
<1>3. p \in Nat /\ p # NULL /\ tags[p - Hdr].size = owned[p] /\ owned[p] \in Nat
  <2>1. PICK B : Shape(H, B)
    BY DEF IInv, HeapInv
  <2>2. HeldAll(H, owned)
    BY DEF IInv, HeapInv
  <2>3. H.tags = tags
    BY DEF H
  <2> QED
    BY <2>1, <2>2, <2>3, HeldFacts
<1>4. size \in Nat
  BY ConstantFacts
<1>5. k \in Nat /\ k <= size /\ k <= owned[p]
  BY <1>1, <1>3, <1>4
<1>6. HeapInv'
  <2>1. H' = H /\ owned' = owned
    BY <1>2 DEF H, heapvars
  <2> QED
    BY <2>1 DEF IInv, HeapInv
<1>l. LocalsOK
  BY DEF IInv
<1>7. LocalsOK'
  BY <1>2, <1>3, <1>4, <1>5, <1>l DEF LocalsOK
<1>8. \A d \in Callers : old[d] # p /\ got[d] # p
  BY <1>2 DEF InUse
<1>9. /\ \A d \in Callers \ {c} : /\ old'[d] = old[d] /\ want'[d] = want[d]
                                  /\ keep'[d] = keep[d] /\ pc'[d] = pc[d]
      /\ old'[c] = p /\ want'[c] = size /\ keep'[c] = k /\ pc'[c] = "malloc"
      /\ got' = got /\ owned' = owned
  BY <1>2, <1>l DEF LocalsOK
<1>10. got[c] = NULL
  BY <1>2 DEF IInv, ReallocInv
<1>i. ReallocInv
  BY DEF IInv
<1>11. ReallocInv'
  <2>1. ASSUME NEW d \in Callers
        PROVE  /\ pc'[d] = "out" <=> old'[d] = NULL
               /\ got'[d] # NULL => pc'[d] = "copy" /\ got'[d] \in DOMAIN owned'
                                    /\ keep'[d] <= owned'[got'[d]]
               /\ old'[d] # NULL => old'[d] \in DOMAIN owned' /\ keep'[d] <= owned'[old'[d]]
               /\ pc'[d] # "out" => want'[d] \in Sizes /\ keep'[d] <= want'[d]
    <3>1. CASE d = c
      BY <3>1, <1>3, <1>5, <1>9, <1>10
    <3>2. CASE d # c
      BY <3>2, <1>9, <1>i DEF ReallocInv
    <3> QED
      BY <3>1, <3>2
  <2>2. ASSUME NEW d \in Callers, NEW e \in Callers
        PROVE  /\ old'[d] # NULL => old'[d] # got'[e]
               /\ old'[d] # NULL /\ d # e => old'[d] # old'[e]
    <3>1. CASE d = c
      BY <3>1, <1>8, <1>9
    <3>2. CASE d # c
      BY <3>2, <1>8, <1>9, <1>i DEF ReallocInv
    <3> QED
      BY <3>1, <3>2
  <2> QED
    BY <2>1, <2>2 DEF ReallocInv
<1> QED
  BY <1>6, <1>7, <1>11 DEF IInv

\* So does its malloc: what it gets is nobody's old region.
LEMMA ReallocMallocHolds ==
    ASSUME IInv, NEW c \in Callers, ReallocMalloc(c)
    PROVE  IInv'
<1>l. LocalsOK /\ ReallocInv
  BY DEF IInv
<1>0. pc[c] = "malloc"
  BY DEF ReallocMalloc
<1>w. want[c] \in Sizes /\ keep[c] <= want[c] /\ got[c] = NULL /\ old[c] # NULL
  BY <1>0, <1>l DEF ReallocInv
<1>1. PICK r \in malloc(H, want[c]) :
          /\ Put(r.h) /\ owned' = IF r.ptr = NULL THEN owned ELSE Handed(r.ptr, want[c])
          /\ got' = [got EXCEPT ![c] = r.ptr]
  BY DEF ReallocMalloc
<1>2. /\ HeapInv' /\ r.ptr \in Nat
      /\ \A p \in DOMAIN owned : p \in DOMAIN owned' /\ owned'[p] = owned[p]
      /\ r.ptr # NULL => /\ r.ptr \notin DOMAIN owned
                         /\ r.ptr \in DOMAIN owned' /\ owned'[r.ptr] = want[c]
  BY <1>1, <1>w, MallocStep DEF IInv
<1>3. pc' = [pc EXCEPT ![c] = "copy"] /\ old' = old /\ want' = want /\ keep' = keep
  BY DEF ReallocMalloc
<1>4. LocalsOK'
  BY <1>1, <1>2, <1>3, <1>l DEF LocalsOK
<1>9. /\ \A d \in Callers \ {c} : pc'[d] = pc[d] /\ got'[d] = got[d]
      /\ pc'[c] = "copy" /\ got'[c] = r.ptr
  BY <1>1, <1>3, <1>l DEF LocalsOK
<1>11. ReallocInv'
  <2>1. ASSUME NEW d \in Callers
        PROVE  /\ pc'[d] = "out" <=> old'[d] = NULL
               /\ got'[d] # NULL => pc'[d] = "copy" /\ got'[d] \in DOMAIN owned'
                                    /\ keep'[d] <= owned'[got'[d]]
               /\ old'[d] # NULL => old'[d] \in DOMAIN owned' /\ keep'[d] <= owned'[old'[d]]
               /\ pc'[d] # "out" => want'[d] \in Sizes /\ keep'[d] <= want'[d]
    <3>1. CASE d = c
      BY <3>1, <1>w, <1>2, <1>3, <1>9, <1>l DEF ReallocInv
    <3>2. CASE d # c
      BY <3>2, <1>2, <1>3, <1>9, <1>l DEF ReallocInv
    <3> QED
      BY <3>1, <3>2
  <2>2. ASSUME NEW d \in Callers, NEW e \in Callers
        PROVE  /\ old'[d] # NULL => old'[d] # got'[e]
               /\ old'[d] # NULL /\ d # e => old'[d] # old'[e]
    <3>1. CASE e = c
      BY <3>1, <1>2, <1>3, <1>9, <1>l DEF ReallocInv
    <3>2. CASE e # c
      BY <3>2, <1>3, <1>9, <1>l DEF ReallocInv
    <3> QED
      BY <3>1, <3>2
  <2> QED
    BY <2>1, <2>2 DEF ReallocInv
<1> QED
  BY <1>2, <1>4, <1>11 DEF IInv

\* So does its free: other reallocs have other old regions, and the region it
\* takes back is not one another realloc has got.
LEMMA ReallocFreeHolds ==
    ASSUME IInv, NEW c \in Callers, ReallocFree(c)
    PROVE  IInv'
<1>l. LocalsOK /\ ReallocInv
  BY DEF IInv
<1>0. pc[c] = "copy"
  BY DEF ReallocFree
<1>w. old[c] \in DOMAIN owned /\ old[c] # NULL
  BY <1>0, <1>l DEF ReallocInv
<1>1. /\ Put(free(H, old[c])) /\ owned' = Without(old[c])
      /\ pc' = [pc EXCEPT ![c] = "out"]
      /\ old' = [old EXCEPT ![c] = NULL] /\ want' = [want EXCEPT ![c] = 0]
      /\ keep' = [keep EXCEPT ![c] = 0] /\ got' = [got EXCEPT ![c] = NULL]
  BY DEF ReallocFree
<1>2. /\ HeapInv' /\ DOMAIN owned' = DOMAIN owned \ {old[c]}
      /\ \A q \in DOMAIN owned' : owned'[q] = owned[q]
  BY <1>1, <1>w, FreeStep DEF IInv
<1>4. LocalsOK'
  BY <1>1, <1>l DEF LocalsOK, NULL
<1>9. /\ \A d \in Callers \ {c} : /\ pc'[d] = pc[d] /\ got'[d] = got[d] /\ old'[d] = old[d]
                                  /\ want'[d] = want[d] /\ keep'[d] = keep[d]
      /\ pc'[c] = "out" /\ got'[c] = NULL /\ old'[c] = NULL
  BY <1>1, <1>l DEF LocalsOK
<1>11. ReallocInv'
  <2>1. ASSUME NEW d \in Callers
        PROVE  /\ pc'[d] = "out" <=> old'[d] = NULL
               /\ got'[d] # NULL => pc'[d] = "copy" /\ got'[d] \in DOMAIN owned'
                                    /\ keep'[d] <= owned'[got'[d]]
               /\ old'[d] # NULL => old'[d] \in DOMAIN owned' /\ keep'[d] <= owned'[old'[d]]
               /\ pc'[d] # "out" => want'[d] \in Sizes /\ keep'[d] <= want'[d]
    <3>1. CASE d = c
      BY <3>1, <1>9
    <3>2. CASE d # c
      BY <3>2, <1>w, <1>2, <1>9, <1>l DEF ReallocInv
    <3> QED
      BY <3>1, <3>2
  <2>2. ASSUME NEW d \in Callers, NEW e \in Callers
        PROVE  /\ old'[d] # NULL => old'[d] # got'[e]
               /\ old'[d] # NULL /\ d # e => old'[d] # old'[e]
    BY <1>9, <1>l DEF ReallocInv
  <2> QED
    BY <2>1, <2>2 DEF ReallocInv
<1> QED
  BY <1>2, <1>4, <1>11 DEF IInv

\* Between any two calls the heap is in shape, its counts and regions are exact,
\* and every realloc in progress holds its regions.
THEOREM HeapInvariantHolds == Spec => []IInv
<1>1. Init => IInv
  BY InitHolds
<1>2. IInv /\ [Next]_vars => IInv'
  <2> SUFFICES ASSUME IInv, [Next]_vars
               PROVE  IInv'
    OBVIOUS
  <2>1. ASSUME NEW size \in Sizes, Malloc(size)
        PROVE  IInv'
    BY <2>1, MallocHolds
  <2>2. ASSUME NEW p \in DOMAIN owned, Free(p)
        PROVE  IInv'
    BY <2>2, FreeHolds
  <2>3. ASSUME NEW c \in Callers, NEW p \in DOMAIN owned, NEW size \in Sizes,
               Realloc(c, p, size)
        PROVE  IInv'
    BY <2>3, ReallocHolds
  <2>4. ASSUME NEW c \in Callers, ReallocMalloc(c)
        PROVE  IInv'
    BY <2>4, ReallocMallocHolds
  <2>5. ASSUME NEW c \in Callers, ReallocFree(c)
        PROVE  IInv'
    BY <2>5, ReallocFreeHolds
  <2>6. CASE UNCHANGED vars
    <3>1. /\ UNCHANGED <<tags, freePages, completePages, mapped, owned>>
          /\ UNCHANGED <<pc, old, want, keep, got>>
      BY <2>6 DEF vars, heapvars, locals
    <3>2. H' = H
      BY <3>1 DEF H
    <3>3. HeapInv'
      BY <3>1, <3>2 DEF IInv, HeapInv
    <3>4. LocalsOK' /\ ReallocInv'
      BY <3>1 DEF IInv, LocalsOK, ReallocInv
    <3> QED
      BY <3>3, <3>4 DEF IInv
  <2> QED
    BY <2>1, <2>2, <2>3, <2>4, <2>5, <2>6 DEF Next
<1> QED
  BY <1>1, <1>2, PTL DEF Spec
------------------------------------------------------------------------------
(* What the invariant says of the properties the runs check.                *)

\* The units of the pages in hand.
MemoryOf(h) == UNION {Units(p) : p \in h.mapped}

\* The units of the pages in hand are those of the pieces.
LEMMA PiecesCover ==
    ASSUME NEW h \in Heaps, NEW B, Tile(h, B)
    PROVE  \A u : u \in MemoryOf(h)
                     <=> u \in Nat /\ \E t \in DOMAIN h.tags : t <= u /\ u < End(h, t)
<1>c. PageSize \in Nat /\ PageSize >= 1
  BY ConstantFacts
<1>m. h.mapped \subseteq Nat
  BY HeapsAre, ConstantFacts
<1>a. \A p \in Nat : Addr(p) \in Nat /\ Addr(p + 1) \in Nat /\ Addr(p + 1) = Addr(p) + PageSize
  <2> TAKE p \in Nat
  <2>1. Addr(p) \in Nat /\ Addr(p + 1) = Addr(p) + PageSize
    BY AddrFacts
  <2> QED
    BY <2>1, <1>c
<1>u. ASSUME NEW p \in Nat
      PROVE  \A u : u \in Units(p) <=> u \in Nat /\ Addr(p) <= u /\ u < Addr(p + 1)
  <2>1. Units(p) = Addr(p) .. (Addr(p + 1) - 1)
    BY DEF Units, Addr
  <2>2. Addr(p) \in Nat /\ Addr(p + 1) \in Nat
    BY <1>a
  <2> QED
    BY <2>1, <2>2
<1>b. BlocksAre(h.mapped, B) /\ PiecesOf(h, B)
  BY DEF Tile
<1>1. ASSUME NEW u \in MemoryOf(h)
      PROVE  u \in Nat /\ \E t \in DOMAIN h.tags : t <= u /\ u < End(h, t)
  <2>1. PICK p \in h.mapped : u \in Units(p)
    BY DEF MemoryOf
  <2>2. p \in Nat /\ Addr(p) \in Nat /\ Addr(p + 1) \in Nat /\ u \in Nat
        /\ Addr(p) <= u /\ u < Addr(p + 1)
    <3>1. p \in Nat
      BY <1>m
    <3>2. Addr(p) \in Nat /\ Addr(p + 1) \in Nat
      BY <3>1, <1>a
    <3>3. u \in Nat /\ Addr(p) <= u /\ u < Addr(p + 1)
      BY <3>1, <2>1, <1>u
    <3> QED
      BY <3>1, <3>2, <3>3
  <2>3. PICK x \in B : x[1] <= Addr(p) /\ Addr(p + 1) <= x[2]
    BY <1>b, <2>1 DEF BlocksAre
  <2>4. x[1] \in Nat /\ x[2] \in Nat
    BY <1>b, BlockFacts
  <2>5. u \in x[1] .. (x[2] - 1)
    BY <2>2, <2>3, <2>4
  <2>6. \E t \in DOMAIN h.tags : t <= u /\ u < End(h, t)
    BY <1>b, <2>5 DEF PiecesOf
  <2> QED
    BY <2>2, <2>6
<1>2. ASSUME NEW u \in Nat, NEW t \in DOMAIN h.tags, t <= u, u < End(h, t)
      PROVE  u \in MemoryOf(h)
  <2>1. t \in Nat /\ End(h, t) \in Nat
    BY PieceFacts
  <2>2. PICK x \in B : x[1] <= t /\ End(h, t) <= x[2]
    BY <1>b DEF PiecesOf
  <2>3. PICK b \in Pages, n \in Nat :
              /\ n >= 1 /\ b \in Nat /\ b .. (b + n - 1) \subseteq h.mapped
              /\ x[1] = Addr(b) /\ x[2] = Addr(b + n)
              /\ x[1] \in Nat /\ x[2] \in Nat
    BY <1>b, BlockFacts
  <2>4. PICK p \in Nat : Addr(p) <= u /\ u < Addr(p + 1)
    BY AddrFacts
  <2>5. Addr(p) \in Nat /\ Addr(p + 1) \in Nat /\ Addr(p + 1) = Addr(p) + PageSize
        /\ Addr(b) <= u /\ u < Addr(b + n)
    <3>1. Addr(p) \in Nat /\ Addr(p + 1) \in Nat /\ Addr(p + 1) = Addr(p) + PageSize
      BY <2>4, <1>a
    <3>2. Addr(b) \in Nat /\ Addr(b + n) \in Nat /\ Addr(b) <= t /\ End(h, t) <= Addr(b + n)
      BY <2>2, <2>3
    <3>3. Addr(b) <= u /\ u < Addr(b + n)
      BY <3>2, <2>1, <1>2
    <3> QED
      BY <3>1, <3>3
  <2>6. ~ (p < b)
    <3> SUFFICES ASSUME p < b PROVE FALSE
      OBVIOUS
    <3>1. Addr(p) + PageSize <= Addr(b)
      BY AddrFacts, <2>3
    <3> QED
      BY <3>1, <2>3, <2>4, <2>5, <1>c
  <2>7. ~ (b + n <= p)
    <3> SUFFICES ASSUME b + n <= p PROVE FALSE
      OBVIOUS
    <3>1. b + n \in Nat
      BY <2>3
    <3>2. Addr(b + n) <= Addr(p)
      BY <3>1, AddrMonotone
    <3> QED
      BY <3>2, <2>3, <2>4, <2>5
  <2>8. p \in b .. (b + n - 1)
    BY <2>3, <2>6, <2>7
  <2>9. p \in h.mapped
    BY <2>3, <2>8
  <2>10. u \in Units(p)
    BY <1>u, <2>4
  <2> QED
    BY <2>9, <2>10 DEF MemoryOf
<1> QED
  BY <1>1, <1>2

\* H is the record of the four variables.
LEMMA HeapFields ==
    /\ H.tags = tags /\ H.free = freePages /\ H.complete = completePages /\ H.mapped = mapped
    /\ MemoryOf(H) = Memory
BY DEF H, MemoryOf, Memory

\* The invariant gives the types.
LEMMA TypesFollow ==
    ASSUME IInv
    PROVE  TypeOK
<1>f. /\ H.tags = tags /\ H.free = freePages /\ H.complete = completePages /\ H.mapped = mapped
      /\ MemoryOf(H) = Memory
  BY HeapFields
<1>b. PICK B : Shape(H, B)
  BY DEF IInv, HeapInv
<1>h. H \in Heaps /\ Tile(H, B) /\ Lists(H) /\ IsFiniteSet(DOMAIN tags)
  BY <1>b, <1>f DEF Shape
<1>v. /\ HeldAll(H, owned) /\ Counted(H) /\ LocalsOK
      /\ \A p \in DOMAIN owned : owned[p] \in Sizes
  BY DEF IInv, HeapInv
<1>s. \A t \in DOMAIN tags : /\ t \in Nat /\ End(H, t) \in Nat /\ t < End(H, t)
                             /\ tags[t].real_size \in Nat
                             /\ tags[t].real_size >= Hdr + tags[t].size
  BY <1>h, <1>f, PieceFacts
<1>1. DOMAIN tags \subseteq Memory
  BY <1>s, <1>h, <1>f, PiecesCover
<1>2. \A t \in DOMAIN tags : tags[t] \in Tag
  BY <1>h, <1>f, TagFields
<1>3. freePages \in [Classes -> {NULL} \cup DOMAIN tags]
  <2>1. freePages \in [Classes -> Nat]
    BY <1>h, <1>f, HeapsAre
  <2>2. \A i \in Classes : freePages[i] # NULL => freePages[i] \in DOMAIN tags
    BY <1>h, <1>f DEF Lists, ListHeads
  <2> QED
    BY <2>1, <2>2
<1>4. completePages \in [Classes -> 0 .. MaxComplete]
  <2>1. completePages \in [Classes -> Int]
    BY <1>h, <1>f, HeapsAre
  <2>2. ASSUME NEW i \in Classes
        PROVE  completePages[i] \in 0 .. MaxComplete
    <3>1. completePages[i] = Cardinality(Complete(H, i)) /\ completePages[i] <= MaxComplete
      BY <1>v, <1>f DEF Counted
    <3>2. Complete(H, i) \subseteq DOMAIN tags
      BY <1>f DEF Complete
    <3>3. Cardinality(Complete(H, i)) \in Nat
      BY <3>2, <1>h, FS_Subset, FS_CardinalityType
    <3> QED
      BY <3>1, <3>3, ConstantFacts
  <2> QED
    BY <2>1, <2>2
<1>5. mapped \subseteq Pages
  BY <1>h, <1>f, HeapsAre
<1>6. DOMAIN owned \subseteq Memory
  <2> SUFFICES ASSUME NEW p \in DOMAIN owned
               PROVE  p \in Memory
    OBVIOUS
  <2>1. /\ p \in Nat /\ p - Hdr \in DOMAIN tags /\ tags[p - Hdr].size = owned[p]
        /\ owned[p] \in Nat /\ owned[p] >= 1
    BY <1>b, <1>v, <1>f, HeldFacts, ConstantFacts
  <2>2. p - Hdr <= p /\ p < End(H, p - Hdr)
    BY <2>1, <1>s, <1>f, ConstantFacts DEF End
  <2> QED
    BY <2>1, <2>2, <1>h, <1>f, PiecesCover
<1>7. /\ pc \in [Callers -> {"out", "malloc", "copy"}]
      /\ old \in [Callers -> Addresses] /\ got \in [Callers -> Addresses]
      /\ want \in [Callers -> Nat] /\ keep \in [Callers -> Nat]
  BY <1>v DEF LocalsOK, Addresses
<1> QED
  BY <1>1, <1>2, <1>3, <1>4, <1>5, <1>6, <1>7, <1>v DEF TypeOK

\* The invariant gives the tiling.
LEMMA TilesFollow ==
    ASSUME IInv
    PROVE  Tiled
<1>f. H.tags = tags /\ MemoryOf(H) = Memory
  BY HeapFields
<1>b. PICK B : Shape(H, B)
  BY DEF IInv, HeapInv
<1>h. H \in Heaps /\ Tile(H, B)
  BY <1>b DEF Shape
<1>s. \A t \in DOMAIN tags : /\ t \in Nat /\ End(H, t) \in Nat /\ Hdr \in Nat
                             /\ tags[t].real_size \in Nat /\ tags[t].size \in Nat
                             /\ tags[t].real_size >= Hdr + tags[t].size
                             /\ End(H, t) = t + tags[t].real_size
  BY <1>h, <1>f, PieceFacts DEF End
<1>1. Memory = UNION {Extent(t) : t \in DOMAIN tags}
  <2>1. \A t \in DOMAIN tags : \A u : u \in Extent(t) <=> u \in Nat /\ t <= u /\ u < End(H, t)
    BY <1>s DEF Extent, Bytes
  <2>2. \A u : u \in Memory <=> u \in Nat /\ \E t \in DOMAIN tags : t <= u /\ u < End(H, t)
    BY <1>h, <1>f, PiecesCover
  <2>3. \A u : u \in Memory <=> \E t \in DOMAIN tags : u \in Extent(t)
    BY <2>1, <2>2
  <2> QED
    BY <2>3
<1>2. \A t, u \in DOMAIN tags : t < u => t + tags[t].real_size <= u
  BY <1>h, <1>f DEF Tile, Disjoint, End
<1>3. ASSUME NEW t \in DOMAIN tags
      PROVE  tags[t].real_size >= Hdr + (IF tags[t].index = -1 THEN tags[t].size ELSE 0)
  BY <1>s
<1>4. \A t \in DOMAIN tags :
        /\ tags[t].split_right # NULL =>
              /\ tags[t].split_right = t + tags[t].real_size
              /\ tags[tags[t].split_right].split_left = t
        /\ tags[t].split_left # NULL =>
              /\ tags[t].split_left \in DOMAIN tags
              /\ tags[tags[t].split_left].split_right = t
  BY <1>h, <1>f DEF Tile, Tied, End
<1> QED
  BY <1>1, <1>2, <1>3, <1>4 DEF Tiled

\* The invariant gives the lists.
LEMMA ListsFollow ==
    ASSUME IInv
    PROVE  FreeListsExact
<1>f. H.tags = tags /\ H.free = freePages
  BY HeapFields
<1>b. PICK B : Shape(H, B)
  BY DEF IInv, HeapInv
<1>h. H \in Heaps /\ Lists(H) /\ Classed(H) /\ IsFiniteSet(DOMAIN tags) /\ HeldAll(H, owned)
  BY <1>b, <1>f DEF Shape, IInv, HeapInv
<1>l. ListLinks(H) /\ ListHeads(H) /\ OneEnd(H)
  BY <1>h DEF Lists
<1>m. \A i : \A t : t \in Members(i) <=> t \in DOMAIN tags /\ tags[t].index = i
  BY DEF Members
<1>1. ASSUME NEW i \in Classes
      PROVE  /\ freePages[i] = NULL <=> Members(i) = {}
             /\ freePages[i] # NULL => freePages[i] \in Members(i)
                                       /\ tags[freePages[i]].prev = NULL
             /\ Cardinality({t \in Members(i) : tags[t].next = NULL}) <= 1
             /\ \A t \in Members(i) :
                   /\ i = Class(tags[t].real_size - Hdr)
                   /\ tags[t].next # NULL => tags[t].next \in Members(i)
                                             /\ tags[tags[t].next].prev = t
                   /\ tags[t].prev # NULL => tags[t].prev \in Members(i)
                                             /\ tags[tags[t].prev].next = t
  <2>i. i # -1
    BY ConstantFacts
  <2>1. freePages[i] # NULL => freePages[i] \in Members(i) /\ tags[freePages[i]].prev = NULL
    BY <1>l, <1>f, <1>m DEF ListHeads
  <2>2. freePages[i] = NULL => Members(i) = {}
    <3>1. freePages[i] = NULL => \A t \in DOMAIN tags : tags[t].index # i
      BY <1>h, <1>f, EmptyList
    <3> QED
      BY <3>1, <1>m
  <2>3. Cardinality({t \in Members(i) : tags[t].next = NULL}) <= 1
    <3> DEFINE E == {t \in Members(i) : tags[t].next = NULL}
    <3>1. \A t, u \in E : t = u
      BY <1>l, <1>f, <1>m, <2>i DEF OneEnd, InList
    <3>2. CASE E = {}
      <4>1. Cardinality(E) = 0
        BY <3>2, FS_EmptySet
      <4> QED
        BY <4>1
    <3>3. CASE E # {}
      <4>1. PICK t : t \in E
        BY <3>3
      <4>2. E = {t}
        BY <4>1, <3>1
      <4> HIDE DEF E
      <4>3. Cardinality(E) = 1
        BY <4>2, FS_Singleton
      <4> QED
        BY <4>3 DEF E
    <3> QED
      BY <3>2, <3>3
  <2>4. ASSUME NEW t \in Members(i)
        PROVE  /\ i = Class(tags[t].real_size - Hdr)
               /\ tags[t].next # NULL => tags[t].next \in Members(i)
                                         /\ tags[tags[t].next].prev = t
               /\ tags[t].prev # NULL => tags[t].prev \in Members(i)
                                         /\ tags[tags[t].prev].next = t
    <3>1. t \in DOMAIN tags /\ tags[t].index = i
      BY <1>m
    <3>2. i = Class(tags[t].real_size - Hdr)
      BY <3>1, <2>i, <1>h, <1>f DEF Classed, Usable
    <3>3. /\ tags[t].next # NULL => tags[t].next \in Members(i)
                                    /\ tags[tags[t].next].prev = t
          /\ tags[t].prev # NULL => tags[t].prev \in Members(i)
                                    /\ tags[tags[t].prev].next = t
      BY <3>1, <2>i, <1>l, <1>f, <1>m DEF ListLinks
    <3> QED
      BY <3>2, <3>3
  <2> QED
    BY <2>1, <2>2, <2>3, <2>4
<1>2. ASSUME NEW t \in Members(-1)
      PROVE  tags[t].next = NULL /\ tags[t].prev = NULL /\ t + Hdr \in DOMAIN owned
  <2>1. t \in DOMAIN tags /\ tags[t].index = -1
    BY <1>m
  <2>2. tags[t].next = NULL /\ tags[t].prev = NULL
    BY <2>1, <1>l, <1>f DEF ListLinks
  <2>3. t + Hdr \in DOMAIN owned
    BY <2>1, <1>b, <1>h, <1>f, HeldFacts
  <2> QED
    BY <2>2, <2>3
<1>3. ASSUME NEW p \in DOMAIN owned
      PROVE  p - Hdr \in Members(-1) /\ tags[p - Hdr].size = owned[p]
  BY <1>b, <1>h, <1>f, <1>m, HeldFacts
<1> QED
  BY <1>1, <1>2, <1>3 DEF FreeListsExact

\* The invariant gives the rest.
LEMMA RestFollows ==
    ASSUME IInv
    PROVE  Coalesced /\ CompletePagesExact /\ ReallocInside
<1>f. H.tags = tags /\ H.complete = completePages
  BY HeapFields
<1>b. PICK B : Shape(H, B)
  BY DEF IInv, HeapInv
<1>1. Coalesced
  BY <1>b, <1>f DEF Shape, Merged, Coalesced
<1>2. CompletePagesExact
  <2>1. \A i : {t \in Members(i) : Whole(H, t)} = Complete(H, i)
    BY <1>f DEF Members, Complete
  <2> QED
    BY <2>1, <1>f DEF CompletePagesExact, IInv, HeapInv, Counted
<1>3. ReallocInside
  BY DEF IInv, ReallocInv, ReallocInside
<1> QED
  BY <1>1, <1>2, <1>3

\* The variables of liballoc.cpp keep their types: every tag and every region
\* lies in memory the heap was given, and l_completePages stays within
\* MAXCOMPLETE.
THEOREM HeapTypeCorrect == Spec => []TypeOK
BY HeapInvariantHolds, TypesFollow, PTL

\* For any pages, sizes and callers, the pieces tile the memory the heap was
\* given and the split links join neighbours: what malloc splits and free melts
\* loses nothing and doubles nothing.
THEOREM PiecesTile == Spec => []Tiled
BY HeapInvariantHolds, TilesFollow, PTL

\* The free lists hold exactly the free tags, each in the class of its size and
\* linked both ways, and the tags in use are the regions callers hold.
THEOREM FreeListsStayExact == Spec => []FreeListsExact
BY HeapInvariantHolds, ListsFollow, PTL

\* After every call no two neighbours are free: free melts on both sides.
THEOREM FreeNeighboursMelt == Spec => []Coalesced
BY HeapInvariantHolds, RestFollows, PTL

\* l_completePages counts the whole free blocks of each class.
THEOREM CompleteBlocksCounted == Spec => []CompletePagesExact
BY HeapInvariantHolds, RestFollows, PTL

\* When realloc copies, what it copies fits the old region and the new one,
\* though it let go of the lock in between.
THEOREM CopyStaysInside == Spec => []ReallocInside
BY HeapInvariantHolds, RestFollows, PTL
------------------------------------------------------------------------------
(* The refinement.                                                          *)

\* Regions that are handed out lie in the memory the heap may have, none at
\* NULL, and each before or after every other.
LEMMA RegionsApart ==
    ASSUME NEW h, NEW B, Shape(h, B), NEW o, HeldAll(h, o), \A p \in DOMAIN o : o[p] \in Sizes
    PROVE  /\ \A p \in DOMAIN o : /\ p \in AllMemory /\ p # 0
                                  /\ p .. (p + o[p] - 1) \subseteq AllMemory
           /\ \A p, q \in DOMAIN o : p # q => Abstract!Apart(p, o[p], q, o[q])
<1>h. h \in Heaps /\ Tile(h, B)
  BY DEF Shape
<1>c. Hdr \in Nat /\ Hdr >= 1
  BY ConstantFacts
<1>m. MemoryOf(h) \subseteq AllMemory
  <2>1. h.mapped \subseteq Pages
    BY <1>h, HeapsAre
  <2> QED
    BY <2>1 DEF MemoryOf, AllMemory
<1>s. \A t \in DOMAIN h.tags : /\ t \in Nat /\ End(h, t) \in Nat
                               /\ h.tags[t].real_size \in Nat /\ h.tags[t].size \in Nat
                               /\ h.tags[t].real_size >= Hdr + h.tags[t].size
                               /\ End(h, t) = t + h.tags[t].real_size
  BY <1>h, PieceFacts DEF End
<1>1. ASSUME NEW p \in DOMAIN o
      PROVE  /\ p \in Nat /\ p # 0 /\ o[p] \in Nat /\ o[p] >= 1
             /\ p - Hdr \in DOMAIN h.tags
             /\ p + o[p] <= End(h, p - Hdr)
  <2>1. /\ p \in Nat /\ p # NULL /\ p - Hdr \in DOMAIN h.tags /\ h.tags[p - Hdr].size = o[p]
    BY HeldFacts
  <2>2. o[p] \in Nat /\ o[p] # 0
    <3>1. o[p] \in Sizes /\ Sizes \subseteq Nat \ {0}
      BY ConstantFacts
    <3> QED
      BY <3>1
  <2>3. p + o[p] <= End(h, p - Hdr)
    BY <2>1, <2>2, <1>s, <1>c
  <2> QED
    BY <2>1, <2>2, <2>3 DEF NULL
<1>2. ASSUME NEW p \in DOMAIN o
      PROVE  p .. (p + o[p] - 1) \subseteq AllMemory
  <2> SUFFICES ASSUME NEW u \in p .. (p + o[p] - 1)
               PROVE  u \in MemoryOf(h)
    BY <1>m
  <2>1. /\ p \in Nat /\ o[p] \in Nat /\ p - Hdr \in DOMAIN h.tags
        /\ p + o[p] <= End(h, p - Hdr)
    BY <1>1
  <2>2. u \in Nat /\ p - Hdr <= u /\ u < End(h, p - Hdr)
    BY <2>1, <1>c, <1>s
  <2> QED
    BY <2>1, <2>2, <1>h, PiecesCover
<1>3. ASSUME NEW p \in DOMAIN o
      PROVE  p \in AllMemory
  <2>1. p \in p .. (p + o[p] - 1)
    BY <1>1
  <2> QED
    BY <2>1, <1>2
<1>4. ASSUME NEW p \in DOMAIN o, NEW q \in DOMAIN o, p # q
      PROVE  p + o[p] <= q \/ q + o[q] <= p
  <2>1. /\ p \in Nat /\ q \in Nat /\ o[p] \in Nat /\ o[q] \in Nat
        /\ p - Hdr \in DOMAIN h.tags /\ q - Hdr \in DOMAIN h.tags
        /\ p + o[p] <= End(h, p - Hdr)
        /\ q + o[q] <= End(h, q - Hdr)
    BY <1>1
  <2>d. \A t, u \in DOMAIN h.tags : t < u => End(h, t) <= u
    BY <1>h DEF Tile, Disjoint
  <2>e. End(h, p - Hdr) \in Nat /\ End(h, q - Hdr) \in Nat
    BY <2>1, <1>s
  <2>2. CASE p < q
    <3>1. p - Hdr < q - Hdr
      BY <2>2, <2>1, <1>c
    <3>2. End(h, p - Hdr) <= q - Hdr
      BY <3>1, <2>1, <2>d
    <3> QED
      BY <3>2, <2>1, <2>e, <1>c
  <2>3. CASE q < p
    <3>1. q - Hdr < p - Hdr
      BY <2>3, <2>1, <1>c
    <3>2. End(h, q - Hdr) <= p - Hdr
      BY <3>1, <2>1, <2>d
    <3> QED
      BY <3>2, <2>1, <2>e, <1>c
  <2> QED
    BY <2>1, <2>2, <2>3, <1>4
<1> QED
  BY <1>1, <1>2, <1>3, <1>4 DEF Abstract!Apart

\* A step that calls malloc hands out one region, or none.
LEMMA MallocHands ==
    ASSUME IInv, IInv', NEW size \in Sizes, NEW r \in malloc(H, size), Put(r.h),
           owned' = IF r.ptr = NULL THEN owned ELSE Handed(r.ptr, size)
    PROVE  Abstract!Next \/ UNCHANGED owned
<1>1. CASE r.ptr = NULL
  BY <1>1
<1>2. CASE r.ptr # NULL
  <2>1. /\ r.ptr \notin DOMAIN owned
        /\ r.ptr \in DOMAIN owned' /\ owned'[r.ptr] = size
        /\ \A q \in DOMAIN owned : q \in DOMAIN owned' /\ owned'[q] = owned[q]
    BY <1>2, MallocStep DEF IInv
  <2>2. owned' = [q \in DOMAIN owned \cup {r.ptr} |-> IF q = r.ptr THEN size ELSE owned[q]]
    BY <1>2 DEF Handed
  <2>3. /\ \A p \in DOMAIN owned' : /\ p \in AllMemory /\ p # 0
                                    /\ p .. (p + owned'[p] - 1) \subseteq AllMemory
        /\ \A p, q \in DOMAIN owned' : p # q => Abstract!Apart(p, owned'[p], q, owned'[q])
    <3>1. PICK B : Shape(H', B)
      BY DEF IInv, HeapInv
    <3>2. HeldAll(H', owned') /\ \A p \in DOMAIN owned' : owned'[p] \in Sizes
      BY DEF IInv, HeapInv
    <3> QED
      BY <3>1, <3>2, RegionsApart
  <2>4. \A q \in DOMAIN owned : Abstract!Apart(r.ptr, size, q, owned[q])
    BY <2>1, <2>3
  <2>5. r.ptr .. (r.ptr + size - 1) \subseteq AllMemory /\ r.ptr \in AllMemory /\ r.ptr # 0
    BY <2>1, <2>3
  <2>6. Abstract!Hand(r.ptr, size)
    BY <2>1, <2>2, <2>4, <2>5 DEF Abstract!Hand
  <2> QED
    BY <2>5, <2>6 DEF Abstract!Next
<1> QED
  BY <1>1, <1>2

\* A step that calls free gives one region back.
LEMMA FreeReturns ==
    ASSUME IInv, NEW p \in DOMAIN owned, owned' = Without(p)
    PROVE  Abstract!Next
<1>1. p \in AllMemory
  <2>1. PICK B : Shape(H, B)
    BY DEF IInv, HeapInv
  <2>2. HeldAll(H, owned) /\ \A q \in DOMAIN owned : owned[q] \in Sizes
    BY DEF IInv, HeapInv
  <2> QED
    BY <2>1, <2>2, RegionsApart
<1>2. Abstract!Return(p)
  BY DEF Abstract!Return, Without
<1> QED
  BY <1>1, <1>2 DEF Abstract!Next

\* The heap implements Regions: whatever calls interleave, regions that callers
\* hold are disjoint parts of the memory, none at NULL.
THEOREM HeapImplementsRegions == Spec => ImplementsRegions
<1>1. Init => Abstract!Init
  BY DEF Init, Abstract!Init
<1>2. IInv /\ IInv' /\ [Next]_vars => [Abstract!Next]_owned
  <2> SUFFICES ASSUME IInv, IInv', [Next]_vars
               PROVE  Abstract!Next \/ UNCHANGED owned
    OBVIOUS
  <2>1. ASSUME NEW size \in Sizes, Malloc(size)
        PROVE  Abstract!Next \/ UNCHANGED owned
    BY <2>1, MallocHands DEF Malloc
  <2>2. ASSUME NEW p \in DOMAIN owned, Free(p)
        PROVE  Abstract!Next
    BY <2>2, FreeReturns DEF Free
  <2>3. ASSUME NEW c \in Callers, NEW p \in DOMAIN owned, NEW size \in Sizes,
               Realloc(c, p, size)
        PROVE  UNCHANGED owned
    BY <2>3 DEF Realloc
  <2>4. ASSUME NEW c \in Callers, ReallocMalloc(c)
        PROVE  Abstract!Next \/ UNCHANGED owned
    <3>1. pc[c] = "malloc"
      BY <2>4 DEF ReallocMalloc
    <3>2. want[c] \in Sizes
      BY <3>1 DEF IInv, ReallocInv
    <3> QED
      BY <2>4, <3>2, MallocHands DEF ReallocMalloc
  <2>5. ASSUME NEW c \in Callers, ReallocFree(c)
        PROVE  Abstract!Next
    <3>1. pc[c] = "copy"
      BY <2>5 DEF ReallocFree
    <3>2. old[c] \in DOMAIN owned
      BY <3>1 DEF IInv, ReallocInv
    <3> QED
      BY <2>5, <3>2, FreeReturns DEF ReallocFree
  <2>6. CASE UNCHANGED vars
    BY <2>6 DEF vars
  <2> QED
    BY <2>1, <2>2, <2>3, <2>4, <2>5, <2>6 DEF Next
<1> QED
  BY <1>1, <1>2, HeapInvariantHolds, PTL DEF Spec, ImplementsRegions, Abstract!Spec
==============================================================================
