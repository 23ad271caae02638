-------------------------------- MODULE Heap --------------------------------
(***************************************************************************)
(* The kernel heap (ChaiOS/liballoc.cpp).  A block of pages from the       *)
(* virtual memory manager is cut into pieces, each headed by a             *)
(* boundary_tag.  split_left and split_right link the pieces of a block in *)
(* the order of their addresses; next and prev link the free pieces of one *)
(* size class.  free melts a piece into free neighbours, keeps at most     *)
(* MaxComplete whole free blocks of a class and gives the others back.     *)
(*                                                                         *)
(* malloc and free hold lalloc_lock from beginning to end (Spinlock shows  *)
(* that nobody else is inside then), so each is one step.  realloc is not: *)
(* it reads a tag under the lock, calls malloc, copies and calls free.     *)
(*                                                                         *)
(* Addresses and sizes count a unit that one tag fills Hdr times.          *)
(***************************************************************************)
EXTENDS Integers, FiniteSets

CONSTANTS Callers,      \* threads inside realloc
          Hdr,          \* sizeof(struct boundary_tag)
          MinExp,       \* MINEXP: the smallest class is 2^MinExp
          MaxExp,       \* MAXEXP: the number of classes
          MaxComplete,  \* MAXCOMPLETE
          PageSize,     \* l_pageSize
          PageCount,    \* l_pageCount: the fewest pages of a block
          Pages,        \* the kernel's pages, by number; page 0 is not one
          Sizes,        \* the sizes callers ask for
          MaxRegions    \* bound: regions handed out at a time

\* No sum of sizes reaches 2^32: the sizes callers ask for are small.
ASSUME HeapSizesOK ==
    /\ Hdr \in Nat \ {0} /\ PageSize \in Nat \ {0} /\ PageCount \in Nat \ {0}
    /\ MinExp \in Nat /\ MaxExp \in Nat /\ MinExp < MaxExp
    /\ MaxComplete \in Nat
    /\ Pages \subseteq Nat \ {0}
    /\ Sizes \subseteq Nat \ {0}
    /\ \A s \in Sizes : s + 2 * Hdr + PageCount * PageSize < 2 ^ MaxExp

VARIABLES
    tags,           \* the tags there are: from address to boundary_tag
    freePages,      \* l_freePages: the first free tag of each class
    completePages,  \* l_completePages
    mapped,         \* the pages the virtual memory manager has given
    owned,          \* what callers hold: from pointer to the size asked for
    pc, old, want, keep, got    \* the locals of realloc

heapvars == <<tags, freePages, completePages, mapped>>
locals   == <<pc, old, want, keep, got>>
vars     == <<heapvars, owned, locals>>

NULL    == 0
Classes == MinExp .. (MaxExp - 1)

Units(p)  == (p * PageSize) .. ((p + 1) * PageSize - 1)
Bytes(a, s) == a .. (a + s - 1)
Memory    == UNION {Units(p) : p \in mapped}

\* Pointers a realloc in progress still uses; nobody else may free them.
InUse == UNION {{old[c], got[c]} : c \in Callers}

Init ==
    /\ tags = [t \in {} |-> NULL]
    /\ freePages = [i \in Classes |-> NULL]
    /\ completePages = [i \in Classes |-> 0]
    /\ mapped = {}
    /\ owned = [p \in {} |-> 0]
    /\ pc = [c \in Callers |-> "out"]
    /\ old = [c \in Callers |-> NULL]  /\ want = [c \in Callers |-> 0]
    /\ keep = [c \in Callers |-> 0]    /\ got = [c \in Callers |-> NULL]
------------------------------------------------------------------------------
(* The helpers of liballoc.cpp take and give a heap h, a record of the four *)
(* variables of the code.                                                   *)

H == [tags |-> tags, free |-> freePages, complete |-> completePages,
      mapped |-> mapped]

Put(h) == /\ tags' = h.tags
          /\ freePages' = h.free
          /\ completePages' = h.complete
          /\ mapped' = h.mapped

\* step applied to x as long as more(x), at most k times.
Repeat(more(_), step(_), x, k) ==
    LET f[i \in 0 .. k] ==
            IF i = 0 THEN x
            ELSE LET y == f[i - 1] IN IF more(y) THEN step(y) ELSE y
    IN  f[k]

\* -1 for less than the quantum, else n with 2^n <= size < 2^(n+1).
getexp(size) ==
    IF size < 2 ^ MinExp THEN -1
    ELSE CHOOSE e \in Classes : ~ (size < 2 ^ e) /\ (size < 2 ^ (e + 1) \/ e = MaxExp - 1)

\* The class after "if (index < MINEXP) index = MINEXP".
Class(size) == IF getexp(size) < MinExp THEN MinExp ELSE getexp(size)

Usable(h, t) == h.tags[t].real_size - Hdr

\* No neighbour on either side: the tag is the whole of its block.
Whole(h, t) == h.tags[t].split_left = NULL /\ h.tags[t].split_right = NULL

\* Mutant of insert_tag: the old first tag does not learn of the new one.
insert_tag_oneway(h, t, index) ==
    LET i == IF index < 0 THEN Class(Usable(h, t)) ELSE index
    IN  [h EXCEPT !.tags[t].index = i, !.tags[t].next = h.free[i], !.free[i] = t]

\* At the head of its class.  next is stored only when the list is not empty:
\* it must be NULL already when it is.
insert_tag(h, t, index) ==
    LET i == IF index < 0 THEN Class(Usable(h, t)) ELSE index
        first == h.free[i]
    IN  IF first = NULL
        THEN [h EXCEPT !.tags[t].index = i, !.free[i] = t]
        ELSE [h EXCEPT !.tags[t].index = i, !.tags[first].prev = t,
                       !.tags[t].next = first, !.free[i] = t]

remove_tag(h, t) ==
    LET tag == h.tags[t]
    IN  [h EXCEPT
            !.free[tag.index] = IF @ = t THEN tag.next ELSE @,
            !.tags = [u \in DOMAIN @ |->
                CASE u = t        -> [tag EXCEPT !.next = NULL, !.prev = NULL,
                                                 !.index = -1]
                  [] u = tag.prev -> [@[u] EXCEPT !.next = tag.next]
                  [] u = tag.next -> [@[u] EXCEPT !.prev = tag.prev]
                  [] OTHER        -> @[u]]]

\* Tag l takes in the piece of its right neighbour r, whose tag is no more.
Join(h, l, r) ==
    LET beyond == h.tags[r].split_right
        size == h.tags[l].real_size + h.tags[r].real_size
    IN  [h EXCEPT !.tags = [u \in DOMAIN @ \ {r} |->
            CASE u = l      -> [@[u] EXCEPT !.real_size = size, !.split_right = beyond]
              [] u = beyond -> [@[u] EXCEPT !.split_left = l]
              [] OTHER      -> @[u]]]

\* Mutant of melt_left: the piece beyond keeps pointing at the melted tag.
melt_left_forgets(h, t) ==
    LET l == h.tags[t].split_left
        r == h.tags[t].split_right
    IN  [h |-> IF r = NULL THEN Join(h, l, t)
               ELSE [Join(h, l, t) EXCEPT !.tags[r].split_left = t],
         tag |-> l]

melt_left(h, t) ==
    LET l == h.tags[t].split_left IN [h |-> Join(h, l, t), tag |-> l]

absorb_right(h, t) ==
    LET r == h.tags[t].split_right IN Join(remove_tag(h, r), t, r)

\* Cut t at address new: what lies from there on becomes a tag of its own, in
\* no list.  (Its size is not set by the code and not read before malloc sets
\* it; it is 0 here.)
Halved(h, t, new) ==
    LET tag == h.tags[t]
        right == tag.split_right
    IN  [h EXCEPT !.tags = [u \in DOMAIN @ \cup {new} |->
             CASE u = new -> [real_size |-> tag.real_size - Hdr - tag.size,
                              size |-> 0, index |-> -1, next |-> NULL, prev |-> NULL,
                              split_left |-> t, split_right |-> right]
               [] u = t -> [tag EXCEPT !.split_right = new,
                                       !.real_size = Hdr + tag.size]
               [] u = right -> [@[u] EXCEPT !.split_left = new]
               [] OTHER -> @[u]]]

SplitAt(h, t, new) == insert_tag(Halved(h, t, new), new, -1)

\* Mutant of split_tag: the new tag comes after as much as it has itself.
split_tag_swapped(h, t) ==
    SplitAt(h, t, t + h.tags[t].real_size - Hdr - h.tags[t].size)

split_tag(h, t) == SplitAt(h, t, t + Hdr + h.tags[t].size)

Larger(a, b) == IF a > b THEN a ELSE b

PagesFor(units) ==
    Larger((units + PageSize - 1) \div PageSize, PageCount)

\* liballoc_alloc: the virtual memory manager gives any pages that follow one
\* another, or none.
Blocks(h, n) ==
    {b \in Pages : b .. (b + n - 1) \subseteq Pages \ h.mapped}

\* allocate_new_tag, the block starting at page b.
allocate_new_tag(h, size, b) ==
    LET n == PagesFor(size + Hdr)
        t == b * PageSize
    IN  [h EXCEPT !.mapped = @ \cup (b .. (b + n - 1)),
                  !.tags = [u \in DOMAIN @ \cup {t} |->
                    IF u = t THEN [real_size |-> n * PageSize, size |-> size,
                                   index |-> -1, next |-> NULL, prev |-> NULL,
                                   split_left |-> NULL, split_right |-> NULL]
                             ELSE @[u]]]

\* liballoc_free.
GiveBack(h, t) ==
    LET n == PagesFor(h.tags[t].real_size)
        b == t \div PageSize
    IN  [h EXCEPT !.mapped = @ \ (b .. (b + n - 1)),
                  !.tags = [u \in DOMAIN @ \ {t} |-> @[u]]]
------------------------------------------------------------------------------
\* The first tag of the list of its class that has room for size and a tag.
\* No other class is searched (MODE_BEST).
Found(h, size) ==
    LET TooSmall(t) == t # NULL /\ Usable(h, t) < size + Hdr
        Next(t)     == h.tags[t].next
    IN  Repeat(TooSmall, Next, h.free[Class(size)], Cardinality(DOMAIN h.tags))

\* Mutant of Reuse: a block taken whole is still counted.
ReuseUncounted(h, t, size) == remove_tag(h, t)

\* Mutant of Reuse: every tag taken is counted.
ReuseCountsAll(h, t, size) ==
    [remove_tag(h, t) EXCEPT !.complete[Class(size)] = @ - 1]

Reuse(h, t, size) ==
    LET taken == remove_tag(h, t)
    IN  IF Whole(h, t)
        THEN [taken EXCEPT !.complete[Class(size)] = @ - 1]
        ELSE taken

\* Mutant of Cut: the tag of a reused piece keeps its old size.
CutKeepsSize(h, t, size) ==
    LET keeps == IF h.tags[t].size = 0 THEN [h EXCEPT !.tags[t].size = size] ELSE h
        spare == keeps.tags[t].real_size - size - 2 * Hdr
    IN  IF spare > 0 /\ getexp(spare) >= 0 THEN split_tag(keeps, t) ELSE keeps

\* The end of malloc: note the size and split off what is worth a class.
Cut(h, t, size) ==
    LET sized == [h EXCEPT !.tags[t].size = size]
        spare == sized.tags[t].real_size - size - 2 * Hdr
    IN  IF spare > 0 /\ getexp(spare) >= 0 THEN split_tag(sized, t) ELSE sized

\* malloc(size): the heaps and pointers it may end with.
malloc(h, size) ==
    LET t == Found(h, size)
        n == PagesFor(size + Hdr)
    IN  IF t # NULL
        THEN {[h |-> Cut(Reuse(h, t, size), t, size), ptr |-> t + Hdr]}
        ELSE {[h |-> h, ptr |-> NULL]} \cup
             {[h |-> Cut(allocate_new_tag(h, size, b), b * PageSize, size),
               ptr |-> b * PageSize + Hdr] : b \in Blocks(h, n)}

\* Melt a tag being freed into its left neighbours ...
MeltLeft(h, t) ==
    LET LeftIsFree(x) == LET l == x.h.tags[x.tag].split_left
                         IN  l # NULL /\ x.h.tags[l].index >= 0
        Melt(x) == LET m == melt_left(x.h, x.tag)
                   IN  [m EXCEPT !.h = remove_tag(m.h, m.tag)]
    IN  Repeat(LeftIsFree, Melt, [h |-> h, tag |-> t], Cardinality(DOMAIN h.tags))

\* Mutant of MeltRight: leave the right neighbour alone.
MeltRightNever(h, t) == h

\* ... and its right neighbours into it.
MeltRight(h, t) ==
    LET RightIsFree(g) == LET r == g.tags[t].split_right
                          IN  r # NULL /\ g.tags[r].index >= 0
        Absorb(g) == absorb_right(g, t)
    IN  Repeat(RightIsFree, Absorb, h, Cardinality(DOMAIN h.tags))

\* free(ptr), ptr the address of a region that is handed out: its tag has the
\* magic number.
free(h, ptr) ==
    LET left == MeltLeft(h, ptr - Hdr)
        t == left.tag
        g == MeltRight(left.h, t)
        index == Class(Usable(g, t))
    IN  IF ~Whole(g, t)
        THEN insert_tag(g, t, index)
        ELSE IF g.complete[index] = MaxComplete
             THEN GiveBack(g, t)
             ELSE insert_tag([g EXCEPT !.complete[index] = @ + 1], t, index)
------------------------------------------------------------------------------
Handed(p, size) == [q \in DOMAIN owned \cup {p} |-> IF q = p THEN size ELSE owned[q]]
Without(p)      == [q \in DOMAIN owned \ {p} |-> owned[q]]

RoomForMore == Cardinality(DOMAIN owned) < MaxRegions

\* A thread calls malloc; calloc(nobj, size) is malloc(nobj * size) and a fill
\* of the region, or of the memory at NULL.
Malloc(size) ==
    /\ RoomForMore
    /\ \E r \in malloc(H, size) :
           /\ Put(r.h)
           /\ owned' = IF r.ptr = NULL THEN owned ELSE Handed(r.ptr, size)
    /\ UNCHANGED locals

\* A thread calls free(p), or realloc(p, 0).  Pointers come from malloc.
Free(p) ==
    /\ p \in DOMAIN owned \ InUse
    /\ Put(free(H, p))
    /\ owned' = Without(p)
    /\ UNCHANGED locals

\* realloc(p, size): read the size of the old region under the lock.
Realloc(c, p, size) ==
    /\ pc[c] = "out" /\ p \in DOMAIN owned \ InUse
    /\ RoomForMore
    /\ LET real_size == tags[p - Hdr].size
       IN  keep' = [keep EXCEPT ![c] = IF real_size > size THEN size ELSE real_size]
    /\ old' = [old EXCEPT ![c] = p]
    /\ want' = [want EXCEPT ![c] = size]
    /\ pc' = [pc EXCEPT ![c] = "malloc"]
    /\ UNCHANGED <<heapvars, owned, got>>

ReallocMalloc(c) ==
    /\ pc[c] = "malloc"
    /\ \E r \in malloc(H, want[c]) :
           /\ Put(r.h)
           /\ owned' = IF r.ptr = NULL THEN owned ELSE Handed(r.ptr, want[c])
           /\ got' = [got EXCEPT ![c] = r.ptr]
    /\ pc' = [pc EXCEPT ![c] = "copy"]
    /\ UNCHANGED <<old, want, keep>>

\* Copy keep units to got, NULL or not, and free the old region.
ReallocFree(c) ==
    /\ pc[c] = "copy"
    /\ Put(free(H, old[c]))
    /\ owned' = Without(old[c])
    /\ pc' = [pc EXCEPT ![c] = "out"]
    /\ old' = [old EXCEPT ![c] = NULL]  /\ want' = [want EXCEPT ![c] = 0]
    /\ keep' = [keep EXCEPT ![c] = 0]   /\ got' = [got EXCEPT ![c] = NULL]

Next ==
    \/ \E size \in Sizes : Malloc(size)
    \/ \E p \in DOMAIN owned : Free(p)
    \/ \E c \in Callers, p \in DOMAIN owned, size \in Sizes : Realloc(c, p, size)
    \/ \E c \in Callers : ReallocMalloc(c) \/ ReallocFree(c)

Spec == Init /\ [][Next]_vars
------------------------------------------------------------------------------
Addresses == Nat
Tag == [real_size : Nat, size : Nat, index : {-1} \cup Classes,
        next : Addresses, prev : Addresses,
        split_left : Addresses, split_right : Addresses]

TypeOK ==
    /\ DOMAIN tags \subseteq Memory
    /\ \A t \in DOMAIN tags : tags[t] \in Tag
    /\ freePages \in [Classes -> {NULL} \cup DOMAIN tags]
    /\ completePages \in [Classes -> 0 .. MaxComplete]
    /\ mapped \subseteq Pages
    /\ DOMAIN owned \subseteq Memory /\ \A p \in DOMAIN owned : owned[p] \in Sizes
    /\ pc \in [Callers -> {"out", "malloc", "copy"}]
    /\ old \in [Callers -> Addresses] /\ got \in [Callers -> Addresses]
    /\ want \in [Callers -> Nat] /\ keep \in [Callers -> Nat]

Extent(t) == Bytes(t, tags[t].real_size)

\* The pieces tile the memory the heap was given: every unit of it is in one
\* piece, the links of a tag lead to the tags at its own two ends, and those
\* lead back.  split_tag, melt_left and absorb_right each have to mend four
\* fields of up to three tags.
Tiled ==
    /\ Memory = UNION {Extent(t) : t \in DOMAIN tags}
    /\ \A t, u \in DOMAIN tags : t < u => t + tags[t].real_size <= u
    /\ \A t \in DOMAIN tags :
          /\ tags[t].real_size >= Hdr + (IF tags[t].index = -1 THEN tags[t].size ELSE 0)
          /\ LET r == tags[t].split_right
             IN  r # NULL => r = t + tags[t].real_size /\ tags[r].split_left = t
          /\ LET l == tags[t].split_left
             IN  l # NULL => l \in DOMAIN tags /\ tags[l].split_right = t

Members(i) == {t \in DOMAIN tags : tags[t].index = i}

\* The free lists hold exactly the free tags, each in the class its size
\* belongs to, in one piece both ways, and a tag in use is a region somebody
\* holds, in no list, with no link left: insert_tag relies on that for next.
FreeListsExact ==
    /\ \A i \in Classes :
          /\ freePages[i] = NULL <=> Members(i) = {}
          /\ freePages[i] # NULL => freePages[i] \in Members(i)
                                    /\ tags[freePages[i]].prev = NULL
          /\ Cardinality({t \in Members(i) : tags[t].next = NULL}) <= 1
          /\ \A t \in Members(i) :
                /\ i = Class(tags[t].real_size - Hdr)
                /\ tags[t].next # NULL => tags[t].next \in Members(i)
                                          /\ tags[tags[t].next].prev = t
                /\ tags[t].prev # NULL => tags[t].prev \in Members(i)
                                          /\ tags[tags[t].prev].next = t
    /\ \A t \in Members(-1) :
          /\ tags[t].next = NULL /\ tags[t].prev = NULL
          /\ t + Hdr \in DOMAIN owned
    /\ \A p \in DOMAIN owned :
          p - Hdr \in Members(-1) /\ tags[p - Hdr].size = owned[p]

\* Two free pieces of a block are never neighbours: whatever the order of the
\* frees, a block whose regions are all back is in one piece again.
Coalesced ==
    \A t \in DOMAIN tags :
        tags[t].index # -1 /\ tags[t].split_right # NULL
            => tags[tags[t].split_right].index = -1

\* l_completePages counts the whole free blocks of each list, though malloc
\* counts down in the class it searched and free up in the class of the size
\* it put together.
CompletePagesExact ==
    \A i \in Classes :
        completePages[i] = Cardinality({t \in Members(i) : Whole(H, t)})

\* realloc copies inside both regions: the size it read from the tag, before
\* it let go of the lock, is still the size of the old region when it copies.
ReallocInside ==
    \A c \in Callers : pc[c] = "copy" =>
        /\ old[c] \in DOMAIN owned /\ keep[c] <= owned[old[c]]
        /\ got[c] # NULL => got[c] \in DOMAIN owned /\ keep[c] <= owned[got[c]]

\* The heap implements the abstract one: callers hold disjoint regions.
AllMemory == UNION {Units(p) : p \in Pages}
Abstract == INSTANCE Regions WITH regions <- owned, Memory <- AllMemory
ImplementsRegions == Abstract!Spec
==============================================================================
