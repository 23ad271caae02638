------------------------------ MODULE LinkedList ------------------------------
(***************************************************************************)
(* LinkedList<T> (kcstdlib/list.h), the doubly linked list the kernel      *)
(* keeps its threads in, down to the pointers.                             *)
(*                                                                         *)
(* A node is an address in Nodes; m[i] is the memory at i, read as a node. *)
(* removeAt and getNext follow pointers they never test.  Address 0 is     *)
(* therefore memory too: the i386 kernel keeps the first page mapped, so a *)
(* store through NULL lands in the interrupt vectors of the BIOS and a     *)
(* load through NULL reads them back.  What the BIOS left there is no node *)
(* of anybody's: Wild.                                                     *)
(*                                                                         *)
(* A deleted node keeps its contents until the heap hands the memory out   *)
(* again.                                                                  *)
(***************************************************************************)
EXTENDS Integers, Sequences, FiniteSets

CONSTANT Nodes          \* addresses of nodes: 1 .. N

NULL == 0
Wild == -1

ASSUME NodesOK == Nodes \subseteq Nat \ {NULL} /\ IsFiniteSet(Nodes)

LowMemory == [data |-> Wild, prev |-> Wild, next |-> Wild]

Node(v, p, x) == [data |-> v, prev |-> p, next |-> x]

Empty == [head |-> NULL, tail |-> NULL]

\* insertToTail(v), new having returned node i: the memory and the list after.
\* The stores come one after the other, for i may be the memory of a deleted
\* node that tail still points to.
InsertToTail(m, l, i, v) ==
    IF l.tail = NULL
    THEN [mem  |-> [m EXCEPT ![i] = Node(v, NULL, NULL)],
          list |-> [head |-> i, tail |-> i]]
    ELSE [mem  |-> [m EXCEPT ![i] = Node(v, NULL, NULL),
                             ![l.tail].next = i, ![i].prev = l.tail],
          list |-> [l EXCEPT !.tail = i]]

\* Mutant of InsertToHead: the wrong end.
InsertToHeadAtTail(m, l, i, v) == InsertToTail(m, l, i, v)

\* insertToHead(v), new having returned node i.
InsertToHead(m, l, i, v) ==
    IF l.head = NULL
    THEN [mem  |-> [m EXCEPT ![i] = Node(v, NULL, NULL)],
          list |-> [head |-> i, tail |-> i]]
    ELSE [mem  |-> [m EXCEPT ![i] = Node(v, NULL, l.head), ![l.head].prev = i],
          list |-> [l EXCEPT !.head = i]]

\* Mutant of RemoveAt: the neighbour behind is not told.
RemoveAtHalf(m, i) == [m EXCEPT ![m[i].prev].next = m[i].next]

\* removeAt(i): neither end of the list is treated apart, and head and tail
\* stay what they are.
RemoveAt(m, i) == [m EXCEPT ![m[i].prev].next = m[i].next,
                            ![m[i].next].prev = m[i].prev]

\* The addresses met from h on by following next, up to and with the first one
\* that is no node; one more than there are nodes when the list is a circle.
Walk(m, h) ==
    LET from[w \in Seq(Int)] ==
            IF w[Len(w)] \in Nodes /\ Len(w) <= Cardinality(Nodes)
            THEN from[Append(w, m[w[Len(w)]].next)]
            ELSE w
    IN  from[<<h>>]

\* findValue(v): the first node with v, NULL when the end comes first, Wild
\* when the walk runs into foreign memory or in a circle.
FindValue(m, l, v) ==
    LET Found[w \in Seq(Int)] ==
            IF \E k \in 1 .. Len(w) - 1 : m[w[k]].data = v
            THEN w[CHOOSE k \in 1 .. Len(w) - 1 :
                       m[w[k]].data = v /\ \A j \in 1 .. k - 1 : m[w[j]].data # v]
            ELSE IF w[Len(w)] = NULL THEN NULL ELSE Wild
    IN  Found[Walk(m, l.head)]

\* The values from head to tail, for a list that is in one piece.
Contents(m, l) ==
    LET Values[w \in Seq(Int)] == [k \in 1 .. Len(w) - 1 |-> m[w[k]].data]
    IN  Values[Walk(m, l.head)]

NodesOf(m, l) == LET w == Walk(m, l.head) IN {w[k] : k \in DOMAIN w} \cap Nodes

\* A list in one piece: it ends, and its prev pointers and tail say the same
\* as its next pointers and head.
InOnePiece(m, l) ==
    LET w == Walk(m, l.head)
        Before(k) == IF k = 1 THEN NULL ELSE w[k - 1]
    IN  /\ w[Len(w)] = NULL
        /\ \A k \in 1 .. Len(w) - 1 : m[w[k]].prev = Before(k)
        /\ l.tail = Before(Len(w))
==============================================================================
