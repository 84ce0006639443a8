------------------------------ MODULE MCBTree ------------------------------
(***************************************************************************)
(* An instance of BTree for TLC, with pages of one or two keys and of two  *)
(* to five separators, and the properties of the tree.                     *)
(***************************************************************************)
EXTENDS BTree


CONSTANT Keys  \* how many keys there are
Numbers == 1..Keys

Contents == UNION {ToSet(tree.d[q]) : q \in DOMAIN tree.d}

\* Whatever the shape of the tree, a Set adds its key and nothing else, a
\* Delete takes its key away and nothing else; the splits, moves and joins of
\* pages on the way down, and of index pages above them, change no contents.
Abstract == INSTANCE SortedSet WITH
  set <- Contents,
  request <- IF call = Idle THEN Idle ELSE [op |-> call.op, key |-> call.key]

ImplementsSet == Abstract!Spec

\* The data pages under a pointer, from left to right.
Pointers == {tree.r} \union UNION {ToSet(tree.x[n].ch) : n \in DOMAIN tree.x}
Leaves ==
  LET under[q \in Pointers] ==
        IF q = Nil THEN <<>>
        ELSE IF q.at = "d" THEN <<q.no>>
        ELSE LET ch == tree.x[q.no].ch
             IN  FlattenSeq([i \in DOMAIN ch |-> under[ch[i]]])
  IN  under

Depths ==
  LET depths[q \in Pointers] ==
        IF q = Nil \/ q.at = "d" THEN {0}
        ELSE {n + 1 : n \in UNION {depths[ch] : ch \in ToSet(tree.x[q.no].ch)}}
  IN  depths[tree.r]

\* The data pages under the root are the linked list of them, each once and in
\* its order, and a separator points at the leftmost data page under the child
\* after it: else overflow would insert at index -1, a sibling would be joined
\* across a gap, and a search would go left of its key.
ChainIsLeaves ==
  /\ Leaves[tree.r] = [q \in DOMAIN tree.d |-> q]
  /\ \A n \in DOMAIN tree.x :
       \A i \in DOMAIN tree.x[n].sep :
         tree.x[n].sep[i] = Head(Leaves[tree.x[n].ch[i + 1]])

\* Every data page is as deep as every other, none but the root is less than
\* half full, and none overflows its array.
Balanced ==
  /\ Cardinality(Depths) = 1
  /\ \A q \in DOMAIN tree.d :
       /\ Len(tree.d[q]) <= 2 * kd
       /\ Len(tree.d[q]) >= kd \/ tree.r = Data(q)
  /\ \A n \in DOMAIN tree.x :
       /\ Len(tree.x[n].sep) <= 2 * kx + 1
       /\ Len(tree.x[n].sep) >= IF tree.r = Index(n) THEN 1 ELSE kx - 1

\* Between calls the pages hang together as the index arithmetic of overflow,
\* underflow and cat takes for granted, whatever was inserted and deleted.
WellFormed == call = Idle => ChainIsLeaves /\ Balanced

\* Contains says yes of the members and of nothing else, Len counts them, and
\* AllData lists each once and in order.
SeekFindsMembers ==
  call = Idle =>
    /\ \A k \in Key : SeekOk(tree, k) <=> k \in Contents
    /\ tree.c = Cardinality(Contents)
    /\ ToSet(AllData(tree)) = Contents
    /\ \A i, j \in DOMAIN AllData(tree) :
         i < j => AllData(tree)[i] < AllData(tree)[j]
=============================================================================
