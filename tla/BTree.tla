------------------------------- MODULE BTree -------------------------------
(***************************************************************************)
(* The B+tree behind every sortedSet (internal/string_set/btree.go).       *)
(*                                                                         *)
(* A data page is a sequence of keys.  The n links of the pages are        *)
(* modelled by the order of the pages in tree.d, and a pointer to a page   *)
(* by its place there; a page that is linked in or out renumbers the       *)
(* pointers behind it.  A separator is the data page it points at, and its *)
(* key is that page's first, as in the code.  Indexes are the code's,      *)
(* counted from 0.  An index out of range is an error of the model checker *)
(* where the code would panic.                                             *)
(*                                                                         *)
(* Each loop iteration of Set and Delete is a step.  The p links, Put,     *)
(* Prev, First, Last and SeekLast are left out: the program uses none of   *)
(* them, and it never changes a tree that it enumerates, so an Enumerator  *)
(* never has to resynchronise.                                             *)
(***************************************************************************)
EXTENDS Integers, Sequences, SequencesExt

CONSTANTS
  Key,  \* keys, numbered in the order of the tree's cmp
  kd,   \* half the keys of a full data page, 64 in the code
  kx    \* half the separators of a full index page, 128 in the code

ASSUME BTreeAssumption ==
  /\ Key \subseteq Int
  /\ kd \in Nat \ {0}
  /\ kx \in Nat \ {0, 1}

VARIABLES
  tree,  \* the Tree: c, r and the pages r reaches
  call   \* the Set or Delete under way, with its locals, or Idle

vars == <<tree, call>>

Nil == [at |-> "nil"]
Data(n) == [at |-> "d", no |-> n]   \* a pointer to the data page at place n
Index(n) == [at |-> "x", no |-> n]  \* a pointer to index page n
Idle == [op |-> "none"]

Empty == [c |-> 0, r |-> Nil, d |-> <<>>, x |-> <<>>]

-----------------------------------------------------------------------------
(* Pages.                                                                  *)

Count(t, q) == IF q.at = "x" THEN Len(t.x[q.no].sep) ELSE Len(t.d[q.no])

KeyAt(t, q, m) ==
  IF q.at = "x" THEN t.d[t.x[q.no].sep[m + 1]][1] ELSE t.d[q.no][m + 1]

\* The binary search, between places l and h.
Find(t, q, k) ==
  LET n == Count(t, q)
      search[lh \in (0 .. n) \X (-1 .. n - 1)] ==
        LET l == lh[1]
            h == lh[2]
            m == (l + h) \div 2
        IN  IF l > h THEN [i |-> l, ok |-> FALSE]
            ELSE IF k = KeyAt(t, q, m) THEN [i |-> m, ok |-> TRUE]
            ELSE IF k > KeyAt(t, q, m) THEN search[<<m + 1, h>>]
            ELSE search[<<l, m - 1>>]
  IN  search[<<0, n - 1>>]

Extract(t, q, i) == [t EXCEPT !.d[q] = RemoveAt(@, i + 1), !.c = @ - 1]

Insert(t, q, i, k) == [t EXCEPT !.d[q] = InsertAt(@, i + 1, k), !.c = @ + 1]

MvL(t, l, r, n) ==
  [t EXCEPT !.d[l] = @ \o SubSeq(t.d[r], 1, n),
            !.d[r] = SubSeq(@, n + 1, Len(@))]

MvR(t, l, r, n) ==
  [t EXCEPT !.d[r] = SubSeq(t.d[l], Len(t.d[l]) - n + 1, Len(t.d[l])) \o @,
            !.d[l] = SubSeq(@, 1, Len(@) - n)]

\* Mutant: the new child lands before the separator, not after it.
XInsertBefore(x, i, d, ch) ==
  [sep |-> InsertAt(x.sep, i + 1, d), ch |-> InsertAt(x.ch, i + 1, ch)]

XInsert(x, i, d, ch) ==
  [sep |-> InsertAt(x.sep, i + 1, d), ch |-> InsertAt(x.ch, i + 2, ch)]

\* Takes out separator i and the child before it, the last one the child after.
XExtract(x, i) ==
  [sep |-> RemoveAt(x.sep, i + 1),
   ch  |-> RemoveAt(x.ch, IF i < Len(x.sep) - 1 THEN i + 1 ELSE i + 2)]

\* Every pointer to a data page, sent from its place to New(place).
Renumber(t, New(_)) ==
  LET Moved(q) == IF q.at = "d" THEN Data(New(q.no)) ELSE q
  IN  [t EXCEPT
        !.r = Moved(@),
        !.x = [n \in DOMAIN @ |->
                 [sep |-> [j \in DOMAIN @[n].sep |-> New(@[n].sep[j])],
                  ch  |-> [j \in DOMAIN @[n].ch |-> Moved(@[n].ch[j])]]]]

FreeIndex(t) ==
  CHOOSE n \in 1..Cardinality(DOMAIN t.x) + 1 : n \notin DOMAIN t.x

\* The index pages x with a new one, n.
WithPage(x, n, page) ==
  [m \in DOMAIN x \union {n} |-> IF m = n THEN page ELSE x[m]]

NewRoot(t, ch0, sep, ch1) ==
  LET n == FreeIndex(t)
  IN  [t EXCEPT !.r = Index(n),
                !.x = WithPage(@, n, [sep |-> <<sep>>, ch |-> <<ch0, ch1>>])]

Free(t, pages) == [t EXCEPT !.x = Restrict(@, DOMAIN @ \ pages)]

-----------------------------------------------------------------------------
(* Insertion.                                                              *)

Split(t, p, q, pi, i, k) ==
  LET up == Renumber(t, LAMBDA n : IF n > q THEN n + 1 ELSE n)
      halves ==
        [up EXCEPT !.d = SubSeq(@, 1, q - 1)
                           \o <<SubSeq(@[q], 1, kd), SubSeq(@[q], kd + 1, 2 * kd)>>
                           \o SubSeq(@, q + 1, Len(@))]
      linked ==
        IF pi >= 0
        THEN [halves EXCEPT !.x[p] = XInsert(@, pi, q + 1, Data(q + 1))]
        ELSE NewRoot(halves, Data(q), q + 1, Data(q + 1))
  IN  IF i > kd THEN Insert(linked, q + 1, i - kd, k)
                ELSE Insert(linked, q, i, k)

Overflow(t, p, q, pi, i, k) ==
  LET hasL == pi > 0
      hasR == pi >= 0 /\ pi < Len(t.x[p].sep)
      l == t.x[p].ch[pi].no
      r == t.x[p].ch[pi + 2].no
  IN  IF hasL /\ Len(t.d[l]) < 2 * kd
      THEN Insert(MvL(t, l, q, 1), q, i - 1, k)
      ELSE IF hasR /\ Len(t.d[r]) < 2 * kd
      THEN IF i < 2 * kd THEN Insert(MvR(t, q, r, 1), q, i, k)
                         ELSE Insert(t, r, 0, k)
      ELSE Split(t, p, q, pi, i, k)

\* The page, the index and the tree with which Set goes on: splitX moves it to
\* the new right half where the index is past the separator that goes up.
SplitX(t, p, x, pi, i) ==
  LET q == t.x[x]
      r == FreeIndex(t)
      halves ==
        [t EXCEPT !.x =
           WithPage([@ EXCEPT ![x] = [sep |-> SubSeq(q.sep, 1, kx),
                                      ch  |-> SubSeq(q.ch, 1, kx + 1)]],
                    r, [sep |-> SubSeq(q.sep, kx + 2, 2 * kx + 1),
                        ch  |-> SubSeq(q.ch, kx + 2, 2 * kx + 2)])]
      linked ==
        IF pi >= 0
        THEN [halves EXCEPT !.x[p] = XInsert(@, pi, q.sep[kx + 1], Index(r))]
        ELSE NewRoot(halves, Index(x), q.sep[kx + 1], Index(r))
  IN  IF i > kx THEN [t |-> linked, x |-> r, i |-> i - (kx + 1)]
                ELSE [t |-> linked, x |-> x, i |-> i]

-----------------------------------------------------------------------------
(* Removal.                                                                *)

Cat(t, p, q, r, pi) ==
  LET joined == MvL(t, q, r, Len(t.d[r]))
      linked ==
        IF Len(t.x[p].sep) > 1
        THEN [joined EXCEPT
                !.x[p] = [XExtract(@, pi) EXCEPT !.ch[pi + 1] = Data(q)]]
        ELSE [Free(joined, {p}) EXCEPT !.r = Data(q)]
  IN  Renumber([linked EXCEPT !.d = SubSeq(@, 1, q) \o SubSeq(@, r + 1, Len(@))],
               LAMBDA n : IF n > r THEN n - (r - q) ELSE n)

\* Mutant: off by one.
CanLendLast(t, q, r) == Len(t.d[q]) + Len(t.d[r]) >= 2 * kd - 1

\* One of the two pages can give the other a key and stay half full.
CanLend(t, q, r) == Len(t.d[q]) + Len(t.d[r]) >= 2 * kd

Underflow(t, p, q, pi) ==
  LET hasL == pi > 0
      hasR == pi < Len(t.x[p].sep)
      l == t.x[p].ch[pi].no
      r == t.x[p].ch[pi + 2].no
  IN  IF hasL /\ CanLend(t, l, q) THEN MvR(t, l, q, 1)
      ELSE IF hasR /\ CanLend(t, q, r) THEN MvL(t, q, r, 1)
      ELSE IF hasL THEN Cat(t, p, l, q, pi - 1)
      ELSE Cat(t, p, q, r, pi)

CatX(t, p, q, r, pi) ==
  LET P == t.x[p]
      joined ==
        [t EXCEPT !.x[q] = [sep |-> @.sep \o <<P.sep[pi + 1]>> \o t.x[r].sep,
                            ch  |-> @.ch \o t.x[r].ch]]
  IN  IF Len(P.sep) > 1
      THEN Free([joined EXCEPT !.x[p] = [sep |-> RemoveAt(@.sep, pi + 1),
                                         ch  |-> RemoveAt(@.ch, pi + 2)]], {r})
      ELSE [Free(joined, {p, r}) EXCEPT !.r = Index(q)]

\* The page, the index and the tree with which Delete goes on.
UnderflowX(t, p, x, pi, i) ==
  LET hasL == pi > 0
      hasR == pi >= 0 /\ pi < Len(t.x[p].sep)
      l == t.x[p].ch[pi].no
      r == t.x[p].ch[pi + 2].no
      P == t.x[p]
      L == t.x[l]
      R == t.x[r]
  IN  IF hasL /\ Len(L.sep) > kx
      THEN [t |-> [t EXCEPT
                     !.x[x] = [sep |-> <<P.sep[pi]>> \o @.sep,
                               ch  |-> <<Last(L.ch)>> \o @.ch],
                     !.x[p] = [sep |-> [@.sep EXCEPT ![pi] = Last(L.sep)],
                               ch  |-> @.ch],
                     !.x[l] = [sep |-> Front(@.sep), ch |-> Front(@.ch)]],
            x |-> x, i |-> i + 1]
      ELSE IF hasR /\ Len(R.sep) > kx
      THEN [t |-> [t EXCEPT
                     !.x[x] = [sep |-> Append(@.sep, P.sep[pi + 1]),
                               ch  |-> Append(@.ch, R.ch[1])],
                     !.x[p] = [sep |-> [@.sep EXCEPT ![pi + 1] = R.sep[1]],
                               ch  |-> @.ch],
                     !.x[r] = [sep |-> Tail(@.sep), ch |-> Tail(@.ch)]],
            x |-> x, i |-> i]
      ELSE IF hasL
      THEN [t |-> CatX(t, p, l, x, pi - 1), x |-> l, i |-> i + Len(L.sep) + 1]
      ELSE [t |-> CatX(t, p, x, r, pi), x |-> x, i |-> i]

-----------------------------------------------------------------------------
(* Set and Delete.                                                         *)

Init == tree = Empty /\ call = Idle

Call(op, k) ==
  /\ call = Idle
  /\ call' = [op |-> op, key |-> k, q |-> tree.r, p |-> 0, pi |-> -1]
  /\ UNCHANGED tree

Return(t) == tree' = t /\ call' = Idle

At(op, page) == call.op = op /\ call.q.at = page

Found == Find(tree, call.q, call.key)

\* The loop goes on at child i of index page x, in tree t.
Descend(t, x, i) ==
  /\ tree' = t
  /\ call' = [call EXCEPT !.q = t.x[x].ch[i + 1], !.p = x, !.pi = i]

SetEmpty ==
  /\ At("Set", "nil")
  /\ Return([Empty EXCEPT !.c = 1, !.r = Data(1), !.d = <<<<call.key>>>>])

\* The key is there already; only its empty value is written.
SetPresent ==
  /\ call.op = "Set" /\ call.q # Nil
  /\ Found.ok
  /\ Return(tree)

SetDescend ==
  /\ At("Set", "x")
  /\ ~Found.ok
  /\ Count(tree, call.q) <= 2 * kx
  /\ Descend(tree, call.q.no, Found.i)

SetSplitX ==
  /\ At("Set", "x")
  /\ ~Found.ok
  /\ Count(tree, call.q) > 2 * kx
  /\ LET s == SplitX(tree, call.p, call.q.no, call.pi, Found.i)
     IN  Descend(s.t, s.x, s.i)

SetKey ==
  /\ At("Set", "d")
  /\ ~Found.ok
  /\ Return(IF Count(tree, call.q) < 2 * kd
            THEN Insert(tree, call.q.no, Found.i, call.key)
            ELSE Overflow(tree, call.p, call.q.no, call.pi, Found.i, call.key))

DeleteEmpty == At("Delete", "nil") /\ Return(tree)

\* The key is a separator's, and the page it points at can spare its first.
DeleteSeparator ==
  /\ At("Delete", "x")
  /\ Found.ok
  /\ LET dp == tree.x[call.q.no].sep[Found.i + 1]
     IN  Len(tree.d[dp]) > kd /\ Return(Extract(tree, dp, 0))

\* Mutant: a key that is a separator's is looked for left of the separator.
DeleteDescendLeft ==
  /\ At("Delete", "x")
  /\ LET x == call.q.no
         u == IF Count(tree, call.q) < kx /\ call.q # tree.r
              THEN UnderflowX(tree, call.p, x, call.pi, Found.i)
              ELSE [t |-> tree, x |-> x, i |-> Found.i]
     IN  /\ Found.ok => Len(tree.d[tree.x[x].sep[Found.i + 1]]) <= kd
         /\ Descend(u.t, u.x, u.i)

DeleteDescend ==
  /\ At("Delete", "x")
  /\ LET x == call.q.no
         u == IF Count(tree, call.q) < kx /\ call.q # tree.r
              THEN UnderflowX(tree, call.p, x, call.pi, Found.i)
              ELSE [t |-> tree, x |-> x, i |-> Found.i]
     IN  IF Found.ok
         THEN /\ Len(tree.d[tree.x[x].sep[Found.i + 1]]) <= kd
              /\ Descend(u.t, u.x, u.i + 1)
         ELSE Descend(u.t, u.x, u.i)

DeleteKey ==
  /\ At("Delete", "d")
  /\ Found.ok
  /\ LET q == call.q.no
         rest == Extract(tree, q, Found.i)
     IN  Return(IF Len(rest.d[q]) >= kd THEN rest
                ELSE IF call.q # tree.r THEN Underflow(rest, call.p, q, call.pi)
                ELSE IF rest.c = 0 THEN Empty
                ELSE rest)

DeleteAbsent == At("Delete", "d") /\ ~Found.ok /\ Return(tree)

Step ==
  \/ SetEmpty \/ SetPresent \/ SetDescend \/ SetSplitX \/ SetKey
  \/ DeleteEmpty \/ DeleteSeparator \/ DeleteDescend \/ DeleteKey
  \/ DeleteAbsent

Next == (\E op \in {"Set", "Delete"}, k \in Key : Call(op, k)) \/ Step

Spec == Init /\ [][Next]_vars

-----------------------------------------------------------------------------
(* Reading.                                                                *)

\* Mutant: a hit on a separator is not taken for an answer.
SeekOkDown(t, k) ==
  LET seek[q \in {t.r} \union UNION {ToSet(t.x[n].ch) : n \in DOMAIN t.x}] ==
        IF q = Nil THEN FALSE
        ELSE LET f == Find(t, q, k)
             IN  IF q.at = "x" THEN seek[t.x[q.no].ch[f.i + 1]] ELSE f.ok
  IN  seek[t.r]

\* Seek: whether the key is there.
SeekOk(t, k) ==
  LET seek[q \in {t.r} \union UNION {ToSet(t.x[n].ch) : n \in DOMAIN t.x}] ==
        IF q = Nil THEN FALSE
        ELSE LET f == Find(t, q, k)
             IN  f.ok \/ (q.at = "x" /\ seek[t.x[q.no].ch[f.i + 1]])
  IN  seek[t.r]

\* AllData: SeekFirst, and Next until the page after the last.
AllData(t) == IF t.c = 0 THEN <<>> ELSE FlattenSeq(t.d)
=============================================================================
