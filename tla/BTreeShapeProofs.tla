-------------------------- MODULE BTreeShapeProofs --------------------------
(***************************************************************************)
(* Lemmas about the pages of the tree: which data pages are under which    *)
(* pointer, what the helpers of btree.go do to the pages, their keys and   *)
(* those spans, and that Set, with overflow, split and splitX, and         *)
(* underflowX, the part of Delete above the data pages, leave a tree as it *)
(* should be.                                                              *)
(***************************************************************************)
EXTENDS MCBTree, SequenceTheorems, FiniteSetTheorems, FunctionTheorems,
        WellFoundedInduction, TLAPS

-----------------------------------------------------------------------------
(* Sequences, and the binary search.                                       *)

(* A set of numbers that is not empty has a least one.                     *)
LEMMA LeastOf ==
  ASSUME NEW S \in SUBSET Nat, S # {}
  PROVE  \E m \in S : \A k \in S : m <= k
<1>1. PICK m \in S : \A k \in S : ~ (<<k, m>> \in OpToRel(<, Nat))
  BY NatLessThanWellFounded, WFMin
<1>2. \A k \in S : <<k, m>> \in OpToRel(<, Nat) <=> k < m
  BY DEF OpToRel
<1>3. \A k \in S : ~ (k < m)
  BY <1>1, <1>2, Zenon
<1> QED
  BY <1>3

(* What 0 has and every number takes over from the one before it, all      *)
(* have.                                                                   *)
LEMMA ReachedBySteps ==
  ASSUME NEW n \in Nat, NEW good, 0 \in good,
         \A k \in 1 .. n : k - 1 \in good => k \in good
  PROVE  0 .. n \subseteq good
<1> DEFINE bad == (0 .. n) \ good
<1>1. SUFFICES ASSUME bad # {} PROVE FALSE
  OBVIOUS
<1>2. PICK k \in bad : \A j \in bad : k <= j
  <2>1. bad \in SUBSET Nat
    OBVIOUS
  <2> HIDE DEF bad
  <2> QED
    BY <1>1, <2>1, LeastOf
<1>3. k \in 1 .. n /\ k - 1 \in 0 .. n /\ ~ (k <= k - 1)
  OBVIOUS
<1>4. k - 1 \in good
  BY <1>2, <1>3
<1> QED
  BY <1>3, <1>4

(* What InsertAt, with which a page takes in a key or a child, makes of a  *)
(* sequence.                                                               *)
LEMMA Inserted ==
  ASSUME NEW X, NEW s \in Seq(X), NEW e \in X, NEW i \in 1 .. Len(s) + 1
  PROVE  /\ InsertAt(s, i, e) \in Seq(X)
         /\ Len(InsertAt(s, i, e)) = Len(s) + 1
         /\ \A j \in 1 .. Len(s) + 1 :
              InsertAt(s, i, e)[j] = IF j < i THEN s[j] ELSE IF j = i THEN e ELSE s[j - 1]
<1> DEFINE a == SubSeq(s, 1, i - 1)
           b == SubSeq(s, i, Len(s))
<1>1. Len(s) \in Nat /\ \A j \in 1 .. Len(s) : s[j] \in X
  OBVIOUS
<1>2. /\ a \in Seq(X) /\ Len(a) = i - 1
      /\ \A j \in 1 .. i - 1 : a[j] = s[j]
  BY <1>1, SubSeqProperties
<1>3. /\ b \in Seq(X) /\ Len(b) = Len(s) - i + 1
      /\ \A j \in 1 .. Len(s) - i + 1 : b[j] = s[i + j - 1]
  BY <1>1, SubSeqProperties
<1> HIDE DEF a, b
<1> DEFINE c == a \o <<e>>
<1>4. /\ c \in Seq(X) /\ Len(c) = i
      /\ \A j \in 1 .. i : c[j] = IF j < i THEN s[j] ELSE e
  BY <1>2
<1> HIDE DEF c
<1>5. /\ c \o b \in Seq(X) /\ Len(c \o b) = Len(s) + 1
      /\ \A j \in 1 .. Len(s) + 1 : (c \o b)[j] = IF j <= i THEN c[j] ELSE b[j - i]
  <2>1. Len(c) + Len(b) = Len(s) + 1
    BY <1>1, <1>3, <1>4
  <2>2. /\ c \o b \in Seq(X) /\ Len(c \o b) = Len(c) + Len(b)
        /\ \A j \in 1 .. Len(c) + Len(b) :
             (c \o b)[j] = IF j <= Len(c) THEN c[j] ELSE b[j - Len(c)]
    BY <1>3, <1>4, ConcatProperties
  <2> QED
    BY <1>4, <2>1, <2>2
<1>6. InsertAt(s, i, e) = c \o b
  BY DEF InsertAt, a, b, c
<1>7. ASSUME NEW j \in 1 .. Len(s) + 1
      PROVE  (c \o b)[j] = IF j < i THEN s[j] ELSE IF j = i THEN e ELSE s[j - 1]
  <2>1. CASE j <= i
    <3>1. j \in 1 .. i /\ (j < i \/ j = i)
      BY <1>1, <2>1
    <3> QED
      BY <1>1, <1>4, <1>5, <2>1, <3>1
  <2>2. CASE j > i
    <3>1. j - i \in 1 .. Len(s) - i + 1 /\ i + (j - i) - 1 = j - 1 /\ ~(j <= i)
      BY <1>1, <2>2
    <3>2. ~(j < i) /\ j # i
      BY <1>1, <2>2
    <3> QED
      BY <1>3, <1>5, <3>1, <3>2
  <2>3. j <= i \/ j > i
    BY <1>1
  <2> QED
    BY <2>1, <2>2, <2>3, Zenon
<1> QED
  BY <1>5, <1>6, <1>7

(* What RemoveAt, with which a page gives up a key or a child, makes of a  *)
(* sequence.                                                               *)
LEMMA Removed ==
  ASSUME NEW X, NEW s \in Seq(X), NEW i \in 1 .. Len(s)
  PROVE  /\ RemoveAt(s, i) \in Seq(X)
         /\ Len(RemoveAt(s, i)) = Len(s) - 1
         /\ \A j \in 1 .. Len(s) - 1 :
              RemoveAt(s, i)[j] = IF j < i THEN s[j] ELSE s[j + 1]
<1> DEFINE a == SubSeq(s, 1, i - 1)
           b == SubSeq(s, i + 1, Len(s))
<1>1. Len(s) \in Nat /\ \A j \in 1 .. Len(s) : s[j] \in X
  OBVIOUS
<1>2. /\ a \in Seq(X) /\ Len(a) = i - 1
      /\ \A j \in 1 .. i - 1 : a[j] = s[j]
  BY <1>1, SubSeqProperties
<1>3. /\ b \in Seq(X) /\ Len(b) = Len(s) - i
      /\ \A j \in 1 .. Len(s) - i : b[j] = s[i + j]
  <2>1. /\ b \in Seq(X) /\ Len(b) = IF i + 1 <= Len(s) THEN Len(s) - (i + 1) + 1 ELSE 0
        /\ \A j \in 1 .. Len(s) - (i + 1) + 1 : b[j] = s[(i + 1) + j - 1]
    BY <1>1, SubSeqProperties
  <2> HIDE DEF b
  <2> QED
    BY <1>1, <2>1
<1> HIDE DEF a, b
<1>4. /\ a \o b \in Seq(X) /\ Len(a \o b) = Len(s) - 1
      /\ \A j \in 1 .. Len(s) - 1 : (a \o b)[j] = IF j <= i - 1 THEN a[j] ELSE b[j - (i - 1)]
  <2>1. Len(a) + Len(b) = Len(s) - 1
    BY <1>1, <1>2, <1>3
  <2>2. /\ a \o b \in Seq(X) /\ Len(a \o b) = Len(a) + Len(b)
        /\ \A j \in 1 .. Len(a) + Len(b) :
             (a \o b)[j] = IF j <= Len(a) THEN a[j] ELSE b[j - Len(a)]
    BY <1>2, <1>3, ConcatProperties
  <2> QED
    BY <1>2, <2>1, <2>2
<1>5. RemoveAt(s, i) = a \o b
  BY DEF RemoveAt, a, b
<1>6. ASSUME NEW j \in 1 .. Len(s) - 1
      PROVE  (a \o b)[j] = IF j < i THEN s[j] ELSE s[j + 1]
  <2>1. CASE j < i
    <3>1. j \in 1 .. i - 1 /\ j <= i - 1
      BY <1>1, <2>1
    <3> QED
      BY <1>2, <1>4, <2>1, <3>1
  <2>2. CASE j >= i
    <3>1. j - (i - 1) \in 1 .. Len(s) - i /\ i + (j - (i - 1)) = j + 1 /\ ~(j <= i - 1) /\ ~(j < i)
      BY <1>1, <2>2
    <3> QED
      BY <1>3, <1>4, <3>1
  <2>3. j < i \/ j >= i
    BY <1>1
  <2> QED
    BY <2>1, <2>2, <2>3, Zenon
<1> QED
  BY <1>4, <1>5, <1>6

-----------------------------------------------------------------------------
(* The binary search.                                                      *)

(* The pairs of places that Find's search recurs over.                     *)
Places(n) == (0 .. n) \X (-1 .. n - 1)

(* One look of the search for k among the n keys of a, between lh[1] and   *)
(* lh[2], when search answers for narrower bounds.                         *)
Look(a, k, search, lh) ==
  LET m == (lh[1] + lh[2]) \div 2
  IN  IF lh[1] > lh[2] THEN [i |-> lh[1], ok |-> FALSE]
      ELSE IF k = a[m] THEN [i |-> m, ok |-> TRUE]
      ELSE IF k > a[m] THEN search[<<m + 1, lh[2]>>]
      ELSE search[<<lh[1], m - 1>>]

(* search finds the place of k among the n keys of a.                      *)
Searches(n, a, k, search) == search = [lh \in Places(n) |-> Look(a, k, search, lh)]

(* What Find returns.                                                      *)
Results == [i : Int, ok : BOOLEAN]

(* The place that is looked at lies between the bounds, so both halves are *)
(* narrower.                                                               *)
LEMMA MiddlePlace ==
  ASSUME NEW n \in Nat, NEW lh \in Places(n), lh[1] <= lh[2]
  PROVE  /\ lh[1] \in 0 .. n - 1 /\ lh[2] \in 0 .. n - 1
         /\ (lh[1] + lh[2]) \div 2 \in lh[1] .. lh[2]
         /\ <<(lh[1] + lh[2]) \div 2 + 1, lh[2]>> \in Places(n)
         /\ <<lh[1], (lh[1] + lh[2]) \div 2 - 1>> \in Places(n)
<1>1. lh[1] \in 0 .. n /\ lh[2] \in -1 .. n - 1 /\ lh = <<lh[1], lh[2]>>
  BY DEF Places
<1> DEFINE l == lh[1]
           h == lh[2]
<1>2. l \in 0 .. n /\ h \in -1 .. n - 1 /\ l <= h
  BY <1>1
<1> HIDE DEF l, h
<1>3. (l + h) \div 2 \in l .. h /\ l \in 0 .. n - 1 /\ h \in 0 .. n - 1
  BY <1>2
<1> DEFINE m == (l + h) \div 2
<1>4. m \in l .. h
  BY <1>3
<1> HIDE DEF m
<1>5. <<m + 1, h>> \in Places(n) /\ <<l, m - 1>> \in Places(n)
  BY <1>2, <1>4 DEF Places
<1> QED
  BY <1>3, <1>5 DEF l, h, m

(* There is a function that satisfies the recursive definition of the      *)
(* binary search, for it recurs between places that come closer.           *)
LEMMA SearchExists ==
  ASSUME NEW n \in Nat, NEW a, NEW k
  PROVE  \E search : Searches(n, a, k, search)
<1> DEFINE Built(w, f) ==
             /\ f \in [Places(n) -> Results]
             /\ \A lh \in Places(n) : lh[2] - lh[1] + 1 <= w => f[lh] = Look(a, k, f, lh)
           good == {w \in 0 .. n : \E f : Built(w, f)}
<1>1. 0 \in good
  <2> DEFINE f == [lh \in Places(n) |-> [i |-> lh[1], ok |-> FALSE]]
  <2>1. f \in [Places(n) -> Results]
    BY DEF Places, Results
  <2>2. ASSUME NEW lh \in Places(n), lh[2] - lh[1] + 1 <= 0
        PROVE  f[lh] = Look(a, k, f, lh)
    <3>1. lh[1] \in Int /\ lh[2] \in Int
      BY DEF Places
    <3>2. lh[1] > lh[2]
      BY <3>1, <2>2
    <3> QED
      BY <3>2 DEF Look
  <2> HIDE DEF f
  <2>3. Built(0, f)
    BY <2>1, <2>2
  <2> QED
    BY <2>3
<1>2. ASSUME NEW w \in 1 .. n, w - 1 \in good
      PROVE  w \in good
  <2>1. PICK f : Built(w - 1, f)
    BY <1>2
  <2> DEFINE g == [lh \in Places(n) |-> IF lh[2] - lh[1] + 1 <= w THEN Look(a, k, f, lh)
                                        ELSE f[lh]]
  <2>2. ASSUME NEW lh \in Places(n)
        PROVE  Look(a, k, f, lh) \in Results
    <3>1. lh[1] \in Int /\ lh[2] \in Int
      BY DEF Places
    <3>2. CASE lh[1] > lh[2]
      BY <3>1, <3>2 DEF Look, Results
    <3>3. CASE lh[1] <= lh[2]
      <4> DEFINE m == (lh[1] + lh[2]) \div 2
      <4>1. m \in Int /\ <<m + 1, lh[2]>> \in Places(n) /\ <<lh[1], m - 1>> \in Places(n)
        BY <3>1, <3>3, MiddlePlace
      <4>2. f[<<m + 1, lh[2]>>] \in Results /\ f[<<lh[1], m - 1>>] \in Results
        BY <2>1, <4>1
      <4>3. [i |-> m, ok |-> TRUE] \in Results
        BY <4>1 DEF Results
      <4>4. ~ (lh[1] > lh[2])
        BY <3>1, <3>3
      <4> HIDE DEF m
      <4>5. Look(a, k, f, lh) = IF k = a[m] THEN [i |-> m, ok |-> TRUE]
                                ELSE IF k > a[m] THEN f[<<m + 1, lh[2]>>]
                                ELSE f[<<lh[1], m - 1>>]
        BY <4>4 DEF Look, m
      <4> QED
        BY <4>2, <4>3, <4>5
    <3> QED
      BY <3>1, <3>2, <3>3
  <2>3. g \in [Places(n) -> Results]
    BY <2>1, <2>2
  <2>4. ASSUME NEW lh \in Places(n), lh[2] - lh[1] + 1 <= w - 1
        PROVE  g[lh] = f[lh]
    <3>1. lh[1] \in Int /\ lh[2] \in Int
      BY DEF Places
    <3> QED
      BY <2>1, <2>4, <3>1
  <2>5. ASSUME NEW lh \in Places(n), lh[2] - lh[1] + 1 <= w
        PROVE  g[lh] = Look(a, k, g, lh)
    <3>1. lh[1] \in Int /\ lh[2] \in Int
      BY DEF Places
    <3>2. g[lh] = Look(a, k, f, lh)
      BY <2>5
    <3>3. CASE lh[1] > lh[2]
      BY <3>2, <3>3 DEF Look
    <3>4. CASE lh[1] <= lh[2]
      <4> DEFINE m == (lh[1] + lh[2]) \div 2
                 after == <<m + 1, lh[2]>>
                 before == <<lh[1], m - 1>>
      <4>1. /\ m \in lh[1] .. lh[2] /\ after \in Places(n) /\ before \in Places(n)
            /\ after[1] = m + 1 /\ after[2] = lh[2] /\ before[1] = lh[1] /\ before[2] = m - 1
        BY <3>4, MiddlePlace
      <4> HIDE DEF m, after, before
      <4>2. after[2] - after[1] + 1 <= w - 1 /\ before[2] - before[1] + 1 <= w - 1
        BY <2>5, <3>1, <4>1
      <4>3. g[after] = f[after] /\ g[before] = f[before]
        BY <2>4, <4>1, <4>2
      <4> QED
        BY <3>2, <4>3 DEF Look, m, after, before
    <3> QED
      BY <3>1, <3>3, <3>4
  <2> HIDE DEF g
  <2>6. Built(w, g)
    BY <2>3, <2>5
  <2> QED
    BY <2>6
<1>3. n \in good
  <2> HIDE DEF good
  <2>1. 0 .. n \subseteq good
    BY <1>1, <1>2, ReachedBySteps
  <2> QED
    BY <2>1
<1>4. PICK f : Built(n, f)
  BY <1>3
<1>5. \A lh \in Places(n) : f[lh] = Look(a, k, f, lh)
  <2>1. \A lh \in Places(n) : lh[1] \in Int /\ lh[2] \in Int /\ lh[1] >= 0 /\ lh[2] <= n - 1
    BY DEF Places
  <2>2. \A lh \in Places(n) : lh[2] - lh[1] + 1 <= n
    BY <2>1
  <2> QED
    BY <1>4, <2>2
<1>6. f = [lh \in Places(n) |-> f[lh]]
  BY <1>4
<1>7. f = [lh \in Places(n) |-> Look(a, k, f, lh)]
  BY <1>5, <1>6
<1> QED
  BY <1>7 DEF Searches

(* f is the place of k among the n keys of a, or that of the keys above k. *)
Answers(n, a, k, f) ==
  /\ f.i \in 0 .. n /\ f.ok \in BOOLEAN
  /\ f.ok => f.i < n /\ a[f.i] = k
  /\ ~ f.ok => /\ \A m \in 0 .. f.i - 1 : a[m] < k
               /\ \A m \in f.i .. n - 1 : k < a[m]

(* The key is not outside places lh[1] to lh[2].                           *)
Outside(n, a, k, lh) ==
  /\ \A m \in 0 .. lh[1] - 1 : a[m] < k
  /\ \A m \in lh[2] + 1 .. n - 1 : k < a[m]

(* What the search answers for bounds outside of which no key is k.        *)
LEMMA SearchAnswers ==
  ASSUME NEW n \in Nat, NEW a \in [0 .. n - 1 -> Int], NEW k \in Int,
         \A l, m \in 0 .. n - 1 : l < m => a[l] < a[m],
         NEW search, Searches(n, a, k, search)
  PROVE  Answers(n, a, k, search[<<0, n - 1>>])
<1> DEFINE good == {w \in 0 .. n :
                      \A lh \in Places(n) :
                        lh[2] - lh[1] + 1 <= w /\ Outside(n, a, k, lh) =>
                          Answers(n, a, k, search[lh])}
<1>1. \A lh \in Places(n) : search[lh] = Look(a, k, search, lh)
  BY DEF Searches
<1>2. ASSUME NEW lh \in Places(n), lh[1] > lh[2], Outside(n, a, k, lh)
      PROVE  Answers(n, a, k, search[lh])
  <2>1. search[lh] = [i |-> lh[1], ok |-> FALSE]
    BY <1>1, <1>2 DEF Look
  <2>2. lh[1] \in 0 .. n /\ lh[2] \in -1 .. n - 1
    BY DEF Places
  <2>3. \A m \in lh[1] .. n - 1 : m \in lh[2] + 1 .. n - 1
    BY <1>2, <2>2
  <2>4. \A m \in lh[1] .. n - 1 : k < a[m]
    BY <1>2, <2>3 DEF Outside
  <2>5. \A m \in 0 .. lh[1] - 1 : a[m] < k
    BY <1>2 DEF Outside
  <2> DEFINE f == search[lh]
             l == lh[1]
  <2>6. f.i = l /\ f.ok = FALSE /\ l \in 0 .. n
    BY <2>1, <2>2
  <2>7. (\A m \in 0 .. l - 1 : a[m] < k) /\ (\A m \in l .. n - 1 : k < a[m])
    BY <2>4, <2>5
  <2> HIDE DEF f, l
  <2>8. Answers(n, a, k, f)
    BY <2>6, <2>7 DEF Answers
  <2> QED
    BY <2>8 DEF f
<1>3. 0 \in good
  <2>1. ASSUME NEW lh \in Places(n), lh[2] - lh[1] + 1 <= 0 PROVE lh[1] > lh[2]
    <3>1. lh[1] \in Int /\ lh[2] \in Int
      BY DEF Places
    <3> QED
      BY <2>1, <3>1
  <2> QED
    BY <1>2, <2>1
<1>4. ASSUME NEW w \in 1 .. n, w - 1 \in good
      PROVE  w \in good
  <2> SUFFICES ASSUME NEW lh \in Places(n), lh[2] - lh[1] + 1 <= w, Outside(n, a, k, lh)
               PROVE  Answers(n, a, k, search[lh])
    OBVIOUS
  <2>1. lh[1] \in Int /\ lh[2] \in Int
    BY DEF Places
  <2>2. CASE lh[1] > lh[2]
    BY <1>2, <2>2
  <2>3. CASE lh[1] <= lh[2]
    <3> DEFINE m == (lh[1] + lh[2]) \div 2
               after == <<m + 1, lh[2]>>
               before == <<lh[1], m - 1>>
    <3>1. /\ lh[1] \in 0 .. n - 1 /\ lh[2] \in 0 .. n - 1
          /\ m \in lh[1] .. lh[2] /\ after \in Places(n) /\ before \in Places(n)
          /\ after[1] = m + 1 /\ after[2] = lh[2] /\ before[1] = lh[1] /\ before[2] = m - 1
      BY <2>3, MiddlePlace
    <3>2. search[lh] = IF k = a[m] THEN [i |-> m, ok |-> TRUE]
                       ELSE IF k > a[m] THEN search[after] ELSE search[before]
      <4>1. ~ (lh[1] > lh[2])
        BY <2>1, <2>3
      <4> QED
        BY <1>1, <4>1 DEF Look
    <3> HIDE DEF m, after, before
    <3>3. m \in 0 .. n - 1 /\ a[m] \in Int
      BY <3>1
    <3>4. after[2] - after[1] + 1 <= w - 1 /\ before[2] - before[1] + 1 <= w - 1
      <4>1. lh[2] - (m + 1) + 1 <= w - 1 /\ (m - 1) - lh[1] + 1 <= w - 1
        <5> DEFINE l == lh[1]
                   h == lh[2]
        <5>1. m \in l .. h /\ l \in Int /\ h \in Int /\ h - l + 1 <= w /\ w \in Int
          BY <2>1, <3>1
        <5> HIDE DEF l, h
        <5>2. h - (m + 1) + 1 <= w - 1 /\ (m - 1) - l + 1 <= w - 1
          BY <5>1
        <5> QED
          BY <5>2 DEF l, h
      <4> QED
        BY <3>1, <4>1
    <3>5. CASE k = a[m]
      <4>1. search[lh] = [i |-> m, ok |-> TRUE]
        BY <3>2, <3>5, Zenon
      <4>2. Answers(n, a, k, [i |-> m, ok |-> TRUE])
        BY <3>3, <3>5 DEF Answers
      <4> QED
        BY <4>1, <4>2, Zenon
    <3>6. CASE k > a[m]
      <4>1. \A l \in 0 .. m : a[l] < k
        BY <3>3, <3>6
      <4>2. Outside(n, a, k, after)
        <5>1. \A l \in 0 .. after[1] - 1 : l \in 0 .. m
          BY <3>1, <3>3
        <5> QED
          BY <1>4, <3>1, <4>1, <5>1 DEF Outside
      <4>3. Answers(n, a, k, search[after])
        BY <1>4, <3>1, <3>4, <4>2
      <4>4. search[lh] = search[after]
        BY <3>2, <3>3, <3>6
      <4> QED
        BY <4>3, <4>4
    <3>7. CASE k < a[m]
      <4>1. \A l \in m .. n - 1 : k < a[l]
        BY <3>3, <3>7
      <4>2. Outside(n, a, k, before)
        <5>1. \A l \in before[2] + 1 .. n - 1 : l \in m .. n - 1
          BY <3>1, <3>3
        <5> QED
          BY <1>4, <3>1, <4>1, <5>1 DEF Outside
      <4>3. Answers(n, a, k, search[before])
        BY <1>4, <3>1, <3>4, <4>2
      <4>4. search[lh] = search[before]
        BY <3>2, <3>3, <3>7
      <4> QED
        BY <4>3, <4>4
    <3> QED
      BY <3>3, <3>5, <3>6, <3>7
  <2> QED
    BY <2>1, <2>2, <2>3
<1>5. n \in good
  <2> HIDE DEF good
  <2>1. 0 .. n \subseteq good
    BY <1>3, <1>4, ReachedBySteps
  <2> QED
    BY <2>1
<1>6. Outside(n, a, k, <<0, n - 1>>)
  BY DEF Outside
<1>7. <<0, n - 1>> \in Places(n) /\ <<0, n - 1>>[1] = 0 /\ <<0, n - 1>>[2] = n - 1
  BY DEF Places
<1> DEFINE lh == <<0, n - 1>>
<1>8. lh \in Places(n) /\ lh[2] - lh[1] + 1 <= n /\ Outside(n, a, k, lh)
  BY <1>6, <1>7
<1> HIDE DEF lh
<1>9. Answers(n, a, k, search[lh])
  BY <1>5, <1>8
<1> QED
  BY <1>9 DEF lh

(* Find, for keys in order, returns the place of the key, or the place it  *)
(* belongs at.                                                             *)
LEMMA FindAnswers ==
  ASSUME NEW t, NEW q, NEW k \in Int, NEW n \in Nat, Count(t, q) = n,
         NEW a \in [0 .. n - 1 -> Int], \A m \in 0 .. n - 1 : KeyAt(t, q, m) = a[m],
         \A l, m \in 0 .. n - 1 : l < m => a[l] < a[m]
  PROVE  Answers(n, a, k, Find(t, q, k))
<1> DEFINE Code(search, lh) ==
             LET m == (lh[1] + lh[2]) \div 2
             IN  IF lh[1] > lh[2] THEN [i |-> lh[1], ok |-> FALSE]
                 ELSE IF k = KeyAt(t, q, m) THEN [i |-> m, ok |-> TRUE]
                 ELSE IF k > KeyAt(t, q, m) THEN search[<<m + 1, lh[2]>>]
                 ELSE search[<<lh[1], m - 1>>]
           Fix(search) == search = [lh \in (0 .. n) \X (-1 .. n - 1) |-> Code(search, lh)]
<1>0. \E search : Searches(n, a, k, search)
  BY SearchExists
<1>1. Find(t, q, k) = (CHOOSE search : Fix(search))[<<0, n - 1>>]
  BY DEF Find
<1>2. ASSUME NEW search, NEW lh \in Places(n)
      PROVE  Code(search, lh) = Look(a, k, search, lh)
  <2>1. lh[1] \in Int /\ lh[2] \in Int
    BY DEF Places
  <2>2. CASE lh[1] > lh[2]
    BY <2>2 DEF Look
  <2>3. CASE lh[1] <= lh[2]
    <3>1. (lh[1] + lh[2]) \div 2 \in 0 .. n - 1
      <4>1. /\ lh[1] \in 0 .. n - 1 /\ lh[2] \in 0 .. n - 1
            /\ (lh[1] + lh[2]) \div 2 \in lh[1] .. lh[2]
        BY <2>3, MiddlePlace
      <4> DEFINE m == (lh[1] + lh[2]) \div 2
      <4> HIDE DEF m
      <4>2. m \in 0 .. n - 1
        BY <4>1 DEF m
      <4> QED
        BY <4>2 DEF m
    <3>2. KeyAt(t, q, (lh[1] + lh[2]) \div 2) = a[(lh[1] + lh[2]) \div 2]
      BY <3>1
    <3> QED
      BY <3>2 DEF Look
  <2> QED
    BY <2>1, <2>2, <2>3
<1> HIDE DEF Code
<1>3. ASSUME NEW search
      PROVE  Fix(search) <=> Searches(n, a, k, search)
  <2>1. [lh \in (0 .. n) \X (-1 .. n - 1) |-> Code(search, lh)]
          = [lh \in Places(n) |-> Look(a, k, search, lh)]
    BY <1>2 DEF Places
  <2> QED
    BY <2>1 DEF Searches
<1>4. \E search : Fix(search)
  <2>1. PICK search : Searches(n, a, k, search)
    BY <1>0, Zenon
  <2>2. Fix(search)
    BY <1>3, <2>1
  <2> HIDE DEF Fix
  <2> QED
    BY <2>2
<1> DEFINE s == CHOOSE search : Fix(search)
<1>5. Fix(s)
  <2> HIDE DEF Fix
  <2> QED
    BY <1>4, Zenon
<1>6. Searches(n, a, k, s)
  BY <1>3, <1>5
<1> HIDE DEF s
<1>7. Answers(n, a, k, s[<<0, n - 1>>])
  BY <1>6, SearchAnswers
<1> QED
  BY <1>1, <1>7 DEF s

-----------------------------------------------------------------------------
(* Spans: which data pages are under which pointer, and how high.          *)

(* The pointers to n data pages and to the index pages x.                  *)
PagesOf(n, x) == {Data(j) : j \in 1 .. n} \cup {Index(m) : m \in DOMAIN x}

(* The first and the last data page under pointer q, and how high q is,    *)
(* where s has the spans of the index pages.                               *)
From(s, q) == IF q.at = "d" THEN q.no ELSE s[q.no].lo
To(s, q) == IF q.at = "d" THEN q.no ELSE s[q.no].hi
Height(s, q) == IF q.at = "d" THEN 0 ELSE s[q.no].ht

(* P is an index page over the data pages and at the height that b says.   *)
Kids(s, P, b) ==
  /\ Len(P.ch) = Len(P.sep) + 1
  /\ \A i \in 1 .. Len(P.ch) : Height(s, P.ch[i]) = b.ht - 1
  /\ From(s, P.ch[1]) = b.lo /\ To(s, P.ch[Len(P.ch)]) = b.hi
  /\ \A i \in 1 .. Len(P.sep) :
       P.sep[i] = From(s, P.ch[i + 1]) /\ P.sep[i] = To(s, P.ch[i]) + 1

(* Pages, their spans s and the root pointer r are of the right kinds.     *)
Typed(n, r, x, s) ==
  /\ n \in Nat /\ DOMAIN s = DOMAIN x /\ DOMAIN x \subseteq Nat \ {0}
  /\ x = [m \in DOMAIN x |-> x[m]]
  /\ IsFiniteSet(DOMAIN x)
  /\ \A m \in DOMAIN x :
       /\ x[m].sep \in Seq(1 .. n) /\ x[m].ch \in Seq(PagesOf(n, x))
       /\ s[m].lo \in 1 .. n /\ s[m].hi \in 1 .. n /\ s[m].ht \in Nat \ {0}
       /\ s[m].lo <= s[m].hi
  /\ r \in PagesOf(n, x)

(* Spans that have a data page in common, and a span within another.       *)
Meets(b, c) == b.lo <= c.hi /\ c.lo <= b.hi
Within(b, c) == c.lo <= b.lo /\ b.hi <= c.hi

(* Two index pages that have a data page under both are one under the      *)
(* other, or the same.                                                     *)
Nested(x, s) ==
  \A l, m \in DOMAIN x :
    Meets(s[l], s[m]) /\ s[l].ht <= s[m].ht =>
      Within(s[l], s[m]) /\ (s[l].ht = s[m].ht => l = m)

(* The root spans all data pages and is above every other index page.      *)
Rooted(n, r, x, s) ==
  /\ From(s, r) = 1 /\ To(s, r) = n
  /\ \A m \in DOMAIN x : Index(m) # r => s[m].ht < Height(s, r)

(* The n data pages, in their order, are the leaves of the index pages x   *)
(* under r, each of which is over the data pages that s says.              *)
Laid(n, r, x, s) ==
  /\ Typed(n, r, x, s)
  /\ \A m \in DOMAIN x : Kids(s, x[m], s[m])
  /\ Nested(x, s)
  /\ Rooted(n, r, x, s)

(* A pointer among these is to a data page or to an index page, and is     *)
(* what Data or Index makes of its number.                                 *)
LEMMA PointerKinds ==
  ASSUME NEW n, NEW x, NEW q \in PagesOf(n, x)
  PROVE  \/ q.at = "d" /\ q.no \in 1 .. n /\ q = Data(q.no)
         \/ q.at = "x" /\ q.no \in DOMAIN x /\ q = Index(q.no)
  BY DEF PagesOf, Data, Index

(* What the two kinds of pointers are, span and are high.                  *)
LEMMA Pointing ==
  ASSUME NEW s, NEW j
  PROVE  /\ Data(j).at = "d" /\ Data(j).no = j
         /\ Index(j).at = "x" /\ Index(j).no = j
         /\ From(s, Data(j)) = j /\ To(s, Data(j)) = j /\ Height(s, Data(j)) = 0
         /\ From(s, Index(j)) = s[j].lo /\ To(s, Index(j)) = s[j].hi
         /\ Height(s, Index(j)) = s[j].ht
  BY DEF Data, Index, From, To, Height

(* A page spans a run of data pages and is as high as a number says; only  *)
(* data pages have height 0.                                               *)
LEMMA SpanType ==
  ASSUME NEW n, NEW r, NEW x, NEW s, Typed(n, r, x, s), NEW q \in PagesOf(n, x)
  PROVE  /\ From(s, q) \in 1 .. n /\ To(s, q) \in 1 .. n /\ From(s, q) <= To(s, q)
         /\ Height(s, q) \in Nat
         /\ Height(s, q) = 0 <=> q.at = "d"
         /\ From(s, q) \in Int /\ To(s, q) \in Int
  BY PointerKinds DEF Typed, From, To, Height

(* The types of the parts of an index page of a tree that is laid out.     *)
LEMMA PageType ==
  ASSUME NEW n, NEW r, NEW x, NEW s, Laid(n, r, x, s), NEW m \in DOMAIN x
  PROVE  /\ n \in Nat /\ Typed(n, r, x, s)
         /\ Len(x[m].sep) \in Nat /\ Len(x[m].ch) = Len(x[m].sep) + 1
         /\ DOMAIN x[m].sep = 1 .. Len(x[m].sep)
         /\ DOMAIN x[m].ch = 1 .. Len(x[m].sep) + 1
         /\ \A i \in 1 .. Len(x[m].sep) : x[m].sep[i] \in 1 .. n
         /\ \A i \in 1 .. Len(x[m].sep) + 1 : x[m].ch[i] \in PagesOf(n, x)
         /\ s[m].lo \in Int /\ s[m].hi \in Int /\ s[m].ht \in Nat \ {0}
<1>1. /\ x[m].sep \in Seq(1 .. n) /\ x[m].ch \in Seq(PagesOf(n, x))
      /\ s[m].lo \in 1 .. n /\ s[m].hi \in 1 .. n /\ s[m].ht \in Nat \ {0}
      /\ n \in Nat
  BY DEF Laid, Typed
<1>2. Len(x[m].ch) = Len(x[m].sep) + 1
  BY DEF Laid, Kids
<1>3. Len(x[m].sep) \in Nat
  BY <1>1
<1>4. DOMAIN x[m].sep = 1 .. Len(x[m].sep) /\ \A i \in 1 .. Len(x[m].sep) : x[m].sep[i] \in 1 .. n
  BY <1>1
<1>5. /\ DOMAIN x[m].ch = 1 .. Len(x[m].ch)
      /\ \A i \in 1 .. Len(x[m].ch) : x[m].ch[i] \in PagesOf(n, x)
  BY <1>1
<1> QED
  BY <1>1, <1>2, <1>3, <1>4, <1>5 DEF Laid

(* The children of a page, from left to right.                             *)
LEMMA KidsInOrder ==
  ASSUME NEW n, NEW r, NEW x, NEW s, Laid(n, r, x, s), NEW m \in DOMAIN x
  PROVE  \A i, j \in 1 .. Len(x[m].sep) + 1 :
           i < j => To(s, x[m].ch[i]) < From(s, x[m].ch[j])
<1> DEFINE k == Len(x[m].sep)
           ch == x[m].ch
           good == {w \in 0 .. k : \A i, j \in 1 .. k + 1 :
                       i < j /\ j - i <= w => To(s, ch[i]) < From(s, ch[j])}
<1>1. /\ k \in Nat
      /\ \A i \in 1 .. k + 1 : /\ From(s, ch[i]) \in Int /\ To(s, ch[i]) \in Int
                               /\ From(s, ch[i]) <= To(s, ch[i])
  <2>1. /\ k \in Nat /\ Typed(n, r, x, s)
        /\ \A i \in 1 .. k + 1 : ch[i] \in PagesOf(n, x)
    BY PageType
  <2> HIDE DEF k, ch
  <2> QED
    BY <2>1, SpanType
<1>2. \A i \in 1 .. k : To(s, ch[i]) + 1 = From(s, ch[i + 1])
  BY DEF Laid, Kids
<1> HIDE DEF k, ch
<1>3. 0 \in good
  BY <1>1
<1>4. ASSUME NEW w \in 1 .. k, w - 1 \in good
      PROVE  w \in good
  <2> SUFFICES ASSUME NEW i \in 1 .. k + 1, NEW j \in 1 .. k + 1, i < j, j - i <= w
               PROVE  To(s, ch[i]) < From(s, ch[j])
    BY <1>1
  <2>1. CASE j = i + 1
    <3>1. i \in 1 .. k
      BY <1>1, <2>1
    <3> QED
      BY <1>1, <1>2, <2>1, <3>1
  <2>2. CASE j # i + 1
    <3>1. j - 1 \in 1 .. k /\ i < j - 1 /\ (j - 1) - i <= w - 1 /\ (j - 1) + 1 = j
          /\ j - 1 \in 1 .. k + 1
      BY <1>1, <2>2
    <3>2. To(s, ch[i]) < From(s, ch[j - 1])
      BY <1>4, <3>1
    <3>3. To(s, ch[j - 1]) + 1 = From(s, ch[j])
      BY <1>2, <3>1
    <3> QED
      BY <1>1, <3>1, <3>2, <3>3
  <2> QED
    BY <2>1, <2>2
<1>5. k \in good
  <2> HIDE DEF good
  <2>1. 0 .. k \subseteq good
    BY <1>1, <1>3, <1>4, ReachedBySteps
  <2> QED
    BY <1>1, <2>1
<1>6. ASSUME NEW i \in 1 .. k + 1, NEW j \in 1 .. k + 1, i < j
      PROVE  To(s, ch[i]) < From(s, ch[j])
  <2>1. j - i <= k
    BY <1>1
  <2> QED
    BY <1>5, <1>6, <2>1
<1> QED
  BY <1>6 DEF k, ch

(* A child is over some of the data pages of its parent.                   *)
LEMMA KidsInside ==
  ASSUME NEW n, NEW r, NEW x, NEW s, Laid(n, r, x, s), NEW m \in DOMAIN x,
         NEW i \in 1 .. Len(x[m].sep) + 1
  PROVE  /\ s[m].lo <= From(s, x[m].ch[i]) /\ To(s, x[m].ch[i]) <= s[m].hi
         /\ Height(s, x[m].ch[i]) = s[m].ht - 1
<1> DEFINE k == Len(x[m].sep)
           ch == x[m].ch
<1>1. /\ k \in Nat /\ Len(ch) = k + 1
      /\ \A j \in 1 .. k + 1 : /\ From(s, ch[j]) \in Int /\ To(s, ch[j]) \in Int
                               /\ From(s, ch[j]) <= To(s, ch[j])
  <2>1. /\ k \in Nat /\ Typed(n, r, x, s) /\ Len(ch) = k + 1
        /\ \A j \in 1 .. k + 1 : ch[j] \in PagesOf(n, x)
    BY PageType
  <2> HIDE DEF k, ch
  <2> QED
    BY <2>1, SpanType
<1>2. \A h, j \in 1 .. k + 1 : h < j => To(s, ch[h]) < From(s, ch[j])
  BY KidsInOrder
<1>3. /\ From(s, ch[1]) = s[m].lo /\ To(s, ch[Len(ch)]) = s[m].hi
      /\ \A h \in 1 .. Len(ch) : Height(s, ch[h]) = s[m].ht - 1
  BY DEF Laid, Kids
<1> HIDE DEF k, ch
<1>4. i \in 1 .. k + 1
  BY DEF k
<1>5. s[m].lo <= From(s, ch[i])
  <2>1. 1 \in 1 .. k + 1 /\ (i = 1 \/ 1 < i)
    BY <1>1, <1>4
  <2>2. CASE i = 1
    BY <1>1, <1>3, <2>1, <2>2
  <2>3. CASE 1 < i
    <3>1. To(s, ch[1]) < From(s, ch[i])
      BY <1>2, <1>4, <2>1, <2>3
    <3> QED
      BY <1>1, <1>3, <1>4, <2>1, <3>1
  <2> QED
    BY <2>1, <2>2, <2>3
<1>6. To(s, ch[i]) <= s[m].hi
  <2>1. k + 1 \in 1 .. k + 1 /\ (i = k + 1 \/ i < k + 1)
    BY <1>1, <1>4
  <2>2. CASE i = k + 1
    BY <1>1, <1>3, <2>1, <2>2
  <2>3. CASE i < k + 1
    <3>1. To(s, ch[i]) < From(s, ch[k + 1])
      BY <1>2, <1>4, <2>1, <2>3
    <3> QED
      BY <1>1, <1>3, <1>4, <2>1, <3>1
  <2> QED
    BY <2>1, <2>2, <2>3
<1> QED
  BY <1>1, <1>3, <1>4, <1>5, <1>6 DEF k, ch

(* The separators of an index page ascend.                                 *)
LEMMA SepsInOrder ==
  ASSUME NEW n, NEW r, NEW x, NEW s, Laid(n, r, x, s), NEW m \in DOMAIN x
  PROVE  \A i, j \in 1 .. Len(x[m].sep) : i < j => x[m].sep[i] < x[m].sep[j]
<1> SUFFICES ASSUME NEW i \in 1 .. Len(x[m].sep), NEW j \in 1 .. Len(x[m].sep), i < j
             PROVE  x[m].sep[i] < x[m].sep[j]
  OBVIOUS
<1> DEFINE k == Len(x[m].sep)
           ch == x[m].ch
<1>1. /\ k \in Nat /\ Typed(n, r, x, s)
      /\ \A h \in 1 .. k + 1 : ch[h] \in PagesOf(n, x)
      /\ i \in 1 .. k /\ j \in 1 .. k
  BY PageType
<1>2. x[m].sep[i] = From(s, ch[i + 1]) /\ x[m].sep[j] = From(s, ch[j + 1])
  BY DEF Laid, Kids
<1>3. \A h, l \in 1 .. k + 1 : h < l => To(s, ch[h]) < From(s, ch[l])
  BY KidsInOrder
<1> HIDE DEF k, ch
<1>4. i + 1 \in 1 .. k + 1 /\ j + 1 \in 1 .. k + 1 /\ i + 1 < j + 1
  BY <1>1
<1>5. /\ From(s, ch[i + 1]) \in Int /\ To(s, ch[i + 1]) \in Int /\ From(s, ch[j + 1]) \in Int
      /\ From(s, ch[i + 1]) <= To(s, ch[i + 1])
  BY <1>1, <1>4, SpanType
<1>6. To(s, ch[i + 1]) < From(s, ch[j + 1])
  BY <1>3, <1>4
<1> QED
  BY <1>2, <1>5, <1>6

(* No page is a child of two, nor twice of one.                            *)
LEMMA OneParent ==
  ASSUME NEW n, NEW r, NEW x, NEW s, Laid(n, r, x, s),
         NEW l \in DOMAIN x, NEW i \in 1 .. Len(x[l].sep) + 1,
         NEW m \in DOMAIN x, NEW j \in 1 .. Len(x[m].sep) + 1,
         x[l].ch[i] = x[m].ch[j]
  PROVE  l = m /\ i = j
<1> DEFINE q == x[l].ch[i]
<1>1. /\ q \in PagesOf(n, x) /\ Typed(n, r, x, s)
      /\ s[l].lo \in Int /\ s[l].hi \in Int /\ s[l].ht \in Nat
      /\ s[m].lo \in Int /\ s[m].hi \in Int /\ s[m].ht \in Nat
      /\ Len(x[l].sep) \in Nat
  BY PageType
<1>2. /\ From(s, q) \in Int /\ To(s, q) \in Int /\ From(s, q) <= To(s, q) /\ Height(s, q) \in Nat
  BY <1>1, SpanType
<1>3. /\ s[l].lo <= From(s, q) /\ To(s, q) <= s[l].hi /\ Height(s, q) = s[l].ht - 1
  BY KidsInside
<1>4. /\ s[m].lo <= From(s, q) /\ To(s, q) <= s[m].hi /\ Height(s, q) = s[m].ht - 1
  BY KidsInside
<1> HIDE DEF q
<1>5. s[l].lo <= s[m].hi /\ s[m].lo <= s[l].hi /\ s[l].ht = s[m].ht /\ s[l].ht <= s[m].ht
  <2> DEFINE f == From(s, q)
             t == To(s, q)
             h == Height(s, q)
             lo1 == s[l].lo
             hi1 == s[l].hi
             ht1 == s[l].ht
             lo2 == s[m].lo
             hi2 == s[m].hi
             ht2 == s[m].ht
  <2>1. /\ lo1 \in Int /\ hi1 \in Int /\ ht1 \in Int /\ lo2 \in Int /\ hi2 \in Int
        /\ ht2 \in Int /\ f \in Int /\ t \in Int /\ h \in Int
    BY <1>1, <1>2
  <2>2. /\ f <= t /\ lo1 <= f /\ t <= hi1 /\ h = ht1 - 1 /\ lo2 <= f /\ t <= hi2 /\ h = ht2 - 1
    BY <1>2, <1>3, <1>4
  <2> HIDE DEF f, t, h, lo1, hi1, ht1, lo2, hi2, ht2
  <2>3. lo1 <= hi2 /\ lo2 <= hi1 /\ ht1 = ht2 /\ ht1 <= ht2
    BY <2>1, <2>2
  <2> QED
    BY <2>3 DEF lo1, hi1, ht1, lo2, hi2, ht2
<1>6. l = m
  BY <1>5 DEF Laid, Nested, Meets
<1>7. \A h, k \in 1 .. Len(x[l].sep) + 1 : h < k => To(s, x[l].ch[h]) < From(s, x[l].ch[k])
  BY KidsInOrder
<1>8. x[l].ch[i] = q /\ x[l].ch[j] = q
  BY <1>6 DEF q
<1>9. i \in 1 .. Len(x[l].sep) + 1 /\ j \in 1 .. Len(x[l].sep) + 1
  BY <1>6
<1>10. ~ (i < j) /\ ~ (j < i)
  BY <1>2, <1>7, <1>8, <1>9
<1>11. i = j
  <2>1. i \in Int /\ j \in Int
    BY <1>1, <1>9
  <2> QED
    BY <1>10, <2>1
<1> QED
  BY <1>6, <1>11

(* InsertAt, before, at and behind the place.                              *)
LEMMA InsertedPlaces ==
  ASSUME NEW X, NEW s \in Seq(X), NEW e \in X, NEW h \in 1 .. Len(s) + 1
  PROVE  /\ \A j \in 1 .. h - 1 : InsertAt(s, h, e)[j] = s[j]
         /\ InsertAt(s, h, e)[h] = e
         /\ \A j \in h .. Len(s) : InsertAt(s, h, e)[j + 1] = s[j]
<1>1. ASSUME NEW j \in 1 .. Len(s) + 1
      PROVE  InsertAt(s, h, e)[j] = IF j < h THEN s[j] ELSE IF j = h THEN e ELSE s[j - 1]
  BY Inserted
<1>2. ASSUME NEW j \in 1 .. h - 1 PROVE InsertAt(s, h, e)[j] = s[j]
  <2>1. j \in 1 .. Len(s) + 1 /\ j < h
    OBVIOUS
  <2> QED
    BY <1>1, <2>1
<1>3. InsertAt(s, h, e)[h] = e
  BY <1>1
<1>4. ASSUME NEW j \in h .. Len(s) PROVE InsertAt(s, h, e)[j + 1] = s[j]
  <2>1. j + 1 \in 1 .. Len(s) + 1 /\ ~ (j + 1 < h) /\ j + 1 # h /\ (j + 1) - 1 = j
    OBVIOUS
  <2> QED
    BY <1>1, <2>1
<1> QED
  BY <1>2, <1>3, <1>4

(* The same, with the place counted from 0.                                *)
LEMMA InsertedParts ==
  ASSUME NEW X, NEW s \in Seq(X), NEW n \in Nat, Len(s) = n, NEW e \in X, NEW i \in 0 .. n,
         NEW t, t = InsertAt(s, i + 1, e)
  PROVE  /\ t \in Seq(X) /\ Len(t) = n + 1
         /\ \A j \in 1 .. i : t[j] = s[j]
         /\ t[i + 1] = e
         /\ \A j \in i + 1 .. n : t[j + 1] = s[j]
<1> DEFINE h == i + 1
<1>1. h \in 1 .. Len(s) + 1
  OBVIOUS
<1>2. t = InsertAt(s, h, e) /\ h - 1 = i
  OBVIOUS
<1> HIDE DEF h
<1>3. t \in Seq(X) /\ Len(t) = n + 1
  BY <1>1, <1>2, Inserted
<1>4. /\ \A j \in 1 .. h - 1 : InsertAt(s, h, e)[j] = s[j]
      /\ InsertAt(s, h, e)[h] = e
      /\ \A j \in h .. Len(s) : InsertAt(s, h, e)[j + 1] = s[j]
  BY <1>1, InsertedPlaces
<1>5. /\ \A j \in 1 .. i : t[j] = s[j]
      /\ t[h] = e
      /\ \A j \in h .. n : t[j + 1] = s[j]
  BY <1>2, <1>4
<1> QED
  BY <1>3, <1>5 DEF h

(* t is the n values of s without the one after the first i.               *)
TakenOut(X, s, n, i, t) ==
  /\ t \in Seq(X) /\ Len(t) = n - 1
  /\ \A j \in 1 .. i : t[j] = s[j]
  /\ \A j \in i + 1 .. n - 1 : t[j] = s[j + 1]

(* RemoveAt, before and behind the place, counted from 0.                  *)
LEMMA RemovedParts ==
  ASSUME NEW X, NEW s \in Seq(X), NEW n \in Nat, Len(s) = n, NEW i \in 0 .. n - 1
  PROVE  TakenOut(X, s, n, i, RemoveAt(s, i + 1))
<1> DEFINE h == i + 1
           t == RemoveAt(s, h)
<1>1. h \in 1 .. Len(s) /\ h = i + 1
  OBVIOUS
<1> HIDE DEF h
<1>2. t \in Seq(X) /\ Len(t) = n - 1
  BY <1>1, Removed
<1>3. ASSUME NEW j \in 1 .. Len(s) - 1
      PROVE  t[j] = IF j < h THEN s[j] ELSE s[j + 1]
  BY <1>1, Removed
<1> HIDE DEF t
<1>4. ASSUME NEW j \in 1 .. i PROVE t[j] = s[j]
  <2>1. j \in 1 .. Len(s) - 1 /\ j < h
    BY <1>1
  <2> QED
    BY <1>3, <2>1
<1>5. ASSUME NEW j \in i + 1 .. n - 1 PROVE t[j] = s[j + 1]
  <2>1. j \in 1 .. Len(s) - 1 /\ ~ (j < h)
    BY <1>1
  <2> QED
    BY <1>3, <2>1
<1>6. TakenOut(X, s, n, i, t)
  BY <1>2, <1>4, <1>5 DEF TakenOut
<1> QED
  BY <1>6 DEF t, h

(* P is U with separator d, and the child c after it, put in at pi.        *)
PutPage(A, B, U, k, pi, d, c, P) ==
  /\ P.sep \in Seq(A) /\ Len(P.sep) = k + 1
  /\ \A i \in 1 .. pi : P.sep[i] = U.sep[i]
  /\ P.sep[pi + 1] = d
  /\ \A i \in pi + 1 .. k : P.sep[i + 1] = U.sep[i]
  /\ P.ch \in Seq(B) /\ Len(P.ch) = k + 2
  /\ \A i \in 1 .. pi + 1 : P.ch[i] = U.ch[i]
  /\ P.ch[pi + 2] = c
  /\ \A i \in pi + 2 .. k + 1 : P.ch[i + 1] = U.ch[i]

(* What XInsert does to the two sequences of an index page.                *)
LEMMA XInserted ==
  ASSUME NEW A, NEW B, NEW U, U.sep \in Seq(A), U.ch \in Seq(B),
         NEW k \in Nat, Len(U.sep) = k, Len(U.ch) = k + 1, NEW pi \in 0 .. k,
         NEW d \in A, NEW c \in B, NEW P, P = XInsert(U, pi, d, c)
  PROVE  PutPage(A, B, U, k, pi, d, c, P)
<1> DEFINE j == pi + 1
           l == k + 1
<1>1. P.sep = InsertAt(U.sep, pi + 1, d) /\ P.ch = InsertAt(U.ch, j + 1, c)
  <2>1. pi + 2 = (pi + 1) + 1
    OBVIOUS
  <2> QED
    BY <2>1 DEF XInsert
<1>2. /\ P.sep \in Seq(A) /\ Len(P.sep) = k + 1
      /\ \A i \in 1 .. pi : P.sep[i] = U.sep[i]
      /\ P.sep[pi + 1] = d
      /\ \A i \in pi + 1 .. k : P.sep[i + 1] = U.sep[i]
  BY <1>1, InsertedParts
<1>3. j \in 0 .. l /\ l \in Nat /\ Len(U.ch) = l
  OBVIOUS
<1>4. /\ P.ch \in Seq(B) /\ Len(P.ch) = l + 1
      /\ \A i \in 1 .. j : P.ch[i] = U.ch[i]
      /\ P.ch[j + 1] = c
      /\ \A i \in j + 1 .. l : P.ch[i + 1] = U.ch[i]
  <2> HIDE DEF j, l
  <2> QED
    BY <1>1, <1>3, InsertedParts
<1>5. j = pi + 1 /\ j + 1 = pi + 2 /\ l = k + 1 /\ l + 1 = k + 2
  OBVIOUS
<1> HIDE DEF j, l
<1> QED
  BY <1>2, <1>4, <1>5 DEF PutPage

-----------------------------------------------------------------------------
(* Splitting a data page.                                                  *)

-----------------------------------------------------------------------------
(* A data page that is split.                                              *)

(* Where page j goes when a page is linked in behind q: as the first and   *)
(* as the last of a run, with a pointer c, in an index page P, and in the  *)
(* spans.                                                                  *)
Up(q, j) == IF j > q THEN j + 1 ELSE j
UpTo(q, j) == IF j >= q THEN j + 1 ELSE j
MovedUp(q, c) == IF c.at = "d" THEN Data(Up(q, c.no)) ELSE c
PageUp(q, P) ==
  [sep |-> [j \in DOMAIN P.sep |-> Up(q, P.sep[j])],
   ch  |-> [j \in DOMAIN P.ch |-> MovedUp(q, P.ch[j])]]
SpansUp(q, s) ==
  [m \in DOMAIN s |-> [lo |-> Up(q, s[m].lo), hi |-> UpTo(q, s[m].hi), ht |-> s[m].ht]]

(* Where the ends of a run of data pages go when page q is split.          *)
LEMMA UpType ==
  ASSUME NEW n \in Nat, NEW q \in 1 .. n, NEW j \in 1 .. n
  PROVE  /\ Up(q, j) \in 1 .. n + 1 /\ UpTo(q, j) \in 1 .. n + 1
         /\ Up(q, j) \in Int /\ UpTo(q, j) \in Int
         /\ j < q => Up(q, j) = j /\ UpTo(q, j) = j
         /\ j > q => Up(q, j) = j + 1 /\ UpTo(q, j) = j + 1
         /\ j = q => Up(q, j) = j /\ UpTo(q, j) = j + 1
  BY DEF Up, UpTo

(* A pointer spans, when page q is split, what it spanned, and both halves *)
(* of q if q was in it; a pointer to q itself spans the left half.         *)
LEMMA MovedUpSpan ==
  ASSUME NEW n, NEW r, NEW x, NEW s, Typed(n, r, x, s), NEW q \in 1 .. n,
         NEW c \in PagesOf(n, x), NEW y, DOMAIN y = DOMAIN x
  PROVE  /\ MovedUp(q, c) \in PagesOf(n + 1, y)
         /\ From(SpansUp(q, s), MovedUp(q, c)) = Up(q, From(s, c))
         /\ To(SpansUp(q, s), MovedUp(q, c)) = IF c = Data(q) THEN q ELSE UpTo(q, To(s, c))
         /\ Height(SpansUp(q, s), MovedUp(q, c)) = Height(s, c)
<1>1. n \in Nat /\ DOMAIN s = DOMAIN x
  BY DEF Typed
<1>2. CASE c.at = "d" /\ c.no \in 1 .. n /\ c = Data(c.no)
  <2> DEFINE j == c.no
  <2>1. j \in 1 .. n /\ c = Data(j)
    BY <1>2
  <2>2. MovedUp(q, c) = Data(Up(q, j))
    BY <1>2 DEF MovedUp
  <2> HIDE DEF j
  <2>3. Up(q, j) \in 1 .. n + 1 /\ (j = q => Up(q, j) = q) /\ (j # q => Up(q, j) = UpTo(q, j))
    <3>1. j \in Int /\ q \in Int
      BY <1>1, <2>1
    <3> QED
      BY <1>1, <2>1, <3>1, UpType
  <2>4. Data(Up(q, j)) \in PagesOf(n + 1, y)
    BY <2>3 DEF PagesOf
  <2>5. c = Data(q) <=> j = q
    BY <2>1 DEF Data
  <2> QED
    BY <2>1, <2>2, <2>3, <2>4, <2>5, Pointing
<1>3. CASE c.at = "x" /\ c.no \in DOMAIN x /\ c = Index(c.no)
  <2> DEFINE m == c.no
  <2>1. m \in DOMAIN x /\ c = Index(m) /\ MovedUp(q, c) = c /\ c # Data(q)
    BY <1>3, Pointing DEF MovedUp
  <2> HIDE DEF m
  <2>2. Index(m) \in PagesOf(n + 1, y)
    BY <2>1 DEF PagesOf
  <2>3. SpansUp(q, s)[m] = [lo |-> Up(q, s[m].lo), hi |-> UpTo(q, s[m].hi), ht |-> s[m].ht]
    BY <1>1, <2>1 DEF SpansUp
  <2> QED
    BY <2>1, <2>2, <2>3, Pointing
<1> QED
  BY <1>2, <1>3, PointerKinds

(* The parts of an index page whose pointers are renumbered for the split  *)
(* of data page q.                                                         *)
LEMMA PageUpShape ==
  ASSUME NEW n, NEW r, NEW x, NEW s, Laid(n, r, x, s), NEW q \in 1 .. n, NEW m \in DOMAIN x,
         NEW y, DOMAIN y = DOMAIN x
  PROVE  LET P == PageUp(q, x[m])
             k == Len(x[m].sep)
         IN  /\ P.sep \in Seq(1 .. n + 1) /\ P.ch \in Seq(PagesOf(n + 1, y))
             /\ Len(P.sep) = k /\ Len(P.ch) = k + 1
             /\ \A i \in 1 .. k : P.sep[i] = Up(q, x[m].sep[i])
             /\ \A i \in 1 .. k + 1 : P.ch[i] = MovedUp(q, x[m].ch[i])
<1> DEFINE sep == x[m].sep
           ch == x[m].ch
           k == Len(sep)
<1>1. /\ n \in Nat /\ Typed(n, r, x, s) /\ k \in Nat /\ DOMAIN sep = 1 .. k /\ DOMAIN ch = 1 .. k + 1
      /\ (\A i \in 1 .. k : sep[i] \in 1 .. n) /\ (\A i \in 1 .. k + 1 : ch[i] \in PagesOf(n, x))
  BY PageType
<1>2. PageUp(q, x[m]).sep = [i \in 1 .. k |-> Up(q, sep[i])]
  BY <1>1 DEF PageUp
<1>3. PageUp(q, x[m]).ch = [i \in 1 .. k + 1 |-> MovedUp(q, ch[i])]
  BY <1>1 DEF PageUp
<1> HIDE DEF sep, ch, k
<1>4. \A i \in 1 .. k : Up(q, sep[i]) \in 1 .. n + 1
  BY <1>1, UpType
<1>5. \A i \in 1 .. k + 1 : MovedUp(q, ch[i]) \in PagesOf(n + 1, y)
  BY <1>1, MovedUpSpan
<1> DEFINE S == [i \in 1 .. k |-> Up(q, sep[i])]
           C == [i \in 1 .. k + 1 |-> MovedUp(q, ch[i])]
<1>6. S \in Seq(1 .. n + 1) /\ Len(S) = k /\ \A i \in 1 .. k : S[i] = Up(q, sep[i])
  BY <1>1, <1>4
<1>7. C \in Seq(PagesOf(n + 1, y)) /\ Len(C) = k + 1 /\ \A i \in 1 .. k + 1 : C[i] = MovedUp(q, ch[i])
  BY <1>1, <1>5
<1> HIDE DEF S, C
<1> QED
  BY <1>2, <1>3, <1>6, <1>7 DEF S, C, sep, ch, k

(* A page none of whose children is split.                                 *)
LEMMA KidsUp ==
  ASSUME NEW n, NEW r, NEW x, NEW s, Laid(n, r, x, s), NEW q \in 1 .. n, NEW m \in DOMAIN x,
         \A i \in 1 .. Len(x[m].sep) + 1 : x[m].ch[i] # Data(q)
  PROVE  Kids(SpansUp(q, s), PageUp(q, x[m]), SpansUp(q, s)[m])
<1> DEFINE sep == x[m].sep
           ch == x[m].ch
           k == Len(sep)
           S == SpansUp(q, s)
           P == PageUp(q, x[m])
<1>1. /\ n \in Nat /\ Typed(n, r, x, s) /\ k \in Nat /\ Len(ch) = k + 1
      /\ (\A i \in 1 .. k : sep[i] \in 1 .. n) /\ (\A i \in 1 .. k + 1 : ch[i] \in PagesOf(n, x))
      /\ m \in DOMAIN s
  BY PageType DEF Typed
<1>2. /\ Len(P.sep) = k /\ Len(P.ch) = k + 1
      /\ \A i \in 1 .. k : P.sep[i] = Up(q, sep[i])
      /\ \A i \in 1 .. k + 1 : P.ch[i] = MovedUp(q, ch[i])
  BY PageUpShape
<1>3. \A i \in 1 .. k + 1 :
        /\ From(S, P.ch[i]) = Up(q, From(s, ch[i]))
        /\ To(S, P.ch[i]) = UpTo(q, To(s, ch[i]))
        /\ Height(S, P.ch[i]) = Height(s, ch[i])
  <2>1. \A i \in 1 .. k + 1 : ch[i] # Data(q)
    OBVIOUS
  <2> HIDE DEF P, S, ch, k
  <2> QED
    BY <1>1, <1>2, <2>1, MovedUpSpan DEF S
<1>4. S[m].lo = Up(q, s[m].lo) /\ S[m].hi = UpTo(q, s[m].hi) /\ S[m].ht = s[m].ht
  BY <1>1 DEF SpansUp
<1>5. /\ \A i \in 1 .. k + 1 : Height(s, ch[i]) = s[m].ht - 1
      /\ From(s, ch[1]) = s[m].lo /\ To(s, ch[k + 1]) = s[m].hi
      /\ \A i \in 1 .. k : sep[i] = From(s, ch[i + 1]) /\ sep[i] = To(s, ch[i]) + 1
  BY <1>1 DEF Laid, Kids
<1>6. ASSUME NEW i \in 1 .. k
      PROVE  P.sep[i] = From(S, P.ch[i + 1]) /\ P.sep[i] = To(S, P.ch[i]) + 1
  <2> HIDE DEF sep, ch, k, S, P
  <2>1. i \in 1 .. k + 1 /\ i + 1 \in 1 .. k + 1
    BY <1>1
  <2>2. P.sep[i] = From(S, P.ch[i + 1])
    BY <1>2, <1>3, <1>5, <2>1
  <2> DEFINE f == sep[i]
             t == To(s, ch[i])
  <2>3. f \in 1 .. n /\ t \in 1 .. n /\ f = t + 1
    BY <1>1, <1>5, <2>1, SpanType
  <2> HIDE DEF f, t
  <2>4. Up(q, f) = UpTo(q, t) + 1
    BY <1>1, <2>3 DEF Up, UpTo
  <2> QED
    BY <1>2, <1>3, <2>1, <2>2, <2>4 DEF f, t
<1> HIDE DEF sep, ch, k, S, P
<1>7. 1 \in 1 .. k + 1 /\ k + 1 \in 1 .. k + 1
  BY <1>1
<1>8. From(S, P.ch[1]) = S[m].lo /\ To(S, P.ch[k + 1]) = S[m].hi
  BY <1>3, <1>4, <1>5, <1>7
<1>9. \A i \in 1 .. k + 1 : Height(S, P.ch[i]) = S[m].ht - 1
  BY <1>3, <1>4, <1>5
<1>10. Kids(S, P, S[m])
  BY <1>1, <1>2, <1>6, <1>8, <1>9 DEF Kids
<1> QED
  BY <1>10 DEF S, P

(* The page whose child pi is split: q keeps the left half.                *)
LEMMA KidsSplit ==
  ASSUME NEW n, NEW r, NEW x, NEW s, Laid(n, r, x, s), NEW q \in 1 .. n, NEW p \in DOMAIN x,
         NEW pi \in 0 .. Len(x[p].sep), x[p].ch[pi + 1] = Data(q),
         NEW y, DOMAIN y = DOMAIN x, NEW P, P = XInsert(PageUp(q, x[p]), pi, q + 1, Data(q + 1))
  PROVE  /\ Kids(SpansUp(q, s), P, SpansUp(q, s)[p])
         /\ P.sep \in Seq(1 .. n + 1) /\ P.ch \in Seq(PagesOf(n + 1, y))
<1> DEFINE sep == x[p].sep
           ch == x[p].ch
           k == Len(sep)
           S == SpansUp(q, s)
           U == PageUp(q, x[p])
<1>1. /\ n \in Nat /\ Typed(n, r, x, s) /\ k \in Nat /\ Len(ch) = k + 1
      /\ (\A i \in 1 .. k : sep[i] \in 1 .. n) /\ (\A i \in 1 .. k + 1 : ch[i] \in PagesOf(n, x))
      /\ p \in DOMAIN s
  BY PageType DEF Typed
<1>2. /\ U.sep \in Seq(1 .. n + 1) /\ U.ch \in Seq(PagesOf(n + 1, y))
      /\ Len(U.sep) = k /\ Len(U.ch) = k + 1
      /\ \A i \in 1 .. k : U.sep[i] = Up(q, sep[i])
      /\ \A i \in 1 .. k + 1 : U.ch[i] = MovedUp(q, ch[i])
  BY PageUpShape
<1>3. pi \in 0 .. k /\ ch[pi + 1] = Data(q)
  OBVIOUS
<1>4. /\ \A i \in 1 .. k + 1 : Height(s, ch[i]) = s[p].ht - 1
      /\ From(s, ch[1]) = s[p].lo /\ To(s, ch[k + 1]) = s[p].hi
      /\ \A i \in 1 .. k : sep[i] = From(s, ch[i + 1]) /\ sep[i] = To(s, ch[i]) + 1
  BY <1>1 DEF Laid, Kids
<1>5. \A i, j \in 1 .. k + 1 : i < j => To(s, ch[i]) < From(s, ch[j])
  BY KidsInOrder
<1>6. S[p].lo = Up(q, s[p].lo) /\ S[p].hi = UpTo(q, s[p].hi) /\ S[p].ht = s[p].ht
  BY <1>1 DEF SpansUp
<1>7. P.sep = InsertAt(U.sep, pi + 1, q + 1) /\ P.ch = InsertAt(U.ch, pi + 2, Data(q + 1))
  BY DEF XInsert
<1>8. \A c \in PagesOf(n, x) :
        /\ MovedUp(q, c) \in PagesOf(n + 1, y)
        /\ From(S, MovedUp(q, c)) = Up(q, From(s, c))
        /\ To(S, MovedUp(q, c)) = IF c = Data(q) THEN q ELSE UpTo(q, To(s, c))
        /\ Height(S, MovedUp(q, c)) = Height(s, c)
  <2> HIDE DEF S
  <2> QED
    BY <1>1, MovedUpSpan DEF S
<1> HIDE DEF sep, ch, k, S, U
<1>9. /\ P.sep \in Seq(1 .. n + 1) /\ Len(P.sep) = k + 1
      /\ \A i \in 1 .. pi : P.sep[i] = U.sep[i]
      /\ P.sep[pi + 1] = q + 1
      /\ \A i \in pi + 1 .. k : P.sep[i + 1] = U.sep[i]
      /\ P.ch \in Seq(PagesOf(n + 1, y)) /\ Len(P.ch) = k + 2
      /\ \A i \in 1 .. pi + 1 : P.ch[i] = U.ch[i]
      /\ P.ch[pi + 2] = Data(q + 1)
      /\ \A i \in pi + 2 .. k + 1 : P.ch[i + 1] = U.ch[i]
  <2> DEFINE A == 1 .. n + 1
             B == PagesOf(n + 1, y)
             d == q + 1
             c == Data(d)
  <2>1. d \in A /\ c \in B
    BY <1>1 DEF PagesOf
  <2>2. U.sep \in Seq(A) /\ U.ch \in Seq(B) /\ P = XInsert(U, pi, d, c)
    BY <1>2 DEF U
  <2> HIDE DEF A, B, d, c
  <2>4. k \in Nat /\ Len(U.sep) = k /\ Len(U.ch) = k + 1 /\ pi \in 0 .. k
    BY <1>1, <1>2, <1>3
  <2>3. PutPage(A, B, U, k, pi, d, c, P)
    BY <2>1, <2>2, <2>4, XInserted
  <2> QED
    BY <2>3 DEF PutPage, A, B, d, c
<1> DEFINE f == [i \in 1 .. k + 1 |-> From(s, ch[i])]
           t == [i \in 1 .. k + 1 |-> To(s, ch[i])]
<1>10. /\ f \in [1 .. k + 1 -> 1 .. n] /\ t \in [1 .. k + 1 -> 1 .. n]
       /\ \A i \in 1 .. k + 1 : f[i] <= t[i]
       /\ \A i, j \in 1 .. k + 1 : i < j => t[i] < f[j]
       /\ \A i \in 1 .. k : sep[i] = f[i + 1] /\ sep[i] = t[i] + 1
       /\ \A i \in 1 .. k + 1 : f[i] = From(s, ch[i]) /\ t[i] = To(s, ch[i])
       /\ s[p].lo = f[1] /\ s[p].hi = t[k + 1]
  <2>1. \A i \in 1 .. k + 1 : /\ From(s, ch[i]) \in 1 .. n /\ To(s, ch[i]) \in 1 .. n
                               /\ From(s, ch[i]) <= To(s, ch[i])
    BY <1>1, SpanType
  <2>2. 1 \in 1 .. k + 1 /\ k + 1 \in 1 .. k + 1 /\ \A i \in 1 .. k : i \in 1 .. k + 1 /\ i + 1 \in 1 .. k + 1
    BY <1>1
  <2> QED
    BY <1>4, <1>5, <2>1, <2>2
<1>11. f[pi + 1] = q /\ t[pi + 1] = q /\ Height(s, ch[pi + 1]) = 0 /\ pi + 1 \in 1 .. k + 1
  <2>1. pi + 1 \in 1 .. k + 1
    BY <1>1, <1>3
  <2> QED
    BY <1>3, <1>10, <2>1, Pointing
<1> HIDE DEF f, t
(* The children before the one that is split stay where they are.          *)
<1>12. ASSUME NEW i \in 1 .. pi + 1
       PROVE  /\ From(S, P.ch[i]) = f[i] /\ To(S, P.ch[i]) = t[i]
              /\ Height(S, P.ch[i]) = Height(s, ch[i])
  <2>1. i \in 1 .. k + 1
    BY <1>1, <1>3
  <2>2. P.ch[i] = MovedUp(q, ch[i])
    BY <1>2, <1>9, <2>1
  <2>3. CASE i = pi + 1
    <3>1. Up(q, q) = q
      BY DEF Up
    <3>2. ch[i] \in PagesOf(n, x) /\ ch[i] = Data(q) /\ f[i] = q /\ t[i] = q /\ From(s, ch[i]) = q
      BY <1>1, <1>3, <1>10, <1>11, <2>1, <2>3
    <3>3. From(S, MovedUp(q, ch[i])) = q /\ To(S, MovedUp(q, ch[i])) = q
      BY <1>8, <3>1, <3>2
    <3>4. Height(S, MovedUp(q, ch[i])) = Height(s, ch[i])
      BY <1>8, <3>2
    <3> QED
      BY <2>2, <3>2, <3>3, <3>4
  <2>4. CASE i # pi + 1
    <3>1. i < pi + 1
      BY <1>3, <2>1, <2>4
    <3>2. t[i] < q /\ f[i] < q
      <4>1. t[i] < q /\ f[i] <= t[i] /\ t[i] \in 1 .. n /\ f[i] \in 1 .. n
        BY <1>10, <1>11, <2>1, <3>1
      <4> QED
        BY <4>1
    <3>3. Up(q, f[i]) = f[i] /\ UpTo(q, t[i]) = t[i]
      BY <1>1, <1>10, <2>1, <3>2, UpType
    <3>4. ch[i] # Data(q)
      BY <1>10, <2>1, <3>2, Pointing
    <3> QED
      BY <1>1, <1>8, <1>10, <2>1, <2>2, <3>3, <3>4
  <2> QED
    BY <2>3, <2>4
(* Those behind it are one place further on.                               *)
<1>13. ASSUME NEW i \in pi + 1 .. k + 1
       PROVE  /\ From(S, P.ch[i + 1]) = f[i] + 1 /\ To(S, P.ch[i + 1]) = t[i] + 1
              /\ Height(S, P.ch[i + 1]) = Height(s, ch[i])
  <2>1. i \in 1 .. k + 1
    BY <1>1, <1>3
  <2>3. CASE i = pi + 1
    <3>1. P.ch[i + 1] = Data(q + 1)
      <4>1. (pi + 1) + 1 = pi + 2
        BY <1>3
      <4> QED
        BY <1>9, <2>3, <4>1
    <3> QED
      BY <1>11, <2>3, <3>1, Pointing
  <2>4. CASE i # pi + 1
    <3>1. pi + 1 < i /\ i \in pi + 2 .. k + 1
      BY <1>3, <2>1, <2>4
    <3>2. P.ch[i + 1] = MovedUp(q, ch[i])
      BY <1>2, <1>9, <2>1, <3>1
    <3>3. q < t[i] /\ q < f[i] /\ t[i] \in 1 .. n /\ f[i] \in 1 .. n
      <4>1. q < f[i] /\ f[i] <= t[i] /\ t[i] \in 1 .. n /\ f[i] \in 1 .. n
        BY <1>10, <1>11, <2>1, <3>1
      <4> QED
        BY <4>1
    <3>4. Up(q, f[i]) = f[i] + 1 /\ UpTo(q, t[i]) = t[i] + 1
      BY <3>3 DEF Up, UpTo
    <3>5. ch[i] # Data(q)
      BY <1>10, <2>1, <3>3, Pointing
    <3> QED
      BY <1>1, <1>8, <1>10, <2>1, <3>2, <3>4, <3>5
  <2> QED
    BY <2>3, <2>4
<1>14. /\ \A i \in 1 .. pi : P.sep[i] = sep[i]
       /\ \A i \in pi + 1 .. k : P.sep[i + 1] = sep[i] + 1
  <2>1. ASSUME NEW i \in 1 .. pi PROVE P.sep[i] = sep[i]
    <3>1. i \in 1 .. k /\ i + 1 \in 1 .. pi + 1 /\ i \in 1 .. k + 1 /\ i < pi + 1
      BY <1>1, <1>3
    <3>2. sep[i] \in 1 .. n /\ sep[i] <= q
      <4>1. sep[i] = f[i + 1] /\ i + 1 \in 1 .. k + 1 /\ f[i + 1] \in 1 .. n
        BY <1>1, <1>3, <1>10, <3>1
      <4>2. CASE i = pi
        BY <1>11, <4>1, <4>2
      <4>3. CASE i # pi
        <5>1. i + 1 < pi + 1 /\ pi + 1 \in 1 .. k + 1
          BY <1>11, <3>1, <4>3
        <5>2. f[i + 1] <= t[i + 1] /\ t[i + 1] < f[pi + 1] /\ t[i + 1] \in 1 .. n
          BY <1>10, <4>1, <5>1
        <5> QED
          BY <1>11, <4>1, <5>2
      <4> QED
        BY <4>2, <4>3
    <3>3. Up(q, sep[i]) = sep[i]
      BY <3>2 DEF Up
    <3>4. P.sep[i] = Up(q, sep[i])
      BY <1>2, <1>9, <3>1
    <3> QED
      BY <3>3, <3>4
  <2>2. ASSUME NEW i \in pi + 1 .. k PROVE P.sep[i + 1] = sep[i] + 1
    <3>1. i \in 1 .. k /\ i + 1 \in 1 .. k + 1 /\ pi + 1 < i + 1
      BY <1>1, <1>3
    <3>2. sep[i] \in 1 .. n /\ sep[i] > q
      <4>1. sep[i] = f[i + 1] /\ i + 1 \in 1 .. k + 1 /\ f[i + 1] \in 1 .. n
        BY <1>1, <1>10, <3>1
      <4>2. t[pi + 1] < f[i + 1]
        BY <1>10, <1>11, <3>1
      <4> QED
        BY <1>11, <4>1, <4>2
    <3>3. Up(q, sep[i]) = sep[i] + 1
      <4> DEFINE v == sep[i]
      <4>1. v \in 1 .. n /\ v > q /\ q \in 1 .. n /\ n \in Nat
        BY <1>1, <3>2
      <4> HIDE DEF v
      <4>2. ~ (v <= q)
        BY <4>1
      <4> QED
        BY <4>1, <4>2 DEF Up, v
    <3>4. P.sep[i + 1] = Up(q, sep[i])
      BY <1>2, <1>9, <3>1
    <3> QED
      BY <3>3, <3>4
  <2> QED
    BY <2>1, <2>2
<1>15. ASSUME NEW i \in 1 .. k + 1
       PROVE  P.sep[i] = From(S, P.ch[i + 1]) /\ P.sep[i] = To(S, P.ch[i]) + 1
  <2>1. CASE i <= pi
    <3>1. i \in 1 .. pi /\ i \in 1 .. pi + 1 /\ i + 1 \in 1 .. pi + 1 /\ i \in 1 .. k
      BY <1>1, <1>3, <2>1
    <3> QED
      BY <1>10, <1>12, <1>14, <3>1
  <2>2. CASE i = pi + 1
    <3>1. i \in 1 .. pi + 1 /\ i \in pi + 1 .. k + 1
      BY <1>1, <1>3, <2>2
    <3> QED
      BY <1>9, <1>11, <1>12, <1>13, <2>2, <3>1
  <2>3. CASE i > pi + 1
    <3> DEFINE j == i - 1
    <3>1. j \in pi + 1 .. k /\ j + 1 \in pi + 1 .. k + 1 /\ j \in pi + 1 .. k + 1 /\ j \in 1 .. k /\ i = j + 1
      BY <1>1, <1>3, <2>3
    <3> HIDE DEF j
    <3>2. P.sep[i] = sep[j] + 1 /\ sep[j] = f[j + 1] /\ sep[j] = t[j] + 1
      BY <1>10, <1>14, <3>1
    <3>3. From(S, P.ch[(j + 1) + 1]) = f[j + 1] + 1 /\ To(S, P.ch[j + 1]) = t[j] + 1
      BY <1>13, <3>1
    <3> QED
      BY <3>1, <3>2, <3>3
  <2> QED
    BY <1>1, <1>3, <2>1, <2>2, <2>3
<1>16. ASSUME NEW i \in 1 .. k + 2
       PROVE  Height(S, P.ch[i]) = S[p].ht - 1
  <2>1. CASE i <= pi + 1
    <3>1. i \in 1 .. pi + 1 /\ i \in 1 .. k + 1
      BY <1>1, <1>3, <2>1
    <3> QED
      BY <1>4, <1>6, <1>12, <3>1
  <2>2. CASE i > pi + 1
    <3> DEFINE j == i - 1
    <3>1. j \in pi + 1 .. k + 1 /\ j \in 1 .. k + 1 /\ i = j + 1
      BY <1>1, <1>3, <2>2
    <3> HIDE DEF j
    <3> QED
      BY <1>4, <1>6, <1>13, <3>1
  <2> QED
    BY <1>1, <1>3, <2>1, <2>2
<1>17. From(S, P.ch[1]) = S[p].lo
  <2>1. 1 \in 1 .. pi + 1 /\ (1 = pi + 1 \/ 1 < pi + 1) /\ 1 \in 1 .. k + 1
    BY <1>1, <1>3
  <2>2. f[1] \in 1 .. n /\ f[1] <= q
    BY <1>10, <1>11, <2>1
  <2> QED
    BY <1>6, <1>10, <1>12, <2>1, <2>2 DEF Up
<1>18. To(S, P.ch[k + 2]) = S[p].hi
  <2>1. k + 1 \in pi + 1 .. k + 1 /\ (k + 1 = pi + 1 \/ pi + 1 < k + 1) /\ k + 1 \in 1 .. k + 1 /\ (k + 1) + 1 = k + 2
    BY <1>1, <1>3
  <2>2. t[k + 1] \in 1 .. n /\ t[k + 1] >= q
    BY <1>10, <1>11, <2>1
  <2>3. UpTo(q, t[k + 1]) = t[k + 1] + 1
    BY <2>2 DEF UpTo
  <2>4. To(S, P.ch[(k + 1) + 1]) = t[k + 1] + 1
    BY <1>13, <2>1
  <2> QED
    BY <1>6, <1>10, <2>1, <2>3, <2>4
<1>19. Len(P.sep) = k + 1 /\ Len(P.ch) = k + 2 /\ k + 2 = (k + 1) + 1
  BY <1>1, <1>9
<1>20. Kids(S, P, S[p])
  BY <1>15, <1>16, <1>17, <1>18, <1>19 DEF Kids
<1> QED
  BY <1>9, <1>20 DEF S

(* If there is an index page at all the root is one.                       *)
LEMMA RootIndex ==
  ASSUME NEW n, NEW r, NEW x, NEW s, Laid(n, r, x, s), NEW m \in DOMAIN x
  PROVE  r.at = "x" /\ r.no \in DOMAIN x /\ r = Index(r.no)
<1>1. r \in PagesOf(n, x) /\ s[m].ht \in Nat \ {0} /\ (Index(m) # r => s[m].ht < Height(s, r))
  BY DEF Laid, Typed, Rooted
<1>2. r.at # "d"
  <2> SUFFICES ASSUME r.at = "d" PROVE FALSE
    OBVIOUS
  <2>1. Height(s, r) = 0 /\ Index(m) # r
    BY Pointing DEF Height
  <2> DEFINE h == s[m].ht
  <2>2. h \in Nat \ {0} /\ h < 0
    BY <1>1, <2>1
  <2> HIDE DEF h
  <2> QED
    BY <2>2
<1> QED
  BY <1>1, <1>2, PointerKinds

(* Where the ends of runs go keeps their order.                            *)
LEMMA UpOrder ==
  ASSUME NEW q \in Int, NEW a \in Int, NEW b \in Int
  PROVE  /\ Up(q, a) <= UpTo(q, b) <=> a <= b
         /\ Up(q, a) <= Up(q, b) <=> a <= b
         /\ UpTo(q, a) <= UpTo(q, b) <=> a <= b
  BY DEF Up, UpTo

(* Runs that lie within each other or apart still do when page q is split. *)
LEMMA NestedUp ==
  ASSUME NEW n, NEW r, NEW x, NEW s, Typed(n, r, x, s), Nested(x, s), NEW q \in 1 .. n,
         NEW y, DOMAIN y = DOMAIN x
  PROVE  Nested(y, SpansUp(q, s))
<1> SUFFICES ASSUME NEW l \in DOMAIN x, NEW m \in DOMAIN x,
                    Meets(SpansUp(q, s)[l], SpansUp(q, s)[m]),
                    SpansUp(q, s)[l].ht <= SpansUp(q, s)[m].ht
             PROVE  /\ Within(SpansUp(q, s)[l], SpansUp(q, s)[m])
                    /\ SpansUp(q, s)[l].ht = SpansUp(q, s)[m].ht => l = m
  BY DEF Nested
<1>1. DOMAIN s = DOMAIN x
  BY DEF Typed
<1>2. /\ SpansUp(q, s)[l].lo = Up(q, s[l].lo) /\ SpansUp(q, s)[l].hi = UpTo(q, s[l].hi)
      /\ SpansUp(q, s)[l].ht = s[l].ht
      /\ SpansUp(q, s)[m].lo = Up(q, s[m].lo) /\ SpansUp(q, s)[m].hi = UpTo(q, s[m].hi)
      /\ SpansUp(q, s)[m].ht = s[m].ht
  BY <1>1 DEF SpansUp
<1>3. /\ s[l].lo \in Int /\ s[l].hi \in Int /\ s[m].lo \in Int /\ s[m].hi \in Int /\ q \in Int
  BY DEF Typed
<1>4. Meets(s[l], s[m])
  BY <1>2, <1>3, UpOrder DEF Meets
<1>5. Within(s[l], s[m]) /\ (s[l].ht = s[m].ht => l = m)
  BY <1>2, <1>4 DEF Nested
<1> QED
  BY <1>2, <1>3, <1>5, UpOrder DEF Within

(* The index pages after a split of data page q, the child pi of page p.   *)
SplitPages(x, p, q, pi) ==
  [m \in DOMAIN x |-> IF m = p THEN XInsert(PageUp(q, x[p]), pi, q + 1, Data(q + 1))
                      ELSE PageUp(q, x[m])]

(* Data page q, child pi of p, is split, and the pages behind it are one   *)
(* place further on.                                                       *)
LEMMA LaidSplit ==
  ASSUME NEW n, NEW r, NEW x, NEW s, Laid(n, r, x, s), NEW q \in 1 .. n, NEW p \in DOMAIN x,
         NEW pi \in 0 .. Len(x[p].sep), x[p].ch[pi + 1] = Data(q)
  PROVE  Laid(n + 1, r, SplitPages(x, p, q, pi), SpansUp(q, s))
<1> DEFINE y == SplitPages(x, p, q, pi)
           S == SpansUp(q, s)
<1>1. n \in Nat /\ Typed(n, r, x, s) /\ DOMAIN s = DOMAIN x /\ Nested(x, s) /\ Rooted(n, r, x, s)
      /\ q \in Int
  BY DEF Laid, Typed
<1>2. DOMAIN y = DOMAIN x /\ DOMAIN S = DOMAIN x /\ y = [m \in DOMAIN y |-> y[m]]
  BY <1>1 DEF SplitPages, SpansUp
<1>3. y[p] = XInsert(PageUp(q, x[p]), pi, q + 1, Data(q + 1))
  BY DEF SplitPages
<1>4. \A m \in DOMAIN x : m # p => y[m] = PageUp(q, x[m])
  BY DEF SplitPages
<1>5. \A m \in DOMAIN x : S[m].lo = Up(q, s[m].lo) /\ S[m].hi = UpTo(q, s[m].hi) /\ S[m].ht = s[m].ht
  BY <1>1 DEF SpansUp
<1> HIDE DEF y
<1>6. /\ Kids(S, y[p], S[p])
      /\ y[p].sep \in Seq(1 .. n + 1) /\ y[p].ch \in Seq(PagesOf(n + 1, y))
  <2> DEFINE P == XInsert(PageUp(q, x[p]), pi, q + 1, Data(q + 1))
  <2> HIDE DEF P
  <2>1. P = XInsert(PageUp(q, x[p]), pi, q + 1, Data(q + 1))
    BY DEF P
  <2>2. Kids(S, P, S[p]) /\ P.sep \in Seq(1 .. n + 1) /\ P.ch \in Seq(PagesOf(n + 1, y))
    BY <1>2, <2>1, KidsSplit
  <2> QED
    BY <1>3, <2>1, <2>2
<1>7. ASSUME NEW m \in DOMAIN x, m # p
      PROVE  /\ Kids(S, y[m], S[m])
             /\ y[m].sep \in Seq(1 .. n + 1) /\ y[m].ch \in Seq(PagesOf(n + 1, y))
  <2>1. ASSUME NEW i \in 1 .. Len(x[m].sep) + 1, x[m].ch[i] = Data(q)
        PROVE  FALSE
    <3>1. pi + 1 \in 1 .. Len(x[p].sep) + 1
      BY PageType
    <3> DEFINE j == pi + 1
    <3> HIDE DEF j
    <3>2. j \in 1 .. Len(x[p].sep) + 1 /\ x[p].ch[j] = x[m].ch[i]
      BY <2>1, <3>1 DEF j
    <3>3. p = m
      BY <3>2, OneParent
    <3> QED
      BY <1>7, <3>3
  <2>2. Kids(S, PageUp(q, x[m]), S[m])
    BY <2>1, KidsUp
  <2>3. PageUp(q, x[m]).sep \in Seq(1 .. n + 1) /\ PageUp(q, x[m]).ch \in Seq(PagesOf(n + 1, y))
    BY <1>2, PageUpShape
  <2> QED
    BY <1>4, <1>7, <2>2, <2>3
<1>8. /\ r.at = "x" /\ r.no \in DOMAIN x /\ r = Index(r.no)
  BY RootIndex
<1>9. ASSUME NEW m \in DOMAIN x
      PROVE  /\ S[m].lo \in 1 .. n + 1 /\ S[m].hi \in 1 .. n + 1 /\ S[m].ht \in Nat \ {0}
             /\ S[m].lo <= S[m].hi
  <2> DEFINE a == s[m].lo
             b == s[m].hi
  <2>1. a \in 1 .. n /\ b \in 1 .. n /\ a <= b /\ s[m].ht \in Nat \ {0}
    BY <1>1 DEF Typed
  <2> HIDE DEF a, b
  <2>2. Up(q, a) \in 1 .. n + 1 /\ UpTo(q, b) \in 1 .. n + 1 /\ Up(q, a) <= UpTo(q, b)
    BY <1>1, <2>1 DEF Up, UpTo
  <2> QED
    BY <1>5, <2>1, <2>2 DEF a, b
<1>10. Typed(n + 1, r, y, S)
  <2>1. n + 1 \in Nat /\ IsFiniteSet(DOMAIN y) /\ DOMAIN y \subseteq Nat \ {0}
    BY <1>1, <1>2 DEF Typed
  <2>2. r \in PagesOf(n + 1, y)
    BY <1>2, <1>8 DEF PagesOf
  <2> HIDE DEF S
  <2> QED
    BY <1>2, <1>6, <1>7, <1>9, <2>1, <2>2 DEF Typed
<1>11. Nested(y, S)
  BY <1>1, <1>2, NestedUp
<1>12. Rooted(n + 1, r, y, S)
  <2>1. s[r.no].lo = 1 /\ s[r.no].hi = n
    BY <1>1, <1>8 DEF Rooted, From, To
  <2>2. Up(q, 1) = 1 /\ UpTo(q, n) = n + 1
    BY <1>1 DEF Up, UpTo
  <2>3. S[r.no].lo = 1 /\ S[r.no].hi = n + 1
    BY <1>5, <1>8, <2>1, <2>2
  <2>4. \A m \in DOMAIN x : Index(m) # r => s[m].ht < s[r.no].ht
    BY <1>1, <1>8 DEF Rooted, Height
  <2> HIDE DEF S
  <2> QED
    BY <1>2, <1>5, <1>8, <2>3, <2>4 DEF Rooted, From, To, Height
<1>13. \A m \in DOMAIN y : Kids(S, y[m], S[m])
  BY <1>2, <1>6, <1>7
<1> QED
  BY <1>10, <1>11, <1>12, <1>13 DEF Laid, y

-----------------------------------------------------------------------------
(* Growing a root and giving one up.                                       *)

(* A pointer spans the same in two records of the spans that agree about   *)
(* it.                                                                     *)
LEMMA SameSpans ==
  ASSUME NEW n, NEW x, NEW s, NEW S, NEW q \in PagesOf(n, x),
         q.at = "x" => S[q.no] = s[q.no]
  PROVE  From(S, q) = From(s, q) /\ To(S, q) = To(s, q) /\ Height(S, q) = Height(s, q)
  BY PointerKinds DEF From, To, Height

(* A page all of whose children keep their spans.                          *)
LEMMA SameKids ==
  ASSUME NEW n, NEW r, NEW x, NEW s, Laid(n, r, x, s), NEW m \in DOMAIN x, NEW S, S[m] = s[m],
         \A i \in 1 .. Len(x[m].sep) + 1 :
           x[m].ch[i].at = "x" => S[x[m].ch[i].no] = s[x[m].ch[i].no]
  PROVE  Kids(S, x[m], S[m])
<1> DEFINE k == Len(x[m].sep)
           ch == x[m].ch
           sep == x[m].sep
<1>1. /\ k \in Nat /\ Len(ch) = k + 1 /\ \A i \in 1 .. k + 1 : ch[i] \in PagesOf(n, x)
  BY PageType
<1>2. \A i \in 1 .. k + 1 : /\ From(S, ch[i]) = From(s, ch[i]) /\ To(S, ch[i]) = To(s, ch[i])
                           /\ Height(S, ch[i]) = Height(s, ch[i])
  <2> SUFFICES ASSUME NEW i \in 1 .. k + 1
               PROVE  /\ From(S, ch[i]) = From(s, ch[i]) /\ To(S, ch[i]) = To(s, ch[i])
                      /\ Height(S, ch[i]) = Height(s, ch[i])
    OBVIOUS
  <2> DEFINE c == ch[i]
  <2>1. c \in PagesOf(n, x) /\ (c.at = "x" => S[c.no] = s[c.no])
    BY <1>1
  <2> HIDE DEF c
  <2>2. From(S, c) = From(s, c) /\ To(S, c) = To(s, c) /\ Height(S, c) = Height(s, c)
    BY <2>1, SameSpans
  <2> QED
    BY <2>2 DEF c
<1>3. Kids(s, x[m], s[m])
  BY DEF Laid
<1>4. 1 \in 1 .. k + 1 /\ k + 1 \in 1 .. k + 1
  BY <1>1
<1>5. \A i \in 1 .. k : i \in 1 .. k + 1 /\ i + 1 \in 1 .. k + 1
  BY <1>1
<1> QED
  BY <1>1, <1>2, <1>3, <1>4, <1>5 DEF Kids

(* The index pages, and their spans, with a page f above the root that has *)
(* the root as its only child.                                             *)
GrownPages(x, f, r) ==
  [m \in DOMAIN x \cup {f} |-> IF m = f THEN [sep |-> <<>>, ch |-> <<r>>] ELSE x[m]]
GrownSpans(n, s, f, r) ==
  [m \in DOMAIN s \cup {f} |-> IF m = f THEN [lo |-> 1, hi |-> n, ht |-> Height(s, r) + 1] ELSE s[m]]

(* A new root over the old one alone.                                      *)
LEMMA LaidGrown ==
  ASSUME NEW n \in Nat \ {0}, NEW r, NEW x, NEW s, Laid(n, r, x, s),
         NEW f \in Nat \ {0}, f \notin DOMAIN x
  PROVE  Laid(n, Index(f), GrownPages(x, f, r), GrownSpans(n, s, f, r))
<1> DEFINE y == GrownPages(x, f, r)
           S == GrownSpans(n, s, f, r)
<1>1. Typed(n, r, x, s) /\ DOMAIN s = DOMAIN x /\ Nested(x, s) /\ Rooted(n, r, x, s)
      /\ r \in PagesOf(n, x)
  BY DEF Laid, Typed
<1>2. DOMAIN y = DOMAIN x \cup {f} /\ DOMAIN S = DOMAIN x \cup {f} /\ y = [m \in DOMAIN y |-> y[m]]
  BY <1>1 DEF GrownPages, GrownSpans
<1>3. y[f] = [sep |-> <<>>, ch |-> <<r>>] /\ S[f] = [lo |-> 1, hi |-> n, ht |-> Height(s, r) + 1]
  BY <1>1 DEF GrownPages, GrownSpans
<1>4. \A m \in DOMAIN x : y[m] = x[m] /\ S[m] = s[m] /\ m # f
  BY <1>1 DEF GrownPages, GrownSpans
<1> HIDE DEF y, S
<1>5. \A q \in PagesOf(n, x) : q \in PagesOf(n, y)
  BY <1>2 DEF PagesOf
<1>6. Height(s, r) \in Nat /\ From(s, r) = 1 /\ To(s, r) = n
  BY <1>1, SpanType DEF Rooted
<1>7. r.at = "x" => S[r.no] = s[r.no]
  BY <1>1, <1>4, PointerKinds, Zenon DEF Index, Data
<1>8. From(S, r) = 1 /\ To(S, r) = n /\ Height(S, r) = Height(s, r)
  BY <1>1, <1>6, <1>7, SameSpans
<1>9. \A m \in DOMAIN x : s[m].ht \in Nat /\ s[m].ht <= Height(s, r)
  <2> SUFFICES ASSUME NEW m \in DOMAIN x PROVE s[m].ht \in Nat /\ s[m].ht <= Height(s, r)
    OBVIOUS
  <2>1. s[m].ht \in Nat
    BY <1>1 DEF Typed
  <2>2. CASE Index(m) = r
    BY <2>1, <2>2, Pointing
  <2>3. CASE Index(m) # r
    BY <1>1, <1>6, <2>1, <2>3 DEF Rooted
  <2> QED
    BY <2>2, <2>3
<1>10. ASSUME NEW m \in DOMAIN y
       PROVE  /\ Kids(S, y[m], S[m])
              /\ y[m].sep \in Seq(1 .. n) /\ y[m].ch \in Seq(PagesOf(n, y))
              /\ S[m].lo \in 1 .. n /\ S[m].hi \in 1 .. n /\ S[m].ht \in Nat \ {0}
              /\ S[m].lo <= S[m].hi
  <2>1. CASE m = f
    <3>1. y[m].sep = <<>> /\ y[m].ch = <<r>> /\ S[m].lo = 1 /\ S[m].hi = n /\ S[m].ht = Height(s, r) + 1
      BY <1>3, <2>1
    <3>2. y[m].sep \in Seq(1 .. n) /\ y[m].ch \in Seq(PagesOf(n, y))
      BY <1>1, <1>5, <3>1
    <3>3. Len(y[m].sep) = 0 /\ Len(y[m].ch) = 1 /\ y[m].ch[1] = r
      BY <3>1
    <3>4. Kids(S, y[m], S[m])
      BY <1>6, <1>8, <3>1, <3>3 DEF Kids
    <3> QED
      BY <1>6, <3>1, <3>2, <3>4
  <2>2. CASE m # f
    <3>1. m \in DOMAIN x /\ y[m] = x[m] /\ S[m] = s[m]
      BY <1>2, <1>4, <2>2
    <3>2. Seq(PagesOf(n, x)) \subseteq Seq(PagesOf(n, y))
      BY <1>5
    <3>3. \A i \in 1 .. Len(x[m].sep) + 1 :
            x[m].ch[i].at = "x" => S[x[m].ch[i].no] = s[x[m].ch[i].no]
      <4> SUFFICES ASSUME NEW i \in 1 .. Len(x[m].sep) + 1, x[m].ch[i].at = "x"
                   PROVE  S[x[m].ch[i].no] = s[x[m].ch[i].no]
        OBVIOUS
      <4> DEFINE c == x[m].ch[i]
      <4>1. c \in PagesOf(n, x) /\ c.at = "x"
        BY <3>1, PageType
      <4> HIDE DEF c
      <4>2. c.no \in DOMAIN x
        BY <4>1, PointerKinds
      <4> QED
        BY <1>4, <4>2 DEF c
    <3>4. Kids(S, x[m], S[m])
      BY <3>1, <3>3, SameKids
    <3> QED
      BY <1>1, <3>1, <3>2, <3>4 DEF Typed
  <2> QED
    BY <2>1, <2>2
<1>11. Typed(n, Index(f), y, S)
  <2>1. IsFiniteSet(DOMAIN y)
    BY <1>1, <1>2, FS_AddElement DEF Typed
  <2>2. Index(f) \in PagesOf(n, y)
    BY <1>2 DEF PagesOf
  <2>3. DOMAIN y \subseteq Nat \ {0}
    BY <1>1, <1>2 DEF Typed
  <2> QED
    BY <1>2, <1>10, <2>1, <2>2, <2>3 DEF Typed
<1>12. Nested(y, S)
  <2> SUFFICES ASSUME NEW l \in DOMAIN y, NEW m \in DOMAIN y, Meets(S[l], S[m]), S[l].ht <= S[m].ht
               PROVE  Within(S[l], S[m]) /\ (S[l].ht = S[m].ht => l = m)
    BY DEF Nested
  <2>1. CASE l # f /\ m # f
    BY <1>1, <1>2, <1>4, <2>1 DEF Nested
  <2>2. CASE m = f /\ l # f
    <3>1. l \in DOMAIN x /\ S[l] = s[l]
      BY <1>2, <1>4, <2>2
    <3>2. S[l].ht \in Nat /\ S[l].ht <= Height(s, r) /\ S[m].ht = Height(s, r) + 1 /\ S[m].lo = 1 /\ S[m].hi = n
      BY <1>3, <1>9, <2>2, <3>1
    <3> QED
      BY <1>6, <1>10, <3>2 DEF Within
  <2>3. CASE m # f /\ l = f
    <3>1. m \in DOMAIN x /\ S[m] = s[m]
      BY <1>2, <1>4, <2>3
    <3>2. S[m].ht \in Nat /\ S[m].ht <= Height(s, r) /\ S[l].ht = Height(s, r) + 1
      BY <1>3, <1>9, <2>3, <3>1
    <3> QED
      BY <1>6, <3>2
  <2>4. CASE m = f /\ l = f
    BY <1>3, <2>4 DEF Within
  <2> QED
    BY <2>1, <2>2, <2>3, <2>4
<1>13. Rooted(n, Index(f), y, S)
  <2>1. From(S, Index(f)) = 1 /\ To(S, Index(f)) = n /\ Height(S, Index(f)) = Height(s, r) + 1
    BY <1>3, Pointing
  <2>2. ASSUME NEW m \in DOMAIN y, Index(m) # Index(f) PROVE S[m].ht < Height(s, r) + 1
    <3>1. m \in DOMAIN x /\ S[m] = s[m]
      BY <1>2, <1>4, <2>2
    <3> QED
      BY <1>6, <1>9, <3>1
  <2> QED
    BY <2>1, <2>2 DEF Rooted
<1> QED
  BY <1>10, <1>11, <1>12, <1>13 DEF Laid, y, S

(* The index pages but p.                                                  *)
Without(x, p) == [m \in DOMAIN x \ {p} |-> x[m]]

(* A root over one page alone is taken off.                                *)
LEMMA LaidShrunk ==
  ASSUME NEW n, NEW r, NEW x, NEW s, Laid(n, r, x, s), NEW p \in DOMAIN x, r = Index(p),
         Len(x[p].sep) = 0
  PROVE  Laid(n, x[p].ch[1], Without(x, p), Without(s, p))
<1> DEFINE y == Without(x, p)
           S == Without(s, p)
           c == x[p].ch[1]
<1>1. Typed(n, r, x, s) /\ DOMAIN s = DOMAIN x /\ Nested(x, s) /\ Rooted(n, r, x, s) /\ n \in Nat
  BY DEF Laid, Typed
<1>2. DOMAIN y = DOMAIN x \ {p} /\ DOMAIN S = DOMAIN x \ {p} /\ y = [m \in DOMAIN y |-> y[m]]
  BY <1>1 DEF Without
<1>3. \A m \in DOMAIN y : m \in DOMAIN x /\ y[m] = x[m] /\ S[m] = s[m] /\ m # p
  BY <1>1 DEF Without
<1>4. c \in PagesOf(n, x) /\ s[p].ht \in Nat \ {0}
  <2> DEFINE k == Len(x[p].sep)
  <2>1. k = 0
    OBVIOUS
  <2>2. (\A i \in 1 .. k + 1 : x[p].ch[i] \in PagesOf(n, x)) /\ s[p].ht \in Nat \ {0}
    BY PageType
  <2> HIDE DEF k
  <2>3. 1 \in 1 .. k + 1
    BY <2>1
  <2>4. c \in PagesOf(n, x)
    BY <2>2, <2>3
  <2>5. s[p].ht \in Nat \ {0}
    BY <2>2
  <2> QED
    BY <2>4, <2>5
<1>5. Kids(s, x[p], s[p]) /\ Len(x[p].ch) = 1
  <2>1. Kids(s, x[p], s[p])
    BY DEF Laid
  <2> DEFINE k == Len(x[p].sep)
             l == Len(x[p].ch)
  <2>2. l = k + 1 /\ k = 0
    BY <2>1 DEF Kids
  <2> HIDE DEF k, l
  <2>3. l = 1
    BY <2>2
  <2> QED
    BY <2>1, <2>3 DEF l
<1>6. Height(s, c) = s[p].ht - 1 /\ From(s, c) = s[p].lo /\ To(s, c) = s[p].hi
  BY <1>5 DEF Kids
<1>7. s[p].lo = 1 /\ s[p].hi = n /\ Height(s, r) = s[p].ht
  BY <1>1, Pointing DEF Rooted
<1> HIDE DEF y, S, c
(* No child is the page that goes, for it is higher than all others.       *)
<1>8. ASSUME NEW m \in DOMAIN x, NEW i \in 1 .. Len(x[m].sep) + 1
      PROVE  x[m].ch[i] # Index(p)
  <2>1. Height(s, x[m].ch[i]) = s[m].ht - 1
    BY KidsInside
  <2>2. s[m].ht \in Nat /\ (m # p => s[m].ht < s[p].ht)
    BY <1>1, <1>7 DEF Typed, Rooted, Index
  <2>3. s[m].ht <= s[p].ht /\ s[p].ht \in Nat
    BY <1>4, <2>2
  <2>4. Height(s, Index(p)) = s[p].ht
    BY Pointing
  <2> QED
    BY <2>1, <2>2, <2>3, <2>4
<1>9. \A q \in PagesOf(n, x) : q # Index(p) => q \in PagesOf(n, y) /\ (q.at = "x" => S[q.no] = s[q.no])
  <2> SUFFICES ASSUME NEW q \in PagesOf(n, x), q # Index(p)
               PROVE  q \in PagesOf(n, y) /\ (q.at = "x" => S[q.no] = s[q.no])
    OBVIOUS
  <2>1. CASE q.at = "d" /\ q.no \in 1 .. n /\ q = Data(q.no)
    BY <2>1 DEF PagesOf
  <2>2. CASE q.at = "x" /\ q.no \in DOMAIN x /\ q = Index(q.no)
    <3>1. q.no \in DOMAIN y
      BY <1>2, <2>2
    <3> QED
      BY <1>3, <2>2, <3>1 DEF PagesOf
  <2> QED
    BY <2>1, <2>2, PointerKinds
<1>10. c # Index(p)
  <2>1. 1 \in 1 .. Len(x[p].sep) + 1
    OBVIOUS
  <2> QED
    BY <1>8, <2>1 DEF c
<1>11. ASSUME NEW m \in DOMAIN y
       PROVE  /\ Kids(S, y[m], S[m])
              /\ y[m].sep \in Seq(1 .. n) /\ y[m].ch \in Seq(PagesOf(n, y))
              /\ S[m].lo \in 1 .. n /\ S[m].hi \in 1 .. n /\ S[m].ht \in Nat \ {0}
              /\ S[m].lo <= S[m].hi
  <2>1. m \in DOMAIN x /\ y[m] = x[m] /\ S[m] = s[m]
    BY <1>3
  <2>2. /\ \A i \in 1 .. Len(x[m].sep) + 1 : x[m].ch[i] \in PagesOf(n, x)
        /\ Len(x[m].ch) = Len(x[m].sep) + 1 /\ x[m].ch \in Seq(PagesOf(n, x))
    BY <1>1, <2>1, PageType DEF Typed
  <2>3. \A i \in 1 .. Len(x[m].sep) + 1 :
          /\ x[m].ch[i] \in PagesOf(n, y)
          /\ x[m].ch[i].at = "x" => S[x[m].ch[i].no] = s[x[m].ch[i].no]
    BY <1>8, <1>9, <2>1, <2>2
  <2>4. x[m].ch \in Seq(PagesOf(n, y))
    BY <2>2, <2>3
  <2>5. Kids(S, x[m], S[m])
    BY <2>1, <2>3, SameKids
  <2> QED
    BY <1>1, <2>1, <2>4, <2>5 DEF Typed
<1>12. Typed(n, c, y, S)
  <2>1. IsFiniteSet(DOMAIN y) /\ DOMAIN y \subseteq Nat \ {0}
    BY <1>1, <1>2, FS_Subset DEF Typed
  <2>2. c \in PagesOf(n, y)
    BY <1>4, <1>9, <1>10
  <2> QED
    BY <1>1, <1>2, <1>11, <2>1, <2>2 DEF Typed
<1>13. Nested(y, S)
  BY <1>1, <1>3 DEF Nested
<1>14. Rooted(n, c, y, S)
  <2>1. From(S, c) = 1 /\ To(S, c) = n /\ Height(S, c) = s[p].ht - 1
    BY <1>4, <1>6, <1>7, <1>9, <1>10, SameSpans
  <2>2. ASSUME NEW m \in DOMAIN y, Index(m) # c PROVE S[m].ht < s[p].ht - 1
    <3>1. m \in DOMAIN x /\ S[m] = s[m] /\ m # p /\ Index(m) # r
      BY <1>3, <2>2 DEF Index
    <3>2. s[m].ht < s[p].ht /\ s[m].ht \in Nat
      BY <1>1, <1>7, <3>1 DEF Rooted, Typed
    <3>3. CASE s[m].ht = s[p].ht - 1
      <4>1. c.at = "x" /\ c.no \in DOMAIN x /\ c = Index(c.no)
        <5>1. Height(s, c) # 0
          BY <1>1, <1>6, <3>1, <3>3 DEF Typed
        <5> QED
          BY <1>4, <5>1, PointerKinds, Pointing
      <4>2. s[c.no].lo = 1 /\ s[c.no].hi = n /\ s[c.no].ht = s[m].ht
        BY <1>6, <1>7, <3>3, <4>1, Pointing
      <4>3. s[m].lo \in 1 .. n /\ s[m].hi \in 1 .. n
        BY <1>1, <3>1 DEF Typed
      <4>4. Meets(s[m], s[c.no]) /\ s[m].ht <= s[c.no].ht
        BY <3>2, <4>2, <4>3 DEF Meets
      <4>5. m = c.no
        BY <1>1, <3>1, <4>1, <4>2, <4>4 DEF Nested
      <4> QED
        BY <2>2, <4>1, <4>5
    <3> QED
      BY <1>4, <3>1, <3>2, <3>3
  <2> QED
    BY <2>1, <2>2 DEF Rooted
<1> QED
  BY <1>11, <1>12, <1>13, <1>14 DEF Laid, y, S, c

-----------------------------------------------------------------------------
(* Joining two index pages.                                                *)

(* A page that is not at the bottom is an index page.                      *)
LEMMA IndexKind ==
  ASSUME NEW n, NEW x, NEW s, NEW q \in PagesOf(n, x), Height(s, q) # 0
  PROVE  /\ q.at = "x" /\ q.no \in DOMAIN x /\ q = Index(q.no)
         /\ From(s, q) = s[q.no].lo /\ To(s, q) = s[q.no].hi /\ Height(s, q) = s[q.no].ht
<1>1. ~ (q.at = "d")
  BY DEF Height
<1>2. q.at = "x" /\ q.no \in DOMAIN x /\ q = Index(q.no)
  BY <1>1, PointerKinds
<1> QED
  BY <1>1, <1>2 DEF From, To, Height

(* Every data page under an index page is under one of its children.       *)
LEMMA HeldByChild ==
  ASSUME NEW n, NEW r, NEW x, NEW s, Laid(n, r, x, s), NEW m \in DOMAIN x,
         NEW j \in Int, s[m].lo <= j, j <= s[m].hi
  PROVE  \E i \in 1 .. Len(x[m].sep) + 1 : From(s, x[m].ch[i]) <= j /\ j <= To(s, x[m].ch[i])
<1> DEFINE k == Len(x[m].sep)
           ch == x[m].ch
           f == [i \in 1 .. k + 1 |-> From(s, ch[i])]
           t == [i \in 1 .. k + 1 |-> To(s, ch[i])]
           lo == s[m].lo
           hi == s[m].hi
<1>1. /\ k \in Nat /\ Typed(n, r, x, s) /\ Len(ch) = k + 1
      /\ \A i \in 1 .. k + 1 : ch[i] \in PagesOf(n, x)
  BY PageType
<1>2. f \in [1 .. k + 1 -> Int] /\ t \in [1 .. k + 1 -> Int]
  <2> HIDE DEF k, ch
  <2> QED
    BY <1>1, SpanType
<1>3. From(s, ch[1]) = lo /\ To(s, ch[k + 1]) = hi
  BY <1>1 DEF Laid, Kids
<1>4. \A i \in 1 .. k : x[m].sep[i] = From(s, ch[i + 1]) /\ x[m].sep[i] = To(s, ch[i]) + 1
  BY DEF Laid, Kids
<1>5. f[1] = lo /\ t[k + 1] = hi /\ \A i \in 1 .. k : f[i + 1] = t[i] + 1
  <2>1. 1 \in 1 .. k + 1 /\ k + 1 \in 1 .. k + 1 /\ \A i \in 1 .. k : i \in 1 .. k + 1 /\ i + 1 \in 1 .. k + 1
    BY <1>1
  <2> HIDE DEF k, ch
  <2> QED
    BY <1>3, <1>4, <2>1
<1>6. \A i \in 1 .. k + 1 : f[i] = From(s, ch[i]) /\ t[i] = To(s, ch[i])
  OBVIOUS
<1>7. lo <= j /\ j <= hi
  OBVIOUS
<1> HIDE DEF k, ch, f, t, lo, hi
<1> DEFINE T == {i \in 1 .. k + 1 : j <= t[i]}
<1>8. k + 1 \in T /\ T \in SUBSET Nat
  BY <1>1, <1>5, <1>7
<1>9. PICK i \in T : \A h \in T : i <= h
  <2> HIDE DEF T
  <2> QED
    BY <1>8, LeastOf
<1>10. i \in 1 .. k + 1 /\ j <= t[i]
  OBVIOUS
<1>11. f[i] <= j
  <2>1. CASE i = 1
    BY <1>5, <1>7, <2>1
  <2>2. CASE i # 1
    <3>1. i - 1 \in 1 .. k /\ i - 1 \in 1 .. k + 1 /\ ~ (i <= i - 1) /\ (i - 1) + 1 = i
      BY <1>1, <1>10, <2>2
    <3>2. ~ (j <= t[i - 1])
      BY <1>9, <3>1
    <3>3. f[(i - 1) + 1] = t[i - 1] + 1 /\ t[i - 1] \in Int
      BY <1>2, <1>5, <3>1
    <3> QED
      BY <3>1, <3>2, <3>3
  <2> QED
    BY <2>1, <2>2
<1> QED
  BY <1>6, <1>10, <1>11 DEF k, ch

(* A lower page is under one child of each page that it shares data with.  *)
LEMMA BelowChild ==
  ASSUME NEW n, NEW r, NEW x, NEW s, Laid(n, r, x, s), NEW l \in DOMAIN x, NEW m \in DOMAIN x,
         Meets(s[l], s[m]), s[l].ht < s[m].ht
  PROVE  \E i \in 1 .. Len(x[m].sep) + 1 :
           From(s, x[m].ch[i]) <= s[l].lo /\ s[l].hi <= To(s, x[m].ch[i])
<1>1. /\ s[l].lo \in 1 .. n /\ s[l].hi \in 1 .. n /\ s[l].lo <= s[l].hi /\ s[l].ht \in Nat \ {0}
      /\ s[m].lo \in 1 .. n /\ s[m].hi \in 1 .. n /\ s[m].ht \in Nat \ {0} /\ Nested(x, s)
      /\ n \in Nat
  BY DEF Laid, Typed
<1> DEFINE a == s[l].lo
           b == s[l].hi
<1>2. s[m].lo <= a /\ a <= s[m].hi /\ a \in Int /\ b \in Int /\ a <= b
  <2>1. Within(s[l], s[m])
    BY <1>1 DEF Nested
  <2> QED
    BY <1>1, <2>1 DEF Within
<1>3. PICK i \in 1 .. Len(x[m].sep) + 1 : From(s, x[m].ch[i]) <= a /\ a <= To(s, x[m].ch[i])
  <2> HIDE DEF a
  <2> QED
    BY <1>2, HeldByChild
<1> DEFINE c == x[m].ch[i]
<1>4. c \in PagesOf(n, x) /\ Height(s, c) = s[m].ht - 1
  <2>1. \A j \in 1 .. Len(x[m].sep) + 1 : x[m].ch[j] \in PagesOf(n, x)
    BY PageType
  <2>2. Height(s, x[m].ch[i]) = s[m].ht - 1
    BY KidsInside
  <2> QED
    BY <2>1, <2>2
<1> HIDE DEF c
<1>5. c.at = "x" /\ c.no \in DOMAIN x /\ c = Index(c.no)
  <2>1. Height(s, c) # 0
    BY <1>1, <1>4
  <2>2. c \in PagesOf(n, x)
    BY <1>4
  <2> QED
    BY <2>1, <2>2, IndexKind
<1>6. From(s, c) = s[c.no].lo /\ To(s, c) = s[c.no].hi /\ Height(s, c) = s[c.no].ht
  BY <1>5, Pointing
<1>7. s[c.no].lo <= a /\ a <= s[c.no].hi
  BY <1>3, <1>6 DEF c
<1>8. s[c.no].lo \in 1 .. n /\ s[c.no].hi \in 1 .. n
  BY <1>5 DEF Laid, Typed
<1>9. Meets(s[l], s[c.no]) /\ s[l].ht <= s[c.no].ht
  <2>1. s[c.no].lo <= b
    <3> DEFINE e == s[c.no].lo
    <3>1. e \in Int /\ e <= a
      BY <1>7, <1>8
    <3> HIDE DEF e, a, b
    <3>2. e <= b
      BY <1>2, <3>1
    <3> QED
      BY <3>2 DEF e
  <2>2. s[l].ht <= s[c.no].ht
    BY <1>1, <1>4, <1>6
  <2> QED
    BY <1>7, <2>1, <2>2 DEF Meets
<1>10. Within(s[l], s[c.no])
  BY <1>1, <1>5, <1>9 DEF Nested
<1> QED
  BY <1>6, <1>10 DEF Within, c

(* u is s with t behind it.                                                *)
Chain(X, s, m, t, n, u) ==
  /\ u \in Seq(X) /\ Len(u) = m + n
  /\ \A i \in 1 .. m : u[i] = s[i]
  /\ \A i \in 1 .. n : u[m + i] = t[i]

(* The parts of the concatenation of two sequences.                        *)
LEMMA Chained ==
  ASSUME NEW X, NEW s \in Seq(X), NEW t \in Seq(X), NEW m, m = Len(s), NEW n, n = Len(t)
  PROVE  Chain(X, s, m, t, n, s \o t)
<1>1. m \in Nat /\ n \in Nat
  OBVIOUS
<1>2. /\ s \o t \in Seq(X) /\ Len(s \o t) = m + n
      /\ \A i \in 1 .. m + n : (s \o t)[i] = IF i <= m THEN s[i] ELSE t[i - m]
  BY ConcatProperties
<1> DEFINE u == s \o t
<1> HIDE DEF u
<1>3. ASSUME NEW i \in 1 .. m PROVE u[i] = s[i]
  <2>1. i \in 1 .. m + n /\ i <= m
    BY <1>1
  <2> QED
    BY <1>2, <2>1 DEF u
<1>4. ASSUME NEW i \in 1 .. n PROVE u[m + i] = t[i]
  <2>1. m + i \in 1 .. m + n /\ ~ (m + i <= m) /\ (m + i) - m = i
    BY <1>1
  <2> QED
    BY <1>2, <2>1 DEF u
<1> QED
  BY <1>2, <1>3, <1>4 DEF Chain, u

(* Index page P without separator pi and the child behind it.              *)
DropKid(P, pi) == [sep |-> RemoveAt(P.sep, pi + 1), ch |-> RemoveAt(P.ch, pi + 2)]

(* P is U without separator pi and the child after it.                     *)
Dropped(A, B, U, k, pi, P) ==
  /\ P.sep \in Seq(A) /\ Len(P.sep) = k - 1
  /\ \A i \in 1 .. pi : P.sep[i] = U.sep[i]
  /\ \A i \in pi + 1 .. k - 1 : P.sep[i] = U.sep[i + 1]
  /\ P.ch \in Seq(B) /\ Len(P.ch) = k
  /\ \A i \in 1 .. pi + 1 : P.ch[i] = U.ch[i]
  /\ \A i \in pi + 2 .. k : P.ch[i] = U.ch[i + 1]

(* What remains of an index page that gives up separator pi and the child  *)
(* after it.                                                               *)
LEMMA KidDropped ==
  ASSUME NEW A, NEW B, NEW U, U.sep \in Seq(A), U.ch \in Seq(B),
         NEW k \in Nat, Len(U.sep) = k, Len(U.ch) = k + 1, NEW pi \in 0 .. k - 1
  PROVE  Dropped(A, B, U, k, pi, DropKid(U, pi))
<1> DEFINE j == pi + 1
           l == k + 1
           P == DropKid(U, pi)
<1>1. P.sep = RemoveAt(U.sep, pi + 1) /\ P.ch = RemoveAt(U.ch, j + 1)
  <2>1. pi + 2 = (pi + 1) + 1
    OBVIOUS
  <2> QED
    BY <2>1 DEF DropKid
<1> HIDE DEF P
<1>2. TakenOut(A, U.sep, k, pi, P.sep)
  BY <1>1, RemovedParts
<1>3. j \in 0 .. l - 1 /\ l \in Nat /\ Len(U.ch) = l
  OBVIOUS
<1>4. TakenOut(B, U.ch, l, j, P.ch)
  <2> HIDE DEF j, l
  <2> QED
    BY <1>1, <1>3, RemovedParts
<1>5. j = pi + 1 /\ j + 1 = pi + 2 /\ l - 1 = k
  OBVIOUS
<1> HIDE DEF j, l
<1>6. Dropped(A, B, U, k, pi, P)
  BY <1>2, <1>4, <1>5 DEF Dropped, TakenOut
<1> QED
  BY <1>6 DEF P

(* Index pages a and b are neighbours under p.                             *)
Siblings(x, p, pi, a, b) ==
  /\ p \in DOMAIN x /\ pi \in 0 .. Len(x[p].sep) - 1
  /\ x[p].ch[pi + 1] = Index(a) /\ x[p].ch[pi + 2] = Index(b)

(* Index pages a and b are neighbours under page p.                        *)
SideBySide(x, s, p, pi, a, b) ==
  /\ p \in DOMAIN x /\ a \in DOMAIN x /\ b \in DOMAIN x /\ a # b /\ p # a /\ p # b
  /\ s[a].ht = s[b].ht /\ s[p].ht = s[a].ht + 1
  /\ s[b].lo = s[a].hi + 1 /\ x[p].sep[pi + 1] = s[b].lo
  /\ s[p].lo <= s[a].lo /\ s[b].hi <= s[p].hi
  /\ pi \in Nat

(* What two neighbouring children of an index page are to each other and   *)
(* to it.                                                                  *)
LEMMA SiblingFacts ==
  ASSUME NEW n, NEW r, NEW x, NEW s, Laid(n, r, x, s), NEW p, NEW pi, NEW a, NEW b,
         Siblings(x, p, pi, a, b)
  PROVE  SideBySide(x, s, p, pi, a, b)
<1> DEFINE k == Len(x[p].sep)
           ch == x[p].ch
           j == pi + 1
<1>0. p \in DOMAIN x
  BY DEF Siblings
<1>1. /\ k \in Nat /\ Len(ch) = k + 1 /\ \A i \in 1 .. k + 1 : ch[i] \in PagesOf(n, x)
      /\ s[p].ht \in Nat \ {0}
  BY <1>0, PageType
<1>2. /\ pi \in 0 .. k - 1 /\ j \in 1 .. k /\ j \in 1 .. k + 1 /\ j + 1 \in 1 .. k + 1 /\ j < j + 1
      /\ ch[j] = Index(a) /\ ch[j + 1] = Index(b) /\ pi \in Nat
  <2>1. pi \in 0 .. k - 1 /\ ch[j] = Index(a) /\ ch[pi + 2] = Index(b)
    BY DEF Siblings
  <2>2. pi + 2 = j + 1
    BY <2>1
  <2> HIDE DEF k
  <2> QED
    BY <1>1, <2>1, <2>2
<1>3. \A i \in 1 .. k : x[p].sep[i] = From(s, ch[i + 1]) /\ x[p].sep[i] = To(s, ch[i]) + 1
  BY <1>0 DEF Laid, Kids
<1>4. \A i \in 1 .. k + 1 : /\ s[p].lo <= From(s, ch[i]) /\ To(s, ch[i]) <= s[p].hi
                           /\ Height(s, ch[i]) = s[p].ht - 1
  BY <1>0, KidsInside
<1>5. \A h, l \in 1 .. k + 1 : h < l => To(s, ch[h]) < From(s, ch[l])
  BY <1>0, KidsInOrder
<1> HIDE DEF k, ch
<1>6. x[p].sep[j] = From(s, Index(b)) /\ x[p].sep[j] = To(s, Index(a)) + 1
  BY <1>2, <1>3
<1>7. /\ s[p].lo <= From(s, Index(a)) /\ To(s, Index(b)) <= s[p].hi
      /\ Height(s, Index(a)) = s[p].ht - 1 /\ Height(s, Index(b)) = s[p].ht - 1
  <2> HIDE DEF j
  <2> QED
    BY <1>2, <1>4
<1>8. Index(a) \in PagesOf(n, x) /\ Index(b) \in PagesOf(n, x)
  <2> HIDE DEF j
  <2> QED
    BY <1>1, <1>2
<1>9. a \in DOMAIN x /\ b \in DOMAIN x
  BY <1>8 DEF PagesOf, Index, Data
<1>10. To(s, Index(a)) < From(s, Index(b))
  <2> HIDE DEF j
  <2> QED
    BY <1>2, <1>5
<1>11. /\ s[a].lo \in 1 .. n /\ s[a].hi \in 1 .. n /\ s[a].lo <= s[a].hi /\ s[a].ht \in Nat \ {0}
       /\ s[b].lo \in 1 .. n /\ s[b].hi \in 1 .. n /\ s[b].lo <= s[b].hi /\ s[b].ht \in Nat \ {0}
  BY <1>9 DEF Laid, Typed
<1>12. s[a].hi < s[b].lo
  BY <1>10, Pointing
<1>13. a # b
  BY <1>11, <1>12
<1>14. s[a].ht = s[p].ht - 1 /\ s[b].ht = s[p].ht - 1
  BY <1>7, Pointing
<1>15. s[a].ht = s[b].ht /\ s[p].ht = s[a].ht + 1 /\ p # a /\ p # b
  <2> DEFINE u == s[a].ht
             v == s[b].ht
             w == s[p].ht
  <2>1. u \in Int /\ v \in Int /\ w \in Int /\ u = w - 1 /\ v = w - 1
    BY <1>1, <1>11, <1>14
  <2> HIDE DEF u, v, w
  <2>2. u = v /\ w = u + 1 /\ w # u /\ w # v
    BY <2>1
  <2> QED
    BY <2>2 DEF u, v, w
<1>16. s[p].lo <= s[a].lo /\ s[b].hi <= s[p].hi
  BY <1>7, Pointing
<1>17. x[p].sep[j] = s[b].lo /\ x[p].sep[j] = s[a].hi + 1
  <2>1. From(s, Index(b)) = s[b].lo /\ To(s, Index(a)) = s[a].hi
    BY Pointing
  <2> QED
    BY <1>6, <2>1
<1> QED
  BY <1>0, <1>2, <1>9, <1>13, <1>15, <1>16, <1>17 DEF SideBySide

(* The page that two index pages make up, with separator d between them.   *)
Both(P, d, Q) == [sep |-> P.sep \o <<d>> \o Q.sep, ch |-> P.ch \o Q.ch]

(* The index pages, and their spans, after page b is joined to a.          *)
JoinedPages(x, p, a, b, pi) ==
  [m \in DOMAIN x \ {b} |->
     IF m = p THEN DropKid(x[p], pi)
     ELSE IF m = a THEN Both(x[a], x[p].sep[pi + 1], x[b])
     ELSE x[m]]
JoinedSpans(s, a, b) ==
  [m \in DOMAIN s \ {b} |->
     IF m = a THEN [lo |-> s[a].lo, hi |-> s[b].hi, ht |-> s[a].ht] ELSE s[m]]

(* Only p has one of the two for a child.                                  *)
LEMMA SiblingParent ==
  ASSUME NEW n, NEW r, NEW x, NEW s, Laid(n, r, x, s), NEW p, NEW pi, NEW a, NEW b,
         Siblings(x, p, pi, a, b), NEW m \in DOMAIN x, NEW i \in 1 .. Len(x[m].sep) + 1
  PROVE  /\ x[m].ch[i] = Index(a) => m = p /\ i = pi + 1
         /\ x[m].ch[i] = Index(b) => m = p /\ i = pi + 2
<1> DEFINE j == pi + 1
           l == pi + 2
<1>1. /\ p \in DOMAIN x /\ j \in 1 .. Len(x[p].sep) + 1 /\ l \in 1 .. Len(x[p].sep) + 1
      /\ x[p].ch[j] = Index(a) /\ x[p].ch[l] = Index(b)
  <2>1. p \in DOMAIN x /\ pi \in 0 .. Len(x[p].sep) - 1
    BY DEF Siblings
  <2>2. Len(x[p].sep) \in Nat
    BY <2>1, PageType
  <2> QED
    BY <2>1, <2>2 DEF Siblings
<1> HIDE DEF j, l
<1>2. x[m].ch[i] = Index(a) => m = p /\ i = j
  BY <1>1, OneParent
<1>3. x[m].ch[i] = Index(b) => m = p /\ i = l
  BY <1>1, OneParent
<1> QED
  BY <1>2, <1>3 DEF j, l

(* When index page b is joined to a, every other page spans what it did,   *)
(* and a what both did.                                                    *)
LEMMA JoinedKeeps ==
  ASSUME NEW n, NEW r, NEW x, NEW s, Laid(n, r, x, s), NEW p, NEW pi, NEW a, NEW b,
         Siblings(x, p, pi, a, b), NEW q \in PagesOf(n, x), q # Index(b)
  PROVE  /\ q \in PagesOf(n, JoinedPages(x, p, a, b, pi))
         /\ From(JoinedSpans(s, a, b), q) = From(s, q)
         /\ To(JoinedSpans(s, a, b), q) = IF q = Index(a) THEN s[b].hi ELSE To(s, q)
         /\ Height(JoinedSpans(s, a, b), q) = Height(s, q)
<1>1. DOMAIN s = DOMAIN x /\ DOMAIN JoinedPages(x, p, a, b, pi) = DOMAIN x \ {b}
  BY DEF Laid, Typed, JoinedPages
<1>2. CASE q.at = "d" /\ q.no \in 1 .. n /\ q = Data(q.no)
  BY <1>2 DEF PagesOf, From, To, Height, Index
<1>3. CASE q.at = "x" /\ q.no \in DOMAIN x /\ q = Index(q.no)
  <2> DEFINE m == q.no
  <2>1. m \in DOMAIN x \ {b} /\ q = Index(m) /\ (q = Index(a) <=> m = a)
    BY <1>3 DEF Index
  <2> HIDE DEF m
  <2>2. q \in PagesOf(n, JoinedPages(x, p, a, b, pi))
    BY <1>1, <2>1 DEF PagesOf
  <2>3. JoinedSpans(s, a, b)[m] =
          IF m = a THEN [lo |-> s[a].lo, hi |-> s[b].hi, ht |-> s[a].ht] ELSE s[m]
    BY <1>1, <2>1 DEF JoinedSpans
  <2> QED
    BY <2>1, <2>2, <2>3, Pointing
<1> QED
  BY <1>2, <1>3, PointerKinds

(* The parent of the two.                                                  *)
LEMMA JoinedParent ==
  ASSUME NEW n, NEW r, NEW x, NEW s, Laid(n, r, x, s), NEW p, NEW pi, NEW a, NEW b,
         Siblings(x, p, pi, a, b), NEW P, P = DropKid(x[p], pi), NEW S, S = JoinedSpans(s, a, b)
  PROVE  /\ Kids(S, P, s[p])
         /\ P.sep \in Seq(1 .. n) /\ P.ch \in Seq(PagesOf(n, JoinedPages(x, p, a, b, pi)))
<1> DEFINE k == Len(x[p].sep)
           ch == x[p].ch
           sep == x[p].sep
           y == JoinedPages(x, p, a, b, pi)
<1>0. p \in DOMAIN x /\ pi \in 0 .. k - 1 /\ ch[pi + 1] = Index(a) /\ ch[pi + 2] = Index(b)
  BY DEF Siblings
<1>1. /\ k \in Nat /\ Len(ch) = k + 1 /\ \A i \in 1 .. k + 1 : ch[i] \in PagesOf(n, x)
      /\ sep \in Seq(1 .. n) /\ ch \in Seq(PagesOf(n, x))
  <2>1. sep \in Seq(1 .. n) /\ ch \in Seq(PagesOf(n, x))
    BY <1>0 DEF Laid, Typed
  <2>2. k \in Nat /\ Len(ch) = k + 1 /\ \A i \in 1 .. k + 1 : ch[i] \in PagesOf(n, x)
    BY <1>0, PageType
  <2> QED
    BY <2>1, <2>2
<1>2. Dropped(1 .. n, PagesOf(n, x), x[p], k, pi, P)
  <2> HIDE DEF y
  <2> DEFINE A == 1 .. n
             B == PagesOf(n, x)
             U == x[p]
  <2>1. /\ U.sep \in Seq(A) /\ U.ch \in Seq(B) /\ k \in Nat /\ Len(U.sep) = k /\ Len(U.ch) = k + 1
        /\ pi \in 0 .. k - 1 /\ P = DropKid(U, pi)
    BY <1>0, <1>1
  <2> HIDE DEF A, B, U, k, ch, sep
  <2>2. Dropped(A, B, U, k, pi, DropKid(U, pi))
    BY <2>1, KidDropped
  <2> QED
    BY <2>1, <2>2 DEF A, B, U
<1>3. /\ \A i \in 1 .. k + 1 : Height(s, ch[i]) = s[p].ht - 1
      /\ From(s, ch[1]) = s[p].lo /\ To(s, ch[k + 1]) = s[p].hi
      /\ \A i \in 1 .. k : sep[i] = From(s, ch[i + 1]) /\ sep[i] = To(s, ch[i]) + 1
  BY <1>0, <1>1 DEF Laid, Kids
<1>4. \A i \in 1 .. k + 1 : /\ (ch[i] = Index(a) <=> i = pi + 1)
                           /\ (ch[i] = Index(b) <=> i = pi + 2)
  <2>1. \A i \in 1 .. k + 1 : /\ (ch[i] = Index(a) => i = pi + 1)
                             /\ (ch[i] = Index(b) => i = pi + 2)
    BY <1>0, SiblingParent
  <2> QED
    BY <1>0, <2>1
<1>5. \A i \in 1 .. k + 1 : i # pi + 2 =>
        /\ ch[i] \in PagesOf(n, y) /\ From(S, ch[i]) = From(s, ch[i])
        /\ To(S, ch[i]) = IF i = pi + 1 THEN s[b].hi ELSE To(s, ch[i])
        /\ Height(S, ch[i]) = Height(s, ch[i])
  <2> SUFFICES ASSUME NEW i \in 1 .. k + 1, i # pi + 2
               PROVE  /\ ch[i] \in PagesOf(n, y) /\ From(S, ch[i]) = From(s, ch[i])
                      /\ To(S, ch[i]) = IF i = pi + 1 THEN s[b].hi ELSE To(s, ch[i])
                      /\ Height(S, ch[i]) = Height(s, ch[i])
    OBVIOUS
  <2> DEFINE c == ch[i]
  <2>1. c \in PagesOf(n, x) /\ c # Index(b) /\ (c = Index(a) <=> i = pi + 1)
    BY <1>1, <1>4
  <2> HIDE DEF c
  <2>2. /\ c \in PagesOf(n, y) /\ From(S, c) = From(s, c)
        /\ To(S, c) = IF c = Index(a) THEN s[b].hi ELSE To(s, c)
        /\ Height(S, c) = Height(s, c)
    BY <2>1, JoinedKeeps
  <2> QED
    BY <2>1, <2>2 DEF c
<1>6. /\ P.sep \in Seq(1 .. n) /\ Len(P.sep) = k - 1
      /\ \A i \in 1 .. pi : P.sep[i] = sep[i]
      /\ \A i \in pi + 1 .. k - 1 : P.sep[i] = sep[i + 1]
      /\ P.ch \in Seq(PagesOf(n, x)) /\ Len(P.ch) = k
      /\ \A i \in 1 .. pi + 1 : P.ch[i] = ch[i]
      /\ \A i \in pi + 2 .. k : P.ch[i] = ch[i + 1]
  BY <1>2 DEF Dropped
<1>7. To(s, Index(b)) = s[b].hi
  BY Pointing
<1> HIDE DEF k, ch, sep, y
<1>8. /\ \A i \in 1 .. pi + 1 : /\ P.ch[i] \in PagesOf(n, y) /\ From(S, P.ch[i]) = From(s, ch[i])
                               /\ Height(S, P.ch[i]) = s[p].ht - 1
      /\ \A i \in 1 .. pi : To(S, P.ch[i]) = To(s, ch[i])
      /\ To(S, P.ch[pi + 1]) = s[b].hi
  <2>1. \A i \in 1 .. pi + 1 : i \in 1 .. k + 1 /\ i # pi + 2
    BY <1>0, <1>1
  <2>2. \A i \in 1 .. pi : i \in 1 .. pi + 1 /\ i # pi + 1
    BY <1>0
  <2>3. pi + 1 \in 1 .. pi + 1
    BY <1>0
  <2> QED
    BY <1>3, <1>5, <1>6, <2>1, <2>2, <2>3
<1>9. \A i \in pi + 2 .. k : /\ P.ch[i] \in PagesOf(n, y) /\ From(S, P.ch[i]) = From(s, ch[i + 1])
                            /\ To(S, P.ch[i]) = To(s, ch[i + 1])
                            /\ Height(S, P.ch[i]) = s[p].ht - 1
  <2>1. \A i \in pi + 2 .. k : i + 1 \in 1 .. k + 1 /\ i + 1 # pi + 2 /\ i + 1 # pi + 1
    BY <1>0, <1>1
  <2> QED
    BY <1>3, <1>5, <1>6, <2>1
<1>10. \A i \in 1 .. k : P.ch[i] \in PagesOf(n, y) /\ Height(S, P.ch[i]) = s[p].ht - 1
  <2>1. \A i \in 1 .. k : i \in 1 .. pi + 1 \/ i \in pi + 2 .. k
    BY <1>0, <1>1
  <2> QED
    BY <1>8, <1>9, <2>1
<1>11. From(S, P.ch[1]) = s[p].lo
  <2>1. 1 \in 1 .. pi + 1
    BY <1>0, <1>1
  <2> QED
    BY <1>3, <1>8, <2>1
<1>12. To(S, P.ch[k]) = s[p].hi
  <2>1. CASE k = pi + 1
    <3>1. pi + 2 = k + 1
      BY <1>0, <1>1, <2>1
    <3> QED
      BY <1>0, <1>3, <1>7, <1>8, <2>1, <3>1
  <2>2. CASE k # pi + 1
    <3>1. k \in pi + 2 .. k
      BY <1>0, <1>1, <2>2
    <3> QED
      BY <1>3, <1>9, <3>1
  <2> QED
    BY <2>1, <2>2
<1>13. ASSUME NEW i \in 1 .. k - 1
       PROVE  P.sep[i] = From(S, P.ch[i + 1]) /\ P.sep[i] = To(S, P.ch[i]) + 1
  <2>1. CASE i <= pi
    <3>1. i \in 1 .. pi /\ i + 1 \in 1 .. pi + 1 /\ i \in 1 .. k
      BY <1>0, <1>1, <2>1
    <3> QED
      BY <1>3, <1>6, <1>8, <3>1
  <2>2. CASE i > pi
    <3>1. i \in pi + 1 .. k - 1 /\ i + 1 \in pi + 2 .. k /\ i + 1 \in 1 .. k
      BY <1>0, <1>1, <2>2
    <3>2. P.sep[i] = From(S, P.ch[i + 1]) /\ P.sep[i] = To(s, ch[i + 1]) + 1
      BY <1>3, <1>6, <1>9, <3>1
    <3>3. CASE i = pi + 1
      <4>1. i + 1 = pi + 2
        BY <1>0, <3>3
      <4> QED
        BY <1>0, <1>7, <1>8, <3>2, <3>3, <4>1
    <3>4. CASE i # pi + 1
      <4>1. i \in pi + 2 .. k
        BY <1>0, <1>1, <3>1, <3>4
      <4> QED
        BY <1>9, <3>2, <4>1
    <3> QED
      BY <3>3, <3>4
  <2>3. i <= pi \/ i > pi
    BY <1>0
  <2> QED
    BY <2>1, <2>2, <2>3
<1>14. P.ch \in Seq(PagesOf(n, y))
  BY <1>6, <1>10
<1>15. Len(P.ch) = Len(P.sep) + 1
  BY <1>1, <1>6
<1>16. Kids(S, P, s[p])
  BY <1>6, <1>10, <1>11, <1>12, <1>13, <1>15 DEF Kids
<1> QED
  BY <1>6, <1>14, <1>16 DEF y

(* P is U, separator d and V, of k and l separators.                       *)
Bound(A, B, U, k, d, V, l, P) ==
  /\ P.sep \in Seq(A) /\ Len(P.sep) = k + 1 + l
  /\ \A i \in 1 .. k : P.sep[i] = U.sep[i]
  /\ P.sep[k + 1] = d
  /\ \A i \in 1 .. l : P.sep[k + 1 + i] = V.sep[i]
  /\ P.ch \in Seq(B) /\ Len(P.ch) = k + 1 + (l + 1)
  /\ \A i \in 1 .. k + 1 : P.ch[i] = U.ch[i]
  /\ \A i \in 1 .. l + 1 : P.ch[k + 1 + i] = V.ch[i]

(* The parts of an index page that two are joined to.                      *)
LEMMA BothBound ==
  ASSUME NEW A, NEW B, NEW U, U.sep \in Seq(A), U.ch \in Seq(B), NEW V, V.sep \in Seq(A), V.ch \in Seq(B),
         NEW k \in Nat, Len(U.sep) = k, Len(U.ch) = k + 1, NEW l \in Nat, Len(V.sep) = l, Len(V.ch) = l + 1,
         NEW d \in A
  PROVE  Bound(A, B, U, k, d, V, l, Both(U, d, V))
<1> DEFINE e == <<d>>
           w == U.sep \o e
           v == w \o V.sep
           c == U.ch \o V.ch
           j == k + 1
           h == l + 1
<1>1. e \in Seq(A) /\ Len(e) = 1 /\ e[1] = d
  OBVIOUS
<1>2. Chain(A, U.sep, k, e, 1, w)
  <2> HIDE DEF e
  <2> QED
    BY <1>1, Chained
<1>3. w \in Seq(A) /\ Len(w) = j
  BY <1>2 DEF Chain
<1>4. Chain(A, w, j, V.sep, l, v)
  <2> HIDE DEF e, w, j
  <2> QED
    BY <1>3, Chained
<1>5. Len(U.ch) = j /\ Len(V.ch) = h
  OBVIOUS
<1>6. Chain(B, U.ch, j, V.ch, h, c)
  <2> HIDE DEF j, h
  <2> QED
    BY <1>5, Chained
<1>7. Both(U, d, V).sep = v /\ Both(U, d, V).ch = c
  BY DEF Both
<1> HIDE DEF e, w, v, c
<1>8. /\ v \in Seq(A) /\ Len(v) = k + 1 + l
      /\ \A i \in 1 .. k : v[i] = U.sep[i]
      /\ v[k + 1] = d
      /\ \A i \in 1 .. l : v[k + 1 + i] = V.sep[i]
  <2>1. \A i \in 1 .. k : i \in 1 .. k + 1
    OBVIOUS
  <2>2. k + 1 \in 1 .. k + 1 /\ 1 \in 1 .. 1
    OBVIOUS
  <2> QED
    BY <1>1, <1>2, <1>4, <2>1, <2>2 DEF Chain
<1>9. /\ c \in Seq(B) /\ Len(c) = k + 1 + (l + 1)
      /\ \A i \in 1 .. k + 1 : c[i] = U.ch[i]
      /\ \A i \in 1 .. l + 1 : c[k + 1 + i] = V.ch[i]
  BY <1>6 DEF Chain
<1> QED
  BY <1>7, <1>8, <1>9 DEF Bound

(* The joined page is an index page over what the two spanned.             *)
LEMMA JoinedPage ==
  ASSUME NEW n, NEW r, NEW x, NEW s, Laid(n, r, x, s), NEW p, NEW pi, NEW a, NEW b,
         Siblings(x, p, pi, a, b), NEW P, P = Both(x[a], x[p].sep[pi + 1], x[b]),
         NEW S, S = JoinedSpans(s, a, b)
  PROVE  /\ Kids(S, P, [lo |-> s[a].lo, hi |-> s[b].hi, ht |-> s[a].ht])
         /\ P.sep \in Seq(1 .. n) /\ P.ch \in Seq(PagesOf(n, JoinedPages(x, p, a, b, pi)))
<1> DEFINE k == Len(x[a].sep)
           l == Len(x[b].sep)
           U == x[a]
           V == x[b]
           d == x[p].sep[pi + 1]
           y == JoinedPages(x, p, a, b, pi)
<1>0. /\ a \in DOMAIN x /\ b \in DOMAIN x /\ a # b /\ p # a /\ p # b
      /\ s[a].ht = s[b].ht
      /\ s[b].lo = s[a].hi + 1 /\ d = s[b].lo
  <2>1. SideBySide(x, s, p, pi, a, b)
    BY SiblingFacts
  <2> QED
    BY <2>1 DEF SideBySide
<1>in. a \in DOMAIN x /\ b \in DOMAIN x
  BY <1>0
<1>1. /\ k \in Nat /\ Len(U.ch) = k + 1 /\ Len(U.sep) = k /\ \A i \in 1 .. k + 1 : U.ch[i] \in PagesOf(n, x)
  BY <1>in, PageType
<1>2. /\ l \in Nat /\ Len(V.ch) = l + 1 /\ Len(V.sep) = l /\ \A i \in 1 .. l + 1 : V.ch[i] \in PagesOf(n, x)
  BY <1>in, PageType
<1>3. /\ U.sep \in Seq(1 .. n) /\ U.ch \in Seq(PagesOf(n, x))
      /\ V.sep \in Seq(1 .. n) /\ V.ch \in Seq(PagesOf(n, x))
      /\ s[b].lo \in 1 .. n
  BY <1>0 DEF Laid, Typed
<1>4. /\ \A i \in 1 .. k + 1 : Height(s, U.ch[i]) = s[a].ht - 1
      /\ From(s, U.ch[1]) = s[a].lo /\ To(s, U.ch[k + 1]) = s[a].hi
      /\ \A i \in 1 .. k : U.sep[i] = From(s, U.ch[i + 1]) /\ U.sep[i] = To(s, U.ch[i]) + 1
  BY <1>0, <1>1 DEF Laid, Kids
<1>5. /\ \A i \in 1 .. l + 1 : Height(s, V.ch[i]) = s[b].ht - 1
      /\ From(s, V.ch[1]) = s[b].lo /\ To(s, V.ch[l + 1]) = s[b].hi
      /\ \A i \in 1 .. l : V.sep[i] = From(s, V.ch[i + 1]) /\ V.sep[i] = To(s, V.ch[i]) + 1
  BY <1>0, <1>2 DEF Laid, Kids
<1>6. /\ \A i \in 1 .. k + 1 : U.ch[i] # Index(a) /\ U.ch[i] # Index(b)
      /\ \A i \in 1 .. l + 1 : V.ch[i] # Index(a) /\ V.ch[i] # Index(b)
  BY <1>0, SiblingParent
<1> HIDE DEF k, l, U, V, d, y
<1>7. \A q \in PagesOf(n, x) : q # Index(a) /\ q # Index(b) =>
        /\ q \in PagesOf(n, y) /\ From(S, q) = From(s, q)
        /\ To(S, q) = To(s, q) /\ Height(S, q) = Height(s, q)
  BY JoinedKeeps DEF y
<1>8. d \in 1 .. n /\ P = Both(U, d, V)
  BY <1>0, <1>3 DEF U, V, d
<1>9. Bound(1 .. n, PagesOf(n, x), U, k, d, V, l, P)
  <2> DEFINE A == 1 .. n
             B == PagesOf(n, x)
  <2>1. d \in A /\ U.sep \in Seq(A) /\ V.sep \in Seq(A) /\ U.ch \in Seq(B) /\ V.ch \in Seq(B)
    BY <1>3, <1>8
  <2> HIDE DEF A, B
  <2>2. Bound(A, B, U, k, d, V, l, Both(U, d, V))
    BY <1>1, <1>2, <2>1, BothBound
  <2> QED
    BY <1>8, <2>2 DEF A, B
<1>10. /\ P.sep \in Seq(1 .. n) /\ Len(P.sep) = k + 1 + l
       /\ \A i \in 1 .. k : P.sep[i] = U.sep[i]
       /\ P.sep[k + 1] = d
       /\ \A i \in 1 .. l : P.sep[k + 1 + i] = V.sep[i]
       /\ P.ch \in Seq(PagesOf(n, x)) /\ Len(P.ch) = k + 1 + (l + 1)
       /\ \A i \in 1 .. k + 1 : P.ch[i] = U.ch[i]
       /\ \A i \in 1 .. l + 1 : P.ch[k + 1 + i] = V.ch[i]
  BY <1>9 DEF Bound
<1>11. \A i \in 1 .. k + 1 :
         /\ P.ch[i] \in PagesOf(n, y) /\ From(S, P.ch[i]) = From(s, U.ch[i])
         /\ To(S, P.ch[i]) = To(s, U.ch[i])
         /\ Height(S, P.ch[i]) = s[a].ht - 1
  <2> SUFFICES ASSUME NEW i \in 1 .. k + 1
               PROVE  /\ P.ch[i] \in PagesOf(n, y) /\ From(S, P.ch[i]) = From(s, U.ch[i])
                      /\ To(S, P.ch[i]) = To(s, U.ch[i])
                      /\ Height(S, P.ch[i]) = s[a].ht - 1
    OBVIOUS
  <2> DEFINE c == U.ch[i]
  <2>1. c \in PagesOf(n, x) /\ c # Index(a) /\ c # Index(b) /\ Height(s, c) = s[a].ht - 1 /\ P.ch[i] = c
    BY <1>1, <1>4, <1>6, <1>10
  <2> HIDE DEF c
  <2>2. /\ c \in PagesOf(n, y) /\ From(S, c) = From(s, c)
        /\ To(S, c) = To(s, c) /\ Height(S, c) = Height(s, c)
    BY <1>7, <2>1
  <2> QED
    BY <2>1, <2>2 DEF c
<1>12. \A i \in 1 .. l + 1 :
         /\ P.ch[k + 1 + i] \in PagesOf(n, y)
         /\ From(S, P.ch[k + 1 + i]) = From(s, V.ch[i])
         /\ To(S, P.ch[k + 1 + i]) = To(s, V.ch[i])
         /\ Height(S, P.ch[k + 1 + i]) = s[a].ht - 1
  <2> SUFFICES ASSUME NEW i \in 1 .. l + 1
               PROVE  /\ P.ch[k + 1 + i] \in PagesOf(n, y)
                      /\ From(S, P.ch[k + 1 + i]) = From(s, V.ch[i])
                      /\ To(S, P.ch[k + 1 + i]) = To(s, V.ch[i])
                      /\ Height(S, P.ch[k + 1 + i]) = s[a].ht - 1
    OBVIOUS
  <2> DEFINE c == V.ch[i]
  <2>1. c \in PagesOf(n, x) /\ c # Index(a) /\ c # Index(b) /\ Height(s, c) = s[a].ht - 1
        /\ P.ch[k + 1 + i] = c
    BY <1>0, <1>2, <1>5, <1>6, <1>10
  <2> HIDE DEF c
  <2>2. /\ c \in PagesOf(n, y) /\ From(S, c) = From(s, c)
        /\ To(S, c) = To(s, c) /\ Height(S, c) = Height(s, c)
    BY <1>7, <2>1
  <2> QED
    BY <2>1, <2>2 DEF c
<1> DEFINE N == k + 1 + l
<1>20. N \in Nat /\ N + 1 = k + 1 + (l + 1) /\ N = k + 1 + l
  BY <1>1, <1>2
<1> HIDE DEF N
<1>21. Len(P.sep) = N /\ Len(P.ch) = N + 1
  BY <1>10, <1>20
<1>13. \A i \in 1 .. N + 1 : P.ch[i] \in PagesOf(n, y) /\ Height(S, P.ch[i]) = s[a].ht - 1
  <2> SUFFICES ASSUME NEW i \in 1 .. N + 1
               PROVE  P.ch[i] \in PagesOf(n, y) /\ Height(S, P.ch[i]) = s[a].ht - 1
    OBVIOUS
  <2>1. CASE i <= k + 1
    <3>1. i \in 1 .. k + 1
      BY <1>1, <1>20, <2>1
    <3> QED
      BY <1>11, <1>12, <3>1
  <2>2. CASE i > k + 1
    <3> DEFINE j == i - (k + 1)
    <3>1. j \in 1 .. l + 1 /\ i = k + 1 + j
      BY <1>1, <1>2, <1>20, <2>2
    <3> HIDE DEF j
    <3> QED
      BY <1>11, <1>12, <3>1
  <2> QED
    BY <1>1, <2>1, <2>2
<1>14. From(S, P.ch[1]) = s[a].lo /\ To(S, P.ch[N + 1]) = s[b].hi
  <2>1. 1 \in 1 .. k + 1 /\ l + 1 \in 1 .. l + 1 /\ N + 1 = k + 1 + (l + 1)
    BY <1>1, <1>2, <1>20
  <2> QED
    BY <1>4, <1>5, <1>11, <1>12, <2>1
<1>15. ASSUME NEW i \in 1 .. N
       PROVE  P.sep[i] = From(S, P.ch[i + 1]) /\ P.sep[i] = To(S, P.ch[i]) + 1
  <2>1. CASE i <= k
    <3>1. i \in 1 .. k /\ i \in 1 .. k + 1 /\ i + 1 \in 1 .. k + 1
      BY <1>1, <1>20, <2>1
    <3> QED
      BY <1>4, <1>10, <1>11, <1>12, <3>1
  <2>2. CASE i = k + 1
    <3>1. k + 1 \in 1 .. k + 1 /\ 1 \in 1 .. l + 1
      BY <1>1, <1>2
    <3>2. From(S, P.ch[(k + 1) + 1]) = s[b].lo
      BY <1>5, <1>11, <1>12, <3>1
    <3>3. To(S, P.ch[k + 1]) = s[a].hi
      BY <1>4, <1>11, <1>12, <3>1
    <3> QED
      BY <1>0, <1>10, <2>2, <3>2, <3>3
  <2>3. CASE i > k + 1
    <3> DEFINE j == i - (k + 1)
    <3>0. i \in Int /\ i <= k + 1 + l /\ k \in Nat /\ l \in Nat
      BY <1>1, <1>2, <1>20
    <3>1. j \in 1 .. l /\ j \in 1 .. l + 1 /\ j + 1 \in 1 .. l + 1 /\ i = k + 1 + j /\ i + 1 = k + 1 + (j + 1)
      BY <3>0, <2>3
    <3> HIDE DEF j
    <3>2. P.sep[i] = V.sep[j] /\ From(S, P.ch[i + 1]) = From(s, V.ch[j + 1]) /\ To(S, P.ch[i]) = To(s, V.ch[j])
      BY <1>10, <1>11, <1>12, <3>1
    <3> QED
      BY <1>5, <3>1, <3>2
  <2>4. i <= k \/ i = k + 1 \/ i > k + 1
    BY <1>1, <1>20
  <2> QED
    BY <2>1, <2>2, <2>3, <2>4
<1>16. P.ch \in Seq(PagesOf(n, y))
  <2>1. P.ch \in Seq(PagesOf(n, x)) /\ Len(P.ch) = N + 1
    BY <1>10, <1>21
  <2>2. \A i \in 1 .. N + 1 : P.ch[i] \in PagesOf(n, y)
    BY <1>13
  <2> HIDE DEF N
  <2> QED
    BY <2>1, <2>2
<1>17. Kids(S, P, [lo |-> s[a].lo, hi |-> s[b].hi, ht |-> s[a].ht])
  BY <1>21, <1>13, <1>14, <1>15 DEF Kids
<1> QED
  BY <1>10, <1>16, <1>17 DEF y

(* Runs that lie within each other or apart still do when b is joined to   *)
(* a.                                                                      *)
LEMMA JoinedNested ==
  ASSUME NEW n, NEW r, NEW x, NEW s, Laid(n, r, x, s), NEW p, NEW pi, NEW a, NEW b,
         Siblings(x, p, pi, a, b), NEW S, S = JoinedSpans(s, a, b),
         NEW l \in DOMAIN x \ {b}, NEW m \in DOMAIN x \ {b}, Meets(S[l], S[m]), S[l].ht <= S[m].ht
  PROVE  Within(S[l], S[m]) /\ (S[l].ht = S[m].ht => l = m)
<1>1. /\ a \in DOMAIN x /\ b \in DOMAIN x /\ p \in DOMAIN x /\ a # b /\ p # a /\ p # b
      /\ s[a].ht = s[b].ht /\ s[p].ht = s[a].ht + 1
      /\ s[b].lo = s[a].hi + 1
      /\ s[p].lo <= s[a].lo /\ s[b].hi <= s[p].hi
  <2>1. SideBySide(x, s, p, pi, a, b)
    BY SiblingFacts
  <2> QED
    BY <2>1 DEF SideBySide
<1>2. \A h \in DOMAIN x : /\ s[h].lo \in Int /\ s[h].hi \in Int /\ s[h].ht \in Int
                          /\ s[h].lo <= s[h].hi
  BY DEF Laid, Typed
<1>3. \A g, h \in DOMAIN x : Meets(s[g], s[h]) /\ s[g].ht <= s[h].ht =>
        Within(s[g], s[h]) /\ (s[g].ht = s[h].ht => g = h)
  BY DEF Laid, Nested
<1>4. DOMAIN s = DOMAIN x
  BY DEF Laid, Typed
<1>5. /\ S[a].lo = s[a].lo /\ S[a].hi = s[b].hi /\ S[a].ht = s[a].ht
      /\ \A h \in DOMAIN x \ {b} : h # a => S[h] = s[h]
  BY <1>1, <1>4 DEF JoinedSpans
<1>6. CASE l # a /\ m # a
  BY <1>3, <1>5, <1>6
(* A page that is lower than the two shares data with one of them, and is  *)
(* under it.                                                               *)
<1>7. CASE l # a /\ m = a
  <2>1. S[l] = s[l] /\ l \in DOMAIN x
    BY <1>5, <1>7
  <2> DEFINE l0 == s[l].lo
             l1 == s[l].hi
             a0 == s[a].lo
             a1 == s[a].hi
             b0 == s[b].lo
             b1 == s[b].hi
  <2>2. /\ l0 \in Int /\ l1 \in Int /\ a0 \in Int /\ a1 \in Int /\ b0 \in Int /\ b1 \in Int
        /\ l0 <= l1 /\ a0 <= a1 /\ b0 <= b1 /\ b0 = a1 + 1
    BY <1>1, <1>2, <2>1
  <2>3. l0 <= b1 /\ a0 <= l1 /\ s[l].ht <= s[a].ht
    BY <1>5, <1>7, <2>1 DEF Meets
  <2> HIDE DEF l0, l1, a0, a1, b0, b1
  <2>4. (l0 <= a1 /\ a0 <= l1) \/ (l0 <= b1 /\ b0 <= l1)
    BY <2>2, <2>3
  <2>5. CASE l0 <= a1 /\ a0 <= l1
    <3>1. Meets(s[l], s[a])
      BY <2>5 DEF Meets, l0, l1, a0, a1
    <3>2. Within(s[l], s[a]) /\ s[l].ht # s[a].ht
      BY <1>1, <1>3, <1>7, <2>1, <2>3, <3>1
    <3>3. a0 <= l0 /\ l1 <= a1
      BY <3>2 DEF Within, l0, l1, a0, a1
    <3>4. a0 <= l0 /\ l1 <= b1
      BY <2>2, <3>3
    <3> QED
      BY <1>5, <1>7, <2>1, <3>2, <3>4 DEF Within, l0, l1, a0, b1
  <2>6. CASE l0 <= b1 /\ b0 <= l1
    <3>1. Meets(s[l], s[b])
      BY <2>6 DEF Meets, l0, l1, b0, b1
    <3>2. Within(s[l], s[b]) /\ s[l].ht # s[b].ht
      BY <1>1, <1>3, <1>7, <2>1, <2>3, <3>1
    <3>3. b0 <= l0 /\ l1 <= b1
      BY <3>2 DEF Within, l0, l1, b0, b1
    <3>4. a0 <= l0 /\ l1 <= b1
      BY <2>2, <3>3
    <3> QED
      BY <1>1, <1>5, <1>7, <2>1, <3>2, <3>4 DEF Within, l0, l1, a0, b1
  <2> QED
    BY <2>4, <2>5, <2>6
(* A higher one is over p as well, and so over both.                       *)
<1>8. CASE l = a /\ m # a
  <2>1. S[m] = s[m] /\ m \in DOMAIN x
    BY <1>5, <1>8
  <2> DEFINE m0 == s[m].lo
             m1 == s[m].hi
             mh == s[m].ht
             a0 == s[a].lo
             a1 == s[a].hi
             ah == s[a].ht
             b0 == s[b].lo
             b1 == s[b].hi
             p0 == s[p].lo
             p1 == s[p].hi
             ph == s[p].ht
  <2>2. /\ m0 \in Int /\ m1 \in Int /\ a0 \in Int /\ a1 \in Int /\ b0 \in Int /\ b1 \in Int
        /\ m0 <= m1 /\ a0 <= a1 /\ b0 <= b1 /\ b0 = a1 + 1
        /\ p0 \in Int /\ p1 \in Int /\ p0 <= a0 /\ b1 <= p1
        /\ mh \in Int /\ ah \in Int /\ ph = ah + 1 /\ s[b].ht = ah
    BY <1>1, <1>2, <2>1
  <2>3. a0 <= m1 /\ m0 <= b1 /\ ah <= mh
    BY <1>5, <1>8, <2>1 DEF Meets
  <2> HIDE DEF m0, m1, mh, a0, a1, ah, b0, b1, p0, p1, ph
  <2>4. mh # ah
    <3> SUFFICES ASSUME mh = ah PROVE FALSE
      OBVIOUS
    <3>1. (a0 <= m1 /\ m0 <= a1) \/ (b0 <= m1 /\ m0 <= b1)
      BY <2>2, <2>3
    <3>2. CASE a0 <= m1 /\ m0 <= a1
      <4>1. Meets(s[m], s[a]) /\ s[m].ht = s[a].ht /\ s[m].ht <= s[a].ht
        BY <2>2, <3>2 DEF Meets, m0, m1, a0, a1, mh, ah
      <4> QED
        BY <1>1, <1>3, <1>8, <2>1, <4>1
    <3>3. CASE b0 <= m1 /\ m0 <= b1
      <4>1. Meets(s[m], s[b]) /\ s[m].ht = s[b].ht /\ s[m].ht <= s[b].ht
        BY <2>2, <3>3 DEF Meets, m0, m1, b0, b1, mh, ah
      <4> QED
        BY <1>1, <1>3, <2>1, <4>1
    <3> QED
      BY <3>1, <3>2, <3>3
  <2>5. p0 <= m1 /\ m0 <= p1 /\ ph <= mh
    BY <2>2, <2>3, <2>4
  <2>6. Meets(s[p], s[m]) /\ s[p].ht <= s[m].ht
    BY <2>5 DEF Meets, m0, m1, mh, p0, p1, ph
  <2>7. Within(s[p], s[m])
    BY <1>1, <1>3, <2>1, <2>6
  <2>8. m0 <= p0 /\ p1 <= m1
    BY <2>7 DEF Within, m0, m1, p0, p1
  <2>9. m0 <= a0 /\ b1 <= m1
    BY <2>2, <2>8
  <2> QED
    BY <1>5, <1>8, <2>1, <2>4, <2>9 DEF Within, m0, m1, mh, a0, ah, b1
<1>9. CASE l = a /\ m = a
  <2>1. Within(S[a], S[a])
    BY <1>1, <1>2, <1>5 DEF Within
  <2> QED
    BY <1>9, <2>1
<1> QED
  BY <1>6, <1>7, <1>8, <1>9

(* No child is the root.                                                   *)
LEMMA RootNoChild ==
  ASSUME NEW n, NEW r, NEW x, NEW s, Laid(n, r, x, s), NEW m \in DOMAIN x,
         NEW i \in 1 .. Len(x[m].sep) + 1
  PROVE  x[m].ch[i] # r
<1> SUFFICES ASSUME x[m].ch[i] = r PROVE FALSE
  OBVIOUS
<1> DEFINE g == s[m].ht
           h == Height(s, r)
<1>1. h = g - 1
  BY KidsInside
<1>2. g \in Nat \ {0} /\ h \in Nat
  BY SpanType DEF Laid, Typed
<1>3. Index(m) # r => g < h
  BY DEF Laid, Rooted
<1>4. Index(m) = r => g = h
  BY Pointing
<1> HIDE DEF g, h
<1> QED
  BY <1>1, <1>2, <1>3, <1>4

(* Index page b and the separator before it go into a, its neighbour.      *)
LEMMA LaidJoined ==
  ASSUME NEW n, NEW r, NEW x, NEW s, Laid(n, r, x, s), NEW p, NEW pi, NEW a, NEW b,
         Siblings(x, p, pi, a, b)
  PROVE  Laid(n, r, JoinedPages(x, p, a, b, pi), JoinedSpans(s, a, b))
<1> DEFINE y == JoinedPages(x, p, a, b, pi)
           S == JoinedSpans(s, a, b)
<1>1. Typed(n, r, x, s) /\ DOMAIN s = DOMAIN x /\ Rooted(n, r, x, s)
  BY DEF Laid, Typed
<1>2. SideBySide(x, s, p, pi, a, b)
  BY SiblingFacts
<1>3. a \in DOMAIN x /\ b \in DOMAIN x /\ p \in DOMAIN x /\ a # b /\ p # a /\ p # b
  BY <1>2 DEF SideBySide
<1>4. DOMAIN y = DOMAIN x \ {b} /\ DOMAIN S = DOMAIN x \ {b} /\ y = [m \in DOMAIN y |-> y[m]]
  BY <1>1 DEF JoinedPages, JoinedSpans
<1>5. /\ y[p] = DropKid(x[p], pi) /\ S[p] = s[p]
      /\ y[a] = Both(x[a], x[p].sep[pi + 1], x[b]) /\ S[a] = [lo |-> s[a].lo, hi |-> s[b].hi, ht |-> s[a].ht]
      /\ \A m \in DOMAIN x \ {b} : m # p /\ m # a => y[m] = x[m]
      /\ \A m \in DOMAIN x \ {b} : m # a => S[m] = s[m]
  BY <1>1, <1>3 DEF JoinedPages, JoinedSpans
<1> HIDE DEF y, S
<1>6. Kids(S, y[p], S[p]) /\ y[p].sep \in Seq(1 .. n) /\ y[p].ch \in Seq(PagesOf(n, y))
  <2> DEFINE P == DropKid(x[p], pi)
  <2>1. P = DropKid(x[p], pi) /\ S = JoinedSpans(s, a, b) /\ y = JoinedPages(x, p, a, b, pi)
    BY DEF y, S
  <2> HIDE DEF P
  <2>2. Kids(S, P, s[p]) /\ P.sep \in Seq(1 .. n) /\ P.ch \in Seq(PagesOf(n, y))
    BY <2>1, JoinedParent
  <2> QED
    BY <1>5, <2>1, <2>2
<1>7. Kids(S, y[a], S[a]) /\ y[a].sep \in Seq(1 .. n) /\ y[a].ch \in Seq(PagesOf(n, y))
  <2> DEFINE P == Both(x[a], x[p].sep[pi + 1], x[b])
  <2>1. P = Both(x[a], x[p].sep[pi + 1], x[b]) /\ S = JoinedSpans(s, a, b) /\ y = JoinedPages(x, p, a, b, pi)
    BY DEF y, S
  <2> HIDE DEF P
  <2>2. Kids(S, P, [lo |-> s[a].lo, hi |-> s[b].hi, ht |-> s[a].ht])
        /\ P.sep \in Seq(1 .. n) /\ P.ch \in Seq(PagesOf(n, y))
    BY <2>1, JoinedPage
  <2> QED
    BY <1>5, <2>1, <2>2
<1>8. ASSUME NEW m \in DOMAIN x, m # b, m # p, m # a
      PROVE  Kids(S, y[m], S[m]) /\ y[m].sep \in Seq(1 .. n) /\ y[m].ch \in Seq(PagesOf(n, y))
  <2>1. /\ \A i \in 1 .. Len(x[m].sep) + 1 : x[m].ch[i] \in PagesOf(n, x)
        /\ Len(x[m].ch) = Len(x[m].sep) + 1
    BY PageType
  <2>2. ASSUME NEW i \in 1 .. Len(x[m].sep) + 1
        PROVE  x[m].ch[i] # Index(a) /\ x[m].ch[i] # Index(b)
    BY <1>8, SiblingParent
  <2>3. ASSUME NEW i \in 1 .. Len(x[m].sep) + 1
        PROVE  /\ x[m].ch[i] \in PagesOf(n, y)
               /\ x[m].ch[i].at = "x" => S[x[m].ch[i].no] = s[x[m].ch[i].no]
    <3> DEFINE c == x[m].ch[i]
    <3>1. c \in PagesOf(n, x) /\ c # Index(a) /\ c # Index(b)
      BY <2>1, <2>2
    <3> HIDE DEF c
    <3>2. c \in PagesOf(n, y)
      BY <3>1, JoinedKeeps DEF y
    <3>3. c.at = "x" => c.no \in DOMAIN x /\ c.no # a /\ c.no # b
      BY <3>1, PointerKinds DEF Index, Data
    <3> QED
      BY <1>5, <3>2, <3>3 DEF c
  <2>4. x[m].sep \in Seq(1 .. n) /\ x[m].ch \in Seq(PagesOf(n, x))
    BY <1>1 DEF Typed
  <2>5. x[m].ch \in Seq(PagesOf(n, y))
    BY <2>1, <2>3, <2>4
  <2>6. y[m] = x[m] /\ S[m] = s[m]
    BY <1>5, <1>8
  <2>7. Kids(S, x[m], S[m])
    BY <2>3, <2>6, SameKids
  <2> QED
    BY <2>4, <2>5, <2>6, <2>7
<1>9. ASSUME NEW m \in DOMAIN y
      PROVE  Kids(S, y[m], S[m]) /\ y[m].sep \in Seq(1 .. n) /\ y[m].ch \in Seq(PagesOf(n, y))
  BY <1>4, <1>6, <1>7, <1>8
<1>10. ASSUME NEW m \in DOMAIN y
       PROVE  /\ S[m].lo \in 1 .. n /\ S[m].hi \in 1 .. n /\ S[m].ht \in Nat \ {0}
              /\ S[m].lo <= S[m].hi
  <2>1. CASE m # a
    BY <1>1, <1>4, <1>5, <2>1 DEF Typed
  <2>2. CASE m = a
    <3> DEFINE u == s[a].lo
               v == s[a].hi
               w == s[b].lo
               z == s[b].hi
    <3>1. u \in 1 .. n /\ v \in 1 .. n /\ w \in 1 .. n /\ z \in 1 .. n /\ u <= v /\ w <= z /\ s[a].ht \in Nat \ {0}
      BY <1>1, <1>3 DEF Typed
    <3>2. w = v + 1
      BY <1>2 DEF SideBySide
    <3>3. S[m].lo = u /\ S[m].hi = z /\ S[m].ht = s[a].ht
      BY <1>5, <2>2
    <3> HIDE DEF u, v, w, z
    <3>4. u <= z
      BY <3>1, <3>2
    <3> QED
      BY <3>1, <3>3, <3>4
  <2> QED
    BY <2>1, <2>2
<1>11. r # Index(a) /\ r # Index(b)
  <2>1. p \in DOMAIN x /\ pi \in 0 .. Len(x[p].sep) - 1 /\ x[p].ch[pi + 1] = Index(a) /\ x[p].ch[pi + 2] = Index(b)
    BY DEF Siblings
  <2> DEFINE k == Len(x[p].sep)
             j == pi + 1
             l == pi + 2
  <2>2. k \in Nat
    BY <2>1, PageType
  <2>3. j \in 1 .. k + 1 /\ l \in 1 .. k + 1 /\ x[p].ch[j] = Index(a) /\ x[p].ch[l] = Index(b)
    <3> HIDE DEF k
    <3> QED
      BY <2>1, <2>2 DEF k
  <2> HIDE DEF j, l
  <2> QED
    BY <2>1, <2>3, RootNoChild
<1>12. /\ r \in PagesOf(n, y) /\ From(S, r) = From(s, r) /\ To(S, r) = To(s, r)
       /\ Height(S, r) = Height(s, r)
  <2>1. r \in PagesOf(n, x)
    BY <1>1 DEF Typed
  <2> QED
    BY <1>11, <2>1, JoinedKeeps DEF y, S
<1>13. Typed(n, r, y, S)
  <2>1. IsFiniteSet(DOMAIN y) /\ DOMAIN y \subseteq Nat \ {0}
    BY <1>1, <1>4, FS_Subset DEF Typed
  <2>2. n \in Nat
    BY <1>1 DEF Typed
  <2> QED
    BY <1>4, <1>9, <1>10, <1>12, <2>1, <2>2 DEF Typed
<1>14. Nested(y, S)
  <2> SUFFICES ASSUME NEW l \in DOMAIN y, NEW m \in DOMAIN y, Meets(S[l], S[m]), S[l].ht <= S[m].ht
               PROVE  Within(S[l], S[m]) /\ (S[l].ht = S[m].ht => l = m)
    BY DEF Nested
  <2>1. S = JoinedSpans(s, a, b) /\ l \in DOMAIN x \ {b} /\ m \in DOMAIN x \ {b}
    BY <1>4 DEF S
  <2> QED
    BY <2>1, JoinedNested
<1>15. Rooted(n, r, y, S)
  <2>1. \A m \in DOMAIN y : m \in DOMAIN x /\ S[m].ht = s[m].ht
    BY <1>4, <1>5
  <2> QED
    BY <1>1, <1>12, <2>1 DEF Rooted
<1> QED
  BY <1>9, <1>13, <1>14, <1>15 DEF Laid, y, S

-----------------------------------------------------------------------------
(* Cutting an index page in two.                                           *)

(* u is s from place a on, n values of it.                                 *)
Slice(X, s, a, n, u) ==
  /\ u \in Seq(X) /\ Len(u) = n
  /\ \A i \in 1 .. n : u[i] = s[a + i - 1]

(* What a slice of a sequence is.                                          *)
LEMMA Sliced ==
  ASSUME NEW X, NEW s \in Seq(X), NEW a \in Nat \ {0}, NEW n \in Nat, a + n - 1 <= Len(s),
         NEW b, b = a + n - 1
  PROVE  Slice(X, s, a, n, SubSeq(s, a, b))
<1>1. Len(s) \in Nat /\ \A i \in 1 .. Len(s) : s[i] \in X
  OBVIOUS
<1>2. \A i \in a .. b : s[i] \in X
  BY <1>1
<1> DEFINE u == SubSeq(s, a, b)
<1>3. /\ u \in Seq(X) /\ Len(u) = IF a <= b THEN b - a + 1 ELSE 0
      /\ \A i \in 1 .. b - a + 1 : u[i] = s[a + i - 1]
  <2>1. a \in Int /\ b \in Int
    OBVIOUS
  <2> QED
    BY <1>2, <2>1, SubSeqProperties
<1> HIDE DEF u
<1>4. b - a + 1 = n /\ (a <= b \/ n = 0)
  OBVIOUS
<1>5. Slice(X, s, a, n, u)
  BY <1>3, <1>4 DEF Slice
<1> QED
  BY <1>5 DEF u

(* The two parts of index page P that is cut at separator j.               *)
LeftPart(P, j) == [sep |-> SubSeq(P.sep, 1, j - 1), ch |-> SubSeq(P.ch, 1, j)]
RightPart(P, j) ==
  [sep |-> SubSeq(P.sep, j + 1, Len(P.sep)), ch |-> SubSeq(P.ch, j + 1, Len(P.ch))]

(* Page m, child pi of page p, has a separator j, and f is no page.        *)
Cuttable(x, p, pi, m, f, j) ==
  /\ p \in DOMAIN x /\ pi \in 0 .. Len(x[p].sep) /\ x[p].ch[pi + 1] = Index(m)
  /\ m \in DOMAIN x /\ j \in 1 .. Len(x[m].sep)
  /\ f \in Nat \ {0} /\ f \notin DOMAIN x

(* The index pages, and their spans, after page m is cut at separator j,   *)
(* with the right part as page f.                                          *)
CutPages(x, p, pi, m, f, j) ==
  [l \in DOMAIN x \cup {f} |->
     IF l = p THEN XInsert(x[p], pi, x[m].sep[j], Index(f))
     ELSE IF l = m THEN LeftPart(x[m], j)
     ELSE IF l = f THEN RightPart(x[m], j)
     ELSE x[l]]
CutSpans(x, s, m, f, j) ==
  [l \in DOMAIN s \cup {f} |->
     IF l = m THEN [lo |-> s[m].lo, hi |-> x[m].sep[j] - 1, ht |-> s[m].ht]
     ELSE IF l = f THEN [lo |-> x[m].sep[j], hi |-> s[m].hi, ht |-> s[m].ht]
     ELSE s[l]]

(* Where page m is cut.                                                    *)
CutPlace(n, x, s, p, m, f, j) ==
  /\ p # m /\ f # p /\ f # m
  /\ x[m].sep[j] \in 1 .. n /\ s[m].lo < x[m].sep[j] /\ x[m].sep[j] <= s[m].hi
  /\ x[m].sep[j] = From(s, x[m].ch[j + 1]) /\ x[m].sep[j] = To(s, x[m].ch[j]) + 1
  /\ s[p].ht = s[m].ht + 1 /\ s[p].lo <= s[m].lo /\ s[m].hi <= s[p].hi

(* Where index page m is cut, in terms of what its children span.          *)
LEMMA CutFacts ==
  ASSUME NEW n, NEW r, NEW x, NEW s, Laid(n, r, x, s), NEW p, NEW pi, NEW m, NEW f, NEW j,
         Cuttable(x, p, pi, m, f, j)
  PROVE  CutPlace(n, x, s, p, m, f, j)
<1>1. /\ p \in DOMAIN x /\ pi \in 0 .. Len(x[p].sep) /\ x[p].ch[pi + 1] = Index(m)
      /\ m \in DOMAIN x /\ j \in 1 .. Len(x[m].sep) /\ f # p /\ f # m
  BY DEF Cuttable
<1>in. m \in DOMAIN x /\ p \in DOMAIN x
  BY <1>1
<1> DEFINE k == Len(x[m].sep)
           ch == x[m].ch
           c == x[m].sep[j]
<1>2. /\ k \in Nat /\ \A i \in 1 .. k + 1 : ch[i] \in PagesOf(n, x)
      /\ \A i \in 1 .. k : x[m].sep[i] \in 1 .. n
  BY <1>in, PageType
<1>3. c \in 1 .. n /\ j \in 1 .. k + 1 /\ j + 1 \in 1 .. k + 1
  BY <1>1, <1>2
<1>4. c = From(s, ch[j + 1]) /\ c = To(s, ch[j]) + 1
  BY <1>1 DEF Laid, Kids
<1>5. \A i \in 1 .. k + 1 : s[m].lo <= From(s, ch[i]) /\ To(s, ch[i]) <= s[m].hi
  BY <1>1, KidsInside
<1>6. \A i \in 1 .. k + 1 : /\ From(s, ch[i]) \in Int /\ To(s, ch[i]) \in Int
                           /\ From(s, ch[i]) <= To(s, ch[i])
  <2>1. Typed(n, r, x, s)
    BY DEF Laid
  <2> HIDE DEF k, ch
  <2> QED
    BY <1>2, <2>1, SpanType
<1>7. s[m].lo \in Int /\ s[m].hi \in Int /\ s[m].ht \in Nat \ {0} /\ s[p].ht \in Nat \ {0}
  BY <1>1 DEF Laid, Typed
<1>8. s[p].lo <= s[m].lo /\ s[m].hi <= s[p].hi /\ s[m].ht = s[p].ht - 1
  <2> DEFINE i == pi + 1
  <2>1. i \in 1 .. Len(x[p].sep) + 1 /\ x[p].ch[i] = Index(m)
    <3>1. Len(x[p].sep) \in Nat
      BY <1>in, PageType
    <3> QED
      BY <1>1, <3>1
  <2> HIDE DEF i
  <2>2. /\ s[p].lo <= From(s, x[p].ch[i]) /\ To(s, x[p].ch[i]) <= s[p].hi
        /\ Height(s, x[p].ch[i]) = s[p].ht - 1
    BY <1>in, <2>1, KidsInside
  <2> QED
    BY <2>1, <2>2, Pointing
<1>9. s[m].lo < c /\ c <= s[m].hi
  <2> DEFINE lo == s[m].lo
             hi == s[m].hi
             t == To(s, ch[j])
             u == From(s, ch[j])
             v == From(s, ch[j + 1])
             w == To(s, ch[j + 1])
  <2>1. /\ lo \in Int /\ hi \in Int /\ t \in Int /\ u \in Int /\ v \in Int /\ w \in Int
        /\ lo <= u /\ u <= t /\ v <= w /\ w <= hi /\ c = v /\ c = t + 1
    <3> HIDE DEF k, ch, c
    <3> QED
      BY <1>3, <1>4, <1>5, <1>6, <1>7
  <2> HIDE DEF lo, hi, t, u, v, w, c
  <2>2. lo < c /\ c <= hi
    BY <2>1
  <2> QED
    BY <2>2 DEF lo, hi
<1>10. s[p].ht = s[m].ht + 1 /\ p # m
  <2> DEFINE g == s[p].ht
             h == s[m].ht
  <2>1. g \in Int /\ h \in Int /\ h = g - 1
    BY <1>7, <1>8
  <2> HIDE DEF g, h
  <2>2. g = h + 1 /\ g # h
    BY <2>1
  <2> QED
    BY <2>2 DEF g, h
<1>11. f # p /\ f # m
  BY <1>1
<1> HIDE DEF c, ch
<1>12. CutPlace(n, x, s, p, m, f, j)
  BY <1>3, <1>4, <1>8, <1>9, <1>10, <1>11 DEF CutPlace, c, ch
<1> QED
  BY <1>12

(* When index page m is cut, every other page spans what it did, and m     *)
(* what is left of the cut.                                                *)
LEMMA CutKeeps ==
  ASSUME NEW n, NEW r, NEW x, NEW s, Laid(n, r, x, s), NEW p, NEW pi, NEW m, NEW f, NEW j,
         Cuttable(x, p, pi, m, f, j), NEW q \in PagesOf(n, x)
  PROVE  /\ q \in PagesOf(n, CutPages(x, p, pi, m, f, j))
         /\ From(CutSpans(x, s, m, f, j), q) = From(s, q)
         /\ To(CutSpans(x, s, m, f, j), q) = IF q = Index(m) THEN x[m].sep[j] - 1 ELSE To(s, q)
         /\ Height(CutSpans(x, s, m, f, j), q) = Height(s, q)
         /\ q # Index(m) /\ q.at = "x" => CutSpans(x, s, m, f, j)[q.no] = s[q.no]
<1>1. /\ DOMAIN s = DOMAIN x /\ DOMAIN CutPages(x, p, pi, m, f, j) = DOMAIN x \cup {f}
      /\ m \in DOMAIN x /\ f \notin DOMAIN x
  BY DEF Laid, Typed, CutPages, Cuttable
<1>2. CASE q.at = "d" /\ q.no \in 1 .. n /\ q = Data(q.no)
  BY <1>2 DEF PagesOf, From, To, Height, Index
<1>3. CASE q.at = "x" /\ q.no \in DOMAIN x /\ q = Index(q.no)
  <2> DEFINE l == q.no
  <2>1. l \in DOMAIN x /\ l # f /\ q = Index(l) /\ (q = Index(m) <=> l = m)
    BY <1>1, <1>3 DEF Index
  <2> HIDE DEF l
  <2>2. q \in PagesOf(n, CutPages(x, p, pi, m, f, j))
    BY <1>1, <2>1 DEF PagesOf
  <2>3. CutSpans(x, s, m, f, j)[l] =
          IF l = m THEN [lo |-> s[m].lo, hi |-> x[m].sep[j] - 1, ht |-> s[m].ht] ELSE s[l]
    BY <1>1, <2>1 DEF CutSpans
  <2> QED
    BY <2>1, <2>2, <2>3, Pointing
<1> QED
  BY <1>2, <1>3, PointerKinds

(* Only p has the page that is cut for a child.                            *)
LEMMA CutParent ==
  ASSUME NEW n, NEW r, NEW x, NEW s, Laid(n, r, x, s), NEW p, NEW pi, NEW m, NEW f, NEW j,
         Cuttable(x, p, pi, m, f, j), NEW l \in DOMAIN x, NEW i \in 1 .. Len(x[l].sep) + 1,
         x[l].ch[i] = Index(m)
  PROVE  l = p /\ i = pi + 1
<1> DEFINE h == pi + 1
<1>1. p \in DOMAIN x /\ pi \in 0 .. Len(x[p].sep) /\ x[p].ch[h] = Index(m)
  BY DEF Cuttable
<1>2. h \in 1 .. Len(x[p].sep) + 1
  <2>1. Len(x[p].sep) \in Nat
    BY <1>1, PageType
  <2> QED
    BY <1>1, <2>1
<1> HIDE DEF h
<1>3. l = p /\ i = h
  BY <1>1, <1>2, OneParent
<1> QED
  BY <1>3 DEF h

(* The two halves of the page that is cut.                                 *)
LEMMA CutHalves ==
  ASSUME NEW n, NEW r, NEW x, NEW s, Laid(n, r, x, s), NEW p, NEW pi, NEW m, NEW f, NEW j,
         Cuttable(x, p, pi, m, f, j), NEW S, S = CutSpans(x, s, m, f, j),
         NEW y, y = CutPages(x, p, pi, m, f, j),
         NEW P, P = LeftPart(x[m], j), NEW Q, Q = RightPart(x[m], j)
  PROVE  /\ Kids(S, P, S[m]) /\ P.sep \in Seq(1 .. n) /\ P.ch \in Seq(PagesOf(n, y))
         /\ Kids(S, Q, S[f]) /\ Q.sep \in Seq(1 .. n) /\ Q.ch \in Seq(PagesOf(n, y))
<1> DEFINE k == Len(x[m].sep)
           ch == x[m].ch
           sep == x[m].sep
           A == 1 .. n
           B == PagesOf(n, y)
<1>0. m \in DOMAIN x /\ j \in 1 .. k /\ p # m /\ f \notin DOMAIN x
  BY CutFacts DEF Cuttable, CutPlace
<1>in. m \in DOMAIN x
  BY <1>0
<1>1. /\ k \in Nat /\ Len(ch) = k + 1 /\ \A i \in 1 .. k + 1 : ch[i] \in PagesOf(n, x)
  BY <1>in, PageType
<1>2. sep \in Seq(A) /\ ch \in Seq(PagesOf(n, x)) /\ DOMAIN s = DOMAIN x
  BY <1>0 DEF Laid, Typed
<1>3. /\ \A i \in 1 .. k + 1 : Height(s, ch[i]) = s[m].ht - 1
      /\ From(s, ch[1]) = s[m].lo /\ To(s, ch[k + 1]) = s[m].hi
      /\ \A i \in 1 .. k : sep[i] = From(s, ch[i + 1]) /\ sep[i] = To(s, ch[i]) + 1
  BY <1>0, <1>1 DEF Laid, Kids
<1>4. \A i \in 1 .. k + 1 : ch[i] # Index(m)
  <2> SUFFICES ASSUME NEW i \in 1 .. k + 1, ch[i] = Index(m) PROVE FALSE
    OBVIOUS
  <2>1. m = p
    BY <1>in, CutParent
  <2> QED
    BY <1>0, <2>1
<1>5. /\ S[m] = [lo |-> s[m].lo, hi |-> sep[j] - 1, ht |-> s[m].ht]
      /\ S[f] = [lo |-> sep[j], hi |-> s[m].hi, ht |-> s[m].ht]
  BY <1>0, <1>2 DEF CutSpans
<1>5a. sep[j] = From(s, ch[j + 1]) /\ sep[j] = To(s, ch[j]) + 1
  BY <1>0, <1>3
<1>6. \A i \in 1 .. k + 1 : /\ ch[i] \in B /\ From(S, ch[i]) = From(s, ch[i])
                           /\ To(S, ch[i]) = To(s, ch[i]) /\ Height(S, ch[i]) = s[m].ht - 1
  <2> SUFFICES ASSUME NEW i \in 1 .. k + 1
               PROVE  /\ ch[i] \in B /\ From(S, ch[i]) = From(s, ch[i])
                      /\ To(S, ch[i]) = To(s, ch[i]) /\ Height(S, ch[i]) = s[m].ht - 1
    OBVIOUS
  <2> DEFINE c == ch[i]
  <2>1. c \in PagesOf(n, x) /\ c # Index(m) /\ Height(s, c) = s[m].ht - 1
    BY <1>1, <1>3, <1>4
  <2> HIDE DEF c
  <2>2. /\ c \in B /\ From(S, c) = From(s, c) /\ To(S, c) = To(s, c) /\ Height(S, c) = Height(s, c)
    BY <2>1, CutKeeps
  <2> QED
    BY <2>1, <2>2 DEF c
<1>7. ch \in Seq(B)
  <2>1. /\ ch \in Seq(PagesOf(n, x)) /\ k \in Nat /\ Len(ch) = k + 1
        /\ \A i \in 1 .. k + 1 : ch[i] \in B
    BY <1>1, <1>2, <1>6
  <2> HIDE DEF ch, k, B
  <2> QED
    BY <2>1
<1>8. /\ P.sep = SubSeq(sep, 1, j - 1) /\ P.ch = SubSeq(ch, 1, j)
      /\ Q.sep = SubSeq(sep, j + 1, k) /\ Q.ch = SubSeq(ch, j + 1, k + 1)
  BY <1>1 DEF LeftPart, RightPart
<1>9. Len(sep) = k
  OBVIOUS
<1>10. To(s, ch[j]) \in Int
  <2>1. Typed(n, r, x, s)
    BY DEF Laid
  <2>2. ch[j] \in PagesOf(n, x)
    <3>1. j \in 1 .. k + 1
      BY <1>0, <1>1
    <3> QED
      BY <1>1, <3>1
  <2> HIDE DEF ch
  <2> QED
    BY <2>1, <2>2, SpanType
<1> HIDE DEF k, ch, sep, A, B
<1>11. Slice(A, sep, 1, j - 1, P.sep)
  <2> DEFINE o == 1
             l == j - 1
  <2>1. o \in Nat \ {0} /\ l \in Nat /\ o + l - 1 <= Len(sep) /\ l = o + l - 1
    BY <1>0, <1>1, <1>9
  <2>2. P.sep = SubSeq(sep, o, l)
    BY <1>8
  <2> HIDE DEF o, l
  <2>3. Slice(A, sep, o, l, P.sep)
    BY <1>2, <2>1, <2>2, Sliced
  <2> QED
    BY <2>3 DEF o, l
<1>12. Slice(B, ch, 1, j, P.ch)
  <2> DEFINE o == 1
  <2>1. o \in Nat \ {0} /\ j \in Nat /\ o + j - 1 <= Len(ch) /\ j = o + j - 1
    BY <1>0, <1>1
  <2>2. P.ch = SubSeq(ch, o, j)
    BY <1>8
  <2> HIDE DEF o
  <2>3. Slice(B, ch, o, j, P.ch)
    BY <1>7, <2>1, <2>2, Sliced
  <2> QED
    BY <2>3 DEF o
<1>13. Slice(A, sep, j + 1, k - j, Q.sep)
  <2> DEFINE o == j + 1
             l == k - j
  <2>1. o \in Nat \ {0} /\ l \in Nat /\ o + l - 1 <= Len(sep) /\ k = o + l - 1
    BY <1>0, <1>1, <1>9
  <2>2. Q.sep = SubSeq(sep, o, k)
    BY <1>8
  <2> HIDE DEF o, l
  <2>3. Slice(A, sep, o, l, Q.sep)
    BY <1>2, <2>1, <2>2, Sliced
  <2> QED
    BY <2>3 DEF o, l
<1>14. Slice(B, ch, j + 1, k - j + 1, Q.ch)
  <2> DEFINE o == j + 1
             l == k - j + 1
             e == k + 1
  <2>1. o \in Nat \ {0} /\ l \in Nat /\ o + l - 1 <= Len(ch) /\ e = o + l - 1
    BY <1>0, <1>1
  <2>2. Q.ch = SubSeq(ch, o, e)
    BY <1>8
  <2> HIDE DEF o, l, e
  <2>3. Slice(B, ch, o, l, Q.ch)
    BY <1>7, <2>1, <2>2, Sliced
  <2> QED
    BY <2>3 DEF o, l
<1>15. /\ P.sep \in Seq(A) /\ Len(P.sep) = j - 1 /\ \A i \in 1 .. j - 1 : P.sep[i] = sep[i]
       /\ P.ch \in Seq(B) /\ Len(P.ch) = j /\ \A i \in 1 .. j : P.ch[i] = ch[i]
  <2>1. \A i \in 1 .. j : 1 + i - 1 = i
    BY <1>0
  <2>2. \A i \in 1 .. j - 1 : i \in 1 .. j
    BY <1>0
  <2> QED
    BY <1>11, <1>12, <2>1, <2>2 DEF Slice
<1>16. /\ Q.sep \in Seq(A) /\ Len(Q.sep) = k - j /\ \A i \in 1 .. k - j : Q.sep[i] = sep[j + i]
       /\ Q.ch \in Seq(B) /\ Len(Q.ch) = k - j + 1 /\ \A i \in 1 .. k - j + 1 : Q.ch[i] = ch[j + i]
  <2>1. \A i \in 1 .. k - j + 1 : (j + 1) + i - 1 = j + i
    BY <1>0
  <2>2. \A i \in 1 .. k - j : i \in 1 .. k - j + 1
    BY <1>0, <1>1
  <2> QED
    BY <1>13, <1>14, <2>1, <2>2 DEF Slice
<1>17. Kids(S, P, S[m])
  <2>1. Len(P.ch) = Len(P.sep) + 1
    BY <1>0, <1>15
  <2>2. \A i \in 1 .. j : i \in 1 .. k + 1 /\ P.ch[i] = ch[i]
    BY <1>0, <1>1, <1>15
  <2>3. \A i \in 1 .. j : Height(S, P.ch[i]) = S[m].ht - 1
    BY <1>5, <1>6, <2>2
  <2>4. From(S, P.ch[1]) = S[m].lo
    <3>1. 1 \in 1 .. j
      BY <1>0, <1>1
    <3> QED
      BY <1>3, <1>5, <1>6, <2>2, <3>1
  <2>5. To(S, P.ch[j]) = S[m].hi
    <3>1. j \in 1 .. j
      BY <1>0, <1>1
    <3>2. To(S, P.ch[j]) = To(s, ch[j])
      BY <1>6, <2>2, <3>1
    <3>3. sep[j] - 1 = To(s, ch[j])
      <4> DEFINE t == To(s, ch[j])
                 c == sep[j]
      <4>1. c = t + 1 /\ t \in Int
        BY <1>5a, <1>10
      <4> HIDE DEF t, c
      <4>2. c - 1 = t
        BY <4>1
      <4> QED
        BY <4>2 DEF t, c
    <3> QED
      BY <1>5, <3>2, <3>3
  <2>6. \A i \in 1 .. j - 1 : P.sep[i] = From(S, P.ch[i + 1]) /\ P.sep[i] = To(S, P.ch[i]) + 1
    <3> SUFFICES ASSUME NEW i \in 1 .. j - 1
                 PROVE  P.sep[i] = From(S, P.ch[i + 1]) /\ P.sep[i] = To(S, P.ch[i]) + 1
      OBVIOUS
    <3>1. i \in 1 .. j /\ i + 1 \in 1 .. j /\ i \in 1 .. k
      BY <1>0, <1>1
    <3> QED
      BY <1>3, <1>6, <1>15, <2>2, <3>1
  <2> QED
    BY <1>15, <2>1, <2>3, <2>4, <2>5, <2>6 DEF Kids
<1>18. Kids(S, Q, S[f])
  <2>1. Len(Q.ch) = Len(Q.sep) + 1
    BY <1>16
  <2>2. \A i \in 1 .. k - j + 1 : j + i \in 1 .. k + 1 /\ Q.ch[i] = ch[j + i]
    BY <1>0, <1>1, <1>16
  <2>3. \A i \in 1 .. k - j + 1 : Height(S, Q.ch[i]) = S[f].ht - 1
    BY <1>5, <1>6, <2>2
  <2>4. From(S, Q.ch[1]) = S[f].lo
    <3>1. 1 \in 1 .. k - j + 1 /\ j + 1 \in 1 .. k + 1
      BY <1>0, <1>1
    <3>2. Q.ch[1] = ch[j + 1]
      BY <2>2, <3>1
    <3>3. From(S, ch[j + 1]) = sep[j]
      BY <1>5a, <1>6, <3>1
    <3> QED
      BY <1>5, <3>2, <3>3
  <2>5. To(S, Q.ch[k - j + 1]) = S[f].hi
    <3>1. k - j + 1 \in 1 .. k - j + 1 /\ j + (k - j + 1) = k + 1
      BY <1>0, <1>1
    <3> QED
      BY <1>3, <1>5, <1>6, <2>2, <3>1
  <2>6. \A i \in 1 .. k - j : Q.sep[i] = From(S, Q.ch[i + 1]) /\ Q.sep[i] = To(S, Q.ch[i]) + 1
    <3> SUFFICES ASSUME NEW i \in 1 .. k - j
                 PROVE  Q.sep[i] = From(S, Q.ch[i + 1]) /\ Q.sep[i] = To(S, Q.ch[i]) + 1
      OBVIOUS
    <3> DEFINE h == j + i
    <3>1. i \in 1 .. k - j + 1 /\ i + 1 \in 1 .. k - j + 1 /\ h \in 1 .. k /\ j + (i + 1) = h + 1 /\ h = j + i
      BY <1>0, <1>1
    <3> HIDE DEF h
    <3>2. Q.sep[i] = sep[h] /\ Q.ch[i] = ch[h] /\ Q.ch[i + 1] = ch[h + 1] /\ h \in 1 .. k + 1 /\ h + 1 \in 1 .. k + 1
      BY <1>16, <2>2, <3>1
    <3> QED
      BY <1>3, <1>6, <3>1, <3>2
  <2> QED
    BY <1>16, <2>1, <2>3, <2>4, <2>5, <2>6 DEF Kids
<1> QED
  BY <1>15, <1>16, <1>17, <1>18 DEF A, B

(* The parent of the page that is cut.                                     *)
LEMMA CutKids ==
  ASSUME NEW n, NEW r, NEW x, NEW s, Laid(n, r, x, s), NEW p, NEW pi, NEW m, NEW f, NEW j,
         Cuttable(x, p, pi, m, f, j), NEW S, S = CutSpans(x, s, m, f, j),
         NEW y, y = CutPages(x, p, pi, m, f, j),
         NEW P, P = XInsert(x[p], pi, x[m].sep[j], Index(f))
  PROVE  Kids(S, P, s[p]) /\ P.sep \in Seq(1 .. n) /\ P.ch \in Seq(PagesOf(n, y))
<1> DEFINE k == Len(x[p].sep)
           ch == x[p].ch
           sep == x[p].sep
           U == x[p]
           A == 1 .. n
           B == PagesOf(n, y)
           c == x[m].sep[j]
           d == Index(f)
<1>0. p \in DOMAIN x /\ pi \in 0 .. k /\ ch[pi + 1] = Index(m) /\ m \in DOMAIN x /\ f \notin DOMAIN x
  BY DEF Cuttable
<1>in. p \in DOMAIN x
  BY <1>0
<1>pl. CutPlace(n, x, s, p, m, f, j)
  BY CutFacts
<1>c. c \in A /\ s[p].ht = s[m].ht + 1
  BY <1>pl DEF CutPlace
<1>1. /\ k \in Nat /\ Len(ch) = k + 1 /\ \A i \in 1 .. k + 1 : ch[i] \in PagesOf(n, x)
  BY <1>in, PageType
<1>2. sep \in Seq(A) /\ ch \in Seq(PagesOf(n, x)) /\ DOMAIN s = DOMAIN x /\ s[m].ht \in Nat
  BY <1>0 DEF Laid, Typed
<1>3. /\ \A i \in 1 .. k + 1 : Height(s, ch[i]) = s[p].ht - 1
      /\ From(s, ch[1]) = s[p].lo /\ To(s, ch[k + 1]) = s[p].hi
      /\ \A i \in 1 .. k : sep[i] = From(s, ch[i + 1]) /\ sep[i] = To(s, ch[i]) + 1
  BY <1>0, <1>1 DEF Laid, Kids
<1>4. \A i \in 1 .. k + 1 : ch[i] = Index(m) <=> i = pi + 1
  <2>1. ASSUME NEW i \in 1 .. k + 1, ch[i] = Index(m) PROVE i = pi + 1
    BY <1>in, <2>1, CutParent
  <2> QED
    BY <1>0, <2>1
<1>5. S[f] = [lo |-> c, hi |-> s[m].hi, ht |-> s[m].ht]
  BY <1>0, <1>2 DEF CutSpans
<1>6. \A i \in 1 .. k + 1 : /\ ch[i] \in B /\ From(S, ch[i]) = From(s, ch[i])
                           /\ To(S, ch[i]) = (IF i = pi + 1 THEN c - 1 ELSE To(s, ch[i]))
                           /\ Height(S, ch[i]) = s[p].ht - 1
  <2> SUFFICES ASSUME NEW i \in 1 .. k + 1
               PROVE  /\ ch[i] \in B /\ From(S, ch[i]) = From(s, ch[i])
                      /\ To(S, ch[i]) = (IF i = pi + 1 THEN c - 1 ELSE To(s, ch[i]))
                      /\ Height(S, ch[i]) = s[p].ht - 1
    OBVIOUS
  <2> DEFINE e == ch[i]
  <2>1. e \in PagesOf(n, x) /\ (e = Index(m) <=> i = pi + 1) /\ Height(s, e) = s[p].ht - 1
    BY <1>1, <1>3, <1>4
  <2> HIDE DEF e
  <2>2. /\ e \in B /\ From(S, e) = From(s, e)
        /\ To(S, e) = (IF e = Index(m) THEN c - 1 ELSE To(s, e)) /\ Height(S, e) = Height(s, e)
    BY <2>1, CutKeeps
  <2> QED
    BY <2>1, <2>2 DEF e
<1>7. ch \in Seq(B) /\ d \in B
  <2>1. ch \in Seq(B)
    <3>1. /\ ch \in Seq(PagesOf(n, x)) /\ k \in Nat /\ Len(ch) = k + 1
          /\ \A i \in 1 .. k + 1 : ch[i] \in B
      BY <1>1, <1>2, <1>6
    <3> HIDE DEF ch, k, B
    <3> QED
      BY <3>1
  <2>2. f \in DOMAIN y
    BY DEF CutPages
  <2> QED
    BY <2>1, <2>2 DEF PagesOf
<1>8. From(S, d) = c /\ To(S, d) = s[m].hi /\ Height(S, d) = s[p].ht - 1
  <2>1. From(S, d) = S[f].lo /\ To(S, d) = S[f].hi /\ Height(S, d) = S[f].ht
    BY Pointing
  <2> DEFINE g == s[p].ht
             h == s[m].ht
  <2>2. g = h + 1 /\ h \in Nat
    BY <1>c, <1>2
  <2> HIDE DEF g, h
  <2>3. g - 1 = h
    BY <2>2
  <2> QED
    BY <1>5, <2>1, <2>3 DEF g, h
<1>9. To(s, Index(m)) = s[m].hi
  BY Pointing
<1>10. U.sep \in Seq(A) /\ U.ch \in Seq(B) /\ Len(U.sep) = k /\ Len(U.ch) = k + 1
       /\ P = XInsert(U, pi, c, d)
  BY <1>1, <1>2, <1>7
<1> HIDE DEF k, ch, sep, U, A, B, c, d
<1>11. PutPage(A, B, U, k, pi, c, d, P)
  BY <1>0, <1>c, <1>1, <1>7, <1>10, XInserted
<1>12. /\ P.sep \in Seq(A) /\ Len(P.sep) = k + 1
       /\ \A i \in 1 .. pi : P.sep[i] = sep[i]
       /\ P.sep[pi + 1] = c
       /\ \A i \in pi + 1 .. k : P.sep[i + 1] = sep[i]
       /\ P.ch \in Seq(B) /\ Len(P.ch) = k + 2
       /\ \A i \in 1 .. pi + 1 : P.ch[i] = ch[i]
       /\ P.ch[pi + 2] = d
       /\ \A i \in pi + 2 .. k + 1 : P.ch[i + 1] = ch[i]
  BY <1>11 DEF PutPage, U, ch, sep
<1>13. /\ \A i \in 1 .. pi + 1 : /\ From(S, P.ch[i]) = From(s, ch[i])
                                /\ To(S, P.ch[i]) = (IF i = pi + 1 THEN c - 1 ELSE To(s, ch[i]))
                                /\ Height(S, P.ch[i]) = s[p].ht - 1
  <2>1. \A i \in 1 .. pi + 1 : i \in 1 .. k + 1
    BY <1>0, <1>1
  <2> QED
    BY <1>6, <1>12, <2>1
<1>14. \A i \in pi + 2 .. k + 1 : /\ From(S, P.ch[i + 1]) = From(s, ch[i])
                                 /\ To(S, P.ch[i + 1]) = To(s, ch[i])
                                 /\ Height(S, P.ch[i + 1]) = s[p].ht - 1
  <2>1. \A i \in pi + 2 .. k + 1 : i \in 1 .. k + 1 /\ i # pi + 1
    BY <1>0, <1>1
  <2> QED
    BY <1>6, <1>12, <2>1
<1>15. \A i \in 1 .. k + 2 : Height(S, P.ch[i]) = s[p].ht - 1
  <2> SUFFICES ASSUME NEW i \in 1 .. k + 2 PROVE Height(S, P.ch[i]) = s[p].ht - 1
    OBVIOUS
  <2>1. CASE i <= pi + 1
    <3>1. i \in 1 .. pi + 1
      BY <1>0, <1>1, <2>1
    <3> QED
      BY <1>13, <3>1
  <2>2. CASE i = pi + 2
    BY <1>8, <1>12, <2>2
  <2>3. CASE i > pi + 2
    <3> DEFINE h == i - 1
    <3>1. h \in pi + 2 .. k + 1 /\ i = h + 1
      BY <1>0, <1>1, <2>3
    <3> HIDE DEF h
    <3> QED
      BY <1>14, <3>1
  <2>4. i <= pi + 1 \/ i = pi + 2 \/ i > pi + 2
    BY <1>0, <1>1
  <2> QED
    BY <2>1, <2>2, <2>3, <2>4
<1>16. From(S, P.ch[1]) = s[p].lo
  <2>1. 1 \in 1 .. pi + 1
    BY <1>0, <1>1
  <2> QED
    BY <1>3, <1>13, <2>1
<1>17. To(S, P.ch[k + 2]) = s[p].hi
  <2>1. CASE k = pi
    BY <1>0, <1>3, <1>8, <1>9, <1>12, <2>1
  <2>2. CASE k # pi
    <3>1. k + 1 \in pi + 2 .. k + 1 /\ (k + 1) + 1 = k + 2
      BY <1>0, <1>1, <2>2
    <3> QED
      BY <1>3, <1>14, <3>1
  <2> QED
    BY <2>1, <2>2
<1>18. ASSUME NEW i \in 1 .. k + 1
       PROVE  P.sep[i] = From(S, P.ch[i + 1]) /\ P.sep[i] = To(S, P.ch[i]) + 1
  <2>1. CASE i <= pi
    <3>1. i \in 1 .. pi /\ i \in 1 .. pi + 1 /\ i + 1 \in 1 .. pi + 1 /\ i \in 1 .. k /\ i # pi + 1
      BY <1>0, <1>1, <2>1
    <3> QED
      BY <1>3, <1>12, <1>13, <3>1
  <2>2. CASE i = pi + 1
    <3>1. P.sep[i] = c /\ P.ch[i + 1] = d
      <4>1. (pi + 1) + 1 = pi + 2
        BY <1>0
      <4> QED
        BY <1>12, <2>2, <4>1
    <3>2. To(S, P.ch[i]) = c - 1
      <4>1. pi + 1 \in 1 .. pi + 1
        BY <1>0
      <4> QED
        BY <1>13, <2>2, <4>1
    <3>3. c - 1 + 1 = c
      BY <1>c DEF A
    <3> QED
      BY <1>8, <3>1, <3>2, <3>3
  <2>3. CASE i > pi + 1
    <3> DEFINE h == i - 1
    <3>0. pi \in Int /\ k \in Int /\ i \in Int /\ i <= k + 1
      BY <1>0, <1>1
    <3>1. h \in pi + 1 .. k /\ h + 1 \in pi + 2 .. k + 1 /\ h \in 1 .. k /\ i = h + 1
      BY <1>0, <3>0, <2>3
    <3> HIDE DEF h
    <3>2. P.sep[i] = sep[h] /\ sep[h] = From(s, ch[h + 1]) /\ sep[h] = To(s, ch[h]) + 1
      BY <1>3, <1>12, <3>1
    <3>3. From(S, P.ch[i + 1]) = From(s, ch[h + 1])
      BY <1>14, <3>1
    <3>4. CASE h = pi + 1
      <4>1. P.ch[i] = d /\ To(s, ch[h]) = s[m].hi
        <5>1. i = pi + 2
          BY <1>0, <3>1, <3>4
        <5> QED
          BY <1>0, <1>9, <1>12, <3>4, <5>1
      <4> QED
        BY <1>8, <3>2, <3>3, <4>1
    <3>5. CASE h # pi + 1
      <4>1. h \in pi + 2 .. k + 1
        BY <1>0, <1>1, <3>1, <3>5
      <4> QED
        BY <1>14, <3>1, <3>2, <3>3, <4>1
    <3> QED
      BY <3>4, <3>5
  <2>4. i <= pi \/ i = pi + 1 \/ i > pi + 1
    BY <1>0, <1>1
  <2> QED
    BY <2>1, <2>2, <2>3, <2>4
<1>19. Len(P.ch) = k + 2 /\ Len(P.sep) = k + 1 /\ k + 2 = (k + 1) + 1
  BY <1>1, <1>12
<1>20. Kids(S, P, s[p])
  BY <1>15, <1>16, <1>17, <1>18, <1>19 DEF Kids
<1> QED
  BY <1>12, <1>20 DEF A, B

(* A page below the one that is cut is on one side of the cut.             *)
LEMMA CutSide ==
  ASSUME NEW n, NEW r, NEW x, NEW s, Laid(n, r, x, s), NEW m \in DOMAIN x,
         NEW j \in 1 .. Len(x[m].sep), NEW l \in DOMAIN x, Meets(s[l], s[m]), s[l].ht < s[m].ht
  PROVE  s[l].hi < x[m].sep[j] \/ x[m].sep[j] <= s[l].lo
<1> DEFINE k == Len(x[m].sep)
           ch == x[m].ch
           c == x[m].sep[j]
           a == s[l].lo
           b == s[l].hi
<1>1. PICK i \in 1 .. k + 1 : From(s, ch[i]) <= a /\ b <= To(s, ch[i])
  BY BelowChild
<1>2. /\ k \in Nat /\ Typed(n, r, x, s) /\ j \in 1 .. k
      /\ \A h \in 1 .. k + 1 : ch[h] \in PagesOf(n, x)
      /\ \A h \in 1 .. k : x[m].sep[h] \in 1 .. n
  BY PageType
<1>3. a \in Int /\ b \in Int
  BY DEF Laid, Typed
<1>4. \A g, h \in 1 .. k + 1 : g < h => To(s, ch[g]) < From(s, ch[h])
  BY KidsInOrder
<1>5. c = From(s, ch[j + 1]) /\ c = To(s, ch[j]) + 1
  BY DEF Laid, Kids
<1> HIDE DEF k, ch, a, b
<1>6. \A h \in 1 .. k + 1 : From(s, ch[h]) \in Int /\ To(s, ch[h]) \in Int /\ From(s, ch[h]) <= To(s, ch[h])
  BY <1>2, SpanType
<1>7. j \in 1 .. k + 1 /\ j + 1 \in 1 .. k + 1 /\ (i < j \/ i = j \/ i = j + 1 \/ j + 1 < i)
  BY <1>2
<1> DEFINE u == From(s, ch[i])
           v == To(s, ch[i])
           t == To(s, ch[j])
           w == From(s, ch[j])
           f == From(s, ch[j + 1])
           g == To(s, ch[j + 1])
<1>8. /\ u \in Int /\ v \in Int /\ t \in Int /\ w \in Int /\ f \in Int /\ g \in Int
      /\ u <= a /\ b <= v /\ c = f /\ c = t + 1 /\ w <= t /\ f <= g
  BY <1>1, <1>5, <1>6, <1>7
<1>9. v <= t \/ f <= u
  <2>1. CASE i < j
    <3>1. v < w
      BY <1>4, <1>7, <2>1
    <3> HIDE DEF u, v, t, w, f, g, c
    <3> QED
      BY <1>8, <3>1
  <2>2. CASE i = j
    BY <1>8, <2>2
  <2>3. CASE i = j + 1
    <3>1. f = u /\ f \in Int
      BY <1>8, <2>3
    <3> HIDE DEF u, v, t, w, f, g, c
    <3>2. f <= u
      BY <3>1
    <3> QED
      BY <3>2
  <2>4. CASE j + 1 < i
    <3>1. g < u
      BY <1>4, <1>7, <2>4
    <3> HIDE DEF u, v, t, w, f, g, c
    <3> QED
      BY <1>8, <3>1
  <2> QED
    BY <1>7, <2>1, <2>2, <2>3, <2>4
<1> HIDE DEF u, v, t, w, f, g, c
<1>10. b < c \/ c <= a
  BY <1>3, <1>8, <1>9
<1> QED
  BY <1>10 DEF a, b, c

(* Runs that lie within each other or apart still do when m is cut.        *)
LEMMA CutNested ==
  ASSUME NEW n, NEW r, NEW x, NEW s, Laid(n, r, x, s), NEW p, NEW pi, NEW m, NEW f, NEW j,
         Cuttable(x, p, pi, m, f, j), NEW S, S = CutSpans(x, s, m, f, j),
         NEW l \in DOMAIN x \cup {f}, NEW h \in DOMAIN x \cup {f}, Meets(S[l], S[h]), S[l].ht <= S[h].ht
  PROVE  Within(S[l], S[h]) /\ (S[l].ht = S[h].ht => l = h)
<1> DEFINE c == x[m].sep[j]
           lo == s[m].lo
           hi == s[m].hi
<1>0. m \in DOMAIN x /\ f \notin DOMAIN x /\ j \in 1 .. Len(x[m].sep)
  BY DEF Cuttable
<1>1. c \in 1 .. n /\ lo < c /\ c <= hi
  <2>1. CutPlace(n, x, s, p, m, f, j)
    BY CutFacts
  <2> QED
    BY <2>1 DEF CutPlace
<1>2. \A g \in DOMAIN x : /\ s[g].lo \in Int /\ s[g].hi \in Int /\ s[g].ht \in Int
                          /\ s[g].lo <= s[g].hi
  BY DEF Laid, Typed
<1>3. \A g, e \in DOMAIN x : Meets(s[g], s[e]) /\ s[g].ht <= s[e].ht =>
        Within(s[g], s[e]) /\ (s[g].ht = s[e].ht => g = e)
  BY DEF Laid, Nested
<1>4. DOMAIN s = DOMAIN x
  BY DEF Laid, Typed
<1>5. /\ S[m].lo = lo /\ S[m].hi = c - 1 /\ S[m].ht = s[m].ht
      /\ S[f].lo = c /\ S[f].hi = hi /\ S[f].ht = s[m].ht
      /\ \A g \in DOMAIN x : g # m => S[g] = s[g]
  BY <1>0, <1>4 DEF CutSpans
<1>6. c \in Int /\ lo \in Int /\ hi \in Int
  BY <1>0, <1>1, <1>2
<1>7. ASSUME NEW g \in DOMAIN x, Meets(s[g], s[m]), s[g].ht < s[m].ht
      PROVE  s[g].hi < c \/ c <= s[g].lo
  BY <1>0, <1>7, CutSide
<1> HIDE DEF c
(* What meets a half meets the whole.                                      *)
<1>8. ASSUME NEW g \in DOMAIN x, NEW e \in {m, f}, S[e].lo <= s[g].hi, s[g].lo <= S[e].hi
      PROVE  Meets(s[g], s[m]) /\ Meets(s[m], s[g])
  <2> DEFINE a == s[g].lo
             b == s[g].hi
  <2>1. a \in Int /\ b \in Int /\ a <= b
    BY <1>2
  <2>2. (lo <= b /\ a <= c - 1) \/ (c <= b /\ a <= hi)
    BY <1>5, <1>8
  <2> HIDE DEF a, b, lo, hi
  <2>3. lo <= b /\ a <= hi
    BY <1>1, <1>6, <2>1, <2>2
  <2> QED
    BY <2>3 DEF Meets, a, b, lo, hi
<1>9. CASE l \notin {m, f} /\ h \notin {m, f}
  BY <1>3, <1>5, <1>9
<1>10. CASE l \notin {m, f} /\ h \in {m, f}
  <2>1. l \in DOMAIN x /\ S[l] = s[l] /\ S[h].ht = s[m].ht
    BY <1>5, <1>10
  <2>2. S[h].lo <= s[l].hi /\ s[l].lo <= S[h].hi /\ s[l].ht <= s[m].ht
    BY <2>1 DEF Meets
  <2>3. Meets(s[l], s[m])
    BY <1>8, <1>10, <2>1, <2>2
  <2>4. Within(s[l], s[m]) /\ s[l].ht # s[m].ht
    BY <1>0, <1>3, <1>10, <2>1, <2>2, <2>3
  <2>5. s[l].ht < s[m].ht
    BY <1>0, <1>2, <2>1, <2>2, <2>4
  <2>6. s[l].hi < c \/ c <= s[l].lo
    BY <1>7, <2>1, <2>3, <2>5
  <2> DEFINE a == s[l].lo
             b == s[l].hi
  <2>7. a \in Int /\ b \in Int /\ a <= b /\ lo <= a /\ b <= hi
    BY <1>2, <2>1, <2>4 DEF Within
  <2>8. CASE h = m
    <3>1. lo <= a /\ b <= c - 1
      <4>1. a <= c - 1 /\ (b < c \/ c <= a)
        BY <1>5, <2>2, <2>6, <2>8
      <4> HIDE DEF a, b, lo, hi
      <4> QED
        BY <1>6, <2>7, <4>1
    <3> QED
      BY <1>5, <2>1, <2>4, <2>8, <3>1 DEF Within
  <2>9. CASE h = f
    <3>1. c <= a /\ b <= hi
      <4>1. c <= b /\ (b < c \/ c <= a)
        BY <1>5, <2>2, <2>6, <2>9
      <4> HIDE DEF a, b, lo, hi
      <4> QED
        BY <1>6, <2>7, <4>1
    <3> QED
      BY <1>5, <2>1, <2>4, <2>9, <3>1 DEF Within
  <2> QED
    BY <1>10, <2>8, <2>9
<1>11. CASE l \in {m, f} /\ h \notin {m, f}
  <2>1. h \in DOMAIN x /\ S[h] = s[h] /\ S[l].ht = s[m].ht
    BY <1>5, <1>11
  <2>2. S[l].lo <= s[h].hi /\ s[h].lo <= S[l].hi /\ s[m].ht <= s[h].ht
    BY <2>1 DEF Meets
  <2>3. Meets(s[m], s[h])
    BY <1>8, <1>11, <2>1, <2>2
  <2>4. Within(s[m], s[h]) /\ s[m].ht # s[h].ht
    BY <1>0, <1>3, <1>11, <2>1, <2>2, <2>3
  <2> DEFINE a == s[h].lo
             b == s[h].hi
  <2>5. a \in Int /\ b \in Int /\ a <= lo /\ hi <= b
    BY <1>2, <2>1, <2>4 DEF Within
  <2>6. a <= S[l].lo /\ S[l].hi <= b
    <3>1. (S[l].lo = lo /\ S[l].hi = c - 1) \/ (S[l].lo = c /\ S[l].hi = hi)
      BY <1>5, <1>11
    <3>2. a <= lo /\ c - 1 <= b /\ a <= c /\ hi <= b
      <4> HIDE DEF a, b, lo, hi
      <4> QED
        BY <1>1, <1>6, <2>5
    <3> HIDE DEF a, b, lo, hi
    <3> QED
      BY <3>1, <3>2
  <2> QED
    BY <2>1, <2>4, <2>6 DEF Within
<1>12. CASE l \in {m, f} /\ h \in {m, f}
  <2>1. S[l].lo \in Int /\ S[l].hi \in Int
    BY <1>5, <1>6, <1>12
  <2>2. l = h
    <3>1. CASE l = m /\ h = f
      <4>1. c <= c - 1
        BY <1>5, <3>1 DEF Meets
      <4> QED
        BY <1>6, <4>1
    <3>2. CASE l = f /\ h = m
      <4>1. c <= c - 1
        BY <1>5, <3>2 DEF Meets
      <4> QED
        BY <1>6, <4>1
    <3> QED
      BY <1>12, <3>1, <3>2
  <2> QED
    BY <2>1, <2>2 DEF Within
<1> QED
  BY <1>9, <1>10, <1>11, <1>12

(* Index page m is cut at separator j, which goes up to its parent; page f *)
(* takes what is behind it.                                                *)
LEMMA LaidCut ==
  ASSUME NEW n, NEW r, NEW x, NEW s, Laid(n, r, x, s), NEW p, NEW pi, NEW m, NEW f, NEW j,
         Cuttable(x, p, pi, m, f, j)
  PROVE  Laid(n, r, CutPages(x, p, pi, m, f, j), CutSpans(x, s, m, f, j))
<1> DEFINE y == CutPages(x, p, pi, m, f, j)
           S == CutSpans(x, s, m, f, j)
           c == x[m].sep[j]
<1>1. Typed(n, r, x, s) /\ DOMAIN s = DOMAIN x /\ Rooted(n, r, x, s)
  BY DEF Laid, Typed
<1>2. CutPlace(n, x, s, p, m, f, j)
  BY CutFacts
<1>3. m \in DOMAIN x /\ p \in DOMAIN x /\ p # m /\ f # p /\ f # m /\ f \notin DOMAIN x
      /\ f \in Nat \ {0}
  BY <1>2 DEF CutPlace, Cuttable
<1>4. DOMAIN y = DOMAIN x \cup {f} /\ DOMAIN S = DOMAIN x \cup {f} /\ y = [l \in DOMAIN y |-> y[l]]
  BY <1>1 DEF CutPages, CutSpans
<1>5. /\ y[p] = XInsert(x[p], pi, x[m].sep[j], Index(f)) /\ S[p] = s[p]
      /\ y[m] = LeftPart(x[m], j) /\ S[m] = [lo |-> s[m].lo, hi |-> c - 1, ht |-> s[m].ht]
      /\ y[f] = RightPart(x[m], j) /\ S[f] = [lo |-> c, hi |-> s[m].hi, ht |-> s[m].ht]
      /\ \A l \in DOMAIN x : l # p /\ l # m => y[l] = x[l]
      /\ \A l \in DOMAIN x : l # m => S[l] = s[l]
  BY <1>1, <1>3 DEF CutPages, CutSpans
<1> HIDE DEF y, S
<1>eq. S = CutSpans(x, s, m, f, j) /\ y = CutPages(x, p, pi, m, f, j)
  BY DEF y, S
<1>6. Kids(S, y[p], S[p]) /\ y[p].sep \in Seq(1 .. n) /\ y[p].ch \in Seq(PagesOf(n, y))
  <2> DEFINE P == XInsert(x[p], pi, x[m].sep[j], Index(f))
  <2>1. P = XInsert(x[p], pi, x[m].sep[j], Index(f))
    OBVIOUS
  <2> HIDE DEF P
  <2>2. Kids(S, P, s[p]) /\ P.sep \in Seq(1 .. n) /\ P.ch \in Seq(PagesOf(n, y))
    BY <1>eq, <2>1, CutKids
  <2> QED
    BY <1>5, <2>1, <2>2
<1>7. /\ Kids(S, y[m], S[m]) /\ y[m].sep \in Seq(1 .. n) /\ y[m].ch \in Seq(PagesOf(n, y))
      /\ Kids(S, y[f], S[f]) /\ y[f].sep \in Seq(1 .. n) /\ y[f].ch \in Seq(PagesOf(n, y))
  <2> DEFINE P == LeftPart(x[m], j)
             Q == RightPart(x[m], j)
  <2>1. P = LeftPart(x[m], j) /\ Q = RightPart(x[m], j)
    OBVIOUS
  <2> HIDE DEF P, Q
  <2>2. /\ Kids(S, P, S[m]) /\ P.sep \in Seq(1 .. n) /\ P.ch \in Seq(PagesOf(n, y))
        /\ Kids(S, Q, S[f]) /\ Q.sep \in Seq(1 .. n) /\ Q.ch \in Seq(PagesOf(n, y))
    BY <1>eq, <2>1, CutHalves
  <2>3. y[m] = P /\ y[f] = Q
    BY <1>5, <2>1
  <2> QED
    BY <2>2, <2>3
<1>8. ASSUME NEW l \in DOMAIN x, l # p, l # m
      PROVE  Kids(S, y[l], S[l]) /\ y[l].sep \in Seq(1 .. n) /\ y[l].ch \in Seq(PagesOf(n, y))
  <2>1. /\ \A i \in 1 .. Len(x[l].sep) + 1 : x[l].ch[i] \in PagesOf(n, x)
        /\ Len(x[l].ch) = Len(x[l].sep) + 1
    BY PageType
  <2>2. ASSUME NEW i \in 1 .. Len(x[l].sep) + 1
        PROVE  x[l].ch[i] # Index(m)
    BY <1>8, CutParent
  <2>3. ASSUME NEW i \in 1 .. Len(x[l].sep) + 1
        PROVE  /\ x[l].ch[i] \in PagesOf(n, y)
               /\ x[l].ch[i].at = "x" => S[x[l].ch[i].no] = s[x[l].ch[i].no]
    <3> DEFINE e == x[l].ch[i]
    <3>1. e \in PagesOf(n, x) /\ e # Index(m)
      BY <2>1, <2>2
    <3> HIDE DEF e
    <3>2. e \in PagesOf(n, y)
      BY <3>1, CutKeeps DEF y
    <3>3. e.at = "x" => e.no \in DOMAIN x /\ e.no # m
      BY <3>1, PointerKinds DEF Index, Data
    <3> QED
      BY <1>5, <3>2, <3>3 DEF e
  <2>4. x[l].sep \in Seq(1 .. n) /\ x[l].ch \in Seq(PagesOf(n, x))
    BY <1>1 DEF Typed
  <2>5. x[l].ch \in Seq(PagesOf(n, y))
    BY <2>1, <2>3, <2>4
  <2>6. y[l] = x[l] /\ S[l] = s[l]
    BY <1>5, <1>8
  <2>7. Kids(S, x[l], S[l])
    BY <2>3, <2>6, SameKids
  <2> QED
    BY <2>4, <2>5, <2>6, <2>7
<1>9. ASSUME NEW l \in DOMAIN y
      PROVE  Kids(S, y[l], S[l]) /\ y[l].sep \in Seq(1 .. n) /\ y[l].ch \in Seq(PagesOf(n, y))
  BY <1>4, <1>6, <1>7, <1>8
<1>10. ASSUME NEW l \in DOMAIN y
       PROVE  /\ S[l].lo \in 1 .. n /\ S[l].hi \in 1 .. n /\ S[l].ht \in Nat \ {0}
              /\ S[l].lo <= S[l].hi
  <2> DEFINE lo == s[m].lo
             hi == s[m].hi
             d == c - 1
  <2>1. lo \in 1 .. n /\ hi \in 1 .. n /\ s[m].ht \in Nat \ {0} /\ n \in Nat
    BY <1>1, <1>3 DEF Typed
  <2>2. c \in 1 .. n /\ lo < c /\ c <= hi
    BY <1>2 DEF CutPlace
  <2>3. CASE l = m
    <3>1. S[l].lo = lo /\ S[l].hi = c - 1 /\ S[l].ht = s[m].ht
      BY <1>5, <2>3
    <3> HIDE DEF lo, hi, c
    <3> QED
      BY <2>1, <2>2, <3>1
  <2>4. CASE l = f
    <3>1. S[l].lo = c /\ S[l].hi = hi /\ S[l].ht = s[m].ht
      BY <1>5, <2>4
    <3> HIDE DEF lo, hi, c
    <3> QED
      BY <2>1, <2>2, <3>1
  <2>5. CASE l # m /\ l # f
    BY <1>1, <1>4, <1>5, <2>5 DEF Typed
  <2> QED
    BY <2>3, <2>4, <2>5
<1>11. r # Index(m)
  <2> DEFINE k == Len(x[p].sep)
             i == pi + 1
  <2>1. p \in DOMAIN x /\ pi \in 0 .. k /\ x[p].ch[i] = Index(m)
    BY DEF Cuttable
  <2>2. k \in Nat
    BY <2>1, PageType
  <2>3. i \in 1 .. k + 1
    <3> HIDE DEF k
    <3> QED
      BY <2>1, <2>2
  <2> HIDE DEF i
  <2> QED
    BY <2>1, <2>3, RootNoChild
<1>12. /\ r \in PagesOf(n, y) /\ From(S, r) = From(s, r) /\ To(S, r) = To(s, r)
       /\ Height(S, r) = Height(s, r)
  <2>1. r \in PagesOf(n, x)
    BY <1>1 DEF Typed
  <2> QED
    BY <1>11, <2>1, CutKeeps DEF y, S
<1>13. Typed(n, r, y, S)
  <2>1. IsFiniteSet(DOMAIN y)
    BY <1>1, <1>4, FS_AddElement DEF Typed
  <2>1a. DOMAIN y \subseteq Nat \ {0}
    BY <1>1, <1>3, <1>4 DEF Typed
  <2>2. n \in Nat
    BY <1>1 DEF Typed
  <2> QED
    BY <1>4, <1>9, <1>10, <1>12, <2>1, <2>1a, <2>2 DEF Typed
<1>14. Nested(y, S)
  <2> SUFFICES ASSUME NEW l \in DOMAIN y, NEW h \in DOMAIN y, Meets(S[l], S[h]), S[l].ht <= S[h].ht
               PROVE  Within(S[l], S[h]) /\ (S[l].ht = S[h].ht => l = h)
    BY DEF Nested
  <2>1. S = CutSpans(x, s, m, f, j) /\ l \in DOMAIN x \cup {f} /\ h \in DOMAIN x \cup {f}
    BY <1>4 DEF S
  <2> QED
    BY <2>1, CutNested
<1>15. Rooted(n, r, y, S)
  <2> SUFFICES ASSUME NEW l \in DOMAIN y, Index(l) # r PROVE S[l].ht < Height(s, r)
    BY <1>1, <1>12 DEF Rooted
  <2>1. CASE l = f
    <3>1. Index(m) # r /\ S[l].ht = s[m].ht
      BY <1>5, <1>11, <2>1
    <3> QED
      BY <1>1, <1>3, <3>1 DEF Rooted
  <2>2. CASE l # f
    <3>1. l \in DOMAIN x /\ S[l].ht = s[l].ht
      BY <1>3, <1>4, <1>5, <2>2
    <3> QED
      BY <1>1, <3>1 DEF Rooted
  <2> QED
    BY <2>1, <2>2
<1> QED
  BY <1>9, <1>13, <1>14, <1>15 DEF Laid, y, S

-----------------------------------------------------------------------------
(* Joining two data pages.                                                 *)

-----------------------------------------------------------------------------
(* Two data pages that are joined.                                         *)

(* Where page j goes when page q + 1 is joined to q: on its own, with a    *)
(* pointer c, in an index page P, and in the spans.                        *)
Down(q, j) == IF j > q THEN j - 1 ELSE j
MovedDown(q, c) == IF c.at = "d" THEN Data(Down(q, c.no)) ELSE c
PageDown(q, P) ==
  [sep |-> [j \in DOMAIN P.sep |-> Down(q, P.sep[j])],
   ch  |-> [j \in DOMAIN P.ch |-> MovedDown(q, P.ch[j])]]
SpansDown(q, s) ==
  [m \in DOMAIN s |-> [lo |-> Down(q, s[m].lo), hi |-> Down(q, s[m].hi), ht |-> s[m].ht]]

(* Data pages q and the one behind it are neighbours under p.              *)
Pair(x, p, pi, q) ==
  /\ p \in DOMAIN x /\ pi \in 0 .. Len(x[p].sep) - 1
  /\ x[p].ch[pi + 1] = Data(q) /\ x[p].ch[pi + 2] = Data(q + 1)

(* Nothing but the two begins or ends between them.                        *)
Unparted(n, x, s, p, q) ==
  /\ q \in Nat \ {0} /\ q + 1 <= n /\ p \in DOMAIN x
  /\ \A m \in DOMAIN x : s[m].lo # q + 1 /\ s[m].hi # q

(* No page other than the two and their parent ends or begins between data *)
(* pages q and q + 1.                                                      *)
LEMMA PairFacts ==
  ASSUME NEW n, NEW r, NEW x, NEW s, Laid(n, r, x, s), NEW p, NEW pi, NEW q, Pair(x, p, pi, q)
  PROVE  Unparted(n, x, s, p, q)
<1> DEFINE k == Len(x[p].sep)
           ch == x[p].ch
           i == pi + 1
           j == pi + 2
           e == q + 1
<1>1. p \in DOMAIN x /\ pi \in 0 .. k - 1 /\ ch[i] = Data(q) /\ ch[j] = Data(e)
  BY DEF Pair
<1>in. p \in DOMAIN x
  BY <1>1
<1>2. /\ k \in Nat /\ \A h \in 1 .. k + 1 : ch[h] \in PagesOf(n, x)
      /\ s[p].lo \in Int /\ s[p].hi \in Int /\ s[p].ht \in Nat \ {0} /\ n \in Nat
  BY <1>in, PageType
<1>3. i \in 1 .. k + 1 /\ j \in 1 .. k + 1
  <2> HIDE DEF k
  <2> QED
    BY <1>1, <1>2
<1> HIDE DEF i, j, e
<1>4. Data(q) \in PagesOf(n, x) /\ Data(e) \in PagesOf(n, x)
  BY <1>1, <1>2, <1>3
<1>5. q \in 1 .. n /\ e \in 1 .. n
  BY <1>4 DEF PagesOf, Data, Index
<1>6. /\ s[p].lo <= From(s, ch[i]) /\ To(s, ch[i]) <= s[p].hi /\ Height(s, ch[i]) = s[p].ht - 1
      /\ s[p].lo <= From(s, ch[j]) /\ To(s, ch[j]) <= s[p].hi
  BY <1>in, <1>3, KidsInside
<1>7. s[p].lo <= q /\ e <= s[p].hi /\ 0 = s[p].ht - 1
  <2>1. From(s, Data(q)) = q /\ To(s, Data(e)) = e /\ Height(s, Data(q)) = 0
    BY Pointing
  <2> QED
    BY <1>1, <1>6, <2>1
<1>8. ASSUME NEW m \in DOMAIN x, s[m].lo = e \/ s[m].hi = q PROVE FALSE
  <2> DEFINE lo == s[m].lo
             hi == s[m].hi
             a == s[p].lo
             b == s[p].hi
             g == s[p].ht
             h == s[m].ht
  <2>1. lo \in 1 .. n /\ hi \in 1 .. n /\ lo <= hi /\ h \in Nat \ {0}
    BY DEF Laid, Typed
  <2>2. /\ a \in Int /\ b \in Int /\ a <= q /\ e <= b /\ e = q + 1 /\ g \in Nat \ {0} /\ 0 = g - 1
        /\ lo = e \/ hi = q
    BY <1>2, <1>7, <1>8 DEF e
  <2>3. Meets(s[p], s[m]) /\ s[p].ht <= s[m].ht => Within(s[p], s[m])
    BY <1>1 DEF Laid, Nested
  <2>4. (a <= hi /\ lo <= b /\ g <= h) => (lo <= a /\ b <= hi)
    BY <2>3 DEF Meets, Within
  <2> HIDE DEF lo, hi, a, b, g, h, e
  <2> QED
    BY <1>5, <2>1, <2>2, <2>4
<1> QED
  BY <1>in, <1>5, <1>8 DEF Unparted, e

(* Where the places of data pages go when page q + 1 is taken out.         *)
LEMMA DownType ==
  ASSUME NEW n \in Nat, NEW q \in Nat \ {0}, q + 1 <= n, NEW j \in 1 .. n
  PROVE  /\ Down(q, j) \in 1 .. n - 1 /\ Down(q, j) \in Int
         /\ j <= q => Down(q, j) = j
         /\ j > q => Down(q, j) = j - 1
  BY DEF Down

(* A pointer spans, when page q + 1 is taken out, what is left of what it  *)
(* spanned.                                                                *)
LEMMA MovedDownSpan ==
  ASSUME NEW n, NEW r, NEW x, NEW s, Typed(n, r, x, s), NEW q \in Nat \ {0}, q + 1 <= n,
         NEW c \in PagesOf(n, x), NEW y, DOMAIN y = DOMAIN x
  PROVE  /\ MovedDown(q, c) \in PagesOf(n - 1, y)
         /\ From(SpansDown(q, s), MovedDown(q, c)) = Down(q, From(s, c))
         /\ To(SpansDown(q, s), MovedDown(q, c)) = Down(q, To(s, c))
         /\ Height(SpansDown(q, s), MovedDown(q, c)) = Height(s, c)
<1>1. n \in Nat /\ DOMAIN s = DOMAIN x
  BY DEF Typed
<1>2. CASE c.at = "d" /\ c.no \in 1 .. n /\ c = Data(c.no)
  <2> DEFINE j == c.no
  <2>1. j \in 1 .. n /\ c = Data(j)
    BY <1>2
  <2>2. MovedDown(q, c) = Data(Down(q, j))
    BY <1>2 DEF MovedDown
  <2> HIDE DEF j
  <2>3. Down(q, j) \in 1 .. n - 1
    BY <1>1, <2>1, DownType
  <2>4. Data(Down(q, j)) \in PagesOf(n - 1, y)
    BY <2>3 DEF PagesOf
  <2> QED
    BY <2>1, <2>2, <2>4, Pointing
<1>3. CASE c.at = "x" /\ c.no \in DOMAIN x /\ c = Index(c.no)
  <2> DEFINE m == c.no
  <2>1. m \in DOMAIN x /\ c = Index(m) /\ MovedDown(q, c) = c
    BY <1>3, Pointing DEF MovedDown
  <2> HIDE DEF m
  <2>2. Index(m) \in PagesOf(n - 1, y)
    BY <2>1 DEF PagesOf
  <2>3. SpansDown(q, s)[m] = [lo |-> Down(q, s[m].lo), hi |-> Down(q, s[m].hi), ht |-> s[m].ht]
    BY <1>1, <2>1 DEF SpansDown
  <2> QED
    BY <2>1, <2>2, <2>3, Pointing
<1> QED
  BY <1>2, <1>3, PointerKinds

(* The domain and the elements of a sequence.                              *)
LEMMA Elements ==
  ASSUME NEW X, NEW s \in Seq(X), NEW k, k = Len(s)
  PROVE  k \in Nat /\ DOMAIN s = 1 .. k /\ \A i \in 1 .. k : s[i] \in X
  OBVIOUS

(* P is U with every place moved down.                                     *)
Lowered(n, q, y, U, k, l, P) ==
  /\ P.sep \in Seq(1 .. n - 1) /\ P.ch \in Seq(PagesOf(n - 1, y))
  /\ Len(P.sep) = k /\ Len(P.ch) = l
  /\ \A i \in 1 .. k : P.sep[i] = Down(q, U.sep[i])
  /\ \A i \in 1 .. l : P.ch[i] = MovedDown(q, U.ch[i])

(* The parts of an index page whose pointers are renumbered for a data     *)
(* page that is taken out.                                                 *)
LEMMA PageLowered ==
  ASSUME NEW n, NEW r, NEW x, NEW s, Typed(n, r, x, s), NEW q \in Nat \ {0}, q + 1 <= n,
         NEW y, DOMAIN y = DOMAIN x, NEW U, U.sep \in Seq(1 .. n), U.ch \in Seq(PagesOf(n, x)),
         NEW k, k = Len(U.sep), NEW l, l = Len(U.ch)
  PROVE  Lowered(n, q, y, U, k, l, PageDown(q, U))
<1> DEFINE sep == U.sep
           ch == U.ch
<1>0. n \in Nat
  BY DEF Typed
<1>1. /\ k \in Nat /\ DOMAIN sep = 1 .. k /\ l \in Nat /\ DOMAIN ch = 1 .. l
      /\ (\A i \in 1 .. k : sep[i] \in 1 .. n) /\ (\A i \in 1 .. l : ch[i] \in PagesOf(n, x))
  <2>1. k \in Nat /\ DOMAIN sep = 1 .. k /\ \A i \in 1 .. k : sep[i] \in 1 .. n
    BY Elements
  <2>2. l \in Nat /\ DOMAIN ch = 1 .. l /\ \A i \in 1 .. l : ch[i] \in PagesOf(n, x)
    BY Elements
  <2> QED
    BY <2>1, <2>2
<1>2. PageDown(q, U).sep = [i \in 1 .. k |-> Down(q, sep[i])]
  BY <1>1 DEF PageDown
<1>3. PageDown(q, U).ch = [i \in 1 .. l |-> MovedDown(q, ch[i])]
  BY <1>1 DEF PageDown
<1> HIDE DEF sep, ch
<1>4. \A i \in 1 .. k : Down(q, sep[i]) \in 1 .. n - 1
  BY <1>0, <1>1, DownType
<1>5. \A i \in 1 .. l : MovedDown(q, ch[i]) \in PagesOf(n - 1, y)
  BY <1>1, MovedDownSpan
<1> DEFINE S == [i \in 1 .. k |-> Down(q, sep[i])]
           C == [i \in 1 .. l |-> MovedDown(q, ch[i])]
<1>6. S \in Seq(1 .. n - 1) /\ Len(S) = k /\ \A i \in 1 .. k : S[i] = Down(q, sep[i])
  BY <1>1, <1>4
<1>7. C \in Seq(PagesOf(n - 1, y)) /\ Len(C) = l /\ \A i \in 1 .. l : C[i] = MovedDown(q, ch[i])
  BY <1>1, <1>5
<1> HIDE DEF S, C
<1> QED
  BY <1>2, <1>3, <1>6, <1>7 DEF S, C, sep, ch, Lowered

(* Page U, over what b says, is laid out once place q + 1 is gone.         *)
Mends(s, q, U, k, b) ==
  /\ Len(U.sep) = k /\ Len(U.ch) = k + 1
  /\ \A i \in 1 .. k + 1 : Height(s, U.ch[i]) = b.ht - 1
  /\ From(s, U.ch[1]) = b.lo /\ Down(q, To(s, U.ch[k + 1])) = Down(q, b.hi)
  /\ \A i \in 1 .. k :
       /\ U.sep[i] = From(s, U.ch[i + 1])
       /\ \/ U.sep[i] # q + 1 /\ U.sep[i] = To(s, U.ch[i]) + 1
          \/ U.sep[i] = q + 2 /\ To(s, U.ch[i]) = q

(* A page whose children follow on each other but for the one that is      *)
(* taken out is, renumbered, an index page.                                *)
LEMMA Mended ==
  ASSUME NEW n, NEW r, NEW x, NEW s, Typed(n, r, x, s), NEW q \in Nat \ {0}, q + 1 <= n,
         NEW y, DOMAIN y = DOMAIN x, NEW U, U.sep \in Seq(1 .. n), U.ch \in Seq(PagesOf(n, x)),
         NEW k, NEW b, Mends(s, q, U, k, b), NEW P, P = PageDown(q, U)
  PROVE  /\ Kids(SpansDown(q, s), P, [lo |-> Down(q, b.lo), hi |-> Down(q, b.hi), ht |-> b.ht])
         /\ P.sep \in Seq(1 .. n - 1) /\ P.ch \in Seq(PagesOf(n - 1, y))
<1> DEFINE S == SpansDown(q, s)
           l == k + 1
<1>1. /\ k = Len(U.sep) /\ l = Len(U.ch)
      /\ \A i \in 1 .. l : Height(s, U.ch[i]) = b.ht - 1
      /\ From(s, U.ch[1]) = b.lo /\ Down(q, To(s, U.ch[l])) = Down(q, b.hi)
      /\ \A i \in 1 .. k :
           /\ U.sep[i] = From(s, U.ch[i + 1])
           /\ \/ U.sep[i] # q + 1 /\ U.sep[i] = To(s, U.ch[i]) + 1
              \/ U.sep[i] = q + 2 /\ To(s, U.ch[i]) = q
  BY DEF Mends
<1>2. k \in Nat /\ l \in Nat /\ (\A i \in 1 .. k : U.sep[i] \in 1 .. n) /\ (\A i \in 1 .. l : U.ch[i] \in PagesOf(n, x))
  <2>1. k = Len(U.sep) /\ l = Len(U.ch)
    BY <1>1
  <2> HIDE DEF l
  <2>2. k \in Nat /\ \A i \in 1 .. k : U.sep[i] \in 1 .. n
    BY <2>1, Elements
  <2>3. l \in Nat /\ \A i \in 1 .. l : U.ch[i] \in PagesOf(n, x)
    BY <2>1, Elements
  <2> QED
    BY <2>2, <2>3
<1>3. Lowered(n, q, y, U, k, l, P)
  <2> HIDE DEF l
  <2> QED
    BY <1>1, PageLowered
<1>4. /\ P.sep \in Seq(1 .. n - 1) /\ P.ch \in Seq(PagesOf(n - 1, y))
      /\ Len(P.sep) = k /\ Len(P.ch) = l
      /\ \A i \in 1 .. k : P.sep[i] = Down(q, U.sep[i])
      /\ \A i \in 1 .. l : P.ch[i] = MovedDown(q, U.ch[i])
  BY <1>3 DEF Lowered
<1> HIDE DEF S
<1>5. ASSUME NEW i \in 1 .. l
      PROVE  /\ From(S, P.ch[i]) = Down(q, From(s, U.ch[i]))
             /\ To(S, P.ch[i]) = Down(q, To(s, U.ch[i]))
             /\ Height(S, P.ch[i]) = Height(s, U.ch[i])
  <2> DEFINE c == U.ch[i]
  <2>1. c \in PagesOf(n, x) /\ P.ch[i] = MovedDown(q, c)
    BY <1>2, <1>4
  <2> HIDE DEF c
  <2>2. /\ From(SpansDown(q, s), MovedDown(q, c)) = Down(q, From(s, c))
        /\ To(SpansDown(q, s), MovedDown(q, c)) = Down(q, To(s, c))
        /\ Height(SpansDown(q, s), MovedDown(q, c)) = Height(s, c)
    BY <2>1, MovedDownSpan
  <2> QED
    BY <2>1, <2>2 DEF S, c
<1>6. ASSUME NEW i \in 1 .. k
      PROVE  P.sep[i] = From(S, P.ch[i + 1]) /\ P.sep[i] = To(S, P.ch[i]) + 1
  <2>1. i \in 1 .. l /\ i + 1 \in 1 .. l
    BY <1>2
  <2>2. P.sep[i] = Down(q, U.sep[i]) /\ P.sep[i] = From(S, P.ch[i + 1]) /\ To(S, P.ch[i]) = Down(q, To(s, U.ch[i]))
    BY <1>1, <1>4, <1>5, <2>1
  <2> DEFINE c == U.ch[i]
             e == U.sep[i]
             t == To(s, c)
  <2>3. c \in PagesOf(n, x) /\ e \in 1 .. n
    BY <1>2, <2>1
  <2>4. t \in Int
    <3> HIDE DEF c
    <3> QED
      BY <2>3, SpanType
  <2>5. (e # q + 1 /\ e = t + 1) \/ (e = q + 2 /\ t = q)
    BY <1>1
  <2> HIDE DEF e, t
  <2>6. Down(q, e) = Down(q, t) + 1
    BY <2>3, <2>4, <2>5 DEF Down
  <2> QED
    BY <2>2, <2>6 DEF c, e, t
<1>7. 1 \in 1 .. l
  BY <1>2
<1>8. l \in 1 .. l
  BY <1>2
<1> DEFINE B == [lo |-> Down(q, b.lo), hi |-> Down(q, b.hi), ht |-> b.ht]
<1>9. B.lo = Down(q, b.lo) /\ B.hi = Down(q, b.hi) /\ B.ht = b.ht
  OBVIOUS
<1> HIDE DEF B
<1>10. /\ From(S, P.ch[1]) = B.lo /\ To(S, P.ch[l]) = B.hi
       /\ \A i \in 1 .. l : Height(S, P.ch[i]) = B.ht - 1
  BY <1>1, <1>5, <1>7, <1>8, <1>9
<1>11. Len(P.ch) = Len(P.sep) + 1
  BY <1>4
<1>12. Kids(S, P, B)
  BY <1>4, <1>6, <1>10, <1>11 DEF Kids
<1> QED
  BY <1>4, <1>12 DEF S, B

(* The index pages after data page q + 1 is joined to q under page p.      *)
PairedPages(x, p, pi, q) ==
  [m \in DOMAIN x |-> IF m = p THEN PageDown(q, DropKid(x[p], pi)) ELSE PageDown(q, x[m])]

(* Only p has one of the two for a child.                                  *)
LEMMA PairParent ==
  ASSUME NEW n, NEW r, NEW x, NEW s, Laid(n, r, x, s), NEW p, NEW pi, NEW q,
         Pair(x, p, pi, q), NEW m \in DOMAIN x, NEW i \in 1 .. Len(x[m].sep) + 1
  PROVE  /\ x[m].ch[i] = Data(q) => m = p /\ i = pi + 1
         /\ x[m].ch[i] = Data(q + 1) => m = p /\ i = pi + 2
<1> DEFINE j == pi + 1
           l == pi + 2
<1>1. /\ p \in DOMAIN x /\ j \in 1 .. Len(x[p].sep) + 1 /\ l \in 1 .. Len(x[p].sep) + 1
      /\ x[p].ch[j] = Data(q) /\ x[p].ch[l] = Data(q + 1)
  <2>1. p \in DOMAIN x /\ pi \in 0 .. Len(x[p].sep) - 1
    BY DEF Pair
  <2>2. Len(x[p].sep) \in Nat
    BY <2>1, PageType
  <2> QED
    BY <2>1, <2>2 DEF Pair
<1> HIDE DEF j, l
<1>2. x[m].ch[i] = Data(q) => m = p /\ i = j
  BY <1>1, OneParent
<1>3. x[m].ch[i] = Data(q + 1) => m = p /\ i = l
  BY <1>1, OneParent
<1> QED
  BY <1>2, <1>3 DEF j, l

(* What no page ends or begins between.                                    *)
LEMMA NotBetween ==
  ASSUME NEW n, NEW x, NEW s, NEW p, NEW q, Unparted(n, x, s, p, q), NEW c \in PagesOf(n, x)
  PROVE  /\ c # Data(q + 1) => From(s, c) # q + 1
         /\ c # Data(q) => To(s, c) # q
<1>1. CASE c.at = "d" /\ c.no \in 1 .. n /\ c = Data(c.no)
  BY <1>1 DEF From, To
<1>2. CASE c.at = "x" /\ c.no \in DOMAIN x /\ c = Index(c.no)
  <2>1. From(s, c) = s[c.no].lo /\ To(s, c) = s[c.no].hi
    BY <1>2 DEF From, To
  <2> QED
    BY <1>2, <2>1 DEF Unparted
<1> QED
  BY <1>1, <1>2, PointerKinds

(* The other index pages still are index pages when data page q + 1 is     *)
(* taken out.                                                              *)
LEMMA MendsOther ==
  ASSUME NEW n, NEW r, NEW x, NEW s, Laid(n, r, x, s), NEW p, NEW pi, NEW q,
         Pair(x, p, pi, q), NEW m \in DOMAIN x, m # p
  PROVE  Mends(s, q, x[m], Len(x[m].sep), s[m])
<1> DEFINE k == Len(x[m].sep)
           ch == x[m].ch
           sep == x[m].sep
           b == s[m]
<1>1. /\ k \in Nat /\ Len(ch) = k + 1 /\ Len(sep) = k /\ \A i \in 1 .. k + 1 : ch[i] \in PagesOf(n, x)
  BY PageType
<1>2. /\ \A i \in 1 .. k + 1 : Height(s, ch[i]) = b.ht - 1
      /\ From(s, ch[1]) = b.lo /\ To(s, ch[k + 1]) = b.hi
      /\ \A i \in 1 .. k : sep[i] = From(s, ch[i + 1]) /\ sep[i] = To(s, ch[i]) + 1
  BY <1>1 DEF Laid, Kids
<1>3. \A i \in 1 .. k + 1 : ch[i] # Data(q) /\ ch[i] # Data(q + 1)
  BY PairParent
<1>4. Unparted(n, x, s, p, q)
  BY PairFacts
<1> HIDE DEF k, ch, sep, b
<1>5. \A i \in 1 .. k : sep[i] # q + 1
  <2> SUFFICES ASSUME NEW i \in 1 .. k PROVE sep[i] # q + 1
    OBVIOUS
  <2> DEFINE c == ch[i + 1]
  <2>1. c \in PagesOf(n, x) /\ c # Data(q + 1) /\ sep[i] = From(s, c)
    <3>1. i + 1 \in 1 .. k + 1
      BY <1>1
    <3> QED
      BY <1>1, <1>2, <1>3, <3>1
  <2> HIDE DEF c
  <2> QED
    BY <1>4, <2>1, NotBetween
<1>6. Mends(s, q, x[m], k, b)
  BY <1>1, <1>2, <1>5 DEF Mends, ch, sep
<1> QED
  BY <1>6 DEF k, b

(* The parent is one too, without the separator and the child.             *)
LEMMA MendsParent ==
  ASSUME NEW n, NEW r, NEW x, NEW s, Laid(n, r, x, s), NEW p, NEW pi, NEW q,
         Pair(x, p, pi, q), NEW P, P = DropKid(x[p], pi)
  PROVE  /\ Mends(s, q, P, Len(x[p].sep) - 1, s[p])
         /\ P.sep \in Seq(1 .. n) /\ P.ch \in Seq(PagesOf(n, x))
<1> DEFINE k == Len(x[p].sep)
           ch == x[p].ch
           sep == x[p].sep
           b == s[p]
<1>0. p \in DOMAIN x /\ pi \in 0 .. k - 1 /\ ch[pi + 1] = Data(q) /\ ch[pi + 2] = Data(q + 1)
  BY DEF Pair
<1>1. /\ k \in Nat /\ Len(ch) = k + 1 /\ \A i \in 1 .. k + 1 : ch[i] \in PagesOf(n, x)
      /\ sep \in Seq(1 .. n) /\ ch \in Seq(PagesOf(n, x)) /\ Len(sep) = k
  <2>1. sep \in Seq(1 .. n) /\ ch \in Seq(PagesOf(n, x))
    BY <1>0 DEF Laid, Typed
  <2>2. k \in Nat /\ Len(ch) = k + 1 /\ \A i \in 1 .. k + 1 : ch[i] \in PagesOf(n, x)
    BY <1>0, PageType
  <2> QED
    BY <2>1, <2>2
<1>2. Dropped(1 .. n, PagesOf(n, x), x[p], k, pi, P)
  <2> DEFINE A == 1 .. n
             B == PagesOf(n, x)
             U == x[p]
  <2>1. /\ U.sep \in Seq(A) /\ U.ch \in Seq(B) /\ k \in Nat /\ Len(U.sep) = k /\ Len(U.ch) = k + 1
        /\ pi \in 0 .. k - 1 /\ P = DropKid(U, pi)
    BY <1>0, <1>1
  <2> HIDE DEF A, B, U, k, ch, sep
  <2>2. Dropped(A, B, U, k, pi, DropKid(U, pi))
    BY <2>1, KidDropped
  <2> QED
    BY <2>1, <2>2 DEF A, B, U
<1>3. /\ \A i \in 1 .. k + 1 : Height(s, ch[i]) = b.ht - 1
      /\ From(s, ch[1]) = b.lo /\ To(s, ch[k + 1]) = b.hi
      /\ \A i \in 1 .. k : sep[i] = From(s, ch[i + 1]) /\ sep[i] = To(s, ch[i]) + 1
  BY <1>0, <1>1 DEF Laid, Kids
<1>4. \A i \in 1 .. k + 1 : /\ (ch[i] = Data(q) => i = pi + 1)
                           /\ (ch[i] = Data(q + 1) => i = pi + 2)
  BY <1>0, PairParent
<1>5. Unparted(n, x, s, p, q) /\ q \in Nat \ {0}
  BY PairFacts DEF Unparted
<1>6. /\ P.sep \in Seq(1 .. n) /\ Len(P.sep) = k - 1
      /\ \A i \in 1 .. pi : P.sep[i] = sep[i]
      /\ \A i \in pi + 1 .. k - 1 : P.sep[i] = sep[i + 1]
      /\ P.ch \in Seq(PagesOf(n, x)) /\ Len(P.ch) = k
      /\ \A i \in 1 .. pi + 1 : P.ch[i] = ch[i]
      /\ \A i \in pi + 2 .. k : P.ch[i] = ch[i + 1]
  BY <1>2 DEF Dropped
<1>7. To(s, Data(q)) = q /\ To(s, Data(q + 1)) = q + 1
  BY Pointing
<1> HIDE DEF k, ch, sep, b
<1>8. \A i \in 1 .. k + 1 : i # pi + 2 => From(s, ch[i]) # q + 1
  <2> SUFFICES ASSUME NEW i \in 1 .. k + 1, i # pi + 2 PROVE From(s, ch[i]) # q + 1
    OBVIOUS
  <2> DEFINE c == ch[i]
  <2>1. c \in PagesOf(n, x) /\ c # Data(q + 1)
    BY <1>1, <1>4
  <2> HIDE DEF c
  <2>2. From(s, c) # q + 1
    BY <1>5, <2>1, NotBetween
  <2> QED
    BY <2>2 DEF c
<1>9. \A i \in 1 .. k : Height(s, P.ch[i]) = b.ht - 1
  <2> SUFFICES ASSUME NEW i \in 1 .. k PROVE Height(s, P.ch[i]) = b.ht - 1
    OBVIOUS
  <2>1. CASE i <= pi + 1
    <3>1. i \in 1 .. pi + 1 /\ i \in 1 .. k + 1
      BY <1>0, <1>1, <2>1
    <3> QED
      BY <1>3, <1>6, <3>1
  <2>2. CASE i > pi + 1
    <3>1. i \in pi + 2 .. k /\ i + 1 \in 1 .. k + 1
      BY <1>0, <1>1, <2>2
    <3> QED
      BY <1>3, <1>6, <3>1
  <2>3. i <= pi + 1 \/ i > pi + 1
    BY <1>0
  <2> QED
    BY <2>1, <2>2, <2>3
<1>10. From(s, P.ch[1]) = b.lo
  <2>1. 1 \in 1 .. pi + 1
    BY <1>0, <1>1
  <2> QED
    BY <1>3, <1>6, <2>1
<1>11. Down(q, To(s, P.ch[k])) = Down(q, b.hi)
  <2>1. CASE k = pi + 1
    <3>1. k \in 1 .. pi + 1 /\ k + 1 = pi + 2
      BY <1>0, <1>1, <2>1
    <3>2. To(s, P.ch[k]) = q /\ b.hi = q + 1
      BY <1>0, <1>3, <1>6, <1>7, <2>1, <3>1
    <3> QED
      BY <1>5, <3>2 DEF Down
  <2>2. CASE k # pi + 1
    <3>1. k \in pi + 2 .. k
      BY <1>0, <1>1, <2>2
    <3> QED
      BY <1>3, <1>6, <3>1
  <2> QED
    BY <2>1, <2>2
<1>12. ASSUME NEW i \in 1 .. k - 1
       PROVE  /\ P.sep[i] = From(s, P.ch[i + 1])
              /\ \/ P.sep[i] # q + 1 /\ P.sep[i] = To(s, P.ch[i]) + 1
                 \/ P.sep[i] = q + 2 /\ To(s, P.ch[i]) = q
  <2>1. CASE i <= pi
    <3>1. i \in 1 .. pi /\ i + 1 \in 1 .. pi + 1 /\ i \in 1 .. pi + 1 /\ i \in 1 .. k
          /\ i + 1 \in 1 .. k + 1 /\ i + 1 # pi + 2
      BY <1>0, <1>1, <2>1
    <3> QED
      BY <1>3, <1>6, <1>8, <3>1
  <2>2. CASE i > pi
    <3> DEFINE h == i + 1
    <3>1. i \in pi + 1 .. k - 1 /\ h \in pi + 2 .. k /\ h \in 1 .. k /\ h = i + 1
          /\ h + 1 \in 1 .. k + 1 /\ h + 1 # pi + 2
      BY <1>0, <1>1, <2>2
    <3> HIDE DEF h
    <3>2. P.sep[i] = sep[h] /\ P.ch[h] = ch[h + 1] /\ sep[h] = From(s, ch[h + 1]) /\ sep[h] = To(s, ch[h]) + 1
          /\ sep[h] # q + 1
      BY <1>3, <1>6, <1>8, <3>1
    <3>3. CASE i = pi + 1
      <4>1. h = pi + 2 /\ i \in 1 .. pi + 1
        BY <1>0, <3>1, <3>3
      <4>2. P.ch[i] = Data(q) /\ ch[h] = Data(q + 1)
        BY <1>0, <1>6, <3>3, <4>1
      <4>3. To(s, P.ch[i]) = q /\ sep[h] = q + 2
        <5>1. sep[h] = (q + 1) + 1
          BY <1>7, <3>2, <4>2
        <5> QED
          BY <1>5, <1>7, <4>2, <5>1
      <4> QED
        BY <3>1, <3>2, <4>3
    <3>4. CASE i # pi + 1
      <4>1. i \in pi + 2 .. k
        BY <1>0, <1>1, <3>1, <3>4
      <4>2. P.ch[i] = ch[h]
        BY <1>6, <3>1, <4>1
      <4> QED
        BY <3>1, <3>2, <4>2
    <3> QED
      BY <3>3, <3>4
  <2>3. i <= pi \/ i > pi
    BY <1>0
  <2> QED
    BY <2>1, <2>2, <2>3
<1> DEFINE l == k - 1
<1>13. l + 1 = k /\ l = k - 1
  BY <1>1
<1> HIDE DEF l
<1>14. Mends(s, q, P, l, b)
  <2>1. Len(P.sep) = l /\ Len(P.ch) = l + 1
    BY <1>6, <1>13
  <2>2. \A i \in 1 .. l : /\ P.sep[i] = From(s, P.ch[i + 1])
                         /\ \/ P.sep[i] # q + 1 /\ P.sep[i] = To(s, P.ch[i]) + 1
                            \/ P.sep[i] = q + 2 /\ To(s, P.ch[i]) = q
    BY <1>12, <1>13
  <2> QED
    BY <1>9, <1>10, <1>11, <1>13, <2>1, <2>2 DEF Mends
<1> QED
  BY <1>6, <1>13, <1>14 DEF k, b

(* Data page q + 1, child pi + 1 of p, goes into q, and the pages behind   *)
(* it are one place further up.                                            *)
LEMMA LaidPaired ==
  ASSUME NEW n, NEW r, NEW x, NEW s, Laid(n, r, x, s), NEW p, NEW pi, NEW q, Pair(x, p, pi, q)
  PROVE  Laid(n - 1, r, PairedPages(x, p, pi, q), SpansDown(q, s))
<1> DEFINE y == PairedPages(x, p, pi, q)
           S == SpansDown(q, s)
<1>1. n \in Nat /\ Typed(n, r, x, s) /\ DOMAIN s = DOMAIN x /\ Nested(x, s) /\ Rooted(n, r, x, s)
  BY DEF Laid, Typed
<1>2. /\ q \in Nat \ {0} /\ q + 1 <= n /\ p \in DOMAIN x /\ Unparted(n, x, s, p, q)
      /\ \A m \in DOMAIN x : s[m].lo # q + 1 /\ s[m].hi # q
  BY PairFacts DEF Unparted
<1>3. DOMAIN y = DOMAIN x /\ DOMAIN S = DOMAIN x /\ y = [m \in DOMAIN y |-> y[m]]
  BY <1>1 DEF PairedPages, SpansDown
<1>4. y[p] = PageDown(q, DropKid(x[p], pi))
  BY <1>2 DEF PairedPages
<1>5. \A m \in DOMAIN x : m # p => y[m] = PageDown(q, x[m])
  BY DEF PairedPages
<1>6. \A m \in DOMAIN x : /\ S[m] = [lo |-> Down(q, s[m].lo), hi |-> Down(q, s[m].hi), ht |-> s[m].ht]
                          /\ S[m].lo = Down(q, s[m].lo) /\ S[m].hi = Down(q, s[m].hi) /\ S[m].ht = s[m].ht
  BY <1>1 DEF SpansDown
<1> HIDE DEF y, S
<1>eq. S = SpansDown(q, s)
  BY DEF S
<1>7. /\ Kids(S, y[p], S[p])
      /\ y[p].sep \in Seq(1 .. n - 1) /\ y[p].ch \in Seq(PagesOf(n - 1, y))
  <2> DEFINE U == DropKid(x[p], pi)
             P == PageDown(q, U)
             k == Len(x[p].sep) - 1
             b == s[p]
  <2>1. U = DropKid(x[p], pi) /\ P = PageDown(q, U)
    OBVIOUS
  <2> HIDE DEF U, P
  <2>2. Mends(s, q, U, k, b) /\ U.sep \in Seq(1 .. n) /\ U.ch \in Seq(PagesOf(n, x))
    BY <2>1, MendsParent
  <2> HIDE DEF k, b
  <2>3. /\ Kids(SpansDown(q, s), P, [lo |-> Down(q, b.lo), hi |-> Down(q, b.hi), ht |-> b.ht])
        /\ P.sep \in Seq(1 .. n - 1) /\ P.ch \in Seq(PagesOf(n - 1, y))
    BY <1>1, <1>2, <1>3, <2>1, <2>2, Mended
  <2> QED
    BY <1>2, <1>4, <1>6, <1>eq, <2>1, <2>3 DEF b
<1>8. ASSUME NEW m \in DOMAIN x, m # p
      PROVE  /\ Kids(S, y[m], S[m])
             /\ y[m].sep \in Seq(1 .. n - 1) /\ y[m].ch \in Seq(PagesOf(n - 1, y))
  <2> DEFINE U == x[m]
             P == PageDown(q, U)
             k == Len(x[m].sep)
             b == s[m]
  <2>1. P = PageDown(q, U)
    OBVIOUS
  <2>2. Mends(s, q, U, k, b)
    BY <1>8, MendsOther
  <2>3. U.sep \in Seq(1 .. n) /\ U.ch \in Seq(PagesOf(n, x))
    BY <1>1 DEF Typed
  <2> HIDE DEF U, P, k, b
  <2>4. /\ Kids(SpansDown(q, s), P, [lo |-> Down(q, b.lo), hi |-> Down(q, b.hi), ht |-> b.ht])
        /\ P.sep \in Seq(1 .. n - 1) /\ P.ch \in Seq(PagesOf(n - 1, y))
    BY <1>1, <1>2, <1>3, <2>1, <2>2, <2>3, Mended
  <2> QED
    BY <1>5, <1>6, <1>8, <1>eq, <2>1, <2>4 DEF b, U
<1>9. r.at = "x" /\ r.no \in DOMAIN x /\ r = Index(r.no)
  BY <1>2, RootIndex
<1>10. ASSUME NEW m \in DOMAIN x
       PROVE  /\ S[m].lo \in 1 .. n - 1 /\ S[m].hi \in 1 .. n - 1 /\ S[m].ht \in Nat \ {0}
              /\ S[m].lo <= S[m].hi
  <2> DEFINE a == s[m].lo
             b == s[m].hi
  <2>1. a \in 1 .. n /\ b \in 1 .. n /\ a <= b /\ s[m].ht \in Nat \ {0}
    BY <1>1 DEF Typed
  <2> HIDE DEF a, b
  <2>2. Down(q, a) \in 1 .. n - 1 /\ Down(q, b) \in 1 .. n - 1 /\ Down(q, a) <= Down(q, b)
    BY <1>1, <1>2, <2>1 DEF Down
  <2> QED
    BY <1>6, <2>1, <2>2 DEF a, b
<1>11. Typed(n - 1, r, y, S)
  <2>1. n - 1 \in Nat /\ IsFiniteSet(DOMAIN y) /\ DOMAIN y \subseteq Nat \ {0}
    BY <1>1, <1>2, <1>3 DEF Typed
  <2>2. r \in PagesOf(n - 1, y)
    BY <1>3, <1>9 DEF PagesOf
  <2> QED
    BY <1>3, <1>7, <1>8, <1>10, <2>1, <2>2 DEF Typed
<1>12. Nested(y, S)
  <2> SUFFICES ASSUME NEW l \in DOMAIN x, NEW m \in DOMAIN x, Meets(S[l], S[m]), S[l].ht <= S[m].ht
               PROVE  Within(S[l], S[m]) /\ (S[l].ht = S[m].ht => l = m)
    BY <1>3 DEF Nested
  <2> DEFINE a == s[l].lo
             b == s[l].hi
             c == s[m].lo
             d == s[m].hi
  <2>1. a \in Int /\ b \in Int /\ c \in Int /\ d \in Int
    BY <1>1 DEF Typed
  <2>2. a # q + 1 /\ b # q /\ c # q + 1 /\ d # q
    BY <1>2
  <2>3. Down(q, a) <= Down(q, d) /\ Down(q, c) <= Down(q, b)
    BY <1>6 DEF Meets
  <2>4. (Meets(s[l], s[m]) /\ s[l].ht <= s[m].ht) => Within(s[l], s[m]) /\ (s[l].ht = s[m].ht => l = m)
    BY <1>1 DEF Nested
  <2> HIDE DEF a, b, c, d
  <2>5. a <= d /\ c <= b
    BY <1>2, <2>1, <2>2, <2>3 DEF Down
  <2>6. Meets(s[l], s[m])
    BY <2>5 DEF Meets, a, b, c, d
  <2>7. Within(s[l], s[m]) /\ (s[l].ht = s[m].ht => l = m)
    BY <1>6, <2>4, <2>6
  <2>8. c <= a /\ b <= d
    BY <2>7 DEF Within, a, b, c, d
  <2>9. Down(q, c) <= Down(q, a) /\ Down(q, b) <= Down(q, d)
    BY <1>2, <2>1, <2>8 DEF Down
  <2> QED
    BY <1>6, <2>7, <2>9 DEF Within, a, b, c, d
<1>13. Rooted(n - 1, r, y, S)
  <2>1. s[r.no].lo = 1 /\ s[r.no].hi = n
    BY <1>1, <1>9 DEF Rooted, From, To
  <2>2. Down(q, 1) = 1 /\ Down(q, n) = n - 1
    BY <1>1, <1>2 DEF Down
  <2>3. S[r.no].lo = 1 /\ S[r.no].hi = n - 1
    BY <1>6, <1>9, <2>1, <2>2
  <2>4. \A m \in DOMAIN x : Index(m) # r => s[m].ht < s[r.no].ht
    BY <1>1, <1>9 DEF Rooted, Height
  <2> QED
    BY <1>3, <1>6, <1>9, <2>3, <2>4 DEF Rooted, From, To, Height
<1>14. \A m \in DOMAIN y : Kids(S, y[m], S[m])
  BY <1>3, <1>7, <1>8
<1> QED
  BY <1>11, <1>12, <1>13, <1>14 DEF Laid, y, S

-----------------------------------------------------------------------------
(* Keys of data pages.                                                     *)

-----------------------------------------------------------------------------
(* The keys of the data pages.                                             *)

(* Keys in order: of one page, of one set before another, and of all data  *)
(* pages; and all the keys there are.                                      *)
Asc(s) == \A a, b \in DOMAIN s : a < b => s[a] < s[b]
Below(U, V) == \A u \in U, v \in V : u < v
Ordered(d) ==
  /\ \A i \in DOMAIN d : Asc(d[i])
  /\ \A i, j \in DOMAIN d : i < j => Below(ToSet(d[i]), ToSet(d[j]))
KeysOf(d) == UNION {ToSet(d[q]) : q \in DOMAIN d}

(* A key is among the keys of a sequence of pages if it is on one of them. *)
LEMMA KeyIn ==
  ASSUME NEW d, NEW u
  PROVE  u \in KeysOf(d) <=> \E i \in DOMAIN d : u \in ToSet(d[i])
  BY DEF KeysOf

(* A value is in a sequence if it is at a place of it.                     *)
LEMMA AtPlace ==
  ASSUME NEW s, NEW u
  PROVE  u \in ToSet(s) <=> \E a \in DOMAIN s : s[a] = u
  BY DEF ToSet

(* The keys on a page are keys, and numbers.                               *)
LEMMA PageKeys ==
  ASSUME NEW s \in Seq(Key)
  PROVE  ToSet(s) \subseteq Key /\ ToSet(s) \subseteq Int
<1>1. \A a \in DOMAIN s : s[a] \in Key
  OBVIOUS
<1>2. ASSUME NEW u \in ToSet(s) PROVE u \in Key
  <2>1. PICK a \in DOMAIN s : s[a] = u
    BY AtPlace, Zenon
  <2> QED
    BY <1>1, <2>1, Zenon
<1>3. Key \subseteq Int
  BY BTreeAssumption DEF BTreeAssumption
<1> QED
  BY <1>2, <1>3, Zenon

(* s is u with v behind it, and in order iff both are and u is below v.    *)
Glued(u, v, s) ==
  /\ s \in Seq(Key) /\ Len(s) = Len(u) + Len(v)
  /\ ToSet(s) = ToSet(u) \cup ToSet(v)
  /\ Asc(s) <=> Asc(u) /\ Asc(v) /\ Below(ToSet(u), ToSet(v))

(* The values of a concatenation, and when they are in order.              *)
LEMMA Gluing ==
  ASSUME NEW u \in Seq(Key), NEW v \in Seq(Key)
  PROVE  Glued(u, v, u \o v)
<1> DEFINE s == u \o v
           m == Len(u)
           n == Len(v)
<1>1. m \in Nat /\ n \in Nat /\ DOMAIN u = 1 .. m /\ DOMAIN v = 1 .. n
      /\ (\A a \in 1 .. m : u[a] \in Int) /\ (\A a \in 1 .. n : v[a] \in Int)
  BY Elements, BTreeAssumption DEF BTreeAssumption
<1>2. Chain(Key, u, m, v, n, s)
  <2> HIDE DEF m, n
  <2> QED
    BY Chained DEF m, n
<1>3. /\ s \in Seq(Key) /\ Len(s) = m + n
      /\ \A i \in 1 .. m : s[i] = u[i]
      /\ \A i \in 1 .. n : s[m + i] = v[i]
  BY <1>2 DEF Chain
<1>4. DOMAIN s = 1 .. m + n
  BY <1>3, Elements
<1> HIDE DEF s, m, n
<1>5. \A i \in 1 .. m + n : i \in 1 .. m \/ \E a \in 1 .. n : i = m + a
  <2> SUFFICES ASSUME NEW i \in 1 .. m + n, i \notin 1 .. m PROVE \E a \in 1 .. n : i = m + a
    OBVIOUS
  <2>1. i - m \in 1 .. n /\ i = m + (i - m)
    BY <1>1
  <2> QED
    BY <2>1
<1>6. \A i \in 1 .. m : i \in 1 .. m + n
  BY <1>1
<1>7. \A i \in 1 .. n : m + i \in 1 .. m + n
  BY <1>1
<1>8. ToSet(s) = ToSet(u) \cup ToSet(v)
  <2>1. ASSUME NEW e \in ToSet(s) PROVE e \in ToSet(u) \cup ToSet(v)
    <3>1. PICK i \in 1 .. m + n : s[i] = e
      BY <1>4, AtPlace
    <3>2. CASE i \in 1 .. m
      BY <1>1, <1>3, <3>1, <3>2, AtPlace
    <3>3. CASE \E a \in 1 .. n : i = m + a
      BY <1>1, <1>3, <3>1, <3>3, AtPlace
    <3> QED
      BY <1>5, <3>2, <3>3
  <2>2. ASSUME NEW e \in ToSet(u) PROVE e \in ToSet(s)
    BY <1>1, <1>3, <1>4, <1>6, AtPlace
  <2>3. ASSUME NEW e \in ToSet(v) PROVE e \in ToSet(s)
    <3>1. PICK a \in 1 .. n : v[a] = e
      BY <1>1, AtPlace
    <3> QED
      BY <1>3, <1>4, <1>7, <3>1, AtPlace
  <2> QED
    BY <2>1, <2>2, <2>3
<1>9. ASSUME Asc(s)
      PROVE  Asc(u) /\ Asc(v) /\ Below(ToSet(u), ToSet(v))
  <2>0. \A a, b \in 1 .. m + n : a < b => s[a] < s[b]
    BY <1>4, <1>9 DEF Asc
  <2>1. Asc(u)
    BY <1>1, <1>3, <1>6, <2>0 DEF Asc
  <2>2. ASSUME NEW a \in 1 .. n, NEW b \in 1 .. n, a < b PROVE v[a] < v[b]
    <3>1. m + a < m + b
      BY <1>1, <2>2
    <3> QED
      BY <1>3, <1>7, <2>0, <3>1
  <2>3. ASSUME NEW a \in 1 .. m, NEW b \in 1 .. n PROVE u[a] < v[b]
    <3>1. a < m + b
      BY <1>1
    <3> QED
      BY <1>3, <1>6, <1>7, <2>0, <3>1
  <2>4. Below(ToSet(u), ToSet(v))
    BY <1>1, <2>3, AtPlace DEF Below
  <2> QED
    BY <1>1, <2>1, <2>2, <2>4 DEF Asc
<1>10. ASSUME Asc(u), Asc(v), Below(ToSet(u), ToSet(v))
       PROVE  Asc(s)
  <2>0. /\ \A a, b \in 1 .. m : a < b => u[a] < u[b]
        /\ \A a, b \in 1 .. n : a < b => v[a] < v[b]
        /\ \A a \in 1 .. m, b \in 1 .. n : u[a] < v[b]
    BY <1>1, <1>10, AtPlace DEF Asc, Below
  <2> SUFFICES ASSUME NEW i \in 1 .. m + n, NEW j \in 1 .. m + n, i < j PROVE s[i] < s[j]
    BY <1>4 DEF Asc
  <2>1. CASE i \in 1 .. m /\ j \in 1 .. m
    BY <1>3, <2>0, <2>1
  <2>2. CASE i \in 1 .. m /\ \E a \in 1 .. n : j = m + a
    BY <1>3, <2>0, <2>2
  <2>3. CASE (\E a \in 1 .. n : i = m + a) /\ j \in 1 .. m
    BY <1>1, <2>3
  <2>4. CASE (\E a \in 1 .. n : i = m + a) /\ \E a \in 1 .. n : j = m + a
    <3>1. PICK a \in 1 .. n, b \in 1 .. n : i = m + a /\ j = m + b
      BY <2>4
    <3>2. a < b
      BY <1>1, <3>1
    <3> QED
      BY <1>3, <2>0, <3>1, <3>2
  <2> QED
    BY <1>5, <2>1, <2>2, <2>3, <2>4
<1>11. Glued(u, v, s)
  BY <1>3, <1>8, <1>9, <1>10 DEF Glued, m, n
<1> QED
  BY <1>11 DEF s

(* Page q of d is pages q and q + 1 of e, the others are the same.         *)
Halves(d, e, q) ==
  /\ d \in Seq(Seq(Key)) /\ e \in Seq(Seq(Key)) /\ Len(e) = Len(d) + 1 /\ q \in 1 .. Len(d)
  /\ \A i \in 1 .. q - 1 : e[i] = d[i]
  /\ \A i \in q + 1 .. Len(d) : e[i + 1] = d[i]
  /\ d[q] = e[q] \o e[q + 1]

(* Halving a data page, or joining two, changes neither the keys nor       *)
(* whether they are in order.                                              *)
LEMMA HalvesKeys ==
  ASSUME NEW d, NEW e, NEW q, Halves(d, e, q)
  PROVE  KeysOf(e) = KeysOf(d) /\ (Ordered(e) <=> Ordered(d))
<1> DEFINE n == Len(d)
           o == q + 1
<1>1. /\ n \in Nat /\ DOMAIN d = 1 .. n /\ DOMAIN e = 1 .. n + 1 /\ q \in 1 .. n
      /\ \A i \in 1 .. n : d[i] \in Seq(Key)
      /\ \A i \in 1 .. n + 1 : e[i] \in Seq(Key)
  <2> DEFINE l == Len(e)
  <2>1. d \in Seq(Seq(Key)) /\ e \in Seq(Seq(Key)) /\ l = n + 1 /\ q \in 1 .. n
    BY DEF Halves
  <2>2. n \in Nat /\ DOMAIN d = 1 .. n /\ \A i \in 1 .. n : d[i] \in Seq(Key)
    BY <2>1, Elements
  <2>3. DOMAIN e = 1 .. l /\ \A i \in 1 .. l : e[i] \in Seq(Key)
    BY <2>1, Elements
  <2> QED
    BY <2>1, <2>2, <2>3
<1>2. /\ \A i \in 1 .. q - 1 : e[i] = d[i]
      /\ \A i \in o .. n : e[i + 1] = d[i]
      /\ d[q] = e[q] \o e[o]
  BY DEF Halves
<1>3. o \in 1 .. n + 1 /\ q \in 1 .. n + 1 /\ o = q + 1
  BY <1>1
<1> HIDE DEF n, o
<1>4. Glued(e[q], e[o], d[q])
  BY <1>1, <1>2, <1>3, Gluing
<1>5. /\ ToSet(d[q]) = ToSet(e[q]) \cup ToSet(e[o])
      /\ Asc(d[q]) <=> Asc(e[q]) /\ Asc(e[o]) /\ Below(ToSet(e[q]), ToSet(e[o]))
  BY <1>4 DEF Glued
(* Where the keys of a page of e are in d.                                 *)
<1> DEFINE at(i) == Down(q, i)
<1>6. ASSUME NEW i \in 1 .. n + 1
      PROVE  /\ at(i) \in 1 .. n
             /\ ToSet(e[i]) \subseteq ToSet(d[at(i)])
             /\ Asc(d[at(i)]) => Asc(e[i])
  <2>1. CASE i < q
    <3>1. at(i) = i /\ i \in 1 .. q - 1 /\ i \in 1 .. n
      BY <1>1, <2>1 DEF Down
    <3> QED
      BY <1>2, <3>1
  <2>2. CASE i = q
    <3>1. at(i) = q
      BY <1>1, <2>2 DEF Down
    <3> QED
      BY <1>1, <1>5, <2>2, <3>1
  <2>3. CASE i = o
    <3>1. at(i) = q
      BY <1>1, <1>3, <2>3 DEF Down
    <3> QED
      BY <1>1, <1>5, <2>3, <3>1
  <2>4. CASE i > o
    <3> DEFINE h == i - 1
    <3>1. at(i) = h /\ h \in o .. n /\ h \in 1 .. n /\ h + 1 = i
      BY <1>1, <1>3, <2>4 DEF Down
    <3> HIDE DEF h
    <3> QED
      BY <1>2, <3>1
  <2>5. i < q \/ i = q \/ i = o \/ i > o
    BY <1>1, <1>3
  <2> QED
    BY <2>1, <2>2, <2>3, <2>4, <2>5
(* Where a key of a page of d is in e.                                     *)
<1>7. ASSUME NEW i \in 1 .. n, NEW u \in ToSet(d[i])
      PROVE  \E j \in 1 .. n + 1 : u \in ToSet(e[j]) /\ at(j) = i
  <2>1. CASE i < q
    <3>1. at(i) = i /\ i \in 1 .. q - 1 /\ i \in 1 .. n + 1
      BY <1>1, <2>1 DEF Down
    <3> QED
      BY <1>2, <3>1
  <2>2. CASE i = q
    <3>1. at(q) = q /\ at(o) = q
      BY <1>1, <1>3 DEF Down
    <3> QED
      BY <1>3, <1>5, <2>2, <3>1
  <2>3. CASE i > q
    <3>1. at(i + 1) = i /\ i \in o .. n /\ i + 1 \in 1 .. n + 1
      BY <1>1, <1>3, <2>3 DEF Down
    <3> QED
      BY <1>2, <3>1
  <2>4. i < q \/ i = q \/ i > q
    BY <1>1
  <2> QED
    BY <2>1, <2>2, <2>3, <2>4
<1>8. \A i, j \in 1 .. n + 1 : i < j => at(i) < at(j) \/ (i = q /\ j = o)
  BY <1>1, <1>3 DEF Down
<1>9. \A i, j \in 1 .. n + 1 : at(i) < at(j) => i < j
  BY <1>1, <1>3 DEF Down
<1> HIDE DEF at
<1>10. KeysOf(e) = KeysOf(d)
  <2>1. ASSUME NEW u \in KeysOf(e) PROVE u \in KeysOf(d)
    <3>1. PICK i \in 1 .. n + 1 : u \in ToSet(e[i])
      BY <1>1, KeyIn
    <3>2. at(i) \in DOMAIN d /\ u \in ToSet(d[at(i)])
      BY <1>1, <1>6, <3>1
    <3> QED
      BY <3>2, KeyIn
  <2>2. ASSUME NEW u \in KeysOf(d) PROVE u \in KeysOf(e)
    <3>1. PICK i \in 1 .. n : u \in ToSet(d[i])
      BY <1>1, KeyIn
    <3>2. PICK j \in 1 .. n + 1 : u \in ToSet(e[j])
      BY <1>7, <3>1
    <3> QED
      BY <1>1, <3>2, KeyIn
  <2> QED
    BY <2>1, <2>2
<1>11. ASSUME Ordered(d) PROVE Ordered(e)
  <2>1. \A i \in 1 .. n : Asc(d[i])
    BY <1>1, <1>11 DEF Ordered
  <2>2. \A i, j \in 1 .. n : i < j => Below(ToSet(d[i]), ToSet(d[j]))
    BY <1>1, <1>11 DEF Ordered
  <2>3. ASSUME NEW i \in 1 .. n + 1, NEW j \in 1 .. n + 1, i < j
        PROVE  Below(ToSet(e[i]), ToSet(e[j]))
    <3>1. CASE at(i) < at(j)
      <4>1. Below(ToSet(d[at(i)]), ToSet(d[at(j)]))
        BY <1>6, <2>2, <3>1
      <4> QED
        BY <1>6, <4>1 DEF Below
    <3>2. CASE i = q /\ j = o
      BY <1>1, <1>5, <2>1, <3>2
    <3> QED
      BY <1>8, <2>3, <3>1, <3>2
  <2> QED
    BY <1>1, <1>6, <2>1, <2>3 DEF Ordered
<1>12. ASSUME Ordered(e) PROVE Ordered(d)
  <2>1. \A i \in 1 .. n + 1 : Asc(e[i])
    BY <1>1, <1>12 DEF Ordered
  <2>2. \A i, j \in 1 .. n + 1 : i < j => Below(ToSet(e[i]), ToSet(e[j]))
    BY <1>1, <1>12 DEF Ordered
  <2>3. ASSUME NEW i \in 1 .. n, NEW j \in 1 .. n, i < j
        PROVE  Below(ToSet(d[i]), ToSet(d[j]))
    <3> SUFFICES ASSUME NEW u \in ToSet(d[i]), NEW v \in ToSet(d[j]) PROVE u < v
      BY DEF Below
    <3>1. PICK f \in 1 .. n + 1 : u \in ToSet(e[f]) /\ at(f) = i
      BY <1>7
    <3>2. PICK g \in 1 .. n + 1 : v \in ToSet(e[g]) /\ at(g) = j
      BY <1>7
    <3>3. f < g
      BY <1>9, <2>3, <3>1, <3>2
    <3> QED
      BY <2>2, <3>1, <3>2, <3>3 DEF Below
  <2>4. ASSUME NEW i \in 1 .. n PROVE Asc(d[i])
    <3>1. CASE i < q
      <4>1. i \in 1 .. q - 1 /\ i \in 1 .. n + 1
        BY <1>1, <3>1
      <4> QED
        BY <1>2, <2>1, <4>1
    <3>2. CASE i = q
      <4>1. q < o
        BY <1>1, <1>3
      <4> QED
        BY <1>3, <1>5, <2>1, <2>2, <3>2, <4>1
    <3>3. CASE i > q
      <4>1. i \in o .. n /\ i + 1 \in 1 .. n + 1
        BY <1>1, <1>3, <3>3
      <4> QED
        BY <1>2, <2>1, <4>1
    <3>4. i < q \/ i = q \/ i > q
      BY <1>1
    <3> QED
      BY <3>1, <3>2, <3>3, <3>4
  <2> QED
    BY <1>1, <2>3, <2>4 DEF Ordered
<1> QED
  BY <1>10, <1>11, <1>12

(* Pages q and q + 1 of d and of e hold the same keys, dealt differently.  *)
Redealt(d, e, q) ==
  /\ d \in Seq(Seq(Key)) /\ e \in Seq(Seq(Key)) /\ Len(e) = Len(d) /\ q \in 1 .. Len(d) - 1
  /\ \A i \in 1 .. Len(d) : i # q /\ i # q + 1 => e[i] = d[i]
  /\ d[q] \o d[q + 1] = e[q] \o e[q + 1]

(* Joined, the two pages are the same in both.                             *)
LEMMA RedealtJoin ==
  ASSUME NEW d, NEW e, NEW q, Redealt(d, e, q)
  PROVE  \E f : Halves(f, d, q) /\ Halves(f, e, q)
<1> DEFINE n == Len(d)
           o == q + 1
           l == Len(e)
<1>0. d \in Seq(Seq(Key)) /\ e \in Seq(Seq(Key)) /\ l = n /\ q \in 1 .. n - 1
  BY DEF Redealt
<1>1. n \in Nat /\ DOMAIN d = 1 .. n /\ \A i \in 1 .. n : d[i] \in Seq(Key)
  BY <1>0, Elements
<1>2. DOMAIN e = 1 .. n /\ \A i \in 1 .. n : e[i] \in Seq(Key)
  <2>1. DOMAIN e = 1 .. l /\ \A i \in 1 .. l : e[i] \in Seq(Key)
    BY <1>0, Elements
  <2> QED
    BY <1>0, <2>1
<1>3. /\ \A i \in 1 .. n : i # q /\ i # o => e[i] = d[i]
      /\ d[q] \o d[o] = e[q] \o e[o]
  BY DEF Redealt
<1>4. o = q + 1 /\ o \in 1 .. n /\ q \in 1 .. n
  BY <1>0, <1>1
<1> HIDE DEF n, o
<1> DEFINE both == d[q] \o d[o]
           f == [i \in 1 .. n - 1 |-> IF i < q THEN d[i] ELSE IF i = q THEN both ELSE d[i + 1]]
<1>5. both \in Seq(Key)
  BY <1>1, <1>4, ConcatProperties
<1> HIDE DEF both
<1>6. f \in Seq(Seq(Key)) /\ Len(f) = n - 1
  <2>1. ASSUME NEW i \in 1 .. n - 1
        PROVE  (IF i < q THEN d[i] ELSE IF i = q THEN both ELSE d[i + 1]) \in Seq(Key)
    <3>1. i \in 1 .. n /\ i + 1 \in 1 .. n
      BY <1>1
    <3> QED
      BY <1>1, <1>5, <3>1
  <2>2. f \in [1 .. n - 1 -> Seq(Key)]
    BY <2>1
  <2>3. n - 1 \in Nat
    BY <1>0, <1>1
  <2> HIDE DEF f
  <2> QED
    BY <2>2, <2>3
<1>7. /\ \A i \in 1 .. q - 1 : f[i] = d[i]
      /\ f[q] = both
      /\ \A i \in o .. n - 1 : f[i] = d[i + 1]
  <2>1. \A i \in 1 .. q - 1 : i \in 1 .. n - 1 /\ i < q
    BY <1>0, <1>1
  <2>2. q \in 1 .. n - 1 /\ ~ (q < q)
    BY <1>0, <1>1
  <2>3. \A i \in o .. n - 1 : i \in 1 .. n - 1 /\ ~ (i < q) /\ i # q
    BY <1>0, <1>1, <1>4
  <2> QED
    BY <2>1, <2>2, <2>3
<1> HIDE DEF f
<1> DEFINE g == Len(f)
<1>8. g = n - 1 /\ n = g + 1 /\ q \in 1 .. g /\ l = g + 1
  BY <1>0, <1>1, <1>6
<1>9. Halves(f, d, q)
  <2>1. \A i \in 1 .. q - 1 : d[i] = f[i]
    BY <1>7
  <2>2. \A i \in o .. g : d[i + 1] = f[i]
    BY <1>7, <1>8
  <2>3. f[q] = d[q] \o d[o]
    BY <1>7 DEF both
  <2> QED
    BY <1>0, <1>6, <1>8, <2>1, <2>2, <2>3 DEF Halves, n, o
<1>10. Halves(f, e, q)
  <2>1. ASSUME NEW i \in 1 .. q - 1 PROVE e[i] = f[i]
    <3>1. i \in 1 .. n /\ i # q /\ i # o
      BY <1>1, <1>4
    <3> QED
      BY <1>3, <1>7, <3>1
  <2>2. ASSUME NEW i \in o .. g PROVE e[i + 1] = f[i]
    <3>1. i \in o .. n - 1
      BY <1>8
    <3>2. i + 1 \in 1 .. n /\ i + 1 # q /\ i + 1 # o
      BY <1>1, <1>4, <3>1
    <3> QED
      BY <1>3, <1>7, <3>1, <3>2
  <2>3. f[q] = e[q] \o e[o]
    BY <1>3, <1>7 DEF both
  <2> QED
    BY <1>0, <1>6, <1>8, <2>1, <2>2, <2>3 DEF Halves, o
<1> QED
  BY <1>9, <1>10

(* Moving keys between neighbours changes neither the keys nor whether     *)
(* they are in order.                                                      *)
LEMMA RedealtKeys ==
  ASSUME NEW d, NEW e, NEW q, Redealt(d, e, q)
  PROVE  KeysOf(e) = KeysOf(d) /\ (Ordered(e) <=> Ordered(d))
<1>1. PICK f : Halves(f, d, q) /\ Halves(f, e, q)
  BY RedealtJoin
<1>2. KeysOf(d) = KeysOf(f) /\ (Ordered(d) <=> Ordered(f))
  BY <1>1, HalvesKeys
<1>3. KeysOf(e) = KeysOf(f) /\ (Ordered(e) <=> Ordered(f))
  BY <1>1, HalvesKeys
<1> QED
  BY <1>2, <1>3

-----------------------------------------------------------------------------
(* Key k belongs into page q of d behind its first i keys.                 *)
Fits(d, q, i, k) ==
  /\ q \in DOMAIN d /\ i \in 0 .. Len(d[q]) /\ k \in Key
  /\ \A j \in DOMAIN d : j < q => Below(ToSet(d[j]), {k})
  /\ \A j \in DOMAIN d : q < j => Below({k}, ToSet(d[j]))
  /\ \A a \in 1 .. i : d[q][a] < k
  /\ \A a \in i + 1 .. Len(d[q]) : k < d[q][a]

(* t is s with e behind the first i values.                                *)
PutIn(X, s, n, i, e, t) ==
  /\ t \in Seq(X) /\ Len(t) = n + 1
  /\ \A j \in 1 .. i : t[j] = s[j]
  /\ t[i + 1] = e
  /\ \A j \in i + 1 .. n : t[j + 1] = s[j]

(* InsertAt with the place counted from 0, as a relation.                  *)
LEMMA InsertedAs ==
  ASSUME NEW X, NEW s \in Seq(X), NEW e \in X, NEW n, n = Len(s), NEW i \in 0 .. n
  PROVE  PutIn(X, s, n, i, e, InsertAt(s, i + 1, e))
<1>0. n \in Nat /\ Len(s) = n
  BY Elements
<1> DEFINE h == i + 1
<1>1. h \in 1 .. Len(s) + 1 /\ h - 1 = i
  BY <1>0
<1> HIDE DEF h
<1>2. /\ \A j \in 1 .. h - 1 : InsertAt(s, h, e)[j] = s[j]
      /\ InsertAt(s, h, e)[h] = e
      /\ \A j \in h .. Len(s) : InsertAt(s, h, e)[j + 1] = s[j]
  BY <1>1, InsertedPlaces
<1>3. InsertAt(s, h, e) \in Seq(X) /\ Len(InsertAt(s, h, e)) = Len(s) + 1
  BY <1>1, Inserted
<1>4. /\ \A j \in 1 .. i : InsertAt(s, h, e)[j] = s[j]
      /\ InsertAt(s, h, e)[h] = e
      /\ \A j \in h .. n : InsertAt(s, h, e)[j + 1] = s[j]
      /\ InsertAt(s, h, e) \in Seq(X) /\ Len(InsertAt(s, h, e)) = n + 1
  BY <1>0, <1>1, <1>2, <1>3
<1> QED
  BY <1>4 DEF PutIn, h

(* A key is a number.                                                      *)
LEMMA KeyNumber ==
  ASSUME NEW k \in Key
  PROVE  k \in Int
  BY BTreeAssumption DEF BTreeAssumption

(* s with k behind its first i values, all of them in order.               *)
Slotted(s, i, k, t) ==
  /\ t \in Seq(Key) /\ Len(t) = Len(s) + 1 /\ ToSet(t) = ToSet(s) \cup {k} /\ Asc(t)
  /\ k \notin ToSet(s)

(* A key put in at the place of Find leaves the page in order and adds     *)
(* that key.                                                               *)
LEMMA Slot ==
  ASSUME NEW s \in Seq(Key), Asc(s), NEW k \in Key, NEW i \in 0 .. Len(s),
         \A a \in 1 .. i : s[a] < k, \A a \in i + 1 .. Len(s) : k < s[a]
  PROVE  Slotted(s, i, k, InsertAt(s, i + 1, k))
<1> DEFINE n == Len(s)
           t == InsertAt(s, i + 1, k)
<1>1. n \in Nat /\ DOMAIN s = 1 .. n /\ \A a \in 1 .. n : s[a] \in Key
  BY Elements
<1>2. /\ t \in Seq(Key) /\ Len(t) = n + 1
      /\ \A j \in 1 .. i : t[j] = s[j]
      /\ t[i + 1] = k
      /\ \A j \in i + 1 .. n : t[j + 1] = s[j]
  <2>1. PutIn(Key, s, n, i, k, t)
    BY <1>1, InsertedAs
  <2> QED
    BY <2>1 DEF PutIn
<1>3. DOMAIN t = 1 .. n + 1
  BY <1>1, <1>2, Elements
<1>4. k \in Int /\ \A a \in 1 .. n : s[a] \in Int
  BY <1>1, KeyNumber
<1>5. /\ \A a \in 1 .. i : s[a] < k
      /\ \A a \in i + 1 .. n : k < s[a]
      /\ \A a, b \in 1 .. n : a < b => s[a] < s[b]
      /\ i \in 0 .. n
  BY <1>1 DEF Asc
<1> HIDE DEF n, t
<1>6. \A j \in 1 .. n + 1 : j \in 1 .. i \/ j = i + 1 \/ \E a \in i + 1 .. n : j = a + 1
  <2> SUFFICES ASSUME NEW j \in 1 .. n + 1, j \notin 1 .. i, j # i + 1
               PROVE  \E a \in i + 1 .. n : j = a + 1
    OBVIOUS
  <2>1. j - 1 \in i + 1 .. n /\ j = (j - 1) + 1
    BY <1>1, <1>5
  <2> QED
    BY <2>1
<1>7. /\ \A j \in 1 .. i : j \in 1 .. n /\ j \in 1 .. n + 1
      /\ i + 1 \in 1 .. n + 1
      /\ \A j \in i + 1 .. n : j \in 1 .. n /\ j + 1 \in 1 .. n + 1
      /\ \A j \in 1 .. n : j \in 1 .. i \/ j \in i + 1 .. n
  BY <1>1, <1>5
<1>8. ToSet(t) = ToSet(s) \cup {k}
  <2>1. ASSUME NEW e \in ToSet(t) PROVE e \in ToSet(s) \cup {k}
    <3>1. PICK j \in 1 .. n + 1 : t[j] = e
      BY <1>3, AtPlace
    <3>2. CASE j \in 1 .. i
      BY <1>1, <1>2, <1>7, <3>1, <3>2, AtPlace
    <3>3. CASE j = i + 1
      BY <1>2, <3>1, <3>3
    <3>4. CASE \E a \in i + 1 .. n : j = a + 1
      <4>1. PICK a \in i + 1 .. n : j = a + 1
        BY <3>4
      <4>2. a \in DOMAIN s /\ s[a] = e
        BY <1>1, <1>2, <1>7, <3>1, <4>1
      <4> QED
        BY <4>2, AtPlace
    <3> QED
      BY <1>6, <3>2, <3>3, <3>4
  <2>2. ASSUME NEW e \in ToSet(s) PROVE e \in ToSet(t)
    <3>1. PICK a \in 1 .. n : s[a] = e
      BY <1>1, AtPlace
    <3>2. CASE a \in 1 .. i
      BY <1>2, <1>3, <1>7, <3>1, <3>2, AtPlace
    <3>3. CASE a \in i + 1 .. n
      BY <1>2, <1>3, <1>7, <3>1, <3>3, AtPlace
    <3> QED
      BY <1>7, <3>2, <3>3
  <2>3. k \in ToSet(t)
    BY <1>2, <1>3, <1>7, AtPlace
  <2> QED
    BY <2>1, <2>2, <2>3
<1>9. Asc(t)
  <2> SUFFICES ASSUME NEW g \in 1 .. n + 1, NEW h \in 1 .. n + 1, g < h PROVE t[g] < t[h]
    BY <1>3 DEF Asc
  <2>0. (g \in 1 .. i \/ g = i + 1 \/ \E a \in i + 1 .. n : g = a + 1)
        /\ (h \in 1 .. i \/ h = i + 1 \/ \E a \in i + 1 .. n : h = a + 1)
    BY <1>6
  <2>1. CASE g \in 1 .. i /\ h \in 1 .. i
    BY <1>2, <1>5, <1>7, <2>1
  <2>2. CASE g \in 1 .. i /\ h = i + 1
    BY <1>2, <1>5, <2>2
  <2>3. CASE g \in 1 .. i /\ \E a \in i + 1 .. n : h = a + 1
    <3>1. PICK a \in i + 1 .. n : h = a + 1
      BY <2>3
    <3>2. g < a /\ g \in 1 .. n /\ a \in 1 .. n
      BY <1>5, <1>7, <2>3
    <3> QED
      BY <1>2, <1>5, <2>3, <3>1, <3>2
  <2>4. CASE g = i + 1 /\ \E a \in i + 1 .. n : h = a + 1
    BY <1>2, <1>5, <2>4
  <2>5. CASE (\E a \in i + 1 .. n : g = a + 1) /\ \E a \in i + 1 .. n : h = a + 1
    <3>1. PICK a \in i + 1 .. n, b \in i + 1 .. n : g = a + 1 /\ h = b + 1
      BY <2>5
    <3>2. a < b /\ a \in 1 .. n /\ b \in 1 .. n
      BY <1>5, <1>7, <3>1
    <3> QED
      BY <1>2, <1>5, <3>1, <3>2
  <2>6. ~ (g = i + 1 /\ h \in 1 .. i) /\ ~ (g = i + 1 /\ h = i + 1)
    BY <1>5
  <2>7. (\E a \in i + 1 .. n : g = a + 1) => h \notin 1 .. i /\ h # i + 1
    BY <1>5
  <2> QED
    BY <2>0, <2>1, <2>2, <2>3, <2>4, <2>5, <2>6, <2>7
<1>10. k \notin ToSet(s)
  <2> SUFFICES ASSUME k \in ToSet(s) PROVE FALSE
    OBVIOUS
  <2>1. PICK a \in 1 .. n : s[a] = k
    BY <1>1, AtPlace
  <2> QED
    BY <1>4, <1>5, <1>7, <2>1
<1> QED
  BY <1>2, <1>8, <1>9, <1>10 DEF Slotted, n, t

(* d with k in page q.                                                     *)
KeyPut(d, q, i, k) == [d EXCEPT ![q] = InsertAt(@, i + 1, k)]
Gains(d, k, e) ==
  /\ e \in Seq(Seq(Key)) /\ Len(e) = Len(d) /\ Ordered(e)
  /\ KeysOf(e) = KeysOf(d) \cup {k} /\ k \notin KeysOf(d)

(* A key put on the page it fits on leaves the tree in order and adds that *)
(* key.                                                                    *)
LEMMA PutGains ==
  ASSUME NEW d \in Seq(Seq(Key)), Ordered(d), NEW q, NEW i, NEW k, Fits(d, q, i, k)
  PROVE  Gains(d, k, KeyPut(d, q, i, k))
<1> DEFINE n == Len(d)
           s == d[q]
           t == InsertAt(s, i + 1, k)
           e == KeyPut(d, q, i, k)
<1>1. n \in Nat /\ DOMAIN d = 1 .. n /\ \A j \in 1 .. n : d[j] \in Seq(Key)
  BY Elements
<1>2. /\ q \in 1 .. n /\ i \in 0 .. Len(s) /\ k \in Key
      /\ \A j \in 1 .. n : j < q => Below(ToSet(d[j]), {k})
      /\ \A j \in 1 .. n : q < j => Below({k}, ToSet(d[j]))
      /\ \A a \in 1 .. i : s[a] < k
      /\ \A a \in i + 1 .. Len(s) : k < s[a]
  BY <1>1 DEF Fits
<1>3. s \in Seq(Key)
  BY <1>1, <1>2
<1>4. /\ \A j \in 1 .. n : Asc(d[j])
      /\ \A a, b \in 1 .. n : a < b => Below(ToSet(d[a]), ToSet(d[b]))
  BY <1>1 DEF Ordered
<1>5. Slotted(s, i, k, t)
  BY <1>2, <1>3, <1>4, Slot
<1>6. /\ t \in Seq(Key) /\ ToSet(t) = ToSet(s) \cup {k} /\ Asc(t) /\ k \notin ToSet(s)
  BY <1>5 DEF Slotted
<1>7. e = [d EXCEPT ![q] = t]
  BY DEF KeyPut
<1> HIDE DEF t, e, s, n
<1>8. e \in Seq(Seq(Key)) /\ Len(e) = n
  <2>1. d \in [1 .. n -> Seq(Key)]
    BY DEF n
  <2>2. e \in [1 .. n -> Seq(Key)]
    BY <1>1, <1>2, <1>6, <1>7, <2>1
  <2> QED
    BY <1>1, <2>2
<1>9. DOMAIN e = 1 .. n /\ e[q] = t /\ \A j \in 1 .. n : j # q => e[j] = d[j]
  BY <1>1, <1>2, <1>7
<1>10. d[q] = s
  BY DEF s
<1>11. Ordered(e)
  <2>1. \A j \in 1 .. n : Asc(e[j])
    BY <1>4, <1>6, <1>9
  <2>2. ASSUME NEW a \in 1 .. n, NEW b \in 1 .. n, a < b
        PROVE  Below(ToSet(e[a]), ToSet(e[b]))
    <3>0. Below(ToSet(d[a]), ToSet(d[b]))
      BY <1>4, <2>2
    <3>1. CASE a = q
      <4>0. q < b /\ b # q
        BY <1>1, <2>2, <3>1
      <4>1. b # q /\ Below({k}, ToSet(d[b]))
        BY <1>2, <4>0, Zenon
      <4> QED
        BY <1>6, <1>9, <1>10, <3>0, <3>1, <4>1 DEF Below
    <3>2. CASE b = q
      <4>0. a < q /\ a # q
        BY <1>1, <2>2, <3>2
      <4>1. a # q /\ Below(ToSet(d[a]), {k})
        BY <1>2, <4>0, Zenon
      <4> QED
        BY <1>6, <1>9, <1>10, <3>0, <3>2, <4>1 DEF Below
    <3> QED
      BY <1>9, <3>0, <3>1, <3>2
  <2> QED
    BY <1>9, <2>1, <2>2 DEF Ordered
<1>12. KeysOf(e) = KeysOf(d) \cup {k}
  <2>1. ASSUME NEW u \in KeysOf(e) PROVE u \in KeysOf(d) \cup {k}
    <3>1. PICK j \in 1 .. n : u \in ToSet(e[j])
      BY <1>9, KeyIn
    <3>2. CASE j = q
      BY <1>1, <1>2, <1>6, <1>9, <1>10, <3>1, <3>2, KeyIn
    <3>3. CASE j # q
      <4>1. j \in DOMAIN d /\ u \in ToSet(d[j])
        BY <1>1, <1>9, <3>1, <3>3
      <4> QED
        BY <4>1, KeyIn
    <3> QED
      BY <3>2, <3>3
  <2>2. ASSUME NEW u \in KeysOf(d) PROVE u \in KeysOf(e)
    <3>1. PICK j \in 1 .. n : u \in ToSet(d[j])
      BY <1>1, KeyIn
    <3>2. j \in DOMAIN e /\ u \in ToSet(e[j])
      BY <1>6, <1>9, <1>10, <3>1
    <3> QED
      BY <3>2, KeyIn
  <2>3. k \in KeysOf(e)
    BY <1>2, <1>6, <1>9, KeyIn
  <2> QED
    BY <2>1, <2>2, <2>3
<1>13. k \notin KeysOf(d)
  <2> SUFFICES ASSUME k \in KeysOf(d) PROVE FALSE
    OBVIOUS
  <2>1. PICK j \in 1 .. n : k \in ToSet(d[j])
    BY <1>1, KeyIn
  <2>2. k \in Int
    BY <1>2, BTreeAssumption DEF BTreeAssumption
  <2>3. j < q \/ j = q \/ j > q
    BY <1>1, <1>2
  <2> QED
    BY <1>2, <1>6, <1>10, <2>1, <2>2, <2>3 DEF Below
<1> QED
  BY <1>8, <1>11, <1>12, <1>13 DEF Gains, n, e

(* s without its value i, which is k.                                      *)
Plucked(s, k, t) ==
  /\ t \in Seq(Key) /\ Len(t) = Len(s) - 1 /\ ToSet(t) = ToSet(s) \ {k} /\ Asc(t)
  /\ k \in ToSet(s)

(* A key taken off a page leaves it in order and takes away that key.      *)
LEMMA Pluck ==
  ASSUME NEW s \in Seq(Key), Asc(s), NEW i \in 0 .. Len(s) - 1
  PROVE  Plucked(s, s[i + 1], RemoveAt(s, i + 1))
<1> DEFINE n == Len(s)
           t == RemoveAt(s, i + 1)
           o == i + 1
           k == s[o]
<1>1. n \in Nat /\ DOMAIN s = 1 .. n /\ \A a \in 1 .. n : s[a] \in Key
  BY Elements
<1>2. /\ t \in Seq(Key) /\ Len(t) = n - 1
      /\ \A j \in 1 .. i : t[j] = s[j]
      /\ \A j \in o .. n - 1 : t[j] = s[j + 1]
  <2>1. TakenOut(Key, s, n, i, t)
    BY <1>1, RemovedParts
  <2> QED
    BY <2>1 DEF TakenOut
<1>3. DOMAIN t = 1 .. n - 1
  BY <1>1, <1>2, Elements
<1>4. \A a \in 1 .. n : s[a] \in Int
  BY <1>1, KeyNumber
<1>5. /\ \A a, b \in 1 .. n : a < b => s[a] < s[b]
      /\ i \in 0 .. n - 1
  BY <1>1 DEF Asc
<1>6. o = i + 1 /\ o \in 1 .. n /\ k = s[o]
  BY <1>1, <1>5
<1> HIDE DEF n, t, o, k
<1> DEFINE at(j) == IF j < o THEN j ELSE j + 1
<1>7. ASSUME NEW j \in 1 .. n - 1 PROVE at(j) \in 1 .. n /\ at(j) # o /\ t[j] = s[at(j)]
  <2>1. CASE j < o
    <3>1. j \in 1 .. i /\ at(j) = j /\ j \in 1 .. n /\ j # o
      BY <1>1, <1>5, <1>6, <2>1
    <3> QED
      BY <1>2, <3>1
  <2>2. CASE ~ (j < o)
    <3>1. j \in o .. n - 1 /\ at(j) = j + 1 /\ j + 1 \in 1 .. n /\ j + 1 # o
      BY <1>1, <1>5, <1>6, <2>2
    <3> QED
      BY <1>2, <3>1
  <2> QED
    BY <2>1, <2>2
<1>8. \A g, h \in 1 .. n - 1 : g < h => at(g) < at(h)
  BY <1>1, <1>6
<1>9. \A a \in 1 .. n : a # o => \E j \in 1 .. n - 1 : at(j) = a
  <2> SUFFICES ASSUME NEW a \in 1 .. n, a # o PROVE \E j \in 1 .. n - 1 : at(j) = a
    OBVIOUS
  <2>1. CASE a < o
    <3>1. a \in 1 .. n - 1 /\ at(a) = a
      BY <1>1, <1>6, <2>1
    <3> QED
      BY <3>1
  <2>2. CASE a > o
    <3>1. a - 1 \in 1 .. n - 1 /\ at(a - 1) = a
      BY <1>1, <1>6, <2>2
    <3> QED
      BY <3>1
  <2> QED
    BY <1>6, <2>1, <2>2
<1> HIDE DEF at
<1>10. Asc(t)
  <2> SUFFICES ASSUME NEW g \in 1 .. n - 1, NEW h \in 1 .. n - 1, g < h PROVE t[g] < t[h]
    BY <1>3 DEF Asc
  <2> QED
    BY <1>5, <1>7, <1>8
<1>11. \A a \in 1 .. n : a # o => s[a] # k
  <2> SUFFICES ASSUME NEW a \in 1 .. n, a # o PROVE s[a] # s[o]
    BY <1>6
  <2>1. a < o \/ o < a
    BY <1>6
  <2>2. s[a] < s[o] \/ s[o] < s[a]
    BY <1>5, <1>6, <2>1
  <2> QED
    BY <1>4, <1>6, <2>2
<1>12. ToSet(t) = ToSet(s) \ {k}
  <2>1. ASSUME NEW e \in ToSet(t) PROVE e \in ToSet(s) \ {k}
    <3>1. PICK j \in 1 .. n - 1 : t[j] = e
      BY <1>3, AtPlace
    <3>2. at(j) \in DOMAIN s /\ s[at(j)] = e /\ e # k
      BY <1>1, <1>7, <1>11, <3>1
    <3> QED
      BY <3>2, AtPlace
  <2>2. ASSUME NEW e \in ToSet(s), e # k PROVE e \in ToSet(t)
    <3>1. PICK a \in 1 .. n : s[a] = e
      BY <1>1, AtPlace
    <3>2. a # o
      BY <1>6, <2>2, <3>1
    <3>3. PICK j \in 1 .. n - 1 : at(j) = a
      BY <1>9, <3>2
    <3>4. j \in DOMAIN t /\ t[j] = e
      BY <1>3, <1>7, <3>1, <3>3
    <3> QED
      BY <3>4, AtPlace
  <2> QED
    BY <2>1, <2>2
<1>13. k \in ToSet(s)
  BY <1>1, <1>6, AtPlace
<1> QED
  BY <1>2, <1>10, <1>12, <1>13 DEF Plucked, n, t, k, o

(* d without key i of page q.                                              *)
KeyCut(d, q, i) == [d EXCEPT ![q] = RemoveAt(@, i + 1)]
Loses(d, k, e) ==
  /\ e \in Seq(Seq(Key)) /\ Len(e) = Len(d) /\ Ordered(e)
  /\ KeysOf(e) = KeysOf(d) \ {k} /\ k \in KeysOf(d)

(* A key taken off a data page leaves the tree in order and takes away     *)
(* that key.                                                               *)
LEMMA CutLoses ==
  ASSUME NEW d \in Seq(Seq(Key)), Ordered(d), NEW q \in DOMAIN d, NEW i \in 0 .. Len(d[q]) - 1
  PROVE  Loses(d, d[q][i + 1], KeyCut(d, q, i))
<1> DEFINE n == Len(d)
           s == d[q]
           t == RemoveAt(s, i + 1)
           e == KeyCut(d, q, i)
           k == s[i + 1]
<1>1. n \in Nat /\ DOMAIN d = 1 .. n /\ \A j \in 1 .. n : d[j] \in Seq(Key)
  BY Elements
<1>2. q \in 1 .. n /\ i \in 0 .. Len(s) - 1
  BY <1>1
<1>3. s \in Seq(Key)
  BY <1>1, <1>2
<1>4. /\ \A j \in 1 .. n : Asc(d[j])
      /\ \A a, b \in 1 .. n : a < b => Below(ToSet(d[a]), ToSet(d[b]))
  BY <1>1 DEF Ordered
<1>5. Plucked(s, k, t)
  BY <1>2, <1>3, <1>4, Pluck
<1>6. /\ t \in Seq(Key) /\ ToSet(t) = ToSet(s) \ {k} /\ Asc(t) /\ k \in ToSet(s)
  BY <1>5 DEF Plucked
<1>7. e = [d EXCEPT ![q] = t]
  BY DEF KeyCut
<1> HIDE DEF t, e, s, n, k
<1>8. e \in Seq(Seq(Key)) /\ Len(e) = n
  <2>1. d \in [1 .. n -> Seq(Key)]
    BY DEF n
  <2>2. e \in [1 .. n -> Seq(Key)]
    BY <1>1, <1>2, <1>6, <1>7, <2>1
  <2> QED
    BY <1>1, <2>2
<1>9. DOMAIN e = 1 .. n /\ e[q] = t /\ \A j \in 1 .. n : j # q => e[j] = d[j]
  BY <1>1, <1>2, <1>7
<1>10. d[q] = s
  BY DEF s
<1>11. \A j \in 1 .. n : ToSet(e[j]) \subseteq ToSet(d[j])
  BY <1>6, <1>9, <1>10
<1>12. Ordered(e)
  <2>1. \A j \in 1 .. n : Asc(e[j])
    BY <1>4, <1>6, <1>9
  <2>2. ASSUME NEW a \in 1 .. n, NEW b \in 1 .. n, a < b
        PROVE  Below(ToSet(e[a]), ToSet(e[b]))
    <3>1. Below(ToSet(d[a]), ToSet(d[b]))
      BY <1>4, <2>2
    <3> QED
      BY <1>11, <3>1 DEF Below
  <2> QED
    BY <1>9, <2>1, <2>2 DEF Ordered
<1>13. \A j \in 1 .. n : j # q => k \notin ToSet(d[j])
  <2> SUFFICES ASSUME NEW j \in 1 .. n, j # q, k \in ToSet(d[j]) PROVE FALSE
    OBVIOUS
  <2>1. j < q \/ q < j
    BY <1>1, <1>2
  <2>2. k < k
    BY <1>2, <1>4, <1>6, <1>10, <2>1 DEF Below
  <2>3. k \in Int
    BY <1>3, <1>6, PageKeys
  <2> QED
    BY <2>2, <2>3
<1>14. KeysOf(e) = KeysOf(d) \ {k}
  <2>1. ASSUME NEW u \in KeysOf(e) PROVE u \in KeysOf(d) \ {k}
    <3>1. PICK j \in 1 .. n : u \in ToSet(e[j])
      BY <1>9, KeyIn
    <3>2. j \in DOMAIN d /\ u \in ToSet(d[j])
      BY <1>1, <1>11, <3>1
    <3>3. u # k
      BY <1>6, <1>9, <1>13, <3>1
    <3> QED
      BY <3>2, <3>3, KeyIn
  <2>2. ASSUME NEW u \in KeysOf(d), u # k PROVE u \in KeysOf(e)
    <3>1. PICK j \in 1 .. n : u \in ToSet(d[j])
      BY <1>1, KeyIn
    <3>2. j \in DOMAIN e /\ u \in ToSet(e[j])
      BY <1>6, <1>9, <1>10, <2>2, <3>1
    <3> QED
      BY <3>2, KeyIn
  <2> QED
    BY <2>1, <2>2
<1>15. k \in KeysOf(d)
  BY <1>1, <1>2, <1>6, <1>10, KeyIn
<1> QED
  BY <1>8, <1>12, <1>14, <1>15 DEF Loses, n, e, k, s

-----------------------------------------------------------------------------
(* The tree after the helpers of btree.go.                                 *)

(* What the fields of tree t are.                                          *)
Fields(t) == DOMAIN t = {"c", "r", "d", "x"}
Is(t, c, r, d, x) == Fields(t) /\ t.c = c /\ t.r = r /\ t.d = d /\ t.x = x

(* The data pages after mvL and after mvR.                                 *)
DealtLeft(d, l, r, n) ==
  [d EXCEPT ![l] = @ \o SubSeq(d[r], 1, n), ![r] = SubSeq(@, n + 1, Len(@))]
DealtRight(d, l, r, n) ==
  [d EXCEPT ![r] = SubSeq(d[l], Len(d[l]) - n + 1, Len(d[l])) \o @,
            ![l] = SubSeq(@, 1, Len(@) - n)]

(* The fields of the tree after mvL.                                       *)
LEMMA MvLParts ==
  ASSUME NEW t, Fields(t), NEW l, NEW r, NEW n
  PROVE  Is(MvL(t, l, r, n), t.c, t.r, DealtLeft(t.d, l, r, n), t.x)
  BY DEF MvL, Fields, Is, DealtLeft

(* The fields of the tree after mvR.                                       *)
LEMMA MvRParts ==
  ASSUME NEW t, Fields(t), NEW l, NEW r, NEW n
  PROVE  Is(MvR(t, l, r, n), t.c, t.r, DealtRight(t.d, l, r, n), t.x)
  BY DEF MvR, Fields, Is, DealtRight

(* The fields of the tree after insert.                                    *)
LEMMA InsertParts ==
  ASSUME NEW t, Fields(t), NEW q, NEW i, NEW k
  PROVE  Is(Insert(t, q, i, k), t.c + 1, t.r, KeyPut(t.d, q, i, k), t.x)
  BY DEF Insert, Fields, Is, KeyPut

(* The fields of the tree after extract.                                   *)
LEMMA ExtractParts ==
  ASSUME NEW t, Fields(t), NEW q, NEW i
  PROVE  Is(Extract(t, q, i), t.c - 1, t.r, KeyCut(t.d, q, i), t.x)
  BY DEF Extract, Fields, Is, KeyCut

(* The fields of the tree after the renumbering that a page linked in      *)
(* behind q causes.                                                        *)
LEMMA RenumberUp ==
  ASSUME NEW t, Fields(t), NEW q
  PROVE  Is(Renumber(t, LAMBDA n : IF n > q THEN n + 1 ELSE n),
            t.c, MovedUp(q, t.r), t.d, [n \in DOMAIN t.x |-> PageUp(q, t.x[n])])
  BY DEF Renumber, Fields, Is, MovedUp, PageUp, Up

(* s is u, its first n keys, with v behind it.                             *)
Parted(s, n, u, v) ==
  /\ u \in Seq(Key) /\ v \in Seq(Key) /\ s = u \o v
  /\ Len(u) = n /\ Len(v) = Len(s) - n
  /\ \A i \in 1 .. n : u[i] = s[i]
  /\ \A i \in 1 .. Len(s) - n : v[i] = s[n + i]

(* The two parts of a sequence make it up.                                 *)
LEMMA Parting ==
  ASSUME NEW s \in Seq(Key), NEW n \in 0 .. Len(s)
  PROVE  Parted(s, n, SubSeq(s, 1, n), SubSeq(s, n + 1, Len(s)))
<1> DEFINE k == Len(s)
           u == SubSeq(s, 1, n)
           v == SubSeq(s, n + 1, k)
<1>1. k \in Nat /\ \A i \in 1 .. k : s[i] \in Key
  BY Elements
<1>2. s = u \o v
  <2>1. 1 \in 1 .. Len(s) + 1 /\ n \in 1 - 1 .. Len(s) /\ Len(s) \in n .. Len(s)
    BY <1>1
  <2>2. u \o v = SubSeq(s, 1, Len(s))
    BY <2>1, ConcatAdjacentSubSeq
  <2> QED
    BY <2>2, SubSeqFull
<1>3. /\ u \in Seq(Key) /\ Len(u) = n
      /\ \A i \in 1 .. n : u[i] = s[i]
  BY <1>1, SubSeqProperties
<1>4. /\ v \in Seq(Key) /\ Len(v) = k - n
      /\ \A i \in 1 .. k - n : v[i] = s[n + i]
  <2> DEFINE o == n + 1
  <2>1. \A i \in o .. k : s[i] \in Key
    BY <1>1
  <2>2. o \in Int /\ k \in Int
    BY <1>1
  <2> HIDE DEF v, o, k
  <2>3. /\ SubSeq(s, o, k) \in Seq(Key)
        /\ Len(SubSeq(s, o, k)) = IF o <= k THEN k - o + 1 ELSE 0
        /\ \A i \in 1 .. k - o + 1 : SubSeq(s, o, k)[i] = s[o + i - 1]
    BY <2>1, <2>2, SubSeqProperties
  <2>4. v = SubSeq(s, o, k)
    BY DEF v, o
  <2>5. n \in 0 .. k
    BY DEF k
  <2>6. Len(v) = k - n
    BY <1>1, <2>3, <2>4, <2>5 DEF o
  <2>7. ASSUME NEW i \in 1 .. k - n PROVE v[i] = s[n + i]
    <3>1. i \in 1 .. k - o + 1 /\ o + i - 1 = n + i
      BY <1>1, <2>5 DEF o
    <3> QED
      BY <2>3, <2>4, <3>1
  <2> QED
    BY <2>3, <2>4, <2>6, <2>7
<1> QED
  BY <1>2, <1>3, <1>4 DEF Parted

(* A function on 1 .. n is a sequence.                                     *)
LEMMA FunctionSeq ==
  ASSUME NEW X, NEW n \in Nat, NEW f \in [1 .. n -> X]
  PROVE  f \in Seq(X) /\ Len(f) = n
  OBVIOUS

(* The order in which sequences are put together does not matter.          *)
Regroups(s, t, u) == (s \o t) \o u = s \o (t \o u)

(* Concatenation does not depend on the grouping.                          *)
LEMMA Regrouped ==
  ASSUME NEW s \in Seq(Key), NEW t \in Seq(Key), NEW u \in Seq(Key)
  PROVE  Regroups(s, t, u)
  BY ConcatAssociative DEF Regroups

(* Pages l and l + 1 of e hold s and t instead.                            *)
Deals(d, l, s, t, e) ==
  /\ Redealt(d, e, l) /\ e[l] = s /\ e[l + 1] = t
  /\ DOMAIN e = DOMAIN d
  /\ \A i \in DOMAIN d : i # l /\ i # l + 1 => e[i] = d[i]

(* Two neighbours that share their keys differently are redealt.           *)
LEMMA Dealing ==
  ASSUME NEW d \in Seq(Seq(Key)), NEW l \in 1 .. Len(d) - 1, NEW r, r = l + 1,
         NEW s \in Seq(Key), NEW t \in Seq(Key), d[l] \o d[r] = s \o t,
         NEW e, e = [d EXCEPT ![l] = s, ![r] = t] \/ e = [d EXCEPT ![r] = t, ![l] = s]
  PROVE  Deals(d, l, s, t, e)
<1> DEFINE n == Len(d)
<1>1. n \in Nat /\ DOMAIN d = 1 .. n /\ l \in 1 .. n - 1 /\ d \in [1 .. n -> Seq(Key)]
  BY Elements
<1>2. r \in 1 .. n /\ l \in 1 .. n /\ l # r
  BY <1>1
<1>3. e \in [1 .. n -> Seq(Key)]
  BY <1>1, <1>2
<1>4. e[l] = s /\ e[r] = t /\ \A i \in 1 .. n : i # l /\ i # r => e[i] = d[i]
  BY <1>1, <1>2
<1>5. e \in Seq(Seq(Key)) /\ Len(e) = n
  <2> HIDE DEF n
  <2> QED
    BY <1>1, <1>3, FunctionSeq, Zenon
<1> HIDE DEF n
<1>6. Redealt(d, e, l)
  BY <1>1, <1>4, <1>5 DEF Redealt, n
<1> QED
  BY <1>1, <1>3, <1>4, <1>6 DEF Deals

(* mvL of neighbours is such a change.                                     *)
LEMMA DealingLeft ==
  ASSUME NEW d \in Seq(Seq(Key)), NEW l \in 1 .. Len(d) - 1, NEW r, r = l + 1,
         NEW n \in 0 .. Len(d[r])
  PROVE  Deals(d, l, d[l] \o SubSeq(d[r], 1, n), SubSeq(d[r], n + 1, Len(d[r])), DealtLeft(d, l, r, n))
<1> DEFINE a == d[l]
           b == d[r]
           u == SubSeq(b, 1, n)
           v == SubSeq(b, n + 1, Len(b))
<1>1. a \in Seq(Key) /\ b \in Seq(Key) /\ l # r /\ l \in DOMAIN d /\ r \in DOMAIN d
  <2> DEFINE m == Len(d)
  <2>1. m \in Nat /\ DOMAIN d = 1 .. m /\ l \in 1 .. m - 1 /\ \A i \in 1 .. m : d[i] \in Seq(Key)
    BY Elements
  <2>2. l \in 1 .. m /\ r \in 1 .. m /\ l # r
    BY <2>1
  <2> QED
    BY <2>1, <2>2
<1>2. Parted(b, n, u, v)
  BY <1>1, Parting
<1>3. u \in Seq(Key) /\ v \in Seq(Key) /\ b = u \o v
  BY <1>2 DEF Parted
<1>4. DealtLeft(d, l, r, n) = [d EXCEPT ![l] = a \o u, ![r] = v]
  BY <1>1 DEF DealtLeft
<1> HIDE DEF u, v
<1>5. a \o b = (a \o u) \o v /\ a \o u \in Seq(Key)
  <2> HIDE DEF a, b
  <2>0. a \in Seq(Key) /\ u \in Seq(Key) /\ v \in Seq(Key)
    BY <1>1, <1>3
  <2>1. (a \o u) \o v = a \o (u \o v)
    BY <2>0, Regrouped, Zenon DEF Regroups
  <2>2. a \o u \in Seq(Key)
    BY <1>1, <1>3, ConcatProperties
  <2> QED
    BY <1>3, <2>1, <2>2, Zenon
<1>6. Deals(d, l, a \o u, v, [d EXCEPT ![l] = a \o u, ![r] = v])
  <2> DEFINE s == a \o u
  <2>1. s \in Seq(Key) /\ d[l] \o d[r] = s \o v
    BY <1>5
  <2> HIDE DEF s
  <2>2. Deals(d, l, s, v, [d EXCEPT ![l] = s, ![r] = v])
    BY <1>3, <2>1, Dealing
  <2> QED
    BY <2>2 DEF s
<1> QED
  BY <1>4, <1>6 DEF u, v

(* mvR of neighbours is such a change.                                     *)
LEMMA DealingRight ==
  ASSUME NEW d \in Seq(Seq(Key)), NEW l \in 1 .. Len(d) - 1, NEW r, r = l + 1,
         NEW n \in 0 .. Len(d[l]), NEW m, m = Len(d[l]) - n
  PROVE  Deals(d, l, SubSeq(d[l], 1, m), SubSeq(d[l], m + 1, Len(d[l])) \o d[r], DealtRight(d, l, r, n))
<1> DEFINE a == d[l]
           b == d[r]
           u == SubSeq(a, 1, m)
           v == SubSeq(a, m + 1, Len(a))
<1>1. /\ a \in Seq(Key) /\ b \in Seq(Key) /\ l # r /\ l \in DOMAIN d /\ r \in DOMAIN d
      /\ m \in 0 .. Len(a) /\ Len(a) - n + 1 = m + 1
  <2> DEFINE k == Len(d)
  <2>1. k \in Nat /\ DOMAIN d = 1 .. k /\ l \in 1 .. k - 1 /\ \A i \in 1 .. k : d[i] \in Seq(Key)
    BY Elements
  <2>2. l \in 1 .. k /\ r \in 1 .. k /\ l # r
    BY <2>1
  <2>3. a \in Seq(Key) /\ b \in Seq(Key)
    BY <2>1, <2>2
  <2>4. Len(a) \in Nat
    BY <2>3
  <2>5. m \in 0 .. Len(a) /\ Len(a) - n + 1 = m + 1
    BY <2>4
  <2> QED
    BY <2>1, <2>2, <2>3, <2>5
<1>2. Parted(a, m, u, v)
  BY <1>1, Parting
<1>3. u \in Seq(Key) /\ v \in Seq(Key) /\ a = u \o v
  BY <1>2 DEF Parted
<1>4. DealtRight(d, l, r, n) = [d EXCEPT ![r] = v \o b, ![l] = u]
  BY <1>1 DEF DealtRight
<1> HIDE DEF u, v
<1>5. a \o b = u \o (v \o b) /\ v \o b \in Seq(Key)
  <2> HIDE DEF a, b
  <2>0. b \in Seq(Key) /\ u \in Seq(Key) /\ v \in Seq(Key)
    BY <1>1, <1>3
  <2>1. (u \o v) \o b = u \o (v \o b)
    BY <2>0, Regrouped, Zenon DEF Regroups
  <2>2. v \o b \in Seq(Key)
    BY <1>1, <1>3, ConcatProperties
  <2> QED
    BY <1>3, <2>1, <2>2, Zenon
<1>6. Deals(d, l, u, v \o b, [d EXCEPT ![r] = v \o b, ![l] = u])
  <2> DEFINE s == v \o b
  <2>1. s \in Seq(Key) /\ d[l] \o d[r] = u \o s
    BY <1>5
  <2> HIDE DEF s
  <2>2. Deals(d, l, u, s, [d EXCEPT ![r] = s, ![l] = u])
    BY <1>3, <2>1, Dealing
  <2> QED
    BY <2>2 DEF s
<1> QED
  BY <1>4, <1>6 DEF u, v

(* Page q is split in two.                                                 *)
Halved(d, q, u, v) == SubSeq(d, 1, q - 1) \o <<u, v>> \o SubSeq(d, q + 1, Len(d))

(* e is d with page q split into u and v.                                  *)
Splits(d, q, u, v, e) ==
  /\ Halves(d, e, q) /\ e[q] = u /\ e[q + 1] = v
  /\ Len(e) = Len(d) + 1 /\ DOMAIN e = 1 .. Len(d) + 1

(* Putting the two parts of a page in its place halves it.                 *)
LEMMA Halving ==
  ASSUME NEW d \in Seq(Seq(Key)), NEW q \in 1 .. Len(d), NEW u \in Seq(Key), NEW v \in Seq(Key),
         d[q] = u \o v
  PROVE  Splits(d, q, u, v, Halved(d, q, u, v))
<1> DEFINE X == Seq(Key)
           n == Len(d)
           m == n - q
           o == q + 1
           h == q - 1
           a == SubSeq(d, 1, h)
           b == <<u, v>>
           c == SubSeq(d, o, n)
           ab == a \o b
           e == ab \o c
<1>1. n \in Nat /\ q \in 1 .. n /\ h \in Nat /\ m \in Nat /\ h + 2 = o /\ m = n - q /\ o = q + 1 /\ h = q - 1
  BY Elements
<1>0. d \in Seq(X) /\ \A i \in 1 .. n : d[i] \in X
  BY Elements
<1>2. Slice(X, d, 1, h, a)
  <2>1. 1 + h - 1 <= Len(d) /\ h = 1 + h - 1
    BY <1>1
  <2> HIDE DEF h, X
  <2> QED
    BY <1>0, <1>1, <2>1, Sliced
<1>3. Slice(X, d, o, m, c)
  <2>1. o + m - 1 <= n /\ n = o + m - 1 /\ o \in Nat \ {0} /\ m \in Nat
    BY <1>1
  <2>2. n = Len(d)
    OBVIOUS
  <2> HIDE DEF h, X, o, m, n
  <2> QED
    BY <1>0, <2>1, <2>2, Sliced
<1>4. b \in Seq(X) /\ Len(b) = 2 /\ b[1] = u /\ b[2] = v
  OBVIOUS
<1>5. /\ a \in Seq(X) /\ Len(a) = h
      /\ \A i \in 1 .. h : a[i] = d[i]
  BY <1>1, <1>2 DEF Slice
<1>6. /\ c \in Seq(X) /\ Len(c) = m
      /\ \A i \in 1 .. m : c[i] = d[q + i]
  <2>1. \A i \in 1 .. m : o + i - 1 = q + i
    BY <1>1
  <2> HIDE DEF m, o
  <2> QED
    BY <1>3, <2>1 DEF Slice
<1> HIDE DEF a, b, c, X, n, m, o, h
<1>7. Chain(X, a, h, b, 2, ab)
  BY <1>4, <1>5, Chained
<1>8. /\ ab \in Seq(X) /\ Len(ab) = o
      /\ \A i \in 1 .. h : ab[i] = d[i]
      /\ ab[h + 1] = u /\ ab[h + 2] = v
  <2>0. \A i \in 1 .. 2 : ab[h + i] = b[i]
    BY <1>7 DEF Chain
  <2>x. 1 \in 1 .. 2 /\ 2 \in 1 .. 2
    OBVIOUS
  <2>1. ab[h + 1] = b[1] /\ ab[h + 2] = b[2]
    BY <2>0, <2>x, Zenon
  <2> QED
    BY <1>1, <1>4, <1>5, <1>7, <2>1 DEF Chain
<1> HIDE DEF ab
<1>9. Chain(X, ab, o, c, m, e)
  BY <1>6, <1>8, Chained
<1>10. e = Halved(d, q, u, v)
  BY DEF Halved, ab, a, b, c, o, n, h
<1>11. /\ e \in Seq(X) /\ Len(e) = o + m
       /\ \A i \in 1 .. o : e[i] = ab[i]
       /\ \A i \in 1 .. m : e[o + i] = c[i]
  BY <1>9 DEF Chain
<1> HIDE DEF e
<1>12. Len(e) = n + 1
  BY <1>1, <1>11
<1>13. \A i \in 1 .. q - 1 : e[i] = d[i]
  <2>1. \A i \in 1 .. q - 1 : i \in 1 .. h /\ i \in 1 .. o
    BY <1>1
  <2> QED
    BY <1>8, <1>11, <2>1
<1>14. e[q] = u /\ e[o] = v
  <2>1. q \in 1 .. o /\ o \in 1 .. o /\ h + 1 = q
    BY <1>1
  <2> QED
    BY <1>1, <1>8, <1>11, <2>1
<1>15. \A i \in o .. n : e[i + 1] = d[i]
  <2> SUFFICES ASSUME NEW i \in o .. n PROVE e[i + 1] = d[i]
    OBVIOUS
  <2> DEFINE j == i - q
  <2>1. j \in 1 .. m /\ o + j = i + 1 /\ q + j = i
    BY <1>1
  <2> HIDE DEF j
  <2> QED
    BY <1>6, <1>11, <2>1
<1>16. Halves(d, e, q)
  BY <1>0, <1>1, <1>11, <1>12, <1>13, <1>14, <1>15 DEF Halves, X, n, o
<1>17. DOMAIN e = 1 .. n + 1
  BY <1>11, <1>12, Elements
<1> QED
  BY <1>10, <1>12, <1>14, <1>16, <1>17 DEF Splits, n, o

(* Page q + 1 goes into page q.                                            *)
Merged(d, q) == LET e == DealtLeft(d, q, q + 1, Len(d[q + 1]))
                IN  SubSeq(e, 1, q) \o SubSeq(e, q + 2, Len(e))

(* Merging two neighbours undoes a halving.                                *)
LEMMA Merging ==
  ASSUME NEW d \in Seq(Seq(Key)), NEW q \in 1 .. Len(d) - 1
  PROVE  Splits(Merged(d, q), q, d[q], d[q + 1], d)
<1> DEFINE X == Seq(Key)
           n == Len(d)
           r == q + 1
           o == q + 2
           m == n - r
           k == Len(d[r])
           e == DealtLeft(d, q, r, k)
           a == SubSeq(e, 1, q)
           c == SubSeq(e, o, n)
           f == a \o c
<1>1. n \in Nat /\ q \in 1 .. n - 1 /\ r = q + 1 /\ o = q + 2 /\ m \in Nat /\ m = n - r
  BY Elements
<1>2. r \in 1 .. n /\ q \in 1 .. n
  BY <1>1
<1>3. DOMAIN d = 1 .. n /\ d \in Seq(X) /\ \A i \in 1 .. n : d[i] \in X
  BY Elements
<1>4. k \in Nat /\ k = Len(d[r])
  BY <1>2, <1>3
<1>5. Deals(d, q, d[q] \o SubSeq(d[r], 1, k), SubSeq(d[r], k + 1, k), e)
  <2>1. k \in 0 .. Len(d[r]) /\ q \in 1 .. Len(d) - 1
    BY <1>4
  <2> HIDE DEF r, k, e
  <2>2. Deals(d, q, d[q] \o SubSeq(d[r], 1, k), SubSeq(d[r], k + 1, Len(d[r])), DealtLeft(d, q, r, k))
    BY <1>1, <2>1, DealingLeft
  <2> QED
    BY <1>4, <2>2 DEF e
<1>6. SubSeq(d[r], 1, k) = d[r]
  BY <1>2, <1>3, SubSeqFull
<1> HIDE DEF k, e, m, o, r
<1>7. /\ e \in Seq(X) /\ Len(e) = n /\ e[q] = d[q] \o d[r]
      /\ \A i \in 1 .. n : i # q /\ i # r => e[i] = d[i]
  <2>1. /\ e[q] = d[q] \o d[r]
        /\ \A i \in 1 .. n : i # q /\ i # r => e[i] = d[i]
    BY <1>3, <1>5, <1>6 DEF Deals, r
  <2>2. Redealt(d, e, q)
    BY <1>5 DEF Deals
  <2>3. e \in Seq(X) /\ Len(e) = n
    BY <2>2 DEF Redealt
  <2> QED
    BY <2>1, <2>3
<1>8. Slice(X, e, 1, q, a)
  <2>0. Len(e) = n
    BY <1>7
  <2> HIDE DEF X, n
  <2>1. 1 + q - 1 <= Len(e) /\ q = 1 + q - 1 /\ q \in Nat
    BY <1>1, <2>0
  <2> QED
    BY <1>7, <2>1, Sliced
<1>9. Slice(X, e, o, m, c)
  <2>0. Len(e) = n
    BY <1>7
  <2> HIDE DEF X, n
  <2>1. o + m - 1 <= Len(e) /\ n = o + m - 1 /\ o \in Nat \ {0} /\ m \in Nat
    BY <1>1, <2>0
  <2> QED
    BY <1>7, <2>1, Sliced
<1>10. /\ a \in Seq(X) /\ Len(a) = q
       /\ \A i \in 1 .. q : a[i] = e[i]
  <2>1. \A i \in 1 .. q : 1 + i - 1 = i
    BY <1>1
  <2> HIDE DEF a, X
  <2> QED
    BY <1>8, <2>1 DEF Slice
<1>11. /\ c \in Seq(X) /\ Len(c) = m
       /\ \A i \in 1 .. m : c[i] = e[r + i]
  <2>1. \A i \in 1 .. m : o + i - 1 = r + i
    BY <1>1
  <2> QED
    BY <1>9, <2>1 DEF Slice
<1> HIDE DEF a, c, X
<1>12. Chain(X, a, q, c, m, f)
  BY <1>10, <1>11, Chained
<1>13. f = Merged(d, q)
  BY <1>7 DEF Merged, a, c, e, r, k, o
<1>14. /\ f \in Seq(X) /\ Len(f) = q + m
       /\ \A i \in 1 .. q : f[i] = a[i]
       /\ \A i \in 1 .. m : f[q + i] = c[i]
  BY <1>12 DEF Chain
<1> HIDE DEF f
<1> DEFINE l == Len(f)
<1>15. l = n - 1 /\ n = l + 1 /\ q \in 1 .. l
  <2>1. l = q + m
    BY <1>14
  <2> HIDE DEF l, n
  <2> QED
    BY <1>1, <2>1
<1>16. ASSUME NEW i \in 1 .. q - 1 PROVE d[i] = f[i]
  <2>1. i \in 1 .. q /\ i \in 1 .. n /\ i # q /\ i # r
    BY <1>1
  <2> QED
    BY <1>7, <1>10, <1>14, <2>1
<1>17. f[q] = d[q] \o d[r]
  <2>1. q \in 1 .. q
    BY <1>1
  <2> QED
    BY <1>7, <1>10, <1>14, <2>1
<1>18. ASSUME NEW i \in r .. l PROVE d[i + 1] = f[i]
  <2> DEFINE j == i - q
  <2>1. j \in 1 .. m /\ q + j = i /\ r + j = i + 1
    BY <1>1, <1>15
  <2>2. i + 1 \in 1 .. n /\ i + 1 # q /\ i + 1 # r
    BY <1>1, <1>15
  <2> HIDE DEF j
  <2> QED
    BY <1>7, <1>11, <1>14, <2>1, <2>2
<1>19. Halves(f, d, q)
  BY <1>3, <1>14, <1>15, <1>16, <1>17, <1>18 DEF Halves, X, n, r
<1>20. Len(d) = l + 1 /\ DOMAIN d = 1 .. l + 1
  BY <1>3, <1>15 DEF n
<1> QED
  BY <1>13, <1>19, <1>20 DEF Splits

-----------------------------------------------------------------------------
(* Sound trees, and finding a page.                                        *)

(* The index pages of t are over its data pages, whose keys are in order   *)
(* and counted.                                                            *)
Sound(t, s) ==
  /\ Fields(t)
  /\ t.d \in Seq(Seq(Key)) /\ Len(t.d) >= 1 /\ Ordered(t.d)
  /\ Laid(Len(t.d), t.r, t.x, s)
  /\ IsFiniteSet(KeysOf(t.d)) /\ t.c = Cardinality(KeysOf(t.d))

(* Tree u is sound, with the keys of t, with k as well, and without k.     *)
Keeps(t, u, s) == Sound(u, s) /\ KeysOf(u.d) = KeysOf(t.d)
Adds(t, k, u, s) == Sound(u, s) /\ KeysOf(u.d) = KeysOf(t.d) \cup {k}
Drops(t, k, u, s) == Sound(u, s) /\ KeysOf(u.d) = KeysOf(t.d) \ {k}

(* A tree of the same keys under new index pages.                          *)
LEMMA SoundKept ==
  ASSUME NEW t, NEW s, Sound(t, s), NEW u, Fields(u), u.c = t.c,
         u.d \in Seq(Seq(Key)), Len(u.d) >= 1, Ordered(u.d), KeysOf(u.d) = KeysOf(t.d),
         NEW S, Laid(Len(u.d), u.r, u.x, S)
  PROVE  Keeps(t, u, S)
  BY DEF Keeps, Sound

(* Moving keys between neighbours keeps the tree sound.                    *)
LEMMA SoundDealt ==
  ASSUME NEW t, NEW s, Sound(t, s), NEW e, NEW l, Redealt(t.d, e, l),
         NEW u, Is(u, t.c, t.r, e, t.x)
  PROVE  Keeps(t, u, s)
<1>1. Fields(u) /\ u.c = t.c /\ u.r = t.r /\ u.d = e /\ u.x = t.x
  BY DEF Is
<1>2. e \in Seq(Seq(Key)) /\ Len(e) = Len(t.d)
  BY DEF Redealt
<1>3. Ordered(t.d) /\ Len(t.d) >= 1 /\ Laid(Len(t.d), t.r, t.x, s)
  BY DEF Sound
<1>4. KeysOf(e) = KeysOf(t.d) /\ Ordered(e)
  BY <1>3, RedealtKeys
<1> QED
  BY <1>1, <1>2, <1>3, <1>4, SoundKept

(* Inserting a key where it fits keeps the tree sound and adds the key.    *)
LEMMA SoundInsert ==
  ASSUME NEW t, NEW s, Sound(t, s), NEW q, NEW i, NEW k, Fits(t.d, q, i, k)
  PROVE  Adds(t, k, Insert(t, q, i, k), s)
<1> DEFINE u == Insert(t, q, i, k)
           e == KeyPut(t.d, q, i, k)
<1>1. /\ Fields(t) /\ t.d \in Seq(Seq(Key)) /\ Len(t.d) >= 1 /\ Ordered(t.d)
      /\ Laid(Len(t.d), t.r, t.x, s)
      /\ IsFiniteSet(KeysOf(t.d)) /\ t.c = Cardinality(KeysOf(t.d))
  BY DEF Sound
<1>2. Is(u, t.c + 1, t.r, e, t.x)
  BY <1>1, InsertParts
<1>3. Gains(t.d, k, e)
  BY <1>1, PutGains
<1> HIDE DEF u, e
<1>4. Fields(u) /\ u.c = t.c + 1 /\ u.r = t.r /\ u.d = e /\ u.x = t.x
  BY <1>2 DEF Is
<1>5. /\ e \in Seq(Seq(Key)) /\ Len(e) = Len(t.d) /\ Ordered(e)
      /\ KeysOf(e) = KeysOf(t.d) \cup {k} /\ k \notin KeysOf(t.d)
  BY <1>3 DEF Gains
<1> DEFINE K == KeysOf(t.d)
<1>6. IsFiniteSet(K) /\ k \notin K
  BY <1>1, <1>5
<1> HIDE DEF K
<1>7. IsFiniteSet(K \cup {k}) /\ Cardinality(K \cup {k}) = Cardinality(K) + 1
  BY <1>6, FS_AddElement
<1>8. Sound(u, s)
  BY <1>1, <1>4, <1>5, <1>7 DEF Sound, K
<1> QED
  BY <1>4, <1>5, <1>8 DEF Adds, u

(* Extracting a key keeps the tree sound and takes the key away.           *)
LEMMA SoundExtract ==
  ASSUME NEW t, NEW s, Sound(t, s), NEW q \in DOMAIN t.d, NEW i \in 0 .. Len(t.d[q]) - 1
  PROVE  Drops(t, t.d[q][i + 1], Extract(t, q, i), s)
<1> DEFINE u == Extract(t, q, i)
           e == KeyCut(t.d, q, i)
           k == t.d[q][i + 1]
<1>1. /\ Fields(t) /\ t.d \in Seq(Seq(Key)) /\ Len(t.d) >= 1 /\ Ordered(t.d)
      /\ Laid(Len(t.d), t.r, t.x, s)
      /\ IsFiniteSet(KeysOf(t.d)) /\ t.c = Cardinality(KeysOf(t.d))
  BY DEF Sound
<1>2. Is(u, t.c - 1, t.r, e, t.x)
  BY <1>1, ExtractParts
<1>3. Loses(t.d, k, e)
  BY <1>1, CutLoses
<1> HIDE DEF u, e, k
<1>4. Fields(u) /\ u.c = t.c - 1 /\ u.r = t.r /\ u.d = e /\ u.x = t.x
  BY <1>2 DEF Is
<1>5. /\ e \in Seq(Seq(Key)) /\ Len(e) = Len(t.d) /\ Ordered(e)
      /\ KeysOf(e) = KeysOf(t.d) \ {k} /\ k \in KeysOf(t.d)
  BY <1>3 DEF Loses
<1> DEFINE K == KeysOf(t.d)
<1>6. IsFiniteSet(K) /\ k \in K
  BY <1>1, <1>5
<1> HIDE DEF K
<1>7. IsFiniteSet(K \ {k}) /\ Cardinality(K \ {k}) = Cardinality(K) - 1
  BY <1>6, FS_RemoveElement
<1>8. Sound(u, s)
  BY <1>1, <1>4, <1>5, <1>7 DEF Sound, K
<1> QED
  BY <1>4, <1>5, <1>8 DEF Drops, u, k

-----------------------------------------------------------------------------
(* The search for a key from the root.                                     *)

(* No page is too full, and none but the root is too empty.                *)
FullData(d, r) == \A j \in DOMAIN d : Len(d[j]) \in 1 .. 2 * kd /\ (Len(d[j]) >= kd \/ r = Data(j))
FullIndex(x, r) ==
  \A m \in DOMAIN x : Len(x[m].sep) \in 1 .. 2 * kx + 1 /\ (Len(x[m].sep) >= kx - 1 \/ r = Index(m))

(* f is the place of k among the keys of page q.                           *)
Located(t, q, k, f) ==
  LET n == Count(t, q) IN
  /\ n \in Nat /\ f.i \in 0 .. n /\ f.ok \in BOOLEAN
  /\ f.ok => f.i < n /\ KeyAt(t, q, f.i) = k
  /\ ~ f.ok => (f.i < n => k < KeyAt(t, q, f.i))
  /\ \A m \in 0 .. f.i - 1 : KeyAt(t, q, m) < k
  /\ \A m \in f.i + 1 .. n - 1 : k < KeyAt(t, q, m)

(* Find, for ascending keys of a page, in terms of KeyAt.                  *)
LEMMA Locating ==
  ASSUME NEW t, NEW q, NEW k \in Key, Count(t, q) \in Nat,
         \A m \in 0 .. Count(t, q) - 1 : KeyAt(t, q, m) \in Int,
         \A l, m \in 0 .. Count(t, q) - 1 : l < m => KeyAt(t, q, l) < KeyAt(t, q, m)
  PROVE  Located(t, q, k, Find(t, q, k))
<1> DEFINE n == Count(t, q)
           a == [m \in 0 .. n - 1 |-> KeyAt(t, q, m)]
           f == Find(t, q, k)
<1>1. n \in Nat /\ k \in Int /\ n = Count(t, q)
  BY KeyNumber
<1>2. a \in [0 .. n - 1 -> Int] /\ \A m \in 0 .. n - 1 : KeyAt(t, q, m) = a[m]
  OBVIOUS
<1>3. \A l, m \in 0 .. n - 1 : l < m => a[l] < a[m]
  OBVIOUS
<1> HIDE DEF a, n
<1>4. Answers(n, a, k, f)
  BY <1>1, <1>2, <1>3, FindAnswers
<1> HIDE DEF f
<1>5. /\ f.i \in 0 .. n /\ f.ok \in BOOLEAN
      /\ f.ok => f.i < n /\ a[f.i] = k
      /\ ~ f.ok => /\ \A m \in 0 .. f.i - 1 : a[m] < k
                   /\ \A m \in f.i .. n - 1 : k < a[m]
  BY <1>4 DEF Answers
<1> DEFINE i == f.i
<1>6. i \in 0 .. n
  BY <1>5
<1> HIDE DEF i
<1>7. /\ \A m \in 0 .. i - 1 : m \in 0 .. n - 1 /\ m < i
      /\ \A m \in i + 1 .. n - 1 : m \in 0 .. n - 1 /\ m \in i .. n - 1 /\ i < m
      /\ i < n => i \in 0 .. n - 1 /\ i \in i .. n - 1
  BY <1>1, <1>6
<1>8. ASSUME f.ok PROVE Located(t, q, k, f)
  <2>1. i < n /\ a[i] = k
    BY <1>5, <1>8 DEF i
  <2>2. /\ \A m \in 0 .. i - 1 : a[m] < k
        /\ \A m \in i + 1 .. n - 1 : k < a[m]
    BY <1>3, <1>7, <2>1
  <2>3. KeyAt(t, q, i) = k
    BY <1>2, <1>7, <2>1
  <2>4. /\ \A m \in 0 .. i - 1 : KeyAt(t, q, m) < k
        /\ \A m \in i + 1 .. n - 1 : k < KeyAt(t, q, m)
    BY <1>2, <1>7, <2>2
  <2>5. n \in Nat /\ i \in 0 .. n /\ f.ok \in BOOLEAN
    BY <1>1, <1>5, <1>6
  <2>6. (f.ok => i < n /\ KeyAt(t, q, i) = k) /\ (~ f.ok => (i < n => k < KeyAt(t, q, i)))
    BY <1>8, <2>1, <2>3, Zenon
  <2> QED
    BY <2>4, <2>5, <2>6, Zenon DEF Located, i, n
<1>9. ASSUME ~ f.ok PROVE Located(t, q, k, f)
  <2>1. /\ \A m \in 0 .. i - 1 : a[m] < k
        /\ \A m \in i .. n - 1 : k < a[m]
    BY <1>5, <1>9 DEF i
  <2>2. /\ \A m \in 0 .. i - 1 : KeyAt(t, q, m) < k
        /\ \A m \in i + 1 .. n - 1 : k < KeyAt(t, q, m)
    BY <1>2, <1>7, <2>1
  <2>3. i < n => k < KeyAt(t, q, i)
    BY <1>2, <1>7, <2>1
  <2>5. n \in Nat /\ i \in 0 .. n /\ f.ok \in BOOLEAN
    BY <1>1, <1>5, <1>6
  <2>6. (f.ok => i < n /\ KeyAt(t, q, i) = k) /\ (~ f.ok => (i < n => k < KeyAt(t, q, i)))
    BY <1>9, <2>3, Zenon
  <2> QED
    BY <2>2, <2>5, <2>6, Zenon DEF Located, i, n
<1>10. Located(t, q, k, f)
  BY <1>8, <1>9, Zenon
<1> QED
  BY <1>10 DEF f

(* The keys of a data page, and the first keys under the separators of an  *)
(* index page, are in order.                                               *)
LEMMA PagesAscend ==
  ASSUME NEW t, NEW s, Sound(t, s), FullData(t.d, t.r), NEW q \in PagesOf(Len(t.d), t.x)
  PROVE  /\ Count(t, q) \in Nat
         /\ \A m \in 0 .. Count(t, q) - 1 : KeyAt(t, q, m) \in Int
         /\ \A l, m \in 0 .. Count(t, q) - 1 : l < m => KeyAt(t, q, l) < KeyAt(t, q, m)
<1> DEFINE d == t.d
           x == t.x
           n == Len(d)
<1>1. d \in Seq(Seq(Key)) /\ Ordered(d) /\ Laid(n, t.r, x, s)
  BY DEF Sound
<1>2. n \in Nat /\ DOMAIN d = 1 .. n /\ \A j \in 1 .. n : d[j] \in Seq(Key)
  BY <1>1, Elements
<1>3. /\ \A j \in 1 .. n : Asc(d[j])
      /\ \A i, j \in 1 .. n : i < j => Below(ToSet(d[i]), ToSet(d[j]))
  BY <1>1, <1>2 DEF Ordered
<1>4. CASE q.at = "d"
  <2> DEFINE p == d[q.no]
             k == Len(p)
  <2>1. q.no \in 1 .. n /\ q.at # "x"
    BY <1>4, PointerKinds
  <2>2. p \in Seq(Key) /\ Asc(p)
    BY <1>2, <1>3, <2>1
  <2>3. Count(t, q) = k /\ \A m \in 0 .. k - 1 : KeyAt(t, q, m) = p[m + 1]
    BY <2>1 DEF Count, KeyAt
  <2> HIDE DEF p
  <2>4. k \in Nat /\ DOMAIN p = 1 .. k /\ \A i \in 1 .. k : p[i] \in Key
    BY <2>2, Elements
  <2> HIDE DEF k
  <2>5. \A m \in 0 .. k - 1 : m + 1 \in 1 .. k
    BY <2>4
  <2>6. \A m \in 0 .. k - 1 : KeyAt(t, q, m) \in Int
    BY <2>3, <2>4, <2>5, KeyNumber
  <2>7. ASSUME NEW l \in 0 .. k - 1, NEW m \in 0 .. k - 1, l < m
        PROVE  KeyAt(t, q, l) < KeyAt(t, q, m)
    <3>1. p[l + 1] < p[m + 1]
      <4>1. l + 1 < m + 1
        BY <2>4, <2>7
      <4> QED
        BY <2>2, <2>4, <2>5, <4>1 DEF Asc
    <3> QED
      BY <2>3, <3>1
  <2> QED
    BY <2>3, <2>4, <2>6, <2>7
<1>5. CASE q.at = "x"
  <2> DEFINE p == x[q.no]
             k == Len(p.sep)
  <2>1. q.no \in DOMAIN x
    BY <1>5, PointerKinds, Zenon DEF Data, Index
  <2>2. /\ k \in Nat
        /\ \A i \in 1 .. k : p.sep[i] \in 1 .. n
        /\ \A i, j \in 1 .. k : i < j => p.sep[i] < p.sep[j]
    <3> DEFINE m == q.no
    <3>0. m \in DOMAIN x
      BY <2>1
    <3> HIDE DEF m, n, x, d
    <3>1. k \in Nat /\ \A i \in 1 .. k : p.sep[i] \in 1 .. n
      BY <1>1, <3>0, PageType DEF m
    <3>2. \A i, j \in 1 .. k : i < j => p.sep[i] < p.sep[j]
      BY <1>1, <3>0, SepsInOrder DEF m
    <3> QED
      BY <3>1, <3>2
  <2>3. Count(t, q) = k /\ \A m \in 0 .. k - 1 : KeyAt(t, q, m) = d[p.sep[m + 1]][1]
    BY <1>5 DEF Count, KeyAt
  <2> HIDE DEF p, k
  <2>4. \A j \in 1 .. n : 1 \in DOMAIN d[j]
    <3> SUFFICES ASSUME NEW j \in 1 .. n PROVE 1 \in DOMAIN d[j]
      OBVIOUS
    <3> DEFINE w == Len(d[j])
    <3>1. w \in 1 .. 2 * kd
      BY <1>2 DEF FullData
    <3>2. DOMAIN d[j] = 1 .. w
      BY <1>2, Elements
    <3> HIDE DEF w
    <3> QED
      BY <3>1, <3>2
  <2>5. \A j \in 1 .. n : d[j][1] \in ToSet(d[j])
    BY <2>4, AtPlace
  <2>6. \A j \in 1 .. n : d[j][1] \in Int
    BY <1>2, <2>5, PageKeys
  <2>7. \A i, j \in 1 .. n : i < j => d[i][1] < d[j][1]
    BY <1>3, <2>5 DEF Below
  <2>8. \A m \in 0 .. k - 1 : m + 1 \in 1 .. k
    BY <2>2
  <2>9. \A m \in 0 .. k - 1 : KeyAt(t, q, m) \in Int
    BY <2>2, <2>3, <2>6, <2>8
  <2>10. ASSUME NEW l \in 0 .. k - 1, NEW m \in 0 .. k - 1, l < m
         PROVE  KeyAt(t, q, l) < KeyAt(t, q, m)
    <3>1. l + 1 < m + 1
      BY <2>2, <2>10
    <3>2. p.sep[l + 1] < p.sep[m + 1]
      BY <2>2, <2>8, <3>1
    <3> QED
      BY <2>2, <2>3, <2>7, <2>8, <3>2
  <2> QED
    BY <2>2, <2>3, <2>9, <2>10
<1> QED
  BY <1>4, <1>5, PointerKinds

(* Find finds the place of a key on any page of a sound tree.              *)
LEMMA FindPlace ==
  ASSUME NEW t, NEW s, Sound(t, s), FullData(t.d, t.r), NEW q \in PagesOf(Len(t.d), t.x), NEW k \in Key
  PROVE  Located(t, q, k, Find(t, q, k))
  BY PagesAscend, Locating

(* The first key of a page is the least of it, and above all before it.    *)
Firsts(d) ==
  /\ \A j \in DOMAIN d : d[j][1] \in ToSet(d[j]) /\ d[j][1] \in Int
  /\ \A j \in DOMAIN d : \A u \in ToSet(d[j]) : u \in Int /\ d[j][1] <= u
  /\ \A i, j \in DOMAIN d : i < j => \A u \in ToSet(d[i]) : u < d[j][1]

(* The first keys of the data pages, with which separators are compared,   *)
(* bound what is on the pages.                                             *)
LEMMA FirstKeys ==
  ASSUME NEW d \in Seq(Seq(Key)), Ordered(d), \A j \in DOMAIN d : Len(d[j]) >= 1
  PROVE  Firsts(d)
<1> DEFINE n == Len(d)
<1>1. n \in Nat /\ DOMAIN d = 1 .. n /\ \A j \in 1 .. n : d[j] \in Seq(Key)
  BY Elements
<1>2. /\ \A j \in 1 .. n : Asc(d[j])
      /\ \A i, j \in 1 .. n : i < j => Below(ToSet(d[i]), ToSet(d[j]))
  BY <1>1 DEF Ordered
<1> HIDE DEF n
<1>3. ASSUME NEW j \in 1 .. n
      PROVE  /\ d[j][1] \in ToSet(d[j]) /\ d[j][1] \in Int
             /\ \A u \in ToSet(d[j]) : u \in Int /\ d[j][1] <= u
  <2> DEFINE p == d[j]
             w == Len(p)
  <2>1. w >= 1 /\ p \in Seq(Key) /\ Asc(p)
    BY <1>1, <1>2
  <2>2. w \in Nat /\ DOMAIN p = 1 .. w
    BY <2>1, Elements
  <2>3. \A u \in ToSet(p) : u \in Int
    BY <2>1, PageKeys
  <2> HIDE DEF p, w
  <2>4. 1 \in DOMAIN p
    BY <2>1, <2>2
  <2>5. p[1] \in ToSet(p)
    BY <2>4, AtPlace
  <2>6. ASSUME NEW u \in ToSet(p) PROVE p[1] <= u
    <3>1. PICK a \in DOMAIN p : p[a] = u
      BY AtPlace
    <3>2. a = 1 \/ 1 < a
      BY <2>2
    <3>3. p[1] \in Int /\ u \in Int
      BY <2>3, <2>5
    <3>4. CASE a = 1
      BY <3>1, <3>3, <3>4
    <3>5. CASE 1 < a
      <4>1. p[1] < p[a]
        BY <2>1, <2>4, <3>5 DEF Asc
      <4> QED
        BY <3>1, <3>3, <4>1
    <3> QED
      BY <3>2, <3>4, <3>5
  <2> QED
    BY <2>3, <2>5, <2>6 DEF p
<1>4. ASSUME NEW i \in 1 .. n, NEW j \in 1 .. n, i < j, NEW u \in ToSet(d[i])
      PROVE  u < d[j][1]
  BY <1>2, <1>3, <1>4 DEF Below
<1> QED
  BY <1>1, <1>3, <1>4 DEF Firsts

(* They do so in a sound tree whose pages are not empty.                   *)
LEMMA SoundFirsts ==
  ASSUME NEW t, NEW s, Sound(t, s), FullData(t.d, t.r)
  PROVE  Firsts(t.d)
<1>1. t.d \in Seq(Seq(Key)) /\ Ordered(t.d)
  BY DEF Sound
<1>2. ASSUME NEW j \in DOMAIN t.d PROVE Len(t.d[j]) >= 1
  <2> DEFINE w == Len(t.d[j])
  <2>1. w \in 1 .. 2 * kd
    BY DEF FullData
  <2> HIDE DEF w
  <2> QED
    BY <2>1 DEF w
<1> QED
  BY <1>1, <1>2, FirstKeys

(* Key k belongs under page q, if anywhere.                                *)
Bracket(d, s, q, k) ==
  /\ From(s, q) > 1 => d[From(s, q)][1] <= k
  /\ To(s, q) < Len(d) => k < d[To(s, q) + 1][1]

(* A key that belongs on page q and is not there fits at the place of      *)
(* Find.                                                                   *)
LEMMA FitsHere ==
  ASSUME NEW t, NEW s, Sound(t, s), FullData(t.d, t.r), NEW q \in 1 .. Len(t.d),
         NEW k \in Key, Bracket(t.d, s, Data(q), k), NEW f, Located(t, Data(q), k, f), ~ f.ok
  PROVE  Fits(t.d, q, f.i, k)
<1> DEFINE d == t.d
           n == Len(d)
           p == d[q]
           w == Len(p)
           i == f.i
<1>1. d \in Seq(Seq(Key)) /\ Firsts(d)
  BY SoundFirsts DEF Sound
<1>2. n \in Nat /\ DOMAIN d = 1 .. n /\ \A j \in 1 .. n : d[j] \in Seq(Key)
  BY <1>1, Elements
<1>3. Data(q).at # "x" /\ Data(q).no = q /\ From(s, Data(q)) = q /\ To(s, Data(q)) = q
  BY DEF Data, From, To
<1>4. Count(t, Data(q)) = w /\ \A m \in Int : KeyAt(t, Data(q), m) = p[m + 1]
  BY <1>3 DEF Count, KeyAt
<1>5. /\ w \in Nat /\ i \in 0 .. w
      /\ i < w => k < p[i + 1]
      /\ \A m \in 0 .. i - 1 : p[m + 1] < k
      /\ \A m \in i + 1 .. w - 1 : k < p[m + 1]
  <2>1. /\ w \in Nat /\ i \in 0 .. w
        /\ ~ f.ok => (i < w => k < KeyAt(t, Data(q), i))
        /\ \A m \in 0 .. i - 1 : KeyAt(t, Data(q), m) < k
        /\ \A m \in i + 1 .. w - 1 : k < KeyAt(t, Data(q), m)
    BY <1>4, Zenon DEF Located
  <2>2. i < w => k < KeyAt(t, Data(q), i)
    BY <2>1, Zenon
  <2>3. w \in Nat /\ i \in 0 .. w
    BY <2>1
  <2> HIDE DEF i, w, p
  <2>4. i \in Int /\ (\A m \in 0 .. i - 1 : m \in Int) /\ (\A m \in i + 1 .. w - 1 : m \in Int)
    BY <2>3
  <2> QED
    BY <1>4, <2>1, <2>2, <2>3, <2>4
<1>6. /\ q > 1 => d[q][1] <= k
      /\ q < n => k < d[q + 1][1]
  BY <1>3 DEF Bracket
<1>7. /\ \A j \in 1 .. n : d[j][1] \in ToSet(d[j]) /\ d[j][1] \in Int
      /\ \A j \in 1 .. n : \A u \in ToSet(d[j]) : u \in Int /\ d[j][1] <= u
      /\ \A a, b \in 1 .. n : a < b => \A u \in ToSet(d[a]) : u < d[b][1]
  BY <1>1, <1>2 DEF Firsts
<1>8. k \in Int
  BY KeyNumber
<1>9. q \in 1 .. n
  OBVIOUS
<1> HIDE DEF d, n, p, w, i
<1>10. ASSUME NEW j \in 1 .. n, j < q PROVE Below(ToSet(d[j]), {k})
  <2>1. q > 1
    BY <1>2, <1>9, <1>10
  <2>2. ASSUME NEW u \in ToSet(d[j]) PROVE u < k
    <3>1. u < d[q][1] /\ u \in Int /\ d[q][1] \in Int /\ d[q][1] <= k
      BY <1>6, <1>7, <1>9, <1>10, <2>1
    <3> QED
      BY <1>8, <3>1
  <2> QED
    BY <2>2 DEF Below
<1>11. ASSUME NEW j \in 1 .. n, q < j PROVE Below({k}, ToSet(d[j]))
  <2> DEFINE o == q + 1
  <2>1. q < n /\ o \in 1 .. n /\ (o = j \/ o < j)
    BY <1>2, <1>9, <1>11
  <2>2. k < d[o][1]
    BY <1>6, <2>1
  <2> HIDE DEF o
  <2>3. d[o][1] \in Int /\ d[j][1] \in Int /\ d[o][1] \in ToSet(d[o])
    BY <1>7, <2>1
  <2>4. d[o][1] <= d[j][1]
    <3>1. CASE o = j
      BY <2>3, <3>1
    <3>2. CASE o < j
      <4>1. d[o][1] < d[j][1]
        BY <1>7, <2>1, <2>3, <3>2
      <4> QED
        BY <2>3, <4>1
    <3> QED
      BY <2>1, <3>1, <3>2
  <2>5. ASSUME NEW u \in ToSet(d[j]) PROVE k < u
    <3>1. u \in Int /\ d[j][1] <= u
      BY <1>7
    <3> QED
      BY <1>8, <2>2, <2>3, <2>4, <3>1
  <2> QED
    BY <2>5 DEF Below
<1>12. ASSUME NEW a \in 1 .. i PROVE p[a] < k
  <2> DEFINE m == a - 1
  <2>1. m \in 0 .. i - 1 /\ m + 1 = a
    BY <1>5
  <2> HIDE DEF m
  <2> QED
    BY <1>5, <2>1
<1>13. ASSUME NEW a \in i + 1 .. w PROVE k < p[a]
  <2> DEFINE m == a - 1
  <2>1. m + 1 = a /\ ((m = i /\ i < w) \/ m \in i + 1 .. w - 1)
    BY <1>5
  <2> HIDE DEF m
  <2> QED
    BY <1>5, <2>1
<1> QED
  BY <1>2, <1>5, <1>9, <1>10, <1>11, <1>12, <1>13 DEF Fits, d, p, w, i, n

(* The child that the search goes on at.                                   *)
LEMMA ChildBracket ==
  ASSUME NEW n, NEW r, NEW x, NEW s, Laid(n, r, x, s), NEW d, n = Len(d), NEW m \in DOMAIN x,
         NEW k, Bracket(d, s, Index(m), k), NEW h \in 0 .. Len(x[m].sep),
         h >= 1 => d[x[m].sep[h]][1] <= k,
         h < Len(x[m].sep) => k < d[x[m].sep[h + 1]][1]
  PROVE  Bracket(d, s, x[m].ch[h + 1], k)
<1> DEFINE l == Len(x[m].sep)
           o == h + 1
           c == x[m].ch[o]
           sep == x[m].sep
<1>1. l \in Nat /\ h \in 0 .. l /\ Len(x[m].ch) = l + 1
  BY PageType
<1>2. /\ From(s, x[m].ch[1]) = s[m].lo /\ To(s, x[m].ch[Len(x[m].ch)]) = s[m].hi
      /\ \A i \in 1 .. l : sep[i] = From(s, x[m].ch[i + 1]) /\ sep[i] = To(s, x[m].ch[i]) + 1
  BY DEF Laid, Kids
<1>3. /\ s[m].lo > 1 => d[s[m].lo][1] <= k
      /\ s[m].hi < n => k < d[s[m].hi + 1][1]
  BY DEF Bracket, From, To, Index
<1>4. From(s, c) > 1 => d[From(s, c)][1] <= k
  <2>1. CASE h = 0
    <3>1. From(s, c) = s[m].lo
      BY <1>2, <2>1
    <3> QED
      BY <1>3, <3>1
  <2>2. CASE h >= 1
    <3>1. h \in 1 .. l
      BY <1>1, <2>2
    <3>2. From(s, c) = sep[h] /\ d[sep[h]][1] <= k
      BY <1>2, <2>2, <3>1
    <3> QED
      BY <3>2
  <2> QED
    BY <1>1, <2>1, <2>2
<1>5. To(s, c) < n => k < d[To(s, c) + 1][1]
  <2>1. CASE h = l
    <3>1. To(s, c) = s[m].hi
      BY <1>1, <1>2, <2>1
    <3> QED
      BY <1>3, <3>1
  <2>2. CASE h < l
    <3>1. o \in 1 .. l
      BY <1>1, <2>2
    <3>2. sep[o] = To(s, c) + 1 /\ k < d[sep[o]][1]
      BY <1>2, <2>2, <3>1
    <3> QED
      BY <3>2
  <2> QED
    BY <1>1, <2>1, <2>2
<1> QED
  BY <1>4, <1>5 DEF Bracket

-----------------------------------------------------------------------------
(* Overflow: from a full data page to its siblings.                        *)

(* The two halves of page q of d, in e.                                    *)
HalvesAt(d, e, q, n, m) ==
  /\ q \in 1 .. n /\ n \in Nat /\ m \in Nat /\ q + 1 \in 1 .. n + 1
  /\ DOMAIN d = 1 .. n /\ DOMAIN e = 1 .. n + 1
  /\ Len(e[q]) = m /\ Len(e[q + 1]) \in Nat /\ Len(d[q]) = m + Len(e[q + 1])
  /\ \A a \in 1 .. m : d[q][a] = e[q][a]
  /\ \A a \in 1 .. Len(e[q + 1]) : d[q][m + a] = e[q + 1][a]
  /\ DOMAIN e[q] = 1 .. m /\ DOMAIN e[q + 1] = 1 .. Len(e[q + 1])
  /\ \A i \in 1 .. q - 1 : e[i] = d[i]
  /\ \A i \in q + 1 .. n : e[i + 1] = d[i]

(* The lengths and elements of the two halves of a page.                   *)
LEMMA HalvesFacts ==
  ASSUME NEW d, NEW e, NEW q, Halves(d, e, q)
  PROVE  HalvesAt(d, e, q, Len(d), Len(e[q]))
<1> DEFINE n == Len(d)
           l == Len(e)
           o == q + 1
           u == e[q]
           v == e[o]
<1>1. /\ d \in Seq(Seq(Key)) /\ e \in Seq(Seq(Key)) /\ l = n + 1 /\ q \in 1 .. n
      /\ \A i \in 1 .. q - 1 : e[i] = d[i]
      /\ \A i \in o .. n : e[i + 1] = d[i]
      /\ d[q] = u \o v
  BY DEF Halves
<1>2. n \in Nat /\ DOMAIN d = 1 .. n
  BY <1>1, Elements
<1>3. DOMAIN e = 1 .. l /\ \A i \in 1 .. l : e[i] \in Seq(Key)
  BY <1>1, Elements
<1> HIDE DEF n, l
<1>4. o \in 1 .. n + 1 /\ q \in 1 .. l /\ o \in 1 .. l /\ DOMAIN e = 1 .. n + 1
  BY <1>1, <1>2, <1>3
<1>5. u \in Seq(Key) /\ v \in Seq(Key)
  BY <1>3, <1>4
<1> DEFINE m == Len(u)
           k == Len(v)
<1>6. m \in Nat /\ DOMAIN u = 1 .. m
  BY <1>5, Elements
<1>7. k \in Nat /\ DOMAIN v = 1 .. k
  BY <1>5, Elements
<1>8. Chain(Key, u, m, v, k, d[q])
  <2>1. Chain(Key, u, m, v, k, u \o v)
    BY <1>5, Chained
  <2> QED
    BY <1>1, <2>1
<1> HIDE DEF m, k, u, v, o
<1>9. /\ u = e[q] /\ v = e[o] /\ m = Len(e[q]) /\ k = Len(e[o])
      /\ Len(d[q]) = m + k
      /\ \A a \in 1 .. m : d[q][a] = u[a]
      /\ \A a \in 1 .. k : d[q][m + a] = v[a]
  BY <1>8 DEF Chain, m, k, u, v
<1>10. HalvesAt(d, e, q, n, m)
  <2>1. /\ q \in 1 .. n /\ n \in Nat /\ m \in Nat /\ o \in 1 .. n + 1
        /\ DOMAIN d = 1 .. n /\ DOMAIN e = 1 .. n + 1
    BY <1>1, <1>2, <1>4, <1>6
  <2>2. /\ \A i \in 1 .. q - 1 : e[i] = d[i]
        /\ \A i \in o .. n : e[i + 1] = d[i]
    BY <1>1
  <2>3. Len(e[o]) \in Nat /\ DOMAIN e[q] = 1 .. m /\ DOMAIN e[o] = 1 .. Len(e[o])
    BY <1>6, <1>7, <1>9
  <2>4. Len(d[q]) = m + Len(e[o]) /\ Len(e[q]) = m
    BY <1>9
  <2>5. /\ \A a \in 1 .. m : d[q][a] = e[q][a]
        /\ \A a \in 1 .. Len(e[o]) : d[q][m + a] = e[o][a]
    BY <1>9
  <2> QED
    BY <2>1, <2>2, <2>3, <2>4, <2>5, Zenon DEF HalvesAt, o
<1> QED
  BY <1>10 DEF n, m, u

(* The place of a key in a page is in one of its halves, and the other way *)
(* round.                                                                  *)
LEMMA FitsLeft ==
  ASSUME NEW d, NEW e, NEW q, Halves(d, e, q), NEW i, NEW k, Fits(d, q, i, k), i <= Len(e[q])
  PROVE  Fits(e, q, i, k)
<1> DEFINE n == Len(d)
           m == Len(e[q])
           w == Len(e[q + 1])
           o == q + 1
<1>0. HalvesAt(d, e, q, n, m)
  BY HalvesFacts
<1>1. /\ q \in 1 .. n /\ n \in Nat /\ m \in Nat /\ o \in 1 .. n + 1 /\ o = q + 1
      /\ DOMAIN d = 1 .. n /\ DOMAIN e = 1 .. n + 1
      /\ m = Len(e[q]) /\ w \in Nat /\ Len(d[q]) = m + w
  BY <1>0 DEF HalvesAt
<1>2. /\ \A a \in 1 .. m : d[q][a] = e[q][a]
      /\ \A a \in 1 .. w : d[q][m + a] = e[o][a]
      /\ DOMAIN e[o] = 1 .. w
      /\ \A j \in 1 .. q - 1 : e[j] = d[j]
      /\ \A j \in o .. n : e[j + 1] = d[j]
  BY <1>0 DEF HalvesAt
<1>3. /\ i \in 0 .. m + w /\ k \in Key /\ i <= m
      /\ \A j \in 1 .. n : j < q => Below(ToSet(d[j]), {k})
      /\ \A j \in 1 .. n : q < j => Below({k}, ToSet(d[j]))
      /\ \A a \in 1 .. i : d[q][a] < k
      /\ \A a \in i + 1 .. m + w : k < d[q][a]
  BY <1>1 DEF Fits
<1>x. q \in 1 .. n /\ n \in Nat /\ m \in Nat /\ w \in Nat /\ o = q + 1 /\ i \in 0 .. m + w /\ i <= m
  <2> HIDE DEF n, m, w, o
  <2> QED
    BY <1>1, <1>3
<1> HIDE DEF n, m, w, o
<1>4. i \in 0 .. m /\ q \in 1 .. n + 1
  BY <1>1, <1>3
<1>5. ASSUME NEW j \in 1 .. n + 1, j < q PROVE Below(ToSet(e[j]), {k})
  <2>1. j \in 1 .. q - 1 /\ j \in 1 .. n
    BY <1>1, <1>5
  <2> QED
    BY <1>2, <1>3, <1>5, <2>1
<1>6. ASSUME NEW j \in 1 .. n + 1, q < j PROVE Below({k}, ToSet(e[j]))
  <2>1. CASE j = o
    <3>1. ASSUME NEW u \in ToSet(e[o]) PROVE k < u
      <4>0. DOMAIN e[o] = 1 .. w
        BY <1>2
      <4>1. PICK a \in 1 .. w : e[o][a] = u
        BY <4>0, AtPlace
      <4>2. m + a \in i + 1 .. m + w
        BY <1>x
      <4>3. k < d[q][m + a]
        BY <1>3, <4>2
      <4> QED
        BY <1>2, <4>1, <4>3
    <3> QED
      BY <2>1, <3>1 DEF Below
  <2>2. CASE j > o
    <3> DEFINE h == j - 1
    <3>1. h \in o .. n /\ h + 1 = j /\ h \in 1 .. n /\ q < h
      BY <1>1, <2>2
    <3> HIDE DEF h
    <3>2. Below({k}, ToSet(d[h])) /\ e[h + 1] = d[h]
      BY <1>2, <1>3, <3>1
    <3> QED
      BY <3>1, <3>2
  <2>3. j = o \/ j > o
    BY <1>1, <1>6
  <2> QED
    BY <2>1, <2>2, <2>3
<1>7. \A a \in 1 .. i : e[q][a] < k
  <2>1. \A a \in 1 .. i : a \in 1 .. m
    BY <1>1, <1>4
  <2> QED
    BY <1>2, <1>3, <2>1
<1>8. \A a \in i + 1 .. m : k < e[q][a]
  <2>1. \A a \in i + 1 .. m : a \in 1 .. m /\ a \in i + 1 .. m + w
    BY <1>1, <1>4
  <2> QED
    BY <1>2, <1>3, <2>1
<1> QED
  BY <1>1, <1>3, <1>4, <1>5, <1>6, <1>7, <1>8 DEF Fits

(* A key that fits behind the first half fits on the second.               *)
LEMMA FitsRight ==
  ASSUME NEW d, NEW e, NEW q, Halves(d, e, q), NEW i, NEW k, Fits(d, q, i, k), i >= Len(e[q])
  PROVE  Fits(e, q + 1, i - Len(e[q]), k)
<1> DEFINE n == Len(d)
           m == Len(e[q])
           w == Len(e[q + 1])
           o == q + 1
           g == i - m
<1>0. HalvesAt(d, e, q, n, m)
  BY HalvesFacts
<1>1. /\ q \in 1 .. n /\ n \in Nat /\ m \in Nat /\ o \in 1 .. n + 1 /\ o = q + 1
      /\ DOMAIN d = 1 .. n /\ DOMAIN e = 1 .. n + 1
      /\ m = Len(e[q]) /\ w \in Nat /\ w = Len(e[o]) /\ Len(d[q]) = m + w
  BY <1>0 DEF HalvesAt
<1>2. /\ \A a \in 1 .. m : d[q][a] = e[q][a]
      /\ \A a \in 1 .. w : d[q][m + a] = e[o][a]
      /\ DOMAIN e[q] = 1 .. m
      /\ \A j \in 1 .. q - 1 : e[j] = d[j]
      /\ \A j \in o .. n : e[j + 1] = d[j]
  BY <1>0 DEF HalvesAt
<1>3. /\ i \in 0 .. m + w /\ k \in Key /\ i >= m
      /\ \A j \in 1 .. n : j < q => Below(ToSet(d[j]), {k})
      /\ \A j \in 1 .. n : q < j => Below({k}, ToSet(d[j]))
      /\ \A a \in 1 .. i : d[q][a] < k
      /\ \A a \in i + 1 .. m + w : k < d[q][a]
  BY <1>1 DEF Fits
<1>x. q \in 1 .. n /\ n \in Nat /\ m \in Nat /\ w \in Nat /\ o = q + 1 /\ i \in 0 .. m + w /\ i >= m
  <2> HIDE DEF n, m, w, o
  <2> QED
    BY <1>1, <1>3
<1> HIDE DEF n, m, w, o
<1>4. g \in 0 .. w /\ m + g = i /\ g = i - m
  BY <1>x
<1> HIDE DEF g
<1>5. ASSUME NEW j \in 1 .. n + 1, j < o PROVE Below(ToSet(e[j]), {k})
  <2>1. CASE j = q
    <3>1. ASSUME NEW u \in ToSet(e[q]) PROVE u < k
      <4>0. DOMAIN e[q] = 1 .. m
        BY <1>2
      <4>1. PICK a \in 1 .. m : e[q][a] = u
        BY <4>0, AtPlace
      <4>2. a \in 1 .. i
        BY <1>x
      <4>3. d[q][a] < k
        BY <1>3, <4>2
      <4> QED
        BY <1>2, <4>1, <4>3
    <3> QED
      BY <2>1, <3>1 DEF Below
  <2>2. CASE j < q
    <3>1. j \in 1 .. q - 1 /\ j \in 1 .. n
      BY <1>1, <2>2
    <3> QED
      BY <1>2, <1>3, <2>2, <3>1
  <2>3. j = q \/ j < q
    BY <1>1, <1>5
  <2> QED
    BY <2>1, <2>2, <2>3
<1>6. ASSUME NEW j \in 1 .. n + 1, o < j PROVE Below({k}, ToSet(e[j]))
  <2> DEFINE h == j - 1
  <2>1. h \in o .. n /\ h + 1 = j /\ h \in 1 .. n /\ q < h
    BY <1>1, <1>6
  <2> HIDE DEF h
  <2>2. Below({k}, ToSet(d[h])) /\ e[h + 1] = d[h]
    BY <1>2, <1>3, <2>1
  <2> QED
    BY <2>1, <2>2
<1>7. ASSUME NEW a \in 1 .. g PROVE e[o][a] < k
  <2>1. a \in 1 .. w /\ m + a \in 1 .. i
    BY <1>x, <1>4
  <2> QED
    BY <1>2, <1>3, <2>1
<1>8. ASSUME NEW a \in g + 1 .. w PROVE k < e[o][a]
  <2>1. a \in 1 .. w /\ m + a \in i + 1 .. m + w
    BY <1>x, <1>4
  <2> QED
    BY <1>2, <1>3, <2>1
<1>9. Fits(e, o, g, k)
  BY <1>1, <1>3, <1>4, <1>5, <1>6, <1>7, <1>8 DEF Fits
<1> QED
  BY <1>9 DEF o, g, m

(* A key that fits on the left of two neighbours fits on the two merged.   *)
LEMMA FitsFromLeft ==
  ASSUME NEW d, NEW e, NEW q, Halves(d, e, q), NEW i, NEW k, Fits(e, q, i, k)
  PROVE  Fits(d, q, i, k)
<1> DEFINE n == Len(d)
           m == Len(e[q])
           w == Len(e[q + 1])
           o == q + 1
<1>0. HalvesAt(d, e, q, n, m)
  BY HalvesFacts
<1>1. /\ q \in 1 .. n /\ n \in Nat /\ m \in Nat /\ o \in 1 .. n + 1 /\ o = q + 1
      /\ DOMAIN d = 1 .. n /\ DOMAIN e = 1 .. n + 1
      /\ m = Len(e[q]) /\ w \in Nat /\ Len(d[q]) = m + w
  BY <1>0 DEF HalvesAt
<1>2. /\ \A a \in 1 .. m : d[q][a] = e[q][a]
      /\ \A a \in 1 .. w : d[q][m + a] = e[o][a]
      /\ DOMAIN e[o] = 1 .. w
      /\ \A j \in 1 .. q - 1 : e[j] = d[j]
      /\ \A j \in o .. n : e[j + 1] = d[j]
  BY <1>0 DEF HalvesAt
<1>3. /\ i \in 0 .. m /\ k \in Key
      /\ \A j \in 1 .. n + 1 : j < q => Below(ToSet(e[j]), {k})
      /\ \A j \in 1 .. n + 1 : q < j => Below({k}, ToSet(e[j]))
      /\ \A a \in 1 .. i : e[q][a] < k
      /\ \A a \in i + 1 .. m : k < e[q][a]
  BY <1>1 DEF Fits
<1> HIDE DEF n, m, w, o
<1>4. i \in 0 .. m + w
  BY <1>1, <1>3
<1>5. ASSUME NEW j \in 1 .. n, j < q PROVE Below(ToSet(d[j]), {k})
  <2>1. j \in 1 .. q - 1 /\ j \in 1 .. n + 1
    BY <1>1, <1>5
  <2> QED
    BY <1>2, <1>3, <1>5, <2>1
<1>6. ASSUME NEW j \in 1 .. n, q < j PROVE Below({k}, ToSet(d[j]))
  <2> DEFINE h == j + 1
  <2>1. j \in o .. n /\ h = j + 1 /\ h \in 1 .. n + 1 /\ q < h
    BY <1>1, <1>6
  <2> HIDE DEF h
  <2>2. Below({k}, ToSet(e[h])) /\ e[h] = d[j]
    BY <1>2, <1>3, <2>1
  <2> QED
    BY <2>2
<1>7. \A a \in 1 .. i : d[q][a] < k
  <2>1. \A a \in 1 .. i : a \in 1 .. m
    BY <1>1, <1>3
  <2> QED
    BY <1>2, <1>3, <2>1
<1>8. ASSUME NEW a \in i + 1 .. m + w PROVE k < d[q][a]
  <2>1. CASE a <= m
    <3>1. a \in 1 .. m /\ a \in i + 1 .. m
      BY <1>1, <1>3, <2>1
    <3> QED
      BY <1>2, <1>3, <3>1
  <2>2. CASE a > m
    <3> DEFINE b == a - m
    <3>1. b \in 1 .. w /\ m + b = a
      BY <1>1, <1>3, <2>2
    <3> HIDE DEF b
    <3>2. e[o][b] \in ToSet(e[o])
      BY <1>2, <3>1, AtPlace
    <3>3. Below({k}, ToSet(e[o]))
      <4>1. q < o
        BY <1>1
      <4> QED
        BY <1>1, <1>3, <4>1
    <3>4. k < e[o][b]
      BY <3>2, <3>3 DEF Below
    <3> QED
      BY <1>2, <3>1, <3>4
  <2> QED
    BY <1>1, <1>3, <2>1, <2>2
<1> QED
  BY <1>1, <1>3, <1>4, <1>5, <1>6, <1>7, <1>8 DEF Fits

(* A key that fits on the right of two neighbours fits on the two merged.  *)
LEMMA FitsFromRight ==
  ASSUME NEW d, NEW e, NEW q, Halves(d, e, q), NEW i, NEW k, Fits(e, q + 1, i, k)
  PROVE  Fits(d, q, i + Len(e[q]), k)
<1> DEFINE n == Len(d)
           m == Len(e[q])
           w == Len(e[q + 1])
           o == q + 1
           g == i + m
<1>0. HalvesAt(d, e, q, n, m)
  BY HalvesFacts
<1>1. /\ q \in 1 .. n /\ n \in Nat /\ m \in Nat /\ o \in 1 .. n + 1 /\ o = q + 1
      /\ DOMAIN d = 1 .. n /\ DOMAIN e = 1 .. n + 1
      /\ m = Len(e[q]) /\ w \in Nat /\ w = Len(e[o]) /\ Len(d[q]) = m + w
  BY <1>0 DEF HalvesAt
<1>2. /\ \A a \in 1 .. m : d[q][a] = e[q][a]
      /\ \A a \in 1 .. w : d[q][m + a] = e[o][a]
      /\ DOMAIN e[q] = 1 .. m
      /\ \A j \in 1 .. q - 1 : e[j] = d[j]
      /\ \A j \in o .. n : e[j + 1] = d[j]
  BY <1>0 DEF HalvesAt
<1>3. /\ i \in 0 .. w /\ k \in Key
      /\ \A j \in 1 .. n + 1 : j < o => Below(ToSet(e[j]), {k})
      /\ \A j \in 1 .. n + 1 : o < j => Below({k}, ToSet(e[j]))
      /\ \A a \in 1 .. i : e[o][a] < k
      /\ \A a \in i + 1 .. w : k < e[o][a]
  BY <1>1 DEF Fits
<1>x. q \in 1 .. n /\ n \in Nat /\ m \in Nat /\ w \in Nat /\ o = q + 1 /\ i \in 0 .. w
  <2> HIDE DEF n, m, w, o
  <2> QED
    BY <1>1, <1>3
<1> HIDE DEF n, m, w, o
<1>4. g \in 0 .. m + w /\ g = i + m
  BY <1>x
<1> HIDE DEF g
<1>5. ASSUME NEW j \in 1 .. n, j < q PROVE Below(ToSet(d[j]), {k})
  <2>1. j \in 1 .. q - 1 /\ j \in 1 .. n + 1 /\ j < o
    BY <1>1, <1>5
  <2> QED
    BY <1>2, <1>3, <2>1
<1>6. ASSUME NEW j \in 1 .. n, q < j PROVE Below({k}, ToSet(d[j]))
  <2> DEFINE h == j + 1
  <2>1. j \in o .. n /\ h = j + 1 /\ h \in 1 .. n + 1 /\ o < h
    BY <1>1, <1>6
  <2> HIDE DEF h
  <2>2. Below({k}, ToSet(e[h])) /\ e[h] = d[j]
    BY <1>2, <1>3, <2>1
  <2> QED
    BY <2>2
<1>7. ASSUME NEW a \in 1 .. g PROVE d[q][a] < k
  <2>1. CASE a <= m
    <3>1. a \in 1 .. m /\ q < o /\ q \in 1 .. n + 1
      BY <1>1, <2>1
    <3>2. e[q][a] \in ToSet(e[q]) /\ Below(ToSet(e[q]), {k})
      BY <1>2, <1>3, <3>1, AtPlace
    <3>3. e[q][a] < k
      BY <3>2 DEF Below
    <3> QED
      BY <1>2, <3>1, <3>3
  <2>2. CASE a > m
    <3> DEFINE b == a - m
    <3>1. b \in 1 .. i /\ b \in 1 .. w /\ m + b = a
      BY <1>x, <1>4, <2>2
    <3> HIDE DEF b
    <3> QED
      BY <1>2, <1>3, <3>1
  <2>3. a <= m \/ a > m
    BY <1>x, <1>4
  <2> QED
    BY <2>1, <2>2, <2>3
<1>8. ASSUME NEW a \in g + 1 .. m + w PROVE k < d[q][a]
  <2> DEFINE b == a - m
  <2>1. b \in i + 1 .. w /\ b \in 1 .. w /\ m + b = a
    BY <1>x, <1>4
  <2> HIDE DEF b
  <2> QED
    BY <1>2, <1>3, <2>1
<1>9. Fits(d, q, g, k)
  BY <1>1, <1>3, <1>4, <1>5, <1>6, <1>7, <1>8 DEF Fits
<1> QED
  BY <1>9 DEF g, m

(* A data page's neighbour under the same parent is a data page, and the   *)
(* next one.                                                               *)
LEMMA DataSiblings ==
  ASSUME NEW n, NEW r, NEW x, NEW s, Laid(n, r, x, s), NEW p \in DOMAIN x,
         NEW j \in 1 .. Len(x[p].sep), x[p].ch[j].at = "d" \/ x[p].ch[j + 1].at = "d"
  PROVE  \E l \in 1 .. n - 1 : x[p].ch[j] = Data(l) /\ x[p].ch[j + 1] = Data(l + 1)
<1> DEFINE k == Len(x[p].sep)
           ch == x[p].ch
           a == ch[j]
           b == ch[j + 1]
<1>1. k \in Nat /\ Typed(n, r, x, s) /\ n \in Nat /\ \A i \in 1 .. k + 1 : ch[i] \in PagesOf(n, x)
  BY PageType
<1>2. a \in PagesOf(n, x) /\ b \in PagesOf(n, x)
  <2>1. j \in 1 .. k + 1 /\ j + 1 \in 1 .. k + 1
    BY <1>1
  <2> QED
    BY <1>1, <2>1
<1>3. Height(s, a) = Height(s, b) /\ From(s, b) = To(s, a) + 1
  <2>1. j \in 1 .. k + 1 /\ j + 1 \in 1 .. k + 1
    BY <1>1
  <2>2. Len(ch) = k + 1
    BY PageType
  <2>3. /\ \A i \in 1 .. k + 1 : Height(s, ch[i]) = s[p].ht - 1
        /\ x[p].sep[j] = From(s, b) /\ x[p].sep[j] = To(s, a) + 1
    BY <2>2 DEF Laid, Kids
  <2> QED
    BY <2>1, <2>3
<1> HIDE DEF a, b
<1>4. Height(s, a) = 0 <=> a.at = "d"
  BY <1>1, <1>2, SpanType
<1>5. Height(s, b) = 0 <=> b.at = "d"
  BY <1>1, <1>2, SpanType
<1>6. a.at = "d" /\ b.at = "d"
  BY <1>3, <1>4, <1>5 DEF a, b
<1>7. a.no \in 1 .. n /\ a = Data(a.no) /\ b.no \in 1 .. n /\ b = Data(b.no)
  BY <1>2, <1>6, PointerKinds, Zenon DEF Index, Data
<1>8. b.no = a.no + 1
  BY <1>3, <1>6 DEF From, To
<1>9. a.no \in 1 .. n - 1
  BY <1>1, <1>7, <1>8
<1> QED
  BY <1>7, <1>8, <1>9 DEF a, b

(* The same of the tree, and a Set that has been done, leaving it so.      *)
Full(t) == FullData(t.d, t.r) /\ FullIndex(t.x, t.r)
SetDone(t, k, u) == \E S : Adds(t, k, u, S) /\ Full(u)

(* A page with room that takes a key is not too full.                      *)
LEMMA PutFull ==
  ASSUME NEW d \in Seq(Seq(Key)), NEW r, FullData(d, r), NEW q \in DOMAIN d,
         NEW i \in 0 .. Len(d[q]), NEW k \in Key, Len(d[q]) < 2 * kd
  PROVE  FullData(KeyPut(d, q, i, k), r)
<1> DEFINE n == Len(d)
           s == d[q]
           w == Len(s)
           t == InsertAt(s, i + 1, k)
           e == KeyPut(d, q, i, k)
<1>1. n \in Nat /\ DOMAIN d = 1 .. n /\ \A j \in 1 .. n : d[j] \in Seq(Key)
  BY Elements
<1>2. s \in Seq(Key)
  BY <1>1
<1>3. Len(t) = w + 1
  <2>1. PutIn(Key, s, w, i, k, t)
    BY <1>2, InsertedAs
  <2> QED
    BY <2>1 DEF PutIn
<1>4. e = [d EXCEPT ![q] = t]
  BY DEF KeyPut
<1>5. \A j \in DOMAIN d : Len(d[j]) \in 1 .. 2 * kd /\ (Len(d[j]) >= kd \/ r = Data(j))
  BY DEF FullData
<1>6. w \in 1 .. 2 * kd /\ (w >= kd \/ r = Data(q)) /\ w < 2 * kd
  BY <1>5
<1>7. kd \in Nat
  BY BTreeAssumption DEF BTreeAssumption
<1> HIDE DEF e, t, s, w
<1>8. Len(t) \in 1 .. 2 * kd /\ (Len(t) >= kd \/ r = Data(q))
  <2>1. w + 1 \in 1 .. 2 * kd /\ (w >= kd => w + 1 >= kd)
    BY <1>6, <1>7
  <2> QED
    BY <1>3, <1>6, <2>1
<1>9. DOMAIN e = DOMAIN d /\ e[q] = t /\ \A j \in DOMAIN d : j # q => e[j] = d[j]
  BY <1>1, <1>4
<1>10. FullData(e, r)
  BY <1>5, <1>8, <1>9 DEF FullData
<1> QED
  BY <1>10 DEF e

(* Two pages that both end up between half and full keep the tree full     *)
(* enough.                                                                 *)
LEMMA DealFull ==
  ASSUME NEW d, NEW r, FullData(d, r), NEW l, NEW s, NEW t, NEW e, Deals(d, l, s, t, e),
         Len(s) \in kd .. 2 * kd, Len(t) \in kd .. 2 * kd
  PROVE  FullData(e, r)
<1>1. /\ e[l] = s /\ e[l + 1] = t
      /\ DOMAIN e = DOMAIN d
      /\ \A i \in DOMAIN d : i # l /\ i # l + 1 => e[i] = d[i]
  BY DEF Deals
<1>2. kd \in Nat \ {0}
  BY BTreeAssumption DEF BTreeAssumption
<1>3. Len(s) \in 1 .. 2 * kd /\ Len(s) >= kd /\ Len(t) \in 1 .. 2 * kd /\ Len(t) >= kd
  <2> DEFINE a == Len(s)
             b == Len(t)
  <2>1. a \in kd .. 2 * kd /\ b \in kd .. 2 * kd
    OBVIOUS
  <2> HIDE DEF a, b
  <2>2. a \in 1 .. 2 * kd /\ a >= kd /\ b \in 1 .. 2 * kd /\ b >= kd
    BY <1>2, <2>1
  <2> QED
    BY <2>2 DEF a, b
<1>4. \A j \in DOMAIN d : Len(d[j]) \in 1 .. 2 * kd /\ (Len(d[j]) >= kd \/ r = Data(j))
  BY DEF FullData
<1> QED
  BY <1>1, <1>3, <1>4 DEF FullData

(* A key goes into a page with room.                                       *)
LEMMA RoomDone ==
  ASSUME NEW t, NEW s, Sound(t, s), Full(t), NEW q, NEW i, NEW k, Fits(t.d, q, i, k),
         Len(t.d[q]) < 2 * kd
  PROVE  SetDone(t, k, Insert(t, q, i, k))
<1> DEFINE u == Insert(t, q, i, k)
<1>1. Adds(t, k, u, s)
  BY SoundInsert
<1>2. Fields(t) /\ t.d \in Seq(Seq(Key))
  BY DEF Sound
<1>3. Is(u, t.c + 1, t.r, KeyPut(t.d, q, i, k), t.x)
  BY <1>2, InsertParts
<1>4. q \in DOMAIN t.d /\ i \in 0 .. Len(t.d[q]) /\ k \in Key
  BY DEF Fits
<1>5. FullData(KeyPut(t.d, q, i, k), t.r) /\ FullIndex(t.x, t.r)
  BY <1>2, <1>4, PutFull DEF Full
<1>6. Full(u)
  BY <1>3, <1>5 DEF Is, Full
<1> QED
  BY <1>1, <1>6 DEF SetDone

(* What is done to a tree of the same keys is done to the tree.            *)
LEMMA DoneAfter ==
  ASSUME NEW t, NEW u, NEW s, Keeps(t, u, s), NEW k, NEW v, SetDone(u, k, v)
  PROVE  SetDone(t, k, v)
  BY DEF Keeps, SetDone, Adds

(* A full page first gives a key to a neighbour.                           *)
LEMMA LeftDone ==
  ASSUME NEW t, NEW s, Sound(t, s), Full(t), NEW l \in 1 .. Len(t.d) - 1, NEW q, q = l + 1,
         Len(t.d[l]) \in kd .. 2 * kd, Len(t.d[l]) < 2 * kd, Len(t.d[q]) = 2 * kd,
         NEW i, NEW k, Fits(t.d, q, i, k), i >= 1
  PROVE  SetDone(t, k, Insert(MvL(t, l, q, 1), q, i - 1, k))
<1> DEFINE d == t.d
           n == Len(d)
           a == d[l] \o SubSeq(d[q], 1, 1)
           b == SubSeq(d[q], 1 + 1, Len(d[q]))
           e == DealtLeft(d, l, q, 1)
           u == MvL(t, l, q, 1)
           w == Len(d[l])
<1>1. Fields(t) /\ d \in Seq(Seq(Key))
  BY DEF Sound
<1>2. n \in Nat /\ l \in 1 .. n - 1 /\ \A j \in 1 .. n : d[j] \in Seq(Key)
  BY <1>1, Elements
<1>3. q \in 1 .. n /\ l \in 1 .. n
  BY <1>2
<1>4. d[q] \in Seq(Key) /\ d[l] \in Seq(Key)
  BY <1>2, <1>3
<1>5. kd \in Nat \ {0} /\ 2 * kd \in Nat /\ 1 \in 0 .. 2 * kd /\ 2 * kd - 1 \in kd .. 2 * kd /\ 2 * kd - 1 < 2 * kd
  <2>1. kd \in Nat \ {0}
    BY BTreeAssumption DEF BTreeAssumption
  <2> QED
    BY <2>1
<1>6. 1 \in 0 .. Len(d[q])
  BY <1>5
<1>7. Parted(d[q], 1, SubSeq(d[q], 1, 1), b)
  BY <1>4, <1>6, Parting
<1>8. Len(SubSeq(d[q], 1, 1)) = 1 /\ SubSeq(d[q], 1, 1) \in Seq(Key) /\ Len(b) = 2 * kd - 1
  BY <1>7 DEF Parted
<1>9. Len(a) = w + 1
  BY <1>4, <1>8, ConcatProperties
<1>10. Deals(d, l, a, b, e)
  BY <1>1, <1>2, <1>6, DealingLeft
<1>11. w + 1 \in kd .. 2 * kd /\ w + 1 \in Nat
  <2>1. w \in kd .. 2 * kd /\ w < 2 * kd
    OBVIOUS
  <2> HIDE DEF w
  <2> QED
    BY <1>5, <2>1
<1> HIDE DEF a, b, e, u, d, n, w
<1>12. Is(u, t.c, t.r, e, t.x)
  BY <1>1, MvLParts DEF u, e, d
<1>13. Redealt(d, e, l) /\ e[l] = a /\ e[q] = b
  BY <1>10 DEF Deals
<1>14. Keeps(t, u, s)
  <2>1. Redealt(t.d, e, l)
    BY <1>13 DEF d
  <2> QED
    BY <1>12, <2>1, SoundDealt
<1>15. FullData(e, t.r)
  <2>1. FullData(d, t.r)
    BY DEF Full, d
  <2>2. Len(a) \in kd .. 2 * kd /\ Len(b) \in kd .. 2 * kd
    BY <1>5, <1>8, <1>9, <1>11
  <2> QED
    BY <1>10, <2>1, <2>2, DealFull
<1>16. Full(u)
  BY <1>12, <1>15 DEF Full, Is
<1>17. Fits(e, q, i - 1, k)
  <2>1. PICK f : Halves(f, d, l) /\ Halves(f, e, l)
    BY <1>13, RedealtJoin
  <2> DEFINE g == i + w
  <2>2. Fits(f, l, g, k)
    <3>1. Fits(d, l + 1, i, k)
      BY DEF d
    <3>2. Fits(f, l, i + Len(d[l]), k)
      BY <2>1, <3>1, FitsFromRight
    <3> QED
      BY <3>2 DEF w
  <2>3. i \in Int /\ i >= 1
    <3> DEFINE m == Len(t.d[q])
    <3>1. i \in 0 .. m
      BY DEF Fits
    <3> QED
      BY <3>1
  <2>4. Len(e[l]) = w + 1
    BY <1>9, <1>13
  <2>5. w \in Int
    <3>1. d[l] \in Seq(Key)
      BY <1>4
    <3> QED
      BY <3>1, Elements DEF w
  <2>6. g >= w + 1 /\ g - (w + 1) = i - 1
    BY <2>3, <2>5
  <2> HIDE DEF g
  <2>7. g >= Len(e[l])
    BY <2>4, <2>6
  <2>8. Fits(e, l + 1, g - Len(e[l]), k)
    BY <2>1, <2>2, <2>7, FitsRight
  <2> QED
    BY <2>4, <2>6, <2>8
<1>18. Fits(u.d, q, i - 1, k) /\ Len(u.d[q]) < 2 * kd
  <2>1. u.d = e
    BY <1>12 DEF Is
  <2>2. Len(e[q]) < 2 * kd
    BY <1>5, <1>8, <1>13
  <2> QED
    BY <1>17, <2>1, <2>2
<1>19. Sound(u, s)
  BY <1>14 DEF Keeps
<1>20. SetDone(u, k, Insert(u, q, i - 1, k))
  BY <1>16, <1>18, <1>19, RoomDone
<1>21. SetDone(t, k, Insert(u, q, i - 1, k))
  BY <1>14, <1>20, DoneAfter
<1> QED
  BY <1>21 DEF u

(* Overflow, when the right sibling has room: its first key is the last of *)
(* the page.                                                               *)
LEMMA RightDone ==
  ASSUME NEW t, NEW s, Sound(t, s), Full(t), NEW q \in 1 .. Len(t.d) - 1, NEW r, r = q + 1,
         Len(t.d[r]) \in kd .. 2 * kd, Len(t.d[r]) < 2 * kd, Len(t.d[q]) = 2 * kd,
         NEW i, NEW k, Fits(t.d, q, i, k), i < 2 * kd
  PROVE  SetDone(t, k, Insert(MvR(t, q, r, 1), q, i, k))
<1> DEFINE d == t.d
           n == Len(d)
           m == 2 * kd - 1
           a == SubSeq(d[q], 1, m)
           c == SubSeq(d[q], m + 1, Len(d[q]))
           b == c \o d[r]
           e == DealtRight(d, q, r, 1)
           u == MvR(t, q, r, 1)
           w == Len(d[r])
<1>1. Fields(t) /\ d \in Seq(Seq(Key))
  BY DEF Sound
<1>2. n \in Nat /\ q \in 1 .. n - 1 /\ \A j \in 1 .. n : d[j] \in Seq(Key)
  BY <1>1, Elements
<1>3. q \in 1 .. n /\ r \in 1 .. n
  BY <1>2
<1>4. d[q] \in Seq(Key) /\ d[r] \in Seq(Key)
  BY <1>2, <1>3
<1>5. kd \in Nat \ {0} /\ 2 * kd \in Nat /\ 1 \in 0 .. 2 * kd /\ m \in kd .. 2 * kd /\ m < 2 * kd
      /\ m \in 0 .. 2 * kd /\ 2 * kd - m = 1
  <2>1. kd \in Nat \ {0}
    BY BTreeAssumption DEF BTreeAssumption
  <2> QED
    BY <2>1
<1>6. 1 \in 0 .. Len(d[q]) /\ m \in 0 .. Len(d[q]) /\ m = Len(d[q]) - 1 /\ Len(d[q]) = 2 * kd
  BY <1>5
<1> HIDE DEF m
<1>7. Parted(d[q], m, a, c)
  BY <1>4, <1>6, Parting
<1>8. Len(a) = m /\ c \in Seq(Key) /\ Len(c) = 1
  BY <1>5, <1>6, <1>7 DEF Parted
<1>9. Len(b) = 1 + w
  <2> HIDE DEF c
  <2>1. c \in Seq(Key) /\ d[r] \in Seq(Key)
    BY <1>4, <1>8
  <2>2. Len(c \o d[r]) = Len(c) + Len(d[r])
    BY <2>1, ConcatProperties
  <2> QED
    BY <1>8, <2>2
<1>10. Deals(d, q, a, b, e)
  BY <1>1, <1>2, <1>6, DealingRight
<1>11. 1 + w \in kd .. 2 * kd /\ 1 + w \in Nat
  <2>1. w \in kd .. 2 * kd /\ w < 2 * kd
    OBVIOUS
  <2> HIDE DEF w
  <2> QED
    BY <1>5, <2>1
<1> HIDE DEF a, b, c, e, u, d, n, w
<1>12. Is(u, t.c, t.r, e, t.x)
  BY <1>1, MvRParts DEF u, e, d
<1>13. Redealt(d, e, q) /\ e[q] = a /\ e[r] = b
  BY <1>10 DEF Deals
<1>14. Keeps(t, u, s)
  <2>1. Redealt(t.d, e, q)
    BY <1>13 DEF d
  <2> QED
    BY <1>12, <2>1, SoundDealt
<1>15. FullData(e, t.r)
  <2>1. FullData(d, t.r)
    BY DEF Full, d
  <2>2. Len(a) \in kd .. 2 * kd /\ Len(b) \in kd .. 2 * kd
    BY <1>5, <1>8, <1>9, <1>11
  <2> QED
    BY <1>10, <2>1, <2>2, DealFull
<1>16. Full(u)
  BY <1>12, <1>15 DEF Full, Is
<1>17. Fits(e, q, i, k)
  <2>1. PICK f : Halves(f, d, q) /\ Halves(f, e, q)
    BY <1>13, RedealtJoin
  <2>2. Fits(f, q, i, k)
    <3>1. Fits(d, q, i, k)
      BY DEF d
    <3> QED
      BY <2>1, <3>1, FitsFromLeft
  <2>3. i \in Int
    <3> DEFINE z == Len(t.d[q])
    <3>1. i \in 0 .. z
      BY DEF Fits
    <3> QED
      BY <3>1
  <2>4. i <= m
    BY <1>5, <2>3 DEF m
  <2>5. i <= Len(e[q])
    BY <1>8, <1>13, <2>4
  <2> QED
    BY <2>1, <2>2, <2>5, FitsLeft
<1>18. Fits(u.d, q, i, k) /\ Len(u.d[q]) < 2 * kd
  <2>1. u.d = e
    BY <1>12 DEF Is
  <2>2. Len(e[q]) < 2 * kd
    BY <1>5, <1>8, <1>13
  <2> QED
    BY <1>17, <2>1, <2>2
<1>19. Sound(u, s)
  BY <1>14 DEF Keeps
<1>20. SetDone(u, k, Insert(u, q, i, k))
  BY <1>16, <1>18, <1>19, RoomDone
<1>21. SetDone(t, k, Insert(u, q, i, k))
  BY <1>14, <1>20, DoneAfter
<1> QED
  BY <1>21 DEF u

(* A key above all of a full page goes into the page behind it.            *)
LEMMA NextDone ==
  ASSUME NEW t, NEW s, Sound(t, s), Full(t), NEW q \in 1 .. Len(t.d) - 1, NEW r, r = q + 1,
         Len(t.d[r]) < 2 * kd, NEW i, i = Len(t.d[q]), NEW k, Fits(t.d, q, i, k)
  PROVE  SetDone(t, k, Insert(t, r, 0, k))
<1> DEFINE d == t.d
<1>1. d \in Seq(Seq(Key))
  BY DEF Sound
<1>2. Deals(d, q, d[q] \o SubSeq(d[r], 1, 0), SubSeq(d[r], 0 + 1, Len(d[r])), DealtLeft(d, q, r, 0))
  <2> DEFINE n == Len(d)
  <2>1. n \in Nat /\ q \in 1 .. n - 1 /\ \A j \in 1 .. n : d[j] \in Seq(Key)
    BY <1>1, Elements
  <2>2. r \in 1 .. n
    BY <2>1
  <2>3. Len(d[r]) \in Nat
    BY <2>1, <2>2
  <2>4. 0 \in 0 .. Len(d[r])
    BY <2>3
  <2> QED
    BY <1>1, <2>4, DealingLeft
<1>3. Redealt(d, DealtLeft(d, q, r, 0), q)
  BY <1>2 DEF Deals
<1>4. PICK f : Halves(f, d, q)
  BY <1>3, RedealtJoin
<1>5. Fits(f, q, i, k)
  BY <1>4, FitsFromLeft
<1>6. i >= Len(d[q]) /\ i - Len(d[q]) = 0
  <2> DEFINE z == Len(t.d[q])
  <2>1. i \in 0 .. z /\ i = z
    BY DEF Fits
  <2> QED
    BY <2>1
<1>7. Fits(d, q + 1, i - Len(d[q]), k)
  BY <1>4, <1>5, <1>6, FitsRight
<1>8. Fits(t.d, r, 0, k)
  BY <1>6, <1>7
<1> QED
  BY <1>8, RoomDone

-----------------------------------------------------------------------------
(* Split.                                                                  *)

(* A number that no index page has.                                        *)
LEMMA FreeIndexNew ==
  ASSUME NEW t, IsFiniteSet(DOMAIN t.x)
  PROVE  FreeIndex(t) \in Nat \ {0} /\ FreeIndex(t) \notin DOMAIN t.x
<1> DEFINE D == DOMAIN t.x
           c == Cardinality(D)
           I == 1 .. c + 1
<1>1. c \in Nat
  BY FS_CardinalityType
<1>2. \E n \in I : n \notin D
  <2> SUFFICES ASSUME I \subseteq D PROVE FALSE
    OBVIOUS
  <2>1. Cardinality(I) <= c
    BY FS_Subset
  <2>2. 1 \in Int /\ c + 1 \in Int
    BY <1>1
  <2>3. Cardinality(1 .. c + 1) = IF 1 > c + 1 THEN 0 ELSE (c + 1) - 1 + 1
    <3> HIDE DEF c
    <3> QED
      BY <2>2, FS_Interval
  <2> HIDE DEF c
  <2> QED
    BY <1>1, <2>1, <2>3
<1>3. FreeIndex(t) \in I /\ FreeIndex(t) \notin D
  <2> HIDE DEF c
  <2>1. FreeIndex(t) = CHOOSE n \in I : n \notin D
    BY DEF FreeIndex, c
  <2> HIDE DEF I, D
  <2> QED
    BY <1>2, <2>1
<1> HIDE DEF c
<1> QED
  BY <1>1, <1>3

(* The tree whose data page q is split in two, before the key goes in.     *)
HalvedData(d, q) ==
  Halved(d, q, SubSeq(d[q], 1, kd), SubSeq(d[q], kd + 1, 2 * kd))
HalvedTree(t, q) ==
  [Renumber(t, LAMBDA n : IF n > q THEN n + 1 ELSE n) EXCEPT !.d = HalvedData(@, q)]
LinkedTree(t, p, q, pi) ==
  IF pi >= 0 THEN [HalvedTree(t, q) EXCEPT !.x[p] = XInsert(@, pi, q + 1, Data(q + 1))]
  ELSE NewRoot(HalvedTree(t, q), Data(q), q + 1, Data(q + 1))

(* Split, as a link of the two halves and an insertion into one of them.   *)
LEMMA SplitAs ==
  ASSUME NEW t, NEW p, NEW q, NEW pi, NEW i, NEW k
  PROVE  Split(t, p, q, pi, i, k) =
           IF i > kd THEN Insert(LinkedTree(t, p, q, pi), q + 1, i - kd, k)
                     ELSE Insert(LinkedTree(t, p, q, pi), q, i, k)
  BY DEF Split, LinkedTree, HalvedTree, HalvedData, Halved

(* The fields of the tree with a data page halved.                         *)
LEMMA HalvedParts ==
  ASSUME NEW t, Fields(t), NEW q
  PROVE  Is(HalvedTree(t, q), t.c, MovedUp(q, t.r), HalvedData(t.d, q),
            [n \in DOMAIN t.x |-> PageUp(q, t.x[n])])
<1> DEFINE u == Renumber(t, LAMBDA n : IF n > q THEN n + 1 ELSE n)
<1>1. Is(u, t.c, MovedUp(q, t.r), t.d, [n \in DOMAIN t.x |-> PageUp(q, t.x[n])])
  BY RenumberUp
<1>2. HalvedTree(t, q) = [u EXCEPT !.d = HalvedData(@, q)]
  BY DEF HalvedTree
<1> HIDE DEF u
<1> QED
  BY <1>1, <1>2 DEF Is, Fields

(* The fields of the tree with the second half linked to the parent.       *)
LEMMA LinkedParts ==
  ASSUME NEW t, Fields(t), NEW q, NEW p \in DOMAIN t.x, NEW pi \in Nat
  PROVE  Is(LinkedTree(t, p, q, pi), t.c, MovedUp(q, t.r), HalvedData(t.d, q), SplitPages(t.x, p, q, pi))
<1> DEFINE h == HalvedTree(t, q)
           y == [n \in DOMAIN t.x |-> PageUp(q, t.x[n])]
<1>1. Is(h, t.c, MovedUp(q, t.r), HalvedData(t.d, q), y)
  BY HalvedParts
<1>2. LinkedTree(t, p, q, pi) = [h EXCEPT !.x[p] = XInsert(@, pi, q + 1, Data(q + 1))]
  BY DEF LinkedTree
<1>3. [y EXCEPT ![p] = XInsert(@, pi, q + 1, Data(q + 1))] = SplitPages(t.x, p, q, pi)
  BY DEF SplitPages
<1> HIDE DEF h, y
<1>4. LinkedTree(t, p, q, pi).x = [y EXCEPT ![p] = XInsert(@, pi, q + 1, Data(q + 1))]
  BY <1>1, <1>2 DEF Is, Fields
<1> QED
  BY <1>1, <1>2, <1>3, <1>4 DEF Is, Fields

(* The root that is put over the two halves of the only page.              *)
TwoPages(x, f) == WithPage(x, f, [sep |-> <<2>>, ch |-> <<Data(1), Data(2)>>])

(* A root over two data pages is a tree.                                   *)
LEMMA LaidTwo ==
  ASSUME NEW x, DOMAIN x = {}, NEW f \in Nat \ {0}
  PROVE  /\ Laid(2, Index(f), TwoPages(x, f), [m \in {f} |-> [lo |-> 1, hi |-> 2, ht |-> 1]])
         /\ FullIndex(TwoPages(x, f), Index(f))
<1> DEFINE y == TwoPages(x, f)
           s == [m \in {f} |-> [lo |-> 1, hi |-> 2, ht |-> 1]]
           P == [sep |-> <<2>>, ch |-> <<Data(1), Data(2)>>]
<1>1. y = [m \in {f} |-> P]
  BY DEF TwoPages, WithPage
<1>2. DOMAIN y = {f} /\ y[f] = P /\ DOMAIN s = {f} /\ s[f].lo = 1 /\ s[f].hi = 2 /\ s[f].ht = 1
  BY <1>1
<1>3. P.sep = <<2>> /\ P.ch = <<Data(1), Data(2)>> /\ Len(P.sep) = 1 /\ Len(P.ch) = 2
  OBVIOUS
<1>4. /\ From(s, Data(1)) = 1 /\ To(s, Data(1)) = 1 /\ Height(s, Data(1)) = 0
      /\ From(s, Data(2)) = 2 /\ To(s, Data(2)) = 2 /\ Height(s, Data(2)) = 0
      /\ From(s, Index(f)) = 1 /\ To(s, Index(f)) = 2 /\ Height(s, Index(f)) = 1
  BY <1>2, Pointing
<1>5. Kids(s, P, s[f])
  <2>1. P.ch[1] = Data(1) /\ P.ch[2] = Data(2) /\ P.sep[1] = 2
    OBVIOUS
  <2>2. ASSUME NEW i \in 1 .. Len(P.ch) PROVE Height(s, P.ch[i]) = s[f].ht - 1
    <3>1. i = 1 \/ i = 2
      BY <1>3
    <3> QED
      BY <1>2, <1>4, <2>1, <3>1
  <2>3. ASSUME NEW i \in 1 .. Len(P.sep)
        PROVE  P.sep[i] = From(s, P.ch[i + 1]) /\ P.sep[i] = To(s, P.ch[i]) + 1
    <3>1. i = 1 /\ i + 1 = 2
      BY <1>3
    <3> QED
      BY <1>4, <2>1, <3>1
  <2> HIDE DEF P, s
  <2> QED
    BY <1>2, <1>3, <1>4, <2>1, <2>2, <2>3 DEF Kids
<1>6. IsFiniteSet({f})
  BY FS_Singleton
<1>7. Data(1) \in PagesOf(2, y) /\ Data(2) \in PagesOf(2, y) /\ Index(f) \in PagesOf(2, y)
  BY <1>2 DEF PagesOf
<1>8. P.sep \in Seq(1 .. 2) /\ P.ch \in Seq(PagesOf(2, y))
  <2>1. <<2>> \in Seq(1 .. 2)
    OBVIOUS
  <2> HIDE DEF y
  <2> QED
    BY <1>3, <1>7, <2>1
<1>9. y = [m \in DOMAIN y |-> y[m]]
  BY <1>1
<1> HIDE DEF y, s, P
<1>10. Typed(2, Index(f), y, s)
  BY <1>2, <1>6, <1>7, <1>8, <1>9 DEF Typed
<1>11. Nested(y, s)
  BY <1>2 DEF Nested, Within
<1>12. Rooted(2, Index(f), y, s)
  BY <1>2, <1>4 DEF Rooted
<1>13. Laid(2, Index(f), y, s)
  BY <1>2, <1>5, <1>10, <1>11, <1>12 DEF Laid
<1>14. FullIndex(y, Index(f))
  <2>1. kx \in Nat /\ 1 \in 1 .. 2 * kx + 1
    BY BTreeAssumption DEF BTreeAssumption
  <2> QED
    BY <1>2, <1>3, <2>1 DEF FullIndex
<1> QED
  BY <1>13, <1>14 DEF y, s

(* A key not below the first of a page does not go to its front.           *)
LEMMA NotFirst ==
  ASSUME NEW d \in Seq(Seq(Key)), NEW q, NEW i, NEW k, Fits(d, q, i, k), Len(d[q]) >= 1,
         d[q][1] <= k
  PROVE  i >= 1
<1> DEFINE w == Len(d[q])
           a == d[q][1]
<1>1. i \in 0 .. w /\ k \in Key /\ (\A m \in i + 1 .. w : k < d[q][m]) /\ q \in DOMAIN d
  BY DEF Fits
<1>2. d[q] \in Seq(Key)
  BY <1>1, Elements
<1>3. w \in Nat /\ w >= 1 /\ DOMAIN d[q] = 1 .. w
  BY <1>2, Elements
<1>4. k \in Int /\ a \in Int
  <2>1. 1 \in 1 .. w
    <3> HIDE DEF w
    <3> QED
      BY <1>3
  <2>2. a \in Key
    BY <1>2, <2>1, Elements
  <2> QED
    BY <1>1, <2>2, KeyNumber
<1>5. a <= k
  OBVIOUS
<1> HIDE DEF w
<1>6. ASSUME i = 0 PROVE FALSE
  <2>1. 1 \in i + 1 .. w
    BY <1>3, <1>6
  <2>2. k < a
    BY <1>1, <2>1
  <2> HIDE DEF a
  <2> QED
    BY <1>4, <1>5, <2>2
<1> QED
  BY <1>1, <1>3, <1>6

(* The two halves of a full page.                                          *)
LEMMA HalvedPage ==
  ASSUME NEW d \in Seq(Seq(Key)), NEW q \in 1 .. Len(d), Len(d[q]) = 2 * kd
  PROVE  /\ Halves(d, HalvedData(d, q), q)
         /\ Len(HalvedData(d, q)) = Len(d) + 1 /\ DOMAIN HalvedData(d, q) = 1 .. Len(d) + 1
         /\ Len(HalvedData(d, q)[q]) = kd /\ Len(HalvedData(d, q)[q + 1]) = kd
<1> DEFINE s == d[q]
           u == SubSeq(s, 1, kd)
           v == SubSeq(s, kd + 1, 2 * kd)
<1>1. s \in Seq(Key)
  BY Elements
<1>2. kd \in Nat /\ kd \in 0 .. 2 * kd /\ 2 * kd - kd = kd
  <2>1. kd \in Nat
    BY BTreeAssumption DEF BTreeAssumption
  <2> QED
    BY <2>1
<1>3. kd \in 0 .. Len(s)
  BY <1>2
<1>4. Parted(s, kd, u, SubSeq(s, kd + 1, Len(s)))
  BY <1>1, <1>3, Parting
<1>5. Parted(s, kd, u, v)
  BY <1>4
<1>6. u \in Seq(Key) /\ v \in Seq(Key) /\ s = u \o v /\ Len(u) = kd /\ Len(v) = kd
  BY <1>2, <1>5 DEF Parted
<1> HIDE DEF u, v
<1>7. Splits(d, q, u, v, Halved(d, q, u, v))
  BY <1>6, Halving
<1>8. HalvedData(d, q) = Halved(d, q, u, v)
  BY DEF HalvedData, u, v
<1> QED
  BY <1>6, <1>7, <1>8 DEF Splits

(* The halves of a full page are half full.                                *)
LEMMA HalvedFull ==
  ASSUME NEW d \in Seq(Seq(Key)), NEW q \in 1 .. Len(d), Len(d[q]) = 2 * kd, NEW r, FullData(d, r),
         \A j \in 1 .. Len(d) : r = Data(j) => j = q, NEW R
  PROVE  FullData(HalvedData(d, q), R)
<1> DEFINE e == HalvedData(d, q)
           n == Len(d)
<1>1. /\ Halves(d, e, q) /\ DOMAIN e = 1 .. n + 1
      /\ Len(e[q]) = kd /\ Len(e[q + 1]) = kd
  BY HalvedPage
<1>2. /\ \A i \in 1 .. q - 1 : e[i] = d[i]
      /\ \A i \in q + 1 .. n : e[i + 1] = d[i]
  BY <1>1 DEF Halves
<1>3. n \in Nat /\ DOMAIN d = 1 .. n /\ q \in 1 .. n
  BY Elements
<1>4. \A j \in 1 .. n : j # q => Len(d[j]) \in 1 .. 2 * kd /\ Len(d[j]) >= kd
  BY <1>3 DEF FullData
<1>5. kd \in 1 .. 2 * kd /\ kd >= kd
  BY BTreeAssumption DEF BTreeAssumption
<1> HIDE DEF e, n
<1>6. ASSUME NEW j \in 1 .. n + 1 PROVE Len(e[j]) \in 1 .. 2 * kd /\ Len(e[j]) >= kd
  <2>1. j = q \/ j = q + 1 \/ j \in 1 .. q - 1 \/ j - 1 \in q + 1 .. n
    BY <1>3
  <2>2. CASE j = q \/ j = q + 1
    BY <1>1, <1>5, <2>2
  <2>3. CASE j \in 1 .. q - 1
    <3>1. j \in 1 .. n /\ j # q
      BY <1>3, <2>3
    <3> QED
      BY <1>2, <1>4, <2>3, <3>1
  <2>4. CASE j - 1 \in q + 1 .. n
    <3> DEFINE h == j - 1
    <3>1. h \in 1 .. n /\ h # q /\ h + 1 = j /\ h \in q + 1 .. n
      BY <1>3, <2>4
    <3> HIDE DEF h
    <3>2. e[j] = d[h]
      BY <1>2, <3>1
    <3> QED
      BY <1>4, <3>1, <3>2
  <2> QED
    BY <2>1, <2>2, <2>3, <2>4
<1>7. FullData(e, R)
  BY <1>1, <1>6 DEF FullData
<1> QED
  BY <1>7 DEF e

(* Once page q is two, the key goes into the one it belongs in.            *)
HalfDone(t, q, i, k, u) ==
  IF i > kd THEN SetDone(t, k, Insert(u, q + 1, i - kd, k)) ELSE SetDone(t, k, Insert(u, q, i, k))

(* With the key inserted into the half it belongs to, Set is done.         *)
LEMMA HalvesDone ==
  ASSUME NEW t, t.d \in Seq(Seq(Key)), NEW q \in 1 .. Len(t.d), Len(t.d[q]) = 2 * kd,
         NEW i, NEW k, Fits(t.d, q, i, k),
         NEW u, NEW S, Keeps(t, u, S), Full(u), u.d = HalvedData(t.d, q)
  PROVE  HalfDone(t, q, i, k, u)
<1> DEFINE e == HalvedData(t.d, q)
           w == Len(t.d[q])
<1>1. Halves(t.d, e, q) /\ Len(e[q]) = kd /\ Len(e[q + 1]) = kd
  BY HalvedPage
<1>2. i \in 0 .. w /\ kd \in Nat \ {0} /\ w = 2 * kd
  BY BTreeAssumption DEF BTreeAssumption, Fits
<1>3. Sound(u, S) /\ kd < 2 * kd
  BY <1>2 DEF Keeps
<1> HIDE DEF w, e
<1>4. ASSUME i > kd PROVE SetDone(t, k, Insert(u, q + 1, i - kd, k))
  <2>1. i >= Len(e[q])
    BY <1>1, <1>2, <1>4
  <2>2. Fits(e, q + 1, i - Len(e[q]), k)
    BY <1>1, <2>1, FitsRight
  <2>3. Fits(u.d, q + 1, i - kd, k) /\ Len(u.d[q + 1]) < 2 * kd
    BY <1>1, <1>3, <2>2 DEF e
  <2>4. SetDone(u, k, Insert(u, q + 1, i - kd, k))
    BY <1>3, <2>3, RoomDone
  <2> QED
    BY <2>4, DoneAfter
<1>5. ASSUME ~ (i > kd) PROVE SetDone(t, k, Insert(u, q, i, k))
  <2>1. i <= Len(e[q])
    BY <1>1, <1>2, <1>5
  <2>2. Fits(e, q, i, k)
    BY <1>1, <2>1, FitsLeft
  <2>3. Fits(u.d, q, i, k) /\ Len(u.d[q]) < 2 * kd
    BY <1>1, <1>3, <2>2 DEF e
  <2>4. SetDone(u, k, Insert(u, q, i, k))
    BY <1>3, <2>3, RoomDone
  <2> QED
    BY <2>4, DoneAfter
<1> QED
  BY <1>4, <1>5 DEF HalfDone

(* The halved tree has the keys it had.                                    *)
LEMMA HalvedKeeps ==
  ASSUME NEW t, NEW s, Sound(t, s), NEW q \in 1 .. Len(t.d), Len(t.d[q]) = 2 * kd,
         NEW u, NEW r, NEW x, Is(u, t.c, r, HalvedData(t.d, q), x), NEW S, Laid(Len(t.d) + 1, r, x, S)
  PROVE  Keeps(t, u, S)
<1> DEFINE e == HalvedData(t.d, q)
           n == Len(t.d)
<1>1. t.d \in Seq(Seq(Key)) /\ Ordered(t.d)
  BY DEF Sound
<1>2. Halves(t.d, e, q) /\ Len(e) = n + 1
  BY <1>1, HalvedPage
<1>3. e \in Seq(Seq(Key))
  BY <1>2 DEF Halves
<1>4. KeysOf(e) = KeysOf(t.d) /\ Ordered(e)
  BY <1>1, <1>2, HalvesKeys
<1>5. n \in Nat /\ n + 1 >= 1
  <2>1. n \in Nat
    BY <1>1, Elements
  <2> HIDE DEF n
  <2> QED
    BY <2>1
<1> HIDE DEF e, n
<1>6. Fields(u) /\ u.c = t.c /\ u.d = e /\ u.r = r /\ u.x = x
  BY DEF Is, e
<1>7. Laid(Len(u.d), u.r, u.x, S)
  BY <1>2, <1>6 DEF n
<1> QED
  BY <1>2, <1>3, <1>4, <1>5, <1>6, <1>7, SoundKept

(* q is child pi of index page p.                                          *)
Under(x, p, pi, q) ==
  p \in DOMAIN x /\ pi \in 0 .. Len(x[p].sep) /\ x[p].ch[pi + 1] = q

(* There is room for a separator more in p.                                *)
LEMMA SplitIndex ==
  ASSUME NEW n, NEW r, NEW x, NEW s, Laid(n, r, x, s), FullIndex(x, r),
         NEW p, NEW pi, NEW q, Under(x, p, pi, Data(q)), Len(x[p].sep) <= 2 * kx
  PROVE  FullIndex(SplitPages(x, p, q, pi), r)
<1> DEFINE y == SplitPages(x, p, q, pi)
<1>1. DOMAIN y = DOMAIN x
  BY DEF SplitPages
<1>2. p \in DOMAIN x /\ pi \in 0 .. Len(x[p].sep)
  BY DEF Under
<1>3. ASSUME NEW m \in DOMAIN x PROVE Len(PageUp(q, x[m]).sep) = Len(x[m].sep)
  <2> DEFINE l == Len(x[m].sep)
  <2>1. l \in Nat /\ DOMAIN x[m].sep = 1 .. l
    BY PageType
  <2>2. PageUp(q, x[m]).sep = [j \in 1 .. l |-> Up(q, x[m].sep[j])]
    BY <2>1 DEF PageUp
  <2>3. \A j \in 1 .. l : x[m].sep[j] \in 1 .. n
    BY PageType
  <2>4. n \in Nat
    BY PageType
  <2> DEFINE g == [j \in 1 .. l |-> Up(q, x[m].sep[j])]
  <2>5. g \in [1 .. l -> {Up(q, x[m].sep[j]) : j \in 1 .. l}]
    OBVIOUS
  <2> HIDE DEF l, g
  <2>6. Len(g) = l
    BY <2>1, <2>5, FunctionSeq
  <2> QED
    BY <2>2, <2>6 DEF l, g
<1>4. Len(y[p].sep) = Len(x[p].sep) + 1
  <2> DEFINE U == PageUp(q, x[p])
             l == Len(x[p].sep)
  <2>1. l \in Nat /\ DOMAIN x[p].sep = 1 .. l
    BY <1>2, PageType
  <2>2. y[p].sep = InsertAt(U.sep, pi + 1, q + 1)
    BY <1>2 DEF SplitPages, XInsert
  <2>3. Len(U.sep) = l
    BY <1>2, <1>3
  <2> DEFINE B == {Up(q, x[p].sep[j]) : j \in 1 .. l} \cup {q + 1}
             g == U.sep
  <2>4. g \in [1 .. l -> B]
    BY <2>1 DEF PageUp
  <2>5. pi \in 0 .. l
    BY <1>2
  <2> HIDE DEF l, U
  <2>6. q + 1 \in B
    OBVIOUS
  <2> HIDE DEF B, g
  <2>7. g \in Seq(B) /\ Len(g) = l
    BY <2>1, <2>4, FunctionSeq
  <2>8. PutIn(B, g, l, pi, q + 1, InsertAt(g, pi + 1, q + 1))
    BY <2>5, <2>6, <2>7, InsertedAs
  <2>9. Len(InsertAt(g, pi + 1, q + 1)) = l + 1
    BY <2>8 DEF PutIn
  <2> QED
    BY <2>2, <2>9 DEF l, g
<1>5. \A m \in DOMAIN x : Len(x[m].sep) \in 1 .. 2 * kx + 1 /\ (Len(x[m].sep) >= kx - 1 \/ r = Index(m))
  BY DEF FullIndex
<1>6. kx \in Nat
  BY BTreeAssumption DEF BTreeAssumption
<1>7. ASSUME NEW m \in DOMAIN x
      PROVE  Len(y[m].sep) \in 1 .. 2 * kx + 1 /\ (Len(y[m].sep) >= kx - 1 \/ r = Index(m))
  <2>1. CASE m = p
    <3> DEFINE l == Len(x[p].sep)
    <3>1. l \in 1 .. 2 * kx + 1 /\ l <= 2 * kx /\ (l >= kx - 1 \/ r = Index(p))
      BY <1>5, <2>1
    <3>2. Len(y[p].sep) = l + 1
      BY <1>4
    <3> HIDE DEF l, y
    <3>3. l + 1 \in 1 .. 2 * kx + 1 /\ (l >= kx - 1 => l + 1 >= kx - 1)
      BY <1>6, <3>1
    <3> QED
      BY <2>1, <3>1, <3>2, <3>3
  <2>2. CASE m # p
    <3>1. y[m] = PageUp(q, x[m])
      BY <2>2 DEF SplitPages
    <3> HIDE DEF y
    <3> QED
      BY <1>3, <1>5, <3>1
  <2> QED
    BY <2>1, <2>2
<1> HIDE DEF y
<1>8. FullIndex(y, r)
  BY <1>1, <1>7 DEF FullIndex
<1> QED
  BY <1>8 DEF y

(* Set is done by a split below an index page with room.                   *)
LEMMA SplitDone ==
  ASSUME NEW t, NEW s, Sound(t, s), Full(t), NEW p, NEW pi, NEW q, Under(t.x, p, pi, Data(q)),
         Len(t.x[p].sep) <= 2 * kx, q \in 1 .. Len(t.d), Len(t.d[q]) = 2 * kd,
         NEW i, NEW k, Fits(t.d, q, i, k)
  PROVE  SetDone(t, k, Split(t, p, q, pi, i, k))
<1> DEFINE n == Len(t.d)
           u == LinkedTree(t, p, q, pi)
           y == SplitPages(t.x, p, q, pi)
           S == SpansUp(q, s)
<1>1. /\ Fields(t) /\ t.d \in Seq(Seq(Key)) /\ Laid(n, t.r, t.x, s)
      /\ FullData(t.d, t.r) /\ FullIndex(t.x, t.r)
  BY DEF Sound, Full
<1>2. p \in DOMAIN t.x /\ pi \in 0 .. Len(t.x[p].sep) /\ t.x[p].ch[pi + 1] = Data(q)
  BY DEF Under
<1>3. t.r.at = "x" /\ t.r = Index(t.r.no)
  BY <1>1, <1>2, RootIndex
<1>4. MovedUp(q, t.r) = t.r
  BY <1>3 DEF MovedUp
<1>5. pi \in Nat
  <2> DEFINE l == Len(t.x[p].sep)
  <2>1. l \in Nat /\ pi \in 0 .. l
    BY <1>1, <1>2, PageType
  <2> HIDE DEF l
  <2> QED
    BY <2>1
<1>6. Is(u, t.c, t.r, HalvedData(t.d, q), y)
  BY <1>1, <1>2, <1>4, <1>5, LinkedParts
<1>7. q \in 1 .. n
  OBVIOUS
<1>8. Laid(n + 1, t.r, y, S)
  <2> HIDE DEF n
  <2> QED
    BY <1>1, <1>2, <1>7, LaidSplit
<1> HIDE DEF u, y, S
<1>9. Keeps(t, u, S)
  BY <1>6, <1>8, HalvedKeeps
<1>10. Full(u)
  <2>1. \A j \in 1 .. n : t.r = Data(j) => j = q
    BY <1>3 DEF Data
  <2>2. FullData(HalvedData(t.d, q), t.r)
    BY <1>1, <2>1, HalvedFull
  <2>3. FullIndex(y, t.r)
    BY <1>1, SplitIndex DEF y
  <2> QED
    BY <1>6, <2>2, <2>3 DEF Full, Is
<1>11. HalfDone(t, q, i, k, u)
  <2>1. u.d = HalvedData(t.d, q)
    BY <1>6 DEF Is
  <2> QED
    BY <1>1, <1>9, <1>10, <2>1, HalvesDone
<1>12. Split(t, p, q, pi, i, k) =
         IF i > kd THEN Insert(u, q + 1, i - kd, k) ELSE Insert(u, q, i, k)
  BY SplitAs DEF u
<1> QED
  BY <1>11, <1>12 DEF HalfDone

(* The only page of the tree is split, under a new root.                   *)
LEMMA RootData ==
  ASSUME NEW n, NEW x, NEW s, NEW q, Laid(n, Data(q), x, s)
  PROVE  n = 1 /\ q = 1 /\ DOMAIN x = {}
<1>1. From(s, Data(q)) = 1 /\ To(s, Data(q)) = n
  BY DEF Laid, Rooted
<1>2. q = 1 /\ n = 1
  BY <1>1, Pointing
<1>3. DOMAIN x = {}
  <2> SUFFICES ASSUME NEW m \in DOMAIN x PROVE FALSE
    OBVIOUS
  <2>1. Data(q).at = "x"
    BY RootIndex
  <2> QED
    BY <2>1 DEF Data
<1> QED
  BY <1>2, <1>3

(* Set is done by the split of the only data page, which makes a root.     *)
LEMMA SplitRootDone ==
  ASSUME NEW t, NEW s, Sound(t, s), Full(t), NEW q, t.r = Data(q), NEW p,
         Len(t.d[q]) = 2 * kd, NEW i, NEW k, Fits(t.d, q, i, k)
  PROVE  SetDone(t, k, Split(t, p, q, -1, i, k))
<1> DEFINE n == Len(t.d)
           h == HalvedTree(t, q)
           f == FreeIndex(h)
           u == LinkedTree(t, p, q, -1)
           S == [m \in {f} |-> [lo |-> 1, hi |-> 2, ht |-> 1]]
           y == TwoPages(h.x, f)
<1>1. /\ Fields(t) /\ t.d \in Seq(Seq(Key)) /\ Laid(n, Data(q), t.x, s)
      /\ FullData(t.d, t.r) /\ FullIndex(t.x, t.r)
  BY DEF Sound, Full
<1>2. n = 1 /\ q = 1 /\ DOMAIN t.x = {}
  BY <1>1, RootData
<1>3. Is(h, t.c, MovedUp(q, t.r), HalvedData(t.d, q), [m \in DOMAIN t.x |-> PageUp(q, t.x[m])])
  BY <1>1, HalvedParts
<1>4. DOMAIN h.x = {}
  BY <1>2, <1>3 DEF Is
<1>5. f \in Nat \ {0}
  <2>1. IsFiniteSet(DOMAIN h.x)
    BY <1>4, FS_EmptySet
  <2> HIDE DEF h
  <2> QED
    BY <2>1, FreeIndexNew
<1>6. Is(u, t.c, Index(f), HalvedData(t.d, q), y)
  <2>1. u = NewRoot(h, Data(q), q + 1, Data(q + 1))
    BY DEF LinkedTree
  <2> HIDE DEF h
  <2>2. u = [h EXCEPT !.r = Index(f), !.x = WithPage(@, f, [sep |-> <<q + 1>>, ch |-> <<Data(q), Data(q + 1)>>])]
    BY <2>1 DEF NewRoot
  <2>3. q + 1 = 2
    BY <1>2
  <2>4. u = [h EXCEPT !.r = Index(f), !.x = TwoPages(@, f)]
    BY <1>2, <2>2, <2>3 DEF TwoPages
  <2> HIDE DEF u, f
  <2> QED
    BY <1>3, <2>4 DEF Is, Fields
<1>7. Laid(2, Index(f), y, S) /\ FullIndex(y, Index(f))
  <2> HIDE DEF f, h
  <2> QED
    BY <1>4, <1>5, LaidTwo
<1>8. Laid(Len(t.d) + 1, Index(f), y, S)
  BY <1>2, <1>7
<1>9. q \in 1 .. Len(t.d)
  BY <1>2
<1> HIDE DEF u, y, S, f
<1>10. Keeps(t, u, S)
  BY <1>6, <1>8, <1>9, HalvedKeeps
<1>11. Full(u)
  <2>1. \A j \in 1 .. Len(t.d) : t.r = Data(j) => j = q
    BY <1>2
  <2>2. FullData(HalvedData(t.d, q), Index(f))
    BY <1>1, <1>9, <2>1, HalvedFull
  <2> QED
    BY <1>6, <1>7, <2>2 DEF Full, Is
<1>12. HalfDone(t, q, i, k, u)
  <2>1. u.d = HalvedData(t.d, q)
    BY <1>6 DEF Is
  <2> QED
    BY <1>1, <1>9, <1>10, <1>11, <2>1, HalvesDone
<1>13. Split(t, p, q, -1, i, k) =
         IF i > kd THEN Insert(u, q + 1, i - kd, k) ELSE Insert(u, q, i, k)
  BY SplitAs DEF u
<1> QED
  BY <1>12, <1>13 DEF HalfDone

-----------------------------------------------------------------------------
(* Overflow.                                                               *)

(* The data pages on either side of child pi of p.                         *)
LEMMA DataNeighbours ==
  ASSUME NEW n, NEW r, NEW x, NEW s, Laid(n, r, x, s), NEW p, NEW pi, NEW q, Under(x, p, pi, Data(q))
  PROVE  /\ pi \in Nat /\ q \in 1 .. n
         /\ pi > 0 => /\ x[p].ch[pi] = Data(q - 1) /\ q - 1 \in 1 .. n - 1
         /\ pi < Len(x[p].sep) => /\ x[p].ch[pi + 2] = Data(q + 1) /\ q \in 1 .. n - 1
<1> DEFINE w == Len(x[p].sep)
           ch == x[p].ch
<1>1. p \in DOMAIN x /\ pi \in 0 .. w /\ ch[pi + 1] = Data(q)
  BY DEF Under
<1>2. w \in Nat /\ n \in Nat /\ \A i \in 1 .. w + 1 : ch[i] \in PagesOf(n, x)
  BY <1>1, PageType
<1>3. pi \in Nat /\ pi + 1 \in 1 .. w + 1
  <2> HIDE DEF w
  <2> QED
    BY <1>1, <1>2
<1>4. q \in 1 .. n
  <2>1. Data(q) \in PagesOf(n, x)
    BY <1>1, <1>2, <1>3
  <2> QED
    BY <2>1, PointerKinds DEF Data, Index
<1>5. ASSUME pi > 0 PROVE ch[pi] = Data(q - 1) /\ q - 1 \in 1 .. n - 1
  <2>1. pi \in 1 .. w
    <3> HIDE DEF w
    <3> QED
      BY <1>1, <1>2, <1>5
  <2>2. x[p].ch[pi].at = "d" \/ x[p].ch[pi + 1].at = "d"
    BY <1>1 DEF Data
  <2>3. \E l \in 1 .. n - 1 : x[p].ch[pi] = Data(l) /\ x[p].ch[pi + 1] = Data(l + 1)
    BY <1>1, <2>1, <2>2, DataSiblings
  <2>4. PICK l \in 1 .. n - 1 : ch[pi] = Data(l) /\ ch[pi + 1] = Data(l + 1)
    BY <2>3
  <2>5. q = l + 1
    BY <1>1, <2>4 DEF Data
  <2>6. q - 1 = l
    BY <1>2, <2>5
  <2> QED
    BY <2>4, <2>6
<1>6. ASSUME pi < w PROVE ch[pi + 2] = Data(q + 1) /\ q \in 1 .. n - 1
  <2> DEFINE j == pi + 1
  <2>1. j \in 1 .. w /\ j + 1 = pi + 2
    <3> HIDE DEF w
    <3> QED
      BY <1>2, <1>3, <1>6
  <2>2. x[p].ch[j].at = "d" \/ x[p].ch[j + 1].at = "d"
    BY <1>1 DEF Data
  <2>3. \E l \in 1 .. n - 1 : x[p].ch[j] = Data(l) /\ x[p].ch[j + 1] = Data(l + 1)
    BY <1>1, <2>1, <2>2, DataSiblings
  <2>4. PICK l \in 1 .. n - 1 : ch[j] = Data(l) /\ ch[j + 1] = Data(l + 1)
    BY <2>3
  <2>5. q = l
    BY <1>1, <2>4 DEF Data
  <2> QED
    BY <2>1, <2>4, <2>5
<1> QED
  BY <1>3, <1>4, <1>5, <1>6

(* Set is done by overflow, below an index page with room, whichever       *)
(* sibling has room.                                                       *)
LEMMA OverflowDone ==
  ASSUME NEW t, NEW s, Sound(t, s), Full(t), NEW p, NEW pi, NEW q, Under(t.x, p, pi, Data(q)),
         Len(t.x[p].sep) <= 2 * kx, Len(t.d[q]) = 2 * kd,
         NEW i, NEW k, Fits(t.d, q, i, k), Bracket(t.d, s, Data(q), k)
  PROVE  SetDone(t, k, Overflow(t, p, q, pi, i, k))
<1> DEFINE n == Len(t.d)
           w == Len(t.x[p].sep)
           l == t.x[p].ch[pi].no
           r == t.x[p].ch[pi + 2].no
           hasL == pi > 0
           hasR == pi >= 0 /\ pi < w
           u == Overflow(t, p, q, pi, i, k)
<1>1. t.d \in Seq(Seq(Key)) /\ Laid(n, t.r, t.x, s) /\ FullData(t.d, t.r)
  BY DEF Sound, Full
<1>2. /\ pi \in Nat /\ q \in 1 .. n
      /\ pi > 0 => t.x[p].ch[pi] = Data(q - 1) /\ q - 1 \in 1 .. n - 1
      /\ pi < w => t.x[p].ch[pi + 2] = Data(q + 1) /\ q \in 1 .. n - 1
  BY <1>1, DataNeighbours
<1>3. n \in Nat /\ DOMAIN t.d = 1 .. n
  BY <1>1, Elements
<1>4. t.r.at = "x"
  <2>1. p \in DOMAIN t.x
    BY DEF Under
  <2> QED
    BY <1>1, <2>1, RootIndex
<1>5. kd \in Nat \ {0}
  BY BTreeAssumption DEF BTreeAssumption
<1>6. ASSUME NEW j \in 1 .. n PROVE Len(t.d[j]) \in kd .. 2 * kd
  <2>1. t.r # Data(j)
    BY <1>4 DEF Data
  <2>2. Len(t.d[j]) \in 1 .. 2 * kd /\ Len(t.d[j]) >= kd
    BY <1>1, <1>3, <2>1 DEF FullData
  <2> QED
    BY <1>5, <2>2
<1>7. i \in 0 .. Len(t.d[q])
  BY DEF Fits
<1>8. CASE hasL /\ Len(t.d[l]) < 2 * kd
  <2>1. pi > 0
    BY <1>8
  <2>2. u = Insert(MvL(t, l, q, 1), q, i - 1, k)
    BY <1>8 DEF Overflow
  <2>3. l = q - 1 /\ l \in 1 .. n - 1 /\ q = l + 1
    BY <1>2, <1>3, <2>1 DEF Data
  <2>4. Len(t.d[l]) \in kd .. 2 * kd
    <3>1. l \in 1 .. n
      BY <1>3, <2>3
    <3> QED
      BY <1>6, <3>1
  <2>5. i >= 1
    <3>1. From(s, Data(q)) = q /\ q > 1
      <4>1. q > 1
        BY <1>2, <2>1
      <4> QED
        BY <4>1, Pointing
    <3>2. t.d[q][1] <= k
      BY <3>1 DEF Bracket
    <3>3. Len(t.d[q]) >= 1
      BY <1>5
    <3> QED
      BY <1>1, <3>2, <3>3, NotFirst
  <2>6. Len(t.d[l]) < 2 * kd
    BY <1>8
  <2> HIDE DEF l, u
  <2>7. SetDone(t, k, Insert(MvL(t, l, q, 1), q, i - 1, k))
    BY <2>3, <2>4, <2>5, <2>6, LeftDone
  <2> QED
    BY <2>2, <2>7 DEF u
<1>9. CASE ~ (hasL /\ Len(t.d[l]) < 2 * kd) /\ hasR /\ Len(t.d[r]) < 2 * kd
  <2>1. pi < w
    BY <1>9
  <2>2. u = IF i < 2 * kd THEN Insert(MvR(t, q, r, 1), q, i, k) ELSE Insert(t, r, 0, k)
    BY <1>9 DEF Overflow
  <2>3. r = q + 1 /\ q \in 1 .. n - 1
    BY <1>2, <2>1 DEF Data
  <2>4. Len(t.d[r]) \in kd .. 2 * kd
    <3>1. r \in 1 .. n
      BY <1>3, <2>3
    <3> QED
      BY <1>6, <3>1
  <2>5. Len(t.d[r]) < 2 * kd
    BY <1>9
  <2> HIDE DEF r, u
  <2>6. ASSUME i < 2 * kd PROVE SetDone(t, k, u)
    <3>1. SetDone(t, k, Insert(MvR(t, q, r, 1), q, i, k))
      BY <2>3, <2>4, <2>5, <2>6, RightDone
    <3> QED
      BY <2>2, <2>6, <3>1
  <2>7. ASSUME ~ (i < 2 * kd) PROVE SetDone(t, k, u)
    <3>1. i = Len(t.d[q])
      BY <1>5, <1>7, <2>7
    <3>2. SetDone(t, k, Insert(t, r, 0, k))
      BY <2>3, <2>5, <3>1, NextDone
    <3> QED
      BY <2>2, <2>7, <3>2
  <2> QED
    BY <2>6, <2>7 DEF u
<1>10. CASE ~ (hasL /\ Len(t.d[l]) < 2 * kd) /\ ~ (hasR /\ Len(t.d[r]) < 2 * kd)
  <2>1. u = Split(t, p, q, pi, i, k)
    BY <1>10 DEF Overflow
  <2> HIDE DEF u
  <2> QED
    BY <1>2, <2>1, SplitDone DEF u
<1> QED
  BY <1>8, <1>9, <1>10

(* Set is done by the overflow of the only data page.                      *)
LEMMA OverflowRootDone ==
  ASSUME NEW t, NEW s, Sound(t, s), Full(t), NEW p, NEW q, t.r = Data(q),
         Len(t.d[q]) = 2 * kd, NEW i, NEW k, Fits(t.d, q, i, k)
  PROVE  SetDone(t, k, Overflow(t, p, q, -1, i, k))
<1>1. Overflow(t, p, q, -1, i, k) = Split(t, p, q, -1, i, k)
  <2>1. ~ (-1 > 0) /\ ~ (-1 >= 0)
    OBVIOUS
  <2> QED
    BY <2>1 DEF Overflow
<1> QED
  BY <1>1, SplitRootDone

-----------------------------------------------------------------------------
(* SplitX.                                                                 *)

(* Child c of a page is child i of page m now, over the same data pages.   *)
Carried(s, c, y, m, i, S) ==
  Under(y, m, i, c) /\ From(S, c) = From(s, c) /\ To(S, c) = To(s, c)

(* How many separators the pages have when page m is cut at separator j.   *)
CutSizes(x, p, m, f, j, y) ==
  /\ DOMAIN y = DOMAIN x \cup {f}
  /\ Len(y[m].sep) = j - 1 /\ Len(y[f].sep) = Len(x[m].sep) - j
  /\ Len(y[p].sep) = Len(x[p].sep) + 1
  /\ p # m /\ f # m /\ f # p
  /\ \A l \in DOMAIN x : l # m /\ l # p => y[l] = x[l]

(* The parts of page P, of w separators, on either side of separator j.    *)
PartsOf(A, B, P, w, j, L, R) ==
  /\ L.sep \in Seq(A) /\ R.sep \in Seq(A) /\ L.ch \in Seq(B) /\ R.ch \in Seq(B)
  /\ Len(L.sep) = j - 1 /\ Len(R.sep) = w - j
  /\ \A i \in 1 .. j - 1 : L.sep[i] = P.sep[i]
  /\ \A i \in 1 .. w - j : R.sep[i] = P.sep[j + i]
  /\ Len(L.ch) = j /\ Len(R.ch) = w + 1 - j
  /\ \A i \in 1 .. j : L.ch[i] = P.ch[i]
  /\ \A i \in 1 .. w + 1 - j : R.ch[i] = P.ch[j + i]

(* The two parts of a page that is cut before separator j.                 *)
LEMMA CutParts ==
  ASSUME NEW A, NEW B, NEW P, P.sep \in Seq(A), P.ch \in Seq(B), NEW w \in Nat, Len(P.sep) = w,
         Len(P.ch) = w + 1, NEW j \in 1 .. w
  PROVE  PartsOf(A, B, P, w, j, LeftPart(P, j), RightPart(P, j))
<1> DEFINE L == LeftPart(P, j)
           R == RightPart(P, j)
           o == j + 1
           a == j - 1
           b == w - j
           c == w + 1 - j
           v == w + 1
<1>1. /\ o \in Nat \ {0} /\ a \in Nat /\ b \in Nat /\ c \in Nat /\ j \in Nat
      /\ 1 + a - 1 = a /\ 1 + a - 1 <= w /\ 1 + j - 1 = j /\ 1 + j - 1 <= v
      /\ o + b - 1 = w /\ o + b - 1 <= w /\ o + c - 1 = v /\ o + c - 1 <= v
      /\ a = j - 1 /\ o = j + 1 /\ w \in Nat /\ j \in Int
      /\ 1 \in Nat \ {0}
  OBVIOUS
<1>2. L.sep = SubSeq(P.sep, 1, a) /\ L.ch = SubSeq(P.ch, 1, j)
  BY DEF LeftPart
<1>3. R.sep = SubSeq(P.sep, o, w) /\ R.ch = SubSeq(P.ch, o, v)
  BY DEF RightPart
<1> HIDE DEF L, R, o, a, b, c, v
<1>4. Slice(A, P.sep, 1, a, SubSeq(P.sep, 1, a))
  BY <1>1, Sliced
<1>5. Slice(B, P.ch, 1, j, SubSeq(P.ch, 1, j))
  <2>1. Len(P.ch) = v
    BY DEF v
  <2> QED
    BY <1>1, <2>1, Sliced
<1>6. Slice(A, P.sep, o, b, SubSeq(P.sep, o, w))
  BY <1>1, Sliced
<1>7. Slice(B, P.ch, o, c, SubSeq(P.ch, o, v))
  <2>1. Len(P.ch) = v
    BY DEF v
  <2> QED
    BY <1>1, <2>1, Sliced
<1>8. /\ \A i \in 1 .. a : 1 + i - 1 = i
      /\ \A i \in 1 .. j : 1 + i - 1 = i
      /\ \A i \in 1 .. b : o + i - 1 = j + i
      /\ \A i \in 1 .. c : o + i - 1 = j + i
  BY <1>1
<1>9. Len(L.sep) = a /\ \A i \in 1 .. a : L.sep[i] = P.sep[i]
  BY <1>2, <1>4, <1>8 DEF Slice
<1>10. Len(L.ch) = j /\ \A i \in 1 .. j : L.ch[i] = P.ch[i]
  BY <1>2, <1>5, <1>8 DEF Slice
<1>11. Len(R.sep) = b /\ \A i \in 1 .. b : R.sep[i] = P.sep[j + i]
  BY <1>3, <1>6, <1>8 DEF Slice
<1>12. Len(R.ch) = c /\ \A i \in 1 .. c : R.ch[i] = P.ch[j + i]
  BY <1>3, <1>7, <1>8 DEF Slice
<1>0. L.sep \in Seq(A) /\ R.sep \in Seq(A) /\ L.ch \in Seq(B) /\ R.ch \in Seq(B)
  BY <1>2, <1>3, <1>4, <1>5, <1>6, <1>7 DEF Slice
<1>13. PartsOf(A, B, P, w, j, L, R)
  BY <1>0, <1>9, <1>10, <1>11, <1>12 DEF PartsOf, a, b, c
<1> QED
  BY <1>13 DEF L, R

(* The same of an index page of the tree.                                  *)
LEMMA LaidParts ==
  ASSUME NEW n, NEW r, NEW x, NEW s, Laid(n, r, x, s), NEW m \in DOMAIN x, NEW j \in 1 .. Len(x[m].sep)
  PROVE  PartsOf(1 .. n, PagesOf(n, x), x[m], Len(x[m].sep), j, LeftPart(x[m], j), RightPart(x[m], j))
<1> DEFINE P == x[m]
           w == Len(P.sep)
<1>1. w \in Nat /\ Len(P.ch) = w + 1
  BY PageType
<1>2. P.sep \in Seq(1 .. n) /\ P.ch \in Seq(PagesOf(n, x))
  BY DEF Laid, Typed
<1>3. j \in 1 .. w
  OBVIOUS
<1> HIDE DEF P
<1>4. Len(P.sep) = w
  OBVIOUS
<1> HIDE DEF w
<1>5. PartsOf(1 .. n, PagesOf(n, x), P, w, j, LeftPart(P, j), RightPart(P, j))
  BY <1>1, <1>2, <1>3, <1>4, CutParts
<1> QED
  BY <1>5 DEF P, w

(* How many separators the pages have when m is cut.                       *)
LEMMA Sizes ==
  ASSUME NEW n, NEW r, NEW x, NEW s, Laid(n, r, x, s), NEW p, NEW pi, NEW m, NEW f, NEW j,
         Cuttable(x, p, pi, m, f, j)
  PROVE  CutSizes(x, p, m, f, j, CutPages(x, p, pi, m, f, j))
<1> DEFINE y == CutPages(x, p, pi, m, f, j)
           w == Len(x[p].sep)
<1>1. /\ p \in DOMAIN x /\ pi \in 0 .. w /\ m \in DOMAIN x /\ j \in 1 .. Len(x[m].sep)
      /\ f \notin DOMAIN x
  BY DEF Cuttable
<1>2. p # m /\ f # p /\ f # m /\ x[m].sep[j] \in 1 .. n
  <2>1. CutPlace(n, x, s, p, m, f, j)
    BY CutFacts
  <2> QED
    BY <2>1 DEF CutPlace
<1>3. /\ y[p] = XInsert(x[p], pi, x[m].sep[j], Index(f))
      /\ y[m] = LeftPart(x[m], j) /\ y[f] = RightPart(x[m], j)
      /\ DOMAIN y = DOMAIN x \cup {f}
      /\ \A l \in DOMAIN x : l # m /\ l # p => y[l] = x[l]
  BY <1>1, <1>2 DEF CutPages
<1>4. PartsOf(1 .. n, PagesOf(n, x), x[m], Len(x[m].sep), j, LeftPart(x[m], j), RightPart(x[m], j))
  BY <1>1, LaidParts
<1>5. Len(y[m].sep) = j - 1 /\ Len(y[f].sep) = Len(x[m].sep) - j
  BY <1>3, <1>4 DEF PartsOf
<1>6. Len(y[p].sep) = w + 1
  <2> DEFINE g == x[p].sep
             e == x[m].sep[j]
  <2>1. g \in Seq(1 .. n) /\ e \in 1 .. n
    BY <1>1, <1>2 DEF Laid, Typed
  <2>2. y[p].sep = InsertAt(g, pi + 1, e)
    BY <1>3 DEF XInsert
  <2>3. w = Len(g) /\ pi \in 0 .. w
    BY <1>1
  <2> HIDE DEF w, g, e
  <2>4. PutIn(1 .. n, g, w, pi, e, InsertAt(g, pi + 1, e))
    BY <2>1, <2>3, InsertedAs
  <2> QED
    BY <2>2, <2>4 DEF PutIn
<1> HIDE DEF y
<1>7. CutSizes(x, p, m, f, j, y)
  BY <1>2, <1>3, <1>5, <1>6 DEF CutSizes, w
<1> QED
  BY <1>7 DEF y

(* The children of the page that is cut.                                   *)
LEMMA CutCarries ==
  ASSUME NEW n, NEW r, NEW x, NEW s, Laid(n, r, x, s), NEW p, NEW pi, NEW m, NEW f, NEW j,
         Cuttable(x, p, pi, m, f, j), NEW i \in 0 .. Len(x[m].sep),
         NEW y, y = CutPages(x, p, pi, m, f, j), NEW S, S = CutSpans(x, s, m, f, j)
  PROVE  /\ i < j => Carried(s, x[m].ch[i + 1], y, m, i, S)
         /\ i >= j => Carried(s, x[m].ch[i + 1], y, f, i - j, S)
<1> DEFINE w == Len(x[m].sep)
           o == i + 1
           c == x[m].ch[o]
<1>1. p \in DOMAIN x /\ m \in DOMAIN x /\ j \in 1 .. w /\ f \notin DOMAIN x
  BY DEF Cuttable
<1>2. p # m /\ f # p /\ f # m
  <2>1. CutPlace(n, x, s, p, m, f, j)
    BY CutFacts
  <2> QED
    BY <2>1 DEF CutPlace
<1>3. /\ y[m] = LeftPart(x[m], j) /\ y[f] = RightPart(x[m], j)
      /\ DOMAIN y = DOMAIN x \cup {f}
  BY <1>1, <1>2 DEF CutPages
<1>4. PartsOf(1 .. n, PagesOf(n, x), x[m], w, j, LeftPart(x[m], j), RightPart(x[m], j))
  BY <1>1, LaidParts
<1>5. w \in Nat /\ \A h \in 1 .. w + 1 : x[m].ch[h] \in PagesOf(n, x)
  BY <1>1, PageType
<1>6. o \in 1 .. w + 1 /\ i \in 0 .. w
  <2>1. i \in 0 .. w
    OBVIOUS
  <2> HIDE DEF w
  <2> QED
    BY <1>5, <2>1
<1>7. c \in PagesOf(n, x)
  BY <1>5, <1>6
<1>8. c # Index(m)
  <2>1. Height(s, c) = s[m].ht - 1
    BY <1>1, <1>6, KidsInside
  <2>2. Height(s, Index(m)) = s[m].ht
    BY Pointing
  <2>3. s[m].ht \in Nat
    BY <1>1, PageType
  <2> HIDE DEF c
  <2> QED
    BY <2>1, <2>2, <2>3
<1>9. From(S, c) = From(s, c) /\ To(S, c) = To(s, c)
  <2> HIDE DEF c
  <2> QED
    BY <1>7, <1>8, CutKeeps
<1>10. ASSUME i < j PROVE Carried(s, c, y, m, i, S)
  <2>1. Len(y[m].sep) = j - 1 /\ \A h \in 1 .. j : y[m].ch[h] = x[m].ch[h]
    BY <1>3, <1>4 DEF PartsOf
  <2>2. o \in 1 .. j /\ i \in 0 .. j - 1
    <3> HIDE DEF w
    <3> QED
      BY <1>1, <1>5, <1>6, <1>10
  <2>3. i \in 0 .. Len(y[m].sep) /\ y[m].ch[i + 1] = c
    BY <2>1, <2>2
  <2> HIDE DEF c
  <2> QED
    BY <1>1, <1>3, <1>9, <2>3 DEF Carried, Under
<1>11. ASSUME i >= j PROVE Carried(s, c, y, f, i - j, S)
  <2> DEFINE g == i - j
             z == w + 1 - j
             e == g + 1
  <2>1. Len(y[f].sep) = w - j /\ \A h \in 1 .. z : y[f].ch[h] = x[m].ch[j + h]
    BY <1>3, <1>4 DEF PartsOf
  <2>2. e \in 1 .. z /\ g \in 0 .. w - j /\ j + e = o
    <3> HIDE DEF w
    <3> QED
      BY <1>1, <1>5, <1>6, <1>11
  <2>3. g \in 0 .. Len(y[f].sep)
    BY <2>1, <2>2
  <2>4. y[f].ch[e] = c
    <3>1. y[f].ch[e] = x[m].ch[j + e]
      BY <2>1, <2>2
    <3> QED
      BY <2>2, <3>1
  <2>5. f \in DOMAIN y
    BY <1>3
  <2> HIDE DEF c, g
  <2>6. Under(y, f, g, c)
    BY <2>3, <2>4, <2>5 DEF Under
  <2>7. Carried(s, c, y, f, g, S)
    BY <1>9, <2>6 DEF Carried
  <2> QED
    BY <2>7 DEF g
<1> QED
  BY <1>10, <1>11

(* The same data pages under other index pages.                            *)
LEMMA SoundReshaped ==
  ASSUME NEW t, NEW s, Sound(t, s), NEW u, NEW r, NEW y, Is(u, t.c, r, t.d, y),
         NEW S, Laid(Len(t.d), r, y, S)
  PROVE  Keeps(t, u, S)
<1>1. /\ t.d \in Seq(Seq(Key)) /\ Len(t.d) >= 1 /\ Ordered(t.d)
  BY DEF Sound
<1>2. Fields(u) /\ u.c = t.c /\ u.r = r /\ u.d = t.d /\ u.x = y
  BY DEF Is
<1> QED
  BY <1>1, <1>2, SoundKept

(* Data pages that are half full under a root of index pages are so under  *)
(* any.                                                                    *)
LEMMA FullAnyRoot ==
  ASSUME NEW d, NEW r, FullData(d, r), r.at = "x", NEW R
  PROVE  FullData(d, R)
  BY DEF FullData, Data

(* Child c, reached in tree t, is reached in tree u.t, by a page with room *)
(* for a separator.                                                        *)
Reached(t, s, c, u, S) ==
  Keeps(t, u.t, S) /\ Full(u.t) /\ u.t.d = t.d /\ Carried(s, c, u.t.x, u.x, u.i, S)
SetOn(t, s, c, u) == \E S : Reached(t, s, c, u, S) /\ Len(u.t.x[u.x].sep) <= 2 * kx

(* The halves of a full index page.                                        *)
SplitHalves(x, m, f) ==
  WithPage([x EXCEPT ![m] = [sep |-> SubSeq(x[m].sep, 1, kx),
                             ch  |-> SubSeq(x[m].ch, 1, kx + 1)]],
           f, [sep |-> SubSeq(x[m].sep, kx + 2, 2 * kx + 1),
               ch  |-> SubSeq(x[m].ch, kx + 2, 2 * kx + 2)])

(* The index pages after splitX cut page m in the middle.                  *)
PartedPages(x, m, f) ==
  [l \in DOMAIN x \cup {f} |->
     IF l = f THEN RightPart(x[m], kx + 1)
     ELSE IF l = m THEN LeftPart(x[m], kx + 1) ELSE x[l]]

(* The halves that splitX makes are the parts of the cut in the middle.    *)
LEMMA HalvesAre ==
  ASSUME NEW x, NEW m \in DOMAIN x, NEW f, f \notin DOMAIN x,
         Len(x[m].sep) = 2 * kx + 1, Len(x[m].ch) = 2 * kx + 2
  PROVE  SplitHalves(x, m, f) = PartedPages(x, m, f)
<1>1. kx \in Nat
  BY BTreeAssumption DEF BTreeAssumption
<1>2. (kx + 1) - 1 = kx /\ (kx + 1) + 1 = kx + 2
  BY <1>1
<1>3. LeftPart(x[m], kx + 1) = [sep |-> SubSeq(x[m].sep, 1, kx), ch |-> SubSeq(x[m].ch, 1, kx + 1)]
  BY <1>2 DEF LeftPart
<1>4. RightPart(x[m], kx + 1) = [sep |-> SubSeq(x[m].sep, kx + 2, 2 * kx + 1),
                                 ch |-> SubSeq(x[m].ch, kx + 2, 2 * kx + 2)]
  BY <1>2 DEF RightPart
<1> DEFINE L == LeftPart(x[m], kx + 1)
           R == RightPart(x[m], kx + 1)
<1>5. SplitHalves(x, m, f) = WithPage([x EXCEPT ![m] = L], f, R)
  BY <1>3, <1>4 DEF SplitHalves
<1> HIDE DEF L, R
<1>6. WithPage([x EXCEPT ![m] = L], f, R) =
        [l \in DOMAIN x \cup {f} |-> IF l = f THEN R ELSE IF l = m THEN L ELSE x[l]]
  BY DEF WithPage
<1> QED
  BY <1>5, <1>6 DEF L, R, PartedPages

(* Full index page m, child pi of p, is cut in the middle.                 *)
LEMMA SplitXPages ==
  ASSUME NEW x, NEW p \in DOMAIN x, NEW m \in DOMAIN x, p # m, NEW f, f \notin DOMAIN x, NEW pi,
         Len(x[m].sep) = 2 * kx + 1, Len(x[m].ch) = 2 * kx + 2
  PROVE  [SplitHalves(x, m, f) EXCEPT ![p] = XInsert(@, pi, x[m].sep[kx + 1], Index(f))] =
           CutPages(x, p, pi, m, f, kx + 1)
<1> DEFINE h == SplitHalves(x, m, f)
           L == LeftPart(x[m], kx + 1)
           R == RightPart(x[m], kx + 1)
           e == x[m].sep[kx + 1]
<1>0. h = PartedPages(x, m, f)
  BY HalvesAre
<1>1. h = [l \in DOMAIN x \cup {f} |-> IF l = f THEN R ELSE IF l = m THEN L ELSE x[l]]
  BY <1>0 DEF PartedPages
<1>2. CutPages(x, p, pi, m, f, kx + 1) =
        [l \in DOMAIN x \cup {f} |->
           IF l = p THEN XInsert(x[p], pi, e, Index(f))
           ELSE IF l = m THEN L ELSE IF l = f THEN R ELSE x[l]]
  BY DEF CutPages
<1> HIDE DEF h, L, R, e
<1>3. p # f /\ m # f
  OBVIOUS
<1>4. h[p] = x[p] /\ DOMAIN h = DOMAIN x \cup {f}
  BY <1>1, <1>3
<1>5. [h EXCEPT ![p] = XInsert(@, pi, e, Index(f))] =
        [l \in DOMAIN x \cup {f} |-> IF l = p THEN XInsert(x[p], pi, e, Index(f)) ELSE h[l]]
  BY <1>4
<1>6. ASSUME NEW l \in DOMAIN x \cup {f}
      PROVE (IF l = p THEN XInsert(x[p], pi, e, Index(f)) ELSE h[l]) =
            (IF l = p THEN XInsert(x[p], pi, e, Index(f))
             ELSE IF l = m THEN L ELSE IF l = f THEN R ELSE x[l])
  BY <1>1, <1>3
<1>7. [h EXCEPT ![p] = XInsert(@, pi, e, Index(f))] = CutPages(x, p, pi, m, f, kx + 1)
  BY <1>2, <1>5, <1>6
<1> QED
  BY <1>7 DEF h, e

(* All index pages but p are of the right size, and p is once it has a     *)
(* separator more.                                                         *)
FullBut(x, r, p) ==
  /\ \A l \in DOMAIN x : l # p =>
       Len(x[l].sep) \in 1 .. 2 * kx + 1 /\ (Len(x[l].sep) >= kx - 1 \/ r = Index(l))
  /\ Len(x[p].sep) \in 0 .. 2 * kx /\ (Len(x[p].sep) >= kx - 1 \/ r = Index(p))

(* After a cut in the middle each half has kx separators.                  *)
LEMMA MiddleFull ==
  ASSUME NEW x, NEW r, NEW p \in DOMAIN x, FullBut(x, r, p), NEW m \in DOMAIN x, NEW f, NEW y,
         CutSizes(x, p, m, f, kx + 1, y), Len(x[m].sep) = 2 * kx + 1
  PROVE  FullIndex(y, r) /\ Len(y[m].sep) <= 2 * kx /\ Len(y[f].sep) <= 2 * kx
<1> DEFINE w == Len(x[p].sep)
<1>1. kx \in Nat \ {0, 1}
  BY BTreeAssumption DEF BTreeAssumption
<1>2. (kx + 1) - 1 = kx /\ (2 * kx + 1) - (kx + 1) = kx /\ kx \in 1 .. 2 * kx + 1 /\ kx >= kx - 1
      /\ kx <= 2 * kx
  BY <1>1
<1>3. /\ DOMAIN y = DOMAIN x \cup {f}
      /\ Len(y[m].sep) = kx /\ Len(y[f].sep) = kx
      /\ Len(y[p].sep) = w + 1
      /\ \A l \in DOMAIN x : l # m /\ l # p => y[l] = x[l]
  BY <1>2 DEF CutSizes
<1>4. \A l \in DOMAIN x : l # p => Len(x[l].sep) \in 1 .. 2 * kx + 1 /\ (Len(x[l].sep) >= kx - 1 \/ r = Index(l))
  BY DEF FullBut
<1>5. w \in 0 .. 2 * kx /\ (w >= kx - 1 \/ r = Index(p))
  BY DEF FullBut
<1> HIDE DEF w
<1>6. w + 1 \in 1 .. 2 * kx + 1 /\ (w >= kx - 1 => w + 1 >= kx - 1)
  BY <1>1, <1>5
<1>7. ASSUME NEW l \in DOMAIN y
      PROVE  Len(y[l].sep) \in 1 .. 2 * kx + 1 /\ (Len(y[l].sep) >= kx - 1 \/ r = Index(l))
  <2>1. l = m \/ l = f \/ l = p \/ (l \in DOMAIN x /\ l # m /\ l # p)
    BY <1>3
  <2>2. CASE l = m \/ l = f
    BY <1>2, <1>3, <2>2
  <2>3. CASE l = p
    BY <1>3, <1>5, <1>6, <2>3
  <2>4. CASE l \in DOMAIN x /\ l # m /\ l # p
    BY <1>3, <1>4, <2>4
  <2> QED
    BY <2>1, <2>2, <2>3, <2>4
<1> QED
  BY <1>2, <1>3, <1>7 DEF FullIndex

(* What SplitX returns once the page is cut.                               *)
LEMMA MiddleOn ==
  ASSUME NEW t, NEW s, Sound(t, s), FullData(t.d, t.r), t.r.at = "x",
         NEW r, NEW x, NEW z, Laid(Len(t.d), r, x, z),
         NEW p, NEW pi, NEW m, NEW f, Cuttable(x, p, pi, m, f, kx + 1), FullBut(x, r, p),
         Len(x[m].sep) = 2 * kx + 1,
         NEW i \in 0 .. Len(x[m].sep), NEW c, c = x[m].ch[i + 1],
         From(z, c) = From(s, c), To(z, c) = To(s, c),
         NEW l, Is(l, t.c, r, t.d, CutPages(x, p, pi, m, f, kx + 1)),
         NEW u, u = IF i > kx THEN [t |-> l, x |-> f, i |-> i - (kx + 1)] ELSE [t |-> l, x |-> m, i |-> i]
  PROVE  SetOn(t, s, c, u)
<1> DEFINE j == kx + 1
           y == CutPages(x, p, pi, m, f, j)
           S == CutSpans(x, z, m, f, j)
<1>1. Laid(Len(t.d), r, y, S)
  BY LaidCut
<1>2. CutSizes(x, p, m, f, j, y)
  BY Sizes
<1>3. p \in DOMAIN x /\ m \in DOMAIN x
  BY DEF Cuttable
<1>4. /\ i < j => Carried(z, x[m].ch[i + 1], y, m, i, S)
      /\ i >= j => Carried(z, x[m].ch[i + 1], y, f, i - j, S)
  BY CutCarries
<1>5. kx \in Nat /\ i \in Nat
  <2>1. kx \in Nat
    BY BTreeAssumption DEF BTreeAssumption
  <2>2. i \in 0 .. 2 * kx + 1
    OBVIOUS
  <2> QED
    BY <2>1, <2>2
<1>6. (i > kx <=> i >= j) /\ (~ (i > kx) <=> i < j)
  BY <1>5
<1> HIDE DEF y, S
<1>7. Keeps(t, l, S)
  BY <1>1, SoundReshaped DEF y
<1>8. FullIndex(y, r) /\ Len(y[m].sep) <= 2 * kx /\ Len(y[f].sep) <= 2 * kx
  BY <1>2, <1>3, MiddleFull
<1>9. l.x = y /\ l.d = t.d /\ l.r = r
  BY DEF Is, y
<1>10. Full(l)
  BY <1>8, <1>9, FullAnyRoot DEF Full
<1>11. CASE i > kx
  <2>1. u.t = l /\ u.x = f /\ u.i = i - j
    BY <1>11
  <2>2. Carried(z, c, y, f, i - j, S)
    BY <1>4, <1>6, <1>11
  <2>3. Carried(s, c, y, f, i - j, S)
    BY <2>2 DEF Carried
  <2>4. Reached(t, s, c, u, S)
    BY <1>7, <1>9, <1>10, <2>1, <2>3 DEF Reached
  <2> QED
    BY <1>8, <1>9, <2>1, <2>4 DEF SetOn
<1>12. CASE ~ (i > kx)
  <2>1. u.t = l /\ u.x = m /\ u.i = i
    BY <1>12
  <2>2. Carried(z, c, y, m, i, S)
    BY <1>4, <1>6, <1>12
  <2>3. Carried(s, c, y, m, i, S)
    BY <2>2 DEF Carried
  <2>4. Reached(t, s, c, u, S)
    BY <1>7, <1>9, <1>10, <2>1, <2>3 DEF Reached
  <2> QED
    BY <1>8, <1>9, <2>1, <2>4 DEF SetOn
<1> QED
  BY <1>11, <1>12

(* SplitX leaves a sound tree and goes on to the child that Set was about  *)
(* to go to.                                                               *)
LEMMA SplitXOn ==
  ASSUME NEW t, NEW s, Sound(t, s), Full(t), NEW m, NEW p, NEW pi, Under(t.x, p, pi, Index(m)),
         m \in DOMAIN t.x, Len(t.x[p].sep) <= 2 * kx, Len(t.x[m].sep) > 2 * kx,
         NEW i \in 0 .. Len(t.x[m].sep)
  PROVE  SetOn(t, s, t.x[m].ch[i + 1], SplitX(t, p, m, pi, i))
<1> DEFINE x == t.x
           f == FreeIndex(t)
           e == x[m].sep[kx + 1]
           h == [t EXCEPT !.x = SplitHalves(@, m, f)]
           l == [h EXCEPT !.x[p] = XInsert(@, pi, e, Index(f))]
           u == SplitX(t, p, m, pi, i)
           w == Len(x[m].sep)
           v == Len(x[p].sep)
<1>1. Fields(t) /\ Laid(Len(t.d), t.r, x, s) /\ FullData(t.d, t.r) /\ FullIndex(x, t.r)
  BY DEF Sound, Full
<1>2. p \in DOMAIN x /\ pi \in 0 .. v /\ x[p].ch[pi + 1] = Index(m) /\ v \in Nat
  <2>1. p \in DOMAIN x /\ pi \in 0 .. v /\ x[p].ch[pi + 1] = Index(m)
    BY DEF Under
  <2> QED
    BY <1>1, <2>1, PageType
<1>3. kx \in Nat
  BY BTreeAssumption DEF BTreeAssumption
<1>4. w = 2 * kx + 1 /\ Len(x[m].ch) = 2 * kx + 2 /\ kx + 1 \in 1 .. w
  <2>1. w \in 1 .. 2 * kx + 1 /\ w > 2 * kx
    BY <1>1 DEF FullIndex
  <2>2. Len(x[m].ch) = w + 1
    BY <1>1, PageType
  <2> HIDE DEF w
  <2>3. w = 2 * kx + 1
    BY <1>3, <2>1
  <2> QED
    BY <1>3, <2>2, <2>3
<1>5. f \in Nat \ {0} /\ f \notin DOMAIN x
  <2>1. IsFiniteSet(DOMAIN t.x)
    BY <1>1 DEF Laid, Typed
  <2> QED
    BY <2>1, FreeIndexNew
<1>6. Cuttable(x, p, pi, m, f, kx + 1)
  BY <1>2, <1>4, <1>5 DEF Cuttable
<1>7. p # m
  <2>1. CutPlace(Len(t.d), x, s, p, m, f, kx + 1)
    BY <1>1, <1>6, CutFacts
  <2> QED
    BY <2>1 DEF CutPlace
<1>8. pi >= 0
  <2> HIDE DEF v
  <2> QED
    BY <1>2
<1>9. u = IF i > kx THEN [t |-> l, x |-> f, i |-> i - (kx + 1)] ELSE [t |-> l, x |-> m, i |-> i]
  BY <1>8 DEF SplitX, SplitHalves
<1> HIDE DEF u
<1>10. Is(l, t.c, t.r, t.d, CutPages(x, p, pi, m, f, kx + 1))
  <2>1. [SplitHalves(x, m, f) EXCEPT ![p] = XInsert(@, pi, e, Index(f))] =
           CutPages(x, p, pi, m, f, kx + 1)
    BY <1>2, <1>4, <1>5, <1>7, SplitXPages
  <2> HIDE DEF f, e
  <2>2. Is(h, t.c, t.r, t.d, SplitHalves(x, m, f))
    BY <1>1 DEF Is, Fields
  <2> HIDE DEF h
  <2>3. l.x = [SplitHalves(x, m, f) EXCEPT ![p] = XInsert(@, pi, e, Index(f))]
    BY <2>2 DEF Is, Fields
  <2>4. Fields(l) /\ l.c = t.c /\ l.r = t.r /\ l.d = t.d
    BY <2>2 DEF Is, Fields
  <2> QED
    BY <2>1, <2>3, <2>4 DEF Is
<1>11. FullBut(x, t.r, p)
  <2>1. v \in 1 .. 2 * kx + 1 /\ (v >= kx - 1 \/ t.r = Index(p)) /\ v <= 2 * kx
    BY <1>1, <1>2 DEF FullIndex
  <2> HIDE DEF v
  <2>2. v \in 0 .. 2 * kx /\ (v >= kx - 1 \/ t.r = Index(p))
    BY <1>3, <2>1
  <2> QED
    BY <1>1, <2>2 DEF FullBut, FullIndex, v
<1>12. t.r.at = "x"
  BY <1>1, <1>2, RootIndex
<1> DEFINE c == x[m].ch[i + 1]
<1>13. c = x[m].ch[i + 1]
  OBVIOUS
<1> HIDE DEF l, f, x, c, w
<1>14. i \in 0 .. Len(x[m].sep) /\ Len(x[m].sep) = 2 * kx + 1
  BY <1>4 DEF x, w
<1>15. SetOn(t, s, c, u)
  BY <1>1, <1>6, <1>9, <1>10, <1>11, <1>12, <1>13, <1>14, MiddleOn
<1> QED
  BY <1>15 DEF u, c, x

(* A root of one child takes another.                                      *)
LEMMA SecondChild ==
  ASSUME NEW a, NEW e, NEW b
  PROVE  XInsert([sep |-> <<>>, ch |-> <<a>>], 0, e, b) = [sep |-> <<e>>, ch |-> <<a, b>>]
<1>1. PutIn({e}, <<>>, 0, 0, e, InsertAt(<<>>, 0 + 1, e))
  <2>1. <<>> \in Seq({e}) /\ 0 = Len(<<>>) /\ 0 \in 0 .. 0 /\ e \in {e}
    OBVIOUS
  <2> QED
    BY <2>1, InsertedAs
<1>2. PutIn({a, b}, <<a>>, 1, 1, b, InsertAt(<<a>>, 1 + 1, b))
  <2>1. <<a>> \in Seq({a, b}) /\ 1 = Len(<<a>>) /\ 1 \in 0 .. 1 /\ b \in {a, b}
    OBVIOUS
  <2> QED
    BY <2>1, InsertedAs
<1> DEFINE u == InsertAt(<<>>, 1, e)
           v == InsertAt(<<a>>, 2, b)
<1>3. u \in Seq({e}) /\ Len(u) = 1 /\ u[1] = e
  BY <1>1 DEF PutIn
<1>4. v \in Seq({a, b}) /\ Len(v) = 2 /\ v[1] = a /\ v[2] = b
  <2>1. 1 + 1 = 2
    OBVIOUS
  <2>2. PutIn({a, b}, <<a>>, 1, 1, b, v)
    BY <1>2, <2>1
  <2> HIDE DEF v
  <2>3. 1 \in 1 .. 1 /\ <<a>>[1] = a
    OBVIOUS
  <2> QED
    BY <2>1, <2>2, <2>3 DEF PutIn
<1> HIDE DEF u, v
<1>5. u = <<e>>
  <2>1. <<e>> \in Seq({e}) /\ Len(<<e>>) = 1 /\ <<e>>[1] = e
    OBVIOUS
  <2> QED
    BY <1>3, <2>1, SeqEqual
<1>6. v = <<a, b>>
  <2> DEFINE z == <<a, b>>
  <2>1. z \in Seq({a, b}) /\ Len(z) = 2 /\ z[1] = a /\ z[2] = b
    OBVIOUS
  <2> HIDE DEF z
  <2>2. \A i \in 1 .. Len(v) : v[i] = z[i]
    <3>1. \A i \in 1 .. 2 : i = 1 \/ i = 2
      OBVIOUS
    <3> QED
      BY <1>4, <2>1, <3>1
  <2>3. v = z
    BY <1>4, <2>1, <2>2, SeqEqual
  <2> QED
    BY <2>3 DEF z
<1>7. XInsert([sep |-> <<>>, ch |-> <<a>>], 0, e, b) = [sep |-> u, ch |-> v]
  BY DEF XInsert, u, v
<1> QED
  BY <1>5, <1>6, <1>7

(* A full root is cut in the middle, under a new one.                      *)
LEMMA SplitXRootPages ==
  ASSUME NEW x, NEW m \in DOMAIN x, NEW f, f \notin DOMAIN x, NEW g, g \notin DOMAIN x, g # f,
         Len(x[m].sep) = 2 * kx + 1, Len(x[m].ch) = 2 * kx + 2
  PROVE  WithPage(SplitHalves(x, m, f), g,
                  [sep |-> <<x[m].sep[kx + 1]>>, ch |-> <<Index(m), Index(f)>>]) =
           CutPages(GrownPages(x, g, Index(m)), g, 0, m, f, kx + 1)
<1> DEFINE h == SplitHalves(x, m, f)
           L == LeftPart(x[m], kx + 1)
           R == RightPart(x[m], kx + 1)
           e == x[m].sep[kx + 1]
           z == GrownPages(x, g, Index(m))
           G == [sep |-> <<e>>, ch |-> <<Index(m), Index(f)>>]
<1>0. h = PartedPages(x, m, f)
  BY HalvesAre
<1>1. h = [l \in DOMAIN x \cup {f} |-> IF l = f THEN R ELSE IF l = m THEN L ELSE x[l]]
  BY <1>0 DEF PartedPages
<1>2. /\ DOMAIN z = DOMAIN x \cup {g} /\ z[g] = [sep |-> <<>>, ch |-> <<Index(m)>>]
      /\ \A l \in DOMAIN x : z[l] = x[l]
  BY DEF GrownPages
<1>3. XInsert(z[g], 0, e, Index(f)) = G
  BY <1>2, SecondChild
<1>4. z[m] = x[m]
  BY <1>2
<1>5. CutPages(z, g, 0, m, f, kx + 1) =
        [l \in (DOMAIN x \cup {g}) \cup {f} |->
           IF l = g THEN G ELSE IF l = m THEN L ELSE IF l = f THEN R ELSE z[l]]
  <2> HIDE DEF z, G
  <2>1. CutPages(z, g, 0, m, f, kx + 1) =
          [l \in DOMAIN z \cup {f} |->
             IF l = g THEN XInsert(z[g], 0, z[m].sep[kx + 1], Index(f))
             ELSE IF l = m THEN LeftPart(z[m], kx + 1)
             ELSE IF l = f THEN RightPart(z[m], kx + 1) ELSE z[l]]
    BY DEF CutPages
  <2>2. XInsert(z[g], 0, z[m].sep[kx + 1], Index(f)) = G
    BY <1>3, <1>4
  <2> QED
    BY <1>2, <1>4, <2>1, <2>2
<1> HIDE DEF h, L, R, e, z, G
<1>6. WithPage(h, g, G) = [l \in DOMAIN h \cup {g} |-> IF l = g THEN G ELSE h[l]]
  BY DEF WithPage
<1>7. DOMAIN h \cup {g} = (DOMAIN x \cup {g}) \cup {f}
  BY <1>1
<1>8. ASSUME NEW l \in (DOMAIN x \cup {g}) \cup {f}
      PROVE  (IF l = g THEN G ELSE h[l]) =
             (IF l = g THEN G ELSE IF l = m THEN L ELSE IF l = f THEN R ELSE z[l])
  BY <1>1, <1>2
<1>9. WithPage(h, g, G) = CutPages(z, g, 0, m, f, kx + 1)
  BY <1>5, <1>6, <1>7, <1>8
<1> QED
  BY <1>9 DEF h, G, z, e

(* A new root leaves the spans of the pages as they are.                   *)
LEMMA GrownSame ==
  ASSUME NEW n, NEW x, NEW s, NEW r, NEW g, g \notin DOMAIN x, DOMAIN s = DOMAIN x, NEW c \in PagesOf(n, x)
  PROVE  From(GrownSpans(n, s, g, r), c) = From(s, c) /\ To(GrownSpans(n, s, g, r), c) = To(s, c)
<1> DEFINE S == GrownSpans(n, s, g, r)
<1>1. c.at = "x" => S[c.no] = s[c.no]
  <2>1. c.at = "x" => c.no \in DOMAIN x
    BY PointerKinds
  <2> QED
    BY <2>1 DEF GrownSpans
<1> HIDE DEF S
<1>2. From(S, c) = From(s, c) /\ To(S, c) = To(s, c)
  BY <1>1, SameSpans
<1> QED
  BY <1>2 DEF S

(* So it does when it splits the root.                                     *)
LEMMA SplitXRootOn ==
  ASSUME NEW t, NEW s, Sound(t, s), Full(t), NEW m, t.r = Index(m), NEW p,
         Len(t.x[m].sep) > 2 * kx, NEW i \in 0 .. Len(t.x[m].sep)
  PROVE  SetOn(t, s, t.x[m].ch[i + 1], SplitX(t, p, m, -1, i))
<1> DEFINE x == t.x
           n == Len(t.d)
           f == FreeIndex(t)
           e == x[m].sep[kx + 1]
           h == [t EXCEPT !.x = SplitHalves(@, m, f)]
           g == FreeIndex(h)
           G == [sep |-> <<e>>, ch |-> <<Index(m), Index(f)>>]
           l == NewRoot(h, Index(m), e, Index(f))
           u == SplitX(t, p, m, -1, i)
           w == Len(x[m].sep)
           z == GrownPages(x, g, Index(m))
           S == GrownSpans(n, s, g, Index(m))
<1>1. Fields(t) /\ Laid(n, t.r, x, s) /\ FullData(t.d, t.r) /\ FullIndex(x, t.r)
  BY DEF Sound, Full
<1>2. m \in DOMAIN x /\ t.r.at = "x"
  <2>1. Index(m) \in PagesOf(n, x)
    BY <1>1 DEF Laid, Typed
  <2>2. Index(m).at = "x" /\ Index(m).no = m /\ Index(m).at # "d"
    BY DEF Index
  <2> QED
    BY <2>1, <2>2, PointerKinds
<1>3. kx \in Nat \ {0, 1}
  BY BTreeAssumption DEF BTreeAssumption
<1>4. w = 2 * kx + 1 /\ Len(x[m].ch) = 2 * kx + 2 /\ kx + 1 \in 1 .. w
  <2>1. w \in 1 .. 2 * kx + 1 /\ w > 2 * kx
    BY <1>1, <1>2 DEF FullIndex
  <2>2. Len(x[m].ch) = w + 1
    BY <1>1, <1>2, PageType
  <2> HIDE DEF w
  <2>3. w = 2 * kx + 1
    BY <1>3, <2>1
  <2> QED
    BY <1>3, <2>2, <2>3
<1>5. IsFiniteSet(DOMAIN x) /\ n \in Nat /\ DOMAIN s = DOMAIN x
  BY <1>1 DEF Laid, Typed
<1>6. f \in Nat \ {0} /\ f \notin DOMAIN x
  BY <1>5, FreeIndexNew
<1>7. Is(h, t.c, t.r, t.d, SplitHalves(x, m, f)) /\ DOMAIN h.x = DOMAIN x \cup {f}
  <2>1. Is(h, t.c, t.r, t.d, SplitHalves(x, m, f))
    BY <1>1 DEF Is, Fields
  <2>2. SplitHalves(x, m, f) = PartedPages(x, m, f)
    BY <1>2, <1>4, <1>6, HalvesAre
  <2>3. DOMAIN PartedPages(x, m, f) = DOMAIN x \cup {f}
    BY DEF PartedPages
  <2>4. h.x = SplitHalves(x, m, f)
    BY <2>1 DEF Is
  <2> QED
    BY <2>1, <2>2, <2>3, <2>4
<1>8. g \in Nat \ {0} /\ g \notin DOMAIN x /\ g # f
  <2>1. IsFiniteSet(DOMAIN h.x)
    <3> HIDE DEF h
    <3>1. IsFiniteSet(DOMAIN x \cup {f})
      BY <1>5, FS_AddElement
    <3> QED
      BY <1>7, <3>1
  <2> HIDE DEF h, f
  <2>2. g \in Nat \ {0} /\ g \notin DOMAIN h.x
    BY <2>1, FreeIndexNew
  <2> QED
    BY <1>7, <2>2
<1>9. u = IF i > kx THEN [t |-> l, x |-> f, i |-> i - (kx + 1)] ELSE [t |-> l, x |-> m, i |-> i]
  <2>1. ~ (-1 >= 0)
    OBVIOUS
  <2> QED
    BY <2>1 DEF SplitX, SplitHalves
<1>10. Is(l, t.c, Index(g), t.d, CutPages(z, g, 0, m, f, kx + 1))
  <2>1. WithPage(SplitHalves(x, m, f), g, G) = CutPages(z, g, 0, m, f, kx + 1)
    <3> HIDE DEF f, g
    <3> QED
      BY <1>2, <1>4, <1>6, <1>8, SplitXRootPages
  <2> HIDE DEF h
  <2>2. l = [h EXCEPT !.r = Index(g), !.x = WithPage(@, g, G)]
    BY DEF NewRoot
  <2> HIDE DEF l, g, f, G
  <2>3. l.x = WithPage(SplitHalves(x, m, f), g, G)
    BY <1>7, <2>2 DEF Is, Fields
  <2>4. Fields(l) /\ l.c = t.c /\ l.r = Index(g) /\ l.d = t.d
    BY <1>7, <2>2 DEF Is, Fields
  <2> QED
    BY <2>1, <2>3, <2>4 DEF Is
<1>11. z[m] = x[m] /\ z[g] = [sep |-> <<>>, ch |-> <<Index(m)>>] /\ DOMAIN z = DOMAIN x \cup {g}
       /\ \A o \in DOMAIN x : z[o] = x[o]
  BY <1>2, <1>8 DEF GrownPages
<1>12. Laid(n, Index(g), z, S)
  <2>1. n \in Nat \ {0}
    <3>1. n >= 1
      BY DEF Sound
    <3> HIDE DEF n
    <3> QED
      BY <1>5, <3>1
  <2>2. Laid(n, Index(m), x, s)
    BY <1>1
  <2> HIDE DEF g, x, n
  <2> QED
    BY <1>8, <2>1, <2>2, LaidGrown
<1>13. Cuttable(z, g, 0, m, f, kx + 1)
  <2>1. 0 \in 0 .. Len(z[g].sep) /\ z[g].ch[0 + 1] = Index(m)
    <3> DEFINE Z == [sep |-> <<>>, ch |-> <<Index(m)>>]
    <3>1. Len(Z.sep) = 0 /\ Z.ch[1] = Index(m) /\ 0 + 1 = 1
      OBVIOUS
    <3>2. z[g] = Z
      BY <1>11
    <3> HIDE DEF Z, z
    <3> QED
      BY <3>1, <3>2
  <2>2. kx + 1 \in 1 .. Len(z[m].sep)
    BY <1>4, <1>11
  <2> HIDE DEF z, f, g
  <2> QED
    BY <1>2, <1>6, <1>8, <1>11, <2>1, <2>2 DEF Cuttable
<1>14. FullBut(z, Index(g), g)
  <2>1. Len(z[g].sep) = 0
    <3> HIDE DEF z
    <3> QED
      BY <1>11
  <2>2. ASSUME NEW o \in DOMAIN x
        PROVE  Len(x[o].sep) \in 1 .. 2 * kx + 1 /\ Len(x[o].sep) >= kx - 1
    <3> DEFINE a == Len(x[o].sep)
    <3>1. a \in 1 .. 2 * kx + 1 /\ (a >= kx - 1 \/ t.r = Index(o))
      BY <1>1 DEF FullIndex
    <3>2. CASE o = m
      <4>1. a = 2 * kx + 1
        BY <1>4, <3>2
      <4> HIDE DEF a
      <4>2. a >= kx - 1
        BY <1>3, <4>1
      <4> QED
        BY <3>1, <4>2 DEF a
    <3>3. CASE o # m
      <4>1. t.r # Index(o)
        BY <3>3 DEF Index
      <4> QED
        BY <3>1, <4>1
    <3> QED
      BY <3>2, <3>3
  <2> HIDE DEF z, g, x
  <2>3. 0 \in 0 .. 2 * kx
    BY <1>3
  <2> QED
    BY <1>11, <2>1, <2>2, <2>3 DEF FullBut
<1> DEFINE c == x[m].ch[i + 1]
<1>15. c = z[m].ch[i + 1]
  BY <1>11
<1>16. From(S, c) = From(s, c) /\ To(S, c) = To(s, c)
  <2>1. i \in 0 .. w /\ w \in Nat
    BY <1>3, <1>4
  <2>2. i + 1 \in 1 .. w + 1
    <3> HIDE DEF w
    <3> QED
      BY <2>1
  <2>3. c \in PagesOf(n, x)
    BY <1>1, <1>2, <2>2, PageType
  <2> HIDE DEF c, g
  <2> QED
    BY <1>5, <1>8, <2>3, GrownSame
<1>17. Len(z[m].sep) = 2 * kx + 1 /\ i \in 0 .. Len(z[m].sep)
  BY <1>4, <1>11
<1>18. Laid(Len(t.d), Index(g), z, S)
  BY <1>12
<1> HIDE DEF l, f, x, c, w, g, z, S, u
<1>19. SetOn(t, s, c, u)
  BY <1>1, <1>2, <1>9, <1>10, <1>13, <1>14, <1>15, <1>16, <1>17, <1>18, MiddleOn
<1> QED
  BY <1>19 DEF u, c, x

-----------------------------------------------------------------------------
(* CatX.                                                                   *)

(* What the pages hold once b and a separator of p have gone into a.       *)
JoinedFacts(x, p, a, b, pi, y) ==
  /\ DOMAIN y = DOMAIN x \ {b} /\ a # b /\ p # a /\ p # b
  /\ p \in DOMAIN x /\ a \in DOMAIN x /\ b \in DOMAIN x
  /\ Bound(Int, ToSet(x[a].ch) \cup ToSet(x[b].ch),
           x[a], Len(x[a].sep), x[p].sep[pi + 1], x[b], Len(x[b].sep), y[a])
  /\ Dropped(Int, ToSet(x[p].ch), x[p], Len(x[p].sep), pi, y[p])
  /\ \A m \in DOMAIN y : m # a /\ m # p => y[m] = x[m]

(* A sequence is one of its own values.                                    *)
LEMMA SeqOfOwn ==
  ASSUME NEW X, NEW s \in Seq(X)
  PROVE  s \in Seq(ToSet(s))
<1> DEFINE n == Len(s)
           Y == {s[i] : i \in DOMAIN s}
<1>1. n \in Nat /\ DOMAIN s = 1 .. n /\ s = [i \in 1 .. n |-> s[i]]
  BY Elements
<1>2. s \in [1 .. n -> Y]
  <2> HIDE DEF n
  <2>1. \A i \in 1 .. n : s[i] \in Y
    BY <1>1
  <2> HIDE DEF Y
  <2> QED
    BY <1>1, <2>1
<1> HIDE DEF n, Y
<1>3. s \in Seq(Y)
  BY <1>1, <1>2, FunctionSeq
<1> QED
  BY <1>3 DEF Y, ToSet

(* A sequence of values of a set is one of values of a greater set.        *)
LEMMA SeqMore ==
  ASSUME NEW X, NEW Y, X \subseteq Y, NEW s \in Seq(X)
  PROVE  s \in Seq(Y)
<1>1. Len(s) \in Nat /\ DOMAIN s = 1 .. Len(s) /\ \A i \in 1 .. Len(s) : s[i] \in X
  BY Elements
<1> DEFINE n == Len(s)
<1>2. s \in [1 .. n -> Y]
  <2>1. s = [i \in 1 .. n |-> s[i]]
    OBVIOUS
  <2>2. \A i \in 1 .. n : s[i] \in Y
    BY <1>1
  <2> HIDE DEF n
  <2> QED
    BY <2>1, <2>2
<1>3. n \in Nat
  BY <1>1
<1> HIDE DEF n
<1> QED
  BY <1>2, <1>3, FunctionSeq

(* What the pages are when b is joined to a.                               *)
LEMMA JoinedAs ==
  ASSUME NEW n, NEW r, NEW x, NEW s, Laid(n, r, x, s), NEW p, NEW pi, NEW a, NEW b,
         Siblings(x, p, pi, a, b)
  PROVE  JoinedFacts(x, p, a, b, pi, JoinedPages(x, p, a, b, pi))
<1> DEFINE y == JoinedPages(x, p, a, b, pi)
           A == ToSet(x[a].ch) \cup ToSet(x[b].ch)
           B == ToSet(x[p].ch)
           d == x[p].sep[pi + 1]
           la == Len(x[a].sep)
           lb == Len(x[b].sep)
           lp == Len(x[p].sep)
<1>1. p \in DOMAIN x /\ a \in DOMAIN x /\ b \in DOMAIN x /\ a # b /\ p # a /\ p # b
  <2>1. SideBySide(x, s, p, pi, a, b)
    BY SiblingFacts
  <2> QED
    BY <2>1 DEF SideBySide
<1>2. pi \in 0 .. lp - 1
  BY DEF Siblings
<1>3. /\ y[p] = DropKid(x[p], pi) /\ y[a] = Both(x[a], d, x[b]) /\ DOMAIN y = DOMAIN x \ {b}
      /\ \A m \in DOMAIN y : m # a /\ m # p => y[m] = x[m]
  BY <1>1 DEF JoinedPages
<1>4. ASSUME NEW m \in DOMAIN x
      PROVE  /\ x[m].sep \in Seq(Int) /\ x[m].ch \in Seq(PagesOf(n, x))
             /\ Len(x[m].sep) \in Nat /\ Len(x[m].ch) = Len(x[m].sep) + 1
  <2>1. x[m].sep \in Seq(1 .. n) /\ x[m].ch \in Seq(PagesOf(n, x)) /\ n \in Nat
    BY DEF Laid, Typed
  <2>2. 1 .. n \subseteq Int
    BY <2>1
  <2>3. x[m].sep \in Seq(Int)
    BY <2>1, <2>2, SeqMore
  <2> QED
    BY <2>1, <2>3, PageType
<1>5. d \in Int
  <2>1. x[p].sep \in Seq(Int) /\ lp \in Nat
    BY <1>1, <1>4
  <2>2. pi + 1 \in 1 .. lp
    <3> HIDE DEF lp
    <3> QED
      BY <1>2, <2>1
  <2> QED
    BY <2>1, <2>2, Elements
<1>6. Bound(Int, A, x[a], la, d, x[b], lb, y[a])
  <2> DEFINE U == x[a]
             V == x[b]
  <2>1. U.ch \in Seq(ToSet(x[a].ch)) /\ V.ch \in Seq(ToSet(x[b].ch))
    BY <1>1, <1>4, SeqOfOwn
  <2>2. U.ch \in Seq(A) /\ V.ch \in Seq(A)
    <3> DEFINE C == ToSet(x[a].ch)
               D == ToSet(x[b].ch)
    <3>1. C \subseteq A /\ D \subseteq A /\ U.ch \in Seq(C) /\ V.ch \in Seq(D)
      BY <2>1
    <3> HIDE DEF A, C, D, U, V
    <3> QED
      BY <3>1, SeqMore
  <2>3. /\ U.sep \in Seq(Int) /\ V.sep \in Seq(Int) /\ la \in Nat /\ lb \in Nat
        /\ Len(U.sep) = la /\ Len(V.sep) = lb /\ Len(U.ch) = la + 1 /\ Len(V.ch) = lb + 1
    BY <1>1, <1>4
  <2> HIDE DEF U, V, A, d, la, lb
  <2>4. Bound(Int, A, U, la, d, V, lb, Both(U, d, V))
    BY <1>5, <2>2, <2>3, BothBound
  <2> QED
    BY <1>3, <2>4 DEF U, V
<1>7. Dropped(Int, B, x[p], lp, pi, y[p])
  <2> DEFINE U == x[p]
  <2>1. U.ch \in Seq(B)
    BY <1>1, <1>4, SeqOfOwn
  <2>2. U.sep \in Seq(Int) /\ lp \in Nat /\ Len(U.sep) = lp /\ Len(U.ch) = lp + 1
    BY <1>1, <1>4
  <2> HIDE DEF U, B, lp
  <2>3. Dropped(Int, B, U, lp, pi, DropKid(U, pi))
    BY <1>2, <2>1, <2>2, KidDropped
  <2> QED
    BY <1>3, <2>3 DEF U
<1> HIDE DEF y
<1>8. JoinedFacts(x, p, a, b, pi, y)
  BY <1>1, <1>3, <1>6, <1>7 DEF JoinedFacts
<1> QED
  BY <1>8 DEF y

(* The children of the two are children of a.                              *)
LEMMA JoinedCarries ==
  ASSUME NEW n, NEW r, NEW x, NEW s, Laid(n, r, x, s), NEW p, NEW pi, NEW a, NEW b,
         Siblings(x, p, pi, a, b), NEW y, y = JoinedPages(x, p, a, b, pi),
         NEW S, S = JoinedSpans(s, a, b)
  PROVE  /\ \A i \in 0 .. Len(x[a].sep) : Carried(s, x[a].ch[i + 1], y, a, i, S)
         /\ \A i \in 0 .. Len(x[b].sep) :
              Carried(s, x[b].ch[i + 1], y, a, Len(x[a].sep) + 1 + i, S)
<1> DEFINE la == Len(x[a].sep)
           lb == Len(x[b].sep)
<1>1. JoinedFacts(x, p, a, b, pi, y)
  BY JoinedAs
<1>2. /\ DOMAIN y = DOMAIN x \ {b} /\ a # b /\ a \in DOMAIN x /\ b \in DOMAIN x
      /\ Len(y[a].sep) = la + 1 + lb
      /\ \A i \in 1 .. la + 1 : y[a].ch[i] = x[a].ch[i]
      /\ \A i \in 1 .. lb + 1 : y[a].ch[la + 1 + i] = x[b].ch[i]
  BY <1>1 DEF JoinedFacts, Bound
<1>3. /\ la \in Nat /\ lb \in Nat /\ s[a].ht \in Nat /\ s[b].ht \in Nat
      /\ \A i \in 1 .. la + 1 : x[a].ch[i] \in PagesOf(n, x)
      /\ \A i \in 1 .. lb + 1 : x[b].ch[i] \in PagesOf(n, x)
  BY <1>2, PageType
<1>4. s[a].ht = s[b].ht
  <2>1. SideBySide(x, s, p, pi, a, b)
    BY SiblingFacts
  <2> QED
    BY <2>1 DEF SideBySide
<1>5. ASSUME NEW c \in PagesOf(n, x), Height(s, c) = s[a].ht - 1
      PROVE  From(S, c) = From(s, c) /\ To(S, c) = To(s, c)
  <2>1. Height(s, Index(a)) = s[a].ht /\ Height(s, Index(b)) = s[b].ht
    BY Pointing
  <2>2. c # Index(a) /\ c # Index(b)
    BY <1>3, <1>4, <1>5, <2>1
  <2> QED
    BY <2>2, JoinedKeeps
<1>6. ASSUME NEW i \in 0 .. la PROVE Carried(s, x[a].ch[i + 1], y, a, i, S)
  <2> DEFINE o == i + 1
             c == x[a].ch[o]
  <2>1. o \in 1 .. la + 1 /\ i \in 0 .. la + 1 + lb
    <3> HIDE DEF la, lb
    <3> QED
      BY <1>3
  <2>2. c \in PagesOf(n, x) /\ Height(s, c) = s[a].ht - 1
    BY <1>2, <1>3, <2>1, KidsInside
  <2>3. From(S, c) = From(s, c) /\ To(S, c) = To(s, c)
    BY <1>5, <2>2
  <2>4. y[a].ch[i + 1] = c /\ i \in 0 .. Len(y[a].sep)
    BY <1>2, <2>1
  <2> HIDE DEF c
  <2>5. Carried(s, c, y, a, i, S)
    BY <1>2, <2>3, <2>4 DEF Carried, Under
  <2> QED
    BY <2>5 DEF c
<1>7. ASSUME NEW i \in 0 .. lb PROVE Carried(s, x[b].ch[i + 1], y, a, la + 1 + i, S)
  <2> DEFINE o == i + 1
             c == x[b].ch[o]
             g == la + 1 + i
  <2>1. o \in 1 .. lb + 1 /\ g \in 0 .. la + 1 + lb /\ g + 1 = la + 1 + o
    <3> HIDE DEF la, lb
    <3> QED
      BY <1>3
  <2>2. c \in PagesOf(n, x) /\ Height(s, c) = s[b].ht - 1
    BY <1>2, <1>3, <2>1, KidsInside
  <2>3. From(S, c) = From(s, c) /\ To(S, c) = To(s, c)
    BY <1>4, <1>5, <2>2
  <2>4. y[a].ch[g + 1] = c /\ g \in 0 .. Len(y[a].sep)
    BY <1>2, <2>1
  <2> HIDE DEF c, g
  <2>5. Carried(s, c, y, a, g, S)
    BY <1>2, <2>3, <2>4 DEF Carried, Under
  <2> QED
    BY <2>5 DEF c, g
<1> QED
  BY <1>6, <1>7

(* Child c, reached in tree t, is reached in tree u.t, by a page that can  *)
(* lose a separator.                                                       *)
DeleteOn(t, s, c, u) ==
  \E S : Reached(t, s, c, u, S) /\ (Len(u.t.x[u.x].sep) >= kx \/ u.t.r = Index(u.x))

(* The index pages after page b's contents go to a, before b is let go.    *)
JoinOnly(x, p, a, b, pi) == [x EXCEPT ![a] = Both(x[a], x[p].sep[pi + 1], x[b])]

(* CatX, as an update of the index pages alone.                            *)
LEMMA CatXAs ==
  ASSUME NEW t, NEW p, NEW a, NEW b, NEW pi
  PROVE  CatX(t, p, a, b, pi) =
           LET joined == [t EXCEPT !.x = JoinOnly(@, p, a, b, pi)]
           IN  IF Len(t.x[p].sep) > 1
               THEN [[joined EXCEPT !.x[p] = DropKid(@, pi)]
                       EXCEPT !.x = [m \in DOMAIN @ \ {b} |-> @[m]]]
               ELSE [[joined EXCEPT !.x = [m \in DOMAIN @ \ {p, b} |-> @[m]]]
                       EXCEPT !.r = Index(a)]
  BY DEF CatX, JoinOnly, Both, DropKid, Free, Restrict

(* The two ways to join leave the pages joined.                            *)
Joins(x, p, a, b, pi, y, z) ==
  /\ [m \in DOMAIN z \ {b} |-> z[m]] = JoinedPages(x, p, a, b, pi)
  /\ [m \in DOMAIN y \ {p, b} |-> y[m]] = Without(JoinedPages(x, p, a, b, pi), p)

(* The pages that catX leaves.                                             *)
LEMMA CatXPages ==
  ASSUME NEW x, NEW p \in DOMAIN x, NEW a \in DOMAIN x, NEW b \in DOMAIN x, p # a, p # b, a # b, NEW pi,
         NEW y, y = JoinOnly(x, p, a, b, pi), NEW z, z = [y EXCEPT ![p] = DropKid(@, pi)]
  PROVE  Joins(x, p, a, b, pi, y, z)
<1> DEFINE B == Both(x[a], x[p].sep[pi + 1], x[b])
           D == DropKid(x[p], pi)
           J == JoinedPages(x, p, a, b, pi)
<1>1. DOMAIN y = DOMAIN x /\ y[a] = B /\ \A m \in DOMAIN x : m # a => y[m] = x[m]
  BY DEF JoinOnly
<1>2. DOMAIN z = DOMAIN x /\ z[a] = B /\ z[p] = D /\ \A m \in DOMAIN x : m # a /\ m # p => z[m] = x[m]
  BY <1>1
<1>3. J = [m \in DOMAIN x \ {b} |-> IF m = p THEN D ELSE IF m = a THEN B ELSE x[m]]
  BY DEF JoinedPages
<1> HIDE DEF B, D, J
<1>4. [m \in DOMAIN z \ {b} |-> z[m]] = J
  BY <1>2, <1>3
<1>5. [m \in DOMAIN y \ {p, b} |-> y[m]] = Without(J, p)
  <2>1. Without(J, p) = [m \in DOMAIN J \ {p} |-> J[m]]
    BY DEF Without
  <2>2. DOMAIN J = DOMAIN x \ {b}
    BY <1>3
  <2>3. DOMAIN J \ {p} = DOMAIN y \ {p, b}
    BY <1>1, <2>2
  <2>4. ASSUME NEW m \in DOMAIN y \ {p, b} PROVE y[m] = J[m]
    <3>1. CASE m = a
      BY <1>1, <1>3, <3>1
    <3>2. CASE m # a
      BY <1>1, <1>3, <3>2
    <3> QED
      BY <3>1, <3>2
  <2> QED
    BY <2>1, <2>3, <2>4
<1> QED
  BY <1>4, <1>5 DEF J, Joins

(* The fields of the tree after catX, with the parent kept and with the    *)
(* root given up.                                                          *)
LEMMA CatXParts ==
  ASSUME NEW t, Fields(t), NEW p \in DOMAIN t.x, NEW a \in DOMAIN t.x, NEW b \in DOMAIN t.x,
         p # a, p # b, a # b, NEW pi
  PROVE  /\ Len(t.x[p].sep) > 1 =>
              Is(CatX(t, p, a, b, pi), t.c, t.r, t.d, JoinedPages(t.x, p, a, b, pi))
         /\ ~ (Len(t.x[p].sep) > 1) =>
              Is(CatX(t, p, a, b, pi), t.c, Index(a), t.d, Without(JoinedPages(t.x, p, a, b, pi), p))
<1> DEFINE u == CatX(t, p, a, b, pi)
           y == JoinOnly(t.x, p, a, b, pi)
           z == [y EXCEPT ![p] = DropKid(@, pi)]
           h == [t EXCEPT !.x = JoinOnly(@, p, a, b, pi)]
           g == [h EXCEPT !.x[p] = DropKid(@, pi)]
           w == Len(t.x[p].sep)
<1>0. Joins(t.x, p, a, b, pi, y, z)
  BY CatXPages
<1>1. /\ [m \in DOMAIN z \ {b} |-> z[m]] = JoinedPages(t.x, p, a, b, pi)
      /\ [m \in DOMAIN y \ {p, b} |-> y[m]] = Without(JoinedPages(t.x, p, a, b, pi), p)
  BY <1>0 DEF Joins
<1>2. Is(h, t.c, t.r, t.d, y)
  BY DEF Is, Fields
<1>3. u = IF w > 1 THEN [g EXCEPT !.x = [m \in DOMAIN @ \ {b} |-> @[m]]]
          ELSE [[h EXCEPT !.x = [m \in DOMAIN @ \ {p, b} |-> @[m]]] EXCEPT !.r = Index(a)]
  BY CatXAs
<1> HIDE DEF u, y, h
<1>4. Is(g, t.c, t.r, t.d, z)
  BY <1>2 DEF Is, Fields
<1> HIDE DEF g, z, w
<1>5. ASSUME w > 1 PROVE Is(u, t.c, t.r, t.d, JoinedPages(t.x, p, a, b, pi))
  <2>1. u = [g EXCEPT !.x = [m \in DOMAIN @ \ {b} |-> @[m]]]
    BY <1>3, <1>5
  <2>2. Is(u, t.c, t.r, t.d, [m \in DOMAIN z \ {b} |-> z[m]])
    BY <1>4, <2>1 DEF Is, Fields
  <2> QED
    BY <1>1, <2>2
<1>6. ASSUME ~ (w > 1) PROVE Is(u, t.c, Index(a), t.d, Without(JoinedPages(t.x, p, a, b, pi), p))
  <2>1. u = [[h EXCEPT !.x = [m \in DOMAIN @ \ {p, b} |-> @[m]]] EXCEPT !.r = Index(a)]
    BY <1>3, <1>6
  <2>2. Is(u, t.c, Index(a), t.d, [m \in DOMAIN y \ {p, b} |-> y[m]])
    BY <1>2, <2>1 DEF Is, Fields
  <2> QED
    BY <1>1, <2>2
<1> QED
  BY <1>5, <1>6 DEF u, w

(* Page b goes into page a, and their parent still has a separator.        *)
LEMMA CatXKeeps ==
  ASSUME NEW t, NEW s, Sound(t, s), Full(t), NEW p, NEW pi, NEW a, NEW b, Siblings(t.x, p, pi, a, b),
         Len(t.x[p].sep) > 1, Len(t.x[p].sep) >= kx \/ t.r = Index(p),
         Len(t.x[a].sep) + 1 + Len(t.x[b].sep) \in kx .. 2 * kx,
         NEW c, NEW g, Carried(s, c, JoinedPages(t.x, p, a, b, pi), a, g, JoinedSpans(s, a, b)),
         NEW u, u = [t |-> CatX(t, p, a, b, pi), x |-> a, i |-> g]
  PROVE  DeleteOn(t, s, c, u)
<1> DEFINE x == t.x
           y == JoinedPages(x, p, a, b, pi)
           S == JoinedSpans(s, a, b)
           v == CatX(t, p, a, b, pi)
           lp == Len(x[p].sep)
           w == Len(x[a].sep) + 1 + Len(x[b].sep)
<1>1. Fields(t) /\ Laid(Len(t.d), t.r, x, s) /\ FullData(t.d, t.r) /\ FullIndex(x, t.r)
  BY DEF Sound, Full
<1>2. p \in DOMAIN x /\ a \in DOMAIN x /\ b \in DOMAIN x /\ a # b /\ p # a /\ p # b
  <2>1. SideBySide(x, s, p, pi, a, b)
    BY <1>1, SiblingFacts
  <2> QED
    BY <2>1 DEF SideBySide
<1>3. Is(v, t.c, t.r, t.d, y)
  BY <1>1, <1>2, CatXParts
<1>4. Laid(Len(t.d), t.r, y, S)
  BY <1>1, LaidJoined
<1>5. /\ DOMAIN y = DOMAIN x \ {b}
      /\ Len(y[a].sep) = w /\ Len(y[p].sep) = lp - 1
      /\ \A m \in DOMAIN y : m # a /\ m # p => y[m] = x[m]
  <2>1. JoinedFacts(x, p, a, b, pi, y)
    BY <1>1, JoinedAs
  <2> QED
    BY <2>1 DEF JoinedFacts, Bound, Dropped
<1>6. t.r.at = "x"
  BY <1>1, <1>2, RootIndex
<1>7. kx \in Nat \ {0, 1}
  BY BTreeAssumption DEF BTreeAssumption
<1>8. lp \in 1 .. 2 * kx + 1 /\ lp > 1 /\ (lp >= kx \/ t.r = Index(p))
  BY <1>1, <1>2 DEF FullIndex
<1>9. w \in kx .. 2 * kx
  OBVIOUS
<1> HIDE DEF y, S, v, lp, w
<1>10. Keeps(t, v, S)
  BY <1>3, <1>4, SoundReshaped
<1>11. lp - 1 \in 1 .. 2 * kx + 1 /\ (lp >= kx => lp - 1 >= kx - 1)
       /\ w \in 1 .. 2 * kx + 1 /\ w >= kx - 1 /\ w >= kx
  BY <1>7, <1>8, <1>9
<1>12. FullIndex(y, t.r)
  <2>1. ASSUME NEW m \in DOMAIN y
        PROVE  Len(y[m].sep) \in 1 .. 2 * kx + 1 /\ (Len(y[m].sep) >= kx - 1 \/ t.r = Index(m))
    <3>1. CASE m = a
      BY <1>5, <1>11, <3>1
    <3>2. CASE m = p
      BY <1>5, <1>8, <1>11, <3>2
    <3>3. CASE m # a /\ m # p
      BY <1>1, <1>5, <3>3 DEF FullIndex
    <3> QED
      BY <3>1, <3>2, <3>3
  <2> QED
    BY <2>1 DEF FullIndex
<1>13. v.x = y /\ v.d = t.d /\ v.r = t.r
  BY <1>3 DEF Is
<1>14. Full(v)
  BY <1>1, <1>12, <1>13 DEF Full
<1>15. Carried(s, c, y, a, g, S)
  BY DEF y, S, x
<1>16. u.t = v /\ u.x = a /\ u.i = g
  BY DEF v
<1>17. Reached(t, s, c, u, S)
  BY <1>10, <1>13, <1>14, <1>15, <1>16 DEF Reached
<1>18. Len(u.t.x[u.x].sep) >= kx
  BY <1>5, <1>11, <1>13, <1>16
<1> QED
  BY <1>17, <1>18 DEF DeleteOn

(* Page b goes into page a, the last child of the root, and a is the root. *)
LEMMA CatXShrinks ==
  ASSUME NEW t, NEW s, Sound(t, s), Full(t), NEW p, NEW pi, NEW a, NEW b, Siblings(t.x, p, pi, a, b),
         ~ (Len(t.x[p].sep) > 1), t.r = Index(p),
         Len(t.x[a].sep) + 1 + Len(t.x[b].sep) \in kx .. 2 * kx,
         NEW c, NEW g, Carried(s, c, JoinedPages(t.x, p, a, b, pi), a, g, JoinedSpans(s, a, b)),
         NEW u, u = [t |-> CatX(t, p, a, b, pi), x |-> a, i |-> g]
  PROVE  DeleteOn(t, s, c, u)
<1> DEFINE x == t.x
           n == Len(t.d)
           y == JoinedPages(x, p, a, b, pi)
           S == JoinedSpans(s, a, b)
           v == CatX(t, p, a, b, pi)
           lp == Len(x[p].sep)
           w == Len(x[a].sep) + 1 + Len(x[b].sep)
           z == Without(y, p)
           R == Without(S, p)
<1>1. Fields(t) /\ Laid(n, t.r, x, s) /\ FullData(t.d, t.r) /\ FullIndex(x, t.r)
  BY DEF Sound, Full
<1>2. p \in DOMAIN x /\ a \in DOMAIN x /\ b \in DOMAIN x /\ a # b /\ p # a /\ p # b
  <2>1. SideBySide(x, s, p, pi, a, b)
    BY <1>1, SiblingFacts
  <2> QED
    BY <2>1 DEF SideBySide
<1>3. Is(v, t.c, Index(a), t.d, z)
  BY <1>1, <1>2, CatXParts
<1>4. Laid(n, t.r, y, S)
  BY <1>1, LaidJoined
<1>5. lp = 1 /\ pi = 0 /\ x[p].ch[1] = Index(a)
  <2>1. pi \in 0 .. lp - 1 /\ x[p].ch[pi + 1] = Index(a)
    BY DEF Siblings
  <2>2. lp \in 1 .. 2 * kx + 1 /\ ~ (lp > 1) /\ kx \in Nat
    BY <1>1, <1>2, BTreeAssumption DEF FullIndex, BTreeAssumption
  <2> HIDE DEF lp
  <2>3. lp = 1 /\ pi = 0 /\ pi + 1 = 1
    BY <2>1, <2>2
  <2> QED
    BY <2>1, <2>3
<1>6. /\ DOMAIN y = DOMAIN x \ {b}
      /\ Len(y[a].sep) = w /\ Len(y[p].sep) = 0 /\ y[p].ch[1] = Index(a)
      /\ \A m \in DOMAIN y : m # a /\ m # p => y[m] = x[m]
  <2>1. JoinedFacts(x, p, a, b, pi, y)
    BY <1>1, JoinedAs
  <2> HIDE DEF y
  <2>2. /\ DOMAIN y = DOMAIN x \ {b}
        /\ Len(y[a].sep) = w /\ Len(y[p].sep) = lp - 1
        /\ \A i \in 1 .. pi + 1 : y[p].ch[i] = x[p].ch[i]
        /\ \A m \in DOMAIN y : m # a /\ m # p => y[m] = x[m]
    BY <2>1 DEF JoinedFacts, Bound, Dropped
  <2>3. 1 \in 1 .. pi + 1 /\ lp - 1 = 0
    BY <1>5
  <2>4. y[p].ch[1] = x[p].ch[1]
    BY <2>2, <2>3
  <2> QED
    BY <1>5, <2>2, <2>3, <2>4
<1>7. kx \in Nat \ {0, 1}
  BY BTreeAssumption DEF BTreeAssumption
<1>8. w \in kx .. 2 * kx
  OBVIOUS
<1>9. Laid(n, Index(a), z, R)
  <2>1. p \in DOMAIN y /\ t.r = Index(p)
    BY <1>2, <1>6
  <2> HIDE DEF y, S, n
  <2>2. Laid(n, y[p].ch[1], Without(y, p), Without(S, p))
    BY <1>4, <1>6, <2>1, LaidShrunk
  <2> QED
    BY <1>6, <2>2
<1> HIDE DEF y, S, v, lp, w
<1>10. Keeps(t, v, R)
  BY <1>3, <1>9, SoundReshaped
<1>11. w \in 1 .. 2 * kx + 1 /\ w >= kx - 1 /\ w >= kx
  BY <1>7, <1>8
<1>12. DOMAIN z = DOMAIN x \ {b, p} /\ z[a] = y[a] /\ a \in DOMAIN z
       /\ \A m \in DOMAIN z : m # a => z[m] = x[m]
  BY <1>2, <1>6 DEF Without
<1>13. FullIndex(z, Index(a))
  <2>1. ASSUME NEW m \in DOMAIN z
        PROVE  Len(z[m].sep) \in 1 .. 2 * kx + 1 /\ Len(z[m].sep) >= kx - 1
    <3>1. CASE m = a
      BY <1>6, <1>11, <1>12, <3>1
    <3>2. CASE m # a
      <4>1. t.r # Index(m)
        BY <1>12 DEF Index
      <4>2. Len(x[m].sep) \in 1 .. 2 * kx + 1 /\ Len(x[m].sep) >= kx - 1
        BY <1>1, <1>12, <4>1 DEF FullIndex
      <4> HIDE DEF z
      <4> QED
        BY <1>12, <3>2, <4>2
    <3> QED
      BY <3>1, <3>2
  <2> QED
    BY <2>1 DEF FullIndex
<1>14. v.x = z /\ v.d = t.d /\ v.r = Index(a)
  BY <1>3 DEF Is
<1>15. Full(v)
  <2>1. t.r.at = "x"
    BY DEF Index
  <2> HIDE DEF z
  <2> QED
    BY <1>1, <1>13, <1>14, <2>1, FullAnyRoot DEF Full
<1>16. Carried(s, c, z, a, g, R)
  <2>1. Carried(s, c, y, a, g, S)
    BY DEF y, S, x
  <2>2. g \in 0 .. Len(y[a].sep) /\ y[a].ch[g + 1] = c /\ From(S, c) = From(s, c) /\ To(S, c) = To(s, c)
    BY <2>1 DEF Carried, Under
  <2> DEFINE o == g + 1
             k == Len(y[a].sep)
  <2>3. a \in DOMAIN y /\ k \in Nat
    BY <1>2, <1>4, <1>6, PageType
  <2>4. o \in 1 .. k + 1
    <3>1. g \in 0 .. k
      BY <2>2
    <3> HIDE DEF k
    <3> QED
      BY <2>3, <3>1
  <2>5. y[a].ch[o] \in PagesOf(n, y) /\ y[a].ch[o] # t.r
    BY <1>4, <2>3, <2>4, PageType, RootNoChild
  <2>6. c \in PagesOf(n, y) /\ c # Index(p)
    BY <2>2, <2>5
  <2>7. c.at = "x" => R[c.no] = S[c.no]
    <3>1. c.at = "x" => c.no \in DOMAIN y /\ c = Index(c.no)
      BY <2>6, PointerKinds DEF Data
    <3>2. DOMAIN S = DOMAIN y
      BY <1>4 DEF Laid, Typed
    <3> QED
      BY <2>6, <3>1, <3>2 DEF Without
  <2>8. From(R, c) = From(S, c) /\ To(R, c) = To(S, c)
    <3> HIDE DEF R
    <3> QED
      BY <2>6, <2>7, SameSpans
  <2> HIDE DEF z, R
  <2> QED
    BY <1>12, <2>2, <2>8 DEF Carried, Under
<1>17. u.t = v /\ u.x = a /\ u.i = g
  BY DEF v
<1>18. Reached(t, s, c, u, R)
  BY <1>10, <1>14, <1>15, <1>16, <1>17 DEF Reached
<1>19. u.t.r = Index(u.x)
  BY <1>14, <1>17
<1> QED
  BY <1>18, <1>19 DEF DeleteOn

-----------------------------------------------------------------------------
(* UnderflowX.                                                             *)

(* A separator and the child behind it that go and come back: the child is *)
(* the same and the separator is d.                                        *)
Restored(U, pi, d, P) == P.sep = [U.sep EXCEPT ![pi + 1] = d] /\ P.ch = U.ch

(* XInsert puts back what was dropped.                                     *)
LEMMA PutBack ==
  ASSUME NEW A, NEW B, NEW U, U.sep \in Seq(A), U.ch \in Seq(B),
         NEW k \in Nat, Len(U.sep) = k, Len(U.ch) = k + 1, NEW pi \in 0 .. k - 1, NEW d \in A,
         NEW c \in B, c = U.ch[pi + 2], NEW P, P = XInsert(DropKid(U, pi), pi, d, c)
  PROVE  Restored(U, pi, d, P)
<1> DEFINE D == DropKid(U, pi)
           l == k - 1
           o == pi + 1
           e == pi + 2
<1>0. l \in Nat /\ l + 1 = k /\ pi \in 0 .. l /\ o \in 1 .. k /\ e \in 1 .. k + 1 /\ k + 1 = l + 2 /\ l = k - 1
  OBVIOUS
<1>1. Dropped(A, B, U, k, pi, D)
  BY KidDropped
<1> HIDE DEF D, l
<1>2. /\ D.sep \in Seq(A) /\ Len(D.sep) = l /\ D.ch \in Seq(B) /\ Len(D.ch) = l + 1
      /\ \A i \in 1 .. pi : D.sep[i] = U.sep[i]
      /\ \A i \in pi + 1 .. l : D.sep[i] = U.sep[i + 1]
      /\ \A i \in 1 .. pi + 1 : D.ch[i] = U.ch[i]
      /\ \A i \in pi + 2 .. k : D.ch[i] = U.ch[i + 1]
  BY <1>0, <1>1 DEF Dropped
<1>3. P = XInsert(D, pi, d, c)
  BY DEF D
<1>4. PutPage(A, B, D, l, pi, d, c, P)
  BY <1>0, <1>2, <1>3, XInserted
<1>5. /\ P.sep \in Seq(A) /\ Len(P.sep) = l + 1
      /\ \A i \in 1 .. pi : P.sep[i] = D.sep[i]
      /\ P.sep[pi + 1] = d
      /\ \A i \in pi + 1 .. l : P.sep[i + 1] = D.sep[i]
  BY <1>4 DEF PutPage
<1>6. /\ P.ch \in Seq(B) /\ Len(P.ch) = l + 2
      /\ \A i \in 1 .. pi + 1 : P.ch[i] = D.ch[i]
      /\ P.ch[pi + 2] = c
      /\ \A i \in pi + 2 .. l + 1 : P.ch[i + 1] = D.ch[i]
  BY <1>4 DEF PutPage
<1> DEFINE u == U.sep
           t == [u EXCEPT ![o] = d]
<1>7. t \in Seq(A) /\ Len(t) = k /\ t[o] = d /\ \A i \in 1 .. k : i # o => t[i] = u[i]
  <2>1. u \in Seq(A) /\ Len(u) = k
    OBVIOUS
  <2> HIDE DEF u, o
  <2> QED
    BY <1>0, <2>1
<1>8. ASSUME NEW i \in 1 .. k PROVE P.sep[i] = t[i]
  <2>1. i \in 1 .. pi \/ i = o \/ i - 1 \in pi + 1 .. l
    BY <1>0
  <2>2. CASE i \in 1 .. pi
    <3>1. i # o
      BY <1>0, <2>2
    <3> HIDE DEF t
    <3> QED
      BY <1>2, <1>5, <1>7, <2>2, <3>1
  <2>3. CASE i = o
    BY <1>5, <1>7, <2>3
  <2>4. CASE i - 1 \in pi + 1 .. l
    <3> DEFINE h == i - 1
    <3>1. h \in pi + 1 .. l /\ h + 1 = i /\ i # o
      BY <1>0, <2>4
    <3> HIDE DEF h, t, o
    <3>2. P.sep[h + 1] = D.sep[h] /\ D.sep[h] = U.sep[h + 1]
      BY <1>2, <1>5, <3>1
    <3> QED
      BY <1>7, <3>1, <3>2
  <2> QED
    BY <2>1, <2>2, <2>3, <2>4
<1>9. P.sep = t
  <2> HIDE DEF t
  <2>1. Len(P.sep) = k
    BY <1>0, <1>5
  <2> QED
    BY <1>5, <1>7, <1>8, <2>1, SeqEqual
<1>10. ASSUME NEW i \in 1 .. k + 1 PROVE P.ch[i] = U.ch[i]
  <2>1. i \in 1 .. pi + 1 \/ i = e \/ i - 1 \in pi + 2 .. k
    BY <1>0
  <2>2. CASE i \in 1 .. pi + 1
    BY <1>2, <1>6, <2>2
  <2>3. CASE i = e
    BY <1>6, <2>3
  <2>4. CASE i - 1 \in pi + 2 .. k
    <3> DEFINE h == i - 1
    <3>1. h \in pi + 2 .. l + 1 /\ h + 1 = i /\ h \in pi + 2 .. k
      BY <1>0, <2>4
    <3> HIDE DEF h
    <3> QED
      BY <1>2, <1>6, <3>1
  <2> QED
    BY <2>1, <2>2, <2>3, <2>4
<1>11. P.ch = U.ch
  <2> DEFINE v == U.ch
             z == P.ch
  <2>1. v \in Seq(B) /\ z \in Seq(B) /\ Len(v) = k + 1 /\ Len(z) = k + 1
    BY <1>0, <1>6
  <2>2. \A i \in 1 .. Len(z) : z[i] = v[i]
    BY <1>10, <2>1
  <2> HIDE DEF v, z
  <2>3. z = v
    BY <2>1, <2>2, SeqEqual
  <2> QED
    BY <2>3 DEF v, z
<1> QED
  BY <1>9, <1>11 DEF Restored

(* Pages with the same separators and children.                            *)
SamePages(y, z) ==
  /\ DOMAIN z = DOMAIN y /\ z = [m \in DOMAIN z |-> z[m]]
  /\ \A m \in DOMAIN y : z[m].sep = y[m].sep /\ z[m].ch = y[m].ch

(* What is laid out with some pages is so with the same pages, given       *)
(* otherwise.                                                              *)
LEMMA LaidSame ==
  ASSUME NEW n, NEW r, NEW y, NEW s, Laid(n, r, y, s), NEW z, SamePages(y, z)
  PROVE  Laid(n, r, z, s)
<1>1. /\ DOMAIN z = DOMAIN y /\ z = [m \in DOMAIN z |-> z[m]]
      /\ \A m \in DOMAIN y : z[m].sep = y[m].sep /\ z[m].ch = y[m].ch
  BY DEF SamePages
<1>2. PagesOf(n, z) = PagesOf(n, y)
  BY <1>1 DEF PagesOf
<1>3. Typed(n, r, z, s)
  <2>1. Typed(n, r, y, s)
    BY DEF Laid
  <2> QED
    BY <1>1, <1>2, <2>1 DEF Typed
<1>4. ASSUME NEW m \in DOMAIN z PROVE Kids(s, z[m], s[m])
  <2>1. Kids(s, y[m], s[m])
    BY <1>1 DEF Laid
  <2>2. z[m].sep = y[m].sep /\ z[m].ch = y[m].ch
    BY <1>1
  <2> QED
    BY <2>1, <2>2 DEF Kids
<1>5. Nested(z, s)
  <2>1. Nested(y, s)
    BY DEF Laid
  <2> QED
    BY <1>1, <2>1 DEF Nested
<1>6. Rooted(n, r, z, s)
  <2>1. Rooted(n, r, y, s)
    BY DEF Laid
  <2> QED
    BY <1>1, <2>1 DEF Rooted
<1> QED
  BY <1>3, <1>4, <1>5, <1>6 DEF Laid

(* Where a child is with some pages it is with the same pages, given       *)
(* otherwise.                                                              *)
LEMMA CarriedSame ==
  ASSUME NEW s, NEW c, NEW y, NEW m, NEW i, NEW S, Carried(s, c, y, m, i, S), NEW z, SamePages(y, z)
  PROVE  Carried(s, c, z, m, i, S)
  BY DEF Carried, Under, SamePages

(* Sequences that agree everywhere are equal.                              *)
LEMMA EqualAt ==
  ASSUME NEW X, NEW u \in Seq(X), NEW v \in Seq(X), NEW n, Len(u) = n, Len(v) = n,
         \A i \in 1 .. n : u[i] = v[i]
  PROVE  u = v
  BY SeqEqual

(* What u is to s: without its last value, without its first, with one     *)
(* more at the end, and with one more at the front.                        *)
FrontOf(X, s, n, u) == u \in Seq(X) /\ Len(u) = n - 1 /\ \A i \in 1 .. n - 1 : u[i] = s[i]
TailOf(X, s, n, u) == u \in Seq(X) /\ Len(u) = n - 1 /\ \A i \in 1 .. n - 1 : u[i] = s[i + 1]
MoreOf(X, s, n, e, u) ==
  u \in Seq(X) /\ Len(u) = n + 1 /\ u[n + 1] = e /\ \A i \in 1 .. n : u[i] = s[i]
ConsOf(X, e, s, n, u) ==
  u \in Seq(X) /\ Len(u) = 1 + n /\ u[1] = e /\ \A i \in 1 .. n : u[1 + i] = s[i]

(* What Front, Tail and Last are of a sequence.                            *)
LEMMA EndsOf ==
  ASSUME NEW X, NEW s \in Seq(X), NEW n, n = Len(s), n >= 1
  PROVE  FrontOf(X, s, n, Front(s)) /\ TailOf(X, s, n, Tail(s)) /\ Last(s) = s[n]
<1>1. n \in Nat /\ n - 1 \in Nat /\ 1 + (n - 1) - 1 <= n /\ n - 1 = 1 + (n - 1) - 1
  <2>1. n \in Nat
    BY Elements
  <2> QED
    BY <2>1
<1>2. Slice(X, s, 1, n - 1, SubSeq(s, 1, n - 1))
  <2> DEFINE m == n - 1
  <2>1. m \in Nat /\ m = 1 + m - 1 /\ 1 + m - 1 <= Len(s) /\ 1 \in Nat \ {0}
    BY <1>1
  <2> HIDE DEF m
  <2>2. Slice(X, s, 1, m, SubSeq(s, 1, m))
    BY <2>1, Sliced
  <2> QED
    BY <2>2 DEF m
<1>3. \A i \in 1 .. n - 1 : 1 + i - 1 = i
  BY <1>1
<1>4. FrontOf(X, s, n, Front(s))
  BY <1>2, <1>3 DEF Slice, FrontOf, Front
<1>5. TailOf(X, s, n, Tail(s))
  <2>1. s # <<>>
    OBVIOUS
  <2> QED
    BY <2>1, HeadTailProperties DEF TailOf
<1> QED
  BY <1>4, <1>5 DEF Last

(* What a value at the end or at the front makes of a sequence.            *)
LEMMA MoreAs ==
  ASSUME NEW X, NEW s \in Seq(X), NEW n, n = Len(s), NEW e \in X
  PROVE  MoreOf(X, s, n, e, Append(s, e)) /\ ConsOf(X, e, s, n, <<e>> \o s)
<1>1. MoreOf(X, s, n, e, Append(s, e))
  BY AppendProperties DEF MoreOf
<1>2. Chain(X, <<e>>, 1, s, n, <<e>> \o s)
  <2>1. <<e>> \in Seq(X) /\ 1 = Len(<<e>>)
    OBVIOUS
  <2> QED
    BY <2>1, Chained
<1>3. <<e>>[1] = e /\ 1 \in 1 .. 1
  OBVIOUS
<1>4. ConsOf(X, e, s, n, <<e>> \o s)
  <2> DEFINE u == <<e>> \o s
  <2> HIDE DEF u
  <2>1. Chain(X, <<e>>, 1, s, n, u)
    BY <1>2 DEF u
  <2>2. ConsOf(X, e, s, n, u)
    BY <1>3, <2>1 DEF Chain, ConsOf
  <2> QED
    BY <2>2 DEF u
<1> QED
  BY <1>1, <1>4

(* Of the two joined and parted again, the right one has a separator and a *)
(* child more.                                                             *)
LentLeftPages(U, d, V, k, L, R, e) ==
  /\ L.sep = Front(U.sep) /\ L.ch = Front(U.ch)
  /\ R.sep = <<d>> \o V.sep /\ R.ch = <<Last(U.ch)>> \o V.ch /\ e = Last(U.sep)

(* Two pages joined and cut one separator earlier: the left one's last     *)
(* child has moved over.                                                   *)
LEMMA LendingLeft ==
  ASSUME NEW A, NEW B, NEW U, U.sep \in Seq(A), U.ch \in Seq(B), NEW V, V.sep \in Seq(A), V.ch \in Seq(B),
         NEW k \in Nat, Len(U.sep) = k, Len(U.ch) = k + 1, NEW l \in Nat, Len(V.sep) = l, Len(V.ch) = l + 1,
         NEW d \in A, k >= 1, NEW P, P = Both(U, d, V)
  PROVE  LentLeftPages(U, d, V, k, LeftPart(P, k), RightPart(P, k), P.sep[k])
<1> DEFINE L == LeftPart(P, k)
           R == RightPart(P, k)
           w == k + 1 + l
           us == U.sep
           uc == U.ch
           vs == V.sep
           vc == V.ch
           o == k + 1
           q == l + 1
<1>0. /\ w \in Nat /\ k \in 1 .. w /\ w - k = 1 + l /\ w + 1 - k = 1 + q /\ o \in Nat /\ o >= 1 /\ o - 1 = k
      /\ q \in Nat /\ o = k + 1 /\ q = l + 1 /\ k + 1 + (l + 1) = w + 1 /\ k \in 1 .. k
  OBVIOUS
<1>1. Bound(A, B, U, k, d, V, l, P)
  BY BothBound
<1>2. /\ P.sep \in Seq(A) /\ Len(P.sep) = w
      /\ \A i \in 1 .. k : P.sep[i] = us[i]
      /\ P.sep[k + 1] = d
      /\ \A i \in 1 .. l : P.sep[k + 1 + i] = vs[i]
      /\ P.ch \in Seq(B) /\ Len(P.ch) = w + 1
      /\ \A i \in 1 .. k + 1 : P.ch[i] = uc[i]
      /\ \A i \in 1 .. l + 1 : P.ch[k + 1 + i] = vc[i]
  BY <1>0, <1>1 DEF Bound
<1>3. us \in Seq(A) /\ uc \in Seq(B) /\ vs \in Seq(A) /\ vc \in Seq(B)
      /\ Len(us) = k /\ Len(uc) = o /\ Len(vs) = l /\ Len(vc) = q
  OBVIOUS
<1> HIDE DEF L, R, w, us, uc, vs, vc, o, q
<1>4. PartsOf(A, B, P, w, k, L, R)
  BY <1>0, <1>2, CutParts DEF L, R
<1>5. /\ L.sep \in Seq(A) /\ R.sep \in Seq(A) /\ L.ch \in Seq(B) /\ R.ch \in Seq(B)
      /\ Len(L.sep) = k - 1 /\ Len(R.sep) = 1 + l
      /\ \A i \in 1 .. k - 1 : L.sep[i] = P.sep[i]
      /\ \A i \in 1 .. 1 + l : R.sep[i] = P.sep[k + i]
      /\ Len(L.ch) = k /\ Len(R.ch) = 1 + q
      /\ \A i \in 1 .. k : L.ch[i] = P.ch[i]
      /\ \A i \in 1 .. 1 + q : R.ch[i] = P.ch[k + i]
  BY <1>0, <1>4 DEF PartsOf
<1>6. FrontOf(A, us, k, Front(us)) /\ Last(us) = us[k]
  BY <1>3, EndsOf
<1>7. FrontOf(B, uc, o, Front(uc)) /\ Last(uc) = uc[o]
  BY <1>0, <1>3, EndsOf
<1>8. L.sep = Front(us)
  <2> DEFINE z == Front(us)
  <2> HIDE DEF z
  <2>1. z \in Seq(A) /\ Len(z) = k - 1 /\ \A i \in 1 .. k - 1 : z[i] = us[i]
    BY <1>6 DEF FrontOf, z
  <2>2. \A i \in 1 .. k - 1 : i \in 1 .. k
    BY <1>0
  <2>3. \A i \in 1 .. k - 1 : L.sep[i] = z[i]
    BY <1>2, <1>5, <2>1, <2>2
  <2>5. L.sep \in Seq(A) /\ Len(L.sep) = k - 1
    BY <1>5
  <2>4. L.sep = z
    BY <2>1, <2>3, <2>5, EqualAt
  <2> QED
    BY <2>4 DEF z
<1>9. L.ch = Front(uc)
  <2> DEFINE z == Front(uc)
  <2> HIDE DEF z
  <2>1. z \in Seq(B) /\ Len(z) = k /\ \A i \in 1 .. k : z[i] = uc[i]
    BY <1>0, <1>7 DEF FrontOf, z
  <2>2. \A i \in 1 .. k : i \in 1 .. k + 1
    BY <1>0
  <2>3. \A i \in 1 .. Len(L.ch) : L.ch[i] = z[i]
    BY <1>2, <1>5, <2>1, <2>2
  <2>4. L.ch = z
    BY <1>5, <2>1, <2>3, SeqEqual
  <2> QED
    BY <2>4 DEF z
<1>10. R.sep = <<d>> \o vs
  <2> DEFINE z == <<d>> \o vs
  <2>0. ConsOf(A, d, vs, l, z)
    BY <1>3, MoreAs
  <2> HIDE DEF z
  <2>1. z \in Seq(A) /\ Len(z) = 1 + l /\ z[1] = d /\ \A i \in 1 .. l : z[1 + i] = vs[i]
    BY <2>0 DEF ConsOf
  <2>2. ASSUME NEW i \in 1 .. 1 + l PROVE R.sep[i] = z[i]
    <3>1. i = 1 \/ i - 1 \in 1 .. l
      BY <1>0
    <3>2. CASE i = 1
      <4>1. R.sep[1] = P.sep[k + 1] /\ 1 \in 1 .. 1 + l
        <5>1. 1 \in 1 .. 1 + l
          BY <1>0
        <5> QED
          BY <1>5, <5>1
      <4> QED
        BY <1>2, <2>1, <3>2, <4>1
    <3>3. CASE i - 1 \in 1 .. l
      <4> DEFINE h == i - 1
      <4>1. h \in 1 .. l /\ 1 + h = i /\ k + i = k + 1 + h
        BY <1>0, <3>3
      <4> HIDE DEF h
      <4>2. R.sep[i] = P.sep[k + i]
        BY <1>5
      <4>3. P.sep[k + 1 + h] = vs[h]
        BY <1>2, <4>1
      <4>4. z[1 + h] = vs[h]
        BY <2>1, <4>1
      <4> QED
        BY <4>1, <4>2, <4>3, <4>4
    <3> QED
      BY <3>1, <3>2, <3>3
  <2>3. R.sep = z
    BY <1>5, <2>1, <2>2, SeqEqual
  <2> QED
    BY <2>3 DEF z
<1>11. R.ch = <<Last(uc)>> \o vc
  <2> DEFINE e == Last(uc)
             z == <<e>> \o vc
  <2>0. e = uc[o] /\ e \in B
    <3>1. o \in 1 .. o
      BY <1>0
    <3> QED
      BY <1>3, <1>7, <3>1, Elements
  <2> HIDE DEF e
  <2>1. ConsOf(B, e, vc, q, z)
    BY <1>3, <2>0, MoreAs
  <2> HIDE DEF z
  <2>2. z \in Seq(B) /\ Len(z) = 1 + q /\ z[1] = e /\ \A i \in 1 .. q : z[1 + i] = vc[i]
    BY <2>1 DEF ConsOf
  <2>3. ASSUME NEW i \in 1 .. 1 + q PROVE R.ch[i] = z[i]
    <3>1. i = 1 \/ i - 1 \in 1 .. q
      BY <1>0
    <3>2. CASE i = 1
      <4>1. R.ch[1] = P.ch[k + 1]
        <5>1. 1 \in 1 .. 1 + q
          BY <1>0
        <5> QED
          BY <1>5, <5>1
      <4>2. P.ch[k + 1] = uc[o]
        BY <1>0, <1>2
      <4> QED
        BY <2>0, <2>2, <3>2, <4>1, <4>2
    <3>3. CASE i - 1 \in 1 .. q
      <4> DEFINE h == i - 1
      <4>1. h \in 1 .. q /\ h \in 1 .. l + 1 /\ 1 + h = i /\ k + i = k + 1 + h
        BY <1>0, <3>3
      <4> HIDE DEF h
      <4>2. R.ch[i] = P.ch[k + i]
        BY <1>5
      <4>3. P.ch[k + 1 + h] = vc[h]
        BY <1>2, <4>1
      <4>4. z[1 + h] = vc[h]
        BY <2>2, <4>1
      <4> QED
        BY <4>1, <4>2, <4>3, <4>4
    <3> QED
      BY <3>1, <3>2, <3>3
  <2>4. R.ch = z
    BY <1>5, <2>2, <2>3, SeqEqual
  <2> QED
    BY <2>4 DEF z, e
<1>12. P.sep[k] = Last(us)
  BY <1>0, <1>2, <1>6
<1> QED
  BY <1>8, <1>9, <1>10, <1>11, <1>12 DEF LentLeftPages, L, R, us, uc, vs, vc

(* What the two pages and the separator are after a loan from the right.   *)
LentRightPages(U, d, V, L, R, e) ==
  /\ L.sep = Append(U.sep, d) /\ L.ch = Append(U.ch, V.ch[1])
  /\ R.sep = Tail(V.sep) /\ R.ch = Tail(V.ch) /\ e = V.sep[1]

(* Two pages joined and cut one separator later: the right one's first     *)
(* child has moved over.                                                   *)
LEMMA LendingRight ==
  ASSUME NEW A, NEW B, NEW U, U.sep \in Seq(A), U.ch \in Seq(B), NEW V, V.sep \in Seq(A), V.ch \in Seq(B),
         NEW k \in Nat, Len(U.sep) = k, Len(U.ch) = k + 1, NEW l \in Nat, Len(V.sep) = l, Len(V.ch) = l + 1,
         NEW d \in A, l >= 1, NEW P, P = Both(U, d, V)
  PROVE  LentRightPages(U, d, V, LeftPart(P, k + 2), RightPart(P, k + 2), P.sep[k + 2])
<1> DEFINE j == k + 2
           L == LeftPart(P, j)
           R == RightPart(P, j)
           w == k + 1 + l
           us == U.sep
           uc == U.ch
           vs == V.sep
           vc == V.ch
           o == k + 1
           q == l + 1
<1>0. /\ w \in Nat /\ j \in 1 .. w /\ w - j = l - 1 /\ w + 1 - j = l /\ o \in Nat /\ j - 1 = o /\ j = o + 1
      /\ q \in Nat /\ q >= 1 /\ o = k + 1 /\ q = l + 1 /\ q - 1 = l /\ k + 1 + (l + 1) = w + 1 /\ j \in Nat
      /\ k \in Nat /\ l \in Nat
  OBVIOUS
<1>1. Bound(A, B, U, k, d, V, l, P)
  BY BothBound
<1>2. /\ P.sep \in Seq(A) /\ Len(P.sep) = w
      /\ \A i \in 1 .. k : P.sep[i] = us[i]
      /\ P.sep[k + 1] = d
      /\ \A i \in 1 .. l : P.sep[k + 1 + i] = vs[i]
      /\ P.ch \in Seq(B) /\ Len(P.ch) = w + 1
      /\ \A i \in 1 .. k + 1 : P.ch[i] = uc[i]
      /\ \A i \in 1 .. l + 1 : P.ch[k + 1 + i] = vc[i]
  BY <1>0, <1>1 DEF Bound
<1>3. us \in Seq(A) /\ uc \in Seq(B) /\ vs \in Seq(A) /\ vc \in Seq(B)
      /\ Len(us) = k /\ Len(uc) = o /\ Len(vs) = l /\ Len(vc) = q
  OBVIOUS
<1> HIDE DEF L, R, w, us, uc, vs, vc, o, q, j
<1>4. PartsOf(A, B, P, w, j, L, R)
  BY <1>0, <1>2, CutParts DEF L, R
<1>5. /\ L.sep \in Seq(A) /\ R.sep \in Seq(A) /\ L.ch \in Seq(B) /\ R.ch \in Seq(B)
      /\ Len(L.sep) = o /\ Len(R.sep) = l - 1
      /\ \A i \in 1 .. o : L.sep[i] = P.sep[i]
      /\ \A i \in 1 .. l - 1 : R.sep[i] = P.sep[j + i]
      /\ Len(L.ch) = j /\ Len(R.ch) = l
      /\ \A i \in 1 .. j : L.ch[i] = P.ch[i]
      /\ \A i \in 1 .. l : R.ch[i] = P.ch[j + i]
  BY <1>0, <1>4 DEF PartsOf
<1>6. TailOf(A, vs, l, Tail(vs))
  BY <1>3, EndsOf
<1>7. TailOf(B, vc, q, Tail(vc))
  BY <1>0, <1>3, EndsOf
<1>8. L.sep = Append(us, d)
  <2> DEFINE z == Append(us, d)
  <2>0. MoreOf(A, us, k, d, z)
    BY <1>3, MoreAs
  <2> HIDE DEF z
  <2>1. z \in Seq(A) /\ Len(z) = o /\ z[k + 1] = d /\ \A i \in 1 .. k : z[i] = us[i]
    BY <1>0, <2>0 DEF MoreOf
  <2>2. ASSUME NEW i \in 1 .. o PROVE L.sep[i] = z[i]
    <3>1. i \in 1 .. k \/ i = k + 1
      BY <1>0
    <3>2. L.sep[i] = P.sep[i]
      BY <1>5
    <3> QED
      BY <1>2, <2>1, <3>1, <3>2
  <2>3. L.sep \in Seq(A) /\ Len(L.sep) = o
    BY <1>5
  <2>4. L.sep = z
    BY <2>1, <2>2, <2>3, EqualAt
  <2> QED
    BY <2>4 DEF z
<1>9. L.ch = Append(uc, vc[1])
  <2> DEFINE e == vc[1]
             z == Append(uc, e)
  <2>5. e \in B
    <3>1. 1 \in 1 .. q
      BY <1>0
    <3> QED
      BY <1>3, <3>1, Elements
  <2>6. P.ch[k + 1 + 1] = e
    <3>1. 1 \in 1 .. l + 1
      BY <1>0
    <3> QED
      BY <1>2, <3>1
  <2> HIDE DEF e
  <2>0. MoreOf(B, uc, o, e, z)
    BY <1>3, <2>5, MoreAs
  <2> HIDE DEF z
  <2>1. z \in Seq(B) /\ Len(z) = j /\ z[o + 1] = e /\ \A i \in 1 .. o : z[i] = uc[i]
    BY <1>0, <2>0 DEF MoreOf
  <2>2. ASSUME NEW i \in 1 .. j PROVE L.ch[i] = z[i]
    <3>1. i \in 1 .. o \/ i = o + 1
      BY <1>0
    <3>2. L.ch[i] = P.ch[i]
      BY <1>5
    <3>3. ASSUME i \in 1 .. o PROVE L.ch[i] = z[i]
      <4>1. i \in 1 .. k + 1
        BY <1>0, <3>3
      <4> QED
        BY <1>2, <2>1, <3>2, <3>3, <4>1
    <3>4. ASSUME i = o + 1 PROVE L.ch[i] = z[i]
      <4>1. i = k + 1 + 1
        BY <1>0, <3>4
      <4> QED
        BY <2>1, <2>6, <3>2, <3>4, <4>1
    <3> QED
      BY <3>1, <3>3, <3>4
  <2>3. L.ch \in Seq(B) /\ Len(L.ch) = j
    BY <1>5
  <2>4. L.ch = z
    BY <2>1, <2>2, <2>3, EqualAt
  <2> QED
    BY <2>4 DEF z, e
<1>10. R.sep = Tail(vs)
  <2> DEFINE z == Tail(vs)
  <2> HIDE DEF z
  <2>1. z \in Seq(A) /\ Len(z) = l - 1 /\ \A i \in 1 .. l - 1 : z[i] = vs[i + 1]
    BY <1>6 DEF TailOf, z
  <2>2. ASSUME NEW i \in 1 .. l - 1 PROVE R.sep[i] = z[i]
    <3> DEFINE h == i + 1
    <3>1. h \in 1 .. l /\ j + i = k + 1 + h
      BY <1>0
    <3>2. R.sep[i] = P.sep[j + i] /\ z[i] = vs[h]
      BY <1>5, <2>1
    <3> HIDE DEF h
    <3>3. P.sep[k + 1 + h] = vs[h]
      BY <1>2, <3>1
    <3> QED
      BY <3>1, <3>2, <3>3
  <2>3. R.sep \in Seq(A) /\ Len(R.sep) = l - 1
    BY <1>5
  <2>4. R.sep = z
    BY <2>1, <2>2, <2>3, EqualAt
  <2> QED
    BY <2>4 DEF z
<1>11. R.ch = Tail(vc)
  <2> DEFINE z == Tail(vc)
  <2> HIDE DEF z
  <2>1. z \in Seq(B) /\ Len(z) = l /\ \A i \in 1 .. l : z[i] = vc[i + 1]
    BY <1>0, <1>7 DEF TailOf, z
  <2>2. ASSUME NEW i \in 1 .. l PROVE R.ch[i] = z[i]
    <3> DEFINE h == i + 1
    <3>1. h \in 1 .. l + 1 /\ j + i = k + 1 + h
      BY <1>0
    <3>2. R.ch[i] = P.ch[j + i] /\ z[i] = vc[h]
      BY <1>5, <2>1
    <3> HIDE DEF h
    <3>3. P.ch[k + 1 + h] = vc[h]
      BY <1>2, <3>1
    <3> QED
      BY <3>1, <3>2, <3>3
  <2>3. R.ch \in Seq(B) /\ Len(R.ch) = l
    BY <1>5
  <2>4. R.ch = z
    BY <2>1, <2>2, <2>3, EqualAt
  <2> QED
    BY <2>4 DEF z
<1>12. P.sep[j] = vs[1]
  <2>1. 1 \in 1 .. l /\ k + 1 + 1 = j
    BY <1>0
  <2> QED
    BY <1>2, <2>1
<1> QED
  BY <1>8, <1>9, <1>10, <1>11, <1>12 DEF LentRightPages, L, R, us, uc, vs, vc, j

(* Pages z are pages x, but what a, b and the separator between them hold  *)
(* is shared out anew: j children to a, the others to b.                   *)
LentPages(x, p, pi, a, b, j, z) ==
  LET J == Both(x[a], x[p].sep[pi + 1], x[b])
  IN  /\ DOMAIN z = DOMAIN x /\ z = [m \in DOMAIN z |-> z[m]]
      /\ z[p].sep = [x[p].sep EXCEPT ![pi + 1] = J.sep[j]] /\ z[p].ch = x[p].ch
      /\ z[a].sep = LeftPart(J, j).sep /\ z[a].ch = LeftPart(J, j).ch
      /\ z[b].sep = RightPart(J, j).sep /\ z[b].ch = RightPart(J, j).ch
      /\ \A m \in DOMAIN x : m # p /\ m # a /\ m # b => z[m] = x[m]

(* The index pages, and their spans, after a loan between neighbours.      *)
Lent(x, p, pi, a, b, j) == CutPages(JoinedPages(x, p, a, b, pi), p, pi, a, b, j)
LentSpans(x, s, p, pi, a, b, j) ==
  CutSpans(JoinedPages(x, p, a, b, pi), JoinedSpans(s, a, b), a, b, j)

(* The joined page can be cut again, with the old page b as the right      *)
(* part.                                                                   *)
LEMMA LentCuttable ==
  ASSUME NEW n, NEW r, NEW x, NEW s, Laid(n, r, x, s), NEW p, NEW pi, NEW a, NEW b,
         Siblings(x, p, pi, a, b), NEW w, w = Len(x[a].sep) + 1 + Len(x[b].sep), NEW j \in 1 .. w
  PROVE  Cuttable(JoinedPages(x, p, a, b, pi), p, pi, a, b, j)
<1> DEFINE y == JoinedPages(x, p, a, b, pi)
           k == Len(x[p].sep)
<1>1. JoinedFacts(x, p, a, b, pi, y)
  BY JoinedAs
<1> HIDE DEF y
<1>2. /\ DOMAIN y = DOMAIN x \ {b} /\ a # b /\ p # a /\ p # b
      /\ p \in DOMAIN x /\ a \in DOMAIN x /\ b \in DOMAIN x
      /\ Len(y[a].sep) = w
      /\ Len(y[p].sep) = k - 1 /\ \A i \in 1 .. pi + 1 : y[p].ch[i] = x[p].ch[i]
  BY <1>1 DEF JoinedFacts, Bound, Dropped
<1>3. pi \in 0 .. k - 1 /\ x[p].ch[pi + 1] = Index(a)
  BY DEF Siblings
<1>4. pi + 1 \in 1 .. pi + 1
  BY <1>3
<1>5. y[p].ch[pi + 1] = Index(a)
  BY <1>2, <1>3, <1>4
<1>6. b \in Nat \ {0}
  BY <1>2 DEF Laid, Typed
<1> QED
  BY <1>2, <1>3, <1>5, <1>6 DEF Cuttable, y

(* The pages of a loan between siblings are those of a join and a cut.     *)
LEMMA LentSame ==
  ASSUME NEW n, NEW r, NEW x, NEW s, Laid(n, r, x, s), NEW p, NEW pi, NEW a, NEW b,
         Siblings(x, p, pi, a, b), NEW w, w = Len(x[a].sep) + 1 + Len(x[b].sep), NEW j \in 1 .. w,
         NEW z, LentPages(x, p, pi, a, b, j, z)
  PROVE  SamePages(Lent(x, p, pi, a, b, j), z)
<1> DEFINE y == JoinedPages(x, p, a, b, pi)
           C == Lent(x, p, pi, a, b, j)
           J == Both(x[a], x[p].sep[pi + 1], x[b])
           k == Len(x[p].sep)
           U == x[p]
           e == J.sep[j]
           D == XInsert(DropKid(U, pi), pi, e, Index(b))
           B == PagesOf(n, x)
<1>1. SideBySide(x, s, p, pi, a, b)
  BY SiblingFacts
<1>2. p \in DOMAIN x /\ a \in DOMAIN x /\ b \in DOMAIN x /\ a # b /\ p # a /\ p # b
  BY <1>1 DEF SideBySide
<1>3. y[a] = J /\ y[p] = DropKid(U, pi) /\ DOMAIN y = DOMAIN x \ {b}
      /\ \A m \in DOMAIN x : m # p /\ m # a /\ m # b => y[m] = x[m]
  BY <1>2 DEF JoinedPages
<1>4. pi \in 0 .. k - 1 /\ x[p].ch[pi + 2] = Index(b)
  BY DEF Siblings
<1>5. U.sep \in Seq(1 .. n) /\ U.ch \in Seq(B) /\ k \in Nat /\ Len(U.ch) = k + 1 /\ Len(U.sep) = k
  <2>1. Typed(n, r, x, s) /\ Len(x[p].sep) \in Nat /\ Len(x[p].ch) = Len(x[p].sep) + 1
    BY <1>2, PageType
  <2> QED
    BY <1>2, <2>1 DEF Typed
<1>6. e \in 1 .. n
  <2>1. J.sep \in Seq(1 .. n)
    BY JoinedPage
  <2>2. Len(J.sep) = w
    <3>1. JoinedFacts(x, p, a, b, pi, y)
      BY JoinedAs
    <3>2. Len(y[a].sep) = w
      BY <3>1 DEF JoinedFacts, Bound
    <3> HIDE DEF y, J
    <3> QED
      BY <1>3, <3>2
  <2> HIDE DEF J
  <2> QED
    BY <2>1, <2>2, Elements
<1>7. Index(b) \in B /\ Index(b) = U.ch[pi + 2]
  BY <1>2, <1>4 DEF PagesOf
<1>8. /\ DOMAIN z = DOMAIN x /\ z = [m \in DOMAIN z |-> z[m]]
      /\ z[p].sep = [U.sep EXCEPT ![pi + 1] = e] /\ z[p].ch = U.ch
      /\ z[a].sep = LeftPart(J, j).sep /\ z[a].ch = LeftPart(J, j).ch
      /\ z[b].sep = RightPart(J, j).sep /\ z[b].ch = RightPart(J, j).ch
      /\ \A m \in DOMAIN x : m # p /\ m # a /\ m # b => z[m] = x[m]
  BY DEF LentPages
<1>9. C = [m \in DOMAIN y \cup {b} |->
             IF m = p THEN XInsert(y[p], pi, y[a].sep[j], Index(b))
             ELSE IF m = a THEN LeftPart(y[a], j)
             ELSE IF m = b THEN RightPart(y[a], j)
             ELSE y[m]]
  BY DEF Lent, CutPages
<1> HIDE DEF y, C, J, U
<1>10. y[a].sep[j] = e
  BY <1>3
<1> HIDE DEF e
<1>11. D.sep = [U.sep EXCEPT ![pi + 1] = e] /\ D.ch = U.ch
  <2> DEFINE A == 1 .. n
             o == Index(b)
  <2>1. D = XInsert(DropKid(U, pi), pi, e, o)
    BY DEF D
  <2>2. U.sep \in Seq(A) /\ U.ch \in Seq(B) /\ k \in Nat /\ Len(U.sep) = k /\ Len(U.ch) = k + 1
        /\ pi \in 0 .. k - 1 /\ e \in A /\ o \in B /\ o = U.ch[pi + 2]
    BY <1>4, <1>5, <1>6, <1>7
  <2> HIDE DEF k, B, D, A, o
  <2>3. Restored(U, pi, e, D)
    BY <2>1, <2>2, PutBack
  <2> QED
    BY <2>3 DEF Restored
<1> HIDE DEF D, k, B
<1>12. DOMAIN C = DOMAIN x /\ C[p] = D /\ C[a] = LeftPart(J, j) /\ C[b] = RightPart(J, j)
       /\ \A m \in DOMAIN x : m # p /\ m # a /\ m # b => C[m] = x[m]
  <2>1. C[p] = XInsert(y[p], pi, y[a].sep[j], Index(b))
    BY <1>2, <1>3, <1>9
  <2>2. C[p] = D
    BY <1>3, <1>10, <2>1 DEF D
  <2>3. C[a] = LeftPart(J, j)
    BY <1>2, <1>3, <1>9
  <2>4. C[b] = RightPart(J, j)
    BY <1>2, <1>3, <1>9
  <2>5. DOMAIN C = DOMAIN x
    BY <1>2, <1>3, <1>9
  <2>6. \A m \in DOMAIN x : m # p /\ m # a /\ m # b => C[m] = x[m]
    BY <1>3, <1>9
  <2> QED
    BY <2>2, <2>3, <2>4, <2>5, <2>6
<1>13. ASSUME NEW m \in DOMAIN C PROVE z[m].sep = C[m].sep /\ z[m].ch = C[m].ch
  <2>1. CASE m = p
    BY <1>8, <1>11, <1>12, <2>1
  <2>2. CASE m = a
    BY <1>8, <1>12, <2>2
  <2>3. CASE m = b
    BY <1>8, <1>12, <2>3
  <2>4. CASE m # p /\ m # a /\ m # b
    BY <1>8, <1>12, <2>4
  <2> QED
    BY <2>1, <2>2, <2>3, <2>4
<1> QED
  BY <1>8, <1>12, <1>13 DEF SamePages, C

(* How long the pages are then, and where the children are.                *)
LentSizes(x, p, a, b, w, j, z) ==
  /\ DOMAIN z = DOMAIN x
  /\ Len(z[a].sep) = j - 1 /\ Len(z[b].sep) = w - j /\ Len(z[p].sep) = Len(x[p].sep)
  /\ \A m \in DOMAIN x : m # p /\ m # a /\ m # b => z[m] = x[m]

(* A loan between siblings keeps the tree laid out.                        *)
LEMMA LentLaid ==
  ASSUME NEW n, NEW r, NEW x, NEW s, Laid(n, r, x, s), NEW p, NEW pi, NEW a, NEW b,
         Siblings(x, p, pi, a, b), NEW w, w = Len(x[a].sep) + 1 + Len(x[b].sep), NEW j \in 1 .. w,
         NEW z, LentPages(x, p, pi, a, b, j, z)
  PROVE  /\ Laid(n, r, z, LentSpans(x, s, p, pi, a, b, j))
         /\ LentSizes(x, p, a, b, w, j, z)
<1> DEFINE y == JoinedPages(x, p, a, b, pi)
           S == JoinedSpans(s, a, b)
           C == CutPages(y, p, pi, a, b, j)
           T == CutSpans(y, S, a, b, j)
<1>1. SamePages(C, z)
  BY LentSame DEF Lent
<1>2. Cuttable(y, p, pi, a, b, j)
  BY LentCuttable
<1>3. Laid(n, r, y, S)
  BY LaidJoined
<1>4. JoinedFacts(x, p, a, b, pi, y)
  BY JoinedAs
<1> HIDE DEF y, S
<1>5. Laid(n, r, C, T)
  BY <1>2, <1>3, LaidCut
<1>6. CutSizes(y, p, a, b, j, C)
  BY <1>2, <1>3, Sizes
<1> HIDE DEF C, T
<1>7. Laid(n, r, z, T)
  BY <1>1, <1>5, LaidSame
<1>8. LentSizes(x, p, a, b, w, j, z)
  <2>1. /\ DOMAIN C = DOMAIN y \cup {b}
        /\ Len(C[a].sep) = j - 1 /\ Len(C[b].sep) = Len(y[a].sep) - j
        /\ Len(C[p].sep) = Len(y[p].sep) + 1
        /\ \A l \in DOMAIN y : l # a /\ l # p => C[l] = y[l]
    BY <1>6 DEF CutSizes
  <2>2. /\ DOMAIN y = DOMAIN x \ {b} /\ a # b /\ p # a /\ p # b
        /\ p \in DOMAIN x /\ a \in DOMAIN x /\ b \in DOMAIN x
        /\ Len(y[a].sep) = w
        /\ Len(y[p].sep) = Len(x[p].sep) - 1
        /\ \A m \in DOMAIN y : m # a /\ m # p => y[m] = x[m]
    BY <1>4 DEF JoinedFacts, Bound, Dropped
  <2>3. Len(x[p].sep) \in Nat
    BY <2>2, PageType
  <2>4. Len(x[p].sep) - 1 + 1 = Len(x[p].sep)
    BY <2>3
  <2>5. DOMAIN z = DOMAIN C /\ \A m \in DOMAIN C : z[m].sep = C[m].sep
    BY <1>1 DEF SamePages
  <2>6. DOMAIN C = DOMAIN x
    BY <2>1, <2>2
  <2>7. \A m \in DOMAIN x : m # p /\ m # a /\ m # b => z[m] = x[m]
    BY DEF LentPages
  <2> QED
    BY <2>1, <2>2, <2>4, <2>5, <2>6, <2>7 DEF LentSizes
<1> QED
  BY <1>7, <1>8 DEF T, y, S, LentSpans

(* After the loan a child is where the join and the cut carry it.          *)
LEMMA LentCarries ==
  ASSUME NEW n, NEW r, NEW x, NEW s, Laid(n, r, x, s), NEW p, NEW pi, NEW a, NEW b,
         Siblings(x, p, pi, a, b), NEW w, w = Len(x[a].sep) + 1 + Len(x[b].sep), NEW j \in 1 .. w,
         NEW z, LentPages(x, p, pi, a, b, j, z),
         NEW c, NEW g, Carried(s, c, JoinedPages(x, p, a, b, pi), a, g, JoinedSpans(s, a, b))
  PROVE  /\ g < j => Carried(s, c, z, a, g, LentSpans(x, s, p, pi, a, b, j))
         /\ g >= j => Carried(s, c, z, b, g - j, LentSpans(x, s, p, pi, a, b, j))
<1> DEFINE y == JoinedPages(x, p, a, b, pi)
           S == JoinedSpans(s, a, b)
           C == CutPages(y, p, pi, a, b, j)
           T == CutSpans(y, S, a, b, j)
<1>1. SamePages(C, z)
  BY LentSame DEF Lent
<1>2. Cuttable(y, p, pi, a, b, j)
  BY LentCuttable
<1>3. Laid(n, r, y, S)
  BY LaidJoined
<1>4. g \in 0 .. Len(y[a].sep) /\ y[a].ch[g + 1] = c /\ From(S, c) = From(s, c) /\ To(S, c) = To(s, c)
  BY DEF Carried, Under
<1> HIDE DEF y, S
<1>5. /\ g < j => Carried(S, y[a].ch[g + 1], C, a, g, T)
      /\ g >= j => Carried(S, y[a].ch[g + 1], C, b, g - j, T)
  BY <1>2, <1>3, <1>4, CutCarries
<1> HIDE DEF C, T
<1>6. ASSUME g < j PROVE Carried(s, c, z, a, g, T)
  <2>1. Carried(S, c, C, a, g, T)
    BY <1>4, <1>5, <1>6
  <2>2. Carried(s, c, C, a, g, T)
    BY <1>4, <2>1 DEF Carried
  <2> QED
    BY <1>1, <2>2, CarriedSame
<1>7. ASSUME g >= j PROVE Carried(s, c, z, b, g - j, T)
  <2>1. Carried(S, c, C, b, g - j, T)
    BY <1>4, <1>5, <1>7
  <2>2. Carried(s, c, C, b, g - j, T)
    BY <1>4, <2>1 DEF Carried
  <2> QED
    BY <1>1, <2>2, CarriedSame
<1> QED
  BY <1>6, <1>7 DEF T, y, S, LentSpans

(* The children before and after an index page are its siblings.           *)
LEMMA IndexNeighbours ==
  ASSUME NEW n, NEW r, NEW x, NEW s, Laid(n, r, x, s), NEW p, NEW pi, NEW m, m \in DOMAIN x,
         Under(x, p, pi, Index(m))
  PROVE  /\ pi \in Nat
         /\ pi > 0 => Siblings(x, p, pi - 1, x[p].ch[pi].no, m)
         /\ pi < Len(x[p].sep) => Siblings(x, p, pi, m, x[p].ch[pi + 2].no)
<1> DEFINE k == Len(x[p].sep)
           ch == x[p].ch
<1>1. p \in DOMAIN x /\ pi \in 0 .. k /\ ch[pi + 1] = Index(m)
  BY DEF Under
<1>2. k \in Nat /\ Typed(n, r, x, s) /\ \A i \in 1 .. k + 1 : ch[i] \in PagesOf(n, x)
  BY <1>1, PageType
<1>3. \A i \in 1 .. k + 1 : Height(s, ch[i]) = s[p].ht - 1
  BY <1>1, KidsInside
<1>4. Height(s, Index(m)) \in Nat \ {0}
  BY <1>2, Pointing DEF Typed
<1> HIDE DEF k, ch
<1>5. pi + 1 \in 1 .. k + 1 /\ pi \in Nat /\ (pi > 0 => pi \in 1 .. k + 1 /\ pi - 1 \in 0 .. k - 1 /\ pi - 1 + 1 = pi /\ pi - 1 + 2 = pi + 1)
      /\ (pi < k => pi + 2 \in 1 .. k + 1 /\ pi \in 0 .. k - 1)
  BY <1>1, <1>2
<1>6. \A i \in 1 .. k + 1 : ch[i] = Index(ch[i].no)
  <2>1. s[p].ht - 1 # 0
    <3>1. Height(s, Index(m)) = s[p].ht - 1
      BY <1>1, <1>3, <1>5
    <3> QED
      BY <1>4, <3>1
  <2>2. ASSUME NEW i \in 1 .. k + 1 PROVE ch[i] = Index(ch[i].no)
    <3>1. ch[i] \in PagesOf(n, x) /\ Height(s, ch[i]) # 0
      BY <1>2, <1>3, <2>1
    <3> QED
      BY <3>1, IndexKind
  <2> QED
    BY <2>2
<1>7. ASSUME pi > 0 PROVE Siblings(x, p, pi - 1, x[p].ch[pi].no, m)
  <2>1. ch[pi] = Index(ch[pi].no)
    BY <1>5, <1>6, <1>7
  <2> QED
    BY <1>1, <1>5, <1>7, <2>1 DEF Siblings, ch, k
<1>8. ASSUME pi < k PROVE Siblings(x, p, pi, m, x[p].ch[pi + 2].no)
  <2>1. ch[pi + 2] = Index(ch[pi + 2].no)
    BY <1>5, <1>6, <1>8
  <2> QED
    BY <1>1, <1>5, <1>8, <2>1 DEF Siblings, ch, k
<1> QED
  BY <1>5, <1>7, <1>8 DEF k

(* After a loan that leaves both pages full enough Delete goes on, in a    *)
(* sound tree, to the child it was about to go to.                         *)
LEMMA LentOn ==
  ASSUME NEW t, NEW s, Sound(t, s), Full(t), NEW p, NEW pi, NEW a, NEW b, Siblings(t.x, p, pi, a, b),
         NEW w, w = Len(t.x[a].sep) + 1 + Len(t.x[b].sep), NEW j \in 1 .. w,
         j - 1 \in kx - 1 .. 2 * kx + 1, w - j \in kx - 1 .. 2 * kx + 1,
         NEW z, LentPages(t.x, p, pi, a, b, j, z), NEW v, Is(v, t.c, t.r, t.d, z),
         NEW c, NEW e, NEW g, Carried(s, c, z, e, g, LentSpans(t.x, s, p, pi, a, b, j)),
         Len(z[e].sep) >= kx,
         NEW u, u = [t |-> v, x |-> e, i |-> g]
  PROVE  DeleteOn(t, s, c, u)
<1> DEFINE S == LentSpans(t.x, s, p, pi, a, b, j)
           x == t.x
<1>1. Laid(Len(t.d), t.r, x, s) /\ FullData(t.d, t.r) /\ FullIndex(x, t.r)
  BY DEF Sound, Full
<1>2. Laid(Len(t.d), t.r, z, S) /\ LentSizes(x, p, a, b, w, j, z)
  BY <1>1, LentLaid
<1> HIDE DEF S
<1>3. Keeps(t, v, S)
  BY <1>2, SoundReshaped
<1>4. /\ DOMAIN z = DOMAIN x
      /\ Len(z[a].sep) = j - 1 /\ Len(z[b].sep) = w - j /\ Len(z[p].sep) = Len(x[p].sep)
      /\ \A m \in DOMAIN x : m # p /\ m # a /\ m # b => z[m] = x[m]
  BY <1>2 DEF LentSizes
<1>5. kx \in Nat \ {0, 1}
  BY BTreeAssumption DEF BTreeAssumption
<1>6. \A o \in kx - 1 .. 2 * kx + 1 : o \in 1 .. 2 * kx + 1 /\ o >= kx - 1
  BY <1>5
<1>7. FullIndex(z, t.r)
  <2>1. ASSUME NEW m \in DOMAIN z
        PROVE  Len(z[m].sep) \in 1 .. 2 * kx + 1 /\ (Len(z[m].sep) >= kx - 1 \/ t.r = Index(m))
    <3>1. CASE m = a
      BY <1>4, <1>6, <3>1
    <3>2. CASE m = b
      BY <1>4, <1>6, <3>2
    <3>3. CASE m = p
      <4>1. Len(x[p].sep) \in 1 .. 2 * kx + 1 /\ (Len(x[p].sep) >= kx - 1 \/ t.r = Index(p))
        BY <1>1, <1>4, <3>3 DEF FullIndex
      <4> HIDE DEF x
      <4> QED
        BY <1>4, <3>3, <4>1
    <3>4. CASE m # a /\ m # p /\ m # b
      <4>1. Len(x[m].sep) \in 1 .. 2 * kx + 1 /\ (Len(x[m].sep) >= kx - 1 \/ t.r = Index(m))
        BY <1>1, <1>4 DEF FullIndex
      <4> HIDE DEF x
      <4> QED
        BY <1>4, <3>4, <4>1
    <3> QED
      BY <3>1, <3>2, <3>3, <3>4
  <2> QED
    BY <2>1 DEF FullIndex
<1>8. v.x = z /\ v.d = t.d /\ v.r = t.r
  BY DEF Is
<1>9. Full(v)
  BY <1>1, <1>7, <1>8 DEF Full
<1>10. u.t = v /\ u.x = e /\ u.i = g
  OBVIOUS
<1>11. Reached(t, s, c, u, S)
  BY <1>3, <1>8, <1>9, <1>10 DEF Reached, S
<1>12. Len(u.t.x[u.x].sep) >= kx
  BY <1>8, <1>10
<1> QED
  BY <1>11, <1>12 DEF DeleteOn

(* What a page gets and gives, in the code's words.                        *)
LeftLent(x, p, m, pi, l) ==
  [x EXCEPT ![m] = [sep |-> <<x[p].sep[pi]>> \o @.sep, ch |-> <<Last(x[l].ch)>> \o @.ch],
            ![p] = [sep |-> [@.sep EXCEPT ![pi] = Last(x[l].sep)], ch |-> @.ch],
            ![l] = [sep |-> Front(@.sep), ch |-> Front(@.ch)]]
RightLent(x, p, m, pi, r) ==
  [x EXCEPT ![m] = [sep |-> Append(@.sep, x[p].sep[pi + 1]), ch |-> Append(@.ch, x[r].ch[1])],
            ![p] = [sep |-> [@.sep EXCEPT ![pi + 1] = x[r].sep[1]], ch |-> @.ch],
            ![r] = [sep |-> Tail(@.sep), ch |-> Tail(@.ch)]]

(* UnderflowX, when the left sibling lends, is such a loan.                *)
LEMMA LeftLentPages ==
  ASSUME NEW n, NEW r, NEW x, NEW s, Laid(n, r, x, s), NEW p, NEW pi, pi \in Nat, pi > 0, NEW l, NEW m,
         Siblings(x, p, pi - 1, l, m), NEW j, j = Len(x[l].sep), j >= 1
  PROVE  LentPages(x, p, pi - 1, l, m, j, LeftLent(x, p, m, pi, l))
<1> DEFINE z == LeftLent(x, p, m, pi, l)
           U == x[l]
           V == x[m]
           o == pi - 1
           d == x[p].sep[o + 1]
           J == Both(U, d, V)
           L == LeftPart(J, j)
           R == RightPart(J, j)
           k == Len(U.sep)
           q == Len(V.sep)
           B == PagesOf(n, x)
<1>1. p \in DOMAIN x /\ l \in DOMAIN x /\ m \in DOMAIN x /\ l # m /\ p # l /\ p # m
  <2>1. SideBySide(x, s, p, o, l, m)
    BY SiblingFacts
  <2> QED
    BY <2>1 DEF SideBySide
<1>2. U.sep \in Seq(1 .. n) /\ U.ch \in Seq(B) /\ V.sep \in Seq(1 .. n) /\ V.ch \in Seq(B)
      /\ k \in Nat /\ Len(U.ch) = k + 1 /\ q \in Nat /\ Len(V.ch) = q + 1
  <2>1. Typed(n, r, x, s) /\ Len(x[l].sep) \in Nat /\ Len(x[l].ch) = Len(x[l].sep) + 1
        /\ Len(x[m].sep) \in Nat /\ Len(x[m].ch) = Len(x[m].sep) + 1
    BY <1>1, PageType
  <2> QED
    BY <1>1, <2>1 DEF Typed
<1>3. o + 1 = pi /\ o \in Nat
  OBVIOUS
<1>4. d \in 1 .. n
  <2> DEFINE g == Len(x[p].sep)
  <2>1. o \in 0 .. g - 1
    BY DEF Siblings
  <2>2. g \in Nat /\ \A i \in 1 .. g : x[p].sep[i] \in 1 .. n
    BY <1>1, PageType
  <2> HIDE DEF g, o
  <2>3. o + 1 \in 1 .. g
    BY <2>1, <2>2
  <2> QED
    BY <2>2, <2>3
<1>5. k = j /\ k >= 1
  OBVIOUS
<1>6. LentLeftPages(U, d, V, k, LeftPart(J, k), RightPart(J, k), J.sep[k])
  <2> DEFINE A == 1 .. n
  <2>1. U.sep \in Seq(A) /\ V.sep \in Seq(A) /\ d \in A
    BY <1>2, <1>4
  <2>2. Len(U.sep) = k /\ Len(V.sep) = q
    OBVIOUS
  <2> HIDE DEF A, B, k, q, d, U, V, J
  <2>3. J = Both(U, d, V)
    BY DEF J
  <2> QED
    BY <1>2, <1>5, <2>1, <2>2, <2>3, LendingLeft
<1>7. /\ L.sep = Front(U.sep) /\ L.ch = Front(U.ch)
      /\ R.sep = <<d>> \o V.sep /\ R.ch = <<Last(U.ch)>> \o V.ch /\ J.sep[j] = Last(U.sep)
  <2> HIDE DEF U, V, J, d
  <2> QED
    BY <1>5, <1>6 DEF LentLeftPages
<1>8. x = [h \in DOMAIN x |-> x[h]]
  BY DEF Laid, Typed
<1>9. /\ DOMAIN z = DOMAIN x /\ z = [h \in DOMAIN z |-> z[h]]
      /\ z[p].sep = [x[p].sep EXCEPT ![pi] = Last(U.sep)] /\ z[p].ch = x[p].ch
      /\ z[l] = [sep |-> Front(U.sep), ch |-> Front(U.ch)]
      /\ z[m] = [sep |-> <<x[p].sep[pi]>> \o V.sep, ch |-> <<Last(U.ch)>> \o V.ch]
      /\ \A h \in DOMAIN x : h # p /\ h # l /\ h # m => z[h] = x[h]
  BY <1>1 DEF LeftLent
<1>10. z[l].sep = Front(U.sep) /\ z[l].ch = Front(U.ch)
       /\ z[m].sep = <<d>> \o V.sep /\ z[m].ch = <<Last(U.ch)>> \o V.ch
  <2>1. d = x[p].sep[pi]
    <3> HIDE DEF o
    <3> QED
      BY <1>3
  <2> HIDE DEF d, z, U, V
  <2> QED
    BY <1>9, <2>1
<1>11. z[p].sep = [x[p].sep EXCEPT ![o + 1] = J.sep[j]]
  <2> HIDE DEF z, U, V, J, o
  <2> QED
    BY <1>3, <1>7, <1>9
<1> HIDE DEF z, U, V, L, R
<1> QED
  BY <1>7, <1>9, <1>10, <1>11 DEF LentPages, z, U, V, L, R

(* UnderflowX, when the right sibling lends, is such a loan.               *)
LEMMA RightLentPages ==
  ASSUME NEW n, NEW r, NEW x, NEW s, Laid(n, r, x, s), NEW p, NEW pi, NEW m, NEW l,
         Siblings(x, p, pi, m, l), NEW j, j = Len(x[m].sep) + 2, Len(x[l].sep) >= 1
  PROVE  LentPages(x, p, pi, m, l, j, RightLent(x, p, m, pi, l))
<1> DEFINE z == RightLent(x, p, m, pi, l)
           U == x[m]
           V == x[l]
           d == x[p].sep[pi + 1]
           J == Both(U, d, V)
           L == LeftPart(J, j)
           R == RightPart(J, j)
           k == Len(U.sep)
           q == Len(V.sep)
           B == PagesOf(n, x)
<1>1. p \in DOMAIN x /\ l \in DOMAIN x /\ m \in DOMAIN x /\ l # m /\ p # l /\ p # m
  <2>1. SideBySide(x, s, p, pi, m, l)
    BY SiblingFacts
  <2> QED
    BY <2>1 DEF SideBySide
<1>2. U.sep \in Seq(1 .. n) /\ U.ch \in Seq(B) /\ V.sep \in Seq(1 .. n) /\ V.ch \in Seq(B)
      /\ k \in Nat /\ Len(U.ch) = k + 1 /\ q \in Nat /\ Len(V.ch) = q + 1
  <2>1. Typed(n, r, x, s) /\ Len(x[l].sep) \in Nat /\ Len(x[l].ch) = Len(x[l].sep) + 1
        /\ Len(x[m].sep) \in Nat /\ Len(x[m].ch) = Len(x[m].sep) + 1
    BY <1>1, PageType
  <2> QED
    BY <1>1, <2>1 DEF Typed
<1>4. d \in 1 .. n
  <2> DEFINE g == Len(x[p].sep)
  <2>1. pi \in 0 .. g - 1
    BY DEF Siblings
  <2>2. g \in Nat /\ \A i \in 1 .. g : x[p].sep[i] \in 1 .. n
    BY <1>1, PageType
  <2> HIDE DEF g
  <2>3. pi + 1 \in 1 .. g
    BY <2>1, <2>2
  <2> QED
    BY <2>2, <2>3
<1>5. j = k + 2 /\ q >= 1
  OBVIOUS
<1>6. LentRightPages(U, d, V, LeftPart(J, k + 2), RightPart(J, k + 2), J.sep[k + 2])
  <2> DEFINE A == 1 .. n
  <2>1. U.sep \in Seq(A) /\ V.sep \in Seq(A) /\ d \in A
    BY <1>2, <1>4
  <2>2. Len(U.sep) = k /\ Len(V.sep) = q
    OBVIOUS
  <2> HIDE DEF A, B, k, q, d, U, V, J
  <2>3. J = Both(U, d, V)
    BY DEF J
  <2> QED
    BY <1>2, <1>5, <2>1, <2>2, <2>3, LendingRight
<1>7. /\ L.sep = Append(U.sep, d) /\ L.ch = Append(U.ch, V.ch[1])
      /\ R.sep = Tail(V.sep) /\ R.ch = Tail(V.ch) /\ J.sep[j] = V.sep[1]
  <2> HIDE DEF U, V, J, d, k
  <2> QED
    BY <1>5, <1>6 DEF LentRightPages
<1>8. x = [h \in DOMAIN x |-> x[h]]
  BY DEF Laid, Typed
<1>9. /\ DOMAIN z = DOMAIN x /\ z = [h \in DOMAIN z |-> z[h]]
      /\ z[p].sep = [x[p].sep EXCEPT ![pi + 1] = V.sep[1]] /\ z[p].ch = x[p].ch
      /\ z[m].sep = Append(U.sep, d) /\ z[m].ch = Append(U.ch, V.ch[1])
      /\ z[l].sep = Tail(V.sep) /\ z[l].ch = Tail(V.ch)
      /\ \A h \in DOMAIN x : h # p /\ h # l /\ h # m => z[h] = x[h]
  BY <1>1 DEF RightLent
<1>11. z[p].sep = [x[p].sep EXCEPT ![pi + 1] = J.sep[j]]
  <2> HIDE DEF z, U, V, J
  <2> QED
    BY <1>7, <1>9
<1> HIDE DEF z, U, V, L, R
<1> QED
  BY <1>7, <1>9, <1>11 DEF LentPages, z, U, V, L, R

(* The trees after a loan from the left and from the right.                *)
LeftLentTree(t, p, m, pi, l) ==
  [t EXCEPT
     !.x[m] = [sep |-> <<t.x[p].sep[pi]>> \o @.sep, ch |-> <<Last(t.x[l].ch)>> \o @.ch],
     !.x[p] = [sep |-> [@.sep EXCEPT ![pi] = Last(t.x[l].sep)], ch |-> @.ch],
     !.x[l] = [sep |-> Front(@.sep), ch |-> Front(@.ch)]]
RightLentTree(t, p, m, pi, r) ==
  [t EXCEPT
     !.x[m] = [sep |-> Append(@.sep, t.x[p].sep[pi + 1]), ch |-> Append(@.ch, t.x[r].ch[1])],
     !.x[p] = [sep |-> [@.sep EXCEPT ![pi + 1] = t.x[r].sep[1]], ch |-> @.ch],
     !.x[r] = [sep |-> Tail(@.sep), ch |-> Tail(@.ch)]]

(* The fields of a tree three index pages of which are changed.            *)
LEMMA ThreePages ==
  ASSUME NEW t, Fields(t), NEW a, NEW P, NEW b, NEW Q, NEW c, NEW R
  PROVE  Is([t EXCEPT !.x[a] = P, !.x[b] = Q, !.x[c] = R], t.c, t.r, t.d,
            [t.x EXCEPT ![a] = P, ![b] = Q, ![c] = R])
  BY DEF Is, Fields

(* The fields of the tree after a loan.                                    *)
LEMMA LentTrees ==
  ASSUME NEW t, Fields(t), NEW p, NEW m, NEW pi, NEW l
  PROVE  /\ Is(LeftLentTree(t, p, m, pi, l), t.c, t.r, t.d, LeftLent(t.x, p, m, pi, l))
         /\ Is(RightLentTree(t, p, m, pi, l), t.c, t.r, t.d, RightLent(t.x, p, m, pi, l))
  BY ThreePages DEF LeftLentTree, RightLentTree, LeftLent, RightLent

(* UnderflowX, in terms of the loans and of catX.                          *)
LEMMA UnderflowXAs ==
  ASSUME NEW t, NEW p, NEW m, NEW pi, NEW i
  PROVE  LET hasL == pi > 0
             hasR == pi >= 0 /\ pi < Len(t.x[p].sep)
             l == t.x[p].ch[pi].no
             r == t.x[p].ch[pi + 2].no
         IN  UnderflowX(t, p, m, pi, i) =
               IF hasL /\ Len(t.x[l].sep) > kx
               THEN [t |-> LeftLentTree(t, p, m, pi, l), x |-> m, i |-> i + 1]
               ELSE IF hasR /\ Len(t.x[r].sep) > kx
               THEN [t |-> RightLentTree(t, p, m, pi, r), x |-> m, i |-> i]
               ELSE IF hasL
               THEN [t |-> CatX(t, p, l, m, pi - 1), x |-> l, i |-> i + Len(t.x[l].sep) + 1]
               ELSE [t |-> CatX(t, p, m, r, pi), x |-> m, i |-> i]
  BY DEF UnderflowX, LeftLentTree, RightLentTree

(* How many separators there are after a loan.                             *)
LendCounts(la, lm, i, k) ==
  /\ la \in 1 .. la + 1 + lm /\ la >= 1 /\ la - 1 \in k - 1 .. 2 * k + 1
  /\ (la + 1 + lm) - la \in k - 1 .. 2 * k + 1 /\ (la + 1 + lm) - la >= k
  /\ la + 1 + i >= la /\ (la + 1 + i) - la = i + 1

(* How full the pages are after a loan from the left.                      *)
LEMMA LendingCounts ==
  ASSUME NEW k \in Nat \ {0, 1}, NEW la \in Nat, NEW lm \in Nat, la > k, la <= 2 * k + 1,
         lm = k - 1, NEW i \in 0 .. lm
  PROVE  LendCounts(la, lm, i, k)
  BY DEF LendCounts

(* The child of b is where it was in b, behind a's; the child of a where   *)
(* it was.                                                                 *)
LEMMA LentLeftOn ==
  ASSUME NEW t, NEW s, Sound(t, s), Full(t), NEW p, NEW pi, pi \in Nat, pi > 0, NEW l, NEW m,
         Siblings(t.x, p, pi - 1, l, m), NEW la, la = Len(t.x[l].sep), NEW lm, lm = Len(t.x[m].sep),
         la \in Nat, lm \in Nat, la > kx, la <= 2 * kx + 1, lm = kx - 1,
         NEW i \in 0 .. lm, NEW c, c = t.x[m].ch[i + 1],
         NEW u, u = [t |-> LeftLentTree(t, p, m, pi, l), x |-> m, i |-> i + 1]
  PROVE  DeleteOn(t, s, c, u)
<1> DEFINE x == t.x
           z == LeftLent(x, p, m, pi, l)
           v == LeftLentTree(t, p, m, pi, l)
           w == la + 1 + lm
           o == pi - 1
           g == la + 1 + i
           h == i + 1
<1>1. Fields(t) /\ Laid(Len(t.d), t.r, x, s)
  BY DEF Sound
<1>2. kx \in Nat \ {0, 1}
  BY BTreeAssumption DEF BTreeAssumption
<1>3. la \in 1 .. w /\ la >= 1 /\ la - 1 \in kx - 1 .. 2 * kx + 1 /\ w - la \in kx - 1 .. 2 * kx + 1
      /\ w - la >= kx /\ g >= la /\ g - la = h
  <2>1. LendCounts(la, lm, i, kx)
    BY <1>2, LendingCounts
  <2> QED
    BY <2>1 DEF LendCounts
<1>4. LentPages(x, p, o, l, m, la, z)
  BY <1>1, <1>3, LeftLentPages
<1>5. Is(v, t.c, t.r, t.d, z)
  BY <1>1, LentTrees
<1>6. Carried(s, c, JoinedPages(x, p, l, m, o), l, g, JoinedSpans(s, l, m))
  <2> DEFINE y == JoinedPages(x, p, l, m, o)
             S == JoinedSpans(s, l, m)
  <2> HIDE DEF y, S, g
  <2>1. \A j \in 0 .. Len(x[m].sep) : Carried(s, x[m].ch[j + 1], y, l, Len(x[l].sep) + 1 + j, S)
    BY <1>1, JoinedCarries DEF y, S
  <2>2. i \in 0 .. Len(x[m].sep) /\ c = x[m].ch[i + 1] /\ g = Len(x[l].sep) + 1 + i
    BY DEF g
  <2>3. Carried(s, c, y, l, g, S)
    BY <2>1, <2>2
  <2> QED
    BY <2>3 DEF y, S
<1>7. w = Len(x[l].sep) + 1 + Len(x[m].sep) /\ Siblings(x, p, o, l, m)
  OBVIOUS
<1>8. u = [t |-> v, x |-> m, i |-> h]
  OBVIOUS
<1> HIDE DEF z, v, w, o, g, h
<1>9. Carried(s, c, z, m, h, LentSpans(x, s, p, o, l, m, la))
  <2>1. g >= la => Carried(s, c, z, m, g - la, LentSpans(x, s, p, o, l, m, la))
    <3> HIDE DEF x
    <3> QED
      BY <1>1, <1>3, <1>4, <1>6, <1>7, LentCarries
  <2> QED
    BY <1>3, <2>1
<1>10. Len(z[m].sep) >= kx
  <2>1. LentSizes(x, p, l, m, w, la, z)
    <3> HIDE DEF x
    <3> QED
      BY <1>1, <1>3, <1>4, <1>7, LentLaid
  <2> QED
    BY <1>3, <2>1 DEF LentSizes
<1> QED
  BY <1>3, <1>4, <1>5, <1>7, <1>8, <1>9, <1>10, LentOn

(* Delete goes on as it should when the right sibling lends.               *)
LEMMA LentRightOn ==
  ASSUME NEW t, NEW s, Sound(t, s), Full(t), NEW p, NEW pi, NEW m, NEW r,
         Siblings(t.x, p, pi, m, r), NEW lm, lm = Len(t.x[m].sep), NEW lr, lr = Len(t.x[r].sep),
         lr \in Nat, lm \in Nat, lr > kx, lr <= 2 * kx + 1, lm = kx - 1,
         NEW i \in 0 .. lm, NEW c, c = t.x[m].ch[i + 1],
         NEW u, u = [t |-> RightLentTree(t, p, m, pi, r), x |-> m, i |-> i]
  PROVE  DeleteOn(t, s, c, u)
<1> DEFINE x == t.x
           z == RightLent(x, p, m, pi, r)
           v == RightLentTree(t, p, m, pi, r)
           w == lm + 1 + lr
           j == lm + 2
<1>1. Fields(t) /\ Laid(Len(t.d), t.r, x, s)
  BY DEF Sound
<1>2. kx \in Nat \ {0, 1}
  BY BTreeAssumption DEF BTreeAssumption
<1>3. j \in 1 .. w /\ lr >= 1 /\ j - 1 \in kx - 1 .. 2 * kx + 1 /\ w - j \in kx - 1 .. 2 * kx + 1
      /\ j - 1 >= kx /\ i < j
  BY <1>2
<1>4. LentPages(x, p, pi, m, r, j, z)
  BY <1>1, <1>3, RightLentPages
<1>5. Is(v, t.c, t.r, t.d, z)
  BY <1>1, LentTrees
<1>6. Carried(s, c, JoinedPages(x, p, m, r, pi), m, i, JoinedSpans(s, m, r))
  <2> DEFINE y == JoinedPages(x, p, m, r, pi)
             S == JoinedSpans(s, m, r)
  <2> HIDE DEF y, S
  <2>1. \A g \in 0 .. Len(x[m].sep) : Carried(s, x[m].ch[g + 1], y, m, g, S)
    BY <1>1, JoinedCarries DEF y, S
  <2>2. i \in 0 .. Len(x[m].sep) /\ c = x[m].ch[i + 1]
    OBVIOUS
  <2>3. Carried(s, c, y, m, i, S)
    BY <2>1, <2>2
  <2> QED
    BY <2>3 DEF y, S
<1>7. w = Len(x[m].sep) + 1 + Len(x[r].sep) /\ Siblings(x, p, pi, m, r)
  OBVIOUS
<1>8. u = [t |-> v, x |-> m, i |-> i]
  OBVIOUS
<1> HIDE DEF z, v, w, j
<1>9. Carried(s, c, z, m, i, LentSpans(x, s, p, pi, m, r, j))
  <2>1. i < j => Carried(s, c, z, m, i, LentSpans(x, s, p, pi, m, r, j))
    <3> HIDE DEF x
    <3> QED
      BY <1>1, <1>3, <1>4, <1>6, <1>7, LentCarries
  <2> QED
    BY <1>3, <2>1
<1>10. Len(z[m].sep) >= kx
  <2>1. LentSizes(x, p, m, r, w, j, z)
    <3> HIDE DEF x
    <3> QED
      BY <1>1, <1>3, <1>4, <1>7, LentLaid
  <2> QED
    BY <1>3, <2>1 DEF LentSizes
<1> QED
  BY <1>3, <1>4, <1>5, <1>7, <1>8, <1>9, <1>10, LentOn

(* Delete goes on as it should when the page is joined to a sibling.       *)
LEMMA CatXOn ==
  ASSUME NEW t, NEW s, Sound(t, s), Full(t), NEW p, NEW pi, NEW a, NEW b, Siblings(t.x, p, pi, a, b),
         Len(t.x[p].sep) >= kx \/ t.r = Index(p),
         Len(t.x[a].sep) + 1 + Len(t.x[b].sep) \in kx .. 2 * kx,
         NEW c, NEW g, Carried(s, c, JoinedPages(t.x, p, a, b, pi), a, g, JoinedSpans(s, a, b))
  PROVE  DeleteOn(t, s, c, [t |-> CatX(t, p, a, b, pi), x |-> a, i |-> g])
<1> DEFINE k == Len(t.x[p].sep)
           u == [t |-> CatX(t, p, a, b, pi), x |-> a, i |-> g]
<1>1. ASSUME k > 1 PROVE DeleteOn(t, s, c, u)
  BY <1>1, CatXKeeps
<1>2. ASSUME ~ (k > 1) PROVE DeleteOn(t, s, c, u)
  <2>1. t.r = Index(p)
    <3>1. p \in DOMAIN t.x /\ Laid(Len(t.d), t.r, t.x, s)
      BY DEF Siblings, Sound
    <3>2. k \in Nat
      BY <3>1, PageType
    <3>3. kx \in Nat \ {0, 1}
      BY BTreeAssumption DEF BTreeAssumption
    <3>4. k >= kx \/ t.r = Index(p)
      OBVIOUS
    <3> HIDE DEF k
    <3>5. ~ (k >= kx)
      BY <1>2, <3>2, <3>3
    <3> QED
      BY <3>4, <3>5
  <2> QED
    BY <1>2, <2>1, CatXShrinks
<1> QED
  BY <1>1, <1>2

(* How full an index page below the root is.                               *)
ChildSize(k) == kx - 1 <= k /\ k <= 2 * kx + 1 /\ k \in Nat

(* A page under another is no root, so it is as full as it must be.        *)
LEMMA ChildSized ==
  ASSUME NEW n, NEW r, NEW x, NEW s, Laid(n, r, x, s), FullIndex(x, r), NEW p \in DOMAIN x,
         NEW i \in 1 .. Len(x[p].sep) + 1, NEW m, x[p].ch[i] = Index(m), m \in DOMAIN x
  PROVE  ChildSize(Len(x[m].sep))
<1> DEFINE k == Len(x[m].sep)
<1>1. r # Index(m)
  BY RootNoChild
<1>2. k \in 1 .. 2 * kx + 1 /\ k >= kx - 1
  BY <1>1 DEF FullIndex
<1>3. kx \in Nat
  BY BTreeAssumption DEF BTreeAssumption
<1> HIDE DEF k
<1>4. ChildSize(k)
  BY <1>2, <1>3 DEF ChildSize
<1> QED
  BY <1>4 DEF k

(* Two pages fit on one, with the separator between them.                  *)
CatSize(k, l) == k + 1 + l \in kx .. 2 * kx

(* Neither page could lend, so both fit on one.                            *)
LEMMA CatSized ==
  ASSUME NEW k, NEW l, ChildSize(k), ChildSize(l), (k = kx - 1 /\ ~ (l > kx)) \/ (l = kx - 1 /\ ~ (k > kx))
  PROVE  CatSize(k, l)
<1>1. kx \in Nat \ {0, 1}
  BY BTreeAssumption DEF BTreeAssumption
<1> QED
  BY <1>1 DEF ChildSize, CatSize

(* Delete goes on as it should after underflowX, whichever sibling lends   *)
(* or is joined.                                                           *)
LEMMA UnderflowXOn ==
  ASSUME NEW t, NEW s, Sound(t, s), Full(t), NEW m, NEW p, NEW pi, Under(t.x, p, pi, Index(m)),
         m \in DOMAIN t.x, Len(t.x[m].sep) < kx, Len(t.x[p].sep) >= kx \/ t.r = Index(p),
         NEW i \in 0 .. Len(t.x[m].sep)
  PROVE  DeleteOn(t, s, t.x[m].ch[i + 1], UnderflowX(t, p, m, pi, i))
<1> DEFINE x == t.x
           l == x[p].ch[pi].no
           r == x[p].ch[pi + 2].no
           lm == Len(x[m].sep)
           la == Len(x[l].sep)
           lr == Len(x[r].sep)
           c == x[m].ch[i + 1]
           u == UnderflowX(t, p, m, pi, i)
           k == Len(x[p].sep)
           hasL == pi > 0
           hasR == pi >= 0 /\ pi < k
<1>1. Laid(Len(t.d), t.r, x, s) /\ FullIndex(x, t.r)
  BY DEF Sound, Full
<1>2. p \in DOMAIN x /\ pi \in 0 .. k /\ x[p].ch[pi + 1] = Index(m)
  BY DEF Under
<1>3. k \in Nat /\ k >= 1 /\ pi + 1 \in 1 .. k + 1
  <2>1. k \in 1 .. 2 * kx + 1
    BY <1>1, <1>2 DEF FullIndex
  <2>2. k \in Nat
    BY <1>1, <1>2, PageType
  <2> HIDE DEF k
  <2>3. k >= 1
    BY <2>1
  <2> QED
    BY <1>2, <2>2, <2>3
<1>4. /\ pi \in Nat
      /\ pi > 0 => Siblings(x, p, pi - 1, l, m)
      /\ pi < k => Siblings(x, p, pi, m, r)
  <2> HIDE DEF x
  <2>1. Under(x, p, pi, Index(m)) /\ m \in DOMAIN x
    BY DEF x
  <2> QED
    BY <1>1, <2>1, IndexNeighbours DEF k, l, r
<1>5. ChildSize(lm)
  BY <1>1, <1>2, <1>3, ChildSized
<1>6. kx \in Nat \ {0, 1}
  BY BTreeAssumption DEF BTreeAssumption
<1>7. lm = kx - 1 /\ lm \in Nat /\ ~ (lm > kx)
  <2>1. lm < kx
    OBVIOUS
  <2> HIDE DEF lm
  <2> QED
    BY <1>5, <1>6, <2>1 DEF ChildSize
<1>8. ASSUME pi > 0 PROVE ChildSize(la)
  <2>1. Siblings(x, p, pi - 1, l, m)
    BY <1>4, <1>8
  <2>2. x[p].ch[pi - 1 + 1] = Index(l) /\ l \in DOMAIN x
    <3>1. SideBySide(x, s, p, pi - 1, l, m)
      BY <1>1, <2>1, SiblingFacts
    <3> QED
      BY <2>1, <3>1 DEF Siblings, SideBySide
  <2>3. pi - 1 + 1 \in 1 .. k + 1
    <3> HIDE DEF k
    <3> QED
      BY <1>2, <1>3, <1>8
  <2> HIDE DEF l
  <2> QED
    BY <1>1, <1>2, <2>2, <2>3, ChildSized
<1>9. ASSUME pi < k PROVE ChildSize(lr)
  <2>1. Siblings(x, p, pi, m, r)
    BY <1>4, <1>9
  <2>2. x[p].ch[pi + 2] = Index(r) /\ r \in DOMAIN x
    <3>1. SideBySide(x, s, p, pi, m, r)
      BY <1>1, <2>1, SiblingFacts
    <3> QED
      BY <2>1, <3>1 DEF Siblings, SideBySide
  <2>3. pi + 2 \in 1 .. k + 1
    <3> HIDE DEF k
    <3> QED
      BY <1>2, <1>3, <1>9
  <2> HIDE DEF r
  <2> QED
    BY <1>1, <1>2, <2>2, <2>3, ChildSized
<1>10. u = IF hasL /\ la > kx
           THEN [t |-> LeftLentTree(t, p, m, pi, l), x |-> m, i |-> i + 1]
           ELSE IF hasR /\ lr > kx
           THEN [t |-> RightLentTree(t, p, m, pi, r), x |-> m, i |-> i]
           ELSE IF hasL
           THEN [t |-> CatX(t, p, l, m, pi - 1), x |-> l, i |-> i + la + 1]
           ELSE [t |-> CatX(t, p, m, r, pi), x |-> m, i |-> i]
  BY UnderflowXAs
<1>11. i \in 0 .. lm /\ i \in Nat
  BY <1>7
<1>12. k >= kx \/ t.r = Index(p)
  OBVIOUS
<1> HIDE DEF u, l, r, c, k
<1>13. ASSUME hasL, la > kx PROVE DeleteOn(t, s, c, u)
  <2>1. la \in Nat /\ la <= 2 * kx + 1
    BY <1>8, <1>13 DEF ChildSize
  <2>2. u = [t |-> LeftLentTree(t, p, m, pi, l), x |-> m, i |-> i + 1]
    BY <1>10, <1>13
  <2>3. Siblings(x, p, pi - 1, l, m) /\ pi \in Nat /\ pi > 0
    BY <1>4, <1>13
  <2>4. c = t.x[m].ch[i + 1] /\ la = Len(t.x[l].sep) /\ lm = Len(t.x[m].sep) /\ Siblings(t.x, p, pi - 1, l, m)
    BY <2>3 DEF c
  <2> HIDE DEF la, lm
  <2> QED
    BY <1>7, <1>11, <1>13, <2>1, <2>2, <2>3, <2>4, LentLeftOn
<1>14. ASSUME hasR, lr > kx, ~ (hasL /\ la > kx) PROVE DeleteOn(t, s, c, u)
  <2>1. lr \in Nat /\ lr <= 2 * kx + 1
    BY <1>9, <1>14 DEF ChildSize
  <2>2. u = [t |-> RightLentTree(t, p, m, pi, r), x |-> m, i |-> i]
    BY <1>10, <1>14
  <2>3. c = t.x[m].ch[i + 1] /\ lr = Len(t.x[r].sep) /\ lm = Len(t.x[m].sep) /\ Siblings(t.x, p, pi, m, r)
    BY <1>4, <1>14 DEF c
  <2> HIDE DEF lr, lm
  <2> QED
    BY <1>7, <1>11, <1>14, <2>1, <2>2, <2>3, LentRightOn
<1>15. ASSUME hasL, ~ (la > kx), ~ (hasR /\ lr > kx) PROVE DeleteOn(t, s, c, u)
  <2> DEFINE o == pi - 1
             g == la + 1 + i
  <2>1. Siblings(x, p, o, l, m) /\ CatSize(la, lm)
    <3>1. ChildSize(la)
      BY <1>8, <1>15
    <3> HIDE DEF la, lm
    <3> QED
      BY <1>4, <1>5, <1>7, <1>15, <3>1, CatSized
  <2>2. i + la + 1 = g
    <3>1. la \in Nat
      BY <1>8, <1>15 DEF ChildSize
    <3> HIDE DEF la
    <3> QED
      BY <1>11, <3>1
  <2>3. u = [t |-> CatX(t, p, l, m, o), x |-> l, i |-> g]
    <3> HIDE DEF g
    <3> QED
      BY <1>10, <1>15, <2>2
  <2>4. Carried(s, c, JoinedPages(x, p, l, m, o), l, g, JoinedSpans(s, l, m))
    <3> DEFINE y == JoinedPages(x, p, l, m, o)
               S == JoinedSpans(s, l, m)
    <3> HIDE DEF y, S, g, o
    <3>1. \A j \in 0 .. Len(x[m].sep) : Carried(s, x[m].ch[j + 1], y, l, Len(x[l].sep) + 1 + j, S)
      BY <1>1, <2>1, JoinedCarries DEF y, S
    <3>2. i \in 0 .. Len(x[m].sep) /\ c = x[m].ch[i + 1] /\ g = Len(x[l].sep) + 1 + i
      BY DEF g, c
    <3>3. Carried(s, c, y, l, g, S)
      BY <3>1, <3>2
    <3> QED
      BY <3>3 DEF y, S
  <2>5. Len(x[l].sep) + 1 + Len(x[m].sep) \in kx .. 2 * kx
    BY <2>1 DEF CatSize
  <2> HIDE DEF g, o
  <2> QED
    BY <1>12, <2>1, <2>3, <2>4, <2>5, CatXOn DEF k
<1>16. ASSUME ~ hasL, ~ (hasR /\ lr > kx) PROVE DeleteOn(t, s, c, u)
  <2>1. hasR
    BY <1>3, <1>4, <1>16
  <2>2. Siblings(x, p, pi, m, r) /\ CatSize(lm, lr)
    <3>1. ChildSize(lr) /\ ~ (lr > kx)
      BY <1>9, <1>16, <2>1
    <3> HIDE DEF lr, lm
    <3> QED
      BY <1>4, <1>5, <1>7, <2>1, <3>1, CatSized
  <2>3. u = [t |-> CatX(t, p, m, r, pi), x |-> m, i |-> i]
    BY <1>10, <1>16
  <2>4. Carried(s, c, JoinedPages(x, p, m, r, pi), m, i, JoinedSpans(s, m, r))
    <3> DEFINE y == JoinedPages(x, p, m, r, pi)
               S == JoinedSpans(s, m, r)
    <3> HIDE DEF y, S
    <3>1. \A g \in 0 .. Len(x[m].sep) : Carried(s, x[m].ch[g + 1], y, m, g, S)
      BY <1>1, <2>2, JoinedCarries DEF y, S
    <3>2. i \in 0 .. Len(x[m].sep) /\ c = x[m].ch[i + 1]
      BY DEF c
    <3>3. Carried(s, c, y, m, i, S)
      BY <3>1, <3>2
    <3> QED
      BY <3>3 DEF y, S
  <2>5. Len(x[m].sep) + 1 + Len(x[r].sep) \in kx .. 2 * kx
    BY <2>2 DEF CatSize
  <2> QED
    BY <1>12, <2>2, <2>3, <2>4, <2>5, CatXOn DEF k
<1>17. DeleteOn(t, s, c, u)
  <2> HIDE DEF hasL, hasR, la, lr
  <2> QED
    BY <1>13, <1>14, <1>15, <1>16, Zenon
<1> QED
  BY <1>17 DEF c, u

(* Where the page goes on one child further.                               *)
NumberedLeft(t, p, pi) == Len(t.x[t.x[p].ch[pi].no].sep) \in Nat \/ ~ (pi > 0)
NextOf(u, v) == v.t = u.t /\ v.x = u.x /\ v.i = u.i + 1

(* The index that underflowX is given does not change what it does to the  *)
(* tree, so the child after a separator is carried along like the one      *)
(* before it.                                                              *)
LEMMA UnderflowXNext ==
  ASSUME NEW t, NEW p, NEW m, NEW pi, NEW i \in Nat, NumberedLeft(t, p, pi)
  PROVE  NextOf(UnderflowX(t, p, m, pi, i), UnderflowX(t, p, m, pi, i + 1))
<1> DEFINE u == UnderflowX(t, p, m, pi, i)
           v == UnderflowX(t, p, m, pi, i + 1)
<1> SUFFICES v.t = u.t /\ v.x = u.x /\ v.i = u.i + 1
  BY DEF NextOf
<1> DEFINE l == t.x[p].ch[pi].no
           r == t.x[p].ch[pi + 2].no
           la == Len(t.x[l].sep)
           lr == Len(t.x[r].sep)
           k == Len(t.x[p].sep)
           hasL == pi > 0
           hasR == pi >= 0 /\ pi < k
           j == i + 1
<1>1. u = IF hasL /\ la > kx
          THEN [t |-> LeftLentTree(t, p, m, pi, l), x |-> m, i |-> i + 1]
          ELSE IF hasR /\ lr > kx
          THEN [t |-> RightLentTree(t, p, m, pi, r), x |-> m, i |-> i]
          ELSE IF hasL
          THEN [t |-> CatX(t, p, l, m, pi - 1), x |-> l, i |-> i + la + 1]
          ELSE [t |-> CatX(t, p, m, r, pi), x |-> m, i |-> i]
  BY UnderflowXAs
<1>2. v = IF hasL /\ la > kx
          THEN [t |-> LeftLentTree(t, p, m, pi, l), x |-> m, i |-> j + 1]
          ELSE IF hasR /\ lr > kx
          THEN [t |-> RightLentTree(t, p, m, pi, r), x |-> m, i |-> j]
          ELSE IF hasL
          THEN [t |-> CatX(t, p, l, m, pi - 1), x |-> l, i |-> j + la + 1]
          ELSE [t |-> CatX(t, p, m, r, pi), x |-> m, i |-> j]
  BY UnderflowXAs
<1>3. hasL => j + la + 1 = (i + la + 1) + 1
  <2>1. hasL => la \in Nat
    BY DEF NumberedLeft
  <2> HIDE DEF la, hasL
  <2> QED
    BY <2>1
<1>4. j + 1 = (i + 1) + 1 /\ j = i + 1
  OBVIOUS
<1> HIDE DEF hasL, hasR, la, lr, l, r, j, u, v
<1>5. CASE hasL /\ la > kx
  BY <1>1, <1>2, <1>4, <1>5
<1>6. CASE ~ (hasL /\ la > kx) /\ hasR /\ lr > kx
  BY <1>1, <1>2, <1>4, <1>6
<1>7. CASE ~ (hasL /\ la > kx) /\ ~ (hasR /\ lr > kx) /\ hasL
  BY <1>1, <1>2, <1>3, <1>7
<1>8. CASE ~ (hasR /\ lr > kx) /\ ~ hasL
  BY <1>1, <1>2, <1>4, <1>8
<1> QED
  BY <1>5, <1>6, <1>7, <1>8
=============================================================================
