---------------------------- MODULE BTreeProofs -----------------------------
(***************************************************************************)
(* Theorems about the tree, for every set of keys and every page size:     *)
(* whatever is inserted and deleted, it is well formed, it implements a    *)
(* set, and Seek, Len and AllData tell what is in it.                      *)
(***************************************************************************)
EXTENDS BTreeShapeProofs

-----------------------------------------------------------------------------
(* Cat.                                                                    *)

(* Whichever of the two children goes, the one that stays points at q.     *)
KeptKid(U, pi, e) == [XExtract(U, pi) EXCEPT !.ch[pi + 1] = e]

(* The parent of two data pages that cat has joined, written as in the     *)
(* code, has given up the second.                                          *)
LEMMA DataKidDropped ==
  ASSUME NEW A, NEW B, NEW U, U.sep \in Seq(A), U.ch \in Seq(B), NEW k \in Nat, Len(U.sep) = k,
         Len(U.ch) = k + 1, NEW pi \in 0 .. k - 1, NEW e, U.ch[pi + 1] = e
  PROVE  KeptKid(U, pi, e) = DropKid(U, pi)
<1> DEFINE ch == U.ch
           n == k + 1
           o == pi + 1
           W == RemoveAt(ch, o + 1)
           V == RemoveAt(ch, pi + 1)
           Z == RemoveAt(ch, IF pi < k - 1 THEN pi + 1 ELSE pi + 2)
           R == [Z EXCEPT ![o] = e]
           C == [V EXCEPT ![o] = e]
<1>0. /\ n \in Nat /\ pi \in 0 .. n - 1 /\ o \in 0 .. n - 1 /\ o + 1 = pi + 2 /\ n - 1 = k /\ o \in 1 .. k
  OBVIOUS
<1>1. ch \in Seq(B) /\ Len(ch) = n
  OBVIOUS
<1>2. ch[o] = e
  OBVIOUS
<1> HIDE DEF n, ch, o
<1>3. TakenOut(B, ch, n, o, W)
  BY <1>0, <1>1, RemovedParts
<1>4. TakenOut(B, ch, n, pi, V)
  BY <1>0, <1>1, RemovedParts
<1> HIDE DEF W, V
<1>5. /\ W \in Seq(B) /\ Len(W) = k
      /\ \A i \in 1 .. o : W[i] = ch[i]
      /\ \A i \in o + 1 .. k : W[i] = ch[i + 1]
  BY <1>0, <1>3 DEF TakenOut
<1>6. /\ V \in Seq(B) /\ Len(V) = k
      /\ \A i \in 1 .. pi : V[i] = ch[i]
      /\ \A i \in pi + 1 .. k : V[i] = ch[i + 1]
  BY <1>0, <1>4 DEF TakenOut
<1>7. W[o] = e /\ e \in B
  <2>1. o \in 1 .. o
    BY <1>0
  <2>2. W[o] \in B
    BY <1>0, <1>5, Elements
  <2> QED
    BY <1>2, <1>5, <2>1, <2>2
<1>8. C \in Seq(B) /\ Len(C) = k /\ C[o] = e /\ \A i \in 1 .. k : i # o => C[i] = V[i]
  BY <1>0, <1>6, <1>7
<1> HIDE DEF C
<1>9. C = W
  <2>1. ASSUME NEW i \in 1 .. k PROVE C[i] = W[i]
    <3>1. \/ i = o
          \/ (i \in 1 .. pi /\ i \in 1 .. o /\ i # o)
          \/ (i \in o + 1 .. k /\ i \in pi + 1 .. k /\ i # o)
      <4>1. o = pi + 1
        BY DEF o
      <4> QED
        BY <1>0, <4>1
    <3>2. CASE i = o
      BY <1>7, <1>8, <3>2
    <3>3. CASE i \in 1 .. pi /\ i \in 1 .. o /\ i # o
      BY <1>5, <1>6, <1>8, <3>3
    <3>4. CASE i \in o + 1 .. k /\ i \in pi + 1 .. k /\ i # o
      BY <1>5, <1>6, <1>8, <3>4
    <3> QED
      BY <3>1, <3>2, <3>3, <3>4
  <2> QED
    BY <1>5, <1>8, <2>1, EqualAt
<1>10. [W EXCEPT ![o] = e] = W
  <2> DEFINE Y == [W EXCEPT ![o] = e]
  <2>1. Y \in Seq(B) /\ Len(Y) = k /\ \A i \in 1 .. k : Y[i] = W[i]
    BY <1>0, <1>5, <1>7
  <2> HIDE DEF Y
  <2>2. Y = W
    BY <1>5, <2>1, EqualAt
  <2> QED
    BY <2>2 DEF Y
<1>11. R = W
  <2>1. CASE pi < k - 1
    <3>1. Z = V
      BY <2>1 DEF V
    <3> HIDE DEF Z
    <3> QED
      BY <1>9, <3>1 DEF C
  <2>2. CASE ~ (pi < k - 1)
    <3>1. Z = W
      BY <1>0, <2>2 DEF W
    <3> HIDE DEF Z
    <3> QED
      BY <1>10, <3>1
  <2> QED
    BY <2>1, <2>2
<1>12. KeptKid(U, pi, e) = [sep |-> RemoveAt(U.sep, pi + 1), ch |-> R]
  BY DEF KeptKid, XExtract, ch, o
<1>13. DropKid(U, pi) = [sep |-> RemoveAt(U.sep, pi + 1), ch |-> W]
  BY <1>0 DEF DropKid, W, ch
<1> HIDE DEF R
<1> QED
  BY <1>11, <1>12, <1>13

(* The code's numbering of the pages behind a page that goes.              *)
By(q, r, n) == IF n > r THEN n - (r - q) ELSE n
MovedBy(q, r, c) == IF c.at = "d" THEN Data(By(q, r, c.no)) ELSE c
PageBy(q, r, P) ==
  [sep |-> [j \in DOMAIN P.sep |-> By(q, r, P.sep[j])],
   ch  |-> [j \in DOMAIN P.ch |-> MovedBy(q, r, P.ch[j])]]

(* The fields of the tree after the renumbering that a page taken out      *)
(* causes.                                                                 *)
LEMMA RenumberBy ==
  ASSUME NEW t, Fields(t), NEW q, NEW r
  PROVE  Is(Renumber(t, LAMBDA n : IF n > r THEN n - (r - q) ELSE n),
            t.c, MovedBy(q, r, t.r), t.d, [n \in DOMAIN t.x |-> PageBy(q, r, t.x[n])])
  BY DEF Is, Fields, Renumber, MovedBy, PageBy, By

(* Index page U does not point at data page q + 1.                         *)
Avoids(q, U) ==
  /\ \A j \in DOMAIN U.sep : U.sep[j] \in Int /\ U.sep[j] # q + 1
  /\ \A j \in DOMAIN U.ch : U.ch[j].at = "d" => U.ch[j].no \in Int /\ U.ch[j].no # q + 1

(* That renumbering of an index page, if it does not point at the page     *)
(* taken out.                                                              *)
LEMMA PageDownBy ==
  ASSUME NEW q \in Int, NEW r, r = q + 1, NEW U, Avoids(q, U)
  PROVE  PageBy(q, r, U) = PageDown(q, U)
<1>1. \A j \in Int : j # q + 1 => By(q, r, j) = Down(q, j)
  BY DEF By, Down
<1>2. [j \in DOMAIN U.sep |-> By(q, r, U.sep[j])] = [j \in DOMAIN U.sep |-> Down(q, U.sep[j])]
  BY <1>1 DEF Avoids
<1>3. [j \in DOMAIN U.ch |-> MovedBy(q, r, U.ch[j])] = [j \in DOMAIN U.ch |-> MovedDown(q, U.ch[j])]
  BY <1>1 DEF Avoids, MovedBy, MovedDown
<1> QED
  BY <1>2, <1>3 DEF PageBy, PageDown

(* No index page but p points at the page that goes into page q.           *)
LEMMA OthersAvoid ==
  ASSUME NEW n, NEW r, NEW x, NEW s, Laid(n, r, x, s), NEW p, NEW pi, NEW q,
         Pair(x, p, pi, q), NEW m \in DOMAIN x, m # p
  PROVE  Avoids(q, x[m])
<1> DEFINE k == Len(x[m].sep)
           sep == x[m].sep
           ch == x[m].ch
           b == s[m]
<1>1. Mends(s, q, x[m], k, b)
  BY MendsOther
<1>2. /\ k \in Nat /\ DOMAIN sep = 1 .. k /\ DOMAIN ch = 1 .. k + 1 /\ n \in Nat
      /\ \A i \in 1 .. k : sep[i] \in 1 .. n
      /\ \A i \in 1 .. k + 1 : ch[i] \in PagesOf(n, x)
  BY PageType
<1>3. q \in Nat
  BY PairFacts DEF Unparted
<1>4. \A i \in 1 .. k + 1 : ch[i] # Data(q + 1)
  BY PairParent
<1>5. \A i \in 1 .. k : sep[i] # q + 1 \/ sep[i] = q + 2
  BY <1>1 DEF Mends
<1> HIDE DEF k, sep, ch, b
<1>6. \A i \in 1 .. k : sep[i] \in Int /\ sep[i] # q + 1
  BY <1>2, <1>3, <1>5
<1>7. ASSUME NEW i \in 1 .. k + 1, ch[i].at = "d" PROVE ch[i].no \in Int /\ ch[i].no # q + 1
  <2> DEFINE c == ch[i]
  <2>1. c \in PagesOf(n, x) /\ c # Data(q + 1) /\ c.at = "d"
    BY <1>2, <1>4, <1>7
  <2> HIDE DEF c
  <2>2. c.no \in 1 .. n /\ c = Data(c.no)
    BY <2>1, PointerKinds
  <2> QED
    BY <1>2, <2>1, <2>2 DEF c
<1> QED
  BY <1>2, <1>6, <1>7 DEF Avoids, sep, ch

(* Nor does p once it is without its pointer at that page.                 *)
LEMMA ParentAvoids ==
  ASSUME NEW n, NEW r, NEW x, NEW s, Laid(n, r, x, s), NEW p, NEW pi, NEW q,
         Pair(x, p, pi, q), NEW P, P = DropKid(x[p], pi)
  PROVE  Avoids(q, P)
<1> DEFINE k == Len(x[p].sep)
           l == k - 1
           A == 1 .. n
           B == PagesOf(n, x)
           U == x[p]
           b == s[p]
<1>0. p \in DOMAIN x /\ pi \in 0 .. k - 1 /\ q \in Nat /\ n \in Nat
  BY PairFacts, PageType DEF Pair, Unparted
<1>1. Mends(s, q, P, l, b) /\ P.sep \in Seq(A) /\ P.ch \in Seq(B)
  BY MendsParent
<1>2. k \in Nat /\ U.sep \in Seq(A) /\ U.ch \in Seq(B) /\ Len(U.sep) = k /\ Len(U.ch) = k + 1
  <2>1. U.sep \in Seq(A) /\ U.ch \in Seq(B)
    BY <1>0 DEF Laid, Typed
  <2>2. k \in Nat /\ Len(U.ch) = k + 1
    BY <1>0, PageType
  <2> QED
    BY <2>1, <2>2
<1>3. \A i \in 1 .. k + 1 : U.ch[i] = Data(q + 1) => i = pi + 2
  BY <1>0, PairParent
<1> HIDE DEF k, A, B, U, b
<1>4. Dropped(A, B, U, k, pi, P)
  <2>1. Dropped(A, B, U, k, pi, DropKid(U, pi))
    BY <1>0, <1>2, KidDropped
  <2> QED
    BY <2>1 DEF U
<1>5. /\ Len(P.sep) = l /\ Len(P.ch) = k
      /\ \A i \in 1 .. pi + 1 : P.ch[i] = U.ch[i]
      /\ \A i \in pi + 2 .. k : P.ch[i] = U.ch[i + 1]
  BY <1>4 DEF Dropped
<1>6. \A i \in 1 .. l : P.sep[i] # q + 1 \/ P.sep[i] = q + 2
  BY <1>1 DEF Mends
<1>7. DOMAIN P.sep = 1 .. l /\ DOMAIN P.ch = 1 .. k
      /\ (\A i \in 1 .. l : P.sep[i] \in A) /\ \A i \in 1 .. k : P.ch[i] \in B
  BY <1>1, <1>5, Elements
<1>8. \A i \in 1 .. l : P.sep[i] \in Int /\ P.sep[i] # q + 1
  <2>1. \A j \in A : j \in Int
    BY DEF A
  <2> HIDE DEF l
  <2> QED
    BY <1>0, <1>6, <1>7, <2>1
<1>9. ASSUME NEW i \in 1 .. k PROVE P.ch[i] # Data(q + 1)
  <2>1. CASE i \in 1 .. pi + 1
    <3>1. i \in 1 .. k + 1 /\ i # pi + 2
      BY <1>0, <1>2, <2>1
    <3> QED
      BY <1>3, <1>5, <2>1, <3>1
  <2>2. CASE i \in pi + 2 .. k
    <3>1. i + 1 \in 1 .. k + 1 /\ i + 1 # pi + 2
      BY <1>0, <1>2, <2>2
    <3> QED
      BY <1>3, <1>5, <2>2, <3>1
  <2>3. i \in 1 .. pi + 1 \/ i \in pi + 2 .. k
    BY <1>0, <1>2
  <2> QED
    BY <2>1, <2>2, <2>3
<1>10. ASSUME NEW i \in 1 .. k, P.ch[i].at = "d" PROVE P.ch[i].no \in Int /\ P.ch[i].no # q + 1
  <2> DEFINE c == P.ch[i]
  <2>1. c \in PagesOf(n, x) /\ c # Data(q + 1) /\ c.at = "d"
    BY <1>7, <1>9, <1>10 DEF B
  <2> HIDE DEF c
  <2>2. c.no \in 1 .. n /\ c = Data(c.no)
    BY <2>1, PointerKinds
  <2> QED
    BY <1>0, <2>1, <2>2 DEF c
<1> QED
  BY <1>7, <1>8, <1>10 DEF Avoids

(* The steps of cat: the key move, the parent, the page that goes.         *)
JoinLinked(t, p, q, r, pi) ==
  LET joined == MvL(t, q, r, Len(t.d[r]))
  IN  IF Len(t.x[p].sep) > 1
      THEN [joined EXCEPT !.x[p] = KeptKid(@, pi, Data(q))]
      ELSE [[joined EXCEPT !.x = [m \in DOMAIN @ \ {p} |-> @[m]]] EXCEPT !.r = Data(q)]
Closed(t, q, r) ==
  Renumber([t EXCEPT !.d = SubSeq(@, 1, q) \o SubSeq(@, r + 1, Len(@))],
           LAMBDA n : IF n > r THEN n - (r - q) ELSE n)

(* Cat, as a link of the joined page and a renumbering.                    *)
LEMMA CatAs ==
  ASSUME NEW t, NEW p, NEW q, NEW r, NEW pi
  PROVE  Cat(t, p, q, r, pi) = Closed(JoinLinked(t, p, q, r, pi), q, r)
<1>1. MvL(t, q, r, Len(t.d[r])).x = t.x
  BY DEF MvL
<1> QED
  BY <1>1 DEF Cat, Closed, JoinLinked, KeptKid, Free, Restrict

(* The fields of the tree when the place taken out is closed.              *)
LEMMA ClosedParts ==
  ASSUME NEW t, Fields(t), NEW q, NEW r
  PROVE  Is(Closed(t, q, r), t.c, MovedBy(q, r, t.r),
            SubSeq(t.d, 1, q) \o SubSeq(t.d, r + 1, Len(t.d)),
            [n \in DOMAIN t.x |-> PageBy(q, r, t.x[n])])
<1> DEFINE e == SubSeq(t.d, 1, q) \o SubSeq(t.d, r + 1, Len(t.d))
           u == [t EXCEPT !.d = SubSeq(@, 1, q) \o SubSeq(@, r + 1, Len(@))]
           v == Renumber(u, LAMBDA n : IF n > r THEN n - (r - q) ELSE n)
<1>1. Is(u, t.c, t.r, e, t.x)
  BY DEF Is, Fields
<1> HIDE DEF u, e
<1>a. Fields(u)
  BY <1>1 DEF Is
<1>2. Is(v, u.c, MovedBy(q, r, u.r), u.d, [n \in DOMAIN u.x |-> PageBy(q, r, u.x[n])])
  BY <1>a, RenumberBy
<1>3. Closed(t, q, r) = v
  BY DEF Closed, u
<1> HIDE DEF v
<1> QED
  BY <1>1, <1>2, <1>3 DEF Is, e

(* The fields of the tree when the joined page is linked.                  *)
LEMMA JoinLinkedParts ==
  ASSUME NEW t, Fields(t), NEW p, NEW q, NEW r, NEW pi
  PROVE  LET u == JoinLinked(t, p, q, r, pi)
             e == DealtLeft(t.d, q, r, Len(t.d[r]))
         IN  /\ Len(t.x[p].sep) > 1 =>
                  Is(u, t.c, t.r, e, [t.x EXCEPT ![p] = KeptKid(@, pi, Data(q))])
             /\ ~ (Len(t.x[p].sep) > 1) =>
                  Is(u, t.c, Data(q), e, [m \in DOMAIN t.x \ {p} |-> t.x[m]])
<1> DEFINE u == JoinLinked(t, p, q, r, pi)
           e == DealtLeft(t.d, q, r, Len(t.d[r]))
           j == MvL(t, q, r, Len(t.d[r]))
           w == Len(t.x[p].sep)
<1>1. Is(j, t.c, t.r, e, t.x)
  BY MvLParts
<1>2. u = IF w > 1 THEN [j EXCEPT !.x[p] = KeptKid(@, pi, Data(q))]
          ELSE [[j EXCEPT !.x = [m \in DOMAIN @ \ {p} |-> @[m]]] EXCEPT !.r = Data(q)]
  BY DEF JoinLinked
<1> HIDE DEF u, j, e, w
<1>3. ASSUME w > 1 PROVE Is(u, t.c, t.r, e, [t.x EXCEPT ![p] = KeptKid(@, pi, Data(q))])
  <2>1. u = [j EXCEPT !.x[p] = KeptKid(@, pi, Data(q))]
    BY <1>2, <1>3
  <2> QED
    BY <1>1, <2>1 DEF Is, Fields
<1>4. ASSUME ~ (w > 1) PROVE Is(u, t.c, Data(q), e, [m \in DOMAIN t.x \ {p} |-> t.x[m]])
  <2>1. u = [[j EXCEPT !.x = [m \in DOMAIN @ \ {p} |-> @[m]]] EXCEPT !.r = Data(q)]
    BY <1>2, <1>4
  <2> QED
    BY <1>1, <2>1 DEF Is, Fields
<1> QED
  BY <1>3, <1>4 DEF u, e, w

(* The two ways to join two data pages leave them joined.                  *)
Pairs(x, p, pi, q, y, z) ==
  /\ [m \in DOMAIN y |-> PageBy(q, q + 1, y[m])] = PairedPages(x, p, pi, q)
  /\ [m \in DOMAIN z |-> PageBy(q, q + 1, z[m])] = Without(PairedPages(x, p, pi, q), p)

(* What the pages are when data page q + 1 is joined to q.                 *)
LEMMA PairedAs ==
  ASSUME NEW n, NEW r, NEW x, NEW s, Laid(n, r, x, s), NEW p, NEW pi, NEW q, Pair(x, p, pi, q),
         NEW y, y = [x EXCEPT ![p] = KeptKid(@, pi, Data(q))],
         NEW z, z = [m \in DOMAIN x \ {p} |-> x[m]]
  PROVE  Pairs(x, p, pi, q, y, z)
<1> DEFINE k == Len(x[p].sep)
           U == x[p]
           e == Data(q)
           D == DropKid(x[p], pi)
           A == 1 .. n
           B == PagesOf(n, x)
           W == PairedPages(x, p, pi, q)
           E == PageDown(q, D)
<1>0. q \in Int
  <2>1. Unparted(n, x, s, p, q)
    BY PairFacts
  <2> QED
    BY <2>1 DEF Unparted
<1>1. p \in DOMAIN x /\ pi \in 0 .. k - 1 /\ U.ch[pi + 1] = e /\ q \in Int
  BY <1>0 DEF Pair
<1>2. k \in Nat /\ U.sep \in Seq(A) /\ U.ch \in Seq(B) /\ Len(U.sep) = k /\ Len(U.ch) = k + 1
  <2>1. U.sep \in Seq(A) /\ U.ch \in Seq(B)
    BY <1>1 DEF Laid, Typed
  <2>2. k \in Nat /\ Len(U.ch) = k + 1
    BY <1>1, PageType
  <2> QED
    BY <2>1, <2>2
<1>3. KeptKid(U, pi, e) = D
  <2> HIDE DEF k, U, e, A, B, D
  <2>1. KeptKid(U, pi, e) = DropKid(U, pi)
    BY <1>1, <1>2, DataKidDropped
  <2> QED
    BY <2>1 DEF D, U
<1>4. PageBy(q, q + 1, D) = E
  <2>1. Avoids(q, D)
    BY ParentAvoids
  <2> HIDE DEF D
  <2> QED
    BY <1>1, <2>1, PageDownBy
<1>5. \A m \in DOMAIN x : m # p => PageBy(q, q + 1, x[m]) = PageDown(q, x[m])
  <2> SUFFICES ASSUME NEW m \in DOMAIN x, m # p PROVE PageBy(q, q + 1, x[m]) = PageDown(q, x[m])
    OBVIOUS
  <2> DEFINE V == x[m]
  <2>1. Avoids(q, V)
    BY OthersAvoid
  <2> HIDE DEF V
  <2>2. PageBy(q, q + 1, V) = PageDown(q, V)
    BY <1>1, <2>1, PageDownBy
  <2> QED
    BY <2>2 DEF V
<1>6. W = [m \in DOMAIN x |-> IF m = p THEN E ELSE PageDown(q, x[m])]
  BY DEF PairedPages
<1> HIDE DEF D, E, W
<1>7. DOMAIN y = DOMAIN x /\ y[p] = D /\ \A m \in DOMAIN x : m # p => y[m] = x[m]
  BY <1>1, <1>3 DEF U, e
<1>8. [m \in DOMAIN y |-> PageBy(q, q + 1, y[m])] = W
  <2>1. \A m \in DOMAIN x : PageBy(q, q + 1, y[m]) = IF m = p THEN E ELSE PageDown(q, x[m])
    BY <1>4, <1>5, <1>7
  <2> QED
    BY <1>6, <1>7, <2>1
<1>9. [m \in DOMAIN z |-> PageBy(q, q + 1, z[m])] = Without(W, p)
  <2>1. Without(W, p) = [m \in DOMAIN W \ {p} |-> W[m]]
    BY DEF Without
  <2>2. DOMAIN W = DOMAIN x /\ DOMAIN z = DOMAIN x \ {p} /\ DOMAIN W \ {p} = DOMAIN z
    BY <1>6
  <2>3. ASSUME NEW m \in DOMAIN z PROVE PageBy(q, q + 1, z[m]) = W[m]
    <3>1. m \in DOMAIN x /\ m # p /\ z[m] = x[m]
      BY <2>2
    <3>2. W[m] = PageDown(q, x[m])
      BY <1>6, <3>1
    <3> QED
      BY <1>5, <3>1, <3>2
  <2> QED
    BY <2>1, <2>2, <2>3
<1> QED
  BY <1>8, <1>9 DEF W, Pairs

(* u is the tree after cat, with page p kept or given up.                  *)
CatTrees(t, p, q, pi, u) ==
  /\ Len(t.x[p].sep) > 1 => Is(u, t.c, t.r, Merged(t.d, q), PairedPages(t.x, p, pi, q))
  /\ ~ (Len(t.x[p].sep) > 1) =>
       Is(u, t.c, Data(q), Merged(t.d, q), Without(PairedPages(t.x, p, pi, q), p))

(* The fields of the tree after cat, with the parent kept and with the     *)
(* root given up.                                                          *)
LEMMA CatParts ==
  ASSUME NEW t, NEW s, Sound(t, s), NEW p, NEW pi, NEW q, Pair(t.x, p, pi, q)
  PROVE  CatTrees(t, p, q, pi, Cat(t, p, q, q + 1, pi))
<1> DEFINE r == q + 1
           x == t.x
           e == DealtLeft(t.d, q, r, Len(t.d[r]))
           f == SubSeq(e, 1, q) \o SubSeq(e, r + 1, Len(e))
           v == JoinLinked(t, p, q, r, pi)
           u == Cat(t, p, q, r, pi)
           y == [x EXCEPT ![p] = KeptKid(@, pi, Data(q))]
           z == [m \in DOMAIN x \ {p} |-> x[m]]
           w == Len(x[p].sep)
<1>1. Fields(t) /\ Laid(Len(t.d), t.r, x, s)
  BY DEF Sound
<1>2. q \in Nat /\ p \in DOMAIN x
  BY <1>1, PairFacts DEF Unparted
<1>3. u = Closed(v, q, r)
  BY CatAs
<1>4. f = Merged(t.d, q)
  <2>1. r + 1 = q + 2
    BY <1>2
  <2> DEFINE o == q + 2
  <2>2. f = SubSeq(e, 1, q) \o SubSeq(e, o, Len(e))
    BY <2>1
  <2> QED
    BY <2>2 DEF Merged
<1>5. /\ w > 1 => Is(v, t.c, t.r, e, y)
      /\ ~ (w > 1) => Is(v, t.c, Data(q), e, z)
  BY <1>1, JoinLinkedParts
<1>6. /\ [m \in DOMAIN y |-> PageBy(q, r, y[m])] = PairedPages(x, p, pi, q)
      /\ [m \in DOMAIN z |-> PageBy(q, r, z[m])] = Without(PairedPages(x, p, pi, q), p)
  <2>1. Pairs(x, p, pi, q, y, z)
    BY <1>1, PairedAs
  <2> QED
    BY <2>1 DEF Pairs
<1>7. t.r.at = "x"
  BY <1>1, <1>2, RootIndex
<1>8. MovedBy(q, r, t.r) = t.r
  BY <1>7 DEF MovedBy
<1>9. MovedBy(q, r, Data(q)) = Data(q)
  BY <1>2 DEF MovedBy, By, Data
<1> HIDE DEF u, v, y, z, w
<1>10. Fields(v) => Is(u, v.c, MovedBy(q, r, v.r), SubSeq(v.d, 1, q) \o SubSeq(v.d, r + 1, Len(v.d)),
                       [m \in DOMAIN v.x |-> PageBy(q, r, v.x[m])])
  BY <1>3, ClosedParts
<1> HIDE DEF r
<1>11. ASSUME w > 1 PROVE Is(u, t.c, t.r, Merged(t.d, q), PairedPages(x, p, pi, q))
  <2>1. Is(v, t.c, t.r, e, y)
    BY <1>5, <1>11
  <2> HIDE DEF e
  <2>2. Fields(v) /\ v.c = t.c /\ v.r = t.r /\ v.d = e /\ v.x = y
    BY <2>1 DEF Is
  <2> QED
    BY <1>4, <1>6, <1>8, <1>10, <2>2
<1>12. ASSUME ~ (w > 1) PROVE Is(u, t.c, Data(q), Merged(t.d, q), Without(PairedPages(x, p, pi, q), p))
  <2>1. Is(v, t.c, Data(q), e, z)
    BY <1>5, <1>12
  <2> HIDE DEF e
  <2>2. Fields(v) /\ v.c = t.c /\ v.r = Data(q) /\ v.d = e /\ v.x = z
    BY <2>1 DEF Is
  <2> QED
    BY <1>4, <1>6, <1>9, <1>10, <2>2
<1> QED
  BY <1>11, <1>12 DEF CatTrees, u, w, r

(* How many separators the pages have after data page q + 1 is joined to   *)
(* q.                                                                      *)
PairedSizes(x, p, pi, q, y) ==
  /\ DOMAIN y = DOMAIN x /\ p \in DOMAIN x
  /\ Len(y[p].sep) = Len(x[p].sep) - 1 /\ (pi = 0 => y[p].ch[1] = Data(q))
  /\ \A m \in DOMAIN x : m # p => Len(y[m].sep) = Len(x[m].sep)

(* How many separators the pages have then.                                *)
LEMMA PairedLengths ==
  ASSUME NEW n, NEW r, NEW x, NEW s, Laid(n, r, x, s), NEW p, NEW pi, NEW q, Pair(x, p, pi, q)
  PROVE  PairedSizes(x, p, pi, q, PairedPages(x, p, pi, q))
<1> DEFINE k == Len(x[p].sep)
           U == x[p]
           D == DropKid(x[p], pi)
           A == 1 .. n
           B == PagesOf(n, x)
           y == PairedPages(x, p, pi, q)
           E == PageDown(q, D)
           l == k - 1
<1>0. Unparted(n, x, s, p, q) /\ Typed(n, r, x, s)
  BY PairFacts DEF Laid
<1>1. p \in DOMAIN x /\ pi \in 0 .. k - 1 /\ U.ch[pi + 1] = Data(q)
  BY DEF Pair
<1>2. q \in Nat \ {0} /\ q + 1 <= n
  BY <1>0 DEF Unparted
<1>3. k \in Nat /\ U.sep \in Seq(A) /\ U.ch \in Seq(B) /\ Len(U.sep) = k /\ Len(U.ch) = k + 1
  <2>1. U.sep \in Seq(A) /\ U.ch \in Seq(B)
    BY <1>1 DEF Laid, Typed
  <2>2. k \in Nat /\ Len(U.ch) = k + 1
    BY <1>1, PageType
  <2> QED
    BY <2>1, <2>2
<1>4. DOMAIN y = DOMAIN x /\ y[p] = E /\ \A m \in DOMAIN x : m # p => y[m] = PageDown(q, x[m])
  BY <1>1 DEF PairedPages
<1> HIDE DEF y, A, B, U
<1>5. Dropped(A, B, U, k, pi, D)
  <2> HIDE DEF k, D
  <2>1. Dropped(A, B, U, k, pi, DropKid(U, pi))
    BY <1>1, <1>3, KidDropped
  <2> QED
    BY <2>1 DEF U, D
<1> HIDE DEF k, D
<1>6. /\ D.sep \in Seq(A) /\ D.ch \in Seq(B) /\ Len(D.sep) = l /\ Len(D.ch) = k
      /\ \A i \in 1 .. pi + 1 : D.ch[i] = U.ch[i]
  BY <1>5 DEF Dropped
<1> HIDE DEF l
<1>7. Lowered(n, q, y, D, l, k, E)
  <2>1. Lowered(n, q, y, D, l, k, PageDown(q, D))
    BY <1>0, <1>2, <1>4, <1>6, PageLowered DEF A, B
  <2> QED
    BY <2>1
<1> HIDE DEF E
<1>8. Len(E.sep) = k - 1
  BY <1>7 DEF Lowered, l
<1>9. ASSUME pi = 0 PROVE E.ch[1] = Data(q)
  <2>1. pi + 1 = 1 /\ 1 \in 1 .. pi + 1 /\ 1 \in 1 .. k
    BY <1>1, <1>3, <1>9
  <2>2. D.ch[1] = Data(q)
    BY <1>1, <1>6, <2>1
  <2>3. E.ch[1] = MovedDown(q, D.ch[1])
    BY <1>7, <2>1 DEF Lowered
  <2> QED
    BY <1>2, <2>2, <2>3 DEF MovedDown, Down, Data
<1>10. ASSUME NEW m \in DOMAIN x, m # p PROVE Len(y[m].sep) = Len(x[m].sep)
  <2> DEFINE V == x[m]
             h == Len(V.sep)
             j == Len(V.ch)
             P == PageDown(q, V)
  <2>1. V.sep \in Seq(1 .. n) /\ V.ch \in Seq(PagesOf(n, x)) /\ h = Len(V.sep) /\ j = Len(V.ch)
    BY <1>0 DEF Typed
  <2>2. y[m] = P /\ P = PageDown(q, V)
    BY <1>4, <1>10
  <2> HIDE DEF V, h, j, P
  <2>3. Lowered(n, q, y, V, h, j, PageDown(q, V))
    BY <1>0, <1>2, <1>4, <2>1, PageLowered
  <2>4. Len(P.sep) = h
    BY <2>2, <2>3 DEF Lowered
  <2> QED
    BY <2>1, <2>2, <2>4 DEF V
<1> QED
  BY <1>1, <1>4, <1>8, <1>9, <1>10 DEF PairedSizes, y, k

(* Every data page but q and the next is half full.                        *)
FullAround(d, q) == \A j \in DOMAIN d : j # q /\ j # q + 1 => Len(d[j]) \in kd .. 2 * kd

(* A joined page is between half and full if the two were, together.       *)
LEMMA MergedFull ==
  ASSUME NEW d \in Seq(Seq(Key)), NEW q \in 1 .. Len(d) - 1, FullAround(d, q),
         Len(d[q]) + Len(d[q + 1]) \in kd .. 2 * kd, NEW R
  PROVE  FullData(Merged(d, q), R)
<1> DEFINE e == Merged(d, q)
           n == Len(e)
           o == q + 1
<1>1. Splits(e, q, d[q], d[o], d)
  BY Merging
<1>2. /\ Halves(e, d, q) /\ Len(d) = n + 1 /\ DOMAIN d = 1 .. n + 1
  BY <1>1 DEF Splits
<1>3. /\ e \in Seq(Seq(Key)) /\ q \in 1 .. n
      /\ \A i \in 1 .. q - 1 : d[i] = e[i]
      /\ \A i \in o .. n : d[i + 1] = e[i]
      /\ e[q] = d[q] \o d[o]
  BY <1>2 DEF Halves
<1> HIDE DEF e
<1>4. n \in Nat /\ DOMAIN e = 1 .. n
  BY <1>3, Elements
<1>5. kd \in Nat \ {0}
  BY BTreeAssumption DEF BTreeAssumption
<1> HIDE DEF n
<1>6. Len(e[q]) \in kd .. 2 * kd
  <2>1. q \in DOMAIN d /\ o \in DOMAIN d
    BY <1>2, <1>3, <1>4
  <2>2. d[q] \in Seq(Key) /\ d[o] \in Seq(Key)
    BY <2>1, ElementOfSeq
  <2> DEFINE a == d[q]
             b == d[o]
  <2>3. a \in Seq(Key) /\ b \in Seq(Key) /\ e[q] = a \o b /\ Len(a) + Len(b) \in kd .. 2 * kd
    BY <1>3, <2>2
  <2> HIDE DEF a, b
  <2>4. Len(a \o b) = Len(a) + Len(b)
    BY <2>3
  <2> QED
    BY <2>3, <2>4
<1>7. ASSUME NEW j \in 1 .. n PROVE Len(e[j]) \in kd .. 2 * kd
  <2>1. j = q \/ (j \in 1 .. q - 1 /\ j \in 1 .. n + 1 /\ j # q /\ j # q + 1)
        \/ (j \in o .. n /\ j + 1 \in 1 .. n + 1 /\ j + 1 # q /\ j + 1 # q + 1)
    BY <1>3, <1>4
  <2>2. CASE j = q
    BY <1>6, <2>2
  <2>3. CASE j \in 1 .. q - 1 /\ j \in 1 .. n + 1 /\ j # q /\ j # q + 1
    BY <1>2, <1>3, <2>3 DEF FullAround
  <2>4. CASE j \in o .. n /\ j + 1 \in 1 .. n + 1 /\ j + 1 # q /\ j + 1 # q + 1
    <3> DEFINE h == j + 1
    <3>1. h \in DOMAIN d /\ h # q /\ h # q + 1 /\ d[h] = e[j]
      BY <1>2, <1>3, <2>4
    <3> HIDE DEF h
    <3> QED
      BY <3>1 DEF FullAround
  <2> QED
    BY <2>1, <2>2, <2>3, <2>4
<1>8. \A j \in 1 .. n : Len(e[j]) \in 1 .. 2 * kd /\ Len(e[j]) >= kd
  <2>1. \A k \in kd .. 2 * kd : k \in 1 .. 2 * kd /\ k >= kd
    BY <1>5
  <2> QED
    BY <1>7, <2>1
<1>9. FullData(e, R)
  BY <1>4, <1>8 DEF FullData
<1> QED
  BY <1>9 DEF e

(* The index pages once p is without a separator, p still there or not.    *)
LEMMA PairedFull ==
  ASSUME NEW x, NEW r, FullIndex(x, r), NEW p, NEW pi, NEW q, NEW y, PairedSizes(x, p, pi, q, y),
         Len(x[p].sep) > 1, Len(x[p].sep) >= kx \/ r = Index(p)
  PROVE  FullIndex(y, r)
<1> DEFINE w == Len(x[p].sep)
<1>1. /\ DOMAIN y = DOMAIN x /\ p \in DOMAIN x /\ Len(y[p].sep) = w - 1
      /\ \A m \in DOMAIN x : m # p => Len(y[m].sep) = Len(x[m].sep)
  BY DEF PairedSizes
<1>2. w \in 1 .. 2 * kx + 1 /\ w > 1 /\ (w >= kx \/ r = Index(p))
  BY <1>1 DEF FullIndex
<1>3. kx \in Nat
  BY BTreeAssumption DEF BTreeAssumption
<1> HIDE DEF w
<1>4. w - 1 \in 1 .. 2 * kx + 1 /\ (w >= kx => w - 1 >= kx - 1)
  BY <1>2, <1>3
<1>5. ASSUME NEW m \in DOMAIN y
      PROVE  Len(y[m].sep) \in 1 .. 2 * kx + 1 /\ (Len(y[m].sep) >= kx - 1 \/ r = Index(m))
  <2>1. CASE m = p
    BY <1>1, <1>2, <1>4, <2>1
  <2>2. CASE m # p
    BY <1>1, <2>2 DEF FullIndex
  <2> QED
    BY <2>1, <2>2
<1> QED
  BY <1>5 DEF FullIndex

(* The other index pages are full enough when the root is given up.        *)
LEMMA PairedFullWithout ==
  ASSUME NEW x, NEW r, FullIndex(x, r), NEW p, NEW pi, NEW q, NEW y, PairedSizes(x, p, pi, q, y),
         r = Index(p), NEW R
  PROVE  FullIndex(Without(y, p), R)
<1> DEFINE z == Without(y, p)
<1>1. /\ DOMAIN y = DOMAIN x /\ \A m \in DOMAIN x : m # p => Len(y[m].sep) = Len(x[m].sep)
  BY DEF PairedSizes
<1>2. DOMAIN z = DOMAIN x \ {p} /\ \A m \in DOMAIN z : z[m] = y[m]
  BY <1>1 DEF Without
<1> HIDE DEF z
<1>3. ASSUME NEW m \in DOMAIN z
      PROVE  Len(z[m].sep) \in 1 .. 2 * kx + 1 /\ Len(z[m].sep) >= kx - 1
  <2>1. m \in DOMAIN x /\ m # p /\ Len(z[m].sep) = Len(x[m].sep)
    BY <1>1, <1>2
  <2>2. r # Index(m)
    BY <2>1 DEF Index
  <2>3. Len(x[m].sep) \in 1 .. 2 * kx + 1 /\ Len(x[m].sep) >= kx - 1
    BY <2>1, <2>2 DEF FullIndex
  <2> QED
    BY <2>1, <2>3
<1>4. FullIndex(z, R)
  BY <1>3 DEF FullIndex
<1> QED
  BY <1>4 DEF z

(* The joined tree has the keys it had.                                    *)
LEMMA MergedKeeps ==
  ASSUME NEW t, NEW s, Sound(t, s), NEW q \in 1 .. Len(t.d) - 1,
         NEW u, NEW r, NEW x, Is(u, t.c, r, Merged(t.d, q), x), NEW S, Laid(Len(t.d) - 1, r, x, S)
  PROVE  Keeps(t, u, S)
<1> DEFINE e == Merged(t.d, q)
           n == Len(t.d)
<1>1. t.d \in Seq(Seq(Key)) /\ Ordered(t.d) /\ q \in 1 .. n - 1
  BY DEF Sound
<1>2. Halves(e, t.d, q) /\ n = Len(e) + 1
  BY <1>1, Merging DEF Splits
<1>3. e \in Seq(Seq(Key))
  BY <1>2 DEF Halves
<1>4. KeysOf(e) = KeysOf(t.d) /\ Ordered(e)
  BY <1>1, <1>2, HalvesKeys
<1>5. n \in Nat
  BY <1>1, Elements
<1> HIDE DEF e, n
<1>6. Len(e) = n - 1 /\ Len(e) >= 1
  <2>1. Len(e) \in Nat
    BY <1>3, Elements
  <2> QED
    BY <1>1, <1>2, <1>5, <2>1
<1>7. Fields(u) /\ u.c = t.c /\ u.d = e /\ u.r = r /\ u.x = x
  BY DEF Is, e
<1>8. Laid(Len(u.d), u.r, u.x, S)
  BY <1>6, <1>7 DEF n
<1> QED
  BY <1>3, <1>4, <1>6, <1>7, <1>8, SoundKept

(* Tree u is as it should be, with the keys of t.                          *)
KeepDone(t, u) == \E S : Keeps(t, u, S) /\ Full(u)

(* Cat of two data pages that fit in one.                                  *)
LEMMA CatDone ==
  ASSUME NEW t, NEW s, Sound(t, s), FullIndex(t.x, t.r), NEW p, NEW pi, NEW q, Pair(t.x, p, pi, q),
         Len(t.x[p].sep) >= kx \/ t.r = Index(p),
         FullAround(t.d, q), Len(t.d[q]) + Len(t.d[q + 1]) \in kd .. 2 * kd
  PROVE  KeepDone(t, Cat(t, p, q, q + 1, pi))
<1> DEFINE x == t.x
           n == Len(t.d)
           u == Cat(t, p, q, q + 1, pi)
           y == PairedPages(x, p, pi, q)
           S == SpansDown(q, s)
           e == Merged(t.d, q)
           w == Len(x[p].sep)
           z == Without(y, p)
           R == Without(S, p)
<1>1. t.d \in Seq(Seq(Key)) /\ Laid(n, t.r, x, s) /\ FullIndex(x, t.r)
  BY DEF Sound
<1>2. Unparted(n, x, s, p, q)
  BY <1>1, PairFacts
<1>3. n \in Nat /\ q \in 1 .. n - 1 /\ p \in DOMAIN x
  <2>1. n \in Nat
    BY <1>1, Elements
  <2> HIDE DEF n
  <2> QED
    BY <1>2, <2>1 DEF Unparted
<1>4. CatTrees(t, p, q, pi, u)
  BY CatParts
<1>5. Laid(n - 1, t.r, y, S)
  BY <1>1, LaidPaired
<1>6. PairedSizes(x, p, pi, q, y)
  BY <1>1, PairedLengths
<1>7. \A T : FullData(e, T)
  BY <1>1, <1>3, MergedFull
<1>8. pi \in 0 .. w - 1 /\ w \in 1 .. 2 * kx + 1 /\ (w >= kx \/ t.r = Index(p)) /\ kx \in Nat \ {0, 1}
  BY <1>1, <1>3, BTreeAssumption DEF Pair, FullIndex, BTreeAssumption
<1> HIDE DEF u, y, S, e, n
<1>9. CASE w > 1
  <2>1. Is(u, t.c, t.r, e, y)
    BY <1>4, <1>9 DEF CatTrees, e, y
  <2>2. Keeps(t, u, S)
    BY <1>3, <1>5, <2>1, MergedKeeps DEF e, n
  <2>3. FullIndex(y, t.r)
    BY <1>1, <1>6, <1>8, <1>9, PairedFull
  <2>4. Full(u)
    BY <1>7, <2>1, <2>3 DEF Full, Is
  <2> QED
    BY <2>2, <2>4 DEF KeepDone, u
<1>10. CASE ~ (w > 1)
  <2>0. w = 1 /\ pi = 0 /\ t.r = Index(p)
    <3> HIDE DEF w
    <3> QED
      BY <1>8, <1>10
  <2>1. Is(u, t.c, Data(q), e, z)
    BY <1>4, <1>10 DEF CatTrees, e, y
  <2>2. p \in DOMAIN y /\ Len(y[p].sep) = 0 /\ y[p].ch[1] = Data(q)
    BY <1>3, <1>6, <2>0 DEF PairedSizes
  <2>3. Laid(n - 1, Data(q), z, R)
    <3> DEFINE h == n - 1
    <3>1. Laid(h, t.r, y, S)
      BY <1>5
    <3> HIDE DEF h
    <3>2. Laid(h, y[p].ch[1], Without(y, p), Without(S, p))
      BY <2>0, <2>2, <3>1, LaidShrunk
    <3> QED
      BY <2>2, <3>2 DEF h
  <2>4. FullIndex(z, Data(q))
    BY <1>1, <1>6, <2>0, PairedFullWithout
  <2> HIDE DEF z, R
  <2>5. Keeps(t, u, R)
    BY <1>3, <2>1, <2>3, MergedKeeps DEF e, n
  <2>6. Full(u)
    BY <1>7, <2>1, <2>4 DEF Full, Is
  <2> QED
    BY <2>5, <2>6 DEF KeepDone, u
<1> QED
  BY <1>9, <1>10

-----------------------------------------------------------------------------
(* Underflow.                                                              *)

(* A loan between data pages that leaves both at least half full makes up  *)
(* for the missing key.                                                    *)
LEMMA DealtFull ==
  ASSUME NEW d, NEW l, FullAround(d, l), NEW s, NEW t, NEW e, Deals(d, l, s, t, e),
         Len(s) \in kd .. 2 * kd, Len(t) \in kd .. 2 * kd, NEW r
  PROVE  FullData(e, r)
<1>1. /\ DOMAIN e = DOMAIN d /\ e[l] = s /\ e[l + 1] = t
      /\ \A i \in DOMAIN d : i # l /\ i # l + 1 => e[i] = d[i]
  BY DEF Deals
<1>2. \A k \in kd .. 2 * kd : k \in 1 .. 2 * kd /\ k >= kd
  BY BTreeAssumption DEF BTreeAssumption
<1>3. ASSUME NEW i \in DOMAIN e PROVE Len(e[i]) \in kd .. 2 * kd
  <2>1. CASE i = l
    BY <1>1, <2>1
  <2>2. CASE i = l + 1
    BY <1>1, <2>2
  <2>3. CASE i # l /\ i # l + 1
    <3>1. e[i] = d[i] /\ i \in DOMAIN d
      BY <1>1, <2>3
    <3> QED
      BY <2>3, <3>1 DEF FullAround
  <2> QED
    BY <2>1, <2>2, <2>3
<1> QED
  BY <1>2, <1>3 DEF FullData

(* It leaves the tree as it should be, with the same keys.                 *)
LEMMA DealtDone ==
  ASSUME NEW t, NEW s, Sound(t, s), FullIndex(t.x, t.r), NEW l, FullAround(t.d, l),
         NEW a, NEW b, NEW e, Deals(t.d, l, a, b, e), Len(a) \in kd .. 2 * kd, Len(b) \in kd .. 2 * kd,
         NEW u, Is(u, t.c, t.r, e, t.x)
  PROVE  KeepDone(t, u)
<1>1. FullData(e, t.r)
  BY DealtFull
<1>2. Redealt(t.d, e, l)
  BY DEF Deals
<1>3. Keeps(t, u, s)
  BY <1>2, SoundDealt
<1>4. Full(u)
  BY <1>1 DEF Full, Is
<1> QED
  BY <1>3, <1>4 DEF KeepDone

(* The page before q gives it its last key.                                *)
LEMMA LentFromLeft ==
  ASSUME NEW t, NEW s, Sound(t, s), FullIndex(t.x, t.r), NEW l \in 1 .. Len(t.d) - 1, NEW q, q = l + 1,
         FullAround(t.d, l), Len(t.d[l]) \in kd .. 2 * kd, Len(t.d[q]) = kd - 1, CanLend(t, l, q)
  PROVE  KeepDone(t, MvR(t, l, q, 1))
<1> DEFINE d == t.d
           m == Len(d[l])
           h == m - 1
           a == SubSeq(d[l], 1, h)
           b == SubSeq(d[l], h + 1, m)
           c == b \o d[q]
           e == DealtRight(d, l, q, 1)
<1>1. /\ d \in Seq(Seq(Key)) /\ kd \in Nat \ {0} /\ l \in 1 .. Len(d) - 1 /\ Fields(t)
  BY BTreeAssumption DEF Sound, BTreeAssumption
<1>2. Len(d) \in Nat /\ DOMAIN d = 1 .. Len(d)
  BY <1>1, Elements
<1>3. l \in 1 .. Len(d) /\ q \in 1 .. Len(d)
  BY <1>1, <1>2
<1>4. d[l] \in Seq(Key) /\ d[q] \in Seq(Key)
  BY <1>1, <1>3, ElementOfSeq
<1>5. m \in kd .. 2 * kd /\ Len(d[q]) = kd - 1 /\ m + Len(d[q]) >= 2 * kd
  BY DEF CanLend
<1>6. m >= kd + 1 /\ m <= 2 * kd /\ m \in Nat /\ 1 \in 0 .. m /\ h = m - 1 /\ h \in 0 .. m /\ m - h = 1
  <2> HIDE DEF m
  <2> QED
    BY <1>1, <1>5
<1>7. Deals(d, l, a, c, e)
  <2> HIDE DEF d, h, e
  <2>1. Deals(d, l, SubSeq(d[l], 1, h), SubSeq(d[l], h + 1, Len(d[l])) \o d[q], DealtRight(d, l, q, 1))
    BY <1>1, <1>6, DealingRight
  <2> QED
    BY <2>1 DEF e
<1>8. Parted(d[l], h, a, b)
  <2> HIDE DEF d, h
  <2>1. h \in 0 .. Len(d[l])
    BY <1>6
  <2> QED
    BY <1>4, <2>1, Parting
<1>9. a \in Seq(Key) /\ b \in Seq(Key) /\ Len(a) = h /\ Len(b) = m - h
  BY <1>8 DEF Parted
<1> HIDE DEF d, a, b, m, h
<1>10. Len(c) = 1 + (kd - 1)
  <2>1. Len(c) = Len(b) + Len(d[q])
    BY <1>4, <1>9, ConcatProperties
  <2> QED
    BY <1>5, <1>6, <1>9, <2>1
<1>11. Len(a) \in kd .. 2 * kd /\ Len(c) \in kd .. 2 * kd
  BY <1>1, <1>6, <1>9, <1>10
<1>12. Is(MvR(t, l, q, 1), t.c, t.r, e, t.x)
  BY <1>1, MvRParts DEF d
<1> HIDE DEF c, e
<1> QED
  BY <1>7, <1>11, <1>12, DealtDone DEF d

(* The page after q gives it its first.                                    *)
LEMMA LentFromRight ==
  ASSUME NEW t, NEW s, Sound(t, s), FullIndex(t.x, t.r), NEW q \in 1 .. Len(t.d) - 1, NEW r, r = q + 1,
         FullAround(t.d, q), Len(t.d[r]) \in kd .. 2 * kd, Len(t.d[q]) = kd - 1, CanLend(t, q, r)
  PROVE  KeepDone(t, MvL(t, q, r, 1))
<1> DEFINE d == t.d
           m == Len(d[r])
           a == SubSeq(d[r], 1, 1)
           b == SubSeq(d[r], 1 + 1, m)
           c == d[q] \o a
           e == DealtLeft(d, q, r, 1)
<1>1. /\ d \in Seq(Seq(Key)) /\ kd \in Nat \ {0} /\ q \in 1 .. Len(d) - 1 /\ Fields(t)
  BY BTreeAssumption DEF Sound, BTreeAssumption
<1>2. Len(d) \in Nat /\ DOMAIN d = 1 .. Len(d)
  BY <1>1, Elements
<1>3. q \in 1 .. Len(d) /\ r \in 1 .. Len(d)
  BY <1>1, <1>2
<1>4. d[r] \in Seq(Key) /\ d[q] \in Seq(Key)
  BY <1>1, <1>3, ElementOfSeq
<1>5. m \in kd .. 2 * kd /\ Len(d[q]) = kd - 1 /\ Len(d[q]) + m >= 2 * kd
  BY DEF CanLend
<1>6. m >= kd + 1 /\ m <= 2 * kd /\ m \in Nat /\ 1 \in 0 .. m
  <2> HIDE DEF m
  <2> QED
    BY <1>1, <1>5
<1>7. Deals(d, q, c, b, e)
  <2> HIDE DEF d, e
  <2>1. Deals(d, q, d[q] \o SubSeq(d[r], 1, 1), SubSeq(d[r], 1 + 1, Len(d[r])), DealtLeft(d, q, r, 1))
    BY <1>1, <1>6, DealingLeft
  <2> QED
    BY <2>1 DEF e
<1>8. Parted(d[r], 1, a, b)
  <2> HIDE DEF d
  <2>1. 1 \in 0 .. Len(d[r])
    BY <1>6
  <2> QED
    BY <1>4, <2>1, Parting
<1>9. a \in Seq(Key) /\ b \in Seq(Key) /\ Len(a) = 1 /\ Len(b) = m - 1
  BY <1>8 DEF Parted
<1> HIDE DEF d, a, b, m
<1>10. Len(c) = (kd - 1) + 1
  <2>1. Len(c) = Len(d[q]) + Len(a)
    BY <1>4, <1>9, ConcatProperties
  <2> QED
    BY <1>5, <1>9, <2>1
<1>11. Len(b) \in kd .. 2 * kd /\ Len(c) \in kd .. 2 * kd
  BY <1>1, <1>6, <1>9, <1>10
<1>12. Is(MvL(t, q, r, 1), t.c, t.r, e, t.x)
  BY <1>1, MvLParts DEF d
<1> HIDE DEF c, e
<1> QED
  BY <1>7, <1>11, <1>12, DealtDone DEF d

(* Page q alone is one key short of half full.                             *)
Short(d, q) ==
  /\ q \in DOMAIN d /\ Len(d[q]) = kd - 1
  /\ \A j \in DOMAIN d : j # q => Len(d[j]) \in kd .. 2 * kd

(* Where one page is a key short, every other is at least half full.       *)
LEMMA ShortAround ==
  ASSUME NEW d, NEW q, Short(d, q), q \in Int
  PROVE  FullAround(d, q) /\ \A l \in Int : l + 1 = q => FullAround(d, l)
BY DEF Short, FullAround

(* A page a key short and one that cannot lend fit on one.                 *)
LEMMA JoinedCount ==
  ASSUME NEW a, NEW b, a + b < 2 * kd, (a = kd - 1 /\ b \in kd .. 2 * kd) \/ (b = kd - 1 /\ a \in kd .. 2 * kd)
  PROVE  a + b \in kd .. 2 * kd
<1>1. kd \in Nat \ {0}
  BY BTreeAssumption DEF BTreeAssumption
<1> QED
  BY <1>1

(* underflow of data page q, child pi of page p.                           *)
LEMMA UnderflowDone ==
  ASSUME NEW t, NEW s, Sound(t, s), FullIndex(t.x, t.r), NEW p, NEW pi, NEW q, Under(t.x, p, pi, Data(q)),
         Len(t.x[p].sep) >= kx \/ t.r = Index(p), Short(t.d, q)
  PROVE  KeepDone(t, Underflow(t, p, q, pi))
<1> DEFINE x == t.x
           n == Len(t.d)
           w == Len(x[p].sep)
           l == q - 1
           r == q + 1
           u == Underflow(t, p, q, pi)
<1>1. t.d \in Seq(Seq(Key)) /\ Laid(n, t.r, x, s)
  BY DEF Sound
<1>2. p \in DOMAIN x /\ pi \in 0 .. w /\ x[p].ch[pi + 1] = Data(q)
  BY DEF Under
<1>3. w \in Nat /\ w >= 1
  BY <1>1, <1>2, PageType DEF FullIndex
<1>4. /\ pi \in Nat /\ q \in 1 .. n
      /\ pi > 0 => x[p].ch[pi] = Data(l) /\ l \in 1 .. n - 1
      /\ pi < w => x[p].ch[pi + 2] = Data(r) /\ q \in 1 .. n - 1
  BY <1>1, DataNeighbours
<1>5. n \in Nat /\ DOMAIN t.d = 1 .. n
  BY <1>1, Elements
<1>6. pi > 0 => x[p].ch[pi].no = l
  BY <1>4 DEF Data
<1>7. pi < w => x[p].ch[pi + 2].no = r
  BY <1>4 DEF Data
<1>8. FullAround(t.d, q) /\ (\A j \in Int : j + 1 = q => FullAround(t.d, j)) /\ l \in Int /\ l + 1 = q
  BY <1>4, ShortAround
<1>9. /\ Len(t.d[q]) = kd - 1
      /\ pi > 0 => Len(t.d[l]) \in kd .. 2 * kd
      /\ pi < w => Len(t.d[r]) \in kd .. 2 * kd
  <2>1. pi > 0 => l \in DOMAIN t.d /\ l # q
    BY <1>4, <1>5
  <2>2. pi < w => r \in DOMAIN t.d /\ r # q
    BY <1>4, <1>5
  <2> HIDE DEF l, r, w
  <2> QED
    BY <2>1, <2>2 DEF Short
<1>10. u = IF pi > 0 /\ CanLend(t, l, q) THEN MvR(t, l, q, 1)
           ELSE IF pi < w /\ CanLend(t, q, r) THEN MvL(t, q, r, 1)
           ELSE IF pi > 0 THEN Cat(t, p, l, q, pi - 1)
           ELSE Cat(t, p, q, r, pi)
  <2>1. CASE pi > 0 /\ pi < w
    <3>1. x[p].ch[pi].no = l /\ x[p].ch[pi + 2].no = r
      BY <1>6, <1>7, <2>1
    <3> HIDE DEF l, r
    <3> QED
      BY <3>1 DEF Underflow
  <2>2. CASE pi > 0 /\ ~ (pi < w)
    <3>1. x[p].ch[pi].no = l
      BY <1>6, <2>2
    <3> HIDE DEF l, r
    <3> QED
      BY <2>2, <3>1 DEF Underflow
  <2>3. CASE ~ (pi > 0)
    <3>1. pi < w
      BY <1>3, <1>4, <2>3
    <3>2. x[p].ch[pi + 2].no = r
      BY <1>7, <3>1
    <3> HIDE DEF l, r
    <3> QED
      BY <2>3, <3>2 DEF Underflow
  <2> QED
    BY <2>1, <2>2, <2>3
<1> HIDE DEF u
<1>11. ASSUME pi > 0, CanLend(t, l, q) PROVE KeepDone(t, MvR(t, l, q, 1))
  <2>1. l \in 1 .. n - 1 /\ q = l + 1 /\ FullAround(t.d, l)
    BY <1>4, <1>8, <1>11
  <2> HIDE DEF l
  <2> QED
    BY <1>9, <1>11, <2>1, LentFromLeft
<1>12. ASSUME pi < w, CanLend(t, q, r) PROVE KeepDone(t, MvL(t, q, r, 1))
  <2>1. q \in 1 .. n - 1 /\ r = q + 1
    BY <1>4, <1>12
  <2> HIDE DEF r
  <2> QED
    BY <1>8, <1>9, <1>12, <2>1, LentFromRight
<1>13. ASSUME pi > 0, ~ CanLend(t, l, q) PROVE KeepDone(t, Cat(t, p, l, q, pi - 1))
  <2>1. q = l + 1 /\ FullAround(t.d, l)
    BY <1>8
  <2>2. Pair(x, p, pi - 1, l)
    <3>1. pi - 1 \in 0 .. w - 1 /\ (pi - 1) + 1 = pi /\ (pi - 1) + 2 = pi + 1
      BY <1>2, <1>3, <1>13
    <3>2. x[p].ch[pi] = Data(l) /\ x[p].ch[pi + 1] = Data(l + 1)
      BY <1>2, <1>4, <1>13, <2>1
    <3> QED
      BY <1>2, <3>1, <3>2 DEF Pair
  <2>3. Len(t.d[l]) + Len(t.d[q]) \in kd .. 2 * kd
    <3> DEFINE a == Len(t.d[l])
               b == Len(t.d[q])
    <3>1. a \in kd .. 2 * kd /\ b = kd - 1 /\ kd \in Nat
      BY <1>9, <1>13, BTreeAssumption DEF BTreeAssumption
    <3>2. ~ (a + b >= 2 * kd)
      BY <1>13 DEF CanLend
    <3> HIDE DEF a, b
    <3>3. a + b < 2 * kd
      BY <3>1, <3>2
    <3>4. a + b \in kd .. 2 * kd
      BY <3>1, <3>3, JoinedCount
    <3> QED
      BY <3>4 DEF a, b
  <2> HIDE DEF l
  <2>4. KeepDone(t, Cat(t, p, l, l + 1, pi - 1))
    BY <2>1, <2>2, <2>3, CatDone
  <2> QED
    BY <2>1, <2>4
<1>14. ASSUME ~ (pi > 0), ~ CanLend(t, q, r) PROVE KeepDone(t, Cat(t, p, q, r, pi))
  <2>0. pi < w
    BY <1>3, <1>4, <1>14
  <2>2. Pair(x, p, pi, q)
    <3>1. pi \in 0 .. w - 1
      BY <1>2, <1>3, <2>0
    <3>2. x[p].ch[pi + 2] = Data(q + 1)
      BY <1>4, <2>0
    <3> QED
      BY <1>2, <3>1, <3>2 DEF Pair
  <2>3. Len(t.d[q]) + Len(t.d[q + 1]) \in kd .. 2 * kd
    <3> DEFINE a == Len(t.d[q])
               b == Len(t.d[r])
    <3>1. b \in kd .. 2 * kd /\ a = kd - 1 /\ kd \in Nat
      BY <1>9, <2>0, BTreeAssumption DEF BTreeAssumption
    <3>2. ~ (a + b >= 2 * kd)
      BY <1>14 DEF CanLend
    <3> HIDE DEF a, b
    <3>3. a + b < 2 * kd
      BY <3>1, <3>2
    <3>4. a + b \in kd .. 2 * kd
      BY <3>1, <3>3, JoinedCount
    <3> QED
      BY <3>4 DEF a, b
  <2> QED
    BY <1>8, <2>2, <2>3, CatDone
<1>15. ~ (pi > 0) => pi < w
  BY <1>3, <1>4
<1> HIDE DEF w, l, r
<1>16. KeepDone(t, u)
  BY <1>10, <1>11, <1>12, <1>13, <1>14, <1>15
<1> QED
  BY <1>16 DEF u

(* Key k is out of the tree, and the tree is full again or gone.           *)
DeleteDone(t, k, u) ==
  \/ \E S : Drops(t, k, u, S) /\ Full(u)
  \/ u = Empty /\ KeysOf(t.d) \ {k} = {}

(* How long the pages are after page q has given up a key.                 *)
CutLengths(d, q, e) ==
  /\ DOMAIN e = DOMAIN d /\ q \in DOMAIN d
  /\ Len(e[q]) = Len(d[q]) - 1 /\ Len(d[q]) \in Nat
  /\ \A j \in DOMAIN d : j # q => e[j] = d[j]

(* The lengths of the data pages when a key is taken off one.              *)
LEMMA Shorter ==
  ASSUME NEW d \in Seq(Seq(Key)), NEW q \in DOMAIN d, NEW i \in 0 .. Len(d[q]) - 1
  PROVE  CutLengths(d, q, KeyCut(d, q, i))
<1> DEFINE e == KeyCut(d, q, i)
           u == d[q]
           n == Len(u)
           v == RemoveAt(u, i + 1)
<1>1. u \in Seq(Key) /\ n = Len(u) /\ i \in 0 .. n - 1
  BY ElementOfSeq
<1>2. DOMAIN e = DOMAIN d /\ e[q] = v /\ \A j \in DOMAIN d : j # q => e[j] = d[j]
  BY DEF KeyCut
<1>3. n \in Nat
  BY <1>1, Elements
<1>4. Len(v) = n - 1
  <2> HIDE DEF u, n, v
  <2>1. TakenOut(Key, u, n, i, RemoveAt(u, i + 1))
    BY <1>1, <1>3, RemovedParts
  <2> QED
    BY <2>1 DEF TakenOut, v
<1> HIDE DEF e, v
<1>5. CutLengths(d, q, e)
  BY <1>2, <1>3, <1>4 DEF CutLengths
<1> QED
  BY <1>5 DEF e

(* What leaves the keys alone after the key is taken off has done the      *)
(* Delete.                                                                 *)
LEMMA DropsAfter ==
  ASSUME NEW t, NEW k, NEW u, NEW s, Drops(t, k, u, s), NEW v, KeepDone(u, v)
  PROVE  DeleteDone(t, k, v)
<1>1. PICK S : Keeps(u, v, S) /\ Full(v)
  BY DEF KeepDone
<1>2. Drops(t, k, v, S)
  BY <1>1 DEF Drops, Keeps
<1> QED
  BY <1>1, <1>2 DEF DeleteDone

(* The page that loses the key can spare it.                               *)
LEMMA SpareDone ==
  ASSUME NEW t, NEW s, Sound(t, s), Full(t), NEW q \in DOMAIN t.d, NEW i \in 0 .. Len(t.d[q]) - 1,
         NEW u, u = Extract(t, q, i), Len(u.d[q]) >= kd \/ (t.r = Data(q) /\ Len(u.d[q]) >= 1)
  PROVE  DeleteDone(t, t.d[q][i + 1], u)
<1> DEFINE e == KeyCut(t.d, q, i)
           d == t.d
           r == t.r
<1>1. d \in Seq(Seq(Key)) /\ Fields(t)
  BY DEF Sound
<1>2. Is(u, t.c - 1, r, e, t.x)
  BY <1>1, ExtractParts
<1>3. CutLengths(d, q, e)
  BY <1>1, Shorter
<1>4. Drops(t, t.d[q][i + 1], u, s)
  BY SoundExtract
<1>5. kd \in Nat \ {0}
  BY BTreeAssumption DEF BTreeAssumption
<1> HIDE DEF e
<1>6. Len(e[q]) >= kd \/ (r = Data(q) /\ Len(e[q]) >= 1)
  BY <1>2 DEF Is
<1>7. FullData(e, r)
  <2>1. ASSUME NEW j \in DOMAIN e PROVE Len(e[j]) \in 1 .. 2 * kd /\ (Len(e[j]) >= kd \/ r = Data(j))
    <3>1. CASE j = q
      <4> DEFINE w == Len(d[q])
                 v == Len(e[q])
      <4>1. w \in 1 .. 2 * kd /\ v = w - 1 /\ (v >= kd \/ (r = Data(q) /\ v >= 1))
        BY <1>3, <1>6 DEF Full, FullData, CutLengths
      <4> HIDE DEF w, v
      <4>2. v \in 1 .. 2 * kd /\ (v >= kd \/ r = Data(q))
        BY <1>5, <4>1
      <4> QED
        BY <3>1, <4>2 DEF v
    <3>2. CASE j # q
      BY <1>3, <3>2 DEF Full, FullData, CutLengths
    <3> QED
      BY <3>1, <3>2
  <2> QED
    BY <2>1 DEF FullData
<1>8. Full(u)
  BY <1>2, <1>7 DEF Full, Is
<1> QED
  BY <1>4, <1>8 DEF DeleteDone

(* The page that loses the key is not the root and cannot spare it.        *)
LEMMA ShortDone ==
  ASSUME NEW t, NEW s, Sound(t, s), Full(t), NEW p, NEW pi, NEW q, Under(t.x, p, pi, Data(q)),
         Len(t.x[p].sep) >= kx \/ t.r = Index(p), q \in DOMAIN t.d,
         NEW i \in 0 .. Len(t.d[q]) - 1, NEW u, u = Extract(t, q, i), ~ (Len(u.d[q]) >= kd)
  PROVE  DeleteDone(t, t.d[q][i + 1], Underflow(u, p, q, pi))
<1> DEFINE e == KeyCut(t.d, q, i)
           d == t.d
           r == t.r
<1>1. d \in Seq(Seq(Key)) /\ Fields(t) /\ Laid(Len(d), r, t.x, s)
  BY DEF Sound
<1>2. Is(u, t.c - 1, r, e, t.x)
  BY <1>1, ExtractParts
<1>3. CutLengths(d, q, e)
  BY <1>1, Shorter
<1>4. Drops(t, t.d[q][i + 1], u, s)
  BY SoundExtract
<1>5. kd \in Nat \ {0}
  BY BTreeAssumption DEF BTreeAssumption
<1>6. r.at = "x"
  <2>1. p \in DOMAIN t.x
    BY DEF Under
  <2> QED
    BY <1>1, <2>1, RootIndex
<1>7. \A j \in DOMAIN d : Len(d[j]) \in kd .. 2 * kd
  <2>1. \A j : r # Data(j)
    BY <1>6 DEF Data
  <2>2. \A j \in DOMAIN d : Len(d[j]) \in 1 .. 2 * kd /\ Len(d[j]) >= kd
    BY <2>1 DEF Full, FullData
  <2>3. \A h \in 1 .. 2 * kd : h >= kd => h \in kd .. 2 * kd
    BY <1>5
  <2> QED
    BY <2>2, <2>3
<1> HIDE DEF e
<1>8. Short(e, q)
  <2>1. Len(e[q]) = kd - 1
    <3> DEFINE w == Len(d[q])
               v == Len(e[q])
    <3>1. w \in kd .. 2 * kd /\ v = w - 1
      BY <1>3, <1>7 DEF CutLengths
    <3>2. ~ (v >= kd)
      BY <1>2 DEF Is
    <3> HIDE DEF w, v
    <3>3. v = kd - 1
      BY <1>5, <3>1, <3>2
    <3> QED
      BY <3>3 DEF v
  <2> QED
    BY <1>3, <1>7, <2>1 DEF Short, CutLengths
<1>9. Sound(u, s) /\ u.x = t.x /\ u.r = r /\ u.d = e
  BY <1>2, <1>4 DEF Drops, Is
<1>10. FullIndex(u.x, u.r) /\ Under(u.x, p, pi, Data(q)) /\ (Len(u.x[p].sep) >= kx \/ u.r = Index(p))
  BY <1>9 DEF Full
<1>11. KeepDone(u, Underflow(u, p, q, pi))
  BY <1>8, <1>9, <1>10, UnderflowDone
<1> QED
  BY <1>4, <1>11, DropsAfter

(* The only page loses the key, perhaps its last.                          *)
LEMMA LastDone ==
  ASSUME NEW t, NEW s, Sound(t, s), Full(t), NEW q, t.r = Data(q), q \in DOMAIN t.d,
         NEW i \in 0 .. Len(t.d[q]) - 1, NEW u, u = Extract(t, q, i)
  PROVE  DeleteDone(t, t.d[q][i + 1], IF u.c = 0 THEN Empty ELSE u)
<1> DEFINE k == t.d[q][i + 1]
           e == KeyCut(t.d, q, i)
           n == Len(t.d)
<1>1. t.d \in Seq(Seq(Key)) /\ Fields(t) /\ Laid(n, Data(q), t.x, s)
  BY DEF Sound
<1>2. n = 1 /\ q = 1
  <2> DEFINE x == t.x
  <2>1. Laid(n, Data(q), x, s)
    BY <1>1
  <2> HIDE DEF n, x
  <2> QED
    BY <2>1, RootData
<1>3. Drops(t, k, u, s)
  BY SoundExtract
<1>4. Sound(u, s) /\ KeysOf(u.d) = KeysOf(t.d) \ {k}
  BY <1>3 DEF Drops
<1>5. IsFiniteSet(KeysOf(u.d)) /\ u.c = Cardinality(KeysOf(u.d))
  BY <1>4 DEF Sound
<1>6. u.d = e
  <2>1. Is(u, t.c - 1, t.r, e, t.x)
    BY <1>1, ExtractParts
  <2> QED
    BY <2>1 DEF Is
<1> HIDE DEF k
<1>7. CASE u.c = 0
  <2> DEFINE K == KeysOf(u.d)
  <2>1. IsFiniteSet(K) /\ Cardinality(K) = 0
    BY <1>5, <1>7
  <2> HIDE DEF K
  <2>2. K = {}
    BY <2>1, FS_EmptySet
  <2>3. KeysOf(t.d) \ {k} = {}
    BY <1>4, <2>2 DEF K
  <2>4. DeleteDone(t, k, Empty)
    BY <2>3 DEF DeleteDone
  <2> QED
    BY <1>7, <2>4 DEF k
<1>8. CASE u.c # 0
  <2>1. CutLengths(t.d, q, e)
    BY <1>1, Shorter
  <2>2. DOMAIN t.d = 1 .. n
    BY <1>1, Elements
  <2> HIDE DEF e, n
  <2>3. DOMAIN e = {q}
    BY <1>2, <2>1, <2>2 DEF CutLengths
  <2>4. Len(e[q]) >= 1
    <3> SUFFICES ASSUME ~ (Len(e[q]) >= 1) PROVE FALSE
      OBVIOUS
    <3>1. Len(e[q]) \in Nat /\ e[q] \in Seq(Key)
      <4>1. e \in Seq(Seq(Key))
        BY <1>4, <1>6 DEF Sound
      <4>2. e[q] \in Seq(Key)
        <5>1. q \in DOMAIN e
          BY <2>3
        <5>2. q \in 1 .. Len(e)
          BY <4>1, <5>1, Elements
        <5> QED
          BY <4>1, <5>2, ElementOfSeq
      <4> QED
        BY <4>2, Elements
    <3>2. Len(e[q]) = 0
      BY <3>1
    <3>3. ToSet(e[q]) = {}
      <4>1. DOMAIN e[q] = 1 .. 0
        BY <3>1, <3>2, Elements
      <4>2. \A a : a \notin ToSet(e[q])
        BY <4>1, AtPlace
      <4> QED
        BY <4>2
    <3>4. KeysOf(e) = {}
      BY <2>3, <3>3 DEF KeysOf
    <3>5. u.c = 0
      BY <1>5, <1>6, <3>4, FS_EmptySet
    <3> QED
      BY <1>8, <3>5
  <2>5. DeleteDone(t, t.d[q][i + 1], u)
    BY <1>6, <2>4, SpareDone
  <2> QED
    BY <1>8, <2>5
<1> QED
  BY <1>7, <1>8

-----------------------------------------------------------------------------
(* Calls under way.                                                        *)

(* A call under way, and how far it has come.                              *)
Asked(c) ==
  /\ DOMAIN c = {"op", "key", "q", "p", "pi"}
  /\ c.op \in {"Set", "Delete"} /\ c.key \in Key

(* A call is at the root, or under a page that leaves it room: to split a  *)
(* child below it, or to join two.                                         *)
Led(t, c) ==
  IF c.p = 0 THEN c.pi = -1 /\ c.q = t.r
  ELSE /\ Under(t.x, c.p, c.pi, c.q)
       /\ c.op = "Set" => Len(t.x[c.p].sep) <= 2 * kx
       /\ c.op = "Delete" => Len(t.x[c.p].sep) >= kx \/ t.r = Index(c.p)

(* A call is at a page its key belongs under.                              *)
Way(t, s, c) == Led(t, c) /\ Bracket(t.d, s, c.q, c.key)

(* Tree t is as it should be, and so is the call under way.                *)
Holds(t, s, c) == Sound(t, s) /\ Full(t) /\ (c = Idle \/ (Asked(c) /\ Way(t, s, c)))

(* The inductive invariant, of a tree and a call.                          *)
Good(t, c) ==
  \/ t = Empty /\ (c = Idle \/ (Asked(c) /\ c.q = Nil))
  \/ \E s : Holds(t, s, c)

(* What the caller of c sees of it.                                        *)
Request(c) == IF c = Idle THEN Idle ELSE [op |-> c.op, key |-> c.key]

(* A step of the tree that its caller does not see.                        *)
Unseen(t, c, u, d) == Good(u, d) /\ KeysOf(u.d) = KeysOf(t.d) /\ Request(d) = Request(c)

(* A call that was asked for is under way.                                 *)
LEMMA AskedBusy ==
  ASSUME NEW c, Asked(c)
  PROVE  c # Idle /\ Request(c) = [op |-> c.op, key |-> c.key]
<1>1. c.op # "none"
  BY DEF Asked
<1>2. Idle.op = "none"
  BY DEF Idle
<1> QED
  BY <1>1, <1>2 DEF Request

(* Index page p, from which the call goes on to q, child pi.               *)
Roomy(c, u, p) ==
  /\ c.op = "Set" => Len(u.x[p].sep) <= 2 * kx
  /\ c.op = "Delete" => Len(u.x[p].sep) >= kx \/ u.r = Index(p)
GoesTo(c, q, p, pi, d) == d = [c EXCEPT !.q = q, !.p = p, !.pi = pi]

(* A call that goes on to the right child, in a tree with the same keys,   *)
(* goes on unseen.                                                         *)
LEMMA WentOn ==
  ASSUME NEW t, NEW c, Asked(c), NEW u, NEW S, Sound(u, S), Full(u), KeysOf(u.d) = KeysOf(t.d),
         NEW q, NEW p, NEW pi, Under(u.x, p, pi, q), Bracket(u.d, S, q, c.key),
         Roomy(c, u, p), NEW d, GoesTo(c, q, p, pi, d)
  PROVE  Unseen(t, c, u, d)
<1>1. /\ DOMAIN d = DOMAIN c /\ d.op = c.op /\ d.key = c.key /\ d.q = q /\ d.p = p /\ d.pi = pi
  BY DEF Asked, GoesTo
<1>2. Asked(d)
  BY <1>1 DEF Asked
<1>3. p # 0
  <2>1. p \in DOMAIN u.x
    BY DEF Under
  <2>2. DOMAIN u.x \subseteq Nat \ {0}
    BY DEF Sound, Laid, Typed
  <2> QED
    BY <2>1, <2>2
<1>4. Led(u, d)
  BY <1>1, <1>3 DEF Led, Roomy
<1>5. Holds(u, S, d)
  BY <1>1, <1>2, <1>4 DEF Holds, Way
<1>6. Request(d) = Request(c)
  BY <1>1, <1>2, AskedBusy
<1> QED
  BY <1>5, <1>6 DEF Unseen, Good

(* Where the search goes on.                                               *)
LEMMA ChildFound ==
  ASSUME NEW t, NEW s, Sound(t, s), NEW m \in DOMAIN t.x, NEW k \in Key, Firsts(t.d),
         Bracket(t.d, s, Index(m), k), NEW f, Located(t, Index(m), k, f)
  PROVE  /\ ~ f.ok => Bracket(t.d, s, t.x[m].ch[f.i + 1], k)
         /\ f.ok => Bracket(t.d, s, t.x[m].ch[(f.i + 1) + 1], k)
<1> DEFINE x == t.x
           d == t.d
           n == Len(d)
           w == Len(x[m].sep)
           i == f.i
           o == i + 1
           sep == x[m].sep
           q == Index(m)
<1>1. Laid(n, t.r, x, s)
  BY DEF Sound
<1>2. w \in Nat
  BY <1>1, PageType
<1>3. q.at = "x" /\ q.no = m /\ Count(t, q) = w /\ \A h : KeyAt(t, q, h) = d[sep[h + 1]][1]
  BY DEF Index, Count, KeyAt
<1>4. k \in Int
  BY KeyNumber
<1> HIDE DEF q
<1>5. /\ i \in 0 .. w /\ f.ok \in BOOLEAN
      /\ f.ok => i < w /\ KeyAt(t, q, i) = k
      /\ ~ f.ok => (i < w => k < KeyAt(t, q, i))
      /\ \A h \in 0 .. i - 1 : KeyAt(t, q, h) < k
      /\ \A h \in i + 1 .. w - 1 : k < KeyAt(t, q, h)
  BY <1>3, Zenon DEF Located, q
<1> HIDE DEF w, i, x, d, sep, n
<1>6. ASSUME ~ f.ok PROVE Bracket(d, s, x[m].ch[i + 1], k)
  <2>1. i >= 1 => d[sep[i]][1] <= k
    <3> SUFFICES ASSUME i >= 1 PROVE d[sep[i]][1] <= k
      OBVIOUS
    <3> DEFINE h == i - 1
    <3>1. h \in 0 .. i - 1 /\ h + 1 = i
      BY <1>2, <1>5
    <3> HIDE DEF h
    <3>2. d[sep[i]][1] < k
      BY <1>3, <1>5, <3>1
    <3>3. KeyAt(t, q, h) \in Int
      <4>1. sep[i] \in DOMAIN d
        <5>1. i \in 1 .. w
          BY <1>2, <1>5, <3>1
        <5>2. sep[i] \in 1 .. n /\ d \in Seq(Seq(Key))
          BY <1>1, <5>1, PageType DEF Sound, d, sep, x, w
        <5> QED
          BY <5>2, Elements DEF n
      <4> QED
        BY <1>3, <3>1, <4>1 DEF Firsts, d
    <3> DEFINE a == d[sep[i]][1]
    <3>4. a \in Int /\ a < k
      BY <1>3, <3>1, <3>2, <3>3
    <3> HIDE DEF a
    <3>5. a <= k
      BY <1>4, <3>4
    <3> QED
      BY <3>5 DEF a
  <2>2. i < w => k < d[sep[i + 1]][1]
    BY <1>3, <1>5, <1>6
  <2> QED
    BY <1>1, <1>5, <2>1, <2>2, ChildBracket DEF q, d, x, n, sep, w
<1>7. ASSUME f.ok PROVE Bracket(d, s, x[m].ch[o + 1], k)
  <2>1. o \in 0 .. w /\ o = i + 1
    BY <1>2, <1>5, <1>7
  <2>2. d[sep[o]][1] = k
    BY <1>3, <1>5, <1>7
  <2>3. d[sep[o]][1] <= k
    BY <1>4, <2>2
  <2>4. o < w => k < d[sep[o + 1]][1]
    <3>1. o < w => o \in i + 1 .. w - 1
      BY <1>2, <2>1
    <3> HIDE DEF o
    <3> QED
      BY <1>3, <1>5, <3>1
  <2> HIDE DEF o
  <2> QED
    BY <1>1, <2>1, <2>3, <2>4, ChildBracket DEF q, d, x, n, sep, w
<1> QED
  BY <1>6, <1>7 DEF i, d, x

(* The call is at a page of the tree, and has looked for its key there.    *)
Here(t, s, c) ==
  /\ Sound(t, s) /\ Full(t) /\ Asked(c) /\ Way(t, s, c) /\ Firsts(t.d)
  /\ c.q \in PagesOf(Len(t.d), t.x)
  /\ Located(t, c.q, c.key, Find(t, c.q, c.key))

(* A call under way in a tree that is not empty is at a page of it, and    *)
(* has found there what Find says.                                         *)
LEMMA Arrived ==
  ASSUME NEW t, NEW c, Good(t, c), c # Idle, c.q # Nil
  PROVE  \E s : Here(t, s, c)
<1>1. PICK s : Holds(t, s, c)
  BY DEF Good
<1>2. Sound(t, s) /\ Full(t) /\ Asked(c) /\ Way(t, s, c) /\ c.key \in Key
  BY <1>1 DEF Holds, Asked
<1>3. Firsts(t.d)
  BY <1>2, SoundFirsts DEF Full
<1> DEFINE n == Len(t.d)
<1>4. Laid(n, t.r, t.x, s)
  BY <1>2 DEF Sound
<1>5. c.q \in PagesOf(n, t.x)
  <2> HIDE DEF n
  <2>1. CASE c.p = 0
    <3>1. c.q = t.r
      BY <1>2, <2>1 DEF Way, Led
    <3> QED
      BY <1>4, <3>1 DEF Laid, Typed
  <2>2. CASE c.p # 0
    <3> DEFINE w == Len(t.x[c.p].sep)
               o == c.pi + 1
    <3>1. c.p \in DOMAIN t.x /\ c.pi \in 0 .. w /\ t.x[c.p].ch[o] = c.q
      BY <1>2, <2>2 DEF Way, Led, Under
    <3>2. w \in Nat /\ \A i \in 1 .. w + 1 : t.x[c.p].ch[i] \in PagesOf(n, t.x)
      BY <1>4, <3>1, PageType
    <3> HIDE DEF w
    <3>3. o \in 1 .. w + 1
      BY <3>1, <3>2
    <3> QED
      BY <3>1, <3>2, <3>3
  <2> QED
    BY <2>1, <2>2
<1>6. Located(t, c.q, c.key, Find(t, c.q, c.key))
  BY <1>2, <1>5, FindPlace DEF Full
<1> QED
  BY <1>2, <1>3, <1>5, <1>6 DEF Here

(* A page is not nil.                                                      *)
LEMMA NotNil ==
  ASSUME NEW q, q.at = "x" \/ q.at = "d"
  PROVE  q # Nil
<1>1. Nil.at = "nil"
  BY DEF Nil
<1> QED
  BY <1>1

(* The facts of an index page on the way.                                  *)
HereIndex(t, s, c, m, f) ==
  /\ m \in DOMAIN t.x /\ c.q = Index(m) /\ c.q.no = m /\ Count(t, c.q) = Len(t.x[m].sep)
  /\ Len(t.x[m].sep) \in Nat /\ Len(t.x[m].sep) <= 2 * kx + 1
  /\ f.i \in 0 .. Len(t.x[m].sep) /\ f.ok \in BOOLEAN /\ (f.ok => f.i + 1 \in 0 .. Len(t.x[m].sep))
  /\ ~ f.ok => Bracket(t.d, s, t.x[m].ch[f.i + 1], c.key)
  /\ f.ok => Bracket(t.d, s, t.x[m].ch[(f.i + 1) + 1], c.key)
  /\ Bracket(t.d, s, Index(m), c.key)

(* What a call knows at an index page.                                     *)
LEMMA AtIndexPage ==
  ASSUME NEW t, NEW s, NEW c, Here(t, s, c), c.q.at = "x"
  PROVE  HereIndex(t, s, c, c.q.no, Find(t, c.q, c.key))
<1> DEFINE f == Find(t, c.q, c.key)
           m == c.q.no
           w == Len(t.x[m].sep)
           i == f.i
<1>1. Sound(t, s) /\ FullIndex(t.x, t.r) /\ Firsts(t.d) /\ c.key \in Key /\ Laid(Len(t.d), t.r, t.x, s)
      /\ Bracket(t.d, s, c.q, c.key) /\ Located(t, c.q, c.key, f)
  BY DEF Here, Full, Asked, Sound, Way
<1>2. m \in DOMAIN t.x /\ c.q = Index(m)
  BY PointerKinds DEF Here
<1>3. Count(t, c.q) = w
  BY DEF Count
<1>4. w \in Nat
  BY <1>1, <1>2, PageType
<1>5. w <= 2 * kx + 1
  <2>1. w \in 1 .. 2 * kx + 1
    BY <1>1, <1>2 DEF FullIndex
  <2> HIDE DEF w
  <2> QED
    BY <2>1
<1> HIDE DEF f, m
<1>6. i \in 0 .. w /\ f.ok \in BOOLEAN /\ (f.ok => i < w)
  <2> HIDE DEF w
  <2> QED
    BY <1>1, <1>3, Zenon DEF Located
<1>7. f.ok => i + 1 \in 0 .. w
  <2> HIDE DEF w, i
  <2> QED
    BY <1>4, <1>6
<1>8. /\ ~ f.ok => Bracket(t.d, s, t.x[m].ch[i + 1], c.key)
      /\ f.ok => Bracket(t.d, s, t.x[m].ch[(i + 1) + 1], c.key)
  BY <1>1, <1>2, ChildFound
<1>9. HereIndex(t, s, c, m, f)
  <2>1. Bracket(t.d, s, Index(m), c.key) /\ c.q.no = m
    BY <1>1, <1>2 DEF m
  <2> QED
    BY <1>2, <1>3, <1>4, <1>5, <1>6, <1>7, <1>8, <2>1, Zenon DEF HereIndex
<1> QED
  BY <1>9 DEF f, m

(* Set goes on below an index page that has room for a separator.          *)
LEMMA SetDescends ==
  ASSUME NEW t, NEW c, Good(t, c), c # Idle, c.op = "Set", c.q.at = "x",
         NEW f, f = Find(t, c.q, c.key), ~ f.ok, Count(t, c.q) <= 2 * kx,
         NEW d, d = [c EXCEPT !.q = t.x[c.q.no].ch[f.i + 1], !.p = c.q.no, !.pi = f.i]
  PROVE  Unseen(t, c, t, d)
<1> DEFINE m == c.q.no
           b == t.x[m].ch[f.i + 1]
<1>0. c.q # Nil
  BY NotNil
<1>1. PICK s : Here(t, s, c)
  BY <1>0, Arrived
<1>2. HereIndex(t, s, c, m, f)
  BY <1>1, AtIndexPage
<1>3. Sound(t, s) /\ Full(t) /\ Asked(c) /\ c.op # "Delete"
  BY <1>1 DEF Here
<1>4. Under(t.x, m, f.i, b) /\ Bracket(t.d, s, b, c.key) /\ Len(t.x[m].sep) <= 2 * kx
  BY <1>2 DEF HereIndex, Under
<1>5. GoesTo(c, b, m, f.i, d)
  BY DEF GoesTo
<1>6. Roomy(c, t, m)
  BY <1>3, <1>4 DEF Roomy
<1> DEFINE g == f.i
<1> HIDE DEF b, m, g
<1>7. Unseen(t, c, t, d)
  BY <1>3, <1>4, <1>5, <1>6, WentOn DEF g
<1> QED
  BY <1>7

(* The call goes on at a child that a new tree has where u says.           *)
LEMMA WentOnAt ==
  ASSUME NEW t, NEW s, NEW c, Asked(c), NEW b, Bracket(t.d, s, b, c.key), NEW u, NEW S,
         Reached(t, s, b, u, S),
         Roomy(c, u.t, u.x), NEW d, d = [c EXCEPT !.q = u.t.x[u.x].ch[u.i + 1], !.p = u.x, !.pi = u.i]
  PROVE  Unseen(t, c, u.t, d)
<1> DEFINE v == u.t
           q == v.x[u.x].ch[u.i + 1]
<1>1. /\ Sound(v, S) /\ KeysOf(v.d) = KeysOf(t.d) /\ Full(v) /\ v.d = t.d
      /\ Under(v.x, u.x, u.i, b) /\ From(S, b) = From(s, b) /\ To(S, b) = To(s, b)
  BY DEF Reached, Keeps, Carried
<1>2. q = b
  BY <1>1 DEF Under
<1>3. Bracket(v.d, S, b, c.key)
  BY <1>1 DEF Bracket
<1>4. d = [c EXCEPT !.q = b, !.p = u.x, !.pi = u.i]
  BY <1>2
<1> DEFINE p == u.x
           g == u.i
<1>5. /\ Under(v.x, p, g, b)
      /\ Roomy(c, v, p) /\ GoesTo(c, b, p, g, d)
  BY <1>1, <1>4 DEF GoesTo
<1> HIDE DEF v, p, g
<1>6. Unseen(t, c, v, d)
  BY <1>1, <1>3, <1>5, WentOn
<1> QED
  BY <1>6 DEF v

(* The index page is split first.                                          *)
LEMMA SetSplits ==
  ASSUME NEW t, NEW c, Good(t, c), c # Idle, c.op = "Set", c.q.at = "x",
         NEW f, f = Find(t, c.q, c.key), ~ f.ok, Count(t, c.q) > 2 * kx,
         NEW u, u = SplitX(t, c.p, c.q.no, c.pi, f.i),
         NEW d, d = [c EXCEPT !.q = u.t.x[u.x].ch[u.i + 1], !.p = u.x, !.pi = u.i]
  PROVE  Unseen(t, c, u.t, d)
<1> DEFINE m == c.q.no
           b == t.x[m].ch[f.i + 1]
<1>0. c.q # Nil
  BY NotNil
<1>1. PICK s : Here(t, s, c)
  BY <1>0, Arrived
<1>2. HereIndex(t, s, c, m, f)
  BY <1>1, AtIndexPage
<1>3. Sound(t, s) /\ Full(t) /\ Asked(c) /\ c.op # "Delete" /\ Way(t, s, c)
  BY <1>1 DEF Here
<1>4. /\ m \in DOMAIN t.x /\ c.q = Index(m) /\ Len(t.x[m].sep) > 2 * kx /\ f.i \in 0 .. Len(t.x[m].sep)
      /\ Bracket(t.d, s, b, c.key)
  BY <1>2 DEF HereIndex
<1> HIDE DEF m
<1>5. SetOn(t, s, b, SplitX(t, c.p, m, c.pi, f.i))
  <2>1. CASE c.p = 0
    <3>1. c.pi = -1 /\ t.r = Index(m)
      BY <1>3, <1>4, <2>1 DEF Way, Led
    <3>2. SetOn(t, s, t.x[m].ch[f.i + 1], SplitX(t, c.p, m, -1, f.i))
      BY <1>3, <1>4, <3>1, SplitXRootOn
    <3> QED
      BY <3>1, <3>2
  <2>2. CASE c.p # 0
    <3>1. Under(t.x, c.p, c.pi, Index(m)) /\ Len(t.x[c.p].sep) <= 2 * kx
      BY <1>3, <1>4, <2>2 DEF Way, Led
    <3> QED
      BY <1>3, <1>4, <3>1, SplitXOn
  <2> QED
    BY <2>1, <2>2
<1>6. SetOn(t, s, b, u)
  BY <1>5 DEF m
<1>7. PICK S : Reached(t, s, b, u, S) /\ Len(u.t.x[u.x].sep) <= 2 * kx
  BY <1>6 DEF SetOn
<1>8. Roomy(c, u.t, u.x)
  BY <1>3, <1>7 DEF Roomy
<1> HIDE DEF b
<1> QED
  BY <1>3, <1>4, <1>7, <1>8, WentOnAt

(* Delete goes on below an index page that need not be filled first.       *)
LEMMA DeleteStays ==
  ASSUME NEW t, NEW s, NEW c, Here(t, s, c), c.op = "Delete", NEW m, NEW f, HereIndex(t, s, c, m, f),
         NEW h \in 0 .. Len(t.x[m].sep), NEW b, b = t.x[m].ch[h + 1], Bracket(t.d, s, b, c.key),
         ~ (Count(t, c.q) < kx /\ c.q # t.r), NEW d, d = [c EXCEPT !.q = b, !.p = m, !.pi = h]
  PROVE  Unseen(t, c, t, d)
<1>1. Sound(t, s) /\ Full(t) /\ Asked(c) /\ c.op # "Set"
  BY DEF Here
<1>2. Under(t.x, m, h, b)
  BY DEF HereIndex, Under
<1>3. Len(t.x[m].sep) >= kx \/ t.r = Index(m)
  <2> DEFINE w == Len(t.x[m].sep)
  <2>1. w \in Nat /\ ~ (w < kx /\ Index(m) # t.r)
    BY DEF HereIndex
  <2>2. kx \in Nat
    BY BTreeAssumption DEF BTreeAssumption
  <2> HIDE DEF w
  <2>3. w >= kx \/ t.r = Index(m)
    BY <2>1, <2>2
  <2> QED
    BY <2>3 DEF w
<1>4. Roomy(c, t, m)
  BY <1>1, <1>3 DEF Roomy
<1>5. GoesTo(c, b, m, h, d)
  BY DEF GoesTo
<1>6. Unseen(t, c, t, d)
  BY <1>1, <1>2, <1>4, <1>5, WentOn
<1> QED
  BY <1>6

(* Delete goes on below an index page that it fills first.                 *)
LEMMA DeleteFills ==
  ASSUME NEW t, NEW s, NEW c, Here(t, s, c), c.op = "Delete", NEW m, NEW f, HereIndex(t, s, c, m, f),
         NEW h \in 0 .. Len(t.x[m].sep), NEW b, b = t.x[m].ch[h + 1], Bracket(t.d, s, b, c.key),
         Count(t, c.q) < kx, c.q # t.r, NEW u, u = UnderflowX(t, c.p, m, c.pi, h),
         NEW d, d = [c EXCEPT !.q = u.t.x[u.x].ch[u.i + 1], !.p = u.x, !.pi = u.i]
  PROVE  Unseen(t, c, u.t, d)
<1>1. Sound(t, s) /\ Full(t) /\ Asked(c) /\ c.op # "Set" /\ Led(t, c)
  BY DEF Here, Way
<1>2. m \in DOMAIN t.x /\ c.q = Index(m) /\ Len(t.x[m].sep) < kx
  BY DEF HereIndex
<1>3. Under(t.x, c.p, c.pi, Index(m)) /\ (Len(t.x[c.p].sep) >= kx \/ t.r = Index(c.p))
  BY <1>1, <1>2 DEF Led
<1>4. DeleteOn(t, s, b, u)
  BY <1>1, <1>2, <1>3, UnderflowXOn
<1>5. PICK S : Reached(t, s, b, u, S) /\ (Len(u.t.x[u.x].sep) >= kx \/ u.t.r = Index(u.x))
  BY <1>4 DEF DeleteOn
<1>6. Roomy(c, u.t, u.x)
  BY <1>1, <1>5 DEF Roomy
<1> QED
  BY <1>1, <1>5, <1>6, WentOnAt

(* The page on the left, if any, has a number of separators.               *)
LEMMA LeftNumber ==
  ASSUME NEW t, NEW s, Sound(t, s), NEW p, NEW pi, NEW m \in DOMAIN t.x, Under(t.x, p, pi, Index(m))
  PROVE  NumberedLeft(t, p, pi)
<1> DEFINE l == t.x[p].ch[pi].no
           n == Len(t.d)
           x == t.x
<1>1. Laid(n, t.r, x, s)
  BY DEF Sound
<1> HIDE DEF n
<1> SUFFICES ASSUME pi > 0 PROVE Len(x[l].sep) \in Nat
  BY DEF NumberedLeft
<1>2. Siblings(x, p, pi - 1, l, m)
  BY <1>1, IndexNeighbours
<1> HIDE DEF l, x
<1>3. l \in DOMAIN x
  BY <1>1, <1>2, SiblingFacts DEF SideBySide
<1> QED
  BY <1>1, <1>3, PageType

(* Where Delete goes on from index page m, which it fills first if it must: *)
(* right of a separator that is its key.                                   *)
MustFill(t, c) == Count(t, c.q) < kx /\ c.q # t.r
Filled(t, c, m, f, u) ==
  u = IF MustFill(t, c) THEN UnderflowX(t, c.p, m, c.pi, f.i) ELSE [t |-> t, x |-> m, i |-> f.i]
Onward(c, f, u, d) ==
  d = IF f.ok THEN [c EXCEPT !.q = u.t.x[u.x].ch[(u.i + 1) + 1], !.p = u.x, !.pi = u.i + 1]
      ELSE [c EXCEPT !.q = u.t.x[u.x].ch[u.i + 1], !.p = u.x, !.pi = u.i]

(* Delete goes on to the child its key belongs to, in a tree that is full  *)
(* enough for the next step.                                               *)
LEMMA DeleteDescends ==
  ASSUME NEW t, NEW c, Good(t, c), c # Idle, c.op = "Delete", c.q.at = "x",
         NEW m, m = c.q.no, NEW f, f = Find(t, c.q, c.key),
         NEW u, Filled(t, c, m, f, u), NEW d, Onward(c, f, u, d)
  PROVE  Unseen(t, c, u.t, d)
<1>0. c.q # Nil
  BY NotNil
<1>1. PICK s : Here(t, s, c)
  BY <1>0, Arrived
<1>2. HereIndex(t, s, c, m, f)
  BY <1>1, AtIndexPage
<1> DEFINE i == f.i
           w == Len(t.x[m].sep)
<1>3. w \in Nat /\ i \in 0 .. w /\ f.ok \in BOOLEAN /\ (f.ok => i + 1 \in 0 .. w)
      /\ (~ f.ok => Bracket(t.d, s, t.x[m].ch[i + 1], c.key))
      /\ (f.ok => Bracket(t.d, s, t.x[m].ch[(i + 1) + 1], c.key))
  BY <1>2 DEF HereIndex
<1> HIDE DEF i, w
<1>4. i \in Nat
  BY <1>3
<1>5. CASE ~ MustFill(t, c)
  <2>1. u.t = t /\ u.x = m /\ u.i = i
    BY <1>5 DEF Filled, i
  <2>2. ~ (Count(t, c.q) < kx /\ c.q # t.r)
    BY <1>5 DEF MustFill
  <2>3. CASE f.ok
    <3>1. d = [c EXCEPT !.q = t.x[m].ch[(i + 1) + 1], !.p = m, !.pi = i + 1]
      BY <2>1, <2>3 DEF Onward
    <3>2. Bracket(t.d, s, t.x[m].ch[(i + 1) + 1], c.key) /\ i + 1 \in 0 .. w
      BY <1>3, <2>3
    <3> DEFINE h == i + 1
               b == t.x[m].ch[h + 1]
    <3>3. h \in 0 .. Len(t.x[m].sep) /\ Bracket(t.d, s, b, c.key)
          /\ d = [c EXCEPT !.q = b, !.p = m, !.pi = h]
      BY <3>1, <3>2 DEF w
    <3> HIDE DEF h
    <3>4. b = t.x[m].ch[h + 1]
      OBVIOUS
    <3> HIDE DEF b
    <3>5. Unseen(t, c, t, d)
      BY <1>1, <1>2, <2>2, <3>3, <3>4, DeleteStays
    <3> QED
      BY <2>1, <3>5
  <2>4. CASE ~ f.ok
    <3>1. d = [c EXCEPT !.q = t.x[m].ch[i + 1], !.p = m, !.pi = i]
      BY <2>1, <2>4 DEF Onward
    <3>2. Bracket(t.d, s, t.x[m].ch[i + 1], c.key) /\ i \in 0 .. Len(t.x[m].sep)
      BY <1>3, <2>4 DEF w
    <3>3. Unseen(t, c, t, d)
      BY <1>1, <1>2, <2>2, <3>1, <3>2, DeleteStays
    <3> QED
      BY <2>1, <3>3
  <2> QED
    BY <2>3, <2>4
<1>6. CASE MustFill(t, c)
  <2> DEFINE p == c.p
             pi == c.pi
             v == UnderflowX(t, p, m, pi, i + 1)
  <2>1. u = UnderflowX(t, p, m, pi, i) /\ Count(t, c.q) < kx /\ c.q # t.r
    BY <1>6 DEF Filled, MustFill, i
  <2>2. CASE f.ok
    <3>1. Under(t.x, p, pi, Index(m)) /\ m \in DOMAIN t.x /\ Sound(t, s)
      BY <1>1, <1>2, <2>1 DEF Here, Way, Led, HereIndex
    <3>2. v = UnderflowX(t, p, m, pi, i + 1)
      OBVIOUS
    <3>3. d = [c EXCEPT !.q = u.t.x[u.x].ch[(u.i + 1) + 1], !.p = u.x, !.pi = u.i + 1]
      BY <2>2 DEF Onward
    <3> HIDE DEF v, p, pi
    <3>4. NumberedLeft(t, p, pi)
      BY <3>1, LeftNumber
    <3>5. v.t = u.t /\ v.x = u.x /\ v.i = u.i + 1
      <4>1. NextOf(UnderflowX(t, p, m, pi, i), UnderflowX(t, p, m, pi, i + 1))
        BY <1>4, <3>4, UnderflowXNext
      <4> QED
        BY <2>1, <3>2, <4>1 DEF NextOf
    <3>6. d = [c EXCEPT !.q = v.t.x[v.x].ch[v.i + 1], !.p = v.x, !.pi = v.i]
      BY <3>3, <3>5
    <3> DEFINE h == i + 1
               b == t.x[m].ch[h + 1]
    <3>7. h \in 0 .. Len(t.x[m].sep) /\ Bracket(t.d, s, b, c.key)
          /\ v = UnderflowX(t, c.p, m, c.pi, h)
      BY <1>3, <2>2, <3>2 DEF w, p, pi
    <3> HIDE DEF h
    <3>8. b = t.x[m].ch[h + 1]
      OBVIOUS
    <3> HIDE DEF b
    <3>9. Unseen(t, c, v.t, d)
      BY <1>1, <1>2, <2>1, <3>6, <3>7, <3>8, DeleteFills
    <3> QED
      BY <3>5, <3>9
  <2>3. CASE ~ f.ok
    <3>1. d = [c EXCEPT !.q = u.t.x[u.x].ch[u.i + 1], !.p = u.x, !.pi = u.i]
      BY <2>3 DEF Onward
    <3>2. Bracket(t.d, s, t.x[m].ch[i + 1], c.key) /\ i \in 0 .. Len(t.x[m].sep)
      BY <1>3, <2>3 DEF w
    <3> QED
      BY <1>1, <1>2, <2>1, <3>1, <3>2, DeleteFills
  <2> QED
    BY <2>2, <2>3
<1> QED
  BY <1>5, <1>6

(* The call returns with tree u, which has gained or lost key k.           *)
Gained(t, k, u) == Good(u, Idle) /\ KeysOf(u.d) = KeysOf(t.d) \cup {k}
Lost(t, k, u) == Good(u, Idle) /\ KeysOf(u.d) = KeysOf(t.d) \ {k}

(* The empty tree has no keys and is as it should be.                      *)
LEMMA NoKeys ==
  KeysOf(Empty.d) = {} /\ Good(Empty, Idle)
<1>1. Empty.d = <<>>
  BY DEF Empty
<1>2. DOMAIN <<>> = {}
  OBVIOUS
<1>3. KeysOf(Empty.d) = {}
  BY <1>1, <1>2 DEF KeysOf
<1> QED
  BY <1>3 DEF Good

(* A Set that is done has added its key.                                   *)
LEMMA SetDoneGains ==
  ASSUME NEW t, NEW k, NEW u, SetDone(t, k, u)
  PROVE  Gained(t, k, u)
<1>1. PICK S : Adds(t, k, u, S) /\ Full(u)
  BY DEF SetDone
<1>2. Holds(u, S, Idle)
  BY <1>1 DEF Holds, Adds
<1>3. KeysOf(u.d) = KeysOf(t.d) \cup {k}
  BY <1>1 DEF Adds
<1> QED
  BY <1>2, <1>3 DEF Gained, Good

(* A Delete that is done has taken away its key.                           *)
LEMMA DeleteDoneLoses ==
  ASSUME NEW t, NEW k, NEW u, DeleteDone(t, k, u)
  PROVE  Lost(t, k, u)
<1>1. CASE \E S : Drops(t, k, u, S) /\ Full(u)
  <2>1. PICK S : Drops(t, k, u, S) /\ Full(u)
    BY <1>1
  <2>2. Holds(u, S, Idle)
    BY <2>1 DEF Holds, Drops
  <2>3. KeysOf(u.d) = KeysOf(t.d) \ {k}
    BY <2>1 DEF Drops
  <2> QED
    BY <2>2, <2>3 DEF Lost, Good
<1>2. CASE u = Empty /\ KeysOf(t.d) \ {k} = {}
  BY <1>2, NoKeys DEF Lost
<1> QED
  BY <1>1, <1>2 DEF DeleteDone

(* The facts of a data page on the way.                                    *)
HereData(t, s, c, q, f) ==
  /\ q \in DOMAIN t.d /\ q \in 1 .. Len(t.d) /\ c.q = Data(q) /\ Count(t, c.q) = Len(t.d[q])
  /\ Len(t.d[q]) \in 1 .. 2 * kd /\ f.ok \in BOOLEAN
  /\ f.ok => f.i \in 0 .. Len(t.d[q]) - 1 /\ t.d[q][f.i + 1] = c.key
  /\ ~ f.ok => Fits(t.d, q, f.i, c.key)
  /\ Bracket(t.d, s, Data(q), c.key)

(* What a call knows at a data page.                                       *)
LEMMA AtDataPage ==
  ASSUME NEW t, NEW s, NEW c, Here(t, s, c), c.q.at = "d"
  PROVE  HereData(t, s, c, c.q.no, Find(t, c.q, c.key))
<1> DEFINE f == Find(t, c.q, c.key)
           q == c.q.no
           w == Len(t.d[q])
           n == Len(t.d)
           d == t.d
<1>1. Sound(t, s) /\ FullData(d, t.r) /\ c.key \in Key /\ d \in Seq(Seq(Key))
      /\ Bracket(d, s, c.q, c.key) /\ Located(t, c.q, c.key, f)
  BY DEF Here, Full, Asked, Sound, Way
<1>2. q \in 1 .. n /\ c.q = Data(q)
  BY PointerKinds DEF Here
<1>3. Count(t, c.q) = w
  BY DEF Count
<1> HIDE DEF f, q, n, d
<1>4. q \in DOMAIN d
  BY <1>1, <1>2, Elements DEF n, d
<1>5. w \in 1 .. 2 * kd
  BY <1>1, <1>4 DEF FullData, d
<1>6. f.ok \in BOOLEAN /\ (f.ok => f.i \in 0 .. w - 1)
  <2> DEFINE i == f.i
  <2>1. w \in Nat /\ i \in 0 .. w /\ f.ok \in BOOLEAN /\ (f.ok => i < w)
    BY <1>1, <1>3, Zenon DEF Located
  <2> HIDE DEF w, i
  <2>2. i < w => i \in 0 .. w - 1
    BY <2>1
  <2> QED
    BY <2>1, <2>2 DEF i
<1>7. f.ok => d[q][f.i + 1] = c.key
  <2>1. f.ok => KeyAt(t, c.q, f.i) = c.key
    BY <1>1, Zenon DEF Located
  <2>2. KeyAt(t, c.q, f.i) = d[q][f.i + 1]
    BY <1>2 DEF KeyAt, Data, d
  <2> QED
    BY <2>1, <2>2
<1>8. ~ f.ok => Fits(d, q, f.i, c.key)
  <2>1. Located(t, Data(q), c.key, f) /\ Bracket(d, s, Data(q), c.key)
    BY <1>1, <1>2
  <2> QED
    BY <1>1, <1>2, <2>1, FitsHere DEF n, d
<1>9. HereData(t, s, c, q, f)
  BY <1>1, <1>2, <1>3, <1>4, <1>5, <1>6, <1>7, <1>8, Zenon DEF HereData, n, d
<1> QED
  BY <1>9 DEF f, q

(* Set puts its key into a data page, which it may split.                  *)
LEMMA SetPuts ==
  ASSUME NEW t, NEW c, Good(t, c), c # Idle, c.op = "Set", c.q.at = "d",
         NEW q, q = c.q.no, NEW f, f = Find(t, c.q, c.key), ~ f.ok,
         NEW u, u = IF Count(t, c.q) < 2 * kd THEN Insert(t, q, f.i, c.key)
                    ELSE Overflow(t, c.p, q, c.pi, f.i, c.key)
  PROVE  Gained(t, c.key, u)
<1>0. c.q # Nil
  BY NotNil
<1>1. PICK s : Here(t, s, c)
  BY <1>0, Arrived
<1>2. HereData(t, s, c, q, f)
  BY <1>1, AtDataPage
<1> DEFINE k == c.key
           i == f.i
           w == Len(t.d[q])
<1>3. Sound(t, s) /\ Full(t) /\ Led(t, c) /\ c.op # "Delete"
  BY <1>1 DEF Here, Way
<1>4. w \in 1 .. 2 * kd /\ Fits(t.d, q, i, k) /\ Bracket(t.d, s, Data(q), k) /\ c.q = Data(q)
      /\ Count(t, c.q) = w
  BY <1>2 DEF HereData
<1>5. kd \in Nat \ {0}
  BY BTreeAssumption DEF BTreeAssumption
<1> HIDE DEF k, i
<1>6. CASE w < 2 * kd
  <2>1. u = Insert(t, q, i, k)
    BY <1>4, <1>6 DEF k, i
  <2>2. SetDone(t, k, u)
    BY <1>3, <1>4, <1>6, <2>1, RoomDone
  <2> QED
    BY <2>2, SetDoneGains DEF k
<1>7. CASE ~ (w < 2 * kd)
  <2>1. u = Overflow(t, c.p, q, c.pi, i, k)
    BY <1>4, <1>7 DEF k, i
  <2>2. w = 2 * kd
    <3> HIDE DEF w
    <3> QED
      BY <1>4, <1>5, <1>7
  <2>3. CASE c.p = 0
    <3>1. c.pi = -1 /\ t.r = Data(q)
      BY <1>3, <1>4, <2>3 DEF Led
    <3>2. u = Overflow(t, c.p, q, -1, i, k)
      BY <2>1, <3>1
    <3>3. SetDone(t, k, u)
      BY <1>3, <1>4, <2>2, <3>1, <3>2, OverflowRootDone
    <3> QED
      BY <3>3, SetDoneGains DEF k
  <2>4. CASE c.p # 0
    <3>1. Under(t.x, c.p, c.pi, Data(q)) /\ Len(t.x[c.p].sep) <= 2 * kx
      BY <1>3, <1>4, <2>4 DEF Led
    <3>2. SetDone(t, k, u)
      BY <1>3, <1>4, <2>1, <2>2, <3>1, OverflowDone
    <3> QED
      BY <3>2, SetDoneGains DEF k
  <2> QED
    BY <2>3, <2>4
<1> QED
  BY <1>6, <1>7

(* Delete takes its key from a data page, which it may have to fill again. *)
LEMMA DeleteTakes ==
  ASSUME NEW t, NEW c, Good(t, c), c # Idle, c.op = "Delete", c.q.at = "d",
         NEW q, q = c.q.no, NEW f, f = Find(t, c.q, c.key), f.ok,
         NEW v, v = Extract(t, q, f.i),
         NEW u, u = IF Len(v.d[q]) >= kd THEN v
                    ELSE IF c.q # t.r THEN Underflow(v, c.p, q, c.pi)
                    ELSE IF v.c = 0 THEN Empty ELSE v
  PROVE  Lost(t, c.key, u)
<1>0. c.q # Nil
  BY NotNil
<1>1. PICK s : Here(t, s, c)
  BY <1>0, Arrived
<1>2. HereData(t, s, c, q, f)
  BY <1>1, AtDataPage
<1> DEFINE k == c.key
           i == f.i
<1>3. Sound(t, s) /\ Full(t) /\ Led(t, c) /\ c.op # "Set"
  BY <1>1 DEF Here, Way
<1>4. q \in DOMAIN t.d /\ i \in 0 .. Len(t.d[q]) - 1 /\ t.d[q][i + 1] = k /\ c.q = Data(q)
      /\ v = Extract(t, q, i)
  BY <1>2 DEF HereData
<1> HIDE DEF k, i
<1>5. CASE Len(v.d[q]) >= kd
  <2>1. DeleteDone(t, t.d[q][i + 1], v)
    BY <1>3, <1>4, <1>5, SpareDone
  <2> QED
    BY <1>4, <1>5, <2>1, DeleteDoneLoses DEF k
<1>6. CASE ~ (Len(v.d[q]) >= kd) /\ c.q # t.r
  <2>1. Under(t.x, c.p, c.pi, Data(q)) /\ (Len(t.x[c.p].sep) >= kx \/ t.r = Index(c.p))
    BY <1>3, <1>4, <1>6 DEF Led
  <2>2. u = Underflow(v, c.p, q, c.pi)
    BY <1>6
  <2>3. DeleteDone(t, t.d[q][i + 1], u)
    BY <1>3, <1>4, <1>6, <2>1, <2>2, ShortDone
  <2> QED
    BY <1>4, <2>3, DeleteDoneLoses DEF k
<1>7. CASE ~ (Len(v.d[q]) >= kd) /\ c.q = t.r
  <2>1. u = IF v.c = 0 THEN Empty ELSE v
    BY <1>7
  <2>2. t.r = Data(q)
    BY <1>4, <1>7
  <2>3. DeleteDone(t, t.d[q][i + 1], u)
    BY <1>3, <1>4, <2>1, <2>2, LastDone
  <2> QED
    BY <1>4, <2>3, DeleteDoneLoses DEF k
<1> QED
  BY <1>5, <1>6, <1>7

-----------------------------------------------------------------------------
(* Calls that find nothing to do, and those on separators.                 *)

(* A sound tree is as it should be between calls.                          *)
LEMMA Resting ==
  ASSUME NEW t, NEW s, Sound(t, s), Full(t)
  PROVE  Good(t, Idle)
<1>1. Holds(t, s, Idle)
  BY DEF Holds
<1> QED
  BY <1>1 DEF Good

(* The key of a separator is in the tree.                                  *)
OfSeparator(t, c, q) == q \in DOMAIN t.d /\ t.d[q][1] = c.key /\ c.key \in KeysOf(t.d)

(* The key of a separator is the first of the data page it points at.      *)
LEMMA SeparatorKey ==
  ASSUME NEW t, NEW s, NEW c, Here(t, s, c), c.q.at = "x", NEW m, m = c.q.no,
         NEW f, f = Find(t, c.q, c.key), f.ok,
         NEW q, q = t.x[m].sep[f.i + 1]
  PROVE  OfSeparator(t, c, q)
<1> DEFINE w == Len(t.x[m].sep)
           o == f.i + 1
           n == Len(t.d)
           d == t.d
<1>1. HereIndex(t, s, c, m, f)
  BY AtIndexPage
<1>2. m \in DOMAIN t.x /\ Count(t, c.q) = w /\ w \in Nat
  BY <1>1 DEF HereIndex
<1>3. Located(t, c.q, c.key, f) /\ Laid(n, t.r, t.x, s) /\ d \in Seq(Seq(Key)) /\ Firsts(d)
  BY DEF Here, Sound
<1>4. o \in 1 .. w /\ KeyAt(t, c.q, f.i) = c.key
  <2> DEFINE i == f.i
  <2>1. i \in 0 .. w /\ i < w /\ KeyAt(t, c.q, i) = c.key
    BY <1>2, <1>3, Zenon DEF Located
  <2> HIDE DEF w, i
  <2>2. i + 1 \in 1 .. w
    BY <1>2, <2>1
  <2> QED
    BY <2>1, <2>2 DEF i
<1>5. KeyAt(t, c.q, f.i) = d[q][1]
  BY DEF KeyAt
<1> HIDE DEF n, d
<1>6. q \in 1 .. n
  <2> DEFINE x == t.x
  <2>1. \A i \in 1 .. Len(x[m].sep) : x[m].sep[i] \in 1 .. n
    BY <1>2, <1>3, PageType
  <2> QED
    BY <1>4, <2>1
<1>7. q \in DOMAIN d
  BY <1>3, <1>6, Elements DEF n, d
<1>8. d[q][1] \in ToSet(d[q])
  BY <1>3, <1>7 DEF Firsts
<1>9. c.key \in KeysOf(d)
  BY <1>4, <1>5, <1>7, <1>8, KeyIn
<1> QED
  BY <1>4, <1>5, <1>7, <1>9 DEF d, OfSeparator

(* What Find finds is in the tree.                                         *)
LEMMA FoundThere ==
  ASSUME NEW t, NEW s, NEW c, Here(t, s, c), Find(t, c.q, c.key).ok
  PROVE  c.key \in KeysOf(t.d)
<1> DEFINE f == Find(t, c.q, c.key)
           q == c.q.no
<1>1. CASE c.q.at = "x"
  BY <1>1, SeparatorKey DEF OfSeparator
<1>2. CASE c.q.at = "d"
  <2>1. HereData(t, s, c, q, f)
    BY <1>2, AtDataPage
  <2>2. t.d \in Seq(Seq(Key))
    BY DEF Here, Sound
  <2> DEFINE u == t.d[q]
             n == Len(u)
             i == f.i
  <2>3. q \in DOMAIN t.d /\ i \in 0 .. n - 1 /\ u[i + 1] = c.key
    BY <2>1 DEF HereData
  <2>4. u \in Seq(Key)
    <3>1. q \in 1 .. Len(t.d)
      BY <2>1 DEF HereData
    <3> QED
      BY <2>2, <3>1, ElementOfSeq
  <2>5. DOMAIN u = 1 .. n /\ n \in Nat
    BY <2>4, Elements
  <2> HIDE DEF u, n, i
  <2>6. i + 1 \in DOMAIN u
    BY <2>3, <2>5
  <2>7. c.key \in ToSet(u)
    BY <2>3, <2>6, AtPlace
  <2> QED
    BY <2>3, <2>7, KeyIn DEF u
<1> QED
  BY <1>1, <1>2, PointerKinds DEF Here

(* The key is there already.                                               *)
LEMMA SetFinds ==
  ASSUME NEW t, NEW c, Good(t, c), c # Idle, c.q # Nil, Find(t, c.q, c.key).ok
  PROVE  Gained(t, c.key, t)
<1>1. PICK s : Here(t, s, c)
  BY Arrived
<1>2. Good(t, Idle)
  BY <1>1, Resting DEF Here
<1>3. c.key \in KeysOf(t.d)
  BY <1>1, FoundThere
<1> QED
  BY <1>2, <1>3 DEF Gained

(* The key is not there, or it would be in this page.                      *)
LEMMA DeleteMisses ==
  ASSUME NEW t, NEW c, Good(t, c), c # Idle, c.q.at = "d", ~ Find(t, c.q, c.key).ok
  PROVE  Lost(t, c.key, t) /\ c.key \notin KeysOf(t.d)
<1> DEFINE f == Find(t, c.q, c.key)
           q == c.q.no
<1>0. c.q # Nil
  BY NotNil
<1>1. PICK s : Here(t, s, c)
  BY <1>0, Arrived
<1>2. Good(t, Idle)
  BY <1>1, Resting DEF Here
<1>3. Fits(t.d, q, f.i, c.key)
  BY <1>1, AtDataPage DEF HereData
<1>4. c.key \notin KeysOf(t.d)
  <2>1. t.d \in Seq(Seq(Key)) /\ Ordered(t.d)
    BY <1>1 DEF Here, Sound
  <2> QED
    BY <1>3, <2>1, PutGains DEF Gains
<1> QED
  BY <1>2, <1>4 DEF Lost

(* Only the empty tree has no page to begin at.                            *)
LEMMA NoPage ==
  ASSUME NEW t, NEW c, Good(t, c), c # Idle, c.q.at = "nil"
  PROVE  t = Empty /\ Asked(c)
<1>1. CASE t = Empty /\ Asked(c)
  BY <1>1
<1>2. CASE \E s : Holds(t, s, c)
  <2>1. c.q # Nil
    <3> SUFFICES ASSUME c.q = Nil PROVE FALSE
      OBVIOUS
    <3>1. PICK s : Holds(t, s, c)
      BY <1>2
    <3>2. Laid(Len(t.d), t.r, t.x, s) /\ Led(t, c)
      BY <3>1 DEF Holds, Sound, Way
    <3>3. c.q \in PagesOf(Len(t.d), t.x)
      <4> DEFINE n == Len(t.d)
      <4> HIDE DEF n
      <4>1. Laid(n, t.r, t.x, s)
        BY <3>2 DEF n
      <4>2. CASE c.p = 0
        BY <3>2, <4>1, <4>2 DEF Led, Laid, Typed, n
      <4>3. CASE c.p # 0
        <5> DEFINE w == Len(t.x[c.p].sep)
                   o == c.pi + 1
        <5>1. c.p \in DOMAIN t.x /\ c.pi \in 0 .. w /\ t.x[c.p].ch[o] = c.q
          BY <3>2, <4>3 DEF Led, Under
        <5>2. w \in Nat /\ \A i \in 1 .. w + 1 : t.x[c.p].ch[i] \in PagesOf(n, t.x)
          BY <4>1, <5>1, PageType
        <5> HIDE DEF w
        <5>3. o \in 1 .. w + 1
          BY <5>1, <5>2
        <5> QED
          BY <5>1, <5>2, <5>3 DEF n
      <4> QED
        BY <4>2, <4>3
    <3> QED
      BY <3>3, PointerKinds
  <2>2. PICK s : Here(t, s, c)
    BY <2>1, Arrived
  <2> QED
    BY <2>2, PointerKinds DEF Here
<1> QED
  BY <1>1, <1>2 DEF Good

(* A separator's page can spare the key.                                   *)
LEMMA DeleteFromSeparator ==
  ASSUME NEW t, NEW c, Good(t, c), c # Idle, c.q.at = "x", NEW f, f = Find(t, c.q, c.key), f.ok,
         NEW q, q = t.x[c.q.no].sep[f.i + 1], Len(t.d[q]) > kd
  PROVE  Lost(t, c.key, Extract(t, q, 0))
<1>0. c.q # Nil
  BY NotNil
<1>1. PICK s : Here(t, s, c)
  BY <1>0, Arrived
<1>2. q \in DOMAIN t.d /\ t.d[q][1] = c.key
  <2> DEFINE m == c.q.no
  <2>1. q = t.x[m].sep[f.i + 1] /\ m = c.q.no
    OBVIOUS
  <2> HIDE DEF m
  <2>2. OfSeparator(t, c, q)
    BY <1>1, <2>1, SeparatorKey
  <2> QED
    BY <2>2 DEF OfSeparator
<1>3. Sound(t, s) /\ Full(t)
  BY <1>1 DEF Here
<1> DEFINE i == 0
           u == Extract(t, q, i)
           w == Len(t.d[q])
           v == Len(u.d[q])
<1>4. kd \in Nat \ {0}
  BY BTreeAssumption DEF BTreeAssumption
<1>5. w \in Nat /\ w > kd
  <2>1. w \in 1 .. 2 * kd /\ w > kd
    BY <1>2, <1>3 DEF Full, FullData
  <2> HIDE DEF w
  <2> QED
    BY <2>1
<1>6. v = w - 1
  <2>1. Is(u, t.c - 1, t.r, KeyCut(t.d, q, i), t.x)
    BY <1>3, ExtractParts DEF Sound
  <2>2. CutLengths(t.d, q, KeyCut(t.d, q, i))
    <3>1. i \in 0 .. w - 1
      <4> HIDE DEF w
      <4> QED
        BY <1>4, <1>5
    <3> HIDE DEF i
    <3> QED
      BY <1>2, <1>3, <3>1, Shorter DEF Sound
  <2> QED
    BY <2>1, <2>2 DEF Is, CutLengths
<1>7. i \in 0 .. w - 1 /\ v >= kd /\ i + 1 = 1
  <2> HIDE DEF w, v
  <2> QED
    BY <1>4, <1>5, <1>6
<1> HIDE DEF i
<1>8. DeleteDone(t, t.d[q][i + 1], u)
  BY <1>2, <1>3, <1>7, SpareDone
<1>9. Lost(t, c.key, u)
  BY <1>2, <1>7, <1>8, DeleteDoneLoses
<1> QED
  BY <1>9 DEF i

(* The tree of a single key.                                               *)
One(k) == [Empty EXCEPT !.c = 1, !.r = Data(1), !.d = <<<<k>>>>]

(* The fields of the tree of one key.                                      *)
LEMMA OneParts ==
  ASSUME NEW k
  PROVE  Is(One(k), 1, Data(1), <<<<k>>>>, <<>>)
BY DEF One, Empty, Is, Fields

(* One data page is a tree.                                                *)
LEMMA LaidOne ==
  Laid(1, Data(1), <<>>, <<>>)
<1> DEFINE x == <<>>
<1>1. DOMAIN x = {} /\ x = [m \in DOMAIN x |-> x[m]]
  OBVIOUS
<1> HIDE DEF x
<1>2. Data(1) \in PagesOf(1, x)
  BY DEF PagesOf
<1>3. IsFiniteSet(DOMAIN x)
  BY <1>1, FS_EmptySet
<1>4. Typed(1, Data(1), x, x)
  BY <1>1, <1>2, <1>3 DEF Typed
<1>5. Nested(x, x) /\ \A m \in DOMAIN x : Kids(x, x[m], x[m])
  BY <1>1 DEF Nested
<1>6. Rooted(1, Data(1), x, x)
  BY <1>1, Pointing DEF Rooted
<1>7. Laid(1, Data(1), x, x)
  BY <1>4, <1>5, <1>6 DEF Laid
<1> QED
  BY <1>7 DEF x

(* The first key.                                                          *)
LEMMA SetStarts ==
  ASSUME NEW t, NEW c, Good(t, c), c # Idle, c.q.at = "nil"
  PROVE  Gained(t, c.key, One(c.key))
<1> DEFINE k == c.key
           u == One(k)
           d == <<<<k>>>>
           x == <<>>
<1>1. t = Empty /\ k \in Key
  BY NoPage DEF Asked
<1>2. Is(u, 1, Data(1), d, x)
  BY OneParts
<1> HIDE DEF k, u
<1>3. /\ d \in Seq(Seq(Key)) /\ Len(d) = 1 /\ DOMAIN d = {1} /\ d[1] = <<k>>
      /\ DOMAIN <<k>> = {1} /\ <<k>>[1] = k /\ Len(<<k>>) = 1
  BY <1>1
<1> HIDE DEF d
<1>4. ToSet(d[1]) = {k}
  <2> DEFINE v == <<k>>
  <2>1. DOMAIN v = {1} /\ v[1] = k
    BY <1>3
  <2> HIDE DEF v
  <2>2. \A a : a \in ToSet(v) <=> a = k
    BY <2>1, AtPlace
  <2>3. ToSet(v) = {k}
    BY <2>2
  <2> QED
    BY <1>3, <2>3 DEF v
<1>5. KeysOf(d) = {k}
  BY <1>3, <1>4 DEF KeysOf
<1>6. Ordered(d)
  BY <1>3 DEF Ordered, Asc
<1>7. IsFiniteSet(KeysOf(d)) /\ 1 = Cardinality(KeysOf(d))
  BY <1>5, FS_Singleton
<1>8. kd \in Nat \ {0}
  BY BTreeAssumption DEF BTreeAssumption
<1>9. FullData(d, Data(1)) /\ FullIndex(x, Data(1))
  <2>1. FullData(d, Data(1))
    <3>1. 1 \in 1 .. 2 * kd
      BY <1>8
    <3>2. \A j \in DOMAIN d : j = 1 /\ Len(d[j]) = 1
      BY <1>3
    <3> QED
      BY <3>1, <3>2 DEF FullData
  <2>2. DOMAIN x = {}
    OBVIOUS
  <2> HIDE DEF x
  <2>3. FullIndex(x, Data(1))
    BY <2>2 DEF FullIndex
  <2> QED
    BY <2>1, <2>3
<1> HIDE DEF x
<1>10. Sound(u, x)
  <2>1. Laid(1, Data(1), x, x)
    BY LaidOne DEF x
  <2>2. Fields(u) /\ u.c = 1 /\ u.r = Data(1) /\ u.d = d /\ u.x = x
    BY <1>2 DEF Is
  <2>3. Laid(Len(u.d), u.r, u.x, x)
    BY <1>3, <2>1, <2>2
  <2> QED
    <3>1. u.d \in Seq(Seq(Key)) /\ Len(u.d) >= 1 /\ Ordered(u.d)
      <4>1. 1 >= 1
        OBVIOUS
      <4>2. d \in Seq(Seq(Key)) /\ Len(d) = 1 /\ u.d = d
        BY <1>3, <2>2
      <4>3. Len(u.d) >= 1
        BY <4>1, <4>2, Zenon
      <4> QED
        BY <1>6, <4>2, <4>3, Zenon
    <3>2. IsFiniteSet(KeysOf(u.d)) /\ u.c = Cardinality(KeysOf(u.d))
      BY <1>7, <2>2
    <3> QED
      BY <2>2, <2>3, <3>1, <3>2, Zenon DEF Sound
<1>11. Full(u) /\ KeysOf(u.d) = {k}
  BY <1>2, <1>5, <1>9 DEF Is, Full
<1>12. Good(u, Idle)
  BY <1>10, <1>11, Resting
<1>13. KeysOf(u.d) = KeysOf(t.d) \cup {k}
  BY <1>1, <1>11, NoKeys
<1> QED
  BY <1>12, <1>13 DEF Gained, u, k

(* There is nothing to delete.                                             *)
LEMMA DeleteNothing ==
  ASSUME NEW t, NEW c, Good(t, c), c # Idle, c.q.at = "nil"
  PROVE  Lost(t, c.key, t)
<1>1. t = Empty
  BY NoPage
<1> QED
  BY <1>1, NoKeys DEF Lost

(* A call begins at the root, under which every key belongs.               *)
LEMMA CallBegins ==
  ASSUME NEW t, Good(t, Idle), NEW op \in {"Set", "Delete"}, NEW k \in Key,
         NEW c, c = [op |-> op, key |-> k, q |-> t.r, p |-> 0, pi |-> -1]
  PROVE  Good(t, c) /\ Request(c) = [op |-> op, key |-> k]
<1>1. Asked(c) /\ c.op = op /\ c.key = k /\ c.q = t.r /\ c.p = 0 /\ c.pi = -1
  BY DEF Asked
<1>2. Request(c) = [op |-> op, key |-> k]
  BY <1>1, AskedBusy
<1>3. CASE t = Empty
  <2>1. c.q = Nil
    BY <1>1, <1>3 DEF Empty
  <2> QED
    BY <1>1, <1>2, <1>3, <2>1 DEF Good
<1>4. CASE t # Empty
  <2>1. PICK s : Holds(t, s, Idle)
    BY <1>4 DEF Good
  <2>2. Sound(t, s) /\ Full(t)
    BY <2>1 DEF Holds
  <2>3. Bracket(t.d, s, t.r, k)
    <3> DEFINE n == Len(t.d)
    <3>1. From(s, t.r) = 1 /\ To(s, t.r) = n /\ n \in Nat
      BY <2>2 DEF Sound, Laid, Rooted, Typed
    <3>2. ~ (From(s, t.r) > 1) /\ ~ (To(s, t.r) < n)
      <4> HIDE DEF n
      <4> QED
        BY <3>1
    <3> QED
      BY <3>2 DEF Bracket
  <2>4. Way(t, s, c)
    BY <1>1, <2>3 DEF Way, Led
  <2>5. Holds(t, s, c)
    BY <1>1, <2>2, <2>4 DEF Holds
  <2> QED
    BY <1>2, <2>5 DEF Good
<1> QED
  BY <1>3, <1>4

-----------------------------------------------------------------------------
(* The invariant, and the set that the tree implements.                    *)

(* The inductive invariant: the tree is laid out in spans and full, and a  *)
(* call under way is at a page under which its key belongs.                *)
IInv == Good(tree, call)

(* What a step of a call does: nothing its caller sees, or its answer.     *)
Silent == Unseen(tree, call, tree', call')
Answered ==
  /\ call # Idle /\ call' = Idle
  /\ \/ call.op = "Set" /\ Gained(tree, call.key, tree')
     \/ call.op = "Delete" /\ Lost(tree, call.key, tree')

(* A call with an operation is under way.                                  *)
LEMMA Busy ==
  ASSUME call.op = "Set" \/ call.op = "Delete"
  PROVE  call # Idle
<1>1. Idle.op = "none"
  BY DEF Idle
<1> QED
  BY <1>1

(* SetEmpty answers a Set.                                                 *)
LEMMA SetEmptyStep ==
  ASSUME IInv, SetEmpty
  PROVE  Answered
<1>1. call.op = "Set" /\ call.q.at = "nil" /\ call' = Idle /\ tree' = One(call.key)
  BY DEF SetEmpty, At, Return, One
<1>2. call # Idle
  BY <1>1, Busy
<1>3. Gained(tree, call.key, tree')
  BY <1>1, <1>2, SetStarts DEF IInv
<1> QED
  BY <1>1, <1>2, <1>3 DEF Answered

(* SetPresent answers a Set.                                               *)
LEMMA SetPresentStep ==
  ASSUME IInv, SetPresent
  PROVE  Answered
<1>1. call.op = "Set" /\ call.q # Nil /\ Find(tree, call.q, call.key).ok /\ call' = Idle /\ tree' = tree
  BY DEF SetPresent, Return, Found
<1>2. call # Idle
  BY <1>1, Busy
<1>3. Gained(tree, call.key, tree)
  BY <1>1, <1>2, SetFinds DEF IInv
<1> QED
  BY <1>1, <1>2, <1>3 DEF Answered

(* SetDescend changes nothing that the caller sees.                        *)
LEMMA SetDescendStep ==
  ASSUME IInv, SetDescend
  PROVE  Silent
<1> DEFINE f == Find(tree, call.q, call.key)
<1>1. /\ call.op = "Set" /\ call.q.at = "x" /\ ~ f.ok /\ Count(tree, call.q) <= 2 * kx
      /\ tree' = tree
      /\ call' = [call EXCEPT !.q = tree.x[call.q.no].ch[f.i + 1], !.p = call.q.no, !.pi = f.i]
  BY DEF SetDescend, At, Descend, Found
<1>2. call # Idle
  BY <1>1, Busy
<1> HIDE DEF f
<1>3. f = Find(tree, call.q, call.key)
  BY DEF f
<1>4. Unseen(tree, call, tree, call')
  BY <1>1, <1>2, <1>3, SetDescends DEF IInv
<1> QED
  BY <1>1, <1>4 DEF Silent

(* SetSplitX changes nothing that the caller sees.                         *)
LEMMA SetSplitXStep ==
  ASSUME IInv, SetSplitX
  PROVE  Silent
<1> DEFINE f == Find(tree, call.q, call.key)
           u == SplitX(tree, call.p, call.q.no, call.pi, f.i)
<1>1. /\ call.op = "Set" /\ call.q.at = "x" /\ ~ f.ok /\ Count(tree, call.q) > 2 * kx
      /\ tree' = u.t
      /\ call' = [call EXCEPT !.q = u.t.x[u.x].ch[u.i + 1], !.p = u.x, !.pi = u.i]
  BY DEF SetSplitX, At, Descend, Found
<1>2. call # Idle
  BY <1>1, Busy
<1> HIDE DEF f
<1>3. f = Find(tree, call.q, call.key) /\ u = SplitX(tree, call.p, call.q.no, call.pi, f.i)
  BY DEF f
<1> HIDE DEF u
<1>4. Unseen(tree, call, u.t, call')
  BY <1>1, <1>2, <1>3, SetSplits DEF IInv
<1> QED
  BY <1>1, <1>4 DEF Silent

(* SetKey answers a Set.                                                   *)
LEMMA SetKeyStep ==
  ASSUME IInv, SetKey
  PROVE  Answered
<1> DEFINE f == Find(tree, call.q, call.key)
           q == call.q.no
<1>1. /\ call.op = "Set" /\ call.q.at = "d" /\ ~ f.ok /\ call' = Idle
      /\ tree' = IF Count(tree, call.q) < 2 * kd THEN Insert(tree, q, f.i, call.key)
                 ELSE Overflow(tree, call.p, q, call.pi, f.i, call.key)
  BY DEF SetKey, At, Return, Found
<1>2. call # Idle
  BY <1>1, Busy
<1> HIDE DEF f, q
<1>3. f = Find(tree, call.q, call.key) /\ q = call.q.no
  BY DEF f, q
<1>4. Gained(tree, call.key, tree')
  BY <1>1, <1>2, <1>3, SetPuts DEF IInv
<1> QED
  BY <1>1, <1>2, <1>4 DEF Answered

(* DeleteEmpty answers a Delete.                                           *)
LEMMA DeleteEmptyStep ==
  ASSUME IInv, DeleteEmpty
  PROVE  Answered
<1>1. call.op = "Delete" /\ call.q.at = "nil" /\ call' = Idle /\ tree' = tree
  BY DEF DeleteEmpty, At, Return
<1>2. call # Idle
  BY <1>1, Busy
<1>3. Lost(tree, call.key, tree)
  BY <1>1, <1>2, DeleteNothing DEF IInv
<1> QED
  BY <1>1, <1>2, <1>3 DEF Answered

(* DeleteSeparator answers a Delete.                                       *)
LEMMA DeleteSeparatorStep ==
  ASSUME IInv, DeleteSeparator
  PROVE  Answered
<1> DEFINE f == Find(tree, call.q, call.key)
           q == tree.x[call.q.no].sep[f.i + 1]
<1>1. /\ call.op = "Delete" /\ call.q.at = "x" /\ f.ok /\ call' = Idle
      /\ Len(tree.d[q]) > kd /\ tree' = Extract(tree, q, 0)
  BY DEF DeleteSeparator, At, Return, Found
<1>2. call # Idle
  BY <1>1, Busy
<1> HIDE DEF f
<1>3. f = Find(tree, call.q, call.key) /\ q = tree.x[call.q.no].sep[f.i + 1]
  BY DEF f
<1> HIDE DEF q
<1>4. Lost(tree, call.key, tree')
  BY <1>1, <1>2, <1>3, DeleteFromSeparator DEF IInv
<1> QED
  BY <1>1, <1>2, <1>4 DEF Answered

(* DeleteDescend changes nothing that the caller sees.                     *)
LEMMA DeleteDescendStep ==
  ASSUME IInv, DeleteDescend
  PROVE  Silent
<1> DEFINE f == Find(tree, call.q, call.key)
           m == call.q.no
           u == IF Count(tree, call.q) < kx /\ call.q # tree.r
                THEN UnderflowX(tree, call.p, m, call.pi, f.i)
                ELSE [t |-> tree, x |-> m, i |-> f.i]
<1>1. /\ call.op = "Delete" /\ call.q.at = "x" /\ tree' = u.t
      /\ f.ok => call' = [call EXCEPT !.q = u.t.x[u.x].ch[(u.i + 1) + 1], !.p = u.x, !.pi = u.i + 1]
      /\ ~ f.ok => call' = [call EXCEPT !.q = u.t.x[u.x].ch[u.i + 1], !.p = u.x, !.pi = u.i]
  BY DEF DeleteDescend, At, Descend, Found
<1>2. call # Idle
  BY <1>1, Busy
<1> HIDE DEF f, m
<1>3. Filled(tree, call, m, f, u)
  BY DEF Filled, MustFill
<1> HIDE DEF u
<1>4. Onward(call, f, u, call')
  BY <1>1 DEF Onward
<1>5. f = Find(tree, call.q, call.key) /\ m = call.q.no
  BY DEF f, m
<1>6. Unseen(tree, call, u.t, call')
  BY <1>1, <1>2, <1>3, <1>4, <1>5, DeleteDescends DEF IInv
<1> QED
  BY <1>1, <1>6 DEF Silent

(* DeleteKey answers a Delete.                                             *)
LEMMA DeleteKeyStep ==
  ASSUME IInv, DeleteKey
  PROVE  Answered
<1> DEFINE f == Find(tree, call.q, call.key)
           q == call.q.no
           v == Extract(tree, q, f.i)
<1>1. /\ call.op = "Delete" /\ call.q.at = "d" /\ f.ok /\ call' = Idle
      /\ tree' = IF Len(v.d[q]) >= kd THEN v
                 ELSE IF call.q # tree.r THEN Underflow(v, call.p, q, call.pi)
                 ELSE IF v.c = 0 THEN Empty ELSE v
  BY DEF DeleteKey, At, Return, Found
<1>2. call # Idle
  BY <1>1, Busy
<1> HIDE DEF f, q
<1>3. f = Find(tree, call.q, call.key) /\ q = call.q.no /\ v = Extract(tree, q, f.i)
  BY DEF f, q
<1> HIDE DEF v
<1>4. Lost(tree, call.key, tree')
  BY <1>1, <1>2, <1>3, DeleteTakes DEF IInv
<1> QED
  BY <1>1, <1>2, <1>4 DEF Answered

(* DeleteAbsent answers a Delete.                                          *)
LEMMA DeleteAbsentStep ==
  ASSUME IInv, DeleteAbsent
  PROVE  Answered
<1>1. /\ call.op = "Delete" /\ call.q.at = "d" /\ ~ Find(tree, call.q, call.key).ok
      /\ call' = Idle /\ tree' = tree
  BY DEF DeleteAbsent, At, Return, Found
<1>2. call # Idle
  BY <1>1, Busy
<1>3. Lost(tree, call.key, tree)
  BY <1>1, <1>2, DeleteMisses DEF IInv
<1> QED
  BY <1>1, <1>2, <1>3 DEF Answered

(* Every step of Set and Delete answers its call or is unseen.             *)
LEMMA StepKeeps ==
  ASSUME IInv, Step
  PROVE  Silent \/ Answered
BY SetEmptyStep, SetPresentStep, SetDescendStep, SetSplitXStep, SetKeyStep, DeleteEmptyStep,
   DeleteSeparatorStep, DeleteDescendStep, DeleteKeyStep, DeleteAbsentStep DEF Step

(* A call that begins.                                                     *)
Begun(op, k) ==
  /\ call = Idle /\ Request(call') = [op |-> op, key |-> k] /\ tree' = tree /\ Good(tree, call')

(* A call begins at the root.                                              *)
LEMMA CallStep ==
  ASSUME IInv, NEW op \in {"Set", "Delete"}, NEW k \in Key, Call(op, k)
  PROVE  Begun(op, k)
<1>1. /\ call = Idle /\ tree' = tree
      /\ call' = [op |-> op, key |-> k, q |-> tree.r, p |-> 0, pi |-> -1]
  BY DEF Call
<1>2. Good(tree, Idle)
  BY <1>1 DEF IInv
<1>3. Good(tree, call') /\ Request(call') = [op |-> op, key |-> k]
  BY <1>1, <1>2, CallBegins
<1> QED
  BY <1>1, <1>3 DEF Begun

(* The invariant holds at first.                                           *)
LEMMA InitGood ==
  Init => IInv
BY DEF Init, IInv, Good

(* Every step keeps the invariant.                                         *)
LEMMA NextGood ==
  IInv /\ [Next]_vars => IInv'
<1> SUFFICES ASSUME IInv, [Next]_vars PROVE Good(tree', call')
  BY DEF IInv
<1>1. CASE Step
  <2>1. CASE Silent
    BY <2>1 DEF Silent, Unseen
  <2>2. CASE Answered
    BY <2>2 DEF Answered, Gained, Lost
  <2> QED
    BY <1>1, <2>1, <2>2, StepKeeps
<1>2. CASE \E op \in {"Set", "Delete"}, k \in Key : Call(op, k)
  <2>1. PICK op \in {"Set", "Delete"}, k \in Key : Call(op, k)
    BY <1>2
  <2> QED
    BY <2>1, CallStep DEF Begun
<1>3. CASE UNCHANGED vars
  BY <1>3 DEF vars, IInv
<1> QED
  BY <1>1, <1>2, <1>3 DEF Next

(* Whatever is inserted and deleted, and in the middle of a Set or Delete  *)
(* too, the tree is as the code takes for granted: its pages are laid out, *)
(* ordered and full enough, and the call under way is at the page its key  *)
(* belongs to.                                                             *)
THEOREM GoodAlways ==
  Spec => []IInv
BY InitGood, NextGood, PTL DEF Spec

(* The empty tree is the empty set.                                        *)
LEMMA InitAbstract ==
  Init => Abstract!Init
<1> SUFFICES ASSUME Init PROVE Abstract!Init
  OBVIOUS
<1>1. tree = Empty /\ call = Idle
  BY DEF Init
<1>2. Contents = KeysOf(tree.d)
  BY DEF Contents, KeysOf
<1>3. Contents = {}
  BY <1>1, <1>2, NoKeys
<1>4. Idle = Abstract!Idle
  BY DEF Idle, Abstract!Idle
<1> QED
  BY <1>1, <1>3, <1>4 DEF Abstract!Init

(* What a step does to the contents is what the set promises, or nothing.  *)
LEMMA NextAbstract ==
  IInv /\ [Next]_vars => [Abstract!Next]_(Abstract!vars)
<1> SUFFICES ASSUME IInv, [Next]_vars PROVE [Abstract!Next]_(Abstract!vars)
  OBVIOUS
<1> DEFINE request == IF call = Idle THEN Idle ELSE [op |-> call.op, key |-> call.key]
<1>1. Contents = KeysOf(tree.d) /\ Contents' = KeysOf(tree'.d)
  BY DEF Contents, KeysOf
<1>2. request = Request(call) /\ request' = Request(call')
  BY DEF Request
<1>3. Idle = Abstract!Idle
  BY DEF Idle, Abstract!Idle
<1>4. Request(Idle) = Idle
  BY DEF Request
<1> HIDE DEF request
<1>5. CASE Step
  <2>1. CASE Silent
    <3>1. Contents' = Contents /\ request' = request
      BY <1>1, <1>2, <2>1 DEF Silent, Unseen
    <3> QED
      BY <3>1 DEF Abstract!vars, request
  <2>2. CASE Answered
    <3>1. request' = Abstract!Idle
      BY <1>2, <1>3, <1>4, <2>2 DEF Answered
    <3>2. request.op = call.op /\ request.key = call.key
      BY <2>2 DEF Answered, request
    <3>3. CASE call.op = "Set" /\ Gained(tree, call.key, tree')
      <4>1. Contents' = Contents \cup {request.key} /\ request.op = "Set"
        BY <1>1, <3>2, <3>3 DEF Gained
      <4> QED
        BY <3>1, <4>1 DEF Abstract!Next, Abstract!Answer, Abstract!Insert, request
    <3>4. CASE call.op = "Delete" /\ Lost(tree, call.key, tree')
      <4>1. Contents' = Contents \ {request.key} /\ request.op = "Delete"
        BY <1>1, <3>2, <3>4 DEF Lost
      <4> QED
        BY <3>1, <4>1 DEF Abstract!Next, Abstract!Answer, Abstract!Remove, request
    <3> QED
      BY <2>2, <3>3, <3>4 DEF Answered
  <2> QED
    BY <1>5, <2>1, <2>2, StepKeeps
<1>6. CASE \E op \in {"Set", "Delete"}, k \in Key : Call(op, k)
  <2>1. PICK op \in {"Set", "Delete"}, k \in Key : Call(op, k)
    BY <1>6
  <2>2. Begun(op, k)
    BY <2>1, CallStep
  <2>3. request = Abstract!Idle
    BY <1>2, <1>3, <1>4, <2>2 DEF Begun
  <2>4. request' \in Abstract!Requests
    <3>1. request' = [op |-> op, key |-> k]
      BY <1>2, <2>2 DEF Begun
    <3> QED
      BY <3>1 DEF Abstract!Requests
  <2>5. Contents' = Contents
    BY <1>1, <2>2 DEF Begun
  <2> QED
    BY <2>3, <2>4, <2>5 DEF Abstract!Next, Abstract!Ask, request
<1>7. CASE UNCHANGED vars
  <2>1. Contents' = Contents /\ request' = request
    BY <1>1, <1>2, <1>7 DEF vars
  <2> QED
    BY <2>1 DEF Abstract!vars, request
<1> QED
  BY <1>5, <1>6, <1>7 DEF Next

(* The tree is a set: a Set adds its key and nothing else, a Delete takes  *)
(* its key away and nothing else, and the splits, loans and joins of pages *)
(* on the way change no contents.                                          *)
THEOREM SetImplemented ==
  Spec => ImplementsSet
<1>1. Spec => []IInv
  BY GoodAlways
<1> QED
  BY <1>1, InitAbstract, NextAbstract, PTL DEF Spec, ImplementsSet, Abstract!Spec

-----------------------------------------------------------------------------
(* AllData.                                                                *)

(* The partial concatenations f of a sequence of sequences.                *)
Joint(ss, f, i) == IF i = 1 THEN ss[i] ELSE f[i - 1] \o ss[i]
Flattens(ss, f) == f = [i \in 1 .. Len(ss) |-> Joint(ss, f, i)]

(* There is a function that satisfies the recursive definition of          *)
(* FlattenSeq.                                                             *)
LEMMA FlattenExists ==
  ASSUME NEW X, NEW ss \in Seq(Seq(X))
  PROVE  \E f : Flattens(ss, f)
<1> DEFINE n == Len(ss)
           Built(w, f) ==
             /\ f \in [1 .. n -> Seq(X)]
             /\ \A i \in 1 .. n : i <= w => f[i] = Joint(ss, f, i)
           good == {w \in 0 .. n : \E f : Built(w, f)}
<1>0. n \in Nat /\ \A i \in 1 .. n : ss[i] \in Seq(X)
  BY Elements
<1> HIDE DEF n
<1>1. 0 \in good
  <2> DEFINE f == [i \in 1 .. n |-> ss[i]]
  <2>1. f \in [1 .. n -> Seq(X)]
    BY <1>0
  <2>2. \A i \in 1 .. n : ~ (i <= 0)
    BY <1>0
  <2> HIDE DEF f
  <2>3. Built(0, f)
    BY <2>1, <2>2
  <2> QED
    BY <1>0, <2>3
<1>2. ASSUME NEW w \in 1 .. n, w - 1 \in good
      PROVE  w \in good
  <2>1. PICK f : Built(w - 1, f)
    BY <1>2
  <2> DEFINE g == [i \in 1 .. n |-> IF i = w THEN Joint(ss, f, i) ELSE f[i]]
  <2>2. ASSUME NEW i \in 1 .. n
        PROVE  Joint(ss, f, i) \in Seq(X)
    <3>1. CASE i = 1
      BY <1>0, <3>1 DEF Joint
    <3>2. CASE i # 1
      <4> DEFINE h == i - 1
      <4>1. h \in 1 .. n
        BY <1>0, <3>2
      <4> HIDE DEF h
      <4>2. f[h] \in Seq(X) /\ ss[i] \in Seq(X)
        BY <1>0, <2>1, <4>1
      <4>3. f[h] \o ss[i] \in Seq(X)
        BY <4>2, ConcatProperties
      <4> QED
        BY <3>2, <4>3 DEF Joint, h
    <3> QED
      BY <3>1, <3>2
  <2>3. g \in [1 .. n -> Seq(X)]
    BY <2>1, <2>2
  <2>4. ASSUME NEW i \in 1 .. n, i <= w
        PROVE  g[i] = Joint(ss, g, i)
    <3>1. Joint(ss, g, i) = Joint(ss, f, i)
      <4>1. CASE i = 1
        BY <4>1 DEF Joint
      <4>2. CASE i # 1
        <5>1. i - 1 \in 1 .. n /\ i - 1 # w
          BY <1>0, <2>4, <4>2
        <5>2. g[i - 1] = f[i - 1]
          BY <5>1
        <5> HIDE DEF g
        <5> QED
          BY <4>2, <5>2 DEF Joint
      <4> QED
        BY <4>1, <4>2
    <3>2. CASE i = w
      BY <3>1, <3>2
    <3>3. CASE i # w
      <4>1. i <= w - 1
        BY <1>0, <2>4, <3>3
      <4>2. f[i] = Joint(ss, f, i) /\ g[i] = f[i]
        BY <2>1, <3>3, <4>1
      <4> QED
        BY <3>1, <4>2
    <3> QED
      BY <3>2, <3>3
  <2> HIDE DEF g
  <2>5. Built(w, g)
    BY <2>3, <2>4
  <2> QED
    BY <1>0, <2>5
<1>3. n \in good
  <2> HIDE DEF good
  <2>1. 0 .. n \subseteq good
    BY <1>0, <1>1, <1>2, ReachedBySteps
  <2> QED
    BY <1>0, <2>1
<1>4. PICK f : Built(n, f)
  BY <1>3
<1>5. \A i \in 1 .. n : f[i] = Joint(ss, f, i)
  BY <1>0, <1>4
<1>6. f = [i \in 1 .. n |-> f[i]]
  BY <1>4
<1>7. f = [i \in 1 .. n |-> Joint(ss, f, i)]
  BY <1>5, <1>6
<1> QED
  BY <1>7 DEF Flattens, n

(* f are the concatenations of the first sequences of ss.                  *)
Flat(X, ss, n, f) ==
  /\ f \in [1 .. n -> Seq(X)] /\ f[1] = ss[1] /\ FlattenSeq(ss) = f[n]
  /\ \A i \in 1 .. n - 1 : f[i + 1] = f[i] \o ss[i + 1]

(* FlattenSeq is the last of the concatenations of the first sequences.    *)
LEMMA Flattened ==
  ASSUME NEW X, NEW ss \in Seq(Seq(X)), NEW n, n = Len(ss), n >= 1
  PROVE  \E f : Flat(X, ss, n, f)
<1>0. n \in Nat \ {0} /\ \A i \in 1 .. n : ss[i] \in Seq(X)
  <2>1. n \in Nat /\ \A i \in 1 .. n : ss[i] \in Seq(X)
    BY Elements
  <2> QED
    BY <2>1
<1> DEFINE Fix(f) == f = [i \in 1 .. Len(ss) |-> IF i = 1 THEN ss[i] ELSE f[i - 1] \o ss[i]]
           flat == CHOOSE f : Fix(f)
<1>1. FlattenSeq(ss) = flat[n]
  BY <1>0 DEF FlattenSeq
<1>2. \E f : Fix(f)
  <2>1. PICK f : Flattens(ss, f)
    BY FlattenExists
  <2>2. Fix(f)
    BY <2>1 DEF Flattens, Joint
  <2> HIDE DEF Fix
  <2> QED
    BY <2>2
<1>3. Fix(flat)
  <2> HIDE DEF Fix
  <2> QED
    BY <1>2, Zenon
<1> HIDE DEF flat
<1>4. flat = [i \in 1 .. n |-> IF i = 1 THEN ss[i] ELSE flat[i - 1] \o ss[i]]
  BY <1>3
<1> HIDE DEF Fix
<1>5. flat[1] = ss[1]
  <2>1. 1 \in 1 .. n
    BY <1>0
  <2> QED
    BY <1>4, <2>1
<1>6. ASSUME NEW i \in 1 .. n - 1 PROVE flat[i + 1] = flat[i] \o ss[i + 1]
  <2> DEFINE j == i + 1
  <2>1. j \in 1 .. n /\ j # 1 /\ j - 1 = i
    BY <1>0
  <2> HIDE DEF j
  <2>2. flat[j] = flat[j - 1] \o ss[j]
    BY <1>4, <2>1
  <2> QED
    BY <2>1, <2>2 DEF j
<1>7. \A i \in 1 .. n : flat[i] \in Seq(X)
  <2> DEFINE good == {0} \cup {i \in 1 .. n : flat[i] \in Seq(X)}
  <2>1. ASSUME NEW i \in 1 .. n, i - 1 \in good PROVE i \in good
    <3>1. CASE i = 1
      BY <1>0, <1>5, <3>1
    <3>2. CASE i # 1
      <4> DEFINE h == i - 1
      <4>1. h \in 1 .. n - 1 /\ h + 1 = i /\ h # 0
        BY <1>0, <3>2
      <4>2. h \in good
        BY <2>1
      <4> HIDE DEF h
      <4>3. flat[h] \in Seq(X) /\ ss[i] \in Seq(X)
        BY <1>0, <4>1, <4>2
      <4>4. flat[h] \o ss[i] \in Seq(X)
        BY <4>3, ConcatProperties
      <4>5. flat[i] = flat[h] \o ss[i]
        BY <1>6, <4>1
      <4> QED
        BY <4>4, <4>5
    <3> QED
      BY <3>1, <3>2
  <2>2. 0 \in good
    OBVIOUS
  <2>3. 0 .. n \subseteq good
    <3> HIDE DEF good
    <3> QED
      BY <1>0, <2>1, <2>2, ReachedBySteps
  <2>4. \A i \in 1 .. n : i \in 0 .. n /\ i # 0
    BY <1>0
  <2> QED
    BY <2>3, <2>4
<1>8. flat \in [1 .. n -> Seq(X)]
  <2>1. flat = [i \in 1 .. n |-> flat[i]]
    BY <1>4
  <2> QED
    BY <1>7, <2>1
<1>9. Flat(X, ss, n, flat)
  BY <1>1, <1>5, <1>6, <1>8 DEF Flat
<1> QED
  BY <1>9

(* What a sequence of the keys of the first i pages holds.                 *)
Collects(d, i, u) ==
  /\ u \in Seq(Key) /\ Asc(u)
  /\ \A a : a \in ToSet(u) <=> \E j \in 1 .. i : a \in ToSet(d[j])

(* The keys of one more page go behind those before it, in order.          *)
LEMMA CollectsNext ==
  ASSUME NEW d \in Seq(Seq(Key)), Ordered(d), NEW n, n = Len(d), NEW i \in 1 .. n - 1,
         NEW u, Collects(d, i, u)
  PROVE  Collects(d, i + 1, u \o d[i + 1])
<1> DEFINE v == d[i + 1]
           h == i + 1
           w == u \o v
<1>1. n \in Nat /\ DOMAIN d = 1 .. n /\ \A j \in 1 .. n : d[j] \in Seq(Key)
  BY Elements
<1>2. h \in 1 .. n /\ i \in 1 .. n
  BY <1>1
<1>3. u \in Seq(Key) /\ v \in Seq(Key) /\ Asc(u) /\ Asc(v)
  <2>1. v \in Seq(Key)
    BY <1>1, <1>2
  <2>2. Asc(v)
    BY <1>1, <1>2 DEF Ordered
  <2> QED
    BY <2>1, <2>2 DEF Collects
<1>4. Below(ToSet(u), ToSet(v))
  <2> SUFFICES ASSUME NEW a \in ToSet(u), NEW b \in ToSet(v) PROVE a < b
    BY DEF Below
  <2>1. PICK j \in 1 .. i : a \in ToSet(d[j])
    BY DEF Collects
  <2>2. j \in DOMAIN d /\ h \in DOMAIN d /\ j < h
    BY <1>1, <1>2
  <2> HIDE DEF h
  <2>3. Below(ToSet(d[j]), ToSet(d[h]))
    BY <2>2 DEF Ordered
  <2> QED
    BY <2>1, <2>3 DEF Below, h
<1> HIDE DEF v
<1>5. Glued(u, v, w)
  BY <1>3, Gluing
<1> HIDE DEF w
<1>6. w \in Seq(Key) /\ Asc(w) /\ ToSet(w) = ToSet(u) \cup ToSet(v)
  BY <1>3, <1>4, <1>5 DEF Glued
<1>7. ASSUME NEW a
      PROVE  a \in ToSet(w) <=> \E j \in 1 .. h : a \in ToSet(d[j])
  <2>1. a \in ToSet(w) <=> a \in ToSet(u) \/ a \in ToSet(v)
    BY <1>6
  <2>2. a \in ToSet(u) <=> \E j \in 1 .. i : a \in ToSet(d[j])
    BY DEF Collects
  <2>3. \A j : j \in 1 .. h <=> j \in 1 .. i \/ j = h
    BY <1>1, <1>2
  <2> HIDE DEF h
  <2>4. v = d[h]
    BY DEF v, h
  <2> QED
    BY <2>1, <2>2, <2>3, <2>4
<1> HIDE DEF h
<1>8. Collects(d, h, w)
  BY <1>6, <1>7 DEF Collects
<1> QED
  BY <1>8 DEF h, w, v

(* All the keys of the pages, in order.                                    *)
Listed(d, u) == u \in Seq(Key) /\ Asc(u) /\ ToSet(u) = KeysOf(d)

(* The concatenation of the data pages lists every key once and in order.  *)
LEMMA FlattenLists ==
  ASSUME NEW d \in Seq(Seq(Key)), Ordered(d), Len(d) >= 1
  PROVE  Listed(d, FlattenSeq(d))
<1> DEFINE n == Len(d)
<1>1. n \in Nat /\ DOMAIN d = 1 .. n /\ \A j \in 1 .. n : d[j] \in Seq(Key)
  BY Elements
<1>2. PICK f : Flat(Key, d, n, f)
  BY Flattened
<1> HIDE DEF n
<1>3. n = Len(d) /\ 1 \in 1 .. n /\ n \in 1 .. n
  <2>1. n = Len(d) /\ n >= 1
    BY DEF n
  <2> QED
    BY <1>1, <2>1
<1>4. Collects(d, 1, f[1])
  <2>1. d[1] \in Seq(Key) /\ Asc(d[1]) /\ f[1] = d[1]
    BY <1>1, <1>2, <1>3 DEF Ordered, Flat
  <2>2. \A j : j \in 1 .. 1 <=> j = 1
    OBVIOUS
  <2> QED
    BY <2>1, <2>2 DEF Collects
<1> DEFINE good == {0} \cup {i \in 1 .. n : Collects(d, i, f[i])}
<1>5. ASSUME NEW i \in 1 .. n, i - 1 \in good PROVE i \in good
  <2>1. CASE i = 1
    BY <1>3, <1>4, <2>1
  <2>2. CASE i # 1
    <3> DEFINE h == i - 1
    <3>1. h \in 1 .. n - 1 /\ h + 1 = i /\ h # 0 /\ h \in good
      BY <1>1, <1>5, <2>2
    <3> HIDE DEF h
    <3>2. Collects(d, h, f[h])
      BY <3>1
    <3>3. f[h + 1] = f[h] \o d[h + 1]
      BY <1>2, <3>1 DEF Flat
    <3>4. Collects(d, h + 1, f[h] \o d[h + 1])
      BY <1>3, <3>1, <3>2, CollectsNext
    <3>5. Collects(d, i, f[i])
      BY <3>1, <3>3, <3>4
    <3> QED
      BY <3>5
  <2> QED
    BY <2>1, <2>2
<1>6. 0 .. n \subseteq good
  <2> 0 \in good
    OBVIOUS
  <2> HIDE DEF good
  <2> QED
    BY <1>1, <1>5, ReachedBySteps
<1>7. Collects(d, n, f[n])
  <2>1. n \in 0 .. n /\ n # 0
    BY <1>1, <1>3
  <2> QED
    BY <1>6, <2>1
<1>8. f[n] = FlattenSeq(d)
  BY <1>2 DEF Flat
<1> DEFINE u == FlattenSeq(d)
<1>9. Collects(d, n, u)
  BY <1>7, <1>8
<1> HIDE DEF u
<1>10. ToSet(u) = KeysOf(d)
  <2>1. \A a : a \in ToSet(u) <=> a \in KeysOf(d)
    BY <1>1, <1>9, KeyIn DEF Collects
  <2> QED
    BY <2>1
<1>11. Listed(d, u)
  BY <1>9, <1>10 DEF Collects, Listed
<1> QED
  BY <1>11 DEF u

(* AllData lists the members, each once and in order, and c counts them.   *)
LEMMA AllListed ==
  ASSUME NEW t, Good(t, Idle)
  PROVE  /\ Listed(t.d, AllData(t))
         /\ IsFiniteSet(KeysOf(t.d)) /\ t.c = Cardinality(KeysOf(t.d))
<1>1. CASE t = Empty
  <2>1. t.c = 0 /\ KeysOf(t.d) = {}
    BY <1>1, NoKeys DEF Empty
  <2>2. AllData(t) = <<>>
    BY <2>1 DEF AllData
  <2> DEFINE e == <<>>
  <2>3. e \in Seq(Key) /\ DOMAIN e = {}
    OBVIOUS
  <2> HIDE DEF e
  <2>4. Asc(e) /\ ToSet(e) = {}
    <3>1. \A a : a \notin ToSet(e)
      BY <2>3, AtPlace
    <3> QED
      BY <2>3, <3>1 DEF Asc
  <2>5. Listed(t.d, e)
    BY <2>1, <2>3, <2>4 DEF Listed
  <2> QED
    BY <2>1, <2>2, <2>5, FS_EmptySet DEF e
<1>2. CASE t # Empty
  <2>1. PICK s : Holds(t, s, Idle)
    BY <1>2 DEF Good
  <2>2. t.d \in Seq(Seq(Key)) /\ Ordered(t.d) /\ Len(t.d) >= 1
        /\ IsFiniteSet(KeysOf(t.d)) /\ t.c = Cardinality(KeysOf(t.d)) /\ FullData(t.d, t.r)
    BY <2>1 DEF Holds, Sound, Full
  <2>3. t.c # 0
    <3>1. Firsts(t.d)
      BY <2>1, SoundFirsts DEF Holds, Full
    <3>2. 1 \in DOMAIN t.d
      <4> DEFINE n == Len(t.d)
      <4>1. DOMAIN t.d = 1 .. n /\ n \in Nat /\ n >= 1
        BY <2>2, Elements
      <4> HIDE DEF n
      <4> QED
        BY <4>1
    <3>3. t.d[1][1] \in KeysOf(t.d)
      BY <3>1, <3>2, KeyIn DEF Firsts
    <3> DEFINE K == KeysOf(t.d)
    <3>4. K # {} /\ IsFiniteSet(K) /\ t.c = Cardinality(K)
      BY <2>2, <3>3
    <3> HIDE DEF K
    <3> QED
      BY <3>4, FS_EmptySet
  <2>4. AllData(t) = FlattenSeq(t.d)
    BY <2>3 DEF AllData
  <2>5. Listed(t.d, FlattenSeq(t.d))
    BY <2>2, FlattenLists
  <2> QED
    BY <2>2, <2>4, <2>5
<1> QED
  BY <1>1, <1>2

-----------------------------------------------------------------------------
(* Seek.                                                                   *)

(* The pages that are pointed at.                                          *)
Pointed(t) == {t.r} \cup UNION {ToSet(t.x[n].ch) : n \in DOMAIN t.x}

(* The pointers of a tree are to its pages.                                *)
LEMMA PointedIn ==
  ASSUME NEW t, NEW s, Sound(t, s), NEW n, n = Len(t.d)
  PROVE  /\ t.r \in Pointed(t) /\ Pointed(t) \subseteq PagesOf(n, t.x)
         /\ \A m \in DOMAIN t.x : \A i \in 1 .. Len(t.x[m].sep) + 1 : t.x[m].ch[i] \in Pointed(t)
<1> DEFINE x == t.x
<1>1. Laid(n, t.r, x, s)
  BY DEF Sound
<1>2. t.r \in PagesOf(n, x)
  BY <1>1 DEF Laid, Typed
<1>3. \A m \in DOMAIN x : DOMAIN x[m].ch = 1 .. Len(x[m].sep) + 1
                          /\ \A i \in 1 .. Len(x[m].sep) + 1 : x[m].ch[i] \in PagesOf(n, x)
  <2> HIDE DEF x
  <2> QED
    BY <1>1, PageType
<1>4. \A q \in Pointed(t) : q \in PagesOf(n, x)
  <2> SUFFICES ASSUME NEW q \in Pointed(t) PROVE q \in PagesOf(n, x)
    OBVIOUS
  <2>1. CASE q = t.r
    BY <1>2, <2>1
  <2>2. CASE q # t.r
    <3>1. PICK m \in DOMAIN x : q \in ToSet(x[m].ch)
      BY <2>2 DEF Pointed
    <3>2. PICK i \in DOMAIN x[m].ch : x[m].ch[i] = q
      BY <3>1, AtPlace
    <3> QED
      BY <1>3, <3>2
  <2> QED
    BY <2>1, <2>2
<1>5. \A m \in DOMAIN x : \A i \in 1 .. Len(x[m].sep) + 1 : x[m].ch[i] \in Pointed(t)
  <2> SUFFICES ASSUME NEW m \in DOMAIN x, NEW i \in 1 .. Len(x[m].sep) + 1
               PROVE  x[m].ch[i] \in Pointed(t)
    OBVIOUS
  <2>1. i \in DOMAIN x[m].ch
    BY <1>3
  <2>2. x[m].ch[i] \in ToSet(x[m].ch)
    BY <2>1, AtPlace
  <2> QED
    BY <2>2 DEF Pointed
<1> QED
  BY <1>4, <1>5 DEF Pointed

(* Key k is in a data page under q.                                        *)
HeldIn(t, s, q, k) ==
  \E j \in DOMAIN t.d : From(s, q) <= j /\ j <= To(s, q) /\ k \in ToSet(t.d[j])

(* A key is in a data page if Find finds it there.                         *)
LEMMA HeldInData ==
  ASSUME NEW t, NEW s, Sound(t, s), Full(t), NEW q \in 1 .. Len(t.d), NEW k \in Key,
         NEW f, Located(t, Data(q), k, f)
  PROVE  HeldIn(t, s, Data(q), k) <=> f.ok
<1> DEFINE u == t.d[q]
           n == Len(u)
           i == f.i
<1>1. q \in DOMAIN t.d /\ u \in Seq(Key) /\ DOMAIN u = 1 .. n /\ n \in Nat
  <2>1. t.d \in Seq(Seq(Key))
    BY DEF Sound
  <2>2. q \in DOMAIN t.d /\ u \in Seq(Key)
    BY <2>1, Elements
  <2> QED
    BY <2>2, Elements
<1>2. HeldIn(t, s, Data(q), k) <=> k \in ToSet(u)
  <2>1. From(s, Data(q)) = q /\ To(s, Data(q)) = q
    BY Pointing
  <2>2. \A j \in DOMAIN t.d : q <= j /\ j <= q <=> j = q
    <3>1. DOMAIN t.d = 1 .. Len(t.d) /\ Len(t.d) \in Nat
      BY Elements DEF Sound
    <3> QED
      BY <3>1
  <2> QED
    BY <1>1, <2>1, <2>2 DEF HeldIn
<1>3. k \in ToSet(u) <=> \E a \in 1 .. n : u[a] = k
  BY <1>1, AtPlace
<1>4. Data(q).at = "d" /\ Data(q).no = q
  BY DEF Data
<1>5. Count(t, Data(q)) = n /\ \A m : KeyAt(t, Data(q), m) = u[m + 1]
  BY <1>4 DEF Count, KeyAt
<1>6. /\ i \in 0 .. n /\ f.ok \in BOOLEAN
      /\ f.ok => i < n /\ u[i + 1] = k
      /\ ~ f.ok => (i < n => k < u[i + 1])
      /\ \A m \in 0 .. i - 1 : u[m + 1] < k
      /\ \A m \in i + 1 .. n - 1 : k < u[m + 1]
  <2> HIDE DEF n, u, i
  <2> QED
    BY <1>5, Zenon DEF Located, i
<1> HIDE DEF n, u
<1>7. k \in Int /\ \A a \in 1 .. n : u[a] \in Int
  <2>1. \A a \in 1 .. n : u[a] \in Key
    BY <1>1, Elements DEF n
  <2> QED
    BY <2>1, KeyNumber
<1> HIDE DEF i
<1>8. CASE f.ok
  <2>1. i + 1 \in 1 .. n /\ u[i + 1] = k
    BY <1>1, <1>6, <1>8
  <2> QED
    BY <1>2, <1>3, <1>8, <2>1
<1>9. CASE ~ f.ok
  <2> SUFFICES ASSUME NEW a \in 1 .. n, u[a] = k PROVE FALSE
    BY <1>2, <1>3, <1>9
  <2> DEFINE m == a - 1
  <2>1. m + 1 = a /\ (m \in 0 .. i - 1 \/ m = i \/ m \in i + 1 .. n - 1) /\ m < n
    BY <1>1, <1>6
  <2> HIDE DEF m
  <2>2. CASE m \in 0 .. i - 1
    <3>1. u[a] < k
      BY <1>6, <2>1, <2>2
    <3> QED
      BY <1>7, <3>1
  <2>3. CASE m = i
    <3>1. k < u[a]
      BY <1>6, <1>9, <2>1, <2>3
    <3> QED
      BY <1>7, <3>1
  <2>4. CASE m \in i + 1 .. n - 1
    <3>1. k < u[a]
      BY <1>6, <2>1, <2>4
    <3> QED
      BY <1>7, <3>1
  <2> QED
    BY <2>1, <2>2, <2>3, <2>4
<1> QED
  BY <1>6, <1>8, <1>9

(* The facts of the keys of an index page.                                 *)
SepKeys(t, s, m, k, f) ==
  /\ f.ok \in BOOLEAN /\ f.i \in 0 .. Len(t.x[m].sep)
  /\ f.ok => f.i + 1 \in 1 .. Len(t.x[m].sep) /\ t.d[t.x[m].sep[f.i + 1]][1] = k
  /\ ~ f.ok =>
       \A h \in 1 .. Len(t.x[m].sep) :
         IF h <= f.i THEN t.d[t.x[m].sep[h]][1] < k ELSE k < t.d[t.x[m].sep[h]][1]

(* What Find finds on an index page, in terms of the separators.           *)
LEMMA SepKeysAt ==
  ASSUME NEW t, NEW s, Sound(t, s), NEW m \in DOMAIN t.x, NEW k \in Key,
         NEW f, Located(t, Index(m), k, f)
  PROVE  SepKeys(t, s, m, k, f)
<1> DEFINE sep == t.x[m].sep
           w == Len(sep)
           i == f.i
           K(h) == t.d[sep[h]][1]
<1>1. Index(m).at = "x" /\ Index(m).no = m
  BY DEF Index
<1>2. Count(t, Index(m)) = w /\ \A h : KeyAt(t, Index(m), h) = K(h + 1)
  BY <1>1 DEF Count, KeyAt
<1>3. w \in Nat
  <2> DEFINE x == t.x
             n == Len(t.d)
  <2>1. Laid(n, t.r, x, s)
    BY DEF Sound
  <2> HIDE DEF x, n
  <2>2. Len(x[m].sep) \in Nat
    BY <2>1, PageType DEF x
  <2> QED
    BY <2>2 DEF x
<1> HIDE DEF w, sep, i, K
<1>4. /\ i \in 0 .. w /\ f.ok \in BOOLEAN
      /\ f.ok => i < w /\ K(i + 1) = k
      /\ ~ f.ok => (i < w => k < K(i + 1))
      /\ \A h \in 0 .. i - 1 : K(h + 1) < k
      /\ \A h \in i + 1 .. w - 1 : k < K(h + 1)
  BY <1>2, Zenon DEF Located, i
<1>5. ASSUME ~ f.ok, NEW h \in 1 .. w
      PROVE  IF h <= i THEN K(h) < k ELSE k < K(h)
  <2> DEFINE g == h - 1
  <2>1. g + 1 = h /\ (h <= i => g \in 0 .. i - 1) /\ (~ (h <= i) => g = i \/ g \in i + 1 .. w - 1) /\ g < w
    BY <1>3, <1>4
  <2> HIDE DEF g
  <2>2. CASE h <= i
    BY <1>4, <2>1, <2>2
  <2>3. CASE ~ (h <= i)
    <3>1. k < K(g + 1)
      BY <1>4, <1>5, <2>1, <2>3
    <3> QED
      BY <2>1, <2>3, <3>1
  <2> QED
    BY <2>2, <2>3
<1>6. f.ok => i + 1 \in 1 .. w
  BY <1>3, <1>4
<1> QED
  BY <1>4, <1>5, <1>6 DEF SepKeys, i, w, sep, K

(* A search goes on below an index page just where its key may be.         *)
LEMMA HeldInIndex ==
  ASSUME NEW t, NEW s, Sound(t, s), Full(t), NEW m \in DOMAIN t.x, NEW k \in Key,
         NEW f, Located(t, Index(m), k, f)
  PROVE  HeldIn(t, s, Index(m), k) <=> f.ok \/ HeldIn(t, s, t.x[m].ch[f.i + 1], k)
<1> DEFINE x == t.x
           d == t.d
           n == Len(d)
           w == Len(x[m].sep)
           i == f.i
           o == i + 1
           sep == x[m].sep
           ch == x[m].ch
           q == Index(m)
<1>1. Laid(n, t.r, x, s) /\ d \in Seq(Seq(Key)) /\ m \in DOMAIN x
  BY DEF Sound
<1>2. Firsts(d)
  BY SoundFirsts DEF Full
<1>3. SepKeys(t, s, m, k, f)
  BY SepKeysAt
<1>4. From(s, q) = s[m].lo /\ To(s, q) = s[m].hi
  BY Pointing
<1> HIDE DEF x, n, q, d
<1>5. /\ w \in Nat /\ DOMAIN sep = 1 .. w /\ \A h \in 1 .. w : sep[h] \in 1 .. n
      /\ s[m].lo \in Int /\ s[m].hi \in Int /\ n \in Nat
      /\ \A h \in 1 .. w + 1 : ch[h] \in PagesOf(n, x)
  BY <1>1, PageType
<1>6. DOMAIN d = 1 .. n
  BY <1>1, Elements DEF n
<1>7. /\ \A h \in 1 .. w : sep[h] = From(s, ch[h + 1]) /\ sep[h] = To(s, ch[h]) + 1
  BY <1>1 DEF Laid, Kids
<1>8. \A h \in 1 .. w + 1 : s[m].lo <= From(s, ch[h]) /\ To(s, ch[h]) <= s[m].hi
  BY <1>1, KidsInside
<1>9. \A h \in 1 .. w + 1 : From(s, ch[h]) \in Int /\ To(s, ch[h]) \in Int /\ From(s, ch[h]) <= To(s, ch[h])
  <2>1. Typed(n, t.r, x, s)
    BY <1>1 DEF Laid
  <2> QED
    BY <1>5, <2>1, SpanType
<1>10. /\ f.ok \in BOOLEAN /\ i \in 0 .. w
       /\ f.ok => o \in 1 .. w /\ d[sep[o]][1] = k
       /\ ~ f.ok => \A h \in 1 .. w : IF h <= i THEN d[sep[h]][1] < k ELSE k < d[sep[h]][1]
  BY <1>3 DEF SepKeys, x, d
<1> DEFINE c == ch[o]
<1>11. ASSUME f.ok PROVE HeldIn(t, s, q, k)
  <2> DEFINE j == sep[o]
  <2>1. j \in 1 .. n /\ d[j][1] = k /\ o \in 1 .. w /\ j = From(s, ch[o + 1]) /\ o + 1 \in 1 .. w + 1
    BY <1>5, <1>7, <1>10, <1>11
  <2> DEFINE h == o + 1
  <2> HIDE DEF o, j, h
  <2>2. j = From(s, ch[h]) /\ h \in 1 .. w + 1
    BY <2>1 DEF h
  <2>3. s[m].lo <= j /\ j <= s[m].hi
    <3> DEFINE e == To(s, ch[h])
    <3>1. s[m].lo <= j /\ j <= e /\ e <= s[m].hi /\ e \in Int /\ j \in Int
      BY <1>8, <1>9, <2>2
    <3> HIDE DEF e
    <3> QED
      BY <1>5, <3>1
  <2>4. k \in ToSet(d[j]) /\ j \in DOMAIN d
    BY <1>2, <1>6, <2>1 DEF Firsts
  <2> QED
    BY <1>4, <2>3, <2>4 DEF HeldIn, d
<1>12. ASSUME HeldIn(t, s, c, k) PROVE HeldIn(t, s, q, k)
  <2>1. PICK j \in DOMAIN d : From(s, c) <= j /\ j <= To(s, c) /\ k \in ToSet(d[j])
    BY <1>12 DEF HeldIn, d
  <2>2. o \in 1 .. w + 1
    BY <1>5, <1>10
  <2>3. s[m].lo <= j /\ j <= s[m].hi
    <3> DEFINE a == From(s, c)
               b == To(s, c)
    <3>1. a \in Int /\ b \in Int /\ s[m].lo <= a /\ b <= s[m].hi /\ a <= j /\ j <= b /\ j \in Int
      BY <1>5, <1>6, <1>8, <1>9, <2>1, <2>2
    <3> HIDE DEF a, b
    <3> QED
      BY <1>5, <3>1
  <2> QED
    BY <1>4, <2>1, <2>3 DEF HeldIn, d
<1>13. ASSUME HeldIn(t, s, q, k), ~ f.ok PROVE HeldIn(t, s, c, k)
  <2>1. PICK j \in DOMAIN d : s[m].lo <= j /\ j <= s[m].hi /\ k \in ToSet(d[j])
    BY <1>4, <1>13 DEF HeldIn, d
  <2>2. j \in Int
    BY <1>5, <1>6, <2>1
  <2>3. PICK h \in 1 .. w + 1 : From(s, ch[h]) <= j /\ j <= To(s, ch[h])
    BY <1>1, <2>1, <2>2, HeldByChild
  <2>0. k \in Int
    BY KeyNumber
  <2>4. k \in Int /\ d[j][1] <= k /\ d[j][1] \in Int
    BY <1>2, <2>0, <2>1 DEF Firsts
  <2>5. ~ (h <= i)
    <3> SUFFICES ASSUME h <= i PROVE FALSE
      OBVIOUS
    <3>1. h \in 1 .. w
      BY <1>5, <1>10, <2>3
    <3> DEFINE g == sep[h]
    <3>2. g \in DOMAIN d /\ g = To(s, ch[h]) + 1 /\ d[g][1] < k
      BY <1>5, <1>6, <1>7, <1>10, <1>13, <3>1
    <3>3. j < g
      <4> DEFINE b == To(s, ch[h])
      <4>1. b \in Int /\ j <= b /\ g = b + 1
        BY <1>9, <2>3, <3>2
      <4> HIDE DEF b, g
      <4> QED
        BY <2>2, <4>1
    <3> HIDE DEF g
    <3>4. k < d[g][1] /\ d[g][1] \in Int
      BY <1>2, <2>1, <3>2, <3>3 DEF Firsts
    <3> DEFINE a == d[g][1]
    <3>5. k < a /\ a < k /\ a \in Int
      BY <3>2, <3>4
    <3> HIDE DEF a
    <3> QED
      BY <2>4, <3>5
  <2>6. ~ (h > i + 1)
    <3> SUFFICES ASSUME h > i + 1 PROVE FALSE
      OBVIOUS
    <3> DEFINE e == h - 1
    <3>1. e \in 1 .. w /\ ~ (e <= i) /\ e + 1 = h
      BY <1>5, <1>10, <2>3
    <3> HIDE DEF e
    <3> DEFINE g == sep[e]
    <3>2. g \in DOMAIN d /\ g \in Int /\ g = From(s, ch[h]) /\ k < d[g][1]
      BY <1>5, <1>6, <1>7, <1>10, <1>13, <3>1
    <3>3. g <= j
      BY <2>3, <3>2
    <3> HIDE DEF g
    <3>4. d[g][1] <= d[j][1]
      <4>1. CASE g = j
        BY <2>4, <4>1
      <4>2. CASE g # j
        <5>1. g < j
          BY <2>2, <3>2, <3>3, <4>2
        <5>2. d[g][1] \in ToSet(d[g]) /\ d[g][1] \in Int
          BY <1>2, <3>2 DEF Firsts
        <5>3. d[g][1] < d[j][1]
          BY <1>2, <3>2, <5>1, <5>2 DEF Firsts
        <5> DEFINE a == d[g][1]
                   b == d[j][1]
        <5>4. a < b /\ a \in Int /\ b \in Int
          BY <2>4, <5>2, <5>3
        <5> HIDE DEF a, b
        <5>5. a <= b
          BY <5>4
        <5> QED
          BY <5>5 DEF a, b
      <4> QED
        BY <4>1, <4>2
    <3>5. d[g][1] \in Int
      BY <1>2, <3>2 DEF Firsts
    <3> DEFINE a == d[g][1]
               b == d[j][1]
    <3>6. a \in Int /\ b \in Int /\ k \in Int /\ k < a /\ a <= b /\ b <= k
      BY <2>4, <3>2, <3>4, <3>5
    <3> HIDE DEF a, b
    <3> QED
      BY <3>6
  <2>7. h = o
    BY <1>5, <1>10, <2>3, <2>5, <2>6
  <2> QED
    BY <2>1, <2>3, <2>7 DEF HeldIn, d
<1>14. c = t.x[m].ch[f.i + 1]
  BY DEF x
<1> HIDE DEF c, o, i
<1> QED
  BY <1>10, <1>11, <1>12, <1>13, <1>14 DEF q

(* What SeekOk says at a pointer, if seek is what it says below.           *)
Sought(t, k, seek, q) ==
  IF q = Nil THEN FALSE
  ELSE LET f == Find(t, q, k)
       IN  f.ok \/ (q.at = "x" /\ seek[t.x[q.no].ch[f.i + 1]])

(* The definition of SeekOk's seek.                                        *)
Seeks(t, k, seek) == seek = [q \in Pointed(t) |-> Sought(t, k, seek, q)]

(* What is said of the children of q is whether they hold the key.         *)
SoughtBelow(t, s, k, seek, q) ==
  q.at = "x" =>
    \A i \in 1 .. Len(t.x[q.no].sep) + 1 :
      seek[t.x[q.no].ch[i]] <=> HeldIn(t, s, t.x[q.no].ch[i], k)

(* Seek is right at a page if it is right at its children.                 *)
LEMMA SoughtHeld ==
  ASSUME NEW t, NEW s, Sound(t, s), Full(t), NEW k \in Key, NEW seek,
         NEW q \in Pointed(t), SoughtBelow(t, s, k, seek, q)
  PROVE  Sought(t, k, seek, q) <=> HeldIn(t, s, q, k)
<1> DEFINE n == Len(t.d)
           f == Find(t, q, k)
<1>1. q \in PagesOf(n, t.x)
  BY PointedIn
<1>2. Located(t, q, k, f)
  BY <1>1, FindPlace DEF Full
<1>3. \/ q.at = "d" /\ q.no \in 1 .. n /\ q = Data(q.no)
      \/ q.at = "x" /\ q.no \in DOMAIN t.x /\ q = Index(q.no)
  BY <1>1, PointerKinds
<1>4. q # Nil
  BY <1>3 DEF Nil
<1>5. Sought(t, k, seek, q) <=> f.ok \/ (q.at = "x" /\ seek[t.x[q.no].ch[f.i + 1]])
  BY <1>4 DEF Sought
<1> HIDE DEF f
<1>6. CASE q.at = "d"
  <2> DEFINE j == q.no
  <2>1. q = Data(j) /\ j \in 1 .. n
    BY <1>3, <1>6
  <2> HIDE DEF j
  <2>2. Located(t, Data(j), k, f)
    BY <1>2, <2>1
  <2>3. HeldIn(t, s, Data(j), k) <=> f.ok
    BY <2>1, <2>2, HeldInData
  <2> QED
    BY <1>5, <1>6, <2>1, <2>3
<1>7. CASE q.at = "x"
  <2> DEFINE m == q.no
             i == f.i
             c == t.x[m].ch[i + 1]
  <2>1. q = Index(m) /\ m \in DOMAIN t.x
    BY <1>3, <1>7
  <2>2. \A h \in 1 .. Len(t.x[m].sep) + 1 : seek[t.x[m].ch[h]] <=> HeldIn(t, s, t.x[m].ch[h], k)
    BY <1>7 DEF SoughtBelow
  <2>3. Sought(t, k, seek, q) <=> f.ok \/ seek[c]
    BY <1>5, <1>7
  <2> HIDE DEF m
  <2>4. Located(t, Index(m), k, f)
    BY <1>2, <2>1
  <2>5. SepKeys(t, s, m, k, f)
    BY <2>1, <2>4, SepKeysAt
  <2>6. Len(t.x[m].sep) \in Nat
    <3> DEFINE x == t.x
    <3>1. Laid(n, t.r, x, s)
      BY DEF Sound
    <3> HIDE DEF x, n
    <3>2. m \in DOMAIN x
      BY <2>1 DEF x
    <3>3. Len(x[m].sep) \in Nat
      BY <3>1, <3>2, PageType
    <3> QED
      BY <3>3 DEF x
  <2>7. i + 1 \in 1 .. Len(t.x[m].sep) + 1
    BY <2>5, <2>6 DEF SepKeys
  <2>8. HeldIn(t, s, Index(m), k) <=> f.ok \/ HeldIn(t, s, c, k)
    BY <2>1, <2>4, HeldInIndex
  <2>9. seek[c] <=> HeldIn(t, s, c, k)
    BY <2>2, <2>7
  <2> QED
    BY <2>1, <2>3, <2>8, <2>9
<1> QED
  BY <1>3, <1>6, <1>7

(* There is one function that satisfies the definition of SeekOk.          *)
LEMMA SeekExists ==
  ASSUME NEW t, NEW s, Sound(t, s), Full(t), NEW k \in Key
  PROVE  \E seek : Seeks(t, k, seek)
<1> DEFINE n == Len(t.d)
           W == [q \in Pointed(t) |-> HeldIn(t, s, q, k)]
<1>1. \A m \in DOMAIN t.x : \A i \in 1 .. Len(t.x[m].sep) + 1 : t.x[m].ch[i] \in Pointed(t)
  BY PointedIn
<1>2. ASSUME NEW q \in Pointed(t)
      PROVE  Sought(t, k, W, q) <=> HeldIn(t, s, q, k)
  <2>1. q \in PagesOf(n, t.x)
    BY PointedIn
  <2>2. q.at = "x" => q.no \in DOMAIN t.x
    BY <2>1, PointerKinds
  <2>3. SoughtBelow(t, s, k, W, q)
    <3> SUFFICES ASSUME q.at = "x", NEW i \in 1 .. Len(t.x[q.no].sep) + 1
                 PROVE  W[t.x[q.no].ch[i]] <=> HeldIn(t, s, t.x[q.no].ch[i], k)
      BY DEF SoughtBelow
    <3>1. t.x[q.no].ch[i] \in Pointed(t)
      BY <1>1, <2>2
    <3> QED
      BY <3>1
  <2> HIDE DEF W
  <2> QED
    BY <2>3, SoughtHeld
<1>3. \A q \in Pointed(t) : Sought(t, k, W, q) = HeldIn(t, s, q, k)
  BY <1>2 DEF Sought, HeldIn
<1>4. [q \in Pointed(t) |-> Sought(t, k, W, q)] = [q \in Pointed(t) |-> HeldIn(t, s, q, k)]
  <2> HIDE DEF W
  <2> QED
    BY <1>3
<1> QED
  BY <1>4 DEF Seeks

(* Seek is right, from the bottom up to the root.                          *)
LEMMA SeekHeld ==
  ASSUME NEW t, NEW s, Sound(t, s), Full(t), NEW k \in Key, NEW seek, Seeks(t, k, seek)
  PROVE  seek[t.r] <=> \E j \in DOMAIN t.d : k \in ToSet(t.d[j])
<1> DEFINE x == t.x
           n == Len(t.d)
           N == Height(s, t.r)
           P == Pointed(t)
           good == {h \in 0 .. N : \A q \in P : Height(s, q) <= h => (seek[q] <=> HeldIn(t, s, q, k))}
<1>1. Laid(n, t.r, x, s) /\ DOMAIN t.d = 1 .. n /\ n \in Nat
  BY Elements DEF Sound
<1>2. /\ t.r \in P /\ P \subseteq PagesOf(n, x)
      /\ \A m \in DOMAIN x : \A i \in 1 .. Len(x[m].sep) + 1 : x[m].ch[i] \in P
  BY PointedIn
<1>3. Typed(n, t.r, x, s)
  BY <1>1 DEF Laid
<1>4. \A q \in P : Height(s, q) \in Nat /\ (Height(s, q) = 0 <=> q.at = "d")
  <2> HIDE DEF P, n, x
  <2> QED
    BY <1>2, <1>3, SpanType
<1>5. \A q \in P : seek[q] <=> Sought(t, k, seek, q)
  BY DEF Seeks, Sought
<1>6. ASSUME NEW q \in P, Height(s, q) = 0
      PROVE  seek[q] <=> HeldIn(t, s, q, k)
  <2>1. SoughtBelow(t, s, k, seek, q)
    BY <1>4, <1>6 DEF SoughtBelow
  <2>2. Sought(t, k, seek, q) <=> HeldIn(t, s, q, k)
    BY <2>1, SoughtHeld
  <2> QED
    BY <1>5, <2>2
<1>7. ASSUME NEW h \in 1 .. N, h - 1 \in good, NEW q \in P, Height(s, q) <= h
      PROVE  seek[q] <=> HeldIn(t, s, q, k)
  <2>1. \A c \in P : Height(s, c) <= h - 1 => (seek[c] <=> HeldIn(t, s, c, k))
    BY <1>7
  <2>2. q \in PagesOf(n, x)
    BY <1>2
  <2>3. q.at = "x" => q.no \in DOMAIN x /\ q = Index(q.no)
    BY <2>2, PointerKinds
  <2>4. SoughtBelow(t, s, k, seek, q)
    <3> SUFFICES ASSUME q.at = "x", NEW i \in 1 .. Len(t.x[q.no].sep) + 1
                 PROVE  seek[t.x[q.no].ch[i]] <=> HeldIn(t, s, t.x[q.no].ch[i], k)
      BY DEF SoughtBelow
    <3> DEFINE m == q.no
               c == x[m].ch[i]
    <3>1. m \in DOMAIN x /\ q = Index(m) /\ i \in 1 .. Len(x[m].sep) + 1
      BY <2>3
    <3> HIDE DEF m, x, n
    <3>2. Height(s, c) = s[m].ht - 1 /\ c \in P
      BY <1>1, <1>2, <3>1, KidsInside
    <3>3. s[m].ht = Height(s, q)
      BY <3>1, Pointing
    <3>4. Height(s, c) <= h - 1
      <4> DEFINE a == Height(s, c)
                 b == Height(s, q)
      <4>1. a \in Nat /\ b \in Nat /\ a = b - 1 /\ b <= h /\ h \in Int
        BY <1>4, <1>7, <3>2, <3>3
      <4> HIDE DEF a, b
      <4>2. a <= h - 1
        BY <4>1
      <4> QED
        BY <4>2 DEF a
    <3>5. seek[c] <=> HeldIn(t, s, c, k)
      BY <2>1, <3>2, <3>4
    <3> QED
      BY <3>5 DEF m, x
  <2>5. Sought(t, k, seek, q) <=> HeldIn(t, s, q, k)
    BY <2>4, SoughtHeld
  <2> QED
    BY <1>5, <2>5
<1>8. N \in Nat
  BY <1>2, <1>4
<1>9. 0 \in good
  <2>1. \A q \in P : Height(s, q) <= 0 => Height(s, q) = 0
    <3> SUFFICES ASSUME NEW q \in P, Height(s, q) <= 0 PROVE Height(s, q) = 0
      OBVIOUS
    <3> DEFINE a == Height(s, q)
    <3>1. a \in Nat /\ a <= 0
      BY <1>4
    <3> HIDE DEF a
    <3>2. a = 0
      BY <3>1
    <3> QED
      BY <3>2 DEF a
  <2>2. \A q \in P : Height(s, q) <= 0 => (seek[q] <=> HeldIn(t, s, q, k))
    BY <1>6, <2>1
  <2> HIDE DEF P, N
  <2> QED
    BY <1>8, <2>2
<1>10. \A h \in 1 .. N : h - 1 \in good => h \in good
  <2> SUFFICES ASSUME NEW h \in 1 .. N, h - 1 \in good PROVE h \in good
    OBVIOUS
  <2>1. \A q \in P : Height(s, q) <= h => (seek[q] <=> HeldIn(t, s, q, k))
    BY <1>7
  <2> HIDE DEF P, N
  <2>2. h \in 0 .. N
    BY <1>8
  <2> QED
    BY <2>1, <2>2
<1>11. N \in good
  <2> HIDE DEF good, N
  <2>1. 0 .. N \subseteq good
    BY <1>8, <1>9, <1>10, ReachedBySteps
  <2> QED
    BY <1>8, <2>1
<1>12. seek[t.r] <=> HeldIn(t, s, t.r, k)
  <2>1. \A q \in P : Height(s, q) <= N => (seek[q] <=> HeldIn(t, s, q, k))
    BY <1>11
  <2> DEFINE a == N
  <2>2. a <= a
    <3> HIDE DEF a
    <3>1. a \in Nat
      BY <1>8 DEF a
    <3> QED
      BY <3>1
  <2> QED
    BY <1>2, <2>1, <2>2
<1>13. From(s, t.r) = 1 /\ To(s, t.r) = n
  BY <1>1 DEF Laid, Rooted
<1>14. HeldIn(t, s, t.r, k) <=> \E j \in DOMAIN t.d : k \in ToSet(t.d[j])
  <2>1. \A j \in DOMAIN t.d : 1 <= j /\ j <= n
    <3> HIDE DEF n
    <3> QED
      BY <1>1
  <2> QED
    BY <1>13, <2>1 DEF HeldIn
<1> QED
  BY <1>12, <1>14

(* SeekOk is what every function that satisfies its definition says, if    *)
(* there is one.                                                           *)
LEMMA SeekAnswers ==
  ASSUME NEW t, NEW k \in Key, NEW v, \E seek : Seeks(t, k, seek),
         \A seek : Seeks(t, k, seek) => (seek[t.r] <=> v)
  PROVE  SeekOk(t, k) <=> v
<1> DEFINE Fix(seek) ==
             seek = [q \in {t.r} \cup UNION {ToSet(t.x[n].ch) : n \in DOMAIN t.x} |->
                       IF q = Nil THEN FALSE
                       ELSE LET f == Find(t, q, k)
                            IN  f.ok \/ (q.at = "x" /\ seek[t.x[q.no].ch[f.i + 1]])]
<1>1. SeekOk(t, k) = (CHOOSE seek : Fix(seek))[t.r]
  BY DEF SeekOk
<1>2. ASSUME NEW seek
      PROVE  Fix(seek) <=> Seeks(t, k, seek)
  BY DEF Seeks, Sought, Pointed
<1>3. \E seek : Fix(seek)
  <2>1. PICK seek : Seeks(t, k, seek)
    BY Zenon
  <2>2. Fix(seek)
    BY <1>2, <2>1
  <2> HIDE DEF Fix
  <2> QED
    BY <2>2
<1> DEFINE s == CHOOSE seek : Fix(seek)
<1>4. Fix(s)
  <2> HIDE DEF Fix
  <2> QED
    BY <1>3, Zenon
<1>5. Seeks(t, k, s)
  BY <1>2, <1>4
<1> HIDE DEF s
<1>6. s[t.r] <=> v
  BY <1>5
<1>7. SeekOk(t, k) = s[t.r]
  BY <1>1 DEF s
<1> HIDE DEF Fix
<1> QED
  BY <1>6, <1>7

(* Nothing is found in the empty tree.                                     *)
LEMMA SeekEmpty ==
  ASSUME NEW k \in Key
  PROVE  ~ SeekOk(Empty, k)
<1> DEFINE t == Empty
           W == [q \in {Nil} |-> FALSE]
<1>1. t.r = Nil /\ DOMAIN t.x = {}
  BY DEF Empty
<1>2. Pointed(t) = {Nil}
  <2> HIDE DEF t
  <2> QED
    BY <1>1 DEF Pointed
<1> HIDE DEF t
<1>3. Seeks(t, k, W)
  BY <1>2 DEF Seeks, Sought
<1>4. \E seek : Seeks(t, k, seek)
  <2> HIDE DEF W
  <2> QED
    BY <1>3
<1>5. ASSUME NEW seek, Seeks(t, k, seek)
      PROVE  seek[t.r] <=> FALSE
  BY <1>1, <1>2, <1>5 DEF Seeks, Sought
<1>6. SeekOk(t, k) <=> FALSE
  BY <1>4, <1>5, SeekAnswers
<1> QED
  BY <1>6 DEF t

(* Seek finds the keys that are there, and no others.                      *)
LEMMA SeekSays ==
  ASSUME NEW t, Good(t, Idle), NEW k \in Key
  PROVE  SeekOk(t, k) <=> k \in KeysOf(t.d)
<1>1. CASE t = Empty
  <2>1. KeysOf(t.d) = {}
    BY <1>1, NoKeys
  <2> QED
    BY <1>1, <2>1, SeekEmpty
<1>2. CASE t # Empty
  <2>1. PICK s : Holds(t, s, Idle)
    BY <1>2 DEF Good
  <2>2. Sound(t, s) /\ Full(t)
    BY <2>1 DEF Holds
  <2> DEFINE v == \E j \in DOMAIN t.d : k \in ToSet(t.d[j])
  <2>3. \E seek : Seeks(t, k, seek)
    BY <2>2, SeekExists
  <2>4. \A seek : Seeks(t, k, seek) => (seek[t.r] <=> v)
    BY <2>2, SeekHeld
  <2> HIDE DEF v
  <2>5. SeekOk(t, k) <=> v
    BY <2>3, <2>4, SeekAnswers
  <2> QED
    BY <2>5, KeyIn DEF v
<1> QED
  BY <1>1, <1>2

(* Between calls Seek finds the members and nothing else, Len counts them  *)
(* and AllData lists each once and in order.                               *)
THEOREM SeekFindsMembersAlways == Spec => []SeekFindsMembers
<1>1. ASSUME IInv PROVE SeekFindsMembers
  <2> SUFFICES ASSUME call = Idle
               PROVE  /\ \A k \in Key : SeekOk(tree, k) <=> k \in Contents
                      /\ tree.c = Cardinality(Contents)
                      /\ ToSet(AllData(tree)) = Contents
                      /\ \A i, j \in DOMAIN AllData(tree) :
                           i < j => AllData(tree)[i] < AllData(tree)[j]
    BY DEF SeekFindsMembers
  <2>1. Good(tree, Idle)
    BY <1>1 DEF IInv
  <2>2. Contents = KeysOf(tree.d)
    BY DEF Contents, KeysOf
  <2>3. Listed(tree.d, AllData(tree)) /\ tree.c = Cardinality(KeysOf(tree.d))
    BY <2>1, AllListed
  <2>4. \A k \in Key : SeekOk(tree, k) <=> k \in KeysOf(tree.d)
    BY <2>1, SeekSays
  <2> DEFINE u == AllData(tree)
  <2> HIDE DEF u
  <2>5. ToSet(u) = KeysOf(tree.d) /\ Asc(u)
    BY <2>3 DEF Listed, u
  <2>6. \A i, j \in DOMAIN u : i < j => u[i] < u[j]
    BY <2>5 DEF Asc
  <2> QED
    BY <2>2, <2>3, <2>4, <2>5, <2>6 DEF u
<1> QED
  BY <1>1, GoodAlways, PTL

-----------------------------------------------------------------------------
(* The shape that WellFormed asks for.                                     *)

(* What holds of a pointer when it holds of the children holds of all.     *)
LEMMA FromBelow ==
  ASSUME NEW t, NEW s, Sound(t, s), NEW good,
         \A q \in Pointed(t) :
           (q.at = "x" => \A i \in 1 .. Len(t.x[q.no].sep) + 1 : t.x[q.no].ch[i] \in good) => q \in good
  PROVE  Pointed(t) \subseteq good
<1> DEFINE x == t.x
           n == Len(t.d)
           N == Height(s, t.r)
           P == Pointed(t)
           low == {h \in 0 .. N : \A q \in P : Height(s, q) <= h => q \in good}
<1>1. Laid(n, t.r, x, s)
  BY DEF Sound
<1>2. /\ t.r \in P /\ P \subseteq PagesOf(n, x)
      /\ \A m \in DOMAIN x : \A i \in 1 .. Len(x[m].sep) + 1 : x[m].ch[i] \in P
  BY PointedIn
<1>3. Typed(n, t.r, x, s)
  BY <1>1 DEF Laid
<1>4. \A q \in P : Height(s, q) \in Nat /\ (Height(s, q) = 0 <=> q.at = "d")
  <2> HIDE DEF P, n, x
  <2> QED
    BY <1>2, <1>3, SpanType
<1>5. ASSUME NEW h \in 0 .. N, h = 0 \/ h - 1 \in low, NEW q \in P, Height(s, q) <= h
      PROVE  q \in good
  <2>1. q \in PagesOf(n, x)
    BY <1>2
  <2>2. q.at = "x" => q.no \in DOMAIN x /\ q = Index(q.no)
    BY <2>1, PointerKinds
  <2> SUFFICES ASSUME q.at = "x", NEW i \in 1 .. Len(t.x[q.no].sep) + 1
               PROVE  t.x[q.no].ch[i] \in good
    OBVIOUS
  <2> DEFINE m == q.no
             c == x[m].ch[i]
  <2>3. m \in DOMAIN x /\ q = Index(m) /\ i \in 1 .. Len(x[m].sep) + 1
    BY <2>2
  <2> HIDE DEF m, x, n
  <2>4. Height(s, c) = s[m].ht - 1 /\ c \in P
    BY <1>1, <1>2, <2>3, KidsInside
  <2>5. s[m].ht = Height(s, q)
    BY <2>3, Pointing
  <2>6. Height(s, c) <= h - 1 /\ h # 0
    <3> DEFINE a == Height(s, c)
               b == Height(s, q)
    <3>1. a \in Nat /\ b \in Nat /\ a = b - 1 /\ b <= h /\ h \in Int
      BY <1>4, <1>5, <2>4, <2>5
    <3> HIDE DEF a, b
    <3>2. a <= h - 1 /\ h # 0
      BY <3>1
    <3> QED
      BY <3>2 DEF a
  <2>7. \A p \in P : Height(s, p) <= h - 1 => p \in good
    BY <1>5, <2>6
  <2> QED
    BY <2>4, <2>6, <2>7 DEF m, x
<1>6. N \in Nat
  BY <1>2, <1>4
<1>7. 0 \in low
  <2>1. 0 \in 0 .. N
    <3> HIDE DEF N
    <3> QED
      BY <1>6
  <2>2. \A q \in P : Height(s, q) <= 0 => q \in good
    BY <1>5, <2>1
  <2> HIDE DEF P, N
  <2> QED
    BY <2>1, <2>2
<1>8. \A h \in 1 .. N : h - 1 \in low => h \in low
  <2> SUFFICES ASSUME NEW h \in 1 .. N, h - 1 \in low PROVE h \in low
    OBVIOUS
  <2>1. h \in 0 .. N
    <3> HIDE DEF N
    <3> QED
      BY <1>6
  <2>2. \A q \in P : Height(s, q) <= h => q \in good
    BY <1>5, <2>1
  <2> HIDE DEF P, N
  <2> QED
    BY <2>1, <2>2
<1>9. N \in low
  <2> HIDE DEF low, N
  <2>1. 0 .. N \subseteq low
    BY <1>6, <1>7, <1>8, ReachedBySteps
  <2> QED
    BY <1>6, <2>1
<1>10. \A q \in P : Height(s, q) <= N
  <2> SUFFICES ASSUME NEW q \in P PROVE Height(s, q) <= N
    OBVIOUS
  <2> DEFINE a == Height(s, q)
             b == N
  <2>1. q \in PagesOf(n, x)
    BY <1>2
  <2>2. q.at = "x" => q.no \in DOMAIN x /\ q = Index(q.no)
    BY <2>1, PointerKinds
  <2>3. a \in Nat /\ b \in Nat /\ (a = 0 <=> q.at = "d")
    BY <1>4, <1>6
  <2>4. \A m \in DOMAIN x : Index(m) # t.r => s[m].ht < b
    BY <1>1 DEF Laid, Rooted
  <2>5. a = b \/ a = 0 \/ a < b
    <3>1. CASE q.at = "d"
      BY <2>3, <3>1
    <3>2. CASE q = t.r
      BY <3>2
    <3>3. CASE q.at # "d" /\ q # t.r
      <4> DEFINE m == q.no
      <4>1. m \in DOMAIN x /\ q = Index(m)
        BY <2>1, <2>2, <3>3, PointerKinds
      <4> HIDE DEF m
      <4>2. a = s[m].ht
        BY <4>1, Pointing
      <4> QED
        BY <2>4, <3>3, <4>1, <4>2
    <3> QED
      BY <3>1, <3>2, <3>3
  <2> HIDE DEF a, b
  <2>6. a <= b
    BY <2>3, <2>5
  <2> QED
    BY <2>6 DEF a, b
<1> QED
  BY <1>9, <1>10

(* The places from a to b.                                                 *)
Run(a, b) == [j \in 1 .. b - a + 1 |-> a + j - 1]

(* The length and the elements of a run.                                   *)
LEMMA RunIs ==
  ASSUME NEW a \in Int, NEW b \in Int, a <= b
  PROVE  /\ Run(a, b) \in Seq(Int) /\ Len(Run(a, b)) = b - a + 1
         /\ Run(a, b)[1] = a
         /\ \A j \in 1 .. b - a + 1 : Run(a, b)[j] = a + j - 1
<1> DEFINE u == Run(a, b)
           n == b - a + 1
<1>1. n \in Nat /\ 1 \in 1 .. n
  OBVIOUS
<1>2. u = [j \in 1 .. n |-> a + j - 1]
  BY DEF Run
<1> HIDE DEF n, u
<1>3. u \in Seq(Int) /\ Len(u) = n
  BY <1>1, <1>2
<1>4. \A j \in 1 .. n : u[j] = a + j - 1
  BY <1>2
<1>5. u[1] = a
  BY <1>1, <1>4
<1> QED
  BY <1>3, <1>4, <1>5 DEF u, n

(* Two runs that follow on each other are one.                             *)
LEMMA RunsJoin ==
  ASSUME NEW a \in Int, NEW b \in Int, NEW c \in Int, a <= b, b < c
  PROVE  Run(a, b) \o Run(b + 1, c) = Run(a, c)
<1> DEFINE u == Run(a, b)
           v == Run(b + 1, c)
           w == Run(a, c)
           k == b - a + 1
           l == c - b
           n == c - a + 1
<1>1. u \in Seq(Int) /\ Len(u) = k /\ \A j \in 1 .. k : u[j] = a + j - 1
  BY RunIs
<1>2. v \in Seq(Int) /\ Len(v) = l /\ \A j \in 1 .. l : v[j] = b + 1 + j - 1
  <2> DEFINE e == b + 1
  <2>1. e \in Int /\ e <= c /\ c - e + 1 = l
    OBVIOUS
  <2> HIDE DEF e, l
  <2>2. Run(e, c) \in Seq(Int) /\ Len(Run(e, c)) = l /\ \A j \in 1 .. l : Run(e, c)[j] = e + j - 1
    BY <2>1, RunIs
  <2> QED
    BY <2>2 DEF e
<1>0. a <= c
  OBVIOUS
<1>3. w \in Seq(Int) /\ Len(w) = n /\ \A j \in 1 .. n : w[j] = a + j - 1
  BY <1>0, RunIs
<1>4. k \in Nat /\ l \in Nat /\ n = k + l /\ n \in Nat
  OBVIOUS
<1>5. b = a + k - 1
  OBVIOUS
<1> HIDE DEF u, v, w, k, l, n
<1> DEFINE y == u \o v
<1>6. /\ y \in Seq(Int) /\ Len(y) = n
      /\ \A j \in 1 .. n : y[j] = IF j <= k THEN u[j] ELSE v[j - k]
  <2>1. y \in Seq(Int) /\ Len(y) = Len(u) + Len(v)
    BY <1>1, <1>2, ConcatProperties
  <2>2. \A j \in 1 .. Len(u) + Len(v) : y[j] = IF j <= Len(u) THEN u[j] ELSE v[j - Len(u)]
    BY <1>1, <1>2, ConcatProperties
  <2> QED
    BY <1>1, <1>2, <1>4, <2>1, <2>2
<1> HIDE DEF y
<1>7. ASSUME NEW j \in 1 .. n PROVE y[j] = w[j]
  <2>1. CASE j <= k
    <3>1. j \in 1 .. k
      BY <1>4, <2>1
    <3> QED
      BY <1>1, <1>3, <1>6, <2>1, <3>1
  <2>2. CASE ~ (j <= k)
    <3> DEFINE h == j - k
    <3>1. h \in 1 .. l /\ h + k = j
      BY <1>4, <2>2
    <3> HIDE DEF h
    <3>2. v[h] = b + 1 + h - 1
      BY <1>2, <3>1
    <3>3. y[j] = v[h]
      BY <1>6, <2>2 DEF h
    <3>4. w[j] = a + j - 1
      BY <1>3
    <3>5. h \in Int /\ k \in Int
      BY <1>4, <3>1
    <3>6. b + 1 + h - 1 = a + j - 1
      BY <1>5, <3>1, <3>5
    <3> QED
      BY <3>2, <3>3, <3>4, <3>6
  <2> QED
    BY <2>1, <2>2
<1>8. y = w
  <2>1. y = [j \in 1 .. n |-> y[j]] /\ w = [j \in 1 .. n |-> w[j]]
    BY <1>3, <1>4, <1>6
  <2> QED
    BY <1>7, <2>1
<1> QED
  BY <1>8 DEF y, u, v, w

(* The runs of the children of an index page follow on each other.         *)
LEMMA RunsFlatten ==
  ASSUME NEW n, NEW r, NEW x, NEW s, Laid(n, r, x, s), NEW m \in DOMAIN x,
         NEW ss, ss = [i \in 1 .. Len(x[m].sep) + 1 |-> Run(From(s, x[m].ch[i]), To(s, x[m].ch[i]))]
  PROVE  FlattenSeq(ss) = Run(s[m].lo, s[m].hi)
<1> DEFINE w == Len(x[m].sep)
           l == w + 1
           ch == x[m].ch
           A(i) == From(s, ch[i])
           B(i) == To(s, ch[i])
           lo == s[m].lo
           hi == s[m].hi
<1>1. /\ w \in Nat /\ Typed(n, r, x, s) /\ Len(ch) = w + 1
      /\ \A i \in 1 .. w + 1 : ch[i] \in PagesOf(n, x)
  BY PageType
<1>2. \A i \in 1 .. l : A(i) \in Int /\ B(i) \in Int /\ A(i) <= B(i)
  BY <1>1, SpanType
<1>3. \A i \in 1 .. w : A(i + 1) = B(i) + 1
  BY DEF Laid, Kids
<1>4. A(1) = lo /\ B(l) = hi
  BY <1>1 DEF Laid, Kids
<1>5. ss = [i \in 1 .. l |-> Run(A(i), B(i))]
  OBVIOUS
<1>6. l \in Nat /\ w = l - 1 /\ l >= 1
  BY <1>1
<1> HIDE DEF w, l, ch, A, B, lo, hi
<1>7. \A i \in 1 .. l : Run(A(i), B(i)) \in Seq(Int)
  BY <1>2, RunIs
<1>8. ss \in Seq(Seq(Int)) /\ Len(ss) = l
  <2> DEFINE X == Seq(Int)
  <2>1. ss \in [1 .. l -> X]
    BY <1>5, <1>7
  <2> HIDE DEF X
  <2>2. ss \in Seq(X) /\ Len(ss) = l
    BY <1>6, <2>1
  <2> QED
    BY <2>2 DEF X
<1>9. PICK f : Flat(Int, ss, l, f)
  BY <1>6, <1>8, Flattened
<1>10. /\ f[1] = ss[1] /\ FlattenSeq(ss) = f[l]
       /\ \A i \in 1 .. l - 1 : f[i + 1] = f[i] \o ss[i + 1]
  BY <1>9 DEF Flat
<1> DEFINE good == {0} \cup {i \in 1 .. l : lo <= B(i) /\ f[i] = Run(lo, B(i))}
<1>11. ASSUME NEW i \in 1 .. l, i - 1 \in good PROVE i \in good
  <2>1. CASE i = 1
    <3>1. 1 \in 1 .. l
      BY <1>6
    <3>2. f[1] = Run(lo, B(1)) /\ lo <= B(1)
      BY <1>2, <1>4, <1>5, <1>10, <3>1
    <3> QED
      BY <2>1, <3>1, <3>2
  <2>2. CASE i # 1
    <3> DEFINE h == i - 1
    <3>1. h \in 1 .. l - 1 /\ h + 1 = i /\ h # 0 /\ h \in good /\ h \in 1 .. l /\ h \in 1 .. w /\ 1 \in 1 .. l
      BY <1>6, <1>11, <2>2
    <3> HIDE DEF h
    <3>2. lo <= B(h) /\ f[h] = Run(lo, B(h))
      BY <3>1
    <3> DEFINE b == B(h)
               c == B(i)
    <3>3. b \in Int /\ c \in Int /\ lo \in Int /\ lo <= b /\ A(i) = b + 1 /\ A(i) <= c
      BY <1>2, <1>3, <1>4, <3>1, <3>2
    <3>4. f[i] = Run(lo, b) \o Run(b + 1, c)
      BY <1>5, <1>10, <3>1, <3>2, <3>3
    <3> HIDE DEF b, c
    <3>5. b < c
      BY <3>3
    <3>6. Run(lo, b) \o Run(b + 1, c) = Run(lo, c)
      BY <3>3, <3>5, RunsJoin
    <3>7. lo <= c
      BY <3>3, <3>5
    <3>8. f[i] = Run(lo, B(i)) /\ lo <= B(i)
      BY <3>4, <3>6, <3>7 DEF c
    <3> QED
      BY <3>8
  <2> QED
    BY <2>1, <2>2
<1>12. 0 .. l \subseteq good
  <2> 0 \in good
    OBVIOUS
  <2> HIDE DEF good
  <2> QED
    BY <1>6, <1>11, ReachedBySteps
<1>13. f[l] = Run(lo, B(l))
  <2>1. l \in 0 .. l /\ l # 0
    BY <1>6
  <2>2. l \in good
    BY <1>12, <2>1
  <2> QED
    BY <2>1, <2>2
<1> QED
  BY <1>4, <1>10, <1>13 DEF lo, hi

(* What Leaves and Depths say at a pointer, if under and depths are what   *)
(* they say below.                                                         *)
LeavesAt(t, under, q) ==
  IF q = Nil THEN <<>>
  ELSE IF q.at = "d" THEN <<q.no>>
  ELSE FlattenSeq([i \in DOMAIN t.x[q.no].ch |-> under[t.x[q.no].ch[i]]])

(* The same for Depths.                                                    *)
DepthsAt(t, depths, q) ==
  IF q = Nil \/ q.at = "d" THEN {0}
  ELSE {n + 1 : n \in UNION {depths[ch] : ch \in ToSet(t.x[q.no].ch)}}

(* The data pages under a pointer.                                         *)
RunUnder(s, q) == Run(From(s, q), To(s, q))

(* Leaves is the run of data pages under a pointer if it is so for the     *)
(* children.                                                               *)
LEMMA LeavesRun ==
  ASSUME NEW t, NEW s, Sound(t, s), NEW under, NEW q \in Pointed(t),
         q.at = "x" => \A i \in 1 .. Len(t.x[q.no].sep) + 1 :
                         under[t.x[q.no].ch[i]] = RunUnder(s, t.x[q.no].ch[i])
  PROVE  LeavesAt(t, under, q) = RunUnder(s, q)
<1> DEFINE n == Len(t.d)
<1>1. q \in PagesOf(n, t.x)
  BY PointedIn
<1>2. \/ q.at = "d" /\ q.no \in 1 .. n /\ q = Data(q.no)
      \/ q.at = "x" /\ q.no \in DOMAIN t.x /\ q = Index(q.no)
  BY <1>1, PointerKinds
<1>3. q # Nil
  BY <1>2 DEF Nil
<1>4. CASE q.at = "d"
  <2> DEFINE j == q.no
             u == Run(j, j)
  <2>1. From(s, q) = j /\ To(s, q) = j
    BY <1>4 DEF From, To
  <2>2. LeavesAt(t, under, q) = <<j>>
    BY <1>3, <1>4 DEF LeavesAt
  <2>3. j \in Int
    <3>1. n \in Nat
      BY Elements DEF Sound
    <3> QED
      BY <1>2, <1>4, <3>1
  <2> HIDE DEF j
  <2>4. j - j + 1 = 1 /\ j <= j
    BY <2>3
  <2>5. u \in Seq(Int) /\ Len(u) = 1 /\ u[1] = j
    BY <2>3, <2>4, RunIs
  <2> HIDE DEF u
  <2>6. u = <<j>>
    BY <2>5
  <2> QED
    BY <2>1, <2>2, <2>6 DEF RunUnder, u
<1>5. CASE q.at = "x"
  <2> DEFINE m == q.no
             x == t.x
             ch == x[m].ch
             w == Len(x[m].sep)
             ss == [i \in 1 .. w + 1 |-> Run(From(s, ch[i]), To(s, ch[i]))]
  <2>1. m \in DOMAIN x /\ From(s, q) = s[m].lo /\ To(s, q) = s[m].hi
    BY <1>2, <1>5 DEF From, To
  <2>2. Laid(n, t.r, x, s)
    BY DEF Sound
  <2>3. LeavesAt(t, under, q) = FlattenSeq([i \in DOMAIN ch |-> under[ch[i]]])
    BY <1>3, <1>5 DEF LeavesAt
  <2>4. \A i \in 1 .. w + 1 : under[ch[i]] = Run(From(s, ch[i]), To(s, ch[i]))
    BY <1>5 DEF RunUnder
  <2> HIDE DEF m, x, n
  <2>5. DOMAIN ch = 1 .. w + 1
    BY <2>1, <2>2, PageType
  <2> HIDE DEF ch, w
  <2>6. [i \in DOMAIN ch |-> under[ch[i]]] = ss
    BY <2>4, <2>5
  <2> HIDE DEF ss
  <2>7. FlattenSeq(ss) = Run(s[m].lo, s[m].hi)
    BY <2>1, <2>2, RunsFlatten DEF ss, w, ch
  <2> QED
    BY <2>1, <2>3, <2>6, <2>7 DEF RunUnder
<1> QED
  BY <1>2, <1>4, <1>5

(* Depths is the height of a page if it is so for the children.            *)
LEMMA DepthsHeight ==
  ASSUME NEW t, NEW s, Sound(t, s), NEW depths, NEW q \in Pointed(t),
         q.at = "x" => \A i \in 1 .. Len(t.x[q.no].sep) + 1 :
                         depths[t.x[q.no].ch[i]] = {Height(s, t.x[q.no].ch[i])}
  PROVE  DepthsAt(t, depths, q) = {Height(s, q)}
<1> DEFINE n == Len(t.d)
<1>1. q \in PagesOf(n, t.x)
  BY PointedIn
<1>2. \/ q.at = "d" /\ q.no \in 1 .. n /\ q = Data(q.no)
      \/ q.at = "x" /\ q.no \in DOMAIN t.x /\ q = Index(q.no)
  BY <1>1, PointerKinds
<1>3. q # Nil
  BY <1>2 DEF Nil
<1>4. CASE q.at = "d"
  BY <1>4 DEF DepthsAt, Height
<1>5. CASE q.at = "x"
  <2> DEFINE m == q.no
             x == t.x
             ch == x[m].ch
             w == Len(x[m].sep)
             z == s[m].ht
             C == ToSet(ch)
  <2>1. m \in DOMAIN x /\ Height(s, q) = z
    BY <1>2, <1>5 DEF Height
  <2>2. Laid(n, t.r, x, s)
    BY DEF Sound
  <2>3. DepthsAt(t, depths, q) = {h + 1 : h \in UNION {depths[c] : c \in C}}
    BY <1>3, <1>5 DEF DepthsAt
  <2>4. \A i \in 1 .. w + 1 : depths[ch[i]] = {Height(s, ch[i])}
    BY <1>5
  <2> HIDE DEF m, x, n
  <2>5. DOMAIN ch = 1 .. w + 1 /\ w \in Nat /\ z \in Nat \ {0}
    BY <2>1, <2>2, PageType
  <2>6. \A i \in 1 .. w + 1 : Height(s, ch[i]) = z - 1
    BY <2>1, <2>2, KidsInside
  <2> HIDE DEF ch, w, z
  <2>7. \A i \in 1 .. w + 1 : depths[ch[i]] = {z - 1}
    BY <2>4, <2>6
  <2>8. ASSUME NEW c \in C PROVE depths[c] = {z - 1}
    <3>1. PICK i \in DOMAIN ch : ch[i] = c
      BY AtPlace
    <3> QED
      BY <2>5, <2>7, <3>1
  <2>9. ch[1] \in C
    <3>1. 1 \in DOMAIN ch
      BY <2>5
    <3> QED
      BY <3>1, AtPlace
  <2> HIDE DEF C
  <2>10. UNION {depths[c] : c \in C} = {z - 1}
    BY <2>8, <2>9
  <2>11. z - 1 + 1 = z
    BY <2>5
  <2>12. DepthsAt(t, depths, q) = {z}
    BY <2>3, <2>10, <2>11
  <2> QED
    BY <2>1, <2>12
<1> QED
  BY <1>2, <1>4, <1>5

(* The definitions of Leaves and of Depths, as facts about a function.     *)
LeavesFit(t, under) == under = [q \in Pointed(t) |-> LeavesAt(t, under, q)]
DepthsFit(t, depths) == depths = [q \in Pointed(t) |-> DepthsAt(t, depths, q)]

(* Leaves satisfies its recursive definition, if a function does.          *)
LEMMA LeavesChosen ==
  ASSUME \E under : LeavesFit(tree, under)
  PROVE  LeavesFit(tree, Leaves)
<1> DEFINE Fix(under) ==
             under = [q \in Pointers |->
                        IF q = Nil THEN <<>>
                        ELSE IF q.at = "d" THEN <<q.no>>
                        ELSE LET ch == tree.x[q.no].ch
                             IN  FlattenSeq([i \in DOMAIN ch |-> under[ch[i]]])]
<1>1. Leaves = CHOOSE under : Fix(under)
  BY DEF Leaves
<1>2. ASSUME NEW under
      PROVE  Fix(under) <=> LeavesFit(tree, under)
  BY DEF LeavesFit, LeavesAt, Pointed, Pointers
<1>3. \E under : Fix(under)
  <2>1. PICK under : LeavesFit(tree, under)
    BY Zenon
  <2>2. Fix(under)
    BY <1>2, <2>1
  <2> HIDE DEF Fix
  <2> QED
    BY <2>2
<1>4. Fix(Leaves)
  <2> HIDE DEF Fix
  <2> QED
    BY <1>1, <1>3, Zenon
<1> QED
  BY <1>2, <1>4

(* Depths is what every function that satisfies its recursive definition   *)
(* says, if there is one.                                                  *)
LEMMA DepthsChosen ==
  ASSUME NEW v, \E depths : DepthsFit(tree, depths),
         \A depths : DepthsFit(tree, depths) => depths[tree.r] = v
  PROVE  Depths = v
<1> DEFINE Fix(depths) ==
             depths = [q \in Pointers |->
                         IF q = Nil \/ q.at = "d" THEN {0}
                         ELSE {n + 1 : n \in UNION {depths[ch] : ch \in ToSet(tree.x[q.no].ch)}}]
           dd == CHOOSE depths : Fix(depths)
<1>1. Depths = dd[tree.r]
  BY DEF Depths
<1>2. ASSUME NEW depths
      PROVE  Fix(depths) <=> DepthsFit(tree, depths)
  BY DEF DepthsFit, DepthsAt, Pointed, Pointers
<1>3. \E depths : Fix(depths)
  <2>1. PICK depths : DepthsFit(tree, depths)
    BY Zenon
  <2>2. Fix(depths)
    BY <1>2, <2>1
  <2> HIDE DEF Fix
  <2> QED
    BY <2>2
<1>4. Fix(dd)
  <2> HIDE DEF Fix
  <2> QED
    BY <1>3, Zenon
<1>5. DepthsFit(tree, dd)
  BY <1>2, <1>4
<1> HIDE DEF dd
<1> QED
  BY <1>1, <1>5

(* The data pages under every pointer are a run of the list of data pages. *)
LEMMA LeavesAre ==
  ASSUME NEW s, Sound(tree, s)
  PROVE  \A q \in Pointed(tree) : Leaves[q] = RunUnder(s, q)
<1> DEFINE t == tree
           P == Pointed(t)
           W == [q \in P |-> RunUnder(s, q)]
           good == {q \in P : Leaves[q] = RunUnder(s, q)}
<1>1. /\ P \subseteq PagesOf(Len(t.d), t.x)
      /\ \A m \in DOMAIN t.x : \A i \in 1 .. Len(t.x[m].sep) + 1 : t.x[m].ch[i] \in P
  BY PointedIn
<1>2. \A q \in P : q.at = "x" => q.no \in DOMAIN t.x
  BY <1>1, PointerKinds
<1>3. ASSUME NEW q \in P PROVE LeavesAt(t, W, q) = RunUnder(s, q)
  <2>1. q.at = "x" => \A i \in 1 .. Len(t.x[q.no].sep) + 1 :
                        W[t.x[q.no].ch[i]] = RunUnder(s, t.x[q.no].ch[i])
    BY <1>1, <1>2
  <2> HIDE DEF W
  <2> QED
    BY <2>1, LeavesRun
<1>4. [q \in P |-> LeavesAt(t, W, q)] = [q \in P |-> RunUnder(s, q)]
  <2> HIDE DEF W, P
  <2> QED
    BY <1>3
<1>5. LeavesFit(t, W)
  BY <1>4 DEF LeavesFit
<1>6. LeavesFit(t, Leaves)
  <2> HIDE DEF W
  <2> QED
    BY <1>5, LeavesChosen
<1>7. \A q \in P : Leaves[q] = LeavesAt(t, Leaves, q)
  BY <1>6 DEF LeavesFit
<1>8. ASSUME NEW q \in P,
             q.at = "x" => \A i \in 1 .. Len(t.x[q.no].sep) + 1 : t.x[q.no].ch[i] \in good
      PROVE  q \in good
  <2>1. q.at = "x" => \A i \in 1 .. Len(t.x[q.no].sep) + 1 :
                        Leaves[t.x[q.no].ch[i]] = RunUnder(s, t.x[q.no].ch[i])
    BY <1>8
  <2>2. LeavesAt(t, Leaves, q) = RunUnder(s, q)
    BY <2>1, LeavesRun
  <2> QED
    BY <1>7, <2>2
<1>9. P \subseteq good
  <2> HIDE DEF good
  <2> QED
    BY <1>8, FromBelow
<1> QED
  BY <1>9

(* All data pages are as deep as the root is high.                         *)
LEMMA DepthsAre ==
  ASSUME NEW s, Sound(tree, s)
  PROVE  Depths = {Height(s, tree.r)}
<1> DEFINE t == tree
           P == Pointed(t)
           W == [q \in P |-> {Height(s, q)}]
<1>1. /\ P \subseteq PagesOf(Len(t.d), t.x) /\ t.r \in P
      /\ \A m \in DOMAIN t.x : \A i \in 1 .. Len(t.x[m].sep) + 1 : t.x[m].ch[i] \in P
  BY PointedIn
<1>2. \A q \in P : q.at = "x" => q.no \in DOMAIN t.x
  BY <1>1, PointerKinds
<1>3. ASSUME NEW q \in P PROVE DepthsAt(t, W, q) = {Height(s, q)}
  <2>1. q.at = "x" => \A i \in 1 .. Len(t.x[q.no].sep) + 1 :
                        W[t.x[q.no].ch[i]] = {Height(s, t.x[q.no].ch[i])}
    BY <1>1, <1>2
  <2> HIDE DEF W
  <2> QED
    BY <2>1, DepthsHeight
<1>4. [q \in P |-> DepthsAt(t, W, q)] = [q \in P |-> {Height(s, q)}]
  <2> HIDE DEF W, P
  <2> QED
    BY <1>3
<1>5. DepthsFit(t, W)
  BY <1>4 DEF DepthsFit
<1>6. ASSUME NEW depths, DepthsFit(t, depths)
      PROVE  depths[t.r] = {Height(s, t.r)}
  <2> DEFINE good == {q \in P : depths[q] = {Height(s, q)}}
  <2>1. \A q \in P : depths[q] = DepthsAt(t, depths, q)
    BY <1>6 DEF DepthsFit
  <2>2. ASSUME NEW q \in P,
               q.at = "x" => \A i \in 1 .. Len(t.x[q.no].sep) + 1 : t.x[q.no].ch[i] \in good
        PROVE  q \in good
    <3>1. q.at = "x" => \A i \in 1 .. Len(t.x[q.no].sep) + 1 :
                          depths[t.x[q.no].ch[i]] = {Height(s, t.x[q.no].ch[i])}
      BY <2>2
    <3>2. DepthsAt(t, depths, q) = {Height(s, q)}
      BY <3>1, DepthsHeight
    <3> QED
      BY <2>1, <3>2
  <2>3. P \subseteq good
    <3> HIDE DEF good
    <3> QED
      BY <2>2, FromBelow
  <2> QED
    BY <1>1, <2>3
<1> HIDE DEF W
<1> QED
  BY <1>5, <1>6, DepthsChosen

(* The empty tree is well formed.                                          *)
LEMMA ChainEmpty ==
  ASSUME tree = Empty
  PROVE  ChainIsLeaves /\ Balanced
<1>1. tree.r = Nil /\ DOMAIN tree.x = {} /\ DOMAIN tree.d = {} /\ tree.d = <<>>
  BY DEF Empty
<1>2. Pointed(tree) = {Nil}
  BY <1>1 DEF Pointed
<1> DEFINE W == [q \in {Nil} |-> <<>>]
           V == [q \in {Nil} |-> {0}]
<1>3. LeavesFit(tree, W) /\ DepthsFit(tree, V)
  BY <1>2 DEF LeavesFit, LeavesAt, DepthsFit, DepthsAt
<1>4. Leaves[tree.r] = <<>>
  <2>1. LeavesFit(tree, Leaves)
    <3> HIDE DEF W
    <3> QED
      BY <1>3, LeavesChosen
  <2> QED
    BY <1>1, <1>2, <2>1 DEF LeavesFit, LeavesAt
<1>5. Depths = {0}
  <2>1. \A depths : DepthsFit(tree, depths) => depths[tree.r] = {0}
    BY <1>1, <1>2 DEF DepthsFit, DepthsAt
  <2> HIDE DEF V
  <2> QED
    BY <1>3, <2>1, DepthsChosen
<1>6. ChainIsLeaves
  <2>1. [q \in DOMAIN tree.d |-> q] = <<>>
    BY <1>1
  <2> QED
    BY <1>1, <1>4, <2>1 DEF ChainIsLeaves
<1>7. Cardinality(Depths) = 1
  BY <1>5, FS_Singleton
<1> QED
  BY <1>1, <1>6, <1>7 DEF Balanced

(* The data pages under the root are the linked list, and separators point *)
(* at the first page under the child behind them.                          *)
LEMMA ChainHeld ==
  ASSUME NEW s, Sound(tree, s)
  PROVE  ChainIsLeaves
<1> DEFINE t == tree
           x == t.x
           n == Len(t.d)
<1>1. Laid(n, t.r, x, s) /\ DOMAIN t.d = 1 .. n /\ n \in Nat
  BY Elements DEF Sound
<1>2. /\ t.r \in Pointed(t)
      /\ \A m \in DOMAIN x : \A i \in 1 .. Len(x[m].sep) + 1 : x[m].ch[i] \in Pointed(t)
  BY PointedIn
<1>3. Leaves[t.r] = [q \in DOMAIN t.d |-> q]
  <2>1. Leaves[t.r] = Run(1, n)
    BY <1>1, <1>2, LeavesAre DEF RunUnder, Laid, Rooted
  <2>2. Run(1, n) = [q \in 1 .. n |-> q]
    <3> HIDE DEF n
    <3>1. n - 1 + 1 = n /\ \A j \in 1 .. n : 1 + j - 1 = j
      BY <1>1
    <3> QED
      BY <3>1 DEF Run
  <2> QED
    BY <1>1, <2>1, <2>2
<1>4. ASSUME NEW m \in DOMAIN x, NEW i \in DOMAIN x[m].sep
      PROVE  x[m].sep[i] = Head(Leaves[x[m].ch[i + 1]])
  <2> DEFINE w == Len(x[m].sep)
             c == x[m].ch[i + 1]
             a == From(s, c)
             b == To(s, c)
  <2>1. Leaves[c] = Run(a, b) /\ x[m].sep[i] = a /\ a \in Int /\ b \in Int /\ a <= b
    <3> HIDE DEF x, n
    <3>1. /\ w \in Nat /\ DOMAIN x[m].sep = 1 .. w /\ Typed(n, t.r, x, s)
          /\ \A h \in 1 .. w + 1 : x[m].ch[h] \in PagesOf(n, x)
      BY <1>1, PageType
    <3> HIDE DEF w
    <3>2. i \in 1 .. w /\ i + 1 \in 1 .. w + 1
      BY <1>4, <3>1
    <3>3. c \in Pointed(t) /\ c \in PagesOf(n, x)
      BY <1>2, <3>1, <3>2 DEF w
    <3>4. x[m].sep[i] = a
      BY <1>1, <3>2 DEF Laid, Kids, w
    <3>5. a \in Int /\ b \in Int /\ a <= b
      BY <3>1, <3>3, SpanType
    <3>6. Leaves[c] = Run(a, b)
      BY <3>3, LeavesAre DEF RunUnder
    <3> QED
      BY <3>4, <3>5, <3>6
  <2> HIDE DEF c, a, b
  <2>2. Head(Run(a, b)) = a
    <3>1. Run(a, b)[1] = a
      BY <2>1, RunIs
    <3> QED
      BY <3>1
  <2> QED
    BY <2>1, <2>2 DEF c
<1> QED
  BY <1>3, <1>4 DEF ChainIsLeaves

(* Data pages are equally deep, and pages are neither too full nor too     *)
(* empty.                                                                  *)
LEMMA BalanceHeld ==
  ASSUME NEW s, Sound(tree, s), Full(tree)
  PROVE  Balanced
<1>1. Cardinality(Depths) = 1
  <2> DEFINE h == Height(s, tree.r)
  <2>1. Depths = {h}
    BY DepthsAre
  <2> HIDE DEF h
  <2> QED
    BY <2>1, FS_Singleton
<1>2. kd \in Nat /\ kx \in Nat
  BY BTreeAssumption DEF BTreeAssumption
<1>3. ASSUME NEW q \in DOMAIN tree.d
      PROVE  Len(tree.d[q]) <= 2 * kd /\ (Len(tree.d[q]) >= kd \/ tree.r = Data(q))
  <2> DEFINE l == Len(tree.d[q])
             top == 2 * kd
  <2>1. l \in 1 .. top /\ (l >= kd \/ tree.r = Data(q)) /\ top \in Nat
    BY <1>2 DEF Full, FullData
  <2> HIDE DEF l, top
  <2>2. l <= top
    BY <2>1
  <2> QED
    BY <2>1, <2>2 DEF l, top
<1>4. ASSUME NEW n \in DOMAIN tree.x
      PROVE  /\ Len(tree.x[n].sep) <= 2 * kx + 1
             /\ Len(tree.x[n].sep) >= IF tree.r = Index(n) THEN 1 ELSE kx - 1
  <2> DEFINE l == Len(tree.x[n].sep)
             top == 2 * kx + 1
             low == kx - 1
  <2>1. l \in 1 .. top /\ (l >= low \/ tree.r = Index(n)) /\ top \in Nat
    BY <1>2 DEF Full, FullIndex
  <2> HIDE DEF l, top, low
  <2>2. l <= top /\ l >= 1
    BY <2>1
  <2> QED
    BY <2>1, <2>2 DEF l, top, low
<1> QED
  BY <1>1, <1>3, <1>4 DEF Balanced

(* Between calls the pages hang together as overflow, underflow and cat    *)
(* take for granted, and are balanced, whatever was inserted and deleted.  *)
THEOREM WellFormedAlways == Spec => []WellFormed
<1>1. ASSUME IInv PROVE WellFormed
  <2> SUFFICES ASSUME call = Idle PROVE ChainIsLeaves /\ Balanced
    BY DEF WellFormed
  <2>1. Good(tree, Idle)
    BY <1>1 DEF IInv
  <2>2. CASE tree = Empty
    BY <2>2, ChainEmpty
  <2>3. CASE tree # Empty
    <3>1. PICK s : Holds(tree, s, Idle)
      BY <2>1, <2>3 DEF Good
    <3>2. Sound(tree, s) /\ Full(tree)
      BY <3>1 DEF Holds
    <3> QED
      BY <3>2, ChainHeld, BalanceHeld
  <2> QED
    BY <2>2, <2>3
<1> QED
  BY <1>1, GoodAlways, PTL
=============================================================================
