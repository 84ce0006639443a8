-------------------------- MODULE PublicationProofs -------------------------
(***************************************************************************)
(* What is published of a crawl.  The operators that build it are folds    *)
(* over sequences; each is reduced to its values on the prefixes of the    *)
(* sequence, and these are settled one step at a time, which leaves the    *)
(* peering graph in closed form.  Where the names that servers give        *)
(* themselves are settled, no two published hosts claim one name, so the   *)
(* order they are gone through in makes no difference.                     *)
(***************************************************************************)
EXTENDS Publication, SpiderProofs

-----------------------------------------------------------------------------
(* Folds over sequences.                                                   *)

LEMMA LeastOf ==
  ASSUME NEW S \in SUBSET Nat, S # {}
  PROVE  \E m \in S : \A k \in S : m <= k
<1>1. PICK m \in S : \A k \in S : ~ (<<k, m>> \in OpToRel(<, Nat))
  BY NatLessThanWellFounded, WFMin
<1>2. \A k \in S : <<k, m>> \in OpToRel(<, Nat) <=> k < m
  BY DEF OpToRel
<1>3. \A k \in S : ~ (k < m)
  BY <1>1, <1>2, Zenon
<1> QED
  BY <1>3

(* Induction up to n, for a set of numbers.                                *)
LEMMA ReachedBySteps ==
  ASSUME NEW n \in Nat, NEW good, 0 \in good,
         \A k \in 1 .. n : k - 1 \in good => k \in good
  PROVE  0 .. n \subseteq good
<1> DEFINE bad == (0 .. n) \ good
<1>1. SUFFICES ASSUME bad # {} PROVE FALSE
  OBVIOUS
<1>2. PICK k \in bad : \A j \in bad : k <= j
  <2>1. bad \in SUBSET Nat
    OBVIOUS
  <2> HIDE DEF bad
  <2> QED
    BY <1>1, <2>1, LeastOf
<1>3. k \in 1 .. n /\ k - 1 \in 0 .. n /\ ~ (k <= k - 1)
  OBVIOUS
<1>4. k - 1 \in good
  BY <1>2, <1>3
<1> QED
  BY <1>3, <1>4

LEMMA MaxUpTo ==
  ASSUME NEW n \in Nat, NEW s \in SUBSET (0 .. n), s # {}
  PROVE  Max(s) \in s /\ \A y \in s : y <= Max(s)
<1> DEFINE Bounds == {m \in Nat : \A y \in s : y <= m}
<1>1. n \in Bounds
  OBVIOUS
<1>2. PICK m \in Bounds : \A k \in Bounds : m <= k
  <2>1. Bounds \in SUBSET Nat /\ Bounds # {}
    BY <1>1
  <2> HIDE DEF Bounds
  <2> QED
    BY <2>1, LeastOf
<1>3. m \in s
  <2> SUFFICES ASSUME m \notin s PROVE FALSE
    OBVIOUS
  <2>1. \A y \in s : y \in Nat /\ y <= m /\ y # m
    BY <1>2
  <2>2. m \in Nat /\ m - 1 \in Nat /\ m - 1 < m
    <3>1. PICK y \in s : TRUE
      OBVIOUS
    <3> QED
      BY <1>2, <2>1, <3>1
  <2>3. m - 1 \in Bounds
    BY <1>2, <2>1, <2>2
  <2> HIDE DEF Bounds
  <2> QED
    BY <1>2, <2>2, <2>3
<1>4. \A y \in s : m >= y
  BY <1>2
<1>5. Max(s) \in s /\ \A y \in s : Max(s) >= y
  BY <1>3, <1>4, Zenon DEF Max
<1>6. s \subseteq Nat
  OBVIOUS
<1> QED
  BY <1>5, <1>6

LEMMA MaxOfPlaces ==
  ASSUME NEW n \in Nat, NEW s \in SUBSET (1 .. n), s # {}
  PROVE  Max(s) \in s /\ \A y \in s : y <= Max(s)
<1>1. s \in SUBSET (0 .. n)
  OBVIOUS
<1> QED
  BY <1>1, MaxUpTo

(* What a fold does to reach its value on a set of places, if F is its     *)
(* operator.                                                               *)
Folded(F, base, seq, g, s) ==
  IF s = {} THEN base ELSE F[<<g[s \ {Max(s)}], seq[Max(s)]>>]

IsFold(F, base, seq, g) ==
  \A s \in SUBSET (1 .. Len(seq)) : g[s] = Folded(F, base, seq, g, s)

LEMMA FoldsExist ==
  ASSUME NEW G, NEW E, NEW F \in [G \X E -> G], NEW base \in G, NEW seq \in Seq(E)
  PROVE  \E g \in [SUBSET (1 .. Len(seq)) -> G] : IsFold(F, base, seq, g)
<1> DEFINE Fold(k, g) ==
      /\ g \in [SUBSET (1 .. k) -> G]
      /\ \A s \in SUBSET (1 .. k) : g[s] = Folded(F, base, seq, g, s)
    good == {k \in 0 .. Len(seq) : \E g : Fold(k, g)}
<1>1. 0 \in good
  <2> DEFINE g == [s \in SUBSET (1 .. 0) |-> base]
  <2>1. \A s \in SUBSET (1 .. 0) : s = {}
    OBVIOUS
  <2>2. Fold(0, g)
    BY <2>1 DEF Folded
  <2> HIDE DEF Fold, g
  <2> QED
    BY <2>2
<1>2. ASSUME NEW k \in 1 .. Len(seq), k - 1 \in good
      PROVE  k \in good
  <2> DEFINE j == k - 1
  <2>1. /\ k \in Nat /\ k \in 1 .. Len(seq) /\ j \in 0 .. Len(seq)
        /\ k = j + 1 /\ j < k
    OBVIOUS
  <2>2. PICK g : Fold(j, g)
    BY <1>2
  <2> HIDE DEF j
  <2> DEFINE h == [s \in SUBSET (1 .. k) |->
                     IF k \in s THEN F[<<g[s \ {k}], seq[k]>>] ELSE g[s]]
  <2>3. \A s \in SUBSET (1 .. k) : /\ s \ {k} \in SUBSET (1 .. j)
                                   /\ k \notin s => s \in SUBSET (1 .. j)
    BY <2>1
  <2>4. \A s \in SUBSET (1 .. j) : s \in SUBSET (1 .. k) /\ k \notin s
    BY <2>1
  <2>5. \A s \in SUBSET (1 .. j) : h[s] = g[s]
    BY <2>4
  <2>6. seq[k] \in E
    BY <2>1
  <2>7. h \in [SUBSET (1 .. k) -> G]
    BY <2>2, <2>3, <2>6
  <2>8. ASSUME NEW s \in SUBSET (1 .. k)
        PROVE  h[s] = Folded(F, base, seq, h, s)
    <3>1. CASE k \in s
      <4>1. Max(s) = k
        <5>1. Max(s) \in s /\ \A y \in s : y <= Max(s)
          BY <2>1, <3>1, MaxOfPlaces
        <5>2. Max(s) \in 1 .. k /\ k <= Max(s)
          BY <3>1, <5>1
        <5> QED
          BY <2>1, <5>2
      <4>2. h[s] = F[<<g[s \ {k}], seq[k]>>]
        BY <3>1
      <4>3. h[s \ {k}] = g[s \ {k}]
        BY <2>3, <2>5
      <4> HIDE DEF h
      <4> QED
        BY <3>1, <4>1, <4>2, <4>3 DEF Folded
    <3>2. CASE k \notin s
      <4>1. s \in SUBSET (1 .. j) /\ h[s] = g[s]
        BY <2>3, <2>5, <3>2
      <4>2. g[s] = Folded(F, base, seq, g, s)
        BY <2>2, <4>1
      <4>3. s \ {Max(s)} \in SUBSET (1 .. j)
        BY <4>1
      <4>4. h[s \ {Max(s)}] = g[s \ {Max(s)}]
        BY <2>5, <4>3
      <4> HIDE DEF h
      <4> QED
        BY <4>1, <4>2, <4>4 DEF Folded
    <3> QED
      BY <3>1, <3>2
  <2>9. Fold(k, h)
    BY <2>7, <2>8
  <2> HIDE DEF Fold, h
  <2> QED
    BY <2>9
<1> HIDE DEF Fold
<1>3. Len(seq) \in good
  <2> HIDE DEF good
  <2>1. Len(seq) \in Nat
    OBVIOUS
  <2>2. 0 .. Len(seq) \subseteq good
    BY <1>1, <1>2, <2>1, ReachedBySteps
  <2> QED
    BY <2>1, <2>2
<1>4. PICK g : Fold(Len(seq), g)
  BY <1>3
<1> QED
  BY <1>4 DEF Fold, IsFold

LEMMA PlacesUpTo ==
  ASSUME NEW n \in Nat, NEW i \in 1 .. n
  PROVE  /\ 1 .. i \in SUBSET (1 .. n) /\ 1 .. i # {}
         /\ Max(1 .. i) = i /\ (1 .. i) \ {i} = 1 .. (i - 1)
<1>1. 1 .. i \in SUBSET (1 .. n) /\ i \in 1 .. i /\ (1 .. i) \ {i} = 1 .. (i - 1)
  OBVIOUS
<1>2. Max(1 .. i) \in 1 .. i /\ i <= Max(1 .. i)
  BY <1>1, MaxOfPlaces
<1> QED
  BY <1>1, <1>2

(* HostSort goes through the names in order and takes those of the set.    *)
LEMMA HostSortSteps ==
  ASSUME NEW S
  PROVE  \E f : /\ HostSort(S) = f[Len(HostOrder)]
                /\ f[0] = <<>>
                /\ \A i \in 1 .. Len(HostOrder) :
                     f[i] = IF HostOrder[i] \in S THEN Append(f[i - 1], HostOrder[i])
                            ELSE f[i - 1]
<1> DEFINE Take(sorted, h) == IF h \in S THEN Append(sorted, h) ELSE sorted
           Fix(g) ==
             g = [s \in SUBSET DOMAIN HostOrder |->
                    IF s = {} THEN <<>>
                    ELSE Take(g[s \ {Max(s)}], HostOrder[Max(s)])]
           n == Len(HostOrder)
           F == [p \in Seq(Host) \X Host |-> Take(p[1], p[2])]
<1>1. HostOrder \in Seq(Host) /\ DOMAIN HostOrder = 1 .. n /\ n \in Nat
  BY PublicationAssumption
<1>2. HostSort(S) = (CHOOSE g : Fix(g))[DOMAIN HostOrder]
  BY DEF HostSort, FoldLeft, MapThenFoldSet
<1>3. F \in [Seq(Host) \X Host -> Seq(Host)] /\ <<>> \in Seq(Host)
  OBVIOUS
<1>4. \A sorted \in Seq(Host), h \in Host : F[<<sorted, h>>] = Take(sorted, h)
  OBVIOUS
<1>14. \A i \in 1 .. n : HostOrder[i] \in Host
  BY <1>1
<1> HIDE DEF F, Take
<1>5. PICK g \in [SUBSET (1 .. n) -> Seq(Host)] : IsFold(F, <<>>, HostOrder, g)
  BY <1>1, <1>3, FoldsExist
<1>6. ASSUME NEW s \in SUBSET (1 .. n), s # {}
      PROVE  g[s] = Take(g[s \ {Max(s)}], HostOrder[Max(s)])
  <2>1. Max(s) \in 1 .. n
    BY <1>1, <1>6, MaxOfPlaces
  <2> HIDE DEF n
  <2>2. HostOrder[Max(s)] \in Host /\ g[s \ {Max(s)}] \in Seq(Host)
    BY <1>14, <2>1
  <2> QED
    BY <1>4, <1>5, <1>6, <2>2 DEF IsFold, Folded, n
<1>7. g = [s \in SUBSET (1 .. n) |->
             IF s = {} THEN <<>> ELSE Take(g[s \ {Max(s)}], HostOrder[Max(s)])]
  BY <1>5, <1>6 DEF IsFold, Folded
<1>8. Fix(g)
  BY <1>1, <1>7
<1> HIDE DEF Fix
<1>9. PICK iter : Fix(iter) /\ HostSort(S) = iter[1 .. n]
  BY <1>1, <1>2, <1>8, Zenon
<1>10. \A s \in SUBSET (1 .. n) :
         iter[s] = IF s = {} THEN <<>> ELSE Take(iter[s \ {Max(s)}], HostOrder[Max(s)])
  <2>1. iter = [s \in SUBSET (1 .. n) |->
                  IF s = {} THEN <<>> ELSE Take(iter[s \ {Max(s)}], HostOrder[Max(s)])]
    BY <1>1, <1>9, Zenon DEF Fix
  <2> QED
    BY <2>1
<1> DEFINE f == [i \in 0 .. n |-> iter[1 .. i]]
<1>11. HostSort(S) = f[n]
  BY <1>1, <1>9
<1> HIDE DEF n
<1>12. f[0] = <<>>
  <2>1. 1 .. 0 = {} /\ 0 \in 0 .. n
    BY <1>1
  <2>2. {} \in SUBSET (1 .. n)
    OBVIOUS
  <2> QED
    BY <1>10, <2>1, <2>2
<1>13. ASSUME NEW i \in 1 .. n
       PROVE  f[i] = Take(f[i - 1], HostOrder[i])
  <2>1. f[i] = iter[1 .. i] /\ f[i - 1] = iter[1 .. (i - 1)]
    BY <1>1
  <2>2. /\ 1 .. i \in SUBSET (1 .. n) /\ 1 .. i # {}
        /\ Max(1 .. i) = i /\ (1 .. i) \ {i} = 1 .. (i - 1)
    BY <1>1, PlacesUpTo
  <2> HIDE DEF f
  <2> QED
    BY <1>10, <2>1, <2>2
<1> HIDE DEF f
<1> QED
  BY <1>11, <1>12, <1>13 DEF Take, n

LEMMA AppendedMembers ==
  ASSUME NEW s \in Seq(Host), NEW h \in Host
  PROVE  Append(s, h) \in Seq(Host) /\ ToSet(Append(s, h)) = ToSet(s) \cup {h}
<1> DEFINE t == Append(s, h)
<1>1. /\ t \in Seq(Host) /\ Len(s) \in Nat /\ DOMAIN s = 1 .. Len(s)
      /\ DOMAIN t = 1 .. (Len(s) + 1) /\ t[Len(s) + 1] = h
      /\ \A i \in 1 .. Len(s) : t[i] = s[i]
  OBVIOUS
<1> HIDE DEF t
<1>2. 1 .. (Len(s) + 1) = (1 .. Len(s)) \cup {Len(s) + 1}
  BY <1>1
<1>3. ToSet(t) = ToSet(s) \cup {h}
  BY <1>1, <1>2 DEF ToSet
<1> QED
  BY <1>1, <1>3 DEF t

(* HostSort loses and adds nothing.                                        *)
LEMMA HostSortMembers ==
  ASSUME NEW S \in SUBSET Host
  PROVE  HostSort(S) \in Seq(Host) /\ ToSet(HostSort(S)) = S
<1> DEFINE n == Len(HostOrder)
<1>1. PICK f : /\ HostSort(S) = f[n]
               /\ f[0] = <<>>
               /\ \A i \in 1 .. n :
                    f[i] = IF HostOrder[i] \in S THEN Append(f[i - 1], HostOrder[i])
                           ELSE f[i - 1]
  BY HostSortSteps
<1>2. /\ n \in Nat /\ \A i \in 1 .. n : HostOrder[i] \in Host
      /\ {HostOrder[i] : i \in 1 .. n} = Host
  BY PublicationAssumption
<1> HIDE DEF n
<1> DEFINE good == {k \in 0 .. n :
                      /\ f[k] \in Seq(Host)
                      /\ ToSet(f[k]) = {HostOrder[j] : j \in 1 .. k} \cap S}
<1>3. 0 \in good
  <2>1. <<>> \in Seq(Host) /\ DOMAIN <<>> = {} /\ 0 \in 0 .. n
    BY <1>2
  <2>2. ToSet(<<>>) = {} /\ {HostOrder[j] : j \in 1 .. 0} = {}
    BY <2>1 DEF ToSet
  <2> QED
    BY <1>1, <2>1, <2>2
<1>4. ASSUME NEW k \in 1 .. n, k - 1 \in good
      PROVE  k \in good
  <2>1. /\ f[k - 1] \in Seq(Host)
        /\ ToSet(f[k - 1]) = {HostOrder[j] : j \in 1 .. (k - 1)} \cap S
    BY <1>4
  <2>2. {HostOrder[j] : j \in 1 .. k} = {HostOrder[j] : j \in 1 .. (k - 1)} \cup {HostOrder[k]}
    BY <1>2
  <2>3. CASE HostOrder[k] \in S
    <3>1. f[k] = Append(f[k - 1], HostOrder[k])
      BY <1>1, <2>3
    <3>2. f[k] \in Seq(Host) /\ ToSet(f[k]) = ToSet(f[k - 1]) \cup {HostOrder[k]}
      BY <2>1, <2>3, <3>1, AppendedMembers
    <3> QED
      BY <1>2, <2>1, <2>2, <2>3, <3>2
  <2>4. CASE HostOrder[k] \notin S
    BY <1>1, <1>2, <2>1, <2>2, <2>4
  <2> QED
    BY <2>3, <2>4
<1>5. n \in good
  <2> HIDE DEF good
  <2>1. 0 .. n \subseteq good
    BY <1>2, <1>3, <1>4, ReachedBySteps
  <2> QED
    BY <1>2, <2>1
<1> QED
  BY <1>1, <1>2, <1>5

-----------------------------------------------------------------------------
(* Sequences put together.                                                 *)

LEMMA Concatenated ==
  ASSUME NEW X, NEW s \in Seq(X), NEW t \in Seq(X)
  PROVE  /\ s \o t \in Seq(X) /\ Len(s \o t) = Len(s) + Len(t)
         /\ \A i \in 1 .. Len(s) : (s \o t)[i] = s[i]
         /\ \A i \in 1 .. Len(t) : (s \o t)[Len(s) + i] = t[i]
         /\ ToSet(s \o t) = ToSet(s) \cup ToSet(t)
<1> DEFINE u == s \o t
<1>1. /\ u \in Seq(X) /\ Len(s) \in Nat /\ Len(t) \in Nat
      /\ DOMAIN s = 1 .. Len(s) /\ DOMAIN t = 1 .. Len(t)
      /\ DOMAIN u = 1 .. (Len(s) + Len(t)) /\ Len(u) = Len(s) + Len(t)
      /\ \A i \in 1 .. (Len(s) + Len(t)) : u[i] = IF i <= Len(s) THEN s[i] ELSE t[i - Len(s)]
  OBVIOUS
<1> HIDE DEF u
<1>2. /\ \A i \in 1 .. Len(s) : u[i] = s[i]
      /\ \A i \in 1 .. Len(t) : Len(s) + i \in DOMAIN u /\ u[Len(s) + i] = t[i]
  <2>1. ASSUME NEW i \in 1 .. Len(t)
        PROVE  Len(s) + i \in DOMAIN u /\ u[Len(s) + i] = t[i]
    <3>1. /\ Len(s) + i \in 1 .. (Len(s) + Len(t)) /\ ~ (Len(s) + i <= Len(s))
          /\ (Len(s) + i) - Len(s) = i
      BY <1>1
    <3> QED
      BY <1>1, <3>1
  <2> QED
    BY <1>1, <2>1
<1>3. ToSet(u) = ToSet(s) \cup ToSet(t)
  <2>1. \A i \in DOMAIN u : u[i] \in ToSet(s) \cup ToSet(t)
    <3> SUFFICES ASSUME NEW i \in DOMAIN u PROVE u[i] \in ToSet(s) \cup ToSet(t)
      OBVIOUS
    <3>1. CASE i <= Len(s)
      BY <1>1, <3>1 DEF ToSet
    <3>2. CASE ~ (i <= Len(s))
      <4>1. i - Len(s) \in 1 .. Len(t)
        BY <1>1, <3>2
      <4> QED
        BY <1>1, <3>2, <4>1 DEF ToSet
    <3> QED
      BY <3>1, <3>2
  <2>2. \A i \in DOMAIN s : s[i] \in ToSet(u)
    BY <1>1, <1>2 DEF ToSet
  <2>3. \A i \in DOMAIN t : t[i] \in ToSet(u)
    BY <1>1, <1>2 DEF ToSet
  <2> QED
    BY <2>1, <2>2, <2>3 DEF ToSet
<1> QED
  BY <1>1, <1>2, <1>3 DEF u

LEMMA FlattenSteps ==
  ASSUME NEW X, NEW seqs \in Seq(Seq(X))
  PROVE  \E f : /\ FlattenSeq(seqs) = f[Len(seqs)]
                /\ f[0] = <<>>
                /\ \A i \in 1 .. Len(seqs) : f[i] = f[i - 1] \o seqs[i]
<1> DEFINE n == Len(seqs)
           Fix(g) == g = [i \in 1 .. n |-> IF i = 1 THEN seqs[i] ELSE g[i - 1] \o seqs[i]]
           F == [p \in Seq(X) \X Seq(X) |-> p[1] \o p[2]]
<1>1. /\ n \in Nat /\ \A i \in 1 .. n : seqs[i] \in Seq(X)
      /\ n = 0 => seqs = <<>>
  OBVIOUS
<1>2. FlattenSeq(seqs) = IF n = 0 THEN seqs ELSE (CHOOSE g : Fix(g))[n]
  BY DEF FlattenSeq
<1>3. F \in [Seq(X) \X Seq(X) -> Seq(X)] /\ <<>> \in Seq(X)
  OBVIOUS
<1>4. \A s, t \in Seq(X) : F[<<s, t>>] = s \o t
  OBVIOUS
<1> HIDE DEF F
<1>5. PICK g \in [SUBSET (1 .. n) -> Seq(X)] : IsFold(F, <<>>, seqs, g)
  BY <1>3, FoldsExist
<1>6. ASSUME NEW i \in 1 .. n
      PROVE  g[1 .. i] = g[1 .. (i - 1)] \o seqs[i]
  <2>1. /\ 1 .. i \in SUBSET (1 .. n) /\ 1 .. i # {}
        /\ Max(1 .. i) = i /\ (1 .. i) \ {i} = 1 .. (i - 1)
    BY <1>1, PlacesUpTo
  <2>2. g[1 .. i] = F[<<g[1 .. (i - 1)], seqs[i]>>]
    BY <1>5, <2>1 DEF IsFold, Folded
  <2>3. g[1 .. (i - 1)] \in Seq(X) /\ seqs[i] \in Seq(X)
    BY <1>1, <2>1
  <2> QED
    BY <1>4, <2>2, <2>3
<1>7. g[1 .. 0] = <<>> /\ \A s \in Seq(X) : <<>> \o s = s
  <2>1. 1 .. 0 = {} /\ {} \in SUBSET (1 .. n)
    OBVIOUS
  <2>2. g[{}] = <<>>
    BY <1>5, <2>1 DEF IsFold, Folded
  <2>3. \A s \in Seq(X) : <<>> \o s = s
    OBVIOUS
  <2> QED
    BY <2>1, <2>2, <2>3
<1> HIDE DEF n
<1> DEFINE h == [i \in 1 .. n |-> g[1 .. i]]
<1>8. Fix(h)
  <2>1. ASSUME NEW i \in 1 .. n
        PROVE  g[1 .. i] = IF i = 1 THEN seqs[i] ELSE h[i - 1] \o seqs[i]
    <3>1. CASE i = 1
      <4>1. g[1 .. i] = g[1 .. (i - 1)] \o seqs[i]
        BY <1>6
      <4>2. i - 1 = 0 /\ seqs[i] \in Seq(X)
        BY <1>1, <3>1
      <4> QED
        BY <1>7, <3>1, <4>1, <4>2
    <3>2. CASE i # 1
      <4>1. i - 1 \in 1 .. n
        BY <1>1, <3>2
      <4> QED
        BY <1>6, <3>2, <4>1
    <3> QED
      BY <3>1, <3>2
  <2> QED
    BY <2>1
<1> HIDE DEF Fix
<1>9. PICK flat : Fix(flat) /\ FlattenSeq(seqs) = IF n = 0 THEN seqs ELSE flat[n]
  BY <1>2, <1>8, Zenon DEF n
<1>10. \A i \in 1 .. n : flat[i] = IF i = 1 THEN seqs[i] ELSE flat[i - 1] \o seqs[i]
  <2>1. flat = [i \in 1 .. n |-> IF i = 1 THEN seqs[i] ELSE flat[i - 1] \o seqs[i]]
    BY <1>9, Zenon DEF Fix
  <2> QED
    BY <2>1
<1> DEFINE f == [i \in 0 .. n |-> IF i = 0 THEN <<>> ELSE flat[i]]
<1>11. FlattenSeq(seqs) = f[n] /\ f[0] = <<>>
  BY <1>1, <1>9 DEF n
<1>12. ASSUME NEW i \in 1 .. n
       PROVE  f[i] = f[i - 1] \o seqs[i]
  <2>1. CASE i = 1
    <3>1. i - 1 = 0 /\ flat[i] = seqs[i] /\ seqs[i] \in Seq(X)
      BY <1>1, <1>10, <2>1
    <3>2. f[i] = flat[i] /\ f[i - 1] = <<>>
      BY <1>1, <2>1, <3>1
    <3> HIDE DEF f
    <3> QED
      BY <1>7, <3>1, <3>2
  <2>2. CASE i # 1
    <3>1. i \in 0 .. n /\ i # 0 /\ i - 1 \in 0 .. n /\ i - 1 # 0
      BY <1>1, <2>2
    <3>2. f[i] = flat[i] /\ f[i - 1] = flat[i - 1]
      BY <3>1
    <3> HIDE DEF f
    <3> QED
      BY <1>10, <2>2, <3>2
  <2> QED
    BY <2>1, <2>2
<1> HIDE DEF f
<1> QED
  BY <1>11, <1>12 DEF n

LEMMA FlattenMembers ==
  ASSUME NEW X, NEW seqs \in Seq(Seq(X))
  PROVE  /\ FlattenSeq(seqs) \in Seq(X)
         /\ ToSet(FlattenSeq(seqs)) = UNION {ToSet(seqs[i]) : i \in 1 .. Len(seqs)}
<1> DEFINE n == Len(seqs)
<1>1. PICK f : /\ FlattenSeq(seqs) = f[n]
               /\ f[0] = <<>>
               /\ \A i \in 1 .. n : f[i] = f[i - 1] \o seqs[i]
  BY FlattenSteps
<1>2. n \in Nat /\ \A i \in 1 .. n : seqs[i] \in Seq(X)
  OBVIOUS
<1> HIDE DEF n
<1> DEFINE Upto(k) == UNION {ToSet(seqs[i]) : i \in 1 .. k}
           good == {k \in 0 .. n : f[k] \in Seq(X) /\ ToSet(f[k]) = Upto(k)}
<1>3. 0 \in good
  <2>1. <<>> \in Seq(X) /\ DOMAIN <<>> = {} /\ 0 \in 0 .. n
    BY <1>2
  <2>2. ToSet(<<>>) = {} /\ Upto(0) = {}
    BY <2>1 DEF ToSet
  <2> HIDE DEF Upto
  <2> QED
    BY <1>1, <2>1, <2>2
<1>4. ASSUME NEW k \in 1 .. n, k - 1 \in good
      PROVE  k \in good
  <2>1. f[k - 1] \in Seq(X) /\ ToSet(f[k - 1]) = Upto(k - 1) /\ seqs[k] \in Seq(X)
    BY <1>2, <1>4
  <2>2. Upto(k) = Upto(k - 1) \cup ToSet(seqs[k])
    BY <1>2
  <2> HIDE DEF Upto
  <2>3. f[k] = f[k - 1] \o seqs[k]
    BY <1>1
  <2>4. f[k] \in Seq(X) /\ ToSet(f[k]) = ToSet(f[k - 1]) \cup ToSet(seqs[k])
    BY <2>1, <2>3, Concatenated
  <2>5. k \in 0 .. n
    BY <1>2
  <2> QED
    BY <2>1, <2>2, <2>4, <2>5
<1>5. n \in good
  <2> HIDE DEF good
  <2>1. 0 .. n \subseteq good
    BY <1>2, <1>3, <1>4, ReachedBySteps
  <2> QED
    BY <1>2, <2>1
<1> QED
  BY <1>1, <1>5 DEF n

-----------------------------------------------------------------------------
(* The graph.                                                              *)

(* Go maps from hostnames.                                                 *)
Maps(T) == UNION {[D -> T] : D \in SUBSET Host}

Graphs == [aliases : Maps(Host), outbound : Maps(SUBSET Host), inbound : Maps(SUBSET Host)]

LEMMA MapType ==
  ASSUME NEW T, NEW m
  PROVE  m \in Maps(T) <=> /\ DOMAIN m \subseteq Host
                           /\ m = [x \in DOMAIN m |-> m[x]]
                           /\ \A x \in DOMAIN m : m[x] \in T
BY DEF Maps

LEMMA Inserted ==
  ASSUME NEW sets \in Maps(SUBSET Host), NEW key \in Host, NEW h \in Host
  PROVE  /\ Insert(sets, key, h) =
              [k \in DOMAIN sets \cup {key} |->
                 (IF k \in DOMAIN sets THEN sets[k] ELSE {})
                 \cup (IF k = key THEN {h} ELSE {})]
         /\ Insert(sets, key, h) \in Maps(SUBSET Host)
<1>1. /\ DOMAIN sets \subseteq Host /\ sets = [x \in DOMAIN sets |-> sets[x]]
      /\ \A x \in DOMAIN sets : sets[x] \in SUBSET Host
  BY MapType
<1>2. Insert(sets, key, h) =
              [k \in DOMAIN sets \cup {key} |->
                 (IF k \in DOMAIN sets THEN sets[k] ELSE {})
                 \cup (IF k = key THEN {h} ELSE {})]
  BY DEF Insert, Ensure
<1>3. Insert(sets, key, h) \in Maps(SUBSET Host)
  BY <1>1, <1>2, MapType
<1> QED
  BY <1>2, <1>3

(* What the name y, in lower case, leads to.                               *)
Resolved(m, y) == IF y \in DOMAIN m THEN m[y] ELSE y

(* g is drawn of the aliases m, the hosts N, the names Y on their lists,   *)
(* and the links L.                                                        *)
Drawn(g, m, N, Y, L) ==
  /\ g \in Graphs /\ L \subseteq N \X Host
  /\ \A y \in Host : Lower[y] = y =>
       /\ y \in DOMAIN g.aliases <=> y \in DOMAIN m \cup Y
       /\ Resolved(g.aliases, y) = Resolved(m, y)
  /\ g.outbound = [n \in N |-> {p \in Host : <<n, p>> \in L}]
  /\ g.inbound = [n \in N \cup {p \in Host : \E c \in N : <<c, p>> \in L} |->
                    {c \in N : <<c, n>> \in L}]

(* The names of S in lower case, and the links of name to them.            *)
Lowered(S) == {Lower[x] : x \in S}
LinksTo(name, m, S) == {<<name, Resolved(m, Lower[x])>> : x \in S}

LEMMA AddPeerType ==
  ASSUME NEW g \in Graphs, NEW name \in Host, NEW given \in Host
  PROVE  AddPeer(name, g, given) \in Graphs
<1> DEFINE lowered == Lower[given]
           peer == Resolved(g.aliases, lowered)
           aliases == IF lowered \in DOMAIN g.aliases THEN g.aliases
                      ELSE AddAliases(g.aliases, lowered, given)
<1>1. /\ g.aliases \in Maps(Host) /\ g.outbound \in Maps(SUBSET Host)
      /\ g.inbound \in Maps(SUBSET Host)
  BY DEF Graphs
<1>2. lowered \in Host
  BY PublicationAssumption
<1>3. peer \in Host
  BY <1>1, <1>2, MapType DEF Resolved
<1>4. aliases \in Maps(Host)
  <2>1. DOMAIN g.aliases \subseteq Host /\ \A x \in DOMAIN g.aliases : g.aliases[x] \in Host
    BY <1>1, MapType
  <2> QED
    BY <1>1, <1>2, <2>1, MapType DEF AddAliases
<1>5. AddPeer(name, g, given) =
        [aliases |-> aliases, outbound |-> Insert(g.outbound, name, peer),
         inbound |-> Insert(g.inbound, peer, name)]
  BY DEF AddPeer, Resolved
<1> HIDE DEF aliases, peer
<1>6. /\ Insert(g.outbound, name, peer) \in Maps(SUBSET Host)
      /\ Insert(g.inbound, peer, name) \in Maps(SUBSET Host)
  BY <1>1, <1>3, Inserted
<1> QED
  BY <1>4, <1>5, <1>6 DEF Graphs

(* addHost draws one link.                                                 *)
LEMMA LinkDrawn ==
  ASSUME NEW m \in Maps(Host), NEW N \in SUBSET Host, NEW Y, NEW L, NEW g,
         Drawn(g, m, N, Y, L), NEW name \in N, NEW given \in Host
  PROVE  Drawn(AddPeer(name, g, given), m, N, Y \cup {Lower[given]},
               L \cup {<<name, Resolved(m, Lower[given])>>})
<1> DEFINE lowered == Lower[given]
           peer == Resolved(m, lowered)
           M == L \cup {<<name, peer>>}
           h == AddPeer(name, g, given)
<1>1. lowered \in Host /\ Lower[lowered] = lowered
  BY PublicationAssumption
<1>2. /\ g \in Graphs /\ g.aliases \in Maps(Host)
      /\ g.outbound \in Maps(SUBSET Host) /\ g.inbound \in Maps(SUBSET Host)
  BY DEF Drawn, Graphs
<1>3. peer = Resolved(g.aliases, lowered) /\ peer \in Host
  BY <1>1, <1>2, MapType DEF Drawn, Resolved
<1>4. /\ h.aliases = IF lowered \in DOMAIN g.aliases THEN g.aliases
                     ELSE AddAliases(g.aliases, lowered, given)
      /\ h.outbound = Insert(g.outbound, name, peer)
      /\ h.inbound = Insert(g.inbound, peer, name)
  BY <1>3 DEF AddPeer, Resolved
<1>5. h \in Graphs
  BY <1>2, AddPeerType
<1> HIDE DEF h, peer
<1>9. name \in Host
  OBVIOUS
<1>6. ASSUME NEW y \in Host, Lower[y] = y
      PROVE  /\ y \in DOMAIN h.aliases <=> y \in DOMAIN m \cup Y \cup {lowered}
             /\ Resolved(h.aliases, y) = Resolved(m, y)
  <2>1. /\ y \in DOMAIN g.aliases <=> y \in DOMAIN m \cup Y
        /\ Resolved(g.aliases, y) = Resolved(m, y)
    BY <1>6 DEF Drawn
  <2>2. y = given => y = lowered
    BY <1>6
  <2>3. CASE lowered \in DOMAIN g.aliases
    BY <1>1, <1>4, <2>1, <2>3 DEF Drawn
  <2>4. CASE lowered \notin DOMAIN g.aliases
    <3> DEFINE a == AddAliases(g.aliases, lowered, given)
    <3>1. /\ DOMAIN a = DOMAIN g.aliases \cup {lowered, given}
          /\ \A x \in DOMAIN a : a[x] = IF x \in {lowered, given} THEN lowered ELSE g.aliases[x]
      BY DEF AddAliases
    <3> HIDE DEF a
    <3>2. h.aliases = a
      BY <1>4, <2>4 DEF a
    <3> HIDE DEF lowered
    <3>3. y \in DOMAIN a <=> y \in DOMAIN m \cup Y \cup {lowered}
      BY <2>1, <2>2, <3>1
    <3>4. Resolved(a, y) = Resolved(m, y)
      BY <2>1, <2>2, <2>4, <3>1 DEF Resolved
    <3> QED
      BY <3>2, <3>3, <3>4
  <2> QED
    BY <2>3, <2>4
<1>7. h.outbound = [n \in N |-> {p \in Host : <<n, p>> \in M}]
  <2>1. g.outbound = [n \in N |-> {p \in Host : <<n, p>> \in L}]
    BY DEF Drawn
  <2>2. h.outbound = [n \in N |-> g.outbound[n] \cup (IF n = name THEN {peer} ELSE {})]
    <3>1. DOMAIN g.outbound = N /\ N \cup {name} = N
      BY <2>1
    <3>2. Insert(g.outbound, name, peer) =
            [k \in DOMAIN g.outbound \cup {name} |->
               (IF k \in DOMAIN g.outbound THEN g.outbound[k] ELSE {})
               \cup (IF k = name THEN {peer} ELSE {})]
      BY DEF Insert, Ensure
    <3> QED
      BY <1>4, <3>1, <3>2
  <2>3. ASSUME NEW n \in N
        PROVE  g.outbound[n] \cup (IF n = name THEN {peer} ELSE {})
                 = {p \in Host : <<n, p>> \in M}
    BY <1>3, <2>1
  <2> HIDE DEF M
  <2> QED
    BY <2>2, <2>3
<1>8. h.inbound = [n \in N \cup {p \in Host : \E c \in N : <<c, p>> \in M} |->
                     {c \in N : <<c, n>> \in M}]
  <2> DEFINE D == N \cup {p \in Host : \E c \in N : <<c, p>> \in L}
             E == N \cup {p \in Host : \E c \in N : <<c, p>> \in M}
  <2>1. g.inbound = [n \in D |-> {c \in N : <<c, n>> \in L}]
    BY DEF Drawn
  <2>2. DOMAIN g.inbound = D /\ D \cup {peer} = E
    BY <1>3, <2>1
  <2>3. h.inbound = [n \in E |-> (IF n \in D THEN g.inbound[n] ELSE {})
                                 \cup (IF n = peer THEN {name} ELSE {})]
    <3> HIDE DEF D, E
    <3>1. Insert(g.inbound, peer, name) =
            [k \in DOMAIN g.inbound \cup {peer} |->
               (IF k \in DOMAIN g.inbound THEN g.inbound[k] ELSE {})
               \cup (IF k = peer THEN {name} ELSE {})]
      BY DEF Insert, Ensure
    <3> QED
      BY <1>4, <2>2, <3>1
  <2>4. ASSUME NEW n \in E
        PROVE  (IF n \in D THEN g.inbound[n] ELSE {}) \cup (IF n = peer THEN {name} ELSE {})
                 = {c \in N : <<c, n>> \in M}
    <3>1. n \in Host
      OBVIOUS
    <3>2. n \notin D => \A c \in N : <<c, n>> \notin L
      BY <3>1
    <3> HIDE DEF E
    <3> QED
      BY <2>1, <3>2
  <2> HIDE DEF E, M
  <2>5. h.inbound = [n \in E |-> {c \in N : <<c, n>> \in M}]
    BY <2>3, <2>4
  <2> QED
    BY <2>5 DEF E
<1>10. M \subseteq N \X Host
  BY <1>3 DEF Drawn
<1> QED
  BY <1>5, <1>6, <1>7, <1>8, <1>10 DEF Drawn, h, peer

LEMMA AddPeersSteps ==
  ASSUME NEW name \in Host, NEW g0 \in Graphs, NEW seq \in Seq(Host)
  PROVE  \E f : /\ AddPeers(name, g0, seq) = f[Len(seq)]
                /\ f[0] = g0
                /\ \A i \in 1 .. Len(seq) : f[i] = AddPeer(name, f[i - 1], seq[i])
<1> DEFINE Fix(g) ==
             g = [s \in SUBSET DOMAIN seq |->
                    IF s = {} THEN g0 ELSE AddPeer(name, g[s \ {Max(s)}], seq[Max(s)])]
           n == Len(seq)
           F == [p \in Graphs \X Host |-> AddPeer(name, p[1], p[2])]
<1>1. seq \in Seq(Host) /\ DOMAIN seq = 1 .. n /\ n \in Nat
  OBVIOUS
<1>2. AddPeers(name, g0, seq) = (CHOOSE g : Fix(g))[DOMAIN seq]
  BY DEF AddPeers, FoldLeft, MapThenFoldSet
<1>3. F \in [Graphs \X Host -> Graphs]
  BY AddPeerType
<1>4. \A g \in Graphs, h \in Host : F[<<g, h>>] = AddPeer(name, g, h)
  OBVIOUS
<1>5. \A i \in 1 .. n : seq[i] \in Host
  OBVIOUS
<1> HIDE DEF F
<1>6. PICK g \in [SUBSET (1 .. n) -> Graphs] : IsFold(F, g0, seq, g)
  BY <1>1, <1>3, FoldsExist
<1>7. ASSUME NEW s \in SUBSET (1 .. n), s # {}
      PROVE  g[s] = AddPeer(name, g[s \ {Max(s)}], seq[Max(s)])
  <2>1. Max(s) \in 1 .. n
    BY <1>1, <1>7, MaxOfPlaces
  <2> HIDE DEF n
  <2>2. seq[Max(s)] \in Host /\ g[s \ {Max(s)}] \in Graphs
    BY <1>5, <2>1
  <2> QED
    BY <1>4, <1>6, <1>7, <2>2 DEF IsFold, Folded, n
<1>8. g = [s \in SUBSET (1 .. n) |->
             IF s = {} THEN g0 ELSE AddPeer(name, g[s \ {Max(s)}], seq[Max(s)])]
  BY <1>6, <1>7 DEF IsFold, Folded
<1>9. Fix(g)
  BY <1>1, <1>8
<1> HIDE DEF Fix
<1>10. PICK iter : Fix(iter) /\ AddPeers(name, g0, seq) = iter[1 .. n]
  BY <1>1, <1>2, <1>9, Zenon
<1>11. \A s \in SUBSET (1 .. n) :
         iter[s] = IF s = {} THEN g0 ELSE AddPeer(name, iter[s \ {Max(s)}], seq[Max(s)])
  <2>1. iter = [s \in SUBSET (1 .. n) |->
                  IF s = {} THEN g0 ELSE AddPeer(name, iter[s \ {Max(s)}], seq[Max(s)])]
    BY <1>1, <1>10, Zenon DEF Fix
  <2> QED
    BY <2>1
<1> DEFINE f == [i \in 0 .. n |-> iter[1 .. i]]
<1>12. AddPeers(name, g0, seq) = f[n]
  BY <1>1, <1>10
<1> HIDE DEF n
<1>13. f[0] = g0
  <2>1. 1 .. 0 = {} /\ 0 \in 0 .. n
    BY <1>1
  <2>2. {} \in SUBSET (1 .. n)
    OBVIOUS
  <2> QED
    BY <1>11, <2>1, <2>2
<1>14. ASSUME NEW i \in 1 .. n
       PROVE  f[i] = AddPeer(name, f[i - 1], seq[i])
  <2>1. f[i] = iter[1 .. i] /\ f[i - 1] = iter[1 .. (i - 1)]
    BY <1>1
  <2>2. /\ 1 .. i \in SUBSET (1 .. n) /\ 1 .. i # {}
        /\ Max(1 .. i) = i /\ (1 .. i) \ {i} = 1 .. (i - 1)
    BY <1>1, PlacesUpTo
  <2> HIDE DEF f
  <2> QED
    BY <1>11, <2>1, <2>2
<1> HIDE DEF f
<1> QED
  BY <1>12, <1>13, <1>14 DEF n

(* The loop of addHost draws the links to the peers it goes through.       *)
LEMMA PeersDrawn ==
  ASSUME NEW m \in Maps(Host), NEW N \in SUBSET Host, NEW Y, NEW L, NEW g,
         Drawn(g, m, N, Y, L), NEW name \in N, NEW seq \in Seq(Host)
  PROVE  Drawn(AddPeers(name, g, seq), m, N, Y \cup Lowered(ToSet(seq)),
               L \cup LinksTo(name, m, ToSet(seq)))
<1> DEFINE n == Len(seq)
           Names(k) == {seq[j] : j \in 1 .. k}
           Y_(k) == Y \cup Lowered(Names(k))
           L_(k) == L \cup LinksTo(name, m, Names(k))
<1>1. g \in Graphs /\ name \in Host
  BY DEF Drawn
<1>2. PICK f : /\ AddPeers(name, g, seq) = f[n]
               /\ f[0] = g
               /\ \A i \in 1 .. n : f[i] = AddPeer(name, f[i - 1], seq[i])
  BY <1>1, AddPeersSteps
<1>3. /\ n \in Nat /\ \A i \in 1 .. n : seq[i] \in Host
      /\ ToSet(seq) = Names(n)
  BY DEF ToSet
<1> HIDE DEF n
<1> DEFINE good == {k \in 0 .. n : Drawn(f[k], m, N, Y_(k), L_(k))}
<1>4. 0 \in good
  <2>1. Names(0) = {}
    OBVIOUS
  <2>2. Y_(0) = Y /\ L_(0) = L
    BY <2>1 DEF Lowered, LinksTo
  <2> HIDE DEF Y_, L_
  <2> QED
    BY <1>2, <1>3, <2>2
<1>5. ASSUME NEW k \in 1 .. n, k - 1 \in good
      PROVE  k \in good
  <2>1. Names(k) = Names(k - 1) \cup {seq[k]}
    BY <1>3
  <2> HIDE DEF Names
  <2>2. /\ Y_(k) = Y_(k - 1) \cup {Lower[seq[k]]}
        /\ L_(k) = L_(k - 1) \cup {<<name, Resolved(m, Lower[seq[k]])>>}
    BY <2>1 DEF Lowered, LinksTo
  <2> HIDE DEF Y_, L_
  <2>3. Drawn(f[k - 1], m, N, Y_(k - 1), L_(k - 1))
    BY <1>5
  <2>4. seq[k] \in Host
    BY <1>3
  <2>5. Drawn(AddPeer(name, f[k - 1], seq[k]), m, N, Y_(k), L_(k))
    BY <2>2, <2>3, <2>4, LinkDrawn
  <2> QED
    BY <1>2, <2>5
<1>6. n \in good
  <2> HIDE DEF good
  <2>1. 0 .. n \subseteq good
    BY <1>3, <1>4, <1>5, ReachedBySteps
  <2> QED
    BY <1>3, <2>1
<1> QED
  BY <1>2, <1>3, <1>6

(* addHost draws a host, for Ensure makes the sets of a host without peers. *)
LEMMA HostDrawn ==
  ASSUME NEW m \in Maps(Host), NEW N \in SUBSET Host, NEW Y, NEW L, NEW g,
         Drawn(g, m, N, Y, L), NEW hostMap, NEW hn \in Host,
         hostMap[hn].Peers \in SUBSET Host
  PROVE  Drawn(AddHostToGraph(hostMap, g, hn), m, N \cup {Lower[hn]},
               Y \cup Lowered(hostMap[hn].Peers),
               L \cup LinksTo(Lower[hn], m, hostMap[hn].Peers))
<1> DEFINE name == Lower[hn]
           NN == N \cup {name}
           g0 == [aliases |-> g.aliases, outbound |-> Ensure(g.outbound, name),
                  inbound |-> Ensure(g.inbound, name)]
<1>1. name \in Host
  BY PublicationAssumption
<1>2. /\ g0.aliases = g.aliases /\ g0.outbound = Ensure(g.outbound, name)
      /\ g0.inbound = Ensure(g.inbound, name)
      /\ g0 = [aliases |-> g0.aliases, outbound |-> g0.outbound, inbound |-> g0.inbound]
  OBVIOUS
<1> HIDE DEF g0
<1>3. L \subseteq N \X Host
  BY DEF Drawn
<1>4. g0.outbound = [n \in NN |-> {p \in Host : <<n, p>> \in L}]
  <2>1. g.outbound = [n \in N |-> {p \in Host : <<n, p>> \in L}]
    BY DEF Drawn
  <2>2. \A n \in NN \ N : {p \in Host : <<n, p>> \in L} = {}
    BY <1>3
  <2> QED
    BY <1>2, <2>1, <2>2 DEF Ensure
<1>5. g0.inbound = [n \in NN \cup {p \in Host : \E c \in NN : <<c, p>> \in L} |->
                      {c \in NN : <<c, n>> \in L}]
  <2> DEFINE P == {p \in Host : \E c \in N : <<c, p>> \in L}
  <2>1. g.inbound = [n \in N \cup P |-> {c \in N : <<c, n>> \in L}]
    BY DEF Drawn
  <2>2. P = {p \in Host : \E c \in NN : <<c, p>> \in L}
    BY <1>3
  <2>3. \A n \in Host : {c \in N : <<c, n>> \in L} = {c \in NN : <<c, n>> \in L}
    BY <1>3
  <2>4. name \notin N \cup P => {c \in NN : <<c, name>> \in L} = {}
    BY <1>1, <1>3
  <2>5. P \subseteq Host /\ N \subseteq Host
    OBVIOUS
  <2> HIDE DEF P
  <2>6. g0.inbound = [n \in NN \cup P |-> {c \in NN : <<c, n>> \in L}]
    BY <1>1, <1>2, <2>1, <2>3, <2>4, <2>5 DEF Ensure
  <2> QED
    BY <2>2, <2>6
<1>6. NN \in SUBSET Host
  BY <1>1
<1>7. g0 \in Graphs
  <2>1. g.aliases \in Maps(Host)
    BY DEF Drawn, Graphs
  <2>2. g0.outbound \in Maps(SUBSET Host) /\ g0.inbound \in Maps(SUBSET Host)
    <3>1. /\ NN \subseteq Host
          /\ \A n \in NN : {p \in Host : <<n, p>> \in L} \in SUBSET Host
      BY <1>6
    <3>2. g0.outbound \in Maps(SUBSET Host)
      BY <1>4, <3>1 DEF Maps
    <3>3. g0.inbound \in [NN \cup {p \in Host : \E c \in NN : <<c, p>> \in L} -> SUBSET Host]
      BY <1>5, <3>1
    <3>4. NN \cup {p \in Host : \E c \in NN : <<c, p>> \in L} \in SUBSET Host
      BY <3>1
    <3>5. g0.inbound \in Maps(SUBSET Host)
      BY <3>3, <3>4 DEF Maps
    <3> QED
      BY <3>2, <3>5
  <2> QED
    BY <1>2, <2>1, <2>2 DEF Graphs
<1>8. Drawn(g0, m, NN, Y, L)
  BY <1>2, <1>3, <1>4, <1>5, <1>7 DEF Drawn
<1> DEFINE seq == HostSort(hostMap[hn].Peers)
<1>9. seq \in Seq(Host) /\ ToSet(seq) = hostMap[hn].Peers
  BY HostSortMembers
<1>10. AddHostToGraph(hostMap, g, hn) = AddPeers(name, g0, seq)
  BY DEF AddHostToGraph, g0
<1> HIDE DEF seq
<1>11. name \in NN
  OBVIOUS
<1> HIDE DEF NN
<1> QED
  BY <1>6, <1>8, <1>9, <1>10, <1>11, PeersDrawn DEF NN

(* What the hosts of D list, and their links.                              *)
Listings(hostMap, D) == UNION {Lowered(hostMap[c].Peers) : c \in D}
Links(hostMap, m, D) == UNION {LinksTo(Lower[c], m, hostMap[c].Peers) : c \in D}

DrawnOf(g, hostMap, m, D) ==
  Drawn(g, m, {Lower[c] : c \in D}, Listings(hostMap, D), Links(hostMap, m, D))

LEMMA NextHostDrawn ==
  ASSUME NEW m \in Maps(Host), NEW hostMap, NEW D \in SUBSET Host, NEW hn \in Host,
         NEW g, DrawnOf(g, hostMap, m, D), hostMap[hn].Peers \in SUBSET Host
  PROVE  DrawnOf(AddHostToGraph(hostMap, g, hn), hostMap, m, D \cup {hn})
<1> DEFINE N == {Lower[c] : c \in D}
           Y == Listings(hostMap, D)
           L == Links(hostMap, m, D)
<1>1. N \in SUBSET Host
  BY PublicationAssumption
<1>2. Drawn(g, m, N, Y, L)
  BY DEF DrawnOf
<1>3. {Lower[c] : c \in D \cup {hn}} = N \cup {Lower[hn]}
  OBVIOUS
<1>4. Listings(hostMap, D \cup {hn}) = Y \cup Lowered(hostMap[hn].Peers)
  BY DEF Listings
<1>5. Links(hostMap, m, D \cup {hn}) = L \cup LinksTo(Lower[hn], m, hostMap[hn].Peers)
  BY DEF Links
<1> HIDE DEF N, Y, L
<1>6. Drawn(AddHostToGraph(hostMap, g, hn), m, N \cup {Lower[hn]},
            Y \cup Lowered(hostMap[hn].Peers), L \cup LinksTo(Lower[hn], m, hostMap[hn].Peers))
  BY <1>1, <1>2, HostDrawn
<1> QED
  BY <1>3, <1>4, <1>5, <1>6 DEF DrawnOf

LEMMA AddHostsSteps ==
  ASSUME NEW m \in Maps(Host), NEW hostMap, DOMAIN hostMap \in SUBSET Host,
         \A c \in DOMAIN hostMap : hostMap[c].Peers \in SUBSET Host,
         NEW g0, DrawnOf(g0, hostMap, m, {}), NEW seq \in Seq(DOMAIN hostMap)
  PROVE  \E f : /\ AddHosts(hostMap, g0, seq) = f[Len(seq)]
                /\ f[0] = g0
                /\ \A i \in 1 .. Len(seq) :
                     f[i] = AddHostToGraph(hostMap, f[i - 1], seq[i])
<1> DEFINE Fix(g) ==
             g = [s \in SUBSET DOMAIN seq |->
                    IF s = {} THEN g0
                    ELSE AddHostToGraph(hostMap, g[s \ {Max(s)}], seq[Max(s)])]
           n == Len(seq)
           D == DOMAIN hostMap
           G == {g \in Graphs : \E E \in SUBSET Host : DrawnOf(g, hostMap, m, E)}
           F == [p \in G \X D |-> AddHostToGraph(hostMap, p[1], p[2])]
<1>1. seq \in Seq(D) /\ DOMAIN seq = 1 .. n /\ n \in Nat
  OBVIOUS
<1>2. AddHosts(hostMap, g0, seq) = (CHOOSE g : Fix(g))[DOMAIN seq]
  BY DEF AddHosts, FoldLeft, MapThenFoldSet
<1>3. \A g \in G, hn \in D : AddHostToGraph(hostMap, g, hn) \in G
  <2> SUFFICES ASSUME NEW g \in G, NEW hn \in D
               PROVE  AddHostToGraph(hostMap, g, hn) \in G
    OBVIOUS
  <2>1. PICK E \in SUBSET Host : DrawnOf(g, hostMap, m, E)
    OBVIOUS
  <2>2. DrawnOf(AddHostToGraph(hostMap, g, hn), hostMap, m, E \cup {hn})
    BY <2>1, NextHostDrawn
  <2>3. AddHostToGraph(hostMap, g, hn) \in Graphs /\ E \cup {hn} \in SUBSET Host
    BY <2>2 DEF DrawnOf, Drawn
  <2> QED
    BY <2>2, <2>3
<1>4. g0 \in G
  <2>1. g0 \in Graphs /\ {} \in SUBSET Host
    BY DEF DrawnOf, Drawn
  <2> QED
    BY <2>1
<1>5. \A i \in 1 .. n : seq[i] \in D
  OBVIOUS
<1> HIDE DEF G, D
<1>6. /\ F \in [G \X D -> G]
      /\ \A g \in G, h \in D : F[<<g, h>>] = AddHostToGraph(hostMap, g, h)
  BY <1>3
<1> HIDE DEF F
<1>7. PICK g \in [SUBSET (1 .. n) -> G] : IsFold(F, g0, seq, g)
  BY <1>1, <1>4, <1>6, FoldsExist
<1>8. ASSUME NEW s \in SUBSET (1 .. n), s # {}
      PROVE  g[s] = AddHostToGraph(hostMap, g[s \ {Max(s)}], seq[Max(s)])
  <2>1. Max(s) \in 1 .. n
    BY <1>1, <1>8, MaxOfPlaces
  <2> HIDE DEF n
  <2>2. seq[Max(s)] \in D /\ g[s \ {Max(s)}] \in G
    BY <1>5, <2>1
  <2> QED
    BY <1>6, <1>7, <1>8, <2>2 DEF IsFold, Folded, n
<1>9. g = [s \in SUBSET (1 .. n) |->
             IF s = {} THEN g0
             ELSE AddHostToGraph(hostMap, g[s \ {Max(s)}], seq[Max(s)])]
  BY <1>7, <1>8 DEF IsFold, Folded
<1>10. Fix(g)
  BY <1>1, <1>9
<1> HIDE DEF Fix
<1>11. PICK iter : Fix(iter) /\ AddHosts(hostMap, g0, seq) = iter[1 .. n]
  BY <1>1, <1>2, <1>10, Zenon
<1>12. \A s \in SUBSET (1 .. n) :
         iter[s] = IF s = {} THEN g0
                   ELSE AddHostToGraph(hostMap, iter[s \ {Max(s)}], seq[Max(s)])
  <2>1. iter = [s \in SUBSET (1 .. n) |->
                  IF s = {} THEN g0
                  ELSE AddHostToGraph(hostMap, iter[s \ {Max(s)}], seq[Max(s)])]
    BY <1>1, <1>11, Zenon DEF Fix
  <2> QED
    BY <2>1
<1> DEFINE f == [i \in 0 .. n |-> iter[1 .. i]]
<1>13. AddHosts(hostMap, g0, seq) = f[n]
  BY <1>1, <1>11
<1> HIDE DEF n
<1>14. f[0] = g0
  <2>1. 1 .. 0 = {} /\ 0 \in 0 .. n
    BY <1>1
  <2>2. {} \in SUBSET (1 .. n)
    OBVIOUS
  <2> QED
    BY <1>12, <2>1, <2>2
<1>15. ASSUME NEW i \in 1 .. n
       PROVE  f[i] = AddHostToGraph(hostMap, f[i - 1], seq[i])
  <2>1. f[i] = iter[1 .. i] /\ f[i - 1] = iter[1 .. (i - 1)]
    BY <1>1
  <2>2. /\ 1 .. i \in SUBSET (1 .. n) /\ 1 .. i # {}
        /\ Max(1 .. i) = i /\ (1 .. i) \ {i} = 1 .. (i - 1)
    BY <1>1, PlacesUpTo
  <2> HIDE DEF f
  <2> QED
    BY <1>12, <2>1, <2>2
<1> HIDE DEF f
<1> QED
  BY <1>13, <1>14, <1>15 DEF n

(* The graph is drawn of the whole host map; fixOutbounds finds nothing to *)
(* add.                                                                    *)
LEMMA GraphDrawn ==
  ASSUME NEW m \in Maps(Host), NEW hostMap, DOMAIN hostMap \in SUBSET Host,
         \A c \in DOMAIN hostMap : hostMap[c].Peers \in SUBSET Host
  PROVE  DrawnOf(GenerateGraph(hostMap, m), hostMap, m, DOMAIN hostMap)
<1> DEFINE D == DOMAIN hostMap
           g0 == [aliases |-> m, outbound |-> <<>>, inbound |-> <<>>]
           seq == HostSort(D)
           n == Len(seq)
           Names(k) == {seq[j] : j \in 1 .. k}
<1>1. DrawnOf(g0, hostMap, m, {})
  <2>1. <<>> = [x \in {} |-> {}]
    OBVIOUS
  <2>2. <<>> \in Maps(SUBSET Host)
    BY <2>1, MapType
  <2>3. {Lower[c] : c \in {}} = {} /\ Listings(hostMap, {}) = {} /\ Links(hostMap, m, {}) = {}
    BY DEF Listings, Links
  <2>4. g0 \in Graphs
    BY <2>2 DEF Graphs
  <2>5. Drawn(g0, m, {}, {}, {})
    BY <2>1, <2>4 DEF Drawn
  <2> HIDE DEF g0
  <2> QED
    BY <2>3, <2>5 DEF DrawnOf
<1> HIDE DEF g0
<1>2. seq \in Seq(Host) /\ ToSet(seq) = D
  BY HostSortMembers
<1> HIDE DEF seq
<1>3. seq \in Seq(D) /\ n \in Nat /\ Names(n) = D /\ \A i \in 1 .. n : seq[i] \in D
  <2>1. n \in Nat /\ DOMAIN seq = 1 .. n /\ seq = [i \in 1 .. n |-> seq[i]]
    BY <1>2
  <2>2. Names(n) = D
    BY <1>2, <2>1 DEF ToSet
  <2>3. \A i \in 1 .. n : seq[i] \in D
    BY <2>2
  <2>4. seq \in [1 .. n -> D]
    BY <2>1, <2>3
  <2> QED
    BY <2>1, <2>2, <2>3, <2>4
<1>4. PICK f : /\ AddHosts(hostMap, g0, seq) = f[n]
               /\ f[0] = g0
               /\ \A i \in 1 .. n : f[i] = AddHostToGraph(hostMap, f[i - 1], seq[i])
  <2> HIDE DEF Names
  <2> QED
    BY <1>1, <1>3, AddHostsSteps
<1> HIDE DEF n
<1> DEFINE good == {k \in 0 .. n : DrawnOf(f[k], hostMap, m, Names(k))}
<1>5. 0 \in good
  <2>1. Names(0) = {}
    OBVIOUS
  <2>2. DrawnOf(f[0], hostMap, m, {}) /\ 0 \in 0 .. n
    BY <1>1, <1>3, <1>4
  <2> HIDE DEF Names
  <2> QED
    BY <2>1, <2>2
<1>6. ASSUME NEW k \in 1 .. n, k - 1 \in good
      PROVE  k \in good
  <2>1. Names(k) = Names(k - 1) \cup {seq[k]}
    BY <1>3
  <2>2. Names(k - 1) \in SUBSET Host /\ seq[k] \in Host /\ seq[k] \in D
    BY <1>3
  <2> HIDE DEF Names
  <2>3. DrawnOf(f[k - 1], hostMap, m, Names(k - 1))
    BY <1>6
  <2>4. DrawnOf(AddHostToGraph(hostMap, f[k - 1], seq[k]), hostMap, m, Names(k))
    BY <2>1, <2>2, <2>3, NextHostDrawn
  <2> QED
    BY <1>4, <2>4
<1>7. DrawnOf(AddHosts(hostMap, g0, seq), hostMap, m, D)
  <2> HIDE DEF good
  <2>1. 0 .. n \subseteq good
    BY <1>3, <1>5, <1>6, ReachedBySteps
  <2>2. n \in good
    BY <1>3, <2>1
  <2> USE DEF good
  <2> QED
    BY <1>3, <1>4, <2>2
<1> DEFINE g == AddHosts(hostMap, g0, seq)
<1>8. GenerateGraph(hostMap, m) = FixOutbounds(g)
  BY DEF GenerateGraph, g0, seq
<1> HIDE DEF g
<1>9. FixOutbounds(g) = g
  <2>1. /\ g \in Graphs
        /\ DOMAIN g.outbound = {Lower[c] : c \in D}
        /\ \A k \in DOMAIN g.inbound : g.inbound[k] \subseteq {Lower[c] : c \in D}
        /\ g.outbound = [k \in DOMAIN g.outbound |-> g.outbound[k]]
    <3> DEFINE N == {Lower[c] : c \in D}
               Y == Listings(hostMap, D)
               L == Links(hostMap, m, D)
    <3>1. Drawn(g, m, N, Y, L)
      BY <1>7 DEF DrawnOf, g
    <3> HIDE DEF N, Y, L
    <3>2. /\ g \in Graphs
          /\ g.outbound = [n_ \in N |-> {p \in Host : <<n_, p>> \in L}]
          /\ \A k \in DOMAIN g.inbound : g.inbound[k] \subseteq N
      BY <3>1 DEF Drawn
    <3>3. DOMAIN g.outbound = N /\ g.outbound = [k \in DOMAIN g.outbound |-> g.outbound[k]]
      BY <3>2
    <3> QED
      BY <3>2, <3>3 DEF N
  <2> DEFINE members == UNION {g.inbound[k] : k \in DOMAIN g.inbound}
  <2>2. DOMAIN g.outbound \cup members = DOMAIN g.outbound
    BY <2>1
  <2>4. FixOutbounds(g) = [g EXCEPT !.outbound = g.outbound]
    BY <2>1, <2>2 DEF FixOutbounds
  <2> QED
    BY <2>1, <2>4 DEF Graphs
<1> QED
  BY <1>7, <1>8, <1>9 DEF g

-----------------------------------------------------------------------------
(* Names that went over to another host.                                   *)

(* The server queried as x called itself h, and x is not published.        *)
WentOver(x, h) ==
  /\ \E page \in Page[x] \ {Absent} : Canonical(x, page) = h
  /\ x \in considering \ (lookups \cup fetches)
  /\ ~ Published(x)

(* An alias other than a host's own name went over to it, and only to it.  *)
AliasesWentOver ==
  /\ \A h, x \in Host : x \in aliasesForHost[h] /\ x # h => WentOver(x, h)
  /\ \A x, h, k \in Host :
       x \in aliasesForHost[h] \cap aliasesForHost[k] /\ x \notin {h, k} => h = k

LEMMA InitAliases == Init => AliasesWentOver
BY DEF Init, AliasesWentOver

(* Nothing but its own lookup and fetch, or another server's claim, brings *)
(* a name back.                                                            *)
LEMMA SameAliases ==
  ASSUME AliasesWentOver,
         \A h, x \in Host : x \in aliasesForHost'[h] /\ x # h =>
           x \in aliasesForHost[h],
         \A h, x \in Host : WentOver(x, h) => WentOver(x, h)'
  PROVE  AliasesWentOver'
BY DEF AliasesWentOver

LEMMA NextAliases ==
  ASSUME NamesSettled(Page), TypeOK, WorkInOnePlace, AliasesWentOver, [Next]_vars
  PROVE  AliasesWentOver'
<1> USE DEF directory
<1>1. /\ serverInfos \in [Host -> {Absent, Nil} \cup Node]
      /\ aliasesForHost \in [Host -> SUBSET Host]
      /\ Absent \notin Node /\ Nil \notin Node
      /\ lookups \subseteq considering /\ considering \subseteq Host
      /\ fetches \subseteq considering \ lookups
  BY SpiderAssumption DEF TypeOK, WorkInOnePlace
<1>2. CASE UNCHANGED <<directory, lookups, fetches, considering, distances>>
  BY <1>2, SameAliases DEF WentOver, Published
<1>3. CASE SkipHost
  BY <1>3, SameAliases DEF SkipHost, workers, WentOver, Published
<1>4. CASE StartLookup
  <2> DEFINE h == Head(request.hostnames)
  <2>1. /\ h \notin considering /\ UNCHANGED <<fetches, aliasesForHost, serverInfos>>
        /\ considering' = considering \cup {h} /\ lookups' = lookups \cup {h}
    BY <1>4 DEF StartLookup, Skip
  <2> HIDE DEF h
  <2> QED
    BY <2>1, SameAliases DEF WentOver, Published
<1>5. ASSUME NEW h \in lookups, NEW ips \in Lookup[h], RejectName(h, ips)
      PROVE  AliasesWentOver'
  BY <1>5, SameAliases DEF RejectName, ReceiveDns, WentOver, Published
<1>6. ASSUME NEW h \in lookups, NEW ips \in Lookup[h], NEW ip \in ips,
             AliasByAddress(h, ips, ip)
      PROVE  AliasesWentOver'
  BY <1>6, SameAliases DEF AliasByAddress, ReceiveDns, WentOver, Published
<1>7. ASSUME NEW h \in lookups, NEW ips \in Lookup[h], NewHost(h, ips)
      PROVE  AliasesWentOver'
  <2>1. /\ UNCHANGED considering /\ h \in Host
        /\ lookups' = lookups \ {h} /\ fetches' = fetches \cup {h}
        /\ aliasesForHost' = [aliasesForHost EXCEPT ![h] = {h}]
        /\ serverInfos' = [serverInfos EXCEPT ![h] = Nil]
    BY <1>1, <1>7 DEF NewHost, ReceiveDns
  <2> QED
    BY <1>1, <2>1, SameAliases DEF WentOver, Published
<1>8. ASSUME NEW h \in fetches, QueryFailed(h)
      PROVE  AliasesWentOver'
  BY <1>8, SameAliases DEF QueryFailed, ReceiveHost, WentOver, Published
<1>9. ASSUME NEW h \in fetches, NEW page \in Page[h] \ {Absent},
             QuerySucceeded(h, page)
      PROVE  AliasesWentOver'
  <2> DEFINE c == Canonical(h, page)
  <2>1. h \in Host /\ c \in Host /\ h \in considering \ lookups
    BY <1>1, PageType
  <2>2. /\ UNCHANGED <<considering, lookups>> /\ fetches' = fetches \ {h}
        /\ \A x \in Host \ {c, h} : serverInfos'[x] = serverInfos[x]
        /\ c # h => serverInfos'[h] = Absent
    BY <1>9, <2>1 DEF QuerySucceeded, ReceiveHost, BatchAddHost
  <2>3. c # h => \A own \in Page[c] \ {Absent} : Canonical(c, own) = c
    BY <2>1 DEF NamesSettled
  <2>4. \A x, k \in Host : x # k /\ WentOver(x, k) => x # c /\ x # h
    BY <2>3 DEF WentOver
  <2> HIDE DEF c
  <2>5. \A x, k \in Host : x # k /\ WentOver(x, k) => WentOver(x, k)'
    BY <2>2, <2>4 DEF WentOver, Published
  <2>6. CASE c = h
    BY <1>9, <2>5, <2>6 DEF QuerySucceeded, AliasesWentOver, c
  <2>7. CASE c # h
    <3>1. aliasesForHost' = [aliasesForHost EXCEPT ![c] = aliasesForHost[h] \cup {c},
                                                   ![h] = {}]
      BY <1>9, <2>7 DEF QuerySucceeded, Rename, MovedAliases, c
    <3>2. aliasesForHost[h] \subseteq {h}
      <4> SUFFICES ASSUME NEW x \in Host, x \in aliasesForHost[h], x # h PROVE FALSE
        BY <1>1, <2>1
      <4>1. PICK other \in Page[x] \ {Absent} : Canonical(x, other) = h
        BY <2>1 DEF AliasesWentOver, WentOver
      <4>2. Canonical(h, page) = h
        BY <4>1 DEF NamesSettled
      <4> QED
        BY <2>7, <4>2 DEF c
    <3>3. \A k, x \in Host : x \in aliasesForHost'[k] /\ x # k =>
            \/ x = h /\ k = c
            \/ x # h /\ x \in aliasesForHost[k]
      <4> SUFFICES ASSUME NEW k \in Host, NEW x \in Host,
                          x \in aliasesForHost'[k], x # k
                   PROVE  \/ x = h /\ k = c
                          \/ x # h /\ x \in aliasesForHost[k]
        OBVIOUS
      <4>1. CASE k = c
        BY <1>1, <2>1, <2>7, <3>1, <3>2, <4>1
      <4>2. CASE k = h
        BY <1>1, <2>1, <3>1, <4>2
      <4>3. CASE k \notin {c, h}
        <5>1. x \in aliasesForHost[k]
          BY <1>1, <3>1, <4>3
        <5>2. x # h
          BY <2>4, <5>1 DEF AliasesWentOver
        <5> QED
          BY <5>1, <5>2
      <4> QED
        BY <4>1, <4>2, <4>3
    <3>4. WentOver(h, c)'
      BY <1>1, <2>1, <2>2, <2>7 DEF WentOver, Published, c
    <3>5. \A k, x \in Host : x \in aliasesForHost'[k] /\ x # k => WentOver(x, k)'
      BY <2>5, <3>3, <3>4 DEF AliasesWentOver
    <3>6. \A x, k, m \in Host :
            x \in aliasesForHost'[k] \cap aliasesForHost'[m] /\ x \notin {k, m} => k = m
      BY <3>3 DEF AliasesWentOver
    <3> QED
      BY <3>5, <3>6 DEF AliasesWentOver
  <2> QED
    BY <2>6, <2>7
<1> QED
  BY <1>2, <1>3, <1>4, <1>5, <1>6, <1>7, <1>8, <1>9, MapStep
     DEF DnsStep, HostStep

-----------------------------------------------------------------------------
(* A name has one claimant.                                                *)
LEMMA OneClaimant ==
  ASSUME AliasesWentOver
  PROVE  \A x \in Host : \A c, d \in Claimants(HostMap, x) : c = d
<1>1. DOMAIN HostMap = {c \in Host : Published(c)}
  BY DEF HostMap
<1>2. \A c \in DOMAIN HostMap : HostMap[c].Aliases = aliasesForHost[c] \ {c}
  BY DEF HostMap
<1>3. ASSUME NEW x \in Host, NEW c \in Claimants(HostMap, x), NEW d \in Claimants(HostMap, x)
      PROVE  c = d
  <2>1. /\ c \in Host /\ Published(c) /\ d \in Host /\ Published(d)
        /\ x = c \/ x \in aliasesForHost[c]
        /\ x = d \/ x \in aliasesForHost[d]
    BY <1>1, <1>2 DEF Claimants
  <2> QED
    BY <2>1 DEF AliasesWentOver, WentOver
<1> QED
  BY <1>3

LEMMA PlaceIn ==
  ASSUME NEW h \in Host
  PROVE  Place(h) \in 1 .. Len(HostOrder)
<1>1. PICK i \in DOMAIN HostOrder : HostOrder[i] = h
  BY PublicationAssumption
<1>2. Place(h) \in DOMAIN HostOrder
  BY <1>1 DEF Place
<1> QED
  BY <1>2, PublicationAssumption

LEMMA OneAliasMap ==
  ASSUME AliasesWentOver
  PROVE  ReloadedAliasMaps(HostMap) = {AliasMap(HostMap)}
<1> DEFINE names == {y \in Host : Claimants(HostMap, y) # {}}
           m == AliasMap(HostMap)
<1>1. m = [x \in names |-> m[x]] /\ DOMAIN m = names
  BY DEF AliasMap
<1>2. ASSUME NEW x \in names
      PROVE  m[x] \in Claimants(HostMap, x)
  <2>1. PICK c : Claimants(HostMap, x) = {c}
    BY OneClaimant
  <2>2. c \in Host
    BY <2>1 DEF Claimants, HostMap
  <2>3. Place(c) <= Place(c)
    BY <2>2, PlaceIn, PublicationAssumption
  <2>4. c = CHOOSE k \in {c} : \A d \in {c} : Place(d) <= Place(k)
    BY <2>3, Zenon
  <2>5. m[x] = CHOOSE k \in {c} : \A d \in {c} : Place(d) <= Place(k)
    BY <2>1, Zenon DEF AliasMap
  <2> QED
    BY <2>1, <2>4, <2>5
<1>3. \A x \in names : Claimants(HostMap, x) \subseteq DOMAIN HostMap
  BY DEF Claimants
<1>4. ReloadedAliasMaps(HostMap) =
        {k \in [names -> DOMAIN HostMap] : \A x \in names : k[x] \in Claimants(HostMap, x)}
  BY <1>1 DEF ReloadedAliasMaps
<1> HIDE DEF m, names
<1>5. m \in ReloadedAliasMaps(HostMap)
  BY <1>1, <1>2, <1>3, <1>4
<1>6. ASSUME NEW k \in ReloadedAliasMaps(HostMap)
      PROVE  k = m
  <2>1. k \in [names -> DOMAIN HostMap] /\ \A x \in names : k[x] \in Claimants(HostMap, x)
    BY <1>4
  <2>2. \A x \in names : k[x] = m[x]
    <3>1. names \subseteq Host
      BY DEF names
    <3> QED
      BY <1>2, <2>1, <3>1, OneClaimant
  <2> QED
    BY <1>1, <2>1, <2>2
<1> QED
  BY <1>5, <1>6 DEF m

(* Where the names that servers give themselves are settled, a restart     *)
(* from the dump publishes the aliases the crawl published: a name that is *)
(* taken over is never published itself, and goes to one host only         *)
(* (GetAliasMapForHostmap, hostmap.go).                                    *)
THEOREM SettledAliasesReload ==
  ASSUME NamesSettled(Page) PROVE Spec => []ReloadKeepsAliases
<1>1. AliasesWentOver => ReloadKeepsAliases
  BY OneAliasMap DEF ReloadKeepsAliases
<1>2. TypeOK /\ WorkInOnePlace /\ AliasesWentOver /\ [Next]_vars => AliasesWentOver'
  BY NextAliases
<1> QED
  BY <1>1, <1>2, InitAliases, TypeCorrect, OnePlace, PTL DEF Spec

-----------------------------------------------------------------------------
(* Published hosts.                                                        *)

(* A published host has a name in lower case and still has the alias it    *)
(* was queried by.                                                         *)
PublishedInLowerCase == \A c \in Host : Published(c) => Lower[c] = c

QueriedAs ==
  \A c \in Host : Published(c) =>
    LET h == serverInfos[c].Hostname
    IN  h \in Host /\ h \in aliasesForHost[c] /\ (Lower[h] # h => Lower[h] = c)

(* Nothing but a page that was read publishes a host, and one that is       *)
(* published keeps its aliases until its next page.                        *)
LEMMA PublishStep ==
  ASSUME TypeOK, [Next]_vars
  PROVE  \/ \A c \in Host : Published(c)' =>
              /\ Published(c) /\ serverInfos'[c] = serverInfos[c]
              /\ aliasesForHost[c] \subseteq aliasesForHost'[c]
         \/ \E h \in fetches : \E page \in Page[h] \ {Absent} : QuerySucceeded(h, page)
<1> USE DEF directory
<1>1. /\ serverInfos \in [Host -> {Absent, Nil} \cup Node]
      /\ aliasesForHost \in [Host -> SUBSET Host]
      /\ Absent \notin Node /\ Nil \notin Node
      /\ lookups \subseteq Host /\ fetches \subseteq Host
  BY SpiderAssumption DEF TypeOK
<1> DEFINE Kept == \A c \in Host : Published(c)' =>
              /\ Published(c) /\ serverInfos'[c] = serverInfos[c]
              /\ aliasesForHost[c] \subseteq aliasesForHost'[c]
<1>2. CASE UNCHANGED <<directory, lookups, fetches, considering, distances>>
  BY <1>2 DEF Published
<1>3. CASE SkipHost
  BY <1>3 DEF SkipHost, Published
<1>4. CASE StartLookup
  BY <1>4 DEF StartLookup, Skip, Published
<1>5. ASSUME NEW h \in lookups, NEW ips \in Lookup[h], RejectName(h, ips)
      PROVE  Kept
  BY <1>5 DEF RejectName, ReceiveDns, Published
<1>6. ASSUME NEW h \in lookups, NEW ips \in Lookup[h], NEW ip \in ips,
             AliasByAddress(h, ips, ip)
      PROVE  Kept
  BY <1>1, <1>6 DEF AliasByAddress, ReceiveDns, Published
<1>7. ASSUME NEW h \in lookups, NEW ips \in Lookup[h], NewHost(h, ips)
      PROVE  Kept
  BY <1>1, <1>7 DEF NewHost, ReceiveDns, Published
<1>8. ASSUME NEW h \in fetches, QueryFailed(h)
      PROVE  Kept
  BY <1>1, <1>8 DEF QueryFailed, ReceiveHost, Published
<1> QED
  BY <1>2, <1>3, <1>4, <1>5, <1>6, <1>7, <1>8, MapStep
     DEF DnsStep, HostStep

(* What a page that was read does to the published hosts.                  *)
LEMMA PublishPage ==
  ASSUME TypeOK, NEW h \in fetches, NEW page \in Page[h] \ {Absent}, QuerySucceeded(h, page)
  PROVE  LET c == Canonical(h, page)
         IN  /\ h \in Host /\ c \in Host
             /\ serverInfos'[c] = [Hostname |-> h, GossipPeerList |-> page.peers]
             /\ h \in aliasesForHost[h] => h \in aliasesForHost'[c]
             /\ \A x \in Host : Published(x)' =>
                  \/ x = c
                  \/ /\ Published(x) /\ serverInfos'[x] = serverInfos[x]
                     /\ aliasesForHost'[x] = aliasesForHost[x]
<1> DEFINE c == Canonical(h, page)
<1>1. /\ serverInfos \in [Host -> {Absent, Nil} \cup Node]
      /\ aliasesForHost \in [Host -> SUBSET Host]
      /\ Absent \notin Node
  BY SpiderAssumption DEF TypeOK
<1>2. h \in Host /\ c \in Host
  BY PageType
<1>3. /\ serverInfos' = [x \in Host |->
              IF x = c THEN [Hostname |-> h, GossipPeerList |-> page.peers]
              ELSE IF x = h THEN Absent ELSE serverInfos[x]]
      /\ \/ c # h /\ aliasesForHost' = [aliasesForHost EXCEPT ![c] = aliasesForHost[h] \cup {c},
                                                            ![h] = {}]
         \/ c = h /\ aliasesForHost' = aliasesForHost
  BY DEF QuerySucceeded, Rename, MovedAliases
<1> HIDE DEF c
<1>4. h \in aliasesForHost[h] => h \in aliasesForHost'[c]
  BY <1>1, <1>2, <1>3
<1>5. ASSUME NEW x \in Host, Published(x)', x # c
      PROVE  /\ Published(x) /\ serverInfos'[x] = serverInfos[x]
             /\ aliasesForHost'[x] = aliasesForHost[x]
  <2>1. x # h /\ serverInfos'[x] = serverInfos[x]
    BY <1>1, <1>3, <1>5 DEF Published
  <2> QED
    BY <1>1, <1>2, <1>3, <1>5, <2>1 DEF Published
<1> QED
  BY <1>2, <1>3, <1>4, <1>5 DEF c

LEMMA NextPublishedInLowerCase ==
  ASSUME NamedInLowerCase(Page), TypeOK, PublishedInLowerCase, [Next]_vars
  PROVE  PublishedInLowerCase'
<1>1. CASE \A c \in Host : Published(c)' => Published(c)
  BY <1>1 DEF PublishedInLowerCase
<1>2. ASSUME NEW h \in fetches, NEW page \in Page[h] \ {Absent}, QuerySucceeded(h, page)
      PROVE  PublishedInLowerCase'
  <2> DEFINE c == Canonical(h, page)
  <2>1. h \in Host /\ \A x \in Host : Published(x)' => x = c \/ Published(x)
    BY <1>2, PublishPage
  <2>2. Lower[c] = c
    BY <2>1 DEF NamedInLowerCase
  <2> HIDE DEF c
  <2> QED
    BY <2>1, <2>2 DEF PublishedInLowerCase
<1> QED
  BY <1>1, <1>2, PublishStep

LEMMA NextQueriedAs ==
  ASSUME CapitalsAreOwnName(Page), TypeOK, InFlightIntact, QueriedAs, [Next]_vars
  PROVE  QueriedAs'
<1>1. CASE \A c \in Host : Published(c)' =>
              /\ Published(c) /\ serverInfos'[c] = serverInfos[c]
              /\ aliasesForHost[c] \subseteq aliasesForHost'[c]
  BY <1>1 DEF QueriedAs
<1>2. ASSUME NEW h \in fetches, NEW page \in Page[h] \ {Absent}, QuerySucceeded(h, page)
      PROVE  QueriedAs'
  <2> DEFINE c == Canonical(h, page)
  <2>1. /\ h \in Host /\ c \in Host
        /\ serverInfos'[c] = [Hostname |-> h, GossipPeerList |-> page.peers]
        /\ h \in aliasesForHost[h] => h \in aliasesForHost'[c]
        /\ \A x \in Host : Published(x)' =>
             \/ x = c
             \/ /\ Published(x) /\ serverInfos'[x] = serverInfos[x]
                /\ aliasesForHost'[x] = aliasesForHost[x]
    BY <1>2, PublishPage
  <2>2. h \in aliasesForHost[h] /\ serverInfos'[c].Hostname = h
    BY <2>1 DEF InFlightIntact
  <2>3. Lower[h] # h => Lower[h] = c
    BY <2>1 DEF CapitalsAreOwnName
  <2> HIDE DEF c
  <2> QED
    BY <2>1, <2>2, <2>3 DEF QueriedAs
<1> QED
  BY <1>1, <1>2, PublishStep

-----------------------------------------------------------------------------
(* The published maps.                                                     *)

LEMMA HostMapType ==
  ASSUME TypeOK
  PROVE  /\ DOMAIN HostMap = {c \in Host : Published(c)}
         /\ \A c \in DOMAIN HostMap :
              /\ HostMap[c].Peers = Peers(c) /\ Peers(c) \in SUBSET Host
              /\ HostMap[c].Hostname = serverInfos[c].Hostname
              /\ HostMap[c].Aliases = aliasesForHost[c] \ {c}
<1>1. /\ DOMAIN HostMap = {c \in Host : Published(c)}
      /\ \A c \in DOMAIN HostMap :
           /\ HostMap[c].Peers = Peers(c)
           /\ HostMap[c].Hostname = serverInfos[c].Hostname
           /\ HostMap[c].Aliases = aliasesForHost[c] \ {c}
  BY DEF HostMap
<1>2. ASSUME NEW c \in Host, Published(c) PROVE Peers(c) \in SUBSET Host
  <2>1. serverInfos[c].GossipPeerList \in Seq(Host)
    BY <1>2 DEF Published, Node
  <2> QED
    BY <2>1 DEF Peers
<1> QED
  BY <1>1, <1>2

(* The alias map leads every name that is claimed to a host that claims it. *)
LEMMA AliasMapClaimed ==
  /\ DOMAIN AliasMap(HostMap) = {y \in Host : Claimants(HostMap, y) # {}}
  /\ \A x \in DOMAIN AliasMap(HostMap) :
       AliasMap(HostMap)[x] \in Claimants(HostMap, x)
<1> DEFINE names == {y \in Host : Claimants(HostMap, y) # {}}
           Latest(x, c) == \A d \in Claimants(HostMap, x) : Place(d) <= Place(c)
<1>1. AliasMap(HostMap) = [x \in names |-> CHOOSE c \in Claimants(HostMap, x) : Latest(x, c)]
  BY DEF AliasMap
<1>2. ASSUME NEW x \in names
      PROVE  \E c \in Claimants(HostMap, x) : Latest(x, c)
  <2> DEFINE S == Claimants(HostMap, x)
             P == {Place(c) : c \in S}
  <2>1. S \subseteq Host /\ S # {}
    BY DEF Claimants, HostMap
  <2>2. Len(HostOrder) \in Nat
    BY PublicationAssumption
  <2>3. P \in SUBSET (1 .. Len(HostOrder)) /\ P # {}
    BY <2>1, PlaceIn
  <2>4. Max(P) \in P /\ \A y \in P : y <= Max(P)
    <3> HIDE DEF P
    <3> QED
      BY <2>2, <2>3, MaxOfPlaces
  <2>5. PICK c \in S : Place(c) = Max(P)
    BY <2>4
  <2> QED
    BY <2>4, <2>5
<1>3. \A x \in names : AliasMap(HostMap)[x] \in Claimants(HostMap, x)
  <2> HIDE DEF names, Latest
  <2> QED
    BY <1>1, <1>2
<1> QED
  BY <1>1, <1>3

LEMMA AliasMapType == AliasMap(HostMap) \in Maps(Host)
<1>1. \A x : Claimants(HostMap, x) \subseteq Host
  BY DEF Claimants, HostMap
<1>2. /\ DOMAIN AliasMap(HostMap) \subseteq Host
      /\ \A x \in DOMAIN AliasMap(HostMap) : AliasMap(HostMap)[x] \in Host
  BY <1>1, AliasMapClaimed
<1>3. AliasMap(HostMap) = [x \in DOMAIN AliasMap(HostMap) |-> AliasMap(HostMap)[x]]
  BY DEF AliasMap
<1> QED
  BY <1>2, <1>3, MapType

(* The published graph, its hosts being named in lower case.               *)
LEMMA GraphOfHosts ==
  ASSUME TypeOK, PublishedInLowerCase
  PROVE  LET D == DOMAIN HostMap
             m == AliasMap(HostMap)
             Known(x) == Resolved(m, Lower[x])
             ListedAs(c) == {Known(x) : x \in HostMap[c].Peers}
         IN  /\ \A c \in D : Lower[c] = c
             /\ Graph \in Graphs
             /\ \A y \in Host : Lower[y] = y =>
                  /\ y \in DOMAIN Graph.aliases <=>
                       \/ y \in DOMAIN m
                       \/ \E c \in D : \E x \in HostMap[c].Peers : y = Lower[x]
                  /\ Resolved(Graph.aliases, y) = Resolved(m, y)
             /\ DOMAIN Graph.outbound = D
             /\ \A c \in D : Graph.outbound[c] = ListedAs(c)
             /\ DOMAIN Graph.inbound = D \cup UNION {ListedAs(c) : c \in D}
             /\ \A p \in DOMAIN Graph.inbound :
                  Graph.inbound[p] = {c \in D : p \in ListedAs(c)}
<1> DEFINE D == DOMAIN HostMap
           m == AliasMap(HostMap)
           Known(x) == Resolved(m, Lower[x])
           ListedAs(c) == {Known(x) : x \in HostMap[c].Peers}
           Y == Listings(HostMap, D)
           L == Links(HostMap, m, D)
<1>1. D \in SUBSET Host /\ \A c \in D : HostMap[c].Peers \in SUBSET Host
  BY HostMapType
<1>2. \A c \in D : Lower[c] = c
  BY HostMapType DEF PublishedInLowerCase
<1>3. {Lower[c] : c \in D} = D
  BY <1>2
<1>4. Drawn(Graph, m, D, Y, L)
  BY <1>1, <1>3, GraphDrawn, AliasMapType DEF DrawnOf, Graph
<1>5. \A y : y \in Y <=> \E c \in D : \E x \in HostMap[c].Peers : y = Lower[x]
  BY DEF Listings, Lowered
<1>6. \A p : \A c \in D : <<c, p>> \in L <=> p \in ListedAs(c)
  BY <1>2 DEF Links, LinksTo
<1>7. \A c \in D : ListedAs(c) \subseteq Host
  <2>1. L \subseteq D \X Host
    BY <1>4 DEF Drawn
  <2> QED
    BY <1>6, <2>1
<1> HIDE DEF D, m, ListedAs, Y, L
<1>8. /\ Graph \in Graphs
      /\ \A y \in Host : Lower[y] = y =>
           /\ y \in DOMAIN Graph.aliases <=> y \in DOMAIN m \cup Y
           /\ Resolved(Graph.aliases, y) = Resolved(m, y)
      /\ Graph.outbound = [n \in D |-> {p \in Host : <<n, p>> \in L}]
      /\ Graph.inbound = [n \in D \cup {p \in Host : \E c \in D : <<c, p>> \in L} |->
                            {c \in D : <<c, n>> \in L}]
  BY <1>4 DEF Drawn
<1>9. DOMAIN Graph.outbound = D /\ \A c \in D : Graph.outbound[c] = ListedAs(c)
  BY <1>6, <1>7, <1>8
<1>10. {p \in Host : \E c \in D : <<c, p>> \in L} = UNION {ListedAs(c) : c \in D}
  BY <1>6, <1>7
<1>11. /\ DOMAIN Graph.inbound = D \cup UNION {ListedAs(c) : c \in D}
       /\ \A p \in DOMAIN Graph.inbound : Graph.inbound[p] = {c \in D : p \in ListedAs(c)}
  BY <1>6, <1>8, <1>10
<1> QED
  BY <1>2, <1>5, <1>8, <1>9, <1>11 DEF D, m, ListedAs

LEMMA NoNilSetsOf ==
  ASSUME TypeOK, PublishedInLowerCase
  PROVE  NoNilSets
<1> DEFINE g == Graph
           D == DOMAIN HostMap
           m == AliasMap(HostMap)
           Known(x) == Resolved(m, Lower[x])
           ListedAs(c) == {Known(x) : x \in HostMap[c].Peers}
           Shown(c) == {c} \cup AllPeersOf(g, HostMap[c].Hostname)
           asked == {StartHost} \cup UNION {Shown(c) : c \in D}
<1>1. /\ \A c \in D : Lower[c] = c
      /\ g \in Graphs
      /\ \A y \in Host : Lower[y] = y =>
           /\ y \in DOMAIN g.aliases <=>
                \/ y \in DOMAIN m
                \/ \E c \in D : \E x \in HostMap[c].Peers : y = Lower[x]
           /\ Resolved(g.aliases, y) = Resolved(m, y)
      /\ DOMAIN g.outbound = D
      /\ DOMAIN g.inbound = D \cup UNION {ListedAs(c) : c \in D}
  BY GraphOfHosts
<1>2. D \subseteq Host /\ StartHost \in Host
  BY SpiderAssumption DEF HostMap
<1> HIDE DEF g
<1>3. \A name : AllPeersOf(g, name) \subseteq Host
  <2>1. g.outbound \in Maps(SUBSET Host) /\ g.inbound \in Maps(SUBSET Host)
    BY <1>1 DEF Graphs
  <2>2. /\ \A k \in DOMAIN g.outbound : g.outbound[k] \subseteq Host
        /\ \A k \in DOMAIN g.inbound : g.inbound[k] \subseteq Host
    BY <2>1, MapType
  <2> QED
    BY <2>2 DEF AllPeersOf
<1>4. asked \subseteq Host
  BY <1>2, <1>3
<1>5. ASSUME NEW x \in Host, Lower[x] \in DOMAIN g.aliases
      PROVE  g.aliases[Lower[x]] \in DOMAIN g.inbound
  <2> DEFINE y == Lower[x]
  <2>1. y \in Host /\ Lower[y] = y
    BY PublicationAssumption
  <2>2. g.aliases[y] = Resolved(m, y)
    BY <1>1, <1>5, <2>1 DEF Resolved
  <2>3. CASE y \in DOMAIN m
    <3>1. m[y] \in D
      BY <2>3, AliasMapClaimed DEF Claimants
    <3> QED
      BY <1>1, <2>2, <2>3, <3>1 DEF Resolved
  <2>4. CASE y \notin DOMAIN m
    <3>1. PICK c \in D : \E z \in HostMap[c].Peers : y = Lower[z]
      BY <1>1, <1>5, <2>1, <2>4
    <3>2. y \in ListedAs(c)
      BY <2>4, <3>1 DEF Resolved
    <3>3. g.aliases[y] = y
      BY <2>2, <2>4 DEF Resolved
    <3> HIDE DEF ListedAs
    <3> QED
      BY <1>1, <3>2, <3>3
  <2> QED
    BY <2>3, <2>4
<1>6. \A c \in D : Lower[c] \in DOMAIN g.outbound
  BY <1>1
<1> HIDE DEF D
<1> QED
  BY <1>4, <1>5, <1>6 DEF NoNilSets, g, D

(* The hosts of a mesh where no two claim one name.                        *)
LEMMA LedToClaimant ==
  ASSUME TypeOK, AliasesWentOver, NEW y \in Host, NEW q \in DOMAIN HostMap
  PROVE  Resolved(AliasMap(HostMap), y) = q <=> q \in Claimants(HostMap, y)
<1> DEFINE m == AliasMap(HostMap)
<1>1. q \in Host /\ q \in Claimants(HostMap, q)
  BY HostMapType DEF Claimants
<1>2. CASE y \in DOMAIN m
  BY <1>2, AliasMapClaimed, OneClaimant DEF Resolved
<1>3. CASE y \notin DOMAIN m
  BY <1>1, <1>3, AliasMapClaimed DEF Resolved
<1> QED
  BY <1>2, <1>3

LEMMA MutualLabelRightOf ==
  ASSUME TypeOK, PublishedInLowerCase, AliasesWentOver, Lower[StartHost] = StartHost
  PROVE  MutualLabelRight
<1> DEFINE g == Graph
           D == DOMAIN HostMap
           m == AliasMap(HostMap)
           Known(x) == Resolved(m, Lower[x])
           ListedAs(c) == {Known(x) : x \in HostMap[c].Peers}
           base == Claimants(HostMap, StartHost)
           Lists(p, q) == \E x \in HostMap[p].Peers : q \in Claimants(HostMap, Lower[x])
<1>1. /\ \A c \in D : Lower[c] = c
      /\ \A y \in Host : Lower[y] = y =>
           /\ y \in DOMAIN m => y \in DOMAIN g.aliases
           /\ Resolved(g.aliases, y) = Resolved(m, y)
      /\ \A p \in D : p \in DOMAIN g.inbound /\ g.inbound[p] = {c \in D : p \in ListedAs(c)}
  BY GraphOfHosts
<1>2. D \subseteq Host /\ StartHost \in Host /\ \A c \in D : HostMap[c].Peers \subseteq Host
  BY HostMapType, SpiderAssumption
<1>3. \A p, q \in D : q \in ListedAs(p) <=> Lists(p, q)
  <2>1. \A x \in Host : Lower[x] \in Host
    BY PublicationAssumption
  <2>2. ASSUME NEW p \in D, NEW q \in D
        PROVE  q \in ListedAs(p) <=> Lists(p, q)
    <3>1. \A x \in HostMap[p].Peers : Known(x) = q <=> q \in Claimants(HostMap, Lower[x])
      BY <1>2, <2>1, LedToClaimant
    <3> QED
      BY <3>1
  <2> QED
    BY <2>2
<1> HIDE DEF g, ListedAs, Lists
<1>4. \A c \in D : c \in DOMAIN g.aliases /\ g.aliases[c] = c
  <2> SUFFICES ASSUME NEW c \in D PROVE c \in DOMAIN g.aliases /\ g.aliases[c] = c
    OBVIOUS
  <2>1. c \in Host /\ c \in Claimants(HostMap, c)
    BY <1>2 DEF Claimants
  <2>2. Resolved(m, c) = c
    BY <2>1, LedToClaimant
  <2>3. c \in DOMAIN m
    BY <2>1, AliasMapClaimed
  <2> QED
    BY <1>1, <2>1, <2>2, <2>3 DEF Resolved
<1>5. \A p, q \in D : ExistsLink(g, p, q) <=> Lists(p, q)
  BY <1>1, <1>3, <1>4 DEF ExistsLink
<1>6. ASSUME NEW c \in D, base # {}, c \notin base
      PROVE  LabelMutualWithBase(g, c) = "Yes" <=> \E s \in base : Lists(s, c) /\ Lists(c, s)
  <2>1. PICK s : base = {s}
    BY <1>2, <1>6, OneClaimant
  <2>2. s \in D
    BY <2>1 DEF Claimants
  <2>3. Resolved(m, StartHost) = s /\ StartHost \in DOMAIN m
    BY <1>2, <2>1, <2>2, LedToClaimant, AliasMapClaimed
  <2>4. StartHost \in DOMAIN g.aliases /\ g.aliases[StartHost] = s
    BY <1>1, <1>2, <2>3 DEF Resolved
  <2>5. c # s
    BY <1>6, <2>1
  <2>6. LabelMutualWithBase(g, c) =
          IF ExistsLink(g, c, s) /\ ExistsLink(g, s, c) THEN "Yes" ELSE "No"
    BY <1>4, <2>2, <2>4, <2>5 DEF LabelMutualWithBase
  <2> HIDE DEF base, D
  <2> QED
    BY <1>5, <2>1, <2>2, <2>6
<1> QED
  BY <1>6 DEF MutualLabelRight, g, Lists

(* A host is linked to one that lists it, or that it lists, just when it   *)
(* lists it.                                                               *)
LEMMA LinkedIfListed ==
  ASSUME TypeOK, PublishedInLowerCase, AliasesWentOver
  PROVE  LET D == DOMAIN HostMap
             ListedAs(c) == {Resolved(AliasMap(HostMap), Lower[x]) : x \in HostMap[c].Peers}
             listing(c) == {p \in D : c \in ListedAs(p)}
         IN  /\ \A c \in D : /\ c \in DOMAIN Graph.aliases /\ Graph.aliases[c] = c
                             /\ \A x \in ListedAs(c) \cup listing(c) :
                                  /\ x \in DOMAIN Graph.aliases
                                  /\ ExistsLink(Graph, x, c) <=> x \in listing(c)
<1> DEFINE g == Graph
           D == DOMAIN HostMap
           m == AliasMap(HostMap)
           Known(x) == Resolved(m, Lower[x])
           ListedAs(c) == {Known(x) : x \in HostMap[c].Peers}
           listing(c) == {p \in D : c \in ListedAs(p)}
<1>1. /\ \A c \in D : Lower[c] = c
      /\ \A y \in Host : Lower[y] = y =>
           /\ y \in DOMAIN g.aliases <=>
                \/ y \in DOMAIN m
                \/ \E c \in D : \E x \in HostMap[c].Peers : y = Lower[x]
           /\ Resolved(g.aliases, y) = Resolved(m, y)
      /\ DOMAIN g.outbound = D
      /\ \A c \in D : g.outbound[c] = ListedAs(c)
      /\ \A p \in D : p \in DOMAIN g.inbound
      /\ \A p \in DOMAIN g.inbound : g.inbound[p] = listing(p)
  BY GraphOfHosts
<1>2. D \subseteq Host /\ \A c \in D : HostMap[c].Peers \subseteq Host
  BY HostMapType
<1>3. \A x \in Host : Lower[x] \in Host /\ Lower[Lower[x]] = Lower[x]
  BY PublicationAssumption
<1> HIDE DEF g
<1>4. \A c \in D : c \in DOMAIN m /\ m[c] = c /\ c \in DOMAIN g.aliases /\ g.aliases[c] = c
  <2> SUFFICES ASSUME NEW c \in D
               PROVE  c \in DOMAIN m /\ m[c] = c /\ c \in DOMAIN g.aliases /\ g.aliases[c] = c
    OBVIOUS
  <2>1. c \in Host /\ c \in Claimants(HostMap, c)
    BY <1>2 DEF Claimants
  <2>2. Resolved(m, c) = c
    BY <2>1, LedToClaimant
  <2>3. c \in DOMAIN m
    BY <2>1, AliasMapClaimed
  <2> QED
    BY <1>1, <2>1, <2>2, <2>3 DEF Resolved
<1>5. ASSUME NEW c \in D, NEW x \in ListedAs(c) \cup listing(c)
      PROVE  x \in DOMAIN g.aliases /\ (ExistsLink(g, x, c) <=> x \in listing(c))
  <2>1. CASE x \in D
    BY <1>1, <1>4, <2>1 DEF ExistsLink
  <2>2. CASE x \notin D
    <3>1. PICK z \in HostMap[c].Peers : x = Known(z)
      BY <2>2
    <3>2. z \in Host /\ Lower[z] \in Host /\ Lower[Lower[z]] = Lower[z]
      BY <1>2, <1>3, <3>1
    <3>3. x = Lower[z] /\ Lower[z] \notin DOMAIN m
      <4>1. Lower[z] \in DOMAIN m => m[Lower[z]] \in D
        BY AliasMapClaimed DEF Claimants
      <4> QED
        BY <2>2, <3>1, <4>1 DEF Resolved
    <3>4. x \in DOMAIN g.aliases /\ g.aliases[x] = x
      BY <1>1, <3>1, <3>2, <3>3 DEF Resolved
    <3>5. x \notin g.inbound[c]
      BY <1>1, <2>2
    <3>6. ~ ExistsLink(g, x, c)
      BY <1>1, <1>4, <3>2, <3>3, <3>4, <3>5 DEF ExistsLink
    <3> QED
      BY <2>2, <3>4, <3>6
  <2> QED
    BY <2>1, <2>2
<1> HIDE DEF D, m
<1> QED
  BY <1>4, <1>5 DEF g, D, m

LEMMA PeerInfoExactOf ==
  ASSUME TypeOK, PublishedInLowerCase, AliasesWentOver, QueriedAs
  PROVE  PeerInfoExact
<1> DEFINE g == Graph
           D == DOMAIN HostMap
           m == AliasMap(HostMap)
           Known(x) == Resolved(m, Lower[x])
           ListedAs(c) == {Known(x) : x \in HostMap[c].Peers}
           Own(c) == Lower[HostMap[c].Hostname]
           listing(c) == {p \in D : c \in ListedAs(p)}
<1>1. /\ \A c \in D : Lower[c] = c
      /\ \A y \in Host : Lower[y] = y =>
           /\ y \in DOMAIN g.aliases <=>
                \/ y \in DOMAIN m
                \/ \E c \in D : \E x \in HostMap[c].Peers : y = Lower[x]
           /\ Resolved(g.aliases, y) = Resolved(m, y)
      /\ DOMAIN g.outbound = D
      /\ \A c \in D : g.outbound[c] = ListedAs(c)
      /\ \A p \in D : p \in DOMAIN g.inbound
      /\ \A p \in DOMAIN g.inbound : g.inbound[p] = listing(p)
  BY GraphOfHosts
<1>2. D \subseteq Host /\ \A c \in D : HostMap[c].Peers \subseteq Host
  BY HostMapType
<1>3. \A x \in Host : Lower[x] \in Host /\ Lower[Lower[x]] = Lower[x]
  BY PublicationAssumption
<1>4. \A c \in D :
        /\ c \in DOMAIN g.aliases /\ g.aliases[c] = c
        /\ \A x \in ListedAs(c) \cup listing(c) :
             /\ x \in DOMAIN g.aliases
             /\ ExistsLink(g, x, c) <=> x \in listing(c)
  BY LinkedIfListed
<1> HIDE DEF g
<1>5. ASSUME NEW c \in D
      PROVE  Own(c) \in DOMAIN g.aliases /\ g.aliases[Own(c)] = c
  <2> DEFINE h == HostMap[c].Hostname
  <2>1. /\ h \in Host /\ h \in HostMap[c].Aliases \cup {c}
        /\ Lower[h] # h => Lower[h] = c
    BY HostMapType DEF QueriedAs
  <2>2. CASE Lower[h] # h
    BY <1>4, <2>1, <2>2
  <2>3. CASE Lower[h] = h
    <3>1. c \in Claimants(HostMap, h)
      BY <2>1 DEF Claimants
    <3>2. Resolved(m, h) = c /\ h \in DOMAIN m
      BY <2>1, <3>1, LedToClaimant, AliasMapClaimed
    <3> QED
      BY <1>1, <2>1, <2>3, <3>2 DEF Resolved
  <2> QED
    BY <2>2, <2>3
<1>6. ASSUME NEW c \in D
      PROVE  AllPeersOf(g, HostMap[c].Hostname) = ListedAs(c) \cup listing(c)
  <2>1. AllPeersOf(g, HostMap[c].Hostname) = g.outbound[c] \cup g.inbound[c]
    BY <1>1, <1>5 DEF AllPeersOf
  <2> QED
    BY <1>1, <2>1
<1>7. ASSUME NEW c \in D, NEW x \in ListedAs(c) \cup listing(c)
      PROVE  InColumn(g, c, x) = "yes" <=> x \in listing(c)
  <2>1. x \in DOMAIN g.aliases /\ (ExistsLink(g, x, c) <=> x \in listing(c))
    BY <1>4
  <2> QED
    BY <2>1 DEF InColumn
<1>8. \A c : ListedAs(c) = Listed(c)
  BY DEF Listed, Resolved
<1> HIDE DEF D, m, ListedAs
<1> QED
  BY <1>5, <1>6, <1>7, <1>8 DEF PeerInfoExact, g, D

-----------------------------------------------------------------------------
(* The dot file.                                                           *)

Pairs == Host \X Host

OwnLine(g, link) == [from |-> link[1], to |-> link[2], both |-> ExistsLink(g, link[2], link[1])]

DotPages == [shown : SUBSET (Pairs),
             lines : Seq([from : Host, to : Host, both : BOOLEAN])]

LEMMA LineType ==
  ASSUME NEW g, NEW page \in DotPages, NEW link \in Pairs
  PROVE  Line(g, page, link) \in DotPages
<1>1. ExistsLink(g, link[2], link[1]) \in BOOLEAN
  BY DEF ExistsLink
<1>2. <<link[2], link[1]>> \in Pairs
  BY DEF Pairs
<1>3. [from |-> link[1], to |-> link[2], both |-> ExistsLink(g, link[2], link[1])]
        \in [from : Host, to : Host, both : BOOLEAN]
  BY <1>1 DEF Pairs
<1>4. CASE <<link[2], link[1]>> \in page.shown
  BY <1>4 DEF Line
<1>5. CASE <<link[2], link[1]>> \notin page.shown
  <2> DEFINE T == [from : Host, to : Host, both : BOOLEAN]
             own == [from |-> link[1], to |-> link[2], both |-> ExistsLink(g, link[2], link[1])]
  <2>1. /\ page.shown \in SUBSET (Pairs) /\ page.lines \in Seq(T)
    BY DEF DotPages
  <2>2. Append(page.lines, own) \in Seq(T)
    <3>1. own \in T
      BY <1>3
    <3> HIDE DEF T, own
    <3> QED
      BY <2>1, <3>1
  <2>3. Line(g, page, link) =
          [shown |-> IF ExistsLink(g, link[2], link[1])
                     THEN page.shown \cup {<<link[2], link[1]>>} ELSE page.shown,
           lines |-> Append(page.lines, own)]
    BY <1>5 DEF Line
  <2> HIDE DEF own, T
  <2> QED
    BY <1>2, <2>1, <2>2, <2>3 DEF DotPages, T
<1> QED
  BY <1>4, <1>5

LEMMA DrawLinksSteps ==
  ASSUME NEW g, NEW seq \in Seq(Pairs)
  PROVE  \E f : /\ DrawLinks(g, seq) = f[Len(seq)]
                /\ f[0] = [shown |-> {}, lines |-> <<>>]
                /\ \A i \in 1 .. Len(seq) : f[i] = Line(g, f[i - 1], seq[i])
<1> DEFINE g0 == [shown |-> {}, lines |-> <<>>]
           Fix(k) ==
             k = [s \in SUBSET DOMAIN seq |->
                    IF s = {} THEN g0 ELSE Line(g, k[s \ {Max(s)}], seq[Max(s)])]
           n == Len(seq)
           E == Pairs
           F == [p \in DotPages \X E |-> Line(g, p[1], p[2])]
<1>1. seq \in Seq(E) /\ DOMAIN seq = 1 .. n /\ n \in Nat
  OBVIOUS
<1>2. DrawLinks(g, seq) = (CHOOSE k : Fix(k))[DOMAIN seq]
  BY DEF DrawLinks, FoldLeft, MapThenFoldSet
<1>3. F \in [DotPages \X E -> DotPages] /\ g0 \in DotPages
  <2>1. F \in [DotPages \X E -> DotPages]
    BY LineType
  <2>2. g0 \in DotPages
    BY DEF DotPages
  <2> QED
    BY <2>1, <2>2
<1>4. \A page \in DotPages, link \in E : F[<<page, link>>] = Line(g, page, link)
  OBVIOUS
<1>5. \A i \in 1 .. n : seq[i] \in E
  OBVIOUS
<1> HIDE DEF F, E, g0
<1>6. PICK k \in [SUBSET (1 .. n) -> DotPages] : IsFold(F, g0, seq, k)
  BY <1>1, <1>3, FoldsExist
<1>7. ASSUME NEW s \in SUBSET (1 .. n), s # {}
      PROVE  k[s] = Line(g, k[s \ {Max(s)}], seq[Max(s)])
  <2>1. Max(s) \in 1 .. n
    BY <1>1, <1>7, MaxOfPlaces
  <2> HIDE DEF n
  <2>2. seq[Max(s)] \in E /\ k[s \ {Max(s)}] \in DotPages
    BY <1>5, <2>1
  <2> QED
    BY <1>4, <1>6, <1>7, <2>2 DEF IsFold, Folded, n
<1>8. k = [s \in SUBSET (1 .. n) |->
             IF s = {} THEN g0 ELSE Line(g, k[s \ {Max(s)}], seq[Max(s)])]
  BY <1>6, <1>7 DEF IsFold, Folded
<1>9. Fix(k)
  BY <1>1, <1>8
<1> HIDE DEF Fix
<1>10. PICK iter : Fix(iter) /\ DrawLinks(g, seq) = iter[1 .. n]
  BY <1>1, <1>2, <1>9, Zenon
<1>11. \A s \in SUBSET (1 .. n) :
         iter[s] = IF s = {} THEN g0 ELSE Line(g, iter[s \ {Max(s)}], seq[Max(s)])
  <2>1. iter = [s \in SUBSET (1 .. n) |->
                  IF s = {} THEN g0 ELSE Line(g, iter[s \ {Max(s)}], seq[Max(s)])]
    BY <1>1, <1>10, Zenon DEF Fix
  <2> QED
    BY <2>1
<1> DEFINE f == [i \in 0 .. n |-> iter[1 .. i]]
<1>12. DrawLinks(g, seq) = f[n]
  BY <1>1, <1>10
<1> HIDE DEF n
<1>13. f[0] = g0
  <2>1. 1 .. 0 = {} /\ 0 \in 0 .. n
    BY <1>1
  <2>2. {} \in SUBSET (1 .. n)
    OBVIOUS
  <2> QED
    BY <1>11, <2>1, <2>2
<1>14. ASSUME NEW i \in 1 .. n
       PROVE  f[i] = Line(g, f[i - 1], seq[i])
  <2>1. f[i] = iter[1 .. i] /\ f[i - 1] = iter[1 .. (i - 1)]
    BY <1>1
  <2>2. /\ 1 .. i \in SUBSET (1 .. n) /\ 1 .. i # {}
        /\ Max(1 .. i) = i /\ (1 .. i) \ {i} = 1 .. (i - 1)
    BY <1>1, PlacesUpTo
  <2> HIDE DEF f
  <2> QED
    BY <1>11, <2>1, <2>2
<1> HIDE DEF f
<1> QED
  BY <1>12, <1>13, <1>14 DEF n, g0

(* A link is left out only when its line is drawn already.                 *)
LineFor(g, page, link) == OwnLine(g, link) \in ToSet(page.lines)

(* The lines of page are those of the links.                               *)
LinesOf(g, page, links) == ToSet(page.lines) = {OwnLine(g, l) : l \in links}

LEMMA LineDrawn ==
  ASSUME NEW g, NEW page \in DotPages, NEW link \in Pairs, NEW links,
         \A b \in page.shown : LineFor(g, page, <<b[2], b[1]>>),
         LinesOf(g, page, links)
  PROVE  LET next == Line(g, page, link)
         IN  /\ \A b \in next.shown : LineFor(g, next, <<b[2], b[1]>>)
             /\ LinesOf(g, next, links \cup {link})
<1> DEFINE next == Line(g, page, link)
           back == <<link[2], link[1]>>
           own == OwnLine(g, link)
           T == [from : Host, to : Host, both : BOOLEAN]
<1>1. link = <<link[1], link[2]>> /\ back[1] = link[2] /\ back[2] = link[1]
  BY DEF Pairs
<1>2. CASE back \in page.shown
  <2>1. next = page /\ LineFor(g, page, link)
    BY <1>1, <1>2 DEF Line
  <2> HIDE DEF next
  <2>2. LinesOf(g, page, links \cup {link})
    BY <2>1 DEF LineFor, LinesOf
  <2> QED
    BY <2>1, <2>2 DEF next
<1>3. CASE back \notin page.shown
  <2>1. /\ next.shown \subseteq page.shown \cup {back}
        /\ next.lines = Append(page.lines, own)
    BY <1>3 DEF Line, OwnLine
  <2>2. page.lines \in Seq(T)
    BY DEF DotPages
  <2>3. ToSet(next.lines) = ToSet(page.lines) \cup {own}
    <3>1. \A i \in 1 .. Len(page.lines) : i \in DOMAIN next.lines /\ next.lines[i] = page.lines[i]
      BY <2>1, <2>2
    <3>2. Len(page.lines) + 1 \in DOMAIN next.lines /\ next.lines[Len(page.lines) + 1] = own
      BY <2>1, <2>2
    <3>3. DOMAIN page.lines = 1 .. Len(page.lines)
      BY <2>2
    <3>4. \A i \in DOMAIN next.lines : i \in 1 .. Len(page.lines) \/ i = Len(page.lines) + 1
      BY <2>1, <2>2
    <3> HIDE DEF own, next, T
    <3> QED
      BY <3>1, <3>2, <3>3, <3>4 DEF ToSet
  <2> HIDE DEF next
  <2>4. \A l : LineFor(g, page, l) => LineFor(g, next, l)
    BY <2>3 DEF LineFor
  <2>5. LineFor(g, next, link)
    BY <2>3 DEF LineFor
  <2>6. LinesOf(g, next, links \cup {link})
    BY <2>3 DEF LinesOf
  <2> QED
    BY <1>1, <2>1, <2>4, <2>5, <2>6 DEF next
<1> QED
  BY <1>2, <1>3

LEMMA EveryLineDrawn ==
  ASSUME NEW g, NEW seq \in Seq(Pairs)
  PROVE  LinesOf(g, DrawLinks(g, seq), ToSet(seq))
<1> DEFINE n == Len(seq)
           Upto(k) == {seq[j] : j \in 1 .. k}
<1>1. PICK f : /\ DrawLinks(g, seq) = f[n]
               /\ f[0] = [shown |-> {}, lines |-> <<>>]
               /\ \A i \in 1 .. n : f[i] = Line(g, f[i - 1], seq[i])
  BY DrawLinksSteps
<1>2. /\ n \in Nat /\ \A i \in 1 .. n : seq[i] \in Pairs
      /\ ToSet(seq) = Upto(n)
  BY DEF ToSet
<1> HIDE DEF n
<1> DEFINE good == {k \in 0 .. n :
                      /\ f[k] \in DotPages
                      /\ \A b \in f[k].shown : LineFor(g, f[k], <<b[2], b[1]>>)
                      /\ LinesOf(g, f[k], Upto(k))}
<1>3. 0 \in good
  <2>1. 0 \in 0 .. n /\ Upto(0) = {}
    BY <1>2
  <2>2. f[0] \in DotPages /\ f[0].shown = {} /\ f[0].lines = <<>>
    BY <1>1 DEF DotPages
  <2>3. ToSet(f[0].lines) = {}
    <3>1. DOMAIN f[0].lines = {}
      BY <2>2
    <3> QED
      BY <3>1 DEF ToSet
  <2> HIDE DEF Upto
  <2>4. LinesOf(g, f[0], Upto(0))
    BY <2>1, <2>3 DEF LinesOf
  <2> QED
    BY <2>1, <2>2, <2>4
<1>4. ASSUME NEW k \in 1 .. n, k - 1 \in good
      PROVE  k \in good
  <2> DEFINE page == f[k - 1]
             links == Upto(k - 1)
             next == Line(g, page, seq[k])
  <2>1. /\ f[k - 1] \in DotPages /\ seq[k] \in Pairs /\ f[k] = Line(g, f[k - 1], seq[k])
        /\ \A b \in f[k - 1].shown : LineFor(g, f[k - 1], <<b[2], b[1]>>)
        /\ LinesOf(g, f[k - 1], Upto(k - 1))
        /\ k \in 0 .. n
    BY <1>1, <1>2, <1>4
  <2>2. Upto(k) = Upto(k - 1) \cup {seq[k]}
    BY <1>2
  <2> HIDE DEF Upto
  <2>3. /\ \A b \in f[k].shown : LineFor(g, f[k], <<b[2], b[1]>>)
        /\ LinesOf(g, f[k], Upto(k - 1) \cup {seq[k]})
    <3>1. /\ page \in DotPages /\ seq[k] \in Pairs
          /\ \A b \in page.shown : LineFor(g, page, <<b[2], b[1]>>)
          /\ LinesOf(g, page, links)
      BY <2>1
    <3>2. f[k] = next
      BY <2>1
    <3> HIDE DEF page, links
    <3>3. /\ \A b \in next.shown : LineFor(g, next, <<b[2], b[1]>>)
          /\ LinesOf(g, next, links \cup {seq[k]})
      BY <3>1, LineDrawn, Zenon
    <3> HIDE DEF next
    <3> QED
      BY <3>2, <3>3, Zenon DEF links
  <2>4. f[k] \in DotPages
    BY <2>1, LineType
  <2>5. LinesOf(g, f[k], Upto(k))
    BY <2>2, <2>3
  <2> QED
    BY <2>1, <2>3, <2>4, <2>5
<1>5. n \in good
  <2> HIDE DEF good
  <2>1. 0 .. n \subseteq good
    BY <1>2, <1>3, <1>4, ReachedBySteps
  <2> QED
    BY <1>2, <2>1
<1> QED
  BY <1>1, <1>2, <1>5

(* The dot file has the line of every link of the hosts it names, and no   *)
(* others.                                                                 *)
LEMMA DotLinesDrawn ==
  ASSUME NEW g \in Graphs, NEW names \in Seq(Host),
         \A c \in ToSet(names) : Lower[c] \in DOMAIN g.outbound
  PROVE  \A z : z \in ToSet(DotLines(g, names)) <=>
                \E c \in ToSet(names) : \E p \in g.outbound[Lower[c]] : z = OwnLine(g, <<c, p>>)
<1> DEFINE X == Pairs
           Out(i) == HostSort(g.outbound[Lower[names[i]]])
           seqs == [i \in DOMAIN names |-> [j \in DOMAIN Out(i) |-> <<names[i], Out(i)[j]>>]]
<1>1. /\ DOMAIN names = 1 .. Len(names) /\ Len(names) \in Nat
      /\ \A i \in DOMAIN names : names[i] \in Host /\ names[i] \in ToSet(names)
  BY DEF ToSet
<1>2. \A k \in DOMAIN g.outbound : g.outbound[k] \in SUBSET Host
  <2>1. g.outbound \in Maps(SUBSET Host)
    BY DEF Graphs
  <2> QED
    BY <2>1, MapType
<1>3. ASSUME NEW i \in DOMAIN names
      PROVE  /\ Out(i) \in Seq(Host) /\ ToSet(Out(i)) = g.outbound[Lower[names[i]]]
  BY <1>1, <1>2, HostSortMembers
<1> HIDE DEF Out
<1>4. ASSUME NEW i \in DOMAIN names
      PROVE  /\ seqs[i] \in Seq(X)
             /\ ToSet(seqs[i]) = {<<names[i], q>> : q \in g.outbound[Lower[names[i]]]}
  <2> DEFINE s == [j \in DOMAIN Out(i) |-> <<names[i], Out(i)[j]>>]
  <2>1. /\ DOMAIN Out(i) = 1 .. Len(Out(i)) /\ Len(Out(i)) \in Nat
        /\ \A j \in DOMAIN Out(i) : Out(i)[j] \in Host
    BY <1>3
  <2>2. s \in Seq(X)
    BY <1>1, <2>1 DEF Pairs
  <2>3. ToSet(s) = {<<names[i], q>> : q \in ToSet(Out(i))}
    BY DEF ToSet
  <2>4. seqs[i] = s
    OBVIOUS
  <2> HIDE DEF s, seqs
  <2> QED
    BY <1>3, <2>2, <2>3, <2>4
<1>5. /\ seqs \in Seq(Seq(X)) /\ Len(seqs) = Len(names)
  <2>1. DOMAIN seqs = 1 .. Len(names) /\ seqs = [i \in 1 .. Len(names) |-> seqs[i]]
    BY <1>1
  <2> HIDE DEF seqs, X
  <2> QED
    BY <1>1, <1>4, <2>1
<1>6. DotLines(g, names) = DrawLinks(g, FlattenSeq(seqs)).lines
  BY DEF DotLines, Out
<1> HIDE DEF seqs
<1>7. /\ FlattenSeq(seqs) \in Seq(X)
      /\ ToSet(FlattenSeq(seqs)) = UNION {ToSet(seqs[i]) : i \in 1 .. Len(seqs)}
  <2> HIDE DEF X
  <2> QED
    BY <1>5, FlattenMembers
<1>8. ASSUME NEW l
      PROVE  l \in ToSet(FlattenSeq(seqs)) <=>
               \E c \in ToSet(names) : \E p \in g.outbound[Lower[c]] : l = <<c, p>>
  <2>1. l \in ToSet(FlattenSeq(seqs)) <=> \E i \in DOMAIN names : l \in ToSet(seqs[i])
    BY <1>1, <1>5, <1>7
  <2>2. \A i \in DOMAIN names :
          l \in ToSet(seqs[i]) <=> \E p \in g.outbound[Lower[names[i]]] : l = <<names[i], p>>
    BY <1>4
  <2>3. \A c \in ToSet(names) : \E i \in DOMAIN names : c = names[i]
    BY DEF ToSet
  <2> QED
    BY <1>1, <2>1, <2>2, <2>3
<1>9. ToSet(DotLines(g, names)) = {OwnLine(g, l) : l \in ToSet(FlattenSeq(seqs))}
  <2>1. LinesOf(g, DrawLinks(g, FlattenSeq(seqs)), ToSet(FlattenSeq(seqs)))
    BY <1>7, EveryLineDrawn
  <2> QED
    BY <1>6, <2>1, Zenon DEF LinesOf
<1> DEFINE links == ToSet(FlattenSeq(seqs))
<1> HIDE DEF links
<1>10. ASSUME NEW z, z \in ToSet(DotLines(g, names))
       PROVE  \E c \in ToSet(names) : \E p \in g.outbound[Lower[c]] : z = OwnLine(g, <<c, p>>)
  <2>1. PICK l \in links : z = OwnLine(g, l)
    BY <1>9, <1>10, Zenon DEF links
  <2>2. \E c \in ToSet(names) : \E p \in g.outbound[Lower[c]] : l = <<c, p>>
    BY <1>8, <2>1 DEF links
  <2> QED
    BY <2>1, <2>2, Zenon
<1>11. ASSUME NEW c \in ToSet(names), NEW p \in g.outbound[Lower[c]]
       PROVE  OwnLine(g, <<c, p>>) \in ToSet(DotLines(g, names))
  <2>1. <<c, p>> \in links
    BY <1>8 DEF links
  <2> QED
    BY <1>9, <2>1, Zenon DEF links
<1> QED
  BY <1>10, <1>11, Zenon

LEMMA DotLinesExactOf ==
  ASSUME TypeOK, PublishedInLowerCase, AliasesWentOver
  PROVE  DotLinesExact
<1> DEFINE g == Graph
           D == DOMAIN HostMap
           m == AliasMap(HostMap)
           listing(c) == {p \in D : c \in Listed(p)}
           LinkLine(c, p) == [from |-> c, to |-> p, both |-> p \in D /\ c \in Listed(p)]
<1>0. \A c : Listed(c) = {Resolved(m, Lower[x]) : x \in HostMap[c].Peers}
  BY DEF Listed, Resolved
<1>1. /\ \A c \in D : Lower[c] = c
      /\ g \in Graphs
      /\ DOMAIN g.outbound = D
      /\ \A c \in D : g.outbound[c] = Listed(c)
  BY <1>0, GraphOfHosts
<1>2. \A c \in D : \A x \in Listed(c) : ExistsLink(g, x, c) <=> x \in listing(c)
  BY <1>0, LinkedIfListed
<1>3. Sorted \in Seq(Host) /\ ToSet(Sorted) = D /\ D \subseteq Host
  <2>1. D = {c \in Host : Published(c)}
    BY HostMapType
  <2> QED
    BY <2>1, HostSortMembers DEF Sorted
<1> HIDE DEF g, D
<1>4. \A z : z \in ToSet(DotLines(g, Sorted)) <=>
              \E c \in D : \E p \in Listed(c) : z = OwnLine(g, <<c, p>>)
  <2>1. \A c \in D : Lower[c] \in DOMAIN g.outbound /\ g.outbound[Lower[c]] = Listed(c)
    BY <1>1
  <2>2. \A z : z \in ToSet(DotLines(g, Sorted)) <=>
                \E c \in D : \E p \in g.outbound[Lower[c]] : z = OwnLine(g, <<c, p>>)
    <3>1. \A c \in ToSet(Sorted) : Lower[c] \in DOMAIN g.outbound
      BY <1>3, <2>1
    <3>2. \A z : z \in ToSet(DotLines(g, Sorted)) <=>
                  \E c \in ToSet(Sorted) : \E p \in g.outbound[Lower[c]] :
                    z = OwnLine(g, <<c, p>>)
      BY <1>1, <1>3, <3>1, DotLinesDrawn, Zenon
    <3> QED
      BY <1>3, <3>2, Zenon
  <2>3. ASSUME NEW z
        PROVE  (\E c \in D : \E p \in g.outbound[Lower[c]] : z = OwnLine(g, <<c, p>>)) <=>
                 \E c \in D : \E p \in Listed(c) : z = OwnLine(g, <<c, p>>)
    BY <2>1, Zenon
  <2> QED
    BY <2>2, <2>3, Zenon
<1>5. ASSUME NEW c \in D, NEW p \in Listed(c)
      PROVE  OwnLine(g, <<c, p>>) = LinkLine(c, p)
  <2>1. ExistsLink(g, p, c) = (p \in D /\ c \in Listed(p))
    <3>1. ExistsLink(g, p, c) \in BOOLEAN
      BY DEF ExistsLink
    <3> QED
      BY <1>2, <3>1
  <2> QED
    BY <2>1 DEF OwnLine
<1> DEFINE drawn == UNION {{LinkLine(c, p) : p \in Listed(c)} : c \in D}
<1>6. ASSUME NEW c \in D, NEW p \in Listed(c)
      PROVE  LinkLine(c, p) \in ToSet(DotLines(g, Sorted))
  <2>1. OwnLine(g, <<c, p>>) \in ToSet(DotLines(g, Sorted))
    BY <1>4
  <2> QED
    BY <1>5, <2>1, Zenon
<1>7. ASSUME NEW z \in ToSet(DotLines(g, Sorted))
      PROVE  z \in drawn
  <2>1. PICK c \in D : \E p \in Listed(c) : z = OwnLine(g, <<c, p>>)
    BY <1>4
  <2>2. PICK p \in Listed(c) : z = OwnLine(g, <<c, p>>)
    BY <2>1
  <2>3. z = LinkLine(c, p)
    BY <1>5, <2>2, Zenon
  <2> HIDE DEF LinkLine
  <2> QED
    BY <2>3
<1>8. ToSet(DotLines(g, Sorted)) = drawn
  <2> HIDE DEF LinkLine
  <2> QED
    BY <1>6, <1>7
<1> QED
  BY <1>8 DEF DotLinesExact, g, D

-----------------------------------------------------------------------------
(* The peers page.                                                         *)

Unrepeated(s) == \A i, j \in DOMAIN s : i < j => s[i] # s[j]

LEMMA OrderUnrepeated == Unrepeated(HostOrder)
<1> DEFINE n == Len(HostOrder)
<1>1. /\ n \in Nat /\ DOMAIN HostOrder = 1 .. n /\ n = Cardinality(Host)
      /\ HostOrder \in [1 .. n -> Host]
      /\ \A h \in Host : \E i \in 1 .. n : HostOrder[i] = h
  BY PublicationAssumption
<1> HIDE DEF n
<1>2. HostOrder \in Surjection(1 .. n, Host)
  BY <1>1, Fun_IsSurj
<1>3. IsFiniteSet(1 .. n) /\ Cardinality(1 .. n) = n
  BY <1>1, FS_Interval
<1>4. HostOrder \in Injection(1 .. n, Host)
  BY <1>1, <1>2, <1>3, FS_SurjSameCardinalityImpliesInj
<1>5. \A i, j \in 1 .. n : HostOrder[i] = HostOrder[j] => i = j
  BY <1>4, Fun_InjectionProperties
<1>6. \A i, j \in 1 .. n : i < j => i # j
  BY <1>1
<1> QED
  BY <1>1, <1>5, <1>6 DEF Unrepeated

(* HostSort lists a name once.                                             *)
LEMMA HostSortUnrepeated ==
  ASSUME NEW S \in SUBSET Host
  PROVE  Unrepeated(HostSort(S))
<1> DEFINE n == Len(HostOrder)
<1>1. PICK f : /\ HostSort(S) = f[n]
               /\ f[0] = <<>>
               /\ \A i \in 1 .. n :
                    f[i] = IF HostOrder[i] \in S THEN Append(f[i - 1], HostOrder[i])
                           ELSE f[i - 1]
  BY HostSortSteps
<1>2. /\ n \in Nat /\ \A i \in 1 .. n : HostOrder[i] \in Host
      /\ \A i, j \in 1 .. n : i < j => HostOrder[i] # HostOrder[j]
  BY PublicationAssumption, OrderUnrepeated DEF Unrepeated
<1> HIDE DEF n
<1> DEFINE good == {k \in 0 .. n :
                      /\ f[k] \in Seq(Host) /\ Unrepeated(f[k])
                      /\ ToSet(f[k]) \subseteq {HostOrder[j] : j \in 1 .. k}}
<1>3. 0 \in good
  <2>1. <<>> \in Seq(Host) /\ DOMAIN <<>> = {} /\ 0 \in 0 .. n
    BY <1>2
  <2>2. ToSet(<<>>) = {} /\ Unrepeated(<<>>)
    BY <2>1 DEF ToSet, Unrepeated
  <2> QED
    BY <1>1, <2>1, <2>2
<1>4. ASSUME NEW k \in 1 .. n, k - 1 \in good
      PROVE  k \in good
  <2> DEFINE s == f[k - 1]
             h == HostOrder[k]
  <2>1. /\ s \in Seq(Host) /\ Unrepeated(s) /\ k \in 0 .. n
        /\ ToSet(s) \subseteq {HostOrder[j] : j \in 1 .. (k - 1)}
        /\ f[k] = IF h \in S THEN Append(s, h) ELSE s
    BY <1>1, <1>2, <1>4
  <2>2. /\ {HostOrder[j] : j \in 1 .. k} = {HostOrder[j] : j \in 1 .. (k - 1)} \cup {h}
        /\ h \notin {HostOrder[j] : j \in 1 .. (k - 1)} /\ h \in Host
    BY <1>2
  <2> HIDE DEF s, h
  <2>3. CASE h \notin S
    BY <2>1, <2>2, <2>3
  <2>4. CASE h \in S
    <3>1. f[k] \in Seq(Host) /\ ToSet(f[k]) = ToSet(s) \cup {h}
      BY <2>1, <2>2, <2>4, AppendedMembers
    <3>2. /\ DOMAIN s = 1 .. Len(s) /\ Len(s) \in Nat
          /\ DOMAIN f[k] = 1 .. (Len(s) + 1) /\ f[k][Len(s) + 1] = h
          /\ \A i \in 1 .. Len(s) : f[k][i] = s[i]
      BY <2>1, <2>4
    <3>3. \A i \in 1 .. Len(s) : s[i] # h
      BY <2>1, <2>2, <3>2 DEF ToSet
    <3>4. Unrepeated(f[k])
      <4> SUFFICES ASSUME NEW i \in DOMAIN f[k], NEW j \in DOMAIN f[k], i < j
                   PROVE  f[k][i] # f[k][j]
        BY DEF Unrepeated
      <4>1. i \in 1 .. Len(s)
        BY <3>2
      <4>2. CASE j = Len(s) + 1
        BY <3>2, <3>3, <4>1, <4>2
      <4>3. CASE j # Len(s) + 1
        <5>1. j \in 1 .. Len(s)
          BY <3>2, <4>3
        <5> QED
          BY <2>1, <3>2, <4>1, <5>1 DEF Unrepeated
      <4> QED
        BY <4>2, <4>3
    <3> QED
      BY <2>1, <2>2, <3>1, <3>4
  <2> QED
    BY <2>3, <2>4
<1>5. n \in good
  <2> HIDE DEF good
  <2>1. 0 .. n \subseteq good
    BY <1>2, <1>3, <1>4, ReachedBySteps
  <2> QED
    BY <1>2, <2>1
<1> QED
  BY <1>1, <1>5

(* There are finitely many hosts, so one number bounds their depths.       *)
LEMMA DepthsBounded ==
  ASSUME NEW d, NEW D \in SUBSET Host, \A c \in D : d[c] \in Nat
  PROVE  \E b \in Nat : \A c \in D : d[c] <= b
<1> DEFINE n == Len(HostOrder)
           Upto(k) == {HostOrder[j] : j \in 1 .. k} \cap D
           good == {k \in 0 .. n : \E b \in Nat : \A c \in Upto(k) : d[c] <= b}
<1>1. n \in Nat /\ Upto(n) = D
  BY PublicationAssumption
<1> HIDE DEF n
<1>2. 0 \in good
  <2>1. Upto(0) = {} /\ 0 \in 0 .. n
    BY <1>1
  <2> HIDE DEF Upto
  <2> QED
    BY <2>1
<1>3. ASSUME NEW k \in 1 .. n, k - 1 \in good
      PROVE  k \in good
  <2>1. PICK b \in Nat : \A c \in Upto(k - 1) : d[c] <= b
    BY <1>3
  <2>2. Upto(k) \subseteq Upto(k - 1) \cup {HostOrder[k]} /\ Upto(k) \subseteq D
    BY <1>1
  <2>3. k \in 0 .. n
    BY <1>1
  <2> HIDE DEF Upto
  <2>4. CASE HostOrder[k] \in D
    <3>1. PICK m \in Nat : b <= m /\ d[HostOrder[k]] <= m
      <4>1. d[HostOrder[k]] \in Nat
        BY <2>4
      <4>2. b <= b + d[HostOrder[k]] /\ d[HostOrder[k]] <= b + d[HostOrder[k]]
            /\ b + d[HostOrder[k]] \in Nat
        BY <4>1
      <4> QED
        BY <4>2
    <3>2. \A c \in Upto(k) : d[c] <= m
      BY <2>1, <2>2, <3>1
    <3> QED
      BY <2>3, <3>2
  <2>5. CASE HostOrder[k] \notin D
    BY <2>1, <2>2, <2>3, <2>5
  <2> QED
    BY <2>4, <2>5
<1>4. n \in good
  <2> HIDE DEF good
  <2>1. 0 .. n \subseteq good
    BY <1>1, <1>2, <1>3, ReachedBySteps
  <2> QED
    BY <1>1, <2>1
<1> QED
  BY <1>1, <1>4

(* Sequences in order of depth, put one after the other.                   *)
Nearest(d, s) == \A i, j \in DOMAIN s : i < j => s[i] # s[j] /\ d[s[i]] <= d[s[j]]

Depths(d, D) == D \in SUBSET Host /\ \A c \in D : d[c] \in Nat
NearerThan(d, D, k) == {c \in D : d[c] < k}
HopsAway(d, D, k) == {c \in D : d[c] = k}

LEMMA NearestFirst ==
  ASSUME NEW d, NEW D, Depths(d, D), NEW k \in Nat, NEW l, l = k + 1,
         NEW s \in Seq(Host), Nearest(d, s), ToSet(s) = NearerThan(d, D, k),
         NEW t \in Seq(Host), Unrepeated(t), ToSet(t) = HopsAway(d, D, k)
  PROVE  /\ s \o t \in Seq(Host) /\ Nearest(d, s \o t)
         /\ ToSet(s \o t) = NearerThan(d, D, l)
<1> DEFINE u == s \o t
<1> USE DEF Depths, NearerThan, HopsAway
<1>1. /\ u \in Seq(Host) /\ Len(u) = Len(s) + Len(t)
      /\ \A i \in 1 .. Len(s) : u[i] = s[i]
      /\ \A i \in 1 .. Len(t) : u[Len(s) + i] = t[i]
      /\ ToSet(u) = ToSet(s) \cup ToSet(t)
  BY Concatenated
<1>2. /\ Len(s) \in Nat /\ DOMAIN s = 1 .. Len(s) /\ Len(t) \in Nat /\ DOMAIN t = 1 .. Len(t)
      /\ DOMAIN u = 1 .. (Len(s) + Len(t))
  BY <1>1
<1> HIDE DEF u
<1>3. /\ \A i \in 1 .. Len(s) : s[i] \in D /\ d[s[i]] < k
      /\ \A i \in 1 .. Len(t) : t[i] \in D /\ d[t[i]] = k
  <2>1. /\ \A i \in 1 .. Len(s) : s[i] \in ToSet(s)
        /\ \A i \in 1 .. Len(t) : t[i] \in ToSet(t)
    BY <1>2 DEF ToSet
  <2> QED
    BY <2>1
<1>4. ASSUME NEW i \in DOMAIN u, NEW j \in DOMAIN u, i < j
      PROVE  u[i] # u[j] /\ d[u[i]] <= d[u[j]]
  <2>1. CASE j \in 1 .. Len(s)
    <3>1. i \in 1 .. Len(s)
      BY <1>2, <1>4, <2>1
    <3> QED
      BY <1>1, <1>2, <1>4, <2>1, <3>1 DEF Nearest
  <2>2. CASE j \notin 1 .. Len(s)
    <3>1. PICK y \in 1 .. Len(t) : j = Len(s) + y
      <4>1. j - Len(s) \in 1 .. Len(t) /\ j = Len(s) + (j - Len(s))
        BY <1>2, <2>2
      <4> QED
        BY <4>1
    <3>2. CASE i \in 1 .. Len(s)
      <4>1. u[i] = s[i] /\ u[j] = t[y]
        BY <1>1, <3>1, <3>2
      <4>2. d[s[i]] < k /\ d[t[y]] = k /\ d[s[i]] \in Nat
        BY <1>3, <3>1, <3>2
      <4>3. d[s[i]] # d[t[y]] /\ d[s[i]] <= d[t[y]]
        BY <4>2
      <4> QED
        BY <4>1, <4>3
    <3>3. CASE i \notin 1 .. Len(s)
      <4>1. PICK x \in 1 .. Len(t) : i = Len(s) + x
        <5>1. i - Len(s) \in 1 .. Len(t) /\ i = Len(s) + (i - Len(s))
          BY <1>2, <3>3
        <5> QED
          BY <5>1
      <4>2. u[i] = t[x] /\ u[j] = t[y] /\ x < y
        BY <1>1, <1>2, <1>4, <3>1, <4>1
      <4>3. t[x] # t[y] /\ d[t[x]] = k /\ d[t[y]] = k
        BY <1>2, <1>3, <4>2 DEF Unrepeated
      <4> QED
        BY <4>2, <4>3
    <3> QED
      BY <3>2, <3>3
  <2> QED
    BY <2>1, <2>2
<1>5. ToSet(u) = NearerThan(d, D, l)
  <2>1. \A c \in D : d[c] < l <=> d[c] < k \/ d[c] = k
    OBVIOUS
  <2> QED
    BY <1>1, <2>1
<1> QED
  BY <1>1, <1>4, <1>5 DEF Nearest, u

LEMMA DistancesType ==
  ASSUME TypeOK, Distanced
  PROVE  \A c \in DOMAIN HostMap : /\ HostMap[c].Distance \in Nat
                                   /\ Depth(HostMap, c) = HostMap[c].Distance
<1> SUFFICES ASSUME NEW c \in DOMAIN HostMap
             PROVE  /\ HostMap[c].Distance \in Nat
                    /\ Depth(HostMap, c) = HostMap[c].Distance
  OBVIOUS
<1>1. c \in Host /\ HostMap[c].Distance = IF distances[c] = NoDistance THEN 0 ELSE distances[c]
  BY DEF HostMap
<1>2. HostMap[c].Distance \in Nat
  BY <1>1 DEF Distanced
<1>3. HostMap[c].Distance # NoDistance
  BY <1>2 DEF NoDistance
<1> QED
  BY <1>2, <1>3 DEF Depth

(* GenerateDepthSorted lists every published host once, the nearest first. *)
LEMMA DepthSorted ==
  ASSUME TypeOK, Distanced
  PROVE  LET d == [c \in DOMAIN HostMap |-> HostMap[c].Distance]
             order == GenerateDepthSorted(HostMap)
         IN  /\ order \in Seq(Host) /\ Nearest(d, order)
             /\ ToSet(order) = DOMAIN HostMap
<1> DEFINE D == DOMAIN HostMap
           d == [c \in D |-> HostMap[c].Distance]
           deepest == Max({Depth(HostMap, c) : c \in D} \cup {0})
           At(k) == {c \in D : Depth(HostMap, c) = k}
           seqs == [i \in 1 .. deepest + 1 |-> HostSort(At(i - 1))]
           order == GenerateDepthSorted(HostMap)
<1>1. D \in SUBSET Host /\ \A c \in D : d[c] \in Nat /\ Depth(HostMap, c) = d[c]
  BY HostMapType, DistancesType
<1>2. order = FlattenSeq(seqs)
  BY DEF GenerateDepthSorted
<1> HIDE DEF D, d, order
<1>3. deepest \in Nat /\ \A c \in D : d[c] <= deepest
  <2> DEFINE S == {Depth(HostMap, c) : c \in D} \cup {0}
  <2>1. PICK b \in Nat : \A c \in D : d[c] <= b
    BY <1>1, DepthsBounded
  <2>2. S \in SUBSET (0 .. b) /\ S # {} /\ \A c \in D : d[c] \in S
    BY <1>1, <2>1
  <2> HIDE DEF S
  <2>3. Max(S) \in S /\ \A y \in S : y <= Max(S)
    BY <2>2, MaxUpTo
  <2>4. Max(S) \in Nat
    <3>1. Max(S) \in 0 .. b
      BY <2>2, <2>3
    <3> QED
      BY <3>1
  <2>5. \A c \in D : d[c] <= Max(S)
    BY <2>2, <2>3
  <2> QED
    BY <2>4, <2>5 DEF S
<1> HIDE DEF deepest
<1>4. ASSUME NEW k \in Nat
      PROVE  /\ HostSort(At(k)) \in Seq(Host) /\ Unrepeated(HostSort(At(k)))
             /\ ToSet(HostSort(At(k))) = {c \in D : d[c] = k}
  <2>1. At(k) = {c \in D : d[c] = k} /\ At(k) \in SUBSET Host
    BY <1>1
  <2> HIDE DEF At
  <2> QED
    BY <2>1, HostSortMembers, HostSortUnrepeated
<1> HIDE DEF At
<1>5. /\ seqs \in Seq(Seq(Host)) /\ Len(seqs) = deepest + 1
      /\ \A k \in 1 .. deepest + 1 : seqs[k] = HostSort(At(k - 1)) /\ k - 1 \in Nat
  <2>1. \A k \in 1 .. deepest + 1 : k - 1 \in Nat /\ HostSort(At(k - 1)) \in Seq(Host)
    BY <1>3, <1>4
  <2>2. deepest + 1 \in Nat
    BY <1>3
  <2> QED
    BY <2>1, <2>2
<1> HIDE DEF seqs
<1> DEFINE n == deepest + 1
<1>6. PICK f : /\ order = f[n]
               /\ f[0] = <<>>
               /\ \A i \in 1 .. n : f[i] = f[i - 1] \o seqs[i]
  BY <1>2, <1>5, FlattenSteps
<1>7. n \in Nat /\ \A c \in D : d[c] < n
  BY <1>1, <1>3
<1> HIDE DEF n
<1> DEFINE good == {k \in 0 .. n : /\ f[k] \in Seq(Host) /\ Nearest(d, f[k])
                                    /\ ToSet(f[k]) = NearerThan(d, D, k)}
<1>8. 0 \in good
  <2>1. <<>> \in Seq(Host) /\ DOMAIN <<>> = {} /\ 0 \in 0 .. n
    BY <1>7
  <2>2. NearerThan(d, D, 0) = {}
    BY <1>1 DEF NearerThan
  <2>3. ToSet(<<>>) = {} /\ Nearest(d, <<>>)
    BY <2>1 DEF ToSet, Nearest
  <2> QED
    BY <1>6, <2>1, <2>2, <2>3
<1>9. ASSUME NEW k \in 1 .. n, k - 1 \in good
      PROVE  k \in good
  <2> DEFINE j == k - 1
             s == f[j]
             t == seqs[k]
  <2>1. s \in Seq(Host) /\ Nearest(d, s) /\ ToSet(s) = NearerThan(d, D, j)
    BY <1>9
  <2>2. f[k] = s \o t
    BY <1>6
  <2>3. k \in 0 .. n /\ j \in Nat /\ j + 1 = k
    BY <1>7
  <2>4. t = HostSort(At(j))
    BY <1>5 DEF n
  <2> HIDE DEF j, s, t
  <2>5. t \in Seq(Host) /\ Unrepeated(t) /\ ToSet(t) = HopsAway(d, D, j)
    BY <1>4, <2>3, <2>4 DEF HopsAway
  <2>6. /\ s \o t \in Seq(Host) /\ Nearest(d, s \o t)
        /\ ToSet(s \o t) = NearerThan(d, D, k)
    <3>1. Depths(d, D)
      BY <1>1 DEF Depths
    <3>2. k = j + 1
      BY <2>3
    <3> QED
      BY <2>1, <2>3, <2>5, <3>1, <3>2, NearestFirst
  <2> QED
    BY <2>2, <2>3, <2>6
<1>10. n \in good
  <2> HIDE DEF good
  <2>1. 0 .. n \subseteq good
    BY <1>7, <1>8, <1>9, ReachedBySteps
  <2> QED
    BY <1>7, <2>1
<1>11. NearerThan(d, D, n) = D
  BY <1>7 DEF NearerThan
<1> QED
  BY <1>6, <1>10, <1>11 DEF order, d, D

(* A set of places of a sequence is as large as the set of what is there.  *)
LEMMA PlacesCount ==
  ASSUME NEW s \in Seq(Host), Unrepeated(s), NEW A \in SUBSET DOMAIN s
  PROVE  Cardinality(A) = Cardinality({s[i] : i \in A})
<1> DEFINE B == {s[i] : i \in A}
           f == [i \in A |-> s[i]]
<1>1. DOMAIN s = 1 .. Len(s) /\ Len(s) \in Nat
  OBVIOUS
<1>2. IsFiniteSet(A)
  <2> DEFINE n == Len(s)
  <2>1. n \in Nat /\ A \subseteq 1 .. n
    BY <1>1
  <2> HIDE DEF n
  <2>2. IsFiniteSet(1 .. n)
    BY <2>1, FS_Interval
  <2> QED
    BY <2>1, <2>2, FS_Subset
<1>3. f \in Bijection(A, B)
  <2>1. f \in [A -> B] /\ \A x \in B : \E i \in A : f[i] = x
    OBVIOUS
  <2>2. ASSUME NEW i \in A, NEW j \in A, f[i] = f[j]
        PROVE  i = j
    <3>1. i \in Nat /\ j \in Nat /\ s[i] = s[j]
      BY <1>1, <2>2
    <3>2. ~ (i < j) /\ ~ (j < i)
      BY <3>1 DEF Unrepeated
    <3> QED
      BY <3>1, <3>2
  <2> HIDE DEF f, B
  <2> QED
    BY <2>1, <2>2, Fun_IsBij
<1> QED
  BY <1>2, <1>3, FS_Bijection DEF ExistsBijection

LEMMA PeersPageCompleteOf ==
  ASSUME TypeOK, Distanced
  PROVE  PeersPageComplete
<1> DEFINE D == DOMAIN HostMap
           d == [c \in D |-> HostMap[c].Distance]
           order == GenerateDepthSorted(HostMap)
           direct == {c \in D : HostMap[c].Distance = 1}
           ones == {i \in DOMAIN order : HostMap[order[i]].Distance = 1}
           counted == {i \in DOMAIN order : \A j \in 1 .. i : HostMap[order[j]].Distance <= 1}
<1>1. order \in Seq(Host) /\ Nearest(d, order) /\ ToSet(order) = D
  BY DepthSorted
<1>2. \A c \in D : d[c] = HostMap[c].Distance /\ HostMap[c].Distance \in Nat
  BY DistancesType
<1>3. PeerCount(HostMap, order) = Cardinality({i \in counted : HostMap[order[i]].Distance = 1})
  BY DEF PeerCount
<1> HIDE DEF order, D, d
<1>4. DOMAIN order = 1 .. Len(order) /\ Len(order) \in Nat
  BY <1>1
<1>5. /\ \A c \in D : \E i \in DOMAIN order : order[i] = c
      /\ \A i \in DOMAIN order : order[i] \in D
      /\ \A i, j \in DOMAIN order :
           i < j => order[i] # order[j] /\ HostMap[order[i]].Distance <= HostMap[order[j]].Distance
  BY <1>1, <1>2 DEF ToSet, Nearest
<1>6. Unrepeated(order)
  BY <1>5 DEF Unrepeated
<1>7. Len(order) = Cardinality(D)
  <2>1. Cardinality(DOMAIN order) = Cardinality(D)
    BY <1>1, <1>6, PlacesCount DEF ToSet
  <2>2. \A n \in Nat : Cardinality(1 .. n) = n
    BY FS_Interval
  <2> QED
    BY <1>4, <2>1, <2>2
<1>8. {i \in counted : HostMap[order[i]].Distance = 1} = ones
  <2> SUFFICES ASSUME NEW i \in ones, NEW j \in 1 .. i
               PROVE  HostMap[order[j]].Distance <= 1
    OBVIOUS
  <2>1. /\ i \in 1 .. Len(order) /\ i \in DOMAIN order /\ HostMap[order[i]].Distance = 1
    BY <1>4
  <2>2. j \in DOMAIN order /\ (j < i \/ j = i)
    BY <1>4, <2>1
  <2> QED
    BY <1>5, <2>1, <2>2
<1>9. Cardinality(ones) = Cardinality(direct)
  <2>1. {order[i] : i \in ones} = direct
    BY <1>5
  <2>2. ones \in SUBSET DOMAIN order
    OBVIOUS
  <2> HIDE DEF ones, direct
  <2> QED
    BY <1>1, <1>6, <2>1, <2>2, PlacesCount
<1> QED
  BY <1>3, <1>5, <1>7, <1>8, <1>9 DEF PeersPageComplete, order, D

-----------------------------------------------------------------------------
(* The theorems.                                                          *)

LEMMA InitPublished == Init => PublishedInLowerCase /\ QueriedAs
BY SpiderAssumption DEF Init, PublishedInLowerCase, QueriedAs, Published

(* Where servers are named in lower case, nothing a page asks of the graph *)
(* is nil: GenerateGraph gives every host it mentions its sets (graph.go). *)
THEOREM LowerCaseNoNilSets ==
  ASSUME NamedInLowerCase(Page) PROVE Spec => []NoNilSets
<1>1. Init => PublishedInLowerCase
  BY InitPublished
<1>2. TypeOK /\ PublishedInLowerCase /\ [Next]_vars => PublishedInLowerCase'
  BY NextPublishedInLowerCase
<1>3. TypeOK /\ PublishedInLowerCase => NoNilSets
  BY NoNilSetsOf
<1> QED
  BY <1>1, <1>2, <1>3, TypeCorrect, PTL DEF Spec

(* Where, besides, no name a server gives itself is changed by the server  *)
(* of that name, a host is labelled mutual (LabelMutualWithBase, graph.go) *)
(* just when it and the start host list each other.                        *)
THEOREM SettledMutualLabel ==
  ASSUME NamedInLowerCase(Page), NamesSettled(Page)
  PROVE  Spec => []MutualLabelRight
<1>1. Init => PublishedInLowerCase /\ AliasesWentOver
  BY InitPublished, InitAliases
<1>2. TypeOK /\ WorkInOnePlace /\ PublishedInLowerCase /\ AliasesWentOver /\ [Next]_vars
        => PublishedInLowerCase' /\ AliasesWentOver'
  BY NextPublishedInLowerCase, NextAliases
<1>3. TypeOK /\ PublishedInLowerCase /\ AliasesWentOver => MutualLabelRight
  BY MutualLabelRightOf DEF NamedInLowerCase
<1> QED
  BY <1>1, <1>2, <1>3, TypeCorrect, OnePlace, PTL DEF Spec

(* Where, moreover, a server queried in capitals goes by that name, the    *)
(* peers of a host (AllPeersOf, graph.go, and apiPeerInfoPage, http.go)    *)
(* are those it lists and those that list it.                              *)
THEOREM SettledPeerInfo ==
  ASSUME NamedInLowerCase(Page), NamesSettled(Page), CapitalsAreOwnName(Page)
  PROVE  Spec => []PeerInfoExact
<1>1. Init => PublishedInLowerCase /\ QueriedAs /\ AliasesWentOver
  BY InitPublished, InitAliases
<1>2. TypeOK /\ WorkInOnePlace /\ PublishedInLowerCase /\ AliasesWentOver /\ [Next]_vars
        => PublishedInLowerCase' /\ AliasesWentOver'
  BY NextPublishedInLowerCase, NextAliases
<1>3. TypeOK /\ InFlightIntact /\ QueriedAs /\ [Next]_vars => QueriedAs'
  BY NextQueriedAs
<1>4. TypeOK /\ PublishedInLowerCase /\ QueriedAs /\ AliasesWentOver => PeerInfoExact
  BY PeerInfoExactOf
<1> QED
  BY <1>1, <1>2, <1>3, <1>4, TypeCorrect, OnePlace, InFlightStaysIntact, PTL DEF Spec

(* The peers page lists every published host once, the nearest first, and  *)
(* counts the direct peers (GenerateDepthSorted, depth.go, and             *)
(* apiPeersPage, http.go), whatever servers call themselves.               *)
THEOREM PeersPageStaysComplete == Spec => []PeersPageComplete
<1>1. TypeOK /\ WorkInOnePlace /\ Complete /\ [Next]_vars => Complete'
  BY NextComplete
<1>2. TypeOK /\ Complete => PeersPageComplete
  BY PeersPageCompleteOf DEF Complete
<1> QED
  BY <1>1, <1>2, InitComplete, TypeCorrect, OnePlace, PTL DEF Spec

(* Where names are in lower case and settled, the dot file has a line for  *)
(* each host and each peer it lists and no others, and marks it as mutual  *)
(* just when the peer lists the host too (apiGraphDot, http_graph.go).     *)
THEOREM SettledDotFile ==
  ASSUME NamedInLowerCase(Page), NamesSettled(Page)
  PROVE  Spec => []DotLinesExact
<1>1. Init => PublishedInLowerCase /\ AliasesWentOver
  BY InitPublished, InitAliases
<1>2. TypeOK /\ WorkInOnePlace /\ PublishedInLowerCase /\ AliasesWentOver /\ [Next]_vars
        => PublishedInLowerCase' /\ AliasesWentOver'
  BY NextPublishedInLowerCase, NextAliases
<1>3. TypeOK /\ PublishedInLowerCase /\ AliasesWentOver => DotLinesExact
  BY DotLinesExactOf
<1> QED
  BY <1>1, <1>2, <1>3, TypeCorrect, OnePlace, PTL DEF Spec
=============================================================================
