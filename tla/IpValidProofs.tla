--------------------------- MODULE IpValidProofs ---------------------------
(***************************************************************************)
(* Of /ip-valid, for every mesh and every request: the threshold the page  *)
(* works out leaves something to give out, the list of candidates is empty *)
(* only if servers share an address, and what is given out is wanted: each *)
(* filter keeps what the filters before it achieved.  And IsAtLeast orders *)
(* the versions totally: a filter on a minimum version never lets an older *)
(* server through and drops a newer one, whatever the versions in the mesh.*)
(***************************************************************************)
EXTENDS IpValid, FiniteSetTheorems, WellFoundedInduction, SequenceTheorems, TLAPS

-----------------------------------------------------------------------------
(* Versions.                                                               *)

(* What a version is made of.                                              *)
LEMMA VersionFields ==
  ASSUME NEW v \in SksVersion
  PROVE  /\ v.Major \in Nat /\ v.Minor \in Nat /\ v.Release \in Nat
         /\ v.Tag \in 0 .. 1
  BY DEF SksVersion

(* A version is determined by its four fields.                             *)
LEMMA SameVersion ==
  ASSUME NEW v \in SksVersion, NEW w \in SksVersion,
         v.Major = w.Major, v.Minor = w.Minor, v.Release = w.Release, v.Tag = w.Tag
  PROVE  v = w
  BY DEF SksVersion

(* Every version is at least itself (versions_test.go: "Version not at     *)
(* least itself").                                                         *)
THEOREM IsAtLeastReflexive ==
  ASSUME NEW v \in SksVersion
  PROVE  IsAtLeast(v, v)
  BY VersionFields DEF IsAtLeast

(* Of two versions one is at least the other: a server that a minimum      *)
(* drops is older than the minimum.                                        *)
THEOREM IsAtLeastTotal ==
  ASSUME NEW v \in SksVersion, NEW w \in SksVersion
  PROVE  IsAtLeast(v, w) \/ IsAtLeast(w, v)
  BY VersionFields DEF IsAtLeast

(* A version that passes a minimum passes every lower one: raising the     *)
(* minimum only takes servers away.                                        *)
THEOREM IsAtLeastTransitive ==
  ASSUME NEW u \in SksVersion, NEW v \in SksVersion, NEW w \in SksVersion,
         IsAtLeast(u, v), IsAtLeast(v, w)
  PROVE  IsAtLeast(u, w)
  BY VersionFields DEF IsAtLeast

(* Two versions that are at least each other are the same version: the     *)
(* trailing plus sign of a development version counts.                     *)
THEOREM IsAtLeastAntisymmetric ==
  ASSUME NEW v \in SksVersion, NEW w \in SksVersion,
         IsAtLeast(v, w), IsAtLeast(w, v)
  PROVE  v = w
<1>1. v.Major = w.Major /\ v.Minor = w.Minor /\ v.Release = w.Release
  BY VersionFields DEF IsAtLeast
<1>2. v.Tag = w.Tag
  BY <1>1, VersionFields DEF IsAtLeast
<1>3. QED
  BY <1>1, <1>2, SameVersion

-----------------------------------------------------------------------------
(* Sums over finite sets.                                                  *)

LEMMA LeastOf ==
  ASSUME NEW S \in SUBSET Nat, S # {}
  PROVE  \E m \in S : \A k \in S : m <= k
<1>1. PICK m \in S : \A k \in S : ~ (<<k, m>> \in OpToRel(<, Nat))
  BY NatLessThanWellFounded, WFMin
<1>2. \A k \in S : <<k, m>> \in OpToRel(<, Nat) <=> k < m
  BY DEF OpToRel
<1>3. \A k \in S : ~ (k < m)
  BY <1>1, <1>2, Zenon
<1> QED
  BY <1>3

(* The subsets of S with n members at most.                                *)
UpTo(S, n) == {s \in SUBSET S : Cardinality(s) <= n}

One(s) == CHOOSE x \in s : TRUE

(* What the sum g over the subsets of a set does on one of them.           *)
Step(f, g, s) == IF s = {} THEN 0 ELSE f[One(s)] + g[s \ {One(s)}]

(* g is the sum of f over every subset with n members at most.             *)
SumsUpTo(f, S, n, g) == g = [s \in UpTo(S, n) |-> Step(f, g, s)]

LEMMA OneLess ==
  ASSUME NEW S, IsFiniteSet(S), NEW s \in SUBSET S, s # {}
  PROVE  /\ One(s) \in s
         /\ s \ {One(s)} \in SUBSET S
         /\ IsFiniteSet(s)
         /\ Cardinality(s) \in Nat \ {0}
         /\ Cardinality(s \ {One(s)}) = Cardinality(s) - 1
<1>1. One(s) \in s
  BY DEF One
<1>2. IsFiniteSet(s)
  BY FS_Subset
<1>3. Cardinality(s) \in Nat /\ Cardinality(s) # 0
  BY <1>2, FS_CardinalityType, FS_EmptySet
<1>4. Cardinality(s \ {One(s)}) = Cardinality(s) - 1
  BY <1>1, <1>2, FS_RemoveElement
<1> QED
  BY <1>1, <1>2, <1>3, <1>4

LEMMA SumsFurther ==
  ASSUME NEW S, IsFiniteSet(S), NEW f, NEW n \in Nat, NEW g, SumsUpTo(f, S, n, g)
  PROVE  \E h : SumsUpTo(f, S, n + 1, h)
<1> DEFINE h == [s \in UpTo(S, n + 1) |-> Step(f, g, s)]
<1>1. ASSUME NEW s \in UpTo(S, n + 1)
      PROVE  Step(f, g, s) = Step(f, h, s)
  <2>1. CASE s = {}
    BY <2>1 DEF Step
  <2>2. CASE s # {}
    <3> DEFINE t == s \ {One(s)}
    <3>1. s \in SUBSET S /\ Cardinality(s) <= n + 1
      BY DEF UpTo
    <3>2. t \in SUBSET S /\ Cardinality(t) \in Nat /\ Cardinality(t) <= n
      BY <2>2, <3>1, OneLess
    <3>3. t \in UpTo(S, n) /\ t \in UpTo(S, n + 1)
      BY <3>2 DEF UpTo
    <3> HIDE DEF t
    <3>4. g[t] = Step(f, g, t)
      BY <3>3 DEF SumsUpTo
    <3>5. h[t] = Step(f, g, t)
      BY <3>3
    <3>6. g[s \ {One(s)}] = h[s \ {One(s)}]
      BY <3>4, <3>5 DEF t
    <3> HIDE DEF h
    <3> QED
      BY <3>6 DEF Step
  <2> QED
    BY <2>1, <2>2
<1>2. h = [s \in UpTo(S, n + 1) |-> Step(f, h, s)]
  BY <1>1
<1> HIDE DEF h
<1> QED
  BY <1>2 DEF SumsUpTo

LEMMA SumsExist ==
  ASSUME NEW S, IsFiniteSet(S), NEW f, NEW n \in Nat
  PROVE  \E g : SumsUpTo(f, S, n, g)
<1> DEFINE bad == {k \in Nat : ~ \E g : SumsUpTo(f, S, k, g)}
<1>1. SUFFICES ASSUME bad # {} PROVE FALSE
  OBVIOUS
<1>2. PICK k \in bad : \A j \in bad : k <= j
  <2>1. bad \in SUBSET Nat
    OBVIOUS
  <2> HIDE DEF bad
  <2> QED
    BY <1>1, <2>1, LeastOf
<1>3. CASE k = 0
  <2> DEFINE g == [s \in UpTo(S, 0) |-> 0]
  <2>1. ASSUME NEW s \in UpTo(S, 0) PROVE s = {}
    <3>1. s \in SUBSET S /\ Cardinality(s) <= 0
      BY DEF UpTo
    <3>2. s # {} => Cardinality(s) \in Nat \ {0}
      BY <3>1, OneLess
    <3> QED
      BY <3>1, <3>2
  <2>2. g = [s \in UpTo(S, 0) |-> Step(f, g, s)]
    BY <2>1 DEF Step
  <2> HIDE DEF g
  <2> QED
    BY <1>3, <2>2 DEF SumsUpTo
<1>4. CASE k # 0
  <2>1. k - 1 \in Nat /\ k - 1 \notin bad
    BY <1>2, <1>4
  <2>2. PICK g : SumsUpTo(f, S, k - 1, g)
    BY <2>1
  <2>3. \E h : SumsUpTo(f, S, (k - 1) + 1, h)
    BY <2>1, <2>2, SumsFurther
  <2>4. (k - 1) + 1 = k
    OBVIOUS
  <2> QED
    BY <2>3, <2>4
<1> QED
  BY <1>3, <1>4

(* Total is computed by taking one member after the other.                 *)
LEMMA TotalSteps ==
  ASSUME NEW S, IsFiniteSet(S), NEW f
  PROVE  \E g : /\ Total(f, S) = g[S]
                /\ \A s \in SUBSET S : g[s] = Step(f, g, s)
<1> DEFINE Fix(g) ==
      g = [s \in SUBSET S |-> IF s = {} THEN 0
              ELSE f[CHOOSE x \in s : TRUE] + g[s \ {CHOOSE x \in s : TRUE}]]
<1>1. Total(f, S) = (CHOOSE g : Fix(g))[S]
  BY DEF Total, MapThenSumSet, MapThenFoldSet
<1>2. PICK g : SumsUpTo(f, S, Cardinality(S), g)
  BY SumsExist, FS_CardinalityType
<1>3. UpTo(S, Cardinality(S)) = SUBSET S
  BY FS_Subset DEF UpTo
<1>4. g = [s \in SUBSET S |-> Step(f, g, s)]
  BY <1>2, <1>3 DEF SumsUpTo
<1>5. Fix(g)
  BY <1>4, Zenon DEF Step, One
<1> HIDE DEF Fix
<1>6. Fix(CHOOSE h : Fix(h))
  BY <1>5, Zenon
<1>7. ASSUME NEW h, Fix(h), NEW s \in SUBSET S PROVE h[s] = Step(f, h, s)
  <2>1. h = [t \in SUBSET S |-> Step(f, h, t)]
    BY <1>7, Zenon DEF Fix, Step, One
  <2> QED
    BY <2>1
<1> QED
  BY <1>1, <1>6, <1>7

(* A sum of numbers is a number, and not below the smallest of them as     *)
(* many times as there are of them.                                        *)
LEMMA TotalAtLeast ==
  ASSUME NEW S, IsFiniteSet(S), NEW f, NEW m \in Int,
         \A x \in S : f[x] \in Int /\ f[x] >= m
  PROVE  Total(f, S) \in Int /\ Total(f, S) >= Cardinality(S) * m
<1>1. PICK g : /\ Total(f, S) = g[S]
               /\ \A s \in SUBSET S : g[s] = Step(f, g, s)
  BY TotalSteps
<1> DEFINE Fine(s) == g[s] \in Int /\ g[s] >= Cardinality(s) * m
           bad == {k \in Nat : \E s \in SUBSET S : Cardinality(s) = k /\ ~ Fine(s)}
<1>2. SUFFICES ASSUME bad # {} PROVE FALSE
  <2>1. Cardinality(S) \in Nat /\ S \in SUBSET S
    BY FS_CardinalityType
  <2> HIDE DEF Fine
  <2>2. CASE bad = {}
    <3>1. Fine(S)
      BY <2>1, <2>2
    <3> QED
      BY <1>1, <3>1 DEF Fine
  <2> QED
    BY <1>2, <2>2
<1>3. PICK k \in bad : \A j \in bad : k <= j
  <2>1. bad \in SUBSET Nat
    OBVIOUS
  <2> HIDE DEF bad
  <2> QED
    BY <1>2, <2>1, LeastOf
<1>4. PICK s \in SUBSET S : Cardinality(s) = k /\ ~ Fine(s)
  BY <1>3
<1>5. CASE s = {}
  <2>1. g[s] = 0 /\ Cardinality(s) = 0
    BY <1>1, <1>5, FS_EmptySet DEF Step
  <2> QED
    BY <1>4, <2>1
<1>6. CASE s # {}
  <2> DEFINE t == s \ {One(s)}
  <2>1. /\ One(s) \in S /\ t \in SUBSET S
        /\ Cardinality(s) \in Nat \ {0} /\ Cardinality(t) = Cardinality(s) - 1
    BY <1>6, OneLess
  <2>2. Fine(t)
    <3>1. Cardinality(t) \in Nat /\ Cardinality(t) < k
      BY <1>4, <2>1
    <3>2. k \in Nat
      OBVIOUS
    <3>3. Cardinality(t) \notin bad
      <4> HIDE DEF bad, t
      <4> QED
        BY <1>3, <3>1, <3>2
    <3> HIDE DEF Fine, t
    <3> QED
      BY <2>1, <3>1, <3>3
  <2>3. g[s] = f[One(s)] + g[t]
    BY <1>1, <1>6 DEF Step
  <2>4. g[t] \in Int /\ g[t] >= Cardinality(t) * m
    BY <2>2
  <2>5. f[One(s)] \in Int /\ f[One(s)] >= m
    BY <2>1
  <2>6. g[s] \in Int
    BY <2>3, <2>4, <2>5
  <2>7. Cardinality(s) * m = Cardinality(t) * m + m
    <3> DEFINE c == Cardinality(t)
    <3>1. c \in Int /\ Cardinality(s) = c + 1
      BY <2>1
    <3> HIDE DEF c
    <3>2. (c + 1) * m = c * m + m
      BY <3>1
    <3> QED
      BY <3>1, <3>2 DEF c
  <2>8. Cardinality(t) * m \in Int
    BY <2>1
  <2> HIDE DEF t
  <2>9. g[s] >= Cardinality(s) * m
    BY <2>3, <2>4, <2>5, <2>7, <2>8
  <2> QED
    BY <1>4, <2>6, <2>9
<1> QED
  BY <1>5, <1>6

(* Among finitely many there is one with the greatest count.               *)
LEMMA GreatestAt ==
  ASSUME NEW S, IsFiniteSet(S), S # {}, NEW f, \A x \in S : f[x] \in Int
  PROVE  \E x \in S : \A y \in S : f[y] <= f[x]
<1> DEFINE Fine(T) == \E x \in T : \A y \in T : f[y] <= f[x]
           bad == {k \in Nat : \E T \in SUBSET S :
                     T # {} /\ Cardinality(T) = k /\ ~ Fine(T)}
<1>1. SUFFICES ASSUME bad # {} PROVE FALSE
  <2>1. Cardinality(S) \in Nat /\ S \in SUBSET S
    BY FS_CardinalityType
  <2> HIDE DEF Fine
  <2>2. CASE bad = {}
    <3>1. Fine(S)
      BY <2>1, <2>2
    <3> QED
      BY <3>1 DEF Fine
  <2> QED
    BY <1>1, <2>2
<1>2. PICK k \in bad : \A j \in bad : k <= j
  <2>1. bad \in SUBSET Nat
    OBVIOUS
  <2> HIDE DEF bad
  <2> QED
    BY <1>1, <2>1, LeastOf
<1>3. PICK T \in SUBSET S : T # {} /\ Cardinality(T) = k /\ ~ Fine(T)
  BY <1>2
<1> DEFINE a == One(T)
           R == T \ {a}
<1>4. /\ a \in T /\ R \in SUBSET S
      /\ Cardinality(T) \in Nat \ {0} /\ Cardinality(R) = Cardinality(T) - 1
  BY <1>3, OneLess
<1>5. CASE R = {}
  <2>1. T = {a} /\ f[a] \in Int
    BY <1>4, <1>5
  <2> HIDE DEF a
  <2>2. Fine(T)
    BY <2>1
  <2> QED
    BY <1>3, <2>2
<1>6. CASE R # {}
  <2>1. Cardinality(R) \in Nat /\ Cardinality(R) < k
    BY <1>3, <1>4
  <2>2. k \in Nat
    OBVIOUS
  <2>3. Cardinality(R) \notin bad
    <3> HIDE DEF bad, R
    <3> QED
      BY <1>2, <2>1, <2>2
  <2>4. Fine(R)
    <3> HIDE DEF Fine, R
    <3> QED
      BY <1>4, <1>6, <2>1, <2>3
  <2>5. PICK b \in R : \A y \in R : f[y] <= f[b]
    BY <2>4
  <2>6. \A y \in T : y = a \/ y \in R
    OBVIOUS
  <2>7. f[a] \in Int /\ f[b] \in Int /\ b \in T /\ \A y \in T : f[y] \in Int
    BY <1>4
  <2> HIDE DEF R, a
  <2>8. CASE f[a] <= f[b]
    <3>1. \A y \in T : f[y] <= f[b]
      BY <2>5, <2>6, <2>8
    <3> QED
      BY <1>3, <2>7, <3>1
  <2>9. CASE f[b] < f[a]
    <3>1. \A y \in T : f[y] <= f[a]
      BY <2>5, <2>6, <2>7, <2>9
    <3> QED
      BY <1>3, <1>4, <3>1
  <2> QED
    BY <2>7, <2>8, <2>9
<1> QED
  BY <1>5, <1>6

LEMMA MaxIn ==
  ASSUME NEW S, IsFiniteSet(S), S # {}, S \subseteq Int
  PROVE  Max(S) \in S /\ \A y \in S : y <= Max(S)
<1> DEFINE f == [x \in S |-> x]
<1>1. PICK x \in S : \A y \in S : f[y] <= f[x]
  <2>1. \A y \in S : f[y] \in Int
    OBVIOUS
  <2> HIDE DEF f
  <2> QED
    BY <2>1, GreatestAt
<1>2. \A y \in S : x >= y
  BY <1>1
<1>3. Max(S) \in S /\ \A y \in S : Max(S) >= y
  BY <1>2, Zenon DEF Max
<1> QED
  BY <1>3

LEMMA TwoMembers ==
  ASSUME NEW S, IsFiniteSet(S)
  PROVE  /\ Cardinality(S) \in Nat
         /\ Cardinality(S) >= 2 <=> \E p, q \in S : p # q
<1>1. Cardinality(S) \in Nat
  BY FS_CardinalityType
<1>2. Cardinality(S) = 0 <=> S = {}
  BY FS_EmptySet
<1>3. Cardinality(S) = 1 <=> \E x : S = {x}
  BY FS_Singleton
<1>4. CASE \E p, q \in S : p # q
  <2>1. Cardinality(S) # 0 /\ Cardinality(S) # 1
    BY <1>2, <1>3, <1>4
  <2> QED
    BY <1>1, <1>4, <2>1
<1>5. CASE ~ \E p, q \in S : p # q
  <2>1. CASE S = {}
    BY <1>1, <1>2, <1>5, <2>1
  <2>2. CASE S # {}
    <3>1. PICK x : x \in S
      BY <2>2
    <3>2. S = {x}
      BY <1>5, <3>1
    <3>3. Cardinality(S) = 1
      BY <1>3, <3>2, Zenon
    <3> QED
      BY <1>5, <3>3
  <2> QED
    BY <2>1, <2>2
<1> QED
  BY <1>1, <1>4, <1>5

(* A sum of squares is not negative.                                       *)
LEMMA SpreadType ==
  ASSUME NEW S, IsFiniteSet(S), NEW counts, \A ip \in S : counts[ip] \in Int
  PROVE  /\ Total(counts, S) \in Int
         /\ Spread(counts, S) \in Nat
         /\ \A m \in Nat :
              (\A ip \in S : LET d == Deviation(counts[ip], Cardinality(S), Total(counts, S))
                             IN  d * d >= m)
                => Spread(counts, S) >= Cardinality(S) * m
<1> DEFINE n == Cardinality(S)
           total == Total(counts, S)
           d(ip) == Deviation(counts[ip], n, total)
           sq == [ip \in S |-> d(ip) * d(ip)]
<1>1. n \in Nat
  BY FS_CardinalityType
<1>2. total \in Int
  <2>1. \E low \in Int : \A ip \in S : counts[ip] >= low
    <3>1. CASE S = {}
      BY <3>1
    <3>2. CASE S # {}
      <4> DEFINE minus == [ip \in S |-> 0 - counts[ip]]
      <4>1. \A ip \in S : minus[ip] \in Int /\ minus[ip] = 0 - counts[ip]
        OBVIOUS
      <4> HIDE DEF minus
      <4>2. PICK x \in S : \A y \in S : minus[y] <= minus[x]
        BY <3>2, <4>1, GreatestAt
      <4>3. \A y \in S : counts[y] >= counts[x]
        BY <4>1, <4>2
      <4> QED
        BY <4>3
    <3> QED
      BY <3>1, <3>2
  <2> QED
    BY <2>1, TotalAtLeast
<1>3. Spread(counts, S) = Total(sq, S)
  BY DEF Spread
<1>4. \A ip \in S : d(ip) \in Int
  <2> HIDE DEF n, total
  <2> QED
    BY <1>1, <1>2 DEF Deviation
<1>5. \A ip \in S : sq[ip] \in Int /\ sq[ip] >= 0 /\ sq[ip] = d(ip) * d(ip)
  <2>1. \A k \in Int : k * k \in Int /\ k * k >= 0
    OBVIOUS
  <2> HIDE DEF d
  <2> QED
    BY <1>4, <2>1
<1>6. ASSUME NEW m \in Nat, \A ip \in S : d(ip) * d(ip) >= m
      PROVE  Spread(counts, S) >= n * m
  <2>1. \A ip \in S : sq[ip] \in Int /\ sq[ip] >= m
    <3> HIDE DEF sq, d
    <3> QED
      BY <1>5, <1>6
  <2> HIDE DEF sq, d
  <2> QED
    BY <1>3, <2>1, TotalAtLeast DEF n
<1>7. Spread(counts, S) \in Nat
  <2>1. Total(sq, S) \in Int /\ Total(sq, S) >= n * 0
    <3> HIDE DEF sq, d
    <3> QED
      BY <1>5, TotalAtLeast DEF n
  <2>2. n * 0 = 0
    <3> HIDE DEF n
    <3> QED
      BY <1>1
  <2> HIDE DEF sq, d, n
  <2> QED
    BY <1>3, <2>1, <2>2
<1> QED
  <2> HIDE DEF sq
  <2> QED
    BY <1>2, <1>6, <1>7

-----------------------------------------------------------------------------
(* What the page works out from a mesh.                                    *)

Scanned == servers \in Meshes /\ servers # NotScanned

LEMMA Hosts ==
  ASSUME Scanned
  PROVE  /\ IsFiniteSet(DOMAIN servers)
         /\ \A i \in DOMAIN servers :
              /\ i \in Int
              /\ servers[i].Keycount \in Int
              /\ IpsOf(i) \subseteq Address
              /\ servers[i].IpList # <<>> => Head(servers[i].IpList) \in IpsOf(i)
<1>1. /\ DOMAIN servers = 1 .. Len(servers) /\ Len(servers) \in Nat
      /\ \A i \in DOMAIN servers :
           servers[i].Keycount \in Int /\ servers[i].IpList \in Seq(Address)
  BY IpValidAssumption DEF Scanned
<1>2. IsFiniteSet(DOMAIN servers)
  <2>1. \A n \in Nat : IsFiniteSet(1 .. n)
    BY FS_Interval
  <2> QED
    BY <1>1, <2>1, Zenon
<1>3. ASSUME NEW i \in DOMAIN servers
      PROVE  /\ IpsOf(i) \subseteq Address
             /\ servers[i].IpList # <<>> => Head(servers[i].IpList) \in IpsOf(i)
  <2> DEFINE list == servers[i].IpList
  <2>1. list \in Seq(Address)
    BY <1>1
  <2>2. IpsOf(i) = {list[k] : k \in DOMAIN list}
    BY DEF IpsOf
  <2> HIDE DEF list
  <2>3. list # <<>> => 1 \in DOMAIN list /\ Head(list) = list[1]
    BY <2>1
  <2>4. \A k \in DOMAIN list : list[k] \in Address
    BY <2>1
  <2> QED
    BY <2>2, <2>3, <2>4 DEF list
<1> QED
  <2>1. \A i \in DOMAIN servers : i \in Int
    BY <1>1
  <2> QED
    BY <1>1, <1>2, <1>3, <2>1

(* The counts of both maps are those of a server with keys.                *)
LEMMA Counts ==
  ASSUME Scanned
  PROVE  /\ IsFiniteSet(Counted) /\ Counted \subseteq DOMAIN servers
         /\ DOMAIN OnePerServer \subseteq DOMAIN AllIps
         /\ DOMAIN AllIps \subseteq Address
         /\ IsFiniteSet(DOMAIN AllIps)
         /\ \A ip \in DOMAIN AllIps : \E i \in Listing(ip) :
              AllIps[ip] = servers[i].Keycount /\ AllIps[ip] \in Int /\ AllIps[ip] > 1
         /\ \A ip \in DOMAIN OnePerServer : \E i \in Heading(ip) :
              OnePerServer[ip] = servers[i].Keycount /\ OnePerServer[ip] \in Int
<1>1. IsFiniteSet(Counted) /\ Counted \subseteq DOMAIN servers
  BY Hosts, FS_Subset DEF Counted
<1>2. Counted \subseteq Int /\ \A i \in Counted : servers[i].Keycount \in Int /\ servers[i].Keycount > 1
  BY Hosts DEF Counted
<1>3. \A S \in SUBSET Counted : S # {} => Max(S) \in S
  BY <1>1, <1>2, FS_Subset, MaxIn
<1>4. \A ip : Listing(ip) \in SUBSET Counted /\ Heading(ip) \in SUBSET Listing(ip)
  BY <1>1, Hosts DEF Listing, Heading
<1>5. DOMAIN AllIps = {a \in Address : Listing(a) # {}}
  BY DEF AllIps
<1>6. DOMAIN OnePerServer = {a \in Address : Heading(a) # {}}
  BY DEF OnePerServer
<1>7. DOMAIN AllIps \subseteq Address /\ DOMAIN OnePerServer \subseteq DOMAIN AllIps
  BY <1>4, <1>5, <1>6
<1>8. IsFiniteSet(DOMAIN AllIps)
  BY <1>7, FS_Subset, IpValidAssumption
<1>9. ASSUME NEW ip \in DOMAIN AllIps
      PROVE  \E i \in Listing(ip) :
               AllIps[ip] = servers[i].Keycount /\ AllIps[ip] \in Int /\ AllIps[ip] > 1
  <2>1. Max(Listing(ip)) \in Listing(ip)
    BY <1>3, <1>4, <1>5
  <2>2. AllIps[ip] = servers[Max(Listing(ip))].Keycount
    BY <1>5 DEF AllIps
  <2> QED
    BY <1>2, <1>4, <2>1, <2>2
<1>10. ASSUME NEW ip \in DOMAIN OnePerServer
       PROVE  \E i \in Heading(ip) :
                OnePerServer[ip] = servers[i].Keycount /\ OnePerServer[ip] \in Int
  <2>1. Max(Heading(ip)) \in Heading(ip)
    BY <1>3, <1>4, <1>6
  <2>2. OnePerServer[ip] = servers[Max(Heading(ip))].Keycount
    BY <1>6 DEF OnePerServer
  <2> QED
    BY <1>2, <1>4, <2>1, <2>2
<1> QED
  BY <1>1, <1>7, <1>8, <1>9, <1>10

LEMMA Candidates ==
  ASSUME Scanned
  PROVE  /\ FirstIps \subseteq FirstIpsAll
         /\ IsFiniteSet(FirstIps)
         /\ \A ip \in FirstIps : AllIps[ip] \in Int /\ AllIps[ip] > 1
<1>1. FirstIps \subseteq FirstIpsAll /\ FirstIps \subseteq DOMAIN AllIps
  BY Counts DEF FirstIps, FirstIpsAll
<1> QED
  BY <1>1, Counts, FS_Subset

(* At least as many as this many first addresses have the second-highest   *)
(* count or more.                                                          *)
AtLeast(v) == {ip \in FirstIps : AllIps[ip] >= v}

LEMMA SecondHighestType ==
  ASSUME Scanned, FirstIps # {}
  PROVE  /\ SecondHighest \in {AllIps[ip] : ip \in FirstIps}
         /\ Cardinality(FirstIps) >= 2 => Cardinality(AtLeast(SecondHighest)) >= 2
<1> DEFINE Q(v) == Cardinality(AtLeast(v)) >= 2 \/ Cardinality(FirstIps) = 1
           T == {ip \in FirstIps : Q(AllIps[ip])}
           V == {v \in {AllIps[ip] : ip \in FirstIps} : Q(v)}
<1>1. SecondHighest = Max(V)
  BY DEF SecondHighest, AtLeast
<1>2. IsFiniteSet(FirstIps) /\ \A ip \in FirstIps : AllIps[ip] \in Int
  BY Candidates
<1>3. \A v : IsFiniteSet(AtLeast(v))
  BY <1>2, FS_Subset DEF AtLeast
<1>4. T # {}
  <2>1. CASE Cardinality(FirstIps) >= 2
    <3>1. PICK p, q \in FirstIps : p # q
      BY <1>2, <2>1, TwoMembers
    <3>2. PICK r \in {p, q} : AllIps[r] <= AllIps[p] /\ AllIps[r] <= AllIps[q]
      BY <1>2
    <3>3. p \in AtLeast(AllIps[r]) /\ q \in AtLeast(AllIps[r])
      BY <1>2, <3>2 DEF AtLeast
    <3>4. Cardinality(AtLeast(AllIps[r])) >= 2
      BY <1>3, <3>1, <3>3, TwoMembers
    <3> QED
      BY <3>2, <3>4
  <2>2. CASE ~ Cardinality(FirstIps) >= 2
    <3>1. Cardinality(FirstIps) \in Nat \ {0}
      BY <1>2, FS_CardinalityType, FS_EmptySet
    <3>2. Cardinality(FirstIps) = 1
      BY <2>2, <3>1
    <3> QED
      BY <3>2
  <2> QED
    BY <2>1, <2>2
<1>5. IsFiniteSet(T) /\ \A ip \in T : AllIps[ip] \in Int
  BY <1>2, FS_Subset
<1>6. PICK x \in T : \A y \in T : AllIps[y] <= AllIps[x]
  <2> HIDE DEF T
  <2> QED
    BY <1>4, <1>5, GreatestAt
<1>7. AllIps[x] \in V /\ \A v \in V : AllIps[x] >= v
  BY <1>2, <1>6
<1>8. Max(V) \in V
  <2> HIDE DEF V
  <2> QED
    BY <1>7, Zenon DEF Max
<1> QED
  BY <1>1, <1>8

LEMMA StandardDeviationType ==
  ASSUME Scanned, FirstIps # {}
  PROVE  StandardDeviation \in Nat
<1> DEFINE n == Cardinality(FirstIps)
           spread == Spread(AllIps, FirstIps)
           V == {AllIps[ip] : ip \in FirstIps}
           K == {k \in 0 .. Max(V) : k * k * n * n * n <= spread}
<1>1. StandardDeviation = Max(K)
  BY DEF StandardDeviation
<1>2. IsFiniteSet(FirstIps) /\ \A ip \in FirstIps : AllIps[ip] \in Int /\ AllIps[ip] > 1
  BY Candidates
<1>3. n \in Nat /\ spread \in Nat
  BY <1>2, FS_CardinalityType, SpreadType
<1>4. PICK x \in FirstIps : \A y \in FirstIps : AllIps[y] <= AllIps[x]
  BY <1>2, GreatestAt
<1>5. Max(V) \in V
  <2>1. AllIps[x] \in V /\ \A v \in V : AllIps[x] >= v
    BY <1>2, <1>4
  <2> HIDE DEF V
  <2> QED
    BY <2>1, Zenon DEF Max
<1>6. Max(V) \in Int /\ Max(V) > 1
  BY <1>2, <1>5
<1>7. IsFiniteSet(K) /\ K # {} /\ K \subseteq Nat
  <2> HIDE DEF n, spread, V
  <2>1. K \in SUBSET (0 .. Max(V))
    OBVIOUS
  <2>2. \A k \in Nat : 0 * 0 * k * k * k = 0
    <3>1. \A k \in Nat : 0 * k = 0
      OBVIOUS
    <3>2. 0 * 0 = 0
      OBVIOUS
    <3> QED
      BY <3>1, <3>2
  <2>3. 0 \in K
    BY <1>3, <1>6, <2>2
  <2>4. IsFiniteSet(0 .. Max(V)) /\ 0 .. Max(V) \subseteq Nat
    <3>1. \A m \in Int : IsFiniteSet(0 .. m)
      BY FS_Interval
    <3>2. IsFiniteSet(0 .. Max(V))
      BY <1>6, <3>1
    <3>3. 0 .. Max(V) \subseteq Nat
      BY <1>6
    <3> QED
      BY <3>2, <3>3
  <2>5. IsFiniteSet(K)
    <3> HIDE DEF K
    <3> QED
      BY <2>1, <2>4, FS_Subset
  <2> HIDE DEF K
  <2> QED
    BY <2>1, <2>3, <2>4, <2>5
<1>8. Max(K) \in K
  <2> HIDE DEF K
  <2>1. K \subseteq Int
    BY <1>7
  <2> QED
    BY <1>7, <2>1, MaxIn
<1> QED
  <2> HIDE DEF K
  <2> QED
    BY <1>1, <1>7, <1>8

-----------------------------------------------------------------------------
(* The bounds and the threshold.                                           *)

(* The page's own threshold is not above the second-highest count.         *)
LEMMA ThresholdBelow ==
  ASSUME Scanned, KeysDailyJitter >= 0, FirstIps # {}
  PROVE  /\ Threshold \in Int /\ SecondHighest \in Int
         /\ Threshold <= SecondHighest
         /\ \E ip \in FirstIps : AllIps[ip] = SecondHighest
<1>1. PICK ip \in FirstIps : AllIps[ip] = SecondHighest
  BY SecondHighestType
<1>2. SecondHighest \in Int
  BY <1>1, Candidates
<1>3. StandardDeviation \in Nat /\ KeysDailyJitter \in Int
  BY StandardDeviationType, IpValidAssumption
<1> QED
  BY <1>1, <1>2, <1>3 DEF Threshold

(* Servers that share no address are counted alike by both maps.           *)
LEMMA CountedAlike ==
  ASSUME Scanned, Apart
  PROVE  /\ \A i \in Counted : \A ip \in IpsOf(i) :
              ip \in DOMAIN AllIps /\ AllIps[ip] = servers[i].Keycount
         /\ \A ip \in DOMAIN OnePerServer :
              /\ OnePerServer[ip] = AllIps[ip]
              /\ \E i \in Heading(ip) : AllIps[ip] = servers[i].Keycount
<1>1. ASSUME NEW i \in Counted, NEW ip \in IpsOf(i)
      PROVE  ip \in DOMAIN AllIps /\ AllIps[ip] = servers[i].Keycount
  <2>1. ip \in Address /\ i \in Listing(ip)
    BY <1>1, Counts, Hosts DEF Listing
  <2>2. ip \in DOMAIN AllIps
    BY <2>1 DEF AllIps
  <2>3. PICK j \in Listing(ip) : AllIps[ip] = servers[j].Keycount
    BY <2>2, Counts
  <2>4. j \in Counted /\ ip \in IpsOf(j)
    BY DEF Listing
  <2>5. i = j
    BY <1>1, <2>4 DEF Apart
  <2> QED
    BY <2>2, <2>3, <2>5
<1>2. ASSUME NEW ip \in DOMAIN OnePerServer
      PROVE  /\ OnePerServer[ip] = AllIps[ip]
             /\ \E i \in Heading(ip) : AllIps[ip] = servers[i].Keycount
  <2>1. PICK i \in Heading(ip) : OnePerServer[ip] = servers[i].Keycount
    BY Counts
  <2>2. i \in Counted /\ ip \in IpsOf(i)
    BY Hosts, Counts DEF Heading
  <2> QED
    BY <1>1, <2>1, <2>2
<1> QED
  BY <1>1, <1>2

(* The least n counts can be off their mean is within the bounds: squares  *)
(* add up to n times the least of them or more.                            *)
LEMMA WithinOwnBounds ==
  ASSUME NEW n \in Nat \ {0}, NEW d \in Int, NEW spread \in Nat, spread >= n * (d * d)
  PROVE  /\ d + n > 0 \/ n * (d + n) * (d + n) < 25 * spread
         /\ d <= 0 \/ n * d * d <= 25 * spread
<1>1. n * d * d = n * (d * d)
  OBVIOUS
<1>2. n * d * d <= 25 * spread
  BY <1>1
<1>3. CASE d + n <= 0
  <2> DEFINE e == d + n
  <2>1. e \in Int /\ e <= 0 /\ d < e /\ d < 0
    BY <1>3
  <2>2. e * e < d * d
    <3>1. \A a, b \in Nat : a < b => a * a < b * b
      <4>1. ASSUME NEW a \in Nat, NEW b \in Nat, a < b PROVE a * a < b * b
        <5>1. a * a <= a * b
          BY <4>1
        <5>2. a * b < b * b
          BY <4>1
        <5> QED
          BY <4>1, <5>1, <5>2
      <4> QED
        BY <4>1
    <3> DEFINE a == 0 - e  b == 0 - d
    <3>2. a \in Nat /\ b \in Nat /\ a < b
      BY <2>1
    <3>3. a * a < b * b
      <4> HIDE DEF a, b
      <4> QED
        BY <3>1, <3>2
    <3> HIDE DEF e
    <3>4. a * a = e * e /\ b * b = d * d
      BY <2>1
    <3> QED
      BY <3>3, <3>4
  <2> HIDE DEF e
  <2>3. n * (e * e) < n * (d * d)
    <3>1. \A x, y \in Int : x < y => n * x < n * y
      OBVIOUS
    <3>2. e * e \in Int /\ d * d \in Int
      BY <2>1
    <3> QED
      BY <2>2, <3>1, <3>2
  <2>4. n * e * e = n * (e * e) /\ n * (e * e) \in Int /\ n * (d * d) \in Int
    BY <2>1
  <2>5. n * e * e < 25 * spread
    BY <2>3, <2>4
  <2> QED
    BY <1>2, <2>5 DEF e
<1> QED
  BY <1>2, <1>3

(* Servers that share no address: of the largest bucket, at least one      *)
(* address is within the bounds.                                           *)
LEMMA SomeCandidate ==
  ASSUME Scanned, Apart, bucket \in LargestBuckets
  PROVE  FirstIps # {}
<1> DEFINE chosen == InBucket(bucket)
           n == Cardinality(chosen)
           total == Total(OnePerServer, chosen)
           spread == Spread(OnePerServer, chosen)
           d(ip) == Deviation(OnePerServer[ip], n, total)
<1>1. chosen # {} /\ chosen \subseteq DOMAIN OnePerServer
  BY DEF LargestBuckets, InBucket
<1>2. IsFiniteSet(chosen) /\ \A ip \in chosen : OnePerServer[ip] \in Int
  BY <1>1, Counts, FS_Subset
<1>3. n \in Nat \ {0}
  BY <1>1, <1>2, FS_CardinalityType, FS_EmptySet
<1>4. /\ total \in Int /\ spread \in Nat
      /\ \A m \in Nat : (\A ip \in chosen : d(ip) * d(ip) >= m) => spread >= n * m
  <2> HIDE DEF chosen
  <2> QED
    BY <1>2, SpreadType
<1>5. \A ip \in chosen : d(ip) \in Int
  <2> HIDE DEF n, total, chosen
  <2> QED
    BY <1>2, <1>3, <1>4 DEF Deviation
<1>6. \A ip \in chosen : d(ip) * d(ip) \in Nat
  <2>1. \A k \in Int : k * k \in Nat
    OBVIOUS
  <2> HIDE DEF d, chosen
  <2> QED
    BY <1>5, <2>1
<1>7. PICK x \in chosen : \A y \in chosen : d(x) * d(x) <= d(y) * d(y)
  <2> DEFINE minus == [ip \in chosen |-> 0 - d(ip) * d(ip)]
  <2> HIDE DEF d, chosen
  <2>1. \A ip \in chosen : minus[ip] \in Int /\ minus[ip] = 0 - d(ip) * d(ip)
    BY <1>6
  <2> HIDE DEF minus
  <2>2. PICK x \in chosen : \A y \in chosen : minus[y] <= minus[x]
    BY <1>1, <1>2, <2>1, GreatestAt
  <2>3. \A y \in chosen : d(x) * d(x) <= d(y) * d(y)
    <3>1. TAKE y \in chosen
    <3>2. 0 - d(y) * d(y) <= 0 - d(x) * d(x)
      BY <2>1, <2>2
    <3> QED
      BY <1>6, <3>2
  <2> QED
    BY <2>3
<1>8. spread >= n * (d(x) * d(x))
  <2> HIDE DEF d, chosen, n, spread
  <2>1. d(x) * d(x) \in Nat /\ \A ip \in chosen : d(ip) * d(ip) >= d(x) * d(x)
    BY <1>6, <1>7
  <2> QED
    BY <1>4, <2>1
<1>9. WithinBounds(OnePerServer[x])
  <2> DEFINE e == d(x)
  <2>1. e \in Int
    BY <1>5
  <2>2. /\ e + n > 0 \/ n * (e + n) * (e + n) < 25 * spread
        /\ e <= 0 \/ n * e * e <= 25 * spread
    <3> HIDE DEF d, chosen, n, spread
    <3>1. spread >= n * (e * e)
      BY <1>8
    <3> HIDE DEF e
    <3> QED
      BY <1>3, <1>4, <2>1, <3>1, WithinOwnBounds
  <2> QED
    BY <2>2 DEF WithinBounds
<1>10. x \in FirstIps
  BY <1>1, <1>9, CountedAlike DEF FirstIps
<1> QED
  BY <1>10

(* The four filters are different, and none is another stage.              *)
LEMMA FourFilters ==
  /\ DOMAIN Filters = 1 .. 4 /\ Len(Filters) = 4
  /\ Filters[1] = "skip_1010" /\ Filters[2] = "minimum_version"
  /\ Filters[3] = "countries" /\ Filters[4] = "proxies"
  BY DEF Filters

(* The servers within the bounds, and those all of whose addresses have    *)
(* the threshold: of two of the one, two are in the other, the servers     *)
(* whose first addresses have the second-highest count or more.            *)
LEMMA TwoAbove ==
  ASSUME Scanned, Apart, KeysDailyJitter >= 0, FirstIps # {},
         NEW good, good = {i \in Counted : servers[i].IpList # <<>> /\ WithinBounds(servers[i].Keycount)},
         Cardinality(good) > 1,
         NEW kept, kept = {ip \in FirstIpsAll : AllIps[ip] >= Threshold}
  PROVE  Cardinality({i \in good : IpsOf(i) \subseteq kept}) > 1
<1> DEFINE both == {i \in good : IpsOf(i) \subseteq kept}
           First(i) == Head(servers[i].IpList)
<1>1. IsFiniteSet(good) /\ IsFiniteSet(both) /\ IsFiniteSet(FirstIps)
  <2>1. good \in SUBSET Counted /\ both \in SUBSET Counted
    OBVIOUS
  <2>2. IsFiniteSet(Counted) /\ IsFiniteSet(FirstIps)
    BY Counts, Candidates
  <2> HIDE DEF both
  <2> QED
    BY <2>1, <2>2, FS_Subset
<1>2. ASSUME NEW i \in good
      PROVE  i \in Counted /\ First(i) \in IpsOf(i) /\ First(i) \in FirstIps
  <2>1. i \in Counted /\ servers[i].IpList # <<>> /\ WithinBounds(servers[i].Keycount)
    OBVIOUS
  <2>2. First(i) \in IpsOf(i) /\ First(i) \in Address
    BY <2>1, Hosts, Counts
  <2>3. First(i) \in DOMAIN OnePerServer
    BY <2>1, <2>2 DEF OnePerServer, Heading
  <2>4. AllIps[First(i)] = servers[i].Keycount
    BY <2>1, <2>2, CountedAlike
  <2> QED
    BY <2>1, <2>2, <2>3, <2>4 DEF FirstIps
<1>3. Cardinality(FirstIps) >= 2
  <2>1. PICK i, j \in good : i # j
    <3>1. Cardinality(good) >= 2
      BY <1>1, TwoMembers
    <3> HIDE DEF both
    <3> QED
      BY <1>1, <3>1, TwoMembers
  <2>2. First(i) # First(j)
    BY <1>2, <2>1 DEF Apart
  <2> QED
    BY <1>1, <1>2, <2>1, <2>2, TwoMembers
<1>4. IsFiniteSet(AtLeast(SecondHighest))
  BY <1>1, FS_Subset DEF AtLeast
<1>5. PICK p, q \in AtLeast(SecondHighest) : p # q
  BY <1>3, <1>4, SecondHighestType, TwoMembers
<1>6. ASSUME NEW ip \in AtLeast(SecondHighest)
      PROVE  \E i \in both : servers[i].IpList # <<>> /\ First(i) = ip
  <2>1. ip \in FirstIps /\ AllIps[ip] >= SecondHighest
    BY DEF AtLeast
  <2>2. ip \in DOMAIN OnePerServer /\ WithinBounds(AllIps[ip])
    BY <2>1 DEF FirstIps
  <2>3. PICK i \in Heading(ip) : AllIps[ip] = servers[i].Keycount
    BY <2>2, CountedAlike
  <2>4. i \in Counted /\ servers[i].IpList # <<>> /\ First(i) = ip
    BY DEF Heading
  <2>5. i \in good
    BY <2>2, <2>3, <2>4
  <2>6. AllIps[ip] >= Threshold
    BY <2>1, ThresholdBelow, Candidates
  <2>7. ASSUME NEW a \in IpsOf(i)
        PROVE  a \in kept
    <3>1. a \in DOMAIN AllIps /\ AllIps[a] = AllIps[ip]
      BY <2>3, <2>4, CountedAlike
    <3> QED
      BY <2>2, <2>6, <3>1 DEF FirstIpsAll
  <2> QED
    BY <2>4, <2>5, <2>7
<1>7. PICK i, j \in both : i # j
  BY <1>5, <1>6
<1>8. Cardinality(both) >= 2
  <2> HIDE DEF both
  <2> QED
    BY <1>1, <1>7, TwoMembers
<1>9. Cardinality(both) \in Nat
  <2> HIDE DEF both
  <2> QED
    BY <1>1, FS_CardinalityType
<1> QED
  BY <1>8, <1>9

-----------------------------------------------------------------------------
(* The guided choice as an invariant.                                      *)

(* What is known at each stage: the bucket is one of the largest, and the  *)
(* page's own threshold is taken from candidates that are there.           *)
Guided ==
  /\ servers \in Meshes /\ request \in Requests
  /\ stage \in {"bounding", "selecting", Filters[1]} => servers # NotScanned
  /\ stage = "bounding" => bucket \in LargestBuckets
  /\ stage \in {"selecting", Filters[1]} /\ request.threshold = 0 =>
       FirstIps # {} /\ threshold = Threshold
  /\ stage = Filters[1] => ips = {ip \in FirstIpsAll : AllIps[ip] >= threshold}
  /\ stage = "panic" => ~ Apart
  /\ stage = "threshold_too_high" /\ KeysDailyJitter >= 0 => request.threshold > 0

(* What is counted stays as it is while the page is made.                  *)
LEMMA SameMaps ==
  ASSUME UNCHANGED servers
  PROVE  /\ AllIps' = AllIps /\ OnePerServer' = OnePerServer
         /\ LargestBuckets' = LargestBuckets /\ Apart' = Apart
         /\ \A b : InBucket(b)' = InBucket(b)
<1>1. Counted' = Counted
  BY DEF Counted
<1>2. \A ip : Listing(ip)' = Listing(ip) /\ Heading(ip)' = Heading(ip)
  BY <1>1 DEF Listing, Heading, IpsOf
<1>3. AllIps' = AllIps /\ OnePerServer' = OnePerServer
  BY <1>2 DEF AllIps, OnePerServer
<1>4. \A b : InBucket(b)' = InBucket(b)
  BY <1>3 DEF InBucket
<1>5. LargestBuckets' = LargestBuckets
  BY <1>3, <1>4 DEF LargestBuckets
<1>6. Apart' = Apart
  BY <1>1 DEF Apart, IpsOf
<1> QED
  BY <1>3, <1>4, <1>5, <1>6

LEMMA SameChoice ==
  ASSUME UNCHANGED <<servers, bucket>>
  PROVE  /\ FirstIps' = FirstIps /\ FirstIpsAll' = FirstIpsAll
         /\ AllIps' = AllIps /\ Threshold' = Threshold /\ Apart' = Apart
<1>1. AllIps' = AllIps /\ OnePerServer' = OnePerServer /\ Apart' = Apart
  BY SameMaps
<1>2. InBucket(bucket)' = InBucket(bucket)
  BY SameMaps
<1>3. \A v : WithinBounds(v)' = WithinBounds(v)
  BY <1>1, <1>2 DEF WithinBounds
<1>4. FirstIps' = FirstIps /\ FirstIpsAll' = FirstIpsAll
  BY <1>1, <1>3 DEF FirstIps, FirstIpsAll
<1>5. SecondHighest' = SecondHighest
  BY <1>1, <1>4 DEF SecondHighest
<1>6. StandardDeviation' = StandardDeviation
  BY <1>1, <1>4 DEF StandardDeviation
<1>7. Threshold' = Threshold
  BY <1>5, <1>6 DEF Threshold
<1> QED
  BY <1>1, <1>4, <1>7

LEMMA InitGuided == Init => Guided
  BY FourFilters DEF Init, Guided

LEMMA NextGuided ==
  ASSUME Guided, [Next]_vars
  PROVE  Guided'
<1> USE FourFilters
<1>1. CASE FirstScan
  BY <1>1 DEF FirstScan, Abort, Guided
<1>2. CASE NoBuckets
  BY <1>2 DEF NoBuckets, Abort, Guided
<1>3. CASE ChooseBucket
  <2>1. bucket' \in LargestBuckets /\ UNCHANGED servers
    BY <1>3 DEF ChooseBucket
  <2>2. LargestBuckets' = LargestBuckets
    BY <2>1, SameMaps
  <2> QED
    BY <1>3, <2>1, <2>2 DEF ChooseBucket, Guided
<1>4. CASE BrokenData
  BY <1>4 DEF BrokenData, Abort, Guided
<1>5. CASE IndexOutOfRange
  <2>1. /\ stage = "bounding" /\ FirstIps = {} /\ stage' = "panic"
        /\ UNCHANGED <<servers, request, bucket, threshold, ips>>
    BY <1>5 DEF IndexOutOfRange, Abort
  <2>2. Scanned /\ bucket \in LargestBuckets
    BY <2>1 DEF Guided, Scanned
  <2>3. ~ Apart
    BY <2>1, <2>2, SomeCandidate
  <2>4. ~ Apart'
    BY <2>1, <2>3, SameChoice
  <2> QED
    BY <2>1, <2>4 DEF Guided
<1>6. CASE SetThreshold
  <2>1. /\ stage = "bounding" /\ FirstIps # {} /\ stage' = "selecting"
        /\ threshold' = IF request.threshold > 0 THEN request.threshold ELSE Threshold
        /\ UNCHANGED <<servers, request, bucket, ips>>
    BY <1>6 DEF SetThreshold
  <2>2. FirstIps' = FirstIps /\ Threshold' = Threshold
    BY <2>1, SameChoice
  <2> QED
    BY <2>1, <2>2 DEF Guided
<1>7. CASE Select
  <2> DEFINE above == {ip \in FirstIpsAll : AllIps[ip] >= threshold}
  <2>1. /\ stage = "selecting" /\ ips' = above
        /\ stage' = IF above = {} THEN "threshold_too_high" ELSE Filters[1]
        /\ UNCHANGED <<servers, request, bucket, threshold>>
    BY <1>7 DEF Select
  <2>2. /\ FirstIps' = FirstIps /\ FirstIpsAll' = FirstIpsAll
        /\ AllIps' = AllIps /\ Threshold' = Threshold
    BY <2>1, SameChoice
  <2>3. request.threshold = 0 /\ KeysDailyJitter >= 0 => above # {}
    <3> SUFFICES ASSUME request.threshold = 0, KeysDailyJitter >= 0 PROVE above # {}
      OBVIOUS
    <3>1. Scanned /\ FirstIps # {} /\ threshold = Threshold
      BY <2>1 DEF Guided, Scanned
    <3>2. PICK ip \in FirstIps : AllIps[ip] = SecondHighest
      BY <3>1, ThresholdBelow
    <3>3. ip \in FirstIpsAll /\ AllIps[ip] >= threshold
      BY <3>1, <3>2, ThresholdBelow, Candidates
    <3> QED
      BY <3>3
  <2>4. request.threshold \in Nat
    BY IpValidAssumption DEF Guided
  <2>5. ips' = {ip \in FirstIpsAll : AllIps[ip] >= threshold}'
    BY <2>1, <2>2
  <2> HIDE DEF above
  <2>6. CASE above = {}
    BY <2>1, <2>3, <2>4, <2>6 DEF Guided
  <2>7. CASE above # {}
    BY <2>1, <2>2, <2>5, <2>7 DEF Guided
  <2> QED
    BY <2>6, <2>7
<1>8. ASSUME NEW k \in DOMAIN Filters, Filter(k)
      PROVE  Guided'
  <2>1. /\ UNCHANGED <<servers, request, bucket, threshold>>
        /\ stage' \in {"no_servers_left", "answered"} \cup {Filters[j] : j \in 2 .. 4}
    BY <1>8 DEF Filter
  <2> QED
    BY <2>1 DEF Guided
<1>9. CASE UNCHANGED vars
  <2>1. UNCHANGED <<servers, request, stage, bucket, threshold, ips>>
    BY <1>9 DEF vars
  <2>2. /\ FirstIps' = FirstIps /\ FirstIpsAll' = FirstIpsAll
        /\ AllIps' = AllIps /\ Threshold' = Threshold /\ Apart' = Apart
    BY <2>1, SameChoice
  <2>3. LargestBuckets' = LargestBuckets
    BY <2>1, SameMaps
  <2> QED
    BY <2>1, <2>2, <2>3 DEF Guided
<1> QED
  BY <1>1, <1>2, <1>3, <1>4, <1>5, <1>6, <1>7, <1>8, <1>9 DEF Next

(* The handler's index into the list of candidates is out of range only    *)
(* when two servers list one address, for every mesh, request and flag     *)
(* (threshold_candidates[0], http_ip_valid.go).                            *)
THEOREM PanicNeedsShared == Spec => []PanicOnlyIfShared
<1>1. Guided => PanicOnlyIfShared
  BY DEF Guided, PanicOnlyIfShared
<1>2. Guided /\ [Next]_vars => Guided'
  BY NextGuided
<1> QED
  BY InitGuided, <1>1, <1>2, PTL DEF Spec

(* Only a threshold asked for in the request leaves no address: the page's *)
(* own is never above all of the counts it was taken from, as long as the  *)
(* daily jitter is not negative.                                           *)
THEOREM OwnThresholdKeeps ==
  ASSUME KeysDailyJitter >= 0 PROVE Spec => []OwnThresholdNotTooHigh
<1>1. Guided => OwnThresholdNotTooHigh
  BY DEF Guided, OwnThresholdNotTooHigh
<1>2. Guided /\ [Next]_vars => Guided'
  BY NextGuided
<1> QED
  BY InitGuided, <1>1, <1>2, PTL DEF Spec

(* Of two servers or more within the bounds that share no address, the     *)
(* page's own threshold keeps two with all of their addresses, for every   *)
(* mesh and request.                                                       *)
THEOREM TwoServersKept ==
  ASSUME KeysDailyJitter >= 0 PROVE Spec => []TwoServersSelected
<1>1. Guided => TwoServersSelected
  <2> DEFINE good == {i \in Counted : servers[i].IpList # <<>> /\ WithinBounds(servers[i].Keycount)}
  <2> SUFFICES ASSUME Guided, stage = Filters[1], request.threshold = 0, Apart,
                      Cardinality(good) > 1
               PROVE  Cardinality({i \in good : IpsOf(i) \subseteq ips}) > 1
    BY DEF TwoServersSelected
  <2>1. Scanned /\ FirstIps # {} /\ threshold = Threshold
    BY DEF Guided, Scanned
  <2>2. ips = {ip \in FirstIpsAll : AllIps[ip] >= Threshold}
    BY <2>1 DEF Guided
  <2> QED
    BY <2>1, <2>2, TwoAbove
<1>2. Guided /\ [Next]_vars => Guided'
  BY NextGuided
<1> QED
  BY InitGuided, <1>1, <1>2, PTL DEF Spec

-----------------------------------------------------------------------------
(* What the filters leave.                                                 *)

(* The request has got past filter k.                                      *)
Beyond(k) ==
  stage = "answered" \/ \E j \in DOMAIN Filters : j > k /\ stage = Filters[j]

(* There is something left, all of it above the threshold.                 *)
Above ==
  /\ ips # {}
  /\ ips \subseteq DOMAIN AllIps
  /\ \A ip \in ips : AllIps[ip] >= threshold

(* The inductive invariant: the filters passed so far still hold.          *)
Sifted ==
  /\ Beyond(0) => Above
  /\ \A k \in DOMAIN Filters :
       Beyond(k) /\ Asked(Filters[k]) => ips \cap Eliminated(Filters[k]) = {}

(* Nothing a filter looks at changes while the page is made.               *)
LEMMA SameMesh ==
  ASSUME UNCHANGED <<servers, request>>
  PROVE  /\ UNCHANGED AllIps
         /\ \A k \in DOMAIN Filters :
              /\ Asked(Filters[k])' = Asked(Filters[k])
              /\ Eliminated(Filters[k])' = Eliminated(Filters[k])
<1>1. UNCHANGED Counted
  BY DEF Counted
<1>2. \A a : Listing(a)' = Listing(a)
  BY <1>1 DEF Listing, IpsOf
<1>3. UNCHANGED AllIps
  BY SameMaps
<1>4. \A i : \A k \in DOMAIN Filters :
        (Unwanted(Filters[k], i))' = Unwanted(Filters[k], i)
  BY DEF Unwanted, IpsOf, TooOld
<1>5. \A k \in DOMAIN Filters : Eliminated(Filters[k])' = Eliminated(Filters[k])
  BY <1>2, <1>4 DEF Eliminated
<1>6. \A k \in DOMAIN Filters : Asked(Filters[k])' = Asked(Filters[k])
  BY DEF Asked
<1>7. QED
  BY <1>3, <1>5, <1>6

(* A step to a stage that is no filter and no answer.                      *)
LEMMA StillSifted ==
  ASSUME stage' \notin {Filters[k] : k \in DOMAIN Filters} \cup {"answered"}
  PROVE  Sifted'
  BY DEF Sifted, Beyond

LEMMA InitSifted == Init => Sifted
  BY FourFilters DEF Init, Sifted, Beyond

LEMMA NextSifted == Sifted /\ [Next]_vars => Sifted'
<1> SUFFICES ASSUME Sifted, [Next]_vars PROVE Sifted'
  OBVIOUS
<1>1. CASE FirstScan
  BY <1>1, StillSifted, FourFilters DEF FirstScan, Abort
<1>2. CASE NoBuckets
  BY <1>2, StillSifted, FourFilters DEF NoBuckets, Abort
<1>3. CASE ChooseBucket
  BY <1>3, StillSifted, FourFilters DEF ChooseBucket
<1>4. CASE BrokenData
  BY <1>4, StillSifted, FourFilters DEF BrokenData, Abort
<1>5. CASE IndexOutOfRange
  BY <1>5, StillSifted, FourFilters DEF IndexOutOfRange, Abort
<1>6. CASE SetThreshold
  BY <1>6, StillSifted, FourFilters DEF SetThreshold
<1>7. CASE Select
  <2>1. CASE stage' = "threshold_too_high"
    BY <2>1, StillSifted, FourFilters
  <2>2. CASE stage' = Filters[1] /\ ips' # {}
    <3>1. UNCHANGED AllIps /\ UNCHANGED threshold
      BY <1>7, SameMesh DEF Select
    <3>2. Above'
      BY <1>7, <2>2, <3>1 DEF Select, Above, FirstIpsAll
    <3>3. \A k \in DOMAIN Filters : ~ Beyond(k)'
      BY <2>2, FourFilters DEF Beyond
    <3>4. QED
      BY <3>2, <3>3 DEF Sifted
  <2>3. QED
    BY <1>7, <2>1, <2>2 DEF Select
<1>8. ASSUME NEW k \in DOMAIN Filters, Filter(k)
      PROVE  Sifted'
  <2> DEFINE left == IF Asked(Filters[k]) THEN ips \ Eliminated(Filters[k]) ELSE ips
  <2>1. /\ stage = Filters[k] /\ ips' = left
        /\ stage' = IF left = {} THEN "no_servers_left"
                    ELSE IF k = Len(Filters) THEN "answered" ELSE Filters[k + 1]
        /\ UNCHANGED <<servers, request, threshold>>
    BY <1>8 DEF Filter
  <2> HIDE DEF left
  <2>2. CASE left = {}
    BY <2>1, <2>2, StillSifted, FourFilters
  <2>3. CASE left # {}
    <3>1. /\ UNCHANGED <<AllIps, threshold>>
          /\ \A j \in DOMAIN Filters :
               /\ Asked(Filters[j])' = Asked(Filters[j])
               /\ Eliminated(Filters[j])' = Eliminated(Filters[j])
      BY <2>1, SameMesh
    <3>2. left \subseteq ips
      BY DEF left
    <3>3. Beyond(0)
      BY <2>1, FourFilters DEF Beyond
    <3>4. Above'
      BY <2>1, <2>3, <3>1, <3>2, <3>3 DEF Sifted, Above
    <3>5. ASSUME NEW j \in DOMAIN Filters, Beyond(j)', Asked(Filters[j])'
          PROVE  (ips \cap Eliminated(Filters[j]))' = {}
      <4>1. j <= k
        BY <2>1, <2>3, <3>5, FourFilters DEF Beyond
      <4>2. CASE j = k
        BY <2>1, <3>1, <3>5, <4>2 DEF left
      <4>3. CASE j < k
        <5>1. Beyond(j)
          BY <2>1, <4>3 DEF Beyond
        <5>2. ips \cap Eliminated(Filters[j]) = {}
          BY <3>1, <3>5, <5>1 DEF Sifted
        <5>3. QED
          BY <2>1, <3>1, <3>2, <5>2
      <4>4. QED
        BY <4>1, <4>2, <4>3, FourFilters
    <3>6. QED
      BY <3>4, <3>5 DEF Sifted
  <2>4. QED
    BY <2>2, <2>3
<1>9. CASE UNCHANGED vars
  <2>1. UNCHANGED <<servers, request, stage, threshold, ips>>
    BY <1>9 DEF vars
  <2>2. /\ UNCHANGED AllIps
        /\ \A j \in DOMAIN Filters :
             /\ Asked(Filters[j])' = Asked(Filters[j])
             /\ Eliminated(Filters[j])' = Eliminated(Filters[j])
    BY <2>1, SameMesh
  <2>3. QED
    BY <2>1, <2>2 DEF Sifted, Beyond, Above
<1>10. QED
  BY <1>1, <1>2, <1>3, <1>4, <1>5, <1>6, <1>7, <1>8, <1>9 DEF Next

LEMMA SiftedIsWanted == Sifted => ServedAddressesWanted
<1> SUFFICES ASSUME Sifted, stage = "answered" PROVE
      /\ ips # {}
      /\ \A ip \in ips :
           /\ AllIps[ip] >= threshold
           /\ \A i \in Counted : \A k \in DOMAIN Filters :
                ip \in IpsOf(i) /\ Asked(Filters[k]) => ~ Unwanted(Filters[k], i)
  BY DEF ServedAddressesWanted
<1>1. Above /\ \A k \in DOMAIN Filters : Beyond(k)
  BY DEF Sifted, Beyond
<1>2. ips \subseteq Address
  BY <1>1 DEF Above, AllIps
<1>3. ASSUME NEW ip \in ips, NEW i \in Counted, NEW k \in DOMAIN Filters,
             ip \in IpsOf(i), Asked(Filters[k])
      PROVE  ~ Unwanted(Filters[k], i)
  <2>1. ip \notin Eliminated(Filters[k])
    BY <1>1, <1>3 DEF Sifted
  <2>2. i \in Listing(ip)
    BY <1>3 DEF Listing
  <2>3. QED
    BY <1>2, <2>1, <2>2 DEF Eliminated
<1>4. QED
  BY <1>1, <1>3 DEF Above

(* Every address /ip-valid gives out has the key count asked for and       *)
(* belongs to no server with a key count that the request excludes, for    *)
(* every mesh, request and bucket size (filterOut, http_ip_valid.go).      *)
THEOREM ServedWanted == Spec => []ServedAddressesWanted
<1>1. Init => Sifted
  BY InitSifted
<1>2. Sifted /\ [Next]_vars => Sifted'
  BY NextSifted
<1>3. Sifted => ServedAddressesWanted
  BY SiftedIsWanted
<1>4. QED
  BY <1>1, <1>2, <1>3, PTL DEF Spec
=============================================================================
