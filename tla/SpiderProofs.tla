---------------------------- MODULE SpiderProofs ----------------------------
(***************************************************************************)
(* Theorems about Spider, for every mesh, channel depth and answer.        *)
(***************************************************************************)
EXTENDS SpiderProperties, FiniteSetTheorems, FunctionTheorems,
        SequenceTheorems, TLAPS

-----------------------------------------------------------------------------
(* Helpers are well-typed.                                                 *)

(* A request that has been popped, or of which one name has been taken.    *)
LEMMA RemainingType ==
  ASSUME NEW r \in Request
  PROVE  /\ Remaining(r) \in Request
         /\ AfterBatch(r) \in {"select", "batch"}
         /\ AfterBatch(r) = "batch" => Remaining(r).hostnames # <<>>
         /\ AfterBatch(r) = "select" => Remaining(r).hostnames = <<>>
         /\ Len(Remaining(r).hostnames) = Len(r.hostnames)
BY DEF Remaining, AfterBatch, Request, NoRequest

(* Taking the first name off a request that has one.                       *)
LEMMA RestType ==
  ASSUME NEW r \in Request, r.hostnames # <<>>
  PROVE  /\ Head(r.hostnames) \in Host
         /\ Rest(r) \in Request
         /\ Len(Rest(r).hostnames) = Len(r.hostnames) - 1
<1>1. r.hostnames \in Seq(Host) /\ r.origin \in Host \cup {Absent}
      /\ r.distance \in Nat
  BY DEF Request
<1>2. Head(r.hostnames) \in Host /\ Tail(r.hostnames) \in Seq(Host)
      /\ Len(Tail(r.hostnames)) = Len(r.hostnames) - 1
  BY <1>1, HeadTailProperties
<1>3. Rest(r) = [hostnames |-> Tail(r.hostnames), origin |-> r.origin,
                 distance |-> r.distance]
  BY DEF Rest, Request
<1> QED
  BY <1>1, <1>2, <1>3 DEF Request

(* How often a name occurs in a list is a natural number.                  *)
LEMMA OccurrencesType ==
  ASSUME NEW s \in Seq(Host), NEW x
  PROVE  Occurrences(s, x) \in Nat
<1>1. IsFiniteSet(1 .. Len(s))
  BY FS_Interval
<1>2. {i \in DOMAIN s : s[i] = x} \in SUBSET (1 .. Len(s))
  OBVIOUS
<1> QED
  BY <1>1, <1>2, FS_Subset, FS_CardinalityType DEF Occurrences

(* The distance considerHost computes for a request.                       *)
LEMMA RequestDistanceType ==
  ASSUME TypeOK, NEW r \in Request
  PROVE  RequestDistance(r) \in Int
BY DEF TypeOK, RequestDistance, Request

(* A server's name for itself is a hostname.                               *)
LEMMA CanonicalType ==
  ASSUME NEW h \in Host, NEW page \in Reply
  PROVE  Canonical(h, page) \in Host
BY SpiderAssumption DEF Canonical, Reply

-----------------------------------------------------------------------------
(* Type correctness, which rests on WorkInOnePlace: the names the loop     *)
(* carries are there when it takes one.                                    *)

LEMMA InitTyped == Init => TypeOK /\ WorkInOnePlace
BY SpiderAssumption
   DEF Init, TypeOK, WorkInOnePlace, Request, NoRequest, Idle, NoDistance

LEMMA NextTyped ==
  ASSUME TypeOK, WorkInOnePlace, [Next]_vars
  PROVE  TypeOK' /\ WorkInOnePlace'
<1> USE SpiderAssumption DEF TypeOK, WorkInOnePlace, control, workers,
                             directory, counters
<1>1. CASE AddHost
  <2> DEFINE seed == [hostnames |-> <<StartHost>>, origin |-> Absent, distance |-> 0]
  <2>1. seed \in Request
    BY DEF Request
  <2>2. queue' \in Seq(Request)
    BY <1>1, <2>1 DEF AddHost
  <2>3. pendingHosts' \in [Host -> Int] /\ pending' \in Int
    BY <1>1 DEF AddHost
  <2> QED
    BY <1>1, <2>2, <2>3 DEF AddHost
<1>2. CASE Wait
  BY <1>2 DEF Wait
<1>3. CASE Terminate
  BY <1>3 DEF Terminate
<1>4. CASE ReceiveRequest
  <2>1. Head(queue) \in Request /\ Tail(queue) \in Seq(Request)
    BY <1>4 DEF ReceiveRequest
  <2> QED
    BY <1>4, <2>1, RemainingType DEF ReceiveRequest
<1>5. CASE SkipHost
  <2>1. Head(request.hostnames) \in Host /\ Rest(request) \in Request
    BY <1>5, RestType DEF SkipHost, NextName
  <2>2. /\ request' \in Request
        /\ pc' \in {"select", "batch"}
        /\ pc' = "batch" => request'.hostnames # <<>>
        /\ pc' = "select" => request'.hostnames = <<>>
    BY <1>5, <2>1, RemainingType DEF SkipHost, NextName
  <2>3. RequestDistance(request) \in Int
    BY RequestDistanceType
  <2> QED
    BY <1>5, <2>1, <2>2, <2>3 DEF SkipHost
<1>6. CASE StartLookup
  <2>1. Head(request.hostnames) \in Host /\ Rest(request) \in Request
    BY <1>6, RestType DEF StartLookup, NextName
  <2>2. /\ request' \in Request
        /\ pc' \in {"select", "batch"}
        /\ pc' = "batch" => request'.hostnames # <<>>
        /\ pc' = "select" => request'.hostnames = <<>>
    BY <1>6, <2>1, RemainingType DEF StartLookup, NextName
  <2>3. RequestDistance(request) \in Int
    BY RequestDistanceType
  <2> QED
    BY <1>6, <2>1, <2>2, <2>3 DEF StartLookup, Skip
<1>7. ASSUME NEW h \in lookups, NEW ips \in Lookup[h], RejectName(h, ips)
      PROVE  TypeOK' /\ WorkInOnePlace'
  BY <1>7 DEF RejectName, ReceiveDns
<1>8. ASSUME NEW h \in lookups, NEW ips \in Lookup[h], NEW ip \in ips,
             AliasByAddress(h, ips, ip)
      PROVE  TypeOK' /\ WorkInOnePlace'
  BY <1>8 DEF AliasByAddress, ReceiveDns, MergedIPs
<1>9. ASSUME NEW h \in lookups, NEW ips \in Lookup[h], NewHost(h, ips)
      PROVE  TypeOK' /\ WorkInOnePlace'
  <2> DEFINE unplaced == {ip \in ips : countriesForIPs[ip] = Absent}
  <2>1. h \in Host /\ ips \in SUBSET IP
    OBVIOUS
  <2>2. NewWork(unplaced) \in Int
    <3>1. IsFiniteSet(unplaced)
      BY <2>1, FS_Subset
    <3> QED
      BY <3>1, FS_CardinalityType DEF NewWork
  <2>3. /\ knownHosts' \in [Host -> Host \cup {Absent}]
        /\ aliasesForHost' \in [Host -> SUBSET Host]
        /\ ipsForHost' \in [Host -> SUBSET IP]
        /\ knownIPs' \in [IP -> Host \cup {Absent}]
        /\ serverInfos' \in [Host -> {Absent, Nil} \cup Node]
    BY <1>9, <2>1 DEF NewHost
  <2>4. /\ countriesForIPs' \in [IP -> {Absent, "asked", "found"}]
        /\ geoQueries' \subseteq IP
    BY <1>9, <2>1 DEF NewHost
  <2>5. pendingCountries' \in [IP -> Int]
    BY <1>9, <2>1 DEF NewHost
  <2>6. \A ip \in geoQueries' : countriesForIPs'[ip] # Absent
    BY <1>9, <2>1, SpiderAssumption DEF NewHost
  <2>7. pending' \in Int
    BY <1>9, <2>2 DEF NewHost
  <2>8. pendingHosts' \in [Host -> Int]
    BY <1>9, <2>1 DEF NewHost
  <2>9. /\ lookups' = lookups \ {h} /\ fetches' = fetches \cup {h}
        /\ handling' = [kind |-> "dns", of |-> h] /\ pc = "select"
        /\ pc' = "finish"
        /\ UNCHANGED <<caller, request, queue, considering, badDNS,
                       queryErrors, distances>>
    BY <1>9 DEF NewHost, ReceiveDns
  <2> QED
    BY <2>1, <2>3, <2>4, <2>5, <2>6, <2>7, <2>8, <2>9
<1>10. ASSUME NEW h \in fetches, QueryFailed(h)
       PROVE  TypeOK' /\ WorkInOnePlace'
  BY <1>10 DEF QueryFailed, ReceiveHost
<1>11. ASSUME NEW h \in fetches, NEW page \in Page[h] \ {Absent},
              QuerySucceeded(h, page)
       PROVE  TypeOK' /\ WorkInOnePlace'
  <2> DEFINE c == Canonical(h, page)
  <2>1. h \in Host /\ page \in Reply /\ c \in Host
    BY CanonicalType
  <2>2. page.peers \in Seq(Host) /\ page.nodename \in Host \cup {Absent}
    BY <2>1 DEF Reply
  <2>3. knownHosts' \in [Host -> Host \cup {Absent}]
    <3>1. RenamedHosts(h, c) \in [Host -> Host \cup {Absent}]
      BY <2>1 DEF RenamedHosts
    <3>2. NamedHosts(h, page) \in [Host -> Host \cup {Absent}]
      BY <2>1, <2>2, <3>1 DEF NamedHosts
    <3> QED
      BY <1>11, <3>2 DEF QuerySucceeded
  <2>4. /\ aliasesForHost' \in [Host -> SUBSET Host]
        /\ knownIPs' \in [IP -> Host \cup {Absent}]
        /\ ipsForHost' \in [Host -> SUBSET IP]
        /\ distances' \in [Host -> Int]
    <3>1. CASE c = h
      BY <1>11, <2>1, <3>1 DEF QuerySucceeded
    <3>2. CASE c # h
      <4>1. Rename(h, c)
        BY <1>11, <3>2 DEF QuerySucceeded
      <4>2. MovedAliases(h, c) \in [Host -> SUBSET Host]
        <5>1. aliasesForHost[h] \cup {c} \in SUBSET Host
          BY <2>1
        <5> QED
          BY <2>1, <5>1 DEF MovedAliases
      <4>3. MovedIPs(h, c) \in [Host -> SUBSET IP]
        BY <2>1 DEF MovedIPs
      <4>4. distances' \in [Host -> Int]
        BY <2>1, <4>1 DEF Rename
      <4>5. knownIPs' \in [IP -> Host \cup {Absent}]
        BY <2>1, <4>1 DEF Rename
      <4> QED
        BY <4>1, <4>2, <4>3, <4>4, <4>5 DEF Rename
    <3> QED
      BY <3>1, <3>2
  <2>5. serverInfos' \in [Host -> {Absent, Nil} \cup Node]
    BY <1>11, <2>1, <2>2 DEF QuerySucceeded, Node
  <2>6. BatchAddHost(c, page.peers)
    BY <1>11 DEF QuerySucceeded
  <2>7. request' \in Request /\ pc' = "send"
    BY <2>1, <2>2, <2>6 DEF BatchAddHost, Request
  <2>8. pending' \in Int
    BY <2>2, <2>6, LenProperties DEF BatchAddHost
  <2>9. pendingHosts' \in [Host -> Int]
    <3>1. \A x \in Host : Occurrences(page.peers, x) \in Nat
      BY <2>2, OccurrencesType
    <3> QED
      BY <2>6, <3>1 DEF BatchAddHost
  <2> QED
    BY <1>11, <2>1, <2>3, <2>4, <2>5, <2>7, <2>8, <2>9
       DEF QuerySucceeded, ReceiveHost
<1>12. CASE SendRequest
  BY <1>12 DEF SendRequest, NoRequest, Request
<1>13. ASSUME NEW ip \in geoQueries, NEW answer \in {"found", "error"},
              ReceiveCountry(ip, answer)
       PROVE  TypeOK' /\ WorkInOnePlace'
  BY <1>13 DEF ReceiveCountry, Placed
<1>14. CASE FinishResult
  <2> DEFINE of == handling.of
  <2>1. pendingHosts' \in [Host -> Int]
    <3>1. \/ pendingHosts' = pendingHosts
          \/ pendingHosts' = [pendingHosts EXCEPT ![of] = pendingHosts[of] - 1]
      BY <1>14 DEF FinishResult
    <3> HIDE DEF of
    <3> QED
      BY <3>1
  <2>2. pendingCountries' \in [IP -> Int]
    <3>1. \/ pendingCountries' = pendingCountries
          \/ pendingCountries' =
               [pendingCountries EXCEPT ![of] = pendingCountries[of] - 1]
      BY <1>14 DEF FinishResult
    <3> HIDE DEF of
    <3> QED
      BY <3>1
  <2> QED
    BY <1>14, <2>1, <2>2 DEF FinishResult
<1>15. CASE UNCHANGED vars
  BY <1>15 DEF vars
<1> HIDE DEF TypeOK, WorkInOnePlace
<1> QED
  BY <1>1, <1>2, <1>3, <1>4, <1>5, <1>6, <1>7, <1>8, <1>9, <1>10, <1>11,
     <1>12, <1>13, <1>14, <1>15
     DEF Next, MainLoop, Caller, Finished, DnsStep, HostStep, CountryStep

(* Every variable of the crawl keeps its type.                             *)
THEOREM TypeCorrect == Spec => []TypeOK
<1>1. Init => TypeOK /\ WorkInOnePlace
  BY InitTyped
<1>2. TypeOK /\ WorkInOnePlace /\ [Next]_vars => (TypeOK /\ WorkInOnePlace)'
  BY NextTyped
<1> QED
  BY <1>1, <1>2, PTL DEF Spec

(* No name is at two stages, and the loop never takes a name from a        *)
(* request that has none left.                                             *)
THEOREM OnePlace == Spec => []WorkInOnePlace
<1>1. Init => TypeOK /\ WorkInOnePlace
  BY InitTyped
<1>2. TypeOK /\ WorkInOnePlace /\ [Next]_vars => (TypeOK /\ WorkInOnePlace)'
  BY NextTyped
<1> QED
  BY <1>1, <1>2, PTL DEF Spec

-----------------------------------------------------------------------------
(* Counting the names in the channel.                                      *)

(* One request contributes as many places as it has names.                 *)
LEMMA PlacesOfOne ==
  ASSUME NEW k, NEW n \in Nat
  PROVE  IsFiniteSet({k} \X (1 .. n)) /\ Cardinality({k} \X (1 .. n)) = n
<1>1. IsFiniteSet({k}) /\ Cardinality({k}) = 1
  BY FS_Singleton
<1>2. IsFiniteSet(1 .. n) /\ Cardinality(1 .. n) = n
  BY FS_Interval
<1>3. /\ IsFiniteSet({k} \X (1 .. n))
      /\ Cardinality({k} \X (1 .. n)) = Cardinality({k}) * Cardinality(1 .. n)
  BY <1>1, <1>2, FS_Product, Zenon
<1> QED
  BY <1>1, <1>2, <1>3

LEMMA PlacesEmpty ==
  Places(<<>>) = {} /\ IsFiniteSet(Places(<<>>)) /\ Cardinality(Places(<<>>)) = 0
<1>1. Places(<<>>) = {}
  BY DEF Places
<1> QED
  BY <1>1, FS_EmptySet

(* What is in a place of a channel.                                        *)
LEMMA PlacesMember ==
  ASSUME NEW q \in Seq(Request), NEW x
  PROVE  x \in Places(q) <=>
           \E i \in 1 .. Len(q) : x \in {i} \X (1 .. Len(q[i].hostnames))
<1>1. \A i \in 1 .. Len(q) : DOMAIN q[i].hostnames = 1 .. Len(q[i].hostnames)
  BY DEF Request
<1> QED
  BY <1>1 DEF Places

(* A channel holds finitely many names.                                    *)
LEMMA PlacesFinite ==
  ASSUME NEW q \in Seq(Request)
  PROVE  IsFiniteSet(Places(q)) /\ Cardinality(Places(q)) \in Nat
<1> DEFINE slice(i) == {i} \X DOMAIN q[i].hostnames
           slices   == {slice(i) : i \in DOMAIN q}
           f        == [i \in 1 .. Len(q) |-> slice(i)]
<1>1. f \in Surjection(1 .. Len(q), slices)
  <2>1. DOMAIN q = 1 .. Len(q)
    OBVIOUS
  <2>2. f \in [1 .. Len(q) -> slices]
    BY <2>1
  <2>3. \A S \in slices : \E i \in 1 .. Len(q) : f[i] = S
    BY <2>1
  <2> QED
    BY <2>2, <2>3 DEF Surjection
<1>2. IsFiniteSet(slices)
  BY <1>1, FS_Interval, FS_Surjection
<1>3. \A S \in slices : IsFiniteSet(S)
  <2> SUFFICES ASSUME NEW i \in DOMAIN q PROVE IsFiniteSet(slice(i))
    OBVIOUS
  <2>1. q[i].hostnames \in Seq(Host)
    <3>1. q[i] \in Request
      OBVIOUS
    <3> QED
      BY <3>1 DEF Request
  <2>2. /\ Len(q[i].hostnames) \in Nat
        /\ DOMAIN q[i].hostnames = 1 .. Len(q[i].hostnames)
    BY <2>1
  <2> QED
    BY <2>2, PlacesOfOne
<1>4. IsFiniteSet(UNION slices)
  BY <1>2, <1>3, FS_UNION
<1> QED
  BY <1>4, FS_CardinalityType DEF Places

(* Sending a request adds its names.                                       *)
LEMMA PlacesAppend ==
  ASSUME NEW q \in Seq(Request), NEW r \in Request
  PROVE  Cardinality(Places(Append(q, r))) =
           Cardinality(Places(q)) + Len(r.hostnames)
<1> DEFINE new == {Len(q) + 1} \X (1 .. Len(r.hostnames))
<1>1. Append(q, r) \in Seq(Request) /\ Len(Append(q, r)) = Len(q) + 1
      /\ \A i \in 1 .. Len(q) : Append(q, r)[i] = q[i]
      /\ Append(q, r)[Len(q) + 1] = r
  BY AppendProperties
<1>2. Len(r.hostnames) \in Nat
  BY DEF Request
<1>3. ASSUME NEW x
      PROVE  x \in Places(Append(q, r)) <=> x \in Places(q) \/ x \in new
  <2>1. 1 .. Len(q) + 1 = 1 .. Len(q) \cup {Len(q) + 1}
    BY LenProperties
  <2>2. x \in Places(Append(q, r)) <=>
          \E i \in 1 .. Len(q) + 1 :
            x \in {i} \X (1 .. Len(Append(q, r)[i].hostnames))
    BY <1>1, PlacesMember
  <2>3. x \in Places(q) <=>
          \E i \in 1 .. Len(q) : x \in {i} \X (1 .. Len(q[i].hostnames))
    BY PlacesMember
  <2> QED
    BY <1>1, <2>1, <2>2, <2>3
<1>4. Places(Append(q, r)) = Places(q) \cup new
  BY <1>3
<1>5. Places(q) \cap new = {}
  BY PlacesMember
<1>6. IsFiniteSet(new) /\ Cardinality(new) = Len(r.hostnames)
  BY <1>2, PlacesOfOne
<1>7. Cardinality(Places(q) \cup new) =
        Cardinality(Places(q)) + Cardinality(new) - Cardinality({})
  BY <1>5, <1>6, PlacesFinite, FS_Union
<1> HIDE DEF new
<1> QED
  BY <1>2, <1>4, <1>6, <1>7, PlacesFinite, FS_EmptySet

(* Receiving a request removes its names.                                  *)
LEMMA PlacesTail ==
  ASSUME NEW q \in Seq(Request), q # <<>>
  PROVE  Cardinality(Places(q)) =
           Cardinality(Places(Tail(q))) + Len(Head(q).hostnames)
<1> DEFINE first   == {1} \X (1 .. Len(Head(q).hostnames))
           up(p)   == <<p[1] + 1, p[2]>>
           shifted == {up(p) : p \in Places(Tail(q))}
           f       == [p \in Places(Tail(q)) |-> up(p)]
<1>1. Head(q) \in Request /\ Tail(q) \in Seq(Request)
      /\ Len(Tail(q)) = Len(q) - 1 /\ Head(q) = q[1] /\ Len(q) \in Nat \ {0}
      /\ \A i \in 1 .. Len(Tail(q)) : Tail(q)[i] = q[i + 1]
  BY HeadTailProperties
<1>2. Len(Head(q).hostnames) \in Nat
  BY <1>1 DEF Request
<1>3. Places(q) = first \cup shifted
  <2>1. ASSUME NEW x \in Places(q) PROVE x \in first \cup shifted
    <3>1. PICK i \in 1 .. Len(q) : x \in {i} \X (1 .. Len(q[i].hostnames))
      BY PlacesMember
    <3>2. CASE i = 1
      BY <1>1, <3>1, <3>2
    <3>3. CASE i # 1
      <4>1. i - 1 \in 1 .. Len(Tail(q)) /\ Tail(q)[i - 1] = q[i]
        BY <1>1, <3>3
      <4>2. <<i - 1, x[2]>> \in {i - 1} \X (1 .. Len(Tail(q)[i - 1].hostnames))
        BY <3>1, <4>1
      <4>3. <<i - 1, x[2]>> \in Places(Tail(q))
        BY <1>1, <4>1, <4>2, PlacesMember
      <4>4. up(<<i - 1, x[2]>>) = x
        BY <3>1
      <4> QED
        BY <4>3, <4>4
    <3> QED
      BY <3>2, <3>3
  <2>2. first \subseteq Places(q)
    BY <1>1, PlacesMember
  <2>3. ASSUME NEW p \in Places(Tail(q)) PROVE up(p) \in Places(q)
    <3>1. PICK i \in 1 .. Len(Tail(q)) :
            p \in {i} \X (1 .. Len(Tail(q)[i].hostnames))
      BY <1>1, PlacesMember
    <3>2. i + 1 \in 1 .. Len(q) /\ Tail(q)[i] = q[i + 1]
      BY <1>1
    <3>3. up(p) \in {i + 1} \X (1 .. Len(q[i + 1].hostnames))
      BY <3>1, <3>2
    <3> QED
      BY <3>2, <3>3, PlacesMember
  <2> QED
    BY <2>1, <2>2, <2>3
<1>4. ASSUME NEW p \in Places(Tail(q))
      PROVE  p = <<p[1], p[2]>> /\ p[1] \in Nat \ {0}
  <2>1. PICK i \in 1 .. Len(Tail(q)) :
          p \in {i} \X (1 .. Len(Tail(q)[i].hostnames))
    BY <1>1, PlacesMember
  <2> QED
    BY <2>1
<1>5. first \cap shifted = {}
  BY <1>4
<1>6. f \in Bijection(Places(Tail(q)), shifted)
  <2>1. f \in [Places(Tail(q)) -> shifted]
    OBVIOUS
  <2>2. ASSUME NEW p1 \in Places(Tail(q)), NEW p2 \in Places(Tail(q)),
               f[p1] = f[p2]
        PROVE  p1 = p2
    <3>1. up(p1) = up(p2)
      BY <2>2
    <3> QED
      BY <1>4, <3>1
  <2>3. \A x \in shifted : \E p \in Places(Tail(q)) : f[p] = x
    OBVIOUS
  <2> HIDE DEF f, shifted
  <2> QED
    BY <2>1, <2>2, <2>3, Fun_IsBij
<1>7. /\ IsFiniteSet(shifted)
      /\ Cardinality(shifted) = Cardinality(Places(Tail(q)))
  BY <1>1, <1>6, PlacesFinite, FS_Bijection DEF ExistsBijection
<1>8. IsFiniteSet(first) /\ Cardinality(first) = Len(Head(q).hostnames)
  BY <1>2, PlacesOfOne
<1>9. Cardinality(first \cup shifted) =
        Cardinality(first) + Cardinality(shifted) - Cardinality({})
  BY <1>5, <1>7, <1>8, FS_Union
<1>10. Cardinality(Places(Tail(q))) \in Nat
  BY <1>1, PlacesFinite
<1> HIDE DEF first, shifted
<1> QED
  BY <1>2, <1>3, <1>7, <1>8, <1>9, <1>10, FS_EmptySet

-----------------------------------------------------------------------------
(* The WaitGroup counts the outstanding work.                              *)

(* A set of running goroutines is finite.                                  *)
LEMMA RunningFinite ==
  ASSUME NEW S, S \in SUBSET Host \/ S \in SUBSET IP
  PROVE  IsFiniteSet(S) /\ Cardinality(S) \in Nat
BY SpiderAssumption, FS_Subset, FS_CardinalityType

(* The summands of Outstanding are natural numbers.                        *)
LEMMA SummandsType ==
  ASSUME TypeOK
  PROVE  /\ Cardinality(Places(queue)) \in Nat
         /\ Len(request.hostnames) \in Nat
         /\ Handled \in {0, 1}
         /\ IsFiniteSet(lookups) /\ Cardinality(lookups) \in Nat
         /\ IsFiniteSet(fetches) /\ Cardinality(fetches) \in Nat
         /\ IsFiniteSet(geoQueries) /\ Cardinality(geoQueries) \in Nat
<1>1. Len(request.hostnames) \in Nat
  BY DEF TypeOK, Request
<1>2. queue \in Seq(Request)
  BY DEF TypeOK
<1>3. lookups \in SUBSET Host /\ fetches \in SUBSET Host
      /\ geoQueries \in SUBSET IP
  BY DEF TypeOK
<1> QED
  BY <1>1, <1>2, <1>3, PlacesFinite, RunningFinite DEF Handled

LEMMA OutstandingType == TypeOK => Outstanding \in Nat
<1> SUFFICES ASSUME TypeOK PROVE Outstanding \in Nat
  OBVIOUS
<1> DEFINE q == Cardinality(Places(queue))
           n == Len(request.hostnames)
           l == Cardinality(lookups)
           f == Cardinality(fetches)
           g == Cardinality(geoQueries)
<1>1. /\ q \in Nat /\ n \in Nat /\ l \in Nat /\ f \in Nat /\ g \in Nat
      /\ Handled \in {0, 1}
  BY SummandsType
<1>2. Outstanding = q + n + Handled + l + f + g
  BY DEF Outstanding, Queued
<1> HIDE DEF q, n, l, f, g
<1> QED
  BY <1>1, <1>2

(* Work starts in StartLookup and in NewHost; a result in hand is the      *)
(* goroutine that produced it, until FinishResult.                         *)
LEMMA NextAccounted ==
  ASSUME TypeOK, WorkInOnePlace, Accounting, [Next]_vars
  PROVE  Accounting'
<1> DEFINE q == Cardinality(Places(queue))
           n == Len(request.hostnames)
           l == Cardinality(lookups)
           f == Cardinality(fetches)
           g == Cardinality(geoQueries)
<1> USE DEF control, workers, counters
<1>1. pending = q + n + Handled + l + f + g
  BY DEF Accounting, Outstanding, Queued
<1>2. /\ q \in Nat /\ n \in Nat /\ l \in Nat /\ f \in Nat /\ g \in Nat
      /\ Handled \in {0, 1}
      /\ IsFiniteSet(lookups) /\ IsFiniteSet(fetches) /\ IsFiniteSet(geoQueries)
  BY SummandsType
<1>3. SUFFICES pending' = q' + n' + Handled' + l' + f' + g'
  BY DEF Accounting, Outstanding, Queued
<1>4. /\ queue \in Seq(Request) /\ request \in Request
      /\ lookups \in SUBSET Host /\ fetches \in SUBSET Host
      /\ geoQueries \in SUBSET IP
  BY DEF TypeOK
<1>5. CASE AddHost
  <2> DEFINE r == [hostnames |-> <<StartHost>>, origin |-> Absent, distance |-> 0]
  <2>1. r \in Request /\ Len(r.hostnames) = 1
    BY SpiderAssumption DEF Request
  <2>2. queue' = Append(queue, r)
    BY <1>5 DEF AddHost
  <2>3. q' = q + 1
    BY <1>4, <2>1, <2>2, PlacesAppend
  <2>4. /\ pending' = pending + 1 /\ Handled' = Handled
        /\ n' = n /\ l' = l /\ f' = f /\ g' = g
    BY <1>5 DEF AddHost, Handled
  <2> HIDE DEF q, n, l, f, g
  <2> QED
    BY <1>1, <1>2, <2>3, <2>4
<1>6. CASE Wait
  BY <1>1, <1>6 DEF Wait, Handled
<1>7. CASE Terminate
  BY <1>1, <1>7 DEF Terminate, Handled
<1>8. CASE ReceiveRequest
  <2>1. Head(queue) \in Request /\ queue # <<>>
    BY <1>4, <1>8 DEF ReceiveRequest
  <2>2. q = q' + Len(Head(queue).hostnames)
    BY <1>4, <1>8, <2>1, PlacesTail DEF ReceiveRequest
  <2>3. n' = Len(Head(queue).hostnames) /\ n = 0
    BY <1>8, <2>1, RemainingType DEF ReceiveRequest, WorkInOnePlace
  <2>4. Handled' = 0 /\ Handled = 0
    BY <1>8, <2>1, RemainingType DEF ReceiveRequest, Handled
  <2>5. queue' \in Seq(Request) /\ n' \in Nat
    BY <1>4, <1>8, <2>1, <2>3 DEF ReceiveRequest, Request
  <2>6. q' \in Nat
    BY <2>5, PlacesFinite
  <2> QED
    BY <1>1, <1>2, <1>8, <2>2, <2>3, <2>4, <2>5, <2>6 DEF ReceiveRequest
<1>9. ASSUME NextName
      PROVE  n' = n - 1 /\ Handled = 0 /\ Handled' = 0
  <2>1. request.hostnames # <<>>
    BY <1>9 DEF NextName, WorkInOnePlace
  <2>2. Rest(request) \in Request /\ Len(Rest(request).hostnames) = n - 1
    BY <1>4, <2>1, RestType
  <2> QED
    BY <1>9, <2>2, RemainingType DEF NextName, Handled
<1>10. CASE SkipHost
  <2>1. /\ pending' = pending - 1 /\ n' = n - 1 /\ Handled = 0 /\ Handled' = 0
        /\ q' = q /\ l' = l /\ f' = f /\ g' = g
    BY <1>9, <1>10 DEF SkipHost
  <2> HIDE DEF q, n, l, f, g
  <2> QED
    BY <1>1, <1>2, <2>1
<1>11. CASE StartLookup
  <2> DEFINE h == Head(request.hostnames)
  <2>1. h \notin lookups
    BY <1>11 DEF StartLookup, Skip, WorkInOnePlace
  <2>2. l' = l + 1
    BY <1>2, <1>11, <2>1, FS_AddElement DEF StartLookup
  <2>3. /\ pending' = pending /\ n' = n - 1 /\ Handled = 0 /\ Handled' = 0
        /\ q' = q /\ f' = f /\ g' = g
    BY <1>9, <1>11 DEF StartLookup
  <2> HIDE DEF q, n, l, f, g
  <2> QED
    BY <1>1, <1>2, <2>2, <2>3
<1>12. ASSUME NEW h \in lookups, ReceiveDns(h)
       PROVE  /\ l' = l - 1 /\ Handled = 0 /\ Handled' = 1
              /\ q' = q /\ n' = n
  BY <1>2, <1>12, FS_RemoveElement DEF ReceiveDns, Handled
<1>13. ASSUME NEW h \in lookups, NEW ips \in Lookup[h], RejectName(h, ips)
       PROVE  pending' = q' + n' + Handled' + l' + f' + g'
  <2>1. /\ pending' = pending /\ l' = l - 1 /\ Handled = 0 /\ Handled' = 1
        /\ q' = q /\ n' = n /\ f' = f /\ g' = g
    BY <1>12, <1>13 DEF RejectName
  <2> HIDE DEF q, n, l, f, g
  <2> QED
    BY <1>1, <1>2, <2>1
<1>14. ASSUME NEW h \in lookups, NEW ips \in Lookup[h], NEW ip \in ips,
              AliasByAddress(h, ips, ip)
       PROVE  pending' = q' + n' + Handled' + l' + f' + g'
  <2>1. /\ pending' = pending /\ l' = l - 1 /\ Handled = 0 /\ Handled' = 1
        /\ q' = q /\ n' = n /\ f' = f /\ g' = g
    BY <1>12, <1>14 DEF AliasByAddress
  <2> HIDE DEF q, n, l, f, g
  <2> QED
    BY <1>1, <1>2, <2>1
<1>15. ASSUME NEW h \in lookups, NEW ips \in Lookup[h], NewHost(h, ips)
       PROVE  pending' = q' + n' + Handled' + l' + f' + g'
  <2> DEFINE unplaced == {ip \in ips : countriesForIPs[ip] = Absent}
  <2>1. ips \in SUBSET IP
    BY <1>4, SpiderAssumption
  <2>2. IsFiniteSet(unplaced) /\ Cardinality(unplaced) \in Nat
    BY <2>1, RunningFinite
  <2>3. geoQueries \cap unplaced = {}
    BY DEF WorkInOnePlace
  <2>4. Cardinality(geoQueries \cup unplaced) =
          Cardinality(geoQueries) + Cardinality(unplaced) - Cardinality({})
    BY <1>2, <2>2, <2>3, FS_Union
  <2>5. g' = Cardinality(geoQueries \cup unplaced)
    BY <1>15 DEF NewHost
  <2>6. h \notin fetches
    BY DEF WorkInOnePlace
  <2>7. f' = f + 1
    BY <1>2, <1>15, <2>6, FS_AddElement DEF NewHost
  <2>8. pending' = pending + Cardinality(unplaced) + 1
    <3>1. pending' = pending + NewWork(unplaced)
      BY ONLY <1>15 DEF NewHost
    <3>2. NewWork(unplaced) = Cardinality(unplaced) + 1
      BY ONLY DEF NewWork
    <3>3. pending \in Int
      BY DEF TypeOK
    <3> HIDE DEF unplaced
    <3> QED
      BY ONLY <2>2, <3>1, <3>2, <3>3
  <2>9. l' = l - 1 /\ Handled = 0 /\ Handled' = 1 /\ q' = q /\ n' = n
    BY <1>12, <1>15 DEF NewHost
  <2>10. g' = g + Cardinality(unplaced)
    BY <1>2, <2>2, <2>4, <2>5, FS_EmptySet
  <2> HIDE DEF unplaced, q, n, l, f, g
  <2> QED
    BY <1>1, <1>2, <2>2, <2>7, <2>8, <2>9, <2>10
<1>16. ASSUME NEW h \in fetches, ReceiveHost(h)
       PROVE  f' = f - 1 /\ l' = l /\ g' = g /\ q' = q /\ Handled = 0 /\ n = 0
  BY <1>2, <1>16, FS_RemoveElement DEF ReceiveHost, Handled, WorkInOnePlace
<1>17. ASSUME NEW h \in fetches, QueryFailed(h)
       PROVE  pending' = q' + n' + Handled' + l' + f' + g'
  <2>1. /\ pending' = pending /\ n' = n /\ Handled' = 1 /\ Handled = 0
        /\ f' = f - 1 /\ l' = l /\ g' = g /\ q' = q
    BY <1>16, <1>17 DEF QueryFailed, Handled
  <2> HIDE DEF q, n, l, f, g
  <2> QED
    BY <1>1, <1>2, <2>1
<1>18. ASSUME NEW h \in fetches, NEW page \in Page[h] \ {Absent},
              QuerySucceeded(h, page)
       PROVE  pending' = q' + n' + Handled' + l' + f' + g'
  <2>1. page \in Reply
    BY <1>4, SpiderAssumption
  <2> DEFINE m == Len(page.peers)
  <2>2. m \in Nat
    BY <2>1 DEF Reply
  <2>3. pending' = pending + m /\ n' = m /\ Handled' = 1
    BY <1>18 DEF QuerySucceeded, BatchAddHost, Handled
  <2>4. f' = f - 1 /\ l' = l /\ g' = g /\ q' = q /\ Handled = 0 /\ n = 0
    BY <1>16, <1>18 DEF QuerySucceeded
  <2> HIDE DEF q, n, l, f, g, m
  <2> QED
    BY <1>1, <1>2, <2>2, <2>3, <2>4
<1>19. CASE SendRequest
  <2>1. q' = q + n
    BY <1>4, <1>19, PlacesAppend DEF SendRequest
  <2>2. n' = 0 /\ Handled = 1 /\ Handled' = 1
    BY <1>19 DEF SendRequest, NoRequest, Handled
  <2> QED
    BY <1>1, <1>2, <1>19, <2>1, <2>2 DEF SendRequest
<1>20. ASSUME NEW ip \in geoQueries, NEW answer \in {"found", "error"},
              ReceiveCountry(ip, answer)
       PROVE  pending' = q' + n' + Handled' + l' + f' + g'
  <2>1. g' = g - 1
    BY <1>2, <1>20, FS_RemoveElement DEF ReceiveCountry
  <2>2. /\ pending' = pending /\ n' = n /\ Handled' = 1 /\ Handled = 0
        /\ q' = q /\ l' = l /\ f' = f
    BY <1>20 DEF ReceiveCountry, Handled
  <2> HIDE DEF q, n, l, f, g
  <2> QED
    BY <1>1, <1>2, <2>1, <2>2
<1>21. CASE FinishResult
  <2>1. /\ pending' = pending - 1 /\ Handled = 1 /\ Handled' = 0
        /\ q' = q /\ n' = n /\ l' = l /\ f' = f /\ g' = g
    BY <1>21 DEF FinishResult, Handled
  <2> HIDE DEF q, n, l, f, g
  <2> QED
    BY <1>1, <1>2, <2>1
<1>22. CASE UNCHANGED vars
  BY <1>1, <1>22 DEF vars, Handled
<1> HIDE DEF q, n, l, f, g
<1> QED
  BY <1>5, <1>6, <1>7, <1>8, <1>10, <1>11, <1>13, <1>14, <1>15, <1>17, <1>18,
     <1>19, <1>20, <1>21, <1>22
     DEF Next, MainLoop, Caller, Finished, DnsStep, HostStep, CountryStep

(* Nothing outstanding: the loop's hands are empty and nothing runs.       *)
LEMMA DrainedMeans ==
  ASSUME TypeOK, Outstanding = 0
  PROVE  /\ request.hostnames = <<>> /\ pc \notin {"send", "finish"}
         /\ lookups = {} /\ fetches = {} /\ geoQueries = {}
<1> DEFINE q == Cardinality(Places(queue))
           n == Len(request.hostnames)
           l == Cardinality(lookups)
           f == Cardinality(fetches)
           g == Cardinality(geoQueries)
<1>1. /\ q \in Nat /\ n \in Nat /\ l \in Nat /\ f \in Nat /\ g \in Nat
      /\ Handled \in {0, 1}
      /\ IsFiniteSet(lookups) /\ IsFiniteSet(fetches) /\ IsFiniteSet(geoQueries)
  BY SummandsType
<1>2. q + n + Handled + l + f + g = 0
  BY DEF Outstanding, Queued
<1>3. n = 0 /\ Handled = 0 /\ l = 0 /\ f = 0 /\ g = 0
  <2> HIDE DEF q, n, l, f, g
  <2> QED
    BY <1>1, <1>2
<1>4. request.hostnames \in Seq(Host)
  BY DEF TypeOK, Request
<1>5. request.hostnames = <<>>
  BY <1>3, <1>4
<1>6. lookups = {} /\ fetches = {} /\ geoQueries = {}
  BY <1>1, <1>3, FS_EmptySet
<1> QED
  BY <1>3, <1>5, <1>6 DEF Handled

(* When nothing is outstanding the only step left to the loop receives a   *)
(* request without names.                                                  *)
LEMMA QuietStep ==
  ASSUME TypeOK, WorkInOnePlace, Outstanding = 0, [Next]_vars
  PROVE  AddHost \/ UNCHANGED pending
<1>1. /\ request.hostnames = <<>> /\ pc \notin {"send", "finish"}
      /\ lookups = {} /\ fetches = {} /\ geoQueries = {}
  BY DrainedMeans
<1>2. pc # "batch"
  BY <1>1 DEF WorkInOnePlace
<1> QED
  BY <1>1, <1>2
     DEF Next, MainLoop, Caller, Finished, DnsStep, HostStep, CountryStep, vars,
         counters, Wait, Terminate, ReceiveRequest, SkipHost, NextName,
         StartLookup, SendRequest, FinishResult

(* The caller moves by its own three steps only.                           *)
LEMMA CallerStep ==
  ASSUME [Next]_vars
  PROVE  AddHost \/ Wait \/ Terminate \/ UNCHANGED caller
BY DEF Next, MainLoop, Caller, Finished, DnsStep, HostStep, CountryStep, vars,
       control, ReceiveRequest, SkipHost, StartLookup, RejectName,
       AliasByAddress, NewHost, ReceiveDns, QueryFailed, QuerySucceeded,
       ReceiveHost, SendRequest, ReceiveCountry, FinishResult

LEMMA NextQuiescent ==
  ASSUME TypeOK, WorkInOnePlace, Accounting, WorkOnlyWhileWaiting, [Next]_vars,
         Accounting'
  PROVE  WorkOnlyWhileWaiting'
<1>1. SUFFICES ASSUME caller' # "waiting" PROVE pending' = 0
  BY DEF WorkOnlyWhileWaiting, Accounting
<1>2. CASE caller = "waiting"
  BY <1>1, <1>2, CallerStep DEF AddHost, Wait, Terminate, counters
<1>3. CASE caller # "waiting"
  <2>1. Outstanding = 0 /\ pending = 0
    BY <1>3 DEF WorkOnlyWhileWaiting, Accounting
  <2>2. AddHost \/ UNCHANGED pending
    BY <2>1, QuietStep
  <2> QED
    BY <1>1, <2>1, <2>2 DEF AddHost
<1> QED
  BY <1>2, <1>3

(* The inductive invariant behind the WaitGroup's theorems.                *)
Bookkeeping == TypeOK /\ WorkInOnePlace /\ Accounting /\ WorkOnlyWhileWaiting

LEMMA InitBookkeeping == Init => Bookkeeping
<1> SUFFICES ASSUME Init PROVE Bookkeeping
  OBVIOUS
<1>1. TypeOK /\ WorkInOnePlace
  BY InitTyped
<1>2. /\ queue = <<>> /\ request.hostnames = <<>> /\ Handled = 0
      /\ lookups = {} /\ fetches = {} /\ geoQueries = {} /\ pending = 0
      /\ caller = "starting"
  BY DEF Init, NoRequest, Handled
<1>3. Cardinality(Queued) = 0
  BY <1>2, PlacesEmpty DEF Queued
<1>4. Cardinality(lookups) = 0 /\ Cardinality(fetches) = 0
      /\ Cardinality(geoQueries) = 0 /\ Len(request.hostnames) = 0
  BY <1>2, FS_EmptySet
<1> QED
  BY <1>1, <1>2, <1>3, <1>4
     DEF Bookkeeping, Accounting, Outstanding, WorkOnlyWhileWaiting

LEMMA NextBookkeeping == Bookkeeping /\ [Next]_vars => Bookkeeping'
BY NextTyped, NextAccounted, NextQuiescent DEF Bookkeeping

(* Whatever the mesh answers and in whatever order, the WaitGroup counts   *)
(* exactly the work that is outstanding: it never goes negative.           *)
THEOREM WaitGroupExact == Spec => []Accounting
<1>1. Bookkeeping => Accounting
  BY DEF Bookkeeping
<1> QED
  BY <1>1, InitBookkeeping, NextBookkeeping, PTL DEF Spec

(* The maps are at rest once Wait has returned.                            *)
THEOREM QuiescentAfterWait == Spec => []WorkOnlyWhileWaiting
<1>1. Bookkeeping => WorkOnlyWhileWaiting
  BY DEF Bookkeeping
<1> QED
  BY <1>1, InitBookkeeping, NextBookkeeping, PTL DEF Spec

-----------------------------------------------------------------------------
(* The abstract WaitGroup.                                                 *)

(* A crawl does what the comment in Spider.Wait promises, for its safety   *)
(* part: every step starts the work, changes it, releases the caller when  *)
(* none is left, or changes nothing the caller can tell.                   *)
THEOREM CrawlImplementsWaitGroup == Spec => WG!Safety
<1> DEFINE waiter == CASE caller = "starting" -> "starting"
                       [] caller = "waiting"  -> "waiting"
                       [] OTHER               -> "released"
<1>0. (TypeOK => Outstanding \in Nat)'
  BY OutstandingType, PTL
<1>1. Init => WG!Init
  <2> SUFFICES ASSUME Init PROVE WG!Init
    OBVIOUS
  <2>1. Accounting /\ pending = 0 /\ caller = "starting"
    BY InitBookkeeping DEF Bookkeeping, Init
  <2> QED
    BY <2>1 DEF WG!Init, Accounting
<1>2. ASSUME Bookkeeping, Bookkeeping', [Next]_vars
      PROVE  [WG!Next]_<<Outstanding, waiter>>
  <2>1. /\ Outstanding = pending /\ Outstanding' = pending'
        /\ Outstanding \in Nat /\ Outstanding' \in Nat
    <3>1. Outstanding = pending /\ Outstanding' = pending'
      BY <1>2 DEF Bookkeeping, Accounting
    <3>2. Outstanding \in Nat
      BY <1>2, OutstandingType DEF Bookkeeping
    <3>3. Outstanding' \in Nat
      BY <1>2, <1>0 DEF Bookkeeping
    <3> QED
      BY <3>1, <3>2, <3>3
  <2>2. CASE AddHost
    <3>1. waiter = "starting" /\ waiter' = "waiting"
      BY <2>2 DEF AddHost
    <3>2. Outstanding = 0
      BY <1>2, <2>2 DEF Bookkeeping, WorkOnlyWhileWaiting, AddHost
    <3>3. Outstanding' = 1
      BY <2>1, <2>2, <3>2 DEF AddHost
    <3> QED
      BY <3>1, <3>3 DEF WG!Next, WG!Start
  <2>3. CASE Wait
    <3>1. waiter = "waiting" /\ waiter' = "released"
      BY <2>3 DEF Wait
    <3>2. Outstanding = 0 /\ UNCHANGED Outstanding
      BY <2>1, <2>3 DEF Wait, counters
    <3> QED
      BY <3>1, <3>2 DEF WG!Next, WG!Release
  <2>4. CASE ~AddHost /\ ~Wait
    <3>1. UNCHANGED waiter
      BY <1>2, <2>4, CallerStep DEF Terminate
    <3>2. CASE Outstanding = 0
      BY <1>2, <2>1, <2>4, <3>1, <3>2, QuietStep DEF Bookkeeping
    <3>3. CASE Outstanding # 0
      BY <2>1, <3>1, <3>3 DEF WG!Next, WG!Work
    <3> QED
      BY <3>2, <3>3
  <2> QED
    BY <2>2, <2>3, <2>4
<1> QED
  BY <1>1, <1>2, InitBookkeeping, NextBookkeeping, PTL DEF Spec, WG!Safety

-----------------------------------------------------------------------------
(* The channel only the loop reads.                                        *)

LEMMA AnsweredType ==
  /\ IsFiniteSet(Answering) /\ IsFiniteSet(Answered)
  /\ Cardinality(Answered) \in Nat
  /\ Cardinality(Answered) <= Cardinality(Answering)
<1>1. IsFiniteSet(Answering)
  BY RunningFinite DEF Answering
<1>2. Answered \in SUBSET Answering
  BY DEF Answered
<1> QED
  BY <1>1, <1>2, FS_Subset, FS_CardinalityType

(* Before the first lookup only the seed is about.                         *)
LEMMA NextBoundedSeed ==
  ASSUME TypeOK, WorkInOnePlace, OneRequestPerAnswer, [Next]_vars,
         considering = {}
  PROVE  OneRequestPerAnswer'
<1> USE DEF control
<1>1. lookups = {} /\ fetches = {}
  BY DEF WorkInOnePlace
<1>2. /\ pc # "send" /\ Len(queue) <= 1 /\ queue \in Seq(Request)
      /\ caller = "starting" => queue = <<>> /\ pc # "batch"
      /\ pc = "batch" => queue = <<>>
  BY DEF OneRequestPerAnswer, TypeOK
<1>3. CASE AddHost
  BY <1>2, <1>3 DEF AddHost, OneRequestPerAnswer
<1>4. CASE Wait \/ Terminate
  BY <1>2, <1>4 DEF Wait, Terminate, OneRequestPerAnswer
<1>5. CASE ReceiveRequest
  <2>1. queue # <<>> /\ queue' = Tail(queue) /\ UNCHANGED <<caller, considering>>
    BY <1>5 DEF ReceiveRequest
  <2>2. queue' = <<>>
    <3>1. Len(Tail(queue)) = Len(queue) - 1 /\ Tail(queue) \in Seq(Request)
      BY <1>2, <2>1, HeadTailProperties
    <3>2. Len(queue) \in Nat \ {0}
      BY <1>2, <2>1
    <3>3. Len(Tail(queue)) = 0
      BY <1>2, <3>1, <3>2
    <3> QED
      BY <2>1, <3>1, <3>3, EmptySeq
  <2>3. pc' # "send"
    BY <1>5 DEF ReceiveRequest, AfterBatch
  <2> QED
    BY <1>2, <2>1, <2>2, <2>3 DEF OneRequestPerAnswer
<1>6. CASE SkipHost
  BY <1>2, <1>6 DEF SkipHost, NextName, AfterBatch, OneRequestPerAnswer
<1>7. CASE StartLookup
  <2>1. /\ considering' # {} /\ caller' # "starting"
        /\ Len(queue') = 0 /\ pc' # "send"
    BY <1>2, <1>7 DEF StartLookup, NextName, AfterBatch
  <2>2. Cardinality(Answered') \in Nat
    <3>1. Answered' \in SUBSET Answering
      BY DEF Answered, Answering
    <3> QED
      BY <3>1, AnsweredType, FS_Subset, FS_CardinalityType
  <2> QED
    BY <2>1, <2>2 DEF OneRequestPerAnswer
<1>8. ASSUME NEW ip \in geoQueries, NEW answer \in {"found", "error"},
             ReceiveCountry(ip, answer)
      PROVE  OneRequestPerAnswer'
  BY <1>2, <1>8 DEF ReceiveCountry, OneRequestPerAnswer
<1>9. CASE FinishResult
  BY <1>2, <1>9 DEF FinishResult, OneRequestPerAnswer
<1>10. CASE UNCHANGED vars
  BY <1>2, <1>10 DEF vars, OneRequestPerAnswer
<1> QED
  BY <1>1, <1>2, <1>3, <1>4, <1>5, <1>6, <1>7, <1>8, <1>9, <1>10
     DEF Next, MainLoop, Caller, Finished, DnsStep, HostStep, CountryStep,
         SendRequest

(* From then on each request is paid for by a name that has answered.      *)
LEMMA NextBoundedCrawl ==
  ASSUME TypeOK, WorkInOnePlace, OneRequestPerAnswer, [Next]_vars,
         considering # {}
  PROVE  OneRequestPerAnswer'
<1> DEFINE len == Len(queue)
           send == IF pc = "send" THEN 1 ELSE 0
           paid == Cardinality(Answered)
<1> USE DEF control, workers
<1>1. caller # "starting" /\ len + send <= paid
  BY DEF OneRequestPerAnswer
<1>2. /\ queue \in Seq(Request) /\ request \in Request
      /\ len \in Nat /\ send \in {0, 1}
      /\ paid \in Nat /\ IsFiniteSet(Answered)
  BY AnsweredType DEF TypeOK
<1>3. IsFiniteSet(Answered') /\ paid' \in Nat
  <2>1. Answered' \in SUBSET Answering
    BY DEF Answered, Answering
  <2> QED
    BY <2>1, AnsweredType, FS_Subset, FS_CardinalityType
<1>4. ASSUME Answered \subseteq Answered' PROVE paid <= paid'
  BY <1>3, <1>4, FS_Subset
<1>5. SUFFICES /\ considering' # {} /\ caller' # "starting"
               /\ len' + send' <= paid'
  BY DEF OneRequestPerAnswer
<1>6. CASE AddHost
  BY <1>1, <1>6 DEF AddHost
<1>7. CASE Wait \/ Terminate
  BY <1>1, <1>7 DEF Wait, Terminate, Answered
<1>8. CASE ReceiveRequest
  <2>1. len' = len - 1 /\ send = 0 /\ send' = 0
    BY <1>2, <1>8, HeadTailProperties DEF ReceiveRequest, AfterBatch
  <2>2. paid' = paid /\ UNCHANGED <<caller, considering>>
    BY <1>8 DEF ReceiveRequest, Answered
  <2> HIDE DEF len, send, paid
  <2> QED
    BY <1>1, <1>2, <2>1, <2>2
<1>9. CASE SkipHost
  <2>1. /\ len' = len /\ send = 0 /\ send' = 0 /\ paid' = paid
        /\ UNCHANGED <<caller, considering>>
    BY <1>9 DEF SkipHost, NextName, AfterBatch, Answered
  <2> QED
    BY <1>1, <2>1
<1>10. CASE StartLookup
  <2>1. Answered' = Answered
    BY <1>10 DEF StartLookup, Skip, Answered
  <2>2. /\ len' = len /\ send = 0 /\ send' = 0
        /\ UNCHANGED caller /\ considering' # {}
    BY <1>10 DEF StartLookup, NextName, AfterBatch
  <2> QED
    BY <1>1, <2>1, <2>2
<1>11. ASSUME NEW h \in lookups, ReceiveDns(h), UNCHANGED fetches
       PROVE  /\ considering' # {} /\ caller' # "starting"
              /\ len' + send' <= paid'
  <2>1. /\ len' = len /\ send = 0 /\ send' = 0
        /\ UNCHANGED <<caller, considering>>
    BY <1>11 DEF ReceiveDns
  <2>2. Answered \subseteq Answered'
    BY <1>11 DEF ReceiveDns, Answered
  <2>3. paid <= paid'
    BY <1>4, <2>2
  <2> HIDE DEF len, send, paid
  <2> QED
    BY <1>1, <1>2, <1>3, <2>1, <2>3
<1>12. ASSUME NEW h \in lookups, NEW ips \in Lookup[h], NewHost(h, ips)
       PROVE  /\ considering' # {} /\ caller' # "starting"
              /\ len' + send' <= paid'
  <2>1. Answered' = Answered
    BY <1>12 DEF NewHost, ReceiveDns, Answered
  <2>2. /\ len' = len /\ send = 0 /\ send' = 0
        /\ UNCHANGED <<caller, considering>>
    BY <1>12 DEF NewHost, ReceiveDns
  <2> QED
    BY <1>1, <2>1, <2>2
<1>13. ASSUME NEW h \in fetches, QueryFailed(h)
       PROVE  /\ considering' # {} /\ caller' # "starting"
              /\ len' + send' <= paid'
  <2>1. /\ len' = len /\ send = 0 /\ send' = 0
        /\ UNCHANGED <<caller, considering>>
    BY <1>13 DEF QueryFailed, ReceiveHost
  <2>2. Answered \subseteq Answered'
    BY <1>13 DEF QueryFailed, ReceiveHost, Answered
  <2>3. paid <= paid'
    BY <1>4, <2>2
  <2> HIDE DEF len, send, paid
  <2> QED
    BY <1>1, <1>2, <1>3, <2>1, <2>3
<1>14. ASSUME NEW h \in fetches, NEW page \in Page[h] \ {Absent},
              QuerySucceeded(h, page)
       PROVE  /\ considering' # {} /\ caller' # "starting"
              /\ len' + send' <= paid'
  <2>1. /\ len' = len /\ send = 0 /\ send' = 1
        /\ UNCHANGED <<caller, considering>>
    BY <1>14 DEF QuerySucceeded, ReceiveHost, BatchAddHost
  <2>2. h \in Answering /\ h \in considering /\ h \notin lookups
    BY DEF Answering, WorkInOnePlace, TypeOK
  <2>3. Answered' = Answered \cup {h} /\ h \notin Answered
    BY <1>14, <2>2 DEF QuerySucceeded, ReceiveHost, Answered, Answering
  <2>4. paid' = paid + 1
    BY <1>2, <2>3, FS_AddElement
  <2> HIDE DEF len, send, paid
  <2> QED
    BY <1>1, <1>2, <2>1, <2>4
<1>15. CASE SendRequest
  <2>1. len' = len + 1 /\ send = 1 /\ send' = 0
    BY <1>2, <1>15, AppendProperties DEF SendRequest
  <2>2. paid' = paid /\ UNCHANGED <<caller, considering>>
    BY <1>15 DEF SendRequest, Answered
  <2> HIDE DEF len, send, paid
  <2> QED
    BY <1>1, <1>2, <2>1, <2>2
<1>16. ASSUME NEW ip \in geoQueries, NEW answer \in {"found", "error"},
              ReceiveCountry(ip, answer)
       PROVE  /\ considering' # {} /\ caller' # "starting"
              /\ len' + send' <= paid'
  <2>1. /\ len' = len /\ send = 0 /\ send' = 0 /\ paid' = paid
        /\ UNCHANGED <<caller, considering>>
    BY <1>16 DEF ReceiveCountry, Answered
  <2> QED
    BY <1>1, <2>1
<1>17. CASE FinishResult
  <2>1. /\ len' = len /\ send = 0 /\ send' = 0 /\ paid' = paid
        /\ UNCHANGED <<caller, considering>>
    BY <1>17 DEF FinishResult, Answered
  <2> QED
    BY <1>1, <2>1
<1>18. CASE UNCHANGED vars
  BY <1>1, <1>18 DEF vars, Answered
<1> HIDE DEF len, send, paid
<1> QED
  BY <1>6, <1>7, <1>8, <1>9, <1>10, <1>11, <1>12, <1>13, <1>14, <1>15, <1>16,
     <1>17, <1>18
     DEF Next, MainLoop, Caller, Finished, DnsStep, HostStep, CountryStep,
         RejectName, AliasByAddress

(* Every request in the channel is the answer of a different name.         *)
THEOREM ChannelBounded == Spec => []OneRequestPerAnswer
<1>1. Init => OneRequestPerAnswer
  BY DEF Init, OneRequestPerAnswer
<1>2. /\ TypeOK /\ WorkInOnePlace /\ OneRequestPerAnswer /\ [Next]_vars
      => OneRequestPerAnswer'
  BY NextBoundedSeed, NextBoundedCrawl
<1> QED
  BY <1>1, <1>2, TypeCorrect, OnePlace, PTL DEF Spec

(* The loop never blocks on its own channel in a mesh in which no more     *)
(* than QUEUE_DEPTH names answer a fetch.                                  *)
THEOREM SendNeverBlocksInSmallMesh ==
  ASSUME Cardinality(Answering) <= QUEUE_DEPTH
  PROVE  Spec => []SendNeverBlocks
<1>1. TypeOK /\ WorkInOnePlace /\ OneRequestPerAnswer => SendNeverBlocks
  <2> SUFFICES ASSUME TypeOK, WorkInOnePlace, OneRequestPerAnswer, pc = "send"
               PROVE  Len(queue) < QUEUE_DEPTH
    BY DEF SendNeverBlocks
  <2>1. Len(queue) + 1 <= Cardinality(Answered)
    BY DEF OneRequestPerAnswer
  <2>2. Len(queue) \in Nat /\ QUEUE_DEPTH \in Nat
        /\ Cardinality(Answering) \in Nat
    BY AnsweredType, FS_CardinalityType, SpiderAssumption DEF TypeOK
  <2> QED
    BY <2>1, <2>2, AnsweredType
<1> QED
  BY <1>1, TypeCorrect, OnePlace, ChannelBounded, PTL

-----------------------------------------------------------------------------
(* What becomes of a name.                                                 *)

(* A name once resolved stays resolved.                                    *)
LEMMA KnownStaysKnown ==
  ASSUME TypeOK, [Next]_vars, NEW h \in Host, knownHosts[h] # Absent
  PROVE  knownHosts'[h] # Absent
<1> USE DEF directory
<1>1. knownHosts \in [Host -> Host \cup {Absent}] /\ Absent \notin Host
  BY SpiderAssumption DEF TypeOK
<1>2. ASSUME NEW x \in lookups, NEW ips \in Lookup[x], NEW ip \in ips,
             AliasByAddress(x, ips, ip)
      PROVE  knownHosts'[h] # Absent
  BY <1>1, <1>2 DEF AliasByAddress
<1>3. ASSUME NEW x \in lookups, NEW ips \in Lookup[x], NewHost(x, ips)
      PROVE  knownHosts'[h] # Absent
  BY <1>1, <1>3 DEF NewHost, TypeOK
<1>4. ASSUME NEW x \in fetches, NEW page \in Page[x] \ {Absent},
             QuerySucceeded(x, page)
      PROVE  knownHosts'[h] # Absent
  <2> DEFINE c == Canonical(x, page)
  <2>1. x \in Host
    BY DEF TypeOK
  <2>2. page \in Reply
    BY <2>1, SpiderAssumption
  <2>3. c \in Host
    BY <2>1, <2>2, CanonicalType
  <2>4. RenamedHosts(x, c)[h] # Absent
    BY <1>1, <2>3 DEF RenamedHosts
  <2>5. knownHosts' = NamedHosts(x, page)
    BY <1>4 DEF QuerySucceeded
  <2>6. NamedHosts(x, page)[h] # Absent
    <3>1. \/ NamedHosts(x, page) = RenamedHosts(x, c)
          \/ NamedHosts(x, page) =
               [RenamedHosts(x, c) EXCEPT ![page.nodename] = c]
      BY DEF NamedHosts
    <3>2. DOMAIN RenamedHosts(x, c) = Host
      BY DEF RenamedHosts
    <3> QED
      BY <1>1, <2>3, <2>4, <3>1, <3>2
  <2> QED
    BY <2>5, <2>6
<1> QED
  BY <1>2, <1>3, <1>4
     DEF Next, MainLoop, Caller, Finished, DnsStep, HostStep, CountryStep, vars,
         AddHost, Wait, Terminate, ReceiveRequest, SkipHost, StartLookup,
         RejectName, QueryFailed, SendRequest, ReceiveCountry, FinishResult

(* The considered names only change in StartLookup; running lookups only   *)
(* there and when their result is received.                                *)
LEMMA LookupStep ==
  ASSUME WorkInOnePlace, [Next]_vars
  PROVE  \/ UNCHANGED <<considering, lookups>>
         \/ /\ StartLookup /\ Head(request.hostnames) \notin considering
            /\ considering' = considering \cup {Head(request.hostnames)}
            /\ lookups' = lookups \cup {Head(request.hostnames)}
         \/ \E h \in lookups : ReceiveDns(h)
BY DEF Next, MainLoop, Caller, Finished, DnsStep, HostStep, CountryStep, vars,
       workers, AddHost, Wait, Terminate, ReceiveRequest, SkipHost, StartLookup,
       Skip, RejectName, AliasByAddress, NewHost, QueryFailed, QuerySucceeded,
       ReceiveHost, SendRequest, ReceiveCountry, FinishResult

(* A fetch is started by NewHost only.                                     *)
LEMMA FetchStep ==
  ASSUME [Next]_vars, NEW h \in fetches' \ fetches
  PROVE  h \in lookups /\ \E ips \in Lookup[h] : NewHost(h, ips)
<1>1. ASSUME NEW x \in lookups, NEW ips \in Lookup[x], NewHost(x, ips)
      PROVE  h \in lookups /\ \E ips2 \in Lookup[h] : NewHost(h, ips2)
  <2>1. h = x
    BY <1>1 DEF NewHost
  <2> QED
    BY <1>1, <2>1
<1>2. CASE HostStep
  BY <1>2 DEF HostStep, QueryFailed, QuerySucceeded, ReceiveHost
<1>3. CASE fetches' = fetches
  BY <1>3
<1> QED
  BY <1>1, <1>2, <1>3
     DEF Next, MainLoop, Caller, Finished, DnsStep, CountryStep, vars, workers,
         AddHost, Wait, Terminate, ReceiveRequest, SkipHost, StartLookup,
         RejectName, AliasByAddress, SendRequest, ReceiveCountry, FinishResult

(* Every name a lookup was started for ends up with an outcome.            *)
THEOREM EveryNameAccountedFor == Spec => []NoNameLost
<1>1. Init => NoNameLost
  BY DEF Init, NoNameLost
<1>2. TypeOK /\ WorkInOnePlace /\ NoNameLost /\ [Next]_vars => NoNameLost'
  <2> SUFFICES ASSUME TypeOK, WorkInOnePlace, NoNameLost, [Next]_vars,
                      NEW h \in considering'
               PROVE  \/ h \in lookups' \/ h \in badDNS'
                      \/ knownHosts'[h] # Absent
    BY DEF NoNameLost
  <2>1. badDNS \subseteq badDNS'
    BY DEF Next, MainLoop, Caller, Finished, DnsStep, HostStep, CountryStep,
           vars, AddHost, Wait, Terminate, ReceiveRequest, SkipHost,
           StartLookup, RejectName, AliasByAddress, NewHost, QueryFailed,
           QuerySucceeded, ReceiveHost, SendRequest, ReceiveCountry,
           FinishResult
  <2>2. CASE UNCHANGED <<considering, lookups>>
    BY <2>1, <2>2, KnownStaysKnown DEF NoNameLost, TypeOK
  <2>3. CASE /\ StartLookup
             /\ considering' = considering \cup {Head(request.hostnames)}
             /\ lookups' = lookups \cup {Head(request.hostnames)}
    BY <2>1, <2>3, KnownStaysKnown DEF NoNameLost, TypeOK
  <2>4. CASE \E x \in lookups : ReceiveDns(x)
    <3>1. PICK x \in lookups : ReceiveDns(x)
      BY <2>4
    <3>2. considering' = considering /\ lookups' = lookups \ {x}
      BY <3>1 DEF ReceiveDns
    <3>3. CASE h # x
      BY <2>1, <3>2, <3>3, KnownStaysKnown DEF NoNameLost, TypeOK
    <3>4. CASE h = x
      <4>1. \/ \E ips \in Lookup[x] :
                 \/ RejectName(x, ips)
                 \/ \E ip \in ips : AliasByAddress(x, ips, ip)
                 \/ NewHost(x, ips)
        <5>1. x \in lookups /\ x \notin lookups'
          BY <3>1, <3>2
        <5>2. DnsStep
          BY <5>1
             DEF Next, MainLoop, Caller, Finished, HostStep, CountryStep, vars,
                 workers, AddHost, Wait, Terminate, ReceiveRequest, SkipHost,
                 StartLookup, QueryFailed, QuerySucceeded, ReceiveHost,
                 SendRequest, ReceiveCountry, FinishResult
        <5>3. PICK y \in lookups : \E ips \in Lookup[y] :
                \/ RejectName(y, ips)
                \/ \E ip \in ips : AliasByAddress(y, ips, ip)
                \/ NewHost(y, ips)
          BY <5>2 DEF DnsStep
        <5>4. lookups' = lookups \ {y}
          BY <5>3 DEF RejectName, AliasByAddress, NewHost, ReceiveDns
        <5>5. y = x
          BY <5>1, <5>4
        <5> QED
          BY <5>3, <5>5
      <4>2. x \in Host /\ knownHosts \in [Host -> Host \cup {Absent}]
            /\ Absent \notin Host
        BY SpiderAssumption DEF TypeOK
      <4> QED
        BY <3>4, <4>1, <4>2 DEF RejectName, AliasByAddress, NewHost
    <3> QED
      BY <3>3, <3>4
  <2> QED
    BY <2>2, <2>3, <2>4, LookupStep
<1> QED
  BY <1>1, <1>2, TypeCorrect, OnePlace, PTL DEF Spec

(* No name is looked up or fetched twice, however often peers list it.     *)
THEOREM NoNameQueriedTwice == Spec => QueriedOnce
<1>1. WorkInOnePlace /\ [Next]_vars =>
        [/\ \A h \in considering \ lookups : h \notin lookups'
         /\ \A h \in fetches' \ fetches : h \in lookups \ lookups']_vars
  <2> SUFFICES ASSUME WorkInOnePlace, [Next]_vars
               PROVE  /\ \A h \in considering \ lookups : h \notin lookups'
                      /\ \A h \in fetches' \ fetches : h \in lookups \ lookups'
    OBVIOUS
  <2>1. \A h \in considering \ lookups : h \notin lookups'
    BY LookupStep DEF ReceiveDns
  <2>2. \A h \in fetches' \ fetches : h \in lookups \ lookups'
    BY FetchStep DEF NewHost, ReceiveDns
  <2> QED
    BY <2>1, <2>2
<1> QED
  BY <1>1, OnePlace, PTL DEF Spec, QueriedOnce

(* No two fetches go to names that share an address.                       *)
THEOREM NoAddressFetchedTwice == Spec => DedupedByAddress
<1>1. TypeOK /\ WorkInOnePlace /\ [Next]_vars =>
        [/\ \A h \in fetches' \ fetches : \A ip \in IP :
               ip \in ipsForHost'[h] => knownIPs[ip] = Absent
         /\ \A ip \in IP : knownIPs[ip] # Absent => knownIPs'[ip] # Absent]_vars
  <2> SUFFICES ASSUME TypeOK, WorkInOnePlace, [Next]_vars
               PROVE  /\ \A h \in fetches' \ fetches : \A ip \in IP :
                            ip \in ipsForHost'[h] => knownIPs[ip] = Absent
                      /\ \A ip \in IP :
                            knownIPs[ip] # Absent => knownIPs'[ip] # Absent
    OBVIOUS
  <2>1. ASSUME NEW h \in fetches' \ fetches, NEW ip \in ipsForHost'[h]
        PROVE  knownIPs[ip] = Absent
    <3>1. h \in lookups /\ \E ips \in Lookup[h] : NewHost(h, ips)
      BY <2>1, FetchStep
    <3>2. h \in Host /\ ipsForHost \in [Host -> SUBSET IP]
      BY <3>1 DEF TypeOK
    <3>3. PICK ips \in Lookup[h] : NewHost(h, ips)
      BY <3>1
    <3>4. ipsForHost'[h] = ips
      BY <3>2, <3>3 DEF NewHost
    <3> QED
      BY <2>1, <3>3, <3>4 DEF NewHost, Fresh
  <2>2. ASSUME NEW ip \in IP, knownIPs[ip] # Absent
        PROVE  knownIPs'[ip] # Absent
    <3>1. knownIPs \in [IP -> Host \cup {Absent}] /\ Absent \notin Host
      BY SpiderAssumption DEF TypeOK
    <3>2. ASSUME NEW x \in lookups, NEW ips \in Lookup[x], NEW i \in ips,
                 AliasByAddress(x, ips, i)
          PROVE  knownIPs'[ip] # Absent
      BY <2>2, <3>1, <3>2 DEF AliasByAddress
    <3>3. ASSUME NEW x \in lookups, NEW ips \in Lookup[x], NewHost(x, ips)
          PROVE  knownIPs'[ip] # Absent
      BY <2>2, <3>1, <3>3 DEF NewHost, TypeOK
    <3>4. ASSUME NEW x \in fetches, NEW page \in Page[x] \ {Absent},
                 QuerySucceeded(x, page)
          PROVE  knownIPs'[ip] # Absent
      <4>1. Canonical(x, page) \in Host
        <5>1. x \in Host
          BY DEF TypeOK
        <5>2. page \in Reply
          BY <5>1, SpiderAssumption
        <5> QED
          BY <5>1, <5>2, CanonicalType
      <4> QED
        BY <2>2, <3>1, <3>4, <4>1 DEF QuerySucceeded, Rename
    <3> QED
      BY <2>2, <3>2, <3>3, <3>4
         DEF Next, MainLoop, Caller, Finished, DnsStep, HostStep, CountryStep,
             vars, directory, AddHost, Wait, Terminate, ReceiveRequest, SkipHost,
             StartLookup, RejectName, QueryFailed, SendRequest, ReceiveCountry,
             FinishResult
  <2> QED
    BY <2>1, <2>2
<1> QED
  BY <1>1, TypeCorrect, OnePlace, PTL DEF Spec, DedupedByAddress

-----------------------------------------------------------------------------
(* The counter of one name.                                                *)

(* The places of a channel that hold a given name.                         *)
PlacesOf(q, h) == {p \in Places(q) : q[p[1]].hostnames[p[2]] = h}

LEMMA PlacesOfFinite ==
  ASSUME NEW q \in Seq(Request), NEW h
  PROVE  IsFiniteSet(PlacesOf(q, h)) /\ Cardinality(PlacesOf(q, h)) \in Nat
BY PlacesFinite, FS_Subset, FS_CardinalityType DEF PlacesOf

LEMMA PlacesOfMember ==
  ASSUME NEW q \in Seq(Request), NEW h, NEW x
  PROVE  x \in PlacesOf(q, h) <=>
           \E i \in 1 .. Len(q) : \E j \in 1 .. Len(q[i].hostnames) :
             x = <<i, j>> /\ q[i].hostnames[j] = h
BY PlacesMember DEF PlacesOf

(* Those of them that belong to a request s which is the i-th in line.     *)
Slice(i, s, h) == {<<i, j>> : j \in {k \in 1 .. Len(s) : s[k] = h}}

LEMMA SliceOf ==
  ASSUME NEW s \in Seq(Host), NEW h, NEW i
  PROVE  /\ IsFiniteSet(Slice(i, s, h))
         /\ Cardinality(Slice(i, s, h)) = Occurrences(s, h)
         /\ Occurrences(s, h) \in Nat
<1> DEFINE here  == {k \in 1 .. Len(s) : s[k] = h}
           slice == {<<i, j>> : j \in here}
           f     == [j \in here |-> <<i, j>>]
<1>1. Occurrences(s, h) = Cardinality(here) /\ Occurrences(s, h) \in Nat
  <2>1. {k \in DOMAIN s : s[k] = h} = here
    OBVIOUS
  <2> HIDE DEF here
  <2> QED
    BY <2>1, OccurrencesType DEF Occurrences
<1>2. IsFiniteSet(here)
  BY FS_Interval, FS_Subset
<1>3. f \in Bijection(here, slice)
  <2>1. f \in [here -> slice]
    OBVIOUS
  <2>2. \A j, k \in here : f[j] = f[k] => j = k
    OBVIOUS
  <2>3. \A x \in slice : \E j \in here : f[j] = x
    OBVIOUS
  <2> HIDE DEF f, slice, here
  <2> QED
    BY <2>1, <2>2, <2>3, Fun_IsBij
<1> HIDE DEF f, slice, here
<1>4. IsFiniteSet(slice) /\ Cardinality(slice) = Cardinality(here)
  BY <1>2, <1>3, FS_Bijection DEF ExistsBijection
<1> QED
  BY <1>1, <1>4 DEF Slice, slice, here

(* Sending a request adds its occurrences of the name.                     *)
LEMMA PlacesOfAppend ==
  ASSUME NEW q \in Seq(Request), NEW r \in Request, NEW h
  PROVE  Cardinality(PlacesOf(Append(q, r), h)) =
           Cardinality(PlacesOf(q, h)) + Occurrences(r.hostnames, h)
<1> DEFINE new == Slice(Len(q) + 1, r.hostnames, h)
<1>1. Append(q, r) \in Seq(Request) /\ Len(Append(q, r)) = Len(q) + 1
      /\ \A i \in 1 .. Len(q) : Append(q, r)[i] = q[i]
      /\ Append(q, r)[Len(q) + 1] = r
  BY AppendProperties
<1>2. r.hostnames \in Seq(Host)
  BY DEF Request
<1>3. IsFiniteSet(new) /\ Cardinality(new) = Occurrences(r.hostnames, h)
      /\ Occurrences(r.hostnames, h) \in Nat
  BY <1>2, SliceOf
<1>4. ASSUME NEW x
      PROVE  x \in PlacesOf(Append(q, r), h) <=> x \in PlacesOf(q, h) \/ x \in new
  <2>1. 1 .. Len(q) + 1 = 1 .. Len(q) \cup {Len(q) + 1}
    BY LenProperties
  <2>2. x \in PlacesOf(Append(q, r), h) <=>
          \E i \in 1 .. Len(q) + 1 :
            \E j \in 1 .. Len(Append(q, r)[i].hostnames) :
              x = <<i, j>> /\ Append(q, r)[i].hostnames[j] = h
    <3> DEFINE longer == Append(q, r)
    <3>1. longer \in Seq(Request) /\ Len(longer) = Len(q) + 1
      BY <1>1
    <3> HIDE DEF longer
    <3>2. x \in PlacesOf(longer, h) <=>
            \E i \in 1 .. Len(longer) : \E j \in 1 .. Len(longer[i].hostnames) :
              x = <<i, j>> /\ longer[i].hostnames[j] = h
      BY <3>1, PlacesOfMember
    <3> QED
      BY <3>1, <3>2 DEF longer
  <2>3. x \in PlacesOf(q, h) <=>
          \E i \in 1 .. Len(q) : \E j \in 1 .. Len(q[i].hostnames) :
            x = <<i, j>> /\ q[i].hostnames[j] = h
    BY PlacesOfMember
  <2> QED
    BY <1>1, <2>1, <2>2, <2>3 DEF Slice
<1>5. PlacesOf(Append(q, r), h) = PlacesOf(q, h) \cup new
  BY <1>4
<1>6. PlacesOf(q, h) \cap new = {}
  BY PlacesOfMember DEF Slice
<1> HIDE DEF new
<1>7. Cardinality(PlacesOf(q, h) \cup new) =
        Cardinality(PlacesOf(q, h)) + Cardinality(new) - Cardinality({})
  BY <1>3, <1>6, PlacesOfFinite, FS_Union
<1> QED
  BY <1>3, <1>5, <1>7, PlacesOfFinite, FS_EmptySet

(* Receiving a request removes them.                                       *)
LEMMA PlacesOfTail ==
  ASSUME NEW q \in Seq(Request), q # <<>>, NEW h
  PROVE  Cardinality(PlacesOf(q, h)) =
           Cardinality(PlacesOf(Tail(q), h)) + Occurrences(Head(q).hostnames, h)
<1> DEFINE names   == Head(q).hostnames
           first   == Slice(1, names, h)
           up(p)   == <<p[1] + 1, p[2]>>
           rest    == PlacesOf(Tail(q), h)
           shifted == {up(p) : p \in rest}
           f       == [p \in rest |-> up(p)]
<1>1. Head(q) \in Request /\ Tail(q) \in Seq(Request)
      /\ Len(Tail(q)) = Len(q) - 1 /\ Head(q) = q[1] /\ Len(q) \in Nat \ {0}
      /\ \A i \in 1 .. Len(Tail(q)) : Tail(q)[i] = q[i + 1]
  BY HeadTailProperties
<1>2. names \in Seq(Host)
  BY <1>1 DEF Request
<1>3. ASSUME NEW x
      PROVE  x \in rest <=>
               \E i \in 1 .. Len(q) - 1 : \E j \in 1 .. Len(q[i + 1].hostnames) :
                 x = <<i, j>> /\ q[i + 1].hostnames[j] = h
  <2> DEFINE shorter == Tail(q)
  <2>1. shorter \in Seq(Request) /\ Len(shorter) = Len(q) - 1
        /\ \A i \in 1 .. Len(q) - 1 : shorter[i] = q[i + 1]
    BY <1>1
  <2> HIDE DEF shorter
  <2>2. x \in PlacesOf(shorter, h) <=>
          \E i \in 1 .. Len(shorter) : \E j \in 1 .. Len(shorter[i].hostnames) :
            x = <<i, j>> /\ shorter[i].hostnames[j] = h
    BY <2>1, PlacesOfMember
  <2>3. x \in PlacesOf(shorter, h) <=>
          \E i \in 1 .. Len(q) - 1 : \E j \in 1 .. Len(q[i + 1].hostnames) :
            x = <<i, j>> /\ q[i + 1].hostnames[j] = h
    BY <2>1, <2>2
  <2> QED
    BY <2>3 DEF shorter
<1>4. \A p \in rest : p = <<p[1], p[2]>> /\ p[1] \in Nat \ {0}
  BY <1>3
<1>5. PlacesOf(q, h) = first \cup shifted
  <2>1. ASSUME NEW x \in PlacesOf(q, h) PROVE x \in first \cup shifted
    <3>0. PICK i \in 1 .. Len(q) : \E j \in 1 .. Len(q[i].hostnames) :
            x = <<i, j>> /\ q[i].hostnames[j] = h
      BY PlacesOfMember
    <3>1. PICK j \in 1 .. Len(q[i].hostnames) :
            x = <<i, j>> /\ q[i].hostnames[j] = h
      BY <3>0
    <3>2. CASE i = 1
      BY <1>1, <3>1, <3>2 DEF Slice
    <3>3. CASE i # 1
      <4>1. i - 1 \in 1 .. Len(q) - 1 /\ (i - 1) + 1 = i
        BY <1>1, <3>3
      <4>2. <<i - 1, j>> \in rest
        BY <1>3, <3>1, <4>1
      <4>3. up(<<i - 1, j>>) = x
        BY <3>1
      <4> QED
        BY <4>2, <4>3
    <3> QED
      BY <3>2, <3>3
  <2>2. first \subseteq PlacesOf(q, h)
    BY <1>1, PlacesOfMember DEF Slice
  <2>3. ASSUME NEW p \in rest PROVE up(p) \in PlacesOf(q, h)
    <3>0. PICK i \in 1 .. Len(q) - 1 : \E j \in 1 .. Len(q[i + 1].hostnames) :
            p = <<i, j>> /\ q[i + 1].hostnames[j] = h
      BY <1>3
    <3>1. PICK j \in 1 .. Len(q[i + 1].hostnames) :
            p = <<i, j>> /\ q[i + 1].hostnames[j] = h
      BY <3>0
    <3>2. up(p) = <<i + 1, j>> /\ i + 1 \in 1 .. Len(q)
      BY <1>1, <3>1
    <3> HIDE DEF up
    <3> QED
      BY <3>1, <3>2, PlacesOfMember
  <2> QED
    BY <2>1, <2>2, <2>3
<1>6. first \cap shifted = {}
  BY <1>4 DEF Slice
<1>7. f \in Bijection(rest, shifted)
  <2>1. f \in [rest -> shifted]
    OBVIOUS
  <2>2. ASSUME NEW p1 \in rest, NEW p2 \in rest, f[p1] = f[p2]
        PROVE  p1 = p2
    <3>1. up(p1) = up(p2)
      BY <2>2
    <3> QED
      BY <1>4, <3>1
  <2>3. \A x \in shifted : \E p \in rest : f[p] = x
    OBVIOUS
  <2> HIDE DEF f, shifted, rest
  <2> QED
    BY <2>1, <2>2, <2>3, Fun_IsBij
<1>8. IsFiniteSet(rest) /\ Cardinality(rest) \in Nat
  BY <1>1, PlacesOfFinite
<1>9. IsFiniteSet(first) /\ Cardinality(first) = Occurrences(names, h)
      /\ Occurrences(names, h) \in Nat
  <2> HIDE DEF names
  <2> QED
    BY <1>2, SliceOf
<1> HIDE DEF f, first, shifted, rest
<1>10. IsFiniteSet(shifted) /\ Cardinality(shifted) = Cardinality(rest)
  BY <1>7, <1>8, FS_Bijection DEF ExistsBijection
<1>11. Cardinality(first \cup shifted) =
         Cardinality(first) + Cardinality(shifted) - Cardinality({})
  BY <1>6, <1>9, <1>10, FS_Union
<1> QED
  BY <1>5, <1>8, <1>9, <1>10, <1>11, FS_EmptySet DEF rest

(* Taking the first name off a list takes one of its occurrences.          *)
LEMMA OccurrencesTail ==
  ASSUME NEW s \in Seq(Host), s # <<>>, NEW x
  PROVE  Occurrences(s, x) = Occurrences(Tail(s), x) + Once(Head(s) = x)
<1> DEFINE rest    == {i \in 1 .. Len(s) - 1 : s[i + 1] = x}
           shifted == {i + 1 : i \in rest}
           f       == [i \in rest |-> i + 1]
<1>1. Tail(s) \in Seq(Host) /\ Len(Tail(s)) = Len(s) - 1 /\ Head(s) = s[1]
      /\ Len(s) \in Nat \ {0} /\ \A i \in 1 .. Len(Tail(s)) : Tail(s)[i] = s[i + 1]
  BY HeadTailProperties
<1>2. Occurrences(Tail(s), x) = Cardinality(rest) /\ Cardinality(rest) \in Nat
  <2> DEFINE shorter == Tail(s)
  <2>1. {i \in DOMAIN shorter : shorter[i] = x} = rest
    BY <1>1
  <2>2. shorter \in Seq(Host)
    BY <1>1
  <2> HIDE DEF rest, shorter
  <2>3. Occurrences(shorter, x) \in Nat
    BY <2>2, OccurrencesType
  <2>4. Occurrences(shorter, x) = Cardinality(rest)
    BY <2>1 DEF Occurrences
  <2> QED
    BY <2>3, <2>4 DEF shorter
<1>3. IsFiniteSet(rest)
  <2>1. IsFiniteSet(1 .. Len(s) - 1)
    BY <1>1, FS_Interval
  <2> QED
    BY <2>1, FS_Subset
<1>4. f \in Bijection(rest, shifted)
  <2>1. f \in [rest -> shifted]
    OBVIOUS
  <2>2. \A i, j \in rest : f[i] = f[j] => i = j
    OBVIOUS
  <2>3. \A y \in shifted : \E i \in rest : f[i] = y
    OBVIOUS
  <2> HIDE DEF f, shifted, rest
  <2> QED
    BY <2>1, <2>2, <2>3, Fun_IsBij
<1>5. {i \in DOMAIN s : s[i] = x} = IF Head(s) = x THEN shifted \cup {1} ELSE shifted
  <2>1. ASSUME NEW i \in DOMAIN s, s[i] = x, i # 1 PROVE i \in shifted
    <3>1. i - 1 \in rest /\ i = (i - 1) + 1
      BY <1>1, <2>1
    <3> QED
      BY <3>1
  <2>2. \A i \in shifted : i \in DOMAIN s /\ s[i] = x /\ i # 1
    BY <1>1
  <2> HIDE DEF shifted
  <2> QED
    BY <1>1, <2>1, <2>2
<1>6. 1 \notin shifted
  OBVIOUS
<1> HIDE DEF f, shifted, rest
<1>7. IsFiniteSet(shifted) /\ Cardinality(shifted) = Cardinality(rest)
  BY <1>3, <1>4, FS_Bijection DEF ExistsBijection
<1>8. Cardinality(shifted \cup {1}) = Cardinality(shifted) + 1
  BY <1>6, <1>7, FS_AddElement
<1>9. Occurrences(s, x) = IF Head(s) = x THEN Cardinality(shifted \cup {1})
                          ELSE Cardinality(shifted)
  BY <1>5 DEF Occurrences
<1> QED
  BY <1>2, <1>7, <1>8, <1>9 DEF Once

LEMMA OccurrencesEmpty == \A x : Occurrences(<<>>, x) = 0
BY FS_EmptySet DEF Occurrences

(* The result in hand counts for the name it is about; between results the *)
(* loop's hands are empty.                                                 *)
InHand(x) == Once(handling.kind \in {"dns", "host"} /\ handling.of = x)

Idling == pc \notin {"send", "finish"} => handling = Idle

LEMMA NextIdling ==
  ASSUME TypeOK, WorkInOnePlace, Idling, [Next]_vars
  PROVE  Idling'
<1> USE DEF Idling
<1>1. CASE ReceiveRequest
  BY <1>1, RemainingType DEF ReceiveRequest, TypeOK
<1>2. ASSUME NextName, UNCHANGED handling
      PROVE  Idling'
  BY <1>2 DEF NextName
<1>3. CASE SkipHost \/ StartLookup
  BY <1>2, <1>3 DEF SkipHost, StartLookup
<1>4. ASSUME NEW h \in lookups, ReceiveDns(h)
      PROVE  Idling'
  BY <1>4 DEF ReceiveDns
<1>5. CASE DnsStep
  BY <1>4, <1>5 DEF DnsStep, RejectName, AliasByAddress, NewHost
<1>6. ASSUME NEW h \in fetches, QueryFailed(h)
      PROVE  Idling'
  BY <1>6 DEF QueryFailed
<1>7. ASSUME NEW h \in fetches, NEW page \in Page[h] \ {Absent},
             QuerySucceeded(h, page)
      PROVE  Idling'
  BY <1>7 DEF QuerySucceeded, BatchAddHost
<1>8. CASE AddHost \/ Wait \/ Terminate \/ SendRequest \/ FinishResult
           \/ CountryStep \/ UNCHANGED vars
  BY <1>8 DEF AddHost, Wait, Terminate, SendRequest, FinishResult, CountryStep,
              ReceiveCountry, vars, control
<1> QED
  BY <1>1, <1>3, <1>5, <1>6, <1>7, <1>8
     DEF Next, MainLoop, Caller, Finished, HostStep

(* The terms of a name's count are numbers.                                *)
LEMMA TermsType ==
  ASSUME NEW q \in Seq(Request), NEW r \in Request, NEW x
  PROVE  /\ Cardinality(PlacesOf(q, x)) \in Nat
         /\ Occurrences(r.hostnames, x) \in Nat
<1>1. r.hostnames \in Seq(Host)
  BY DEF Request
<1> QED
  BY <1>1, PlacesOfFinite, OccurrencesType

LEMMA OnceType == \A b : Once(b) \in {0, 1} /\ Once(b) \in Nat
BY DEF Once

(* A step moves a name's unit of work, or adds or drops one together with  *)
(* the count.                                                              *)
LEMMA NextPendingHosts ==
  ASSUME TypeOK, TypeOK', WorkInOnePlace, Idling, PendingHostsExact, [Next]_vars
  PROVE  PendingHostsExact'
<1> SUFFICES ASSUME NEW x \in Host
             PROVE  pendingHosts'[x] = OutstandingFor(x)'
  BY DEF PendingHostsExact
<1> DEFINE q == Cardinality(PlacesOf(queue, x))
           n == Occurrences(request.hostnames, x)
           l == Once(x \in lookups)
           f == Once(x \in fetches)
           u == InHand(x)
           c == pendingHosts[x]
<1> USE DEF control, workers, counters
<1>1. c = q + n + l + f + u
  BY DEF PendingHostsExact, OutstandingFor, PlacesOf, Queued, InHand
<1>2. SUFFICES c' = q' + n' + l' + f' + u'
  BY DEF OutstandingFor, PlacesOf, Queued, InHand
<1>3. /\ q \in Nat /\ n \in Nat /\ l \in Nat /\ f \in Nat /\ u \in Nat
      /\ c \in Int
  BY TermsType, OnceType DEF TypeOK, InHand
<1>4. /\ queue \in Seq(Request) /\ request \in Request
      /\ request.hostnames \in Seq(Host)
      /\ lookups \in SUBSET Host /\ fetches \in SUBSET Host
      /\ pendingHosts \in [Host -> Int]
  BY DEF TypeOK, Request
<1>5. pc \notin {"send", "finish"} => u = 0
  BY DEF Idling, InHand, Once, Idle
<1>6. q' \in Nat /\ n' \in Nat /\ l' \in Nat /\ f' \in Nat /\ u' \in Nat
  BY TermsType, OnceType DEF TypeOK, InHand
<1>7. \A b : Once(b) \in Nat
  BY OnceType
<1>8. CASE AddHost
  <2> DEFINE r == [hostnames |-> <<StartHost>>, origin |-> Absent, distance |-> 0]
  <2>1. r \in Request /\ r.hostnames = <<StartHost>> /\ <<StartHost>> \in Seq(Host)
    BY SpiderAssumption DEF Request
  <2>2. Occurrences(<<StartHost>>, x) = Once(x = StartHost)
    <3>1. Occurrences(<<StartHost>>, x) =
            Occurrences(Tail(<<StartHost>>), x) + Once(Head(<<StartHost>>) = x)
      BY <2>1, OccurrencesTail
    <3>2. Tail(<<StartHost>>) = <<>> /\ Head(<<StartHost>>) = StartHost
      OBVIOUS
    <3> QED
      BY <3>1, <3>2, OccurrencesEmpty DEF Once
  <2>3. queue' = Append(queue, r)
    BY <1>8 DEF AddHost
  <2>4. q' = q + Once(x = StartHost)
    BY <1>4, <2>1, <2>2, <2>3, PlacesOfAppend
  <2>5. c' = c + Once(x = StartHost) /\ Once(x = StartHost) \in {0, 1}
    BY <1>4, <1>8, SpiderAssumption DEF AddHost, Once
  <2>6. n' = n /\ l' = l /\ f' = f /\ u' = u
    BY <1>8 DEF AddHost, InHand
  <2> HIDE DEF q, n, l, f, u, c
  <2> QED
    BY <1>1, <1>3, <2>4, <2>5, <2>6
<1>9. CASE Wait \/ Terminate
  BY <1>1, <1>9 DEF Wait, Terminate, InHand
<1>10. CASE ReceiveRequest
  <2>1. Head(queue) \in Request /\ queue # <<>> /\ Tail(queue) \in Seq(Request)
    BY <1>4, <1>10 DEF ReceiveRequest
  <2>2. q = q' + Occurrences(Head(queue).hostnames, x)
    BY <1>4, <1>10, <2>1, PlacesOfTail DEF ReceiveRequest
  <2>3. n' = Occurrences(Head(queue).hostnames, x)
    BY <1>10 DEF ReceiveRequest, Remaining, NoRequest
  <2>4. n = 0
    BY <1>10, OccurrencesEmpty DEF ReceiveRequest, WorkInOnePlace
  <2>6. l' = l /\ f' = f /\ u' = u /\ c' = c
    BY <1>10 DEF ReceiveRequest, InHand
  <2> HIDE DEF q, n, l, f, u, c
  <2> QED
    BY <1>1, <1>3, <1>6, <2>2, <2>3, <2>4, <2>6
<1>11. ASSUME NextName
      PROVE  n = n' + Once(Head(request.hostnames) = x)
  <2>1. request.hostnames # <<>>
    BY <1>11 DEF NextName, WorkInOnePlace
  <2>2. Occurrences(request.hostnames, x) =
          Occurrences(Tail(request.hostnames), x)
          + Once(Head(request.hostnames) = x)
    BY <1>4, <2>1, OccurrencesTail
  <2>3. Rest(request).hostnames = Tail(request.hostnames)
    BY <1>4 DEF Rest, Request
  <2>4. request'.hostnames = Tail(request.hostnames)
    BY <1>11, <2>3 DEF NextName, Remaining, NoRequest
  <2> QED
    BY <2>2, <2>4
<1>12. CASE SkipHost
  <2>1. n = n' + Once(Head(request.hostnames) = x)
    BY <1>11, <1>12 DEF SkipHost
  <2>2. c' = c - Once(Head(request.hostnames) = x)
    BY <1>4, <1>12 DEF SkipHost, Once
  <2>3. q' = q /\ l' = l /\ f' = f /\ u' = u
    BY <1>12 DEF SkipHost, InHand
  <2> HIDE DEF q, n, l, f, u, c
  <2> QED
    BY <1>1, <1>3, <1>6, <1>7, <2>1, <2>2, <2>3
<1>13. CASE StartLookup
  <2>1. n = n' + Once(Head(request.hostnames) = x)
    BY <1>11, <1>13 DEF StartLookup
  <2>2. l' = l + Once(Head(request.hostnames) = x)
    BY <1>13 DEF StartLookup, Skip, WorkInOnePlace, Once
  <2>3. q' = q /\ f' = f /\ u' = u /\ c' = c
    BY <1>13 DEF StartLookup, InHand
  <2> HIDE DEF q, n, l, f, u, c
  <2> QED
    BY <1>1, <1>3, <1>6, <1>7, <2>1, <2>2, <2>3
<1>14. ASSUME NEW h \in lookups, ReceiveDns(h)
       PROVE  u = 0 /\ l = l' + u' /\ q' = q /\ n' = n
  <2>1. u = 0
    BY <1>5, <1>14 DEF ReceiveDns
  <2>2. u' = Once(h = x)
    BY <1>14 DEF ReceiveDns, InHand, Once
  <2>3. l = l' + Once(h = x)
    BY <1>14 DEF ReceiveDns, Once
  <2>4. q' = q /\ n' = n
    BY <1>14 DEF ReceiveDns
  <2> QED
    BY <2>1, <2>2, <2>3, <2>4
<1>15. ASSUME NEW h \in lookups, NEW ips \in Lookup[h],
              \/ RejectName(h, ips)
              \/ \E ip \in ips : AliasByAddress(h, ips, ip)
       PROVE  c' = q' + n' + l' + f' + u'
  <2>1. c' = c /\ f' = f
    BY <1>15 DEF RejectName, AliasByAddress
  <2>2. u = 0 /\ l = l' + u' /\ q' = q /\ n' = n
    BY <1>14, <1>15 DEF RejectName, AliasByAddress
  <2> HIDE DEF q, n, l, f, u, c
  <2> QED
    BY <1>1, <1>3, <1>6, <2>1, <2>2
<1>16. ASSUME NEW h \in lookups, NEW ips \in Lookup[h], NewHost(h, ips)
       PROVE  c' = q' + n' + l' + f' + u'
  <2>1. c' = c + Once(h = x)
    BY <1>4, <1>16 DEF NewHost, Once
  <2>2. f' = f + Once(h = x)
    BY <1>16 DEF NewHost, WorkInOnePlace, Once
  <2>3. u = 0 /\ l = l' + u' /\ q' = q /\ n' = n
    BY <1>14, <1>16 DEF NewHost
  <2> HIDE DEF q, n, l, f, u, c
  <2> QED
    BY <1>1, <1>3, <1>6, <1>7, <2>1, <2>2, <2>3
<1>17. ASSUME NEW h \in fetches, ReceiveHost(h)
       PROVE  u = 0 /\ f = f' + u' /\ q' = q /\ l' = l /\ n = 0
  <2>1. u = 0
    BY <1>5, <1>17 DEF ReceiveHost
  <2>2. u' = Once(h = x)
    BY <1>17 DEF ReceiveHost, InHand, Once
  <2>3. f = f' + Once(h = x)
    BY <1>17 DEF ReceiveHost, Once
  <2>4. q' = q /\ l' = l
    BY <1>17 DEF ReceiveHost
  <2>5. n = 0
    BY <1>17, OccurrencesEmpty DEF ReceiveHost, WorkInOnePlace
  <2> QED
    BY <2>1, <2>2, <2>3, <2>4, <2>5
<1>18. ASSUME NEW h \in fetches, QueryFailed(h)
       PROVE  c' = q' + n' + l' + f' + u'
  <2>1. c' = c /\ n' = n
    BY <1>18 DEF QueryFailed
  <2>2. u = 0 /\ f = f' + u' /\ q' = q /\ l' = l
    BY <1>17, <1>18 DEF QueryFailed
  <2> HIDE DEF q, n, l, f, u, c
  <2> QED
    BY <1>1, <1>3, <1>6, <2>1, <2>2
<1>19. ASSUME NEW h \in fetches, NEW page \in Page[h] \ {Absent},
              QuerySucceeded(h, page)
       PROVE  c' = q' + n' + l' + f' + u'
  <2>1. c' = c + Occurrences(page.peers, x)
    BY <1>19 DEF QuerySucceeded, BatchAddHost
  <2>2. n' = Occurrences(page.peers, x)
    BY <1>19 DEF QuerySucceeded, BatchAddHost
  <2>3. u = 0 /\ f = f' + u' /\ q' = q /\ l' = l /\ n = 0
    BY <1>17, <1>19 DEF QuerySucceeded
  <2> HIDE DEF q, n, l, f, u, c
  <2> QED
    BY <1>1, <1>3, <1>6, <2>1, <2>2, <2>3
<1>20. CASE SendRequest
  <2>1. q' = q + n
    BY <1>4, <1>20, PlacesOfAppend DEF SendRequest
  <2>2. n' = 0
    BY <1>20, OccurrencesEmpty DEF SendRequest, NoRequest
  <2>3. l' = l /\ f' = f /\ u' = u /\ c' = c
    BY <1>20 DEF SendRequest, InHand
  <2> HIDE DEF q, n, l, f, u, c
  <2> QED
    BY <1>1, <1>3, <2>1, <2>2, <2>3
<1>21. ASSUME NEW ip \in geoQueries, NEW answer \in {"found", "error"},
              ReceiveCountry(ip, answer)
       PROVE  c' = q' + n' + l' + f' + u'
  <2>1. u = 0 /\ u' = 0
    BY <1>5, <1>21 DEF ReceiveCountry, InHand, Once
  <2>2. q' = q /\ n' = n /\ l' = l /\ f' = f /\ c' = c
    BY <1>21 DEF ReceiveCountry
  <2> HIDE DEF q, n, l, f, u, c
  <2> QED
    BY <1>1, <2>1, <2>2
<1>22. CASE FinishResult
  <2>1. u' = 0
    BY <1>22 DEF FinishResult, InHand, Idle, Once
  <2>2. c' = c - u
    <3>1. CASE handling.kind = "country"
      BY <1>3, <1>22, <3>1 DEF FinishResult, InHand, Once
    <3>2. CASE handling.kind # "country"
      <4>1. pendingHosts' = [pendingHosts EXCEPT ![handling.of] = @ - 1]
        BY <1>22, <3>2 DEF FinishResult
      <4>2. handling.kind \in {"dns", "host"} \/ handling = Idle
        BY <3>2 DEF TypeOK
      <4>3. x # Absent
        BY SpiderAssumption
      <4> QED
        BY <1>4, <4>1, <4>2, <4>3 DEF InHand, Once, Idle
    <3> QED
      BY <3>1, <3>2
  <2>3. q' = q /\ n' = n /\ l' = l /\ f' = f
    BY <1>22 DEF FinishResult
  <2> HIDE DEF q, n, l, f, u, c
  <2> QED
    BY <1>1, <1>3, <2>1, <2>2, <2>3
<1>23. CASE UNCHANGED vars
  BY <1>1, <1>23 DEF vars, InHand
<1> HIDE DEF q, n, l, f, u, c
<1> QED
  BY <1>8, <1>9, <1>10, <1>12, <1>13, <1>15, <1>16, <1>18, <1>19, <1>20, <1>21,
     <1>22, <1>23
     DEF Next, MainLoop, Caller, Finished, DnsStep, HostStep, CountryStep

(* The counter of each name, which /scanstatusz shows while a crawl hangs, *)
(* is at every moment the number of that name's units of work: AddHost and *)
(* BatchAddHost count before they send, considerHost and the ends of the   *)
(* result cases take back, and nothing else touches it.                    *)
THEOREM PendingHostsCounted == Spec => []PendingHostsExact
<1>1. Init => Idling /\ PendingHostsExact
  <2> SUFFICES ASSUME Init PROVE Idling /\ PendingHostsExact
    OBVIOUS
  <2>1. ASSUME NEW x \in Host
        PROVE  pendingHosts[x] = OutstandingFor(x)
    <3>1. Queued = {}
      BY PlacesEmpty DEF Init, Queued
    <3>2. Cardinality({p \in Queued : queue[p[1]].hostnames[p[2]] = x}) = 0
      BY <3>1, FS_EmptySet
    <3>3. Occurrences(request.hostnames, x) = 0
      BY OccurrencesEmpty DEF Init, NoRequest
    <3>4. Once(x \in lookups) = 0 /\ Once(x \in fetches) = 0
          /\ Once(handling.kind \in {"dns", "host"} /\ handling.of = x) = 0
      BY DEF Init, Once, Idle
    <3>5. pendingHosts[x] = 0
      BY DEF Init
    <3> QED
      BY <3>2, <3>3, <3>4, <3>5 DEF OutstandingFor
  <2> QED
    BY <2>1 DEF Init, Idling, PendingHostsExact
<1>2. TypeOK /\ TypeOK' /\ WorkInOnePlace /\ Idling /\ PendingHostsExact
      /\ [Next]_vars => Idling' /\ PendingHostsExact'
  BY NextIdling, NextPendingHosts
<1> QED
  BY <1>1, <1>2, TypeCorrect, OnePlace, PTL DEF Spec

-----------------------------------------------------------------------------
(* The maps of the crawl: what a result is merged into is there, and in a  *)
(* mesh whose servers go by the names they are queried under the maps      *)
(* agree with each other and with the mesh.                                *)

-----------------------------------------------------------------------------
(* Entries that results are merged into, and that are published.           *)

(* A considered name has a distance, and a rename gives one away only with *)
(* the rest of what is published.  With it, the entries of a host in       *)
(* flight and those of a published one keep each other complete.           *)
Distanced ==
  /\ distances \in [Host -> Nat \cup {NoDistance}]
  /\ \A h \in considering : distances[h] # NoDistance

Complete == Distanced /\ InFlightIntact /\ PublishedComplete

-----------------------------------------------------------------------------
(* A mesh whose servers go by the names they are queried under.            *)

(* Names are found through the start host, or through a server whose page  *)
(* has been published.                                                     *)
Sourced(r) ==
  \/ /\ r.origin = Absent /\ r.distance = 0
     /\ \A i \in DOMAIN r.hostnames : r.hostnames[i] = StartHost
  \/ /\ r.origin \in Host /\ Published(r.origin)
     /\ \A i \in DOMAIN r.hostnames : r.hostnames[i] \in Peers(r.origin)

RequestsSourced ==
  /\ Sourced(request)
  /\ \A i \in DOMAIN queue : Sourced(queue[i])

(* Until the start host is known, nothing else is.                         *)
Seeded ==
  knownHosts[StartHost] = Absent =>
    /\ considering \subseteq {StartHost}
    /\ fetches = {}
    /\ \A h \in Host : ~ Published(h)

(* Only a name whose lookup has ended has entries, and only one that is no *)
(* longer being fetched is published.                                      *)
EntriesOnlyAfterLookup ==
  /\ considering \cap Ignored = {}
  /\ \A h \in Host : distances[h] # NoDistance => h \in considering
  /\ \A h \in Host : serverInfos[h] # Absent => h \in considering \ lookups
  /\ \A h \in fetches : serverInfos[h] = Nil
  /\ \A h \in Host :
       knownHosts[h] # Absent => h \in (considering \ lookups) \cup Ignored

(* Names and addresses lead to hosts that server information is kept of.   *)
LeadToServers ==
  /\ \A h \in Host : knownHosts[h] # Absent => serverInfos[knownHosts[h]] # Absent
  /\ \A ip \in IP : knownIPs[ip] # Absent => serverInfos[knownIPs[ip]] # Absent

PlainMaps ==
  /\ RequestsSourced /\ Seeded /\ EntriesOnlyAfterLookup /\ LeadToServers
  /\ AddressesAgree /\ DistanceWitnessed

-----------------------------------------------------------------------------
(* Steps that move requests and the caller along leave the maps alone.     *)
LEMMA MapStep ==
  ASSUME [Next]_vars
  PROVE  \/ UNCHANGED <<directory, lookups, fetches, considering, distances>>
         \/ SkipHost \/ StartLookup \/ DnsStep \/ HostStep
BY DEF Next, MainLoop, Caller, Finished, CountryStep, vars, workers, directory,
       AddHost, Wait, Terminate, ReceiveRequest, SendRequest, ReceiveCountry,
       FinishResult

(* A page is a reply, and the name it gives its server a hostname.         *)
LEMMA PageType ==
  ASSUME TypeOK, NEW h \in fetches, NEW page \in Page[h] \ {Absent}
  PROVE  /\ h \in Host /\ page \in Reply /\ Canonical(h, page) \in Host
         /\ page.peers \in Seq(Host) /\ page.nodename \in Host \cup {Absent}
<1>1. h \in Host
  BY DEF TypeOK
<1>2. page \in Reply
  BY <1>1, SpiderAssumption
<1> QED
  BY <1>1, <1>2, CanonicalType DEF Reply

LEMMA InitComplete == Init => Complete
BY SpiderAssumption
   DEF Init, Complete, Distanced, InFlightIntact, PublishedComplete, Node,
       NoDistance

LEMMA NextComplete ==
  ASSUME TypeOK, WorkInOnePlace, Complete, [Next]_vars
  PROVE  Complete'
<1> USE DEF directory, NoDistance
<1>1. /\ aliasesForHost \in [Host -> SUBSET Host]
      /\ ipsForHost \in [Host -> SUBSET IP]
      /\ serverInfos \in [Host -> {Absent, Nil} \cup Node]
      /\ distances \in [Host -> Nat \cup {-1}]
      /\ request \in Request
      /\ lookups \subseteq considering /\ fetches \subseteq considering
      /\ considering \subseteq Host
  BY DEF TypeOK, WorkInOnePlace, Complete, Distanced
<1>2. Absent \notin Node /\ Nil \notin Node /\ Absent # Nil
  BY SpiderAssumption
<1>3. /\ \A h \in considering : distances[h] # -1
      /\ \A h \in fetches : /\ serverInfos[h] # Absent /\ h \in aliasesForHost[h]
                            /\ ipsForHost[h] # {}
      /\ \A c \in Host : serverInfos[c] \in Node =>
           ipsForHost[c] # {} /\ c \in aliasesForHost[c] /\ distances[c] # -1
  BY DEF Complete, Distanced, InFlightIntact, PublishedComplete
<1>4. CASE UNCHANGED <<directory, lookups, fetches, considering, distances>>
  BY <1>1, <1>3, <1>4
     DEF Complete, Distanced, InFlightIntact, PublishedComplete
<1>5. RequestDistance(request) \in Nat
  BY <1>1 DEF RequestDistance, Request
<1>6. CASE SkipHost
  <2> DEFINE h == Head(request.hostnames)
  <2>1. distances' \in [Host -> Nat \cup {-1}]
    BY <1>1, <1>5, <1>6 DEF SkipHost
  <2>2. \A x \in Host : distances[x] # -1 => distances'[x] # -1
    BY <1>1, <1>5, <1>6 DEF SkipHost
  <2>3. UNCHANGED <<directory, fetches, considering>>
    BY <1>6 DEF SkipHost, workers
  <2> QED
    BY <1>1, <1>3, <2>1, <2>2, <2>3
       DEF Complete, Distanced, InFlightIntact, PublishedComplete
<1>7. CASE StartLookup
  <2> DEFINE h == Head(request.hostnames)
  <2>0. h \in Host
    BY <1>1, <1>7, RestType DEF StartLookup, NextName, WorkInOnePlace
  <2>1. distances' \in [Host -> Nat \cup {-1}]
    BY <1>1, <1>5, <1>7 DEF StartLookup
  <2>2. \A x \in Host : distances[x] # -1 \/ x = h => distances'[x] # -1
    BY <1>1, <1>5, <1>7, <2>0 DEF StartLookup
  <2>3. UNCHANGED <<directory, fetches>> /\ considering' = considering \cup {h}
    BY <1>7 DEF StartLookup
  <2> QED
    BY <1>1, <1>3, <2>0, <2>1, <2>2, <2>3
       DEF Complete, Distanced, InFlightIntact, PublishedComplete
<1>8. ASSUME NEW h \in lookups, NEW ips \in Lookup[h], RejectName(h, ips)
      PROVE  Complete'
  BY <1>1, <1>3, <1>8
     DEF RejectName, ReceiveDns, Complete, Distanced, InFlightIntact,
         PublishedComplete
<1>9. ASSUME NEW h \in lookups, NEW ips \in Lookup[h], NEW ip \in ips,
             AliasByAddress(h, ips, ip)
      PROVE  Complete'
  <2>1. UNCHANGED <<aliasesForHost, serverInfos, fetches, considering, distances>>
    BY <1>9 DEF AliasByAddress, ReceiveDns
  <2>2. \A x \in Host : ipsForHost[x] # {} => ipsForHost'[x] # {}
    BY <1>1, <1>9 DEF AliasByAddress, MergedIPs
  <2> QED
    BY <1>1, <1>3, <2>1, <2>2
       DEF Complete, Distanced, InFlightIntact, PublishedComplete
<1>10. ASSUME NEW h \in lookups, NEW ips \in Lookup[h], NewHost(h, ips)
       PROVE  Complete'
  <2>1. h \in Host
    BY <1>1
  <2>2. /\ UNCHANGED <<considering, distances>> /\ fetches' = fetches \cup {h}
        /\ \A x \in Host \ {h} : /\ aliasesForHost'[x] = aliasesForHost[x]
                                 /\ ipsForHost'[x] = ipsForHost[x]
                                 /\ serverInfos'[x] = serverInfos[x]
        /\ aliasesForHost'[h] = {h} /\ ipsForHost'[h] = ips /\ ips # {}
        /\ serverInfos'[h] = Nil
    BY <1>1, <1>10, <2>1 DEF NewHost, ReceiveDns
  <2> QED
    BY <1>1, <1>2, <1>3, <2>1, <2>2
       DEF Complete, Distanced, InFlightIntact, PublishedComplete
<1>11. ASSUME NEW h \in fetches, QueryFailed(h)
       PROVE  Complete'
  BY <1>1, <1>3, <1>11
     DEF QueryFailed, ReceiveHost, Complete, Distanced, InFlightIntact,
         PublishedComplete
<1>12. ASSUME NEW h \in fetches, NEW page \in Page[h] \ {Absent},
              QuerySucceeded(h, page)
       PROVE  Complete'
  <2> DEFINE c == Canonical(h, page)
             node == [Hostname |-> h, GossipPeerList |-> page.peers]
  <2>1. h \in Host /\ c \in Host /\ node \in Node
    BY PageType DEF Node
  <2>2. /\ fetches' = fetches \ {h} /\ considering' = considering
        /\ serverInfos' = [x \in Host |-> IF x = c THEN node
                            ELSE IF x = h THEN Absent ELSE serverInfos[x]]
    BY <1>12 DEF QuerySucceeded, ReceiveHost
  <2> HIDE DEF node
  <2>3. /\ h \in aliasesForHost[h] /\ ipsForHost[h] # {}
        /\ distances[h] # -1
    BY <1>1, <1>3
  <2>4. CASE c = h
    <3>1. UNCHANGED <<aliasesForHost, ipsForHost, distances>>
      BY <1>12, <2>4 DEF QuerySucceeded
    <3> HIDE DEF c
    <3> QED
      BY <1>1, <1>2, <1>3, <2>1, <2>2, <2>3, <2>4, <3>1
         DEF Complete, Distanced, InFlightIntact, PublishedComplete
  <2>5. CASE c # h
    <3>1. Rename(h, c)
      BY <1>12, <2>5 DEF QuerySucceeded
    <3> HIDE DEF c
    <3>2. /\ c \in aliasesForHost'[c]
          /\ \A x \in Host \ {c, h} : aliasesForHost'[x] = aliasesForHost[x]
      BY <1>1, <2>1, <2>5, <3>1 DEF Rename, MovedAliases
    <3>3. /\ ipsForHost'[c] # {}
          /\ \A x \in Host \ {c, h} : ipsForHost'[x] = ipsForHost[x]
      BY <1>1, <2>1, <2>3, <2>5, <3>1 DEF Rename, MovedIPs
    <3>4. /\ distances' \in [Host -> Nat \cup {-1}]
          /\ \A x \in Host : distances[x] # -1 \/ x = c => distances'[x] # -1
      BY <1>1, <2>1, <2>3, <3>1 DEF Rename
    <3>5. PublishedComplete'
      <4> SUFFICES ASSUME NEW x \in Host, serverInfos'[x] \in Node
                   PROVE  /\ ipsForHost'[x] # {} /\ x \in aliasesForHost'[x]
                          /\ distances'[x] # -1
        BY DEF PublishedComplete
      <4>1. x # h
        BY <1>2, <2>1, <2>2, <2>5
      <4> QED
        BY <1>3, <2>2, <3>2, <3>3, <3>4, <4>1
    <3>6. InFlightIntact'
      <4> SUFFICES ASSUME NEW x \in fetches'
                   PROVE  /\ serverInfos'[x] # Absent /\ x \in aliasesForHost'[x]
                          /\ ipsForHost'[x] # {} /\ distances'[x] # -1
        BY DEF InFlightIntact
      <4>1. x # h /\ x \in Host /\ x \in fetches
        BY <1>1, <2>2
      <4> QED
        BY <1>1, <1>2, <1>3, <2>1, <2>2, <3>2, <3>3, <3>4, <4>1
    <3>7. Distanced'
      BY <1>1, <1>3, <2>2, <3>4 DEF Distanced
    <3> QED
      BY <3>5, <3>6, <3>7 DEF Complete
  <2> QED
    BY <2>4, <2>5
<1> QED
  BY <1>4, <1>6, <1>7, <1>8, <1>9, <1>10, <1>11, <1>12, MapStep
     DEF DnsStep, HostStep

(* Whatever servers claim to be called, the result of a fetch finds the    *)
(* entries it is merged from (processHostResult, spider.go).               *)
THEOREM InFlightStaysIntact == Spec => []InFlightIntact
<1>1. TypeOK /\ WorkInOnePlace /\ Complete /\ [Next]_vars => Complete'
  BY NextComplete
<1>2. Complete => InFlightIntact
  BY DEF Complete
<1> QED
  BY <1>1, <1>2, InitComplete, TypeCorrect, OnePlace, PTL DEF Spec

(* Every published server has an address, its own alias and a distance,    *)
(* which GeneratePersistedInformation reads.                               *)
THEOREM PublishedStaysComplete == Spec => []PublishedComplete
<1>1. TypeOK /\ WorkInOnePlace /\ Complete /\ [Next]_vars => Complete'
  BY NextComplete
<1>2. Complete => PublishedComplete
  BY DEF Complete
<1> QED
  BY <1>1, <1>2, InitComplete, TypeCorrect, OnePlace, PTL DEF Spec

-----------------------------------------------------------------------------
(* The invariant of such a mesh.                                           *)

LEMMA InitPlain == Init => PlainMaps
BY SpiderAssumption
   DEF Init, PlainMaps, RequestsSourced, Sourced, NoRequest, Seeded, Published,
       EntriesOnlyAfterLookup, LeadToServers, AddressesAgree, DistanceWitnessed,
       Node, NoDistance

(* An answer gives its server an entry, and at most an ignored name away.  *)
LEMMA PlainAnswer ==
  ASSUME GoByOwnName(Page), TypeOK, WorkInOnePlace, PlainMaps,
         NEW h \in fetches, NEW page \in Page[h] \ {Absent},
         QuerySucceeded(h, page)
  PROVE  /\ UNCHANGED <<aliasesForHost, knownIPs, ipsForHost, distances,
                        lookups, considering, queue, caller>>
         /\ fetches' = fetches \ {h}
         /\ serverInfos' = [serverInfos EXCEPT ![h] =
              [Hostname |-> h, GossipPeerList |-> page.peers]]
         /\ [Hostname |-> h, GossipPeerList |-> page.peers] \in Node
         /\ \A x \in Host : \/ knownHosts'[x] = knownHosts[x]
                            \/ x \in Ignored /\ knownHosts'[x] = h
         /\ request' = [hostnames |-> page.peers, origin |-> h, distance |-> 0]
<1>1. /\ h \in Host /\ page \in Reply /\ page.peers \in Seq(Host)
      /\ page.nodename \in Host \cup {Absent}
  BY PageType
<1>2. /\ Canonical(h, page) = h
      /\ page.nodename \in {Absent, h, StartHost} \cup Ignored
  BY <1>1 DEF GoByOwnName, Canonical
<1>3. knownHosts \in [Host -> Host \cup {Absent}]
      /\ serverInfos \in [Host -> {Absent, Nil} \cup Node]
  BY DEF TypeOK
<1>4. knownHosts[StartHost] # Absent
  BY DEF PlainMaps, Seeded
<1>5. RenamedHosts(h, h) = knownHosts
  BY <1>1, <1>3 DEF RenamedHosts
<1>6. \A x \in Host : \/ knownHosts'[x] = knownHosts[x]
                      \/ x \in Ignored /\ knownHosts'[x] = h
  <2>1. knownHosts' = NamedHosts(h, page)
    BY DEF QuerySucceeded
  <2> QED
    BY <1>1, <1>2, <1>3, <1>4, <1>5, <2>1 DEF NamedHosts
<1>7. serverInfos' = [serverInfos EXCEPT ![h] =
        [Hostname |-> h, GossipPeerList |-> page.peers]]
  BY <1>1, <1>2, <1>3 DEF QuerySucceeded
<1> QED
  BY <1>1, <1>2, <1>6, <1>7
     DEF QuerySucceeded, ReceiveHost, BatchAddHost, Node

(* What is published stays, and so do its peers.                           *)
LEMMA PublishedStays ==
  ASSUME GoByOwnName(Page), TypeOK, WorkInOnePlace, PlainMaps, [Next]_vars,
         NEW x \in Host, Published(x)
  PROVE  serverInfos'[x] = serverInfos[x]
<1> USE DEF directory
<1>1. /\ serverInfos \in [Host -> {Absent, Nil} \cup Node]
      /\ Absent \notin Node /\ Nil \notin Node
  BY SpiderAssumption DEF TypeOK
<1>2. x \notin lookups /\ x \notin fetches
  BY <1>1 DEF Published, PlainMaps, EntriesOnlyAfterLookup
<1>3. ASSUME NEW h \in lookups, NEW ips \in Lookup[h], NewHost(h, ips)
      PROVE  serverInfos'[x] = serverInfos[x]
  BY <1>1, <1>2, <1>3 DEF NewHost
<1>4. ASSUME NEW h \in fetches, NEW page \in Page[h] \ {Absent},
             QuerySucceeded(h, page)
      PROVE  serverInfos'[x] = serverInfos[x]
  BY <1>1, <1>2, <1>4, PlainAnswer
<1> QED
  BY <1>3, <1>4, MapStep
     DEF DnsStep, HostStep, SkipHost, StartLookup, RejectName, AliasByAddress,
         QueryFailed

LEMMA SourcedStays ==
  ASSUME GoByOwnName(Page), TypeOK, WorkInOnePlace, PlainMaps, [Next]_vars,
         NEW r, Sourced(r)
  PROVE  Sourced(r)'
BY PublishedStays DEF Sourced, Published, Peers

(* The first name of a request, and the request without it.                *)
LEMMA SourcedRest ==
  ASSUME NEW r \in Request, Sourced(r), r.hostnames # <<>>
  PROVE  /\ Sourced(Rest(r))
         /\ \/ r.origin = Absent /\ r.distance = 0
               /\ Head(r.hostnames) = StartHost
            \/ r.origin \in Host /\ Published(r.origin)
               /\ Head(r.hostnames) \in Peers(r.origin)
<1>1. /\ r.hostnames \in Seq(Host) /\ Len(r.hostnames) \in Nat \ {0}
      /\ Rest(r).origin = r.origin /\ Rest(r).distance = r.distance
      /\ Rest(r).hostnames = Tail(r.hostnames)
  BY DEF Request, Rest
<1>2. /\ Head(r.hostnames) = r.hostnames[1] /\ 1 \in DOMAIN r.hostnames
      /\ Tail(r.hostnames) \in Seq(Host)
      /\ Len(Tail(r.hostnames)) = Len(r.hostnames) - 1
      /\ \A i \in 1 .. Len(Tail(r.hostnames)) :
           Tail(r.hostnames)[i] = r.hostnames[i + 1]
  BY <1>1, HeadTailProperties
<1>3. \A i \in DOMAIN Tail(r.hostnames) :
        \E j \in DOMAIN r.hostnames : Tail(r.hostnames)[i] = r.hostnames[j]
  BY <1>1, <1>2
<1> QED
  BY <1>1, <1>2, <1>3 DEF Sourced

LEMMA SourcedRemaining ==
  ASSUME NEW r, Sourced(r)
  PROVE  Sourced(Remaining(r))
BY DEF Sourced, Remaining, NoRequest

(* Requests stay sourced on their way through the channel.                 *)
LEMMA NextSourced ==
  ASSUME GoByOwnName(Page), TypeOK, WorkInOnePlace, PlainMaps, [Next]_vars
  PROVE  RequestsSourced'
<1> DEFINE S(r) ==
      \/ /\ r.origin = Absent /\ r.distance = 0
         /\ \A i \in DOMAIN r.hostnames : r.hostnames[i] = StartHost
      \/ /\ r.origin \in Host /\ serverInfos'[r.origin] \in Node
         /\ \A i \in DOMAIN r.hostnames : r.hostnames[i] \in
              {serverInfos'[r.origin].GossipPeerList[j] :
                 j \in DOMAIN serverInfos'[r.origin].GossipPeerList}
<1>1. /\ queue \in Seq(Request) /\ request \in Request
      /\ Sourced(request) /\ \A i \in DOMAIN queue : Sourced(queue[i])
  BY DEF TypeOK, PlainMaps, RequestsSourced
<1>2. ASSUME NEW r, Sourced(r) PROVE S(r)
  BY <1>2, PublishedStays DEF Sourced, Published, Peers
<1>3. SUFFICES S(request') /\ \A i \in DOMAIN queue' : S(queue'[i])
  BY DEF RequestsSourced, Sourced, Published, Peers
<1>4. S(NoRequest)
  BY DEF NoRequest
<1> HIDE DEF S
<1>5. \A i \in DOMAIN queue : S(queue[i])
  BY <1>1, <1>2
<1>6. CASE UNCHANGED <<request, queue>>
  BY <1>1, <1>2, <1>5, <1>6
<1>7. ASSUME NEW r \in Request, S(r), queue' = Append(queue, r),
             request' = request \/ request' = NoRequest
      PROVE  S(request') /\ \A i \in DOMAIN queue' : S(queue'[i])
  <2>1. \A i \in DOMAIN queue' : i \in DOMAIN queue \/ queue'[i] = r
    BY <1>1, <1>7, AppendProperties
  <2>2. \A i \in DOMAIN queue : queue'[i] = queue[i]
    BY <1>1, <1>7, AppendProperties
  <2> QED
    BY <1>1, <1>2, <1>4, <1>5, <1>7, <2>1, <2>2
<1>8. CASE AddHost
  <2> DEFINE seed == [hostnames |-> <<StartHost>>, origin |-> Absent, distance |-> 0]
  <2>1. seed \in Request
    BY SpiderAssumption DEF Request
  <2>2. S(seed)
    BY DEF S
  <2>3. queue' = Append(queue, seed) /\ request' = request
    BY <1>8 DEF AddHost
  <2> HIDE DEF seed
  <2> QED
    BY <1>7, <2>1, <2>2, <2>3
<1>9. CASE SendRequest
  BY <1>1, <1>2, <1>7, <1>9 DEF SendRequest
<1>10. CASE ReceiveRequest
  <2>1. queue # <<>> /\ queue' = Tail(queue) /\ request' = Remaining(Head(queue))
    BY <1>10 DEF ReceiveRequest
  <2>2. /\ Head(queue) = queue[1] /\ 1 \in DOMAIN queue
        /\ Tail(queue) \in Seq(Request) /\ Len(Tail(queue)) = Len(queue) - 1
        /\ \A i \in 1 .. Len(Tail(queue)) : Tail(queue)[i] = queue[i + 1]
    BY <1>1, <2>1, HeadTailProperties
  <2>3. S(Remaining(Head(queue)))
    BY <1>1, <1>2, <2>2, SourcedRemaining
  <2> QED
    BY <1>1, <1>5, <2>1, <2>2, <2>3
<1>11. CASE NextName /\ queue' = queue
  <2>1. request.hostnames # <<>>
    BY <1>11 DEF NextName, WorkInOnePlace
  <2>2. Sourced(Remaining(Rest(request)))
    BY <1>1, <2>1, SourcedRest, SourcedRemaining
  <2> QED
    BY <1>2, <1>5, <1>11, <2>2 DEF NextName
<1>12. ASSUME NEW h \in fetches, NEW page \in Page[h] \ {Absent},
              QuerySucceeded(h, page)
       PROVE  S(request') /\ \A i \in DOMAIN queue' : S(queue'[i])
  <2> DEFINE node == [Hostname |-> h, GossipPeerList |-> page.peers]
  <2>1. /\ queue' = queue /\ serverInfos' = [serverInfos EXCEPT ![h] = node]
        /\ node \in Node
        /\ request' = [hostnames |-> page.peers, origin |-> h, distance |-> 0]
    BY <1>12, PlainAnswer
  <2>2. h \in Host /\ serverInfos \in [Host -> {Absent, Nil} \cup Node]
    BY DEF TypeOK
  <2>3. S(request')
    BY <2>1, <2>2 DEF S
  <2> QED
    BY <1>5, <2>1, <2>3
<1> QED
  BY <1>6, <1>8, <1>9, <1>10, <1>11, <1>12
     DEF Next, MainLoop, Caller, Finished, DnsStep, HostStep, CountryStep, vars,
         control, Wait, Terminate, SkipHost, StartLookup, RejectName,
         AliasByAddress, NewHost, ReceiveDns, QueryFailed, ReceiveHost,
         ReceiveCountry, FinishResult

(* The name at the head of a request, and the distance it is given.        *)
LEMMA NameAtHand ==
  ASSUME TypeOK, Complete, PlainMaps, NEW d, d = RequestDistance(request),
         request.hostnames # <<>>
  PROVE  /\ Head(request.hostnames) \in Host /\ d \in Nat
         /\ \/ Head(request.hostnames) = StartHost /\ d = 0
            \/ \E p \in Host : /\ Published(p) /\ distances[p] # NoDistance
                              /\ Head(request.hostnames) \in Peers(p)
                              /\ d = distances[p] + 1
<1>1. request \in Request /\ Sourced(request)
  BY DEF TypeOK, PlainMaps, RequestsSourced
<1>2. Head(request.hostnames) \in Host
  BY <1>1, RestType
<1>3. \/ request.origin = Absent /\ request.distance = 0
         /\ Head(request.hostnames) = StartHost
      \/ request.origin \in Host /\ Published(request.origin)
         /\ Head(request.hostnames) \in Peers(request.origin)
  BY <1>1, SourcedRest
<1>4. /\ distances \in [Host -> Nat \cup {NoDistance}]
      /\ \A p \in Host : Published(p) => distances[p] # NoDistance
  BY DEF Complete, Distanced, PublishedComplete, Published
<1>5. CASE request.origin = Absent
  BY <1>2, <1>3, <1>5, SpiderAssumption DEF RequestDistance
<1>6. CASE request.origin \in Host /\ Published(request.origin)
  <2>1. d = distances[request.origin] + 1
    BY <1>4, <1>6, SpiderAssumption DEF RequestDistance
  <2> QED
    BY <1>2, <1>3, <1>4, <1>6, <2>1, SpiderAssumption DEF NoDistance
<1> QED
  BY <1>3, <1>5, <1>6

(* Until the start host is known, nothing else is.                         *)
LEMMA NextSeeded ==
  ASSUME GoByOwnName(Page), TypeOK, WorkInOnePlace, Complete, PlainMaps,
         [Next]_vars
  PROVE  Seeded'
<1> USE DEF directory
<1>1. /\ knownHosts \in [Host -> Host \cup {Absent}] /\ Absent \notin Host
      /\ serverInfos \in [Host -> {Absent, Nil} \cup Node] /\ StartHost \in Host
      /\ Nil \notin Node /\ lookups \subseteq considering /\ considering \subseteq Host
  BY SpiderAssumption DEF TypeOK, WorkInOnePlace
<1>2. SUFFICES ASSUME knownHosts'[StartHost] = Absent
               PROVE  /\ considering' \subseteq {StartHost}
                      /\ fetches' = {}
                      /\ \A h \in Host : serverInfos'[h] \notin Node
  BY DEF Seeded, Published
<1>3. knownHosts[StartHost] = Absent
  BY <1>1, <1>2, KnownStaysKnown
<1>4. /\ considering \subseteq {StartHost} /\ fetches = {}
      /\ \A h \in Host : serverInfos[h] \notin Node
  BY <1>3 DEF PlainMaps, Seeded, Published
<1>5. CASE UNCHANGED <<directory, lookups, fetches, considering, distances>>
  BY <1>4, <1>5
<1>6. CASE SkipHost
  BY <1>4, <1>6 DEF SkipHost, workers
<1>7. CASE StartLookup
  <2>1. request.hostnames # <<>>
    BY <1>7 DEF StartLookup, NextName, WorkInOnePlace
  <2>2. Head(request.hostnames) = StartHost
    BY <1>4, <2>1, NameAtHand DEF Published
  <2> QED
    BY <1>4, <1>7, <2>2 DEF StartLookup
<1>8. ASSUME NEW h \in lookups, NEW ips \in Lookup[h]
      PROVE  /\ RejectName(h, ips) =>
                  /\ considering' \subseteq {StartHost}
                  /\ fetches' = {}
                  /\ \A x \in Host : serverInfos'[x] \notin Node
             /\ \A ip \in ips : ~ AliasByAddress(h, ips, ip)
             /\ ~ NewHost(h, ips)
  <2>1. h = StartHost
    BY <1>1, <1>4
  <2>2. \A ip \in ips : ~ AliasByAddress(h, ips, ip)
    BY <1>1, <1>2, <2>1 DEF AliasByAddress
  <2>3. ~ NewHost(h, ips)
    BY <1>1, <1>2, <2>1 DEF NewHost
  <2> QED
    BY <1>4, <2>2, <2>3 DEF RejectName, ReceiveDns
<1> QED
  BY <1>4, <1>5, <1>6, <1>7, <1>8, MapStep DEF DnsStep, HostStep

(* A new host has its entries from its own lookup only.                    *)
LEMMA NewHostEntries ==
  ASSUME TypeOK, NEW h \in lookups, NEW ips \in Lookup[h], NewHost(h, ips)
  PROVE  /\ UNCHANGED <<considering, distances>>
         /\ lookups' = lookups \ {h} /\ fetches' = fetches \cup {h}
         /\ h \in Host /\ ips \subseteq IP
         /\ serverInfos' = [serverInfos EXCEPT ![h] = Nil]
         /\ knownHosts' = [knownHosts EXCEPT ![h] = h]
         /\ ipsForHost' = [ipsForHost EXCEPT ![h] = ips]
         /\ knownIPs' = [i \in IP |-> IF i \in ips THEN h ELSE knownIPs[i]]
         /\ \A ip \in ips : knownIPs[ip] = Absent
<1>1. h \in Host
  BY DEF TypeOK
<1>2. ips \subseteq IP
  BY <1>1, SpiderAssumption
<1> QED
  BY <1>1, <1>2 DEF NewHost, ReceiveDns, Fresh

LEMMA NextEntries ==
  ASSUME GoByOwnName(Page), TypeOK, WorkInOnePlace, PlainMaps, [Next]_vars
  PROVE  EntriesOnlyAfterLookup'
<1> USE DEF directory, EntriesOnlyAfterLookup
<1>1. /\ knownHosts \in [Host -> Host \cup {Absent}] /\ Absent \notin Host
      /\ serverInfos \in [Host -> {Absent, Nil} \cup Node]
      /\ distances \in [Host -> Int] /\ knownIPs \in [IP -> Host \cup {Absent}]
      /\ Absent \notin Node /\ Absent # Nil
      /\ lookups \subseteq considering /\ considering \subseteq Host
      /\ fetches \subseteq considering \ lookups
  BY SpiderAssumption DEF TypeOK, WorkInOnePlace
<1>2. EntriesOnlyAfterLookup
  BY DEF PlainMaps
<1>3. CASE UNCHANGED <<directory, lookups, fetches, considering, distances>>
  BY <1>2, <1>3
<1>4. CASE SkipHost
  <2>1. \A x \in Host : distances'[x] # NoDistance => distances[x] # NoDistance
    BY <1>1, <1>4 DEF SkipHost, Nearer
  <2> QED
    BY <1>2, <1>4, <2>1 DEF SkipHost, workers
<1>5. CASE StartLookup
  <2> DEFINE h == Head(request.hostnames)
  <2>1. h \notin considering /\ h \notin Ignored
    BY <1>5 DEF StartLookup, Skip
  <2>2. /\ considering' = considering \cup {h} /\ lookups' = lookups \cup {h}
        /\ UNCHANGED <<fetches, knownHosts, serverInfos>>
    BY <1>5 DEF StartLookup
  <2>3. \A x \in Host : distances'[x] # NoDistance =>
          distances[x] # NoDistance \/ x = h
    BY <1>1, <1>5 DEF StartLookup
  <2> HIDE DEF h
  <2> QED
    BY <1>1, <1>2, <2>1, <2>2, <2>3
<1>6. ASSUME NEW h \in lookups, NEW ips \in Lookup[h], RejectName(h, ips)
      PROVE  EntriesOnlyAfterLookup'
  BY <1>2, <1>6 DEF RejectName, ReceiveDns
<1>7. ASSUME NEW h \in lookups, NEW ips \in Lookup[h], NEW ip \in ips,
             AliasByAddress(h, ips, ip)
      PROVE  EntriesOnlyAfterLookup'
  <2>1. \A x \in Host : knownHosts'[x] # Absent => knownHosts[x] # Absent \/ x = h
    BY <1>1, <1>7 DEF AliasByAddress
  <2> QED
    BY <1>1, <1>2, <1>7, <2>1 DEF AliasByAddress, ReceiveDns
<1>8. ASSUME NEW h \in lookups, NEW ips \in Lookup[h], NewHost(h, ips)
      PROVE  EntriesOnlyAfterLookup'
  BY <1>1, <1>2, <1>8, NewHostEntries
<1>9. ASSUME NEW h \in fetches, QueryFailed(h)
      PROVE  EntriesOnlyAfterLookup'
  BY <1>2, <1>9 DEF QueryFailed, ReceiveHost
<1>10. ASSUME NEW h \in fetches, NEW page \in Page[h] \ {Absent},
              QuerySucceeded(h, page)
       PROVE  EntriesOnlyAfterLookup'
  <2> DEFINE node == [Hostname |-> h, GossipPeerList |-> page.peers]
  <2>1. /\ UNCHANGED <<distances, lookups, considering>> /\ fetches' = fetches \ {h}
        /\ serverInfos' = [serverInfos EXCEPT ![h] = node]
        /\ \A x \in Host : \/ knownHosts'[x] = knownHosts[x]
                           \/ x \in Ignored /\ knownHosts'[x] = h
    BY <1>10, PlainAnswer
  <2> HIDE DEF node
  <2>2. h \in considering \ lookups
    BY <1>1
  <2>3. \A x \in Host : serverInfos'[x] # Absent => x \in considering \ lookups
    BY <1>1, <1>2, <2>1, <2>2
  <2>4. \A x \in fetches' : serverInfos'[x] = Nil
    BY <1>1, <1>2, <2>1
  <2> QED
    BY <1>1, <1>2, <2>1, <2>3, <2>4
<1> QED
  BY <1>3, <1>4, <1>5, <1>6, <1>7, <1>8, <1>9, <1>10, MapStep
     DEF DnsStep, HostStep

LEMMA NextLead ==
  ASSUME GoByOwnName(Page), TypeOK, WorkInOnePlace, PlainMaps, [Next]_vars
  PROVE  LeadToServers' /\ AddressesAgree'
<1> USE DEF directory, LeadToServers, AddressesAgree
<1>1. /\ knownHosts \in [Host -> Host \cup {Absent}] /\ Absent \notin Host
      /\ serverInfos \in [Host -> {Absent, Nil} \cup Node]
      /\ knownIPs \in [IP -> Host \cup {Absent}]
      /\ ipsForHost \in [Host -> SUBSET IP]
      /\ Absent \notin Node /\ Absent # Nil /\ lookups \subseteq Host
      /\ \A h \in Host : Lookup[h] \in SUBSET SUBSET IP
  BY SpiderAssumption DEF TypeOK, WorkInOnePlace
<1>2. LeadToServers /\ AddressesAgree
  BY DEF PlainMaps
<1>3. CASE UNCHANGED <<directory, lookups, fetches, considering, distances>>
  BY <1>2, <1>3
<1>4. CASE SkipHost \/ StartLookup
  BY <1>2, <1>4 DEF SkipHost, StartLookup
<1>5. ASSUME NEW h \in lookups, NEW ips \in Lookup[h], RejectName(h, ips)
      PROVE  LeadToServers' /\ AddressesAgree'
  BY <1>2, <1>5 DEF RejectName
<1>6. ASSUME NEW h \in lookups, NEW ips \in Lookup[h], NEW ip \in ips,
             AliasByAddress(h, ips, ip)
      PROVE  LeadToServers' /\ AddressesAgree'
  <2> DEFINE c == knownIPs[ip]
  <2>1. h \in Host /\ ips \subseteq IP /\ c \in Host /\ c # Absent
    BY <1>1, <1>6 DEF AliasByAddress
  <2>2. /\ UNCHANGED serverInfos
        /\ knownHosts' = [knownHosts EXCEPT ![h] = c]
        /\ knownIPs' = [i \in IP |-> IF i \in ips THEN c ELSE knownIPs[i]]
        /\ ipsForHost' = [ipsForHost EXCEPT ![c] = @ \cup ips]
    BY <1>6 DEF AliasByAddress, MergedIPs
  <2>3. serverInfos[c] # Absent
    BY <1>2, <2>1
  <2> HIDE DEF c
  <2> QED
    BY <1>1, <1>2, <2>1, <2>2, <2>3
<1>7. ASSUME NEW h \in lookups, NEW ips \in Lookup[h], NewHost(h, ips)
      PROVE  LeadToServers' /\ AddressesAgree'
  <2>1. \A ip \in IP : knownIPs[ip] # h
    BY <1>1, <1>2 DEF PlainMaps, EntriesOnlyAfterLookup
  <2> QED
    BY <1>1, <1>2, <1>7, <2>1, NewHostEntries
<1>8. ASSUME NEW h \in fetches, QueryFailed(h)
      PROVE  LeadToServers' /\ AddressesAgree'
  BY <1>2, <1>8 DEF QueryFailed
<1>9. ASSUME NEW h \in fetches, NEW page \in Page[h] \ {Absent},
             QuerySucceeded(h, page)
      PROVE  LeadToServers' /\ AddressesAgree'
  <2> DEFINE node == [Hostname |-> h, GossipPeerList |-> page.peers]
  <2>1. h \in Host
    BY DEF TypeOK
  <2>2. /\ UNCHANGED <<knownIPs, ipsForHost>> /\ node \in Node
        /\ serverInfos' = [serverInfos EXCEPT ![h] = node]
        /\ \A x \in Host : \/ knownHosts'[x] = knownHosts[x]
                           \/ x \in Ignored /\ knownHosts'[x] = h
    BY <1>9, PlainAnswer
  <2> HIDE DEF node
  <2>3. \A x \in Host : serverInfos[x] # Absent \/ x = h => serverInfos'[x] # Absent
    BY <1>1, <2>1, <2>2
  <2> QED
    BY <1>1, <1>2, <2>1, <2>2, <2>3
<1> QED
  BY <1>3, <1>4, <1>5, <1>6, <1>7, <1>8, <1>9, MapStep DEF DnsStep, HostStep

(* A distance is given once and then only made smaller.                    *)
LEMMA DistanceFalls ==
  ASSUME GoByOwnName(Page), TypeOK, WorkInOnePlace, Complete, PlainMaps,
         [Next]_vars, NEW h \in Host, distances[h] # NoDistance
  PROVE  distances'[h] # NoDistance /\ distances'[h] <= distances[h]
<1>1. /\ distances \in [Host -> Nat \cup {NoDistance}] /\ h \in considering
      /\ distances[h] \in Nat
  BY DEF Complete, Distanced, PlainMaps, EntriesOnlyAfterLookup
<1>2. CASE UNCHANGED distances
  BY <1>1, <1>2
<1>3. CASE SkipHost
  <2> DEFINE d == RequestDistance(request)
  <2>1. request.hostnames # <<>>
    BY <1>3 DEF SkipHost, NextName, WorkInOnePlace
  <2>2. d \in Nat
    BY <2>1, NameAtHand
  <2> QED
    BY <1>1, <1>3, <2>2 DEF SkipHost, Nearer, NoDistance
<1>4. CASE StartLookup
  BY <1>1, <1>4 DEF StartLookup, Skip
<1>5. CASE HostStep
  BY <1>2, <1>5, PlainAnswer DEF HostStep, QueryFailed
<1> QED
  BY <1>2, <1>3, <1>4, <1>5, MapStep
     DEF DnsStep, RejectName, AliasByAddress, NewHost, ReceiveDns

LEMMA NextWitnessed ==
  ASSUME GoByOwnName(Page), TypeOK, WorkInOnePlace, Complete, PlainMaps,
         [Next]_vars
  PROVE  DistanceWitnessed'
<1>1. /\ distances \in [Host -> Nat \cup {NoDistance}]
      /\ \A p \in Host : Published(p) => distances[p] # NoDistance
      /\ StartHost \in Host
  BY SpiderAssumption DEF Complete, Distanced, PublishedComplete, Published
<1>2. SUFFICES ASSUME NEW h \in Host, distances'[h] # NoDistance
               PROVE  \/ h = StartHost /\ distances'[h] = 0
                      \/ \E p \in Host : /\ Published(p) /\ h \in Peers(p)
                                        /\ distances'[p] < distances'[h]
  <2>1. \A p \in Host : Published(p) => Published(p)' /\ Peers(p)' = Peers(p)
    BY PublishedStays DEF Published, Peers
  <2> QED
    BY <1>2, <2>1 DEF DistanceWitnessed
<1>3. \A p \in Host : Published(p) =>
        distances'[p] <= distances[p] /\ distances'[p] # NoDistance
  BY <1>1, DistanceFalls
<1>4. distances' \in [Host -> Nat \cup {NoDistance}]
  BY NextComplete DEF Complete, Distanced
<1>5. CASE distances'[h] = distances[h]
  <2>1. \/ h = StartHost /\ distances[h] = 0
        \/ \E p \in Host : Published(p) /\ h \in Peers(p) /\ distances[p] < distances[h]
    BY <1>2, <1>5 DEF PlainMaps, DistanceWitnessed
  <2> QED
    BY <1>1, <1>3, <1>4, <1>5, <2>1 DEF NoDistance
<1>6. CASE SkipHost \/ StartLookup
  <2> DEFINE d == RequestDistance(request)
  <2>1. request.hostnames # <<>>
    BY <1>6 DEF SkipHost, StartLookup, NextName, WorkInOnePlace
  <2>2. CASE h = Head(request.hostnames) /\ distances'[h] = d
    <3>1. \/ h = StartHost /\ d = 0
          \/ \E p \in Host : /\ Published(p) /\ distances[p] # NoDistance
                            /\ h \in Peers(p) /\ d = distances[p] + 1
      BY <2>1, <2>2, NameAtHand
    <3>2. ASSUME NEW p \in Host, Published(p), h \in Peers(p),
                 d = distances[p] + 1
          PROVE  distances'[p] < distances'[h]
      BY <1>1, <1>3, <1>4, <2>2, <3>2 DEF NoDistance
    <3> QED
      BY <2>2, <3>1, <3>2
  <2>3. distances'[h] = distances[h] \/ (h = Head(request.hostnames) /\ distances'[h] = d)
    BY <1>1, <1>6 DEF SkipHost, StartLookup
  <2> QED
    BY <1>5, <2>2, <2>3
<1>7. CASE HostStep
  BY <1>5, <1>7, PlainAnswer DEF HostStep, QueryFailed
<1> QED
  BY <1>5, <1>6, <1>7, MapStep
     DEF DnsStep, RejectName, AliasByAddress, NewHost, ReceiveDns

(* The invariant of a plain crawl.                                         *)
PlainCrawl == TypeOK /\ WorkInOnePlace /\ Complete /\ PlainMaps

LEMMA InitPlainCrawl == Init => PlainCrawl
BY InitTyped, InitComplete, InitPlain DEF PlainCrawl

LEMMA NextPlainCrawl ==
  ASSUME GoByOwnName(Page), PlainCrawl, [Next]_vars
  PROVE  PlainCrawl'
<1> USE DEF PlainCrawl
<1>1. TypeOK' /\ WorkInOnePlace' /\ Complete'
  BY NextTyped, NextComplete
<1>2. RequestsSourced' /\ Seeded' /\ EntriesOnlyAfterLookup'
  BY NextSourced, NextSeeded, NextEntries
<1>3. LeadToServers' /\ AddressesAgree' /\ DistanceWitnessed'
  BY NextLead, NextWitnessed
<1> QED
  BY <1>1, <1>2, <1>3 DEF PlainMaps

(* Where servers go by their own names, an address that leads to a host is *)
(* among the addresses it is published with (knownIPs and ipsForHost,      *)
(* spider.go).                                                             *)
THEOREM PlainAddressesAgree ==
  ASSUME GoByOwnName(Page) PROVE Spec => []AddressesAgree
<1>1. PlainCrawl => AddressesAgree
  BY DEF PlainCrawl, PlainMaps
<1>2. PlainCrawl /\ [Next]_vars => PlainCrawl'
  BY NextPlainCrawl
<1> QED
  BY <1>1, <1>2, InitPlainCrawl, PTL DEF Spec

(* Where servers go by their own names, every distance is explained by a   *)
(* published server that is at least one hop nearer (considerHost,         *)
(* spider.go).                                                             *)
THEOREM PlainDistanceWitnessed ==
  ASSUME GoByOwnName(Page) PROVE Spec => []DistanceWitnessed
<1>1. PlainCrawl => DistanceWitnessed
  BY DEF PlainCrawl, PlainMaps
<1>2. PlainCrawl /\ [Next]_vars => PlainCrawl'
  BY NextPlainCrawl
<1> QED
  BY <1>1, <1>2, InitPlainCrawl, PTL DEF Spec

(* Where servers go by their own names, every alias resolves to a name     *)
(* server information is kept under, once the crawl is over (knownHosts,   *)
(* processHostResult, spider.go).                                          *)
THEOREM PlainAliasesResolve ==
  ASSUME GoByOwnName(Page) PROVE Spec => []AliasesResolve
<1>1. PlainCrawl => AliasesResolve
  BY SpiderAssumption DEF PlainCrawl, PlainMaps, LeadToServers, AliasesResolve
<1>2. PlainCrawl /\ [Next]_vars => PlainCrawl'
  BY NextPlainCrawl
<1> QED
  BY <1>1, <1>2, InitPlainCrawl, PTL DEF Spec

(* Where servers go by their own names, a distance is only corrected       *)
(* downwards (considerHost, spider.go).                                    *)
THEOREM PlainNeverFarther ==
  ASSUME GoByOwnName(Page) PROVE Spec => NeverFarther
<1>1. PlainCrawl /\ [Next]_vars =>
        [\A h \in Host : distances[h] # NoDistance =>
           distances'[h] # NoDistance /\ distances'[h] <= distances[h]]_vars
  BY DistanceFalls DEF PlainCrawl
<1>2. PlainCrawl /\ [Next]_vars => PlainCrawl'
  BY NextPlainCrawl
<1> QED
  BY <1>1, <1>2, InitPlainCrawl, PTL DEF Spec, NeverFarther

(* Where servers go by their own names, a fetch starts only for a name     *)
(* nothing is recorded about: "should be shiny new host after this point"  *)
(* (processDnsResult, spider.go).                                          *)
THEOREM PlainHostsAreNew ==
  ASSUME GoByOwnName(Page) PROVE Spec => ShinyNewHost
<1>1. PlainCrawl /\ [Next]_vars =>
        [\A h \in fetches' \ fetches :
           knownHosts[h] = Absent /\ serverInfos[h] = Absent]_vars
  <2> SUFFICES ASSUME PlainCrawl, [Next]_vars, NEW h \in fetches' \ fetches
               PROVE  knownHosts[h] = Absent /\ serverInfos[h] = Absent
    OBVIOUS
  <2>1. h \in lookups
    BY FetchStep
  <2> QED
    BY <2>1 DEF PlainCrawl, PlainMaps, EntriesOnlyAfterLookup, TypeOK,
                WorkInOnePlace
<1>2. PlainCrawl /\ [Next]_vars => PlainCrawl'
  BY NextPlainCrawl
<1> QED
  BY <1>1, <1>2, InitPlainCrawl, PTL DEF Spec, ShinyNewHost
=============================================================================
