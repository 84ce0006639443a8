-------------------------- MODULE StatsPageProofs --------------------------
(***************************************************************************)
(* What QueryHost sends, for every response: the sections it has read so   *)
(* far are in the node, and a page that breaks off sends an error.         *)
(***************************************************************************)
EXTENDS StatsPage, FiniteSetTheorems, FunctionTheorems, SequenceTheorems,
        WellFoundedInduction, TLAPS

-----------------------------------------------------------------------------
(* Maps filled row by row.                                                 *)

LEMMA LeastOf ==
  ASSUME NEW S \in SUBSET Nat, S # {}
  PROVE  \E m \in S : \A k \in S : m <= k
<1>1. PICK m \in S : \A k \in S : ~ (<<k, m>> \in OpToRel(<, Nat))
  BY NatLessThanWellFounded, WFMin
<1>2. \A k \in S : <<k, m>> \in OpToRel(<, Nat) <=> k < m
  BY DEF OpToRel
<1>3. \A k \in S : ~ (k < m)
  BY <1>1, <1>2, Zenon
<1> QED
  BY <1>3

LEMMA GreatestOf ==
  ASSUME NEW n \in Nat, NEW S \in SUBSET (1 .. n), S # {}
  PROVE  \E m \in S : \A k \in S : k <= m
<1> DEFINE T == {n - i : i \in S}
<1>1. T \in SUBSET Nat /\ T # {}
  <2>1. \A i \in S : n - i \in Nat
    OBVIOUS
  <2> QED
    BY <2>1
<1>2. PICK t \in T : \A k \in T : t <= k
  <2> HIDE DEF T
  <2> QED
    BY <1>1, LeastOf
<1>3. PICK m \in S : t = n - m
  OBVIOUS
<1>4. \A k \in S : k <= m
  BY <1>2, <1>3
<1> QED
  BY <1>4

(* The places of the entries that are there.                               *)
Filled(rows) == {i \in DOMAIN rows : rows[i] # Missing}

KeysIn(rows, key) == {rows[i][key] : i \in Filled(rows)}

(* The map has a key for each row that is there, and each key's value is   *)
(* that of one of the rows.                                                *)
LEMMA FromRowsType ==
  ASSUME NEW rows, NEW n \in Nat, DOMAIN rows = 1 .. n, NEW key, NEW value, NEW V,
         \A i \in Filled(rows) : rows[i][value] \in V
  PROVE  FromRows(rows, key, value) \in [KeysIn(rows, key) -> V]
<1> DEFINE filled == {i \in DOMAIN rows : rows[i] # Missing}
           LastOf(k) ==
             CHOOSE i \in filled :
               rows[i][key] = k /\ \A j \in filled : rows[j][key] = k => j <= i
<1>1. ASSUME NEW k \in {rows[i][key] : i \in filled}
      PROVE  rows[LastOf(k)][value] \in V
  <2> DEFINE mine == {i \in filled : rows[i][key] = k}
  <2>1. mine \in SUBSET (1 .. n) /\ mine # {}
    OBVIOUS
  <2>2. PICK i \in mine : \A j \in mine : j <= i
    <3> HIDE DEF mine
    <3> QED
      BY <2>1, GreatestOf
  <2>3. i \in filled /\ rows[i][key] = k
        /\ \A j \in filled : rows[j][key] = k => j <= i
    BY <2>2
  <2>4. LastOf(k) \in filled
    BY <2>3
  <2> QED
    BY <2>4 DEF Filled
<1> QED
  BY <1>1 DEF FromRows, Filled, KeysIn

LEMMA Cells ==
  \A r : /\ r["host"] = r.host /\ r["port"] = r.port
         /\ r["key"] = r.key /\ r["value"] = r.value
OBVIOUS

(* A list of the elements of a finite set, in any order, has them all.     *)
LEMMA ListsAll ==
  ASSUME NEW S, IsFiniteSet(S), NEW list \in SetToSeqs(S)
  PROVE  list \in Seq(S) /\ ToSet(list) = S
<1> DEFINE n == Cardinality(S)
<1>1. n \in Nat
  BY FS_CardinalityType
<1>2. list \in [1 .. n -> S] /\ \A i, j \in 1 .. n : i # j => list[i] # list[j]
  BY DEF SetToSeqs
<1>3. list \in Injection(1 .. n, S)
  BY <1>2, Fun_IsInj
<1>4. IsFiniteSet(1 .. n) /\ Cardinality(1 .. n) = n
  BY <1>1, FS_Interval
<1>5. list \in Surjection(1 .. n, S)
  BY <1>3, <1>4, FS_Injection
<1>6. \A x \in S : \E i \in 1 .. n : list[i] = x
  BY <1>5 DEF Surjection
<1> QED
  BY <1>1, <1>2, <1>6 DEF ToSet

-----------------------------------------------------------------------------
(* The peers of a page.                                                    *)

NamesIn(rows) == {rows[i].host : i \in Filled(rows)}

(* A section that does not break off is a list of rows, each with a port.  *)
LEMMA UncutRows ==
  ASSUME NEW section \in Seq(Entry) \union {Missing, NoTable},
         ~Cut(section, "port")
  PROVE  /\ section # NoTable
         /\ Rows(section) \in Seq(Entry)
         /\ \A i \in Filled(Rows(section)) :
              /\ Rows(section)[i] \in Row
              /\ Rows(section)[i].port \in Nat
<1>1. CASE section \in {Missing, NoTable}
  <2>1. section # NoTable /\ Rows(section) = <<>>
    BY <1>1 DEF Cut, Rows
  <2>2. <<>> \in Seq(Entry) /\ DOMAIN <<>> = {}
    OBVIOUS
  <2> QED
    BY <2>1, <2>2 DEF Filled
<1>2. CASE section \notin {Missing, NoTable}
  <2>1. Rows(section) = section /\ section \in Seq(Entry)
    BY <1>2 DEF Rows
  <2>2. ASSUME NEW i \in DOMAIN section, section[i] # Missing
        PROVE  section[i] \in Row /\ section[i].port \in Nat
    <3>1. section[i] \in Row
      BY <2>1, <2>2 DEF Entry
    <3>2. section[i]["port"] # Missing
      BY <1>2, <2>2 DEF Cut
    <3>3. section[i].port # Missing
      BY <3>2, Cells
    <3> QED
      BY <3>1, <3>3 DEF Row
  <2> QED
    BY <1>2, <2>1, <2>2 DEF Filled
<1> QED
  BY <1>1, <1>2

(* The map of ports has exactly the peers the rows name.                   *)
LEMMA PortsType ==
  ASSUME NEW rows, NEW n \in Nat, DOMAIN rows = 1 .. n,
         \A i \in Filled(rows) : rows[i].port \in Nat
  PROVE  Ports(rows) \in [NamesIn(rows) -> Nat]
<1> DEFINE key == "host"
           value == "port"
<1>1. \A i \in Filled(rows) : rows[i][value] \in Nat
  BY Cells
<1> HIDE DEF key, value
<1>2. FromRows(rows, key, value) \in [KeysIn(rows, key) -> Nat]
  BY <1>1, FromRowsType
<1>3. KeysIn(rows, key) = NamesIn(rows)
  BY Cells DEF NamesIn, KeysIn, key
<1> QED
  BY <1>2, <1>3 DEF Ports, key, value

LEMMA PortsOfRows ==
  ASSUME NEW rows \in Seq(Entry),
         \A i \in Filled(rows) : rows[i] \in Row /\ rows[i].port \in Nat
  PROVE  /\ Ports(rows) \in [NamesIn(rows) -> Nat]
         /\ NamesIn(rows) \subseteq Peer
         /\ IsFiniteSet(NamesIn(rows))
<1>1. DOMAIN rows = 1 .. Len(rows) /\ Len(rows) \in Nat
  OBVIOUS
<1>4. Ports(rows) \in [NamesIn(rows) -> Nat]
  BY <1>1, PortsType
<1>5. NamesIn(rows) \subseteq Peer
  <2> SUFFICES ASSUME NEW i \in Filled(rows) PROVE rows[i].host \in Peer
    BY DEF NamesIn
  <2>1. rows[i] \in Row
    OBVIOUS
  <2> QED
    BY <2>1 DEF Row
<1>6. IsFiniteSet(NamesIn(rows))
  <2> DEFINE f == [i \in Filled(rows) |-> rows[i].host]
  <2>1. IsFiniteSet(1 .. Len(rows))
    BY <1>1, FS_Interval
  <2>2. IsFiniteSet(Filled(rows))
    BY <1>1, <2>1, FS_Subset DEF Filled
  <2>3. f \in [Filled(rows) -> NamesIn(rows)]
    BY DEF NamesIn
  <2>4. \A x \in NamesIn(rows) : \E i \in Filled(rows) : f[i] = x
    BY DEF NamesIn
  <2>5. f \in Surjection(Filled(rows), NamesIn(rows))
    <3> HIDE DEF f
    <3> QED
      BY <2>3, <2>4, Fun_IsSurj
  <2> QED
    BY <2>2, <2>5, FS_Surjection
<1> QED
  BY <1>4, <1>5, <1>6

(* The list made of JSON entries names the same peers, and has an empty    *)
(* place for each entry that is not there.                                 *)
LEMMA ListOfEntries ==
  ASSUME NEW rows \in Seq(Entry),
         \A i \in Filled(rows) : rows[i] \in Row
  PROVE  /\ ListOf(rows) \in Seq(Peer \union {Blank})
         /\ ToSet(ListOf(rows)) \ {Blank} = NamesIn(rows)
         /\ Blank \in ToSet(ListOf(rows)) <=> Missing \in ToSet(rows)
<1> DEFINE list == ListOf(rows)
<1>1. DOMAIN rows = 1 .. Len(rows) /\ Len(rows) \in Nat
  OBVIOUS
<1>2. /\ DOMAIN list = DOMAIN rows
      /\ \A i \in DOMAIN rows :
           list[i] = IF rows[i] = Missing THEN Blank ELSE rows[i].host
  BY DEF ListOf
<1>3. \A i \in DOMAIN rows : rows[i] # Missing =>
        rows[i].host \in Peer /\ rows[i].host # Blank
  BY StatsPageAssumption DEF Filled, Row
<1>4. list \in Seq(Peer \union {Blank})
  <2>1. list = [i \in 1 .. Len(rows) |-> list[i]]
    BY <1>1 DEF ListOf
  <2>2. \A i \in 1 .. Len(rows) : list[i] \in Peer \union {Blank}
    BY <1>1, <1>2, <1>3
  <2> HIDE DEF list
  <2> QED
    BY <1>1, <2>1, <2>2
<1> HIDE DEF list
<1>5. ToSet(list) \ {Blank} = NamesIn(rows)
  BY <1>2, <1>3 DEF ToSet, NamesIn, Filled
<1>6. Blank \in ToSet(list) <=> Missing \in ToSet(rows)
  BY <1>2, <1>3 DEF ToSet
<1> QED
  BY <1>4, <1>5, <1>6 DEF list

-----------------------------------------------------------------------------
(* The inductive invariant.                                                *)

SettingsMap == UNION {[K -> Value] : K \in SUBSET Key}
PortMap == UNION {[P -> Nat] : P \in SUBSET Peer}
PeerList == Seq(Peer \union {Blank})

SksNode ==
  [Settings : SettingsMap, GossipPeers : PortMap, GossipPeerList : PeerList,
   Keycount : Int, analyzeError : BOOLEAN, pageContent : BOOLEAN, pageJson : BOOLEAN]

Result == [err : BOOLEAN, node : SksNode \union {Missing}]

(* The shape of every variable: whatever the response, every setting the   *)
(* node holds is a value and every peer's port a number.                   *)
TypeOK ==
  /\ response \in Responses
  /\ at \in {"fetch", "status", "fields", "peers", "mailsync", "settings",
             "statistics", "gossip", "minimize", "send", "returned"}
  /\ node \in SksNode
  /\ paniced \in BOOLEAN
  /\ sent \in Seq(Result)

(* What "all of the page" means for the peers and for the count of a node. *)
Section(r) == IF r.body.kind = "json" THEN r.body.peers ELSE r.body.gossip

PeersRead(n, r) ==
  /\ Section(r) # NoTable
  /\ DOMAIN n.GossipPeers = NamesIn(Rows(Section(r)))
  /\ ToSet(n.GossipPeerList) \ {Blank} = NamesIn(Rows(Section(r)))
  /\ Blank \in ToSet(n.GossipPeerList) <=> Missing \in ToSet(Rows(Section(r)))

CountRead(n, r) ==
  n.Keycount > 0 => IF r.body.kind = "html" THEN r.body.statistics = n.Keycount
                    ELSE \E f \in r.body.fields : f.value = n.Keycount

Refused(n, r) == ~r.ok /\ n.Keycount = -2 /\ n.GossipPeerList = <<>>

Whole(n, r) ==
  /\ r.ok
  /\ r.body.kind \in {"html", "json"}
  /\ PeersRead(n, r)
  /\ CountRead(n, r)
  /\ ~n.pageContent

Sound(n, r) == Whole(n, r) \/ Refused(n, r)

(* What is known of the response and the node when Analyze gets to each    *)
(* section: what it has read is the page's.                                *)
Reading ==
  /\ at = "fetch" => node = NewNode
  /\ at \notin {"fetch", "send", "returned"} =>
       body.kind \in {"html", "json", "null"}
  /\ at = "status" => /\ node.GossipPeerList = <<>>
                      /\ node.pageJson <=> body.kind = "json"
                      /\ node.pageContent <=> body.kind = "html"
  /\ at \notin {"fetch", "status", "send", "returned"} => response.ok
  /\ at \in {"fields", "peers"} => body.kind = "json"
  /\ at = "peers" => CountRead(node, response)
  /\ at = "mailsync" => /\ body.kind # "json"
                        /\ node.pageContent <=> body.kind = "html"
  /\ at \in {"settings", "statistics", "gossip"} => body.kind = "html"
  /\ at = "gossip" => CountRead(node, response)
  /\ at = "minimize" => /\ body.kind \in {"html", "json"}
                        /\ PeersRead(node, response)
                        /\ CountRead(node, response)

(* ... and what has been sent.                                             *)
Sending ==
  /\ at \notin {"send", "returned"} => sent = <<>> /\ ~paniced
  /\ at = "send" /\ ~paniced => sent = <<>> /\ Sound(node, response)
  /\ at = "send" /\ paniced => Len(sent) = 1
  /\ at = "returned" => Len(sent) = 1
  /\ \A i \in DOMAIN sent :
       ~sent[i].err => Sound(sent[i].node, response)

-----------------------------------------------------------------------------
(* Each action preserves it.                                               *)

LEMMA BodyType ==
  ASSUME response \in Responses
  PROVE  /\ response.ok \in BOOLEAN
         /\ body.kind = "html" => body \in Html
         /\ body.kind = "json" => body \in Json
BY StatsPageAssumption DEF body, Html, Json

LEMMA NodeType ==
  /\ NewNode \in SksNode
  /\ NewNode.GossipPeerList = <<>>
<1>1. <<>> \in [{} -> Value] /\ <<>> \in [{} -> Nat]
  OBVIOUS
<1> DEFINE none == <<>>
<1>2. none \in SettingsMap /\ none \in PortMap /\ none \in PeerList
  BY <1>1 DEF SettingsMap, PortMap, PeerList
<1>3. NewNode = [Settings |-> none, GossipPeers |-> none, GossipPeerList |-> none,
                 Keycount |-> 0, analyzeError |-> FALSE,
                 pageContent |-> FALSE, pageJson |-> FALSE]
  BY DEF NewNode
<1> HIDE DEF none
<1>4. NewNode \in SksNode /\ NewNode.GossipPeerList = none
  BY <1>2, <1>3 DEF SksNode
<1> QED
  BY <1>4 DEF none

LEMMA FirstResult ==
  ASSUME NEW r \in Result
  PROVE  /\ Append(<<>>, r) = <<r>> /\ Len(<<r>>) = 1
         /\ \A i \in DOMAIN <<r>> : <<r>>[i] = r
         /\ <<>> \in Seq(Result) /\ <<r>> \in Seq(Result)
OBVIOUS

LEMMA InitReading == Init => TypeOK /\ Reading /\ Sending
<1> SUFFICES ASSUME Init PROVE TypeOK /\ Reading /\ Sending
  OBVIOUS
<1>1. TypeOK
  <2>1. <<>> \in Seq(Result)
    OBVIOUS
  <2> QED
    BY <2>1, NodeType DEF Init, TypeOK
<1>2. Reading
  BY DEF Init, Reading
<1>3. Sending
  BY DEF Init, Sending
<1> QED
  BY <1>1, <1>2, <1>3

(* Fetch and its failure.                                                  *)
LEMMA FetchReading ==
  ASSUME TypeOK, Reading, Sending, FetchFails \/ Fetch
  PROVE  TypeOK' /\ Reading' /\ Sending'
<1>1. CASE FetchFails
  <2> DEFINE r == [err |-> TRUE, node |-> Missing]
  <2>1. r \in Result /\ r.err
    BY DEF Result
  <2>2. sent' = Append(<<>>, r)
    BY <1>1 DEF FetchFails, Send, Sending
  <2>3. at' = "returned" /\ UNCHANGED <<response, node, paniced>>
    BY <1>1 DEF FetchFails
  <2> HIDE DEF r
  <2>4. /\ sent' \in Seq(Result) /\ Len(sent') = 1
        /\ \A i \in DOMAIN sent' : sent'[i].err
    BY <2>1, <2>2, FirstResult
  <2> QED
    BY <2>3, <2>4 DEF TypeOK, Reading, Sending
<1>2. CASE Fetch
  <2>1. /\ at' = "status" /\ UNCHANGED <<response, paniced, sent>>
        /\ body.kind # "neither"
        /\ node' = [NewNode EXCEPT !.pageJson = body.kind = "json",
                                   !.pageContent = body.kind = "html"]
    BY <1>2 DEF Fetch, Fetchable, Reading
  <2>2. body.kind \in {"html", "json", "null"}
    BY <2>1, StatsPageAssumption DEF TypeOK, body, Html, Json
  <2>3. /\ node' \in SksNode /\ node'.GossipPeerList = <<>>
        /\ node'.pageJson <=> body.kind = "json"
        /\ node'.pageContent <=> body.kind = "html"
    BY <2>1, NodeType DEF SksNode
  <2>4. sent = <<>> /\ ~paniced
    BY <1>2 DEF Fetch, Sending
  <2> QED
    BY <2>1, <2>2, <2>3, <2>4 DEF TypeOK, Reading, Sending, body
<1> QED
  BY <1>1, <1>2

(* A step to the next section, with nothing sent.                          *)
LEMMA ReadOn ==
  ASSUME TypeOK, Sending, at \notin {"send", "returned"},
         UNCHANGED <<response, paniced, sent>>, node' \in SksNode,
         at' \in {"status", "fields", "peers", "mailsync", "settings",
                  "statistics", "gossip", "minimize", "send"},
         at' = "send" => Sound(node', response)
  PROVE  TypeOK' /\ Sending'
<1>1. sent = <<>> /\ ~paniced
  BY DEF Sending
<1> QED
  BY <1>1 DEF TypeOK, Sending

LEMMA StatusReading ==
  ASSUME TypeOK, Reading, Sending, CheckStatus
  PROVE  TypeOK' /\ Reading' /\ Sending'
<1>1. /\ at = "status" /\ UNCHANGED <<response, paniced, sent>>
      /\ node.GossipPeerList = <<>>
      /\ node.pageJson <=> body.kind = "json"
      /\ node.pageContent <=> body.kind = "html"
      /\ body.kind \in {"html", "json", "null"}
  BY DEF CheckStatus, Read, Reading
<1>2. CASE response.ok
  <2>1. /\ at' = IF node.pageJson THEN "fields" ELSE "mailsync"
        /\ node' = node
    BY <1>2 DEF CheckStatus, Read
  <2>2. Reading'
    BY <1>1, <1>2, <2>1 DEF Reading, body
  <2> QED
    BY <1>1, <2>1, <2>2, ReadOn DEF TypeOK
<1>3. CASE ~response.ok
  <2>1. /\ at' = "send"
        /\ node' = [node EXCEPT !.Keycount = -2, !.analyzeError = TRUE]
    BY <1>3 DEF CheckStatus, Read
  <2>2. /\ node' \in SksNode /\ node'.Keycount = -2
        /\ node'.GossipPeerList = node.GossipPeerList
    <3> DEFINE m == -2
    <3>1. m \in Int
      OBVIOUS
    <3>2. node' = [node EXCEPT !.Keycount = m, !.analyzeError = TRUE]
      BY <2>1
    <3> HIDE DEF m
    <3>3. /\ node' \in SksNode /\ node'.Keycount = m
          /\ node'.GossipPeerList = node.GossipPeerList
      BY <3>1, <3>2 DEF TypeOK, SksNode
    <3> QED
      BY <3>3 DEF m
  <2>3. Refused(node', response)
    BY <1>1, <1>3, <2>2 DEF Refused
  <2>4. Reading'
    BY <2>1 DEF Reading
  <2> QED
    BY <1>1, <2>1, <2>2, <2>3, <2>4, ReadOn DEF Sound
<1> QED
  BY <1>2, <1>3

(* The settings of a JSON object, and its count.                           *)
LEMMA FieldsReading ==
  ASSUME TypeOK, Reading, Sending, ReadFields
  PROVE  TypeOK' /\ Reading' /\ Sending'
<1>1. PICK s \in JsonSettings :
        Read("fields", "peers",
             [node EXCEPT !.Settings = s, !.Keycount = JsonKeycount(s)])
  BY DEF ReadFields
<1>2. /\ at = "fields" /\ at' = "peers" /\ UNCHANGED <<response, paniced, sent>>
      /\ node' = [node EXCEPT !.Settings = s, !.Keycount = JsonKeycount(s)]
      /\ response.ok /\ body.kind = "json"
  BY <1>1 DEF Read, Reading
<1>3. body.fields \subseteq Setting
  BY <1>2, BodyType DEF TypeOK, Json
<1> DEFINE usable == {f \in body.fields : f.value # Missing}
<1>4. /\ s \in [{f.key : f \in usable} -> {f.value : f \in usable}]
      /\ \A k \in DOMAIN s : [key |-> k, value |-> s[k]] \in usable
  BY DEF JsonSettings
<1>5. {f.key : f \in usable} \in SUBSET Key /\ {f.value : f \in usable} \subseteq Value
  BY <1>3 DEF Setting
<1>6. \E K \in SUBSET Key : s \in [K -> Value]
  BY <1>4, <1>5
<1>7. ASSUME NEW k \in DOMAIN s, s[k] # Text
      PROVE  s[k] \in Nat /\ \E f \in body.fields : f.value = s[k]
  <2>1. [key |-> k, value |-> s[k]] \in body.fields
    BY <1>4
  <2>2. s[k] \in Value
    BY <1>6
  <2> QED
    BY <1>7, <2>1, <2>2 DEF Value
<1>8. /\ JsonKeycount(s) \in Int
      /\ JsonKeycount(s) > 0 => \E f \in body.fields : f.value = JsonKeycount(s)
  BY <1>7 DEF JsonKeycount
<1>9. node' \in SksNode /\ node'.Keycount = JsonKeycount(s)
  <2>1. s \in SettingsMap
    BY <1>6 DEF SettingsMap
  <2> QED
    BY <1>2, <1>8, <2>1 DEF TypeOK, SksNode
<1>10. CountRead(node', response)
  BY <1>2, <1>8, <1>9 DEF CountRead, body
<1>11. Reading'
  BY <1>2, <1>10 DEF Reading, body
<1> QED
  BY <1>2, <1>9, <1>11, ReadOn

(* Its entries for the peers.                                              *)
LEMMA JsonPeersReading ==
  ASSUME TypeOK, Reading, Sending, ReadJsonPeers
  PROVE  TypeOK' /\ Reading' /\ Sending'
<1> DEFINE rows == Rows(body.peers)
           list == ListOf(rows)
           map  == Ports(rows)
<1>1. /\ at = "peers" /\ at' = "minimize" /\ UNCHANGED <<response, paniced, sent>>
      /\ node' = [node EXCEPT !.GossipPeerList = list, !.GossipPeers = map]
      /\ response.ok /\ body.kind = "json" /\ CountRead(node, response)
      /\ ~Cut(body.peers, "port")
  BY DEF ReadJsonPeers, Read, Reading, Broken
<1>2. body.peers \in Seq(Entry) \union {Missing, NoTable}
  BY <1>1, BodyType DEF TypeOK, Json
<1>3. /\ body.peers # NoTable /\ rows \in Seq(Entry)
      /\ \A i \in Filled(rows) : rows[i] \in Row /\ rows[i].port \in Nat
  BY <1>1, <1>2, UncutRows
<1> HIDE DEF rows
<1>4. /\ map \in [NamesIn(rows) -> Nat] /\ NamesIn(rows) \subseteq Peer
      /\ list \in PeerList
      /\ ToSet(list) \ {Blank} = NamesIn(rows)
      /\ Blank \in ToSet(list) <=> Missing \in ToSet(rows)
  BY <1>3, PortsOfRows, ListOfEntries DEF PeerList
<1>5. map \in PortMap /\ DOMAIN map = NamesIn(rows)
  BY <1>4 DEF PortMap
<1> HIDE DEF list, map
<1>6. /\ node' \in SksNode
      /\ node'.GossipPeerList = list /\ node'.GossipPeers = map
      /\ node'.Keycount = node.Keycount
  BY <1>1, <1>4, <1>5 DEF TypeOK, SksNode
<1>7. Section(response) = body.peers /\ Rows(Section(response)) = rows
  BY <1>1 DEF Section, body, rows
<1>8. PeersRead(node', response)
  BY <1>3, <1>4, <1>5, <1>6, <1>7 DEF PeersRead
<1>9. CountRead(node', response)
  BY <1>1, <1>6 DEF CountRead
<1>10. Reading'
  BY <1>1, <1>8, <1>9 DEF Reading, body
<1> QED
  BY <1>1, <1>6, <1>10, ReadOn

LEMMA MailsyncReading ==
  ASSUME TypeOK, Reading, Sending, ReadMailsync
  PROVE  TypeOK' /\ Reading' /\ Sending'
<1>1. /\ at = "mailsync" /\ at' = "settings" /\ UNCHANGED <<response, paniced, sent>>
      /\ node' = node /\ response.ok /\ body.kind = "html"
  BY DEF ReadMailsync, Read, Reading, Broken
<1>2. Reading'
  BY <1>1 DEF Reading, body
<1> QED
  BY <1>1, <1>2, ReadOn DEF TypeOK

(* The rows of the settings all have a value.                              *)
LEMMA SettingsOfRows ==
  ASSUME NEW section \in Seq(Setting) \union {Missing, NoTable},
         ~Cut(section, "value")
  PROVE  FromRows(Rows(section), "key", "value") \in SettingsMap
<1> DEFINE rows  == Rows(section)
           key   == "key"
           value == "value"
<1>1. /\ DOMAIN rows = 1 .. Len(rows) /\ Len(rows) \in Nat
      /\ \A i \in Filled(rows) : rows[i].key \in Key /\ rows[i].value \in Value
  <2>1. CASE section \in {Missing, NoTable}
    <3>1. rows = <<>>
      BY <2>1 DEF Cut, Rows
    <3> QED
      BY <3>1 DEF Filled
  <2>2. CASE section \notin {Missing, NoTable}
    <3>1. rows = section /\ section \in Seq(Setting)
      BY <2>2 DEF Rows
    <3>2. ASSUME NEW i \in DOMAIN section, section[i] # Missing
          PROVE  section[i].key \in Key /\ section[i].value \in Value
      <4>1. section[i] \in Setting
        BY <3>1
      <4>2. section[i]["value"] # Missing
        BY <2>2, <3>2 DEF Cut
      <4>3. section[i].value # Missing
        BY <4>2, Cells
      <4> QED
        BY <4>1, <4>3 DEF Setting
    <3> QED
      BY <3>1, <3>2 DEF Filled
  <2> QED
    BY <2>1, <2>2
<1> HIDE DEF rows, key, value
<1>2. \A i \in Filled(rows) : rows[i][value] \in Value /\ rows[i][key] \in Key
  BY <1>1, Cells DEF key, value
<1>3. FromRows(rows, key, value) \in [KeysIn(rows, key) -> Value]
  BY <1>1, <1>2, FromRowsType
<1>4. KeysIn(rows, key) \in SUBSET Key
  BY <1>2 DEF KeysIn
<1> QED
  BY <1>3, <1>4 DEF SettingsMap, rows, key, value

LEMMA SettingsReading ==
  ASSUME TypeOK, Reading, Sending, ReadSettings
  PROVE  TypeOK' /\ Reading' /\ Sending'
<1> DEFINE map == FromRows(Rows(body.settings), "key", "value")
<1>1. /\ at = "settings" /\ at' = "statistics"
      /\ UNCHANGED <<response, paniced, sent>>
      /\ node' = [node EXCEPT !.Settings = map]
      /\ response.ok /\ body.kind = "html" /\ ~Cut(body.settings, "value")
  BY DEF ReadSettings, Read, Reading, Broken
<1>2. body.settings \in Seq(Setting) \union {Missing, NoTable}
  BY <1>1, BodyType DEF TypeOK, Html
<1>3. map \in SettingsMap
  BY <1>1, <1>2, SettingsOfRows
<1> HIDE DEF map
<1>4. node' \in SksNode
  BY <1>1, <1>3 DEF TypeOK, SksNode
<1>5. Reading'
  BY <1>1 DEF Reading, body
<1> QED
  BY <1>1, <1>4, <1>5, ReadOn

LEMMA StatisticsReading ==
  ASSUME TypeOK, Reading, Sending, ReadStatistics
  PROVE  TypeOK' /\ Reading' /\ Sending'
<1> DEFINE count == CASE body.statistics = Text -> -1
                      [] body.statistics = Blank -> 0
                      [] OTHER -> body.statistics
<1>1. /\ at = "statistics" /\ at' = "gossip" /\ UNCHANGED <<response, paniced, sent>>
      /\ node' = [node EXCEPT !.Keycount = count]
      /\ response.ok /\ body.kind = "html"
      /\ body.statistics \notin {Missing, NoTable}
  BY DEF ReadStatistics, Read, Reading, Broken
<1>2. body.statistics \in Value \union {Missing, NoTable, Blank}
  BY <1>1, BodyType DEF TypeOK, Html
<1>3. count \in Int /\ (count > 0 => body.statistics = count)
  BY <1>1, <1>2 DEF Value
<1> HIDE DEF count
<1>4. node' \in SksNode /\ node'.Keycount = count
  BY <1>1, <1>3 DEF TypeOK, SksNode
<1>5. CountRead(node', response)
  BY <1>1, <1>3, <1>4 DEF CountRead, body
<1>6. Reading'
  BY <1>1, <1>5 DEF Reading, body
<1> QED
  BY <1>1, <1>4, <1>6, ReadOn

(* The table of peers: the list is the keys of the map.                    *)
LEMMA GossipReading ==
  ASSUME TypeOK, Reading, Sending, ReadGossip
  PROVE  TypeOK' /\ Reading' /\ Sending'
<1> DEFINE rows == Rows(body.gossip)
           map  == Ports(rows)
<1>1. PICK list \in SetToSeqs(DOMAIN map) :
        Read("gossip", "minimize",
             [node EXCEPT !.GossipPeers = map, !.GossipPeerList = list])
  BY DEF ReadGossip
<1>2. /\ at = "gossip" /\ at' = "minimize" /\ UNCHANGED <<response, paniced, sent>>
      /\ node' = [node EXCEPT !.GossipPeers = map, !.GossipPeerList = list]
      /\ response.ok /\ body.kind = "html" /\ CountRead(node, response)
      /\ ~Cut(body.gossip, "port")
  BY <1>1 DEF Read, Reading, Broken
<1>3. body.gossip \in Seq(Row) \union {Missing, NoTable}
  BY <1>2, BodyType DEF TypeOK, Html
<1>4. body.gossip \in Seq(Entry) \union {Missing, NoTable}
  BY <1>3 DEF Entry
<1>5. /\ body.gossip # NoTable /\ rows \in Seq(Entry)
      /\ \A i \in Filled(rows) : rows[i] \in Row /\ rows[i].port \in Nat
  BY <1>2, <1>4, UncutRows
<1>6. Missing \notin ToSet(rows)
  <2>1. rows \in Seq(Row)
    BY <1>3, <1>5 DEF Rows
  <2>2. \A i \in DOMAIN rows : rows[i] \in Row
    BY <2>1
  <2> QED
    BY <2>2, StatsPageAssumption DEF ToSet
<1> HIDE DEF rows
<1>7. /\ map \in [NamesIn(rows) -> Nat] /\ NamesIn(rows) \subseteq Peer
      /\ IsFiniteSet(NamesIn(rows))
  BY <1>5, PortsOfRows
<1>8. map \in PortMap /\ DOMAIN map = NamesIn(rows)
  BY <1>7 DEF PortMap
<1>9. list \in Seq(NamesIn(rows)) /\ ToSet(list) = NamesIn(rows)
  BY <1>7, <1>8, ListsAll
<1>10. list \in PeerList
  BY <1>7, <1>9 DEF PeerList
<1>11. Blank \notin NamesIn(rows)
  BY <1>7, StatsPageAssumption
<1> HIDE DEF map
<1>12. /\ node' \in SksNode
       /\ node'.GossipPeerList = list /\ node'.GossipPeers = map
       /\ node'.Keycount = node.Keycount
  BY <1>2, <1>8, <1>10 DEF TypeOK, SksNode
<1>13. Section(response) = body.gossip /\ Rows(Section(response)) = rows
  BY <1>2 DEF Section, body, rows
<1>14. PeersRead(node', response)
  BY <1>5, <1>6, <1>8, <1>9, <1>11, <1>12, <1>13 DEF PeersRead
<1>15. CountRead(node', response)
  BY <1>2, <1>12 DEF CountRead
<1>16. Reading'
  BY <1>2, <1>14, <1>15 DEF Reading, body
<1> QED
  BY <1>2, <1>12, <1>16, ReadOn

LEMMA MinimizeReading ==
  ASSUME TypeOK, Reading, Sending, Minimize
  PROVE  TypeOK' /\ Reading' /\ Sending'
<1>1. /\ at = "minimize" /\ at' = "send" /\ UNCHANGED <<response, paniced, sent>>
      /\ node' = [node EXCEPT !.pageContent = FALSE]
      /\ response.ok /\ body.kind \in {"html", "json"}
      /\ PeersRead(node, response) /\ CountRead(node, response)
  BY DEF Minimize, Read, Reading
<1>2. /\ node' \in SksNode /\ ~node'.pageContent
      /\ node'.Keycount = node.Keycount
      /\ node'.GossipPeers = node.GossipPeers
      /\ node'.GossipPeerList = node.GossipPeerList
  BY <1>1 DEF TypeOK, SksNode
<1>3. PeersRead(node', response) /\ CountRead(node', response)
  BY <1>1, <1>2 DEF PeersRead, CountRead
<1>4. Sound(node', response)
  BY <1>1, <1>2, <1>3 DEF Sound, Whole, body
<1>5. Reading'
  BY <1>1 DEF Reading
<1> QED
  BY <1>1, <1>2, <1>4, <1>5, ReadOn

(* The panic sends its error, and the other send then does nothing.        *)
LEMMA RecoverReading ==
  ASSUME TypeOK, Reading, Sending, Recover
  PROVE  TypeOK' /\ Reading' /\ Sending'
<1> DEFINE r == [err |-> TRUE, node |-> node']
<1>1. /\ at \notin {"send", "returned"} /\ at' = "send" /\ paniced'
      /\ node' = [node EXCEPT !.analyzeError = TRUE] /\ response' = response
      /\ sent' = Append(sent, r)
  BY DEF Recover, Broken, Send
<1>2. node' \in SksNode /\ paniced' = TRUE
  BY <1>1 DEF TypeOK, SksNode, Recover
<1>3. sent = <<>> /\ r \in Result /\ r.err
  BY <1>1, <1>2 DEF Sending, Result
<1> HIDE DEF r
<1>4. /\ sent' \in Seq(Result) /\ Len(sent') = 1
      /\ \A i \in DOMAIN sent' : sent'[i].err
  BY <1>1, <1>3, FirstResult
<1> QED
  BY <1>1, <1>2, <1>4 DEF TypeOK, Reading, Sending

LEMMA SendReading ==
  ASSUME TypeOK, Reading, Sending, SendUnlessPaniced
  PROVE  TypeOK' /\ Reading' /\ Sending'
<1>1. /\ at = "send" /\ at' = "returned" /\ UNCHANGED <<response, node, paniced>>
  BY DEF SendUnlessPaniced
<1>2. CASE paniced
  <2>1. sent' = sent /\ Len(sent) = 1
    BY <1>1, <1>2 DEF SendUnlessPaniced, Sending
  <2> QED
    BY <1>1, <2>1 DEF TypeOK, Reading, Sending
<1>3. CASE ~paniced
  <2> DEFINE r == [err |-> FALSE, node |-> node]
  <2>1. sent' = Append(<<>>, r) /\ Sound(node, response)
    BY <1>1, <1>3 DEF SendUnlessPaniced, Send, Sending
  <2>2. r \in Result /\ r.node = node
    BY DEF TypeOK, Result
  <2> HIDE DEF r
  <2>3. /\ sent' \in Seq(Result) /\ Len(sent') = 1
        /\ \A i \in DOMAIN sent' : sent'[i] = r
    BY <2>1, <2>2, FirstResult
  <2> QED
    BY <1>1, <2>1, <2>2, <2>3 DEF TypeOK, Reading, Sending
<1> QED
  BY <1>2, <1>3

LEMMA NextReading ==
  TypeOK /\ Reading /\ Sending /\ [Next]_vars => (TypeOK /\ Reading /\ Sending)'
<1> SUFFICES ASSUME TypeOK, Reading, Sending, [Next]_vars
             PROVE  TypeOK' /\ Reading' /\ Sending'
  OBVIOUS
<1>1. CASE UNCHANGED vars
  BY <1>1 DEF vars, TypeOK, Reading, Sending, body
<1> QED
  BY <1>1, FetchReading, StatusReading, FieldsReading, JsonPeersReading,
     MailsyncReading, SettingsReading, StatisticsReading, GossipReading,
     MinimizeReading, RecoverReading, SendReading DEF Next

(* QueryHost keeps its node well-formed whatever the server sends: a       *)
(* setting without a value and a peer without a port never get into it,    *)
(* because Analyze panics where it meets one.                              *)
THEOREM TypeCorrect == Spec => []TypeOK
BY InitReading, NextReading, PTL DEF Spec

(* QueryHost never sends a second result: once Analyze has panicked and    *)
(* the deferred function has sent its error, analyzePaniced keeps the last *)
(* lines from sending, so that the main loop takes one off its counts.     *)
THEOREM NoSecondResult == Spec => [](Len(sent) <= 1)
<1>1. Sending => sent = <<>> \/ Len(sent) = 1
  BY DEF Sending
<1>2. Sending => Len(sent) <= 1
  BY <1>1
<1> QED
  BY <1>2, InitReading, NextReading, PTL DEF Spec

(* A result without an error is the whole page or a refusal, for every     *)
(* page: Analyze reaches its end only past every section.                  *)
THEOREM OnlyWholePages == Spec => []WholePageOrError
<1>1. Sending => WholePageOrError
  BY DEF Sending, WholePageOrError, Sound, Whole, Refused, PeersRead, CountRead,
         Section, NamesIn, Filled, body
<1> QED
  BY <1>1, InitReading, NextReading, PTL DEF Spec
=============================================================================
