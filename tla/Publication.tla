---------------------------- MODULE Publication ----------------------------
(***************************************************************************)
(* What is made of a finished crawl: the host map, the alias map and the   *)
(* peering graph (hostmap.go, graph.go, depth.go), and what the pages read *)
(* off them (http.go, http_graph.go).                                      *)
(*                                                                         *)
(* All of it is a function of the crawl's maps once Wait has returned, so  *)
(* the definitions are operators over the state of Spider, and the         *)
(* properties say what holds of them when the caller is done.  A sorted    *)
(* list of names without duplicates is a sequence; a sortedSet is a set.   *)
(***************************************************************************)
EXTENDS SpiderProperties, SequencesExt

CONSTANTS
  HostOrder,  \* every hostname, in the order of HostSort
  Lower       \* strings.ToLower

ASSUME PublicationAssumption ==
  /\ HostOrder \in Seq(Host) /\ Len(HostOrder) = Cardinality(Host)
  /\ {HostOrder[i] : i \in DOMAIN HostOrder} = Host
  /\ Lower \in [Host -> Host]
  /\ \A h \in Host : Lower[Lower[h]] = Lower[h]

(* The names of a set, sorted.                                             *)
HostSort(S) ==
  FoldLeft(LAMBDA sorted, h : IF h \in S THEN Append(sorted, h) ELSE sorted,
           <<>>, HostOrder)

-----------------------------------------------------------------------------
(* GeneratePersistedInformation.                                           *)

Sorted == HostSort({c \in Host : Published(c)})

HostMap ==
  [c \in {x \in Host : Published(x)} |->
     [Hostname |-> serverInfos[c].Hostname,
      Peers    |-> Peers(c),
      IpList   |-> ipsForHost[c],
      Aliases  |-> aliasesForHost[c] \ {c},
      Distance |-> IF distances[c] = NoDistance THEN 0 ELSE distances[c]]]

IPCountryMap == {ip \in IP : countriesForIPs[ip] = "found"}

Claimants(hostMap, x) == {c \in DOMAIN hostMap : x \in hostMap[c].Aliases \cup {c}}

(* Mutant of AliasMap: the aliases are left out.                           *)
OwnNames(hostMap) == [x \in DOMAIN hostMap |-> x]

Place(h) == CHOOSE i \in DOMAIN HostOrder : HostOrder[i] = h

(* Written host by host in sorted order, so the last claim of a name wins. *)
AliasMap(hostMap) ==
  [x \in {y \in Host : Claimants(hostMap, y) # {}} |->
     CHOOSE c \in Claimants(hostMap, x) :
       \A d \in Claimants(hostMap, x) : Place(d) <= Place(c)]

(* GetAliasMapForHostmap goes through the map in no particular order.      *)
ReloadedAliasMaps(hostMap) ==
  {m \in [DOMAIN AliasMap(hostMap) -> DOMAIN hostMap] :
     \A x \in DOMAIN m : m[x] \in Claimants(hostMap, x)}

(* A host at unknown distance comes after all the others.                  *)
Depth(hostMap, c) ==
  LET known == {hostMap[x].Distance : x \in DOMAIN hostMap} \ {NoDistance}
  IN  IF hostMap[c].Distance # NoDistance THEN hostMap[c].Distance
      ELSE Max(known \cup {0}) + 1

(* Mutant of GenerateDepthSorted: depths are not separated.                *)
SortedByName(hostMap) == HostSort(DOMAIN hostMap)

GenerateDepthSorted(hostMap) ==
  LET deepest == Max({Depth(hostMap, c) : c \in DOMAIN hostMap} \cup {0})
  IN  FlattenSeq([i \in 1 .. deepest + 1 |->
                    HostSort({c \in DOMAIN hostMap : Depth(hostMap, c) = i - 1})])

-----------------------------------------------------------------------------
(* GenerateGraph.  The graph and the persisted information share one alias *)
(* map, which addHost extends.                                             *)

Ensure(sets, key) ==
  [k \in DOMAIN sets \cup {key} |-> IF k \in DOMAIN sets THEN sets[k] ELSE {}]
Insert(sets, key, h) == [Ensure(sets, key) EXCEPT ![key] = @ \cup {h}]

(* A peer nobody is known by gets an alias of its own.                     *)
AddAliases(aliases, lowered, given) ==
  [h \in DOMAIN aliases \cup {lowered, given} |->
     IF h \in {lowered, given} THEN lowered ELSE aliases[h]]

(* Mutant of AddPeer: the link is kept under the name the peer is listed by. *)
AddPeerAsListed(name, g, given) ==
  LET lowered == Lower[given]
  IN  [aliases  |-> IF lowered \in DOMAIN g.aliases THEN g.aliases
                    ELSE AddAliases(g.aliases, lowered, given),
       outbound |-> Insert(g.outbound, name, lowered),
       inbound  |-> Ensure(Insert(g.inbound, lowered, name), name)]

AddPeer(name, g, given) ==
  LET lowered == Lower[given]
      known   == lowered \in DOMAIN g.aliases
      peer    == IF known THEN g.aliases[lowered] ELSE lowered
  IN  [aliases  |-> IF known THEN g.aliases
                    ELSE AddAliases(g.aliases, lowered, given),
       outbound |-> Insert(g.outbound, name, peer),
       inbound  |-> Insert(g.inbound, peer, name)]

AddPeers(name, g, peers) ==
  FoldLeft(LAMBDA acc, given : AddPeer(name, acc, given), g, peers)

(* Mutant of AddHostToGraph: a host gets its inbound set from its peers.   *)
AddHostOutbound(hostMap, g, hn) ==
  AddPeers(Lower[hn], [g EXCEPT !.outbound = Ensure(@, Lower[hn])],
           HostSort(hostMap[hn].Peers))

AddHostToGraph(hostMap, g, hn) ==
  AddPeers(Lower[hn],
           [aliases  |-> g.aliases,
            outbound |-> Ensure(g.outbound, Lower[hn]),
            inbound  |-> Ensure(g.inbound, Lower[hn])],
           HostSort(hostMap[hn].Peers))

AddHosts(hostMap, g, names) ==
  FoldLeft(LAMBDA acc, hn : AddHostToGraph(hostMap, acc, hn), g, names)

(* It ensures the members of the inbound sets, which all have sets.        *)
FixOutbounds(g) ==
  LET members == UNION {g.inbound[k] : k \in DOMAIN g.inbound}
  IN  [g EXCEPT !.outbound =
         [k \in DOMAIN @ \cup members |-> IF k \in DOMAIN @ THEN @[k] ELSE {}]]

GenerateGraph(hostMap, aliasMap) ==
  FixOutbounds(AddHosts(hostMap,
                        [aliases |-> aliasMap, outbound |-> <<>>, inbound |-> <<>>],
                        HostSort(DOMAIN hostMap)))

ExistsLink(g, from, to) ==
  /\ {Lower[from], Lower[to]} \subseteq DOMAIN g.aliases
  /\ g.aliases[Lower[from]] \in g.inbound[g.aliases[Lower[to]]]

(* Mutant of AllPeersOf: only the peers a host lists itself.               *)
ListedPeersOf(g, name) ==
  LET canon == g.aliases[Lower[name]]
  IN  IF Lower[name] \notin DOMAIN g.aliases THEN {} ELSE g.outbound[canon]

AllPeersOf(g, name) ==
  LET canon == g.aliases[Lower[name]]
      Of(sets) == IF canon \in DOMAIN sets THEN sets[canon] ELSE {}
  IN  IF Lower[name] \notin DOMAIN g.aliases THEN {}
      ELSE Of(g.outbound) \cup Of(g.inbound)

LabelMutualWithBase(g, name) ==
  IF StartHost \notin DOMAIN g.aliases THEN "panic"
  ELSE LET base == g.aliases[StartHost]
       IN  IF name \notin DOMAIN g.aliases THEN "No"
           ELSE IF g.aliases[name] = base THEN "n/a"
           ELSE IF /\ ExistsLink(g, g.aliases[name], base)
                   /\ ExistsLink(g, base, g.aliases[name]) THEN "Yes" ELSE "No"

-----------------------------------------------------------------------------
(* The pages.                                                              *)

(* apiPeersPage stops counting at the first host further away.             *)
PeerCount(hostMap, order) ==
  LET Distance(i) == hostMap[order[i]].Distance
      counted == {i \in DOMAIN order : \A j \in 1 .. i : Distance(j) <= 1}
  IN  Cardinality({i \in counted : Distance(i) = 1})

(* apiPeerInfoPage: "?" stands for a peer without a node.                  *)
InColumn(g, peer, other) ==
  IF other \notin DOMAIN g.aliases THEN "?"
  ELSE IF ExistsLink(g, other, peer) THEN "yes" ELSE "no"

(* Mutant of Line: the link itself is looked up, not its reverse.          *)
LineForwards(g, page, link) ==
  LET backwards == <<link[2], link[1]>>
      both == ExistsLink(g, link[1], link[2])
  IN  IF backwards \in page.shown THEN page
      ELSE [shown |-> IF both THEN page.shown \cup {backwards} ELSE page.shown,
            lines |-> Append(page.lines,
                             [from |-> link[1], to |-> link[2], both |-> both])]

(* apiGraphDot: one line per link, but for those that shown holds.         *)
Line(g, page, link) ==
  LET backwards == <<link[2], link[1]>>
      both == ExistsLink(g, link[2], link[1])
  IN  IF backwards \in page.shown THEN page
      ELSE [shown |-> IF both THEN page.shown \cup {backwards} ELSE page.shown,
            lines |-> Append(page.lines,
                             [from |-> link[1], to |-> link[2], both |-> both])]

DrawLinks(g, links) ==
  FoldLeft(LAMBDA page, link : Line(g, page, link), [shown |-> {}, lines |-> <<>>], links)

DotLines(g, names) ==
  LET links == FlattenSeq(
        [i \in DOMAIN names |->
           LET out == HostSort(g.outbound[Lower[names[i]]])
           IN  [j \in DOMAIN out |-> <<names[i], out[j]>>]])
  IN  DrawLinks(g, links).lines

-----------------------------------------------------------------------------
AtRest == caller = "done"
Graph == GenerateGraph(HostMap, AliasMap(HostMap))

(* The peers page lists every published host once, nearest first, and      *)
(* counts all the direct peers although it stops at the first host further *)
(* away.                                                                   *)
PeersPageComplete ==
  AtRest =>
    LET order == GenerateDepthSorted(HostMap)
    IN  /\ Len(order) = Cardinality(DOMAIN HostMap)
        /\ \A c \in DOMAIN HostMap : \E i \in DOMAIN order : order[i] = c
        /\ \A i, j \in DOMAIN order :
             i < j => HostMap[order[i]].Distance <= HostMap[order[j]].Distance
        /\ PeerCount(HostMap, order) =
             Cardinality({c \in DOMAIN HostMap : HostMap[c].Distance = 1})

(* The peers a host lists, each under the name it is published by if it is. *)
Listed(c) ==
  LET aliasMap == AliasMap(HostMap)
  IN  {IF Lower[x] \in DOMAIN aliasMap THEN aliasMap[Lower[x]] ELSE Lower[x] :
         x \in HostMap[c].Peers}

(* /peer-info shows the host it was asked for, and not another one that    *)
(* took over its name; its rows are, each under one name, the peers the    *)
(* host lists and the hosts that list it, whatever aliases and capitals    *)
(* the lists use; and it says of a row that the peer lists the host just   *)
(* when a page of the peer was read that does.                             *)
PeerInfoExact ==
  AtRest =>
    LET g == Graph
        Own(c) == Lower[HostMap[c].Hostname]
    IN  \A c \in DOMAIN HostMap :
          LET listing == {p \in DOMAIN HostMap : c \in Listed(p)}
          IN  /\ Own(c) \in DOMAIN g.aliases /\ g.aliases[Own(c)] = c
              /\ AllPeersOf(g, HostMap[c].Hostname) = Listed(c) \cup listing
              /\ \A x \in Listed(c) \cup listing :
                   InColumn(g, c, x) = "yes" <=> x \in listing

(* "I don't want to deal with nil's elsewhere" (graph.go): whatever a page *)
(* asks of the graph, it asks a set that is there, of the hosts that are   *)
(* down and of the hosts nobody lists too.                                 *)
NoNilSets ==
  AtRest =>
    LET g == Graph
        Shown(c) == {c} \cup AllPeersOf(g, HostMap[c].Hostname)
        asked == {StartHost} \cup UNION {Shown(c) : c \in DOMAIN HostMap}
    IN  /\ \A c \in DOMAIN HostMap : Lower[c] \in DOMAIN g.outbound
        /\ \A x \in asked : Lower[x] \in DOMAIN g.aliases =>
             g.aliases[Lower[x]] \in DOMAIN g.inbound

(* The dot file has a line for each published host and each peer it lists, *)
(* under whichever name, and no line besides; a line is marked dir=both    *)
(* just when a page of the peer was read that lists the host too.  So a    *)
(* mutual link has a line from either side.  "we don't emit a second       *)
(* bi-directional from the other side" (http_graph.go) is not what the     *)
(* code does: the key one side puts into shown is the one it has looked    *)
(* up, and the other side looks up the reverse.                            *)
DotLinesExact ==
  AtRest =>
    LET hosts == DOMAIN HostMap
        Drawn(c, p) ==
          [from |-> c, to |-> p, both |-> p \in hosts /\ c \in Listed(p)]
    IN  ToSet(DotLines(Graph, Sorted)) =
          UNION {{Drawn(c, p) : p \in Listed(c)} : c \in hosts}

(* Whatever another name a server gives itself, a server that is queried   *)
(* under that name goes by it.                                             *)
NamesSettled(pages) ==
  \A h \in Host : \A page \in pages[h] \ {Absent} :
    LET c == Canonical(h, page)
    IN  c # h => \A own \in pages[c] \ {Absent} : Canonical(c, own) = c

(* The start host, and every server, is called by a name in lower case.    *)
NamedInLowerCase(pages) ==
  /\ Lower[StartHost] = StartHost
  /\ \A h \in Host : \A page \in pages[h] \ {Absent} :
       LET c == Canonical(h, page) IN Lower[c] = c

(* A server that is queried in capitals goes by the name it is queried by. *)
CapitalsAreOwnName(pages) ==
  \A h \in Host : \A page \in pages[h] \ {Absent} :
    Lower[h] # h => Canonical(h, page) = Lower[h]

(* A restart from the JSON dump publishes the aliases the crawl published, *)
(* although it goes through the hosts in another order.                    *)
ReloadKeepsAliases ==
  AtRest => ReloadedAliasMaps(HostMap) = {AliasMap(HostMap)}

(* A host is labelled mutual exactly when it and the start host list each  *)
(* other, under whichever of their names: the names of down peers that are *)
(* added to the shared alias map while the graph is built change nothing.  *)
MutualLabelRight ==
  AtRest =>
    \A c \in DOMAIN HostMap :
      LET base == Claimants(HostMap, StartHost)
          Lists(p, q) == \E x \in HostMap[p].Peers : q \in Claimants(HostMap, Lower[x])
      IN  base # {} /\ c \notin base =>
            (LabelMutualWithBase(Graph, c) = "Yes" <=>
               \E s \in base : Lists(s, c) /\ Lists(c, s))

-----------------------------------------------------------------------------
(* A claim made by an assertion of the code.                               *)

(* panic("no known alias for start host") cannot happen on the peers page. *)
StartHostHasAlias ==
  AtRest => \A c \in DOMAIN HostMap :
    HostMap[c].Distance = 1 => LabelMutualWithBase(Graph, c) # "panic"

=============================================================================
