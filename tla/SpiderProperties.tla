-------------------------- MODULE SpiderProperties --------------------------
(***************************************************************************)
(* What a crawl has to get right, stated over the state of Spider.         *)
(***************************************************************************)
EXTENDS Spider

(* The shape of every variable of the crawl.                               *)
TypeOK ==
  /\ caller \in {"starting", "waiting", "terminating", "done"}
  /\ pc \in {"select", "batch", "send", "finish", "terminated"}
  /\ request \in Request
  /\ handling \in {Idle} \cup [kind : {"dns", "host"}, of : Host]
                         \cup [kind : {"country"}, of : IP]
  /\ queue \in Seq(Request)
  /\ lookups \subseteq Host /\ fetches \subseteq Host /\ geoQueries \subseteq IP
  /\ pending \in Int
  /\ considering \subseteq Host /\ badDNS \subseteq Host
  /\ queryErrors \subseteq Host
  /\ knownHosts \in [Host -> Host \cup {Absent}]
  /\ aliasesForHost \in [Host -> SUBSET Host]
  /\ knownIPs \in [IP -> Host \cup {Absent}]
  /\ ipsForHost \in [Host -> SUBSET IP]
  /\ serverInfos \in [Host -> {Absent, Nil} \cup Node]
  /\ distances \in [Host -> Int]
  /\ countriesForIPs \in [IP -> {Absent, "asked", "found"}]
  /\ pendingHosts \in [Host -> Int]
  /\ pendingCountries \in [IP -> Int]

-----------------------------------------------------------------------------
(* The WaitGroup protocol described in the comment of Spider.Wait.         *)

(* The places of the names in a channel's contents.                        *)
Places(q) == UNION {{i} \X DOMAIN q[i].hostnames : i \in DOMAIN q}

Queued == Places(queue)

(* 1 while the loop holds a received result it has not called Done for.    *)
Handled == IF pc \in {"send", "finish"} THEN 1 ELSE 0

(* The units of work nobody has finished: names in the channel, names of   *)
(* the request in hand, the result in hand, and the running goroutines.    *)
Outstanding ==
  Cardinality(Queued) + Len(request.hostnames) + Handled
  + Cardinality(lookups) + Cardinality(fetches) + Cardinality(geoQueries)

(* Every unit of work is in one place only: a name is being looked up or   *)
(* fetched but not both, a running country query is on record as asked,    *)
(* and the loop carries names exactly while it walks through or sends them.*)
WorkInOnePlace ==
  /\ lookups \subseteq considering
  /\ fetches \subseteq considering \ lookups
  /\ \A ip \in geoQueries : countriesForIPs[ip] # Absent
  /\ pc = "batch" => request.hostnames # <<>>
  /\ pc \in {"select", "finish", "terminated"} => request.hostnames = <<>>

(* The WaitGroup counts exactly the work that is outstanding, whatever the *)
(* order in which names are dropped and results arrive, so it never goes   *)
(* negative (a panic) and never stays up when nothing runs (a hang).       *)
Accounting == pending = Outstanding

(* Once Wait has returned, as before the seed, the maps are at rest:       *)
(* nothing that could change them is running, waiting in the channel, or   *)
(* in the loop's hands.                                                    *)
WorkOnlyWhileWaiting == caller # "waiting" => Outstanding = 0

Once(b) == IF b THEN 1 ELSE 0

OutstandingFor(h) ==
  Cardinality({p \in Queued : queue[p[1]].hostnames[p[2]] = h})
  + Occurrences(request.hostnames, h)
  + Once(h \in lookups) + Once(h \in fetches)
  + Once(handling.kind \in {"dns", "host"} /\ handling.of = h)

(* The "Wait: n name" lines of /scanstatusz, there for a crawl that hangs, *)
(* name exactly the hosts the WaitGroup is still held up by, and how often.*)
PendingHostsExact == \A h \in Host : pendingHosts[h] = OutstandingFor(h)

-----------------------------------------------------------------------------
(* "We query a host as few times as possible ... de-duping by IP address". *)

(* A name whose DNS lookup has ended is never looked up again, and a name  *)
(* is fetched only straight after its own lookup, so at most once.         *)
QueriedOnce ==
  [][/\ \A h \in considering \ lookups : h \notin lookups'
     /\ \A h \in fetches' \ fetches : h \in lookups \ lookups']_vars

(* A fetch starts only for a server none of whose addresses has been seen, *)
(* and an address once seen stays seen, so no two fetches of a crawl go to *)
(* names that share an address.                                            *)
DedupedByAddress ==
  [][/\ \A h \in fetches' \ fetches : \A ip \in IP :
          ip \in ipsForHost'[h] => knownIPs[ip] = Absent
     /\ \A ip \in IP : knownIPs[ip] # Absent => knownIPs'[ip] # Absent]_vars

(* Every name a lookup was started for is still being looked up, or is on  *)
(* record as having bad DNS, or resolves to a canonical name.              *)
NoNameLost ==
  \A h \in considering :
    h \in lookups \/ h \in badDNS \/ knownHosts[h] # Absent

(* While a host is being queried nothing takes away the entries its result *)
(* will be merged from, even if another server answers with the same name. *)
InFlightIntact ==
  \A h \in fetches :
    /\ serverInfos[h] # Absent
    /\ h \in aliasesForHost[h]
    /\ ipsForHost[h] # {}
    /\ distances[h] # NoDistance

(* What GeneratePersistedInformation reads for each published server is    *)
(* there: at least one address (a host without any is left out of the      *)
(* peers page), its own alias, and a distance.                             *)
PublishedComplete ==
  \A c \in Host :
    serverInfos[c] \in Node =>
      /\ ipsForHost[c] # {}
      /\ c \in aliasesForHost[c]
      /\ distances[c] # NoDistance

-----------------------------------------------------------------------------
(* What holds besides in a mesh whose servers all go by the name they are  *)
(* queried under.                                                          *)

(* No server gives itself another hostname, and none claims a node name    *)
(* that could be queried, but for the start host's.                        *)
GoByOwnName(pages) ==
  \A h \in Host : \A page \in pages[h] \ {Absent} :
    /\ page.hostname \notin Dotted \ {h}
    /\ page.nodename \in {Absent, h, StartHost} \cup Ignored

Published(c) == serverInfos[c] \in Node
Peers(c) == {serverInfos[c].GossipPeerList[i] :
               i \in DOMAIN serverInfos[c].GossipPeerList}

(* A distance is only ever corrected downwards ("Promoting host to be      *)
(* nearer").                                                               *)
NeverFarther ==
  [][\A h \in Host : distances[h] # NoDistance =>
       distances'[h] # NoDistance /\ distances'[h] <= distances[h]]_vars

(* Every distance is accounted for by the mesh: the host is the start, or  *)
(* a published server at least one hop nearer lists it as a peer.          *)
DistanceWitnessed ==
  \A h \in Host : distances[h] # NoDistance =>
    \/ h = StartHost /\ distances[h] = 0
    \/ \E p \in Host : /\ Published(p) /\ h \in Peers(p)
                      /\ distances[p] < distances[h]

(* The two address maps agree: an address that leads to a host is among    *)
(* the addresses that host is published with.                              *)
AddressesAgree ==
  \A ip \in IP : knownIPs[ip] # Absent => ip \in ipsForHost[knownIPs[ip]]

-----------------------------------------------------------------------------
(* The loop writes to the channel only it reads.                           *)

(* The send inside processHostResult finds room in the channel.            *)
SendNeverBlocks == pc = "send" => Len(queue) < QUEUE_DEPTH

(* The names that may answer, and those of them that already have.         *)
Answering == {h \in Host : Page[h] \ {Absent} # {}}
Answered == Answering \cap (considering \ (lookups \cup fetches))

(* Apart from the seed, every request in the channel or on its way there   *)
(* is the one answer of a different name, so a mesh in which no more than  *)
(* QUEUE_DEPTH names answer never fills the channel.                       *)
OneRequestPerAnswer ==
  IF considering = {}
    THEN /\ pc # "send"
         /\ Len(queue) <= 1
         /\ caller = "starting" => queue = <<>> /\ pc # "batch"
         /\ pc = "batch" => queue = <<>>
    ELSE /\ caller # "starting"
         /\ Len(queue) + (IF pc = "send" THEN 1 ELSE 0) <= Cardinality(Answered)

WG == INSTANCE WaitGroup WITH
  work <- Outstanding,
  waiter <- CASE caller = "starting" -> "starting"
              [] caller = "waiting"  -> "waiting"
              [] OTHER               -> "released"

(* The loop, its channel and its counter implement the abstract promise:   *)
(* work is never lost or resurrected, and the caller is released when, and *)
(* only when, none is left.                                                *)
ImplementsWaitGroup == WG!Spec

(* The crawl ends: Wait returns and the loop terminates.                   *)
CrawlEnds == <>(caller = "done")

-----------------------------------------------------------------------------
(* Claims made by comments of the code.                                    *)

(* knownHosts: "aliases to canonical hostname from server info page", and  *)
(* serverInfos: "key should be canonical hostname": what an alias resolves *)
(* to is a name that server information is kept under.                     *)
AliasesResolve ==
  \A h, c \in Host :
    caller = "done" /\ knownHosts[h] = c => serverInfos[c] # Absent

(* "should be shiny new host after this point": a fetch starts only for a  *)
(* name nothing is recorded about.                                         *)
ShinyNewHost ==
  [][\A h \in fetches' \ fetches :
       knownHosts[h] = Absent /\ serverInfos[h] = Absent]_vars
=============================================================================
