------------------------------- MODULE Spider -------------------------------
(***************************************************************************)
(* One data-gathering run of the spider (spider.go): the goroutine that    *)
(* runs spiderMainLoop and owns every map, the goroutines it starts for    *)
(* DNS lookups, stats-page fetches and country lookups, the batchAddHost   *)
(* channel the main loop both reads and writes, and the caller that seeds  *)
(* the crawl, waits on the WaitGroup and terminates the loop.              *)
(*                                                                         *)
(* A worker goroutine does nothing after sending its result, and only it   *)
(* blocks when its result channel is full.  So a result that was computed  *)
(* but not yet received cannot be told from one still being computed, and  *)
(* the three result channels are folded into the sets of running workers:  *)
(* lookups, fetches and geoQueries.  batchAddHost is kept as it is, with   *)
(* its capacity, because there the blocked sender is the only receiver.    *)
(*                                                                         *)
(* Slices whose order comes from outside are sets: a resolver returns      *)
(* addresses in any order, so "the first address that is disallowed or     *)
(* known" is some such address.  Go maps are total functions in which      *)
(* Absent, NoDistance, or the empty set (where no empty entry is stored)   *)
(* stands for a missing key.                                               *)
(*                                                                         *)
(* A definition whose comment starts with "Mutant of" is not part of the   *)
(* model: it is the bug a property is shown to be able to catch.           *)
(***************************************************************************)
EXTENDS Integers, Sequences, FiniteSets

CONSTANTS
  Host,         \* hostnames, "" among them when a peer entry is malformed
  IP,           \* addresses
  Absent,       \* a missing map key, setting or page
  Nil,          \* the nil *SksNode stored while a host is being queried
  QUEUE_DEPTH,  \* capacity of batchAddHost
  StartHost,    \* -spider-start-host
  Dotted,       \* the names that contain a "."
  Ignored,      \* names refused by how they look: blacklisted, IP literal,
                \* unqualified, pool, .local
  Disallowed,   \* addresses IPDisallowed refuses
  Lookup,       \* Lookup[h]: the answers DNS may give for h; {} is an error
  Page          \* Page[h]: what fetching and analysing h may give; Absent is
                \* an error, a timeout or a panic in Analyze

Node == [Hostname : Host, GossipPeerList : Seq(Host)]
Reply == [hostname : Host \cup {Absent},
          nodename : Host \cup {Absent},
          peers    : Seq(Host)]

ASSUME SpiderAssumption ==
  /\ IsFiniteSet(Host) /\ IsFiniteSet(IP)
  /\ Absent \notin Host \cup Node \cup Reply \cup {Nil, "asked", "found"}
  /\ Nil \notin Node
  /\ QUEUE_DEPTH \in Nat \ {0}
  /\ StartHost \in Host
  /\ Dotted \subseteq Host /\ Ignored \subseteq Host /\ Disallowed \subseteq IP
  /\ Host \ Dotted \subseteq Ignored
  /\ Lookup \in [Host -> SUBSET SUBSET IP]
  /\ DOMAIN Page = Host
  /\ \A h \in Host : Page[h] \subseteq Reply \cup {Absent}

NoDistance == -1
Request == [hostnames : Seq(Host), origin : Host \cup {Absent}, distance : Nat]
NoRequest == [hostnames |-> <<>>, origin |-> Absent, distance |-> 0]
Idle == [kind |-> "none", of |-> Absent]

VARIABLES
  caller,           \* where the goroutine that runs the crawl is
  pc,               \* where spiderMainLoop is
  request,          \* the request it is walking through, or trying to send
  handling,         \* the result it is handling
  queue,            \* batchAddHost
  lookups,          \* hostnames with a running DNS goroutine
  fetches,          \* hostnames with a running QueryHost
  geoQueries,       \* addresses with a running QueryCountryForIP
  pending,          \* the WaitGroup
  considering, badDNS, queryErrors,
  knownHosts, aliasesForHost, knownIPs, ipsForHost, serverInfos, distances,
  countriesForIPs, pendingHosts, pendingCountries

control   == <<caller, pc, request, handling, queue>>
workers   == <<lookups, fetches, geoQueries>>
directory == <<knownHosts, aliasesForHost, knownIPs, ipsForHost, serverInfos>>
counters  == <<pending, pendingHosts, pendingCountries>>
vars == <<control, workers, directory, counters, considering, badDNS,
          queryErrors, distances, countriesForIPs>>

-----------------------------------------------------------------------------
(* StartSpider: every map empty, the main loop at its select.              *)
Init ==
  /\ caller = "starting"
  /\ pc = "select" /\ request = NoRequest /\ handling = Idle /\ queue = <<>>
  /\ lookups = {} /\ fetches = {} /\ geoQueries = {}
  /\ pending = 0
  /\ considering = {} /\ badDNS = {} /\ queryErrors = {}
  /\ knownHosts = [h \in Host |-> Absent]
  /\ aliasesForHost = [h \in Host |-> {}]
  /\ knownIPs = [ip \in IP |-> Absent]
  /\ ipsForHost = [h \in Host |-> {}]
  /\ serverInfos = [h \in Host |-> Absent]
  /\ distances = [h \in Host |-> NoDistance]
  /\ countriesForIPs = [ip \in IP |-> Absent]
  /\ pendingHosts = [h \in Host |-> 0]
  /\ pendingCountries = [ip \in IP |-> 0]

-----------------------------------------------------------------------------
(* The caller: AddHost(start, 0); Wait(); Terminate().                     *)

AddHost ==
  /\ caller = "starting"
  /\ Len(queue) < QUEUE_DEPTH
  /\ pending' = pending + 1
  /\ pendingHosts' = [pendingHosts EXCEPT ![StartHost] = @ + 1]
  /\ queue' = Append(queue, [hostnames |-> <<StartHost>>, origin |-> Absent,
                             distance |-> 0])
  /\ caller' = "waiting"
  /\ UNCHANGED <<pc, request, handling, workers, directory, pendingCountries,
                 considering, badDNS, queryErrors, distances, countriesForIPs>>

Wait ==
  /\ caller = "waiting"
  /\ pending = 0
  /\ caller' = "terminating"
  /\ UNCHANGED <<pc, request, handling, queue, workers, directory, counters,
                 considering, badDNS, queryErrors, distances, countriesForIPs>>

(* The unbuffered send on spider.terminate meets the loop's select.        *)
Terminate ==
  /\ caller = "terminating"
  /\ pc = "select"
  /\ caller' = "done"
  /\ pc' = "terminated"
  /\ UNCHANGED <<request, handling, queue, workers, directory, counters,
                 considering, badDNS, queryErrors, distances, countriesForIPs>>

-----------------------------------------------------------------------------
(* case hostreq := <-spider.batchAddHost, and considerHost for each name.  *)

(* Mutant of AfterBatch: the loop over the names returns at the first one. *)
AfterFirstName(r) == "select"

AfterBatch(r) == IF r.hostnames = <<>> THEN "select" ELSE "batch"
Remaining(r) == IF r.hostnames = <<>> THEN NoRequest ELSE r

ReceiveRequest ==
  /\ pc = "select"
  /\ queue # <<>>
  /\ queue' = Tail(queue)
  /\ request' = Remaining(Head(queue))
  /\ pc' = AfterBatch(Head(queue))
  /\ UNCHANGED <<caller, handling, workers, directory, counters, considering,
                 badDNS, queryErrors, distances, countriesForIPs>>

(* Mutant of RequestDistance: a peer is placed as near as its origin.      *)
OriginDistance(r) ==
  IF r.origin # Absent /\ distances[r.origin] # NoDistance
    THEN distances[r.origin]
    ELSE r.distance

RequestDistance(r) ==
  IF r.origin # Absent /\ distances[r.origin] # NoDistance
    THEN distances[r.origin] + 1
    ELSE r.distance

(* Mutant of Nearer: the comparison is turned round.                       *)
Farther(h, d) == distances[h] # NoDistance /\ distances[h] < d

Nearer(h, d) == distances[h] # NoDistance /\ distances[h] > d

(* Mutant of Skip: the considering and badDNS tests are dropped.           *)
SkipKnown(h) == knownHosts[h] # Absent \/ h \in Ignored

(* Mutant of Skip: the considering and knownHosts tests are dropped.       *)
SkipBad(h) == h \in badDNS \/ h \in Ignored

Skip(h) ==
  \/ h \in considering
  \/ h \in badDNS
  \/ knownHosts[h] # Absent
  \/ h \in Ignored

Rest(r) == [r EXCEPT !.hostnames = Tail(@)]

NextName ==
  /\ pc = "batch"
  /\ request' = Remaining(Rest(request))
  /\ pc' = AfterBatch(Rest(request))

(* considerHost drops the name, and its count with it.                     *)
SkipHost ==
  LET h == Head(request.hostnames)
      d == RequestDistance(request)
  IN  /\ NextName
      /\ Skip(h)
      /\ distances' = [distances EXCEPT ![h] = IF Nearer(h, d) THEN d ELSE @]
      /\ pendingHosts' = [pendingHosts EXCEPT ![h] = @ - 1]
      /\ pending' = pending - 1
      /\ UNCHANGED <<caller, handling, queue, workers, directory, considering,
                     badDNS, queryErrors, countriesForIPs, pendingCountries>>

(* considerHost starts a DNS goroutine, which inherits the name's count.   *)
StartLookup ==
  LET h == Head(request.hostnames)
  IN  /\ NextName
      /\ ~Skip(h)
      /\ considering' = considering \cup {h}
      /\ distances' = [distances EXCEPT ![h] = RequestDistance(request)]
      /\ lookups' = lookups \cup {h}
      /\ UNCHANGED <<caller, handling, queue, fetches, geoQueries, directory,
                     counters, badDNS, queryErrors, countriesForIPs>>

-----------------------------------------------------------------------------
(* case dnsResult := <-spider.shared.dnsResult, and processDnsResult.      *)

ReceiveDns(h) ==
  /\ pc = "select"
  /\ h \in lookups
  /\ lookups' = lookups \ {h}
  /\ handling' = [kind |-> "dns", of |-> h]
  /\ pc' = "finish"
  /\ UNCHANGED <<caller, request, queue, considering, queryErrors, distances>>

(* The lookup failed, or the first decisive address is a disallowed one.   *)
RejectName(h, ips) ==
  /\ ReceiveDns(h)
  /\ ips = {} \/ ips \cap Disallowed # {}
  /\ badDNS' = badDNS \cup {h}
  /\ UNCHANGED <<fetches, geoQueries, directory, counters, countriesForIPs>>

(* Mutant of MergedIPs: the new answer replaces the old one.               *)
ReplacedIPs(canonical, ips) == [ipsForHost EXCEPT ![canonical] = ips]

MergedIPs(canonical, ips) == [ipsForHost EXCEPT ![canonical] = @ \cup ips]

(* ip, the first decisive address, belongs to a host already known.        *)
AliasByAddress(h, ips, ip) ==
  LET canonical == knownIPs[ip]
  IN  /\ ReceiveDns(h)
      /\ ip \in ips \ Disallowed
      /\ canonical # Absent
      /\ knownHosts' = [knownHosts EXCEPT ![h] = canonical]
      /\ knownIPs' = [i \in IP |-> IF i \in ips THEN canonical ELSE knownIPs[i]]
      /\ ipsForHost' = MergedIPs(canonical, ips)
      /\ UNCHANGED <<fetches, geoQueries, counters, aliasesForHost,
                     serverInfos, badDNS, countriesForIPs>>

(* Mutant of Fresh: the address is not looked up in knownIPs.              *)
Allowed(ip) == ip \notin Disallowed

(* An address that decides nothing: allowed, and no known host has it.     *)
Fresh(ip) == ip \notin Disallowed /\ knownIPs[ip] = Absent

(* Mutant of NewWork: the country queries run outside the WaitGroup.       *)
OnlyTheFetch(unplaced) == 1

(* What NewHost adds to the WaitGroup: its goroutines.                     *)
NewWork(unplaced) == Cardinality(unplaced) + 1

(* "should be shiny new host after this point"                             *)
NewHost(h, ips) ==
  LET unplaced == {ip \in ips : countriesForIPs[ip] = Absent}
  IN  /\ ReceiveDns(h)
      /\ ips # {}
      /\ \A ip \in ips : Fresh(ip)
      /\ knownHosts' = [knownHosts EXCEPT ![h] = h]
      /\ aliasesForHost' = [aliasesForHost EXCEPT ![h] = {h}]
      /\ ipsForHost' = [ipsForHost EXCEPT ![h] = ips]
      /\ knownIPs' = [i \in IP |-> IF i \in ips THEN h ELSE knownIPs[i]]
      /\ countriesForIPs' = [i \in IP |-> IF i \in unplaced THEN "asked"
                                                 ELSE countriesForIPs[i]]
      /\ pendingCountries' = [i \in IP |-> IF i \in unplaced
                                             THEN pendingCountries[i] + 1
                                             ELSE pendingCountries[i]]
      /\ geoQueries' = geoQueries \cup unplaced
      /\ serverInfos' = [serverInfos EXCEPT ![h] = Nil]
      /\ pending' = pending + NewWork(unplaced)
      /\ pendingHosts' = [pendingHosts EXCEPT ![h] = @ + 1]
      /\ fetches' = fetches \cup {h}
      /\ UNCHANGED badDNS

-----------------------------------------------------------------------------
(* case hostResult := <-spider.shared.hostResult, and processHostResult.   *)

(* Mutant of ReceiveHost: QueryHost may send a result and then another.    *)
ReceiveHostTwice(h) ==
  /\ pc = "select"
  /\ h \in fetches
  /\ fetches' \in {fetches, fetches \ {h}}
  /\ handling' = [kind |-> "host", of |-> h]
  /\ UNCHANGED <<caller, queue, lookups, geoQueries, considering, badDNS,
                 countriesForIPs, pendingCountries>>

ReceiveHost(h) ==
  /\ pc = "select"
  /\ h \in fetches
  /\ fetches' = fetches \ {h}
  /\ handling' = [kind |-> "host", of |-> h]
  /\ UNCHANGED <<caller, queue, lookups, geoQueries, considering, badDNS,
                 countriesForIPs, pendingCountries>>

QueryFailed(h) ==
  /\ Absent \in Page[h]
  /\ ReceiveHost(h)
  /\ queryErrors' = queryErrors \cup {h}
  /\ pc' = "finish"
  /\ UNCHANGED <<request, pending, pendingHosts, directory, distances>>

(* Mutant of Canonical: the test for a "." in the name is dropped.         *)
OwnHostname(h, page) == IF page.hostname = Absent THEN h ELSE page.hostname

(* The name the server gives itself, when it can be a hostname.            *)
Canonical(h, page) ==
  IF page.hostname \in Dotted \ {h} THEN page.hostname ELSE h

(* Mutant of MovedAliases: the canonical name is not made its own alias.   *)
MovedOldAliases(h, c) ==
  [aliasesForHost EXCEPT ![c] = aliasesForHost[h], ![h] = {}]

MovedAliases(h, c) ==
  [aliasesForHost EXCEPT ![c] = aliasesForHost[h] \cup {c}, ![h] = {}]

(* Mutant of MovedIPs: the old entry is deleted before it is read.         *)
DroppedIPs(h, c) == [ipsForHost EXCEPT ![h] = {}]

MovedIPs(h, c) ==
  IF ipsForHost[c] = {}
    THEN [ipsForHost EXCEPT ![c] = ipsForHost[h], ![h] = {}]
    ELSE [ipsForHost EXCEPT ![c] = @ \cup ipsForHost[h]]

(* The server queried as h calls itself c: move h's entries over to c.     *)
Rename(h, c) ==
  /\ aliasesForHost' = MovedAliases(h, c)
  /\ knownIPs' = [i \in IP |-> IF i \in ipsForHost[h] THEN c ELSE knownIPs[i]]
  /\ ipsForHost' = MovedIPs(h, c)
  /\ distances' = [distances EXCEPT ![c] =
                     IF @ = NoDistance \/ @ < distances[h] THEN distances[h]
                                                           ELSE @]

(* Mutant of RenamedHosts: the queried name is deleted, not redirected.    *)
ForgottenHosts(h, c) ==
  [x \in Host |-> IF x = h /\ c # h THEN Absent
                  ELSE IF x \in aliasesForHost[h] \/ x = c THEN c
                  ELSE knownHosts[x]]

(* knownHosts once h's aliases follow it to c.                             *)
RenamedHosts(h, c) ==
  [x \in Host |-> IF c # h /\ x \in aliasesForHost[h] THEN c
                  ELSE IF c # h /\ x = c /\ knownHosts[c] = Absent THEN c
                  ELSE knownHosts[x]]

(* ... and once a Nodename that is nobody's alias is one too.              *)
NamedHosts(h, page) ==
  LET c  == Canonical(h, page)
      kh == RenamedHosts(h, c)
  IN  IF /\ page.nodename \notin {Absent, c, page.hostname}
         /\ kh[page.nodename] = Absent
        THEN [kh EXCEPT ![page.nodename] = c]
        ELSE kh

Occurrences(s, x) == Cardinality({i \in DOMAIN s : s[i] = x})

(* Mutant of BatchAddHost: one request is counted as one host.             *)
BatchCountedOnce(origin, hostlist) ==
  /\ pending' = pending + 1
  /\ pendingHosts' = [x \in Host |-> pendingHosts[x] + Occurrences(hostlist, x)]
  /\ request' = [hostnames |-> hostlist, origin |-> origin, distance |-> 0]
  /\ pc' = "send"

(* Mutant of BatchAddHost: a peer listed twice is counted once.            *)
BatchAddNames(origin, hostlist) ==
  /\ pending' = pending + Len(hostlist)
  /\ pendingHosts' = [x \in Host |-> pendingHosts[x] +
                        IF Occurrences(hostlist, x) = 0 THEN 0 ELSE 1]
  /\ request' = [hostnames |-> hostlist, origin |-> origin, distance |-> 0]
  /\ pc' = "send"

(* BatchAddHost counts the names before the send, which may block.         *)
BatchAddHost(origin, hostlist) ==
  /\ pending' = pending + Len(hostlist)
  /\ pendingHosts' = [x \in Host |-> pendingHosts[x] + Occurrences(hostlist, x)]
  /\ request' = [hostnames |-> hostlist, origin |-> origin, distance |-> 0]
  /\ pc' = "send"

QuerySucceeded(h, page) ==
  LET c == Canonical(h, page)
  IN  /\ ReceiveHost(h)
      /\ knownHosts' = NamedHosts(h, page)
      /\ \/ c # h /\ Rename(h, c)
         \/ c = h /\ UNCHANGED <<aliasesForHost, knownIPs, ipsForHost, distances>>
      /\ serverInfos' =
           [x \in Host |->
              IF x = c THEN [Hostname |-> h, GossipPeerList |-> page.peers]
              ELSE IF x = h THEN Absent ELSE serverInfos[x]]
      /\ BatchAddHost(c, page.peers)
      /\ UNCHANGED queryErrors

(* The send inside BatchAddHost: nobody but this goroutine drains queue.   *)
SendRequest ==
  /\ pc = "send"
  /\ Len(queue) < QUEUE_DEPTH
  /\ queue' = Append(queue, request)
  /\ request' = NoRequest
  /\ pc' = "finish"
  /\ UNCHANGED <<caller, handling, workers, directory, counters, considering,
                 badDNS, queryErrors, distances, countriesForIPs>>

-----------------------------------------------------------------------------
(* case countryResult := <-spider.shared.countryResult.                    *)

(* Mutant of Placed: the answer is stored without a look at its error.     *)
PlacedAnyway(ip, answer) == [countriesForIPs EXCEPT ![ip] = answer]

(* processCountryResult                                                    *)
Placed(ip, answer) ==
  IF answer = "error" THEN countriesForIPs
                      ELSE [countriesForIPs EXCEPT ![ip] = answer]

ReceiveCountry(ip, answer) ==
  /\ pc = "select"
  /\ ip \in geoQueries
  /\ geoQueries' = geoQueries \ {ip}
  /\ handling' = [kind |-> "country", of |-> ip]
  /\ countriesForIPs' = Placed(ip, answer)
  /\ pc' = "finish"
  /\ UNCHANGED <<caller, request, queue, lookups, fetches, directory, counters,
                 considering, badDNS, queryErrors, distances>>

(* The two lines that close each result's case: the per-name diagnostic    *)
(* counter, then pending.Done().                                           *)
FinishResult ==
  /\ pc = "finish"
  /\ pendingHosts' =
       IF handling.kind = "country" THEN pendingHosts
       ELSE [pendingHosts EXCEPT ![handling.of] = @ - 1]
  /\ pendingCountries' =
       IF handling.kind # "country" THEN pendingCountries
       ELSE [pendingCountries EXCEPT ![handling.of] = @ - 1]
  /\ pending' = pending - 1
  /\ handling' = Idle
  /\ pc' = "select"
  /\ UNCHANGED <<caller, request, queue, workers, directory, considering,
                 badDNS, queryErrors, distances, countriesForIPs>>

-----------------------------------------------------------------------------
DnsStep == \E h \in lookups : \E ips \in Lookup[h] :
             \/ RejectName(h, ips)
             \/ \E ip \in ips : AliasByAddress(h, ips, ip)
             \/ NewHost(h, ips)

HostStep == \E h \in fetches :
              \/ QueryFailed(h)
              \/ \E page \in Page[h] \ {Absent} : QuerySucceeded(h, page)

CountryStep == \E ip \in geoQueries, answer \in {"found", "error"} :
                 ReceiveCountry(ip, answer)

MainLoop ==
  \/ ReceiveRequest \/ SkipHost \/ StartLookup
  \/ DnsStep \/ HostStep \/ SendRequest \/ CountryStep \/ FinishResult

Caller == AddHost \/ Wait \/ Terminate

(* The run is over; the maps are only read from here on.                   *)
Finished == caller = "done" /\ UNCHANGED vars

Next == MainLoop \/ Caller \/ Finished

(* A lookup, a fetch (bounded by -http-fetch-timeout) and a country query  *)
(* all answer in the end, and the Go scheduler runs a goroutine that can   *)
(* run; which ready case a select takes is not assumed fair.               *)
Fairness == WF_vars(MainLoop) /\ WF_vars(Caller)

Spec == Init /\ [][Next]_vars
FairSpec == Spec /\ Fairness
=============================================================================
