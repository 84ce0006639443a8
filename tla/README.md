# A formal model of sks_spider

`sks_spider` crawls the mesh of SKS keyservers: starting from one server it
fetches each server's stats page, follows the peers listed there, and publishes
what it found as web pages. This directory models that program in TLA+, checks
the models with TLC on small instances, and proves the most important facts for
all instances with TLAPS. Definitions carry the names of the Go code, and
`PROJECT.json` maps each to the lines it stands for.

A definition whose comment starts with "Mutant of" is not part of a model. It
is the bug that a property is shown to be able to catch.

## 1. The system

| Component | Source | State it keeps | Operations |
|---|---|---|---|
| Spider | `spider.go` | the maps of one crawl (`knownHosts`, `aliasesForHost`, `knownIPs`, `ipsForHost`, `serverInfos`, `distances`, `countriesForIPs`), the WaitGroup, `batchAddHost`, counters for diagnostics | `AddHost`, `Wait`, `Terminate`; one case of the main loop's `select` per result |
| Workers | `spider.go`, `server_info.go`, `countries.go` | none, but for the node a fetch fills in | one goroutine per DNS lookup, per stats page, per country lookup |
| Sorted sets | `sorted_set.go`, `internal/string_set/btree.go` | a B+tree per set | `Insert`, `Remove`, `Contains`, `Len`, `AllData` |
| Diagnostics | `diagnostics.go` | two unbuffered channels, a kill channel, a flag and its lock | serve `/scanstatusz` from the main loop, or between scans from a dummy |
| Publication | `hostmap.go`, `graph.go`, `depth.go` | `PersistedHostInfo`: host map, alias map, orders, graph | generate it from a finished crawl or from a dump |
| Pages | `http.go`, `http_graph.go` | none | read the current `PersistedHostInfo` |
| Address filter | `http_ip_valid.go`, `versions.go` | none | `/ip-valid` |
| Daemon | `main.go`, `serialize.go` | the current `PersistedHostInfo`, the persisted file, the WaitGroup `Main` ends on | start, scan periodically, publish, save on SIGUSR1, exit |

How they interact: `Main` starts a crawl and, from its own goroutine, seeds it
and waits on its WaitGroup. The main loop of the crawl is the only reader of the
result channels and of `batchAddHost`, and also writes to the latter. When
`Wait` returns, the caller reads the crawl's maps without a lock and hands them
to a goroutine that makes and publishes a `PersistedHostInfo`. Page handlers run
in goroutines of the HTTP server and read what is current. `/scanstatusz` is the
exception: its handler passes its writer to whoever serves the diagnostics
channel.

What is hard about it:

* **Counting.** Every name, goroutine and result is counted by one WaitGroup
  whose `Add` and `Done` calls are far apart and on different paths. One `Done`
  too many panics, one too few hangs.
* **Order.** Results arrive in any order, and servers are found by several names
  and addresses at once. Merging them must not lose a name, an address or a
  published entry.
* **Self-send.** The loop sends to a channel only it reads.
* **Hand-over.** The diagnostics channels change their reader around each scan,
  with requests in flight.
* **A tree that nobody fills.** Every set of the graph and of `/ip-valid` is a
  generated B+tree with pages of 128 keys and 257 separators. A test mesh never
  splits an index page or joins two.
* **Failure.** A page may break off anywhere, and its analysis then panics: a
  result must still be sent, and only one. The dump is written in place, and a signal, a full disk, the end
  of the HTTP server or a crash may come at any time.

What makes each component correct, in short: the crawl ends, its counter is
exact, no name is lost and no server is queried twice; one goroutine at a time
serves diagnostics and every request returns; a page is taken for read only if
it was read to its end; a sorted set is a set; what is published agrees with
what was found; `/ip-valid` gives out what was asked for; what is published and
kept never goes back in time. `PROJECT.json` lists the hazards one by one, each
at its line.

## 2. Modules

| Module | What it is |
|---|---|
| `Spider` | the crawl: caller, main loop and workers |
| `WaitGroup` | what a crawl promises its caller, abstractly |
| `SpiderProperties` | properties of the crawl, and the refinement of `WaitGroup` |
| `SpiderProofs` | theorems about the crawl's counters, channel, names and addresses, and about its maps |
| `StatsPage`, `StatsPageProofs` | the goroutine of one fetch: `QueryHost`, `Fetch`, `Analyze`, and its theorems |
| `Diagnostics`, `DiagnosticsProofs` | the diagnostics channels around repeated scans, and its theorems |
| `SortedSet` | what a sorted set promises, abstractly |
| `BTree` | the B+tree that keeps the promise |
| `BTreeShapeProofs` | lemmas about its pages: the sequences, the spans of the index pages, the keys, every helper of `Set`, and `underflowX` |
| `BTreeProofs` | lemmas about the other helpers of `Delete`, and the theorems: the invariant, the refinement, what is read, the shape |
| `Publication` | functions from a finished crawl to what is published; it extends `SpiderProperties`, so that its properties speak of every outcome a crawl can have |
| `PublicationProofs` | theorems about what is published |
| `Daemon`, `DaemonProofs` | the life of the process over restarts, and its theorems |
| `Versions` | version numbers |
| `IpValid`, `IpValidProofs` | one request to `/ip-valid`, and its theorems; and that versions are totally ordered |
| `MC*` | values for the constants, and in `MCBTree` and `MCStatsPage` the properties and, for the tree, the refinement |

### Spider

One action per case of the `select` and per step of its handler:

* `AddHost`, `Wait`, `Terminate` are the caller.
* `ReceiveRequest` takes a request off `batchAddHost`. `SkipHost` and
  `StartLookup` are `considerHost` for one of its names, as `pc = "batch"`.
* `RejectName`, `AliasByAddress` and `NewHost` are the outcomes of
  `processDnsResult`, chosen with the answer DNS gives.
* `QueryFailed` and `QuerySucceeded` are `processHostResult`. The latter ends in
  `BatchAddHost`, whose counting happens before the send; the send itself is
  `SendRequest`, which may block.
* `ReceiveCountry` is `processCountryResult`.
* `FinishResult` is the two lines that close every result's case.

A worker does nothing after sending its result, and only the worker blocks when
the result channel is full. So the three result channels are folded into the sets
of running workers. `batchAddHost` keeps its capacity, because there the blocked
sender is also the reader. Slices whose order comes from a resolver are sets.
What DNS and servers answer is chosen, per query, from the constants `Lookup` and
`Page`; a panic in `Analyze` is an error, as `QueryHost` makes it one.

### StatsPage

The result that a fetch of `Spider` ends in, in detail. `FetchFails` and `Fetch` are
`Fetch`; then one step per section that `Analyze` reads, each filling in a part of
`node`: `CheckStatus`, then `ReadFields` and `ReadJsonPeers` of a JSON object, or
`ReadMailsync`, `ReadSettings`, `ReadStatistics` and `ReadGossip` of an HTML page,
then `Minimize`. `Broken` says when the section at hand makes `Analyze` panic: an
index out of range, or a nil page, sibling or result. `Recover` is the deferred
function, `SendUnlessPaniced` the end of `QueryHost`. A page is a record of
sections, of rows or of fields; what HTML or JSON they come from is left to the
libraries. Where the code goes through a map, the order is a free choice
(`JsonSettings`, `ReadGossip`). `Version`, `Software`, headers and the mailsync list
are copied and left out, except for the panics their sections cause.

### Sorted sets

`SortedSet` has a request and a set: `Ask`, then `Insert` or `Remove`. `BTree` has
a tree and a call with its locals `q`, `p` and `pi`, and a step is one iteration of
the loop of `Set` or `Delete`. A data page is a sequence of keys; the linked list of
the data pages is their order; a separator is the place of the page it points at, and
its key that page's first, as in the code. So every index the code computes is
computed here, from 0 as there, and an index out of range is an error of the run.
`Seek` and `AllData` are operators on the tree at rest: no set of the program is
changed while it is read or enumerated (`fixOutbounds` adds sets, not members), so an
`Enumerator` never finds a new version. The crawl's publication, and `/ip-valid`,
use plain sets where the code uses sorted ones; the refinement, which is proved, is
what entitles them to.

### Diagnostics

`Loop` is the main loop of the scan that runs, `Dummy` the goroutines that
`Terminate` starts. `Kill`, `Take` and `Signal` are rendezvous on unbuffered
channels and therefore joint steps of two goroutines. `MapRace` is the runtime's
fatal error when it notices that the dump iterates over a map that `AddHost`
writes. `Timely` says that a whole scan, and the pause after it, last longer
than a few instructions of a dummy. It is an assumption of the run: without it a
dummy that has not yet cleared its flag makes the next one leave.

### Publication

Operators over the crawl's maps, named after the Go functions. A sorted list is a
sequence and a sorted set is a set. `GenerateGraph` shares and extends the alias
map it is given, as the code does, and `ReloadedAliasMaps` are the maps a restart
may build from the dump, which it goes through in no particular order. A loop over a
sorted list is a fold with a name of its own: `HostSort`, `AddPeers`, `AddHosts`,
`DrawLinks`.

### Daemon

A mesh is the number of the scan that found it. `main`, `respider`, `runner` and
`publishing` are the goroutines. `Create`, `DumpJSON` and `RunnerDone` are the
steps of a save, and between any two of them the process may be killed or the
HTTP server may end. `WritesFail` is a full disk, whose error `DumpJSON`
drops. A SIGUSR1 that nobody receives has no effect. `SlowEnough` says that a
publishing goroutine ends before the next scan does: the code enforces a delay
of at least half an hour.

### IpValid

One action per stage of `apiIpValidPage`. Buckets of equal size are a free choice
because the code goes through a map. Means and standard deviations are compared
exactly by clearing denominators; the truncations to `int` are kept, floating-point
rounding is not modelled.

## 3. What the runs check

| Run | Distinct states | Shows |
|---|---|---|
| `spider_mesh` | 14,344 | the bookkeeping of the crawl in a mesh where every kind of answer occurs, its refinement of `WaitGroup`, and that it ends |
| `spider_plain` | 190,234 | distances, address maps and aliases agree where servers go by the name they are queried under |
| `stats_page` | 10,671 | one result per fetch, and none without an error for a page that was not read to its end |
| `diagnostics` | 140 | one server at a time, the dump before the return, every kill and request answered |
| `btree` | 2,140,937 | the tree is the set it stands for, whatever is inserted and removed in whatever order, and its pages hang together |
| `publication` | 210,029 | pages, aliases and the graph are right for every outcome of the crawl, and no page meets a missing set |
| `ip_valid` | 75,707 | what is given out is wanted, and two servers at least pass the page's own threshold |
| `daemon` | 768 | nothing goes back in time, and a signalled exit leaves a whole file |
| `spider_claimed`, `spider_full`, `publication_base`, `daemon_dump` | violations | the findings below |

**Bounds.** Six names and five addresses are enough for a host with two
addresses, two hosts that share one, a host that is renamed, a third that
already has the new name, and a peer that is down, all at once. The worlds differ in
what servers may answer:

* *Mesh* has every kind of answer: bad DNS, disallowed addresses, failures,
  renames, node names, bare names, duplicates. At most two answers are on their
  way at once, which is just what the channel of this run has room for
  (`QUEUE_DEPTH = 2`).
* *Plain* has no renames, for the properties that need that, with shared addresses,
  rotating DNS and two routes of different length to one host.
* *Renamed* lets two servers call themselves by a third one's name; `spider_claimed` runs it.
* *OwnName* and *SharedName* do the same for publication, with a peer listed in
  capitals.

`spider_full` runs Mesh with a channel of depth 1. The real depth is 100, so what
it shows takes a mesh of more than 100 servers that answer while the loop is
busy; the theorem `SendNeverBlocksInSmallMesh` is the other side of the bound.
`diagnostics` has two requests and two dummies, so a dummy can start while the
one before is leaving and two requests wait for one signal; its number of scans
is unbounded. `daemon` allows three scans (`MaxScans`) over any number of
restarts: one that is published, one being published, one being saved. `ip_valid`
has up to three servers, with key counts within, at the edge of and far from one
bucket, second addresses, addresses of other servers, and every filter.

`btree` has data pages of one or two keys and index pages of one to five
separators (`kd = 1`, `kx = 2`; the code has 64 and 128), the smallest at which
every branch of the code exists; the theorems are about every `kd >= 1` and `kx >= 2`,
and any keys. Ten keys give trees of three levels, and TLC's
coverage shows every disjunct of every case taken: a split of a root and of an inner
index page, keys lent left and right by data and index pages, joins with either side,
and a root that is given up. That a call ends is not checked as liveness: every
iteration goes down a level of a tree whose leaves are equally deep. `stats_page` has two peers and three settings, and of each
section the ways to be whole, cut short, repeated, missing, or without its table.

**Deadlock** is checked, except in `diagnostics` (a crashed process stops),
`spider_full` (the deadlock is what it shows), `ip_valid` (a request ends) and
`stats_page` (a goroutine ends).

**Fairness.** The crawl: weak fairness of the main loop and of the caller. A DNS
lookup, a fetch (bounded by `-http-fetch-timeout`) and a country lookup all end,
so there is always something for the loop to receive; which ready case `select`
takes is not assumed fair. Diagnostics: strong fairness for a waiting request, as
`select` picks among ready cases at random and senders queue in order, and for
the caller, whose rendezvous with a dummy is enabled on and off. A stats page: weak
fairness of its goroutine, which waits for nobody once the fetch has ended one way
or the other. The daemon:
weak fairness of `Main` and of `shutdownRunner`; none for signals, scans or
faults.

## 4. What is proved

All theorems hold for every value of the constants that satisfies the named
assumptions (`SpiderAssumption`, `BTreeAssumption`, `DiagnosticsAssumption`,
`DaemonAssumption`, `NoVersionAssumption`, `IpValidAssumption`), which TLC evaluates for the instances it checks.

**The crawl's counter** (`SpiderProofs`). `Accounting` says that the WaitGroup
equals the outstanding work: names in the channel, names in the request at hand,
the result at hand, and running goroutines. It is not inductive by itself. A
name that is un-counted must have been in exactly one of these places
(`WorkInOnePlace`), removing it from a set must change a cardinality by one
(which needs `TypeOK` and finiteness), and once the caller has been released
nothing may be created (`WorkOnlyWhileWaiting`). The conjunction of the four is
inductive, one lemma per action. From it follow `WaitGroupExact`,
`QuiescentAfterWait` and `CrawlImplementsWaitGroup`, the safety part of the
refinement.

**The channel** (`ChannelBounded`). Apart from the seed, each request in the
channel is the only answer of a different name. Hence
`SendNeverBlocksInSmallMesh`: with no more than `QUEUE_DEPTH` answering names the
loop never waits for itself.

**Names and addresses.** `EveryNameAccountedFor`, `NoNameQueriedTwice`,
`NoAddressFetchedTwice`.

**The count of each name** (`PendingHostsCounted`). What `/scanstatusz` prints of a
crawl that hangs is the `Accounting` of one name. The names of
a request occur in it any number of times, so the proof counts places, and `Idling`, that
the loop holds no result between two results, closes the invariant.

**The crawl's maps** (`SpiderProofs`). `InFlightStaysIntact` and
`PublishedStaysComplete` hold of every mesh. Neither is inductive alone: a rename moves the
entries of a host in flight to one that is published, or the other way about. Their
conjunction is, with `Distanced`: every considered name has a distance, which only
that move gives away. The other theorems are about a mesh whose servers go by the
names they are queried under (`GoByOwnName(Page)`, which TLC evaluates for the
world *Plain*; without it they are false, see finding 2). `PlainMaps` ties names and
addresses to the server entries they lead to, entries to finished lookups, and every
request to the published page that listed its names. From it follow
`PlainAddressesAgree`, `PlainDistanceWitnessed`, `PlainAliasesResolve` and, of steps,
`PlainNeverFarther` and `PlainHostsAreNew`.

**A stats page** (`StatsPageProofs`), for any response with any number of rows.
`Reading` says that each section behind the one at hand is in the node, and `Sending`
ties the place of the goroutine and `paniced` to what has been sent. Together they
give `NoSecondResult` and `OnlyWholePages`.

**What is published** (`PublicationProofs`). The operators are folds, whose recursive
definition the provers cannot unfold by induction. `FoldsExist` therefore builds the
function such a definition chooses, step by step, and `ReachedBySteps` is induction up
to a number for a *set* of numbers, which needs no operator as a parameter. So each fold
becomes a sequence of prefixes with one lemma per step. `GraphDrawn` is where this
leads: the graph in closed form, `outbound` and `inbound` being the two sides of one
relation, and every lower-case name resolving to what it resolved to before.

* `PeersPageStaysComplete` holds of every mesh.
* `LowerCaseNoNilSets` is for meshes whose servers are named in lower case
  (`NamedInLowerCase`), which leaves out the servers of the note on `graph.go:133`
  below.
* `SettledAliasesReload`, `SettledMutualLabel`, `SettledDotFile` and `SettledPeerInfo`
  need that a name which servers give themselves is not changed by the server of that
  name (`NamesSettled`). It makes `AliasesWentOver` inductive: an alias that is not its
  host's own went over to that host only and is not published itself. So a name has one
  claimant, and the order of the hosts makes no difference. `SettledPeerInfo` needs
  besides that a server queried in capitals goes by that name
  (`CapitalsAreOwnName`).

TLC evaluates these hypotheses for the worlds *OwnName* and *SharedName*. The first
still has renamed servers, servers of several names, and peers that are listed in
capitals or down. The second has a start host that goes by a name two other servers
claim too, and is where finding 3 occurs.

**The sorted set** (`BTreeShapeProofs`, `BTreeProofs`). What a tree is, `Leaves` and
`Depths` say by recursion over pages, and no induction over trees is to be had. So the
invariant describes the tree without recursion. `Sound` says that there is an
assignment of *spans* to the index pages, the first and last data page under each and
its height, such that

* a page's children follow each other without a gap, are one lower than it, and each
  separator is the place of the first data page under the child after it (`Kids`);
* two pages with a data page in common are one within the other (`Nested`), and the
  root is over all (`Rooted`);
* keys ascend within and across data pages (`Ordered`), and `c` counts them.

`FullData` and `FullIndex` bound the pages from both sides, as the code does: the root is
exempt below, and an index page may be one separator under the minimum that a join
needs, until `underflowX` next passes it. `Good` adds the call: its page is
in the tree, `p` and `pi` say where, and the key belongs under it if anywhere
(`Bracket`). This holds for a call between two iterations too, where `splitX` or
`underflowX` has just rebuilt the level above.

The helpers are a handful of changes to such a tree, and each has one lemma that gives the
spans afterwards: a data page is split or two are joined, which renumbers every
pointer; a page is joined with its sibling (`catX`), cut in two (`splitX`), or put
above the root. A loan of a child between siblings in `underflowX` is then a join and
a cut elsewhere, and a loan of keys (`mvL`, `mvR`) is dealing the keys of two pages
again. One lemma per action puts them together. They give

* `GoodAlways`, the invariant;
* `SetImplemented`: a step that returns inserts or deletes the call's key, every
  other step leaves the set alone, and so each is a step of `SortedSet` or none;
* `SeekFindsMembersAlways`: the search of `Seek` is followed down by the height of
  a page, which is induction over a number (`ReachedBySteps`), and `AllData` is
  the pages, laid end to end;
* `WellFormedAlways`: the same induction unfolds the functions `Leaves` and `Depths`, which
  exist because a child is lower than its page: what is under a page is just its span.

**The daemon** (`DaemonProofs`). `TypeCorrect` includes that a file that is not
whole is never taken for a mesh. `PublishedInOrder` rests on the invariant
`Ordered`: published meshes are past scans, the goroutine that publishes is the
newest one, what is current is not older than what is held or kept, and what is
held was current once.

`SignalSavesMesh` rests on `Dumped`: the file is whole until this process empties
it, it is what is held once `DumpJSON` is over without a lost write, and `Main` is
released by nobody but the HTTP server and `shutdownRunner`.

**Diagnostics** (`DiagnosticsProofs`, under `Timely`). `ServersTakeTurns` and
`NoEarlyReturn`. `OneServer` is not inductive: nothing in it keeps a new scan's loop
from starting beside a dummy. `Handover` adds who is there at each place of the
caller: a dummy that serves has the flag raised, so a scan that finds it lowered
finds no dummy, and one that finds it raised gets past the kill only when the dummy
has stopped. With `WriterHeld`, that a handler that waits has its writer held by some
server, the one server that signals can only let go the handler it served.

**Versions.** `IsAtLeast` is reflexive, total, transitive and antisymmetric.

**The address filter** (`IpValidProofs`). `ServedWanted`: by the invariant
`Sifted`, every filter keeps what the filters before it achieved. `PanicNeedsShared`,
`OwnThresholdKeeps` and `TwoServersKept` are about the arithmetic: some count of a bucket
lies within the bounds made from its mean and deviation, and the second-highest count,
less a deviation that is rounded down and a jitter, leaves somebody above it. They rest
on lemmas about sums over a set (that a member is at most the sum, that the mean lies
between the extremes, that a sum of squares is not negative) and on `Guided`, the
invariant that says which stage has computed what. The last two assume
`KeysDailyJitter >= 0`: a negative flag may raise the threshold above every count.

Only model-checked:

* liveness and fairness: `CrawlEnds`, `OneResult` beyond its safety part, the liveness
  properties of diagnostics and the daemon, and the fair part of the refinement of
  `WaitGroup`, because the prover does not deal with `WF_`, `SF_` and `ENABLED` here;
* the four runs that show a violation, of course.

## 5. Findings

1. **A full channel hangs the crawl** (`spider_full`). `processHostResult` sends
   on `batchAddHost` from the only goroutine that receives from it.
2. **A host is not always new** (`spider_claimed`). Another server may claim a
   hostname while its DNS lookup runs; the result then overwrites the published
   entry, against the comment at `spider.go:287`.
3. **The peers page can panic** (`publication_base`). When two servers go by the
   name the start host was renamed to, no published host has the start host's
   alias.
4. **A full disk loses the mesh silently** (`daemon_dump`). `DumpJSON` drops the
   errors of its writes.

The models show besides:

* A mutual link is drawn twice in `/sks-peers.dot`. The comment says "we don't emit a
  second bi-directional from the other side" (`http_graph.go:70-71`). But the key put into
  `shown` (`http_graph.go:108`) is the one this side has looked up, and the other side
  looks up the reverse, so `shown` never suppresses a line. `DotLinesExact` is what the
  file holds: both lines of every mutual link. `SettledDotFile` proves it, and so
  refutes the comment, for every mesh it is about.
* An alias can outlive its host. A name aliased by address (`spider.go:280`) is not put into
  `aliasesForHost`, which is all that a rename redirects (`spider.go:355-357`). If *beta* shares
  an address with *alpha* and becomes its alias while *alpha*'s page is fetched, and that page
  calls its server *gamma*, then the entry of *alpha* is deleted and *beta* still leads to
  *alpha*, against the comments at `spider.go:68` and `72`. `AliasesResolve` is what
  fails then: TLC finds this trace when `SpiderClaimed.cfg` is given
  `INVARIANT AliasesResolve`. `spider_plain` and
  `PlainAliasesResolve` say that nothing but a rename can do it. Nothing published is
  affected: the program only asks whether `knownHosts` has a name, never where it leads.
* A peer that was never polled is shown as "false" and not as "?" on `/peer-info`
  (`http.go:270`): the graph has added its name to the alias map in which the page
  looks for it (`graph.go:52`).
* `fixOutbounds` (`graph.go:64`) ensures the sets of hosts that list others, which
  all have one, and not those of the hosts that are listed. No page needs the
  latter (`NoNilSets`).
* A server that calls itself by a name in capitals has its peers under the
  lower-case name and the links to it under the other (`graph.go:133`), so its own
  list is missing from its page. No run has such a server.
* An address that only an alias brings along is published without ever being
  asked for its country (`spider.go:277-281`), until a restart from the dump asks.
* The page of a server that does not answer 200 is never freed (`server_info.go:257`
  returns before `Minimize`), nor is one whose analysis panics.
* `/ip-valid` indexes an empty list if no key count is within the bounds, which
  takes servers that list the same address (`PanicOnlyIfShared`; a mean that is
  not a number passes the sanity test before it).
* A rename keeps the farther of two distances (`spider.go:370`), so a direct peer of
  the start host can be listed at depth 2.
* A dump of `/scanstatusz` can meet `AddHost`'s write to the same map.

## 6. What is not modelled

Parsing of HTML, JSON, addresses and forms; which names are refused by how they
look (sets instead); the statistics and output formats of pages; the plain host
lists; the country lookups made for a loaded map (`/ip-valid` takes the country of an
address as given); flags, logging, the started-file and `-json-dump`; the membership
file, which is read and printed. Of the tree: `Put`, `Get`, `First`, `Last`,
`SeekLast`, `Prev` and the resynchronisation of an `Enumerator`, none of which the
program reaches. `Data` is `AllData` through a channel.

Some cases are in the modules, but no run or theorem goes through them, or the models decide
them one way:

* Two published hosts that claim one alias (`hostmap.go:102`). It takes a server that renames
  itself to a name whose own server goes by another one, which `NamesSettled` excludes; which
  claimant should win is said nowhere.
* Two publishing goroutines at once (`main.go:132`), which `SlowEnough` excludes.
* A host at no known distance (`depth.go:44`): `GeneratePersistedInformation` overwrites the
  -1 that says so (`hostmap.go:109`), and a map that is loaded is not normalised.
* Two requests to `/ip-valid` on the same data, which may differ in the bucket they
  choose (`http_ip_valid.go:233`). The properties hold for either choice; that the
  choices agree is said nowhere.
* A server without a key count gets no check of its own on `/ip-valid`: the page passes over
  it everywhere, and so does `ServedAddressesWanted`. An address it shares with another
  server may be given out.
* A page that lacks a hostname and has an empty node name.
* A dump of which any write was lost is taken to leave a file that does not load. One that
  lost only blank space at its end would load.

## 7. Plan

The order of work was the crawl and its counter, the refinement and the first
proofs, diagnostics, publication, the daemon, the address filter, the tree and the
stats page, then the proofs of the crawl's maps, the stats page, the filter's arithmetic,
what is published, and the tree. Each invariant that a passing run checks is a theorem
now, under the hypotheses named in section 4. What is left, most important first:

1. The theorems of `PublicationProofs` for servers that name themselves in capitals, as
   far as they hold.
2. `Put` and the resynchronisation of an `Enumerator`, if the program comes to use them.
3. The daemon composed with an abstract crawl, and the host lists of `http.go`.
