------------------------------ MODULE IpValid ------------------------------
(***************************************************************************)
(* One request to /ip-valid (http_ip_valid.go): which addresses of the     *)
(* published servers are worth putting in a DNS pool.                      *)
(*                                                                         *)
(* apiIpValidPage goes through its stages in order, and may give up after  *)
(* each.  It first guesses what a complete server holds: the most common   *)
(* bucket of key counts gives bounds, and the second-highest count within  *)
(* them, less some tolerance, the threshold.  Then it keeps the addresses  *)
(* above the threshold and drops those of servers the request excludes.    *)
(*                                                                         *)
(* servers is what is published, in sorted order, or NotScanned before the *)
(* first scan.  Of a host the page uses:                                   *)
(*   [Keycount, Version, Proxied, Native, IpList]                          *)
(* where Proxied is a Via: header and Native a server header of SKS        *)
(* itself.  A request is                                                   *)
(*   [minimum_version, countries, proxies, threshold]                      *)
(* with NotAsked for a parameter that is absent, 0 for no threshold.  An   *)
(* empty countries parameter asks for the countries of an empty set.       *)
(*                                                                         *)
(* Means and standard deviations are compared exactly, without fractions:  *)
(* floating-point rounding is left out, the conversions to int are not.    *)
(***************************************************************************)
EXTENDS Versions, Integers, Sequences, FiniteSets, FiniteSetsExt

CONSTANTS
  Address,          \* the IP addresses
  Meshes,           \* what may be published
  Requests,         \* what may be asked
  CountryOf,        \* IPCountryMap: a country, or NoCountry
  NoCountry,
  NotScanned,
  NotAsked,
  kBUCKET_SIZE,
  KeysSanityMin,    \* -keys-sanity-min
  KeysDailyJitter   \* -keys-daily-jitter

ASSUME IpValidAssumption ==
  /\ kBUCKET_SIZE \in Nat \ {0}
  /\ KeysSanityMin \in Int
  /\ KeysDailyJitter \in Int
  /\ IsFiniteSet(Address)
  /\ \A r \in Requests : r.threshold \in Nat
  /\ \A mesh \in Meshes \ {NotScanned} :
       /\ DOMAIN mesh = 1 .. Len(mesh) /\ Len(mesh) \in Nat
       /\ \A i \in DOMAIN mesh :
            mesh[i].Keycount \in Int /\ mesh[i].IpList \in Seq(Address)

VARIABLES servers, request, stage, bucket, threshold, ips

vars == <<servers, request, stage, bucket, threshold, ips>>

V1010 == [Major |-> 1, Minor |-> 0, Release |-> 10, Tag |-> 0]

Init ==
  /\ servers \in Meshes
  /\ request \in Requests
  /\ stage = "bucketing"
  /\ bucket = 0
  /\ threshold = 0
  /\ ips = {}

-----------------------------------------------------------------------------
(* The addresses and their key counts.  The server that is met last wins.  *)

Counted == {i \in DOMAIN servers : servers[i].Keycount > 1}
IpsOf(i) == {servers[i].IpList[k] : k \in DOMAIN servers[i].IpList}
Listing(ip) == {i \in Counted : ip \in IpsOf(i)}
Heading(ip) == {i \in Counted : servers[i].IpList # <<>> /\ Head(servers[i].IpList) = ip}

AllIps ==
  [ip \in {a \in Address : Listing(a) # {}} |-> servers[Max(Listing(ip))].Keycount]

OnePerServer ==
  [ip \in {a \in Address : Heading(a) # {}} |-> servers[Max(Heading(ip))].Keycount]

-----------------------------------------------------------------------------
(* Bounds and threshold.                                                   *)

InBucket(b) == {ip \in DOMAIN OnePerServer : OnePerServer[ip] \div kBUCKET_SIZE = b}

(* Of buckets of one size, any: a map is gone through in no order.         *)
LargestBuckets ==
  LET Size(b) == Cardinality(InBucket(b))
      used == {OnePerServer[ip] \div kBUCKET_SIZE : ip \in DOMAIN OnePerServer}
  IN  {b \in used : \A c \in used : Size(c) <= Size(b)}

Total(counts, S) == MapThenSumSet(LAMBDA ip : counts[ip], S)

(* How far v is from the mean of n counts that sum up to total, n times.   *)
Deviation(v, n, total) == n * v - total

(* The variance of the counts of S, n^3 times, where n is their number.    *)
Spread(counts, S) ==
  LET d(ip) == Deviation(counts[ip], Cardinality(S), Total(counts, S))
  IN  Total([ip \in S |-> d(ip) * d(ip)], S)

(* Mutant of WithinBounds: the mean is compared with counts that are equal. *)
StrictlyWithinBounds(v) ==
  LET chosen == InBucket(bucket)
      n == Cardinality(chosen)
      d == Deviation(v, n, Total(OnePerServer, chosen))
  IN  n * d * d < 25 * Spread(OnePerServer, chosen)

(* int(mean - 5 * sd) <= v <= int(mean + 5 * sd)                           *)
WithinBounds(v) ==
  LET chosen == InBucket(bucket)
      n == Cardinality(chosen)
      d == Deviation(v, n, Total(OnePerServer, chosen))
      spread == Spread(OnePerServer, chosen)
  IN  /\ d + n > 0 \/ n * (d + n) * (d + n) < 25 * spread
      /\ d <= 0 \/ n * d * d <= 25 * spread

(* Mutant of FirstIps: dual-stack servers weigh twice.                     *)
FirstOfAll == {ip \in DOMAIN AllIps : WithinBounds(AllIps[ip])}

FirstIps == {ip \in DOMAIN OnePerServer : WithinBounds(AllIps[ip])}
FirstIpsAll == {ip \in DOMAIN AllIps : WithinBounds(AllIps[ip])}

(* Not so when nothing is left: a mean that is no number is not below.     *)
MeanBelowSanity ==
  Total(AllIps, FirstIps) < KeysSanityMin * Cardinality(FirstIps)

(* int(second_sd)                                                          *)
StandardDeviation ==
  LET n == Cardinality(FirstIps)
      spread == Spread(AllIps, FirstIps)
      bound == Max({AllIps[ip] : ip \in FirstIps})
  IN  Max({k \in 0 .. bound : k * k * n * n * n <= spread})

(* The only count, if there is only one.                                   *)
SecondHighest ==
  LET AtLeast(v) == {ip \in FirstIps : AllIps[ip] >= v}
  IN  Max({v \in {AllIps[ip] : ip \in FirstIps} :
             Cardinality(AtLeast(v)) >= 2 \/ Cardinality(FirstIps) = 1})

(* Mutant of Threshold: the tolerance is added.                            *)
ThresholdAbove == SecondHighest + (KeysDailyJitter + StandardDeviation)

Threshold == SecondHighest - (KeysDailyJitter + StandardDeviation)

-----------------------------------------------------------------------------
(* What a request excludes.                                                *)

Filters == <<"skip_1010", "minimum_version", "countries", "proxies">>

(* A minimum version that does not parse is no minimum at all.             *)
Asked(f) ==
  CASE f = "skip_1010" -> TRUE
    [] f = "minimum_version" -> NewSksVersion(request.minimum_version) # NoVersion
    [] f = "countries" -> request.countries # NotAsked
    [] f = "proxies" -> request.proxies

TooOld(version) ==
  \/ NewSksVersion(version) = NoVersion
  \/ ~ IsAtLeast(NewSksVersion(version), NewSksVersion(request.minimum_version))

(* A server is in a country if one of its addresses is.                    *)
Unwanted(f, i) ==
  CASE f = "skip_1010" -> servers[i].Version = V1010
    [] f = "minimum_version" -> TooOld(servers[i].Version)
    [] f = "countries" -> \A ip \in IpsOf(i) : CountryOf[ip] \notin request.countries
    [] f = "proxies" -> ~ servers[i].Proxied /\ servers[i].Native

(* Mutant of Eliminated: only the address kept for the statistics goes.    *)
EliminatedHeads(f) == {ip \in Address : \E i \in Heading(ip) : Unwanted(f, i)}

Eliminated(f) == {ip \in Address : \E i \in Listing(ip) : Unwanted(f, i)}

-----------------------------------------------------------------------------
(* The stages.                                                             *)

Abort(reason) ==
  /\ stage' = reason
  /\ UNCHANGED <<servers, request, bucket, threshold, ips>>

FirstScan ==
  /\ stage = "bucketing" /\ servers = NotScanned
  /\ Abort("first_scan")

NoBuckets ==
  /\ stage = "bucketing" /\ servers # NotScanned
  /\ DOMAIN OnePerServer = {}
  /\ Abort("broken_no_buckets")

ChooseBucket ==
  /\ stage = "bucketing" /\ servers # NotScanned
  /\ \E b \in LargestBuckets : bucket' = b
  /\ stage' = "bounding"
  /\ UNCHANGED <<servers, request, threshold, ips>>

BrokenData ==
  /\ stage = "bounding" /\ MeanBelowSanity
  /\ Abort("broken_data")

(* threshold_candidates[0] of an empty list.                               *)
IndexOutOfRange ==
  /\ stage = "bounding" /\ ~ MeanBelowSanity
  /\ FirstIps = {}
  /\ Abort("panic")

SetThreshold ==
  /\ stage = "bounding" /\ ~ MeanBelowSanity
  /\ FirstIps # {}
  /\ threshold' = IF request.threshold > 0 THEN request.threshold ELSE Threshold
  /\ stage' = "selecting"
  /\ UNCHANGED <<servers, request, bucket, ips>>

Select ==
  LET above == {ip \in FirstIpsAll : AllIps[ip] >= threshold}
  IN  /\ stage = "selecting"
      /\ ips' = above
      /\ stage' = IF above = {} THEN "threshold_too_high" ELSE Filters[1]
      /\ UNCHANGED <<servers, request, bucket, threshold>>

(* filterOut, and what follows it.                                         *)
Filter(k) ==
  LET left == IF Asked(Filters[k]) THEN ips \ Eliminated(Filters[k]) ELSE ips
  IN  /\ stage = Filters[k]
      /\ ips' = left
      /\ stage' = IF left = {} THEN "no_servers_left"
                  ELSE IF k = Len(Filters) THEN "answered" ELSE Filters[k + 1]
      /\ UNCHANGED <<servers, request, bucket, threshold>>

Next ==
  \/ FirstScan \/ NoBuckets \/ ChooseBucket
  \/ BrokenData \/ IndexOutOfRange \/ SetThreshold
  \/ Select
  \/ \E k \in DOMAIN Filters : Filter(k)

Spec == Init /\ [][Next]_vars

-----------------------------------------------------------------------------
(* Properties.                                                             *)

(* Every address that is given out has the key count asked for, and no     *)
(* server with a key count that lists it, under whatever position, is one  *)
(* of those the request excludes or runs 1.0.10; filterOut is given        *)
(* addresses, not servers.  (A server without one is passed over by every  *)
(* loop of the page, so its addresses come from other servers.)            *)
ServedAddressesWanted ==
  stage = "answered" =>
    /\ ips # {}
    /\ \A ip \in ips :
         /\ AllIps[ip] >= threshold
         /\ \A i \in Counted : \A k \in DOMAIN Filters :
              ip \in IpsOf(i) /\ Asked(Filters[k]) => ~ Unwanted(Filters[k], i)

(* No two servers with keys list the same address.                         *)
Apart == \A i, j \in Counted : i # j => IpsOf(i) \cap IpsOf(j) = {}

(* The index into the empty list of candidates needs a server whose first  *)
(* address another server lists too: the bounds come from one map of key   *)
(* counts and are applied to the other.  Otherwise the bounds always       *)
(* contain one of the counts they were computed from.                      *)
PanicOnlyIfShared == stage = "panic" => ~ Apart

(* The page's own threshold always leaves an address to give out; only one *)
(* asked for in the request is too high.                                   *)
OwnThresholdNotTooHigh == stage = "threshold_too_high" => request.threshold > 0

(* "we really want the "best" servers to be our guide, so 1 std-dev of the *)
(* second-highest remaining value should be safe": of two servers or more  *)
(* within the bounds, the page's own threshold keeps at least two.  A      *)
(* server with several addresses, were it counted more than once, would be *)
(* its own second-highest.                                                 *)
TwoServersSelected ==
  LET good == {i \in Counted : servers[i].IpList # <<>> /\ WithinBounds(servers[i].Keycount)}
  IN  stage = Filters[1] /\ request.threshold = 0 /\ Apart /\ Cardinality(good) > 1 =>
        Cardinality({i \in good : IpsOf(i) \subseteq ips}) > 1
=============================================================================
