----------------------------- MODULE MCIpValid -----------------------------
(***************************************************************************)
(* Up to three servers with key counts around the edge of a bucket and far *)
(* from it, some with two addresses and some with an address of another    *)
(* one, and requests for every filter.                                     *)
(***************************************************************************)
EXTENDS IpValid, TLC

CONSTANTS a1, a2, b1, b2, c1, here, there, noNumber

Addresses == {a1, a2, b1, b2, c1}
Countries == (a1 :> here @@ a2 :> there @@ b1 :> there @@ b2 :> NoCountry @@ c1 :> here)

Version(major, minor, release, tag) ==
  [Major |-> major, Minor |-> minor, Release |-> release, Tag |-> tag]

Kinds ==
  {[Version |-> Version(1, 1, 4, 1), Proxied |-> TRUE, Native |-> FALSE],
   [Version |-> Version(1, 1, 4, 0), Proxied |-> FALSE, Native |-> TRUE],
   [Version |-> Version(2, 0, 0, 0), Proxied |-> TRUE, Native |-> TRUE],
   [Version |-> V1010, Proxied |-> TRUE, Native |-> TRUE],
   [Version |-> noNumber, Proxied |-> FALSE, Native |-> FALSE]}

Server(keycounts, kinds, lists) ==
  {[Keycount |-> n, Version |-> k.Version, Proxied |-> k.Proxied,
    Native |-> k.Native, IpList |-> l] : n \in keycounts, k \in kinds, l \in lists}

(* Key counts vary with servers of one kind, and kinds with few counts.    *)
Plain == {k \in Kinds : k.Version = Version(1, 1, 4, 1)}
ManyCounts ==
  {<<x, y, z>> : x \in Server({1, 20, 21, 24}, Plain, {<<a1>>, <<a1, a2>>}),
                 y \in Server({1, 20, 24, 31}, Plain, {<<b1>>, <<b1, a1>>, <<>>}),
                 z \in Server({5, 20, 23, 31, 90}, Plain, {<<c1>>, <<c1, a2, b1>>})}
ManyKinds ==
  {<<x, y, z>> : x \in Server({21}, Kinds, {<<a1, a2>>}),
                 y \in Server({22}, Kinds, {<<b1, b2>>, <<b2, a2>>}),
                 z \in Server({24}, Kinds, {<<c1>>})}

AllMeshes == ManyCounts \cup ManyKinds \cup {NotScanned, <<>>}

Request(version, countries, proxies, least) ==
  [minimum_version |-> version, countries |-> countries, proxies |-> proxies,
   threshold |-> least]

AllRequests ==
  {Request(NotAsked, NotAsked, FALSE, 0),
   Request(NotAsked, NotAsked, FALSE, 23),
   Request(noNumber, NotAsked, TRUE, 0),
   Request(Version(1, 1, 4, 1), NotAsked, FALSE, 0),
   Request(NotAsked, {here}, FALSE, 0),
   Request(NotAsked, {}, FALSE, 0),
   Request(Version(1, 1, 4, 0), {there}, TRUE, 0)}
=============================================================================
