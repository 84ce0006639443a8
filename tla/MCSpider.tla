------------------------------ MODULE MCSpider ------------------------------
(***************************************************************************)
(* Small meshes for TLC.  Each has a few names and addresses; what DNS and *)
(* the servers answer is chosen, per query, from the sets below.           *)
(***************************************************************************)
EXTENDS SpiderProperties, TLC

CONSTANTS start, alpha, beta, gamma, delta, bare, i1, i2, i3, i4, bad

Names == {start, alpha, beta, gamma, delta, bare}
Addresses == {i1, i2, i3, i4, bad}

Answer(hostname, nodename, peers) ==
  [hostname |-> hostname, nodename |-> nodename, peers |-> peers]

(* Everything at once: names that share addresses, fail to resolve or      *)
(* resolve to a disallowed address; servers that fail, go by another name, *)
(* advertise a node name, list themselves, a peer twice, or a bare name.   *)
MeshLookup ==
  (start :> {{i1}} @@ alpha :> {{i2}, {i2, i3}, {}} @@ beta :> {{i3}}
   @@ gamma :> {{i3}, {i2, bad}} @@ delta :> {{}} @@ bare :> {{}})
MeshPage ==
  (start :> {Answer(start, Absent, <<alpha, beta, bare>>)}
   @@ alpha :> {Answer(alpha, Absent, <<start, gamma, gamma>>),
               Answer(beta, gamma, <<gamma>>), Absent}
   @@ beta :> {Answer(Absent, bare, <<>>),
              Answer(gamma, Absent, <<alpha, beta>>)}
   @@ gamma :> {Answer(beta, beta, <<beta, start>>), Answer(bare, Absent, <<alpha>>)}
   @@ delta :> {Absent} @@ bare :> {Absent})

(* Every server goes by the name it is queried under.  DNS rotates, two    *)
(* names may share an address, and gamma and delta are near and far.      *)
PlainLookup ==
  (start :> {{i1}} @@ alpha :> {{i2}, {i2, i3}} @@ beta :> {{i3}, {i4}}
   @@ gamma :> {{i4}, {i2, i4}} @@ delta :> {{bad}, {i3, bad}, {}} @@ bare :> {{}})
PlainPage ==
  (start :> {Answer(start, Absent, <<alpha, beta>>)}
   @@ alpha :> {Answer(Absent, Absent, <<gamma, start>>),
               Answer(bare, start, <<delta>>), Absent}
   @@ beta :> {Answer(beta, Absent, <<delta, gamma>>)}
   @@ gamma :> {Answer(gamma, bare, <<delta, beta>>),
               Answer(bare, start, <<alpha>>)}
   @@ delta :> {Absent} @@ bare :> {Absent})

(* What the theorems about plain meshes assume.                            *)
ASSUME PlainMeshAssumption == GoByOwnName(PlainPage)

(* alpha and beta may share a machine, and may call themselves gamma.      *)
RenamedLookup ==
  (start :> {{i1}} @@ alpha :> {{i2}} @@ beta :> {{i2}, {i3}} @@ gamma :> {{i4}}
   @@ delta :> {{}} @@ bare :> {{}})
RenamedPage ==
  (start :> {Answer(start, Absent, <<alpha, gamma>>)}
   @@ alpha :> {Answer(alpha, Absent, <<beta>>), Answer(gamma, Absent, <<>>)}
   @@ beta :> {Answer(gamma, Absent, <<>>)}
   @@ gamma :> {Answer(gamma, Absent, <<beta>>)}
   @@ delta :> {Absent} @@ bare :> {Absent})
=============================================================================
