--------------------------- MODULE MCPublication ---------------------------
(***************************************************************************)
(* Meshes whose finished crawls are published: some servers are down, some *)
(* go by another name, and peers are also listed in capitals.              *)
(***************************************************************************)
EXTENDS Publication, TLC

CONSTANTS start, alpha, Alpha, beta, gamma, down, i1, i2, i3, i4

Names == {start, alpha, Alpha, beta, gamma, down}
Addresses == {i1, i2, i3, i4}
InOrder == <<Alpha, alpha, beta, down, gamma, start>>
LowerCase == [h \in Names |-> IF h = Alpha THEN alpha ELSE h]

Answer(hostname, peers) ==
  [hostname |-> hostname, nodename |-> Absent, peers |-> peers]

(* Every server has one name, or two it was found under by its address.    *)
OwnNameLookup ==
  (start :> {{i1}} @@ alpha :> {{i2}} @@ Alpha :> {{i2}, {}} @@ beta :> {{i3}, {i4}}
   @@ gamma :> {{i4}, {i3}, {}} @@ down :> {{}})
OwnNamePage ==
  (start :> {Answer(start, <<alpha, beta>>), Answer(start, <<down, gamma, Alpha>>)}
   @@ alpha :> {Answer(alpha, <<start, down, gamma>>), Answer(alpha, <<beta>>), Absent}
   @@ Alpha :> {Answer(alpha, <<start>>), Absent}
   @@ beta :> {Answer(beta, <<start, Alpha>>), Answer(gamma, <<start, down>>), Absent}
   @@ gamma :> {Answer(gamma, <<beta, start>>), Absent}
   @@ down :> {Absent})

(* start, alpha and beta are names of one server, gamma, that has a        *)
(* different address for each.                                             *)
SharedNameLookup ==
  (start :> {{i1}} @@ alpha :> {{i2}} @@ Alpha :> {{}} @@ beta :> {{i3}}
   @@ gamma :> {{i4}, {}} @@ down :> {{}})
SharedNamePage ==
  (start :> {Answer(gamma, <<alpha, beta>>)}
   @@ alpha :> {Answer(gamma, <<alpha, beta>>), Absent}
   @@ Alpha :> {Absent}
   @@ beta :> {Answer(beta, <<down>>), Answer(gamma, <<alpha>>)}
   @@ gamma :> {Answer(gamma, <<beta>>), Absent}
   @@ down :> {Absent})

(* What the theorems about what is published assume.                       *)
ASSUME NamesAssumption ==
  \A pages \in {OwnNamePage, SharedNamePage} :
    NamesSettled(pages) /\ NamedInLowerCase(pages) /\ CapitalsAreOwnName(pages)
=============================================================================
