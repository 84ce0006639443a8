---------------------------- MODULE MCStatsPage ----------------------------
(***************************************************************************)
(* Statistics pages of every shape Analyze tells apart, and what QueryHost *)
(* makes of them.                                                          *)
(***************************************************************************)
EXTENDS StatsPage

CONSTANTS alpha, beta, Hostname

Peers == {alpha, beta}
Keys == {Hostname, Numkeys, Total}

Cell(k, v) == [key |-> k, value |-> v]
PeerRow(h, p) == [host |-> h, port |-> p]
RowLists == {Missing, <<>>, <<PeerRow(alpha, 1), PeerRow(beta, 1)>>,
             <<PeerRow(alpha, 1), PeerRow(beta, 1), PeerRow(alpha, 2)>>, <<PeerRow(alpha, 1), PeerRow(beta, Missing)>>}

HtmlPages ==
  [kind : {"html"},
   settings : {Missing, NoTable, <<Cell(Hostname, Text)>>,
               <<Cell(Hostname, 1), Cell(Hostname, Text)>>,
               <<Cell(Hostname, Text), Cell(Hostname, Missing)>>},
   statistics : {Missing, NoTable, Blank, Text, 7},
   mailsync : {<<>>, Missing, NoTable},
   gossip : RowLists \union {NoTable}]
JsonPages ==
  [kind : {"json"},
   fields : SUBSET {Cell(Hostname, Text), Cell(Hostname, Missing), Cell(Numkeys, 7),
                    Cell(Numkeys, Text), Cell(Total, 8), Cell(Total, Text)},
   peers : RowLists \union {<<Missing, PeerRow(alpha, 1)>>, <<PeerRow(beta, 1), Missing, PeerRow(beta, 2)>>}]

Answers ==
  [conn : {"whole"}, ok : BOOLEAN,
   body : HtmlPages \union JsonPages \union {[kind |-> "null"], [kind |-> "neither"]}]
    \union [conn : {"fails", "lost"}, ok : {TRUE}, body : {[kind |-> "neither"]}]
=============================================================================
