----------------------------- MODULE StatsPage -----------------------------
(***************************************************************************)
(* The goroutine QueryHost of one server (spider.go), with what it calls:  *)
(* Fetch and Analyze of the server's statistics page (server_info.go).     *)
(*                                                                         *)
(* A response is what the server and the network make of the request, down *)
(* to what Analyze tells apart: the sections of the HTML page and their    *)
(* rows, or the fields and the peer entries of the JSON object.  Parsing   *)
(* HTML and JSON is the libraries'.  Analyze fills the node in one section *)
(* at a time, and a section that is not as expected makes it panic there.  *)
(***************************************************************************)
EXTENDS Integers, Sequences, FiniteSets, SequencesExt

CONSTANTS
  Peer,       \* the names servers list as peers
  Key,        \* the names of settings, with the first letter in upper case
  Numkeys,    \* two of them
  Total,
  Blank,      \* the empty string
  Text,       \* a value that is not a number
  Missing,    \* a section, a cell or a field that is not there
  NoTable,    \* a section's heading that no table follows
  Responses   \* the responses to look at

Value == Nat \union {Text}
Row == [host : Peer, port : Nat \union {Missing}]
Entry == Row \union {Missing}
Setting == [key : Key, value : Value \union {Missing}]

Html == [kind : {"html"}, settings : Seq(Setting) \union {Missing, NoTable},
         statistics : Value \union {Missing, NoTable, Blank},
         mailsync : {<<>>, Missing, NoTable},
         gossip : Seq(Row) \union {Missing, NoTable}]
Json == [kind : {"json"}, fields : SUBSET Setting, peers : Seq(Entry) \union {Missing}]

ASSUME StatsPageAssumption ==
  /\ Cardinality({Blank, Text, Missing, NoTable}) = 4
  /\ {Numkeys, Total} \subseteq Key /\ Numkeys # Total
  /\ Peer \intersect {Blank, Text, Missing, NoTable} = {}
  /\ Missing \notin Nat \union Row \union Setting
  /\ Responses \subseteq [conn : {"fails", "lost", "whole"}, ok : BOOLEAN,
                          body : Html \union Json \union [kind : {"null", "neither"}]]

VARIABLES
  response,  \* what this server answers
  at,        \* where QueryHost is
  node,      \* the SksNode
  paniced,   \* analyzePaniced
  sent       \* the results sent on hostResult, in order

vars == <<response, at, node, paniced, sent>>

\* pageContent and pageJson: whether they hold something.
NewNode == [Settings |-> <<>>, GossipPeers |-> <<>>, GossipPeerList |-> <<>>,
            Keycount |-> 0, analyzeError |-> FALSE,
            pageContent |-> FALSE, pageJson |-> FALSE]

Send(err, n) == sent' = Append(sent, [err |-> err, node |-> n])

Init ==
  /\ response \in Responses
  /\ at = "fetch"
  /\ node = NewNode
  /\ paniced = FALSE
  /\ sent = <<>>

body == response.body

-----------------------------------------------------------------------------
(* Fetch.                                                                  *)

Fetchable == response.conn = "whole" /\ body.kind # "neither"

\* No connection, a body cut short, or one that is neither JSON nor HTML.
FetchFails ==
  /\ at = "fetch"
  /\ ~Fetchable
  /\ at' = "returned"
  /\ Send(TRUE, Missing)
  /\ UNCHANGED <<response, node, paniced>>

\* A body "null" is JSON, and leaves both pages nil.
Fetch ==
  /\ at = "fetch"
  /\ Fetchable
  /\ at' = "status"
  /\ node' = [node EXCEPT !.pageJson = body.kind = "json",
                          !.pageContent = body.kind = "html"]
  /\ UNCHANGED <<response, paniced, sent>>

-----------------------------------------------------------------------------
(* Analyze: one step for each section it reads.                            *)

\* What stands at the section Analyze is at makes it panic: a heading that no
\* table follows, a row with too few cells, a page without statistics, a peer's
\* address without a port, or no page at all.
Cut(section, cell) ==
  IF section \in {Missing, NoTable} THEN section = NoTable
  ELSE \E i \in DOMAIN section : section[i] # Missing /\ section[i][cell] = Missing

Broken ==
  CASE at = "mailsync" -> node.pageContent => body.mailsync = NoTable
    [] at = "settings" -> Cut(body.settings, "value")
    [] at = "statistics" -> body.statistics \in {Missing, NoTable}
    [] at = "gossip" -> Cut(body.gossip, "port")
    [] at = "peers" -> Cut(body.peers, "port")
    [] OTHER -> FALSE

Read(section, next, n) ==
  /\ at = section
  /\ ~Broken
  /\ at' = next
  /\ node' = n
  /\ UNCHANGED <<response, paniced, sent>>

CheckStatus ==
  /\ at = "status"
  /\ IF response.ok
     THEN Read("status", IF node.pageJson THEN "fields" ELSE "mailsync", node)
     ELSE Read("status", "send",
               [node EXCEPT !.Keycount = -2, !.analyzeError = TRUE])

\* Settings of a JSON object: keys that differ only in their first letter's case
\* fall together, and the one met last stays.  A value that is neither a string
\* nor a number is passed over.
JsonSettings ==
  LET usable == {f \in body.fields : f.value # Missing}
  IN  {s \in [{f.key : f \in usable} -> {f.value : f \in usable}] :
         \A k \in DOMAIN s : [key |-> k, value |-> s[k]] \in usable}

JsonKeycount(settings) ==
  LET Numbered(k) == k \in DOMAIN settings /\ settings[k] # Text
  IN  IF Numbered(Numkeys) THEN settings[Numkeys]
      ELSE IF Numbered(Total) THEN settings[Total]
      ELSE -1

ReadFields ==
  /\ at = "fields"
  /\ \E s \in JsonSettings :
       Read("fields", "peers",
            [node EXCEPT !.Settings = s, !.Keycount = JsonKeycount(s)])

\* A map filled row by row: the last row of a key stays, and an entry that is
\* not there fills nothing.
FromRows(rows, key, value) ==
  LET filled == {i \in DOMAIN rows : rows[i] # Missing}
      LastOf(k) == CHOOSE i \in filled :
                     rows[i][key] = k /\ \A j \in filled : rows[j][key] = k => j <= i
  IN  [k \in {rows[i][key] : i \in filled} |-> rows[LastOf(k)][value]]

Ports(rows) == FromRows(rows, "host", "port")
Rows(section) == IF section = Missing THEN <<>> ELSE section

\* An entry without an address leaves its place in the list empty.
ListOf(entries) ==
  [i \in DOMAIN entries |-> IF entries[i] = Missing THEN Blank ELSE entries[i].host]

ReadJsonPeers ==
  Read("peers", "minimize",
       [node EXCEPT !.GossipPeerList = ListOf(Rows(body.peers)),
                    !.GossipPeers = Ports(Rows(body.peers))])

ReadMailsync == Read("mailsync", "settings", node)

ReadSettings ==
  Read("settings", "statistics",
       [node EXCEPT !.Settings =
          FromRows(Rows(body.settings), "key", "value")])

\* Text that does not start like the count leaves 0.
ReadStatistics ==
  Read("statistics", "gossip",
       [node EXCEPT !.Keycount = CASE body.statistics = Text -> -1
                                   [] body.statistics = Blank -> 0
                                   [] OTHER -> body.statistics])

\* The list is the keys of the map, in any order.
ReadGossip ==
  /\ at = "gossip"
  /\ ~Broken
  /\ LET peers == Ports(Rows(body.gossip))
     IN  \E list \in SetToSeqs(DOMAIN peers) :
           Read("gossip", "minimize",
                [node EXCEPT !.GossipPeers = peers, !.GossipPeerList = list])

Minimize == Read("minimize", "send", [node EXCEPT !.pageContent = FALSE])

\* Mutant: the deferred function recovers, and sends nothing.
RecoverSilently ==
  /\ Broken
  /\ node' = [node EXCEPT !.analyzeError = TRUE]
  /\ paniced' = TRUE
  /\ at' = "send"
  /\ UNCHANGED <<response, sent>>

\* The deferred function of QueryHost recovers from the panic, and sends.
Recover ==
  /\ Broken
  /\ node' = [node EXCEPT !.analyzeError = TRUE]
  /\ paniced' = TRUE
  /\ Send(TRUE, node')
  /\ at' = "send"
  /\ UNCHANGED response

-----------------------------------------------------------------------------
\* Mutant: a panic does not keep QueryHost from sending once more.
SendAnyway ==
  /\ at = "send"
  /\ at' = "returned"
  /\ Send(FALSE, node)
  /\ UNCHANGED <<response, node, paniced>>

SendUnlessPaniced ==
  /\ at = "send"
  /\ at' = "returned"
  /\ IF paniced THEN UNCHANGED sent ELSE Send(FALSE, node)
  /\ UNCHANGED <<response, node, paniced>>

Next ==
  \/ FetchFails \/ Fetch \/ CheckStatus
  \/ ReadFields \/ ReadJsonPeers
  \/ ReadMailsync \/ ReadSettings \/ ReadStatistics \/ ReadGossip
  \/ Minimize \/ Recover \/ SendUnlessPaniced

Spec == Init /\ [][Next]_vars /\ WF_vars(Next)

-----------------------------------------------------------------------------
(* Every query ends, and with one result: the main loop takes one name off *)
(* its counts for each, whether the fetch fails, the server refuses, or    *)
(* Analyze panics on the page.                                             *)
OneResult == <>[](Len(sent) = 1)

(* A result that is no error is the whole page: its peers, those the crawl *)
(* follows and those with a port, are all that the page names, and no      *)
(* place of the list is empty but for an entry without an address; a count *)
(* is the page's own; and the parsed page has been freed.  Only a refusal  *)
(* passes for a result without any of them.                                *)
WholePageOrError ==
  \A i \in DOMAIN sent : ~sent[i].err =>
    LET n == sent[i].node
        section == IF body.kind = "json" THEN body.peers ELSE body.gossip
        entries == Rows(section)
        names == {entries[j].host : j \in {k \in DOMAIN entries : entries[k] # Missing}}
        list == n.GossipPeerList
    IN  \/ ~response.ok /\ n.Keycount = -2 /\ list = <<>>
        \/ /\ response.ok
           /\ body.kind \in {"html", "json"}
           /\ section # NoTable
           /\ DOMAIN n.GossipPeers = names
           /\ ToSet(list) \ {Blank} = names
           /\ Blank \in ToSet(list) <=> Missing \in ToSet(entries)
           /\ n.Keycount > 0 => IF body.kind = "html" THEN body.statistics = n.Keycount
                                ELSE \E f \in body.fields : f.value = n.Keycount
           /\ ~n.pageContent
=============================================================================
