----------------------------- MODULE SortedSet -----------------------------
(***************************************************************************)
(* What sorted_set.go promises its callers: a set of keys that is asked to *)
(* insert or to remove one key at a time, and does that and nothing else.  *)
(* BTree implements it.                                                    *)
(***************************************************************************)
CONSTANT Key

VARIABLES
  set,     \* the keys that are in
  request  \* the operation a caller waits for, or Idle

vars == <<set, request>>

Idle == [op |-> "none"]
Requests == [op : {"Set", "Delete"}, key : Key]

Init == set = {} /\ request = Idle

\* Insert and Remove: one caller at a time (nothing in the program shares a
\* set that is still being filled).
Ask ==
  /\ request = Idle
  /\ request' \in Requests
  /\ UNCHANGED set

Insert ==
  /\ request.op = "Set"
  /\ set' = set \union {request.key}
  /\ request' = Idle

Remove ==
  /\ request.op = "Delete"
  /\ set' = set \ {request.key}
  /\ request' = Idle

Answer == Insert \/ Remove

Next == Ask \/ Answer

Spec == Init /\ [][Next]_vars
=============================================================================
