------------------------------ MODULE WaitGroup ------------------------------
(***************************************************************************)
(* What the crawl promises its caller (the comment in Spider.Wait): work   *)
(* is started once, a unit of work may end or turn into any number of      *)
(* others, and the caller is released exactly when no work is left, after  *)
(* which there is never any again.  No counter, channel or host is seen.   *)
(***************************************************************************)
EXTENDS Naturals

VARIABLES work,   \* units of work that exist
          waiter  \* the caller: "starting", "waiting" or "released"

Init == work = 0 /\ waiter = "starting"

Start ==
  /\ waiter = "starting"
  /\ work' = 1
  /\ waiter' = "waiting"

Work ==
  /\ work > 0
  /\ work' \in Nat
  /\ UNCHANGED waiter

Release ==
  /\ waiter = "waiting"
  /\ work = 0
  /\ waiter' = "released"
  /\ UNCHANGED work

Next == Start \/ Work \/ Release

Safety == Init /\ [][Next]_<<work, waiter>>

(* A waiter that can be released is: the runtime wakes it.                 *)
Spec == Safety /\ WF_<<work, waiter>>(Release)
=============================================================================
