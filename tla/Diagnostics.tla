----------------------------- MODULE Diagnostics -----------------------------
(***************************************************************************)
(* Who answers /scanstatusz (diagnostics.go): the handlers of the page     *)
(* send their writer on one unbuffered channel and wait for a signal on    *)
(* another.  While a scan runs its main loop serves them; between scans a  *)
(* dummy goroutine does, which each new scan kills and each finished scan  *)
(* starts again (StartSpider, Spider.Terminate).                           *)
(*                                                                         *)
(* diagnosticSpiderDummyLock is only ever held across a blocking step by   *)
(* the goroutine that kills the dummy, so it is free unless the caller is  *)
(* "killing"; the dummy's own critical sections are single steps.          *)
(***************************************************************************)
EXTENDS FiniteSets

CONSTANTS
  Handler,  \* requests for /scanstatusz that can be open at once
  Dummy,    \* identities for the goroutines of Spider.Terminate
  Loop,     \* the main loop of the scan in progress
  None,
  Timely    \* a scan, and the pause after it, outlast the few instructions
            \* a dummy needs to start or to clear its flag

ASSUME DiagnosticsAssumption ==
  /\ Loop \notin Dummy
  /\ None \notin Handler
  /\ Timely \in BOOLEAN

Server == Dummy \cup {Loop}

VARIABLES
  caller,   \* the goroutine that runs scan after scan
  at,       \* where each server is
  out,      \* the request whose writer a server holds
  handler,  \* where each request is
  flag      \* diagnosticSpiderDummy

vars == <<caller, at, out, handler, flag>>

(* A process that scans at start-up, or one that loaded its hosts from     *)
(* JSON and has yet to scan: no server exists.                             *)
Init ==
  /\ caller = "asleep"
  /\ at = [s \in Server |-> "gone"]
  /\ out = [s \in Server |-> None]
  /\ handler = [h \in Handler |-> "idle"]
  /\ flag = FALSE

Settled == \A d \in Dummy : at[d] \notin {"checking", "clearing"}

-----------------------------------------------------------------------------
(* The caller: StartSpider, AddHost, Wait, Terminate, sleep.               *)

(* Mutant of MustKill: the dummy is never told to stop.                    *)
NeverKill == FALSE

MustKill == flag

(* KillDummySpiderForDiagnosticsChannel finds a dummy ...                  *)
LockToKill ==
  /\ caller = "asleep"
  /\ Timely => Settled
  /\ MustKill
  /\ caller' = "killing"
  /\ UNCHANGED <<at, out, handler, flag>>

(* ... which receives the signal and, in its turn, waits for the lock.     *)
Kill(d) ==
  /\ caller = "killing"
  /\ at[d] = "select"
  /\ caller' = "seeding"
  /\ at' = [at EXCEPT ![d] = "clearing", ![Loop] = "select"]
  /\ UNCHANGED <<out, handler, flag>>

StartWithoutDummy ==
  /\ caller = "asleep"
  /\ Timely => Settled
  /\ ~MustKill
  /\ caller' = "seeding"
  /\ at' = [at EXCEPT ![Loop] = "select"]
  /\ UNCHANGED <<out, handler, flag>>

(* AddHost writes pendingHosts in the caller's goroutine.                  *)
AddHost ==
  /\ caller = "seeding"
  /\ caller' = "scanning"
  /\ UNCHANGED <<at, out, handler, flag>>

(* The runtime may notice that write while a dump iterates over the map:   *)
(* a fatal error ends the process.                                         *)
MapRace ==
  /\ caller = "seeding"
  /\ at[Loop] = "dumping"
  /\ caller' = "crashed"
  /\ UNCHANGED <<at, out, handler, flag>>

(* Wait returns.                                                           *)
ScanEnds ==
  /\ caller = "scanning"
  /\ Timely => Settled
  /\ caller' = "terminating"
  /\ UNCHANGED <<at, out, handler, flag>>

Terminate(d) ==
  /\ caller = "terminating"
  /\ at[Loop] = "select"
  /\ at[d] = "gone"
  /\ caller' = "asleep"
  /\ at' = [at EXCEPT ![Loop] = "gone", ![d] = "checking"]
  /\ UNCHANGED <<out, handler, flag>>

-----------------------------------------------------------------------------
(* DummySpiderForDiagnosticsChannel.                                       *)

CheckFlag(d) ==
  /\ at[d] = "checking"
  /\ caller # "killing"
  /\ at' = [at EXCEPT ![d] = IF flag THEN "gone" ELSE "select"]
  /\ flag' = TRUE
  /\ UNCHANGED <<caller, out, handler>>

(* Mutant of ClearedFlag: the flag is not reset.                           *)
KeptFlag == flag

ClearedFlag == FALSE

Clear(d) ==
  /\ at[d] = "clearing"
  /\ caller # "killing"
  /\ at' = [at EXCEPT ![d] = "gone"]
  /\ flag' = ClearedFlag
  /\ UNCHANGED <<caller, out, handler>>

-----------------------------------------------------------------------------
(* SpiderDiagnostics, and the server's side of it.                         *)

Ask(h) ==
  /\ handler[h] = "idle"
  /\ handler' = [handler EXCEPT ![h] = "asking"]
  /\ UNCHANGED <<caller, at, out, flag>>

(* diagnosticSpiderDump <- out.  The dummy writes nothing.                 *)
Take(h, s) ==
  /\ handler[h] = "asking"
  /\ at[s] = "select"
  /\ handler' = [handler EXCEPT ![h] = "waiting"]
  /\ at' = [at EXCEPT ![s] = IF s = Loop THEN "dumping" ELSE "signalling"]
  /\ out' = [out EXCEPT ![s] = h]
  /\ UNCHANGED <<caller, flag>>

(* diagnosticDumpInRoutine                                                 *)
Dump ==
  /\ at[Loop] = "dumping"
  /\ at' = [at EXCEPT ![Loop] = "signalling"]
  /\ UNCHANGED <<caller, out, handler, flag>>

Released(s) == [out EXCEPT ![s] = None]

(* <-diagnosticSpiderDone: the signal names nobody, so any request that    *)
(* waits may receive it.                                                   *)
Signal(h, s) ==
  /\ at[s] = "signalling"
  /\ handler[h] = "waiting"
  /\ handler' = [handler EXCEPT ![h] = "idle"]
  /\ at' = [at EXCEPT ![s] = "select"]
  /\ out' = Released(s)
  /\ UNCHANGED <<caller, flag>>

-----------------------------------------------------------------------------
Scan == \/ LockToKill \/ StartWithoutDummy \/ AddHost \/ ScanEnds
        \/ \E d \in Dummy : Kill(d) \/ Terminate(d)

DummyStep(d) == CheckFlag(d) \/ Clear(d)

Answer(h) == \E s \in Server : Signal(h, s)

Alive ==
  \/ Scan \/ MapRace \/ Dump
  \/ \E d \in Dummy : DummyStep(d)
  \/ \E h \in Handler : Ask(h) \/ Answer(h) \/ \E s \in Server : Take(h, s)

Next == caller # "crashed" /\ Alive

(* Scans end, the pause between them ends, and a goroutine that can run    *)
(* does.  A request that waits in line is served sometime: a select with   *)
(* several ready cases picks one at random, and senders queue first-in     *)
(* first-out.                                                              *)
Fairness ==
  /\ SF_vars(caller # "crashed" /\ Scan)
  /\ WF_vars(caller # "crashed" /\ Dump)
  /\ \A d \in Dummy : WF_vars(caller # "crashed" /\ DummyStep(d))
  /\ \A h \in Handler :
       /\ SF_vars(caller # "crashed" /\ \E s \in Server : Take(h, s))
       /\ SF_vars(caller # "crashed" /\ Answer(h))

Spec == Init /\ [][Next]_vars
FairSpec == Spec /\ Fairness

-----------------------------------------------------------------------------
Serving(s) == at[s] \in {"select", "dumping", "signalling"}

(* The shape of the state; a server holds a writer while it serves it.     *)
TypeOK ==
  /\ caller \in {"asleep", "killing", "seeding", "scanning", "terminating",
                 "crashed"}
  /\ at \in [Server -> {"gone", "checking", "clearing", "select", "dumping",
                        "signalling"}]
  /\ out \in [Server -> Handler \cup {None}]
  /\ handler \in [Handler -> {"idle", "asking", "waiting"}]
  /\ flag \in BOOLEAN
  /\ \A s \in Server : out[s] # None <=> at[s] \in {"dumping", "signalling"}

(* The two channels have one reader at a time: a main loop and a dummy, or *)
(* two dummies, never serve together.                                      *)
OneServer == \A s, t \in Server : Serving(s) /\ Serving(t) => s = t

(* A request returns only after its own dump is written: the page's writer *)
(* is not used once its handler has gone, although the signal that lets    *)
(* the handler go names no request.                                        *)
DumpBeforeReturn ==
  \A s \in Server : out[s] # None => handler[out[s]] = "waiting"

(* StartSpider gets past the dummy: the kill signal finds its receiver,    *)
(* and nobody holds the lock the other one waits for.                      *)
KillSucceeds == caller = "killing" ~> caller # "killing"

(* Every request for /scanstatusz returns, unless the process dies.        *)
EveryRequestReturns ==
  \A h \in Handler : handler[h] = "asking" ~> handler[h] = "idle"
                                               \/ caller = "crashed"
=============================================================================
