------------------------------- MODULE Daemon -------------------------------
(***************************************************************************)
(* The life of the daemon (main.go, serialize.go), run with -json-persist: *)
(* start-up from the file or by a first scan, the periodic scans, the      *)
(* goroutines that publish what a scan found, the handler of SIGUSR1 that  *)
(* saves the mesh and lets Main return, and the next start.                *)
(*                                                                         *)
(* A mesh is the number of the scan it came from, counted over all the     *)
(* processes.  How a scan finds it is the matter of Spider, and what is    *)
(* published of it of Publication.  The copy -json-dump writes once is     *)
(* never read back and is left out.                                        *)
(***************************************************************************)
EXTENDS Naturals

CONSTANTS
  MaxScans,  \* bound on the number of scans
  None,      \* no file, and no mesh yet
  Partial    \* a file that was emptied and not written to its end

ASSUME DaemonAssumption ==
  /\ MaxScans \in Nat \ {0}
  /\ None \notin Nat /\ Partial \notin Nat \cup {None}

VARIABLES
  main,         \* where Main is; it waits once signal.Notify has been called
  http,         \* ListenAndServe: "off", "serving" or "failed"
  httpServing,  \* the WaitGroup Main waits on in the end
  respider,     \* respiderPeriodically
  publishing,   \* scans whose normaliseMeshAndSet goroutine still runs
  current,      \* currentHostInfo
  runner,       \* where shutdownRunner is
  held,         \* the mesh shutdownRunner is saving
  writes,       \* "lost" when writes of the dump failed, else "ok"
  file,         \* the persisted file: a mesh, Partial or None
  scans         \* scans completed so far

server == <<http, httpServing>>
mesh == <<respider, publishing, current>>
dump == <<held, writes, file>>
vars == <<main, server, mesh, runner, dump, scans>>

Init ==
  /\ main = "down" /\ http = "off" /\ httpServing = 0
  /\ respider = "off" /\ publishing = {} /\ current = None
  /\ runner = "off" /\ held = None /\ writes = "ok"
  /\ file = None /\ scans = 0

Up == main # "down"

(* The process ends, and every goroutine with it.                          *)
GoDown ==
  /\ main' = "down" /\ http' = "off" /\ httpServing' = 0
  /\ respider' = "off" /\ publishing' = {} /\ current' = None
  /\ runner' = "off" /\ held' = None /\ writes' = "ok"
  /\ UNCHANGED <<file, scans>>

-----------------------------------------------------------------------------
(* Main, up to httpServing.Wait().                                         *)

Start ==
  /\ ~Up
  /\ http' = "serving"
  /\ httpServing' = 1
  /\ main' = IF file = None THEN "scanning" ELSE "loading"
  /\ UNCHANGED <<mesh, runner, dump, scans>>

(* Mutant of Load: the error is not looked at.                             *)
LoadAnything ==
  /\ main = "loading"
  /\ current' = file
  /\ main' = "handling"
  /\ UNCHANGED <<server, respider, publishing, runner, dump, scans>>

Load ==
  /\ main = "loading"
  /\ file # Partial
  /\ current' = file
  /\ main' = "handling"
  /\ UNCHANGED <<server, respider, publishing, runner, dump, scans>>

(* Log.Fatalf("Failed to load JSON ...")                                   *)
LoadFails ==
  /\ main = "loading"
  /\ file = Partial
  /\ GoDown

(* A scan ends: it is handed to a goroutine that publishes it.             *)
Scanned ==
  /\ scans < MaxScans
  /\ scans' = scans + 1
  /\ publishing' = publishing \cup {scans'}
  /\ respider' = "sleeping"
  /\ UNCHANGED <<server, current, runner, dump>>

FirstScan == main = "scanning" /\ main' = "handling" /\ Scanned

StartRunner ==
  /\ main = "handling"
  /\ respider' = IF respider = "off" THEN "sleeping" ELSE respider
  /\ runner' = "starting"
  /\ main' = "notifying"
  /\ UNCHANGED <<server, publishing, current, dump, scans>>

Notify ==
  /\ main = "notifying"
  /\ main' = "waiting"
  /\ UNCHANGED <<server, mesh, runner, dump, scans>>

Exit ==
  /\ main = "waiting"
  /\ httpServing = 0
  /\ GoDown

-----------------------------------------------------------------------------
(* respiderPeriodically and the goroutines of normaliseMeshAndSet.         *)

(* Mutant of SlowEnough: the sleep may be as short as the flags say.       *)
AnyDelay == TRUE

(* The sleep lasts half an hour at least: whatever the scan before it      *)
(* started is over.                                                        *)
SlowEnough == publishing = {}

Awake ==
  /\ respider = "sleeping"
  /\ SlowEnough
  /\ respider' = "spidering"
  /\ UNCHANGED <<main, server, publishing, current, runner, dump, scans>>

Respider == respider = "spidering" /\ Scanned /\ UNCHANGED main

SetCurrentPersisted(n) ==
  /\ n \in publishing
  /\ publishing' = publishing \ {n}
  /\ current' = n
  /\ UNCHANGED <<main, server, respider, runner, dump, scans>>

-----------------------------------------------------------------------------
(* SIGUSR1 and shutdownRunner.                                             *)

RunnerStarts ==
  /\ runner = "starting"
  /\ runner' = "receiving"
  /\ UNCHANGED <<main, server, mesh, dump, scans>>

(* The run-time does nothing with a SIGUSR1 before signal.Notify, and after *)
(* it does not wait for a receiver: any other signal has no effect.        *)
SignalReceived ==
  /\ main = "waiting"
  /\ runner = "receiving"
  /\ runner' = "received"
  /\ UNCHANGED <<main, server, mesh, dump, scans>>

NothingToSave ==
  /\ runner = "received"
  /\ current = None
  /\ runner' = "finishing"
  /\ UNCHANGED <<main, server, mesh, dump, scans>>

(* Mutant of AfterCreate: Main is let go with the file still empty.        *)
EarlyDone == "finishing"

AfterCreate == "saving"

(* GetCurrentPersisted and os.Create, which empties the file.              *)
Create ==
  /\ runner = "received"
  /\ current # None
  /\ held' = current
  /\ file' = Partial
  /\ runner' = AfterCreate
  /\ UNCHANGED <<main, server, mesh, writes, scans>>

DumpJSON ==
  /\ runner = "saving"
  /\ file' = held
  /\ runner' = "finishing"
  /\ UNCHANGED <<main, server, mesh, held, writes, scans>>

(* The disk is full: the errors of Fprintf are dropped.                    *)
WritesFail ==
  /\ runner = "saving"
  /\ writes' = "lost"
  /\ runner' = "finishing"
  /\ UNCHANGED <<main, server, mesh, held, file, scans>>

(* "Error saving shutdown JSON": from os.Create, json.Marshal or Close.    *)
SaveFails ==
  /\ \/ runner = "saving"
     \/ runner = "received" /\ current # None
  /\ runner' = "failed"
  /\ UNCHANGED <<main, server, mesh, dump, scans>>

(* Mutant of Released: the counter is left as it is.                       *)
Kept == httpServing

Released == httpServing - 1

(* httpServing.Done() with the counter at zero panics.                     *)
DoneAgain == httpServing = 0 /\ GoDown

RunnerDone ==
  /\ runner \in {"finishing", "failed"}
  /\ \/ DoneAgain
     \/ /\ httpServing > 0
        /\ httpServing' = Released
        /\ runner' = IF runner = "finishing" THEN "gone" ELSE "gave up"
        /\ UNCHANGED <<main, http, mesh, dump, scans>>

(* startHttpServing: ListenAndServe returned.                              *)
HttpFails ==
  /\ http = "serving"
  /\ \/ DoneAgain
     \/ /\ httpServing > 0
        /\ httpServing' = Released
        /\ http' = "failed"
        /\ UNCHANGED <<main, mesh, runner, dump, scans>>

(* The machine stops, or somebody kills the process.                       *)
Kill == Up /\ GoDown

-----------------------------------------------------------------------------
Main == Load \/ LoadFails \/ FirstScan \/ StartRunner \/ Notify \/ Exit

Scan == Awake \/ Respider \/ \E n \in publishing : SetCurrentPersisted(n)

ShutdownRunner ==
  RunnerStarts \/ NothingToSave \/ Create \/ DumpJSON \/ RunnerDone

Fault == WritesFail \/ SaveFails \/ HttpFails \/ Kill

Next == Start \/ Main \/ Scan \/ SignalReceived \/ ShutdownRunner \/ Fault

(* Main and shutdownRunner get on with what they can do; signals, faults   *)
(* and scans come when they come.                                          *)
Fairness == WF_vars(Main) /\ WF_vars(ShutdownRunner)

Spec == Init /\ [][Next]_vars
FairSpec == Spec /\ Fairness

-----------------------------------------------------------------------------
MainAt == {"down", "loading", "scanning", "handling", "notifying", "waiting"}
RunnerAt == {"off", "starting", "receiving", "received", "saving", "finishing",
             "failed", "gone", "gave up"}

(* The shape of the state; a mesh is the number of the scan that found it. *)
TypeOK ==
  /\ main \in MainAt
  /\ http \in {"off", "serving", "failed"}
  /\ httpServing \in {0, 1}
  /\ respider \in {"off", "sleeping", "spidering"}
  /\ scans \in Nat
  /\ publishing \subseteq Nat
  /\ current \in Nat \cup {None}
  /\ runner \in RunnerAt
  /\ held \in Nat \cup {None}
  /\ writes \in {"ok", "lost"}
  /\ file \in Nat \cup {Partial, None}

IsMesh(m) == m \in Nat

(* What visitors see, and what is kept for the next process, never goes    *)
(* back to an older scan, although a goroutine of its own publishes each   *)
(* scan and the dump is taken at any time.                                 *)
NeverOlder ==
  /\ IsMesh(file) /\ IsMesh(current) => current >= file
  /\ IsMesh(held) /\ IsMesh(current) => current >= held
  /\ IsMesh(current) => \A n \in publishing : n > current

(* When SIGUSR1 is what made Main return, and neither os.Create nor the    *)
(* disk failed, the file holds the whole mesh that was current when the    *)
(* handler ran.                                                            *)
SavedBeforeExit ==
  [][Exit /\ http = "serving" /\ runner # "gave up" /\ writes = "ok" =>
       IF held = None THEN file # Partial ELSE file = held]_vars

(* A signal that shutdownRunner received ends the process, whatever fails  *)
(* on the way.                                                             *)
ReceivedSignalEnds == runner = "received" ~> ~Up

(* "receipt of that signal causes the current mesh to be written to the    *)
(* named file (removing any previous content), before exiting" (README):   *)
(* if no error is reported, that is what happened.                         *)
MeshWrittenBeforeExit ==
  [][Exit /\ http = "serving" /\ held # None /\ runner # "gave up" =>
       file = held]_vars
=============================================================================
