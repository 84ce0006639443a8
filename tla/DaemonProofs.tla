---------------------------- MODULE DaemonProofs ----------------------------
(***************************************************************************)
(* Theorems about Daemon, for any number of scans, restarts and faults.    *)
(***************************************************************************)
EXTENDS Daemon, TLAPS

USE DaemonAssumption

-----------------------------------------------------------------------------
(* One step from a well-typed state, and the state of a process that ends. *)
LEMMA GoneTyped ==
  ASSUME TypeOK, GoDown
  PROVE  TypeOK'
BY DEF GoDown, TypeOK, MainAt, RunnerAt

LEMMA DoneTyped ==
  ASSUME TypeOK, httpServing > 0
  PROVE  Released \in {0, 1}
BY DEF TypeOK, Released

LEMMA NextTyped ==
  ASSUME TypeOK, [Next]_vars
  PROVE  TypeOK'
<1>1. CASE Start
  BY <1>1 DEF Start, TypeOK, mesh, dump, MainAt
<1>2. CASE Main
  <2>1. CASE Load
    BY <2>1 DEF Load, TypeOK, server, dump, MainAt
  <2>2. CASE LoadFails \/ Exit
    BY <2>2, GoneTyped DEF LoadFails, Exit
  <2>3. CASE FirstScan
    BY <2>3 DEF FirstScan, Scanned, TypeOK, server, dump, MainAt
  <2>4. CASE StartRunner
    BY <2>4 DEF StartRunner, TypeOK, server, dump, MainAt, RunnerAt
  <2>5. CASE Notify
    BY <2>5 DEF Notify, TypeOK, server, mesh, dump, MainAt
  <2> QED
    BY <1>2, <2>1, <2>2, <2>3, <2>4, <2>5 DEF Main
<1>3. CASE Scan
  <2>1. CASE Awake
    BY <2>1 DEF Awake, TypeOK, server, dump
  <2>2. CASE Respider
    BY <2>2 DEF Respider, Scanned, TypeOK, server, dump
  <2>3. ASSUME NEW n \in publishing, SetCurrentPersisted(n) PROVE TypeOK'
    BY <2>3 DEF SetCurrentPersisted, TypeOK, server, dump
  <2> QED
    BY <1>3, <2>1, <2>2, <2>3 DEF Scan
<1>4. CASE SignalReceived
  BY <1>4 DEF SignalReceived, TypeOK, server, mesh, dump, RunnerAt
<1>5. CASE ShutdownRunner
  <2>1. CASE RunnerStarts
    BY <2>1 DEF RunnerStarts, TypeOK, server, mesh, dump, RunnerAt
  <2>2. CASE NothingToSave
    BY <2>2 DEF NothingToSave, TypeOK, server, mesh, dump, RunnerAt
  <2>3. CASE Create
    BY <2>3 DEF Create, AfterCreate, TypeOK, server, mesh, RunnerAt
  <2>4. CASE DumpJSON
    BY <2>4 DEF DumpJSON, TypeOK, server, mesh, RunnerAt
  <2>5. CASE RunnerDone
    BY <2>5, GoneTyped, DoneTyped
    DEF RunnerDone, DoneAgain, TypeOK, mesh, dump, RunnerAt
  <2> QED
    BY <1>5, <2>1, <2>2, <2>3, <2>4, <2>5 DEF ShutdownRunner
<1>6. CASE Fault
  <2>1. CASE WritesFail
    BY <2>1 DEF WritesFail, TypeOK, server, mesh, RunnerAt
  <2>2. CASE SaveFails
    BY <2>2 DEF SaveFails, TypeOK, server, mesh, dump, RunnerAt
  <2>3. CASE HttpFails
    BY <2>3, GoneTyped, DoneTyped
    DEF HttpFails, DoneAgain, TypeOK, mesh, dump
  <2>4. CASE Kill
    BY <2>4, GoneTyped DEF Kill
  <2> QED
    BY <1>6, <2>1, <2>2, <2>3, <2>4 DEF Fault
<1>7. CASE UNCHANGED vars
  BY <1>7 DEF vars, server, mesh, dump, TypeOK
<1> QED
  BY <1>1, <1>2, <1>3, <1>4, <1>5, <1>6, <1>7 DEF Next

(* Every variable of the daemon, and the file, keep their type: a restart  *)
(* never takes a file that was not written to its end for a mesh, and      *)
(* httpServing never goes below zero or above one.                         *)
THEOREM TypeCorrect == Spec => []TypeOK
<1>1. Init => TypeOK
  BY DEF Init, TypeOK, MainAt, RunnerAt
<1> QED
  BY <1>1, NextTyped, PTL DEF Spec

-----------------------------------------------------------------------------
(* Meshes in order of age.  Before the first scan of a process ends, and   *)
(* while another one runs, nothing is being published: the scan that is    *)
(* about to end is newer than all that is kept.                            *)

(* The mesh m, if it is one, is not from a scan after the mesh n, or from  *)
(* one before it.                                                          *)
NotAfter(m, n) == IsMesh(m) /\ IsMesh(n) => m <= n
Before(m, n) == IsMesh(m) => m < n

PastScans ==
  /\ NotAfter(file, scans) /\ NotAfter(held, scans) /\ NotAfter(current, scans)
  /\ \A n \in publishing : n = scans

PublishingIsNewest ==
  \A n \in publishing : Before(file, n) /\ Before(held, n) /\ Before(current, n)

CurrentIsNewest == NotAfter(file, current) /\ NotAfter(held, current)

HeldWasCurrent == held # None => IsMesh(current)

Quiet ==
  /\ main \in {"down", "loading", "scanning"} =>
       publishing = {} /\ current = None /\ respider = "off"
  /\ main \in {"down", "loading", "scanning", "handling"} =>
       runner = "off" /\ held = None
  /\ respider = "spidering" => publishing = {}

Ordered ==
  PastScans /\ PublishingIsNewest /\ CurrentIsNewest /\ HeldWasCurrent /\ Quiet

LEMMA NextOrdered ==
  ASSUME TypeOK, Ordered, [Next]_vars
  PROVE  Ordered'
<1> USE DEF Ordered, IsMesh, NotAfter, Before
<1>t. /\ scans \in Nat /\ publishing \subseteq Nat
      /\ current \in Nat \cup {None} /\ held \in Nat \cup {None}
      /\ file \in Nat \cup {Partial, None}
  BY DEF TypeOK
<1>g. GoDown => Ordered'
  BY <1>t DEF GoDown, PastScans, PublishingIsNewest, CurrentIsNewest,
              HeldWasCurrent, Quiet
<1>1. CASE Start
  BY <1>1, <1>t DEF Start, mesh, dump, PastScans, PublishingIsNewest,
                    CurrentIsNewest, HeldWasCurrent, Quiet, Up
<1>2. CASE Main
  <2>1. CASE Load
    BY <2>1, <1>t DEF Load, server, dump, PastScans, PublishingIsNewest,
                      CurrentIsNewest, HeldWasCurrent, Quiet
  <2>2. CASE LoadFails \/ Exit
    BY <2>2, <1>g DEF LoadFails, Exit
  <2>3. CASE FirstScan
    BY <2>3, <1>t DEF FirstScan, Scanned, server, dump, PastScans,
         PublishingIsNewest, CurrentIsNewest, HeldWasCurrent, Quiet
  <2>4. CASE StartRunner
    BY <2>4, <1>t DEF StartRunner, server, dump, PastScans,
         PublishingIsNewest, CurrentIsNewest, HeldWasCurrent, Quiet
  <2>5. CASE Notify
    BY <2>5, <1>t DEF Notify, server, mesh, dump, PastScans,
         PublishingIsNewest, CurrentIsNewest, HeldWasCurrent, Quiet
  <2> QED
    BY <1>2, <2>1, <2>2, <2>3, <2>4, <2>5 DEF Main
<1>3. CASE Scan
  <2>1. CASE Awake
    BY <2>1, <1>t DEF Awake, SlowEnough, server, dump, PastScans,
         PublishingIsNewest, CurrentIsNewest, HeldWasCurrent, Quiet
  <2>2. CASE Respider
    BY <2>2, <1>t DEF Respider, Scanned, server, dump, PastScans,
         PublishingIsNewest, CurrentIsNewest, HeldWasCurrent, Quiet
  <2>3. ASSUME NEW n \in publishing, SetCurrentPersisted(n) PROVE Ordered'
    BY <2>3, <1>t DEF SetCurrentPersisted, server, dump, PastScans,
         PublishingIsNewest, CurrentIsNewest, HeldWasCurrent, Quiet
  <2> QED
    BY <1>3, <2>1, <2>2, <2>3 DEF Scan
<1>4. CASE SignalReceived
  BY <1>4, <1>t DEF SignalReceived, server, mesh, dump, PastScans,
       PublishingIsNewest, CurrentIsNewest, HeldWasCurrent, Quiet
<1>5. CASE ShutdownRunner
  <2>1. CASE RunnerStarts \/ NothingToSave
    BY <2>1, <1>t DEF RunnerStarts, NothingToSave, server, mesh, dump,
         PastScans, PublishingIsNewest, CurrentIsNewest, HeldWasCurrent, Quiet
  <2>2. CASE Create
    BY <2>2, <1>t DEF Create, server, mesh, PastScans, PublishingIsNewest,
         CurrentIsNewest, HeldWasCurrent, Quiet
  <2>3. CASE DumpJSON
    BY <2>3, <1>t DEF DumpJSON, server, mesh, PastScans, PublishingIsNewest,
         CurrentIsNewest, HeldWasCurrent, Quiet
  <2>4. CASE RunnerDone
    BY <2>4, <1>t, <1>g DEF RunnerDone, DoneAgain, mesh, dump, PastScans,
         PublishingIsNewest, CurrentIsNewest, HeldWasCurrent, Quiet
  <2> QED
    BY <1>5, <2>1, <2>2, <2>3, <2>4 DEF ShutdownRunner
<1>6. CASE Fault
  <2>1. CASE WritesFail \/ SaveFails
    BY <2>1, <1>t DEF WritesFail, SaveFails, server, mesh, dump, PastScans,
         PublishingIsNewest, CurrentIsNewest, HeldWasCurrent, Quiet
  <2>2. CASE HttpFails
    BY <2>2, <1>t, <1>g DEF HttpFails, DoneAgain, mesh, dump, PastScans,
         PublishingIsNewest, CurrentIsNewest, HeldWasCurrent, Quiet
  <2>3. CASE Kill
    BY <2>3, <1>g DEF Kill
  <2> QED
    BY <1>6, <2>1, <2>2, <2>3 DEF Fault
<1>7. CASE UNCHANGED vars
  BY <1>7, <1>t DEF vars, server, mesh, dump, PastScans, PublishingIsNewest,
       CurrentIsNewest, HeldWasCurrent, Quiet
<1> QED
  BY <1>1, <1>2, <1>3, <1>4, <1>5, <1>6, <1>7 DEF Next

(* Neither the published mesh nor the file ever goes back to an older      *)
(* scan, over any number of scans, restarts, crashes and failed dumps, as  *)
(* long as a scan is published before the next one starts (SlowEnough).    *)
THEOREM PublishedInOrder == Spec => []NeverOlder
<1>1. Init => Ordered
  BY DEF Init, Ordered, PastScans, PublishingIsNewest, CurrentIsNewest,
         HeldWasCurrent, Quiet, NotAfter, Before, IsMesh
<1>2. TypeOK /\ Ordered => NeverOlder
  BY DEF TypeOK, Ordered, PublishingIsNewest, CurrentIsNewest, NotAfter,
         Before, IsMesh, NeverOlder
<1> QED
  BY <1>1, <1>2, NextOrdered, TypeCorrect, PTL DEF Spec

-----------------------------------------------------------------------------
(* What the persisted file holds at each place of shutdownRunner.          *)

(* A process that got past its start has no use for half a file: it would  *)
(* have ended.  So the file is whole until this process dumps to it.       *)
WholeUntilDump ==
  /\ main = "scanning" => file # Partial
  /\ main \in {"handling", "notifying", "waiting"} /\ held = None => file # Partial

(* held and writes tell of a dump under way or over.                       *)
DumpState ==
  /\ main \in {"down", "loading", "scanning", "handling"} => runner = "off"
  /\ runner \in {"off", "starting", "receiving", "received"} => held = None
  /\ runner = "saving" => held # None
  /\ runner \in {"finishing", "gone"} /\ held # None /\ writes = "ok" => file = held

(* Only the end of the HTTP server, or shutdownRunner's, releases Main.    *)
ReleasedBy ==
  /\ main # "down" /\ httpServing = 0 /\ http = "serving" => runner \in {"gone", "gave up"}
  /\ main = "down" => http = "off"

Dumped == WholeUntilDump /\ DumpState /\ ReleasedBy

LEMMA NextDumped ==
  ASSUME TypeOK, Dumped, [Next]_vars
  PROVE  Dumped'
<1> USE DEF Dumped, WholeUntilDump, DumpState, ReleasedBy
<1>t. httpServing \in {0, 1}
  BY DEF TypeOK
<1>g. GoDown => Dumped'
  BY DEF GoDown
<1>1. CASE Start
  BY <1>1 DEF Start, Up, mesh, dump
<1>2. CASE Main
  <2>1. CASE Load
    BY <2>1 DEF Load, server, dump
  <2>2. CASE LoadFails \/ Exit
    BY <2>2, <1>g DEF LoadFails, Exit
  <2>3. CASE FirstScan
    BY <2>3 DEF FirstScan, Scanned, server, dump
  <2>4. CASE StartRunner \/ Notify
    BY <2>4 DEF StartRunner, Notify, server, mesh, dump
  <2> QED
    BY <1>2, <2>1, <2>2, <2>3, <2>4 DEF Main
<1>3. CASE Scan
  BY <1>3 DEF Scan, Awake, Respider, Scanned, SetCurrentPersisted, server, dump
<1>4. CASE SignalReceived
  BY <1>4 DEF SignalReceived, server, mesh, dump
<1>5. CASE ShutdownRunner
  <2>1. CASE RunnerStarts \/ NothingToSave
    BY <2>1 DEF RunnerStarts, NothingToSave, server, mesh, dump
  <2>2. CASE Create
    BY <2>2 DEF Create, AfterCreate, server, mesh
  <2>3. CASE DumpJSON
    BY <2>3 DEF DumpJSON, server, mesh
  <2>4. CASE RunnerDone
    BY <2>4, <1>g, <1>t DEF RunnerDone, DoneAgain, Released, mesh, dump
  <2> QED
    BY <1>5, <2>1, <2>2, <2>3, <2>4 DEF ShutdownRunner
<1>6. CASE Fault
  <2>1. CASE WritesFail \/ SaveFails
    BY <2>1 DEF WritesFail, SaveFails, server, mesh, dump
  <2>2. CASE HttpFails
    BY <2>2, <1>g DEF HttpFails, DoneAgain, mesh, dump
  <2>3. CASE Kill
    BY <2>3, <1>g DEF Kill
  <2> QED
    BY <1>6, <2>1, <2>2, <2>3 DEF Fault
<1>7. CASE UNCHANGED vars
  BY <1>7 DEF vars, server, mesh, dump
<1> QED
  BY <1>1, <1>2, <1>3, <1>4, <1>5, <1>6, <1>7 DEF Next

(* A process that ends because of SIGUSR1 leaves the whole mesh it held in *)
(* the persisted file, over any number of restarts, unless os.Create or a  *)
(* write failed: DumpJSON is over before httpServing is released, and the  *)
(* file a process started from was whole.                                  *)
THEOREM SignalSavesMesh == Spec => SavedBeforeExit
<1> DEFINE Saves == Exit /\ http = "serving" /\ runner # "gave up" /\ writes = "ok" =>
                      IF held = None THEN file # Partial ELSE file = held
<1>1. Init => Dumped
  BY DEF Init, Dumped, WholeUntilDump, DumpState, ReleasedBy
<1>2. Dumped /\ [Next]_vars => [Saves]_vars
  BY DEF Dumped, WholeUntilDump, DumpState, ReleasedBy, Exit
<1>3. Spec => []Dumped
  BY <1>1, NextDumped, TypeCorrect, PTL DEF Spec
<1> QED
  BY <1>2, <1>3, PTL DEF Spec, SavedBeforeExit
=============================================================================
