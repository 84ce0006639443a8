-------------------------- MODULE DiagnosticsProofs --------------------------
(***************************************************************************)
(* Theorems about Diagnostics, for any number of requests, dummies and     *)
(* scans.  Which server takes over from which is safe as long as a scan,   *)
(* and the pause after it, outlast the few instructions in which a dummy   *)
(* starts or clears its flag.                                              *)
(***************************************************************************)
EXTENDS Diagnostics, TLAPS

USE DiagnosticsAssumption DEF Server

(* Between scans there is no main loop.  A dummy that serves, or has been  *)
(* told to stop, has the flag raised; and there is one dummy at most: it   *)
(* has stopped serving when a scan seeds, and has gone when the scan ends. *)
Handover ==
  /\ caller \in {"asleep", "killing"} => at[Loop] = "gone"
  /\ \A d \in Dummy :
       /\ Serving(d) \/ at[d] = "clearing" => flag
       /\ caller \in {"seeding", "scanning", "crashed"} => at[d] \in {"gone", "clearing"}
       /\ caller = "terminating" => at[d] = "gone"
       /\ caller = "killing" => at[d] \notin {"checking", "clearing"}
  /\ \A d, e \in Dummy : at[d] # "gone" /\ at[e] # "gone" => d = e

(* A handler that waits is one a server holds the writer of.               *)
WriterHeld ==
  \A h \in Handler : handler[h] = "waiting" => \E s \in Server : out[s] = h

IInv == TypeOK /\ Handover /\ WriterHeld /\ DumpBeforeReturn

(* The state Handover describes has one server.                            *)
LEMMA HandoverOneServer ==
  ASSUME TypeOK, Handover
  PROVE  OneServer
BY DEF TypeOK, Handover, OneServer, Serving

LEMMA InitIInv ==
  ASSUME Init
  PROVE  IInv
BY DEF Init, IInv, TypeOK, Handover, WriterHeld, DumpBeforeReturn, Serving

-----------------------------------------------------------------------------
(* The steps of the caller.                                                *)
LEMMA ScanKeeps ==
  ASSUME Timely, IInv, Scan
  PROVE  IInv'
<1> USE DEF IInv, TypeOK, Handover, WriterHeld, DumpBeforeReturn, Serving
<1>1. CASE LockToKill
  BY <1>1 DEF LockToKill, MustKill, Settled
<1>2. CASE StartWithoutDummy
  BY <1>2 DEF StartWithoutDummy, MustKill, Settled
<1>3. CASE AddHost
  BY <1>3 DEF AddHost
<1>4. CASE ScanEnds
  BY <1>4 DEF ScanEnds, Settled
<1>5. ASSUME NEW d \in Dummy, Kill(d) PROVE IInv'
  BY <1>5 DEF Kill
<1>6. ASSUME NEW d \in Dummy, Terminate(d) PROVE IInv'
  BY <1>6 DEF Terminate
<1> QED
  BY <1>1, <1>2, <1>3, <1>4, <1>5, <1>6 DEF Scan

-----------------------------------------------------------------------------
(* The steps of a dummy on its way in or out.                              *)
LEMMA DummyKeeps ==
  ASSUME IInv, NEW d \in Dummy, DummyStep(d)
  PROVE  IInv'
<1> USE DEF IInv, TypeOK, Handover, WriterHeld, DumpBeforeReturn, Serving
<1>1. CASE CheckFlag(d)
  BY <1>1 DEF CheckFlag
<1>2. CASE Clear(d)
  BY <1>2 DEF Clear, ClearedFlag
<1> QED
  BY <1>1, <1>2 DEF DummyStep

-----------------------------------------------------------------------------
(* The steps of a request.  The signal that lets h go comes from s: the    *)
(* writer of h is held by some server, and s is the only one.              *)
LEMMA SignalKeeps ==
  ASSUME IInv, NEW h \in Handler, NEW s \in Server, Signal(h, s)
  PROVE  IInv'
<1>1. out[s] = h /\ \A t \in Server \ {s} : out[t] = None
  <2>1. PICK t \in Server : out[t] = h
    BY DEF IInv, WriterHeld, Signal
  <2>2. \A u \in Server : out[u] # None => u = s
    BY HandoverOneServer DEF IInv, TypeOK, OneServer, Serving, Signal
  <2> QED
    BY <2>1, <2>2
<1>2. TypeOK' /\ Handover'
  BY DEF IInv, TypeOK, Handover, Serving, Signal, Released
<1>3. WriterHeld' /\ DumpBeforeReturn'
  <2>1. \A u \in Server : out'[u] = None
    BY <1>1 DEF IInv, TypeOK, Signal, Released
  <2>2. \A g \in Handler : handler'[g] # "waiting"
    BY <1>1 DEF IInv, TypeOK, WriterHeld, Signal
  <2> QED
    BY <2>1, <2>2 DEF WriterHeld, DumpBeforeReturn
<1> QED
  BY <1>2, <1>3 DEF IInv

LEMMA RequestKeeps ==
  ASSUME IInv, NEW h \in Handler, NEW s \in Server, Ask(h) \/ Take(h, s)
  PROVE  IInv'
<1> USE DEF IInv, TypeOK, Handover, WriterHeld, DumpBeforeReturn, Serving
<1>1. CASE Ask(h)
  BY <1>1 DEF Ask
<1>2. CASE Take(h, s)
  BY <1>2 DEF Take
<1> QED
  BY <1>1, <1>2

-----------------------------------------------------------------------------
LEMMA NextKeeps ==
  ASSUME Timely, IInv, [Next]_vars
  PROVE  IInv'
<1>1. CASE Scan
  BY <1>1, ScanKeeps
<1>2. CASE MapRace
  BY <1>2
  DEF MapRace, IInv, TypeOK, Handover, WriterHeld, DumpBeforeReturn, Serving
<1>3. CASE Dump
  BY <1>3
  DEF Dump, IInv, TypeOK, Handover, WriterHeld, DumpBeforeReturn, Serving
<1>4. CASE \E d \in Dummy : DummyStep(d)
  BY <1>4, DummyKeeps
<1>5. CASE \E h \in Handler : Ask(h) \/ Answer(h) \/ \E s \in Server : Take(h, s)
  BY <1>5, RequestKeeps, SignalKeeps DEF Answer
<1>6. CASE UNCHANGED vars
  BY <1>6
  DEF vars, IInv, TypeOK, Handover, WriterHeld, DumpBeforeReturn, Serving
<1> QED
  BY <1>1, <1>2, <1>3, <1>4, <1>5, <1>6 DEF Next, Alive

LEMMA Inductive ==
  ASSUME Timely
  PROVE  Spec => []IInv
<1>1. Init => IInv
  BY InitIInv
<1>2. IInv /\ [Next]_vars => IInv'
  BY NextKeeps
<1> QED
  BY <1>1, <1>2, PTL DEF Spec

(* The channels of /scanstatusz have one reader at a time, over any number *)
(* of scans: StartSpider's kill and Terminate's dummy never overlap.       *)
THEOREM ServersTakeTurns ==
  ASSUME Timely
  PROVE  Spec => []OneServer
<1>1. IInv => OneServer
  BY HandoverOneServer DEF IInv
<1> QED
  BY <1>1, Inductive, PTL

(* No handler of /scanstatusz returns before its own writer is done with,  *)
(* although the signal on diagnosticSpiderDone names no request.           *)
THEOREM NoEarlyReturn ==
  ASSUME Timely
  PROVE  Spec => []DumpBeforeReturn
<1>1. IInv => DumpBeforeReturn
  BY DEF IInv
<1> QED
  BY <1>1, Inductive, PTL
=============================================================================
