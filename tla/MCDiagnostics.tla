---------------------------- MODULE MCDiagnostics ----------------------------
(***************************************************************************)
(* Two requests and two dummies: the next dummy may be started while the   *)
(* last one has yet to leave.                                              *)
(***************************************************************************)
EXTENDS Diagnostics

CONSTANTS r1, r2, d1, d2
Requests == {r1, r2}
Dummies == {d1, d2}
=============================================================================
