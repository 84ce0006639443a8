------------------------------ MODULE Versions ------------------------------
(***************************************************************************)
(* The version numbers of SKS servers and their comparison (versions.go).  *)
(* A text is either a version, standing for the strings that the regular   *)
(* expression accepts and whose numbers fit a uint, or something else, for *)
(* which NewSksVersion answers nil.  Of the Tag, "+" or nothing, only the  *)
(* length matters.                                                         *)
(***************************************************************************)
EXTENDS Naturals

CONSTANT NoVersion   \* a nil *SksVersion

SksVersion == [Major : Nat, Minor : Nat, Release : Nat, Tag : 0 .. 1]

ASSUME NoVersionAssumption == NoVersion \notin SksVersion

NewSksVersion(text) == IF text \in SksVersion THEN text ELSE NoVersion

IsAtLeast(sv, min) ==
  \/ sv.Major > min.Major
  \/ sv.Major = min.Major /\ sv.Minor > min.Minor
  \/ sv.Major = min.Major /\ sv.Minor = min.Minor /\ sv.Release > min.Release
  \/ /\ sv.Major = min.Major /\ sv.Minor = min.Minor /\ sv.Release = min.Release
     /\ ~ (min.Tag > 0 /\ sv.Tag = 0)
=============================================================================
