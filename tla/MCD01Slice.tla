------------------------------ MODULE MCD01Slice ------------------------------
(***************************************************************************)
(* Instances of D01Slice for TLC.                                          *)
(***************************************************************************)
EXTENDS D01Slice

CONSTANTS original, drifted

MCVersions == {original, drifted}
=============================================================================
