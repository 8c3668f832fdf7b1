----------------------------- MODULE MCOfficialRun -----------------------------
(***************************************************************************)
(* Instances of OfficialRun for TLC: two versions of every candidate file, *)
(* the planned one and another.                                            *)
(***************************************************************************)
EXTENDS OfficialRun

CONSTANTS original, drifted
MCVersions == {original, drifted}
=============================================================================
