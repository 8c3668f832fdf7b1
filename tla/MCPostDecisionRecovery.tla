------------------------- MODULE MCPostDecisionRecovery -------------------------
(***************************************************************************)
(* Instances of PostDecisionRecovery for TLC.                              *)
(***************************************************************************)
EXTENDS PostDecisionRecovery

CONSTANTS original, drifted
MCVersions == {original, drifted}
=============================================================================
