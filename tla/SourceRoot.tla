------------------------------- MODULE SourceRoot -------------------------------
(***************************************************************************)
(* The output root of an official run, as far as the recovery can tell     *)
(* roots apart: which arm records exist, whether a temporary of a write    *)
(* lies in one of its directories, and whether an observation followed.    *)
(* OfficialRun implements it; PostDecisionRecovery runs against it.        *)
(***************************************************************************)
EXTENDS ExecutionPlan

VARIABLES
  decided,    \* plans whose arm record exists
  cluttered,  \* does a temporary exist?
  continued   \* does a file exist that the run creates after its arm records?

rootVars == <<decided, cluttered, continued>>

SourceInit == decided = {} /\ cluttered = FALSE /\ continued = FALSE

\* A file appears by the hard link of its temporary.
Record(k) ==
  /\ cluttered
  /\ ~continued
  /\ k \notin decided
  /\ decided' = decided \cup {k}
  /\ UNCHANGED <<cluttered, continued>>

Continue ==
  /\ cluttered
  /\ decided = Plans
  /\ continued' = TRUE
  /\ UNCHANGED <<decided, cluttered>>

\* A temporary is created, or removed.
Clutter == cluttered' = ~cluttered /\ UNCHANGED <<decided, continued>>

SourceNext == (\E k \in Plans : Record(k)) \/ Continue \/ Clutter

SourceSpec == SourceInit /\ [][SourceNext]_rootVars
=============================================================================
