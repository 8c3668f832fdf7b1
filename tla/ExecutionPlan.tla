----------------------------- MODULE ExecutionPlan -----------------------------
(***************************************************************************)
(* What the official run and its post-decision recovery share: the static  *)
(* execution plan, the evidence made about it, and the files that evidence *)
(* is kept in.                                                             *)
(*                                                                         *)
(* Plan order: slot by slot, status quo before beyondgreen, so the arm     *)
(* plans are numbered 1..2*NumSlots and plan k belongs to slot SlotOf(k).  *)
(***************************************************************************)
EXTENDS Naturals, Sequences

CONSTANTS
  NumSlots,   \* candidate slots of the execution plan (20 in the code)
  Versions,   \* byte contents a candidate file can have
  Planned,    \* the content whose digest the plan records
  Noise,      \* a transcript no candidate content determines
  Unread      \* "no bytes judged": the abstention of a failed arm process

ASSUME NumSlotsAssumption == NumSlots \in Nat \ {0}
ASSUME VersionsAssumption ==
  Planned \in Versions /\ Noise \notin Versions /\ Unread \notin Versions

Slots == 1 .. NumSlots
Plans == 1 .. 2 * NumSlots
SlotOf(k) == (k + 1) \div 2

(***************************************************************************)
(* Evidence.  A decision names the plan it is bound to and the bytes it    *)
(* was made on; a capture and a score name their plan and the transcript   *)
(* they stand on.                                                          *)
(***************************************************************************)
Transcripts == Versions \cup {Noise}
Decision == [plan : Plans, judged : Versions \cup {Unread}]
Capture == [plan : Plans, transcript : Transcripts]
Score == [plan : Plans, basis : Transcripts]

\* captureObservation answered undefined: the record is missing.
Missing == [plan |-> 0, transcript |-> Noise]

\* Odd plans are the status-quo arm, which judges the frozen preflight
\* evidence and never opens the candidate; even plans are beyondgreen.
IsStatusQuo(k) == k % 2 = 1

(***************************************************************************)
(* Files, named <<phase, plan or index, part>>.  The lexicographic order   *)
(* of the names is the order in which a run creates the files.             *)
(***************************************************************************)
Setup == 1
Arm == 2
Observer == 3
Evaluator == 4
Report == 5
NoFile == <<0, 0, 0>>

FileNames ==
  ({Setup} \X (1 .. 4) \X {0}) \cup ({Arm} \X Plans \X {0})
    \cup ({Observer} \X Plans \X {1, 2}) \cup ({Evaluator} \X Plans \X {0})
    \cup ({Report} \X (1 .. 4) \X {0})

Precedes(a, b) ==
  \/ a[1] < b[1]
  \/ a[1] = b[1] /\ a[2] < b[2]
  \/ a[1] = b[1] /\ a[2] = b[2] /\ a[3] < b[3]

(***************************************************************************)
(* The loops over the plan, and the calls of the create-once writers.      *)
(***************************************************************************)
\* Mutant: one decision per slot.
TotalSlots == NumSlots

\* How many plans the loops of the coordinator visit (its constant 40).
Total == 2 * NumSlots

\* Mutants: the second capture of a pair, or the last artifact, is not written.
NextInCallOneCapture(name) ==
  IF name[1] \in {Setup, Report} /\ name[2] < 4
    THEN <<name[1], name[2] + 1, 0>>
    ELSE NoFile
NextInCallThree(name) ==
  IF name[1] \in {Setup, Report} /\ name[2] < 3
    THEN <<name[1], name[2] + 1, 0>>
    ELSE IF name[1] = Observer /\ name[3] = 1
      THEN <<Observer, name[2], 2>>
      ELSE NoFile

\* The next file of the same writer call: four at initialization, two per
\* observation pair, four at finalization.
NextInCall(name) ==
  IF name[1] \in {Setup, Report} /\ name[2] < 4
    THEN <<name[1], name[2] + 1, 0>>
    ELSE IF name[1] = Observer /\ name[3] = 1
      THEN <<Observer, name[2], 2>>
      ELSE NoFile
=============================================================================
