-------------------------- MODULE PostDecisionRecovery --------------------------
(***************************************************************************)
(* Continuing a failed official run from its frozen decisions              *)
(* (execution/post-decision-recovery.ts, the commands                      *)
(* d00-post-decision-source-manifest.ts and                                *)
(* d00-official-post-decision-recovery.ts).                                *)
(*                                                                         *)
(* The source is the root an official run left behind.  Nothing keeps that *)
(* run from still being alive, so the root goes on behaving as SourceRoot, *)
(* which OfficialRun implements.  People may also edit candidate files and *)
(* rewrite arm records of the source, at any moment.                       *)
(*                                                                         *)
(* A write to the recovery root is one step here, its hard link: the       *)
(* temporaries of this root are read by nobody.                            *)
(***************************************************************************)
EXTENDS SourceRoot

CONSTANTS
  MaxEdits,    \* bound on edits of each candidate file
  MaxTampers,  \* bound on rewrites of arm records in the source
  MaxAttempts  \* bound on starts of the recovery on one output root

ASSUME RecoveryBoundsAssumption ==
  MaxEdits \in Nat /\ MaxTampers \in Nat /\ MaxAttempts \in Nat \ {0}

VARIABLES
  candidate,  \* content of each slot's candidate file
  edits,      \* how often each candidate file was edited
  rewritten,  \* plans whose arm record has other bytes than the run wrote
  tampers,    \* how often arm records were rewritten
  manifest,   \* the frozen source manifest
  attempt,    \* number of the current start of the recovery
  stage,      \* where the recovery is
  place,      \* the plan (or, while scenarios are released, slot) it is at
  loaded,     \* plans whose rewritten arm record it read its decision from
  views,      \* the captures of the plan being observed
  observed,   \* transcripts of the finalized pairs, in plan order
  scored,     \* transcripts of the scored records, in plan order
  creating,   \* the file being created, or NoFile
  stuck,      \* the awaited role process will never exit
  revealed,   \* has a verifier-side process ever been launched?
  recoveryRootExists,
  recovered   \* the files of the recovery root

candidates == <<candidate, edits>>
source == <<rootVars, rewritten, tampers, manifest>>
progress == <<attempt, stage, place, creating, stuck, revealed>>
gathered == <<loaded, views, observed, scored>>
output == <<recoveryRootExists, recovered>>
recovery == <<candidates, source, progress, gathered, output>>

\* Manifests: the bytes of the arm records, as the plans rewritten by then.
NoManifest == [frozen |-> FALSE, torn |-> FALSE, records |-> {}]
TornManifest == [frozen |-> FALSE, torn |-> TRUE, records |-> {}]
FrozenManifest(plans) == [frozen |-> TRUE, torn |-> FALSE, records |-> plans]

RecoveryAwaitsRole == {"scenario", "capture", "evaluate"}
Recovering ==
  {"read", "inspect", "release", "pair", "count", "publish", "fail",
   "closeSource", "closeCandidates", "return"} \cup RecoveryAwaitsRole
\* "refused" throws as well: the closing hash of the candidates found a drift.
RecoveryEnded == {"completed", "threw", "refused", "crashed"}

\* Files of the recovery root, named as in ExecutionPlan, plus one record of a
\* role failure: its parts 1 and 2 are a capture's, 3 is an evaluation's.
Failure == 6
RecoveryFileNames ==
  {name \in FileNames : name[1] # Arm} \cup ({Failure} \X Plans \X (1 .. 3))

Recovered(name) == \E f \in recovered : f.name = name
AtStage(location) == stage = location /\ creating = NoFile /\ ~stuck
RecoveryThrow == stage' = "threw" /\ UNCHANGED place

RecoveryInit ==
  /\ SourceInit
  /\ candidate = [s \in Slots |-> Planned]
  /\ edits = [s \in Slots |-> 0]
  /\ rewritten = {}
  /\ tampers = 0
  /\ manifest = NoManifest
  /\ attempt = 0
  /\ stage = "ready"
  /\ place = 1
  /\ loaded = {}
  /\ views = <<>>
  /\ observed = <<>>
  /\ scored = <<>>
  /\ creating = NoFile
  /\ stuck = FALSE
  /\ revealed = FALSE
  /\ recoveryRootExists = FALSE
  /\ recovered = {}

(***************************************************************************)
(* The source: exactly the control files and every arm record, nothing     *)
(* observed, and no left-over temporary in any of its directories.         *)
(***************************************************************************)
\* Mutant: the arm records are not counted.
SourceIsExactUncounted == ~cluttered /\ ~continued

SourceIsExact == decided = Plans /\ ~cluttered /\ ~continued

SourceMatches == SourceIsExact /\ manifest = FrozenManifest(rewritten)

\* The command that freezes the manifest creates it with one unguarded write:
\* interrupted, it leaves a torn manifest that is never replaced.
FreezeManifest ==
  /\ manifest = NoManifest
  /\ SourceIsExact
  /\ manifest' \in {FrozenManifest(rewritten), TornManifest}
  /\ UNCHANGED <<candidates, rootVars, rewritten, tampers, progress, gathered,
                 output>>

RewriteRecord(k) ==
  /\ tampers < MaxTampers
  /\ k \in decided
  /\ tampers' = tampers + 1
  /\ rewritten' = IF k \in rewritten THEN rewritten \ {k} ELSE rewritten \cup {k}
  /\ UNCHANGED <<candidates, rootVars, manifest, progress, gathered, output>>

EditCandidate(s) ==
  /\ edits[s] < MaxEdits
  /\ edits' = [edits EXCEPT ![s] = @ + 1]
  /\ \E v \in Versions \ {candidate[s]} :
       candidate' = [candidate EXCEPT ![s] = v]
  /\ UNCHANGED <<source, progress, gathered, output>>

(***************************************************************************)
(* Loading: compare the source with the manifest, then read the decisions  *)
(* from the files again.                                                   *)
(***************************************************************************)
BeginRecovery ==
  /\ stage \in {"ready"} \cup RecoveryEnded
  /\ attempt < MaxAttempts
  /\ attempt' = attempt + 1
  /\ stage' = IF SourceMatches THEN "read" ELSE "threw"
  /\ place' = 1
  /\ loaded' = {} /\ views' = <<>> /\ observed' = <<>> /\ scored' = <<>>
  /\ UNCHANGED <<candidates, source, creating, stuck, revealed, output>>

\* A rewritten record may still parse as a decision bound to its plan.
ReadDecisions ==
  /\ AtStage("read")
  /\ \/ stage' = "inspect" /\ loaded' = rewritten
     \/ rewritten # {} /\ stage' = "threw" /\ UNCHANGED loaded
  /\ UNCHANGED <<candidates, source, attempt, place, creating, stuck, revealed, views,
                 observed, scored, output>>

\* Preflight and the hash of every candidate, then writer.initialize, whose
\* mkdir refuses an existing root.  With every decision loaded, the gate opens.
Inspect ==
  /\ AtStage("inspect")
  /\ IF recoveryRootExists \/ \E s \in Slots : candidate[s] # Planned
       THEN RecoveryThrow /\ UNCHANGED <<creating, recoveryRootExists>>
       ELSE /\ recoveryRootExists' = TRUE
            /\ creating' = <<Setup, 1, 0>>
            /\ stage' = "release"
            /\ UNCHANGED place
  /\ UNCHANGED <<candidates, source, attempt, stuck, revealed, gathered, recovered>>

(***************************************************************************)
(* The post-decision phases, as in OfficialRun but over the loaded         *)
(* decisions.                                                              *)
(***************************************************************************)
\* Mutant: the loop index is not reset for the next phase.
NextPlaceUnreset(again, after) ==
  /\ stage' = IF place < Total THEN again ELSE after
  /\ place' = place + 1

NextPlace(again, after) ==
  IF place < Total
    THEN stage' = again /\ place' = place + 1
    ELSE stage' = after /\ place' = 1

LaunchRecoveryProvider ==
  /\ AtStage("release")
  /\ stage' = "scenario"
  /\ revealed' = TRUE
  /\ UNCHANGED <<candidates, source, attempt, place, creating, stuck, gathered, output>>

RecoveryScenarioReturns ==
  /\ AtStage("scenario")
  /\ \E s \in Slots, bound \in BOOLEAN :
       IF s = place /\ bound
         THEN IF place < NumSlots
                THEN stage' = "release" /\ place' = place + 1
                ELSE stage' = "capture" /\ place' = 1
         ELSE RecoveryThrow
  /\ UNCHANGED <<candidates, source, attempt, creating, stuck, revealed, gathered,
                 output>>

RecoveryCaptureReturns ==
  /\ AtStage("capture")
  /\ \E c \in [plan : Plans, transcript : {candidate[SlotOf(place)], Noise}]
               \cup {Missing} :
       views' = Append(views, c)
  /\ stage' = IF Len(views') = 2 THEN "pair" ELSE "capture"
  /\ UNCHANGED <<candidates, source, attempt, place, creating, stuck, revealed, loaded,
                 observed, scored, output>>

RecoveryFinalizePair ==
  /\ AtStage("pair")
  /\ IF views[1].plan = place /\ views[2] = views[1]
       THEN /\ observed' = Append(observed, views[1].transcript)
            /\ creating' = <<Observer, place, 1>>
            /\ NextPlace("capture", "count")
       ELSE RecoveryThrow /\ UNCHANGED <<observed, creating>>
  /\ views' = <<>>
  /\ UNCHANGED <<candidates, source, attempt, stuck, revealed, loaded, scored, output>>

CountPairs ==
  /\ AtStage("count")
  /\ IF Len(observed) = Total
       THEN stage' = "evaluate" /\ UNCHANGED place
       ELSE RecoveryThrow
  /\ UNCHANGED <<candidates, source, attempt, creating, stuck, revealed, gathered,
                 output>>

RecoveryEvaluateReturns ==
  /\ AtStage("evaluate")
  /\ \E k \in Plans :
       IF k = place
         THEN /\ scored' = Append(scored, observed[place])
              /\ creating' = <<Evaluator, place, 0>>
              /\ NextPlace("evaluate", "publish")
         ELSE RecoveryThrow /\ UNCHANGED <<scored, creating>>
  /\ UNCHANGED <<candidates, source, attempt, stuck, revealed, loaded, views, observed,
                 output>>

PublishRecovery ==
  /\ AtStage("publish")
  /\ creating' = <<Report, 1, 0>>
  /\ stage' = "closeSource"
  /\ UNCHANGED <<candidates, source, attempt, place, stuck, revealed, gathered, output>>

(***************************************************************************)
(* The closing checks, after the report is written.                        *)
(***************************************************************************)
\* Mutant: the source is not compared again.
CloseSourceSkipped ==
  /\ AtStage("closeSource")
  /\ stage' = "closeCandidates"
  /\ UNCHANGED <<candidates, source, attempt, place, creating, stuck, revealed, gathered,
                 output>>

\* Mutant: a changed source is waited for.
CloseSourceWaits ==
  /\ AtStage("closeSource")
  /\ SourceMatches
  /\ stage' = "closeCandidates"
  /\ UNCHANGED <<candidates, source, attempt, place, creating, stuck, revealed,
                 gathered, output>>

CloseSource ==
  /\ AtStage("closeSource")
  /\ stage' = IF SourceMatches THEN "closeCandidates" ELSE "threw"
  /\ UNCHANGED <<candidates, source, attempt, place, creating, stuck, revealed, gathered,
                 output>>

\* Mutant: the last candidate slot is not hashed again.
CloseCandidatesButOne ==
  /\ AtStage("closeCandidates")
  /\ stage' = IF \E s \in Slots \ {NumSlots} : candidate[s] # Planned
                THEN "refused" ELSE "return"
  /\ UNCHANGED <<candidates, source, attempt, place, creating, stuck, revealed, gathered,
                 output>>

CloseCandidates ==
  /\ AtStage("closeCandidates")
  /\ stage' = IF \E s \in Slots : candidate[s] # Planned THEN "refused" ELSE "return"
  /\ UNCHANGED <<candidates, source, attempt, place, creating, stuck, revealed, gathered,
                 output>>

ReturnRecovery ==
  /\ AtStage("return")
  /\ stage' = "completed"
  /\ UNCHANGED <<candidates, source, attempt, place, creating, stuck, revealed, gathered,
                 output>>

(***************************************************************************)
(* Role failures.  A failure response of an observer or an evaluator is    *)
(* recorded before it is rethrown; anything else just rejects.             *)
(***************************************************************************)
\* Mutant: the role is tried again once its failure is recorded.
RecordRoleFailureAndRetry ==
  /\ AtStage("capture") \/ AtStage("evaluate")
  /\ creating' = <<Failure, place, IF stage = "evaluate" THEN 3 ELSE Len(views) + 1>>
  /\ UNCHANGED <<candidates, source, attempt, stage, place, stuck, revealed, gathered,
                 output>>

RecordRoleFailure ==
  /\ AtStage("capture") \/ AtStage("evaluate")
  /\ creating' = <<Failure, place, IF stage = "evaluate" THEN 3 ELSE Len(views) + 1>>
  /\ stage' = "fail"
  /\ UNCHANGED <<candidates, source, attempt, place, stuck, revealed, gathered, output>>

Rethrow ==
  /\ AtStage("fail")
  /\ RecoveryThrow
  /\ UNCHANGED <<candidates, source, attempt, creating, stuck, revealed, gathered, output>>

RecoveryRoleFails ==
  /\ \E location \in RecoveryAwaitsRole : AtStage(location)
  /\ RecoveryThrow
  /\ UNCHANGED <<candidates, source, attempt, creating, stuck, revealed, gathered, output>>

RecoveryRoleHangs ==
  /\ \E location \in RecoveryAwaitsRole : AtStage(location)
  /\ stuck' = TRUE
  /\ UNCHANGED <<candidates, source, attempt, stage, place, creating, revealed, gathered,
                 output>>

(***************************************************************************)
(* The create-once writer of the recovery root.                            *)
(***************************************************************************)
\* What the file says of a transcript, and whether it stands on a decision
\* whose record had been rewritten.
Evidence(name) ==
  [transcript |-> IF name[1] = Observer THEN observed[name[2]]
                  ELSE IF name[1] = Evaluator THEN scored[name[2]] ELSE Noise,
   altered |-> name[1] \in {Observer, Evaluator} /\ name[2] \in loaded]

CreateRecoveryFile ==
  /\ creating # NoFile
  /\ ~Recovered(creating)
  /\ recovered' = recovered \cup {[name |-> creating, body |-> Evidence(creating)]}
  /\ creating' = NextInCall(creating)
  /\ UNCHANGED <<candidates, source, attempt, stage, place, stuck, revealed, gathered,
                 recoveryRootExists>>

\* The unlink of the temporary may fail after the link has succeeded.
RecoveryWriteFails ==
  /\ creating # NoFile
  /\ recovered' \in
       {recovered, recovered \cup {[name |-> creating, body |-> Evidence(creating)]}}
  /\ creating' = NoFile
  /\ RecoveryThrow
  /\ UNCHANGED <<candidates, source, attempt, stuck, revealed, gathered,
                 recoveryRootExists>>

RecoveryCrash ==
  /\ stage \in Recovering
  /\ stage' = "crashed"
  /\ creating' = NoFile
  /\ stuck' = FALSE
  /\ UNCHANGED <<candidates, source, attempt, place, revealed, gathered, output>>

RecoverySteps ==
  \/ ReadDecisions \/ Inspect
  \/ LaunchRecoveryProvider \/ RecoveryScenarioReturns
  \/ RecoveryCaptureReturns \/ RecoveryFinalizePair \/ CountPairs
  \/ RecoveryEvaluateReturns \/ PublishRecovery
  \/ CloseSource \/ CloseCandidates \/ ReturnRecovery
  \/ RecordRoleFailure \/ Rethrow \/ RecoveryRoleFails
  \/ CreateRecoveryFile \/ RecoveryWriteFails

RecoveryNext ==
  \/ SourceNext /\ UNCHANGED <<candidates, rewritten, tampers, manifest, progress,
                                gathered, output>>
  \/ \E s \in Slots : EditCandidate(s)
  \/ FreezeManifest
  \/ \E k \in Plans : RewriteRecord(k)
  \/ BeginRecovery
  \/ RecoverySteps
  \/ RecoveryRoleHangs
  \/ RecoveryCrash

\* Fairness, as for OfficialRun: settled promises resume the recovery.
RecoverySpec ==
  /\ RecoveryInit
  /\ [][RecoveryNext]_recovery
  /\ WF_recovery(RecoverySteps)

-----------------------------------------------------------------------------
(***************************************************************************)
(* Properties.                                                             *)
(***************************************************************************)

\* Type invariant.
RecoveryTypeOK ==
  /\ decided \subseteq Plans
  /\ cluttered \in BOOLEAN
  /\ continued \in BOOLEAN
  /\ candidate \in [Slots -> Versions]
  /\ edits \in [Slots -> 0 .. MaxEdits]
  /\ rewritten \subseteq Plans
  /\ tampers \in 0 .. MaxTampers
  /\ manifest \in [frozen : BOOLEAN, torn : BOOLEAN, records : SUBSET Plans]
  /\ attempt \in 0 .. MaxAttempts
  /\ stage \in Recovering \cup RecoveryEnded \cup {"ready"}
  /\ place \in Plans
  /\ loaded \subseteq Plans
  /\ views \in Seq(Capture \cup {Missing})
  /\ observed \in Seq(Transcripts)
  /\ scored \in Seq(Transcripts)
  /\ creating \in RecoveryFileNames \cup {NoFile}
  /\ stuck \in BOOLEAN
  /\ revealed \in BOOLEAN
  /\ recoveryRootExists \in BOOLEAN
  /\ recovered \subseteq
       [name : RecoveryFileNames, body : [transcript : Transcripts, altered : BOOLEAN]]

\* The first file that the failed role would have led to.
Withheld(failure) ==
  IF failure[3] = 3 THEN <<Evaluator, failure[2], 0>> ELSE <<Observer, failure[2], 1>>

\* Evidence of the recovery root is a prefix of its creation order.  Beside a
\* record of a role failure are exactly the files that precede what the failed
\* role would have led to: nothing of that role, nothing later, no report and
\* no second record of a failure (526-559, 565-592).
FailureIsFinal ==
  \A f \in recovered :
    IF f.name[1] = Failure
      THEN \A name \in RecoveryFileNames \ {f.name} :
             Recovered(name) <=> Precedes(name, Withheld(f.name))
      ELSE \A name \in RecoveryFileNames :
             Precedes(name, f.name) => Recovered(name)

\* A completed recovery stands on the decisions the manifest froze, although it
\* compares and reads the records in two steps, when no record was rewritten
\* more than once: the closing comparison sees what the first one missed.
CompletedOnFrozenDecisions ==
  stage = "completed" /\ tampers <= 1 =>
    /\ manifest.frozen
    /\ loaded = manifest.records
    /\ \A f \in recovered :
         f.name[1] \in {Observer, Evaluator} =>
           f.body.altered = (f.name[2] \in manifest.records)

\* A completed recovery observed the planned bytes of every candidate edited at
\* most once: the edit is seen before the first launch or at the closing hash.
CompletedOnPlannedBytes ==
  stage = "completed" =>
    \A f \in recovered :
      f.name[1] \in {Observer, Evaluator} /\ edits[SlotOf(f.name[2])] <= 1
        => f.body.transcript \in {Planned, Noise}

\* A started recovery ends, unless the role process it awaits never exits.
RecoveryEndsUnlessStuck == stage \in Recovering ~> (stage \in RecoveryEnded \/ stuck)

\* README.md:129-131: drift stops verification instead of producing a success
\* claim, so a recovery refused by its closing hash of the candidates has
\* published nothing.
RefusedIsUnpublished ==
  stage = "refused" => \A f \in recovered : f.name[1] # Report

\* The decisions of the official run and the recovery after them implement the
\* abstract evaluation, even while that run is still alive.
RBE == INSTANCE BlindEvaluation WITH
  Reports <- 1 .. 4,
  unblinded <- revealed,
  observed <- {o \in Plans \X {1, 2} : Recovered(<<Observer, o[1], o[2]>>)},
  scored <- {k \in Plans : Recovered(<<Evaluator, k, 0>>)},
  published <- {r \in 1 .. 4 : Recovered(<<Report, r, 0>>)}

RecoveryImplementsBlindEvaluation == RBE!AbstractSpec
=============================================================================
