---------------------- MODULE PostDecisionRecoveryProofs ----------------------
(***************************************************************************)
(* Theorems about PostDecisionRecovery, for every number of slots, every   *)
(* set of candidate versions and every bound on edits, rewrites and        *)
(* starts.                                                                 *)
(*                                                                         *)
(* The argument has layers, as for OfficialRun.  StageInv says where the   *)
(* recovery is, how much evidence it holds in memory and which file it is  *)
(* creating.  RootInv says that the files of the recovery root are those   *)
(* that precede the place the recovery has reached, and when a             *)
(* verifier-side process was launched.  FrozenInv and BytesInv follow the  *)
(* decisions and the candidate bytes into that root.                       *)
(***************************************************************************)
EXTENDS PostDecisionRecovery, SequenceTheorems, TLAPS

Loading == {"read", "inspect"}
Releasing == {"release", "scenario"}
Observing == {"capture", "pair"}
Closing == {"closeSource", "closeCandidates", "return"}
Stages == Recovering \cup RecoveryEnded \cup {"ready"}

(***************************************************************************)
(* Layer 1: control.                                                       *)
(***************************************************************************)
\* How many views, pairs and scores are in memory, stage by stage.
MemoryMatchesStage ==
  /\ stage \in Loading \cup Releasing => Len(views) = 0 /\ Len(observed) = 0
  /\ stage \in Observing => Len(observed) = place - 1
  /\ stage \in {"count", "evaluate", "publish"} \cup Closing => Len(observed) = Total
  /\ stage \in Loading \cup Releasing \cup Observing \cup {"count"} => Len(scored) = 0
  /\ stage = "evaluate" => Len(scored) = place - 1
  /\ stage \in {"publish"} \cup Closing => Len(scored) = Total
  /\ stage = "capture" => Len(views) < 2
  /\ stage = "pair" => Len(views) = 2

PlaceMatchesStage ==
  /\ stage \in Loading \cup {"count"} => place = 1
  /\ stage \in Releasing => place <= NumSlots

\* While a loop or the phase after it waits for the writer, the file being
\* created belongs to the plan the loop has just finished.
LoopCreates(again, after) ==
  \/ creating[2] < Total /\ stage = again /\ place = creating[2] + 1
  \/ creating[2] = Total /\ stage = after /\ place = 1

FileMatchesStage ==
  creating # NoFile =>
    \/ creating[1] = Setup /\ stage = "release" /\ place = 1
    \/ creating[1] = Observer /\ LoopCreates("capture", "count")
    \/ creating[1] = Evaluator /\ LoopCreates("evaluate", "publish")
    \/ creating[1] = Report /\ stage = "closeSource"
    \/ creating[1] = Failure /\ stage = "fail"

StageInv ==
  /\ RecoveryTypeOK
  /\ MemoryMatchesStage
  /\ PlaceMatchesStage
  /\ FileMatchesStage

(***************************************************************************)
(* Facts about the constants and the file names.                           *)
(***************************************************************************)
LEMMA PlanNumbers ==
  /\ NumSlots \in Nat /\ NumSlots > 0
  /\ Total \in Nat /\ Total > 1
  /\ Plans = 1 .. Total
  /\ \A k \in Plans : k \in Nat /\ SlotOf(k) \in Slots
BY NumSlotsAssumption DEF Total, Plans, Slots, SlotOf

\* A name of the recovery root is a triple of numbers whose shape depends on
\* its phase.
LEMMA NameShape ==
  ASSUME NEW n \in RecoveryFileNames
  PROVE  /\ n = <<n[1], n[2], n[3]>>
         /\ n[1] \in {Setup, Observer, Evaluator, Report, Failure}
         /\ n[2] \in Nat /\ n[3] \in 0 .. 3
         /\ n[1] \in {Setup, Report} => n[2] \in 1 .. 4 /\ n[3] = 0
         /\ n[1] = Evaluator => n[2] \in Plans /\ n[3] = 0
         /\ n[1] = Observer => n[2] \in Plans /\ n[3] \in {1, 2}
         /\ n[1] = Failure => n[2] \in Plans /\ n[3] \in 1 .. 3
BY PlanNumbers
   DEF RecoveryFileNames, FileNames, Setup, Arm, Observer, Evaluator, Report, Failure

LEMMA NoFileIsNoName == NoFile \notin RecoveryFileNames
BY NameShape DEF NoFile, Setup, Observer, Evaluator, Report, Failure

LEMMA NamesBuilt ==
  /\ \A j \in 1 .. 4 : /\ <<Setup, j, 0>> \in RecoveryFileNames
                       /\ <<Report, j, 0>> \in RecoveryFileNames
  /\ \A k \in Plans : /\ <<Evaluator, k, 0>> \in RecoveryFileNames
                      /\ <<Observer, k, 1>> \in RecoveryFileNames
                      /\ <<Observer, k, 2>> \in RecoveryFileNames
  /\ \A k \in Plans, part \in 1 .. 3 : <<Failure, k, part>> \in RecoveryFileNames
BY DEF RecoveryFileNames, FileNames, Setup, Arm, Observer, Evaluator, Report

LEMMA FirstNames ==
  <<Setup, 1, 0>> \in RecoveryFileNames /\ <<Report, 1, 0>> \in RecoveryFileNames
BY NamesBuilt

LEMMA NextInCallIsName ==
  ASSUME NEW n \in RecoveryFileNames
  PROVE  NextInCall(n) \in RecoveryFileNames \cup {NoFile}
<1> USE NameShape, NamesBuilt DEF NextInCall
<1>1. CASE n[1] \in {Setup, Report} /\ n[2] < 4
  <2>1. n[2] + 1 \in 1 .. 4
    BY <1>1
  <2> QED BY <1>1, <2>1
<1>2. CASE n[1] = Observer /\ n[3] = 1
  <2>1. n[1] \notin {Setup, Report} /\ n[2] \in Plans
    BY <1>2 DEF Observer, Setup, Report
  <2> QED BY <1>2, <2>1
<1> QED BY <1>1, <1>2

(***************************************************************************)
(* Type correctness.                                                       *)
(***************************************************************************)
LEMMA InitStage == RecoveryInit => StageInv
<1> SUFFICES ASSUME RecoveryInit PROVE StageInv
  OBVIOUS
<1> USE PlanNumbers DEF RecoveryInit, SourceInit
<1>1. candidate \in [Slots -> Versions] /\ edits \in [Slots -> 0 .. MaxEdits]
  BY VersionsAssumption, RecoveryBoundsAssumption
<1>2. /\ views \in Seq(Capture \cup {Missing}) /\ observed \in Seq(Transcripts)
      /\ scored \in Seq(Transcripts)
  OBVIOUS
<1>3. /\ tampers \in 0 .. MaxTampers /\ attempt \in 0 .. MaxAttempts /\ place \in Plans
      /\ manifest \in [frozen : BOOLEAN, torn : BOOLEAN, records : SUBSET Plans]
  BY RecoveryBoundsAssumption DEF NoManifest
<1>4. cluttered \in BOOLEAN /\ continued \in BOOLEAN /\ stuck \in BOOLEAN
      /\ revealed \in BOOLEAN /\ recoveryRootExists \in BOOLEAN
  BY Zenon
<1>5. RecoveryTypeOK
  BY <1>1, <1>2, <1>3, <1>4 DEF RecoveryTypeOK
<1>6. MemoryMatchesStage /\ PlaceMatchesStage /\ FileMatchesStage
  BY DEF MemoryMatchesStage, PlaceMatchesStage, FileMatchesStage, Loading, Releasing,
         Observing, Closing
<1> QED BY <1>5, <1>6 DEF StageInv

\* What a created file holds is evidence from memory.
LEMMA EvidenceIsTyped ==
  ASSUME StageInv, creating \in RecoveryFileNames
  PROVE  Evidence(creating) \in [transcript : Transcripts, altered : BOOLEAN]
<1> USE PlanNumbers, NoFileIsNoName, NameShape
    DEF StageInv, RecoveryTypeOK, Setup, Observer, Evaluator, Report, Failure
<1>1. Noise \in Transcripts
  BY DEF Transcripts
<1>2. CASE creating[1] = Observer
  <2>1. creating[2] \in 1 .. Len(observed)
    BY <1>2 DEF FileMatchesStage, LoopCreates, MemoryMatchesStage, Observing
  <2>2. observed[creating[2]] \in Transcripts
    BY <2>1
  <2> QED BY <1>2, <2>2 DEF Evidence
<1>3. CASE creating[1] = Evaluator
  <2>1. creating[2] \in 1 .. Len(scored)
    BY <1>3 DEF FileMatchesStage, LoopCreates, MemoryMatchesStage
  <2>2. scored[creating[2]] \in Transcripts
    BY <2>1
  <2> QED BY <1>3, <2>2 DEF Evidence
<1>4. CASE creating[1] \notin {Observer, Evaluator}
  BY <1>1, <1>4 DEF Evidence
<1> QED BY <1>2, <1>3, <1>4

LEMMA NextPlaceIsPlan ==
  ASSUME place \in Plans, NEW again, NEW after, NextPlace(again, after)
  PROVE  place' \in Plans /\ stage' \in {again, after}
BY PlanNumbers DEF NextPlace

LEMMA AppendIsSeq ==
  ASSUME NEW S, NEW s \in Seq(S), NEW e \in S
  PROVE  /\ Append(s, e) \in Seq(S)
         /\ Len(Append(s, e)) = Len(s) + 1
BY AppendProperties

\* The steps of the source and of people, and the start of a recovery.
LEMMA OutsideTypes ==
  ASSUME StageInv,
         \/ SourceNext /\ UNCHANGED <<candidates, rewritten, tampers, manifest, progress,
                                      gathered, output>>
         \/ \E s \in Slots : EditCandidate(s)
         \/ FreezeManifest
         \/ \E k \in Plans : RewriteRecord(k)
         \/ BeginRecovery
  PROVE  RecoveryTypeOK'
<1> USE PlanNumbers
    DEF StageInv, RecoveryTypeOK, candidates, source, rootVars, progress, gathered, output
<1>1. CASE SourceNext /\ UNCHANGED <<candidates, rewritten, tampers, manifest, progress,
                                     gathered, output>>
  <2>1. decided' \subseteq Plans /\ continued' \in BOOLEAN
    BY <1>1 DEF SourceNext, Record, Continue, Clutter
  <2>2. cluttered' \in BOOLEAN
    BY <1>1, Zenon DEF SourceNext, Record, Continue, Clutter
  <2> QED BY <1>1, <2>1, <2>2
<1>2. ASSUME NEW s \in Slots, EditCandidate(s) PROVE RecoveryTypeOK'
  <2>1. edits[s] + 1 \in 0 .. MaxEdits
    BY <1>2, RecoveryBoundsAssumption DEF EditCandidate
  <2>2. candidate' \in [Slots -> Versions] /\ edits' \in [Slots -> 0 .. MaxEdits]
    BY <1>2, <2>1 DEF EditCandidate
  <2> QED BY <1>2, <2>2 DEF EditCandidate
<1>3. CASE FreezeManifest
  <2>1. manifest' \in [frozen : BOOLEAN, torn : BOOLEAN, records : SUBSET Plans]
    <3>1. FrozenManifest(rewritten) \in [frozen : BOOLEAN, torn : BOOLEAN, records : SUBSET Plans]
      BY DEF FrozenManifest
    <3>2. TornManifest \in [frozen : BOOLEAN, torn : BOOLEAN, records : SUBSET Plans]
      BY DEF TornManifest
    <3>3. manifest' = FrozenManifest(rewritten) \/ manifest' = TornManifest
      BY <1>3 DEF FreezeManifest
    <3> QED BY ONLY <3>1, <3>2, <3>3
  <2> QED BY <1>3, <2>1 DEF FreezeManifest
<1>4. ASSUME NEW k \in Plans, RewriteRecord(k) PROVE RecoveryTypeOK'
  <2>1. tampers' \in 0 .. MaxTampers /\ rewritten' \subseteq Plans
    BY <1>4, RecoveryBoundsAssumption DEF RewriteRecord
  <2> QED BY <1>4, <2>1 DEF RewriteRecord
<1>5. CASE BeginRecovery
  <2>1. attempt' \in 0 .. MaxAttempts /\ place' \in Plans
    BY <1>5, RecoveryBoundsAssumption DEF BeginRecovery
  <2>2. /\ views' \in Seq(Capture \cup {Missing}) /\ observed' \in Seq(Transcripts)
        /\ scored' \in Seq(Transcripts) /\ loaded' \subseteq Plans
    BY <1>5 DEF BeginRecovery
  <2>3. stage' \in Recovering \cup RecoveryEnded \cup {"ready"}
    BY <1>5 DEF BeginRecovery, Recovering, RecoveryEnded
  <2> QED BY <1>5, <2>1, <2>2, <2>3 DEF BeginRecovery
<1> QED BY <1>1, <1>2, <1>3, <1>4, <1>5

\* The steps of the recovery itself.
LEMMA PhaseTypes ==
  ASSUME StageInv,
         \/ ReadDecisions \/ Inspect \/ LaunchRecoveryProvider \/ RecoveryScenarioReturns
         \/ RecoveryCaptureReturns \/ RecoveryFinalizePair \/ CountPairs
         \/ RecoveryEvaluateReturns \/ PublishRecovery
  PROVE  RecoveryTypeOK'
<1> USE PlanNumbers
    DEF StageInv, RecoveryTypeOK, candidates, source, rootVars, progress, gathered, output,
        AtStage, RecoveryThrow, Recovering, RecoveryEnded, RecoveryAwaitsRole
<1>1. CASE ReadDecisions
  BY <1>1 DEF ReadDecisions
<1>2. CASE Inspect
  <2>1. creating' \in RecoveryFileNames \cup {NoFile}
    BY <1>2, FirstNames DEF Inspect
  <2>2. recoveryRootExists' \in BOOLEAN
    BY <1>2 DEF Inspect
  <2>3. stage' \in {"threw", "release"} /\ place' = place
    BY <1>2 DEF Inspect
  <2> QED BY <1>2, <2>1, <2>2, <2>3 DEF Inspect
<1>3. CASE LaunchRecoveryProvider
  BY <1>3 DEF LaunchRecoveryProvider
<1>4. CASE RecoveryScenarioReturns
  <2>1. place' \in Plans /\ stage' \in {"release", "capture", "threw"}
    BY SMTT(30), <1>4 DEF RecoveryScenarioReturns, Total
  <2> QED BY <1>4, <2>1 DEF RecoveryScenarioReturns
<1>5. CASE RecoveryCaptureReturns
  <2>1. PICK c \in [plan : Plans, transcript : {candidate[SlotOf(place)], Noise}]
                      \cup {Missing} :
          views' = Append(views, c)
    BY <1>5 DEF RecoveryCaptureReturns
  <2>2. candidate[SlotOf(place)] \in Transcripts /\ Noise \in Transcripts
    BY DEF Transcripts
  <2>3. c \in Capture \cup {Missing}
    BY <2>2 DEF Capture
  <2>4. views' \in Seq(Capture \cup {Missing})
    BY <2>1, <2>3
  <2>5. stage' \in {"pair", "capture"}
    BY <1>5 DEF RecoveryCaptureReturns
  <2> QED BY <1>5, <2>4, <2>5 DEF RecoveryCaptureReturns
<1>6. CASE RecoveryFinalizePair
  <2>1. views' \in Seq(Capture \cup {Missing})
    BY <1>6 DEF RecoveryFinalizePair
  <2>2. CASE RecoveryThrow /\ UNCHANGED <<observed, creating>>
    BY <1>6, <2>1, <2>2 DEF RecoveryFinalizePair
  <2>3. CASE /\ views[1].plan = place
             /\ observed' = Append(observed, views[1].transcript)
             /\ creating' = <<Observer, place, 1>>
             /\ NextPlace("capture", "count")
    <3>1. Len(views) = 2
      BY <1>6 DEF RecoveryFinalizePair, MemoryMatchesStage
    <3>2. views[1] \in Capture \cup {Missing}
      <4>1. views \in Seq(Capture \cup {Missing})
        OBVIOUS
      <4> QED BY ONLY <3>1, <4>1, ElementOfSeq
    <3>3. views[1] # Missing
      BY <2>3 DEF Missing, Plans
    <3>4. views[1].transcript \in Transcripts
      BY <3>2, <3>3 DEF Capture
    <3>5. observed' \in Seq(Transcripts)
      <4>1. observed \in Seq(Transcripts)
        OBVIOUS
      <4> QED BY ONLY <2>3, <3>4, <4>1, AppendIsSeq
    <3>6. place' \in Plans /\ stage' \in {"capture", "count"}
      BY <2>3, NextPlaceIsPlan
    <3>7. creating' \in RecoveryFileNames
      BY <2>3, NamesBuilt
    <3> QED BY <1>6, <2>1, <3>5, <3>6, <3>7 DEF RecoveryFinalizePair
  <2> QED BY <1>6, <2>2, <2>3 DEF RecoveryFinalizePair
<1>7. CASE CountPairs
  BY <1>7 DEF CountPairs
<1>8. CASE RecoveryEvaluateReturns
  <2>1. CASE RecoveryThrow /\ UNCHANGED <<scored, creating>>
    BY <1>8, <2>1 DEF RecoveryEvaluateReturns
  <2>2. CASE /\ scored' = Append(scored, observed[place])
             /\ creating' = <<Evaluator, place, 0>>
             /\ NextPlace("evaluate", "publish")
    <3>1. place \in 1 .. Len(observed)
      BY <1>8 DEF RecoveryEvaluateReturns, MemoryMatchesStage
    <3>2. observed[place] \in Transcripts
      BY <3>1
    <3>3. scored' \in Seq(Transcripts)
      <4>1. scored \in Seq(Transcripts)
        OBVIOUS
      <4> QED BY ONLY <2>2, <3>2, <4>1, AppendIsSeq
    <3>4. place' \in Plans /\ stage' \in {"evaluate", "publish"}
      BY <2>2, NextPlaceIsPlan
    <3>5. creating' \in RecoveryFileNames
      BY <2>2, NamesBuilt
    <3> QED BY <1>8, <3>3, <3>4, <3>5 DEF RecoveryEvaluateReturns
  <2> QED BY <1>8, <2>1, <2>2 DEF RecoveryEvaluateReturns
<1>9. CASE PublishRecovery
  <2>1. creating' \in RecoveryFileNames
    BY <1>9, NamesBuilt DEF PublishRecovery
  <2> QED BY <1>9, <2>1 DEF PublishRecovery
<1> QED BY <1>1, <1>2, <1>3, <1>4, <1>5, <1>6, <1>7, <1>8, <1>9

LEMMA EndTypes ==
  ASSUME StageInv,
         \/ CloseSource \/ CloseCandidates \/ ReturnRecovery
         \/ RecordRoleFailure \/ Rethrow \/ RecoveryRoleFails
         \/ CreateRecoveryFile \/ RecoveryWriteFails \/ RecoveryRoleHangs \/ RecoveryCrash
  PROVE  RecoveryTypeOK'
<1> USE PlanNumbers
    DEF StageInv, RecoveryTypeOK, candidates, source, rootVars, progress, gathered, output,
        AtStage, RecoveryThrow, Recovering, RecoveryEnded, RecoveryAwaitsRole
<1>1. CASE CloseSource
  BY <1>1 DEF CloseSource
<1>2. CASE CloseCandidates
  BY <1>2 DEF CloseCandidates
<1>3. CASE ReturnRecovery
  BY <1>3 DEF ReturnRecovery
<1>4. CASE RecordRoleFailure
  <2>1. (IF stage = "evaluate" THEN 3 ELSE Len(views) + 1) \in 1 .. 3
    BY <1>4 DEF RecordRoleFailure, MemoryMatchesStage
  <2>2. creating' \in RecoveryFileNames
    BY <1>4, <2>1, NamesBuilt DEF RecordRoleFailure
  <2> QED BY <1>4, <2>2 DEF RecordRoleFailure
<1>5. CASE Rethrow
  BY <1>5 DEF Rethrow
<1>6. CASE RecoveryRoleFails
  BY <1>6 DEF RecoveryRoleFails
<1>7. CASE CreateRecoveryFile
  <2>1. creating \in RecoveryFileNames
    BY <1>7 DEF CreateRecoveryFile
  <2>2. [name |-> creating, body |-> Evidence(creating)]
          \in [name : RecoveryFileNames, body : [transcript : Transcripts, altered : BOOLEAN]]
    BY <2>1, EvidenceIsTyped
  <2>3. creating' \in RecoveryFileNames \cup {NoFile}
    BY <1>7, <2>1, NextInCallIsName DEF CreateRecoveryFile
  <2> QED BY <1>7, <2>2, <2>3 DEF CreateRecoveryFile
<1>8. CASE RecoveryWriteFails
  <2>1. creating \in RecoveryFileNames
    BY <1>8 DEF RecoveryWriteFails
  <2>2. [name |-> creating, body |-> Evidence(creating)]
          \in [name : RecoveryFileNames, body : [transcript : Transcripts, altered : BOOLEAN]]
    BY <2>1, EvidenceIsTyped
  <2> QED BY <1>8, <2>2 DEF RecoveryWriteFails
<1>9. CASE RecoveryRoleHangs
  BY <1>9 DEF RecoveryRoleHangs
<1>10. CASE RecoveryCrash
  <2>1. stuck' \in BOOLEAN
    BY <1>10, Zenon DEF RecoveryCrash
  <2> QED BY <1>10, <2>1 DEF RecoveryCrash
<1> QED BY <1>1, <1>2, <1>3, <1>4, <1>5, <1>6, <1>7, <1>8, <1>9, <1>10

LEMMA StepType == StageInv /\ [RecoveryNext]_recovery => RecoveryTypeOK'
<1>1. StageInv /\ UNCHANGED recovery => RecoveryTypeOK'
  BY DEF StageInv, RecoveryTypeOK, recovery, candidates, source, rootVars, progress,
         gathered, output
<1> QED BY <1>1, OutsideTypes, PhaseTypes, EndTypes DEF RecoveryNext, RecoverySteps

(***************************************************************************)
(* Control: what each step leaves in memory and which file it starts.      *)
(***************************************************************************)
\* Steps that leave the control state alone.
LEMMA ControlUntouched ==
  ASSUME StageInv, UNCHANGED <<stage, place, creating, views, observed, scored>>
  PROVE  MemoryMatchesStage' /\ PlaceMatchesStage' /\ FileMatchesStage'
BY DEF StageInv, MemoryMatchesStage, PlaceMatchesStage, FileMatchesStage, LoopCreates

\* Once it ended, a recovery claims nothing of its memory.
LEMMA ControlEnded ==
  ASSUME stage' \in RecoveryEnded, creating' = NoFile
  PROVE  MemoryMatchesStage' /\ PlaceMatchesStage' /\ FileMatchesStage'
BY DEF MemoryMatchesStage, PlaceMatchesStage, FileMatchesStage, RecoveryEnded, Loading,
       Releasing, Observing, Closing

LEMMA PhaseControl ==
  ASSUME StageInv,
         \/ ReadDecisions \/ Inspect \/ LaunchRecoveryProvider \/ RecoveryScenarioReturns
         \/ RecoveryCaptureReturns \/ RecoveryFinalizePair \/ CountPairs
         \/ RecoveryEvaluateReturns \/ PublishRecovery
  PROVE  MemoryMatchesStage' /\ PlaceMatchesStage' /\ FileMatchesStage'
<1> USE PlanNumbers
    DEF MemoryMatchesStage, PlaceMatchesStage, FileMatchesStage, LoopCreates, Loading,
        Releasing, Observing, Closing, AtStage, gathered
<1>0. /\ views \in Seq(Capture \cup {Missing}) /\ observed \in Seq(Transcripts)
      /\ scored \in Seq(Transcripts) /\ place \in Plans
      /\ Len(views) \in Nat /\ Len(observed) \in Nat /\ Len(scored) \in Nat
      /\ MemoryMatchesStage /\ PlaceMatchesStage /\ FileMatchesStage
  BY LenProperties DEF StageInv, RecoveryTypeOK
<1>t. ASSUME RecoveryThrow, UNCHANGED creating, creating = NoFile
      PROVE  MemoryMatchesStage' /\ PlaceMatchesStage' /\ FileMatchesStage'
  BY <1>t, ControlEnded DEF RecoveryThrow, RecoveryEnded
<1>1. CASE ReadDecisions
  BY <1>0, <1>1 DEF ReadDecisions
<1>2. CASE Inspect
  <2>1. CASE RecoveryThrow /\ UNCHANGED creating
    BY <1>2, <1>t, <2>1 DEF Inspect
  <2>2. CASE creating' = <<Setup, 1, 0>> /\ stage' = "release" /\ UNCHANGED place
    BY <1>0, <1>2, <2>2 DEF Inspect, Setup
  <2> QED BY <1>2, <2>1, <2>2 DEF Inspect
<1>3. CASE LaunchRecoveryProvider
  BY <1>0, <1>3 DEF LaunchRecoveryProvider
<1>4. CASE RecoveryScenarioReturns
  <2>1. CASE RecoveryThrow
    BY <1>4, <1>t, <2>1 DEF RecoveryScenarioReturns
  <2>2. CASE place < NumSlots /\ stage' = "release" /\ place' = place + 1
    BY <1>0, <1>4, <2>2 DEF RecoveryScenarioReturns
  <2>3. CASE stage' = "capture" /\ place' = 1
    BY <1>0, <1>4, <2>3 DEF RecoveryScenarioReturns
  <2> QED BY <1>4, <2>1, <2>2, <2>3 DEF RecoveryScenarioReturns
<1>5. CASE RecoveryCaptureReturns
  <2>1. Len(views') = Len(views) + 1
    BY <1>0, <1>5 DEF RecoveryCaptureReturns
  <2> QED BY <1>0, <1>5, <2>1 DEF RecoveryCaptureReturns
<1>6. CASE RecoveryFinalizePair
  <2>1. CASE RecoveryThrow /\ UNCHANGED <<observed, creating>>
    BY <1>6, <1>t, <2>1 DEF RecoveryFinalizePair
  <2>2. CASE /\ observed' = Append(observed, views[1].transcript)
             /\ creating' = <<Observer, place, 1>>
             /\ NextPlace("capture", "count")
    <3>1. Len(observed') = Len(observed) + 1 /\ Len(views') = 0
      BY <1>0, <1>6, <2>2 DEF RecoveryFinalizePair
    <3>2. CASE place < Total
      BY <1>0, <1>6, <2>2, <3>1, <3>2 DEF RecoveryFinalizePair, NextPlace, Observer
    <3>3. CASE place = Total
      BY <1>0, <1>6, <2>2, <3>1, <3>3 DEF RecoveryFinalizePair, NextPlace, Observer
    <3> QED BY <1>0, <3>2, <3>3
  <2> QED BY <1>6, <2>1, <2>2 DEF RecoveryFinalizePair
<1>7. CASE CountPairs
  <2>1. CASE RecoveryThrow
    BY <1>7, <1>t, <2>1 DEF CountPairs
  <2>2. CASE stage' = "evaluate" /\ UNCHANGED place
    BY <1>0, <1>7, <2>2 DEF CountPairs
  <2> QED BY <1>7, <2>1, <2>2 DEF CountPairs
<1>8. CASE RecoveryEvaluateReturns
  <2>1. CASE RecoveryThrow /\ UNCHANGED <<scored, creating>>
    BY <1>8, <1>t, <2>1 DEF RecoveryEvaluateReturns
  <2>2. CASE /\ scored' = Append(scored, observed[place])
             /\ creating' = <<Evaluator, place, 0>>
             /\ NextPlace("evaluate", "publish")
    <3>1. Len(scored') = Len(scored) + 1
      BY <1>0, <2>2
    <3>2. CASE place < Total
      BY <1>0, <1>8, <2>2, <3>1, <3>2 DEF RecoveryEvaluateReturns, NextPlace, Evaluator
    <3>3. CASE place = Total
      BY <1>0, <1>8, <2>2, <3>1, <3>3 DEF RecoveryEvaluateReturns, NextPlace, Evaluator
    <3> QED BY <1>0, <3>2, <3>3
  <2> QED BY <1>8, <2>1, <2>2 DEF RecoveryEvaluateReturns
<1>9. CASE PublishRecovery
  BY <1>0, <1>9 DEF PublishRecovery, Report
<1> QED BY <1>1, <1>2, <1>3, <1>4, <1>5, <1>6, <1>7, <1>8, <1>9

LEMMA EndControl ==
  ASSUME StageInv,
         \/ CloseSource \/ CloseCandidates \/ ReturnRecovery
         \/ RecordRoleFailure \/ Rethrow \/ RecoveryRoleFails
         \/ CreateRecoveryFile \/ RecoveryWriteFails \/ RecoveryRoleHangs \/ RecoveryCrash
  PROVE  MemoryMatchesStage' /\ PlaceMatchesStage' /\ FileMatchesStage'
<1> USE DEF MemoryMatchesStage, PlaceMatchesStage, FileMatchesStage, LoopCreates, Loading,
        Releasing, Observing, Closing, AtStage, gathered
<1>0. MemoryMatchesStage /\ PlaceMatchesStage /\ FileMatchesStage
  BY DEF StageInv
<1>1. CASE CloseSource
  BY <1>0, <1>1, ControlEnded DEF CloseSource, RecoveryEnded
<1>2. CASE CloseCandidates
  BY <1>0, <1>2, ControlEnded DEF CloseCandidates, RecoveryEnded
<1>3. CASE ReturnRecovery
  BY <1>3, ControlEnded DEF ReturnRecovery, RecoveryEnded
<1>4. CASE RecordRoleFailure
  BY <1>4 DEF RecordRoleFailure, Failure
<1>5. CASE Rethrow \/ RecoveryRoleFails
  BY <1>5, ControlEnded DEF Rethrow, RecoveryRoleFails, RecoveryThrow, RecoveryEnded
<1>6. CASE CreateRecoveryFile
  <2>0. creating \in RecoveryFileNames
    BY <1>6 DEF CreateRecoveryFile, StageInv, RecoveryTypeOK
  <2>1. creating' = NoFile
          \/ (creating'[1] = creating[1] /\ (creating[1] = Observer => creating'[2] = creating[2]))
    BY <1>6, <2>0, NameShape DEF CreateRecoveryFile, NextInCall, Setup, Report, Observer
  <2>2. UNCHANGED <<stage, place, gathered>> /\ creating # NoFile
    BY <1>6 DEF CreateRecoveryFile
  <2>3. creating[1] = Evaluator => creating' = NoFile
    BY <1>6 DEF CreateRecoveryFile, NextInCall, Setup, Report, Observer, Evaluator
  <2>4. creating[1] \in {Setup, Observer, Evaluator, Report, Failure}
    BY <2>0, NameShape
  <2>5. FileMatchesStage'
    <3>1. CASE creating' = NoFile
      BY <3>1
    <3>2. CASE creating' # NoFile
      BY <1>0, <2>1, <2>2, <2>3, <2>4, <3>2
    <3> QED BY <3>1, <3>2
  <2> QED BY <1>0, <2>2, <2>5
<1>7. CASE RecoveryWriteFails
  BY <1>7, ControlEnded DEF RecoveryWriteFails, RecoveryThrow, RecoveryEnded
<1>8. CASE RecoveryRoleHangs
  BY <1>0, <1>8 DEF RecoveryRoleHangs
<1>9. CASE RecoveryCrash
  BY <1>9, ControlEnded DEF RecoveryCrash, RecoveryEnded
<1> QED BY <1>1, <1>2, <1>3, <1>4, <1>5, <1>6, <1>7, <1>8, <1>9

LEMMA BeginControl ==
  ASSUME StageInv, BeginRecovery
  PROVE  MemoryMatchesStage' /\ PlaceMatchesStage' /\ FileMatchesStage'
<1> USE DEF MemoryMatchesStage, PlaceMatchesStage, FileMatchesStage, LoopCreates, Loading,
        Releasing, Observing, Closing
<1>1. creating = NoFile
  BY DEF BeginRecovery, StageInv, RecoveryEnded
<1> QED BY <1>1 DEF BeginRecovery

LEMMA StepStage == StageInv /\ [RecoveryNext]_recovery => StageInv'
<1> SUFFICES ASSUME StageInv, [RecoveryNext]_recovery PROVE StageInv'
  OBVIOUS
<1>1. CASE UNCHANGED <<stage, place, creating, views, observed, scored>>
  BY <1>1, StepType, ControlUntouched DEF StageInv
<1>2. CASE RecoverySteps \/ RecoveryRoleHangs \/ RecoveryCrash
  BY <1>2, StepType, PhaseControl, EndControl DEF StageInv, RecoverySteps
<1>3. CASE BeginRecovery
  BY <1>3, StepType, BeginControl DEF StageInv
<1>4. CASE \/ SourceNext /\ UNCHANGED <<candidates, rewritten, tampers, manifest, progress,
                                        gathered, output>>
           \/ \E s \in Slots : EditCandidate(s)
           \/ FreezeManifest
           \/ \E k \in Plans : RewriteRecord(k)
           \/ UNCHANGED recovery
  <2>1. UNCHANGED <<progress, gathered>>
    BY <1>4 DEF EditCandidate, FreezeManifest, RewriteRecord, recovery
  <2> QED BY <1>1, <2>1 DEF progress, gathered
<1> QED BY <1>2, <1>3, <1>4 DEF RecoveryNext

\* Where a recovery is determines its memory and the file it creates.
THEOREM StageCorrect == RecoverySpec => []StageInv
BY InitStage, StepStage, PTL DEF RecoverySpec

\* The types of the recovery.
THEOREM RecoveryTypeCorrect == RecoverySpec => []RecoveryTypeOK
<1>1. StageInv => RecoveryTypeOK
  BY DEF StageInv
<1> QED BY <1>1, StageCorrect, PTL

(***************************************************************************)
(* Layer 2: the recovery root.                                             *)
(***************************************************************************)
\* In the root is exactly what precedes `name`.
UpTo(name) == \A n \in RecoveryFileNames : Recovered(n) <=> Precedes(n, name)

\* The recovery has reached exactly as far as its root.
RootReached ==
  /\ creating # NoFile /\ creating[1] # Failure => UpTo(creating)
  /\ creating # NoFile /\ creating[1] = Failure => UpTo(Withheld(creating))
  /\ creating = NoFile =>
       /\ stage \in Releasing => UpTo(<<Observer, 1, 1>>)
       /\ stage \in Observing => UpTo(<<Observer, place, 1>>)
       /\ stage = "count" => UpTo(<<Evaluator, 1, 0>>)
       /\ stage = "evaluate" => UpTo(<<Evaluator, place, 0>>)
       /\ stage = "publish" => UpTo(<<Report, 1, 0>>)

\* What a recovery loads and reveals stands on every decision.
RevealedByStage ==
  /\ revealed \/ stage \in Loading \cup Releasing => decided = Plans
  /\ stage \in {"scenario", "count", "evaluate", "publish", "fail"} \cup Observing \cup Closing
       => revealed

\* A root without a directory is empty; a recovery past its loading owns it.
RootOwned ==
  /\ recoveryRootExists \/ recovered = {}
  /\ stage \in Recovering \ Loading => recoveryRootExists

RootInv == RootReached /\ RevealedByStage /\ RootOwned /\ FailureIsFinal

\* Name b comes directly after name a.
Follows(a, b) ==
  \A n \in RecoveryFileNames : Precedes(n, b) <=> Precedes(n, a) \/ n = a

LEMMA CreationOrder ==
  ASSUME NEW a \in RecoveryFileNames
  PROVE  /\ NextInCall(a) # NoFile => Follows(a, NextInCall(a))
         /\ NextInCall(a) = NoFile =>
              /\ a[1] = Setup => Follows(a, <<Observer, 1, 1>>)
              /\ a[1] = Observer /\ a[2] < Total
                   => Follows(a, <<Observer, a[2] + 1, 1>>)
              /\ a[1] = Observer /\ a[2] = Total => Follows(a, <<Evaluator, 1, 0>>)
              /\ a[1] = Evaluator /\ a[2] < Total
                   => Follows(a, <<Evaluator, a[2] + 1, 0>>)
              /\ a[1] = Evaluator /\ a[2] = Total => Follows(a, <<Report, 1, 0>>)
<1> USE PlanNumbers, NameShape
    DEF Precedes, Setup, Observer, Evaluator, Report, Failure, NextInCall, NoFile
<1>1. ASSUME NextInCall(a) # NoFile PROVE Follows(a, NextInCall(a))
  BY <1>1 DEF Follows
<1>2. ASSUME NextInCall(a) = NoFile, a[1] = Setup PROVE Follows(a, <<Observer, 1, 1>>)
  BY <1>2 DEF Follows
<1>3. ASSUME NextInCall(a) = NoFile, a[1] = Observer
      PROVE  /\ a[2] < Total => Follows(a, <<Observer, a[2] + 1, 1>>)
             /\ a[2] = Total => Follows(a, <<Evaluator, 1, 0>>)
  BY <1>3 DEF Follows
<1>4. ASSUME NextInCall(a) = NoFile, a[1] = Evaluator
      PROVE  /\ a[2] < Total => Follows(a, <<Evaluator, a[2] + 1, 0>>)
             /\ a[2] = Total => Follows(a, <<Report, 1, 0>>)
  BY <1>4 DEF Follows
<1> QED BY <1>1, <1>2, <1>3, <1>4

LEMMA NothingFirst == \A n \in RecoveryFileNames : ~Precedes(n, <<Setup, 1, 0>>)
BY NameShape DEF Precedes, Setup, Observer, Evaluator, Report, Failure

\* Creating a file adds its name.
LEMMA CreateAddsName ==
  ASSUME recovered' = recovered \cup {[name |-> creating, body |-> Evidence(creating)]}
  PROVE  \A n : Recovered(n)' <=> Recovered(n) \/ n = creating
<1> DEFINE new == [name |-> creating, body |-> Evidence(creating)]
<1>1. recovered' = recovered \cup {new} /\ new.name = creating
  OBVIOUS
<1> HIDE DEF new
<1> QED BY <1>1 DEF Recovered

LEMMA InitRoot == RecoveryInit => RootInv
BY DEF RecoveryInit, RootInv, RootReached, RevealedByStage, RootOwned, FailureIsFinal,
       Loading, Releasing, Observing, Closing, Recovering, RecoveryAwaitsRole

\* Only the writer changes the root.
LEMMA RootChanges ==
  [RecoveryNext]_recovery => UNCHANGED recovered \/ CreateRecoveryFile \/ RecoveryWriteFails
BY DEF RecoveryNext, RecoverySteps, recovery, candidates, source, progress, gathered, output,
       EditCandidate, FreezeManifest, RewriteRecord, BeginRecovery, ReadDecisions, Inspect,
       LaunchRecoveryProvider, RecoveryScenarioReturns, RecoveryCaptureReturns,
       RecoveryFinalizePair, CountPairs, RecoveryEvaluateReturns, PublishRecovery,
       CloseSource, CloseCandidates, ReturnRecovery, RecordRoleFailure, Rethrow,
       RecoveryRoleFails, RecoveryRoleHangs, RecoveryCrash

\* Where nothing is claimed of the root.
LEMMA NothingReached ==
  ASSUME creating' = NoFile, stage' \in RecoveryEnded \cup Loading \cup Closing \cup {"fail"}
  PROVE  RootReached'
BY DEF RootReached, RecoveryEnded, Loading, Releasing, Observing, Closing

LEMMA PhaseReached ==
  ASSUME StageInv, RootInv, UNCHANGED recovered,
         \/ ReadDecisions \/ Inspect \/ LaunchRecoveryProvider \/ RecoveryScenarioReturns
         \/ RecoveryCaptureReturns \/ RecoveryFinalizePair \/ CountPairs
         \/ RecoveryEvaluateReturns \/ PublishRecovery
  PROVE  RootReached'
<1> USE DEF AtStage, Releasing, Observing
<1>0. /\ RootReached /\ PlaceMatchesStage
      /\ \A name : UpTo(name)' <=> UpTo(name)
  BY DEF RootInv, StageInv, UpTo, Recovered
<1>t. ASSUME RecoveryThrow, UNCHANGED creating, creating = NoFile PROVE RootReached'
  BY <1>t, NothingReached DEF RecoveryThrow, RecoveryEnded
<1>1. CASE ReadDecisions
  BY <1>1, NothingReached DEF ReadDecisions, Loading, RecoveryEnded
<1>2. CASE Inspect
  <2>1. CASE RecoveryThrow /\ UNCHANGED creating
    BY <1>2, <1>t, <2>1 DEF Inspect
  <2>2. CASE ~recoveryRootExists /\ creating' = <<Setup, 1, 0>>
    <3>1. recovered = {}
      BY <2>2 DEF RootInv, RootOwned
    <3>2. UpTo(<<Setup, 1, 0>>)
      BY <3>1, NothingFirst DEF UpTo, Recovered
    <3> QED BY <1>0, <2>2, <3>2 DEF RootReached, Setup, Failure, NoFile
  <2> QED BY <1>2, <2>1, <2>2 DEF Inspect
<1>3. CASE LaunchRecoveryProvider
  BY <1>0, <1>3 DEF LaunchRecoveryProvider, RootReached
<1>4. CASE RecoveryScenarioReturns
  <2>1. CASE RecoveryThrow
    BY <1>4, <1>t, <2>1 DEF RecoveryScenarioReturns
  <2>2. CASE stage' = "release" \/ (stage' = "capture" /\ place' = 1)
    BY <1>0, <1>4, <2>2 DEF RecoveryScenarioReturns, RootReached
  <2> QED BY <1>4, <2>1, <2>2 DEF RecoveryScenarioReturns
<1>5. CASE RecoveryCaptureReturns
  BY <1>0, <1>5 DEF RecoveryCaptureReturns, RootReached
<1>6. CASE RecoveryFinalizePair
  <2>1. CASE RecoveryThrow /\ UNCHANGED creating
    BY <1>6, <1>t, <2>1 DEF RecoveryFinalizePair
  <2>2. CASE creating' = <<Observer, place, 1>>
    BY <1>0, <1>6, <2>2
       DEF RecoveryFinalizePair, RootReached, Observer, Failure, NoFile
  <2> QED BY <1>6, <2>1, <2>2 DEF RecoveryFinalizePair
<1>7. CASE CountPairs
  <2>1. CASE RecoveryThrow
    BY <1>7, <1>t, <2>1 DEF CountPairs
  <2>2. CASE stage' = "evaluate" /\ UNCHANGED place
    BY <1>0, <1>7, <2>2 DEF CountPairs, RootReached, PlaceMatchesStage
  <2> QED BY <1>7, <2>1, <2>2 DEF CountPairs
<1>8. CASE RecoveryEvaluateReturns
  <2>1. CASE RecoveryThrow /\ UNCHANGED creating
    BY <1>8, <1>t, <2>1 DEF RecoveryEvaluateReturns
  <2>2. CASE creating' = <<Evaluator, place, 0>>
    BY <1>0, <1>8, <2>2
       DEF RecoveryEvaluateReturns, RootReached, Evaluator, Failure, NoFile
  <2> QED BY <1>8, <2>1, <2>2 DEF RecoveryEvaluateReturns
<1>9. CASE PublishRecovery
  BY <1>0, <1>9 DEF PublishRecovery, RootReached, Report, Failure, NoFile
<1> QED BY <1>1, <1>2, <1>3, <1>4, <1>5, <1>6, <1>7, <1>8, <1>9

\* The files of one writer call, and of the loops, are created in order.
LEMMA CreateReached ==
  ASSUME StageInv, RootInv, CreateRecoveryFile
  PROVE  RootReached'
<1>1. /\ creating \in RecoveryFileNames /\ creating # NoFile
      /\ UNCHANGED <<stage, place>> /\ creating' = NextInCall(creating)
      /\ \A n : Recovered(n)' <=> Recovered(n) \/ n = creating
  BY CreateAddsName DEF CreateRecoveryFile, StageInv, RecoveryTypeOK
<1>2. CASE creating[1] = Failure
  <2>1. stage = "fail" /\ creating' = NoFile
    BY <1>1, <1>2 DEF StageInv, FileMatchesStage, LoopCreates, NextInCall,
                      Setup, Observer, Evaluator, Report, Failure
  <2> QED BY <1>1, <2>1, NothingReached
<1>3. CASE creating[1] # Failure
  <2>1. UpTo(creating)
    BY <1>1, <1>3 DEF RootInv, RootReached
  <2>2. ASSUME NEW b, Follows(creating, b) PROVE UpTo(b)'
    BY <1>1, <2>1, <2>2 DEF UpTo, Follows
  <2>3. CASE creating' # NoFile
    <3>1. Follows(creating, NextInCall(creating))
      BY <1>1, <2>3, CreationOrder
    <3>2. ASSUME NEW b, b = NextInCall(creating) PROVE UpTo(b)'
      BY <2>2, <3>1, <3>2
    <3>3. creating'[1] = creating[1]
      BY <1>1, <2>3 DEF NextInCall
    <3>4. creating' \in RecoveryFileNames
      BY <1>1, <2>3, NextInCallIsName
    <3>5. UpTo(creating)'
      BY <1>1, <3>2 DEF UpTo, Recovered
    <3> QED BY <1>3, <2>3, <3>3, <3>5 DEF RootReached
  <2>4. CASE creating' = NoFile
    <3> USE DEF FileMatchesStage, LoopCreates
    <3>0. FileMatchesStage /\ NextInCall(creating) = NoFile
      BY <1>1, <2>4 DEF StageInv
    <3>1. CASE creating[1] = Setup
      <4>1. UpTo(<<Observer, 1, 1>>)'
        BY <1>1, <2>2, <3>0, <3>1, CreationOrder
      <4>2. stage' = "release"
        BY <1>1, <3>0, <3>1 DEF Setup, Observer, Evaluator, Report, Failure
      <4> QED BY <2>4, <4>1, <4>2 DEF RootReached, Releasing, Observing
    <3>2. CASE creating[1] = Observer
      <4>1. CASE creating[2] < Total /\ stage = "capture" /\ place = creating[2] + 1
        <5>1. Follows(creating, <<Observer, creating[2] + 1, 1>>)
          BY <1>1, <3>0, <3>2, <4>1, CreationOrder
        <5>2. ASSUME NEW b, b = <<Observer, creating[2] + 1, 1>> PROVE UpTo(b)'
          BY <2>2, <5>1, <5>2
        <5>3. UpTo(<<Observer, place, 1>>)'
          BY <1>1, <4>1, <5>2 DEF UpTo, Recovered
        <5> QED BY <1>1, <2>4, <4>1, <5>3 DEF RootReached, Releasing, Observing
      <4>2. CASE creating[2] = Total /\ stage = "count" /\ place = 1
        <5>1. UpTo(<<Evaluator, 1, 0>>)'
          BY <1>1, <2>2, <3>0, <3>2, <4>2, CreationOrder
        <5> QED BY <1>1, <2>4, <4>2, <5>1 DEF RootReached, Releasing, Observing
      <4> QED BY <1>1, <3>0, <3>2, <4>1, <4>2
               DEF Setup, Observer, Evaluator, Report, Failure
    <3>3. CASE creating[1] = Evaluator
      <4>1. CASE creating[2] < Total /\ stage = "evaluate" /\ place = creating[2] + 1
        <5>1. Follows(creating, <<Evaluator, creating[2] + 1, 0>>)
          BY <1>1, <3>0, <3>3, <4>1, CreationOrder
        <5>2. ASSUME NEW b, b = <<Evaluator, creating[2] + 1, 0>> PROVE UpTo(b)'
          BY <2>2, <5>1, <5>2
        <5>3. UpTo(<<Evaluator, place, 0>>)'
          BY <1>1, <4>1, <5>2 DEF UpTo, Recovered
        <5> QED BY <1>1, <2>4, <4>1, <5>3 DEF RootReached, Releasing, Observing
      <4>2. CASE creating[2] = Total /\ stage = "publish" /\ place = 1
        <5>1. UpTo(<<Report, 1, 0>>)'
          BY <1>1, <2>2, <3>0, <3>3, <4>2, CreationOrder
        <5> QED BY <1>1, <2>4, <4>2, <5>1 DEF RootReached, Releasing, Observing
      <4> QED BY <1>1, <3>0, <3>3, <4>1, <4>2
               DEF Setup, Observer, Evaluator, Report, Failure
    <3>4. CASE creating[1] = Report
      <4>1. stage' = "closeSource"
        BY <1>1, <3>0, <3>4 DEF Setup, Observer, Evaluator, Report, Failure
      <4> QED BY <2>4, <4>1, NothingReached DEF Closing
    <3> QED BY <1>1, <1>3, <3>1, <3>2, <3>3, <3>4, NameShape
  <2> QED BY <2>3, <2>4
<1> QED BY <1>2, <1>3

LEMMA EndReached ==
  ASSUME StageInv, RootInv,
         \/ CloseSource \/ CloseCandidates \/ ReturnRecovery
         \/ RecordRoleFailure \/ Rethrow \/ RecoveryRoleFails
         \/ RecoveryWriteFails \/ RecoveryRoleHangs \/ RecoveryCrash
  PROVE  RootReached'
<1> USE DEF AtStage
<1>1. CASE CloseSource \/ CloseCandidates \/ ReturnRecovery
  BY <1>1, NothingReached DEF CloseSource, CloseCandidates, ReturnRecovery, Closing, RecoveryEnded
<1>2. CASE RecordRoleFailure
  <2>1. /\ creating = NoFile /\ RootReached
        /\ \A name : UpTo(name)' <=> UpTo(name)
    BY <1>2 DEF RecordRoleFailure, RootInv, UpTo, Recovered, output
  <2>2. Len(views) \in Nat
    BY LenProperties DEF StageInv, RecoveryTypeOK
  <2>3. CASE stage = "evaluate"
    <3>1. creating' = <<Failure, place, 3>> /\ UpTo(<<Evaluator, place, 0>>)
      BY <1>2, <2>1, <2>3 DEF RecordRoleFailure, RootReached
    <3>2. UNCHANGED place
      BY <1>2 DEF RecordRoleFailure
    <3>3. UpTo(Withheld(creating))'
      BY <2>1, <3>1, <3>2 DEF Withheld
    <3> QED BY <3>1, <3>3 DEF RootReached, Failure, NoFile
  <2>4. CASE stage = "capture"
    <3>1. creating' = <<Failure, place, Len(views) + 1>> /\ UpTo(<<Observer, place, 1>>)
      BY <1>2, <2>1, <2>4 DEF RecordRoleFailure, RootReached, Observing
    <3>2. Len(views) + 1 # 3 /\ UNCHANGED place
      BY <1>2, <2>2, <2>4 DEF RecordRoleFailure, StageInv, MemoryMatchesStage
    <3>3. UpTo(Withheld(creating))'
      BY <2>1, <3>1, <3>2 DEF Withheld
    <3> QED BY <3>1, <3>3 DEF RootReached, Failure, NoFile
  <2> QED BY <1>2, <2>3, <2>4 DEF RecordRoleFailure
<1>3. CASE Rethrow \/ RecoveryRoleFails \/ RecoveryWriteFails
  BY <1>3, NothingReached
     DEF Rethrow, RecoveryRoleFails, RecoveryWriteFails, RecoveryThrow, RecoveryEnded
<1>4. CASE RecoveryRoleHangs
  BY <1>4 DEF RecoveryRoleHangs, RootInv, RootReached, UpTo, Recovered, output
<1>5. CASE RecoveryCrash
  BY <1>5, NothingReached DEF RecoveryCrash, RecoveryEnded
<1> QED BY <1>1, <1>2, <1>3, <1>4, <1>5

LEMMA StepReached == StageInv /\ RootInv /\ [RecoveryNext]_recovery => RootReached'
<1> SUFFICES ASSUME StageInv, RootInv, [RecoveryNext]_recovery PROVE RootReached'
  OBVIOUS
<1>1. CASE BeginRecovery
  <2>1. creating' = NoFile
    BY <1>1 DEF BeginRecovery, StageInv, FileMatchesStage, LoopCreates, RecoveryEnded
  <2> QED BY <1>1, <2>1, NothingReached DEF BeginRecovery, Loading, RecoveryEnded
<1>2. CASE UNCHANGED <<stage, place, creating, recovered>>
  BY <1>2 DEF RootInv, RootReached, UpTo, Recovered
<1>3. CASE CreateRecoveryFile
  BY <1>3, CreateReached
<1>4. CASE \/ CloseSource \/ CloseCandidates \/ ReturnRecovery
           \/ RecordRoleFailure \/ Rethrow \/ RecoveryRoleFails
           \/ RecoveryWriteFails \/ RecoveryRoleHangs \/ RecoveryCrash
  BY <1>4, EndReached
<1>5. CASE \/ ReadDecisions \/ Inspect \/ LaunchRecoveryProvider \/ RecoveryScenarioReturns
           \/ RecoveryCaptureReturns \/ RecoveryFinalizePair \/ CountPairs
           \/ RecoveryEvaluateReturns \/ PublishRecovery
  BY <1>3, <1>4, <1>5, PhaseReached, RootChanges
<1>6. CASE \/ SourceNext /\ UNCHANGED <<candidates, rewritten, tampers, manifest, progress,
                                        gathered, output>>
           \/ \E s \in Slots : EditCandidate(s)
           \/ FreezeManifest
           \/ \E k \in Plans : RewriteRecord(k)
           \/ UNCHANGED recovery
  <2>1. UNCHANGED <<progress, output>>
    BY <1>6 DEF EditCandidate, FreezeManifest, RewriteRecord, recovery
  <2> QED BY <1>2, <2>1 DEF progress, output
<1> QED BY <1>1, <1>3, <1>4, <1>5, <1>6 DEF RecoveryNext, RecoverySteps

\* Decisions are only added to.
LEMMA DecidedGrows ==
  RecoveryTypeOK /\ [RecoveryNext]_recovery => decided \subseteq decided' /\ (decided = Plans => decided' = decided)
<1> SUFFICES ASSUME RecoveryTypeOK, [RecoveryNext]_recovery
             PROVE  decided \subseteq decided' /\ (decided = Plans => decided' = decided)
  OBVIOUS
<1>1. CASE SourceNext
  BY <1>1 DEF SourceNext, Record, Continue, Clutter
<1>2. CASE ~SourceNext
  <2>1. UNCHANGED decided
    BY <1>2
    DEF RecoveryNext, RecoverySteps, recovery, candidates, source, rootVars, progress, gathered,
        output, EditCandidate, FreezeManifest, RewriteRecord, BeginRecovery, ReadDecisions,
        Inspect, LaunchRecoveryProvider, RecoveryScenarioReturns, RecoveryCaptureReturns,
        RecoveryFinalizePair, CountPairs, RecoveryEvaluateReturns, PublishRecovery,
        CloseSource, CloseCandidates, ReturnRecovery, RecordRoleFailure, Rethrow,
        RecoveryRoleFails, RecoveryRoleHangs, RecoveryCrash, CreateRecoveryFile,
        RecoveryWriteFails
  <2> QED BY <2>1
<1> QED BY <1>1, <1>2

LEMMA StepRevealed ==
  StageInv /\ RootInv /\ [RecoveryNext]_recovery => RevealedByStage'
<1> SUFFICES ASSUME StageInv, RootInv, [RecoveryNext]_recovery PROVE RevealedByStage'
  OBVIOUS
<1>0. RevealedByStage /\ (decided = Plans => decided' = Plans)
  BY DecidedGrows DEF RootInv, StageInv
<1> USE DEF RevealedByStage, Loading, Releasing, Observing, Closing, AtStage, RecoveryThrow,
            NextPlace, progress
<1>1. CASE BeginRecovery
  BY <1>0, <1>1 DEF BeginRecovery, SourceMatches, SourceIsExact
<1>2. CASE ReadDecisions \/ Inspect \/ LaunchRecoveryProvider \/ RecoveryScenarioReturns
  BY <1>0, <1>2 DEF ReadDecisions, Inspect, LaunchRecoveryProvider, RecoveryScenarioReturns
<1>3. CASE RecoveryCaptureReturns \/ RecoveryFinalizePair \/ CountPairs
           \/ RecoveryEvaluateReturns \/ PublishRecovery
  BY <1>0, <1>3 DEF RecoveryCaptureReturns, RecoveryFinalizePair, CountPairs,
                    RecoveryEvaluateReturns, PublishRecovery
<1>4. CASE \/ CloseSource \/ CloseCandidates \/ ReturnRecovery \/ RecordRoleFailure
           \/ Rethrow \/ RecoveryRoleFails \/ CreateRecoveryFile \/ RecoveryWriteFails
           \/ RecoveryRoleHangs \/ RecoveryCrash
  BY <1>0, <1>4 DEF CloseSource, CloseCandidates, ReturnRecovery, RecordRoleFailure, Rethrow,
        RecoveryRoleFails, CreateRecoveryFile, RecoveryWriteFails, RecoveryRoleHangs,
        RecoveryCrash, RecoveryAwaitsRole
<1>5. CASE UNCHANGED progress
  BY <1>0, <1>5
<1> QED BY <1>1, <1>2, <1>3, <1>4, <1>5
        DEF RecoveryNext, RecoverySteps, EditCandidate, FreezeManifest, RewriteRecord, recovery

LEMMA StepOwned ==
  StageInv /\ RootInv /\ [RecoveryNext]_recovery => RootOwned'
<1> SUFFICES ASSUME StageInv, RootInv, [RecoveryNext]_recovery PROVE RootOwned'
  OBVIOUS
<1>0. RootOwned /\ FileMatchesStage /\ stage \in Stages
  BY DEF RootInv, StageInv, RecoveryTypeOK, Stages
<1> USE DEF RootOwned, Loading, AtStage, RecoveryThrow, Recovering, RecoveryEnded,
            RecoveryAwaitsRole, NextPlace, progress, output, Stages
<1>1. CASE BeginRecovery
  BY <1>0, <1>1 DEF BeginRecovery
<1>2. CASE ReadDecisions \/ Inspect \/ LaunchRecoveryProvider \/ RecoveryScenarioReturns
  BY <1>0, <1>2 DEF ReadDecisions, Inspect, LaunchRecoveryProvider, RecoveryScenarioReturns
<1>3. CASE RecoveryCaptureReturns \/ RecoveryFinalizePair \/ CountPairs
           \/ RecoveryEvaluateReturns \/ PublishRecovery
  BY <1>0, <1>3 DEF RecoveryCaptureReturns, RecoveryFinalizePair, CountPairs,
                    RecoveryEvaluateReturns, PublishRecovery
<1>4. CASE CreateRecoveryFile \/ RecoveryWriteFails
  <2>1. recoveryRootExists
    BY <1>0, <1>4 DEF CreateRecoveryFile, RecoveryWriteFails, FileMatchesStage, LoopCreates
  <2> QED BY <1>4, <2>1 DEF CreateRecoveryFile, RecoveryWriteFails
<1>5. CASE \/ CloseSource \/ CloseCandidates \/ ReturnRecovery \/ RecordRoleFailure
           \/ Rethrow \/ RecoveryRoleFails \/ RecoveryRoleHangs \/ RecoveryCrash
  BY <1>0, <1>5 DEF CloseSource, CloseCandidates, ReturnRecovery, RecordRoleFailure, Rethrow,
        RecoveryRoleFails, RecoveryRoleHangs, RecoveryCrash
<1>6. CASE UNCHANGED <<progress, output>>
  BY <1>0, <1>6
<1> QED BY <1>1, <1>2, <1>3, <1>4, <1>5, <1>6
        DEF RecoveryNext, RecoverySteps, EditCandidate, FreezeManifest, RewriteRecord, recovery

\* A file that joins the root follows all that is in it; a failure joins what
\* precedes the file it withholds, and nothing joins the root after it.
LEMMA StepFinal ==
  StageInv /\ RootInv /\ [RecoveryNext]_recovery => FailureIsFinal'
<1> SUFFICES ASSUME StageInv, RootInv, [RecoveryNext]_recovery PROVE FailureIsFinal'
  OBVIOUS
<1>0. FailureIsFinal /\ RootReached
      /\ \A f \in recovered : f.name \in RecoveryFileNames
  BY DEF RootInv, StageInv, RecoveryTypeOK
<1>1. CASE UNCHANGED recovered
  BY <1>0, <1>1 DEF FailureIsFinal, Recovered
<1>2. ASSUME creating \in RecoveryFileNames,
             recovered' = recovered \cup {[name |-> creating, body |-> Evidence(creating)]}
      PROVE  FailureIsFinal'
  <2> DEFINE new == [name |-> creating, body |-> Evidence(creating)]
  <2>1. recovered' = recovered \cup {new} /\ new.name = creating
    BY <1>2
  <2>2. \A n : Recovered(n)' <=> Recovered(n) \/ n = creating
    BY <1>2, CreateAddsName
  <2>3. creating # NoFile
    BY <1>2, NoFileIsNoName
  <2>4. \A f \in recovered : Recovered(f.name)
    BY DEF Recovered
  <2> HIDE DEF new
  <2>5. CASE creating[1] # Failure
    <3>1. UpTo(creating)
      BY <1>0, <2>3, <2>5 DEF RootReached
    <3>2. \A f \in recovered : f.name[1] # Failure
      BY <1>0, <1>2, <2>4, <2>5, <3>1, NameShape
         DEF UpTo, Precedes, Setup, Observer, Evaluator, Report, Failure
    <3>3. \A name \in RecoveryFileNames : Precedes(name, creating) => Recovered(name)'
      BY <2>2, <3>1 DEF UpTo
    <3>4. ASSUME NEW f \in recovered PROVE \A name \in RecoveryFileNames :
                                             Precedes(name, f.name) => Recovered(name)'
      BY <1>0, <2>2, <3>2 DEF FailureIsFinal
    <3> QED BY <2>1, <2>5, <3>2, <3>3, <3>4 DEF FailureIsFinal
  <2>6. CASE creating[1] = Failure
    <3>1. UpTo(Withheld(creating))
      BY <1>0, <2>3, <2>6 DEF RootReached
    <3>2. creating[2] \in Nat /\ creating[3] \in 1 .. 3
      BY <1>2, <2>6, NameShape
    <3>3. \A name \in RecoveryFileNames :
             Precedes(name, Withheld(creating)) => name[1] # Failure
      BY <3>2, NameShape DEF Withheld, Precedes, Setup, Observer, Evaluator, Report, Failure
    <3>4. \A g \in recovered : g.name[1] # Failure
      BY <1>0, <2>4, <3>1, <3>3 DEF UpTo
    <3>5. ASSUME NEW f \in recovered PROVE \A name \in RecoveryFileNames :
                                             Precedes(name, f.name) => Recovered(name)'
      BY <1>0, <2>2, <3>4 DEF FailureIsFinal
    <3>6. \A name \in RecoveryFileNames \ {creating} :
             Recovered(name)' <=> Precedes(name, Withheld(creating))
      BY <2>2, <3>1 DEF UpTo
    <3> QED BY <2>1, <2>6, <3>4, <3>5, <3>6 DEF FailureIsFinal
  <2> QED BY <2>5, <2>6
<1>3. CASE CreateRecoveryFile \/ RecoveryWriteFails
  <2>1. creating \in RecoveryFileNames
    BY <1>3 DEF CreateRecoveryFile, RecoveryWriteFails, StageInv, RecoveryTypeOK
  <2> QED BY <1>1, <1>2, <1>3, <2>1 DEF CreateRecoveryFile, RecoveryWriteFails
<1> QED BY <1>1, <1>3, RootChanges

\* What the recovery root holds, and what was revealed for it.
THEOREM RootCorrect == RecoverySpec => []RootInv
<1>1. StageInv /\ RootInv /\ [RecoveryNext]_recovery => RootInv'
  BY StepReached, StepRevealed, StepOwned, StepFinal DEF RootInv
<1> QED BY <1>1, InitRoot, StageCorrect, PTL DEF RecoverySpec

\* Beside a recorded role failure is exactly the evidence that was complete when
\* the role was called, for any plans.
THEOREM FailureCorrect == RecoverySpec => []FailureIsFinal
<1>1. RootInv => FailureIsFinal
  BY DEF RootInv
<1> QED BY <1>1, RootCorrect, PTL

(***************************************************************************)
(* The source run and its recovery implement the abstract evaluation.      *)
(***************************************************************************)
\* A file of an earlier phase precedes a file of a later one.
LEMMA PhasesInOrder ==
  ASSUME NEW a \in RecoveryFileNames, NEW b \in RecoveryFileNames, a[1] < b[1]
  PROVE  Precedes(a, b)
BY NameShape DEF Precedes, Setup, Observer, Evaluator, Report, Failure

\* Creating a setup file or a failure is a stutter, and creating any other is
\* the abstract step that commits the evidence it holds.
LEMMA CreateImplements ==
  ASSUME StageInv, RootInv, creating \in RecoveryFileNames, UNCHANGED <<decided, revealed>>,
         recovered' = recovered \cup {[name |-> creating, body |-> Evidence(creating)]}
  PROVE  RBE!AbstractNext \/ UNCHANGED RBE!abstractVars
<1>1. /\ creating # NoFile
      /\ creating[1] # Failure => UpTo(creating)
      /\ \A n \in RecoveryFileNames : Recovered(n)' <=> Recovered(n) \/ n = creating
      /\ ~Precedes(creating, creating)
  <2>1. creating # NoFile
    BY NoFileIsNoName
  <2>2. creating[1] # Failure => UpTo(creating)
    BY <2>1 DEF RootInv, RootReached
  <2>3. ~Precedes(creating, creating)
    BY NameShape DEF Precedes, Setup, Observer, Evaluator, Report, Failure
  <2> QED BY <2>1, <2>2, <2>3, CreateAddsName
<1>2. /\ creating[1] = Evaluator => creating = <<Evaluator, creating[2], 0>> /\ creating[2] \in Plans
      /\ creating[1] = Observer => creating = <<Observer, creating[2], creating[3]>>
                                     /\ creating[2] \in Plans /\ creating[3] \in {1, 2}
      /\ creating[1] = Report => creating = <<Report, creating[2], 0>> /\ creating[2] \in 1 .. 4
      /\ creating[1] \in {Setup, Observer, Evaluator, Report, Failure}
  BY NameShape DEF Setup, Observer, Evaluator, Report, Failure
<1>3. /\ \A k \in Plans, j \in {1, 2} : Recovered(<<Observer, k, j>>)' <=>
           Recovered(<<Observer, k, j>>) \/ <<Observer, k, j>> = creating
      /\ \A k \in Plans : Recovered(<<Evaluator, k, 0>>)' <=>
           Recovered(<<Evaluator, k, 0>>) \/ <<Evaluator, k, 0>> = creating
      /\ \A r \in 1 .. 4 : Recovered(<<Report, r, 0>>)' <=>
           Recovered(<<Report, r, 0>>) \/ <<Report, r, 0>> = creating
  BY <1>1, NamesBuilt
<1> DEFINE Observed == {o \in Plans \X {1, 2} : Recovered(<<Observer, o[1], o[2]>>)}
           Scored == {k \in Plans : Recovered(<<Evaluator, k, 0>>)}
           Published == {r \in 1 .. 4 : Recovered(<<Report, r, 0>>)}
<1>4. /\ creating[1] # Observer => Observed' = Observed
      /\ creating[1] # Evaluator => Scored' = Scored
      /\ creating[1] # Report => Published' = Published
  <2>1. ASSUME creating[1] # Observer PROVE Observed' = Observed
    <3>1. \A o \in Plans \X {1, 2} : <<Observer, o[1], o[2]>> # creating
      BY <2>1
    <3> QED BY <1>3, <3>1
  <2>2. ASSUME creating[1] # Evaluator PROVE Scored' = Scored
    BY <1>3, <2>2
  <2>3. ASSUME creating[1] # Report PROVE Published' = Published
    BY <1>3, <2>3
  <2> QED BY <2>1, <2>2, <2>3
<1>5. CASE creating[1] \in {Setup, Failure}
  BY <1>4, <1>5 DEF RBE!abstractVars, Setup, Observer, Evaluator, Report, Failure
<1>6. CASE creating[1] = Observer
  <2>0. UpTo(creating)
    BY <1>1, <1>6 DEF Observer, Failure
  <2>1. /\ Observed' = Observed \cup {<<creating[2], creating[3]>>}
        /\ <<creating[2], creating[3]>> \notin Observed
        /\ creating[2] \in Plans /\ creating[3] \in {1, 2}
    <3>1. creating = <<Observer, creating[2], creating[3]>>
          /\ creating[2] \in Plans /\ creating[3] \in {1, 2}
      BY <1>2, <1>6
    <3>2. ASSUME NEW o \in Plans \X {1, 2}
          PROVE  Recovered(<<Observer, o[1], o[2]>>)' <=>
                   Recovered(<<Observer, o[1], o[2]>>) \/ o = <<creating[2], creating[3]>>
      <4>1. o[1] \in Plans /\ o[2] \in {1, 2} /\ o = <<o[1], o[2]>>
        OBVIOUS
      <4>2. <<Observer, o[1], o[2]>> = creating <=> o = <<creating[2], creating[3]>>
        BY <3>1, <4>1
      <4> QED BY <1>3, <4>1, <4>2
    <3>3. ~Recovered(creating)
      BY <1>1, <2>0 DEF UpTo
    <3> QED BY <3>1, <3>2, <3>3
  <2>2. revealed = TRUE
    BY <1>6, <1>1
       DEF StageInv, RecoveryTypeOK, FileMatchesStage, LoopCreates, RootInv, RevealedByStage,
           Observing, Setup, Observer, Evaluator, Report, Failure
  <2>3. Scored = {}
    <3>1. ASSUME NEW k \in Plans PROVE ~Recovered(<<Evaluator, k, 0>>)
      <4>1. <<Evaluator, k, 0>> \in RecoveryFileNames
        BY NamesBuilt
      <4>2. ~Precedes(<<Evaluator, k, 0>>, creating)
        BY <1>6 DEF Precedes, Observer, Evaluator
      <4> QED BY <2>0, <4>1, <4>2 DEF UpTo
    <3> QED BY <3>1
  <2>4. RBE!Observe(creating[2], creating[3])
    BY <1>4, <1>6, <2>1, <2>2, <2>3 DEF RBE!Observe, Observer, Evaluator, Report
  <2> QED BY <2>1, <2>4 DEF RBE!AbstractNext
<1>7. CASE creating[1] = Evaluator
  <2>0. UpTo(creating)
    BY <1>1, <1>7 DEF Evaluator, Failure
  <2>1. Scored' = Scored \cup {creating[2]} /\ creating[2] \notin Scored /\ creating[2] \in Plans
    BY <1>1, <1>2, <1>3, <1>7, <2>0 DEF UpTo
  <2>2. ASSUME NEW k \in Plans, NEW j \in {1, 2} PROVE Recovered(<<Observer, k, j>>)
    <3>1. <<Observer, k, j>> \in RecoveryFileNames
      BY NamesBuilt
    <3>2. Precedes(<<Observer, k, j>>, creating)
      BY <1>7 DEF Precedes, Observer, Evaluator
    <3> QED BY <2>0, <3>1, <3>2 DEF UpTo
  <2>3. Plans \X {1, 2} \subseteq Observed
    BY <2>2
  <2>4. RBE!Score(creating[2])
    BY <1>4, <1>7, <2>1, <2>3 DEF RBE!Score, Observer, Evaluator, Report
  <2> QED BY <2>1, <2>4 DEF RBE!AbstractNext
<1>8. CASE creating[1] = Report
  <2>0. UpTo(creating)
    BY <1>1, <1>8 DEF Report, Failure
  <2>1. /\ Published' = Published \cup {creating[2]} /\ creating[2] \notin Published
        /\ creating[2] \in 1 .. 4
    BY <1>1, <1>2, <1>3, <1>8, <2>0 DEF UpTo
  <2>2. Scored = Plans
    <3>1. ASSUME NEW k \in Plans PROVE Recovered(<<Evaluator, k, 0>>)
      <4>1. <<Evaluator, k, 0>> \in RecoveryFileNames
        BY NamesBuilt
      <4>2. Precedes(<<Evaluator, k, 0>>, creating)
        BY <1>8 DEF Precedes, Report, Evaluator
      <4> QED BY <2>0, <4>1, <4>2 DEF UpTo
    <3> QED BY <3>1
  <2>3. RBE!Publish(creating[2])
    BY <1>4, <1>8, <2>1, <2>2 DEF RBE!Publish, Observer, Evaluator, Report
  <2> QED BY <2>1, <2>3 DEF RBE!AbstractNext
<1> QED BY <1>2, <1>5, <1>6, <1>7, <1>8

LEMMA Stutters ==
  ASSUME UNCHANGED <<decided, revealed, recovered>>
  PROVE  UNCHANGED RBE!abstractVars
BY DEF RBE!abstractVars, Recovered

\* Besides the writer, only the source's own run and the launch of the first
\* provider take an abstract step.
LEMMA OtherwiseStutters ==
  [RecoveryNext]_recovery =>
    \/ UNCHANGED <<decided, revealed>>
    \/ UNCHANGED <<revealed, recovered>> /\ \E k \in Plans : Record(k)
    \/ LaunchRecoveryProvider
<1> SUFFICES ASSUME [RecoveryNext]_recovery
             PROVE  \/ UNCHANGED <<decided, revealed>>
                    \/ UNCHANGED <<revealed, recovered>> /\ \E k \in Plans : Record(k)
                    \/ LaunchRecoveryProvider
  OBVIOUS
<1>1. CASE SourceNext /\ UNCHANGED <<candidates, rewritten, tampers, manifest, progress,
                                     gathered, output>>
  BY <1>1 DEF SourceNext, Continue, Clutter, progress, output
<1>2. CASE RecoverySteps
  BY <1>2
  DEF RecoverySteps, source, rootVars, ReadDecisions, Inspect,
      RecoveryScenarioReturns, RecoveryCaptureReturns, RecoveryFinalizePair, CountPairs,
      RecoveryEvaluateReturns, PublishRecovery, CloseSource, CloseCandidates, ReturnRecovery,
      RecordRoleFailure, Rethrow, RecoveryRoleFails, CreateRecoveryFile, RecoveryWriteFails
<1>3. CASE \/ \E s \in Slots : EditCandidate(s)
           \/ FreezeManifest
           \/ \E k \in Plans : RewriteRecord(k)
           \/ BeginRecovery \/ RecoveryRoleHangs \/ RecoveryCrash \/ UNCHANGED recovery
  BY <1>3 DEF EditCandidate, FreezeManifest, RewriteRecord, BeginRecovery, RecoveryRoleHangs,
              RecoveryCrash, recovery, source, rootVars, progress
<1> QED BY <1>1, <1>2, <1>3 DEF RecoveryNext

\* The decisions of an official run and the recovery after them, or beside it,
\* behave as one blind evaluation.
THEOREM RecoveryImplements == RecoverySpec => RecoveryImplementsBlindEvaluation
<1>1. RecoveryInit => RBE!AbstractInit
  BY DEF RecoveryInit, SourceInit, RBE!AbstractInit, Recovered
<1>2. StageInv /\ RootInv /\ [RecoveryNext]_recovery => [RBE!AbstractNext]_(RBE!abstractVars)
  <2> SUFFICES ASSUME StageInv, RootInv, [RecoveryNext]_recovery
               PROVE  RBE!AbstractNext \/ UNCHANGED RBE!abstractVars
    OBVIOUS
  <2>1. CASE UNCHANGED <<decided, revealed>> /\ UNCHANGED recovered
    BY <2>1, Stutters
  <2>2. CASE UNCHANGED <<decided, revealed>> /\ ~UNCHANGED recovered
    <3>1. /\ creating \in RecoveryFileNames
          /\ recovered' = recovered \cup {[name |-> creating, body |-> Evidence(creating)]}
      BY <2>2, RootChanges
         DEF CreateRecoveryFile, RecoveryWriteFails, StageInv, RecoveryTypeOK
    <3> QED BY <2>2, <3>1, CreateImplements
  <2>3. ASSUME NEW k \in Plans, Record(k), UNCHANGED <<revealed, recovered>>
        PROVE  RBE!AbstractNext
    <3>1. ~revealed
      BY <2>3 DEF Record, RootInv, RevealedByStage
    <3>2. RBE!Decide(k)
      BY <2>3, <3>1 DEF RBE!Decide, Record, Recovered
    <3> QED BY <3>2 DEF RBE!AbstractNext
  <2>4. CASE LaunchRecoveryProvider
    <3>1. decided = Plans
      BY <2>4 DEF LaunchRecoveryProvider, AtStage, RootInv, RevealedByStage, Releasing
    <3>2. RBE!Unblind
      BY <2>4, <3>1
         DEF RBE!Unblind, LaunchRecoveryProvider, Recovered, source, rootVars, output
    <3> QED BY <3>2 DEF RBE!AbstractNext
  <2> QED BY <2>1, <2>2, <2>3, <2>4, OtherwiseStutters
<1> QED BY <1>1, <1>2, StageCorrect, RootCorrect, PTL
           DEF RecoverySpec, RecoveryImplementsBlindEvaluation, RBE!AbstractSpec
-----------------------------------------------------------------------------
(***************************************************************************)
(* What a completed recovery stands on: the decisions its manifest froze,  *)
(* and the planned bytes of every candidate.  Both follow the evidence     *)
(* from where it is read, through the memory of the recovery, to the files *)
(* of its root, and both count the changes that people make.               *)
(***************************************************************************)

Evidences == {Observer, Evaluator}

(***************************************************************************)
(* The frozen decisions.                                                   *)
(***************************************************************************)
\* One rewrite shows: it takes a second one to restore the bytes of a record.
RewritesShow ==
  /\ tampers = 0 => rewritten = {} /\ manifest.records = {}
  /\ tampers = 1 => rewritten # {}

\* A recovery runs against a frozen manifest.
ManifestIsFrozen == stage \in Recovering \cup {"completed"} => manifest.frozen

\* What was read is what was frozen if the source still is, and after the
\* closing comparison without that proviso.
LoadedAsFrozen ==
  tampers <= 1 /\ \/ stage \in Recovering \ {"read"} /\ rewritten = manifest.records
                  \/ stage \in {"closeCandidates", "return", "completed"}
    => loaded = manifest.records

FilesAsLoaded ==
  stage \in (Recovering \ Loading) \cup {"completed"} =>
    \A f \in recovered :
      f.name[1] \in Evidences => f.body.altered = (f.name[2] \in loaded)

FrozenInv == RewritesShow /\ ManifestIsFrozen /\ LoadedAsFrozen /\ FilesAsLoaded

(***************************************************************************)
(* The planned bytes.                                                      *)
(***************************************************************************)
Clean == {Planned, Noise}

EditsShow ==
  \A s \in Slots : /\ edits[s] = 0 => candidate[s] = Planned
                   /\ edits[s] = 1 => candidate[s] # Planned

ViewsClean ==
  stage \in Observing /\ edits[SlotOf(place)] = 0 =>
    \A j \in 1 .. Len(views) : views[j] # Missing => views[j].transcript \in Clean

TranscriptsClean(s) ==
  \A k \in Plans : k <= Len(s) /\ edits[SlotOf(k)] = 0 => s[k] \in Clean

FilesClean(edited) ==
  \A f \in recovered :
    f.name[1] \in Evidences /\ edits[SlotOf(f.name[2])] <= edited
      => f.body.transcript \in Clean

\* At its closing hash the recovery sees every first edit.
ClosedClean == stage \in {"return", "completed"} => FilesClean(1)

BytesInv ==
  /\ EditsShow
  /\ ViewsClean
  /\ TranscriptsClean(observed) /\ TranscriptsClean(scored)
  /\ FilesClean(0)
  /\ ClosedClean

(***************************************************************************)
(* Who changes what.                                                       *)
(***************************************************************************)
\* Each part of the evidence is changed by few steps.
LEMMA EvidenceChanges ==
  [RecoveryNext]_recovery =>
    /\ UNCHANGED candidates \/ \E s \in Slots : EditCandidate(s)
    /\ \/ UNCHANGED <<rewritten, tampers, manifest>>
       \/ FreezeManifest
       \/ \E k \in Plans : RewriteRecord(k)
    /\ UNCHANGED loaded \/ BeginRecovery \/ ReadDecisions
    /\ UNCHANGED views \/ BeginRecovery \/ RecoveryCaptureReturns \/ RecoveryFinalizePair
    /\ UNCHANGED observed \/ BeginRecovery \/ RecoveryFinalizePair
    /\ UNCHANGED scored \/ BeginRecovery \/ RecoveryEvaluateReturns
<1> SUFFICES ASSUME [RecoveryNext]_recovery
             PROVE  /\ UNCHANGED candidates \/ \E s \in Slots : EditCandidate(s)
                    /\ \/ UNCHANGED <<rewritten, tampers, manifest>>
                       \/ FreezeManifest
                       \/ \E k \in Plans : RewriteRecord(k)
                    /\ UNCHANGED loaded \/ BeginRecovery \/ ReadDecisions
                    /\ \/ UNCHANGED views \/ BeginRecovery
                       \/ RecoveryCaptureReturns \/ RecoveryFinalizePair
                    /\ UNCHANGED observed \/ BeginRecovery \/ RecoveryFinalizePair
                    /\ UNCHANGED scored \/ BeginRecovery \/ RecoveryEvaluateReturns
  OBVIOUS
<1>1. CASE RecoverySteps \/ RecoveryRoleHangs \/ RecoveryCrash
  BY <1>1
  DEF RecoverySteps, source, gathered, ReadDecisions, Inspect, LaunchRecoveryProvider,
      RecoveryScenarioReturns, RecoveryCaptureReturns, RecoveryFinalizePair, CountPairs,
      RecoveryEvaluateReturns, PublishRecovery, CloseSource, CloseCandidates, ReturnRecovery,
      RecordRoleFailure, Rethrow, RecoveryRoleFails, RecoveryRoleHangs, RecoveryCrash,
      CreateRecoveryFile, RecoveryWriteFails
<1>2. CASE ~(RecoverySteps \/ RecoveryRoleHangs \/ RecoveryCrash)
  BY <1>2 DEF RecoveryNext, recovery, source, gathered, EditCandidate, FreezeManifest,
              RewriteRecord, BeginRecovery
<1> QED BY <1>1, <1>2

\* The steps that pass from one part of a recovery to the next.
LEMMA Passages ==
  StageInv /\ [RecoveryNext]_recovery =>
    /\ stage' \in Recovering \cup {"completed"} =>
         stage \in Recovering \cup {"completed"} \/ BeginRecovery
    /\ stage' \in Recovering \ {"read"} => stage \in Recovering \ {"read"} \/ ReadDecisions
    /\ stage' \in (Recovering \ Loading) \cup {"completed"} =>
         stage \in (Recovering \ Loading) \cup {"completed"} \/ Inspect
    /\ stage' \in {"closeCandidates", "return", "completed"} =>
         stage \in {"closeCandidates", "return", "completed"} \/ CloseSource
    /\ stage' \in {"return", "completed"} =>
         stage \in {"return", "completed"} \/ CloseCandidates
    /\ stage' \in Observing =>
         \/ UNCHANGED <<stage, place>>
         \/ RecoveryScenarioReturns \/ RecoveryCaptureReturns \/ RecoveryFinalizePair
<1> DEFINE Goal ==
      /\ stage' \in Recovering \cup {"completed"} =>
           stage \in Recovering \cup {"completed"} \/ BeginRecovery
      /\ stage' \in Recovering \ {"read"} => stage \in Recovering \ {"read"} \/ ReadDecisions
      /\ stage' \in (Recovering \ Loading) \cup {"completed"} =>
           stage \in (Recovering \ Loading) \cup {"completed"} \/ Inspect
      /\ stage' \in {"closeCandidates", "return", "completed"} =>
           stage \in {"closeCandidates", "return", "completed"} \/ CloseSource
      /\ stage' \in {"return", "completed"} =>
           stage \in {"return", "completed"} \/ CloseCandidates
      /\ stage' \in Observing =>
           \/ UNCHANGED <<stage, place>>
           \/ RecoveryScenarioReturns \/ RecoveryCaptureReturns \/ RecoveryFinalizePair
<1> SUFFICES ASSUME StageInv, [RecoveryNext]_recovery PROVE Goal
  OBVIOUS
<1> USE DEF Loading, Observing, AtStage, RecoveryThrow, Recovering, RecoveryEnded,
            RecoveryAwaitsRole, NextPlace
<1>1. CASE BeginRecovery
  BY <1>1 DEF BeginRecovery
<1>2. CASE ReadDecisions \/ Inspect \/ LaunchRecoveryProvider \/ RecoveryScenarioReturns
  BY <1>2 DEF ReadDecisions, Inspect, LaunchRecoveryProvider, RecoveryScenarioReturns
<1>3. CASE RecoveryCaptureReturns \/ RecoveryFinalizePair
  BY <1>3 DEF RecoveryCaptureReturns, RecoveryFinalizePair
<1>4. CASE CountPairs \/ RecoveryEvaluateReturns \/ PublishRecovery
  BY <1>4 DEF CountPairs, RecoveryEvaluateReturns, PublishRecovery
<1>5. CASE \/ CloseSource \/ CloseCandidates \/ ReturnRecovery \/ RecordRoleFailure
           \/ Rethrow \/ RecoveryRoleFails
  BY <1>5 DEF CloseSource, CloseCandidates, ReturnRecovery, RecordRoleFailure, Rethrow,
              RecoveryRoleFails
<1>6. CASE CreateRecoveryFile \/ RecoveryWriteFails \/ RecoveryRoleHangs \/ RecoveryCrash
  BY <1>6 DEF CreateRecoveryFile, RecoveryWriteFails, RecoveryRoleHangs, RecoveryCrash
<1>7. CASE UNCHANGED <<stage, place>>
  BY <1>7
<1> QED BY <1>1, <1>2, <1>3, <1>4, <1>5, <1>6, <1>7
        DEF RecoveryNext, RecoverySteps, EditCandidate, FreezeManifest, RewriteRecord, recovery,
            progress

\* A file is created outside the loading and outside the closing checks, and a
\* recovery whose write failed has ended.
LEMMA FilesAppear ==
  StageInv /\ [RecoveryNext]_recovery =>
    \/ UNCHANGED recovered
    \/ /\ creating \in RecoveryFileNames
       /\ recovered' = recovered \cup {[name |-> creating, body |-> Evidence(creating)]}
       /\ stage' \notin Loading \cup {"return", "completed"}
       /\ UNCHANGED <<candidates, loaded, observed, scored>>
       /\ stage' = "threw" \/ UNCHANGED stage
<1> SUFFICES ASSUME StageInv, CreateRecoveryFile \/ RecoveryWriteFails, ~UNCHANGED recovered
             PROVE  /\ creating \in RecoveryFileNames
                    /\ recovered' = recovered \cup {[name |-> creating, body |-> Evidence(creating)]}
                    /\ stage' \notin Loading \cup {"return", "completed"}
                    /\ UNCHANGED <<candidates, loaded, observed, scored>>
                    /\ stage' = "threw" \/ UNCHANGED stage
  BY RootChanges
<1>1. creating \in RecoveryFileNames
  BY DEF CreateRecoveryFile, RecoveryWriteFails, StageInv, RecoveryTypeOK
<1>2. stage \notin Loading \cup {"return", "completed"}
  BY DEF CreateRecoveryFile, RecoveryWriteFails, StageInv, FileMatchesStage, LoopCreates, Loading
<1> QED BY <1>1, <1>2
        DEF CreateRecoveryFile, RecoveryWriteFails, RecoveryThrow, Loading, gathered

(***************************************************************************)
(* A completed recovery stands on the frozen decisions.                    *)
(***************************************************************************)
LEMMA InitFrozen == RecoveryInit => FrozenInv
BY DEF RecoveryInit, FrozenInv, RewritesShow, ManifestIsFrozen, LoadedAsFrozen, FilesAsLoaded,
       NoManifest, Recovering, RecoveryAwaitsRole, Loading

\* A manifest is frozen once, before the recovery that reads it.
LEMMA FreezeIsEarly ==
  ASSUME FrozenInv, FreezeManifest
  PROVE  /\ stage \notin Recovering \cup {"completed"} /\ UNCHANGED stage
         /\ ~manifest.frozen
BY DEF FrozenInv, ManifestIsFrozen, FreezeManifest, NoManifest, progress

LEMMA StepRewrites ==
  StageInv /\ FrozenInv /\ [RecoveryNext]_recovery => RewritesShow'
<1> SUFFICES ASSUME StageInv, FrozenInv, [RecoveryNext]_recovery PROVE RewritesShow'
  OBVIOUS
<1>0. RewritesShow /\ tampers \in Nat
  BY RecoveryBoundsAssumption DEF FrozenInv, StageInv, RecoveryTypeOK
<1>1. CASE UNCHANGED <<rewritten, tampers, manifest>>
  BY <1>0, <1>1 DEF RewritesShow
<1>2. CASE FreezeManifest
  BY <1>0, <1>2 DEF RewritesShow, FreezeManifest, FrozenManifest, TornManifest
<1>3. ASSUME NEW k \in Plans, RewriteRecord(k) PROVE RewritesShow'
  <2>1. tampers' = tampers + 1 /\ tampers' # 0
    BY <1>0, <1>3 DEF RewriteRecord
  <2>2. tampers' = 1 => rewritten' = {k}
    BY <1>0, <1>3, <2>1 DEF RewritesShow, RewriteRecord
  <2> QED BY <2>1, <2>2 DEF RewritesShow
<1> QED BY <1>1, <1>2, <1>3, EvidenceChanges

LEMMA StepManifest ==
  StageInv /\ FrozenInv /\ [RecoveryNext]_recovery => ManifestIsFrozen'
<1> SUFFICES ASSUME StageInv, FrozenInv, [RecoveryNext]_recovery,
                    stage' \in Recovering \cup {"completed"}
             PROVE  manifest'.frozen
  BY DEF ManifestIsFrozen
<1>1. CASE BeginRecovery
  <2>1. manifest = FrozenManifest(rewritten) /\ manifest' = manifest
    BY <1>1 DEF BeginRecovery, SourceMatches, Recovering, RecoveryAwaitsRole, source
  <2> QED BY <2>1 DEF FrozenManifest
<1>2. CASE stage \in Recovering \cup {"completed"}
  <2>1. manifest.frozen
    BY <1>2 DEF FrozenInv, ManifestIsFrozen
  <2>2. UNCHANGED manifest
    BY <1>2, EvidenceChanges, FreezeIsEarly DEF RewriteRecord
  <2> QED BY <2>1, <2>2
<1> QED BY <1>1, <1>2, Passages

LEMMA StepLoaded ==
  StageInv /\ FrozenInv /\ [RecoveryNext]_recovery => LoadedAsFrozen'
<1> SUFFICES ASSUME StageInv, FrozenInv, [RecoveryNext]_recovery, tampers' <= 1,
                    \/ stage' \in Recovering \ {"read"} /\ rewritten' = manifest'.records
                    \/ stage' \in {"closeCandidates", "return", "completed"}
             PROVE  loaded' = manifest'.records
  BY DEF LoadedAsFrozen
<1>0. LoadedAsFrozen /\ RewritesShow /\ ManifestIsFrozen /\ tampers \in Nat
  BY RecoveryBoundsAssumption DEF FrozenInv, StageInv, RecoveryTypeOK
<1>1. CASE ReadDecisions
  BY <1>1 DEF ReadDecisions, source, Recovering, RecoveryAwaitsRole
<1>2. CASE CloseSource
  <2>1. stage = "closeSource" /\ manifest = FrozenManifest(rewritten)
    BY <1>2 DEF CloseSource, AtStage, SourceMatches, Recovering, RecoveryAwaitsRole
  <2>2. UNCHANGED <<rewritten, tampers, manifest, loaded>>
    BY <1>2 DEF CloseSource, source, gathered
  <2>3. manifest.records = rewritten /\ tampers <= 1
    BY <2>1, <2>2 DEF FrozenManifest
  <2> QED BY <1>0, <2>1, <2>2, <2>3 DEF LoadedAsFrozen, Recovering
<1>3. CASE ~ReadDecisions /\ ~CloseSource
  <2>1. \/ stage \in Recovering \ {"read"} /\ rewritten' = manifest'.records
        \/ stage \in {"closeCandidates", "return", "completed"}
    BY <1>3, Passages
  <2>2. stage \in Recovering \cup {"completed"}
    BY <2>1 DEF Recovering
  <2>3. UNCHANGED manifest
    BY <2>2, EvidenceChanges, FreezeIsEarly DEF RewriteRecord
  <2>4. UNCHANGED loaded
    <3>1. ~BeginRecovery
      BY <2>1, <1>0 DEF BeginRecovery, Recovering, RecoveryAwaitsRole, RecoveryEnded
    <3> QED BY <1>3, <3>1, EvidenceChanges
  <2>5. CASE UNCHANGED <<rewritten, tampers>>
    BY <1>0, <2>1, <2>3, <2>4, <2>5 DEF LoadedAsFrozen
  <2>6. ASSUME NEW k \in Plans, RewriteRecord(k) PROVE loaded = manifest.records
    <3>1. tampers = 0 /\ rewritten' = {k}
      BY <1>0, <2>6 DEF RewriteRecord, RewritesShow
    <3>2. manifest.records = {}
      BY <1>0, <3>1 DEF RewritesShow
    <3>3. stage \in {"closeCandidates", "return", "completed"}
      BY <2>1, <2>3, <3>1, <3>2
    <3> QED BY <1>0, <3>1, <3>3 DEF LoadedAsFrozen
  <2> QED BY <2>2, <2>3, <2>4, <2>5, <2>6, EvidenceChanges, FreezeIsEarly
<1> QED BY <1>1, <1>2, <1>3

LEMMA StepFiles ==
  StageInv /\ RootInv /\ FrozenInv /\ [RecoveryNext]_recovery => FilesAsLoaded'
<1> SUFFICES ASSUME StageInv, RootInv, FrozenInv, [RecoveryNext]_recovery,
                    stage' \in (Recovering \ Loading) \cup {"completed"},
                    NEW f \in recovered', f.name[1] \in Evidences
             PROVE  f.body.altered = (f.name[2] \in loaded')
  BY DEF FilesAsLoaded
<1>1. CASE Inspect
  <2>1. ~recoveryRootExists /\ UNCHANGED recovered
    BY <1>1 DEF Inspect, RecoveryThrow, Recovering, RecoveryAwaitsRole
  <2> QED BY <2>1 DEF RootInv, RootOwned
<1>2. CASE stage \in (Recovering \ Loading) \cup {"completed"}
  <2>1. UNCHANGED loaded
    BY <1>2, EvidenceChanges
       DEF BeginRecovery, ReadDecisions, AtStage, Loading, Recovering, RecoveryAwaitsRole,
           RecoveryEnded
  <2>2. CASE f \in recovered
    BY <1>2, <2>1, <2>2 DEF FrozenInv, FilesAsLoaded
  <2>3. CASE f \notin recovered
    <3>1. f = [name |-> creating, body |-> Evidence(creating)]
      BY <2>3, FilesAppear
    <3>2. f.name = creating /\ f.body.altered = Evidence(creating).altered
      BY ONLY <3>1
    <3>3. Evidence(creating).altered = (creating[2] \in loaded)
      BY <3>2 DEF Evidence, Evidences
    <3> QED BY <2>1, <3>2, <3>3
  <2> QED BY <2>2, <2>3
<1> QED BY <1>1, <1>2, Passages

\* What is frozen, read and written.
LEMMA FrozenCorrect == RecoverySpec => []FrozenInv
<1>1. StageInv /\ RootInv /\ FrozenInv /\ [RecoveryNext]_recovery => FrozenInv'
  BY StepRewrites, StepManifest, StepLoaded, StepFiles DEF FrozenInv
<1> QED BY <1>1, InitFrozen, StageCorrect, RootCorrect, PTL DEF RecoverySpec

\* CompletedOnFrozenDecisions: a completed recovery stands on the decisions its
\* manifest froze, unless some record was rewritten more than once.
THEOREM FrozenDecisions == RecoverySpec => []CompletedOnFrozenDecisions
<1>1. FrozenInv => CompletedOnFrozenDecisions
  BY DEF FrozenInv, CompletedOnFrozenDecisions, ManifestIsFrozen, LoadedAsFrozen, FilesAsLoaded,
         Evidences
<1> QED BY <1>1, FrozenCorrect, PTL

(***************************************************************************)
(* A completed recovery observed the planned bytes.                        *)
(***************************************************************************)
LEMMA InitBytes == RecoveryInit => BytesInv
<1> SUFFICES ASSUME RecoveryInit PROVE BytesInv
  OBVIOUS
<1>1. EditsShow /\ FilesClean(0) /\ ViewsClean /\ ClosedClean
  BY DEF RecoveryInit, EditsShow, FilesClean, ViewsClean, ClosedClean, Observing
<1>2. \A k \in Plans : ~(k <= 0)
  BY PlanNumbers
<1>3. TranscriptsClean(observed) /\ TranscriptsClean(scored)
  BY <1>2 DEF RecoveryInit, TranscriptsClean
<1> QED BY <1>1, <1>3 DEF BytesInv

\* The number of edits of a file only grows.
LEMMA EditsGrow ==
  StageInv /\ [RecoveryNext]_recovery =>
    \A s \in Slots : edits[s] \in Nat /\ edits'[s] \in Nat /\ edits[s] <= edits'[s]
<1> SUFFICES ASSUME StageInv, [RecoveryNext]_recovery, NEW s \in Slots
             PROVE  edits[s] \in Nat /\ edits'[s] \in Nat /\ edits[s] <= edits'[s]
  OBVIOUS
<1>1. edits \in [Slots -> 0 .. MaxEdits] /\ MaxEdits \in Nat
  BY RecoveryBoundsAssumption DEF StageInv, RecoveryTypeOK
<1>2. edits[s] \in Nat
  BY <1>1
<1>3. CASE UNCHANGED candidates
  BY <1>2, <1>3 DEF candidates
<1>4. ASSUME NEW t \in Slots, EditCandidate(t)
      PROVE  edits'[s] \in Nat /\ edits[s] <= edits'[s]
  <2>1. edits' = [edits EXCEPT ![t] = @ + 1]
    BY <1>4 DEF EditCandidate
  <2> QED BY <1>1, <1>2, <2>1
<1> QED BY <1>2, <1>3, <1>4, EvidenceChanges

LEMMA StepEdits ==
  StageInv /\ BytesInv /\ [RecoveryNext]_recovery => EditsShow'
<1> SUFFICES ASSUME StageInv, BytesInv, [RecoveryNext]_recovery, NEW s \in Slots
             PROVE  /\ edits'[s] = 0 => candidate'[s] = Planned
                    /\ edits'[s] = 1 => candidate'[s] # Planned
  BY DEF EditsShow
<1>0. EditsShow
  BY DEF BytesInv
<1>1. CASE UNCHANGED candidates
  BY <1>0, <1>1 DEF EditsShow, candidates
<1>2. ASSUME NEW t \in Slots, EditCandidate(t)
      PROVE  /\ edits'[s] = 0 => candidate'[s] = Planned
             /\ edits'[s] = 1 => candidate'[s] # Planned
  <2>1. /\ edits \in [Slots -> 0 .. MaxEdits] /\ MaxEdits \in Nat
        /\ candidate \in [Slots -> Versions]
    BY RecoveryBoundsAssumption DEF StageInv, RecoveryTypeOK
  <2>2. PICK v \in Versions \ {candidate[t]} : candidate' = [candidate EXCEPT ![t] = v]
    BY <1>2 DEF EditCandidate
  <2>3. edits' = [edits EXCEPT ![t] = @ + 1]
    BY <1>2 DEF EditCandidate
  <2>4. CASE s = t
    <3>1. edits'[s] = edits[s] + 1 /\ candidate'[s] = v /\ edits[s] \in Nat
      BY <2>1, <2>2, <2>3, <2>4
    <3> QED BY <1>0, <2>2, <2>4, <3>1 DEF EditsShow
  <2>5. CASE s # t
    BY <1>0, <2>1, <2>2, <2>3, <2>5 DEF EditsShow
  <2> QED BY <2>4, <2>5
<1> QED BY <1>1, <1>2, EvidenceChanges

\* A file that was not edited is seen as planned.
LEMMA StepViews ==
  StageInv /\ BytesInv /\ [RecoveryNext]_recovery => ViewsClean'
<1> SUFFICES ASSUME StageInv, BytesInv, [RecoveryNext]_recovery,
                    stage' \in Observing, edits'[SlotOf(place')] = 0,
                    NEW j \in 1 .. Len(views'), views'[j] # Missing
             PROVE  views'[j].transcript \in Clean
  BY DEF ViewsClean
<1>0. /\ views \in Seq(Capture \cup {Missing}) /\ Len(views) \in Nat
      /\ ViewsClean /\ MemoryMatchesStage /\ place \in Plans /\ place' \in Plans
  BY StepStage DEF BytesInv, StageInv, RecoveryTypeOK
<1>1. CASE RecoveryFinalizePair
  BY <1>1 DEF RecoveryFinalizePair
<1>2. CASE RecoveryScenarioReturns
  <2>1. Len(views') = 0
    BY <1>0, <1>2 DEF RecoveryScenarioReturns, AtStage, MemoryMatchesStage, Releasing, gathered
  <2> QED BY <2>1
<1>3. CASE BeginRecovery
  BY <1>3 DEF BeginRecovery
<1>4. CASE /\ UNCHANGED <<stage, place, views>>
  <2>1. SlotOf(place) \in Slots
    BY <1>0, PlanNumbers
  <2>2. edits[SlotOf(place)] = 0
    BY <1>4, <2>1, EditsGrow
  <2> QED BY <1>0, <1>4, <2>2 DEF ViewsClean
<1>5. CASE RecoveryCaptureReturns
  <2>1. UNCHANGED <<candidates, place>> /\ stage \in Observing
    BY <1>5 DEF RecoveryCaptureReturns, AtStage, Observing
  <2>2. PICK c \in [plan : Plans, transcript : {candidate[SlotOf(place)], Noise}]
                      \cup {Missing} :
          views' = Append(views, c)
    BY <1>5 DEF RecoveryCaptureReturns
  <2>3. edits[SlotOf(place)] = 0 /\ SlotOf(place) \in Slots
    BY <1>0, <2>1, PlanNumbers DEF candidates
  <2>4. candidate[SlotOf(place)] = Planned
    BY <2>3 DEF BytesInv, EditsShow
  <2>5. c # Missing => c.transcript \in Clean
    BY <2>2, <2>4 DEF Clean
  <2>6. /\ Len(views') = Len(views) + 1
        /\ j <= Len(views) => views'[j] = views[j]
        /\ j = Len(views) + 1 => views'[j] = c
    BY <1>0, <2>2, AppendProperties
  <2>7. CASE j <= Len(views)
    <3>1. j \in 1 .. Len(views) /\ views[j] # Missing
      BY <1>0, <2>6, <2>7
    <3> QED BY <1>0, <2>1, <2>3, <2>6, <2>7, <3>1 DEF ViewsClean
  <2>8. CASE j = Len(views) + 1
    BY <2>5, <2>6, <2>8
  <2> QED BY <1>0, <2>6, <2>7, <2>8
<1> QED BY <1>1, <1>2, <1>3, <1>4, <1>5, Passages, EvidenceChanges

\* Appending a clean transcript keeps a sequence clean, and so does any edit.
LEMMA AppendClean ==
  ASSUME StageInv, [RecoveryNext]_recovery, NEW s \in Seq(Transcripts), TranscriptsClean(s),
         NEW t \in Transcripts,
         \A k \in Plans : k = Len(s) + 1 /\ edits[SlotOf(k)] = 0 => t \in Clean
  PROVE  \A k \in Plans :
           k <= Len(Append(s, t)) /\ edits'[SlotOf(k)] = 0 => Append(s, t)[k] \in Clean
<1> SUFFICES ASSUME NEW k \in Plans, k <= Len(Append(s, t)), edits'[SlotOf(k)] = 0
             PROVE  Append(s, t)[k] \in Clean
  OBVIOUS
<1>1. k \in Nat /\ k >= 1 /\ SlotOf(k) \in Slots
  BY PlanNumbers
<1>2. edits[SlotOf(k)] = 0
  BY <1>1, EditsGrow
<1>3. /\ Len(s) \in Nat /\ Len(Append(s, t)) = Len(s) + 1
      /\ k <= Len(s) => Append(s, t)[k] = s[k]
      /\ k = Len(s) + 1 => Append(s, t)[k] = t
  BY ONLY s \in Seq(Transcripts), t \in Transcripts, <1>1, AppendProperties
<1>4. CASE k <= Len(s)
  BY <1>2, <1>3, <1>4 DEF TranscriptsClean
<1>5. CASE k = Len(s) + 1
  BY <1>2, <1>3, <1>5
<1> QED BY <1>1, <1>3, <1>4, <1>5

\* Edits and idling keep a sequence clean, and an empty one is.
LEMMA KeptClean ==
  ASSUME StageInv, [RecoveryNext]_recovery, NEW s, TranscriptsClean(s) \/ Len(s) = 0
  PROVE  \A k \in Plans : k <= Len(s) /\ edits'[SlotOf(k)] = 0 => s[k] \in Clean
BY PlanNumbers, EditsGrow DEF TranscriptsClean

LEMMA StepObserved ==
  StageInv /\ BytesInv /\ [RecoveryNext]_recovery => TranscriptsClean(observed)'
<1> SUFFICES ASSUME StageInv, BytesInv, [RecoveryNext]_recovery
             PROVE  \A k \in Plans :
                      k <= Len(observed') /\ edits'[SlotOf(k)] = 0 => observed'[k] \in Clean
  BY DEF TranscriptsClean
<1>0. /\ observed \in Seq(Transcripts) /\ views \in Seq(Capture \cup {Missing})
      /\ TranscriptsClean(observed) /\ ViewsClean /\ MemoryMatchesStage /\ place \in Plans
  BY DEF BytesInv, StageInv, RecoveryTypeOK
<1>1. CASE UNCHANGED observed
  BY <1>0, <1>1, KeptClean
<1>2. CASE BeginRecovery
  <2>1. observed' = <<>> /\ Len(observed') = 0
    BY <1>2 DEF BeginRecovery
  <2> QED BY <2>1, KeptClean
<1>3. CASE RecoveryFinalizePair /\ ~UNCHANGED observed
  <2>1. /\ views[1].plan = place /\ stage = "pair"
        /\ observed' = Append(observed, views[1].transcript)
    BY <1>3 DEF RecoveryFinalizePair, AtStage
  <2>2. Len(views) = 2 /\ Len(observed) = place - 1
    BY <1>0, <2>1 DEF MemoryMatchesStage, Observing
  <2>3. views[1] \in Capture \cup {Missing}
    BY ONLY <1>0, <2>2, ElementOfSeq
  <2>4. views[1] # Missing
    BY <1>0, <2>1, PlanNumbers DEF Missing
  <2>5. views[1].transcript \in Transcripts
    BY <2>3, <2>4 DEF Capture
  <2>6. edits[SlotOf(place)] = 0 => views[1].transcript \in Clean
    BY <1>0, <2>1, <2>2, <2>4 DEF ViewsClean, Observing
  <2>7. ASSUME NEW k \in Plans, k = Len(observed) + 1, edits[SlotOf(k)] = 0
        PROVE  views[1].transcript \in Clean
    <3>1. k = place
      BY <1>0, <2>2, <2>7, PlanNumbers
    <3> QED BY <2>6, <2>7, <3>1
  <2> QED BY <1>0, <2>1, <2>5, <2>7, AppendClean
<1> QED BY <1>1, <1>2, <1>3, EvidenceChanges

LEMMA StepScored ==
  StageInv /\ BytesInv /\ [RecoveryNext]_recovery => TranscriptsClean(scored)'
<1> SUFFICES ASSUME StageInv, BytesInv, [RecoveryNext]_recovery
             PROVE  \A k \in Plans :
                      k <= Len(scored') /\ edits'[SlotOf(k)] = 0 => scored'[k] \in Clean
  BY DEF TranscriptsClean
<1>0. /\ observed \in Seq(Transcripts) /\ scored \in Seq(Transcripts)
      /\ TranscriptsClean(observed) /\ TranscriptsClean(scored)
      /\ MemoryMatchesStage /\ place \in Plans
  BY DEF BytesInv, StageInv, RecoveryTypeOK
<1>1. CASE UNCHANGED scored
  BY <1>0, <1>1, KeptClean
<1>2. CASE BeginRecovery
  <2>1. scored' = <<>> /\ Len(scored') = 0
    BY <1>2 DEF BeginRecovery
  <2> QED BY <2>1, KeptClean
<1>3. CASE RecoveryEvaluateReturns /\ ~UNCHANGED scored
  <2>1. stage = "evaluate" /\ scored' = Append(scored, observed[place])
    BY <1>3 DEF RecoveryEvaluateReturns, AtStage
  <2>2. /\ Len(observed) = Total /\ Len(scored) = place - 1
        /\ place \in Nat /\ place >= 1 /\ place <= Total
    BY <1>0, <2>1, PlanNumbers DEF MemoryMatchesStage
  <2>3. observed[place] \in Transcripts
    BY ONLY <1>0, <2>2, ElementOfSeq
  <2>4. ASSUME NEW k \in Plans, k = Len(scored) + 1, edits[SlotOf(k)] = 0
        PROVE  observed[place] \in Clean
    <3>1. k = place /\ k <= Len(observed)
      BY <2>2, <2>4
    <3> QED BY <1>0, <2>4, <3>1 DEF TranscriptsClean
  <2> QED BY <1>0, <2>1, <2>3, <2>4, AppendClean
<1> QED BY <1>1, <1>2, <1>3, EvidenceChanges

\* The evidence a file holds is that of the memory it is written from.
LEMMA EvidenceClean ==
  ASSUME StageInv, BytesInv, creating \in RecoveryFileNames, creating[1] \in Evidences,
         edits[SlotOf(creating[2])] <= 0
  PROVE  Evidence(creating).transcript \in Clean
<1>0. /\ MemoryMatchesStage /\ FileMatchesStage /\ creating # NoFile /\ creating[2] \in Plans
      /\ edits[SlotOf(creating[2])] = 0
  <2>1. creating[2] \in Plans
    BY NameShape DEF Evidences, Observer, Evaluator
  <2>2. edits[SlotOf(creating[2])] \in Nat
    BY <2>1, PlanNumbers, RecoveryBoundsAssumption DEF StageInv, RecoveryTypeOK
  <2> QED BY <2>1, <2>2, NoFileIsNoName DEF StageInv
<1>1. CASE creating[1] = Observer
  <2>1. creating[2] <= Len(observed)
    BY <1>0, <1>1, PlanNumbers
       DEF FileMatchesStage, LoopCreates, MemoryMatchesStage, Observing,
           Setup, Observer, Evaluator, Report, Failure
  <2>2. observed[creating[2]] \in Clean
    BY <1>0, <2>1 DEF BytesInv, TranscriptsClean
  <2> QED BY <1>1, <2>2 DEF Evidence
<1>2. CASE creating[1] = Evaluator
  <2>1. creating[2] <= Len(scored)
    BY <1>0, <1>2, PlanNumbers
       DEF FileMatchesStage, LoopCreates, MemoryMatchesStage,
           Setup, Observer, Evaluator, Report, Failure
  <2>2. scored[creating[2]] \in Clean
    BY <1>0, <2>1 DEF BytesInv, TranscriptsClean
  <2> QED BY <1>2, <2>2 DEF Evidence, Observer, Evaluator
<1> QED BY <1>1, <1>2 DEF Evidences

\* The files of the root, typed.
LEMMA FileSlots ==
  ASSUME StageInv, NEW f \in recovered, f.name[1] \in Evidences
  PROVE  f.name[2] \in Plans /\ SlotOf(f.name[2]) \in Slots
<1>1. f.name \in RecoveryFileNames
  BY DEF StageInv, RecoveryTypeOK
<1> QED BY <1>1, NameShape, PlanNumbers DEF Evidences, Observer, Evaluator

LEMMA StepFilesClean ==
  StageInv /\ BytesInv /\ [RecoveryNext]_recovery => FilesClean(0)'
<1> SUFFICES ASSUME StageInv, BytesInv, [RecoveryNext]_recovery, NEW f \in recovered',
                    f.name[1] \in Evidences, edits'[SlotOf(f.name[2])] <= 0
             PROVE  f.body.transcript \in Clean
  BY DEF FilesClean
<1>1. CASE f \in recovered
  <2>1. edits[SlotOf(f.name[2])] <= 0
    BY <1>1, FileSlots, EditsGrow
  <2> QED BY <1>1, <2>1 DEF BytesInv, FilesClean
<1>2. CASE f \notin recovered
  <2>1. /\ f = [name |-> creating, body |-> Evidence(creating)]
        /\ creating \in RecoveryFileNames /\ UNCHANGED edits
    BY <1>2, FilesAppear DEF candidates
  <2>2. f.name = creating /\ f.body.transcript = Evidence(creating).transcript
    BY ONLY <2>1
  <2> QED BY <2>1, <2>2, EvidenceClean
<1> QED BY <1>1, <1>2

LEMMA StepClosed ==
  StageInv /\ BytesInv /\ [RecoveryNext]_recovery => ClosedClean'
<1> SUFFICES ASSUME StageInv, BytesInv, [RecoveryNext]_recovery,
                    stage' \in {"return", "completed"}, NEW f \in recovered',
                    f.name[1] \in Evidences, edits'[SlotOf(f.name[2])] <= 1
             PROVE  f.body.transcript \in Clean
  BY DEF ClosedClean, FilesClean
<1>1. f \in recovered
  BY FilesAppear
<1>2. /\ f.name[2] \in Plans /\ SlotOf(f.name[2]) \in Slots
      /\ edits[SlotOf(f.name[2])] \in Nat /\ edits[SlotOf(f.name[2])] <= 1
  BY <1>1, FileSlots, EditsGrow
<1>3. CASE stage \in {"return", "completed"}
  BY <1>1, <1>2, <1>3 DEF BytesInv, ClosedClean, FilesClean
<1>4. CASE CloseCandidates
  <2>1. candidate[SlotOf(f.name[2])] = Planned
    BY <1>2, <1>4 DEF CloseCandidates
  <2>2. edits[SlotOf(f.name[2])] # 1
    BY <1>2, <2>1 DEF BytesInv, EditsShow
  <2>3. edits[SlotOf(f.name[2])] <= 0
    BY <1>2, <2>2
  <2> QED BY <1>1, <2>3 DEF BytesInv, FilesClean
<1> QED BY <1>3, <1>4, Passages

\* What an unedited candidate leads to.
LEMMA BytesCorrect == RecoverySpec => []BytesInv
<1>1. StageInv /\ BytesInv /\ [RecoveryNext]_recovery => BytesInv'
  BY StepEdits, StepViews, StepObserved, StepScored, StepFilesClean, StepClosed DEF BytesInv
<1> QED BY <1>1, InitBytes, StageCorrect, PTL DEF RecoverySpec

\* CompletedOnPlannedBytes: a completed recovery observed the planned bytes of
\* every candidate that was edited at most once.
THEOREM PlannedBytes == RecoverySpec => []CompletedOnPlannedBytes
<1>1. BytesInv => CompletedOnPlannedBytes
  BY DEF BytesInv, ClosedClean, FilesClean, CompletedOnPlannedBytes, Clean, Evidences
<1> QED BY <1>1, BytesCorrect, PTL
===============================================================================
