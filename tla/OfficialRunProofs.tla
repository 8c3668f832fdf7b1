--------------------------- MODULE OfficialRunProofs ---------------------------
(***************************************************************************)
(* Theorems about OfficialRun, for every number of slots, every set of     *)
(* candidate versions and every bound on edits and restarts.               *)
(*                                                                         *)
(* The argument has four layers.  ControlInv says where the coordinator    *)
(* is, how much evidence it holds in memory and which file its writer call *)
(* is creating; it makes TypeOK inductive.  FrontierInv says that the      *)
(* files on disk are exactly those that precede the place the coordinator  *)
(* has reached in the creation order, and when the root was unblinded.     *)
(* EvidenceInv: what is in memory is bound to its plan, and what is on     *)
(* disk is what memory says.  JudgedInv: which bytes the decisions were    *)
(* made on.                                                                *)
(***************************************************************************)
EXTENDS OfficialRun, SequenceTheorems, TLAPS

ArmPhase == {"hashBefore", "arm", "hashAfter"}
ReleasePhase == {"gate", "release", "scenario"}
ObservePhase == {"capture", "pair"}

(***************************************************************************)
(* Layer 1: control.                                                       *)
(***************************************************************************)
\* How many decisions, pairs and scores are in memory, phase by phase.
MemoryMatchesPhase ==
  /\ pc \in ArmPhase => Len(decisions) = pos - 1
  /\ pc = "hashAfter" => answer \in Decision /\ answer.plan = pos
  /\ pc \in Running \ ArmPhase => Len(decisions) = Total
  /\ pc \in ArmPhase \cup ReleasePhase => Len(pairs) = 0 /\ Len(captures) = 0
  /\ pc \in ObservePhase => Len(pairs) = pos - 1
  /\ pc \in {"count", "evaluate", "publish", "return"} => Len(pairs) = Total
  /\ pc \in ArmPhase \cup ReleasePhase \cup ObservePhase \cup {"count"}
       => Len(records) = 0
  /\ pc = "evaluate" => Len(records) = pos - 1
  /\ pc \in {"publish", "return"} => Len(records) = Total
  /\ pc = "capture" => Len(captures) < 2
  /\ pc = "pair" => Len(captures) = 2
  /\ \A k \in 1 .. Len(pairs) : Len(pairs[k]) = 2

\* The position of every phase that is not a loop over the plans.
PositionMatchesPhase ==
  /\ pc \in {"gate", "count"} => pos = 1
  /\ pc \in {"release", "scenario"} => pos <= NumSlots

\* While the plan loop `again` or the phase `after` it waits for the writer,
\* the file being created belongs to the plan the loop has just finished.
LoopWrites(again, after) ==
  \/ file[2] < Total /\ pc = again /\ pos = file[2] + 1
  \/ file[2] = Total /\ pc = after /\ pos = 1

FileMatchesPhase ==
  file # NoFile =>
    \/ file[1] = Setup /\ pc = "hashBefore" /\ pos = 1
    \/ file[1] = Arm /\ LoopWrites("hashBefore", "gate")
    \/ /\ file[1] = Observer /\ LoopWrites("capture", "count")
       /\ Len(captures) = 0
    \/ file[1] = Evaluator /\ LoopWrites("evaluate", "publish")
    \/ file[1] = Report /\ pc = "return"

ControlInv ==
  /\ TypeOK
  /\ MemoryMatchesPhase
  /\ PositionMatchesPhase
  /\ FileMatchesPhase

(***************************************************************************)
(* Facts about the constants and the file names.                           *)
(***************************************************************************)
LEMMA PlanNumbers ==
  /\ NumSlots \in Nat /\ NumSlots > 0
  /\ Total \in Nat /\ Total > 1
  /\ Plans = 1 .. Total
  /\ \A k \in Plans : k \in Nat /\ SlotOf(k) \in Slots
BY NumSlotsAssumption DEF Total, Plans, Slots, SlotOf

LEMMA NoFileIsNoName == NoFile \notin FileNames
BY DEF NoFile, FileNames, Setup, Arm, Observer, Evaluator, Report

\* A file name is a triple of numbers whose shape depends on its phase.
LEMMA NameShape ==
  ASSUME NEW n \in FileNames
  PROVE  /\ n = <<n[1], n[2], n[3]>>
         /\ n[1] \in 1 .. 5 /\ n[2] \in Nat /\ n[3] \in 0 .. 2
         /\ n[1] \in {Setup, Report} => n[2] \in 1 .. 4 /\ n[3] = 0
         /\ n[1] \in {Arm, Evaluator} => n[2] \in Plans /\ n[3] = 0
         /\ n[1] = Observer => n[2] \in Plans /\ n[3] \in {1, 2}
BY PlanNumbers DEF FileNames, Setup, Arm, Observer, Evaluator, Report

LEMMA NamesBuilt ==
  /\ \A j \in 1 .. 4 : <<Setup, j, 0>> \in FileNames /\ <<Report, j, 0>> \in FileNames
  /\ \A k \in Plans : /\ <<Arm, k, 0>> \in FileNames
                      /\ <<Evaluator, k, 0>> \in FileNames
                      /\ <<Observer, k, 1>> \in FileNames
                      /\ <<Observer, k, 2>> \in FileNames
BY DEF FileNames

LEMMA FirstNames == <<Setup, 1, 0>> \in FileNames /\ <<Report, 1, 0>> \in FileNames
BY NamesBuilt

LEMMA NextInCallIsName ==
  ASSUME NEW n \in FileNames
  PROVE  NextInCall(n) \in FileNames \cup {NoFile}
<1> USE NameShape, NamesBuilt DEF NextInCall
<1>1. CASE n[1] \in {Setup, Report} /\ n[2] < 4
  <2>1. n[2] + 1 \in 1 .. 4
    BY <1>1
  <2> QED BY <1>1, <2>1
<1>2. CASE n[1] = Observer /\ n[3] = 1
  <2>1. n[1] \notin {Setup, Report} /\ n[2] \in Plans
    BY <1>2 DEF Observer, Setup, Report
  <2> QED BY <1>2, <2>1
<1> QED BY <1>1, <1>2

(***************************************************************************)
(* Type correctness.                                                       *)
(***************************************************************************)
LEMMA InitControl == Init => ControlInv
<1> SUFFICES ASSUME Init PROVE ControlInv
  OBVIOUS
<1> USE PlanNumbers DEF Init
<1>1. candidate \in [Slots -> Versions] /\ edits \in [Slots -> 0 .. MaxEdits]
  BY VersionsAssumption, BoundsAssumption
<1>2. /\ decisions \in Seq(Decision) /\ captures \in Seq(Capture \cup {Missing})
      /\ pairs \in Seq(Seq(Capture)) /\ records \in Seq(Score)
  OBVIOUS
<1>3. /\ disk \subseteq [name : FileNames, body : FileBodies, run : 0 .. MaxRuns]
      /\ run \in 0 .. MaxRuns /\ pos \in Plans /\ answer \in Decision \cup {NoAnswer}
  BY BoundsAssumption
<1>4. TypeOK
  BY <1>1, <1>2, <1>3 DEF TypeOK
<1>5. MemoryMatchesPhase /\ PositionMatchesPhase /\ FileMatchesPhase
  BY DEF MemoryMatchesPhase, PositionMatchesPhase, FileMatchesPhase, ArmPhase,
         ReleasePhase, ObservePhase, Running, AwaitsRole
<1> QED BY <1>5, <1>4 DEF ControlInv

\* What a link writes is evidence from memory.
LEMMA BodyIsEvidence ==
  ASSUME ControlInv, file \in FileNames
  PROVE  Body(file) \in FileBodies
<1> USE PlanNumbers, NoFileIsNoName, NameShape
    DEF ControlInv, TypeOK, Setup, Arm, Observer, Evaluator, Report
<1>1. CASE file[1] = Arm
  <2>1. file[2] \in 1 .. Len(decisions)
    BY <1>1 DEF FileMatchesPhase, LoopWrites, MemoryMatchesPhase, Running, ArmPhase
  <2>2. decisions[file[2]] \in Decision
    BY <2>1
  <2> QED BY <1>1, <2>2 DEF Body, FileBodies
<1>2. CASE file[1] = Observer
  <2>1. file[2] \in 1 .. Len(pairs)
    BY <1>2 DEF FileMatchesPhase, LoopWrites, MemoryMatchesPhase, ObservePhase
  <2>2. pairs[file[2]] \in Seq(Capture) /\ Len(pairs[file[2]]) = 2
    BY SMTT(30), <2>1 DEF MemoryMatchesPhase
  <2>3. file[3] \in 1 .. Len(pairs[file[2]])
    BY <1>2, <2>2
  <2>4. pairs[file[2]][file[3]] \in Capture
    BY <2>2, <2>3
  <2> QED BY <1>2, <2>4 DEF Body, FileBodies
<1>3. CASE file[1] = Evaluator
  <2>1. file[2] \in 1 .. Len(records)
    BY <1>3 DEF FileMatchesPhase, LoopWrites, MemoryMatchesPhase
  <2>2. records[file[2]] \in Score
    BY <2>1
  <2> QED BY <1>3, <2>2 DEF Body, FileBodies
<1>4. CASE file[1] = Report
  BY <1>4 DEF Body, FileBodies
<1>5. CASE file[1] = Setup
  BY <1>5 DEF Body, FileBodies
<1> QED BY <1>1, <1>2, <1>3, <1>4, <1>5

LEMMA NextPlanIsPlan ==
  ASSUME pos \in Plans, NEW again, NEW after, NextPlan(again, after)
  PROVE  pos' \in Plans /\ pc' \in {again, after}
BY PlanNumbers DEF NextPlan

LEMMA AppendIsSeq ==
  ASSUME NEW S, NEW s \in Seq(S), NEW e \in S
  PROVE  /\ Append(s, e) \in Seq(S)
         /\ Len(Append(s, e)) = Len(s) + 1
BY AppendProperties

\* A pair of equal captures bound to a plan holds no missing record.
LEMMA OwnCapturesAreCaptures ==
  ASSUME captures \in Seq(Capture \cup {Missing}), Len(captures) = 2,
         NEW k \in Plans, captures[1].plan = k, captures[2] = captures[1]
  PROVE  captures \in Seq(Capture)
<1>1. captures[1] \in Capture \cup {Missing}
  BY SMTT(30)
<1>2. captures[1] # Missing
  BY PlanNumbers DEF Missing, Plans
<1>3. captures = [i \in 1 .. 2 |-> captures[i]]
  OBVIOUS
<1>4. captures \in [1 .. 2 -> Capture]
  BY <1>1, <1>2, <1>3
<1>5. Seq(Capture) = UNION {[1 .. n -> Capture] : n \in Nat}
  BY SeqDef
<1>6. [1 .. 2 -> Capture] \in {[1 .. n -> Capture] : n \in Nat}
  OBVIOUS
<1> QED BY <1>4, <1>5, <1>6

LEMMA StepType == ControlInv /\ [Next]_vars => TypeOK'
<1> SUFFICES ASSUME ControlInv, [Next]_vars PROVE TypeOK'
  OBVIOUS
<1> USE PlanNumbers
    DEF ControlInv, TypeOK, environment, storage, memory, control, vars,
        At, Throw, NextPlan, Running, AwaitsRole, Ended
<1>1. CASE Begin
  <2> USE <1>1 DEF Begin
  <2>1. run' \in 0 .. MaxRuns
    BY BoundsAssumption
  <2>2. file' \in FileNames \cup {NoFile}
    BY FirstNames
  <2>3. /\ decisions' \in Seq(Decision) /\ captures' \in Seq(Capture \cup {Missing})
        /\ pairs' \in Seq(Seq(Capture)) /\ records' \in Seq(Score)
    OBVIOUS
  <2>4. pc' \in Running \cup Ended /\ pos' \in Plans /\ answer' = NoAnswer
    OBVIOUS
  <2>5. rootExists' \in BOOLEAN /\ gateOpen' \in BOOLEAN
    OBVIOUS
  <2> QED BY <2>1, <2>2, <2>3, <2>4, <2>5
<1>2. CASE HashBefore
  BY <1>2 DEF HashBefore
<1>3. CASE ArmReturns
  <2>1. candidate[SlotOf(pos)] \in Versions
    OBVIOUS
  <2>2. answer' \in Decision
    BY <1>3, <2>1, VersionsAssumption DEF ArmReturns, Decision
  <2> QED BY <1>3, <2>2 DEF ArmReturns
<1>4. CASE HashAfter
  <2>1. answer \in Decision
    BY <1>4 DEF HashAfter, MemoryMatchesPhase
  <2>2. decisions' = decisions \/ decisions' = Append(decisions, answer)
    BY <1>4 DEF HashAfter, RecordArm
  <2>3. Append(decisions, answer) \in Seq(Decision)
    <3>1. decisions \in Seq(Decision)
      OBVIOUS
    <3> QED BY ONLY <2>1, <3>1, AppendIsSeq
  <2>4. file' \in FileNames \cup {NoFile}
    BY <1>4, NamesBuilt DEF HashAfter, RecordArm
  <2>5. pc' \in Running \cup Ended /\ pos' \in Plans
    BY SMTT(30), <1>4 DEF HashAfter, RecordArm
  <2> QED BY <1>4, <2>2, <2>3, <2>4, <2>5 DEF HashAfter
<1>5. CASE Gate
  BY <1>5 DEF Gate
<1>6. CASE LaunchProvider
  BY <1>6 DEF LaunchProvider
<1>7. CASE ScenarioReturns
  <2>1. pos' \in Plans /\ pc' \in Running \cup Ended
    BY <1>7 DEF ScenarioReturns, Total
  <2> QED BY <1>7, <2>1 DEF ScenarioReturns
<1>8. CASE CaptureReturns
  <2>1. PICK c \in [plan : Plans, transcript : {candidate[SlotOf(pos)], Noise}]
                      \cup {Missing} :
          captures' = Append(captures, c)
    BY <1>8 DEF CaptureReturns
  <2>2. candidate[SlotOf(pos)] \in Transcripts /\ Noise \in Transcripts
    BY DEF Transcripts
  <2>3. c \in Capture \cup {Missing}
    BY <2>2 DEF Capture
  <2>4. captures' \in Seq(Capture \cup {Missing})
    BY <2>1, <2>3
  <2> QED BY <1>8, <2>4 DEF CaptureReturns
<1>9. CASE FinalizePair
  <2>1. Len(captures) = 2
    BY <1>9 DEF FinalizePair, MemoryMatchesPhase
  <2>2. CASE Throw /\ UNCHANGED <<captures, pairs, file>>
    BY <1>9, <2>2 DEF FinalizePair
  <2>3. CASE captures[1].plan = pos /\ captures[2] = captures[1] /\ RecordPair
    <3>1. captures \in Seq(Capture)
      BY <2>1, <2>3, OwnCapturesAreCaptures
    <3>2. pairs' \in Seq(Seq(Capture))
      BY <2>3, <3>1, AppendIsSeq DEF RecordPair
    <3>3. captures' \in Seq(Capture \cup {Missing})
      BY <2>3 DEF RecordPair
    <3>4. file' \in FileNames
      BY <2>3, NamesBuilt DEF RecordPair
    <3>5. pos' \in Plans /\ pc' \in {"capture", "count"}
      BY <2>3, NextPlanIsPlan DEF RecordPair
    <3> QED BY <1>9, <3>2, <3>3, <3>4, <3>5 DEF FinalizePair
  <2> QED BY <1>9, <2>2, <2>3 DEF FinalizePair
<1>10. CASE CountObservations
  BY <1>10 DEF CountObservations
<1>11. CASE EvaluateReturns
  <2> USE <1>11 DEF EvaluateReturns
  <2>1. pos \in 1 .. Len(pairs) /\ Len(pairs[pos]) = 2
    BY DEF MemoryMatchesPhase
  <2>2. pairs[pos] \in Seq(Capture)
    BY <2>1
  <2>3. pairs[pos][1] \in Capture
    BY SMTT(30), <2>1, <2>2
  <2>4. [plan |-> pos, basis |-> pairs[pos][1].transcript] \in Score
    BY <2>3 DEF Capture, Score
  <2>5. records' = records
          \/ records' = Append(records, [plan |-> pos, basis |-> pairs[pos][1].transcript])
    OBVIOUS
  <2>6. records' \in Seq(Score)
    <3>1. records \in Seq(Score)
      OBVIOUS
    <3> QED BY ONLY <2>4, <2>5, <3>1, AppendIsSeq
  <2>7. file' \in FileNames \cup {NoFile}
    BY NamesBuilt
  <2>8. pc' \in Running \cup Ended /\ pos' \in Plans
    BY SMTT(30)
  <2> QED BY <2>6, <2>7, <2>8
<1>12. CASE Publish
  <2>1. file' \in FileNames
    BY <1>12, NamesBuilt DEF Publish
  <2> QED BY <1>12, <2>1 DEF Publish
<1>13. CASE Return
  BY <1>13 DEF Return
<1>14. CASE RoleFails
  BY <1>14 DEF RoleFails
<1>15. CASE RoleHangs
  BY <1>15 DEF RoleHangs
<1>16. CASE CreateTemporary
  BY <1>16 DEF CreateTemporary
<1>17. CASE LinkFile
  <2>1. [name |-> file, body |-> Body(file), run |-> run]
          \in [name : FileNames, body : FileBodies, run : 0 .. MaxRuns]
    BY <1>17, BodyIsEvidence DEF LinkFile
  <2> QED BY <1>17, <2>1 DEF LinkFile
<1>18. CASE RemoveTemporary
  <2>1. file' \in FileNames \cup {NoFile}
    BY <1>18, NextInCallIsName DEF RemoveTemporary
  <2> QED BY <1>18, <2>1 DEF RemoveTemporary
<1>19. CASE WriteFails
  BY <1>19 DEF WriteFails
<1>20. CASE Crash
  BY <1>20 DEF Crash
<1>21. CASE \E s \in Slots : EditCandidate(s)
  <2>1. PICK s \in Slots : EditCandidate(s)
    BY <1>21
  <2>2. edits[s] + 1 \in 0 .. MaxEdits
    BY <2>1, BoundsAssumption DEF EditCandidate
  <2>3. /\ candidate' \in [Slots -> Versions]
        /\ edits' \in [Slots -> 0 .. MaxEdits]
    BY <2>1, <2>2 DEF EditCandidate
  <2> QED BY <2>1, <2>3 DEF EditCandidate
<1>22. CASE UNCHANGED vars
  BY <1>22
<1> QED
  BY <1>1, <1>2, <1>3, <1>4, <1>5, <1>6, <1>7, <1>8, <1>9, <1>10, <1>11, <1>12, <1>13, <1>14, <1>15, <1>16, <1>17, <1>18, <1>19, <1>20, <1>21, <1>22
     DEF Next, Coordinator, Writer

LEMMA StepPhase ==
  ControlInv /\ [Next]_vars
    => MemoryMatchesPhase' /\ PositionMatchesPhase' /\ FileMatchesPhase'
<1> SUFFICES ASSUME ControlInv, [Next]_vars
             PROVE  MemoryMatchesPhase' /\ PositionMatchesPhase' /\ FileMatchesPhase'
  OBVIOUS
<1> USE PlanNumbers, NoFileIsNoName
    DEF ControlInv, TypeOK, MemoryMatchesPhase, PositionMatchesPhase,
        FileMatchesPhase, LoopWrites, ArmPhase, ReleasePhase, ObservePhase,
        Running, AwaitsRole, Ended, environment, storage, memory, control, vars,
        At, Throw, NextPlan
<1>1. CASE Begin
  <2>1. /\ Len(decisions') = 0 /\ Len(captures') = 0 /\ Len(pairs') = 0
        /\ Len(records') = 0
    BY <1>1 DEF Begin
  <2>2. CASE pc' = "threw" /\ UNCHANGED file
    BY <1>1, <2>1, <2>2 DEF Begin
  <2>3. CASE pc' = "hashBefore" /\ pos' = 1 /\ file' = <<Setup, 1, 0>>
    BY <2>1, <2>3
  <2> QED BY <1>1, <2>2, <2>3 DEF Begin
<1>2. CASE HashBefore
  BY <1>2 DEF HashBefore
<1>3. CASE ArmReturns
  <2>1. answer' \in Decision \cup {NoAnswer}
    BY StepType
  <2>2. pc' = "hashAfter" => answer' \in Decision /\ answer'.plan = pos'
    BY <1>3, <2>1 DEF ArmReturns, NoAnswer
  <2> QED BY <1>3, <2>2 DEF ArmReturns
<1>4. CASE HashAfter
  BY <1>4 DEF HashAfter, RecordArm
<1>5. CASE Gate
  BY <1>5 DEF Gate
<1>6. CASE LaunchProvider
  BY <1>6 DEF LaunchProvider
<1>7. CASE ScenarioReturns
  BY <1>7 DEF ScenarioReturns
<1>8. CASE CaptureReturns
  BY <1>8 DEF CaptureReturns
<1>9. CASE FinalizePair
  <2>1. CASE Throw /\ UNCHANGED <<captures, pairs, file>>
    BY <1>9, <2>1 DEF FinalizePair
  <2>2. CASE RecordPair
    <3>1. Len(captures) = 2 /\ Len(pairs) = pos - 1
      BY <1>9 DEF FinalizePair
    <3>2. /\ Len(pairs') = pos /\ Len(captures') = 0
          /\ \A k \in 1 .. Len(pairs') : Len(pairs'[k]) = 2
      <4>1. pairs' = Append(pairs, captures) /\ captures' = <<>>
        BY <2>2 DEF RecordPair
      <4>2. pos \in Nat
        BY DEF Plans
      <4>3. /\ pairs \in Seq(Seq(Capture)) /\ Len(captures) = 2
            /\ \A k \in 1 .. Len(pairs) : Len(pairs[k]) = 2
        BY <3>1
      <4>4. /\ Len(pairs') = Len(pairs) + 1 /\ pairs'[Len(pairs) + 1] = captures
            /\ \A k \in 1 .. Len(pairs) : pairs'[k] = pairs[k]
        BY ONLY <4>1, <4>3
      <4> QED BY ONLY <3>1, <4>1, <4>2, <4>3, <4>4
    <3>3. /\ file' = <<Observer, pos, 1>>
          /\ UNCHANGED <<answer, decisions, records>>
          /\ Len(decisions) = Total /\ Len(records) = 0
      BY <1>9, <2>2 DEF FinalizePair, RecordPair
    <3>4. LoopWrites("capture", "count")'
      BY <2>2, <3>3 DEF RecordPair
    <3> QED BY <3>2, <3>3, <3>4
  <2> QED BY <1>9, <2>1, <2>2 DEF FinalizePair
<1>10. CASE CountObservations
  BY <1>10 DEF CountObservations
<1>11. CASE EvaluateReturns
  <2>1. CASE Throw /\ UNCHANGED <<records, file>>
    BY <1>11, <2>1 DEF EvaluateReturns
  <2>2. CASE /\ Len(records') = Len(records) + 1
             /\ file' = <<Evaluator, pos, 0>>
             /\ NextPlan("evaluate", "publish")
    <3>1. LoopWrites("evaluate", "publish")'
      BY SMTT(30), <2>2
    <3>2. /\ UNCHANGED <<answer, decisions, captures, pairs>>
          /\ Len(decisions) = Total /\ Len(pairs) = Total
          /\ Len(records) = pos - 1 /\ pos \in 1 .. Total
      BY <1>11 DEF EvaluateReturns
    <3>3. pc' = "evaluate" => Len(records') = pos' - 1
      BY <2>2, <3>2
    <3>4. pc' = "publish" => Len(records') = Total
      BY <2>2, <3>2
    <3> QED BY <2>2, <3>1, <3>2, <3>3, <3>4
  <2> QED BY <1>11, <2>1, <2>2 DEF EvaluateReturns
<1>12. CASE Publish
  BY <1>12 DEF Publish
<1>13. CASE Return
  BY <1>13 DEF Return
<1>14. CASE RoleFails
  BY <1>14 DEF RoleFails
<1>15. CASE RoleHangs
  BY <1>15 DEF RoleHangs
<1>16. CASE CreateTemporary
  BY <1>16 DEF CreateTemporary
<1>17. CASE LinkFile
  BY <1>17 DEF LinkFile
<1>18. CASE RemoveTemporary
  <2>1. /\ file' = NextInCall(file)
        /\ UNCHANGED <<answer, decisions, pairs, captures, records, pc, pos>>
    BY <1>18 DEF RemoveTemporary
  <2>2. MemoryMatchesPhase' /\ PositionMatchesPhase'
    BY <2>1
  <2>3. FileMatchesPhase'
    BY SMTT(30), <1>18, <2>1
       DEF RemoveTemporary, NextInCall, Setup, Arm, Observer, Evaluator, Report
  <2> QED BY <2>2, <2>3
<1>19. CASE WriteFails
  BY <1>19 DEF WriteFails
<1>20. CASE Crash
  BY <1>20 DEF Crash
<1>21. CASE \E s \in Slots : EditCandidate(s)
  BY <1>21 DEF EditCandidate
<1>22. CASE UNCHANGED vars
  BY <1>22
<1> QED
  BY <1>1, <1>2, <1>3, <1>4, <1>5, <1>6, <1>7, <1>8, <1>9, <1>10, <1>11, <1>12, <1>13, <1>14, <1>15, <1>16, <1>17, <1>18, <1>19, <1>20, <1>21, <1>22
     DEF Next, Coordinator, Writer

\* The inductive invariant of the first layer, and type correctness: whatever
\* order of returns, failures, crashes, restarts and edits, the coordinator's
\* state keeps its shape (coordinator 109-272, writer 23-137).
THEOREM ControlCorrect == Spec => []ControlInv
<1>1. Init => ControlInv
  BY InitControl
<1>2. ControlInv /\ [Next]_vars => ControlInv'
  BY StepType, StepPhase DEF ControlInv
<1> QED BY <1>1, <1>2, PTL DEF Spec

THEOREM TypeCorrect == Spec => []TypeOK
<1>1. ControlInv => TypeOK
  BY DEF ControlInv
<1> QED BY <1>1, ControlCorrect, PTL

(***************************************************************************)
(* Layer 2: the disk.                                                      *)
(***************************************************************************)
\* On disk is what precedes `name`, and perhaps the file being created.
UpTo(name) ==
  \A n \in FileNames :
    /\ Precedes(n, name) => OnDisk(n)
    /\ OnDisk(n) => Precedes(n, name) \/ n = file

\* The coordinator has reached exactly as far as the disk.
FrontierReached ==
  /\ file # NoFile => UpTo(file)
  /\ file = NoFile =>
       /\ pc \in ArmPhase => UpTo(<<Arm, pos, 0>>)
       /\ pc \in ReleasePhase => UpTo(<<Observer, 1, 1>>)
       /\ pc \in ObservePhase => UpTo(<<Observer, pos, 1>>)
       /\ pc = "count" => UpTo(<<Evaluator, 1, 0>>)
       /\ pc = "evaluate" => UpTo(<<Evaluator, pos, 0>>)
       /\ pc = "publish" => UpTo(<<Report, 1, 0>>)
       /\ pc \in {"return", "completed"} => \A n \in FileNames : OnDisk(n)

\* Before the gate nothing was released; from the first scenario on it was.
BlindedByPhase ==
  /\ pc \in ArmPhase \cup {"gate"} => ~unblinded
  /\ pc \in {"scenario", "count", "evaluate", "publish", "return"} \cup ObservePhase
       => unblinded
  /\ unblinded => \A k \in Plans : OnDisk(<<Arm, k, 0>>)

\* A root without a directory is pristine; a running command owns its root.
RootOwned ==
  /\ rootExists \/ (disk = {} /\ ~unblinded)
  /\ pc \in Running \cup {"completed"} => rootExists
  /\ pc \in Running => \A f \in disk : f.run = run

FrontierInv ==
  /\ FrontierReached
  /\ BlindedByPhase
  /\ RootOwned
  /\ DiskIsPrefix
  /\ EvidenceFromOneRun

\* Name b comes directly after name a.
Follows(a, b) == \A n \in FileNames : Precedes(n, b) <=> Precedes(n, a) \/ n = a

\* The order of creation, step by step.
LEMMA CreationOrder ==
  ASSUME NEW a \in FileNames
  PROVE  /\ NextInCall(a) # NoFile => Follows(a, NextInCall(a))
         /\ NextInCall(a) = NoFile =>
              /\ a[1] = Setup => Follows(a, <<Arm, 1, 0>>)
              /\ a[1] = Arm /\ a[2] < Total => Follows(a, <<Arm, a[2] + 1, 0>>)
              /\ a[1] = Arm /\ a[2] = Total => Follows(a, <<Observer, 1, 1>>)
              /\ a[1] = Observer /\ a[2] < Total
                   => Follows(a, <<Observer, a[2] + 1, 1>>)
              /\ a[1] = Observer /\ a[2] = Total => Follows(a, <<Evaluator, 1, 0>>)
              /\ a[1] = Evaluator /\ a[2] < Total
                   => Follows(a, <<Evaluator, a[2] + 1, 0>>)
              /\ a[1] = Evaluator /\ a[2] = Total => Follows(a, <<Report, 1, 0>>)
              /\ a[1] = Report => \A n \in FileNames : Precedes(n, a) \/ n = a
<1> USE PlanNumbers, NameShape
    DEF Precedes, Setup, Arm, Observer, Evaluator, Report, NextInCall, NoFile
<1>1. ASSUME NextInCall(a) # NoFile PROVE Follows(a, NextInCall(a))
  BY <1>1 DEF Follows
<1>2. ASSUME NextInCall(a) = NoFile, a[1] = Setup PROVE Follows(a, <<Arm, 1, 0>>)
  BY <1>2 DEF Follows
<1>3. ASSUME NextInCall(a) = NoFile, a[1] = Arm
      PROVE  /\ a[2] < Total => Follows(a, <<Arm, a[2] + 1, 0>>)
             /\ a[2] = Total => Follows(a, <<Observer, 1, 1>>)
  BY <1>3 DEF Follows
<1>4. ASSUME NextInCall(a) = NoFile, a[1] = Observer
      PROVE  /\ a[2] < Total => Follows(a, <<Observer, a[2] + 1, 1>>)
             /\ a[2] = Total => Follows(a, <<Evaluator, 1, 0>>)
  BY <1>4 DEF Follows
<1>5. ASSUME NextInCall(a) = NoFile, a[1] = Evaluator
      PROVE  /\ a[2] < Total => Follows(a, <<Evaluator, a[2] + 1, 0>>)
             /\ a[2] = Total => Follows(a, <<Report, 1, 0>>)
  BY <1>5 DEF Follows
<1>6. ASSUME NextInCall(a) = NoFile, a[1] = Report, NEW n \in FileNames
      PROVE  Precedes(n, a) \/ n = a
  BY SMTT(30), <1>6
<1> QED BY <1>1, <1>2, <1>3, <1>4, <1>5, <1>6

\* Nothing precedes the first file.
LEMMA NothingFirst == \A n \in FileNames : ~Precedes(n, <<Setup, 1, 0>>)
BY NameShape DEF Precedes, Setup

\* Once the file being created is linked, the disk reaches to its successor.
LEMMA Advance ==
  ASSUME UpTo(file), OnDisk(file), NEW b, Follows(file, b)
  PROVE  \A n \in FileNames : Precedes(n, b) <=> OnDisk(n)
BY DEF UpTo, Follows

(***************************************************************************)
(* Preservation of the second layer, one lemma per part.                   *)
(***************************************************************************)
LEMMA InitFrontier == Init => FrontierInv
BY SMTT(30) DEF Init, FrontierInv, FrontierReached, BlindedByPhase, RootOwned,
       DiskIsPrefix, EvidenceFromOneRun, ArmPhase, ReleasePhase, ObservePhase,
       Running, AwaitsRole

LEMMA StepReached ==
  ControlInv /\ FrontierInv /\ [Next]_vars => FrontierReached'
<1> SUFFICES ASSUME ControlInv, FrontierInv, [Next]_vars PROVE FrontierReached'
  OBVIOUS
<1> USE NoFileIsNoName DEF FrontierReached, ArmPhase, ReleasePhase, ObservePhase
<1>0. /\ file \in FileNames \cup {NoFile} /\ FileMatchesPhase
      /\ FrontierReached /\ pc \in Running \cup Ended \cup {"ready"}
  BY DEF ControlInv, TypeOK, FrontierInv
<1>1. CASE Begin
  <2>1. CASE pc' = "threw" /\ UNCHANGED file
    BY <1>0, <1>1, <2>1 DEF Begin, FileMatchesPhase, Ended, LoopWrites
  <2>2. CASE ~rootExists /\ file' = <<Setup, 1, 0>>
    <3>1. disk' = {}
      BY <1>1, <2>2 DEF Begin, FrontierInv, RootOwned
    <3>2. UpTo(<<Setup, 1, 0>>)'
      BY <3>1, NothingFirst DEF UpTo, OnDisk
    <3> QED BY <2>2, <3>2, FirstNames
  <2> QED BY <1>1, <2>1, <2>2 DEF Begin, Throw
<1>2. CASE LinkFile
  <2>1. UpTo(file)'
    BY <1>0, <1>2 DEF LinkFile, UpTo, OnDisk, control
  <2> QED BY <1>0, <1>2, <2>1 DEF LinkFile, control
<1>3. CASE RemoveTemporary
  <2>1. /\ file \in FileNames /\ UpTo(file) /\ OnDisk(file)
        /\ disk' = disk /\ pc' = pc /\ pos' = pos /\ file' = NextInCall(file)
    BY <1>0, <1>3 DEF RemoveTemporary
  <2>2. \A n \in FileNames : OnDisk(n)' <=> OnDisk(n)
    BY <2>1 DEF OnDisk
  <2>3. CASE file' # NoFile
    <3>1. Follows(file, NextInCall(file))
      BY <2>1, <2>3, CreationOrder
    <3>2. \A n \in FileNames : Precedes(n, NextInCall(file)) <=> OnDisk(n)
      BY <2>1, <3>1, Advance
    <3>3. UpTo(file)'
      BY <2>1, <2>2, <3>2 DEF UpTo
    <3> QED BY <2>3, <3>3
  <2>4. CASE file' = NoFile
    <3> USE <2>1, <2>4, <1>0 DEF FileMatchesPhase, LoopWrites
    <3>1. CASE file[1] = Setup
      <4>1. Follows(file, <<Arm, 1, 0>>)
        BY <3>1, CreationOrder
      <4>2. UpTo(<<Arm, 1, 0>>)'
        BY <4>1, <2>2, Advance DEF UpTo
      <4> QED BY <3>1, <4>2 DEF Setup, Arm, Observer, Evaluator, Report
    <3>2. CASE file[1] = Arm /\ file[2] < Total
      <4>1. Follows(file, <<Arm, file[2] + 1, 0>>)
        BY <3>2, CreationOrder
      <4>2. pc = "hashBefore" /\ pos = file[2] + 1
        BY <3>2, PlanNumbers DEF Setup, Arm, Observer, Evaluator, Report
      <4>3. \A n \in FileNames : Precedes(n, <<Arm, pos, 0>>) <=> OnDisk(n)
        BY ONLY <2>1, <4>1, <4>2, Advance
      <4>4. UpTo(<<Arm, pos, 0>>)'
        BY <4>3, <2>2 DEF UpTo
      <4> QED BY <4>2, <4>4
    <3>3. CASE file[1] = Arm /\ file[2] = Total
      <4>1. Follows(file, <<Observer, 1, 1>>)
        BY <3>3, CreationOrder
      <4>2. UpTo(<<Observer, 1, 1>>)'
        BY <4>1, <2>2, Advance DEF UpTo
      <4> QED BY <3>3, <4>2, PlanNumbers DEF Setup, Arm, Observer, Evaluator, Report
    <3>4. CASE file[1] = Observer /\ file[2] < Total
      <4>1. Follows(file, <<Observer, file[2] + 1, 1>>)
        BY <3>4, CreationOrder
      <4>2. pc = "capture" /\ pos = file[2] + 1
        BY <3>4, PlanNumbers DEF Setup, Arm, Observer, Evaluator, Report
      <4>3. \A n \in FileNames : Precedes(n, <<Observer, pos, 1>>) <=> OnDisk(n)
        BY ONLY <2>1, <4>1, <4>2, Advance
      <4>4. UpTo(<<Observer, pos, 1>>)'
        BY <4>3, <2>2 DEF UpTo
      <4> QED BY <4>2, <4>4
    <3>5. CASE file[1] = Observer /\ file[2] = Total
      <4>1. Follows(file, <<Evaluator, 1, 0>>)
        BY <3>5, CreationOrder
      <4>2. UpTo(<<Evaluator, 1, 0>>)'
        BY <4>1, <2>2, Advance DEF UpTo
      <4> QED BY <3>5, <4>2, PlanNumbers DEF Setup, Arm, Observer, Evaluator, Report
    <3>6. CASE file[1] = Evaluator /\ file[2] < Total
      <4>1. Follows(file, <<Evaluator, file[2] + 1, 0>>)
        BY <3>6, CreationOrder
      <4>2. pc = "evaluate" /\ pos = file[2] + 1
        BY <3>6, PlanNumbers DEF Setup, Arm, Observer, Evaluator, Report
      <4>3. \A n \in FileNames : Precedes(n, <<Evaluator, pos, 0>>) <=> OnDisk(n)
        BY ONLY <2>1, <4>1, <4>2, Advance
      <4>4. UpTo(<<Evaluator, pos, 0>>)'
        BY <4>3, <2>2 DEF UpTo
      <4> QED BY <4>2, <4>4
    <3>7. CASE file[1] = Evaluator /\ file[2] = Total
      <4>1. Follows(file, <<Report, 1, 0>>)
        BY <3>7, CreationOrder
      <4>2. UpTo(<<Report, 1, 0>>)'
        BY <4>1, <2>2, Advance DEF UpTo
      <4> QED BY <3>7, <4>2, PlanNumbers DEF Setup, Arm, Observer, Evaluator, Report
    <3>8. CASE file[1] = Report
      <4>1. \A n \in FileNames : Precedes(n, file) \/ n = file
        BY <3>8, CreationOrder
      <4>2. \A n \in FileNames : OnDisk(n)'
        BY <4>1, <2>2 DEF UpTo
      <4> QED BY <3>8, <4>2 DEF Setup, Arm, Observer, Evaluator, Report
    <3> QED BY <3>1, <3>2, <3>3, <3>4, <3>5, <3>6, <3>7, <3>8
  <2> QED BY <2>3, <2>4
<1> USE DEF UpTo, OnDisk, environment, storage, memory, control, vars, At, Throw,
            NextPlan, Running, AwaitsRole
<1>4. file = NoFile => \A n \in FileNames : n # file
  OBVIOUS
<1>5. CASE HashBefore
  BY <1>0, <1>4, <1>5, PlanNumbers, NamesBuilt, FirstNames
     DEF HashBefore, ControlInv, PositionMatchesPhase
<1>6. CASE ArmReturns
  BY <1>0, <1>4, <1>6, PlanNumbers, NamesBuilt, FirstNames
     DEF ArmReturns, ControlInv, PositionMatchesPhase
<1>7. CASE HashAfter
  <2>1. CASE pc' = "threw" /\ UNCHANGED file
    BY <1>0, <1>7, <2>1 DEF HashAfter
  <2>2. CASE file' = <<Arm, pos, 0>>
    <3>1. file' \in FileNames
      BY <2>2, NamesBuilt DEF ControlInv, TypeOK
    <3> QED BY <1>0, <1>4, <1>7, <2>2, <3>1 DEF HashAfter
  <2> QED BY <1>7, <2>1, <2>2 DEF HashAfter, RecordArm
<1>8. CASE Gate
  BY <1>0, <1>4, <1>8, PlanNumbers, NamesBuilt, FirstNames
     DEF Gate, ControlInv, PositionMatchesPhase
<1>9. CASE LaunchProvider
  BY <1>0, <1>4, <1>9, PlanNumbers, NamesBuilt, FirstNames
     DEF LaunchProvider, ControlInv, PositionMatchesPhase
<1>10. CASE ScenarioReturns
  BY <1>0, <1>4, <1>10, PlanNumbers, NamesBuilt, FirstNames
     DEF ScenarioReturns, ControlInv, PositionMatchesPhase
<1>11. CASE CaptureReturns
  BY <1>0, <1>4, <1>11, PlanNumbers, NamesBuilt, FirstNames
     DEF CaptureReturns, ControlInv, PositionMatchesPhase
<1>12. CASE FinalizePair
  <2>1. CASE pc' = "threw" /\ UNCHANGED file
    BY <1>0, <1>12, <2>1 DEF FinalizePair
  <2>2. CASE file' = <<Observer, pos, 1>>
    <3>1. file' \in FileNames
      BY <2>2, NamesBuilt DEF ControlInv, TypeOK
    <3> QED BY <1>0, <1>4, <1>12, <2>2, <3>1 DEF FinalizePair
  <2> QED BY <1>12, <2>1, <2>2 DEF FinalizePair, RecordPair
<1>13. CASE CountObservations
  BY <1>0, <1>4, <1>13, PlanNumbers, NamesBuilt, FirstNames
     DEF CountObservations, ControlInv, PositionMatchesPhase
<1>14. CASE EvaluateReturns
  BY <1>0, <1>4, <1>14, PlanNumbers, NamesBuilt, FirstNames
     DEF EvaluateReturns, ControlInv, PositionMatchesPhase
<1>15. CASE Publish
  BY <1>0, <1>4, <1>15, PlanNumbers, NamesBuilt, FirstNames
     DEF Publish, ControlInv, PositionMatchesPhase
<1>16. CASE Return
  BY <1>0, <1>4, <1>16, PlanNumbers, NamesBuilt, FirstNames
     DEF Return, ControlInv, PositionMatchesPhase
<1>17. CASE RoleFails
  BY <1>0, <1>4, <1>17, PlanNumbers, NamesBuilt, FirstNames
     DEF RoleFails, ControlInv, PositionMatchesPhase
<1>18. CASE RoleHangs
  BY <1>0, <1>4, <1>18, PlanNumbers, NamesBuilt, FirstNames
     DEF RoleHangs, ControlInv, PositionMatchesPhase
<1>19. CASE CreateTemporary
  BY <1>0, <1>4, <1>19, PlanNumbers, NamesBuilt, FirstNames
     DEF CreateTemporary, ControlInv, PositionMatchesPhase
<1>20. CASE WriteFails
  BY <1>0, <1>4, <1>20, PlanNumbers, NamesBuilt, FirstNames
     DEF WriteFails, ControlInv, PositionMatchesPhase
<1>21. CASE Crash
  BY <1>0, <1>4, <1>21, PlanNumbers, NamesBuilt, FirstNames
     DEF Crash, ControlInv, PositionMatchesPhase
<1>22. CASE \E s \in Slots : EditCandidate(s)
  BY <1>0, <1>22 DEF EditCandidate
<1>23. CASE UNCHANGED vars
  BY <1>0, <1>23
<1> QED
  BY <1>1, <1>2, <1>3, <1>5, <1>6, <1>7, <1>8, <1>9, <1>10, <1>11, <1>12, <1>13, <1>14, <1>15, <1>16, <1>17, <1>18, <1>19, <1>20, <1>21, <1>22, <1>23
     DEF Next, Coordinator, Writer

\* Only a link changes the evidence, and only the launch of a scenario
\* provider unblinds.
LEMMA DiskChanges ==
  [Next]_vars => UNCHANGED disk \/ LinkFile
BY DEF Next, Coordinator, Writer, vars, storage, environment,
       Begin, HashBefore, ArmReturns, HashAfter, Gate, LaunchProvider, ScenarioReturns,
       CaptureReturns, FinalizePair, CountObservations, EvaluateReturns, Publish, Return, RoleFails,
       RoleHangs, CreateTemporary, LinkFile, RemoveTemporary, WriteFails, Crash, EditCandidate

LEMMA UnblindingChanges ==
  [Next]_vars => UNCHANGED unblinded \/ LaunchProvider
BY DEF Next, Coordinator, Writer, vars,
       Begin, HashBefore, ArmReturns, HashAfter, Gate, LaunchProvider, ScenarioReturns,
       CaptureReturns, FinalizePair, CountObservations, EvaluateReturns, Publish, Return, RoleFails,
       RoleHangs, CreateTemporary, LinkFile, RemoveTemporary, WriteFails, Crash, EditCandidate

LEMMA StepPrefix ==
  FrontierInv /\ ControlInv /\ [Next]_vars => DiskIsPrefix' /\ EvidenceFromOneRun'
<1> SUFFICES ASSUME FrontierInv, ControlInv, [Next]_vars
             PROVE  DiskIsPrefix' /\ EvidenceFromOneRun'
  OBVIOUS
<1>1. CASE UNCHANGED disk
  BY <1>1 DEF FrontierInv, DiskIsPrefix, EvidenceFromOneRun, OnDisk
<1>2. CASE LinkFile
  <2>1. file \in FileNames /\ UpTo(file) /\ pc \in Running
    BY <1>2 DEF LinkFile, FrontierInv, FrontierReached, ControlInv, TypeOK,
                FileMatchesPhase, LoopWrites, Running, AwaitsRole
  <2>2. DiskIsPrefix'
    BY <1>2, <2>1 DEF LinkFile, FrontierInv, DiskIsPrefix, OnDisk, UpTo
  <2>3. EvidenceFromOneRun'
    BY <1>2, <2>1 DEF LinkFile, FrontierInv, EvidenceFromOneRun, RootOwned
  <2> QED BY <2>2, <2>3
<1> QED BY <1>1, <1>2, DiskChanges

LEMMA StepRoot ==
  FrontierInv /\ ControlInv /\ [Next]_vars => RootOwned'
<1> SUFFICES ASSUME FrontierInv, ControlInv, [Next]_vars PROVE RootOwned'
  OBVIOUS
<1> USE DEF RootOwned, Running, AwaitsRole, Ended, environment, storage, memory,
            control, vars, At, Throw, NextPlan
<1>0. RootOwned /\ pc \in Running \cup Ended \cup {"ready"}
  BY DEF FrontierInv, ControlInv, TypeOK
<1>1. CASE Begin
  BY <1>0, <1>1 DEF Begin
<1>2. CASE LaunchProvider
  BY <1>0, <1>2 DEF LaunchProvider
<1>3. CASE LinkFile
  <2>1. pc \in Running
    BY <1>3 DEF LinkFile, ControlInv, FileMatchesPhase, LoopWrites
  <2> QED BY <1>0, <1>3, <2>1 DEF LinkFile
<1>4. CASE HashBefore \/ ArmReturns \/ HashAfter \/ Gate \/ ScenarioReturns
  BY <1>0, <1>4 DEF HashBefore, ArmReturns, HashAfter, RecordArm, Gate, ScenarioReturns
<1>5. CASE CaptureReturns \/ FinalizePair \/ CountObservations
  BY <1>0, <1>5 DEF CaptureReturns, FinalizePair, RecordPair, CountObservations
<1>6. CASE EvaluateReturns \/ Publish \/ Return \/ RoleFails \/ RoleHangs
  BY <1>0, <1>6 DEF EvaluateReturns, Publish, Return, RoleFails, RoleHangs
<1>7. CASE CreateTemporary \/ RemoveTemporary \/ WriteFails \/ Crash
  BY <1>0, <1>7 DEF CreateTemporary, RemoveTemporary, WriteFails, Crash
<1>8. CASE (\E s \in Slots : EditCandidate(s)) \/ UNCHANGED vars
  BY <1>0, <1>8 DEF EditCandidate
<1> QED
  BY <1>1, <1>2, <1>3, <1>4, <1>5, <1>6, <1>7, <1>8 DEF Next, Coordinator, Writer

LEMMA StepBlinded ==
  FrontierInv /\ ControlInv /\ [Next]_vars => BlindedByPhase'
<1> SUFFICES ASSUME FrontierInv, ControlInv, [Next]_vars PROVE BlindedByPhase'
  OBVIOUS
<1> USE DEF ArmPhase, ObservePhase, environment, storage, memory, control, vars,
            At, Throw, NextPlan, Ended
<1>0. BlindedByPhase /\ pc \in Running \cup Ended \cup {"ready"}
  BY DEF FrontierInv, ControlInv, TypeOK
<1>1. unblinded' => \A k \in Plans : OnDisk(<<Arm, k, 0>>)'
  <2>1. \A n \in FileNames : OnDisk(n) => OnDisk(n)'
    BY DiskChanges DEF LinkFile, OnDisk
  <2>2. CASE UNCHANGED unblinded
    BY <1>0, <2>1, <2>2, NamesBuilt DEF BlindedByPhase
  <2>3. CASE LaunchProvider /\ ~UNCHANGED unblinded
    <3>1. UpTo(<<Observer, 1, 1>>)
      BY <2>3 DEF LaunchProvider, FrontierInv, FrontierReached, ReleasePhase
    <3>2. \A k \in Plans : Precedes(<<Arm, k, 0>>, <<Observer, 1, 1>>)
      BY DEF Precedes, Arm, Observer
    <3> QED BY <2>1, <3>1, <3>2, NamesBuilt DEF UpTo
  <2> QED BY <2>2, <2>3, UnblindingChanges
<1> DEFINE Phases ==
      /\ pc \in ArmPhase \cup {"gate"} => ~unblinded
      /\ pc \in {"scenario", "count", "evaluate", "publish", "return"} \cup ObservePhase
           => unblinded
<1>2. Phases
  BY <1>0 DEF BlindedByPhase
<1>3. Phases'
  <2>1. CASE Begin
    BY <1>2, <2>1 DEF Begin, FrontierInv, RootOwned
  <2>2. CASE LaunchProvider
    BY <1>2, <2>2 DEF LaunchProvider
  <2>3. CASE HashBefore \/ ArmReturns \/ HashAfter \/ Gate \/ ScenarioReturns
    BY <1>2, <2>3 DEF HashBefore, ArmReturns, HashAfter, RecordArm, Gate, ScenarioReturns
  <2>4. CASE CaptureReturns \/ FinalizePair \/ CountObservations
    BY <1>2, <2>4 DEF CaptureReturns, FinalizePair, RecordPair, CountObservations
  <2>5. CASE EvaluateReturns \/ Publish \/ Return \/ RoleFails \/ RoleHangs
    <3>1. CASE EvaluateReturns
      BY <1>2, <3>1 DEF EvaluateReturns
    <3>2. CASE Publish \/ Return
      BY <1>2, <3>2 DEF Publish, Return
    <3>3. CASE RoleFails \/ RoleHangs
      BY <1>2, <3>3 DEF RoleFails, RoleHangs
    <3> QED BY <2>5, <3>1, <3>2, <3>3
  <2>6. CASE CreateTemporary \/ LinkFile \/ RemoveTemporary \/ WriteFails \/ Crash
    BY <1>2, <2>6 DEF CreateTemporary, LinkFile, RemoveTemporary, WriteFails, Crash
  <2>7. CASE (\E s \in Slots : EditCandidate(s)) \/ UNCHANGED vars
    BY <1>2, <2>7 DEF EditCandidate
  <2> QED
    BY <2>1, <2>2, <2>3, <2>4, <2>5, <2>6, <2>7 DEF Next, Coordinator, Writer
<1> QED BY <1>1, <1>3 DEF BlindedByPhase

\* The inductive invariant of the second layer.
THEOREM FrontierCorrect == Spec => []FrontierInv
<1>1. Init => FrontierInv
  BY InitFrontier
<1>2. ControlInv /\ FrontierInv /\ [Next]_vars => FrontierInv'
  BY StepReached, StepBlinded, StepRoot, StepPrefix DEF FrontierInv
<1> QED BY <1>1, <1>2, ControlCorrect, PTL DEF Spec

(***************************************************************************)
(* What the two layers give.                                               *)
(***************************************************************************)
\* No verifier-side process and no observation before every decision is a
\* file, for every number of slots, edits, crashes and restarts (K = 0).
THEOREM BlindingCorrect == Spec => []BlindUntilDecided
<1>1. FrontierInv /\ TypeOK => BlindUntilDecided
  <2> SUFFICES ASSUME FrontierInv, TypeOK, NEW k \in Plans,
                      unblinded \/ \E f \in disk : f.name[1] > Arm
               PROVE  OnDisk(<<Arm, k, 0>>)
    BY DEF BlindUntilDecided
  <2>1. CASE unblinded
    BY <2>1 DEF FrontierInv, BlindedByPhase
  <2>2. CASE \E f \in disk : f.name[1] > Arm
    <3>1. PICK f \in disk : f.name[1] > Arm
      BY <2>2
    <3>2. f.name \in FileNames
      BY DEF TypeOK
    <3>3. Precedes(<<Arm, k, 0>>, f.name)
      BY <3>1, <3>2, NameShape DEF Precedes, Arm
    <3> QED BY <3>3, NamesBuilt DEF FrontierInv, DiskIsPrefix
  <2> QED BY <2>1, <2>2
<1> QED BY <1>1, FrontierCorrect, TypeCorrect, PTL

\* The evidence on disk is at all times a prefix of the creation order.
THEOREM PrefixCorrect == Spec => []DiskIsPrefix
<1>1. FrontierInv => DiskIsPrefix
  BY DEF FrontierInv
<1> QED BY <1>1, FrontierCorrect, PTL

\* One root never holds evidence of two starts of the command.
THEOREM OneRunCorrect == Spec => []EvidenceFromOneRun
<1>1. FrontierInv => EvidenceFromOneRun
  BY DEF FrontierInv
<1> QED BY <1>1, FrontierCorrect, PTL

\* Success is reported only over a complete root.
THEOREM CompletionCorrect == Spec => []CompletedIsPublished
<1>1. FrontierInv /\ ControlInv => CompletedIsPublished
  BY DEF FrontierInv, FrontierReached, CompletedIsPublished, ControlInv,
         FileMatchesPhase, LoopWrites
<1> QED BY <1>1, FrontierCorrect, ControlCorrect, PTL

(***************************************************************************)
(* The run implements the abstract evaluation.                             *)
(***************************************************************************)
\* A link adds one name to the disk and changes nothing else.
LEMMA LinkAddsName ==
  ASSUME LinkFile
  PROVE  /\ \A n \in FileNames : OnDisk(n)' <=> OnDisk(n) \/ n = file
         /\ unblinded' = unblinded
<1> DEFINE new == [name |-> file, body |-> Body(file), run |-> run]
<1>1. disk' = disk \cup {new} /\ unblinded' = unblinded
  BY DEF LinkFile
<1>2. new.name = file
  OBVIOUS
<1> HIDE DEF new
<1> QED BY <1>1, <1>2 DEF OnDisk

\* A file of an earlier phase precedes a file of a later one.
LEMMA PhasesInOrder ==
  ASSUME NEW a \in FileNames, NEW b \in FileNames, a[1] < b[1]
  PROVE  Precedes(a, b) /\ ~Precedes(b, a) /\ a # b
BY NameShape DEF Precedes

\* Linking a setup file is a stutter, and linking any other is the abstract
\* step that commits the evidence it holds.
LEMMA LinkImplements ==
  ASSUME ControlInv, FrontierInv, LinkFile
  PROVE  BE!AbstractNext \/ UNCHANGED BE!abstractVars
<1>1. /\ file \in FileNames /\ ~OnDisk(file) /\ UpTo(file) /\ unblinded' = unblinded
      /\ \A n \in FileNames : OnDisk(n)' <=> OnDisk(n) \/ n = file
  BY LinkAddsName
     DEF LinkFile, ControlInv, TypeOK, FrontierInv, FrontierReached
<1>2. /\ file[1] \in {Arm, Evaluator} => file = <<file[1], file[2], 0>> /\ file[2] \in Plans
      /\ file[1] = Observer => file = <<Observer, file[2], file[3]>>
                                /\ file[2] \in Plans /\ file[3] \in {1, 2}
      /\ file[1] \in {Setup, Report} => file = <<file[1], file[2], 0>> /\ file[2] \in 1 .. 4
      /\ file[1] \in {Setup, Arm, Observer, Evaluator, Report}
  BY <1>1, NameShape DEF Setup, Arm, Observer, Evaluator, Report
<1>3. /\ \A k \in Plans : OnDisk(<<Arm, k, 0>>)' <=>
           OnDisk(<<Arm, k, 0>>) \/ <<Arm, k, 0>> = file
      /\ \A k \in Plans, i \in {1, 2} : OnDisk(<<Observer, k, i>>)' <=>
           OnDisk(<<Observer, k, i>>) \/ <<Observer, k, i>> = file
      /\ \A k \in Plans : OnDisk(<<Evaluator, k, 0>>)' <=>
           OnDisk(<<Evaluator, k, 0>>) \/ <<Evaluator, k, 0>> = file
      /\ \A r \in 1 .. 4 : OnDisk(<<Report, r, 0>>)' <=>
           OnDisk(<<Report, r, 0>>) \/ <<Report, r, 0>> = file
  BY <1>1, NamesBuilt
<1> DEFINE Decided == {k \in Plans : OnDisk(<<Arm, k, 0>>)}
           Observed == {o \in Plans \X {1, 2} : OnDisk(<<Observer, o[1], o[2]>>)}
           Scored == {k \in Plans : OnDisk(<<Evaluator, k, 0>>)}
           Published == {r \in 1 .. 4 : OnDisk(<<Report, r, 0>>)}
<1>4. /\ file[1] # Arm => Decided' = Decided
      /\ file[1] # Observer => Observed' = Observed
      /\ file[1] # Evaluator => Scored' = Scored
      /\ file[1] # Report => Published' = Published
  <2>1. ASSUME file[1] # Arm PROVE Decided' = Decided
    BY <1>3, <2>1
  <2>2. ASSUME file[1] # Observer PROVE Observed' = Observed
    <3>1. \A o \in Plans \X {1, 2} : <<Observer, o[1], o[2]>> # file
      BY <2>2
    <3> QED BY <1>3, <3>1
  <2>3. ASSUME file[1] # Evaluator PROVE Scored' = Scored
    BY <1>3, <2>3
  <2>4. ASSUME file[1] # Report PROVE Published' = Published
    BY <1>3, <2>4
  <2> QED BY <2>1, <2>2, <2>3, <2>4
<1>5. CASE file[1] = Setup
  BY <1>1, <1>4, <1>5
     DEF BE!abstractVars, Setup, Arm, Observer, Evaluator, Report
<1>6. CASE file[1] = Arm
  <2>1. Decided' = Decided \cup {file[2]} /\ file[2] \notin Decided /\ file[2] \in Plans
    BY <1>1, <1>2, <1>3, <1>6
  <2>2. ~unblinded
    BY <1>6, <1>1, NoFileIsNoName
       DEF ControlInv, FileMatchesPhase, LoopWrites, FrontierInv, BlindedByPhase,
           ArmPhase, Setup, Arm, Observer, Evaluator, Report
  <2>3. BE!Decide(file[2])
    BY <1>1, <1>4, <1>6, <2>1, <2>2 DEF BE!Decide, Arm, Observer, Evaluator, Report
  <2> QED BY <2>1, <2>3 DEF BE!AbstractNext
<1>7. CASE file[1] = Observer
  <2>1. /\ Observed' = Observed \cup {<<file[2], file[3]>>}
        /\ <<file[2], file[3]>> \notin Observed
        /\ file[2] \in Plans /\ file[3] \in {1, 2}
    <3>1. file = <<Observer, file[2], file[3]>> /\ file[2] \in Plans /\ file[3] \in {1, 2}
      BY <1>2, <1>7
    <3>2. ASSUME NEW o \in Plans \X {1, 2}
          PROVE  OnDisk(<<Observer, o[1], o[2]>>)' <=>
                   OnDisk(<<Observer, o[1], o[2]>>) \/ o = <<file[2], file[3]>>
      <4>1. o[1] \in Plans /\ o[2] \in {1, 2} /\ o = <<o[1], o[2]>>
        OBVIOUS
      <4>2. <<Observer, o[1], o[2]>> = file <=> o = <<file[2], file[3]>>
        BY <3>1, <4>1
      <4> QED BY <1>3, <4>1, <4>2
    <3> QED BY <1>1, <3>1, <3>2
  <2>2. unblinded
    BY <1>7, <1>1, NoFileIsNoName
       DEF ControlInv, FileMatchesPhase, LoopWrites, FrontierInv, BlindedByPhase,
           ObservePhase, Setup, Arm, Observer, Evaluator, Report
  <2>3. Scored = {}
    <3>1. ASSUME NEW k \in Plans PROVE ~OnDisk(<<Evaluator, k, 0>>)
      <4>1. <<Evaluator, k, 0>> \in FileNames /\ <<Evaluator, k, 0>>[1] = Evaluator
        BY NamesBuilt
      <4>2. file[1] < Evaluator
        BY <1>7 DEF Observer, Evaluator
      <4> QED BY <1>1, <4>1, <4>2, PhasesInOrder DEF UpTo
    <3> QED BY <3>1
  <2>4. BE!Observe(file[2], file[3])
    BY <1>1, <1>4, <1>7, <2>1, <2>2, <2>3
       DEF BE!Observe, Arm, Observer, Evaluator, Report
  <2> QED BY <2>1, <2>4 DEF BE!AbstractNext
<1>8. CASE file[1] = Evaluator
  <2>1. Scored' = Scored \cup {file[2]} /\ file[2] \notin Scored /\ file[2] \in Plans
    BY <1>1, <1>2, <1>3, <1>8
  <2>2. \A k \in Plans, i \in {1, 2} : OnDisk(<<Observer, k, i>>)
    <3> SUFFICES ASSUME NEW k \in Plans, NEW i \in {1, 2}
                 PROVE  OnDisk(<<Observer, k, i>>)
      OBVIOUS
    <3>1. <<Observer, k, i>> \in FileNames /\ <<Observer, k, i>>[1] = Observer
      BY NamesBuilt
    <3>2. Observer < file[1]
      BY <1>8 DEF Observer, Evaluator
    <3> QED BY <1>1, <3>1, <3>2, PhasesInOrder DEF UpTo
  <2>3. Plans \X {1, 2} \subseteq Observed
    BY <2>2
  <2>4. BE!Score(file[2])
    BY <1>1, <1>4, <1>8, <2>1, <2>3 DEF BE!Score, Arm, Observer, Evaluator, Report
  <2> QED BY <2>1, <2>4 DEF BE!AbstractNext
<1>9. CASE file[1] = Report
  <2>1. /\ Published' = Published \cup {file[2]} /\ file[2] \notin Published
        /\ file[2] \in 1 .. 4
    BY <1>1, <1>2, <1>3, <1>9
  <2>2. Scored = Plans
    <3>1. ASSUME NEW k \in Plans PROVE OnDisk(<<Evaluator, k, 0>>)
      <4>1. <<Evaluator, k, 0>> \in FileNames /\ <<Evaluator, k, 0>>[1] = Evaluator
        BY NamesBuilt
      <4>2. Evaluator < file[1]
        BY <1>9 DEF Report, Evaluator
      <4> QED BY <1>1, <4>1, <4>2, PhasesInOrder DEF UpTo
    <3> QED BY <3>1
  <2>3. BE!Publish(file[2])
    BY <1>1, <1>4, <1>9, <2>1, <2>2 DEF BE!Publish, Arm, Observer, Evaluator, Report
  <2> QED BY <2>1, <2>3 DEF BE!AbstractNext
<1> QED BY <1>2, <1>5, <1>6, <1>7, <1>8, <1>9

\* Opening the verifier side is the abstract release: every plan is decided.
LEMMA LaunchImplements ==
  ASSUME ControlInv, FrontierInv, LaunchProvider
  PROVE  BE!AbstractNext \/ UNCHANGED BE!abstractVars
<1>1. disk' = disk
  BY DEF LaunchProvider, storage
<1>2. \A n : OnDisk(n)' <=> OnDisk(n)
  BY <1>1 DEF OnDisk
<1>3. CASE UNCHANGED unblinded
  BY <1>2, <1>3 DEF BE!abstractVars
<1>4. CASE ~UNCHANGED unblinded
  <2>1. unblinded'
    BY <1>4 DEF LaunchProvider, ControlInv, TypeOK
  <2>2. \A k \in Plans : OnDisk(<<Arm, k, 0>>)
    <3>1. UpTo(<<Observer, 1, 1>>)
      BY DEF LaunchProvider, At, FrontierInv, FrontierReached, ReleasePhase
    <3>2. \A k \in Plans : Precedes(<<Arm, k, 0>>, <<Observer, 1, 1>>)
      BY DEF Precedes, Arm, Observer
    <3> QED BY <3>1, <3>2, NamesBuilt DEF UpTo
  <2>3. BE!Unblind
    BY <1>2, <2>1, <2>2, <1>4 DEF BE!Unblind, LaunchProvider, ControlInv, TypeOK
  <2> QED BY <2>3 DEF BE!AbstractNext
<1> QED BY <1>3, <1>4

\* Every behaviour of the coordinator, its writer and what surrounds them is a
\* behaviour of the abstract blind evaluation.
THEOREM RunImplementsBlindEvaluation == Spec => ImplementsBlindEvaluation
<1>1. Init => BE!AbstractInit
  BY DEF Init, BE!AbstractInit, OnDisk
<1>2. ControlInv /\ FrontierInv /\ [Next]_vars => [BE!AbstractNext]_(BE!abstractVars)
  <2> SUFFICES ASSUME ControlInv, FrontierInv, [Next]_vars
               PROVE  BE!AbstractNext \/ UNCHANGED BE!abstractVars
    OBVIOUS
  <2>1. CASE UNCHANGED <<disk, unblinded>>
    BY <2>1 DEF BE!abstractVars, OnDisk
  <2> QED BY <2>1, DiskChanges, UnblindingChanges, LinkImplements, LaunchImplements
             DEF LinkFile, LaunchProvider, storage
<1> QED BY <1>1, <1>2, ControlCorrect, FrontierCorrect, PTL
           DEF Spec, ImplementsBlindEvaluation, BE!AbstractSpec

\* Linking an arm record, or a file of a later phase, is the step of the source
\* root that the recovery assumes.
LEMMA LinkIsSourceStep ==
  ASSUME ControlInv, FrontierInv, LinkFile
  PROVE  Root!SourceNext \/ UNCHANGED Root!rootVars
<1> DEFINE Recorded == {k \in Plans : OnDisk(<<Arm, k, 0>>)}
           Cluttered == temporary # NoFile
           Continued == \E f \in disk : f.name[1] > Arm
           new == [name |-> file, body |-> Body(file), run |-> run]
<1>1. /\ file \in FileNames /\ ~OnDisk(file) /\ UpTo(file)
      /\ \A n \in FileNames : OnDisk(n)' <=> OnDisk(n) \/ n = file
      /\ Cluttered /\ Cluttered'
  BY LinkAddsName
     DEF LinkFile, ControlInv, TypeOK, FrontierInv, FrontierReached
<1>2. disk' = disk \cup {new} /\ new.name = file
  BY DEF LinkFile
<1> HIDE DEF new
<1>3. Continued' <=> Continued \/ file[1] > Arm
  BY <1>2
<1>4. \A k \in Plans : OnDisk(<<Arm, k, 0>>)' <=> OnDisk(<<Arm, k, 0>>) \/ <<Arm, k, 0>> = file
  BY <1>1, NamesBuilt
<1>5. CASE file[1] < Arm
  <2>1. Recorded' = Recorded
    BY <1>4, <1>5 DEF Arm
  <2>2. Continued' = Continued
    BY <1>1, <1>3, <1>5, NameShape DEF Arm
  <2> QED BY <1>1, <2>1, <2>2 DEF Root!rootVars
<1>6. CASE file[1] = Arm
  <2>1. file = <<Arm, file[2], 0>> /\ file[2] \in Plans
    BY <1>1, <1>6, NameShape
  <2>2. Recorded' = Recorded \cup {file[2]} /\ file[2] \notin Recorded
    BY <1>1, <1>4, <2>1
  <2>3. ~Continued
    <3> SUFFICES ASSUME NEW f \in disk, f.name[1] > Arm PROVE FALSE
      OBVIOUS
    <3>1. f.name \in FileNames
      BY DEF ControlInv, TypeOK
    <3>2. Precedes(file, f.name)
      BY <1>6 DEF Precedes
    <3> QED BY <1>1, <3>1, <3>2 DEF FrontierInv, DiskIsPrefix
  <2>4. Continued' = Continued
    BY <1>3, <1>6 DEF Arm
  <2>5. Cluttered' = Cluttered
    BY <1>1
  <2>6. Root!Record(file[2])
    BY <1>1, <2>2, <2>3, <2>4, <2>5 DEF Root!Record
  <2> QED BY <2>1, <2>6 DEF Root!SourceNext, Root!Plans, Plans
<1>7. CASE file[1] > Arm
  <2>1. \A k \in Plans : Precedes(<<Arm, k, 0>>, file)
    BY <1>7 DEF Precedes, Arm
  <2>2. Recorded = Plans /\ Recorded' = Plans
    BY <1>1, <1>4, <2>1, NamesBuilt DEF UpTo
  <2>3. Continued'
    BY <1>3, <1>7
  <2>4. Cluttered' = Cluttered /\ Continued' = TRUE
    BY <1>1, <2>3
  <2>5. Root!Continue
    BY <1>1, <2>2, <2>4 DEF Root!Continue, Root!Plans, Plans
  <2> QED BY <2>5 DEF Root!SourceNext
<1> QED BY <1>1, <1>5, <1>6, <1>7, NameShape DEF Arm

\* What the recovery assumes of its source holds of every official run.
THEOREM RunImplementsSourceRoot == Spec => ImplementsSourceRoot
<1>1. Init => Root!SourceInit
  BY DEF Init, Root!SourceInit, OnDisk
<1>2. ControlInv /\ FrontierInv /\ [Next]_vars => [Root!SourceNext]_(Root!rootVars)
  <2> SUFFICES ASSUME ControlInv, FrontierInv, [Next]_vars
               PROVE  Root!SourceNext \/ UNCHANGED Root!rootVars
    OBVIOUS
  <2>1. CASE UNCHANGED disk
    BY <2>1 DEF Root!rootVars, Root!SourceNext, Root!Clutter, OnDisk
  <2> QED BY <2>1, DiskChanges, LinkIsSourceStep
<1> QED BY <1>1, <1>2, ControlCorrect, FrontierCorrect, PTL
           DEF Spec, ImplementsSourceRoot, Root!SourceSpec

\* No step withdraws evidence, and none adds a decision after the release.
THEOREM EvidenceIsPermanent == Spec => NothingWithdrawn
<1>1. ControlInv /\ FrontierInv /\ [Next]_vars
        => [/\ disk \subseteq disk'
            /\ unblinded => {f \in disk' : f.name[1] = Arm} \subseteq disk]_vars
  <2> SUFFICES ASSUME ControlInv, FrontierInv, [Next]_vars
               PROVE  /\ disk \subseteq disk'
                      /\ unblinded => {f \in disk' : f.name[1] = Arm} \subseteq disk
    OBVIOUS
  <2>1. CASE UNCHANGED disk
    BY <2>1
  <2>2. CASE LinkFile
    <3>1. unblinded => file[1] # Arm
      BY <2>2 DEF LinkFile, ControlInv, FileMatchesPhase, LoopWrites, FrontierInv,
                  BlindedByPhase, ArmPhase, Setup, Arm, Observer, Evaluator, Report
    <3>2. disk' = disk \cup {[name |-> file, body |-> Body(file), run |-> run]}
      BY <2>2 DEF LinkFile
    <3> QED BY <3>1, <3>2
  <2> QED BY <2>1, <2>2, DiskChanges
<1> QED BY <1>1, ControlCorrect, FrontierCorrect, PTL DEF Spec, NothingWithdrawn
-----------------------------------------------------------------------------

(***************************************************************************)
(* Layer 3: the evidence.                                                  *)
(***************************************************************************)
DecisionsBound == \A k \in Plans : k <= Len(decisions) => decisions[k].plan = k

PairsBound ==
  \A k \in Plans : k <= Len(pairs) =>
    pairs[k][1].plan = k /\ pairs[k][2] = pairs[k][1]

RecordsBound ==
  \A k \in Plans : k <= Len(records) =>
    records[k] = [plan |-> k, basis |-> pairs[k][1].transcript]

\* While a command runs, the disk holds what its memory says.
DiskFromMemory == pc \in Running => \A f \in disk : f.body = Body(f.name)

EvidenceInv ==
  /\ DecisionsBound
  /\ PairsBound
  /\ RecordsBound
  /\ DiskFromMemory

(***************************************************************************)
(* Preservation, one lemma per part.                                       *)
(***************************************************************************)
\* Only these steps change what memory holds of the evidence.
LEMMA MemoryChanges ==
  [Next]_vars =>
    \/ Begin \/ HashAfter \/ FinalizePair \/ EvaluateReturns
    \/ UNCHANGED <<decisions, pairs, records>> /\ (pc' \in Running => pc \in Running)
BY DEF Next, Coordinator, Writer, vars, environment, storage, memory, control,
       At, Throw, Running, AwaitsRole,
       HashBefore, ArmReturns, Gate, LaunchProvider, ScenarioReturns, CaptureReturns,
       CountObservations, Publish, Return, RoleFails, RoleHangs, CreateTemporary,
       LinkFile, RemoveTemporary, WriteFails, Crash, EditCandidate

\* Appending leaves every earlier element where it was.
LEMMA AppendKeeps ==
  ASSUME NEW S, NEW s \in Seq(S), NEW e
  PROVE  /\ Len(Append(s, e)) = Len(s) + 1
         /\ Append(s, e)[Len(s) + 1] = e
         /\ \A k \in 1 .. Len(s) : Append(s, e)[k] = s[k]
<1>1. s \in Seq(S \cup {e}) /\ e \in S \cup {e}
  BY SeqDef
<1> QED BY <1>1, AppendProperties

LEMMA StepBound ==
  ControlInv /\ EvidenceInv /\ [Next]_vars
    => DecisionsBound' /\ PairsBound' /\ RecordsBound'
<1> SUFFICES ASSUME ControlInv, EvidenceInv, [Next]_vars
             PROVE  DecisionsBound' /\ PairsBound' /\ RecordsBound'
  OBVIOUS
<1> USE PlanNumbers DEF DecisionsBound, PairsBound, RecordsBound
<1>0. /\ DecisionsBound /\ PairsBound /\ RecordsBound
      /\ decisions \in Seq(Decision) /\ pairs \in Seq(Seq(Capture)) /\ records \in Seq(Score)
      /\ pos \in Plans
  BY DEF EvidenceInv, ControlInv, TypeOK
<1>1. CASE Begin
  BY <1>1 DEF Begin
<1>2. CASE HashAfter
  <2>1. pairs' = pairs /\ records' = records
    BY <1>2 DEF HashAfter
  <2>2. CASE UNCHANGED decisions
    BY <1>0, <2>1, <2>2
  <2>3. CASE decisions' = Append(decisions, answer)
    <3>1. Len(decisions) = pos - 1 /\ answer.plan = pos
      BY <1>2 DEF HashAfter, At, ControlInv, MemoryMatchesPhase, ArmPhase
    <3>2. DecisionsBound'
      BY <1>0, <2>3, <3>1, AppendKeeps
    <3> QED BY <1>0, <2>1, <3>2
  <2> QED BY <1>2, <2>2, <2>3 DEF HashAfter, RecordArm
<1>3. CASE FinalizePair
  <2>1. decisions' = decisions /\ records' = records
    BY <1>3 DEF FinalizePair
  <2>2. CASE UNCHANGED pairs
    BY <1>0, <2>1, <2>2
  <2>3. CASE captures[1].plan = pos /\ captures[2] = captures[1]
              /\ pairs' = Append(pairs, captures)
    <3>1. Len(pairs) = pos - 1 /\ Len(records) = 0
      BY <1>3 DEF FinalizePair, At, ControlInv, MemoryMatchesPhase, ArmPhase,
                  ReleasePhase, ObservePhase
    <3>2. PairsBound'
      BY <1>0, <2>3, <3>1, AppendKeeps
    <3> QED BY <1>0, <2>1, <3>1, <3>2
  <2> QED BY <1>3, <2>2, <2>3 DEF FinalizePair, RecordPair
<1>4. CASE EvaluateReturns
  <2>1. decisions' = decisions /\ pairs' = pairs
    BY <1>4 DEF EvaluateReturns
  <2>2. CASE UNCHANGED records
    BY <1>0, <2>1, <2>2
  <2>3. CASE records' = Append(records, [plan |-> pos, basis |-> pairs[pos][1].transcript])
    <3>1. Len(records) = pos - 1
      BY <1>4 DEF EvaluateReturns, At, ControlInv, MemoryMatchesPhase
    <3>2. RecordsBound'
      BY SMTT(30), <1>0, <2>1, <2>3, <3>1, AppendKeeps
    <3> QED BY <1>0, <2>1, <3>2
  <2> QED BY <1>4, <2>2, <2>3 DEF EvaluateReturns
<1>5. CASE UNCHANGED <<decisions, pairs, records>>
  BY <1>0, <1>5
<1> QED BY <1>1, <1>2, <1>3, <1>4, <1>5, MemoryChanges

\* A file on disk while none is being created lies before the frontier.
LEMMA BeforeFrontier ==
  ASSUME ControlInv, FrontierInv, file = NoFile, NEW name, UpTo(name), NEW f \in disk
  PROVE  f.name \in FileNames /\ Precedes(f.name, name)
<1>1. f.name \in FileNames /\ OnDisk(f.name)
  BY DEF ControlInv, TypeOK, OnDisk
<1> QED BY <1>1, NoFileIsNoName DEF UpTo

LEMMA StepDiskFromMemory ==
  ControlInv /\ FrontierInv /\ EvidenceInv /\ [Next]_vars => DiskFromMemory'
<1> SUFFICES ASSUME ControlInv, FrontierInv, EvidenceInv, [Next]_vars,
                    (pc \in Running)', NEW f \in disk'
             PROVE  f.body = Body(f.name)'
  BY DEF DiskFromMemory
<1>0. /\ pc \in Running => \A g \in disk : g.body = Body(g.name)
      /\ decisions \in Seq(Decision) /\ pairs \in Seq(Seq(Capture)) /\ records \in Seq(Score)
      /\ pos \in Plans /\ Total \in Nat /\ Plans = 1 .. Total
  BY PlanNumbers DEF EvidenceInv, DiskFromMemory, ControlInv, TypeOK
<1>1. CASE Begin
  <2>1. CASE pc' = "threw"
    BY <2>1 DEF Running, AwaitsRole
  <2>2. CASE ~rootExists
    BY <1>1, <2>2 DEF Begin, storage, FrontierInv, RootOwned
  <2> QED BY <1>1, <2>1, <2>2 DEF Begin, Throw
<1>2. CASE HashAfter
  <2>1. disk' = disk /\ pairs' = pairs /\ records' = records /\ pc \in Running
        /\ file = NoFile /\ UpTo(<<Arm, pos, 0>>) /\ Len(decisions) = pos - 1
    BY <1>2 DEF HashAfter, storage, At, Running, FrontierInv, FrontierReached,
                ArmPhase, ControlInv, MemoryMatchesPhase
  <2>2. f.name \in FileNames /\ Precedes(f.name, <<Arm, pos, 0>>)
    BY <2>1, BeforeFrontier
  <2>3. f.name[1] = Arm => f.name[2] \in 1 .. Len(decisions)
    BY <1>0, <2>1, <2>2, NameShape DEF Precedes, Arm
  <2>4. decisions' = decisions \/ decisions' = Append(decisions, answer)
    BY <1>2 DEF HashAfter, RecordArm
  <2>5. f.name[1] = Arm => decisions'[f.name[2]] = decisions[f.name[2]]
    BY <1>0, <2>3, <2>4, AppendKeeps
  <2> QED BY <1>0, <2>1, <2>5 DEF Body
<1>3. CASE FinalizePair
  <2>1. disk' = disk /\ decisions' = decisions /\ records' = records /\ pc \in Running
        /\ file = NoFile /\ UpTo(<<Observer, pos, 1>>) /\ Len(pairs) = pos - 1
    BY <1>3 DEF FinalizePair, storage, At, Running, FrontierInv, FrontierReached,
                ObservePhase, ControlInv, MemoryMatchesPhase
  <2>2. f.name \in FileNames /\ Precedes(f.name, <<Observer, pos, 1>>)
    BY <2>1, BeforeFrontier
  <2>3. f.name[1] = Observer => f.name[2] \in 1 .. Len(pairs)
    <3>1. f.name[1] = Observer => f.name[2] \in Plans /\ f.name[3] \in {1, 2}
      BY <2>2, NameShape
    <3>2. f.name[1] = Observer => f.name[2] < pos
      BY <2>2, <3>1 DEF Precedes, Observer
    <3> QED BY <1>0, <2>1, <3>1, <3>2
  <2>4. pairs' = pairs \/ pairs' = Append(pairs, captures)
    BY <1>3 DEF FinalizePair, RecordPair
  <2>5. f.name[1] = Observer => pairs'[f.name[2]] = pairs[f.name[2]]
    BY <1>0, <2>3, <2>4, AppendKeeps
  <2> QED BY <1>0, <2>1, <2>5 DEF Body
<1>4. CASE EvaluateReturns
  <2>1. disk' = disk /\ decisions' = decisions /\ pairs' = pairs /\ pc \in Running
        /\ file = NoFile /\ UpTo(<<Evaluator, pos, 0>>) /\ Len(records) = pos - 1
    BY <1>4 DEF EvaluateReturns, storage, At, Running, AwaitsRole, FrontierInv,
                FrontierReached, ControlInv, MemoryMatchesPhase
  <2>2. f.name \in FileNames /\ Precedes(f.name, <<Evaluator, pos, 0>>)
    BY <2>1, BeforeFrontier
  <2>3. /\ f.name[1] = Evaluator => f.name[2] \in 1 .. Len(records)
        /\ f.name[1] # Report
    BY <1>0, <2>1, <2>2, NameShape DEF Precedes, Evaluator, Report
  <2>4. \/ records' = records
        \/ records' = Append(records, [plan |-> pos, basis |-> pairs[pos][1].transcript])
    BY <1>4 DEF EvaluateReturns
  <2>5. f.name[1] = Evaluator => records'[f.name[2]] = records[f.name[2]]
    BY <1>0, <2>3, <2>4, AppendKeeps
  <2> QED BY <1>0, <2>1, <2>3, <2>5 DEF Body
<1>5. CASE UNCHANGED <<decisions, pairs, records>> /\ pc \in Running
  <2>1. Body(f.name)' = Body(f.name)
    BY <1>5 DEF Body
  <2>2. CASE f \in disk
    BY <1>0, <1>5, <2>1, <2>2
  <2>3. CASE f \notin disk
    <3>1. f = [name |-> file, body |-> Body(file), run |-> run]
      BY <2>3, DiskChanges DEF LinkFile
    <3> QED BY <2>1, <3>1
  <2> QED BY <2>2, <2>3
<1> QED BY <1>1, <1>2, <1>3, <1>4, <1>5, MemoryChanges

\* What memory says of each kind of file.
LEMMA BodyOfKind ==
  ASSUME NEW k, NEW part
  PROVE  /\ Body(<<Arm, k, 0>>) = <<decisions[k]>>
         /\ Body(<<Observer, k, part>>) = <<pairs[k][part]>>
         /\ Body(<<Evaluator, k, 0>>) = <<records[k]>>
         /\ Body(<<Report, k, 0>>) = records
BY DEF Body, Arm, Observer, Evaluator, Report

\* While the command that wrote it returns, a report stands on its evidence.
LEMMA ReturnPublishes ==
  ControlInv /\ FrontierInv /\ EvidenceInv /\ pc = "return" => PublishedIsComplete
<1> SUFFICES ASSUME ControlInv, FrontierInv, EvidenceInv, pc = "return",
                    NEW f \in disk, f.name[1] = Report
             PROVE  /\ Len(f.body) = 2 * NumSlots
                    /\ \A k \in Plans :
                         /\ \E d \in disk : d.name = <<Arm, k, 0>> /\ d.body[1].plan = k
                         /\ \A part \in {1, 2} : \E c \in disk :
                              /\ c.name = <<Observer, k, part>>
                              /\ c.body = <<[plan |-> k, transcript |-> f.body[k].basis]>>
                         /\ \E r \in disk :
                              r.name = <<Evaluator, k, 0>> /\ r.body = <<f.body[k]>>
                         /\ f.body[k].plan = k
  BY DEF PublishedIsComplete
<1>1. \A g \in disk : g.body = Body(g.name)
  BY DEF EvidenceInv, DiskFromMemory, Running
<1>2. f.name \in FileNames
  BY DEF ControlInv, TypeOK
<1>3. f.body = records
  <2>1. f.name = <<Report, f.name[2], 0>>
    BY <1>2, NameShape DEF Report
  <2> QED BY <1>1, <2>1, BodyOfKind
<1>4. /\ Len(decisions) = Total /\ Len(pairs) = Total /\ Len(records) = Total
      /\ pairs \in Seq(Seq(Capture)) /\ \A k \in 1 .. Len(pairs) : Len(pairs[k]) = 2
  BY DEF ControlInv, TypeOK, MemoryMatchesPhase, Running, ArmPhase
<1>5. \A n \in FileNames : n[1] < Report => OnDisk(n)
  BY <1>2, PhasesInOrder DEF FrontierInv, DiskIsPrefix
<1>6. ASSUME NEW k \in Plans
      PROVE  /\ \E d \in disk : d.name = <<Arm, k, 0>> /\ d.body[1].plan = k
             /\ \A part \in {1, 2} : \E c \in disk :
                  /\ c.name = <<Observer, k, part>>
                  /\ c.body = <<[plan |-> k, transcript |-> f.body[k].basis]>>
             /\ \E r \in disk :
                  r.name = <<Evaluator, k, 0>> /\ r.body = <<f.body[k]>>
             /\ f.body[k].plan = k
  <2>1. k \in 1 .. Total /\ Total \in Nat
    BY PlanNumbers
  <2>2. /\ decisions[k].plan = k
        /\ pairs[k][1].plan = k /\ pairs[k][2] = pairs[k][1]
        /\ records[k] = [plan |-> k, basis |-> pairs[k][1].transcript]
    <3>1. k <= Len(decisions) /\ k <= Len(pairs) /\ k <= Len(records)
      BY <1>4, <2>1
    <3>2. decisions[k].plan = k
      BY <3>1 DEF EvidenceInv, DecisionsBound
    <3>3. pairs[k][1].plan = k /\ pairs[k][2] = pairs[k][1]
      BY <3>1 DEF EvidenceInv, PairsBound
    <3>4. records[k] = [plan |-> k, basis |-> pairs[k][1].transcript]
      BY <3>1 DEF EvidenceInv, RecordsBound
    <3> QED BY <3>2, <3>3, <3>4
  <2>3. pairs[k][1] = [plan |-> k, transcript |-> records[k].basis]
    <3>1. pairs[k] \in Seq(Capture) /\ Len(pairs[k]) = 2
      BY <1>4, <2>1
    <3>2. pairs[k][1] \in Capture
      BY <3>1
    <3> QED BY <2>2, <3>2 DEF Capture
  <2>4. \E d \in disk : d.name = <<Arm, k, 0>> /\ d.body[1].plan = k
    <3>1. OnDisk(<<Arm, k, 0>>)
      <4>1. <<Arm, k, 0>> \in FileNames
        BY NamesBuilt
      <4>2. <<Arm, k, 0>>[1] < Report
        BY DEF Arm, Report
      <4> QED BY <1>5, <4>1, <4>2
    <3>2. PICK d \in disk : d.name = <<Arm, k, 0>>
      BY <3>1 DEF OnDisk
    <3>3. d.body = <<decisions[k]>>
      BY <1>1, <3>2, BodyOfKind
    <3> QED BY <2>2, <3>2, <3>3
  <2>5. ASSUME NEW part \in {1, 2}
        PROVE  \E c \in disk :
                 /\ c.name = <<Observer, k, part>>
                 /\ c.body = <<[plan |-> k, transcript |-> f.body[k].basis]>>
    <3>1. OnDisk(<<Observer, k, part>>)
      <4>1. <<Observer, k, part>> \in FileNames
        BY NamesBuilt
      <4>2. <<Observer, k, part>>[1] < Report
        BY DEF Observer, Report
      <4> QED BY <1>5, <4>1, <4>2
    <3>2. PICK c \in disk : c.name = <<Observer, k, part>>
      BY <3>1 DEF OnDisk
    <3>3. c.body = <<pairs[k][part]>>
      <4>1. Body(<<Observer, k, part>>) = <<pairs[k][part]>>
        BY BodyOfKind
      <4> QED BY <1>1, <3>2, <4>1
    <3>4. pairs[k][part] = pairs[k][1]
      BY <2>2
    <3> QED BY <1>3, <2>3, <3>2, <3>3, <3>4
  <2>6. \E r \in disk : r.name = <<Evaluator, k, 0>> /\ r.body = <<f.body[k]>>
    <3>1. OnDisk(<<Evaluator, k, 0>>)
      <4>1. <<Evaluator, k, 0>> \in FileNames
        BY NamesBuilt
      <4>2. <<Evaluator, k, 0>>[1] < Report
        BY DEF Evaluator, Report
      <4> QED BY <1>5, <4>1, <4>2
    <3>2. PICK r \in disk : r.name = <<Evaluator, k, 0>>
      BY <3>1 DEF OnDisk
    <3>3. r.body = <<records[k]>>
      BY <1>1, <3>2, BodyOfKind
    <3> QED BY <1>3, <3>2, <3>3
  <2>7. f.body[k].plan = k
    BY <1>3, <2>2
  <2> QED BY <2>4, <2>5, <2>6, <2>7
<1> QED BY <1>3, <1>4, <1>6 DEF Total

\* No step on any other way adds a report or changes the evidence under one.
LEMMA StepPublished ==
  ControlInv /\ FrontierInv /\ PublishedIsComplete /\ [Next]_vars /\ ~(pc = "return")'
    => PublishedIsComplete'
<1> SUFFICES ASSUME ControlInv, FrontierInv, PublishedIsComplete, [Next]_vars,
                    ~(pc = "return")'
             PROVE  PublishedIsComplete'
  OBVIOUS
<1>1. CASE UNCHANGED disk
  <2>1. disk' = disk
    BY <1>1
  <2> QED BY ZenonT(40), <2>1 DEF PublishedIsComplete, Arm, Observer, Evaluator, Report
<1>2. CASE LinkFile
  <2>1. file \in FileNames /\ ~OnDisk(file) /\ pc' = pc
    BY <1>2 DEF LinkFile, control, ControlInv, TypeOK
  <2>2. file[1] # Report
    BY <1>2, <2>1 DEF LinkFile, ControlInv, FileMatchesPhase, Setup, Arm,
                      Observer, Evaluator, Report
  <2>3. ASSUME NEW f \in disk', f.name[1] = Report PROVE FALSE
    <3>1. CASE f \in disk
      <4>1. f.name \in FileNames
        BY <3>1 DEF ControlInv, TypeOK
      <4>2. file[1] < f.name[1]
        BY <2>1, <2>2, <2>3, NameShape DEF Report
      <4>3. Precedes(file, f.name)
        BY <2>1, <4>1, <4>2, PhasesInOrder
      <4> QED BY <2>1, <3>1, <4>3 DEF FrontierInv, DiskIsPrefix
    <3>2. CASE f = [name |-> file, body |-> Body(file), run |-> run]
      BY <2>2, <2>3, <3>2
    <3> QED BY <1>2, <3>1, <3>2 DEF LinkFile
  <2> QED BY <2>3 DEF PublishedIsComplete
<1> QED BY <1>1, <1>2, DiskChanges

\* The invariant of the third layer.
THEOREM EvidenceCorrect == Spec => []EvidenceInv
<1>1. Init => EvidenceInv
  BY PlanNumbers
     DEF Init, EvidenceInv, DecisionsBound, PairsBound, RecordsBound, DiskFromMemory
<1>2. ControlInv /\ FrontierInv /\ EvidenceInv /\ [Next]_vars => EvidenceInv'
  BY StepBound, StepDiskFromMemory DEF EvidenceInv
<1> QED BY <1>1, <1>2, ControlCorrect, FrontierCorrect, PTL DEF Spec

\* A published artifact stands on complete and matching evidence, for every
\* number of slots and however often the candidates were edited.
THEOREM PublicationCorrect == Spec => []PublishedIsComplete
<1>1. Init => PublishedIsComplete
  BY DEF Init, PublishedIsComplete
<1> QED BY <1>1, StepPublished, ReturnPublishes, ControlCorrect, FrontierCorrect,
           EvidenceCorrect, PTL DEF Spec

(***************************************************************************)
(* Layer 4: the bytes judged.                                              *)
(***************************************************************************)
\* An unedited candidate is the planned one, and a first edit makes it another.
EditsShow ==
  \A s \in Slots :
    /\ edits[s] = 0 => candidate[s] = Planned
    /\ edits[s] = 1 => candidate[s] # Planned

\* The awaited answer judged planned bytes if nobody had touched them yet.
AnswerJudged ==
  pc = "hashAfter" /\ edits[SlotOf(pos)] = 0 => answer.judged \in {Planned, Unread}

DecisionsJudged ==
  \A k \in Plans :
    k <= Len(decisions) /\ edits[SlotOf(k)] <= 1
      => decisions[k].judged \in {Planned, Unread}

JudgedInv == EditsShow /\ AnswerJudged /\ DecisionsJudged /\ DecidedOnPlannedBytes

\* Edits are counted up, and only counted by an edit.
LEMMA EditsGrow ==
  ControlInv /\ [Next]_vars
    => /\ \A s \in Slots : edits[s] \in Nat /\ edits'[s] \in Nat /\ edits[s] <= edits'[s]
       /\ UNCHANGED <<candidate, edits>> \/ \E s \in Slots : EditCandidate(s)
<1> SUFFICES ASSUME ControlInv, [Next]_vars
             PROVE  /\ \A s \in Slots :
                         edits[s] \in Nat /\ edits'[s] \in Nat /\ edits[s] <= edits'[s]
                    /\ UNCHANGED <<candidate, edits>> \/ \E s \in Slots : EditCandidate(s)
  OBVIOUS
<1>1. edits \in [Slots -> 0 .. MaxEdits] /\ MaxEdits \in Nat
  BY BoundsAssumption DEF ControlInv, TypeOK
<1>2. UNCHANGED <<candidate, edits>> \/ \E s \in Slots : EditCandidate(s)
  BY DEF Next, Coordinator, Writer, vars, environment,
         Begin, HashBefore, ArmReturns, HashAfter, Gate, LaunchProvider, ScenarioReturns,
         CaptureReturns, FinalizePair, CountObservations, EvaluateReturns, Publish, Return,
         RoleFails, RoleHangs, CreateTemporary, LinkFile, RemoveTemporary, WriteFails, Crash
<1>3. CASE UNCHANGED <<candidate, edits>>
  BY <1>1, <1>2, <1>3
<1>4. CASE \E s \in Slots : EditCandidate(s)
  <2>1. PICK s \in Slots : edits' = [edits EXCEPT ![s] = @ + 1]
    BY <1>4 DEF EditCandidate
  <2> QED BY <1>1, <1>2, <2>1
<1> QED BY <1>2, <1>3, <1>4

LEMMA StepEdits == ControlInv /\ EditsShow /\ [Next]_vars => EditsShow'
<1> SUFFICES ASSUME ControlInv, EditsShow, [Next]_vars PROVE EditsShow'
  OBVIOUS
<1>1. CASE UNCHANGED <<candidate, edits>>
  BY <1>1 DEF EditsShow
<1>2. CASE \E s \in Slots : EditCandidate(s)
  <2>1. PICK s \in Slots : EditCandidate(s)
    BY <1>2
  <2>2. PICK v \in Versions \ {candidate[s]} : candidate' = [candidate EXCEPT ![s] = v]
    BY <2>1 DEF EditCandidate
  <2>3. /\ edits' = [edits EXCEPT ![s] = @ + 1]
        /\ edits \in [Slots -> 0 .. MaxEdits] /\ candidate \in [Slots -> Versions]
    BY <2>1 DEF EditCandidate, ControlInv, TypeOK
  <2>4. ASSUME NEW t \in Slots, t # s
        PROVE  edits'[t] = edits[t] /\ candidate'[t] = candidate[t]
    BY <2>2, <2>3, <2>4
  <2>5. edits'[s] = edits[s] + 1 /\ candidate'[s] = v /\ edits[s] \in Nat
    BY <2>2, <2>3, BoundsAssumption
  <2> QED BY <2>2, <2>4, <2>5 DEF EditsShow
<1> QED BY <1>1, <1>2, EditsGrow

LEMMA StepAnswer ==
  ControlInv /\ EditsShow /\ AnswerJudged /\ [Next]_vars => AnswerJudged'
<1> SUFFICES ASSUME ControlInv, EditsShow, AnswerJudged, [Next]_vars,
                    (pc = "hashAfter")', edits'[SlotOf(pos')] = 0
             PROVE  answer'.judged \in {Planned, Unread}
  BY DEF AnswerJudged
<1>1. CASE ArmReturns
  <2>1. pos' = pos /\ pos \in Plans /\ SlotOf(pos) \in Slots /\ UNCHANGED <<candidate, edits>>
    BY <1>1, PlanNumbers DEF ArmReturns, environment, Throw, ControlInv, TypeOK
  <2>2. candidate[SlotOf(pos)] = Planned
    BY <2>1 DEF EditsShow
  <2> QED BY <1>1, <2>2 DEF ArmReturns
<1>2. CASE UNCHANGED <<pc, pos, answer>>
  <2>1. SlotOf(pos) \in Slots
    BY PlanNumbers DEF ControlInv, TypeOK
  <2>2. edits[SlotOf(pos)] = 0
    BY <1>2, <2>1, EditsGrow
  <2> QED BY <1>2, <2>2 DEF AnswerJudged
<1>3. ArmReturns \/ UNCHANGED <<pc, pos, answer>>
  BY DEF Next, Coordinator, Writer, vars, environment, storage, memory, control, At, Throw,
         NextPlan, RecordArm, RecordPair, Total,
         Begin, HashBefore, HashAfter, Gate, LaunchProvider, ScenarioReturns,
         CaptureReturns, FinalizePair, CountObservations, EvaluateReturns, Publish, Return,
         RoleFails, RoleHangs, CreateTemporary, LinkFile, RemoveTemporary, WriteFails,
         Crash, EditCandidate
<1> QED BY <1>1, <1>2, <1>3

\* The closing hash check admits an answer only about a candidate that is as
\* planned: unedited, or edited more than once.
LEMMA StepDecisions ==
  ControlInv /\ JudgedInv /\ [Next]_vars => DecisionsJudged'
<1> SUFFICES ASSUME ControlInv, JudgedInv, [Next]_vars, NEW k \in Plans,
                    k <= Len(decisions'), edits'[SlotOf(k)] <= 1
             PROVE  decisions'[k].judged \in {Planned, Unread}
  BY DEF DecisionsJudged
<1>1. SlotOf(k) \in Slots /\ k \in Nat /\ k > 0
  BY PlanNumbers
<1>2. edits[SlotOf(k)] <= 1 /\ edits[SlotOf(k)] \in Nat
  BY <1>1, EditsGrow
<1>3. CASE UNCHANGED decisions
  BY <1>2, <1>3 DEF JudgedInv, DecisionsJudged
<1>4. CASE Begin
  BY <1>1, <1>4 DEF Begin
<1>5. CASE HashAfter /\ decisions' = Append(decisions, answer)
  <2>1. /\ Len(decisions) = pos - 1 /\ pos \in Plans /\ decisions \in Seq(Decision)
        /\ candidate[SlotOf(pos)] = Planned
    <3>1. decisions' # decisions
      <4>1. decisions \in Seq(Decision)
        BY DEF ControlInv, TypeOK
      <4> QED BY <1>5, <4>1, AppendKeeps
    <3> QED BY <1>5, <3>1
            DEF HashAfter, At, ControlInv, TypeOK, MemoryMatchesPhase, ArmPhase
  <2>2. CASE k < pos
    <3>1. decisions'[k] = decisions[k] /\ k <= Len(decisions)
      BY <1>1, <1>5, <2>1, <2>2, PlanNumbers, AppendKeeps
    <3> QED BY <1>2, <3>1 DEF JudgedInv, DecisionsJudged
  <2>3. CASE k = pos
    <3>1. decisions'[k] = answer
      BY <1>1, <1>5, <2>1, <2>3, PlanNumbers, AppendKeeps
    <3>2. edits[SlotOf(pos)] = 0
      BY <1>1, <1>2, <2>1, <2>3 DEF JudgedInv, EditsShow
    <3> QED BY <1>5, <3>1, <3>2 DEF HashAfter, At, JudgedInv, AnswerJudged
  <2> QED BY <1>1, <1>5, <2>1, <2>2, <2>3, PlanNumbers, AppendKeeps
<1> QED BY <1>3, <1>4, <1>5, MemoryChanges DEF HashAfter, RecordArm, FinalizePair, EvaluateReturns

LEMMA StepDecided ==
  ControlInv /\ JudgedInv /\ [Next]_vars => DecidedOnPlannedBytes'
<1> SUFFICES ASSUME ControlInv, JudgedInv, [Next]_vars, NEW d \in disk',
                    d.name[1] = Arm, edits'[SlotOf(d.name[2])] <= 1
             PROVE  d.body[1].judged \in {Planned, Unread}
  BY DEF DecidedOnPlannedBytes
<1>1. CASE d \in disk
  <2>1. d.name \in FileNames
    BY <1>1 DEF ControlInv, TypeOK
  <2>2. SlotOf(d.name[2]) \in Slots
    BY <2>1, NameShape, PlanNumbers
  <2>3. edits[SlotOf(d.name[2])] <= 1
    BY <2>2, EditsGrow
  <2> QED BY <1>1, <2>3 DEF JudgedInv, DecidedOnPlannedBytes
<1>2. CASE LinkFile /\ d = [name |-> file, body |-> Body(file), run |-> run]
  <2>1. file \in FileNames /\ file[1] = Arm /\ file[2] \in Plans /\ UNCHANGED edits
    BY <1>2, NameShape DEF LinkFile, environment, ControlInv, TypeOK
  <2>2. file[2] <= Len(decisions)
    BY <1>2, <2>1, PlanNumbers
       DEF LinkFile, ControlInv, FileMatchesPhase, LoopWrites, MemoryMatchesPhase, Running,
           ArmPhase, Setup, Arm, Observer, Evaluator, Report
  <2>3. d.body = <<decisions[file[2]]>>
    BY <1>2, <2>1 DEF Body
  <2> QED BY <1>2, <2>1, <2>2, <2>3 DEF JudgedInv, DecisionsJudged
<1> QED BY <1>1, <1>2, DiskChanges DEF LinkFile

\* A recorded decision judged planned bytes or none when its candidate was
\* edited at most once, for every number of slots and bound on edits.
THEOREM JudgingCorrect == Spec => []DecidedOnPlannedBytes
<1>1. Init => JudgedInv
  BY PlanNumbers
     DEF Init, JudgedInv, EditsShow, AnswerJudged, DecisionsJudged, DecidedOnPlannedBytes
<1>2. ControlInv /\ JudgedInv /\ [Next]_vars => JudgedInv'
  BY StepEdits, StepAnswer, StepDecisions, StepDecided DEF JudgedInv
<1>3. JudgedInv => DecidedOnPlannedBytes
  BY DEF JudgedInv
<1> QED BY <1>1, <1>2, <1>3, ControlCorrect, PTL DEF Spec
=============================================================================
