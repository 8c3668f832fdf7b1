------------------------------ MODULE OfficialRun ------------------------------
(***************************************************************************)
(* The official coordinator (execution/coordinator.ts) driving its role    *)
(* hooks (execution/production-composition.ts) and its create-once writer  *)
(* (execution/writer.ts), together with what surrounds one output root:    *)
(* people who edit candidate files, processes that crash, and an operator  *)
(* who starts the command again on the same root.                          *)
(*                                                                         *)
(* The coordinator is one sequential asynchronous function: between any    *)
(* two of its awaits the environment may act.  The writer is synchronous   *)
(* but not atomic: each file is a temporary, then a hard link, then an     *)
(* unlink, and a crash may fall between them.                              *)
(***************************************************************************)
EXTENDS ExecutionPlan

CONSTANTS
  MaxEdits,   \* bound on edits of each candidate file
  MaxRuns     \* bound on starts of the command on this output root

ASSUME BoundsAssumption == MaxEdits \in Nat /\ MaxRuns \in Nat \ {0}

VARIABLES
  candidate,  \* content of each slot's candidate file
  edits,      \* how often each candidate file was edited
  rootExists, \* does the output root exist?
  disk,       \* the evidence files under the root
  temporary,  \* the file whose .create-*.tmp is on disk, or NoFile
  run,        \* number of the current start of the command
  pc,         \* where the coordinator is
  pos,        \* the plan (or, while scenarios are released, slot) it is at
  answer,     \* the arm's decision, before its closing hash check
  decisions,  \* evidence in memory, in plan order: decisions,
  gateOpen,   \* postDecisionStageOpen of the production hooks,
  captures,   \* the captures of the plan being observed,
  pairs,      \* finalized observation pairs,
  records,    \* scored records
  file,       \* the file the current writer call is creating, or NoFile
  hung,       \* the awaited role process will never exit
  unblinded   \* has a verifier-side process ever been launched?

environment == <<candidate, edits>>
storage == <<rootExists, disk, temporary>>
memory == <<answer, decisions, gateOpen, captures, pairs, records>>
control == <<run, pc, pos, file, hung>>
vars == <<environment, storage, memory, control, unblinded>>

\* The phases of the coordinator; it awaits a role process in AwaitsRole.
AwaitsRole == {"arm", "scenario", "capture", "evaluate"}
Running ==
  {"hashBefore", "hashAfter", "gate", "release", "pair", "count", "publish",
   "return"} \cup AwaitsRole
Ended == {"completed", "threw", "crashed"}

OnDisk(name) == \E f \in disk : f.name = name
At(location) == pc = location /\ file = NoFile /\ ~hung

NoAnswer == [plan |-> 0, judged |-> Unread]

Init ==
  /\ candidate = [s \in Slots |-> Planned]
  /\ edits = [s \in Slots |-> 0]
  /\ rootExists = FALSE
  /\ disk = {}
  /\ temporary = NoFile
  /\ run = 0
  /\ pc = "ready"
  /\ pos = 1
  /\ answer = NoAnswer
  /\ decisions = <<>>
  /\ gateOpen = FALSE
  /\ captures = <<>>
  /\ pairs = <<>>
  /\ records = <<>>
  /\ file = NoFile
  /\ hung = FALSE
  /\ unblinded = FALSE

(***************************************************************************)
(* Where control goes.                                                     *)
(***************************************************************************)
Throw == pc' = "threw" /\ UNCHANGED pos

\* Mutant: the loop index is not reset for the next phase.
NextPlanUnreset(again, after) ==
  /\ pc' = IF pos < Total THEN again ELSE after
  /\ pos' = pos + 1

\* The next plan of a loop over the plan's arms, or the phase after the loop.
NextPlan(again, after) ==
  IF pos < Total
    THEN pc' = again /\ pos' = pos + 1
    ELSE pc' = after /\ pos' = 1

(***************************************************************************)
(* Starting the command: static preflight over the frozen bytes, then      *)
(* writer.initialize, whose mkdir of the root refuses an existing one.     *)
(***************************************************************************)
\* Mutant: an existing root is taken over without writing the plan again.
BeginResuming ==
  /\ pc \in {"ready"} \cup Ended
  /\ run < MaxRuns
  /\ run' = run + 1
  /\ rootExists' = TRUE
  /\ file' = IF rootExists THEN NoFile ELSE <<Setup, 1, 0>>
  /\ pc' = "hashBefore"
  /\ pos' = 1
  /\ answer' = NoAnswer
  /\ gateOpen' = FALSE
  /\ decisions' = <<>> /\ captures' = <<>> /\ pairs' = <<>> /\ records' = <<>>
  /\ UNCHANGED <<environment, disk, temporary, hung, unblinded>>

Begin ==
  /\ pc \in {"ready"} \cup Ended
  /\ run < MaxRuns
  /\ run' = run + 1
  /\ IF rootExists \/ \E s \in Slots : candidate[s] # Planned
       THEN Throw /\ UNCHANGED <<rootExists, file>>
       ELSE /\ rootExists' = TRUE
            /\ file' = <<Setup, 1, 0>>
            /\ pc' = "hashBefore"
            /\ pos' = 1
  /\ answer' = NoAnswer
  /\ gateOpen' = FALSE
  /\ decisions' = <<>> /\ captures' = <<>> /\ pairs' = <<>> /\ records' = <<>>
  /\ UNCHANGED <<environment, disk, temporary, hung, unblinded>>

(***************************************************************************)
(* The arm phase: hash, decide, hash again, persist.                       *)
(***************************************************************************)
\* Mutant: a drifted candidate is waited for instead of refused.
HashBeforeWaits ==
  /\ At("hashBefore")
  /\ candidate[SlotOf(pos)] = Planned
  /\ pc' = "arm"
  /\ UNCHANGED <<environment, storage, memory, run, pos, file, hung, unblinded>>

HashBefore ==
  /\ At("hashBefore")
  /\ IF candidate[SlotOf(pos)] = Planned
       THEN pc' = "arm" /\ UNCHANGED pos
       ELSE Throw
  /\ UNCHANGED <<environment, storage, memory, run, file, hung, unblinded>>

\* A failure response of the arm process becomes an abstention that judged no
\* bytes; a decision bound to another plan is refused.
ArmReturns ==
  /\ At("arm")
  /\ \E k \in Plans :
       \E judged \in
         {Unread, IF IsStatusQuo(pos) THEN Planned ELSE candidate[SlotOf(pos)]} :
         answer' = [plan |-> k, judged |-> judged]
  /\ IF answer'.plan = pos THEN pc' = "hashAfter" /\ UNCHANGED pos ELSE Throw
  /\ UNCHANGED <<environment, storage, decisions, gateOpen, captures, pairs,
                 records, run, file, hung, unblinded>>

RecordArm ==
  /\ file' = <<Arm, pos, 0>>
  /\ decisions' = Append(decisions, answer)
  /\ NextPlan("hashBefore", "gate")

\* Mutant: the closing hash check is dropped.
HashAfterSkipped ==
  /\ At("hashAfter")
  /\ RecordArm
  /\ UNCHANGED <<environment, storage, answer, gateOpen, captures, pairs,
                 records, run, hung, unblinded>>

HashAfter ==
  /\ At("hashAfter")
  /\ IF candidate[SlotOf(pos)] = Planned
       THEN RecordArm
       ELSE Throw /\ UNCHANGED <<file, decisions>>
  /\ UNCHANGED <<environment, storage, answer, gateOpen, captures, pairs,
                 records, run, hung, unblinded>>

(***************************************************************************)
(* The gate and the release of one neutral scenario per slot.  The hook    *)
(* refuses to launch a provider unless the gate was opened.                *)
(***************************************************************************)
Gate ==
  /\ At("gate")
  /\ IF Len(decisions) = Total
       THEN gateOpen' = TRUE /\ pc' = "release" /\ UNCHANGED pos
       ELSE Throw /\ UNCHANGED gateOpen
  /\ UNCHANGED <<environment, storage, answer, decisions, captures, pairs,
                 records, run, file, hung, unblinded>>

LaunchProvider ==
  /\ At("release")
  /\ IF gateOpen /\ Len(decisions) = Total
       THEN pc' = "scenario" /\ unblinded' = TRUE /\ UNCHANGED pos
       ELSE Throw /\ UNCHANGED unblinded
  /\ UNCHANGED <<environment, storage, memory, run, file, hung>>

\* A scenario names its slot and the digest of the decision set it was made for.
ScenarioReturns ==
  /\ At("scenario")
  /\ \E s \in Slots, digest \in {decisions, <<>>} :
       IF s = pos /\ digest = decisions
         THEN IF pos < NumSlots
                THEN pc' = "release" /\ pos' = pos + 1
                ELSE pc' = "capture" /\ pos' = 1
         ELSE Throw
  /\ UNCHANGED <<environment, storage, memory, run, file, hung, unblinded>>

(***************************************************************************)
(* The observation phase: two captures, one pair.                          *)
(***************************************************************************)
CaptureReturns ==
  /\ At("capture")
  /\ \E c \in [plan : Plans, transcript : {candidate[SlotOf(pos)], Noise}]
               \cup {Missing} :
       captures' = Append(captures, c)
  /\ pc' = IF Len(captures') = 2 THEN "pair" ELSE "capture"
  /\ UNCHANGED <<environment, storage, answer, decisions, gateOpen, pairs,
                 records, run, pos, file, hung, unblinded>>

RecordPair ==
  /\ pairs' = Append(pairs, captures)
  /\ captures' = <<>>
  /\ file' = <<Observer, pos, 1>>
  /\ NextPlan("capture", "count")

\* Mutant: the second capture is not compared with the first.
FinalizeAnyPair ==
  /\ At("pair")
  /\ IF captures[1].plan = pos
       THEN RecordPair
       ELSE Throw /\ UNCHANGED <<captures, pairs, file>>
  /\ UNCHANGED <<environment, storage, answer, decisions, gateOpen, records,
                 run, hung, unblinded>>

\* Both captures are present, equal, and bound to the plan under observation.
FinalizePair ==
  /\ At("pair")
  /\ IF captures[1].plan = pos /\ captures[2] = captures[1]
       THEN RecordPair
       ELSE Throw /\ UNCHANGED <<captures, pairs, file>>
  /\ UNCHANGED <<environment, storage, answer, decisions, gateOpen, records,
                 run, hung, unblinded>>

CountObservations ==
  /\ At("count")
  /\ IF Len(pairs) = Total THEN pc' = "evaluate" /\ UNCHANGED pos ELSE Throw
  /\ UNCHANGED <<environment, storage, memory, run, file, hung, unblinded>>

(***************************************************************************)
(* The scoring phase and the published report.                             *)
(***************************************************************************)
\* Mutant: the score is kept in memory and never persisted.
EvaluateReturnsUnpersisted ==
  /\ At("evaluate")
  /\ \E k \in Plans :
       IF k = pos
         THEN /\ records' =
                   Append(records, [plan |-> k, basis |-> pairs[pos][1].transcript])
              /\ NextPlan("evaluate", "publish")
         ELSE Throw /\ UNCHANGED records
  /\ UNCHANGED <<environment, storage, answer, decisions, gateOpen, captures,
                 pairs, run, file, hung, unblinded>>

EvaluateReturns ==
  /\ At("evaluate")
  /\ \E k \in Plans :
       IF k = pos
         THEN /\ records' =
                   Append(records, [plan |-> k, basis |-> pairs[pos][1].transcript])
              /\ file' = <<Evaluator, pos, 0>>
              /\ NextPlan("evaluate", "publish")
         ELSE Throw /\ UNCHANGED <<records, file>>
  /\ UNCHANGED <<environment, storage, answer, decisions, gateOpen, captures,
                 pairs, run, hung, unblinded>>

Publish ==
  /\ At("publish")
  /\ file' = <<Report, 1, 0>>
  /\ pc' = "return"
  /\ UNCHANGED <<environment, storage, memory, run, pos, hung, unblinded>>

Return ==
  /\ At("return")
  /\ pc' = "completed"
  /\ UNCHANGED <<environment, storage, memory, run, pos, file, hung, unblinded>>

(***************************************************************************)
(* Role processes.  Launcher exceptions, non-arm failure responses and     *)
(* unparsable output reject the awaited hook; a process that never exits   *)
(* leaves it pending, for the sandbox runner sets no deadline.             *)
(***************************************************************************)
RoleFails ==
  /\ \E location \in AwaitsRole : At(location)
  /\ Throw
  /\ UNCHANGED <<environment, storage, memory, run, file, hung, unblinded>>

RoleHangs ==
  /\ \E location \in AwaitsRole : At(location)
  /\ hung' = TRUE
  /\ UNCHANGED <<environment, storage, memory, run, pc, pos, file, unblinded>>

(***************************************************************************)
(* The create-once writer: refuse an existing name, write a temporary,     *)
(* link it to the name, remove the temporary.                              *)
(***************************************************************************)
\* What the file holds, from the coordinator's memory.
Body(name) ==
  IF name[1] = Arm THEN <<decisions[name[2]]>>
  ELSE IF name[1] = Observer THEN <<pairs[name[2]][name[3]]>>
  ELSE IF name[1] = Evaluator THEN <<records[name[2]]>>
  ELSE IF name[1] = Report THEN records
  ELSE <<>>

CreateTemporary ==
  /\ file # NoFile
  /\ temporary # file
  /\ ~OnDisk(file)
  /\ temporary' = file
  /\ UNCHANGED <<environment, rootExists, disk, memory, control, unblinded>>

LinkFile ==
  /\ file # NoFile
  /\ temporary = file
  /\ ~OnDisk(file)
  /\ disk' = disk \cup {[name |-> file, body |-> Body(file), run |-> run]}
  /\ UNCHANGED <<environment, rootExists, temporary, memory, control, unblinded>>

RemoveTemporary ==
  /\ file # NoFile
  /\ temporary = file
  /\ OnDisk(file)
  /\ temporary' = NoFile
  /\ file' = NextInCall(file)
  /\ UNCHANGED <<environment, rootExists, disk, memory, run, pc, pos, hung,
                 unblinded>>

\* Mutant: a failed write cleans the root up.
WriteFailsCleaning ==
  /\ file # NoFile
  /\ pc' = "threw"
  /\ file' = NoFile
  /\ disk' = {}
  /\ temporary' = NoFile
  /\ UNCHANGED <<environment, rootExists, memory, run, pos, hung, unblinded>>

\* An I/O error, or the refusal of an existing name.  The finally block unlinks
\* the temporary, unless that is what failed.
WriteFails ==
  /\ file # NoFile
  /\ pc' = "threw"
  /\ file' = NoFile
  /\ temporary' \in {NoFile, temporary}
  /\ UNCHANGED <<environment, rootExists, disk, memory, run, pos, hung, unblinded>>

(***************************************************************************)
(* The environment.                                                        *)
(***************************************************************************)
Crash ==
  /\ pc \in Running
  /\ pc' = "crashed"
  /\ file' = NoFile
  /\ hung' = FALSE
  /\ UNCHANGED <<environment, storage, memory, run, pos, unblinded>>

EditCandidate(s) ==
  /\ edits[s] < MaxEdits
  /\ edits' = [edits EXCEPT ![s] = @ + 1]
  /\ \E v \in Versions \ {candidate[s]} :
       candidate' = [candidate EXCEPT ![s] = v]
  /\ UNCHANGED <<storage, memory, control, unblinded>>

Writer == CreateTemporary \/ LinkFile \/ RemoveTemporary \/ WriteFails

Coordinator ==
  \/ HashBefore \/ ArmReturns \/ HashAfter
  \/ Gate \/ LaunchProvider \/ ScenarioReturns
  \/ CaptureReturns \/ FinalizePair \/ CountObservations
  \/ EvaluateReturns \/ Publish \/ Return
  \/ RoleFails

Next ==
  \/ Begin
  \/ Coordinator
  \/ Writer
  \/ RoleHangs
  \/ Crash
  \/ \E s \in Slots : EditCandidate(s)

(***************************************************************************)
(* Fairness: a promise that is settled resumes the coordinator, and system *)
(* calls return.  Nobody has to edit, crash, restart, or hang.             *)
(***************************************************************************)
Spec == Init /\ [][Next]_vars /\ WF_vars(Coordinator \/ Writer)

-----------------------------------------------------------------------------
(***************************************************************************)
(* Properties.                                                             *)
(***************************************************************************)
FileBodies == Seq(Decision \cup Capture \cup Score)

\* Type invariant.
TypeOK ==
  /\ candidate \in [Slots -> Versions]
  /\ edits \in [Slots -> 0 .. MaxEdits]
  /\ rootExists \in BOOLEAN
  /\ disk \subseteq [name : FileNames, body : FileBodies, run : 0 .. MaxRuns]
  /\ temporary \in FileNames \cup {NoFile}
  /\ run \in 0 .. MaxRuns
  /\ pc \in Running \cup Ended \cup {"ready"}
  /\ pos \in Plans
  /\ answer \in Decision \cup {NoAnswer}
  /\ decisions \in Seq(Decision)
  /\ gateOpen \in BOOLEAN
  /\ captures \in Seq(Capture \cup {Missing})
  /\ pairs \in Seq(Seq(Capture))
  /\ records \in Seq(Score)
  /\ file \in FileNames \cup {NoFile}
  /\ hung \in BOOLEAN
  /\ unblinded \in BOOLEAN

\* No verifier-side process is launched, and no observation or score reaches
\* the disk, until the decision of every arm plan is a file: the K = 0 promise,
\* kept across crashes and restarts (coordinator 162-174, hook 168-171).
BlindUntilDecided ==
  (unblinded \/ \E f \in disk : f.name[1] > Arm)
    => \A k \in Plans : OnDisk(<<Arm, k, 0>>)

\* Whatever interrupted the runs, the evidence on disk is a prefix of the
\* creation order: no file exists without every file that precedes it.
DiskIsPrefix ==
  \A f \in disk : \A name \in FileNames :
    Precedes(name, f.name) => OnDisk(name)

\* One root never holds evidence of two starts of the command (writer 69-70).
EvidenceFromOneRun == \A f, g \in disk : f.run = g.run

\* A published artifact stands on complete evidence: for every plan its own
\* decision, two equal captures and the score made of that transcript, and
\* every artifact is made of exactly the scores on disk (coordinator 211-255).
PublishedIsComplete ==
  \A f \in {g \in disk : g.name[1] = Report} :
    /\ Len(f.body) = 2 * NumSlots
    /\ \A k \in Plans :
         /\ \E d \in disk : d.name = <<Arm, k, 0>> /\ d.body[1].plan = k
         /\ \A part \in {1, 2} : \E c \in disk :
              /\ c.name = <<Observer, k, part>>
              /\ c.body = <<[plan |-> k, transcript |-> f.body[k].basis]>>
         /\ \E r \in disk :
              r.name = <<Evaluator, k, 0>> /\ r.body = <<f.body[k]>>
         /\ f.body[k].plan = k

\* The command reports success only over a complete root.
CompletedIsPublished ==
  pc = "completed" => \A name \in FileNames : OnDisk(name)

\* A recorded decision judged the planned bytes or none, when its candidate was
\* edited at most once: one edit cannot hide between the two hash checks.
DecidedOnPlannedBytes ==
  \A d \in disk :
    d.name[1] = Arm /\ edits[SlotOf(d.name[2])] <= 1
      => d.body[1].judged \in {Planned, Unread}

\* Evidence is never updated, overwritten or deleted (writer 53), and decisions
\* are frozen from the first verifier-side launch on.
NothingWithdrawn ==
  [][/\ disk \subseteq disk'
     /\ unblinded => {f \in disk' : f.name[1] = Arm} \subseteq disk]_vars

\* A started run ends, unless the role process it awaits never exits.
RunEndsUnlessHung == pc \in Running ~> (pc \in Ended \/ hung)

\* README.md:129-131 and docs/ARCHITECTURE.md:35-38: candidate bytes that drift
\* from the plan stop the run, so nothing is published about other bytes.
PublishedOnPlannedBytes ==
  (\E f \in disk : f.name[1] = Report) =>
    \A f \in disk : f.name[1] = Observer => f.body[1].transcript \in {Planned, Noise}

\* The run implements the abstract evaluation.
BE == INSTANCE BlindEvaluation WITH
  Reports <- 1 .. 4,
  decided <- {k \in Plans : OnDisk(<<Arm, k, 0>>)},
  observed <- {o \in Plans \X {1, 2} : OnDisk(<<Observer, o[1], o[2]>>)},
  scored <- {k \in Plans : OnDisk(<<Evaluator, k, 0>>)},
  published <- {r \in 1 .. 4 : OnDisk(<<Report, r, 0>>)}

ImplementsBlindEvaluation == BE!AbstractSpec

\* The output root behaves as the recovery assumes of its source: an arm record
\* or a later file appears only beside a temporary, and nothing observed
\* precedes a missing arm record.
Root == INSTANCE SourceRoot WITH
  decided <- {k \in Plans : OnDisk(<<Arm, k, 0>>)},
  cluttered <- temporary # NoFile,
  continued <- \E f \in disk : f.name[1] > Arm

ImplementsSourceRoot == Root!SourceSpec
=============================================================================
