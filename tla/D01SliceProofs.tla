----------------------------- MODULE D01SliceProofs -----------------------------
(***************************************************************************)
(* Theorems about D01Slice: the bytes its evidence stands on, that what it *)
(* returns belongs together, the deadlines of its processes, and what the  *)
(* claims derived from a log imply for any log.                            *)
(***************************************************************************)
EXTENDS D01Slice, SequenceTheorems, TLAPS

(***************************************************************************)
(* The claims.  This needs no invariant: it holds of every log.            *)
(***************************************************************************)
\* A log whose claims hold has both decisions before the verifier package
\* is opened and before any evaluator starts: the gate is between them.
THEOREM AcceptedLogIsBlind ==
  ASSUME NEW T, NEW l \in Seq(T), NEW p, ClaimsHold(l, p)
  PROVE  \A i, j \in DOMAIN l :
           IsDecision(l[i]) /\ (IsEvaluatorStart(l[j]) \/ l[j] = VerifierValidated) => i < j
<1>1. PICK g \in DOMAIN l : l[g] = AllDecided
  BY DEF ClaimsHold, ToSet
<1>2. DOMAIN l \subseteq Int
  OBVIOUS
<1>3. SUFFICES ASSUME NEW i \in DOMAIN l, NEW j \in DOMAIN l, IsDecision(l[i]),
                      IsEvaluatorStart(l[j]) \/ l[j] = VerifierValidated
               PROVE  i < j
  OBVIOUS
<1>4. i < g
  BY <1>1, <1>3 DEF ClaimsHold, OrderedAroundGate
<1>5. g < j
  BY <1>1, <1>3 DEF ClaimsHold, OrderedAroundGate, Before
<1> QED BY <1>2, <1>4, <1>5

(***************************************************************************)
(* Layer 1: types, and how much evidence there is at every slot.           *)
(***************************************************************************)
DecisionsAt(s) == IF s = <<1, 1>> THEN 0 ELSE IF s = <<2, 1>> THEN 1 ELSE 2
CapturesAt(s) == IF s[2] = 1 THEN 0 ELSE 2 * (s[1] - 1) + (s[2] - 2)
ScoresAt(s) == IF s[2] = 1 THEN 0 ELSE s[1] - 1

\* The slots before the last answer, and the phases after it.
Serving == {"ingest", "launch", "await", "gate"}
Served == {"close", "conclude", "returned"}

EvidenceMatchesSlot ==
  /\ pc = "ingest" => at = <<1, 1>>
  /\ pc = "gate" => at = <<1, 2>>
  /\ pc \in Serving =>
       /\ Len(decisions) = DecisionsAt(at)
       /\ Len(captures) = CapturesAt(at)
       /\ Len(scores) = ScoresAt(at)
  /\ pc \in Served => at = <<2, 4>> /\ Len(decisions) = 2 /\ Len(captures) = 4 /\ Len(scores) = 2

SliceInv == D01TypeOK /\ EvidenceMatchesSlot

\* The slot that follows, and what it adds.
LEMMA SlotSteps ==
  ASSUME NEW s \in ExecutionSlots, s # <<2, 4>>
  PROVE  /\ NextSlot(s) \in ExecutionSlots
         /\ s = <<1, 1>> => NextSlot(s) = <<2, 1>>
         /\ s = <<2, 1>> => NextSlot(s) = <<1, 2>>
         /\ s = <<1, 2>> => NextSlot(s) = <<1, 3>>
         /\ s = <<1, 3>> => NextSlot(s) = <<1, 4>>
         /\ s = <<1, 4>> => NextSlot(s) = <<2, 2>>
         /\ s = <<2, 2>> => NextSlot(s) = <<2, 3>>
         /\ s = <<2, 3>> => NextSlot(s) = <<2, 4>>
BY DEF ExecutionSlots, Arms, NextSlot

LEMMA SlotCases ==
  ASSUME NEW s \in ExecutionSlots
  PROVE  /\ s \in {<<1, 1>>, <<2, 1>>, <<1, 2>>, <<1, 3>>, <<1, 4>>, <<2, 2>>, <<2, 3>>, <<2, 4>>}
         /\ s \in ArmSlots <=> s = <<1, 1>> \/ s = <<2, 1>>
         /\ s \in ObserverSlots <=> s \in {<<1, 2>>, <<1, 3>>, <<2, 2>>, <<2, 3>>}
         /\ s \in EvaluatorSlots <=> s = <<1, 4>> \/ s = <<2, 4>>
BY DEF ExecutionSlots, ArmSlots, ObserverSlots, EvaluatorSlots, Arms

ControlTypes ==
  /\ pc \in {"ingest", "launch", "await", "gate", "close", "conclude", "returned", "failed"}
  /\ at \in ExecutionSlots
  /\ spent \in Nat /\ killAt \in Nat
  /\ reads \in Seq(Versions) /\ Len(reads) <= 4

\* Proceed leads to a slot, and resets what belongs to the process.
LEMMA ProceedTypes ==
  ASSUME D01TypeOK, Proceed
  PROVE  /\ ControlTypes'
         /\ at' \in ExecutionSlots
         /\ pc' \in {"gate", "close", "launch"}
         /\ spent' \in Nat /\ killAt' = 0 /\ reads' = << >>
         /\ at = <<2, 1>> => pc' = "gate" /\ at' = <<1, 2>>
         /\ at = <<2, 4>> => pc' = "close" /\ at' = <<2, 4>>
         /\ at \notin {<<2, 1>>, <<2, 4>>} => pc' = "launch" /\ at' = NextSlot(at)
BY SlotSteps DEF D01TypeOK, Proceed, ControlTypes

LEMMA EventTypes ==
  /\ AllDecided \in ExecutionEvent /\ VerifierValidated \in ExecutionEvent
  /\ \A s \in ExecutionSlots : Started(s) \in ExecutionEvent
  /\ \A s \in ExecutionSlots, b \in BOOLEAN : Completed(s, b) \in ExecutionEvent
<1>1. \A w \in EventKinds, s \in ExecutionSlots \cup {NoSlot}, b \in BOOLEAN :
        Event(w, s, b) \in ExecutionEvent
  BY DEF Event, ExecutionEvent
<1>2. /\ "started" \in EventKinds /\ "completed" \in EventKinds
      /\ "all_arm_decisions_finalized" \in EventKinds
      /\ "verifier_package_validated" \in EventKinds
  BY DEF EventKinds
<1>3. AllDecided \in ExecutionEvent /\ VerifierValidated \in ExecutionEvent
  BY <1>1, <1>2 DEF AllDecided, VerifierValidated
<1>4. \A s \in ExecutionSlots : Started(s) \in ExecutionEvent
  BY <1>1, <1>2 DEF Started
<1>5. \A s \in ExecutionSlots, b \in BOOLEAN : Completed(s, b) \in ExecutionEvent
  BY <1>1, <1>2 DEF Completed
<1> QED BY <1>3, <1>4, <1>5

LEMMA ProveTypes ==
  ASSUME D01TypeOK, Prove
  PROVE  events' \in Seq(ExecutionEvent) /\ proofs' \in Seq(ExecutionSlots)
<1>1. events \in Seq(ExecutionEvent) /\ proofs \in Seq(ExecutionSlots) /\ at \in ExecutionSlots
  BY DEF D01TypeOK
<1>2. Completed(at, TRUE) \in ExecutionEvent
  BY <1>1, EventTypes
<1> QED BY <1>1, <1>2, AppendProperties DEF Prove

\* The three ways a step ends: the slice fails, an arm is settled, or the
\* orchestrator only moves within the current slot.
LEMMA FailKeeps ==
  ASSUME SliceInv, Fail, UNCHANGED <<candidate, edits, evidence, log>>
  PROVE  SliceInv'
BY DEF SliceInv, D01TypeOK, EvidenceMatchesSlot, Fail, evidence, log, clock, Serving, Served

LEMMA ArmSettles ==
  ASSUME SliceInv, pc \in {"launch", "await"}, at \in ArmSlots, Proceed,
         NEW d \in ArmDecision, decisions' = Append(decisions, d),
         UNCHANGED <<candidate, edits, captures, scores>>,
         events' \in Seq(ExecutionEvent), proofs' \in Seq(ExecutionSlots)
  PROVE  SliceInv'
<1>1. D01TypeOK /\ at \in ExecutionSlots /\ (at = <<1, 1>> \/ at = <<2, 1>>)
  BY SlotCases DEF SliceInv, D01TypeOK
<1>2. Len(decisions) = DecisionsAt(at) /\ Len(captures) = 0 /\ Len(scores) = 0
  BY <1>1 DEF SliceInv, EvidenceMatchesSlot, Serving, CapturesAt, ScoresAt
<1>3. decisions' \in Seq(ArmDecision) /\ Len(decisions') = DecisionsAt(at) + 1
  BY <1>1, <1>2 DEF D01TypeOK
<1>4. D01TypeOK'
  <2>1. Len(decisions') <= 2
    BY <1>1, <1>3 DEF DecisionsAt
  <2>2. ControlTypes'
    BY <1>1, ProceedTypes
  <2> QED BY <1>1, <1>3, <2>1, <2>2 DEF D01TypeOK, ControlTypes
<1>5. EvidenceMatchesSlot'
  <2>1. CASE at = <<1, 1>>
    <3>1. pc' = "launch" /\ at' = <<2, 1>> /\ Len(decisions') = 1
      BY <1>1, <1>3, <2>1, ProceedTypes, SlotSteps DEF DecisionsAt
    <3> QED BY <1>2, <3>1 DEF EvidenceMatchesSlot, Serving, Served, DecisionsAt, CapturesAt, ScoresAt
  <2>2. CASE at = <<2, 1>>
    <3>1. pc' = "gate" /\ at' = <<1, 2>> /\ Len(decisions') = 2
      BY <1>1, <1>3, <2>2, ProceedTypes DEF DecisionsAt
    <3> QED BY <1>2, <3>1 DEF EvidenceMatchesSlot, Serving, Served, DecisionsAt, CapturesAt, ScoresAt
  <2> QED BY <1>1, <2>1, <2>2
<1> QED BY <1>4, <1>5 DEF SliceInv

LEMMA ObserverSettles ==
  ASSUME SliceInv, pc = "await", at \in ObserverSlots, Proceed,
         NEW c \in Observation, captures' = Append(captures, c),
         UNCHANGED <<candidate, edits, decisions, scores>>,
         events' \in Seq(ExecutionEvent), proofs' \in Seq(ExecutionSlots)
  PROVE  SliceInv'
<1>1. D01TypeOK /\ at \in ExecutionSlots /\ at \in {<<1, 2>>, <<1, 3>>, <<2, 2>>, <<2, 3>>}
  BY SlotCases DEF SliceInv, D01TypeOK
<1>2. Len(decisions) = 2 /\ Len(captures) = CapturesAt(at) /\ Len(scores) = ScoresAt(at)
  BY <1>1 DEF SliceInv, EvidenceMatchesSlot, Serving, DecisionsAt
<1>3. captures' \in Seq(Observation) /\ Len(captures') = CapturesAt(at) + 1
  <2>1. captures \in Seq(Observation)
    BY <1>1 DEF D01TypeOK
  <2> QED BY <1>2, <2>1, AppendProperties
<1>4. D01TypeOK'
  <2>1. Len(captures') <= 4
    BY <1>1, <1>3 DEF CapturesAt
  <2>2. ControlTypes'
    BY <1>1, ProceedTypes
  <2> QED BY <1>1, <1>3, <2>1, <2>2 DEF D01TypeOK, ControlTypes
<1>5. at' = NextSlot(at) /\ pc' = "launch"
  BY <1>1, ProceedTypes
<1>6. CapturesAt(at') = CapturesAt(at) + 1 /\ ScoresAt(at') = ScoresAt(at) /\ DecisionsAt(at') = 2
  BY <1>1, <1>5, SlotSteps DEF CapturesAt, ScoresAt, DecisionsAt
<1>7. EvidenceMatchesSlot'
  BY <1>2, <1>3, <1>5, <1>6 DEF EvidenceMatchesSlot, Serving, Served
<1> QED BY <1>4, <1>7 DEF SliceInv

LEMMA EvaluatorSettles ==
  ASSUME SliceInv, EvaluatorAnswers
  PROVE  SliceInv'
<1>1. D01TypeOK /\ at \in ExecutionSlots /\ at \in {<<1, 4>>, <<2, 4>>} /\ Proceed
  BY SlotCases DEF SliceInv, D01TypeOK, EvaluatorAnswers
<1>2. Len(decisions) = 2 /\ Len(captures) = CapturesAt(at) /\ Len(scores) = ScoresAt(at)
  BY <1>1 DEF SliceInv, EvidenceMatchesSlot, Serving, DecisionsAt, EvaluatorAnswers
<1> DEFINE score == [decision |-> decisions[at[1]], shows |-> Last(captures).shows]
<1>3. score \in EvaluatorResult
  <2>1. at[1] \in 1 .. Len(decisions) /\ Len(captures) \in 1 .. Len(captures)
    BY <1>1, <1>2 DEF CapturesAt
  <2>2. decisions[at[1]] \in ArmDecision /\ captures[Len(captures)] \in Observation
    BY <1>1, <2>1, ElementOfSeq DEF D01TypeOK
  <2> QED BY <2>2 DEF EvaluatorResult, Observation, Last
<1> HIDE DEF score
<1>4. scores' = Append(scores, score)
  BY DEF EvaluatorAnswers, score
<1>5. scores' \in Seq(EvaluatorResult) /\ Len(scores') = ScoresAt(at) + 1
  BY <1>1, <1>2, <1>3, <1>4 DEF D01TypeOK
<1>6. events' \in Seq(ExecutionEvent) /\ proofs' \in Seq(ExecutionSlots)
  BY <1>1, ProveTypes DEF EvaluatorAnswers
<1>7. D01TypeOK'
  <2>1. Len(scores') <= 2
    BY <1>1, <1>5 DEF ScoresAt
  <2> QED BY <1>1, <1>5, <1>6, <2>1, ProceedTypes DEF D01TypeOK, EvaluatorAnswers
<1>8. EvidenceMatchesSlot'
  <2>1. CASE at = <<1, 4>>
    <3>1. pc' = "launch" /\ at' = <<2, 2>> /\ Len(scores') = 1 /\ Len(captures') = 2 /\ Len(decisions') = 2
      BY <1>1, <1>2, <1>5, <2>1, ProceedTypes, SlotSteps DEF CapturesAt, ScoresAt, EvaluatorAnswers
    <3> QED BY <3>1 DEF EvidenceMatchesSlot, Serving, Served, DecisionsAt, CapturesAt, ScoresAt
  <2>2. CASE at = <<2, 4>>
    <3>1. pc' = "close" /\ at' = <<2, 4>> /\ Len(scores') = 2 /\ Len(captures') = 4 /\ Len(decisions') = 2
      BY <1>1, <1>2, <1>5, <2>2, ProceedTypes DEF CapturesAt, ScoresAt, EvaluatorAnswers
    <3> QED BY <3>1 DEF EvidenceMatchesSlot, Serving, Served
  <2> QED BY <1>1, <2>1, <2>2
<1> QED BY <1>7, <1>8 DEF SliceInv

LEMMA SliceInit == D01Init => SliceInv
BY D01VersionsAssumption, D01WindowsAssumption
   DEF D01Init, SliceInv, D01TypeOK, EvidenceMatchesSlot, ExecutionSlots, Arms, Serving, Served,
       DecisionsAt, CapturesAt, ScoresAt

LEMMA AbstentionType == Abstention \in ArmDecision
BY DEF Abstention, ArmDecision

LEMMA UntrustedKeeps ==
  ASSUME SliceInv, pc = "await", Untrusted
  PROVE  SliceInv'
<1>1. CASE at \in ArmSlots
  <2>1. Completed(at, FALSE) \in ExecutionEvent /\ events \in Seq(ExecutionEvent)
    BY EventTypes DEF SliceInv, D01TypeOK
  <2>e. events' = Append(events, Completed(at, FALSE)) /\ proofs' = proofs
    BY <1>1 DEF Untrusted
  <2>2. events' \in Seq(ExecutionEvent) /\ proofs' \in Seq(ExecutionSlots)
    BY <2>1, <2>e, AppendProperties DEF SliceInv, D01TypeOK
  <2> QED BY <1>1, <2>2, ArmSettles, AbstentionType DEF Untrusted
<1>2. CASE at \notin ArmSlots
  BY <1>2, FailKeeps DEF Untrusted
<1> QED BY <1>1, <1>2

LEMMA LaunchTooLateKeeps ==
  ASSUME SliceInv, LaunchTooLate
  PROVE  SliceInv'
<1>1. CASE at \in ArmSlots
  <2>1. /\ Completed(at, FALSE) \in ExecutionEvent /\ Started(at) \in ExecutionEvent
        /\ events \in Seq(ExecutionEvent)
    BY EventTypes DEF SliceInv, D01TypeOK
  <2>e. events' = events \o <<Started(at), Completed(at, FALSE)>> /\ proofs' = proofs
    BY <1>1 DEF LaunchTooLate
  <2>2. \A e, f \in ExecutionEvent : <<e, f>> \in Seq(ExecutionEvent)
    OBVIOUS
  <2> HIDE DEF ExecutionEvent, Started, Completed
  <2>3. events' \in Seq(ExecutionEvent) /\ proofs' \in Seq(ExecutionSlots)
    BY <2>1, <2>2, <2>e, ConcatProperties DEF SliceInv, D01TypeOK
  <2> QED BY <1>1, <2>3, ArmSettles, AbstentionType DEF LaunchTooLate
<1>2. CASE at \notin ArmSlots
  BY <1>2, FailKeeps DEF LaunchTooLate
<1> QED BY <1>1, <1>2

LEMMA ArmAnswersKeeps ==
  ASSUME SliceInv, ArmAnswers
  PROVE  SliceInv'
<1> DEFINE decision == [judged |-> ToSet(reads), proven |-> TRUE]
<1>1. decision \in ArmDecision
  <2>1. reads \in Seq(Versions)
    BY DEF SliceInv, D01TypeOK
  <2>2. ToSet(reads) \subseteq Versions
    BY <2>1, ElementOfSeq DEF ToSet
  <2> QED BY <2>2 DEF ArmDecision
<1> HIDE DEF decision
<1>2. events' \in Seq(ExecutionEvent) /\ proofs' \in Seq(ExecutionSlots)
  BY ProveTypes DEF ArmAnswers, SliceInv
<1> QED BY <1>1, <1>2, ArmSettles DEF ArmAnswers, decision

LEMMA ObserverAnswersKeeps ==
  ASSUME SliceInv, ObserverAnswers
  PROVE  SliceInv'
<1>1. reads \in Seq(Versions) /\ Len(reads) = 2
  BY SlotCases DEF SliceInv, D01TypeOK, ObserverAnswers, MayAnswerAfter
<1>2. PICK shown \in {reads[2], Common} :
        LET capture == [loaded |-> reads[2], shows |-> shown]
        IN IF PairDiffers(capture)
             THEN Fail /\ UNCHANGED <<captures, log>>
             ELSE captures' = Append(captures, capture) /\ Prove /\ Proceed
  BY DEF ObserverAnswers
<1> DEFINE capture == [loaded |-> reads[2], shows |-> shown]
<1>3. capture \in Observation
  BY <1>1 DEF Observation
<1> HIDE DEF capture
<1>4. CASE PairDiffers(capture)
  BY <1>2, <1>4, FailKeeps DEF ObserverAnswers, evidence, capture
<1>5. CASE ~PairDiffers(capture)
  <2>1. captures' = Append(captures, capture) /\ Prove /\ Proceed
    BY <1>2, <1>5 DEF capture
  <2>2. events' \in Seq(ExecutionEvent) /\ proofs' \in Seq(ExecutionSlots)
    BY <2>1, ProveTypes DEF SliceInv
  <2> QED BY <1>3, <2>1, <2>2, ObserverSettles DEF ObserverAnswers
<1> QED BY <1>4, <1>5

LEMMA SliceStep ==
  ASSUME SliceInv, [D01Next]_vars
  PROVE  SliceInv'
<1> USE DEF Serving, Served
<1>1. CASE Ingest
  <2>1. CASE candidate = Planned
    BY <1>1, <2>1 DEF Ingest, SliceInv, D01TypeOK, EvidenceMatchesSlot, evidence, log
  <2>2. CASE candidate # Planned
    BY <1>1, <2>2, FailKeeps DEF Ingest
  <2> QED BY <2>1, <2>2
<1>2. CASE PackageRefused
  BY <1>2, FailKeeps DEF PackageRefused
<1>3. CASE Launch
  <2>1. Started(at) \in ExecutionEvent /\ events \in Seq(ExecutionEvent)
    BY EventTypes DEF SliceInv, D01TypeOK
  <2>2. events' \in Seq(ExecutionEvent)
    BY <1>3, <2>1, AppendProperties DEF Launch
  <2>3. killAt' \in Nat
    BY <1>3, D01WindowsAssumption DEF Launch, Remaining, Window, SliceInv, D01TypeOK
  <2> QED BY <1>3, <2>2, <2>3 DEF Launch, SliceInv, D01TypeOK, EvidenceMatchesSlot, evidence
<1>4. CASE LaunchTooLate
  BY <1>4, LaunchTooLateKeeps
<1>5. CASE Gate
  <2>1. CASE candidate = Planned
    <3>1. <<AllDecided, VerifierValidated>> \in Seq(ExecutionEvent) /\ events \in Seq(ExecutionEvent)
      BY EventTypes DEF SliceInv, D01TypeOK
    <3>2. events' \in Seq(ExecutionEvent)
      BY <1>5, <2>1, <3>1, ConcatProperties DEF Gate
    <3> QED BY <1>5, <2>1, <3>2 DEF Gate, SliceInv, D01TypeOK, EvidenceMatchesSlot, evidence
  <2>2. CASE candidate # Planned
    BY <1>5, <2>2, FailKeeps DEF Gate
  <2> QED BY <2>1, <2>2
<1>6. CASE Close
  BY <1>6, FailKeeps DEF Close, SliceInv, D01TypeOK, EvidenceMatchesSlot, evidence, log, clock
<1>7. CASE Conclude
  BY <1>7, FailKeeps DEF Conclude, SliceInv, D01TypeOK, EvidenceMatchesSlot, evidence, log, clock
<1>8. CASE WorkerReads
  <2>1. reads' \in Seq(Versions) /\ Len(reads') <= 4
    BY <1>8, SlotCases DEF WorkerReads, MayAnswerAfter, SliceInv, D01TypeOK
  <2> QED BY <1>8, <2>1 DEF WorkerReads, SliceInv, D01TypeOK, EvidenceMatchesSlot, evidence, log, clock
<1>9. CASE ArmAnswers
  BY <1>9, ArmAnswersKeeps
<1>10. CASE ObserverAnswers
  BY <1>10, ObserverAnswersKeeps
<1>11. CASE EvaluatorAnswers
  BY <1>11, EvaluatorSettles
<1>12. CASE WorkerFails
  BY <1>12, UntrustedKeeps DEF WorkerFails
<1>13. CASE WorkerTimesOut
  BY <1>13, UntrustedKeeps DEF WorkerTimesOut
<1>14. CASE Tick
  BY <1>14 DEF Tick, SliceInv, D01TypeOK, EvidenceMatchesSlot, evidence, log
<1>15. CASE EditCandidate
  BY <1>15, D01WindowsAssumption
     DEF EditCandidate, SliceInv, D01TypeOK, EvidenceMatchesSlot, evidence, log, clock
<1>16. CASE UNCHANGED vars
  BY <1>16 DEF vars, SliceInv, D01TypeOK, EvidenceMatchesSlot, evidence, log, clock
<1> QED
  BY <1>1, <1>2, <1>3, <1>4, <1>5, <1>6, <1>7, <1>8, <1>9, <1>10, <1>11, <1>12, <1>13, <1>14,
     <1>15, <1>16 DEF D01Next, Orchestrator, Worker

\* The evidence has its types, and as many entries as the slot calls for.
THEOREM D01TypeCorrect == D01Spec => []D01TypeOK
<1>1. SliceInv => D01TypeOK
  BY DEF SliceInv
<1> QED BY <1>1, SliceInit, SliceStep, PTL DEF D01Spec

(***************************************************************************)
(* Layer 2: the deadlines.  A process is killed at the end of its window,  *)
(* however late in the window it was launched.                             *)
(***************************************************************************)
KilledAtWindowEnd == pc = "await" => killAt = Window(at) /\ spent <= killAt

LEMMA WindowStep ==
  ASSUME SliceInv, KilledAtWindowEnd, [D01Next]_vars
  PROVE  KilledAtWindowEnd'
<1> USE DEF KilledAtWindowEnd
<1>t. spent \in Nat /\ killAt \in Nat /\ Window(at) \in Nat /\ MaxSpent \in Nat
  BY D01WindowsAssumption DEF SliceInv, D01TypeOK, Window
<1>1. CASE Launch
  BY <1>t, <1>1 DEF Launch, Remaining, Window
<1>2. CASE Tick
  BY <1>t, <1>2 DEF Tick, Window
<1>3. CASE WorkerReads \/ EditCandidate \/ UNCHANGED vars
  BY <1>3 DEF WorkerReads, EditCandidate, vars, clock, Window
<1>4. CASE Proceed \/ Fail
  <2>1. pc' # "await"
    BY <1>4, ProceedTypes DEF Fail, SliceInv
  <2> QED BY <2>1
<1>5. CASE Ingest \/ PackageRefused \/ Gate \/ Close \/ Conclude
  BY <1>5 DEF Ingest, PackageRefused, Gate, Close, Conclude, Fail
<1>6. CASE LaunchTooLate \/ ArmAnswers \/ ObserverAnswers \/ EvaluatorAnswers \/ WorkerFails \/ WorkerTimesOut
  BY <1>4, <1>6 DEF LaunchTooLate, ArmAnswers, ObserverAnswers, EvaluatorAnswers, WorkerFails, WorkerTimesOut, Untrusted
<1> QED
  BY <1>1, <1>2, <1>3, <1>5, <1>6 DEF D01Next, Orchestrator, Worker

\* No process outlives the window it was launched in, whatever the windows.
THEOREM WindowCorrect == D01Spec => []ProcessWithinWindow
<1>1. D01Init => KilledAtWindowEnd
  BY DEF D01Init, KilledAtWindowEnd
<1>2. KilledAtWindowEnd => ProcessWithinWindow
  BY DEF KilledAtWindowEnd, ProcessWithinWindow
<1> QED BY <1>1, <1>2, SliceInit, SliceStep, WindowStep, PTL DEF D01Spec

(***************************************************************************)
(* Layer 3: what is returned belongs together.                             *)
(***************************************************************************)
PairsAgree ==
  /\ Len(captures) >= 2 => captures[2].shows = captures[1].shows
  /\ Len(captures) >= 4 => captures[4].shows = captures[3].shows
ScoreFrom(a, second) == [decision |-> decisions[a], shows |-> captures[second].shows]
ScoresBound ==
  /\ Len(scores) >= 1 => scores[1] = ScoreFrom(1, 2)
  /\ Len(scores) >= 2 => scores[2] = ScoreFrom(2, 4)
BoundInv == PairsAgree /\ ScoresBound

\* The decisions of the arms are settled before there is any other evidence.
LEMMA BoundArm ==
  ASSUME SliceInv, pc \in {"launch", "await"}, at \in ArmSlots, UNCHANGED <<captures, scores>>
  PROVE  BoundInv'
<1>1. at = <<1, 1>> \/ at = <<2, 1>>
  BY SlotCases DEF SliceInv, D01TypeOK
<1>2. Len(captures) = 0 /\ Len(scores) = 0
  BY <1>1 DEF SliceInv, EvidenceMatchesSlot, Serving, CapturesAt, ScoresAt
<1> QED BY <1>2 DEF BoundInv, PairsAgree, ScoresBound

LEMMA BoundObserver ==
  ASSUME SliceInv, BoundInv, ObserverAnswers
  PROVE  BoundInv'
<1>1. PICK c :
        IF PairDiffers(c)
          THEN UNCHANGED captures
          ELSE captures' = Append(captures, c)
  BY DEF ObserverAnswers
<1>2. UNCHANGED <<decisions, scores>>
  BY DEF ObserverAnswers
<1>3. CASE PairDiffers(c)
  BY <1>1, <1>2, <1>3 DEF BoundInv, PairsAgree, ScoresBound, ScoreFrom
<1>4. CASE ~PairDiffers(c)
  <2>1. /\ at \in {<<1, 2>>, <<1, 3>>, <<2, 2>>, <<2, 3>>}
        /\ captures \in Seq(Observation) /\ scores \in Seq(EvaluatorResult)
    BY SlotCases DEF SliceInv, D01TypeOK, ObserverAnswers
  <2>2. Len(captures) = CapturesAt(at) /\ Len(scores) = ScoresAt(at)
    BY DEF SliceInv, EvidenceMatchesSlot, Serving, ObserverAnswers
  <2>3. /\ Len(captures') = Len(captures) + 1
        /\ captures'[Len(captures) + 1] = c
        /\ \A i \in 1 .. Len(captures) : captures'[i] = captures[i]
    BY <1>1, <1>4, <2>1
  <2>4. at[2] = 3 => c.shows = captures[Len(captures)].shows
    BY <1>4 DEF PairDiffers, Last
  <2>5. /\ Len(captures) \in {1, 3} => at[2] = 3
        /\ Len(captures) \in 0 .. 3
        /\ Len(scores) >= 1 => Len(captures) >= 2
        /\ Len(scores) < 2
    <3>1. CASE at = <<1, 2>>
      BY <2>2, <3>1 DEF CapturesAt, ScoresAt
    <3>2. CASE at = <<1, 3>>
      BY <2>2, <3>2 DEF CapturesAt, ScoresAt
    <3>3. CASE at = <<2, 2>>
      BY <2>2, <3>3 DEF CapturesAt, ScoresAt
    <3>4. CASE at = <<2, 3>>
      BY <2>2, <3>4 DEF CapturesAt, ScoresAt
    <3> QED BY <2>1, <3>1, <3>2, <3>3, <3>4
  <2>6. PairsAgree'
    BY <2>3, <2>4, <2>5 DEF BoundInv, PairsAgree
  <2>7. ScoresBound'
    BY <1>2, <2>3, <2>5 DEF BoundInv, ScoresBound, ScoreFrom
  <2> QED BY <2>6, <2>7 DEF BoundInv
<1> QED BY <1>3, <1>4

LEMMA BoundEvaluator ==
  ASSUME SliceInv, BoundInv, EvaluatorAnswers
  PROVE  BoundInv'
<1>1. /\ at \in {<<1, 4>>, <<2, 4>>}
      /\ captures \in Seq(Observation) /\ scores \in Seq(EvaluatorResult)
  BY SlotCases DEF SliceInv, D01TypeOK, EvaluatorAnswers
<1>2. Len(captures) = CapturesAt(at) /\ Len(scores) = ScoresAt(at)
  BY DEF SliceInv, EvidenceMatchesSlot, Serving, EvaluatorAnswers
<1> DEFINE score == [decision |-> decisions[at[1]], shows |-> captures[Len(captures)].shows]
<1>3. scores' = Append(scores, score) /\ UNCHANGED <<decisions, captures>>
  BY DEF EvaluatorAnswers, Last
<1>4. /\ Len(scores') = Len(scores) + 1
      /\ scores'[Len(scores) + 1] = score
      /\ \A i \in 1 .. Len(scores) : scores'[i] = scores[i]
  BY <1>1, <1>3
<1>5. PairsAgree'
  BY <1>3 DEF BoundInv, PairsAgree
<1>6. /\ at[1] = Len(scores) + 1 /\ Len(captures) = 2 * at[1]
      /\ Len(scores) \in {0, 1}
  BY <1>1, <1>2 DEF CapturesAt, ScoresAt
<1>7. ScoresBound'
  <2>1. CASE Len(scores) = 0
    BY <1>3, <1>4, <1>6, <2>1 DEF BoundInv, ScoresBound, ScoreFrom
  <2>2. CASE Len(scores) = 1
    BY <1>3, <1>4, <1>6, <2>2 DEF BoundInv, ScoresBound, ScoreFrom
  <2> QED BY <1>6, <2>1, <2>2
<1> QED BY <1>5, <1>7 DEF BoundInv

LEMMA BoundStep ==
  ASSUME SliceInv, BoundInv, [D01Next]_vars
  PROVE  BoundInv'
<1>1. CASE UNCHANGED evidence
  BY <1>1 DEF BoundInv, PairsAgree, ScoresBound, ScoreFrom, evidence
<1>2. CASE Untrusted /\ pc = "await"
  <2>1. CASE at \in ArmSlots
    BY <1>2, <2>1, BoundArm DEF Untrusted
  <2>2. CASE at \notin ArmSlots
    BY <1>1, <1>2, <2>2 DEF Untrusted
  <2> QED BY <2>1, <2>2
<1>3. CASE LaunchTooLate
  <2>1. CASE at \in ArmSlots
    BY <1>3, <2>1, BoundArm DEF LaunchTooLate
  <2>2. CASE at \notin ArmSlots
    BY <1>1, <1>3, <2>2 DEF LaunchTooLate
  <2> QED BY <2>1, <2>2
<1>4. CASE ArmAnswers
  BY <1>4, BoundArm DEF ArmAnswers
<1>5. CASE ObserverAnswers
  BY <1>5, BoundObserver
<1>6. CASE EvaluatorAnswers
  BY <1>6, BoundEvaluator
<1>7. CASE WorkerFails \/ WorkerTimesOut
  BY <1>2, <1>7 DEF WorkerFails, WorkerTimesOut
<1>8. CASE \/ Ingest \/ PackageRefused \/ Launch \/ Gate \/ Close \/ Conclude \/ WorkerReads
           \/ Tick \/ EditCandidate \/ UNCHANGED vars
  BY <1>1, <1>8 DEF Ingest, PackageRefused, Launch, Gate, Close, Conclude, WorkerReads, Tick,
                    EditCandidate, vars
<1> QED
  BY <1>3, <1>4, <1>5, <1>6, <1>7, <1>8 DEF D01Next, Orchestrator, Worker

\* Each score of a returned slice stands on its arm's decision and on a
\* transcript both captures of that arm show.
THEOREM BoundCorrect == D01Spec => []ReturnedIsBound
<1>1. D01Init => BoundInv
  BY DEF D01Init, BoundInv, PairsAgree, ScoresBound
<1>2. SliceInv /\ BoundInv => ReturnedIsBound
  <2>1. SUFFICES ASSUME SliceInv, BoundInv, pc = "returned", NEW a \in Arms
                 PROVE  /\ scores[a].decision = decisions[a]
                        /\ scores[a].shows = captures[2 * a - 1].shows
                        /\ scores[a].shows = captures[2 * a].shows
    BY DEF ReturnedIsBound
  <2>2. Len(captures) = 4 /\ Len(scores) = 2
    BY <2>1 DEF SliceInv, EvidenceMatchesSlot, Served
  <2>3. a \in {1, 2}
    BY <2>1 DEF Arms
  <2>4. CASE a = 1
    BY <2>1, <2>2, <2>4 DEF BoundInv, PairsAgree, ScoresBound, ScoreFrom
  <2>5. CASE a = 2
    BY <2>1, <2>2, <2>5 DEF BoundInv, PairsAgree, ScoresBound, ScoreFrom
  <2> QED BY <2>3, <2>4, <2>5
<1> QED BY <1>1, <1>2, SliceInit, SliceStep, BoundStep, PTL DEF D01Spec

(***************************************************************************)
(* Layer 4: the bytes.  An edited candidate never returns to the planned   *)
(* bytes by a single edit, and the last comparison is after the last       *)
(* reading; so whatever was read before it stands on the planned bytes.    *)
(***************************************************************************)
ReadPlanned ==
  /\ \A i \in DOMAIN reads : reads[i] = Planned
  /\ \A i \in DOMAIN decisions : decisions[i].judged \subseteq {Planned}
  /\ \A i \in DOMAIN captures : captures[i].loaded = Planned

BytesInv ==
  /\ edits = 0 => candidate = Planned /\ ReadPlanned
  /\ edits = 1 => candidate # Planned
  /\ pc \in {"conclude", "returned"} /\ edits <= 1 => ReadPlanned

\* A proven decision was made on bytes the worker read.
ProvenReads == \A i \in DOMAIN decisions : decisions[i].proven => decisions[i].judged # {}
ReturnedProven == pc = "returned" => \A a \in Arms : decisions[a].proven

LEMMA ProceedClears ==
  ASSUME D01TypeOK, Proceed
  PROVE  pc' \notin {"conclude", "returned"} /\ \A i \in DOMAIN (reads') : FALSE
<1>1. pc' \in {"gate", "close", "launch"} /\ reads' = << >>
  BY ProceedTypes
<1> QED BY <1>1

LEMMA DecisionAppended ==
  ASSUME SliceInv, NEW d \in ArmDecision, decisions' = Append(decisions, d)
  PROVE  \A i \in DOMAIN (decisions') : (i \in DOMAIN decisions /\ decisions'[i] = decisions[i]) \/ decisions'[i] = d
BY SMTT(30) DEF SliceInv, D01TypeOK

\* An arm that is settled keeps the two invariants if its decision does.
LEMMA BytesArm ==
  ASSUME SliceInv, BytesInv, ProvenReads, Proceed, UNCHANGED <<candidate, edits, captures>>,
         NEW d \in ArmDecision, decisions' = Append(decisions, d),
         edits = 0 => d.judged \subseteq {Planned}, d.proven => d.judged # {}
  PROVE  BytesInv' /\ ProvenReads' /\ ReturnedProven'
<1>1. /\ pc' \notin {"conclude", "returned"}
      /\ \A i \in DOMAIN (reads') : FALSE
  BY ProceedClears DEF SliceInv
<1>2. \A i \in DOMAIN (decisions') :
        (i \in DOMAIN decisions /\ decisions'[i] = decisions[i]) \/ decisions'[i] = d
  BY DecisionAppended
<1>3. ProvenReads'
  BY <1>2 DEF ProvenReads
<1>4. edits = 0 => ReadPlanned'
  BY <1>1, <1>2 DEF BytesInv, ReadPlanned
<1> QED BY <1>1, <1>3, <1>4 DEF BytesInv, ReturnedProven

LEMMA BytesUntrusted ==
  ASSUME SliceInv, BytesInv, ProvenReads, UNCHANGED <<candidate, edits>>,
         \/ /\ decisions' = Append(decisions, Abstention)
            /\ Proceed
            /\ UNCHANGED captures
         \/ Fail /\ UNCHANGED evidence
  PROVE  BytesInv' /\ ProvenReads' /\ ReturnedProven'
<1>1. CASE Fail /\ UNCHANGED evidence
  BY <1>1 DEF Fail, evidence, BytesInv, ReadPlanned, ProvenReads, ReturnedProven
<1>2. CASE decisions' = Append(decisions, Abstention) /\ Proceed /\ UNCHANGED captures
  <2>1. Abstention.judged = {} /\ Abstention.proven = FALSE
    BY DEF Abstention
  <2> QED BY <1>2, <2>1, AbstentionType, BytesArm
<1> QED BY <1>1, <1>2

LEMMA BytesArmAnswers ==
  ASSUME SliceInv, BytesInv, ProvenReads, ArmAnswers
  PROVE  BytesInv' /\ ProvenReads' /\ ReturnedProven'
<1> DEFINE d == [judged |-> ToSet(reads), proven |-> TRUE]
<1>1. reads \in Seq(Versions) /\ Len(reads) \in {3, 4}
  BY SMTT(30), SlotCases DEF ArmAnswers, SliceInv, D01TypeOK, MayAnswerAfter
<1>2. d.judged = {reads[i] : i \in DOMAIN reads}
  BY DEF ToSet
<1>3. d \in ArmDecision /\ d.judged # {}
  <2>1. reads[1] \in d.judged
    BY <1>1, <1>2
  <2>2. d.judged \subseteq Versions
    BY <1>1, <1>2, ElementOfSeq
  <2> QED BY <2>1, <2>2 DEF ArmDecision
<1>4. edits = 0 => d.judged \subseteq {Planned}
  BY <1>2 DEF BytesInv, ReadPlanned
<1>5. decisions' = Append(decisions, d) /\ Proceed /\ UNCHANGED <<candidate, edits, captures>>
  BY DEF ArmAnswers
<1> HIDE DEF d
<1> QED BY <1>3, <1>4, <1>5, BytesArm

LEMMA BytesObserver ==
  ASSUME SliceInv, BytesInv, ProvenReads, ObserverAnswers
  PROVE  BytesInv' /\ ProvenReads' /\ ReturnedProven'
<1>1. reads \in Seq(Versions) /\ Len(reads) = 2 /\ captures \in Seq(Observation)
  BY SlotCases DEF SliceInv, D01TypeOK, ObserverAnswers, MayAnswerAfter
<1>2. PICK shown \in {reads[2], Common} :
        LET capture == [loaded |-> reads[2], shows |-> shown]
        IN IF PairDiffers(capture)
             THEN Fail /\ UNCHANGED <<captures, log>>
             ELSE captures' = Append(captures, capture) /\ Prove /\ Proceed
  BY DEF ObserverAnswers
<1> DEFINE capture == [loaded |-> reads[2], shows |-> shown]
<1>3. capture \in Observation /\ capture.loaded = reads[2]
  BY <1>1 DEF Observation
<1> HIDE DEF capture
<1>4. UNCHANGED <<candidate, edits, decisions>>
  BY DEF ObserverAnswers
<1>5. ProvenReads'
  BY <1>4 DEF ProvenReads
<1>6. CASE PairDiffers(capture)
  <2>1. Fail /\ UNCHANGED captures
    BY <1>2, <1>6 DEF capture
  <2> QED BY <1>4, <1>5, <2>1 DEF Fail, BytesInv, ReadPlanned, ReturnedProven
<1>7. CASE ~PairDiffers(capture)
  <2>1. captures' = Append(captures, capture) /\ Proceed
    BY <1>2, <1>7 DEF capture
  <2>2. \A i \in DOMAIN (captures') :
          (i \in DOMAIN captures /\ captures'[i] = captures[i]) \/ captures'[i] = capture
    BY <1>1, <1>3, <2>1
  <2>3. pc' \notin {"conclude", "returned"} /\ \A i \in DOMAIN (reads') : FALSE
    BY <2>1, ProceedClears DEF SliceInv
  <2>4. edits = 0 => ReadPlanned'
    BY <1>1, <1>3, <1>4, <2>2, <2>3 DEF BytesInv, ReadPlanned
  <2> QED BY <1>4, <1>5, <2>3, <2>4 DEF BytesInv, ReturnedProven
<1> QED BY <1>6, <1>7

LEMMA BytesStep ==
  ASSUME SliceInv, BytesInv, ProvenReads, ReturnedProven, [D01Next]_vars
  PROVE  BytesInv' /\ ProvenReads' /\ ReturnedProven'
<1> USE DEF BytesInv, ReadPlanned, ProvenReads, ReturnedProven
<1>t. edits \in Nat
  BY D01WindowsAssumption DEF SliceInv, D01TypeOK
<1>1. CASE Ingest \/ PackageRefused \/ Launch \/ Gate
  BY <1>1 DEF Ingest, PackageRefused, Launch, Gate, Fail, evidence
<1>2. CASE Close
  BY <1>t, <1>2 DEF Close, Fail, evidence
<1>3. CASE Conclude
  BY <1>3 DEF Conclude, Fail, evidence
<1>4. CASE WorkerReads
  <2>1. reads \in Seq(Versions) /\ candidate \in Versions
    BY DEF SliceInv, D01TypeOK
  <2>2. \A i \in DOMAIN (reads') : (i \in DOMAIN reads /\ reads'[i] = reads[i]) \/ reads'[i] = candidate
    BY <1>4, <2>1 DEF WorkerReads
  <2> QED BY <1>4, <2>2 DEF WorkerReads, evidence
<1>5. CASE ArmAnswers
  BY <1>5, BytesArmAnswers
<1>6. CASE ObserverAnswers
  BY <1>6, BytesObserver
<1>7. CASE EvaluatorAnswers
  BY <1>7, ProceedClears DEF EvaluatorAnswers, SliceInv
<1>8. CASE LaunchTooLate \/ WorkerFails \/ WorkerTimesOut
  BY <1>8, BytesUntrusted DEF LaunchTooLate, WorkerFails, WorkerTimesOut, Untrusted, evidence
<1>9. CASE Tick
  BY <1>9 DEF Tick, evidence
<1>10. CASE EditCandidate
  BY <1>t, <1>10 DEF EditCandidate, evidence
<1>11. CASE UNCHANGED vars
  BY <1>11 DEF vars, evidence
<1> QED
  BY <1>1, <1>2, <1>3, <1>4, <1>5, <1>6, <1>7, <1>8, <1>9, <1>10, <1>11
     DEF D01Next, Orchestrator, Worker

\* A slice over a candidate that was edited at most once returns evidence
\* only about the planned bytes, for any contents, windows and bounds.
THEOREM ReturnedBytesCorrect == D01Spec => []ReturnedOnPlannedBytes
<1>1. D01Init => BytesInv /\ ProvenReads /\ ReturnedProven
  BY DEF D01Init, BytesInv, ReadPlanned, ProvenReads, ReturnedProven
<1>2. SliceInv /\ BytesInv /\ ProvenReads /\ ReturnedProven => ReturnedOnPlannedBytes
  <2>1. SUFFICES ASSUME SliceInv, BytesInv, ProvenReads, ReturnedProven,
                        pc = "returned", edits <= 1
                 PROVE  /\ \A d \in ToSet(decisions) : d.judged = {Planned}
                        /\ \A c \in ToSet(captures) : c.loaded = Planned
    BY DEF ReturnedOnPlannedBytes
  <2>2. ReadPlanned
    BY <2>1 DEF BytesInv
  <2>3. decisions \in Seq(ArmDecision) /\ Len(decisions) = 2
    BY <2>1 DEF SliceInv, D01TypeOK, EvidenceMatchesSlot, Served
  <2>4. \A i \in DOMAIN decisions : decisions[i].judged = {Planned}
    <3>1. DOMAIN decisions = Arms
      BY <2>3 DEF Arms
    <3> QED BY <2>1, <2>2, <3>1 DEF ReadPlanned, ProvenReads, ReturnedProven
  <2> QED BY <2>2, <2>4 DEF ReadPlanned, ToSet
<1> QED BY <1>1, <1>2, SliceInit, SliceStep, BytesStep, PTL DEF D01Spec

(***************************************************************************)
(* The claims a returned slice makes, from whichever order of its log.     *)
(***************************************************************************)
\* No exchange of two neighbouring blocks is accepted with an evaluator or
\* the verifier package before a decision.
THEOREM ClaimsCorrect == D01Spec => []ClaimsAreSound
<1>1. D01TypeOK => ClaimsAreSound
  <2>1. SUFFICES ASSUME D01TypeOK, NEW l \in BlockExchanges(events), ClaimsHold(l, proofs)
                 PROVE  \A i, j \in DOMAIN l :
                          IsDecision(l[i]) /\ (IsEvaluatorStart(l[j]) \/ l[j] = VerifierValidated) => i < j
    BY DEF ClaimsAreSound
  <2>2. l \in Seq(ExecutionEvent)
    <3>1. events \in Seq(ExecutionEvent)
      BY <2>1 DEF D01TypeOK
    <3>2. PICK i, j, k : /\ j \in 1 .. Len(events) /\ i \in 0 .. j - 1 /\ k \in j + 1 .. Len(events)
                         /\ l = Exchange(events, i, j, k)
      <4>1. PICK j \in 1 .. Len(events) :
              l \in {Exchange(events, i, j, k) : i \in 0 .. j - 1, k \in j + 1 .. Len(events)}
        BY DEF BlockExchanges
      <4>2. PICK i \in 0 .. j - 1, k \in j + 1 .. Len(events) : l = Exchange(events, i, j, k)
        BY <4>1
      <4> QED BY <4>1, <4>2
    <3>3. /\ SubSeq(events, 1, i) \in Seq(ExecutionEvent)
          /\ SubSeq(events, j + 1, k) \in Seq(ExecutionEvent)
          /\ SubSeq(events, i + 1, j) \in Seq(ExecutionEvent)
          /\ SubSeq(events, k + 1, Len(events)) \in Seq(ExecutionEvent)
      BY <3>1, <3>2, SubSeqProperties
    <3> QED BY <3>2, <3>3, ConcatProperties DEF Exchange
  <2> QED BY <2>1, <2>2, AcceptedLogIsBlind
<1> QED BY <1>1, D01TypeCorrect, PTL
=============================================================================
