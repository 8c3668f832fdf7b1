-------------------------------- MODULE D01Slice --------------------------------
(***************************************************************************)
(* The D01 vertical slice: one candidate is judged by two arms, observed   *)
(* twice and scored per arm, by eight isolated processes that the          *)
(* orchestrator launches one after the other.                              *)
(*                                                                         *)
(* What makes it hard: the workers open the candidate file themselves,     *)
(* several times, while it may be edited; every process runs under a       *)
(* deadline, and the three processes of an arm's finalization share one;   *)
(* a failed arm abstains and the slice goes on, any other failure ends it; *)
(* and what the evidence claims is derived from the log, once by the       *)
(* orchestrator and again by whoever replays the stored evidence.          *)
(***************************************************************************)
EXTENDS Naturals, Sequences, FiniteSets, SequencesExt

CONSTANTS
  Versions,      \* byte contents the candidate file can have
  Planned,       \* the content whose digest is frozen in the manifest
  Common,        \* a transcript that several contents can show
  EngineBudget,  \* window of an arm process (165 seconds)
  Reserve,       \* window of the three processes of one finalization (15 seconds)
  MaxEdits,      \* bound on edits of the candidate
  MaxSpent       \* bound on the time measured in one window

ASSUME D01VersionsAssumption == Planned \in Versions /\ Common \notin Versions
ASSUME D01WindowsAssumption ==
  /\ EngineBudget \in Nat \ {0}
  /\ Reserve \in Nat \ {0}
  /\ MaxEdits \in Nat
  /\ MaxSpent \in Nat

(***************************************************************************)
(* An execution slot is <<arm, part>>: arm 1 is status-quo and 2 is        *)
(* beyondgreen; part 1 is the arm worker, 2 and 3 are the observers and 4  *)
(* is the evaluator.                                                       *)
(***************************************************************************)
Arms == {1, 2}
ArmSlots == Arms \X {1}
ObserverSlots == Arms \X {2, 3}
EvaluatorSlots == Arms \X {4}
ExecutionSlots == Arms \X (1 .. 4)

\* Mutant: the finalization of the second arm is never begun.
NextSlotOneArm(s) ==
  CASE s = <<1, 1>> -> <<2, 1>>
    [] s = <<2, 1>> -> <<1, 2>>
    [] OTHER -> <<s[1], s[2] + 1>>

\* The order of the calls.  An arm worker and the first observer of an arm
\* open a window of their own.
NextSlot(s) ==
  CASE s = <<1, 1>> -> <<2, 1>>
    [] s = <<2, 1>> -> <<1, 2>>
    [] s = <<1, 4>> -> <<2, 2>>
    [] OTHER -> <<s[1], s[2] + 1>>
OpensWindow(s) == s[2] \in {1, 2}
Window(s) == IF s \in ArmSlots THEN EngineBudget ELSE Reserve

VARIABLES
  candidate,  \* bytes of the candidate file
  edits,      \* how often it was edited (ghost)
  pc,         \* where the orchestrator is
  at,         \* the execution slot it is at
  spent,      \* time since the current window was opened
  killAt,     \* when the running process is killed
  reads,      \* the bytes that process read so far, read by read
  decisions,  \* finalized decision of each arm
  captures,   \* the two captures of each arm
  scores,     \* evaluator result of each arm
  events,     \* executionEvents
  proofs      \* capabilityProofs, by the slot they prove

evidence == <<decisions, captures, scores>>
log == <<events, proofs>>
clock == <<spent, killAt>>
vars == <<candidate, edits, pc, at, clock, reads, evidence, log>>

\* A decision keeps the bytes it was made on (ghost) and whether it carries
\* the proof of a completed process; an operational abstention has neither.
Abstention == [judged |-> {}, proven |-> FALSE]
ArmDecision == [judged : SUBSET Versions, proven : BOOLEAN]
Observation == [loaded : Versions, shows : Versions \cup {Common}]
EvaluatorResult == [decision : ArmDecision, shows : Versions \cup {Common}]

(***************************************************************************)
(* Events and the claims derived from them.                                *)
(***************************************************************************)
Event(what, slot, proven) == [what |-> what, slot |-> slot, proven |-> proven]
NoSlot == <<0, 0>>
EventKinds == {"started", "completed", "all_arm_decisions_finalized", "verifier_package_validated"}
ExecutionEvent == [what : EventKinds, slot : ExecutionSlots \cup {NoSlot}, proven : BOOLEAN]
Started(s) == Event("started", s, FALSE)
Completed(s, proven) == Event("completed", s, proven)
AllDecided == Event("all_arm_decisions_finalized", NoSlot, FALSE)
VerifierValidated == Event("verifier_package_validated", NoSlot, FALSE)

Before(l, e, f) == \A i, j \in DOMAIN l : l[i] = e /\ l[j] = f => i < j
Count(l, Test(_)) == Cardinality({i \in DOMAIN l : Test(l[i])})
IsDecision(e) == e.what = "completed" /\ e.slot \in ArmSlots
IsEvaluatorStart(e) == e.what = "started" /\ e.slot \in EvaluatorSlots
IsProven(e) == e.proven

\* The decisions of both arms, then the gate, then the verifier package,
\* and every evaluator after the gate.
OrderedAroundGate(l) ==
  /\ \A i, j \in DOMAIN l : l[j] = AllDecided /\ IsDecision(l[i]) => i < j
  /\ Before(l, AllDecided, VerifierValidated)
  /\ \A i, j \in DOMAIN l : l[i] = AllDecided /\ IsEvaluatorStart(l[j]) => i < j

\* The per-arm state machine: eight events, part by part.
ArmEvents(l, a) == SelectSeq(l, LAMBDA e : e.slot[1] = a)
ExpectedKinds(a) ==
  [i \in 1 .. 8 |-> <<IF i % 2 = 1 THEN "started" ELSE "completed", <<a, (i + 1) \div 2>>>>]
FollowsArmMachine(l, a) ==
  LET own == ArmEvents(l, a)
  IN /\ Len(own) = 8
     /\ \A i \in 1 .. 8 : <<own[i].what, own[i].slot>> = ExpectedKinds(a)[i]

\* Every slot proven exactly once, by the event that reports its completion.
ProofsMatch(l, p) ==
  /\ IsInjective(p)
  /\ ToSet(p) = ExecutionSlots
  /\ Count(l, IsProven) = Len(p)
  /\ \A i \in DOMAIN l : l[i].proven => l[i].slot \in ToSet(p)

\* Mutant: the evaluators are not compared with the gate.
ClaimsHoldUngated(l, p) ==
  /\ Len(l) = 18 /\ Len(p) = 8
  /\ AllDecided \in ToSet(l) /\ VerifierValidated \in ToSet(l)
  /\ ProofsMatch(l, p)
  /\ \A a \in Arms : FollowsArmMachine(l, a)

\* deriveExecutionClaims does not throw.
ClaimsHold(l, p) ==
  /\ Len(l) = 8 * Cardinality(Arms) + 2
  /\ Len(p) = 4 * Cardinality(Arms)
  /\ AllDecided \in ToSet(l) /\ VerifierValidated \in ToSet(l)
  /\ OrderedAroundGate(l)
  /\ ProofsMatch(l, p)
  /\ \A a \in Arms : FollowsArmMachine(l, a)

(***************************************************************************)
(* Deadlines.                                                              *)
(***************************************************************************)
\* Mutants: a fresh window for every process; no deadline at all.
RemainingFresh(s) == Window(s)
RemainingForever(s) == MaxSpent + 1

\* The time left in the current window; it becomes the timeout of the
\* process that is launched.
Remaining(s) == IF spent < Window(s) THEN Window(s) - spent ELSE 0

D01Init ==
  /\ candidate = Planned
  /\ edits = 0
  /\ pc = "ingest"
  /\ at = <<1, 1>>
  /\ spent = 0
  /\ killAt = 0
  /\ reads = << >>
  /\ decisions = << >>
  /\ captures = << >>
  /\ scores = << >>
  /\ events = << >>
  /\ proofs = << >>

(***************************************************************************)
(* Control of the orchestrator.                                            *)
(***************************************************************************)
Fail == pc' = "failed" /\ UNCHANGED <<at, clock, reads>>

\* The process of the current slot is settled: go on to the next one.
Proceed ==
  /\ pc' = CASE at = <<2, 1>> -> "gate"
             [] at = <<2, 4>> -> "close"
             [] OTHER -> "launch"
  /\ at' = IF at = <<2, 4>> THEN at ELSE NextSlot(at)
  /\ spent' = IF at # <<2, 4>> /\ OpensWindow(NextSlot(at)) THEN 0 ELSE spent
  /\ killAt' = 0
  /\ reads' = << >>

\* The arm-visible package and the candidate are compared with the frozen
\* digests.  A package that differs ends the slice (PackageRefused).
Ingest ==
  /\ pc = "ingest"
  /\ IF candidate = Planned
       THEN pc' = "launch" /\ spent' = 0 /\ UNCHANGED <<at, killAt, reads>>
       ELSE Fail
  /\ UNCHANGED <<candidate, edits, evidence, log>>

PackageRefused ==
  /\ pc \in {"ingest", "gate"}
  /\ Fail
  /\ UNCHANGED <<candidate, edits, evidence, log>>

Launch ==
  /\ pc = "launch"
  /\ Remaining(at) > 0
  /\ pc' = "await"
  /\ killAt' = spent + Remaining(at)
  /\ events' = Append(events, Started(at))
  /\ UNCHANGED <<candidate, edits, at, spent, reads, evidence, proofs>>

\* The window is over before the process could be launched.
LaunchTooLate ==
  /\ pc = "launch"
  /\ Remaining(at) = 0
  /\ IF at \in ArmSlots
       THEN /\ decisions' = Append(decisions, Abstention)
            /\ events' = events \o <<Started(at), Completed(at, FALSE)>>
            /\ Proceed
            /\ UNCHANGED <<captures, scores, proofs>>
       ELSE Fail /\ UNCHANGED <<evidence, log>>
  /\ UNCHANGED <<candidate, edits>>

(***************************************************************************)
(* The workers.  Their first read is ingestCandidate, which fails unless   *)
(* it finds the planned bytes.  An arm worker then compiles and imports    *)
(* the file, and beyondgreen reads it once more for the risk inventory     *)
(* unless the import failed; an observer imports it; an evaluator may not  *)
(* open it.                                                                *)
(***************************************************************************)
MayAnswerAfter(s) ==
  CASE s = <<1, 1>> -> {3}
    [] s = <<2, 1>> -> {3, 4}
    [] s \in ObserverSlots -> {2}
    [] OTHER -> {0}

WorkerReads ==
  /\ pc = "await"
  /\ \E n \in MayAnswerAfter(at) : Len(reads) < n
  /\ reads = << >> => candidate = Planned
  /\ reads' = Append(reads, candidate)
  /\ UNCHANGED <<candidate, edits, pc, at, clock, evidence, log>>

\* A capability proof binds what the runner launched to what the worker
\* reports; it is recorded with the event of the completed process.
Prove ==
  /\ proofs' = Append(proofs, at)
  /\ events' = Append(events, Completed(at, TRUE))

ArmAnswers ==
  /\ pc = "await"
  /\ at \in ArmSlots
  /\ Len(reads) \in MayAnswerAfter(at)
  /\ decisions' = Append(decisions, [judged |-> ToSet(reads), proven |-> TRUE])
  /\ Prove
  /\ Proceed
  /\ UNCHANGED <<candidate, edits, captures, scores>>

\* Mutant: the captures of a pair are not compared.
PairDiffersNever(c) == FALSE

\* finalizeObservationPair refuses two captures that show different things.
PairDiffers(c) == at[2] = 3 /\ c.shows # Last(captures).shows

ObserverAnswers ==
  /\ pc = "await"
  /\ at \in ObserverSlots
  /\ Len(reads) \in MayAnswerAfter(at)
  /\ \E shown \in {reads[2], Common} :
       LET capture == [loaded |-> reads[2], shows |-> shown]
       IN IF PairDiffers(capture)
            THEN Fail /\ UNCHANGED <<captures, log>>
            ELSE captures' = Append(captures, capture) /\ Prove /\ Proceed
  /\ UNCHANGED <<candidate, edits, decisions, scores>>

\* The evaluator scores what it is given: the decision of the arm it was
\* launched for, and the pair just made.
EvaluatorAnswers ==
  /\ pc = "await"
  /\ at \in EvaluatorSlots
  /\ scores' = Append(scores, [decision |-> decisions[at[1]], shows |-> Last(captures).shows])
  /\ Prove
  /\ Proceed
  /\ UNCHANGED <<candidate, edits, decisions, captures>>

\* A worker that ended without a trustworthy answer: an arm abstains, and
\* nothing else may go wrong.
Untrusted ==
  /\ IF at \in ArmSlots
       THEN /\ decisions' = Append(decisions, Abstention)
            /\ events' = Append(events, Completed(at, FALSE))
            /\ Proceed
            /\ UNCHANGED <<captures, scores, proofs>>
       ELSE Fail /\ UNCHANGED <<evidence, log>>
  /\ UNCHANGED <<candidate, edits>>

\* It exited with an error, or its output is no valid evidence.
WorkerFails == pc = "await" /\ Untrusted

\* It was killed at its deadline.
WorkerTimesOut == pc = "await" /\ spent >= killAt /\ Untrusted

(***************************************************************************)
(* Between the arms and the finalizations, and at the end.                 *)
(***************************************************************************)
Gate ==
  /\ pc = "gate"
  /\ IF candidate = Planned
       THEN /\ pc' = "launch"
            /\ spent' = 0
            /\ events' = events \o <<AllDecided, VerifierValidated>>
            /\ UNCHANGED <<at, killAt, reads, proofs>>
       ELSE Fail /\ UNCHANGED log
  /\ UNCHANGED <<candidate, edits, evidence>>

\* Mutant: the candidate is not compared once more.
CloseBlindly ==
  /\ pc = "close"
  /\ pc' = "conclude"
  /\ UNCHANGED <<candidate, edits, at, clock, reads, evidence, log>>

Close ==
  /\ pc = "close"
  /\ IF candidate = Planned
       THEN pc' = "conclude" /\ UNCHANGED <<at, clock, reads>>
       ELSE Fail
  /\ UNCHANGED <<candidate, edits, evidence, log>>

\* The claims are derived and the evidence is parsed: each decision carries
\* the proof of its arm process.
Conclude ==
  /\ pc = "conclude"
  /\ IF ClaimsHold(events, proofs) /\ \A a \in Arms : decisions[a].proven
       THEN pc' = "returned" /\ UNCHANGED <<at, clock, reads>>
       ELSE Fail
  /\ UNCHANGED <<candidate, edits, evidence, log>>

(***************************************************************************)
(* The environment.                                                        *)
(***************************************************************************)
\* Time is only measured while a window is open; a process does not outlive
\* its deadline.
Tick ==
  /\ pc \in {"launch", "await"}
  /\ spent < MaxSpent
  /\ pc = "await" => spent < killAt
  /\ spent' = spent + 1
  /\ UNCHANGED <<candidate, edits, pc, at, killAt, reads, evidence, log>>

EditCandidate ==
  /\ pc \notin {"returned", "failed"}
  /\ edits < MaxEdits
  /\ \E v \in Versions \ {candidate} : candidate' = v
  /\ edits' = edits + 1
  /\ UNCHANGED <<pc, at, clock, reads, evidence, log>>

Orchestrator == Ingest \/ Launch \/ LaunchTooLate \/ Gate \/ Close \/ Conclude
Worker == WorkerReads \/ ArmAnswers \/ ObserverAnswers \/ EvaluatorAnswers \/ WorkerFails
D01Next ==
  Orchestrator \/ PackageRefused \/ Worker \/ WorkerTimesOut \/ Tick \/ EditCandidate

\* The orchestrator is synchronous code, the kernel kills a process at its
\* deadline, and time passes while one runs.  That a worker ever answers is
\* not assumed.
D01Fairness ==
  /\ WF_vars(Orchestrator)
  /\ WF_vars(WorkerTimesOut)
  /\ WF_vars(pc = "await" /\ Tick)

D01Spec == D01Init /\ [][D01Next]_vars /\ D01Fairness

(***************************************************************************)
(* Properties.                                                             *)
(***************************************************************************)
D01TypeOK ==
  /\ candidate \in Versions /\ edits \in 0 .. MaxEdits
  /\ pc \in {"ingest", "launch", "await", "gate", "close", "conclude", "returned", "failed"}
  /\ at \in ExecutionSlots
  /\ spent \in Nat /\ killAt \in Nat
  /\ reads \in Seq(Versions) /\ Len(reads) <= 4
  /\ decisions \in Seq(ArmDecision) /\ Len(decisions) <= 2
  /\ captures \in Seq(Observation) /\ Len(captures) <= 4
  /\ scores \in Seq(EvaluatorResult) /\ Len(scores) <= 2
  /\ events \in Seq(ExecutionEvent)
  /\ proofs \in Seq(ExecutionSlots)

\* If the candidate was edited at most once, then in a slice that returns
\* evidence every worker judged and observed the planned bytes, although
\* each of them compares a digest first and opens the file again later.
ReturnedOnPlannedBytes ==
  pc = "returned" /\ edits <= 1 =>
    /\ \A d \in ToSet(decisions) : d.judged = {Planned}
    /\ \A c \in ToSet(captures) : c.loaded = Planned

\* What a slice returns belongs together: each arm's score stands on that
\* arm's decision and on a transcript both captures of that arm show.
ReturnedIsBound ==
  pc = "returned" =>
    \A a \in Arms :
      /\ scores[a].decision = decisions[a]
      /\ scores[a].shows = captures[2 * a - 1].shows
      /\ scores[a].shows = captures[2 * a].shows

\* The logs that differ from l by an exchange of two neighbouring blocks.
Exchange(l, i, j, k) ==
  SubSeq(l, 1, i) \o SubSeq(l, j + 1, k) \o SubSeq(l, i + 1, j) \o SubSeq(l, k + 1, Len(l))
BlockExchanges(l) ==
  UNION {{Exchange(l, i, j, k) : i \in 0 .. j - 1, k \in j + 1 .. Len(l)} : j \in 1 .. Len(l)}

\* Whoever replays the stored evidence derives the claims again, from a log
\* that may not be the one measured, with sequence numbers and times to suit.
\* No log that differs by an exchange of two neighbouring blocks and is still
\* accepted shows an evaluator, or the opening of the verifier package, before
\* the decisions of both arms.
ClaimsAreSound ==
  pc = "returned" =>
    \A l \in BlockExchanges(events) :
      ClaimsHold(l, proofs) =>
        \A i, j \in DOMAIN l :
          IsDecision(l[i]) /\ (IsEvaluatorStart(l[j]) \/ l[j] = VerifierValidated) => i < j

\* No process runs past the window it was launched in: the observers and the
\* evaluator of an arm together keep within one reserve.
ProcessWithinWindow == pc = "await" => spent <= Window(at)

\* A slice that was started ends, even if a worker never exits by itself.
SliceEnds == <>(pc \in {"returned", "failed"})

\* docs/D01_REPRODUCTION.md:93-95: an arm that crashes or times out produces
\* an abstain verdict; failures of the evaluator or of a digest invalidate
\* the run.  So a slice all of whose observers and evaluators answered, over
\* an unchanged candidate, is not invalidated by its last step.
ArmFailureIsAVerdict == [][pc = "conclude" => pc' # "failed"]_vars
=============================================================================
