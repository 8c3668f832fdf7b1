# Verification of the blind candidate evaluation

This directory is a TLA+ development of the evaluation pipeline in `src/`: a
benchmark that judges twenty candidate slots with two arms, a *status quo* arm
and a *beyondgreen* arm, under the promise that no arm decision is made with
knowledge that only the verifier side has (`K = 0`). The modules are translated
from the TypeScript under `src/src/official`, the commands under `src/scripts` and the
fixtures under `src/evaluation` and `src/candidates`; every definition that models
code names its lines in `PROJECT.json`. `src/src/d01`, an earlier vertical slice of
the same evaluation for one candidate, has modules of its own.

Contents: [1 the system](#1-the-system), [2 the modules](#2-the-modules),
[3 model and code](#3-model-and-code), [4 runs](#4-runs-what-is-checked),
[5 proofs](#5-proofs-what-is-proved), [6 findings](#6-findings),
[7 what is not modelled](#7-what-is-not-modelled), [8 plan](#8-plan).

## 1. The system

| Component | State it keeps | Operations | Interacts with |
|---|---|---|---|
| **Official coordinator** `official/execution/coordinator.ts` | decisions, scenarios, pairs, records in memory; position in the plan | hash candidate, run arm, hash again, persist, open gate, release scenarios, observe twice, pair, score, publish | awaits role hooks, calls the writer synchronously |
| **Create-once writer** `official/execution/writer.ts` | the files of one output root | `initialize` (4 files), `recordArm`, `recordObservationPair` (2), `recordEvaluator`, `finalize` (4); every file is temporary, hard link, unlink | called by the coordinator and by the recovery |
| **Production hooks** `official/execution/production-composition.ts` | the gate flag `postDecisionStageOpen` | arm, scenario, capture and evaluate calls; binding checks of every answer | role processes |
| **Execution plan, preflight** `official/execution/plan.ts`, `preflight` | static | hash and schema validation of the frozen bytes | started by the official command |
| **Post-decision recovery** `official/execution/post-decision-recovery.ts` | loaded decisions, views, pairs, scores; a second output root | freeze a source manifest, verify the source, inspect candidates, post-decision phases, failure records, closing checks | reads the root of a failed official run |
| **Role process protocol** `official/process` | one request, one response per process | parse request, classify failure, check final decision set | coordinator, role handlers |
| **Role launcher, sandbox** `official/runtime` | child process, output buffers | launch, collect, classify exit | operating system |
| **Reasoning transport, stream parser** `runtime/codex-transport.ts`, `reasoning/parser.ts` | deadline timer, child, event buffer | send, time out, kill, parse events | an external command |
| **Observers** `runtime/specialized-observers.ts` and others | an acquired candidate handle | acquire, drive, dispose | candidate modules |
| **Scoring, aggregation, replay** `official/aggregation.ts`, `replay.ts` | none | confusion counts, replay bundle | called by `finalize` |
| **Rehearsals** `official/rehearsal.ts` and others | per-rehearsal result lists | call all roles concurrently; compare with the plan | role handlers |
| **D01 vertical slice** `src/src/d01` | deadlines, process proofs, hash-linked log | run arms, observe, evaluate, append and verify records | role processes of its own |
| **Fixtures** `src/evaluation`, `src/candidates` | a mounted candidate, the log of its actions, deferred requests, subscriptions, leases | mount, dispatch, rerender, select, complete, write, flush, observe, dispose; visible gate; canonical script, oracle and report | driven by observers, judged by evaluators |
| **Commands, audit tooling** | files of the repository | start a run; scan | |

How the main parts interact:

    command --> preflight --> coordinator --await--> hooks --await--> role process
                                  |
                                  +--synchronous--> writer --> output root
                                                                   |
    freeze command --> source manifest <----- reads ---------------+
    recovery command --> recovery --reads--> manifest and output root
                            +--await--> hooks, +--synchronous--> writer --> recovery root

The coordinator is one asynchronous function. Between two of its awaits nothing
else of the program runs in its process, but everything outside may: candidate
files are ordinary files that people edit, the process may crash, the operator
may start the command again, a role process may never exit, and the recovery may
be started while the run it continues is still alive.

What makes each part hard, and what makes it correct:

- **Coordinator.** *Hard:* three loops over the plan with checks before, between
  and after awaits; a candidate may change across each await. *Correct:* nothing
  verifier-side before all decisions are files; what is published stands on
  complete, matching evidence; every recorded decision was made on planned bytes.
- **Writer.** *Hard:* crashes and failures inside multi-file calls, restarts on
  the same root. *Correct:* what is on disk is always a prefix of the creation
  order, of one start of the command, and never withdrawn.
- **Recovery.** *Hard:* it compares, then reads again; it publishes, then
  checks; its source may be alive. *Correct:* it continues exactly the frozen
  decisions, a failure ends it, success means planned bytes.
- **Role processes, transports.** *Hard:* deadline against close event, kills that
  miss a descendant, output the role shares with fixture code, provider-chosen
  event order, symbolic links in a capability. *Correct:* a verdict is only taken
  from a complete stream in time, a reply only when it stands alone, and what fixture
  code prints never replaces a reply that was served; the scratch directory follows
  the call; what is denied is unreadable; a call ends when it has a deadline.
- **Observers.** *Hard:* the candidate behind the harness may reject any call,
  return live objects or what is not JSON, and repeat identities. *Correct:* a
  capture that returns released its handle exactly once, and one that throws tried
  to, but for paths that are named (section 4); a transcript
  says what was shown when it was shown, and identity survives where it is the
  contract.
- **Rehearsals, scoring.** *Hard:* calls started together, of which one may reject
  while its sibling runs on; responses bound by request id only. *Correct:* a hook
  is called only after all it rests on was accepted; what is returned is bound; the
  numbers of an arm add up.
- **D01 demo.** *Hard:* a verdict is assembled from evidence any part of which may
  be missing; three files are written one after the other. *Correct:* a verdict is
  earned; only the exact replay validates; files that replay are of one run.
- **Fixtures.** *Hard:* each pair of candidates differs in one behaviour that shows
  only after a sequence of actions (a batch, a late completion, a second flush, a
  removed card, a switched channel). *Correct:* a preserving candidate keeps the
  published contract over every sequence; the visible gate tells the two apart in
  no fixture and the canonical oracle in all.
- **D01.** *Hard:* eight processes open one candidate file several times each,
  under deadlines they share; one arm may abstain. *Correct:* what is returned
  stands on planned bytes and belongs together, the slice ends, and no accepted
  log shows the verifier side before a decision.

The hazards, each at its line of the source, are listed in `PROJECT.json`.

## 2. The modules

| Module | Role |
|---|---|
| `BlindEvaluation` | Abstract: what a blind evaluation promises. Five variables, five steps: decide, unblind, observe, score, publish. |
| `ExecutionPlan` | Shared vocabulary: plan order, evidence records, file names and their creation order, loops and multi-file calls. No variables. |
| `SourceRoot` | Abstract: an official output root as far as the recovery can tell roots apart. |
| `OfficialRun` | Detailed: coordinator, hooks, writer, crashes, restarts, edits. Implements `BlindEvaluation` and `SourceRoot`. |
| `OfficialRunProofs` | Theorems about `OfficialRun`, proved with TLAPS: control flow, disk, refinements, and what a published artifact and a recorded decision stand on. |
| `PostDecisionRecovery` | Detailed: freezing, recovery, recovery root, against a source that behaves as `SourceRoot`. Implements `BlindEvaluation`. |
| `PostDecisionRecoveryProofs` | Theorems about the control flow, the recovery root and the refinement of `PostDecisionRecovery`, and what a completed recovery stands on: frozen decisions and planned bytes. |
| `D01Slice` | Detailed: the orchestrator of the D01 slice, its eight processes, deadlines, the event log and the claims derived from it. Independent of the modules above, as the code is. |
| `D01SliceProofs` | Theorems about the five safety properties of `D01Slice`. |
| `CodexStream` | Pure: the reader of the reasoning stream, check by check, and what a complete stream is, said without the checks. |
| `RoleCall` | Detailed: one call of a role, from the hook through launcher or transport to the child and back. Extends `CodexStream`. |
| `RoleCallProofs` | Theorems about the reader of `CodexStream` and the four safety properties of `RoleCall`. |
| `ObserverCapture` | Detailed: one capture of an observer, for all six observers. |
| `ObserverCaptureProofs` | Theorems about the three properties of `ObserverCapture`. |
| `Scoring` | Pure: the aggregation of scored records. |
| `Rehearsal` | Detailed: the four rehearsals, as batches of concurrent calls. Extends `Scoring`. |
| `RehearsalProofs` | Theorems about the three properties of `Rehearsal`, that of the scores among them. |
| `ReplayChain` | Pure: the four chained records of a D01 replay, how they are built and validated. |
| `D01Demo` | Detailed: runs of the D01 demo, from the arm workers to the three files and their replay. Extends `ReplayChain`. |
| `D01DemoProofs` | Theorems about the validation of `ReplayChain` and the three properties of `D01Demo`. |
| `CountedFixtures`, `SourceFixtures`, `IdentityFixtures` | Pure: what each action does to each candidate of the ten fixtures, their visible gates, canonical scripts and oracles. Counted: BG-D01, D02, D03. Source: BG-D04, H02, H05, H06 (something outside the component answers or notifies it). Identity: BG-H01, H03, H04. |
| `FixtureTrial` | Detailed: one trial of one candidate, free or scripted, and its judgement. Extends the three. |
| `FixtureTrialProofs` | Theorems about `FixtureTrial`: the contracts of the preserving candidates, and what every scripted trial is judged. |
| `MCOfficialRun`, `MCPostDecisionRecovery`, `MCD01Slice`, `MCRoleCall`, `MCObserverCapture`, `MCRehearsal`, `MCD01Demo` | Constants for TLC. |

`OfficialRun` and `PostDecisionRecovery` compose by assume and guarantee. The
recovery is not run against the whole coordinator: it sees of a source root only
which arm records exist, whether a temporary lies about, and whether an
observation followed. `SourceRoot` says how these can change, `OfficialRun` is
proved to implement it (`RunImplementsSourceRoot`), and `PostDecisionRecovery`
has every step of `SourceRoot` as a step of its own, at any time.

The other modules stand below the coordinator: what `OfficialRun` takes as one
answer, rejection or silence of a role is what `RoleCall` makes of a child process,
what that child does in the observer role is `ObserverCapture`, what the harness
behind it does is `FixtureTrial`, and the numbers of the report are `Scoring`. These
are compositions by interface, not by refinement: each lower module lets its
environment do anything the interface allows.

## 3. Model and code

### OfficialRun

| Variable | Code |
|---|---|
| `candidate`, `edits` | candidate files; how often each was edited (ghost) |
| `rootExists`, `disk`, `temporary` | the output root, its evidence files, a `.create-*.tmp` left or in use |
| `run` | number of the current start of the command (ghost) |
| `pc`, `pos` | the place in `executeOfficialEvaluation` and its loop index |
| `answer` | the arm's decision before the closing hash check |
| `decisions`, `captures`, `pairs`, `records` | the arrays of the coordinator |
| `gateOpen` | `postDecisionStageOpen` |
| `file` | the file the current writer call is creating |
| `hung` | the awaited role process will never exit |
| `unblinded` | some verifier-side process was launched (ghost, kept across restarts) |

| Actions | Code |
|---|---|
| `Begin` | the official command: preflight, then `mkdir` of the root, which refuses an existing one |
| `HashBefore`, `ArmReturns`, `HashAfter` | the arm loop: hash, decide, hash, persist |
| `Gate`, `LaunchProvider`, `ScenarioReturns` | the freeze of the decision set; one scenario per slot, bound to the digest of the decisions |
| `CaptureReturns`, `FinalizePair`, `CountObservations` | two captures and the comparison that makes them a pair |
| `EvaluateReturns`, `Publish`, `Return` | scores, the four report artifacts, the answer to the command |
| `RoleFails`, `RoleHangs` | any rejection of an awaited hook; a process that never exits |
| `CreateTemporary`, `LinkFile`, `RemoveTemporary`, `WriteFails` | the create-once write of one file, step by step |
| `Crash`, `EditCandidate` | the environment |

What is abstracted. A file is its name, the evidence in it and the run that made
it. A digest of the decision set is the decision sequence itself: digests are
assumed not to collide. A transcript is the version of the candidate it observed
or `Noise`, a transcript no version determines (an observer need not be a
function of the bytes). A status-quo arm judges the frozen preflight evidence and
so always judges `Planned`; an arm process that failed abstains and judges
`Unread`. The forty plans are `2 * NumSlots`. Writer calls are synchronous in the
code, so nothing of the coordinator happens while `file # NoFile`; the
environment may still act, and a crash may fall, between any two system calls.

### PostDecisionRecovery

| Variable | Code |
|---|---|
| `decided`, `cluttered`, `continued` | the source root (from `SourceRoot`) |
| `rewritten`, `tampers` | arm records of the source whose bytes were changed after they were written |
| `manifest` | none, torn, or the bytes of all arm records when it was frozen |
| `stage`, `place`, `attempt` | place in the recovery, loop index, number of the start |
| `loaded` | the rewritten records among those the decisions were read from |
| `views`, `observed`, `scored` | captures, pairs and scores in memory |
| `recovered`, `creating`, `recoveryRootExists` | the recovery root and the file being created |
| `stuck`, `revealed` | as `hung` and `unblinded` |

`FreezeManifest` is the freezing command. It writes the manifest in place, so an
interruption leaves a torn manifest. `BeginRecovery` verifies the source against
the manifest; `ReadDecisions` reads the arm records *again*; `Inspect` hashes the
candidates, creates the root and opens the gate; the phases that follow are those
of the coordinator; `RecordRoleFailure` writes a failure record and `Rethrow`
ends; `CloseSource` and `CloseCandidates` are the checks after the report.

Simplifications, all of them on the side of data or of files nobody reads:

- A write to the recovery root is one step (its link). The sequence of temporary,
  link and unlink is modelled in `OfficialRun`; temporaries of the recovery root
  are read by nobody. A failed write may or may not have linked.
- Only arm records of the source are rewritten. The control files are compared in
  the same comparison with the same outcome.
- The hash loop over all slots before the first launch, and the one after the
  report, are one step each. The property that depends on them speaks of
  candidates edited at most once, for which reading all slots at one moment or
  one after the other sees the same drift or a later one.
- Opening the gate is part of `Inspect`: with all decisions loaded it cannot fail.

### D01Slice

| Variable | Code |
|---|---|
| `candidate`, `edits` | the candidate file; how often it was edited (ghost) |
| `pc`, `at` | place in `runFixtureVerticalSlice`; the execution slot `<<arm, part>>` it is at |
| `spent`, `killAt` | time since the deadline of the current window was created; the timeout given to the running process |
| `reads` | what the running worker read of the candidate, read by read (ghost) |
| `decisions`, `captures`, `scores` | `statusQuoArm` and `beyondGreenArm`, `observationPairs`, evaluator results |
| `events`, `proofs` | `executionEvents`, `capabilityProofs` |

| Actions | Code |
|---|---|
| `Ingest`, `PackageRefused` | package validation and `ingestCandidate` |
| `Launch`, `LaunchTooLate` | remaining time, bound request, `spawnSync` with it as timeout |
| `WorkerReads` | the workers' own reads: digest check, compilation, import, risk inventory |
| `ArmAnswers`, `ObserverAnswers`, `EvaluatorAnswers` | parse the answer, bind the process proof, record the event |
| `WorkerFails`, `WorkerTimesOut` | an abstention without proof for an arm, an integrity error for all others |
| `Gate`, `Close`, `Conclude` | the candidate compared between the stages and at the end; claims derived, evidence parsed |
| `Tick`, `EditCandidate` | the environment |

A decision is the set of bytes its worker read and whether it carries a process
proof; verdicts are left out (the slice treats all alike). A capture keeps the
bytes that were imported and a transcript: these bytes, or `Common`, which several
contents can show. Time is counted in ticks and measured within one window; a
process is assumed to end when its timeout kills it. The digest and identity
checks of proofs are in `Prove` by construction: a proof is the slot it proves,
and what a log may claim is the subject of `ClaimsHold`. Sequence numbers are
positions. The event log of a slice that fails is dropped by the code, and stays
as it is in the model.

### RoleCall and CodexStream

| Variable | Code |
|---|---|
| `call` | role, arm and capability of the request |
| `phase`, `scratch` | place in `launch`/`invoke`; does the `mkdtemp` directory exist |
| `child`, `exit`, `heir`, `fed` | the spawned process, its code, a descendant that holds its stdout, whether it has read its stdin |
| `at`, `served` | stage of the role process (`handler-stage.ts`) and which reply it wrote |
| `stdout`, `timer`, `broken` | the gathered lines, the deadline, `error` of the spawn |
| `answer` | what the hook hands on |

| Actions | Code |
|---|---|
| `Refuse`, `MakeScratch`, `PreparationFails`, `Spawn`, `SpawnFails` | capability and bundle checks, `mkdtemp`, spawn |
| `ReadStdin`, `RoleAdvances`, `RoleServes`, `CodexWrites`, `FixturePrints`, `Fork`, `HeirEnds`, `ChildExits`, `SystemKills` | the child, which owes nothing |
| `TimerFires`, `FloodKills`, `PipeBreaks`, `Close` | the callbacks of the two runners |
| `Classify`, `Clean`, `CleanFails`, `Receive` | exit classification, parsing, the `finally` block, the hook |

The stdout of a role process is shared with the fixture code it has loaded:
`FixturePrints` writes any line, also one that reads as a reply, as long as the child
or a descendant of it runs, and `ChildExits` takes any code beside fixture code. Not
modelled is code that redefines the functions the runtime itself calls
(`process.stdout.write`, `JSON.stringify`): a served reply is written as it is.

A line is what its reader tells apart. A path is a sequence of names, `Real` the
resolution of links. Bytes are not counted: `flood` is output over the limit.

### ObserverCapture

`kind` and `scenario` are the released input, `phase` and `i` the place in the
capture, `version` the candidate's state. A frame keeps (as ghosts) which version
it was shown, next to the version it reads: they differ only where an object is
read late. `handles`, `selected`, `completed` are the request handles of BG-H02;
`seenObjects` the identity map of `dispatch-observer.ts` and of `h05Frame`;
`disposed`, `attempted` the flags of the captures; `held` the observation whose
conversion to JSON comes after the disposal. Every harness call has an action for
its success, which may still fail to be JSON (`Shown`), and one for its rejection.

### Rehearsal and Scoring

`mode` is one of the four functions. `Batches` are the calls each makes, in order;
a batch is one `Promise.all`. `Resolve` applies the checks of a reply in that mode,
`Reject` covers rejections and replies no schema accepts. Replies are taken from
well-formed ones: bound to any slot, arm, decision or (multi-process) request. A
decision's digest is the decision. No slot is twice in a plan (`SlotsAssumption`):
the inventory the plan is made of is refused otherwise (`inventory/preflight.ts:142-144`).
Captures differ from the bound one in at most
one respect, and a mode's fields that nothing reads are fixed.

### D01Demo and ReplayChain

`at` and `arm` are the place in the slice; `diagnosed`, `loaded`, `tests`, `risk`,
`probes` what the running arm worker has found; `decisions` each arm's decision with
what it was made on (ghost); `files` the JSON, HTML and replay file; `damage` how
often the replay file was changed since. The observers, evaluators and deadlines of
the slice are in `D01Slice`; here a slice yields evidence or fails. A digest is the
value it is the digest of. `Candidates`, `Contents`, `Risks` and `Plans` are what the
schemas of the reasoning adapter accept as the fields of a request and a response
(`Requests`, `Responses`); the validator parses both, so what it accepts is the replay
of a reasoning with such fields.

### FixtureTrial and the fixture modules

| Variable | Code |
|---|---|
| `fixture`, `candidate` | which pair, which of its candidates (BG-D01 also has the legacy board) |
| `mode`, `script` | free actions, one visible assertion, or the canonical scenario; what is left of it |
| `state` | everything the mounted component, its harness and its source hold |
| `frames`, `last`, `turn`, `report` | what was read, the last action, how many, the judgement |

`Play` and `Advance` are one dispatch of the harness, atomic because every harness
method awaits React's `act` before it returns; `JudgeVisible` is an assertion of the
visible gate, `JudgeCanonical` the evaluator's report over the canonical frames. Per
fixture, `XMount`, `XStep` and `XObserve` are the harness and both candidates,
`XVisible` and `XHolds` the gate, `XCanonical` and `XOracle` the verifier's script
and oracle; in several of them the candidates share all but one operator
(`H02Publish`, `D01Others`, `H06RejectPreserving`). Selections are sets, labels
tuples, object identity the number of the object's creation. BG-D03's signals are
recomputed when read; `remove` takes out the one packet that has the id (`PlaceOf`)
where the code filters, which is the same because a plan names no variety twice, a
part of the contract. A state keeps its whole log, so the free trials of a fixture
are the tree of all action sequences.

## 4. Runs: what is checked

All runs have deadlock checking off: the command ends and nobody has to start it
again, so the system may really stop.

| Run | Bounds | Properties |
|---|---|---|
| `official_run` | 1 slot, 2 edits, 2 starts | `TypeOK`, `PublishedIsComplete`, `DecidedOnPlannedBytes`, `BlindUntilDecided`, `DiskIsPrefix`, `EvidenceFromOneRun`, `CompletedIsPublished`, `NothingWithdrawn`, `RunEndsUnlessHung`, `ImplementsBlindEvaluation`, `ImplementsSourceRoot` |
| `official_run_drift` | 2 slots, 1 edit, 2 starts | violation of `PublishedOnPlannedBytes` |
| `recovery` | 1 slot, 2 edits, 1 rewrite, 2 attempts | `RecoveryTypeOK`, `FailureIsFinal`, `CompletedOnFrozenDecisions`, `RecoveryEndsUnlessStuck` |
| `recovery_slots` | 2 slots, 1 edit, no rewrite, 1 attempt | `CompletedOnPlannedBytes`, `RecoveryImplementsBlindEvaluation` |
| `recovery_drift` | 1 slot, 1 edit, no rewrite, 1 attempt | violation of `RefusedIsUnpublished` |
| `d01_slice` | windows of 2 and 3 ticks, 4 ticks per window, 2 edits | `D01TypeOK`, `ReturnedOnPlannedBytes`, `ReturnedIsBound`, `ClaimsAreSound`, `ProcessWithinWindow`, `SliceEnds` |
| `d01_slice_abstain` | windows of 1 tick, no edits | violation of `ArmFailureIsAVerdict` |
| `role_call` | stdout of 5 lines, 1 of them out of its usual order; 10 capabilities, 5 of them refused | `TypeOK`, `SoundAnswer`, `StreamReadExactly`, `ScratchFollowsCall`, `DeniedStaysUnreadable`, `CallEnds` |
| `observer` | scenarios of up to 4 steps, 2 aliases, 2 objects | `FaithfulTranscript`, `HandleReleased`, `IdentityIsPreserved` |
| `rehearsal` | 2 slots, 3 recovery sources | `CallsInTurn`, `BoundResult`, `ScoresAddUp` |
| `d01_demo` | 2 assertions, 2 contracts, 2 runs, 2 damages | `VerdictIsEarned`, `ReplayIsExact`, `FilesOfOneRun` |
| `fixtures` | 3 cards, 2 lanes, free trials of 5 actions, at most 3 requests | `VerdictMatchesKind`, `ContractKept` |

What they show.

- **K = 0** (`BlindUntilDecided`, `ImplementsBlindEvaluation`). In every
  interleaving with crashes, failed writes and restarts, no verifier-side process
  starts before the decision of every plan is a file. The refinement adds that no
  decision appears after the release, no observation after the first score, no
  score before all observations, no artifact before all scores.
- **The disk is a prefix** (`DiskIsPrefix`, `EvidenceFromOneRun`,
  `NothingWithdrawn`, `CompletedIsPublished`). Whatever interrupted a run, what is
  left is an initial segment of the creation order, of one start, and no step
  removes or replaces it. Success is reported only over the whole.
- **Evidence belongs together** (`PublishedIsComplete`). Every published artifact
  is made of exactly the scores on disk, each bound to its plan and made of the
  transcript both its captures show.
- **Decisions on planned bytes** (`DecidedOnPlannedBytes`). One edit cannot hide
  between the two hash checks. Two can (edit, decide, restore), which is why the
  property speaks of candidates edited at most once; run with two edits, it also
  shows that the bound is where the hazard begins, since without the restriction
  TLC finds the counterexample.
- **Termination** (`RunEndsUnlessHung`, `RecoveryEndsUnlessStuck`). A started run
  ends unless the role process it awaits never exits.
- **Recovery** (`FailureIsFinal`, `CompletedOnFrozenDecisions`,
  `CompletedOnPlannedBytes`, `RecoveryImplementsBlindEvaluation`). Beside a
  failure record are exactly the files that precede what the failed role would have
  led to: nothing of that role, nothing later, no report, no second failure record.
  A recovery that reports success stands on
  the decisions the manifest froze, although it reads them after it compared
  them, because the source is compared again at the end; with two rewrites of a
  record (there and back) this no longer holds, so the property says at most one.
  The decisions of the run and the evidence of the recovery together are a blind
  evaluation, even while the run is still alive.

- **D01** (`ReturnedOnPlannedBytes`, `ReturnedIsBound`). Workers check the digest
  and then open the file again, and the orchestrator compares it twice. One edit
  at any moment, also in the middle of a worker, never reaches what is returned;
  with two (there and back) it can, so the property says at most one and the run
  allows two. A score stands on the decision of its own arm and on a transcript
  that both captures of that arm show, although the two captures may have read
  different bytes.
- **D01 claims** (`ClaimsAreSound`). Stored logs are judged again by the same
  function. Every exchange of two neighbouring blocks of a returned log is tried;
  an accepted one still has both decisions before the verifier side.
- **D01 time** (`ProcessWithinWindow`, `SliceEnds`). The three processes of a
  finalization together keep one reserve, and a worker that never exits does not
  keep the slice from ending.
- **Role calls** (`SoundAnswer`, `StreamReadExactly`). A role's result or failure is
  taken only from one line that stood alone on stdout and an exit status in line with
  it. If the process served a reply, that line is this reply: what fixture code prints
  beside it, before, after or from a descendant, voids the call and never replaces it.
  If it served none and hosts fixture code, the line may be one that code printed
  before it exited in the process's place: `process-launcher.ts:179-181` cannot tell,
  the model has these behaviours, and `SaidBy` says so. An arm hosts no fixture code
  and cannot be spoken for. No reasoning verdict comes from a stream that is
  incomplete, late, or cut by a signal. The reader's ten checks accept exactly the
  streams that `Complete` describes without them.
- **Role calls, resources** (`ScratchFollowsCall`, `DeniedStaysUnreadable`,
  `CallEnds`). A call that answers has removed its directory, which is there while
  its child runs. An isolated child never has a denied file under an allowed path
  once links are resolved. A reasoning call ends whatever its child does, unless a
  descendant of it holds the pipe for ever; an isolated call ends only once its
  child has, because the sandbox runner has no deadline. A broken stdin pipe ends
  the coordinator itself (`PipeBreaks`): no listener takes that error.
- **Observers** (`HandleReleased`, `FaithfulTranscript`, `IdentityIsPreserved`). A
  returned capture disposed exactly once. The property names the three ways a
  thrown one may not: BG-H01's first observation and the observation BG-H01 and
  BG-H02 take before disposing may reject, which leaves the handle; a rejected
  disposal is repeated by the dispatch observer and the D01 bridge. It also names
  the one late reading: the disposal frame of BG-H01 and BG-H02 on a candidate that
  returns live objects.
- **Rehearsals** (`CallsInTurn`, `BoundResult`, `ScoresAddUp`). No call starts
  before all it rests on was accepted, and siblings of a rejected call change
  nothing. `BoundResult` says how far each mode binds what it returns: the
  multi-process one tells its records apart but binds them to no slot, the observer
  one does not look into its captures.
- **D01 demo** (`VerdictIsEarned`, `ReplayIsExact`, `FilesOfOneRun`). No verdict
  without its evidence, in any combination of outcomes. A replay file changed in up
  to two places, with digests of its own or without, validates only if it is again
  the replay of some reasoning. After crashes between the three writes of either
  run, the files replay only if they are of one run.
- **Fixtures** (`ContractKept`, `VerdictMatchesKind`). Every sequence of five
  actions on every preserving candidate keeps the contract its fixture publishes.
  The visible gate is green for both candidates in every fixture, so it cannot tell
  them apart, and the canonical oracle tells them apart in every one. (Each of the
  ten false-green candidates breaks the contract within the same five actions, so
  the contracts are not vacuous.)

Bounds and why they are enough. `official_run` has one slot so that edits, crashes
and restarts meet in one run of a few minutes; its safety properties are proved
below for any number of slots. Elsewhere two slots are four plans: the first, two inner
ones and the last, both arms of a slot, and a slot that is neither first nor last
of nothing (loops are uniform in the plan; what a loop can get wrong it gets
wrong at its first, second or last round). Two starts give one restart on a root
that a crash, a failure or a success left behind; a third start meets the same
three kinds of root. Edits matter only up to edit-and-restore, which is two; two
versions are enough for "planned" and "other". In the recovery a rewrite and a second attempt are
checked with one slot, and edits of one slot while the other is unedited with two.

In `d01_slice` three ticks for the shared window let each of its three processes
use one, or one of them all, or the third be launched too late.

In `role_call` five lines are the shortest accepted stream and one more, so a line
may be missing, repeated, odd or late at every place; a second odd line would be
refused by the check that met the first. In `observer` four steps are a bind, a
completion and a second use of an alias with a disposal between any two of them, or
two objects that return alternately. In `rehearsal` two slots let a reply name the
other one; sequential evaluators return one fixed verdict, since those modes do not
read it. `d01_demo` has two assertions and two contracts where the code has five and
one: a gate and a probe set are complete, partial or empty with two; the elements of
each set are interchangeable, and the run uses that symmetry (it checks no
liveness). In `fixtures` three cards and two lanes (300 and six in the code)
still have selected and unselected ones, `everyThird` and `evenLanes` pick some and
not all; scripts are played in full whatever `MaxTurns`. Five free actions are what
the longest distinguishing sequence needs (select, switch, two completions, reset).

Fairness. `WF` of the coordinator's (recovery's) own steps and of the writer's: a
settled promise resumes the function that awaits it, and a system call returns.
Role processes are in the same disjunction, because a process that exits is what
settles the promise; that one may *not* exit is `RoleHangs`, which disables the
steps that await it. Nothing is assumed of crashes, edits, restarts or hangs. The
escape in the liveness properties is real: the sandbox runner waits for the close
event without a deadline (`runtime/macos-sandbox-backend.ts`). In `D01Slice` the
orchestrator's steps, the kill at a deadline (`spawnSync` enforces it) and the
passing of time while a process runs are weakly fair; that a worker answers or
even reads is not assumed. In `RoleCall` the launcher's own steps, the timer and
the delivery of `close` are weakly fair and nothing is assumed of the child, so
`CallEnds` rests on the deadline alone; that no descendant keeps the pipe for ever is
a premise of the property. The remaining modules state no liveness.

## 5. Proofs: what is proved

`OfficialRunProofs` proves, for every number of slots, every set of versions and
every bound on edits and starts, from `NumSlotsAssumption` (at least one slot),
`VersionsAssumption` (the planned version is a version; noise and "nothing read"
are not) and `BoundsAssumption` (the bounds are numbers):

| Theorem | States |
|---|---|
| `TypeCorrect` | `TypeOK` |
| `ControlCorrect`, `FrontierCorrect`, `EvidenceCorrect` | the first three layers of the inductive invariant |
| `BlindingCorrect` | `BlindUntilDecided` |
| `PrefixCorrect`, `OneRunCorrect`, `CompletionCorrect` | `DiskIsPrefix`, `EvidenceFromOneRun`, `CompletedIsPublished` |
| `EvidenceIsPermanent` | `NothingWithdrawn` |
| `PublicationCorrect` | `PublishedIsComplete` |
| `JudgingCorrect` | `DecidedOnPlannedBytes` |
| `RunImplementsBlindEvaluation` | the run implements the abstract evaluation |
| `RunImplementsSourceRoot` | the run implements what the recovery assumes |

The argument has four layers, because none of the properties is inductive alone.

1. `ControlInv`: where the coordinator is determines how much evidence is in
   memory (`MemoryMatchesPhase`), which positions are possible
   (`PositionMatchesPhase`) and which file is being created (`FileMatchesPhase`).
   It makes `TypeOK` inductive: `pairs[pos]` exists because there are as many
   pairs as the phase says.
2. `FrontierInv`: in terms of the creation order, the disk is exactly the files
   before the one being created, or before the first file of the next phase when
   none is (`FrontierReached`); unblinding happened only past the arm phase
   (`BlindedByPhase`); all files are of the current start while one is running,
   and a root that does not exist holds nothing. A link extends the prefix by one
   file; everything else leaves the disk alone (`DiskChanges`).

3. `EvidenceInv`: decision, pair and record `k` in memory are bound to plan `k`
   (`DecisionsBound`, `PairsBound`, `RecordsBound`), and while a command runs the
   body of each file on disk is what memory holds for it (`DiskFromMemory`). After
   the command ended or died memory is gone and only the disk stays, which is why
   `PublishedIsComplete` is an invariant of its own: it is established by the link
   of a report file, where layers 2 and 3 give it, and kept by every other step.
4. `JudgedInv`: a candidate never edited is planned and one edited once is not
   (`EditsShow`); so when the closing hash finds the planned bytes the candidate
   was never edited or more than once, and what the answer in flight
   (`AnswerJudged`), the decisions in memory (`DecisionsJudged`) and those on disk
   judged was planned unless the candidate was edited twice.

The safety properties of control follow from the second layer and the shape of file names.
For the refinements, every step that changes neither disk nor blinding is a
stutter, a link is the abstract step its file name says, and the launch of the
first provider is the abstract release.

`PostDecisionRecoveryProofs` proves, for any number of slots, any versions and any bounds on edits, rewrites and starts, from
`NumSlotsAssumption`, `VersionsAssumption` and `RecoveryBoundsAssumption`:

| Theorem | States |
|---|---|
| `StageCorrect`, `RecoveryTypeCorrect` | the control invariant; `RecoveryTypeOK` |
| `RootCorrect` | the root invariant |
| `FailureCorrect` | `FailureIsFinal` |
| `RecoveryImplements` | `RecoveryImplementsBlindEvaluation` |
| `FrozenDecisions` | `CompletedOnFrozenDecisions` |
| `PlannedBytes` | `CompletedOnPlannedBytes` |

The layers are those of `OfficialRun`. `StageInv` fixes the memory and the file being
created by the stage. `RootInv` says that the root is a prefix of the creation order
(for a failure record: up to `Withheld`, the file the failed role would have led to), that a
verifier-side process was launched only when every decision was recorded, and that a
root nobody made is empty, which is why a restart cannot mix two roots. The rest
counts what people do. `FrozenInv`: one rewrite leaves the records different from
what they were when the manifest was frozen (`RewritesShow`), so if the closing
comparison finds them equal, what was read in between was equal too
(`LoadedAsFrozen`); two rewrites may restore a record, hence the proviso of the
property. `BytesInv` is the same argument about candidates and their hash: an
unedited candidate is seen as planned, appended as planned and written as planned,
and a candidate edited once is found by the closing hash.

`D01SliceProofs` proves, for any contents, windows and bounds, from
`D01VersionsAssumption` (the planned bytes are a version, `Common` is not) and
`D01WindowsAssumption` (windows are positive, bounds are numbers):

| Theorem | States |
|---|---|
| `AcceptedLogIsBlind` | of any log whose claims hold, also one nobody measured: decisions first |
| `D01TypeCorrect` | `D01TypeOK` |
| `WindowCorrect` | `ProcessWithinWindow` |
| `BoundCorrect` | `ReturnedIsBound` |
| `ReturnedBytesCorrect` | `ReturnedOnPlannedBytes` |
| `ClaimsCorrect` | `ClaimsAreSound`, for logs of any length |

`SliceInv` (types, and how many decisions, captures and scores there are at each
slot) carries the rest. `KilledAtWindowEnd` says that the kill time of a running
process is the end of its window however late it started. `BoundInv` is built up
arm by arm: the even captures agree with the odd ones before them, and a score is
made of the last capture. `BytesInv` is the argument about edits: an unedited
candidate is planned and all that was read of it is; a candidate edited once is
*not* planned, so `Close` passes only if it was never edited or more than once;
an edit after `Close` comes after the last read.

`RoleCallProofs` proves, for any capabilities, any resolution of paths and any
bounds on a child's output, from `LinesAssumption` (the bounds are numbers) and
`PathsAssumption` (a path resolves to a path):

| Theorem | States |
|---|---|
| `ReaderIsExact` | of any stream: the ten ordered checks of the reader accept it exactly when it is complete |
| `CallTypeCorrect` | `TypeOK` |
| `StreamCorrect` | `StreamReadExactly` |
| `AnswerCorrect` | `SoundAnswer` |
| `ScratchCorrect` | `ScratchFollowsCall` |
| `DeniedCorrect` | `DeniedStaysUnreadable` |

`PlaceInv` says what the launcher's place implies: outside the wait for `close`
nothing of the child runs and nothing holds its stdout, there is a scratch directory
from its making to its removal, and no answer before classification. So whatever an
answer was read from cannot change any more (`AnswerOutlasts`), and `AnswerInv` needs
looking at only in `Classify` and `Receive`. `LinesInv` ties the lines to the
process: a served reply stays on stdout, and without fixture code (which, once
loaded, stays: `CodeStays`) a reply is there only when it was served. `StartInv` carries the
launcher's check of the capability to the running child; two paths above one file
overlap (`PrefixesOverlap`), which the check excludes.

`ObserverCaptureProofs` proves, for scenarios of any length and any aliases and
objects, from `ObserverAssumption`:

| Theorem | States |
|---|---|
| `ObserverCorrect`, `ObserverTypeCorrect` | the inductive invariant; the types |
| `HandleCorrect` | `HandleReleased` |
| `IdentityCorrect` | `IdentityIsPreserved` |
| `TranscriptCorrect` | `FaithfulTranscript` |

Its layers: types and places (`CaptureInv`); how often a handle was disposed of at
each place (`HandleInv`); that the identity map holds each object seen once, so that
equal ordinals are equal objects (`IdentityInv`); that frame `n` is of step `n`
(`FramesInv`); and that each completion spent a handle of its own (`RequestsInv`).

`RehearsalProofs` proves, for plans of any length and any recovery source, from
`SlotsAssumption` (a plan has slots, and no slot twice):

| Theorem | States |
|---|---|
| `RehearsalInvariant` | the inductive invariant |
| `CallsTakeTurns` | `CallsInTurn` |
| `ResultsBound` | `BoundResult` |
| `ScoresFit` | `ScoresAddUp` |

Most of the work is arithmetic: each call has one turn (`Turn`), so the batches of a
plan are pairwise disjoint (`BatchesApart`) and what a call reads was accepted in an
earlier batch. `RehearsalInv` then says which calls are in flight and which accepted when
batch `next` is about to start (`InTurn`), that the request of each of them parsed
(`Parsed`), and that each accepted reply still passes the checks it passed
(`Replied`): these checks read other replies, which later ones do not change
because a reply is added once. `ScoresFit` counts record by record
(`AddedBy`), so that the equations hold for each record alone; `Aggregable` makes the two
records distinct, without which a set of records would lose one.

`D01DemoProofs` proves, for any assertions, contracts, reasonings and bounds on runs and
damages, from the assumptions of `D01Demo`:

| Theorem | States |
|---|---|
| `ValidationIsExact` | of any records that pass the schema: they validate exactly when they are the replay of a reasoning |
| `DemoInvariant` | the inductive invariant |
| `VerdictsEarned` | `VerdictIsEarned` |
| `ReplayCorrect` | `ReplayIsExact` |
| `FilesCorrect` | `FilesOfOneRun` |

`ValidationIsExact` is about pure operators: the request fixes candidate, content and
risk, the response the plan, and then each record of the file is forced, its place in the
chain and the footer's digests included. `DemoInv` has three parts: types, among
them that whatever damage did to the file it is still made of records
(`DemoTyped`); what the running worker has established when it is at each place
(`WorkerInv`), from which a decision is earned; and what the files hold when
the demo is at each write (`FilesInv`). `VerdictIsEarned` alone is not inductive, because a
decision is made from what earlier steps of the worker left behind.

`FixtureTrialProofs` proves, for any number of cards, lanes and requests and for trials of
any length, from `CountsAssumption` (there are cards and lanes), `TurnsAssumption` and
`RequestsAssumption` (the bounds are numbers, at least the three requests of the script):

| Theorem | States |
|---|---|
| `TrialInvariant` | the inductive invariant |
| `ContractsKept` | `ContractKept` |
| `VerdictsMatch` | `VerdictMatchesKind` |

A contract speaks of one action, from a state that earlier actions left, so each fixture
has an invariant of its own. For BG-D03 it says that a plan names no variety twice
(`IsPlan`), from which adding, counting and removing leave the order of the
others (`SameOrder`); for BG-H02 that the current epoch is that of the latest request
if anything was asked since the last reset, and of none otherwise, so a completion
that passes the epoch guard is the latest one and the panel waits for it; for BG-D04,
H04, H05 and H06 the contract itself, with the types, is inductive. `XKeeps` is the
lemma of fixture X. `TrialInv` adds that a script plays its fixture's actions and
a disposal only as the last one (`Fits`): after a disposal the harness is gone, and a
contract need not hold of a second one.

`VerdictMatchesKind` needs another invariant, since a judgement looks at what many actions
left. `RecordInv` says that a scripted trial has passed a chain of states, each the
outcome of the script's next action on the one before, and that its frames are what the
harness reads of that chain, so a judgement is one of the whole script
(`WholeScript`). What the script shows is then a computation, and the proof goes through
it action by action: for each fixture `XAt` writes down the states that the scripts
pass, a lemma per kind of action says which of them follows which, and `XCanonicalShows`
and `XVisibleShows` read the frames. For BG-D01 and D02 the states are functions over
any number of cards and lanes (`Alike`, `Marked`), and their even or third ones are
selected whatever that number is; for BG-D03 the number of occupied cells is a fold over
the plan, evaluated at plans of up to two varieties.

Only model-checked: the three violations of section 6; and, for good, the liveness
properties `RunEndsUnlessHung`, `RecoveryEndsUnlessStuck`, `SliceEnds` and `CallEnds`, since neither liveness under
fairness nor `ENABLED` is within the prover's reach.

## 6. Findings

1. **Candidates may drift after the arm phase** (`official_run_drift`,
   `coordinator.ts:192`). `README.md:129-131` of the repository says that
   candidate hashes are checked before and after execution and that drift stops
   verification. The coordinator hashes around the two arm calls only. A candidate
   edited later is imported by the observers, both captures agree about the edited
   bytes, and the report is published under the planned digest.
2. **A refused recovery has already published** (`recovery_drift`,
   `post-decision-recovery.ts:596`). The recovery does hash the candidates after
   its launches, but after writing the report: the command fails, and a complete
   report stays in a root that carries no trace of the refusal.
3. **A failed arm invalidates the D01 slice** (`d01_slice_abstain`,
   `execution.ts:39`). `docs/D01_REPRODUCTION.md:93-95` says that a crashed or
   timed out arm produces an abstain verdict, in contrast to failures that
   invalidate the run. The abstention is produced, without a process proof; the
   claims at the end demand four proofs per arm, so the slice is thrown away.

Two behaviours the models contain and no property forbids, because the code
promises nothing about them: a crash in the middle of a write leaves a temporary
that the source comparison refuses for ever, so that run cannot be recovered; an
interrupted freeze leaves a torn manifest that is never replaced.

## 7. What is not modelled

| Part | Why |
|---|---|
| Two live processes on one official root | `OfficialRun` has one process at a time; `mkdir` of the root makes a second one stop. |
| The operating-system sandbox and the Node permission flags | outside the repository. `RoleCall` takes "unreadable unless allowed" as given and checks what is allowed. |
| Bytes, buffers and limits of a child's output | `flood` and a torn line stand for what a reader makes of them. |
| The static source analysis behind the risk inventory (`risk.ts`) and the D01 assertions' internals | `D01Demo` takes every outcome of them. The assertions themselves are in `CountedFixtures`. |
| Formats of single fields in the schemas, canonical JSON, digests as numbers | pure functions of static data; a refusal appears as the failure of the call that parses. What schemas bind *between* fields is modelled. |
| Role adapters (`official/adapters`), capability plans of the registry | static lists of paths. |
| React itself, the DOM, jsdom | the harnesses settle every action; what a render shows is modelled as a function of state. |
| HTML and JSON layout of reports | formatting. |
| License audit, submission, trace tooling, spikes | one-shot scans that print a report; no state outlives them and nothing in them is concurrent. |

## 8. Plan

Done: everything of section 2. Left:

1. `CreateOnceWriter`: several processes creating files in one root, against an
   abstract store in which a name is bound at most once.
