-------------------------------- MODULE D01Demo --------------------------------
(***************************************************************************)
(* Runs of the D01 demo (d01-demo.ts).  A run takes the candidate through  *)
(* the worker of the status-quo arm and that of the BeyondGreen arm        *)
(* (worker-runtime.ts), which compile it, import it, run the visible       *)
(* assertions (arm-checks.ts) and, for BeyondGreen, take a risk inventory, *)
(* derive the probes (risk.ts, reasoning.ts) and run them; it decides for  *)
(* each arm (decision.ts); and it writes three files, one after the other: *)
(* the evidence as JSON, as HTML, and the replay of the reasoning.  Later  *)
(* the files are replayed together (replay.ts).                            *)
(*                                                                         *)
(* The observers and evaluators of the slice, and its deadlines, are those *)
(* of D01Slice; here the slice either fails as a whole or yields evidence. *)
(***************************************************************************)
EXTENDS ReplayChain, FiniteSets

CONSTANTS
  Assertions,  \* the visible assertions
  Contracts,   \* the arm-visible invariant contracts; each has its probe
  Reasoned,    \* the reasoning about the demo's candidate
  Foreign,     \* other replays whose records may end up in the replay file
  MaxRuns,     \* bound on runs of the demo
  MaxDamage    \* bound on damages to the replay file

ASSUME DemoAssumption ==
  /\ Assertions # {} /\ Contracts # {}
  /\ Reasoned \in Reasonings /\ Foreign \subseteq Reasonings \ {Reasoned}
  /\ MaxRuns \in Nat \ {0} /\ MaxDamage \in Nat

VARIABLES
  run,        \* which run of the demo
  at,         \* where it is
  arm,        \* whose worker is running
  diagnosed,  \* did the compiler report diagnostics?
  loaded,     \* was the candidate imported: pending, yes, no
  tests,      \* outcome of each assertion
  risk,       \* the risk inventory: none, or what it supports
  probes,     \* outcome of each probe
  decisions,  \* the decision of each arm, with what it was made on
  files,      \* the three files
  damage,     \* how often the replay file was damaged since the last run
  exited      \* did the last run exit normally?

worker == <<diagnosed, loaded, tests, risk, probes>>
vars == <<run, at, arm, worker, decisions, files, damage, exited>>

Arms == {"status-quo", "beyondgreen"}
Outcomes == {"pending", "passed", "failed", "threw"}
Fresh(set) == [x \in set |-> "pending"]

\* Files: missing, torn by a crash in the middle of the write, or written by a
\* run; the evidence of a run differs from any other's in its times.
Missing == [run |-> 0, replay |-> <<>>]
Torn == [run |-> 0, replay |-> <<"torn">>]
Evidence(n, replay) == [run |-> n, replay |-> replay]

(***************************************************************************)
(* The visible gate.  In the lost arm of an operational failure nothing    *)
(* counts as run.                                                          *)
(***************************************************************************)
Failures == {a \in Assertions : tests[a] = "failed"}
Operational == loaded = "no" \/ \E a \in Assertions : tests[a] = "threw"

Gate ==
  [compile |-> IF diagnosed THEN "failed" ELSE "passed",
   visible |-> IF Failures # {} THEN "failed"
               ELSE IF Operational THEN "not_run" ELSE "passed",
   deterministic |-> ~Operational]
UnavailableGate == [compile |-> "not_run", visible |-> "not_run", deterministic |-> FALSE]

(***************************************************************************)
(* The decision.                                                           *)
(***************************************************************************)
Reasons == risk = "supported"
Errors == {c \in Contracts : probes[c] = "threw"}
Checks == {c \in Contracts : probes[c] \in {"passed", "failed"}}

\* Mutant: it is enough that the probes were run at all.
IncompletePresence == ~Reasons

\* What BeyondGreen needs is missing: it did not reason, a probe had an error,
\* or the results are not those of the required probes.
Incomplete == ~Reasons \/ Errors # {} \/ Checks # Contracts

Abstain(code) == [verdict |-> "abstain", reason |-> code]
Decide(gate) ==
  CASE gate.compile = "failed" -> [verdict |-> "reject", reason |-> "compile_failure"]
    [] gate.compile = "not_run" -> Abstain("operational_inconclusive")
    [] gate.compile = "passed" /\ gate.visible = "failed" ->
         [verdict |-> "reject", reason |-> "visible_test_failure"]
    [] gate.compile = "passed" /\ gate.visible # "failed"
         /\ (gate.visible # "passed" \/ ~gate.deterministic) ->
         Abstain("operational_inconclusive")
    [] OTHER ->
         IF arm = "status-quo"
           THEN [verdict |-> "accept", reason |-> "visible_gate_green"]
         ELSE IF Incomplete THEN Abstain("incomplete_beyondgreen_evidence")
         ELSE IF \E c \in Checks : probes[c] = "failed"
           THEN [verdict |-> "reject", reason |-> "ordering_contract_violation"]
         ELSE [verdict |-> "accept", reason |-> "all_checks_green"]

\* A decision, and (ghosts) what its worker saw and whether it completed.
Decided(gate, proven) ==
  [d |-> Decide(gate), diagnosed |-> diagnosed, loaded |-> loaded, tests |-> tests,
   risk |-> risk, probes |-> probes, proven |-> proven]

FreshWorker ==
  /\ diagnosed' = FALSE /\ loaded' = "pending" /\ tests' = Fresh(Assertions)
  /\ risk' = "none" /\ probes' = Fresh(Contracts)

Init ==
  /\ run = 1 /\ at = "compile" /\ arm = "status-quo"
  /\ diagnosed = FALSE /\ loaded = "pending" /\ tests = Fresh(Assertions)
  /\ risk = "none" /\ probes = Fresh(Contracts)
  /\ decisions = << >>
  /\ files = [json |-> Missing, html |-> Missing, replay |-> <<>>]
  /\ damage = 0 /\ exited = FALSE

(***************************************************************************)
(* The arm worker.                                                         *)
(***************************************************************************)
Compile ==
  /\ at = "compile"
  /\ diagnosed' \in BOOLEAN /\ at' = "import"
  /\ UNCHANGED <<run, arm, loaded, tests, risk, probes, decisions, files, damage, exited>>

Import ==
  /\ at = "import"
  /\ loaded' = "yes" /\ at' = "visible"
  /\ UNCHANGED <<run, arm, diagnosed, tests, risk, probes, decisions, files, damage, exited>>

\* Nothing is run, and nothing is reasoned about.
ImportFails ==
  /\ at = "import"
  /\ loaded' = "no" /\ at' = "concluded"
  /\ UNCHANGED <<run, arm, diagnosed, tests, risk, probes, decisions, files, damage, exited>>

Assertion(a) ==
  /\ at = "visible" /\ tests[a] = "pending"
  /\ \E outcome \in Outcomes \ {"pending"} :
       tests' = [tests EXCEPT ![a] = outcome]
  /\ UNCHANGED <<run, at, arm, diagnosed, loaded, risk, probes, decisions, files, damage,
                 exited>>

\* Status quo stops here; BeyondGreen takes the inventory, whatever came out.
VisibleDone ==
  /\ at = "visible" /\ \A a \in Assertions : tests[a] # "pending"
  /\ IF arm = "status-quo" THEN at' = "concluded" /\ risk' = risk
     ELSE at' = "reason" /\ risk' \in {"supported", "unsupported", "uncovered"}
  /\ UNCHANGED <<run, arm, diagnosed, loaded, tests, probes, decisions, files, damage, exited>>

\* The probes are derived, and the replay is built and validated.
Reason ==
  /\ at = "reason" /\ risk = "supported" /\ Validates(Replay(Reasoned))
  /\ at' = "probe"
  /\ UNCHANGED <<run, arm, worker, decisions, files, damage, exited>>

Probe(c) ==
  /\ at = "probe" /\ probes[c] = "pending"
  /\ \E outcome \in Outcomes \ {"pending"} :
       probes' = [probes EXCEPT ![c] = outcome]
  /\ UNCHANGED <<run, at, arm, diagnosed, loaded, tests, risk, decisions, files, damage, exited>>

ProbesDone ==
  /\ at = "probe" /\ \A c \in Contracts : probes[c] # "pending"
  /\ at' = "concluded"
  /\ UNCHANGED <<run, arm, worker, decisions, files, damage, exited>>

Working == {"compile", "import", "visible", "reason", "probe"}

NextArm ==
  /\ IF arm = "status-quo" THEN arm' = "beyondgreen" /\ at' = "compile"
     ELSE arm' = arm /\ at' = "slice"
  /\ FreshWorker

Record(decision) ==
  decisions' = [a \in DOMAIN decisions \cup {arm} |->
                  IF a = arm THEN decision ELSE decisions[a]]

\* The worker ends without evidence: it throws (as it does for an inventory that
\* supports no probes), or is killed; the arm abstains.
Lost ==
  /\ at \in Working
  /\ Record(Decided(UnavailableGate, FALSE))
  /\ NextArm
  /\ UNCHANGED <<run, files, damage, exited>>

Conclude ==
  /\ at = "concluded"
  /\ Record(Decided(Gate, TRUE))
  /\ NextArm
  /\ UNCHANGED <<run, files, damage, exited>>

(***************************************************************************)
(* The demo.                                                               *)
(***************************************************************************)
Embedded == IF decisions["beyondgreen"].risk = "supported" THEN Replay(Reasoned) ELSE <<>>

\* The process ends, and what it held with it.
Stop == at' = "stopped" /\ decisions' = << >> /\ UNCHANGED <<run, arm, worker, damage>>

\* The slice yields evidence only if both arms were proven; it may also fail for
\* reasons of its own.
SliceEnds ==
  /\ at = "slice" /\ \A a \in Arms : decisions[a].proven
  /\ at' = "json"
  /\ UNCHANGED <<run, arm, worker, decisions, files, damage, exited>>

SliceFails ==
  /\ at = "slice"
  /\ Stop /\ UNCHANGED <<files, exited>>

WriteJson ==
  /\ at = "json"
  /\ files' = [files EXCEPT !.json = Evidence(run, Embedded)]
  /\ at' = "html"
  /\ UNCHANGED <<run, arm, worker, decisions, damage, exited>>

WriteHtml ==
  /\ at = "html"
  /\ files' = [files EXCEPT !.html = Evidence(run, Embedded)]
  /\ at' = "replay"
  /\ UNCHANGED <<run, arm, worker, decisions, damage, exited>>

WriteReplay ==
  /\ at = "replay" /\ Embedded # <<>>
  /\ files' = [files EXCEPT !.replay = Embedded]
  /\ exited' = TRUE
  /\ Stop

\* Only now is it noticed that there is no replay.
NoReplay ==
  /\ at = "replay" /\ Embedded = <<>>
  /\ Stop /\ UNCHANGED <<files, exited>>

\* The process ends before, or in the middle of, a write; a torn replay has fewer
\* than four records, whichever.
Crash ==
  /\ at \in {"json", "html", "replay"}
  /\ files' \in {files,
       IF at = "json" THEN [files EXCEPT !.json = Torn]
       ELSE IF at = "html" THEN [files EXCEPT !.html = Torn]
       ELSE IF Embedded # <<>> THEN [files EXCEPT !.replay = <<>>] ELSE files}
  /\ Stop /\ UNCHANGED exited

RunAgain ==
  /\ at = "stopped" /\ run < MaxRuns /\ damage = 0
  /\ run' = run + 1 /\ at' = "compile" /\ arm' = "status-quo"
  /\ FreshWorker
  /\ exited' = FALSE
  /\ UNCHANGED <<decisions, files, damage>>

(***************************************************************************)
(* Damage to the replay file: a record is lost, repeated, moved, replaced  *)
(* by its like from another replay, or edited, with a digest of its own or *)
(* without.                                                                *)
(***************************************************************************)
Damaged(s) ==
  {SubSeq(s, 1, i - 1) \o SubSeq(s, i + 1, Len(s)) : i \in DOMAIN s} \cup
  {SubSeq(s, 1, i) \o SubSeq(s, i, Len(s)) : i \in DOMAIN s} \cup
  {[s EXCEPT ![i] = s[i + 1], ![i + 1] = s[i]] : i \in 1..(Len(s) - 1)} \cup
  UNION {UNION {{[s EXCEPT ![i] = other[i]],
                 [s EXCEPT ![i].base.payload = other[i].base.payload],
                 [s EXCEPT ![i] = Sealed([@.base EXCEPT !.payload = other[i].base.payload])]} :
                  i \in DOMAIN s \cap 1..4} : other \in {Replay(f) : f \in Foreign}}

Damage ==
  /\ at = "stopped" /\ run = MaxRuns /\ damage < MaxDamage
  /\ files.replay # <<>>
  /\ \E s \in Damaged(files.replay) : files' = [files EXCEPT !.replay = s]
  /\ damage' = damage + 1
  /\ UNCHANGED <<run, at, arm, worker, decisions, exited>>

Next ==
  \/ Compile \/ Import \/ ImportFails \/ VisibleDone \/ Reason \/ ProbesDone
  \/ Lost \/ Conclude
  \/ \E a \in Assertions : Assertion(a)
  \/ \E c \in Contracts : Probe(c)
  \/ SliceEnds \/ SliceFails \/ WriteJson \/ WriteHtml \/ WriteReplay \/ NoReplay
  \/ Crash \/ RunAgain \/ Damage

Spec == Init /\ [][Next]_vars

(***************************************************************************)
(* The replay of the files.                                                *)
(***************************************************************************)
\* Mutant: the HTML is not rebuilt.
ReproducesJson ==
  /\ files.json \notin {Missing, Torn}
  /\ files.json.replay = files.replay /\ Validates(files.replay)

Reproduces ==
  /\ files.json \notin {Missing, Torn}
  /\ files.json.replay = files.replay /\ Validates(files.replay)
  /\ files.html = files.json
-----------------------------------------------------------------------------
(***************************************************************************)
(* Properties.                                                             *)
(***************************************************************************)
\* No verdict without what it says: an arm accepts only a candidate that compiled,
\* was loaded and passed every assertion, BeyondGreen only one whose every contract
\* was probed and kept; it rejects only for a diagnostic, a failed assertion or,
\* after a green gate and complete evidence, a broken contract; it abstains only if
\* its worker was lost or its evidence decides nothing; and status quo knows nothing of risks and probes.
VerdictIsEarned ==
  \A a \in DOMAIN decisions :
    LET seen == decisions[a]
        green == /\ ~seen.diagnosed /\ seen.loaded = "yes"
                 /\ \A t \in Assertions : seen.tests[t] = "passed"
        probed == \A c \in Contracts : seen.probes[c] \in {"passed", "failed"}
        kept == \A c \in Contracts : seen.probes[c] = "passed"
    IN /\ seen.d.verdict = "accept" =>
            seen.proven /\ green /\ (a = "beyondgreen" => kept)
       /\ seen.d.verdict = "reject" =>
            /\ seen.proven
            /\ \/ seen.diagnosed
               \/ \E t \in Assertions : seen.tests[t] = "failed"
               \/ a = "beyondgreen" /\ green /\ probed /\ ~kept
       /\ seen.d.verdict = "abstain" /\ seen.proven =>
            /\ ~seen.diagnosed /\ \A t \in Assertions : seen.tests[t] # "failed"
            /\ ~green \/ (a = "beyondgreen" /\ ~probed)
       /\ a = "status-quo" => seen.risk = "none" /\ seen.probes = Fresh(Contracts)

\* A replay file validates exactly when it is the replay of one reasoning, record
\* by record, whatever happened to the file.
ReplayIsExact ==
  Validates(files.replay) <=> \E r \in Reasonings : files.replay = Replay(r)

\* Files that replay come from one run, whatever earlier runs, crashes and damages
\* left behind; and the files of a run that exited normally do replay, unless the
\* replay file was changed since.
FilesOfOneRun ==
  /\ Reproduces => /\ files.json.run = files.html.run
                   /\ files.json.run \in 1..run
                   /\ files.replay = Replay(Reasoned)
  /\ exited /\ (damage = 0 \/ files.replay = Replay(Reasoned)) => Reproduces
=============================================================================
