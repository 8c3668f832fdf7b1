------------------------------- MODULE RoleCall -------------------------------
(***************************************************************************)
(* One call of a role, from the hooks of production-composition.ts to the  *)
(* end of its child process and back.  The reasoning-aware launcher        *)
(* (reasoning-aware-launcher.ts) sends the BeyondGreen arm to the codex    *)
(* transport (codex-transport.ts) and every other role to the isolated     *)
(* launcher (process-launcher.ts) and its sandbox backend                  *)
(* (macos-sandbox-backend.ts), whose child is the role process             *)
(* (role-process-entrypoint.ts over process/transport.ts).                 *)
(*                                                                         *)
(* Both paths make a scratch directory, spawn one child, write its stdin,  *)
(* gather its stdout and settle on the first of the events `error` and     *)
(* `close`; `close` waits for every process that holds the pipe.  They     *)
(* differ in their checks, in the deadline and in how they classify.       *)
(***************************************************************************)
EXTENDS CodexStream, FiniteSets

CONSTANTS
  Capabilities,  \* capability plans: [role, allow, deny, entry, lawful]
  Files,         \* files of the clean repository, as sequences of names
  Real,          \* Real[p] is what the path p resolves to (symbolic links)
  PublicPaths,   \* paths a reasoning prompt may be built from
  MaxLines,      \* bound on the lines of a child's stdout
  MaxOdd         \* bound on its lines out of the usual order

ASSUME LinesAssumption == MaxLines \in Nat /\ MaxOdd \in Nat

\* A path resolves to a path.
ASSUME PathsAssumption ==
  \A cap \in Capabilities : \A p \in cap.allow \cup cap.deny : Len(Real[p]) \in Nat

VARIABLES
  call,     \* the call: [role, arm, cap]; the arm matters to an arm's call
  phase,    \* where the launcher is
  scratch,  \* does the call's scratch directory exist?
  child,    \* its process: none, running, exited, killed
  exit,     \* the exit code of an exited child
  heir,     \* does a descendant of the child hold its stdout?
  fed,      \* has the child read all of its stdin?
  at,       \* the stage the role process is in
  served,   \* how the role process answered: none, ok, failed
  stdout,   \* the lines gathered so far
  timer,    \* the deadline of a reasoning call: off, armed, fired
  broken,   \* did the spawn fail?
  answer    \* what the hook returns: [kind, code]

process == <<child, exit, heir, fed, at, served, stdout>>
vars == <<call, phase, scratch, process, timer, broken, answer>>

Roles == {"arm", "scenario-provider", "observer", "evaluator"}
Phases == {"checking", "prepared", "waiting", "settled", "cleaning",
           "returned", "ended", "crashed"}
Finished == {"ended", "crashed"}

\* Lines of a role process: replies, its own or made up by the code it loaded,
\* and what else that code prints: JSON of no schema, text, more than the byte
\* limit.
Replies == {"success", "failure"}
Prints == {"stray", "text", "flood"}

\* The reasoning-aware launcher's choice.
Reasoning == call.role = "arm" /\ call.arm = "beyondgreen"

(***************************************************************************)
(* What the launchers require of a capability.                             *)
(***************************************************************************)
Within(root, path) ==
  Len(root) <= Len(path) /\ \A i \in 1..Len(root) : root[i] = path[i]
Overlap(left, right) == Within(left, right) \/ Within(right, left)
Physical(paths) == {Real[p] : p \in paths}

\* Mutant: the paths are compared before symbolic links are resolved.
AdmissibleUnresolved(cap) ==
  /\ cap.lawful /\ cap.role = call.role
  /\ \A p \in cap.allow, d \in cap.deny : ~Overlap(p, d)
  /\ \E p \in cap.allow : Within(p, cap.entry)

Admissible(cap) ==
  /\ cap.lawful /\ cap.role = call.role
  /\ \A p, q \in cap.allow : Real[p] = Real[q] => p = q
  /\ \A p, q \in cap.deny : Real[p] = Real[q] => p = q
  /\ \A p \in Physical(cap.allow), d \in Physical(cap.deny) : ~Overlap(p, d)
  /\ \E p \in Physical(cap.allow) : Within(p, Real[cap.entry])

\* The public bundle of a reasoning call.
BundleIsSafe(cap) ==
  /\ cap.allow \cap PublicPaths # {}
  /\ cap.allow \cap PublicPaths \cap cap.deny = {}

(***************************************************************************)
(* The stages of a role process, after its request is read: those named in *)
(* handler-stage.ts, and "handler" for work outside any of them.           *)
(***************************************************************************)
Stages(role) ==
  CASE role = "arm" -> <<"handler">>
    [] role = "scenario-provider" ->
         <<"REQUEST_BINDING", "LOAD_PROVIDER", "EXECUTE_PROVIDER">>
    [] role = "observer" ->
         <<"REQUEST_BINDING", "LOAD_CANDIDATE", "LOAD_MOUNT", "handler",
           "EXECUTE_STEP">>
    [] role = "evaluator" ->
         <<"REQUEST_BINDING", "LOAD_EVALUATOR", "handler", "EXECUTE_EVALUATOR">>

\* Fixture code runs in the process from its first LOAD stage on.
HostsFixtureCode == ~Reasoning /\ call.role # "arm" /\ at >= 2

\* The lines a well-behaved child writes in the i-th place; the others are odd.
Usual(i) ==
  Replies \cup (IF i = 1 THEN {"thread"} ELSE IF i = 2 THEN {"turn"}
               ELSE {"progress", "answer", "completed"})
MayPrint(line) ==
  /\ Len(stdout) < MaxLines
  /\ \/ line \in Usual(Len(stdout) + 1)
     \/ Cardinality({i \in DOMAIN stdout : stdout[i] \notin Usual(i)}) < MaxOdd

Nothing == [kind |-> "none", code |-> "none"]
Thrown == [kind |-> "thrown", code |-> "none"]

Init ==
  /\ call \in {c \in [role : Roles, arm : {"status-quo", "beyondgreen"},
                      cap : Capabilities] :
               c.cap.role = c.role /\ (c.role = "arm" \/ c.arm = "status-quo")}
  /\ phase = "checking"
  /\ scratch = FALSE
  /\ child = "none" /\ exit = 0 /\ heir = FALSE /\ fed = FALSE
  /\ at = 0 /\ served = "none" /\ stdout = <<>>
  /\ timer = "off" /\ broken = FALSE
  /\ answer = Nothing

(***************************************************************************)
(* The launcher, up to its await of the child.                             *)
(***************************************************************************)
\* A check fails, or the file system refuses: no scratch directory exists.
Refuse ==
  /\ phase = "checking"
  /\ phase' = "ended" /\ answer' = Thrown
  /\ UNCHANGED <<call, scratch, process, timer, broken>>

MakeScratch ==
  /\ phase = "checking"
  /\ IF Reasoning THEN BundleIsSafe(call.cap) ELSE Admissible(call.cap)
  /\ phase' = "prepared" /\ scratch' = TRUE
  /\ UNCHANGED <<call, process, timer, broken, answer>>

\* Filling the scratch directory, or building the command, throws.
PreparationFails ==
  /\ phase = "prepared"
  /\ phase' = "cleaning" /\ answer' = Thrown
  /\ UNCHANGED <<call, scratch, process, timer, broken>>

Spawn ==
  /\ phase = "prepared"
  /\ phase' = "waiting" /\ child' = "running"
  /\ timer' = IF Reasoning THEN "armed" ELSE "off"
  /\ UNCHANGED <<call, scratch, exit, heir, fed, at, served, stdout, broken, answer>>

\* `error`: there is no child; a later `close` finds the call settled.
SpawnFails ==
  /\ phase = "prepared"
  /\ phase' = "settled" /\ broken' = TRUE
  /\ UNCHANGED <<call, scratch, process, timer, answer>>

(***************************************************************************)
(* The child.  It owes nothing: it may stop at any point, or never.        *)
(***************************************************************************)
ReadStdin ==
  /\ child = "running" /\ ~fed
  /\ fed' = TRUE
  /\ UNCHANGED <<call, phase, scratch, child, exit, heir, at, served, stdout,
                 timer, broken, answer>>

\* codex, or a descendant that outlives it, writes a line.
CodexWrites(line) ==
  /\ Reasoning
  /\ child = "running" \/ heir
  /\ phase # "crashed" /\ MayPrint(line)
  /\ stdout' = Append(stdout, line)
  /\ UNCHANGED <<call, phase, scratch, child, exit, heir, fed, at, served,
                 timer, broken, answer>>

\* Code loaded by a role process, or a descendant it leaves, writes any line to
\* the stdout that carries the reply: also a line that reads as a reply.
FixturePrints(line) ==
  /\ HostsFixtureCode
  /\ child = "running" \/ heir
  /\ phase # "crashed" /\ MayPrint(line)
  /\ stdout' = Append(stdout, line)
  /\ UNCHANGED <<call, phase, scratch, child, exit, heir, fed, at, served,
                 timer, broken, answer>>

\* Mutant: the stages are walked past the last one.
RoleAdvancesPast ==
  /\ child = "running" /\ ~Reasoning
  /\ fed /\ served = "none"
  /\ at' = at + 1
  /\ UNCHANGED <<call, phase, scratch, child, exit, heir, fed, served, stdout,
                 timer, broken, answer>>

RoleAdvances ==
  /\ child = "running" /\ ~Reasoning
  /\ fed /\ served = "none"
  /\ at < Len(Stages(call.role))
  /\ at' = at + 1
  /\ UNCHANGED <<call, phase, scratch, child, exit, heir, fed, served, stdout,
                 timer, broken, answer>>

\* serveOfficialProcessRequest writes one line: a failure at any stage (also
\* for a request it could not read and for an output that fails its schema),
\* a success after the last one.
RoleServes(how) ==
  /\ child = "running" /\ ~Reasoning
  /\ fed /\ served = "none" /\ Len(stdout) < MaxLines
  /\ how = "ok" => at = Len(Stages(call.role))
  /\ served' = how
  /\ stdout' = Append(stdout, IF how = "ok" THEN "success" ELSE "failure")
  /\ UNCHANGED <<call, phase, scratch, child, exit, heir, fed, at, timer, broken,
                 answer>>

\* A descendant inherits the pipe, and lets it go.
Fork ==
  /\ child = "running" /\ ~heir
  /\ Reasoning \/ HostsFixtureCode
  /\ heir' = TRUE
  /\ UNCHANGED <<call, phase, scratch, child, exit, fed, at, served, stdout, timer,
                 broken, answer>>

HeirEnds ==
  /\ heir
  /\ heir' = FALSE
  /\ UNCHANGED <<call, phase, scratch, child, exit, fed, at, served, stdout, timer,
                 broken, answer>>

\* Without fixture code a role process exits with the status it served; with
\* it, or in codex, any code is possible at any time: process.exit, an
\* uncaught error after the reply, an event loop that runs dry before it.
ExitCodes ==
  IF Reasoning \/ HostsFixtureCode THEN {0, 1, 2}
  ELSE CASE served = "ok" -> {0} [] served = "failed" -> {1} [] OTHER -> {}

ChildExits(code) ==
  /\ child = "running"
  /\ code \in ExitCodes
  /\ child' = "exited" /\ exit' = code
  /\ UNCHANGED <<call, phase, scratch, heir, fed, at, served, stdout, timer,
                 broken, answer>>

\* A signal may leave the last line torn.
Killed ==
  /\ child' = "killed"
  /\ stdout' \in {stdout} \cup
       {Append(stdout, line) : line \in
          {l \in {IF Reasoning THEN "junk" ELSE "text"} : MayPrint(l)}}
  /\ UNCHANGED <<exit, heir, fed, at, served>>

SystemKills ==
  /\ child = "running"
  /\ Killed
  /\ UNCHANGED <<call, phase, scratch, timer, broken, answer>>

(***************************************************************************)
(* The launcher's callbacks.                                               *)
(***************************************************************************)
\* Mutant: the deadline is noted, but the child is left running.
TimerFiresQuietly ==
  /\ phase = "waiting" /\ timer = "armed"
  /\ timer' = "fired"
  /\ UNCHANGED <<call, phase, scratch, process, broken, answer>>

\* setTimeout: SIGKILL reaches the child alone.
TimerFires ==
  /\ phase = "waiting" /\ timer = "armed"
  /\ timer' = "fired"
  /\ IF child = "running" THEN Killed ELSE UNCHANGED process
  /\ UNCHANGED <<call, phase, scratch, broken, answer>>

\* The sandbox backend's data listener: too many bytes.
FloodKills ==
  /\ phase = "waiting" /\ ~Reasoning
  /\ child = "running" /\ \E i \in DOMAIN stdout : stdout[i] = "flood"
  /\ Killed
  /\ UNCHANGED <<call, phase, scratch, timer, broken, answer>>

\* The child ended with stdin unread: EPIPE on a stream without an `error`
\* listener ends the coordinator.
PipeBreaks ==
  /\ phase = "waiting" /\ child \in {"exited", "killed"} /\ ~fed
  /\ phase' = "crashed"
  /\ UNCHANGED <<call, scratch, process, timer, broken, answer>>

\* `close`: the child has ended and nothing holds its stdout.
Close ==
  /\ phase = "waiting" /\ child \in {"exited", "killed"} /\ ~heir
  /\ phase' = "settled"
  /\ UNCHANGED <<call, scratch, process, timer, broken, answer>>

(***************************************************************************)
(* Classification.                                                         *)
(***************************************************************************)
Abstained(code) == [kind |-> "abstained", code |-> code]

\* Mutant: the exit code is read before the deadline.
TransportResultEager ==
  IF broken THEN Abstained("EXECUTABLE_UNAVAILABLE")
  ELSE IF child = "exited" /\ exit # 0 THEN Abstained("NONZERO_EXIT")
  ELSE IF Parse(stdout) = Accepted THEN [kind |-> "verdict", code |-> "none"]
  ELSE Abstained(Parse(stdout))

\* The transport and the BeyondGreen handler: every operational failure is an
\* abstention.
TransportResult ==
  IF timer = "fired" THEN Abstained("TOTAL_TIMEOUT")
  ELSE IF broken THEN Abstained("EXECUTABLE_UNAVAILABLE")
  ELSE IF child = "killed" \/ exit # 0 THEN Abstained("NONZERO_EXIT")
  ELSE IF Parse(stdout) = Accepted THEN [kind |-> "verdict", code |-> "none"]
  ELSE Abstained(Parse(stdout))

\* Mutant: the last line is taken for the reply, whatever stands before it.
LaunchResultLast ==
  IF /\ ~broken /\ child = "exited" /\ exit \in {0, 1}
     /\ stdout # <<>> /\ stdout[Len(stdout)] \notin {"text", "flood"}
     /\ exit = 1 <=> stdout[Len(stdout)] = "failure"
    THEN [kind |-> "response", code |-> stdout[Len(stdout)]]
    ELSE Thrown

\* The backend and the isolated launcher: one JSON line, in line with the exit
\* status.
LaunchResult ==
  IF /\ ~broken /\ child = "exited" /\ exit \in {0, 1}
     /\ Len(stdout) = 1 /\ stdout[1] \notin {"text", "flood"}
     /\ exit = 1 <=> stdout[1] = "failure"
    THEN [kind |-> "response", code |-> stdout[1]]
    ELSE Thrown

Classify ==
  /\ phase = "settled"
  /\ phase' = "cleaning"
  /\ answer' = IF Reasoning THEN TransportResult ELSE LaunchResult
  /\ UNCHANGED <<call, scratch, process, timer, broken>>

\* Mutant: the scratch directory is removed only after a success.
CleanIfAnswered ==
  /\ phase = "cleaning"
  /\ phase' = "returned"
  /\ scratch' = (answer.kind \in {"thrown", "abstained"})
  /\ UNCHANGED <<call, process, timer, broken, answer>>

\* `finally`, whatever happened before it.
Clean ==
  /\ phase = "cleaning"
  /\ phase' = "returned" /\ scratch' = FALSE
  /\ UNCHANGED <<call, process, timer, broken, answer>>

\* The removal throws, in place of the answer.
CleanFails ==
  /\ phase = "cleaning"
  /\ phase' = "returned" /\ answer' = Thrown
  /\ UNCHANGED <<call, scratch, process, timer, broken>>

\* The hook reads the launcher's response: an arm's failure is an abstention,
\* another role's is thrown, as is JSON that satisfies no schema.
Received ==
  CASE answer.kind = "response" /\ answer.code = "success" ->
         [kind |-> "result", code |-> "none"]
    [] answer.kind = "response" /\ answer.code = "failure" ->
         IF call.role = "arm" THEN Abstained("failure")
         ELSE [kind |-> "roleFailure", code |-> "failure"]
    [] answer.kind = "response" /\ answer.code \notin Replies -> Thrown
    [] answer.kind = "verdict" -> [kind |-> "result", code |-> "none"]
    [] OTHER -> answer

Receive ==
  /\ phase = "returned"
  /\ phase' = "ended" /\ answer' = Received
  /\ UNCHANGED <<call, scratch, process, timer, broken>>

Parent ==
  \/ Refuse \/ MakeScratch \/ PreparationFails \/ Spawn \/ SpawnFails
  \/ Classify \/ Clean \/ CleanFails \/ Receive

Callbacks == Close \/ PipeBreaks \/ FloodKills

Child ==
  \/ ReadStdin
  \/ \E line \in Lines : CodexWrites(line)
  \/ \E line \in Prints \cup Replies : FixturePrints(line)
  \/ RoleAdvances
  \/ \E how \in {"ok", "failed"} : RoleServes(how)
  \/ Fork \/ HeirEnds
  \/ \E code \in {0, 1, 2} : ChildExits(code)
  \/ SystemKills

Next == Parent \/ TimerFires \/ Callbacks \/ Child

\* The launcher's own steps, its deadline and the delivery of `close` happen;
\* nothing is assumed of the child.
Spec ==
  /\ Init /\ [][Next]_vars
  /\ WF_vars(Parent) /\ WF_vars(TimerFires) /\ WF_vars(Close)
-----------------------------------------------------------------------------
(***************************************************************************)
(* Properties.                                                             *)
(***************************************************************************)
AnswerKinds == {"none", "thrown", "response", "verdict", "abstained", "result",
                "roleFailure"}

\* Types.
TypeOK ==
  /\ call.role \in Roles /\ call.arm \in {"status-quo", "beyondgreen"}
  /\ call.cap \in Capabilities
  /\ phase \in Phases
  /\ scratch \in BOOLEAN /\ heir \in BOOLEAN /\ fed \in BOOLEAN /\ broken \in BOOLEAN
  /\ child \in {"none", "running", "exited", "killed"}
  /\ exit \in {0, 1, 2}
  /\ at \in 0..5
  /\ served \in {"none", "ok", "failed"}
  /\ stdout \in Seq(Lines \cup Replies \cup Prints)
  /\ timer \in {"off", "armed", "fired"}
  /\ answer.kind \in AnswerKinds

\* The process served this; or it served nothing and hosts fixture code, which
\* may have printed the reply and exited in its place.
SaidBy(how) == served = how \/ (served = "none" /\ HostsFixtureCode)

\* A hook returns a role's result or failure only when one line of that kind
\* was all that was printed and the process exited accordingly.  That line is
\* the reply the process served, unless it served none: what fixture code
\* prints can void a served reply, never replace it, and a process without
\* fixture code (an arm, or any role before it loads) cannot be spoken for.
\* Whether a reply was served at all the launcher cannot tell
\* (process-launcher.ts:179-181).  A reasoning verdict counts only when the
\* stream is complete, the child exited with 0 and the deadline did not pass:
\* neither a late answer, nor one cut short by a signal, nor one a descendant
\* went on writing after, is ever counted.
SoundAnswer ==
  /\ answer.kind = "result" =>
       /\ child = "exited" /\ exit = 0 /\ ~heir
       /\ IF Reasoning THEN timer # "fired" /\ Complete(stdout)
                       ELSE stdout = <<"success">> /\ SaidBy("ok")
  /\ answer.kind = "roleFailure" \/ (answer.kind = "abstained" /\ ~Reasoning) =>
       /\ child = "exited" /\ exit = 1 /\ ~heir
       /\ stdout = <<"failure">> /\ SaidBy("failed")
  /\ answer.kind = "abstained" /\ Reasoning => answer.code \in FailureCodes

\* The reader accepts exactly the complete streams, and of a complete stream no
\* proper prefix: an answer cut short at any line is refused.
StreamReadExactly ==
  Reasoning =>
    /\ Parse(stdout) = Accepted <=> Complete(stdout)
    /\ Complete(stdout) =>
         \A n \in 0..(Len(stdout) - 1) : Parse(SubSeq(stdout, 1, n)) # Accepted

\* The scratch directory outlives neither the call nor a failure of it, and is
\* not removed under a child that may still use it: a call that hands back an
\* answer has removed it, and it is there while the child runs.
ScratchFollowsCall ==
  /\ phase = "ended" /\ answer.kind # "thrown" => ~scratch
  /\ child = "running" => scratch

\* An isolated child is started only when no file it may read is a denied one,
\* after symbolic links are resolved.
DeniedStaysUnreadable ==
  child # "none" /\ ~Reasoning =>
    \A f \in Files :
      ~( /\ \E p \in call.cap.allow : Within(Real[p], f)
         /\ \E d \in call.cap.deny : Within(Real[d], f))

\* A reasoning call ends, whatever its child does, unless a descendant of the
\* child holds the pipe for ever; an isolated call ends once its child has.
CallEnds ==
  <>[]~heir =>
    ( phase = "waiting" /\ (Reasoning \/ child # "running")
        ~> phase \in Finished )
=============================================================================
