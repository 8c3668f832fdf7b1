----------------------------- MODULE FixtureTrial -----------------------------
(***************************************************************************)
(* One trial of one candidate of one fixture of the evaluation: the mount, *)
(* settled actions one after the other, and the judgement of the frames.   *)
(* A trial plays either actions chosen freely, or one script of the        *)
(* fixture's visible gate, or its canonical script, which the evaluator    *)
(* role judges from the observer's frames.  What an action does to which   *)
(* candidate is in CountedFixtures, SourceFixtures and IdentityFixtures.   *)
(***************************************************************************)
EXTENDS CountedFixtures, SourceFixtures, IdentityFixtures

CONSTANT MaxTurns  \* bound: the settled actions of a free trial

ASSUME TurnsAssumption == MaxTurns \in Nat

Fixtures == {"D01", "D02", "D03", "D04", "H01", "H02", "H03", "H04", "H05", "H06"}

\* The legacy board exists for BG-D01 only.
Candidates(f) == {"preserving", "false_green"} \cup (IF f = "D01" THEN {"legacy"} ELSE {})

VARIABLES fixture, candidate,
          mode,      \* Free, Canonical, or a visible assertion
          script,    \* the actions still to play, in a scripted trial
          state,     \* of the mounted candidate and what it is mounted on
          last,      \* the action of the last settled step
          frames,    \* what the harness has read so far, in a scripted trial
          turn,      \* settled actions so far
          report     \* the judgement, "none" before it

Free == <<"free">>
Canonical == <<"canonical">>
Assertion(k) == <<"visible", k>>

vars == <<fixture, candidate, mode, script, state, last, frames, turn, report>>

-----------------------------------------------------------------------------
(* The parts of each fixture. *)

MountOf(f, c, m) ==
  CASE f = "D01" -> D01Mount [] f = "D02" -> D02Mount [] f = "D03" -> D03Mount
    [] f = "D04" -> D04Mount [] f = "H01" -> H01Mount [] f = "H02" -> H02Mount
    [] f = "H03" -> H03Mount [] f = "H04" -> H04Mount(c)
    [] f = "H05" -> H05Mount(c, m \in {Free, Canonical})
    [] f = "H06" -> H06Mount

ActionsOf(f) ==
  CASE f = "D01" -> D01Actions [] f = "D02" -> D02Actions [] f = "D03" -> D03Actions
    [] f = "D04" -> D04Actions [] f = "H01" -> H01Actions [] f = "H02" -> H02Actions
    [] f = "H03" -> H03Actions [] f = "H04" -> H04Actions [] f = "H05" -> H05Actions
    [] f = "H06" -> H06Actions

StepOf(f, c, s, a) ==
  CASE f = "D01" -> D01Step(c, s, a) [] f = "D02" -> D02Step(c, s, a)
    [] f = "D03" -> D03Step(c, s, a) [] f = "D04" -> D04Step(c, s, a)
    [] f = "H01" -> H01Step(c, s, a) [] f = "H02" -> H02Step(c, s, a)
    [] f = "H03" -> H03Step(c, s, a) [] f = "H04" -> H04Step(c, s, a)
    [] f = "H05" -> H05Step(c, s, a) [] f = "H06" -> H06Step(c, s, a)

ObserveOf(f, c, s) ==
  CASE f \in {"D01", "D02", "D04", "H03", "H05"} -> s
    [] f = "D03" -> D03Observe(c, s) [] f = "H01" -> H01Observe(s)
    [] f = "H02" -> H02Observe(s) [] f = "H04" -> H04Observe(s) [] f = "H06" -> H06Observe(s)

VisibleOf(f) ==
  CASE f = "D01" -> D01Visible [] f = "D02" -> D02Visible [] f = "D03" -> D03Visible
    [] f = "D04" -> D04Visible [] f = "H01" -> H01Visible [] f = "H02" -> H02Visible
    [] f = "H03" -> H03Visible [] f = "H04" -> H04Visible [] f = "H05" -> H05Visible
    [] f = "H06" -> H06Visible

HoldsOf(f, k, fs) ==
  CASE f = "D01" -> D01Holds(k, fs) [] f = "D02" -> D02Holds(k, fs) [] f = "D03" -> D03Holds(k, fs)
    [] f = "D04" -> D04Holds(k, fs) [] f = "H01" -> H01Holds(k, fs) [] f = "H02" -> H02Holds(k, fs)
    [] f = "H03" -> H03Holds(k, fs) [] f = "H04" -> H04Holds(k, fs) [] f = "H05" -> H05Holds(k, fs)
    [] f = "H06" -> H06Holds(k, fs)

CanonicalOf(f) ==
  CASE f = "D01" -> D01Canonical [] f = "D02" -> D02Canonical [] f = "D03" -> D03Canonical
    [] f = "D04" -> D04Canonical [] f = "H01" -> H01Canonical [] f = "H02" -> H02Canonical
    [] f = "H03" -> H03Canonical [] f = "H04" -> H04Canonical [] f = "H05" -> H05Canonical
    [] f = "H06" -> H06Canonical

OracleOf(f, fs) ==
  CASE f = "D01" -> D01Oracle(fs) [] f = "D02" -> D02Oracle(fs) [] f = "D03" -> D03Oracle(fs)
    [] f = "D04" -> D04Oracle(fs) [] f = "H01" -> H01Oracle(fs) [] f = "H02" -> H02Oracle(fs)
    [] f = "H03" -> H03Oracle(fs) [] f = "H04" -> H04Oracle(fs) [] f = "H05" -> H05Oracle(fs)
    [] f = "H06" -> H06Oracle(fs)

\* An unmounted candidate is not played further; nor are more requests made than the bound.
MayPlay(f, s, a) ==
  CASE f = "D04" -> s.mounted
    [] f = "H01" -> ~s.thrown
    [] f = "H02" -> a[1] = "select" => Len(s.requests) < MaxRequests
    [] f = "H04" -> ~s.disposed
    [] f = "H05" -> s.mounted # {}
    [] OTHER -> TRUE

-----------------------------------------------------------------------------
(* The judgement. *)

NoReport == [kind |-> "none"]

\* Whether the visible assertion holds.
GateReport(holds) == [kind |-> "gate", green |-> holds]

\* A rejection is for the right reason only when the oracle rejects too.
reasonCorrect(accepted, verdict, named) == ~accepted /\ verdict = "reject" /\ named

EvaluatorReport(accepted, verdict, named) ==
  [kind |-> "evaluation", groundTruth |-> IF accepted THEN "preserving" ELSE "false_green",
   reasonCorrectReject |-> reasonCorrect(accepted, verdict, named)]

-----------------------------------------------------------------------------
Init ==
  /\ fixture \in Fixtures
  /\ candidate \in Candidates(fixture)
  /\ mode \in {Free, Canonical} \cup {Assertion(k) : k \in DOMAIN VisibleOf(fixture)}
  /\ script = CASE mode = Free -> <<>>
                [] mode = Canonical -> CanonicalOf(fixture)
                [] OTHER -> VisibleOf(fixture)[mode[2]]
  /\ state = MountOf(fixture, candidate, mode)
  /\ last = <<"mount">>
  /\ frames = IF mode = Free THEN <<>> ELSE <<ObserveOf(fixture, candidate, state)>>
  /\ turn = 0
  /\ report = NoReport

\* One dispatch of the harness, settled before the next one.
Settle(a) ==
  /\ state' = StepOf(fixture, candidate, state, a)
  /\ last' = a
  /\ turn' = turn + 1
  /\ UNCHANGED <<fixture, candidate, mode, report>>

Play ==
  /\ mode = Free
  /\ turn < MaxTurns
  /\ \E a \in ActionsOf(fixture) : MayPlay(fixture, state, a) /\ Settle(a)
  /\ UNCHANGED <<script, frames>>

Advance ==
  /\ mode # Free
  /\ script # <<>>
  /\ Settle(Head(script))
  /\ script' = Tail(script)
  /\ frames' = Append(frames, ObserveOf(fixture, candidate, state'))

\* The visible gate runs before the decisions; the evaluator after them.
JudgeVisible ==
  /\ mode \notin {Free, Canonical}
  /\ script = <<>> /\ report = NoReport
  /\ report' = GateReport(HoldsOf(fixture, mode[2], frames))
  /\ UNCHANGED <<fixture, candidate, mode, script, state, last, frames, turn>>

JudgeCanonical ==
  /\ mode = Canonical
  /\ script = <<>> /\ report = NoReport
  /\ \E verdict \in {"accept", "reject", "abstain"}, named \in BOOLEAN :
       report' = EvaluatorReport(OracleOf(fixture, frames), verdict, named)
  /\ UNCHANGED <<fixture, candidate, mode, script, state, last, frames, turn>>

Next == Play \/ Advance \/ JudgeVisible \/ JudgeCanonical

Spec == Init /\ [][Next]_vars

-----------------------------------------------------------------------------
(* The contracts the fixtures publish to the arms, each over one settled   *)
(* action: the state before, the action, the state after.                  *)

OneMoreLabel(s, t) == Len(t.log) = Len(s.log) + 1 /\ Front(t.log) = s.log

\* An allocation adds as many steps as it says to every selected card and to no other.
D01Contract(s, a, t) ==
  IF D01Rejects(a) THEN t = s
  ELSE /\ OneMoreLabel(s, t)
       /\ a[1] = "allocate" =>
            /\ \A c \in Cards :
                 t.alloc[c] = s.alloc[c] + (IF c \in s.selected THEN a[2] * s.step ELSE 0)
            /\ t.selected = s.selected /\ t.step = s.step
       /\ a[1] = "remove" =>
            \A c \in Cards : t.alloc[c] \in 0 .. s.alloc[c] /\ (t.alloc[c] = s.alloc[c] \/ c \in s.selected)
       /\ a[1] \notin {"allocate", "remove", "reset"} => t.alloc = s.alloc

\* Queued parcels add up, and a flush moves them without losing or inventing any.
D02Contract(s, a, t) ==
  IF D02Rejects(a) THEN t = s
  ELSE /\ OneMoreLabel(s, t)
       /\ \A l \in Lanes :
            LET held(u) == u.pending[l] + u.dispatched[l]
                queued == IF a[1] = "queue" /\ l \in s.selected THEN a[2] * s.unit ELSE 0
            IN  a[1] # "reset" => held(t) = held(s) + queued
       /\ a[1] = "flush" => \A l \in Lanes : t.pending[l] = IF l \in s.selected THEN 0 ELSE s.pending[l]
       /\ a[1] \notin {"flush", "reset"} => t.dispatched = s.dispatched

\* Packet p is planned no later than packet q.
Before(u, p, q) ==
  \E i, j \in DOMAIN u.selected : i <= j /\ u.selected[i] = p /\ u.selected[j] = q

\* A variety is planned at most once and the rest keeps its order; what does not
\* apply changes no plan; the capacity shown is that of the plan.
D03Contract(c, s, a, t) ==
  /\ \A i, j \in DOMAIN t.selected :
       t.selected[i].varietyId = t.selected[j].varietyId => i = j
  /\ a[1] # "reset" =>
       \A p, q \in Range(s.selected) \cup Range(t.selected) :
         a[2] \notin {p.varietyId, q.varietyId} => (Before(s, p, q) <=> Before(t, p, q))
  /\ t.result = "false" /\ a[1] # "reset" => t.selected = s.selected
  /\ D03Observe(c, t).occupied = CellsPlanned(t.selected)

\* The panel listens to the channel it shows, once, and shows nothing of another one.
D04Contract(t) ==
  /\ \A ch \in Channels : t.listeners[ch] = IF t.mounted /\ ch = t.channel THEN 1 ELSE 0
  /\ t.bulletin # NoBulletin => t.bulletin[1] = t.channel

\* A new identity brings both of its fields, clean; the same one keeps the drafts.
H01Contract(s, a, t) ==
  /\ t.current.cardId # s.current.cardId =>
       t.title = t.current.initialTitle /\ t.theme = t.current.initialTheme /\ ~isDirty(t)
  /\ a[1] = "rerender" /\ t.current.cardId = s.current.cardId =>
       <<t.title, t.theme, t.current>> = <<s.title, s.theme, s.current>>
  /\ ~t.thrown /\ (a[1] = "rerender" => assertCardProps(a[2])) => OneMoreLabel(s, t)

\* A completion shows only what the latest selection asked for, and only while it waits.
H02Contract(s, a, t) ==
  /\ t.content # NoGuide => t.status = "ready" /\ t.content = t.guide
  /\ t.status = "loading" => t.requests[Len(t.requests)].pending
  /\ a[1] = "complete" /\ t.content # s.content => a[2] = Len(s.requests) /\ s.status = "loading"

\* The handle object is the same exactly while the selection is.
H03Contract(s, t) ==
  LET made == IF t.selected = s.selected THEN 0 ELSE 1
  IN  /\ t.handle = s.handle + made
      /\ t.attachments = s.attachments + made
      /\ t.label = t.selected

\* Inactive is unmounted, with one cleanup per mount; activation starts afresh.
H04Contract(s, t) ==
  /\ (t.drawer # NoDrawer) = (t.active /\ ~t.disposed)
  /\ t.mounts - t.cleanups = (IF t.drawer = NoDrawer THEN 0 ELSE 1)
  /\ s.drawer = NoDrawer /\ t.drawer # NoDrawer =>
       t.drawer = [generation |-> s.mounts + 1, draft |-> t.note]

\* Every mounted readout shows the store, whoever wrote it; the others hear nothing.
H05Contract(s, t) ==
  /\ t.subscribers = t.mounted
  /\ \A r \in t.mounted : t.shown[r] = t.store
  /\ \A r \in Readouts \ (s.mounted \cup t.mounted) : t.shown[r] = s.shown[r] /\ t.notified[r] = s.notified[r]
  /\ t.store.revision = s.store.revision + (IF t.store.unit = s.store.unit THEN 0 ELSE 1)

\* What is shown is what is committed, save while a save is pending.
H06Contract(s, a, t) ==
  /\ t.status = "idle" => t.displayed = t.committed /\ t.pending = NoSave
  /\ t.status = "saving" => t.pending = <<t.displayed, t.committed>> /\ t.displayed # t.committed
  /\ t.committed # s.committed => a[1] = "resolve" /\ t.committed = s.displayed
  /\ t.error => s.error \/ a[1] = "reject"

Contract(f, c, s, a, t) ==
  CASE f = "D01" -> D01Contract(s, a, t) [] f = "D02" -> D02Contract(s, a, t)
    [] f = "D03" -> D03Contract(c, s, a, t) [] f = "D04" -> D04Contract(t)
    [] f = "H01" -> H01Contract(s, a, t) [] f = "H02" -> H02Contract(s, a, t)
    [] f = "H03" -> H03Contract(s, t) [] f = "H04" -> H04Contract(s, t)
    [] f = "H05" -> H05Contract(s, t) [] f = "H06" -> H06Contract(s, a, t)

(* A candidate that is meant to preserve the behaviour keeps its fixture's *)
(* published contract at every settled action of every sequence of them.   *)
ContractKept ==
  [][turn' # turn /\ candidate # "false_green" =>
       Contract(fixture, candidate, state, last', state')]_vars

(* The visible gate is green for both candidates, so that it cannot tell   *)
(* them apart; the canonical oracle accepts the preserving ones and no     *)
(* other, and no rejection of a preserving candidate counts as correct.    *)
VerdictMatchesKind ==
  report # NoReport =>
    IF mode = Canonical
    THEN /\ (report.groundTruth = "false_green") = (candidate = "false_green")
         /\ report.reasonCorrectReject => candidate = "false_green"
    ELSE report.green
=============================================================================
