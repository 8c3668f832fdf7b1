------------------------------- MODULE Rehearsal -------------------------------
(***************************************************************************)
(* The four rehearsals of an official run: the synthetic one               *)
(* (rehearsal.ts) and the multi-process one (multiprocess-rehearsal.ts),   *)
(* which take one slot through arms, observers and evaluators; and the     *)
(* observer and evaluator rehearsals (observer-rehearsal.ts,               *)
(* evaluator-rehearsal.ts), which take every slot of the plan through what *)
(* follows the decisions.                                                  *)
(*                                                                         *)
(* Each is a sequence of batches of calls to injected hooks.  The calls of *)
(* a batch are started together by Promise.all: when one of them rejects,  *)
(* the rehearsal rejects while its siblings are still running.             *)
(***************************************************************************)
EXTENDS Scoring, Functions

CONSTANTS
  Slots,    \* the slots of the plan, in its order
  Sources   \* the sequences of frozen decisions a recovery source may hold

\* No slot is twice in a plan.
ASSUME SlotsAssumption ==
  /\ Slots \in Seq(Range(Slots)) /\ Slots # <<>>
  /\ \A i, j \in DOMAIN Slots : Slots[i] = Slots[j] => i = j

VARIABLES
  mode,     \* which rehearsal
  source,   \* the frozen decisions the sequential ones begin with
  next,     \* the batch to be started next
  running,  \* the calls in flight
  replies,  \* the accepted reply of each call: [to, body]
  outcome,  \* running, rejected, returned
  report    \* the aggregates of a returned bundle

vars == <<mode, source, next, running, replies, outcome, report>>

Parallel == {"synthetic", "multiprocess"}
Sequential == {"observer", "evaluator"}

\* A decision is known by its digest, hence by what it holds: the slot (with
\* the input it was made from) and the arm.
Decision(slot, arm) == [slot |-> slot, arm |-> arm]
Decisions == [slot : Range(Slots), arm : Arms]
Own == Slots[1]

(***************************************************************************)
(* The calls, batch by batch.                                              *)
(***************************************************************************)
Call(role, slot, arm, nth) == [role |-> role, slot |-> slot, arm |-> arm, nth |-> nth]
Release(slot) == Call("provider", slot, "both", 1)

ForBothArms(role) == {Call(role, Own, arm, 1) : arm \in Arms}

\* A slot is taken through its release and, arm by arm, two captures and (in the
\* evaluator rehearsal) the evaluation of the pair.
Captured(slot, arm, nth) == {Call("observer", slot, arm, nth)}
Evaluated(slot, arm) == {Call("evaluator", slot, arm, 1)}

SlotBatches(slot) ==
  LET sq == "status-quo"
      bg == "beyondgreen"
  IN IF mode = "observer"
       THEN <<{Release(slot)}, Captured(slot, sq, 1), Captured(slot, sq, 2),
              Captured(slot, bg, 1), Captured(slot, bg, 2)>>
     ELSE <<{Release(slot)}, Captured(slot, sq, 1), Captured(slot, sq, 2), Evaluated(slot, sq),
            Captured(slot, bg, 1), Captured(slot, bg, 2), Evaluated(slot, bg)>>
PerSlot == IF mode = "observer" THEN 5 ELSE 7

Batches ==
  IF mode \in Parallel
    THEN <<ForBothArms("arm"), ForBothArms("observer"), ForBothArms("evaluator")>>
    ELSE [b \in 1..(PerSlot * Len(Slots)) |->
            SlotBatches(Slots[(b - 1) \div PerSlot + 1])[((b - 1) % PerSlot) + 1]]

Body(call) == replies[call].body
Accepted == DOMAIN replies

(***************************************************************************)
(* The requests: what is checked before a call is made.                    *)
(***************************************************************************)
\* The two decisions of the multi-process rehearsal, whichever call gave them.
Decided == {Body(c) : c \in ForBothArms("arm")}
DecisionSetIsFinal == {d.arm : d \in Decided} = Arms /\ \A d \in Decided : d.slot = Own

\* Mutant: the evaluator request does not look at the decision of the capture.
CaptureIsOfArm(capture, slot, arm) == capture.arm = arm /\ capture.slot = slot

CaptureIsBound(capture, slot, arm) ==
  /\ capture.arm = arm /\ capture.slot = slot
  /\ capture.of = Decision(slot, arm)

\* The two captures of an arm match, and are of its decision.
PairIsFinal(slot, arm) ==
  LET capture(n) == Body(Call("observer", slot, arm, n))
  IN capture(1) = capture(2) /\ CaptureIsBound(capture(1), slot, arm)

DecisionsOf(decisions, slot) == SelectSeq(decisions, LAMBDA d : d.slot = slot)
OrderedPair(slot) == <<Decision(slot, "status-quo"), Decision(slot, "beyondgreen")>>

RequestParses(call) ==
  CASE mode = "multiprocess" /\ call.role = "observer" -> DecisionSetIsFinal
    [] mode = "multiprocess" /\ call.role = "evaluator" ->
         /\ DecisionSetIsFinal
         /\ CaptureIsBound(Body(Call("observer", Own, call.arm, 1)), Own, call.arm)
    [] call.role = "provider" ->
         DecisionsOf(source, call.slot) = OrderedPair(call.slot)
    [] mode = "evaluator" /\ call.role = "evaluator" -> PairIsFinal(call.slot, call.arm)
    [] OTHER -> TRUE

(***************************************************************************)
(* The replies: well-formed ones, and what is checked of them.             *)
(***************************************************************************)
Bound(call) == [slot |-> call.slot, arm |-> call.arm,
                of |-> Decision(call.slot, call.arm), text |-> "first"]

\* Captures that differ from the bound one in one respect at most; what a mode
\* has no field for, or never reads, is fixed.
Captures(call) ==
  {c \in [slot : Range(Slots), arm : Arms, of : Decisions, text : {"first", "second"}] :
     LET differs == {f \in DOMAIN c : c[f] # Bound(call)[f]}
     IN /\ Cardinality(differs) <= 1
        /\ mode = "synthetic" => "slot" \notin differs
        /\ mode = "observer" => differs \subseteq {"arm"}
        /\ mode \in Parallel => "text" \notin differs}

Bodies(call) ==
  CASE call.role = "arm" ->
         {d \in Decisions : mode = "synthetic" => d.slot = Own}
    [] call.role = "provider" ->
         [slot : Range(Slots), set : {"frozen", "other"}]
    [] call.role = "observer" -> Captures(call)
    [] OTHER ->
         {r \in ScoredRecords(Range(Slots)) :
            mode \in Sequential => r.verdict = "accept" /\ ~r.reason}

RecordIsBound(record, call) == record.slot = call.slot /\ record.arm = call.arm

Accepts(call, to, body) ==
  IF mode = "multiprocess" THEN to = call
  ELSE IF mode = "synthetic" THEN
    CASE call.role = "arm" -> body.arm = call.arm
      [] call.role = "observer" ->
           body.arm = call.arm /\ body.of = Body(Call("arm", Own, call.arm, 1))
      [] OTHER -> RecordIsBound(body, call)
  ELSE
    CASE call.role = "provider" -> body.slot = call.slot /\ body.set = "frozen"
      [] call.role = "observer" -> TRUE
      \* The frozen ground truth of every candidate is taken to be "preserving".
      [] OTHER -> RecordIsBound(body, call) /\ body.complete /\ body.truth = "preserving"

Init ==
  /\ mode \in Parallel \cup Sequential
  /\ source \in IF mode \in Parallel THEN {<<>>} ELSE Sources
  /\ next = 1 /\ running = {} /\ replies = << >>
  /\ outcome = "running" /\ report = << >>

\* The hooks do not open the post-decision stage.
GateRefuses ==
  /\ mode \in Sequential /\ outcome = "running" /\ next = 1 /\ running = {}
  /\ outcome' = "rejected"
  /\ UNCHANGED <<mode, source, next, running, replies, report>>

\* Mutant: a batch is started without awaiting the one before.
StartEagerly ==
  /\ outcome = "running" /\ next <= Len(Batches)
  /\ \A call \in Batches[next] : mode \in Sequential => running = {}
  /\ running' = running \cup Batches[next]
  /\ next' = next + 1
  /\ UNCHANGED <<mode, source, replies, outcome, report>>

\* The requests of a batch are built and sent in one tick: one that does not
\* parse rejects the rehearsal, but its sibling is sent all the same.
Start ==
  /\ outcome = "running" /\ running = {} /\ next <= Len(Batches)
  /\ running' = {call \in Batches[next] : RequestParses(call)}
  /\ outcome' = IF running' = Batches[next] THEN "running" ELSE "rejected"
  /\ next' = next + 1
  /\ UNCHANGED <<mode, source, replies, report>>

\* A hook resolves; what is not accepted rejects the rehearsal, and what comes
\* after a rejection is dropped.
Resolve(call) ==
  /\ call \in running
  /\ running' = running \ {call}
  /\ \E to \in IF mode = "multiprocess" THEN Batches[next - 1] ELSE {call},
        body \in Bodies(call) :
       IF outcome = "running" /\ Accepts(call, to, body)
         THEN /\ replies' = [c \in Accepted \cup {call} |->
                               IF c = call THEN [to |-> to, body |-> body]
                               ELSE replies[c]]
              /\ outcome' = outcome
         ELSE replies' = replies /\ outcome' = "rejected"
  /\ UNCHANGED <<mode, source, next, report>>

\* A hook rejects, or resolves with what no schema accepts.
Reject(call) ==
  /\ call \in running
  /\ running' = running \ {call}
  /\ outcome' = "rejected"
  /\ UNCHANGED <<mode, source, next, replies, report>>

\* The records of the two arms, in their order.
Scored == [k \in 1..2 |-> Body(Call("evaluator", Own, <<"status-quo", "beyondgreen">>[k], 1))]

AllReplied == outcome = "running" /\ running = {} /\ next > Len(Batches)

\* The bundle is built from the records, and reproduced from them.
ReturnBundle ==
  /\ mode \in Parallel /\ AllReplied
  /\ IF Aggregable(Scored)
       THEN outcome' = "returned" /\ report' = Aggregates(Scored)
       ELSE outcome' = "rejected" /\ report' = report
  /\ UNCHANGED <<mode, source, next, running, replies>>

ReturnCounts ==
  /\ mode \in Sequential /\ AllReplied
  /\ outcome' = "returned"
  /\ UNCHANGED <<mode, source, next, running, replies, report>>

Next ==
  \/ GateRefuses \/ Start \/ ReturnBundle \/ ReturnCounts
  \/ \E call \in running : Resolve(call) \/ Reject(call)

Spec == Init /\ [][Next]_vars
-----------------------------------------------------------------------------
(***************************************************************************)
(* Properties.                                                             *)
(***************************************************************************)
\* Types.
TypeOK ==
  /\ mode \in Parallel \cup Sequential
  /\ outcome \in {"running", "rejected", "returned"}
  /\ next \in 1..(Len(Batches) + 1)
  /\ running \cap Accepted = {}
  /\ running \cup Accepted \subseteq UNION Range(Batches)
  /\ \A call \in Accepted : Body(call) \in Bodies(call)
  /\ report # << >> => outcome = "returned"

\* A hook is called only when every call of every earlier batch was accepted: no
\* observer before both decisions, no evaluator before both captures.  Once a
\* rehearsal has rejected, siblings still in flight neither start a call nor
\* change what it holds.
CallsInTurn ==
  [][/\ \A call \in running' \ running :
          /\ outcome = "running"
          /\ \A b \in 1..(next - 1) : Batches[b] \subseteq Accepted
     /\ outcome # "running" => UNCHANGED <<outcome, replies, next, report>>]_vars

\* What a returned rehearsal rests on.  Synthetic: every reply is bound to its arm
\* and its decision.  Multi-process: the replies answer their requests, the
\* decisions are one for each arm (whichever process gave them) and the captures
\* are of them; its records are only told apart.  Observer: every scenario is of
\* its slot and the frozen decisions, in their order; nothing binds a capture.
\* Evaluator: that, matching captures of the frozen decision, and a bound record.
BoundResult ==
  outcome = "returned" =>
    /\ Accepted = UNION Range(Batches)
    /\ \A call \in Accepted :
         LET body == Body(call)
         IN /\ replies[call].to = call
            /\ call.role = "provider" =>
                 /\ body = [slot |-> call.slot, set |-> "frozen"]
                 /\ DecisionsOf(source, call.slot) = OrderedPair(call.slot)
            /\ call.role = "observer" /\ mode # "observer" =>
                 /\ body.slot = call.slot /\ body.arm = call.arm
                 /\ body.of = Decision(call.slot, call.arm)
            /\ call.role = "evaluator" /\ mode # "multiprocess" =>
                 RecordIsBound(body, call)
    /\ mode \in Parallel => Decided = {Decision(Own, arm) : arm \in Arms}
    /\ mode = "evaluator" =>
         \A slot \in Range(Slots), arm \in Arms :
           Body(Call("observer", slot, arm, 1)) = Body(Call("observer", slot, arm, 2))

\* The published numbers of an arm fit together: every record is correct, or
\* blocks a preserving candidate, or misses a false green; abstentions are never
\* correct or completed; and no record is counted for both arms or for none.
ScoresAddUp ==
  report # << >> =>
    /\ \A arm \in DOMAIN report :
         LET s == report[arm]
             mine == {k \in 1..2 : Scored[k].arm = arm}
             missed == {k \in mine : Scored[k].truth = "false_green"
                                       /\ Scored[k].verdict # "reject"}
             abstained == {k \in mine : Scored[k].verdict = "abstain"}
         IN /\ s.total = Cardinality(mine)
            /\ s.correct + s.blocked + Cardinality(missed) = s.total
            /\ s.falseGreen + s.preserving = s.total
            /\ s.reasonCorrect + Cardinality(missed) <= s.falseGreen
            /\ s.completed + Cardinality(abstained) <= s.total
            /\ s.correct + Cardinality(abstained) <= s.total
    /\ \A k \in 1..2 : Scored[k].arm \in DOMAIN report
=============================================================================
