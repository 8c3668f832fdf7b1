---------------------------- MODULE RehearsalProofs ----------------------------
(***************************************************************************)
(* Theorems about Rehearsal and Scoring, for any plan and any sequences of *)
(* frozen decisions.                                                       *)
(***************************************************************************)
EXTENDS Rehearsal, SequenceTheorems, FiniteSetTheorems, TLAPS

(***************************************************************************)
(* The batches.                                                            *)
(***************************************************************************)
LEMMA SlotsTyped ==
  /\ Len(Slots) \in Nat \ {0} /\ DOMAIN Slots = 1..Len(Slots)
  /\ \A s \in 1..Len(Slots) : Slots[s] \in Range(Slots)
  /\ \A slot \in Range(Slots) : \E s \in 1..Len(Slots) : Slots[s] = slot
  /\ \A s, t \in 1..Len(Slots) : Slots[s] = Slots[t] => s = t
  /\ Own \in Range(Slots)
<1>1. Len(Slots) \in Nat \ {0} /\ DOMAIN Slots = 1..Len(Slots)
  BY SlotsAssumption, LenProperties, EmptySeq
<1> QED BY <1>1, SlotsAssumption DEF Range, Own

LEMMA ParallelBatches ==
  ASSUME mode \in Parallel
  PROVE  /\ Len(Batches) = 3 /\ DOMAIN Batches = 1..3
         /\ Batches[1] = ForBothArms("arm")
         /\ Batches[2] = ForBothArms("observer")
         /\ Batches[3] = ForBothArms("evaluator")
BY DEF Batches

LEMMA Quotients ==
  \A s \in Nat, k \in Nat :
    /\ k \in 1..5 => (5 * s + k - 1) \div 5 = s /\ (5 * s + k - 1) % 5 = k - 1
    /\ k \in 1..7 => (7 * s + k - 1) \div 7 = s /\ (7 * s + k - 1) % 7 = k - 1
OBVIOUS

LEMMA SequentialBatches ==
  ASSUME mode \in Sequential
  PROVE  /\ Len(Batches) = PerSlot * Len(Slots) /\ DOMAIN Batches = 1..(PerSlot * Len(Slots))
         /\ \A s \in 1..Len(Slots), k \in 1..PerSlot :
              /\ PerSlot * (s - 1) + k \in 1..(PerSlot * Len(Slots))
              /\ Batches[PerSlot * (s - 1) + k] = SlotBatches(Slots[s])[k]
         /\ \A b \in 1..(PerSlot * Len(Slots)) :
              \E s \in 1..Len(Slots), k \in 1..PerSlot : b = PerSlot * (s - 1) + k
<1> DEFINE n == Len(Slots)
<1>1. n \in Nat \ {0}
  BY SlotsTyped
<1>2. PerSlot \in {5, 7}
  BY DEF PerSlot
<1> HIDE DEF n
<1>3. Batches = [b \in 1..(PerSlot * n) |->
                   SlotBatches(Slots[(b - 1) \div PerSlot + 1])[((b - 1) % PerSlot) + 1]]
  BY DEF Batches, Sequential, Parallel, n
<1>4. DOMAIN Batches = 1..(PerSlot * n)
  BY <1>3
<1>5. Len(Batches) = PerSlot * n
  <2>1. PerSlot * n \in Nat
    BY <1>1, <1>2
  <2> DEFINE S == {SlotBatches(Slots[(b - 1) \div PerSlot + 1])[((b - 1) % PerSlot) + 1] :
                     b \in 1..(PerSlot * n)}
  <2>2. Batches \in [1..(PerSlot * n) -> S]
    BY <1>3
  <2> HIDE DEF S
  <2>3. Batches \in Seq(S)
    BY <2>1, <2>2
  <2> QED BY <1>4, <2>1, <2>3, LenProperties
<1>6. ASSUME NEW s \in 1..n, NEW k \in 1..PerSlot
      PROVE  /\ PerSlot * (s - 1) + k \in 1..(PerSlot * n)
             /\ Batches[PerSlot * (s - 1) + k] = SlotBatches(Slots[s])[k]
  <2> DEFINE b == PerSlot * (s - 1) + k
  <2>1. b \in 1..(PerSlot * n)
    <3>1. CASE PerSlot = 5
      BY <1>1, <3>1
    <3>2. CASE PerSlot = 7
      BY <1>1, <3>2
    <3> QED BY <1>2, <3>1, <3>2
  <2>2. (b - 1) \div PerSlot + 1 = s /\ ((b - 1) % PerSlot) + 1 = k
    <3>1. CASE PerSlot = 5
      BY <1>1, <3>1
    <3>2. CASE PerSlot = 7
      BY <1>1, <3>2
    <3> QED BY <1>2, <3>1, <3>2
  <2> HIDE DEF b
  <2>3. Batches[b] = SlotBatches(Slots[s])[k]
    BY <1>3, <2>1, <2>2
  <2> QED BY <2>1, <2>3 DEF b
<1>7. ASSUME NEW b \in 1..(PerSlot * n)
      PROVE  \E s \in 1..n, k \in 1..PerSlot : b = PerSlot * (s - 1) + k
  <2> DEFINE s == (b - 1) \div PerSlot + 1
             k == ((b - 1) % PerSlot) + 1
  <2>1. s \in 1..n /\ k \in 1..PerSlot /\ b = PerSlot * (s - 1) + k
    <3>1. CASE PerSlot = 5
      BY <1>1, <3>1
    <3>2. CASE PerSlot = 7
      BY <1>1, <3>2
    <3> QED BY <1>2, <3>1, <3>2
  <2> QED BY <2>1
<1> QED BY <1>4, <1>5, <1>6, <1>7 DEF n

\* Where a call of a sequential rehearsal stands among those of its slot.
Turn(c) ==
  LET half == IF c.arm = "beyondgreen" THEN (IF mode = "observer" THEN 2 ELSE 3) ELSE 0
  IN IF c.role = "provider" THEN 1
     ELSE IF c.role = "observer" THEN 1 + half + c.nth
     ELSE 4 + half

SlotCalls(slot) ==
  {Release(slot)} \cup {Call("observer", slot, arm, nth) : arm \in Arms, nth \in 1..2}
    \cup (IF mode = "observer" THEN {} ELSE {Call("evaluator", slot, arm, 1) : arm \in Arms})

LEMMA CallFields ==
  ASSUME NEW role, NEW slot, NEW arm, NEW nth
  PROVE  /\ Call(role, slot, arm, nth).role = role /\ Call(role, slot, arm, nth).slot = slot
         /\ Call(role, slot, arm, nth).arm = arm /\ Call(role, slot, arm, nth).nth = nth
BY DEF Call

LEMMA BatchOfSlot ==
  ASSUME mode \in Sequential, NEW slot, NEW k \in 1..PerSlot
  PROVE  \E c \in SlotCalls(slot) :
           SlotBatches(slot)[k] = {c} /\ c.slot = slot /\ Turn(c) = k
<1> DEFINE seen(arm, nth) == Call("observer", slot, arm, nth)
           scored(arm) == Call("evaluator", slot, arm, 1)
<1>1. /\ Release(slot) \in SlotCalls(slot) /\ Release(slot).slot = slot
      /\ Turn(Release(slot)) = 1
  BY CallFields DEF Release, SlotCalls, Turn
<1>2. ASSUME NEW arm \in Arms, NEW nth \in 1..2
      PROVE  /\ seen(arm, nth) \in SlotCalls(slot) /\ seen(arm, nth).slot = slot
             /\ Turn(seen(arm, nth)) =
                  1 + nth + IF arm = "beyondgreen"
                              THEN (IF mode = "observer" THEN 2 ELSE 3) ELSE 0
  <2>1. seen(arm, nth) \in SlotCalls(slot)
    BY DEF SlotCalls
  <2> QED BY <2>1, CallFields DEF Turn
<1>3. ASSUME NEW arm \in Arms, mode # "observer"
      PROVE  /\ scored(arm) \in SlotCalls(slot) /\ scored(arm).slot = slot
             /\ Turn(scored(arm)) = 4 + IF arm = "beyondgreen" THEN 3 ELSE 0
  <2>1. scored(arm) \in SlotCalls(slot)
    BY <1>3 DEF SlotCalls
  <2> QED BY <1>3, <2>1, CallFields DEF Turn
<1>4. "status-quo" \in Arms /\ "beyondgreen" \in Arms /\ 1 \in 1..2 /\ 2 \in 1..2
  BY DEF Arms
<1> DEFINE sq == "status-quo"
           bg == "beyondgreen"
<1>5. CASE mode = "observer"
  <2>1. SlotBatches(slot) = <<{Release(slot)}, {seen(sq, 1)}, {seen(sq, 2)},
                              {seen(bg, 1)}, {seen(bg, 2)}>>
    BY <1>5 DEF SlotBatches, Captured
  <2>2. k \in 1..5
    BY <1>5 DEF PerSlot
  <2>3. /\ Turn(seen(sq, 1)) = 2 /\ Turn(seen(sq, 2)) = 3
        /\ Turn(seen(bg, 1)) = 4 /\ Turn(seen(bg, 2)) = 5
    BY <1>2, <1>4, <1>5
  <2> HIDE DEF seen
  <2> QED BY <1>1, <1>2, <1>4, <2>1, <2>2, <2>3
<1>6. CASE mode # "observer"
  <2>1. SlotBatches(slot) = <<{Release(slot)}, {seen(sq, 1)}, {seen(sq, 2)}, {scored(sq)},
                              {seen(bg, 1)}, {seen(bg, 2)}, {scored(bg)}>>
    BY <1>6 DEF SlotBatches, Captured, Evaluated
  <2>2. k \in 1..7
    BY <1>6 DEF PerSlot
  <2>3. /\ Turn(seen(sq, 1)) = 2 /\ Turn(seen(sq, 2)) = 3 /\ Turn(scored(sq)) = 4
        /\ Turn(seen(bg, 1)) = 5 /\ Turn(seen(bg, 2)) = 6 /\ Turn(scored(bg)) = 7
    BY <1>2, <1>3, <1>4, <1>6
  <2> HIDE DEF seen, scored
  <2> QED BY <1>1, <1>2, <1>3, <1>4, <1>6, <2>1, <2>2, <2>3
<1> QED BY <1>5, <1>6

\* And every call of a slot has its turn.
LEMMA TurnOfCall ==
  ASSUME mode \in Sequential, NEW slot, NEW c \in SlotCalls(slot)
  PROVE  Turn(c) \in 1..PerSlot /\ SlotBatches(slot)[Turn(c)] = {c}
<1>1. CASE c = Release(slot)
  BY <1>1, CallFields DEF Turn, SlotBatches, PerSlot, Release
<1>2. ASSUME NEW arm \in Arms, NEW nth \in 1..2, c = Call("observer", slot, arm, nth)
      PROVE  Turn(c) \in 1..PerSlot /\ SlotBatches(slot)[Turn(c)] = {c}
  <2>1. Turn(c) = 1 + nth + IF arm = "beyondgreen"
                              THEN (IF mode = "observer" THEN 2 ELSE 3) ELSE 0
    BY <1>2, CallFields DEF Turn
  <2>2. nth = 1 \/ nth = 2
    OBVIOUS
  <2> QED BY <1>2, <2>1, <2>2 DEF Arms, SlotBatches, PerSlot, Captured
<1>3. ASSUME NEW arm \in Arms, c = Call("evaluator", slot, arm, 1), mode # "observer"
      PROVE  Turn(c) \in 1..PerSlot /\ SlotBatches(slot)[Turn(c)] = {c}
  <2>1. Turn(c) = 4 + IF arm = "beyondgreen" THEN 3 ELSE 0
    BY <1>3, CallFields DEF Turn
  <2> QED BY <1>3, <2>1 DEF Arms, SlotBatches, PerSlot, Evaluated
<1> QED BY <1>1, <1>2, <1>3 DEF SlotCalls

LEMMA CallsOfSlots ==
  ASSUME mode \in Sequential
  PROVE  /\ \A s \in 1..Len(Slots) : \A c \in SlotCalls(Slots[s]) :
              /\ c.slot = Slots[s]
              /\ PerSlot * (s - 1) + Turn(c) \in 1..Len(Batches)
              /\ c \in Batches[PerSlot * (s - 1) + Turn(c)]
         /\ \A b \in 1..Len(Batches) : \A c \in Batches[b] :
              \E s \in 1..Len(Slots) :
                c \in SlotCalls(Slots[s]) /\ b = PerSlot * (s - 1) + Turn(c)
<1>1. ASSUME NEW s \in 1..Len(Slots), NEW c \in SlotCalls(Slots[s])
      PROVE  /\ c.slot = Slots[s]
             /\ PerSlot * (s - 1) + Turn(c) \in 1..Len(Batches)
             /\ c \in Batches[PerSlot * (s - 1) + Turn(c)]
  <2>1. Turn(c) \in 1..PerSlot /\ SlotBatches(Slots[s])[Turn(c)] = {c}
    BY TurnOfCall
  <2>2. c.slot = Slots[s]
    BY CallFields DEF SlotCalls, Release
  <2> QED BY <2>1, <2>2, SequentialBatches
<1>2. ASSUME NEW b \in 1..Len(Batches), NEW c \in Batches[b]
      PROVE  \E s \in 1..Len(Slots) :
               c \in SlotCalls(Slots[s]) /\ b = PerSlot * (s - 1) + Turn(c)
  <2>1. PICK s \in 1..Len(Slots), k \in 1..PerSlot : b = PerSlot * (s - 1) + k
    BY SequentialBatches
  <2>2. Batches[b] = SlotBatches(Slots[s])[k]
    BY <2>1, SequentialBatches
  <2>3. c \in SlotCalls(Slots[s]) /\ Turn(c) = k
    BY <2>2, BatchOfSlot
  <2> QED BY <2>1, <2>3
<1> QED BY <1>1, <1>2

LEMMA BatchesApart ==
  ASSUME mode \in Parallel \cup Sequential
  PROVE  /\ Len(Batches) \in Nat /\ DOMAIN Batches = 1..Len(Batches)
         /\ \A i, j \in 1..Len(Batches) : \A c : c \in Batches[i] /\ c \in Batches[j] => i = j
<1>1. CASE mode \in Parallel
  <2>1. /\ \A c \in Batches[1] : c.role = "arm"
        /\ \A c \in Batches[2] : c.role = "observer"
        /\ \A c \in Batches[3] : c.role = "evaluator"
    BY <1>1, ParallelBatches, CallFields DEF ForBothArms
  <2>2. Len(Batches) = 3 /\ DOMAIN Batches = 1..3
    BY <1>1, ParallelBatches
  <2> QED BY <2>1, <2>2
<1>2. CASE mode \in Sequential
  <2>1. Len(Batches) \in Nat /\ DOMAIN Batches = 1..Len(Batches)
    <3>1. PerSlot \in {5, 7} /\ Len(Slots) \in Nat
      BY SlotsTyped DEF PerSlot
    <3>2. PerSlot * Len(Slots) \in Nat
      BY <3>1
    <3> QED BY <1>2, <3>2, SequentialBatches
  <2>2. ASSUME NEW i \in 1..Len(Batches), NEW j \in 1..Len(Batches), NEW c,
               c \in Batches[i], c \in Batches[j]
        PROVE  i = j
    <3>1. PICK s \in 1..Len(Slots) : c \in SlotCalls(Slots[s]) /\ i = PerSlot * (s - 1) + Turn(c)
      BY <1>2, <2>2, CallsOfSlots
    <3>2. PICK t \in 1..Len(Slots) : c \in SlotCalls(Slots[t]) /\ j = PerSlot * (t - 1) + Turn(c)
      BY <1>2, <2>2, CallsOfSlots
    <3>3. s = t
      <4>1. c.slot = Slots[s] /\ c.slot = Slots[t]
        BY <1>2, <3>1, <3>2, CallsOfSlots
      <4> QED BY <4>1, SlotsTyped
    <3> QED BY <3>1, <3>2, <3>3
  <2> QED BY <2>1, <2>2
<1> QED BY <1>1, <1>2

(***************************************************************************)
(* What a call is checked against was asked in earlier batches.            *)
(***************************************************************************)
Reads(c) ==
  IF mode \in Parallel
    THEN IF c.role = "observer" THEN ForBothArms("arm")
         ELSE IF c.role = "evaluator" THEN ForBothArms("arm") \cup ForBothArms("observer")
         ELSE {}
  ELSE IF mode = "evaluator" /\ c.role = "evaluator"
    THEN {Call("observer", c.slot, c.arm, nth) : nth \in 1..2}
  ELSE {}

LEMMA ReadsEarlier ==
  ASSUME mode \in Parallel \cup Sequential, NEW b \in 1..Len(Batches), NEW c \in Batches[b],
         NEW r \in Reads(c)
  PROVE  \E i \in 1..(b - 1) : r \in Batches[i]
<1>1. CASE mode \in Parallel
  <2>1. /\ \A d \in Batches[1] : d.role = "arm"
        /\ \A d \in Batches[2] : d.role = "observer"
        /\ \A d \in Batches[3] : d.role = "evaluator"
    BY <1>1, ParallelBatches, CallFields DEF ForBothArms
  <2>2. Len(Batches) = 3
    BY <1>1, ParallelBatches
  <2>3. CASE b = 1
    BY <1>1, <2>1, <2>3 DEF Reads
  <2>4. CASE b = 2
    BY <1>1, <2>1, <2>4, ParallelBatches DEF Reads
  <2>5. CASE b = 3
    BY <1>1, <2>1, <2>5, ParallelBatches DEF Reads
  <2> QED BY <2>2, <2>3, <2>4, <2>5
<1>2. CASE mode \notin Parallel
  <2>1. /\ mode = "evaluator" /\ c.role = "evaluator" /\ mode \in Sequential
        /\ r \in {Call("observer", c.slot, c.arm, nth) : nth \in 1..2}
    BY <1>2 DEF Reads, Sequential
  <2>2. PICK s \in 1..Len(Slots) : c \in SlotCalls(Slots[s]) /\ b = PerSlot * (s - 1) + Turn(c)
    BY <2>1, CallsOfSlots
  <2>3. PICK arm \in Arms : c = Call("evaluator", Slots[s], arm, 1)
    BY <2>1, <2>2, CallFields DEF SlotCalls, Release
  <2>4. PICK nth \in 1..2 : r = Call("observer", Slots[s], arm, nth)
    BY <2>1, <2>3, CallFields
  <2>5. r \in SlotCalls(Slots[s])
    BY <2>4 DEF SlotCalls
  <2>6. Turn(r) \in 1..PerSlot /\ Turn(r) < Turn(c) /\ Turn(c) \in 1..PerSlot
    <3>1. Turn(r) = 1 + nth + IF arm = "beyondgreen" THEN 3 ELSE 0
      BY <2>1, <2>4, CallFields DEF Turn
    <3>2. Turn(c) = 4 + IF arm = "beyondgreen" THEN 3 ELSE 0
      BY <2>1, <2>3, CallFields DEF Turn
    <3> QED BY <2>1, <3>1, <3>2 DEF PerSlot
  <2> DEFINE i == PerSlot * (s - 1) + Turn(r)
  <2>7. i \in 1..Len(Batches) /\ r \in Batches[i]
    BY <2>1, <2>5, CallsOfSlots
  <2>8. i < b
    BY SMTT(30), <2>1, <2>2, <2>6 DEF PerSlot
  <2> QED BY <2>7, <2>8
<1> QED BY <1>1, <1>2

(***************************************************************************)
(* Requests and replies, case by case.                                     *)
(***************************************************************************)
LEMMA RequestIs ==
  ASSUME NEW c, mode \in Parallel \cup Sequential
  PROVE  RequestParses(c) <=>
           /\ mode = "multiprocess" /\ c.role \in {"observer", "evaluator"} => DecisionSetIsFinal
           /\ mode = "multiprocess" /\ c.role = "evaluator" =>
                CaptureIsBound(Body(Call("observer", Own, c.arm, 1)), Own, c.arm)
           /\ c.role = "provider" => DecisionsOf(source, c.slot) = OrderedPair(c.slot)
           /\ mode = "evaluator" /\ c.role = "evaluator" => PairIsFinal(c.slot, c.arm)
<1> HIDE DEF DecisionSetIsFinal, CaptureIsBound, Body, PairIsFinal, OrderedPair, DecisionsOf
<1>1. CASE mode = "multiprocess" /\ c.role = "observer"
  BY <1>1 DEF RequestParses
<1>2. CASE mode = "multiprocess" /\ c.role = "evaluator"
  BY <1>2 DEF RequestParses
<1>3. CASE c.role = "provider"
  BY <1>3 DEF RequestParses
<1>4. CASE mode = "evaluator" /\ c.role = "evaluator"
  BY <1>4 DEF RequestParses
<1>5. CASE /\ ~(mode = "multiprocess" /\ c.role \in {"observer", "evaluator"})
           /\ c.role # "provider" /\ ~(mode = "evaluator" /\ c.role = "evaluator")
  BY <1>5 DEF RequestParses
<1> QED BY <1>1, <1>2, <1>3, <1>4, <1>5

LEMMA AcceptedIs ==
  ASSUME NEW c, NEW to, NEW body, mode \in Parallel \cup Sequential, Accepts(c, to, body)
  PROVE  /\ mode = "multiprocess" => to = c
         /\ mode = "synthetic" /\ c.role = "arm" => body.arm = c.arm
         /\ mode = "synthetic" /\ c.role = "observer" =>
              body.arm = c.arm /\ body.of = Body(Call("arm", Own, c.arm, 1))
         /\ mode = "synthetic" /\ c.role \notin {"arm", "observer"} => RecordIsBound(body, c)
         /\ mode \in Sequential /\ c.role = "provider" =>
              body.slot = c.slot /\ body.set = "frozen"
         /\ mode \in Sequential /\ c.role \notin {"provider", "observer"} => RecordIsBound(body, c)
<1> HIDE DEF RecordIsBound, Body
<1> USE DEF Parallel, Sequential
<1>1. CASE mode = "multiprocess"
  BY <1>1 DEF Accepts
<1>2. CASE mode = "synthetic" /\ c.role = "arm"
  BY <1>2 DEF Accepts
<1>3. CASE mode = "synthetic" /\ c.role = "observer"
  BY <1>3 DEF Accepts
<1>4. CASE mode = "synthetic" /\ c.role \notin {"arm", "observer"}
  BY <1>4 DEF Accepts
<1>5. CASE mode \in Sequential /\ c.role = "provider"
  BY <1>5 DEF Accepts
<1>6. CASE mode \in Sequential /\ c.role = "observer"
  BY <1>6 DEF Accepts
<1>7. CASE mode \in Sequential /\ c.role \notin {"provider", "observer"}
  BY <1>7 DEF Accepts
<1> QED BY <1>1, <1>2, <1>3, <1>4, <1>5, <1>6, <1>7

\* A request or a reply stands as long as the replies it was checked against do.
LEMMA RequestKept ==
  ASSUME NEW c, mode \in Parallel \cup Sequential, UNCHANGED <<mode, source>>,
         \A r \in Reads(c) : replies'[r] = replies[r],
         mode \in Parallel => c.arm \in Arms, RequestParses(c)
  PROVE  RequestParses(c)'
<1> DEFINE shown == Call("observer", Own, c.arm, 1)
           capture(nth) == Call("observer", c.slot, c.arm, nth)
<1>0. /\ mode = "multiprocess" /\ c.role \in {"observer", "evaluator"} =>
           mode \in Parallel /\ ForBothArms("arm") \subseteq Reads(c)
      /\ mode = "evaluator" => mode \notin Parallel
  BY DEF Reads, Parallel
<1>1. CASE mode = "multiprocess" /\ c.role \in {"observer", "evaluator"}
  <2>1. Decided' = Decided
    BY <1>0, <1>1 DEF Decided, Body
  <2>2. DecisionSetIsFinal' <=> DecisionSetIsFinal
    BY <2>1 DEF DecisionSetIsFinal
  <2>3. CASE c.role = "observer"
    <3>1. DecisionSetIsFinal'
      BY <1>1, <2>2, <2>3, RequestIs
    <3> QED BY <1>1, <2>3, <3>1 DEF RequestParses
  <2>4. CASE c.role = "evaluator"
    <3>1. DecisionSetIsFinal' /\ CaptureIsBound(Body(shown), Own, c.arm)
      BY <1>1, <2>2, <2>4, RequestIs
    <3>2. replies'[shown] = replies[shown]
      <4>1. shown \in ForBothArms("observer")
        BY <1>0, <1>1 DEF ForBothArms
      <4> QED BY <1>0, <1>1, <2>4, <4>1 DEF Reads
    <3>3. CaptureIsBound(Body(shown), Own, c.arm)'
      BY <3>1, <3>2 DEF CaptureIsBound, Body
    <3> QED BY <1>1, <2>4, <3>1, <3>3 DEF RequestParses
  <2> QED BY <1>1, <2>3, <2>4
<1>2. CASE c.role = "provider"
  <2>1. DecisionsOf(source, c.slot)' = OrderedPair(c.slot)'
    <3>1. DecisionsOf(source, c.slot) = OrderedPair(c.slot)
      BY <1>2, RequestIs
    <3> QED BY <3>1 DEF OrderedPair
  <2> QED BY <1>2, <2>1 DEF RequestParses
<1>3. CASE mode = "evaluator" /\ c.role = "evaluator"
  <2>1. PairIsFinal(c.slot, c.arm)
    BY <1>3, RequestIs
  <2>2. \A nth \in 1..2 : replies'[capture(nth)] = replies[capture(nth)]
    BY <1>0, <1>3 DEF Reads
  <2>3. PairIsFinal(c.slot, c.arm)'
    BY <2>1, <2>2 DEF PairIsFinal, Body
  <2> QED BY <1>3, <2>3 DEF RequestParses
<1>4. CASE /\ ~(mode = "multiprocess" /\ c.role \in {"observer", "evaluator"})
           /\ c.role # "provider" /\ ~(mode = "evaluator" /\ c.role = "evaluator")
  BY <1>4 DEF RequestParses
<1> QED BY <1>1, <1>2, <1>3, <1>4

LEMMA ReplyKept ==
  ASSUME NEW c, NEW body, mode \in Parallel \cup Sequential, UNCHANGED mode,
         mode = "synthetic" /\ c.role = "observer" =>
           replies'[Call("arm", Own, c.arm, 1)] = replies[Call("arm", Own, c.arm, 1)],
         Accepts(c, c, body)
  PROVE  Accepts(c, c, body)'
<1>1. CASE mode = "synthetic" /\ c.role = "observer"
  BY <1>1 DEF Accepts, Body
<1>2. CASE ~(mode = "synthetic" /\ c.role = "observer")
  <2> HIDE DEF RecordIsBound
  <2>1. CASE mode = "multiprocess"
    BY <2>1 DEF Accepts
  <2>2. CASE mode = "synthetic"
    BY <1>2, <2>2 DEF Accepts
  <2>3. CASE mode \notin {"multiprocess", "synthetic"}
    BY <2>3 DEF Accepts
  <2> QED BY <2>1, <2>2, <2>3
<1> QED BY <1>1, <1>2

LEMMA BodiesKept ==
  ASSUME NEW c, UNCHANGED mode
  PROVE  Bodies(c)' = Bodies(c)
BY DEF Bodies, Captures

LEMMA BatchesKept ==
  ASSUME UNCHANGED mode
  PROVE  Batches' = Batches
BY DEF Batches, PerSlot, SlotBatches

(***************************************************************************)
(* The inductive invariant.  A rehearsal that has not rejected has asked   *)
(* the batches before the next one; each call in flight or answered was    *)
(* asked by a request that parses, and each reply kept is one that is      *)
(* accepted.                                                               *)
(***************************************************************************)
Asked == UNION {Batches[b] : b \in 1..(next - 1)}

InTurn ==
  outcome # "rejected" =>
    /\ running \cup Accepted = Asked /\ running \cap Accepted = {}
    /\ next > 1 => running \subseteq Batches[next - 1]
    /\ next = 1 => running = {}

Parsed == outcome # "rejected" => \A c \in running \cup Accepted : RequestParses(c)

Replied ==
  outcome # "rejected" =>
    \A c \in Accepted :
      replies[c].to = c /\ Body(c) \in Bodies(c) /\ Accepts(c, c, Body(c))

Ended == outcome = "returned" => running = {} /\ next = Len(Batches) + 1

Reported ==
  \/ report = <<>>
  \/ /\ outcome = "returned" /\ mode \in Parallel
     /\ report = Aggregates(Scored) /\ Aggregable(Scored)

RehearsalInv ==
  /\ mode \in Parallel \cup Sequential
  /\ outcome \in {"running", "rejected", "returned"}
  /\ next \in 1..(Len(Batches) + 1)
  /\ InTurn /\ Parsed /\ Replied /\ Ended /\ Reported

LEMMA NextTyped ==
  ASSUME RehearsalInv
  PROVE  /\ next \in Nat \ {0} /\ Len(Batches) \in Nat /\ next <= Len(Batches) + 1
         /\ DOMAIN Batches = 1..Len(Batches)
BY BatchesApart DEF RehearsalInv

LEMMA EarlierAccepted ==
  ASSUME RehearsalInv, outcome # "rejected"
  PROVE  /\ \A b \in 1..(next - 2) : Batches[b] \subseteq Accepted
         /\ running = {} => \A b \in 1..(next - 1) : Batches[b] \subseteq Accepted
<1>1. \A b \in 1..(next - 1) : Batches[b] \subseteq running \cup Accepted
  BY DEF RehearsalInv, InTurn, Asked
<1>2. ASSUME NEW b \in 1..(next - 2), NEW c \in Batches[b] PROVE c \in Accepted
  <2>1. b \in 1..(next - 1) /\ b \in 1..Len(Batches) /\ next - 1 \in 1..Len(Batches)
        /\ next > 1 /\ b # next - 1
    BY NextTyped
  <2>2. running \subseteq Batches[next - 1]
    BY <2>1 DEF RehearsalInv, InTurn
  <2>3. c \notin running
    BY <2>1, <2>2, BatchesApart DEF RehearsalInv
  <2> QED BY <1>1, <2>1, <2>3
<1> QED BY <1>1, <1>2

LEMMA ArmOfParallelCall ==
  ASSUME mode \in Parallel, NEW b \in 1..Len(Batches), NEW c \in Batches[b]
  PROVE  /\ c.arm \in Arms
         /\ c.role \in {"arm", "observer", "evaluator"}
         /\ c = Call(c.role, Own, c.arm, 1)
<1>0. Len(Batches) = 3
  BY ParallelBatches
<1>1. b = 1 \/ b = 2 \/ b = 3
  BY <1>0
<1>2. PICK role \in {"arm", "observer", "evaluator"} : c \in ForBothArms(role)
  BY <1>1, ParallelBatches
<1> QED BY <1>2, CallFields DEF ForBothArms

LEMMA CallsAsked ==
  ASSUME RehearsalInv, outcome # "rejected", NEW c \in running \cup Accepted
  PROVE  /\ \E b \in 1..(next - 1) : b \in 1..Len(Batches) /\ c \in Batches[b]
         /\ Reads(c) \subseteq Accepted
         /\ mode \in Parallel => c.arm \in Arms
<1>1. PICK b \in 1..(next - 1) : c \in Batches[b]
  BY DEF RehearsalInv, InTurn, Asked
<1>2. b \in 1..Len(Batches)
  BY NextTyped
<1>3. mode \in Parallel => c.arm \in Arms
  BY <1>1, <1>2, ArmOfParallelCall
<1>4. ASSUME NEW r \in Reads(c) PROVE r \in Accepted
  <2>1. PICK i \in 1..(b - 1) : r \in Batches[i]
    BY <1>1, <1>2, ReadsEarlier DEF RehearsalInv
  <2>2. i \in 1..(next - 2)
    BY NextTyped
  <2> QED BY <2>1, <2>2, EarlierAccepted
<1> QED BY <1>1, <1>2, <1>3, <1>4

\* What was asked and answered stays so in a step that keeps the replies there are.
LEMMA CallsStand ==
  ASSUME RehearsalInv, outcome # "rejected", UNCHANGED <<mode, source>>,
         \A c \in Accepted : replies'[c] = replies[c]
  PROVE  /\ \A c \in running \cup Accepted : RequestParses(c)'
         /\ \A c \in Accepted :
              /\ replies'[c].to = c /\ Body(c)' = Body(c)
              /\ Body(c)' \in Bodies(c)' /\ Accepts(c, c, Body(c))'
<1>1. ASSUME NEW c \in running \cup Accepted PROVE RequestParses(c)'
  <2>1. Reads(c) \subseteq Accepted /\ (mode \in Parallel => c.arm \in Arms)
    BY CallsAsked
  <2>2. RequestParses(c)
    BY DEF RehearsalInv, Parsed
  <2> QED BY <2>1, <2>2, RequestKept DEF RehearsalInv
<1>2. ASSUME NEW c \in Accepted
      PROVE  /\ replies'[c].to = c /\ Body(c)' = Body(c)
             /\ Body(c)' \in Bodies(c)' /\ Accepts(c, c, Body(c))'
  <2>1. replies[c].to = c /\ Body(c) \in Bodies(c) /\ Accepts(c, c, Body(c))
    BY DEF RehearsalInv, Replied
  <2>2. Body(c)' = Body(c)
    BY DEF Body
  <2>3. mode = "synthetic" /\ c.role = "observer" =>
          replies'[Call("arm", Own, c.arm, 1)] = replies[Call("arm", Own, c.arm, 1)]
    <3>1. SUFFICES ASSUME mode = "synthetic", c.role = "observer"
                   PROVE  Call("arm", Own, c.arm, 1) \in Accepted
      OBVIOUS
    <3>2. Reads(c) \subseteq Accepted /\ c.arm \in Arms
      BY <3>1, CallsAsked DEF Parallel
    <3>3. Reads(c) = ForBothArms("arm")
      BY <3>1 DEF Reads, Parallel
    <3> QED BY <3>2, <3>3 DEF ForBothArms
  <2>4. ASSUME NEW body, body = Body(c) PROVE Accepts(c, c, body)'
    BY <2>1, <2>3, <2>4, ReplyKept DEF RehearsalInv
  <2>5. Accepts(c, c, Body(c))'
    <3> PICK body : body = Body(c)
      OBVIOUS
    <3>1. body = Body(c)' /\ Accepts(c, c, body)'
      BY <2>2, <2>4
    <3> QED BY <3>1 DEF Accepts
  <2> QED BY <2>1, <2>2, <2>5, BodiesKept
<1> QED BY <1>1, <1>2

(***************************************************************************)
(* The invariant, action by action.                                        *)
(***************************************************************************)
LEMMA RehearsalInit == Init => RehearsalInv
<1> SUFFICES ASSUME Init PROVE RehearsalInv
  OBVIOUS
<1>1. /\ mode \in Parallel \cup Sequential /\ next = 1 /\ running = {} /\ replies = <<>>
      /\ outcome = "running" /\ report = <<>>
  BY DEF Init
<1>2. Accepted = {} /\ Asked = {}
  BY <1>1 DEF Accepted, Asked
<1>3. next \in 1..(Len(Batches) + 1)
  BY <1>1, BatchesApart
<1> QED BY <1>1, <1>2, <1>3 DEF RehearsalInv, InTurn, Parsed, Replied, Ended, Reported

LEMMA StartInv == RehearsalInv /\ Start => RehearsalInv'
<1> SUFFICES ASSUME RehearsalInv, Start PROVE RehearsalInv'
  OBVIOUS
<1>0. /\ outcome = "running" /\ running = {} /\ next <= Len(Batches)
      /\ running' = {call \in Batches[next] : RequestParses(call)}
      /\ outcome' = IF running' = Batches[next] THEN "running" ELSE "rejected"
      /\ next' = next + 1 /\ UNCHANGED <<mode, source, replies, report>>
  BY DEF Start
<1>1. Batches' = Batches /\ mode \in Parallel \cup Sequential
  BY <1>0, BatchesKept DEF RehearsalInv
<1>2. next \in Nat \ {0} /\ Len(Batches) \in Nat
  BY NextTyped
<1>3. /\ Accepted' = Accepted
      /\ \A c \in Accepted : replies'[c] = replies[c]
  BY <1>0 DEF Accepted
<1>4. /\ \A c \in Accepted : RequestParses(c)'
      /\ \A c \in Accepted :
           replies'[c].to = c /\ Body(c)' \in Bodies(c)' /\ Accepts(c, c, Body(c))'
  BY <1>0, <1>3, CallsStand
<1>5. InTurn'
  <2> SUFFICES ASSUME outcome' # "rejected"
               PROVE  /\ running' \cup Accepted' = Asked' /\ running' \cap Accepted' = {}
                      /\ next' > 1 => running' \subseteq Batches'[next' - 1]
                      /\ next' = 1 => running' = {}
    BY DEF InTurn
  <2>1. running' = Batches[next]
    BY <1>0
  <2>2. Accepted = Asked
    BY <1>0 DEF RehearsalInv, InTurn
  <2>3. Asked' = UNION {Batches[b] : b \in 1..next}
    BY <1>0, <1>1, <1>2 DEF Asked
  <2>4. UNION {Batches[b] : b \in 1..next} = Batches[next] \cup Asked
    <3>1. 1..next = (1..(next - 1)) \cup {next}
      BY <1>2
    <3> QED BY <3>1 DEF Asked
  <2>5. Batches[next] \cap Asked = {}
    <3> SUFFICES ASSUME NEW c \in Batches[next], NEW b \in 1..(next - 1), c \in Batches[b]
                 PROVE  FALSE
      BY DEF Asked
    <3>1. b \in 1..Len(Batches) /\ next \in 1..Len(Batches) /\ b # next
      BY <1>0, <1>2
    <3> QED BY <1>1, <3>1, BatchesApart
  <2>6. next' - 1 = next /\ next' > 1
    BY <1>0, <1>2
  <2> QED BY <1>1, <1>3, <2>1, <2>2, <2>3, <2>4, <2>5, <2>6
<1>6. Parsed'
  <2> SUFFICES ASSUME outcome' # "rejected", NEW c \in running' \cup Accepted'
               PROVE  RequestParses(c)'
    BY DEF Parsed
  <2>1. CASE c \in Accepted
    BY <1>4, <2>1
  <2>2. CASE c \in running'
    <3>1. RequestParses(c) /\ c \in Batches[next]
      BY <1>0, <2>2
    <3>2. mode \in Parallel => c.arm \in Arms
      <4>1. next \in 1..Len(Batches)
        BY <1>0, <1>2
      <4> QED BY <3>1, <4>1, ArmOfParallelCall
    <3> QED BY <1>0, <1>1, <3>1, <3>2, RequestKept
  <2> QED BY <1>3, <2>1, <2>2
<1>7. Replied'
  BY <1>3, <1>4 DEF Replied
<1>8. Ended' /\ Reported'
  <2>1. report = <<>>
    BY <1>0 DEF RehearsalInv, Reported
  <2> QED BY <1>0, <2>1 DEF Ended, Reported
<1>9. next' \in 1..(Len(Batches') + 1) /\ outcome' \in {"running", "rejected", "returned"}
  BY <1>0, <1>1, <1>2
<1> QED BY <1>0, <1>1, <1>5, <1>6, <1>7, <1>8, <1>9 DEF RehearsalInv

LEMMA ResolveInv ==
  ASSUME RehearsalInv, NEW call \in running, Resolve(call)
  PROVE  RehearsalInv'
<1>0. /\ running' = running \ {call} /\ UNCHANGED <<mode, source, next, report>>
  BY DEF Resolve
<1>1. Batches' = Batches /\ Asked' = Asked
  BY <1>0, BatchesKept DEF Asked
<1>2. outcome # "returned" /\ report = <<>>
  BY DEF RehearsalInv, Ended, Reported
<1>3. CASE replies' = replies /\ outcome' = "rejected"
  BY <1>0, <1>1, <1>2, <1>3 DEF RehearsalInv, InTurn, Parsed, Replied, Ended, Reported
<1>4. ASSUME NEW to \in IF mode = "multiprocess" THEN Batches[next - 1] ELSE {call},
             NEW body \in Bodies(call),
             outcome = "running", Accepts(call, to, body), outcome' = outcome,
             replies' = [c \in Accepted \cup {call} |->
                           IF c = call THEN [to |-> to, body |-> body] ELSE replies[c]]
      PROVE  RehearsalInv'
  <2>1. call \notin Accepted /\ Accepted' = Accepted \cup {call}
    BY <1>4 DEF RehearsalInv, InTurn, Accepted
  <2>2. /\ \A c \in Accepted : replies'[c] = replies[c]
        /\ replies'[call] = [to |-> to, body |-> body]
    BY <1>4, <2>1
  <2>3. to = call
    BY <1>4, AcceptedIs DEF RehearsalInv
  <2>4. /\ \A c \in running \cup Accepted : RequestParses(c)'
        /\ \A c \in Accepted :
             replies'[c].to = c /\ Body(c)' \in Bodies(c)' /\ Accepts(c, c, Body(c))'
    BY <1>0, <1>4, <2>2, CallsStand
  <2>5. replies'[call].to = call /\ Body(call)' = body
    BY <2>2, <2>3 DEF Body
  <2>6. Accepts(call, call, body)'
    <3>1. mode = "synthetic" /\ call.role = "observer" =>
            replies'[Call("arm", Own, call.arm, 1)] = replies[Call("arm", Own, call.arm, 1)]
      <4>1. SUFFICES ASSUME mode = "synthetic", call.role = "observer"
                     PROVE  Call("arm", Own, call.arm, 1) \in Accepted
        BY <2>2
      <4>2. Reads(call) \subseteq Accepted /\ call.arm \in Arms
        BY <1>4, <4>1, CallsAsked DEF Parallel
      <4>3. Reads(call) = ForBothArms("arm")
        BY <4>1 DEF Reads, Parallel
      <4> QED BY <4>2, <4>3 DEF ForBothArms
    <3> QED BY <1>0, <1>4, <2>3, <3>1, ReplyKept DEF RehearsalInv
  <2>7. Accepts(call, call, Body(call))'
    BY <2>5, <2>6 DEF Accepts
  <2>8. Body(call)' \in Bodies(call)'
    BY <1>0, <1>4, <2>5, BodiesKept
  <2>9. InTurn'
    BY <1>0, <1>1, <1>4, <2>1 DEF RehearsalInv, InTurn
  <2>10. Parsed'
    BY <1>0, <2>1, <2>4 DEF Parsed
  <2>11. Replied'
    BY <2>1, <2>4, <2>5, <2>7, <2>8 DEF Replied
  <2>12. Ended' /\ Reported'
    BY <1>0, <1>2, <1>4 DEF Ended, Reported
  <2> QED BY <1>0, <1>1, <1>4, <2>9, <2>10, <2>11, <2>12 DEF RehearsalInv
<1> QED BY <1>3, <1>4 DEF Resolve

LEMMA EndsInv ==
  RehearsalInv /\ (GateRefuses \/ ReturnBundle \/ ReturnCounts \/ \E call \in running : Reject(call))
    => RehearsalInv'
<1> SUFFICES ASSUME RehearsalInv PROVE
      (GateRefuses \/ ReturnBundle \/ ReturnCounts \/ \E call \in running : Reject(call))
        => RehearsalInv'
  OBVIOUS
<1>1. ASSUME UNCHANGED <<mode, next>>
      PROVE  next' \in 1..(Len(Batches') + 1) /\ mode' \in Parallel \cup Sequential
  BY <1>1, BatchesKept DEF RehearsalInv
<1>2. ASSUME outcome' = "rejected", UNCHANGED <<mode, next, report>>, report = <<>>
      PROVE  RehearsalInv'
  BY <1>1, <1>2 DEF RehearsalInv, InTurn, Parsed, Replied, Ended, Reported
<1>3. outcome # "returned" => report = <<>>
  BY DEF RehearsalInv, Reported
<1>4. CASE GateRefuses
  BY <1>2, <1>3, <1>4 DEF GateRefuses
<1>5. ASSUME NEW call \in running, Reject(call) PROVE RehearsalInv'
  <2>1. outcome # "returned"
    BY DEF RehearsalInv, Ended
  <2> QED BY <1>2, <1>3, <1>5, <2>1 DEF Reject
<1>6. ASSUME AllReplied, outcome' = "returned", UNCHANGED <<mode, source, next, running, replies>>,
             Reported'
      PROVE  RehearsalInv'
  <2>1. Batches' = Batches /\ Asked' = Asked /\ Accepted' = Accepted
    BY <1>6, BatchesKept DEF Asked, Accepted
  <2>2. outcome = "running" /\ running = {} /\ next > Len(Batches)
    BY <1>6 DEF AllReplied
  <2>3. next = Len(Batches) + 1
    BY <2>2, NextTyped
  <2>4. \A c \in Accepted : replies'[c] = replies[c]
    BY <1>6
  <2>5. /\ \A c \in Accepted : RequestParses(c)'
        /\ \A c \in Accepted :
             replies'[c].to = c /\ Body(c)' \in Bodies(c)' /\ Accepts(c, c, Body(c))'
    BY <1>6, <2>2, <2>4, CallsStand
  <2>6. InTurn'
    BY <1>6, <2>1, <2>2 DEF RehearsalInv, InTurn
  <2>7. Parsed' /\ Replied'
    BY <1>6, <2>1, <2>2, <2>5 DEF Parsed, Replied
  <2>8. Ended'
    BY <1>6, <2>1, <2>2, <2>3 DEF Ended
  <2> QED BY <1>1, <1>6, <2>6, <2>7, <2>8 DEF RehearsalInv
<1>7. CASE ReturnBundle
  <2>1. AllReplied /\ mode \in Parallel /\ UNCHANGED <<mode, source, next, running, replies>>
    BY <1>7 DEF ReturnBundle
  <2>2. CASE Aggregable(Scored)
    <3>1. outcome' = "returned" /\ report' = Aggregates(Scored)
      BY <1>7, <2>2 DEF ReturnBundle
    <3>2. Scored' = Scored
      BY <2>1 DEF Scored, Body
    <3>3. Reported'
      BY <2>1, <2>2, <3>1, <3>2 DEF Reported, Aggregable, Aggregates
    <3> QED BY <1>6, <2>1, <3>1, <3>3
  <2>3. CASE ~Aggregable(Scored)
    <3>1. outcome' = "rejected" /\ report' = report
      BY <1>7, <2>3 DEF ReturnBundle
    <3> QED BY <1>2, <1>3, <2>1, <3>1 DEF AllReplied
  <2> QED BY <2>2, <2>3
<1>8. CASE ReturnCounts
  <2>1. /\ AllReplied /\ outcome' = "returned"
        /\ UNCHANGED <<mode, source, next, running, replies, report>>
    BY <1>8 DEF ReturnCounts
  <2>2. Reported'
    BY <1>3, <2>1 DEF AllReplied, Reported
  <2> QED BY <1>6, <2>1, <2>2
<1> QED BY <1>4, <1>5, <1>7, <1>8

LEMMA StutterInv == RehearsalInv /\ UNCHANGED vars => RehearsalInv'
<1> SUFFICES ASSUME RehearsalInv, UNCHANGED vars PROVE RehearsalInv'
  OBVIOUS
<1>1. UNCHANGED <<mode, source, next, running, replies, outcome, report>>
  BY DEF vars
<1>2. Batches' = Batches /\ Asked' = Asked /\ Accepted' = Accepted
  BY <1>1, BatchesKept DEF Asked, Accepted
<1>3. outcome # "rejected" =>
        /\ \A c \in running \cup Accepted : RequestParses(c)'
        /\ \A c \in Accepted :
             replies'[c].to = c /\ Body(c)' \in Bodies(c)' /\ Accepts(c, c, Body(c))'
  BY <1>1, CallsStand
<1>4. InTurn'
  BY <1>1, <1>2 DEF RehearsalInv, InTurn
<1>5. Parsed' /\ Replied'
  BY <1>1, <1>2, <1>3 DEF Parsed, Replied
<1>6. Ended'
  BY <1>1, <1>2 DEF RehearsalInv, Ended
<1>7. Reported'
  <2>1. Scored' = Scored
    BY <1>1 DEF Scored, Body
  <2> QED BY <1>1, <2>1 DEF RehearsalInv, Reported, Aggregable, Aggregates
<1> QED BY <1>1, <1>2, <1>4, <1>5, <1>6, <1>7 DEF RehearsalInv

\* The inductive invariant of the four rehearsals: which calls are in flight and accepted
\* at each batch, what was checked of each accepted reply, and what a result reports.
THEOREM RehearsalInvariant == Spec => []RehearsalInv
<1>1. Init => RehearsalInv
  BY RehearsalInit
<1>2. RehearsalInv /\ [Next]_vars => RehearsalInv'
  BY StartInv, ResolveInv, EndsInv, StutterInv DEF Next
<1> QED BY <1>1, <1>2, PTL DEF Spec

(***************************************************************************)
(* The theorems.                                                           *)
(***************************************************************************)
TurnKept ==
  /\ \A call \in running' \ running :
       /\ outcome = "running"
       /\ \A b \in 1..(next - 1) : Batches[b] \subseteq Accepted
  /\ outcome # "running" => UNCHANGED <<outcome, replies, next, report>>

\* rehearsal.ts, multiprocess-rehearsal.ts and the two sequential ones await each batch
\* before the next: no hook is called before all earlier replies were accepted, and what
\* settles after a rejection changes nothing.
THEOREM CallsTakeTurns == Spec => CallsInTurn
<1>1. RehearsalInv /\ [Next]_vars => [TurnKept]_vars
  <2> SUFFICES ASSUME RehearsalInv, Next PROVE TurnKept
    OBVIOUS
  <2>1. CASE Start
    <3>1. outcome = "running" /\ running = {}
      BY <2>1 DEF Start
    <3>2. \A b \in 1..(next - 1) : Batches[b] \subseteq Accepted
      BY <3>1, EarlierAccepted
    <3> QED BY <3>1, <3>2 DEF TurnKept
  <2>2. ASSUME NEW call \in running, Resolve(call) \/ Reject(call) PROVE TurnKept
    <3>1. outcome # "returned" /\ outcome \in {"running", "rejected", "returned"}
      BY DEF RehearsalInv, Ended
    <3>2. running' = running \ {call}
      BY <2>2 DEF Resolve, Reject
    <3>3. outcome = "rejected" => UNCHANGED <<outcome, replies, next, report>>
      BY <2>2 DEF Resolve, Reject
    <3> QED BY <3>1, <3>2, <3>3 DEF TurnKept
  <2>3. CASE GateRefuses \/ ReturnBundle \/ ReturnCounts
    <3>1. outcome = "running" /\ running' = running
      BY <2>3 DEF GateRefuses, ReturnBundle, ReturnCounts, AllReplied
    <3> QED BY <3>1 DEF TurnKept
  <2> QED BY <2>1, <2>2, <2>3 DEF Next
<1>2. CallsInTurn <=> [][TurnKept]_vars
  BY DEF CallsInTurn, TurnKept
<1> QED BY <1>1, <1>2, RehearsalInvariant, PTL DEF Spec

\* In a returned rehearsal every request parses and every reply is accepted.
LEMMA ReturnedCalls ==
  ASSUME RehearsalInv, outcome = "returned"
  PROVE  /\ Accepted = UNION {Batches[b] : b \in 1..Len(Batches)}
         /\ \A c \in Accepted : /\ RequestParses(c) /\ replies[c].to = c
                                /\ Body(c) \in Bodies(c) /\ Accepts(c, c, Body(c))
<1>1. running = {} /\ next = Len(Batches) + 1 /\ Len(Batches) \in Nat
  BY NextTyped DEF RehearsalInv, Ended
<1>2. next - 1 = Len(Batches)
  BY <1>1
<1>3. Accepted = Asked
  BY <1>1 DEF RehearsalInv, InTurn
<1> QED BY <1>2, <1>3 DEF RehearsalInv, Asked, Parsed, Replied

\* The two decisions of a rehearsal of one slot.
LEMMA TwoDecisions ==
  ASSUME NEW f,
         f["status-quo"] \in Decisions, f["beyondgreen"] \in Decisions,
         {d.arm : d \in {f[arm] : arm \in Arms}} = Arms,
         \A d \in {f[arm] : arm \in Arms} : d.slot = Own
  PROVE  {f[arm] : arm \in Arms} = {Decision(Own, arm) : arm \in Arms}
<1> DEFINE a == f["status-quo"]
           b == f["beyondgreen"]
<1>1. {f[arm] : arm \in Arms} = {a, b}
  BY DEF Arms
<1>2. {Decision(Own, arm) : arm \in Arms} =
        {Decision(Own, "status-quo"), Decision(Own, "beyondgreen")}
  BY DEF Arms
<1>3. a = Decision(Own, a.arm) /\ b = Decision(Own, b.arm)
  BY <1>1 DEF Decisions, Decision
<1> HIDE DEF a, b
<1>4. \/ a.arm = "status-quo" /\ b.arm = "beyondgreen"
      \/ a.arm = "beyondgreen" /\ b.arm = "status-quo"
  <2>1. {d.arm : d \in {a, b}} = {a.arm, b.arm}
    OBVIOUS
  <2>2. {a.arm, b.arm} = {"status-quo", "beyondgreen"}
    BY <1>1, <2>1 DEF Arms
  <2> QED BY <2>2
<1> QED BY <1>1, <1>2, <1>3, <1>4

LEMMA ParallelDecisions ==
  ASSUME RehearsalInv, outcome = "returned", mode \in Parallel
  PROVE  Decided = {Decision(Own, arm) : arm \in Arms}
<1> DEFINE ask(arm) == Call("arm", Own, arm, 1)
           f == [arm \in Arms |-> Body(ask(arm))]
<1>1. Decided = {f[arm] : arm \in Arms}
  BY DEF Decided, ForBothArms
<1>2. Len(Batches) = 3 /\ ForBothArms("arm") \subseteq Accepted
      /\ ForBothArms("observer") \subseteq Accepted
  <2>1. /\ Len(Batches) = 3 /\ Batches[1] = ForBothArms("arm")
        /\ Batches[2] = ForBothArms("observer")
    BY ParallelBatches
  <2>2. Accepted = UNION {Batches[b] : b \in 1..3}
    BY <2>1, ReturnedCalls
  <2> QED BY <2>1, <2>2
<1>3. ASSUME NEW arm \in Arms
      PROVE  /\ ask(arm) \in Accepted /\ f[arm] = Body(ask(arm))
             /\ f[arm] \in Decisions
             /\ mode = "synthetic" => f[arm].slot = Own /\ f[arm].arm = arm
  <2>1. ask(arm) \in Accepted
    BY <1>2 DEF ForBothArms
  <2>2. ask(arm).role = "arm" /\ ask(arm).arm = arm
    BY CallFields
  <2>3. Body(ask(arm)) \in {d \in Decisions : mode = "synthetic" => d.slot = Own}
    BY <2>1, <2>2, ReturnedCalls DEF Bodies
  <2>4. mode = "synthetic" => Body(ask(arm)).arm = arm
    <3> HIDE DEF ask
    <3> QED BY <2>1, <2>2, ReturnedCalls, AcceptedIs DEF RehearsalInv
  <2> QED BY <2>1, <2>3, <2>4
<1>4. "status-quo" \in Arms /\ "beyondgreen" \in Arms
  BY DEF Arms
<1>5. {d.arm : d \in Decided} = Arms /\ \A d \in Decided : d.slot = Own
  <2>1. CASE mode = "synthetic"
    BY <1>1, <1>3, <2>1
  <2>2. CASE mode = "multiprocess"
    <3> DEFINE o == Call("observer", Own, "status-quo", 1)
    <3>1. o \in Accepted /\ o.role = "observer"
      BY <1>2, <1>4, CallFields DEF ForBothArms
    <3> HIDE DEF o
    <3>2. RequestParses(o)
      BY <3>1, ReturnedCalls
    <3>3. DecisionSetIsFinal
      BY <2>2, <3>1, <3>2, RequestIs DEF RehearsalInv
    <3> QED BY <3>3 DEF DecisionSetIsFinal
  <2> QED BY <2>1, <2>2 DEF Parallel
<1>6. f["status-quo"] \in Decisions /\ f["beyondgreen"] \in Decisions
  BY <1>3, <1>4
<1> HIDE DEF f
<1> QED BY <1>1, <1>5, <1>6, TwoDecisions

\* What the capture of an arm shows, in each rehearsal that reads it.
LEMMA ReturnedCaptures ==
  ASSUME RehearsalInv, outcome = "returned", mode # "observer",
         NEW call \in Accepted, call.role = "observer"
  PROVE  /\ Body(call).slot = call.slot /\ Body(call).arm = call.arm
         /\ Body(call).of = Decision(call.slot, call.arm)
<1>1. PICK b \in 1..Len(Batches) : call \in Batches[b]
  BY ReturnedCalls
<1>2. /\ RequestParses(call) /\ Body(call) \in Bodies(call)
      /\ Accepts(call, call, Body(call))
  BY ReturnedCalls
<1>3. CASE mode = "synthetic"
  <2>1. call.slot = Own /\ call.arm \in Arms /\ mode \in Parallel
    BY <1>1, <1>3, ArmOfParallelCall, CallFields DEF Parallel
  <2>2. Body(call).arm = call.arm /\ Body(call).of = Body(Call("arm", Own, call.arm, 1))
    BY <1>2, <1>3, AcceptedIs DEF RehearsalInv
  <2>3. Body(call).slot = call.slot
    <3>1. Body(call) \in Captures(call)
      BY <1>2 DEF Bodies
    <3>2. Body(call).slot = Bound(call).slot
      BY <1>3, <3>1 DEF Captures
    <3> QED BY <3>2 DEF Bound
  <2>4. Body(Call("arm", Own, call.arm, 1)) = Decision(Own, call.arm)
    <3> DEFINE ask == Call("arm", Own, call.arm, 1)
    <3>1. ask \in Accepted /\ ask.role = "arm" /\ ask.arm = call.arm
      <4>1. ask \in ForBothArms("arm") /\ ForBothArms("arm") = Batches[1] /\ Len(Batches) = 3
        BY <2>1, ParallelBatches DEF ForBothArms
      <4>2. ask \in Accepted
        BY <4>1, ReturnedCalls
      <4> QED BY <4>2, CallFields
    <3> HIDE DEF ask
    <3>2. Body(ask) \in Bodies(ask) /\ Accepts(ask, ask, Body(ask))
      BY <3>1, ReturnedCalls
    <3>3. Body(ask) \in {d \in Decisions : mode = "synthetic" => d.slot = Own}
      BY <3>1, <3>2 DEF Bodies
    <3>4. Body(ask).arm = call.arm
      BY <1>3, <3>1, <3>2, AcceptedIs DEF RehearsalInv
    <3>5. Body(ask) = Decision(Own, call.arm)
      BY <1>3, <3>3, <3>4 DEF Decisions, Decision
    <3> QED BY <3>5 DEF ask
  <2> QED BY <2>1, <2>2, <2>3, <2>4
<1>4. CASE mode = "multiprocess"
  <2>1. call = Call("observer", Own, call.arm, 1) /\ call.arm \in Arms /\ mode \in Parallel
    BY <1>1, <1>4, ArmOfParallelCall DEF Parallel
  <2> DEFINE e == Call("evaluator", Own, call.arm, 1)
  <2>2. e \in Accepted /\ e.role = "evaluator" /\ e.arm = call.arm
    <3>1. e \in ForBothArms("evaluator") /\ ForBothArms("evaluator") = Batches[3]
          /\ Len(Batches) = 3
      BY <2>1, ParallelBatches DEF ForBothArms
    <3>2. e \in Accepted
      BY <3>1, ReturnedCalls
    <3> QED BY <3>2, CallFields
  <2> HIDE DEF e
  <2>3. RequestParses(e)
    BY <2>2, ReturnedCalls
  <2>4. CaptureIsBound(Body(Call("observer", Own, e.arm, 1)), Own, e.arm)
    BY <1>4, <2>2, <2>3, RequestIs DEF RehearsalInv
  <2>5. CaptureIsBound(Body(call), Own, call.arm)
    BY <2>1, <2>2, <2>4
  <2>6. call.slot = Own
    BY <2>1, CallFields
  <2> QED BY <2>5, <2>6 DEF CaptureIsBound
<1>5. CASE mode = "evaluator"
  <2>1. mode \in Sequential
    BY <1>5 DEF Sequential
  <2>2. PICK s \in 1..Len(Slots) : call \in SlotCalls(Slots[s])
    BY <1>1, <2>1, CallsOfSlots
  <2>3. PICK arm \in Arms, nth \in 1..2 : call = Call("observer", Slots[s], arm, nth)
    BY <2>2, CallFields DEF SlotCalls, Release
  <2>4. call.slot = Slots[s] /\ call.arm = arm
    BY <2>3, CallFields
  <2> DEFINE e == Call("evaluator", Slots[s], arm, 1)
  <2>5. e \in Accepted /\ e.role = "evaluator" /\ e.slot = Slots[s] /\ e.arm = arm
    <3>1. e \in SlotCalls(Slots[s])
      BY <1>5 DEF SlotCalls
    <3>2. \E k \in 1..Len(Batches) : e \in Batches[k]
      <4> DEFINE k == PerSlot * (s - 1) + Turn(e)
      <4>1. k \in 1..Len(Batches) /\ e \in Batches[k]
        BY <2>1, <3>1, CallsOfSlots
      <4> QED BY <4>1
    <3>3. e \in Accepted
      BY <3>2, ReturnedCalls
    <3> QED BY <3>3, CallFields
  <2> HIDE DEF e
  <2>6. RequestParses(e)
    BY <2>5, ReturnedCalls
  <2>7. PairIsFinal(Slots[s], arm)
    BY <1>5, <2>5, <2>6, RequestIs DEF RehearsalInv
  <2>8. CaptureIsBound(Body(call), Slots[s], arm)
    <3>1. nth = 1 \/ nth = 2
      OBVIOUS
    <3>2. Body(call) = Body(Call("observer", Slots[s], arm, 1))
      BY <2>3, <2>7, <3>1 DEF PairIsFinal
    <3> QED BY <2>7, <3>2 DEF PairIsFinal
  <2> QED BY <2>4, <2>8 DEF CaptureIsBound
<1> QED BY <1>3, <1>4, <1>5 DEF RehearsalInv, Parallel, Sequential

\* What a returned rehearsal rests on: the replies it accepted answer what it asked, are
\* about their slot and their arm, and stand on the frozen decisions.
THEOREM ResultsBound == Spec => []BoundResult
<1>1. RehearsalInv => BoundResult
  <2> SUFFICES ASSUME RehearsalInv, outcome = "returned"
               PROVE
      /\ Accepted = UNION Range(Batches)
      /\ \A call \in Accepted :
           /\ replies[call].to = call
           /\ call.role = "provider" =>
                /\ Body(call) = [slot |-> call.slot, set |-> "frozen"]
                /\ DecisionsOf(source, call.slot) = OrderedPair(call.slot)
           /\ call.role = "observer" /\ mode # "observer" =>
                /\ Body(call).slot = call.slot /\ Body(call).arm = call.arm
                /\ Body(call).of = Decision(call.slot, call.arm)
           /\ call.role = "evaluator" /\ mode # "multiprocess" =>
                RecordIsBound(Body(call), call)
      /\ mode \in Parallel => Decided = {Decision(Own, arm) : arm \in Arms}
      /\ mode = "evaluator" =>
           \A slot \in Range(Slots), arm \in Arms :
             Body(Call("observer", slot, arm, 1)) = Body(Call("observer", slot, arm, 2))
    BY DEF BoundResult
  <2>1. Accepted = UNION Range(Batches)
    <3>1. DOMAIN Batches = 1..Len(Batches)
      BY NextTyped
    <3>2. Range(Batches) = {Batches[b] : b \in 1..Len(Batches)}
      BY <3>1 DEF Range
    <3> QED BY <3>2, ReturnedCalls
  <2>2. ASSUME NEW call \in Accepted
        PROVE  /\ replies[call].to = call
               /\ call.role = "provider" =>
                    /\ Body(call) = [slot |-> call.slot, set |-> "frozen"]
                    /\ DecisionsOf(source, call.slot) = OrderedPair(call.slot)
               /\ call.role = "observer" /\ mode # "observer" =>
                    /\ Body(call).slot = call.slot /\ Body(call).arm = call.arm
                    /\ Body(call).of = Decision(call.slot, call.arm)
               /\ call.role = "evaluator" /\ mode # "multiprocess" =>
                    RecordIsBound(Body(call), call)
    <3>1. /\ RequestParses(call) /\ replies[call].to = call
          /\ Body(call) \in Bodies(call) /\ Accepts(call, call, Body(call))
      BY ReturnedCalls
    <3>2. ASSUME call.role = "provider"
          PROVE  /\ Body(call) = [slot |-> call.slot, set |-> "frozen"]
                 /\ DecisionsOf(source, call.slot) = OrderedPair(call.slot)
      <4>1. mode \in Sequential
        <5>1. PICK b \in 1..Len(Batches) : call \in Batches[b]
          BY ReturnedCalls
        <5>2. mode \notin Parallel
          BY <3>2, <5>1, ArmOfParallelCall
        <5> QED BY <5>2 DEF RehearsalInv
      <4>2. Body(call).slot = call.slot /\ Body(call).set = "frozen"
        BY <3>1, <3>2, <4>1, AcceptedIs DEF RehearsalInv
      <4>3. Body(call) \in [slot : Range(Slots), set : {"frozen", "other"}]
        BY <3>1, <3>2 DEF Bodies
      <4>4. DecisionsOf(source, call.slot) = OrderedPair(call.slot)
        BY <3>1, <3>2, RequestIs DEF RehearsalInv
      <4> QED BY <4>2, <4>3, <4>4
    <3>3. call.role = "evaluator" /\ mode # "multiprocess" => RecordIsBound(Body(call), call)
      <4> HIDE DEF RecordIsBound
      <4> QED BY <3>1, AcceptedIs DEF RehearsalInv, Parallel
    <3> QED BY <3>1, <3>2, <3>3, ReturnedCaptures
  <2>3. ASSUME mode = "evaluator", NEW slot \in Range(Slots), NEW arm \in Arms
        PROVE  Body(Call("observer", slot, arm, 1)) = Body(Call("observer", slot, arm, 2))
    <3> DEFINE e == Call("evaluator", slot, arm, 1)
    <3>1. e \in SlotCalls(slot) /\ mode \in Sequential
      BY <2>3 DEF SlotCalls, Sequential
    <3>2. PICK s \in 1..Len(Slots) : Slots[s] = slot
      BY SlotsTyped
    <3>3. \E b \in 1..Len(Batches) : e \in Batches[b]
      <4> DEFINE b == PerSlot * (s - 1) + Turn(e)
      <4>1. b \in 1..Len(Batches) /\ e \in Batches[b]
        BY <3>1, <3>2, CallsOfSlots
      <4> QED BY <4>1
    <3>4. e.role = "evaluator" /\ e.slot = slot /\ e.arm = arm
      BY CallFields
    <3> HIDE DEF e
    <3>5. RequestParses(e)
      BY <3>3, ReturnedCalls
    <3>6. PairIsFinal(slot, arm)
      BY <2>3, <3>4, <3>5, RequestIs DEF RehearsalInv
    <3> QED BY <3>6 DEF PairIsFinal
  <2> QED BY <2>1, <2>2, <2>3, ParallelDecisions
<1> QED BY <1>1, RehearsalInvariant, PTL

(***************************************************************************)
(* The scores.                                                             *)
(***************************************************************************)
One(holds) == IF holds THEN 1 ELSE 0

\* What a record may be counted as.
IsCorrect(r) == \/ r.verdict = "accept" /\ r.truth = "preserving"
                \/ r.verdict = "reject" /\ r.truth = "false_green"
IsEarned(r) == r.truth = "false_green" /\ r.verdict = "reject" /\ r.reason
IsBlocking(r) == r.truth = "preserving" /\ r.verdict \in {"reject", "abstain"}
IsMissed(r) == r.truth = "false_green" /\ r.verdict # "reject"
IsDone(r) == r.complete /\ r.verdict \in {"accept", "reject"}

\* Counting among two.
LEMMA CountOfTwo ==
  ASSUME NEW a, NEW b, a # b, NEW M \in SUBSET {a, b}
  PROVE  Cardinality(M) = One(a \in M) + One(b \in M)
<1>1. /\ IsFiniteSet({}) /\ Cardinality({}) = 0
      /\ IsFiniteSet({a}) /\ Cardinality({a}) = 1
      /\ IsFiniteSet({b}) /\ Cardinality({b}) = 1
  BY FS_EmptySet, FS_Singleton
<1>2. Cardinality({a} \cup {b}) = 2
  BY <1>1, FS_AddElement
<1>3. M = {} \/ M = {a} \/ M = {b} \/ M = {a} \cup {b}
  OBVIOUS
<1>4. CASE M = {}
  BY <1>1, <1>4 DEF One
<1>5. CASE M = {a}
  BY <1>1, <1>5 DEF One
<1>6. CASE M = {b}
  BY <1>1, <1>6 DEF One
<1>7. CASE M = {a} \cup {b}
  BY <1>2, <1>7 DEF One
<1> QED BY <1>3, <1>4, <1>5, <1>6, <1>7

\* A score as what each of two records adds to it.
AddedBy(s, r1, r2, arm) ==
  /\ s.total = One(r1.arm = arm) + One(r2.arm = arm)
  /\ s.correct = One(r1.arm = arm /\ IsCorrect(r1)) + One(r2.arm = arm /\ IsCorrect(r2))
  /\ s.falseGreen = One(r1.arm = arm /\ r1.truth = "false_green")
                      + One(r2.arm = arm /\ r2.truth = "false_green")
  /\ s.reasonCorrect = One(r1.arm = arm /\ IsEarned(r1)) + One(r2.arm = arm /\ IsEarned(r2))
  /\ s.preserving = One(r1.arm = arm /\ r1.truth = "preserving")
                      + One(r2.arm = arm /\ r2.truth = "preserving")
  /\ s.blocked = One(r1.arm = arm /\ IsBlocking(r1)) + One(r2.arm = arm /\ IsBlocking(r2))
  /\ s.completed = One(r1.arm = arm /\ IsDone(r1)) + One(r2.arm = arm /\ IsDone(r2))

\* The score of an arm that has records among two, as what each of them adds.
LEMMA ScoreOfTwo ==
  ASSUME NEW slots, NEW r1 \in ScoredRecords(slots), NEW r2 \in ScoredRecords(slots), r1 # r2,
         NEW arm, NEW s, s = ArmScore({r \in {r1, r2} : r.arm = arm})
  PROVE  AddedBy(s, r1, r2, arm)
<1> DEFINE R == {r \in {r1, r2} : r.arm = arm}
<1>0. /\ Cardinality(R) = One(r1 \in R) + One(r2 \in R)
      /\ (r1 \in R <=> r1.arm = arm) /\ (r2 \in R <=> r2.arm = arm)
  BY CountOfTwo
<1>1. ArmScore(R).total = One(r1.arm = arm) + One(r2.arm = arm)
  BY <1>0 DEF ArmScore, One, IsCorrect, IsEarned, IsBlocking, IsDone
<1>2. ArmScore(R).correct = One(r1.arm = arm /\ IsCorrect(r1)) + One(r2.arm = arm /\ IsCorrect(r2))
  <2> DEFINE M == {r \in R : IsCorrect(r)}
  <2>1. Cardinality(M) = One(r1 \in M) + One(r2 \in M)
    BY CountOfTwo
  <2> QED BY <2>1 DEF ArmScore, One, IsCorrect, IsEarned, IsBlocking, IsDone
<1>3. ArmScore(R).falseGreen = One(r1.arm = arm /\ r1.truth = "false_green")
                                 + One(r2.arm = arm /\ r2.truth = "false_green")
  <2> DEFINE M == {r \in R : r.truth = "false_green"}
  <2>1. Cardinality(M) = One(r1 \in M) + One(r2 \in M)
    BY CountOfTwo
  <2> QED BY <2>1 DEF ArmScore, One, IsCorrect, IsEarned, IsBlocking, IsDone
<1>4. ArmScore(R).reasonCorrect = One(r1.arm = arm /\ IsEarned(r1)) + One(r2.arm = arm /\ IsEarned(r2))
  <2> DEFINE M == {r \in R : IsEarned(r)}
  <2>1. Cardinality(M) = One(r1 \in M) + One(r2 \in M)
    BY CountOfTwo
  <2> QED BY <2>1 DEF ArmScore, One, IsCorrect, IsEarned, IsBlocking, IsDone
<1>5. ArmScore(R).preserving = One(r1.arm = arm /\ r1.truth = "preserving")
                                 + One(r2.arm = arm /\ r2.truth = "preserving")
  <2> DEFINE M == {r \in R : r.truth = "preserving"}
  <2>1. Cardinality(M) = One(r1 \in M) + One(r2 \in M)
    BY CountOfTwo
  <2> QED BY <2>1 DEF ArmScore, One, IsCorrect, IsEarned, IsBlocking, IsDone
<1>6. ArmScore(R).blocked = One(r1.arm = arm /\ IsBlocking(r1)) + One(r2.arm = arm /\ IsBlocking(r2))
  <2> DEFINE M == {r \in R : IsBlocking(r)}
  <2>1. Cardinality(M) = One(r1 \in M) + One(r2 \in M)
    BY CountOfTwo
  <2> QED BY <2>1 DEF ArmScore, Blocked, One, IsBlocking
<1>7. ArmScore(R).completed = One(r1.arm = arm /\ IsDone(r1)) + One(r2.arm = arm /\ IsDone(r2))
  <2> DEFINE M == {r \in R : IsDone(r)}
  <2>1. Cardinality(M) = One(r1 \in M) + One(r2 \in M)
    BY CountOfTwo
  <2> QED BY <2>1 DEF ArmScore, One, IsCorrect, IsEarned, IsBlocking, IsDone
<1>8. s = ArmScore(R)
  OBVIOUS
<1> HIDE DEF R
<1> QED BY ONLY <1>1, <1>2, <1>3, <1>4, <1>5, <1>6, <1>7, <1>8 DEF AddedBy

\* What ScoresAddUp says of the score of an arm.
FitTogether(s, records, arm) ==
  LET mine == {k \in 1..2 : records[k].arm = arm}
      missed == {k \in mine : records[k].truth = "false_green"
                                /\ records[k].verdict # "reject"}
      abstained == {k \in mine : records[k].verdict = "abstain"}
  IN /\ s.total = Cardinality(mine)
     /\ s.correct + s.blocked + Cardinality(missed) = s.total
     /\ s.falseGreen + s.preserving = s.total
     /\ s.reasonCorrect + Cardinality(missed) <= s.falseGreen
     /\ s.completed + Cardinality(abstained) <= s.total
     /\ s.correct + Cardinality(abstained) <= s.total

\* The numbers of an arm fit together, as what each record adds to them does.
LEMMA ScoresOfTwo ==
  ASSUME NEW slots, NEW records, records[1] \in ScoredRecords(slots),
         records[2] \in ScoredRecords(slots), records[1] # records[2],
         NEW arm, NEW s, s = ArmScore({r \in {records[1], records[2]} : r.arm = arm})
  PROVE  FitTogether(s, records, arm)
<1> DEFINE mine == {k \in 1..2 : records[k].arm = arm}
           missed == {k \in mine : records[k].truth = "false_green"
                                     /\ records[k].verdict # "reject"}
           abstained == {k \in mine : records[k].verdict = "abstain"}
<1>1. PICK r1 \in ScoredRecords(slots), r2 \in ScoredRecords(slots) :
        r1 = records[1] /\ r2 = records[2] /\ r1 # r2
  OBVIOUS
<1>2. s = ArmScore({r \in {r1, r2} : r.arm = arm})
  BY <1>1
<1>3. AddedBy(s, r1, r2, arm)
  BY ONLY <1>1, <1>2, ScoreOfTwo
<1>4. /\ Cardinality(mine) = One(r1.arm = arm) + One(r2.arm = arm)
      /\ Cardinality(missed) = One(r1.arm = arm /\ IsMissed(r1)) + One(r2.arm = arm /\ IsMissed(r2))
      /\ Cardinality(abstained) = One(r1.arm = arm /\ r1.verdict = "abstain")
                                    + One(r2.arm = arm /\ r2.verdict = "abstain")
  <2>1. /\ Cardinality(mine) = One(1 \in mine) + One(2 \in mine)
        /\ Cardinality(missed) = One(1 \in missed) + One(2 \in missed)
        /\ Cardinality(abstained) = One(1 \in abstained) + One(2 \in abstained)
    <3>1. 1..2 = {1, 2} /\ 1 # 2
      OBVIOUS
    <3>2. mine \in SUBSET {1, 2} /\ missed \in SUBSET {1, 2} /\ abstained \in SUBSET {1, 2}
      BY <3>1
    <3> HIDE DEF mine, missed, abstained
    <3> QED BY <3>1, <3>2, CountOfTwo
  <2>2. /\ 1 \in mine <=> r1.arm = arm
        /\ 2 \in mine <=> r2.arm = arm
        /\ 1 \in missed <=> r1.arm = arm /\ IsMissed(r1)
        /\ 2 \in missed <=> r2.arm = arm /\ IsMissed(r2)
        /\ 1 \in abstained <=> r1.arm = arm /\ r1.verdict = "abstain"
        /\ 2 \in abstained <=> r2.arm = arm /\ r2.verdict = "abstain"
    BY <1>1 DEF IsMissed
  <2> HIDE DEF mine, missed, abstained
  <2> QED BY ONLY <2>1, <2>2 DEF One
<1>5. /\ r1.verdict \in {"accept", "reject", "abstain"} /\ r1.truth \in {"preserving", "false_green"}
      /\ r2.verdict \in {"accept", "reject", "abstain"} /\ r2.truth \in {"preserving", "false_green"}
      /\ r1.reason \in BOOLEAN /\ r2.reason \in BOOLEAN
      /\ r1.complete \in BOOLEAN /\ r2.complete \in BOOLEAN
  BY DEF ScoredRecords, Verdicts, Truths
<1> HIDE DEF mine, missed, abstained
<1> USE DEF AddedBy, One, IsCorrect, IsBlocking, IsMissed, IsEarned, IsDone
<1>6. s.total = Cardinality(mine)
  BY ONLY <1>3, <1>4
<1>7. s.correct + s.blocked + Cardinality(missed) = s.total
  BY ONLY <1>3, <1>4, <1>5
<1>8. s.falseGreen + s.preserving = s.total
  BY ONLY <1>3, <1>4, <1>5
<1>9. s.reasonCorrect + Cardinality(missed) <= s.falseGreen
  BY ONLY <1>3, <1>4, <1>5
<1>10. s.completed + Cardinality(abstained) <= s.total
  BY ONLY <1>3, <1>4, <1>5
<1>11. s.correct + Cardinality(abstained) <= s.total
  BY ONLY <1>3, <1>4, <1>5
<1> QED BY <1>6, <1>7, <1>8, <1>9, <1>10, <1>11 DEF FitTogether, mine, missed, abstained

LEMMA TwoRecords ==
  ASSUME RehearsalInv, report # <<>>
  PROVE  /\ report = Aggregates(Scored) /\ DOMAIN Scored = 1..2
         /\ Scored[1] \in ScoredRecords(Range(Slots)) /\ Scored[2] \in ScoredRecords(Range(Slots))
         /\ Scored[1] # Scored[2]
<1>1. /\ outcome = "returned" /\ mode \in Parallel
      /\ report = Aggregates(Scored) /\ Aggregable(Scored)
  BY DEF RehearsalInv, Reported
<1>2. DOMAIN Scored = 1..2
  BY DEF Scored
<1>3. ASSUME NEW k \in 1..2 PROVE Scored[k] \in ScoredRecords(Range(Slots))
  <2> DEFINE arm == <<"status-quo", "beyondgreen">>[k]
             e == Call("evaluator", Own, arm, 1)
  <2>1. Scored[k] = Body(e)
    BY DEF Scored
  <2>2. arm \in Arms
    <3>1. k = 1 \/ k = 2
      OBVIOUS
    <3> QED BY <3>1 DEF Arms
  <2> HIDE DEF arm
  <2>3. e \in Accepted /\ e.role = "evaluator"
    <3>1. e \in ForBothArms("evaluator") /\ ForBothArms("evaluator") = Batches[3]
          /\ Len(Batches) = 3
      BY <1>1, <2>2, ParallelBatches DEF ForBothArms
    <3>2. e \in Accepted
      BY <1>1, <3>1, ReturnedCalls
    <3> QED BY <3>2, CallFields
  <2> HIDE DEF e
  <2>4. Body(e) \in Bodies(e)
    BY <1>1, <2>3, ReturnedCalls
  <2>5. Body(e) \in ScoredRecords(Range(Slots))
    BY <2>3, <2>4 DEF Bodies
  <2> QED BY <2>1, <2>5
<1>4. Scored[1] # Scored[2]
  <2>1. 1 \in 1..2 /\ 2 \in 1..2 /\ 1 # 2
    OBVIOUS
  <2> HIDE DEF Scored
  <2> QED BY <1>1, <1>2, <2>1 DEF Aggregable
<1> QED BY <1>1, <1>2, <1>3, <1>4

\* aggregation.ts: the numbers published for an arm fit together, and every record is
\* counted for one arm.
THEOREM ScoresFit == Spec => []ScoresAddUp
<1>1. RehearsalInv => ScoresAddUp
  <2> SUFFICES ASSUME RehearsalInv, report # <<>> PROVE ScoresAddUp
    BY DEF ScoresAddUp
  <2> DEFINE r1 == Scored[1]
             r2 == Scored[2]
             slots == Range(Slots)
             all == {Scored[i] : i \in DOMAIN Scored}
  <2>1. /\ report = Aggregates(Scored) /\ DOMAIN Scored = 1..2
        /\ r1 \in ScoredRecords(slots) /\ r2 \in ScoredRecords(slots) /\ r1 # r2
    BY TwoRecords
  <2>2. all = {r1, r2}
    BY <2>1
  <2>3. /\ DOMAIN report = {r1.arm, r2.arm}
        /\ \A arm \in DOMAIN report : report[arm] = ArmScore({r \in {r1, r2} : r.arm = arm})
    <3>1. report = [arm \in {r.arm : r \in all} |-> ArmScore({r \in all : r.arm = arm})]
      BY <2>1 DEF Aggregates
    <3>2. {r.arm : r \in {r1, r2}} = {r1.arm, r2.arm}
      OBVIOUS
    <3> HIDE DEF r1, r2, all
    <3> QED BY <2>2, <3>1, <3>2
  <2>4. ASSUME NEW arm \in DOMAIN report
        PROVE  FitTogether(report[arm], Scored, arm)
    <3>1. report[arm] = ArmScore({r \in {r1, r2} : r.arm = arm})
      BY <2>3
    <3> QED BY ONLY <2>1, <3>1, ScoresOfTwo
  <2>5. \A k \in 1..2 : Scored[k].arm \in DOMAIN report
    <3>1. \A k \in 1..2 : k = 1 \/ k = 2
      OBVIOUS
    <3> QED BY <2>3, <3>1
  <2> QED BY <2>4, <2>5 DEF ScoresAddUp, FitTogether
<1> QED BY <1>1, RehearsalInvariant, PTL
===============================================================================
