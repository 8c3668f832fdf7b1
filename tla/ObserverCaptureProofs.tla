------------------------- MODULE ObserverCaptureProofs -------------------------
(***************************************************************************)
(* Theorems about ObserverCapture, for scenarios of any length, any        *)
(* aliases and any objects: its types, the release of the candidate's      *)
(* handle, the identities in the frames, and what a transcript says.       *)
(***************************************************************************)
EXTENDS ObserverCapture, SequenceTheorems, TLAPS

(***************************************************************************)
(* Layer 1: types, and what is known of a capture at each of its places.   *)
(***************************************************************************)
Ops == {"first", "observe", "change", "dispose", "select", "complete", "malformed"}
AnyStep == [op : Ops, alias : Aliases \cup {NoAlias}]
Frame == [step : AnyStep, at : Nat, seen : Nat, object : Objects \cup {NoObject}, ordinal : Nat]

\* The scenario and the observer it is for, which no step changes.
Released ==
  /\ kind \in Kinds /\ live \in BOOLEAN
  /\ scenario \in Seq(AnyStep) /\ Len(scenario) >= 1
  /\ \A n \in 1..Len(scenario) :
       scenario[n].op \in {"select", "complete"} => scenario[n].alias \in Aliases

EvidenceTypes ==
  /\ i \in Nat /\ version \in Nat
  /\ frames \in Seq(Frame)
  /\ seenObjects \in Seq(Objects)
  /\ held \in [seen : Nat, json : BOOLEAN]

RequestTypes ==
  /\ handles \in [Aliases -> Nat] /\ selected \in Nat /\ completed \in Seq(Nat)

FlagTypes ==
  /\ disposed \in BOOLEAN /\ attempted \in BOOLEAN /\ refusedDispose \in BOOLEAN
  /\ disposals \in Nat /\ failed \in BOOLEAN

PlaceKnown ==
  /\ phase \in {"validating", "mounting", "first", "loop", "finally"} \cup Settled
  /\ i \in 1..(Len(scenario) + 1) /\ Len(frames) = i - 1
  /\ phase = "first" => kind \in MountsInStep /\ i = 1
  /\ phase \in {"validating", "mounting"} => i = 1
  /\ phase \in {"finally", "returned"} => failed \/ i = Len(scenario) + 1
  /\ phase = "returned" => ~failed

CaptureInv == Released /\ EvidenceTypes /\ RequestTypes /\ FlagTypes /\ PlaceKnown

\* Every step a scenario may hold is a step of some observer.
LEMMA StepsAreSteps ==
  ASSUME ObserverAssumption, NEW k \in Kinds, NEW s \in Steps(k)
  PROVE  /\ s \in AnyStep
         /\ s.op \in {"select", "complete"} => s.alias \in Aliases
<1> USE DEF Plain, AnyStep, Ops, Dispatching, ObserverAssumption
<1>1. CASE k = "d01"
  BY <1>1 DEF Steps, D01Steps
<1>2. CASE k = "d03"
  BY <1>2 DEF Steps, D03Steps
<1>3. CASE k = "h01"
  BY <1>3 DEF Steps, H01Steps
<1>4. CASE k = "h02"
  BY <1>4 DEF Steps, H02Steps
<1>5. CASE k = "h05"
  BY <1>5 DEF Steps, H05Steps
<1>6. CASE k = "h03"
  BY <1>6 DEF Steps, DispatchSteps
<1>7. CASE k = "dispatch"
  BY <1>7 DEF Steps, DispatchSteps
<1> QED BY <1>1, <1>2, <1>3, <1>4, <1>5, <1>6, <1>7 DEF Kinds

LEMMA CaptureInit ==
  ASSUME ObserverAssumption, Init
  PROVE  CaptureInv
<1>1. PICK n \in 1..MaxSteps : scenario \in [1..n -> Steps(kind)]
  BY DEF Init, Scenarios
<1>2. kind \in Kinds /\ n \in Nat /\ n >= 1
  BY <1>1 DEF Init, ObserverAssumption
<1>3. Len(scenario) = n /\ \A m \in 1..n : scenario[m] \in Steps(kind)
  BY <1>1, <1>2
<1>4. \A m \in 1..n : /\ scenario[m] \in AnyStep
                      /\ scenario[m].op \in {"select", "complete"} => scenario[m].alias \in Aliases
  BY <1>2, <1>3, StepsAreSteps
<1>5. scenario \in Seq(AnyStep)
  <2>1. scenario \in [1..n -> AnyStep]
    BY <1>1, <1>4
  <2> QED BY <2>1, <1>2
<1>6. Released
  BY <1>2, <1>3, <1>4, <1>5 DEF Released, Init
<1>7. EvidenceTypes /\ RequestTypes /\ FlagTypes
  BY EmptySeq DEF Init, EvidenceTypes, RequestTypes, FlagTypes
<1>8. PlaceKnown
  BY <1>2, <1>3 DEF Init, PlaceKnown, Settled
<1> QED BY <1>6, <1>7, <1>8 DEF CaptureInv

\* The objects that have an ordinal, and the ordinal of the one recorded.
LEMMA OrdinalFacts ==
  ASSUME ObserverAssumption, seenObjects \in Seq(Objects), NEW o \in Objects \cup {NoObject}
  PROVE  /\ Ordinals(o) \in Seq(Objects)
         /\ Ordinal(o, Ordinals(o)) \in Nat
         /\ o # NoObject =>
              /\ Ordinal(o, Ordinals(o)) \in DOMAIN Ordinals(o)
              /\ Ordinals(o)[Ordinal(o, Ordinals(o))] = o
         /\ Len(Ordinals(o)) >= Len(seenObjects)
         /\ \A n \in DOMAIN seenObjects : n \in DOMAIN Ordinals(o) /\ Ordinals(o)[n] = seenObjects[n]
<1>1. Ordinals(o) \in Seq(Objects)
  BY AppendProperties DEF Ordinals
<1>2. /\ Len(Ordinals(o)) >= Len(seenObjects)
      /\ \A n \in DOMAIN seenObjects : n \in DOMAIN Ordinals(o) /\ Ordinals(o)[n] = seenObjects[n]
  BY AppendProperties, LenProperties DEF Ordinals
<1>3. ASSUME o # NoObject
      PROVE  \E n \in DOMAIN Ordinals(o) : Ordinals(o)[n] = o
  <2>1. CASE \E n \in DOMAIN seenObjects : seenObjects[n] = o
    BY <2>1, <1>2
  <2>2. CASE ~ \E n \in DOMAIN seenObjects : seenObjects[n] = o
    <3>1. Ordinals(o) = Append(seenObjects, o) /\ o \in Objects
      BY <1>3, <2>2 DEF Ordinals
    <3>2. Len(seenObjects) \in Nat
      BY LenProperties
    <3>3. Len(seenObjects) + 1 \in DOMAIN Ordinals(o) /\ Ordinals(o)[Len(seenObjects) + 1] = o
      BY <3>1, <3>2, AppendProperties
    <3> QED BY <3>3
  <2> QED BY <2>1, <2>2
<1>4. o # NoObject => /\ Ordinal(o, Ordinals(o)) \in DOMAIN Ordinals(o)
                      /\ Ordinals(o)[Ordinal(o, Ordinals(o))] = o
  BY <1>3 DEF Ordinal
<1>5. Ordinal(o, Ordinals(o)) \in Nat
  <2>1. DOMAIN Ordinals(o) \subseteq Nat
    BY <1>1, LenProperties
  <2> QED BY <1>4, <2>1 DEF Ordinal
<1> QED BY <1>1, <1>2, <1>4, <1>5

\* A recorded frame has its type and is the one of the current step.
LEMMA RecordTypes ==
  ASSUME ObserverAssumption, CaptureInv, phase \in {"first", "loop"}, i <= Len(scenario),
         NEW a \in Nat, NEW s \in Nat, NEW o \in Objects \cup {NoObject}, Record(a, s, o)
  PROVE  /\ seenObjects' \in Seq(Objects)
         /\ frames' \in Seq(Frame) /\ Len(frames') = Len(frames) + 1
         /\ i' = i + 1 /\ i' \in Nat /\ i' \in 1..(Len(scenario) + 1) /\ Len(frames') = i' - 1
         /\ frames'[i] = [step |-> scenario[i], at |-> a, seen |-> s, object |-> o,
                          ordinal |-> Ordinal(o, seenObjects')]
         /\ \A n \in 1..(i - 1) : frames'[n] = frames[n]
         /\ DOMAIN frames = 1..(i - 1) /\ DOMAIN frames' = 1..i
<1> DEFINE f == [step |-> scenario[i], at |-> a, seen |-> s, object |-> o,
                 ordinal |-> Ordinal(o, Ordinals(o))]
<1>1. scenario \in Seq(AnyStep) /\ seenObjects \in Seq(Objects) /\ frames \in Seq(Frame)
  BY DEF CaptureInv, Released, EvidenceTypes
<1>2. i \in 1..Len(scenario) /\ Len(frames) = i - 1 /\ Len(scenario) \in Nat
  BY <1>1, LenProperties DEF CaptureInv, PlaceKnown, EvidenceTypes
<1>3. f \in Frame
  BY <1>1, <1>2, ElementOfSeq, OrdinalFacts DEF Frame
<1>4. frames' = Append(frames, f) /\ seenObjects' = Ordinals(o) /\ i' = i + 1
  BY DEF Record
<1> HIDE DEF f
<1>5. /\ frames' \in Seq(Frame) /\ Len(frames') = Len(frames) + 1
      /\ frames'[Len(frames) + 1] = f
      /\ \A n \in 1..Len(frames) : frames'[n] = frames[n]
  BY <1>1, <1>3, <1>4, AppendProperties
<1>6. f = [step |-> scenario[i], at |-> a, seen |-> s, object |-> o,
           ordinal |-> Ordinal(o, seenObjects')]
  BY <1>4 DEF f
<1> QED BY <1>1, <1>2, <1>4, <1>5, <1>6, OrdinalFacts, LenProperties

\* What a step leaves of the frames, of its position and of the place.
Placed ==
  /\ seenObjects' \in Seq(Objects) /\ frames' \in Seq(Frame)
  /\ i' \in Nat /\ i' \in 1..(Len(scenario) + 1) /\ Len(frames') = i' - 1
  /\ failed' \in BOOLEAN
  /\ phase' = "loop" \/ (phase' = "finally" /\ failed')

LEMMA ExposedObjects == Exposed \subseteq Objects \cup {NoObject}
BY DEF Exposed

LEMMA AbortPlaces ==
  ASSUME CaptureInv, Abort
  PROVE  Placed
BY DEF CaptureInv, EvidenceTypes, PlaceKnown, Abort, Placed

LEMMA RecordPlaces ==
  ASSUME ObserverAssumption, CaptureInv, phase = "loop", i <= Len(scenario),
         NEW a \in Nat, NEW s \in Nat, NEW o \in Objects \cup {NoObject}, Record(a, s, o),
         UNCHANGED <<phase, failed>>
  PROVE  Placed
<1>1. failed \in BOOLEAN
  BY DEF CaptureInv, FlagTypes
<1> QED BY <1>1, RecordTypes DEF Placed

LEMMA ShownPlaces ==
  ASSUME ObserverAssumption, CaptureInv, phase = "loop", i <= Len(scenario),
         NEW a \in Nat, Shown(a)
  PROVE  Placed
<1>1. CASE Abort
  BY <1>1, AbortPlaces
<1>2. CASE phase' = phase /\ failed' = failed /\ \E o \in Exposed : Record(a, a, o)
  <2>1. PICK o \in Exposed : Record(a, a, o)
    BY <1>2
  <2> QED BY <1>2, <2>1, ExposedObjects, RecordPlaces
<1> QED BY <1>1, <1>2 DEF Shown

\* A step of the loop keeps the invariant if it keeps what it does not place.
LEMMA PlacedKeeps ==
  ASSUME CaptureInv, Placed, UNCHANGED <<kind, scenario, live>>,
         version' \in Nat, held' \in [seen : Nat, json : BOOLEAN],
         RequestTypes', disposed' \in BOOLEAN, attempted' \in BOOLEAN,
         refusedDispose' \in BOOLEAN, disposals' \in Nat
  PROVE  CaptureInv'
BY DEF CaptureInv, Placed, Released, EvidenceTypes, FlagTypes, PlaceKnown, Settled

LEMMA CaptureStep ==
  ASSUME ObserverAssumption, CaptureInv, [Next]_vars
  PROVE  CaptureInv'
<1> USE DEF CaptureInv
<1>0. /\ kind \in Kinds /\ scenario \in Seq(AnyStep) /\ Len(scenario) \in Nat /\ Len(scenario) >= 1
      /\ i \in Nat /\ version \in Nat /\ held \in [seen : Nat, json : BOOLEAN]
      /\ disposals \in Nat /\ selected \in Nat
  BY LenProperties DEF Released, EvidenceTypes, FlagTypes, RequestTypes
<1>A. ASSUME NEW op \in Ops, At(op)
      PROVE  /\ phase = "loop" /\ i <= Len(scenario) /\ ~disposed
             /\ op \in {"select", "complete"} =>
                  scenario[i].alias \in Aliases /\ handles[scenario[i].alias] \in Nat
  <2>1. phase = "loop" /\ i <= Len(scenario) /\ ~disposed /\ scenario[i].op = op
    BY <1>A DEF At
  <2>2. i \in 1..Len(scenario)
    BY <1>0, <2>1 DEF PlaceKnown
  <2> QED BY <2>1, <2>2 DEF Released, RequestTypes
<1>1. CASE Validate \/ Mount \/ MountRejects
  BY <1>0, <1>1 DEF Validate, Mount, MountRejects, Released, EvidenceTypes, RequestTypes,
       FlagTypes, PlaceKnown, Settled, evidence, requests, flags
<1>2. CASE FirstFrame
  <2>1. i = 1 /\ phase = "first" /\ Record(version, version, NoObject) /\ phase' = "loop"
    BY <1>2 DEF FirstFrame, PlaceKnown
  <2>2. Placed
    BY <1>0, <1>2, <2>1, RecordTypes DEF Placed, FirstFrame, FlagTypes
  <2> QED BY <1>0, <1>2, <2>2, PlacedKeeps DEF FirstFrame, requests, flags, RequestTypes, FlagTypes
<1>3. CASE FirstFrameFails
  BY <1>3 DEF FirstFrameFails, Released, EvidenceTypes, RequestTypes, FlagTypes, PlaceKnown,
       Settled, evidence, requests
<1>4. CASE Observe
  <2>1. Placed
    BY <1>0, <1>4, <1>A, ShownPlaces DEF Observe, Ops
  <2> QED BY <1>0, <1>4, <2>1, PlacedKeeps DEF Observe, requests, flags, RequestTypes, FlagTypes
<1>5. CASE Change
  <2>1. Placed
    BY <1>0, <1>5, <1>A, ShownPlaces DEF Change, Ops
  <2> QED BY <1>0, <1>5, <2>1, PlacedKeeps DEF Change, requests, flags, RequestTypes, FlagTypes
<1>6. CASE Select
  <2>1. Placed
    BY <1>0, <1>6, <1>A, ShownPlaces DEF Select, Ops
  <2>2. RequestTypes'
    BY <1>0, <1>6, <1>A DEF Select, RequestTypes, Ops
  <2> QED BY <1>0, <1>6, <2>1, <2>2, PlacedKeeps DEF Select, flags, FlagTypes
<1>7. CASE Complete
  <2>1. Placed
    BY <1>0, <1>7, <1>A, ShownPlaces DEF Complete, Ops
  <2>2. RequestTypes'
    BY <1>0, <1>7, <1>A, AppendProperties DEF Complete, RequestTypes, Ops
  <2> QED BY <1>0, <1>7, <2>1, <2>2, PlacedKeeps DEF Complete, flags, FlagTypes
<1>8. CASE AliasRefused
  <2>1. Placed
    BY <1>8, AbortPlaces DEF AliasRefused
  <2> QED BY <1>0, <1>8, <2>1, PlacedKeeps DEF AliasRefused, requests, flags, RequestTypes, FlagTypes
<1>9. CASE StepRejects
  <2>1. Placed
    BY <1>9, AbortPlaces DEF StepRejects
  <2>2. scenario[i].op = "complete" =>
          scenario[i].alias \in Aliases /\ handles[scenario[i].alias] \in Nat
    BY <1>9, <1>A DEF StepRejects, Ops, At
  <2>3. RequestTypes'
    <3>1. CASE scenario[i].op = "complete"
      <4>1. /\ completed' = Append(completed, handles[scenario[i].alias])
            /\ handles' = [handles EXCEPT ![scenario[i].alias] = 0]
            /\ selected' = selected
        BY <1>9, <3>1 DEF StepRejects
      <4> QED BY <2>2, <3>1, <4>1, AppendProperties DEF RequestTypes
    <3>2. CASE scenario[i].op # "complete"
      BY <1>9, <3>2 DEF StepRejects, RequestTypes
    <3> QED BY <3>1, <3>2
  <2> QED BY <1>0, <1>9, <2>1, <2>3, PlacedKeeps DEF StepRejects, FlagTypes
<1>10. CASE FollowsDisposal
  <2>1. Placed
    BY <1>10, AbortPlaces DEF FollowsDisposal
  <2> QED BY <1>0, <1>10, <2>1, PlacedKeeps DEF FollowsDisposal, requests, flags, RequestTypes, FlagTypes
<1>11. ASSUME NEW seen \in Nat, Disposing(seen), Placed
       PROVE  CaptureInv'
  BY <1>0, <1>11, PlacedKeeps DEF Disposing, requests, RequestTypes, FlagTypes
<1>12. CASE DisposeAfterLook
  <2> DEFINE seen == IF live THEN version + 1 ELSE version
  <2>1. At("dispose") /\ Disposing(seen) /\ seen \in Nat
    BY <1>0, <1>12 DEF DisposeAfterLook
  <2>2. \/ Record(version, seen, NoObject) /\ UNCHANGED <<phase, failed>>
        \/ Abort
    BY <1>12 DEF DisposeAfterLook
  <2>3. Placed
    BY <1>0, <2>1, <2>2, <1>A, RecordPlaces, AbortPlaces DEF Ops
  <2> QED BY <2>1, <2>3, <1>11
<1>13. CASE DisposeReturns
  <2>1. At("dispose") /\ Disposing(version + 1) /\ version + 1 \in Nat
    BY <1>0, <1>13 DEF DisposeReturns
  <2>2. \/ (\E o \in Exposed : Record(version + 1, version + 1, o)) /\ UNCHANGED <<phase, failed>>
        \/ Abort
    BY <1>13 DEF DisposeReturns
  <2>3. Placed
    BY <1>0, <2>1, <2>2, <1>A, ExposedObjects, RecordPlaces, AbortPlaces DEF Ops
  <2> QED BY <2>1, <2>3, <1>11
<1>14. CASE DisposeBridge
  <2>1. At("dispose") /\ Disposing(version + 1) /\ version + 1 \in Nat
    BY <1>0, <1>14 DEF DisposeBridge
  <2>2. Placed
    BY <1>0, <1>14, <2>1, <1>A, RecordPlaces DEF Ops, DisposeBridge
  <2> QED BY <2>1, <2>2, <1>11
<1>15. CASE LookRejects
  <2>1. Placed
    BY <1>15, AbortPlaces DEF LookRejects
  <2> QED BY <1>0, <1>15, <2>1, PlacedKeeps DEF LookRejects, requests, RequestTypes, FlagTypes
<1>16. CASE DisposeRejects
  <2>1. Placed
    BY <1>16, AbortPlaces DEF DisposeRejects
  <2> QED BY <1>0, <1>16, <2>1, PlacedKeeps DEF DisposeRejects, requests, RequestTypes, FlagTypes
<1>17. CASE LoopEnds
  BY <1>0, <1>17 DEF LoopEnds, Released, EvidenceTypes, RequestTypes, FlagTypes, PlaceKnown,
       Settled, evidence, requests, flags
<1>18. CASE Settle \/ FinalLookRejects
  BY SMTT(30), <1>0, <1>18 DEF Settle, FinalLookRejects, Released, EvidenceTypes, RequestTypes, FlagTypes,
       PlaceKnown, Settled, evidence, requests, flags
<1>19. CASE FinalDispose
  <2>1. held' \in [seen : Nat, json : BOOLEAN] /\ version' \in Nat
    BY <1>0, <1>19 DEF FinalDispose
  <2> QED BY <1>0, <1>19, <2>1 DEF FinalDispose, Released, EvidenceTypes, RequestTypes, FlagTypes,
            PlaceKnown, Settled, requests
<1>20. CASE FinalDisposeRejects
  BY <1>0, <1>20 DEF FinalDisposeRejects, Released, EvidenceTypes, RequestTypes, FlagTypes,
       PlaceKnown, Settled, evidence, requests
<1>21. CASE UNCHANGED vars
  BY <1>21 DEF vars, Released, EvidenceTypes, RequestTypes, FlagTypes, PlaceKnown, Settled,
       evidence, requests, flags
<1> QED BY <1>1, <1>2, <1>3, <1>4, <1>5, <1>6, <1>7, <1>8, <1>9, <1>10, <1>12, <1>13, <1>14,
      <1>15, <1>16, <1>17, <1>18, <1>19, <1>20, <1>21 DEF Next

LEMMA InputIsFixed ==
  ASSUME [Next]_vars
  PROVE  UNCHANGED <<kind, scenario, live>> /\ (Normalized' <=> Normalized)
<1>1. UNCHANGED <<kind, scenario, live>>
  BY DEF Next, vars, Validate, Mount, MountRejects, FirstFrame, FirstFrameFails, Observe, Change,
     Select, Complete, AliasRefused, StepRejects, FollowsDisposal, DisposeAfterLook, Disposing,
     DisposeReturns, DisposeBridge, LookRejects, DisposeRejects, LoopEnds, Settle, FinalDispose,
     FinalLookRejects, FinalDisposeRejects
<1> QED BY <1>1 DEF Normalized

(***************************************************************************)
(* Layer 2: the handle.  In the loop it is disposed of or untouched; in    *)
(* the finally block an attempt that left it undisposed was refused.       *)
(***************************************************************************)
Untouched == disposals = 0 /\ ~disposed /\ ~attempted /\ ~refusedDispose /\ rejected = "none"

HandleInLoop ==
  /\ ~refusedDispose /\ rejected = "none" /\ attempted = disposed
  /\ disposals = IF disposed THEN 1 ELSE 0

TwiceOnlyAfterRefusal ==
  /\ disposals <= 2
  /\ disposals = 2 => refusedDispose /\ failed /\ kind \in Dispatching \cup {"d01"}

HandleAfterLoop ==
  /\ TwiceOnlyAfterRefusal
  /\ attempted <=> disposals # 0
  /\ disposed => attempted
  /\ ~disposed => disposals <= 1
  /\ ~disposed /\ attempted => refusedDispose /\ failed

\* What a capture that threw after its mount leaves; BG-D03 has no handle.
HandleThrown ==
  kind # "d03" /\ Normalized /\ rejected # "mount" =>
    /\ TwiceOnlyAfterRefusal
    /\ disposals = 0 => kind \in LooksFirst /\ rejected = "observe"

HandleInv ==
  /\ phase \in {"validating", "mounting", "first"} => Untouched
  /\ phase = "loop" => HandleInLoop
  /\ phase \in {"finally", "returned"} => HandleAfterLoop
  /\ phase = "returned" => kind = "d03" \/ disposed
  /\ phase = "thrown" => HandleThrown

\* Steps that leave the harness's dispose alone keep the loop's view of it, or
\* take it to the finally block.
LEMMA LoopKeepsHandle ==
  ASSUME CaptureInv, HandleInv, phase = "loop", HandleInLoop',
         phase' = "loop" \/ (phase' = "finally" /\ failed')
  PROVE  HandleInv'
BY DEF HandleInv, HandleInLoop, HandleAfterLoop, TwiceOnlyAfterRefusal, Untouched, HandleThrown,
   CaptureInv, FlagTypes

LEMMA HandleStep ==
  ASSUME ObserverAssumption, CaptureInv, CaptureInv', HandleInv, [Next]_vars
  PROVE  HandleInv'
<1>0. /\ disposed \in BOOLEAN /\ attempted \in BOOLEAN /\ refusedDispose \in BOOLEAN
      /\ disposals \in Nat /\ failed \in BOOLEAN /\ kind \in Kinds
  BY DEF CaptureInv, FlagTypes, Released
<1>N. UNCHANGED <<kind, scenario, live>> /\ (Normalized' <=> Normalized)
  BY InputIsFixed
<1>P. phase \in {"validating", "mounting", "first", "loop", "finally", "returned", "thrown"}
  BY DEF CaptureInv, PlaceKnown, Settled
<1>1. CASE Validate \/ Mount \/ MountRejects
  BY <1>0, <1>1, <1>N DEF HandleInv, Untouched, HandleInLoop, HandleThrown, Validate, Mount,
     MountRejects, flags
<1>2. CASE FirstFrame
  BY <1>0, <1>2, <1>N DEF HandleInv, Untouched, HandleInLoop, FirstFrame, flags
<1>3. CASE FirstFrameFails
  BY <1>0, <1>3, <1>N DEF HandleInv, Untouched, HandleThrown, TwiceOnlyAfterRefusal,
     FirstFrameFails, CaptureInv, PlaceKnown, MountsInStep, LooksFirst
<1>4. CASE \/ Observe \/ Change \/ Select \/ Complete \/ AliasRefused \/ FollowsDisposal
  <2>1. phase = "loop" /\ UNCHANGED flags
    BY <1>4 DEF Observe, Change, Select, Complete, AliasRefused, FollowsDisposal, At
  <2>2. phase' = "loop" \/ (phase' = "finally" /\ failed')
    BY <1>4, <2>1 DEF Observe, Change, Select, Complete, AliasRefused, FollowsDisposal, Shown, Abort
  <2>3. HandleInLoop'
    BY <2>1 DEF HandleInv, HandleInLoop, flags
  <2> QED BY <2>1, <2>2, <2>3, LoopKeepsHandle
<1>5. CASE StepRejects \/ LookRejects
  <2>1. phase = "loop" /\ ~disposed /\ phase' = "finally" /\ failed'
        /\ UNCHANGED <<disposed, attempted, disposals, refusedDispose>>
    BY <1>5 DEF StepRejects, LookRejects, At, Abort
  <2> QED BY <1>0, <2>1 DEF HandleInv, HandleInLoop, HandleAfterLoop, TwiceOnlyAfterRefusal
<1>6. CASE DisposeAfterLook \/ DisposeReturns \/ DisposeBridge
  <2>1. /\ phase = "loop" /\ ~disposed
        /\ disposed' = TRUE /\ attempted' = TRUE /\ disposals' = disposals + 1
        /\ UNCHANGED <<rejected, refusedDispose>>
    BY <1>6 DEF DisposeAfterLook, DisposeReturns, DisposeBridge, Disposing, At
  <2>2. phase' = "loop" \/ (phase' = "finally" /\ failed')
    BY <1>6, <2>1 DEF DisposeAfterLook, DisposeReturns, DisposeBridge, Abort
  <2>3. HandleInLoop'
    BY <1>0, <2>1 DEF HandleInv, HandleInLoop
  <2> QED BY <2>1, <2>2, <2>3, LoopKeepsHandle
<1>7. CASE DisposeRejects
  <2>1. /\ phase = "loop" /\ ~disposed /\ phase' = "finally" /\ failed'
        /\ attempted' = TRUE /\ disposals' = disposals + 1 /\ refusedDispose' = TRUE
        /\ disposed' = disposed
    BY <1>7 DEF DisposeRejects, At, Abort
  <2> QED BY <1>0, <2>1 DEF HandleInv, HandleInLoop, HandleAfterLoop, TwiceOnlyAfterRefusal
<1>8. CASE LoopEnds
  BY <1>0, <1>8 DEF LoopEnds, HandleInv, HandleInLoop, HandleAfterLoop, TwiceOnlyAfterRefusal, flags
<1>9. CASE Settle
  <2>1. /\ phase = "finally" /\ ~Owes /\ HandleAfterLoop
        /\ UNCHANGED <<disposed, attempted, disposals, refusedDispose, rejected, failed, kind>>
        /\ phase' = IF failed \/ ~held.json THEN "thrown" ELSE "returned"
    BY <1>9, <1>N DEF Settle, HandleInv, flags
  <2>2. kind = "d03" \/ disposed \/ (kind \in {"h01", "h02", "h05"} /\ attempted)
    BY <1>0, <2>1 DEF Owes
  <2>3. CASE phase' = "returned"
    BY <1>0, <2>1, <2>2, <2>3 DEF HandleInv, HandleAfterLoop, TwiceOnlyAfterRefusal
  <2>4. CASE phase' = "thrown"
    <3>1. kind = "d03" \/ disposals # 0
      BY <2>1, <2>2 DEF HandleAfterLoop
    <3> QED BY <1>0, <1>N, <2>1, <2>4, <3>1 DEF HandleInv, HandleAfterLoop, HandleThrown, TwiceOnlyAfterRefusal
  <2> QED BY <2>1, <2>3, <2>4
<1>10. ASSUME phase = "finally", Owes
       PROVE  /\ HandleAfterLoop /\ ~disposed /\ disposals \in {0, 1} /\ kind # "d03"
              /\ disposals = 1 => refusedDispose /\ failed /\ kind \in Dispatching \cup {"d01"}
  BY <1>0, <1>10 DEF HandleInv, HandleAfterLoop, Owes, Kinds, Dispatching
<1>11. CASE FinalDispose
  <2>1. /\ phase' = "finally" /\ disposed' = TRUE /\ attempted' = TRUE /\ disposals' = disposals + 1
        /\ UNCHANGED <<refusedDispose, failed, kind>>
    BY <1>11 DEF FinalDispose
  <2> QED BY <1>0, <1>10, <1>11, <2>1 DEF FinalDispose, HandleInv, HandleAfterLoop, TwiceOnlyAfterRefusal
<1>12. CASE FinalLookRejects
  <2>1. /\ phase' = "thrown" /\ rejected' = "observe" /\ kind \in LooksFirst
        /\ UNCHANGED <<kind, disposals, refusedDispose, failed>>
    BY <1>12 DEF FinalLookRejects
  <2> QED BY <1>0, <1>10, <1>12, <2>1 DEF FinalLookRejects, HandleInv, HandleThrown, TwiceOnlyAfterRefusal
<1>13. CASE FinalDisposeRejects
  <2>1. /\ phase' = "thrown" /\ disposals' = disposals + 1 /\ refusedDispose' = TRUE
        /\ UNCHANGED <<kind, failed>>
    BY <1>13 DEF FinalDisposeRejects
  <2> QED BY <1>0, <1>10, <1>13, <2>1 DEF FinalDisposeRejects, HandleInv, HandleThrown, TwiceOnlyAfterRefusal
<1>14. CASE UNCHANGED vars
  BY <1>14, <1>N DEF vars, flags, HandleInv, Untouched, HandleInLoop, HandleAfterLoop, HandleThrown,
     TwiceOnlyAfterRefusal
<1> QED BY <1>1, <1>2, <1>3, <1>4, <1>5, <1>6, <1>7, <1>8, <1>9, <1>11, <1>12, <1>13, <1>14 DEF Next

LEMMA HandleImplies ==
  ASSUME CaptureInv, HandleInv
  PROVE  HandleReleased
<1> SUFFICES ASSUME phase \in Settled, kind # "d03", Normalized, rejected # "mount"
             PROVE  /\ disposals <= 2
                    /\ phase = "returned" => disposals = 1 /\ disposed
                    /\ disposals = 2 => kind \in Dispatching \cup {"d01"} /\ refusedDispose
                    /\ disposals = 0 => kind \in LooksFirst /\ rejected = "observe"
  BY DEF HandleReleased
<1>1. disposals \in Nat
  BY DEF CaptureInv, FlagTypes
<1>2. CASE phase = "returned"
  BY <1>1, <1>2 DEF HandleInv, HandleAfterLoop, TwiceOnlyAfterRefusal, CaptureInv, PlaceKnown
<1>3. CASE phase = "thrown"
  BY <1>1, <1>3 DEF HandleInv, HandleThrown, TwiceOnlyAfterRefusal
<1> QED BY <1>2, <1>3 DEF Settled

(***************************************************************************)
(* Layer 3: the frames.  A step leaves them alone or records one more.     *)
(***************************************************************************)
\* The frame of step i: shown a, reading s, exposing o.
Recorded(a, s, o) ==
  /\ Record(a, s, o)
  /\ phase \in {"first", "loop"} /\ i <= Len(scenario)
  /\ kind \in Identified => o # NoObject
  /\ version <= a /\ a <= version'
  /\ s = a \/ (scenario[i].op = "dispose" /\ kind \in LooksFirst /\ live)
  /\ ~disposed
  /\ scenario[i].op = "dispose" => disposed'

SomethingRecorded ==
  \E a \in Nat, s \in Nat, o \in Objects \cup {NoObject} : Recorded(a, s, o)

FramesLeft == UNCHANGED <<frames, seenObjects, i>> /\ version <= version'

NormalizedInv == phase \notin {"validating", "thrown"} => Normalized

LEMMA ShownRecords ==
  ASSUME ObserverAssumption, NEW op \in Ops, op # "dispose", At(op), NEW a \in Nat, Shown(a),
         version \in Nat, version <= a, a = version'
  PROVE  FramesLeft \/ SomethingRecorded
<1>1. CASE Abort
  BY <1>1 DEF Abort, FramesLeft
<1>2. ASSUME NEW o \in Exposed, Record(a, a, o)
      PROVE  SomethingRecorded
  <2>1. o \in Objects \cup {NoObject} /\ (kind \in Identified => o # NoObject)
    BY <1>2 DEF Exposed, ObserverAssumption
  <2>2. Recorded(a, a, o)
    BY <1>2, <2>1 DEF At, Recorded
  <2> QED BY <2>1, <2>2 DEF SomethingRecorded
<1> QED BY <1>1, <1>2 DEF Shown

LEMMA FramesStep ==
  ASSUME ObserverAssumption, CaptureInv, HandleInv, NormalizedInv, [Next]_vars
  PROVE  FramesLeft \/ SomethingRecorded
<1>0. version \in Nat /\ scenario \in Seq(AnyStep) /\ kind \in Kinds
      /\ NoObject \in Objects \cup {NoObject}
  BY DEF CaptureInv, EvidenceTypes, Released
<1>1. CASE Validate \/ Mount \/ MountRejects \/ FirstFrameFails
  BY <1>0, <1>1 DEF Validate, Mount, MountRejects, FirstFrameFails, evidence, FramesLeft
<1>2. CASE FirstFrame
  <2>1. phase = "first" /\ i = 1 /\ kind \in MountsInStep /\ Record(version, version, NoObject)
        /\ version' = version /\ Len(scenario) >= 1 /\ Len(scenario) \in Nat
    BY <1>0, <1>2, LenProperties DEF FirstFrame, CaptureInv, PlaceKnown, Released
  <2>2. scenario[1].op = "first"
    BY <1>0, <2>1, LenProperties DEF NormalizedInv, Normalized
  <2>3. ~disposed /\ kind \notin Identified
    BY <2>1 DEF HandleInv, Untouched, MountsInStep, Identified
  <2>4. Recorded(version, version, NoObject)
    BY <1>0, <2>1, <2>2, <2>3 DEF Recorded
  <2> QED BY <1>0, <2>4 DEF SomethingRecorded
<1>3. CASE Observe
  BY <1>0, <1>3, ShownRecords DEF Observe, Ops
<1>4. CASE Change
  BY <1>0, <1>4, ShownRecords DEF Change, Ops
<1>5. CASE Select
  BY <1>0, <1>5, ShownRecords DEF Select, Ops
<1>6. CASE Complete
  BY <1>0, <1>6, ShownRecords DEF Complete, Ops
<1>7. CASE AliasRefused \/ StepRejects \/ FollowsDisposal \/ LookRejects \/ DisposeRejects
  BY <1>0, <1>7 DEF AliasRefused, StepRejects, FollowsDisposal, LookRejects, DisposeRejects, Abort,
     FramesLeft
<1>8. CASE DisposeAfterLook
  <2> DEFINE s == IF live THEN version + 1 ELSE version
  <2>1. /\ At("dispose") /\ kind \in LooksFirst /\ disposed' = TRUE /\ version' = version + 1
        /\ Record(version, s, NoObject) \/ Abort
    BY <1>8 DEF DisposeAfterLook, Disposing
  <2>2. CASE Abort
    BY <1>0, <2>1, <2>2 DEF Abort, FramesLeft
  <2>3. CASE Record(version, s, NoObject)
    <3>1. kind \notin Identified /\ s \in Nat /\ (s = version \/ live)
      BY <1>0, <2>1 DEF LooksFirst, Identified
    <3>2. Recorded(version, s, NoObject)
      BY <1>0, <2>1, <2>3, <3>1 DEF Recorded, At
    <3> QED BY <1>0, <3>1, <3>2 DEF SomethingRecorded
  <2> QED BY <2>1, <2>2, <2>3
<1>9. CASE DisposeReturns
  <2>1. /\ At("dispose") /\ disposed' = TRUE /\ version' = version + 1
        /\ (\E o \in Exposed : Record(version + 1, version + 1, o)) \/ Abort
    BY <1>9 DEF DisposeReturns, Disposing
  <2>2. CASE Abort
    BY <1>0, <2>1, <2>2 DEF Abort, FramesLeft
  <2>3. ASSUME NEW o \in Exposed, Record(version + 1, version + 1, o)
        PROVE  SomethingRecorded
    <3>1. o \in Objects \cup {NoObject} /\ (kind \in Identified => o # NoObject)
      BY <2>3 DEF Exposed, ObserverAssumption
    <3>2. Recorded(version + 1, version + 1, o)
      BY <1>0, <2>1, <2>3, <3>1 DEF Recorded, At
    <3> QED BY <1>0, <3>1, <3>2 DEF SomethingRecorded
  <2> QED BY <2>1, <2>2, <2>3
<1>10. CASE DisposeBridge
  <2>1. /\ At("dispose") /\ kind = "d01" /\ disposed' = TRUE /\ version' = version + 1
        /\ Record(version + 1, version + 1, NoObject)
    BY <1>10 DEF DisposeBridge, Disposing
  <2>2. Recorded(version + 1, version + 1, NoObject)
    BY <1>0, <2>1 DEF Recorded, At, Identified
  <2> QED BY <1>0, <2>2 DEF SomethingRecorded
<1>11. CASE LoopEnds \/ Settle \/ FinalDispose \/ FinalLookRejects \/ FinalDisposeRejects
  BY <1>0, <1>11 DEF LoopEnds, Settle, FinalDispose, FinalLookRejects, FinalDisposeRejects, evidence,
     FramesLeft
<1>12. CASE UNCHANGED vars
  BY <1>0, <1>12 DEF vars, evidence, FramesLeft
<1> QED BY <1>1, <1>2, <1>3, <1>4, <1>5, <1>6, <1>7, <1>8, <1>9, <1>10, <1>11, <1>12 DEF Next

LEMMA NormalizedStep ==
  ASSUME CaptureInv, NormalizedInv, [Next]_vars
  PROVE  NormalizedInv'
<1>1. Normalized' <=> Normalized
  BY InputIsFixed
<1>2. CASE Validate
  BY <1>1, <1>2 DEF Validate, NormalizedInv
<1>3. CASE ~Validate
  <2>1. phase \in {"validating", "thrown"} => phase' = phase
    BY <1>3 DEF Next, vars, Mount, MountRejects, FirstFrame, FirstFrameFails, Observe, Change,
       Select, Complete, AliasRefused, StepRejects, FollowsDisposal, DisposeAfterLook,
       DisposeReturns, DisposeBridge, LookRejects, DisposeRejects, LoopEnds, Settle, FinalDispose,
       FinalLookRejects, FinalDisposeRejects, At
  <2> QED BY <1>1, <2>1 DEF NormalizedInv
<1> QED BY <1>2, <1>3

\* An object has one ordinal, and a frame has the ordinal of its object.
IdentityInv ==
  kind \in Identified =>
    /\ \A m, n \in DOMAIN seenObjects : seenObjects[m] = seenObjects[n] => m = n
    /\ \A n \in DOMAIN frames :
         /\ frames[n].ordinal \in DOMAIN seenObjects
         /\ seenObjects[frames[n].ordinal] = frames[n].object

LEMMA IdentityStep ==
  ASSUME ObserverAssumption, CaptureInv, HandleInv, NormalizedInv, IdentityInv, [Next]_vars
  PROVE  IdentityInv'
<1>0. kind' = kind /\ seenObjects \in Seq(Objects)
  BY InputIsFixed DEF CaptureInv, EvidenceTypes
<1>1. CASE FramesLeft
  BY <1>0, <1>1 DEF FramesLeft, IdentityInv
<1>2. CASE SomethingRecorded /\ kind \in Identified
  <2>1. PICK a \in Nat, s \in Nat, o \in Objects \cup {NoObject} : Recorded(a, s, o)
    BY <1>2 DEF SomethingRecorded
  <2>2. o # NoObject /\ seenObjects' = Ordinals(o)
    BY <1>2, <2>1 DEF Recorded, Record
  <2>3. /\ frames'[i] = [step |-> scenario[i], at |-> a, seen |-> s, object |-> o,
                         ordinal |-> Ordinal(o, seenObjects')]
        /\ \A n \in 1..(i - 1) : frames'[n] = frames[n]
        /\ DOMAIN frames = 1..(i - 1) /\ DOMAIN frames' = 1..i /\ i \in Nat
    BY <2>1, RecordTypes DEF Recorded, CaptureInv, EvidenceTypes
  <2>4. \A m, n \in DOMAIN seenObjects' : seenObjects'[m] = seenObjects'[n] => m = n
    <3>1. CASE \E n \in DOMAIN seenObjects : seenObjects[n] = o
      BY <1>2, <2>2, <3>1 DEF IdentityInv, Ordinals
    <3>2. CASE ~ \E n \in DOMAIN seenObjects : seenObjects[n] = o
      <4>1. seenObjects' = Append(seenObjects, o)
        BY <2>2, <3>2 DEF Ordinals
      <4>2. /\ DOMAIN seenObjects = 1..Len(seenObjects) /\ Len(seenObjects) \in Nat
            /\ DOMAIN seenObjects' = 1..(Len(seenObjects) + 1)
            /\ seenObjects'[Len(seenObjects) + 1] = o
            /\ \A n \in 1..Len(seenObjects) : seenObjects'[n] = seenObjects[n]
        BY <1>0, <2>2, <4>1, AppendProperties, LenProperties
      <4> QED BY <1>2, <3>2, <4>2 DEF IdentityInv
    <3> QED BY <3>1, <3>2
  <2>5. /\ Ordinal(o, seenObjects') \in DOMAIN seenObjects'
        /\ seenObjects'[Ordinal(o, seenObjects')] = o
        /\ \A n \in DOMAIN seenObjects : n \in DOMAIN seenObjects' /\ seenObjects'[n] = seenObjects[n]
    BY <1>0, <2>2, OrdinalFacts
  <2>6. ASSUME NEW n \in 1..i
        PROVE  /\ frames'[n].ordinal \in DOMAIN seenObjects'
               /\ seenObjects'[frames'[n].ordinal] = frames'[n].object
    <3>1. CASE n = i
      BY <2>3, <2>5, <3>1
    <3>2. CASE n \in 1..(i - 1)
      BY <1>2, <2>3, <2>5, <3>2 DEF IdentityInv
    <3> QED BY <2>3, <3>1, <3>2
  <2> QED BY <2>3, <2>4, <2>6 DEF IdentityInv
<1>3. CASE kind \notin Identified
  BY <1>0, <1>3 DEF IdentityInv
<1> QED BY <1>1, <1>2, <1>3, FramesStep

LEMMA IdentityImplies ==
  ASSUME IdentityInv
  PROVE  IdentityIsPreserved
BY DEF IdentityInv, IdentityIsPreserved

\* What is known of the n-th frame.
FrameSays(n) ==
  /\ frames[n].step = scenario[n]
  /\ frames[n].seen = frames[n].at
       \/ (frames[n].step.op = "dispose" /\ kind \in LooksFirst /\ live)
  /\ frames[n].at <= version
  /\ frames[n].step.op = "dispose" => n = Len(frames) /\ disposed
  /\ n > 1 => frames[n - 1].at <= frames[n].at

FramesInv == \A n \in DOMAIN frames : FrameSays(n)

LEMMA DisposedStays ==
  ASSUME [Next]_vars, disposed = TRUE
  PROVE  disposed' = TRUE
BY DEF Next, vars, Validate, Mount, MountRejects, FirstFrame, FirstFrameFails, Observe, Change,
   Select, Complete, AliasRefused, StepRejects, FollowsDisposal, DisposeAfterLook, Disposing,
   DisposeReturns, DisposeBridge, LookRejects, DisposeRejects, LoopEnds, Settle, FinalDispose,
   FinalLookRejects, FinalDisposeRejects, flags

LEMMA FramesStepKeeps ==
  ASSUME ObserverAssumption, CaptureInv, CaptureInv', HandleInv, NormalizedInv, FramesInv, [Next]_vars
  PROVE  FramesInv'
<1>0. /\ UNCHANGED <<kind, scenario, live>> /\ version \in Nat /\ version' \in Nat
      /\ i \in Nat /\ frames \in Seq(Frame) /\ Len(frames) = i - 1 /\ DOMAIN frames = 1..(i - 1)
      /\ disposed \in BOOLEAN
  BY InputIsFixed, LenProperties DEF CaptureInv, EvidenceTypes, PlaceKnown, FlagTypes
<1>D. disposed => disposed'
  BY <1>0, DisposedStays
<1>1. CASE FramesLeft
  <2>1. ASSUME NEW n \in DOMAIN frames
        PROVE  FrameSays(n)'
    <3>1. FrameSays(n) /\ frames[n] \in Frame
      BY <1>0, <2>1, ElementOfSeq DEF FramesInv
    <3>2. frames[n].at \in Nat /\ version <= version' /\ frames' = frames
      BY <1>1, <3>1 DEF Frame, FramesLeft
    <3> QED BY <1>0, <1>D, <3>1, <3>2 DEF FrameSays
  <2> QED BY <1>1, <2>1 DEF FramesInv, FramesLeft
<1>2. CASE SomethingRecorded
  <2>1. PICK a \in Nat, s \in Nat, o \in Objects \cup {NoObject} : Recorded(a, s, o)
    BY <1>2 DEF SomethingRecorded
  <2>2. /\ frames'[i] = [step |-> scenario[i], at |-> a, seen |-> s, object |-> o,
                         ordinal |-> Ordinal(o, seenObjects')]
        /\ \A n \in 1..(i - 1) : frames'[n] = frames[n]
        /\ DOMAIN frames' = 1..i /\ Len(frames') = i
    BY <1>0, <2>1, RecordTypes DEF Recorded
  <2>3. ASSUME NEW n \in 1..(i - 1)
        PROVE  /\ FrameSays(n) /\ frames[n].at \in Nat
               /\ frames[n].step.op # "dispose"
    <3>1. FrameSays(n) /\ frames[n] \in Frame
      BY <1>0, ElementOfSeq DEF FramesInv
    <3> QED BY <1>0, <2>1, <3>1 DEF FrameSays, Recorded, Frame
  <2>4. ASSUME NEW n \in 1..(i - 1)
        PROVE  FrameSays(n)'
    <3>1. n - 1 \in 1..(i - 1) \/ n = 1
      BY <1>0
    <3>2. frames'[n] = frames[n] /\ (n > 1 => frames'[n - 1] = frames[n - 1])
      BY <2>2, <3>1
    <3>3. version <= a /\ a <= version'
      BY <2>1 DEF Recorded
    <3> QED BY <1>0, <2>3, <3>2, <3>3 DEF FrameSays
  <2>5. ASSUME NEW n \in Nat, n = i
        PROVE  FrameSays(n)'
    <3>1. /\ frames'[n].step = scenario[i] /\ frames'[n].at = a /\ frames'[n].seen = s
      BY <2>2, <2>5
    <3>2. i > 1 => frames'[i - 1] = frames[i - 1] /\ frames[i - 1].at <= version
                   /\ frames[i - 1].at \in Nat
      BY <1>0, <2>2, <2>3 DEF FrameSays
    <3> QED BY <1>0, <2>1, <2>2, <2>5, <3>1, <3>2 DEF Recorded, FrameSays
  <2>6. \A n \in DOMAIN frames' : FrameSays(n)'
    BY <1>0, <2>2, <2>4, <2>5
  <2> QED BY <2>6 DEF FramesInv
<1> QED BY <1>1, <1>2, FramesStep

(***************************************************************************)
(* Layer 4: the request handles of BG-H02.  A bound handle was handed out, *)
(* is bound once and was not yet spent; no handle is spent twice.          *)
(***************************************************************************)
RequestsInv ==
  /\ \A a \in Aliases : handles[a] <= selected
  /\ \A a, b \in Aliases : handles[a] # 0 /\ handles[a] = handles[b] => a = b
  /\ \A a \in Aliases, m \in DOMAIN completed : handles[a] # completed[m] \/ handles[a] = 0
  /\ \A m \in DOMAIN completed : completed[m] <= selected
  /\ \A m, n \in DOMAIN completed : completed[m] = completed[n] => m = n

Bind(a) ==
  /\ handles[a] = 0 /\ selected' = selected + 1
  /\ handles' = [handles EXCEPT ![a] = selected'] /\ completed' = completed

Spend(a) ==
  /\ handles[a] # 0 /\ selected' = selected
  /\ completed' = Append(completed, handles[a]) /\ handles' = [handles EXCEPT ![a] = 0]

LEMMA RequestsStep ==
  ASSUME CaptureInv, [Next]_vars
  PROVE  UNCHANGED requests \/ \E a \in Aliases : Bind(a) \/ Spend(a)
<1>1. \A op \in {"select", "complete"} : At(op) => scenario[i].alias \in Aliases
  <2>1. ASSUME NEW op \in {"select", "complete"}, At(op)
        PROVE  scenario[i].alias \in Aliases
    <3>1. scenario \in Seq(AnyStep) /\ i \in 1..Len(scenario) /\ scenario[i].op = op
      BY <2>1, LenProperties DEF At, CaptureInv, Released, PlaceKnown
    <3> QED BY <3>1 DEF CaptureInv, Released
  <2> QED BY <2>1
<1>2. CASE Select
  BY <1>1, <1>2 DEF Select, Bind
<1>3. CASE Complete
  BY <1>1, <1>3 DEF Complete, Spend
<1>4. CASE StepRejects
  <2>1. CASE scenario[i].op = "complete"
    BY <1>1, <1>4, <2>1 DEF StepRejects, At, Spend
  <2>2. CASE scenario[i].op # "complete"
    BY <1>4, <2>2 DEF StepRejects, requests
  <2> QED BY <2>1, <2>2
<1>5. CASE ~Select /\ ~Complete /\ ~StepRejects
  BY <1>5 DEF Next, vars, requests, Validate, Mount, MountRejects, FirstFrame, FirstFrameFails,
     Observe, Change, AliasRefused, FollowsDisposal, DisposeAfterLook, Disposing, DisposeReturns,
     DisposeBridge, LookRejects, DisposeRejects, LoopEnds, Settle, FinalDispose, FinalLookRejects,
     FinalDisposeRejects
<1> QED BY <1>2, <1>3, <1>4, <1>5

LEMMA RequestsStepKeeps ==
  ASSUME CaptureInv, RequestsInv, [Next]_vars
  PROVE  RequestsInv'
<1>0. handles \in [Aliases -> Nat] /\ selected \in Nat /\ completed \in Seq(Nat)
      /\ DOMAIN completed = 1..Len(completed) /\ Len(completed) \in Nat
      /\ \A m \in DOMAIN completed : completed[m] \in Nat
  BY LenProperties, ElementOfSeq DEF CaptureInv, RequestTypes
<1>1. CASE UNCHANGED requests
  BY <1>1 DEF requests, RequestsInv
<1>2. ASSUME NEW a \in Aliases, Bind(a)
      PROVE  RequestsInv'
  <2>1. /\ selected' = selected + 1 /\ completed' = completed
        /\ \A b \in Aliases : handles'[b] = IF b = a THEN selected + 1 ELSE handles[b]
    <3>1. /\ selected' = selected + 1 /\ completed' = completed
          /\ handles' = [handles EXCEPT ![a] = selected + 1]
      BY <1>2 DEF Bind
    <3>2. handles \in [Aliases -> Nat]
      BY <1>0
    <3> QED BY ONLY <3>1, <3>2
  <2> QED BY SMTT(30), <1>0, <2>1 DEF RequestsInv
<1>3. ASSUME NEW a \in Aliases, Spend(a)
      PROVE  RequestsInv'
  <2>1. /\ selected' = selected /\ handles[a] # 0 /\ handles[a] \in Nat
        /\ \A b \in Aliases : handles'[b] = IF b = a THEN 0 ELSE handles[b]
        /\ completed' = Append(completed, handles[a])
    BY <1>0, <1>3 DEF Spend
  <2>2. /\ DOMAIN completed' = 1..(Len(completed) + 1)
        /\ completed'[Len(completed) + 1] = handles[a]
        /\ \A m \in 1..Len(completed) : completed'[m] = completed[m]
    BY <1>0, <2>1, AppendProperties, LenProperties
  <2>3. \A m, n \in DOMAIN completed' : completed'[m] = completed'[n] => m = n
    BY <1>0, <2>1, <2>2 DEF RequestsInv
  <2>4. \A m \in DOMAIN completed' : completed'[m] <= selected'
    BY <1>0, <2>1, <2>2 DEF RequestsInv
  <2>5. \A b \in Aliases, m \in DOMAIN completed' : handles'[b] # completed'[m] \/ handles'[b] = 0
    BY <1>0, <2>1, <2>2 DEF RequestsInv
  <2>6. \A b \in Aliases : handles'[b] <= selected'
    BY <1>0, <2>1 DEF RequestsInv
  <2>7. \A b, c \in Aliases : handles'[b] # 0 /\ handles'[b] = handles'[c] => b = c
    BY <1>0, <2>1 DEF RequestsInv
  <2> QED BY <2>3, <2>4, <2>5, <2>6, <2>7 DEF RequestsInv
<1> QED BY <1>1, <1>2, <1>3, RequestsStep

LEMMA TranscriptImplies ==
  ASSUME CaptureInv, FramesInv, RequestsInv
  PROVE  FaithfulTranscript
<1> SUFFICES ASSUME phase = "returned"
             PROVE  /\ Len(frames) = Len(scenario)
                    /\ \A n \in DOMAIN frames :
                         /\ frames[n].step = scenario[n]
                         /\ frames[n].seen = frames[n].at
                              \/ (frames[n].step.op = "dispose" /\ kind \in LooksFirst /\ live)
                         /\ frames[n].step.op = "dispose" => n = Len(frames)
                         /\ n > 1 => frames[n - 1].at <= frames[n].at
                    /\ \A m, n \in DOMAIN completed :
                         completed[m] <= selected /\ (completed[m] = completed[n] => m = n)
  BY DEF FaithfulTranscript
<1>1. Len(frames) = Len(scenario)
  <2>1. Len(scenario) \in Nat /\ i = Len(scenario) + 1 /\ Len(frames) = i - 1
    BY LenProperties DEF CaptureInv, Released, PlaceKnown
  <2> QED BY <2>1
<1> QED BY <1>1 DEF FramesInv, FrameSays, RequestsInv

(***************************************************************************)
(* The theorems.                                                           *)
(***************************************************************************)
ObserverInv ==
  /\ CaptureInv /\ HandleInv /\ NormalizedInv
  /\ IdentityInv /\ FramesInv /\ RequestsInv

LEMMA ObserverInit ==
  ASSUME Init
  PROVE  ObserverInv
<1>1. CaptureInv
  BY ObserverAssumption, CaptureInit
<1>2. HandleInv /\ NormalizedInv
  BY DEF Init, HandleInv, Untouched, NormalizedInv
<1>3. DOMAIN frames = {} /\ DOMAIN seenObjects = {} /\ DOMAIN completed = {}
  BY DEF Init
<1>4. IdentityInv /\ FramesInv
  BY <1>3 DEF IdentityInv, FramesInv
<1>5. RequestsInv
  BY <1>3 DEF Init, RequestsInv
<1> QED BY <1>1, <1>2, <1>4, <1>5 DEF ObserverInv

\* Every capture keeps its types, the place of every layer, and what it knows of
\* the handle, the identities, the frames and the requests.
THEOREM ObserverCorrect == Spec => []ObserverInv
<1>1. ObserverInv /\ [Next]_vars => ObserverInv'
  <2> SUFFICES ASSUME ObserverInv, [Next]_vars
               PROVE  ObserverInv'
    OBVIOUS
  <2>1. CaptureInv'
    BY ObserverAssumption, CaptureStep DEF ObserverInv
  <2>2. HandleInv'
    BY <2>1, ObserverAssumption, HandleStep DEF ObserverInv
  <2>3. NormalizedInv' /\ IdentityInv' /\ FramesInv' /\ RequestsInv'
    BY <2>1, ObserverAssumption, NormalizedStep, IdentityStep, FramesStepKeeps, RequestsStepKeeps
       DEF ObserverInv
  <2> QED BY <2>1, <2>2, <2>3 DEF ObserverInv
<1>2. Init => ObserverInv
  BY ObserverInit
<1> QED BY <1>1, <1>2, PTL DEF Spec

\* The types of ObserverCapture.
THEOREM ObserverTypeCorrect == Spec => []TypeOK
<1>1. ObserverInv => TypeOK
  BY DEF ObserverInv, CaptureInv, Released, EvidenceTypes, RequestTypes, FlagTypes, PlaceKnown, TypeOK
<1> QED BY <1>1, ObserverCorrect, PTL

\* Whatever a candidate rejects or returns, its handle is disposed of exactly once
\* by a capture that returns, and attempted by one that throws, but for the paths
\* HandleReleased names (the try and finally blocks of the six observers).
THEOREM HandleCorrect == Spec => []HandleReleased
<1>1. ObserverInv => HandleReleased
  BY HandleImplies DEF ObserverInv
<1> QED BY <1>1, ObserverCorrect, PTL

\* Ordinals tell objects apart exactly as the candidate did, across a capture of
\* any length (the identity maps of dispatch-observer.ts and h05Frame).
THEOREM IdentityCorrect == Spec => []IdentityIsPreserved
<1>1. ObserverInv => IdentityIsPreserved
  BY IdentityImplies DEF ObserverInv
<1> QED BY <1>1, ObserverCorrect, PTL

\* A returned transcript says of every step what was shown when it ran, and every
\* completion spent a handle of its own, for scenarios of any length.
THEOREM TranscriptCorrect == Spec => []FaithfulTranscript
<1>1. ObserverInv => FaithfulTranscript
  BY TranscriptImplies DEF ObserverInv
<1> QED BY <1>1, ObserverCorrect, PTL
=============================================================================
