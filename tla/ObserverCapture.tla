---------------------------- MODULE ObserverCapture ----------------------------
(***************************************************************************)
(* One capture of an observer process: a neutral scenario applied to the   *)
(* public harness of a candidate (specialized-observers.ts,                *)
(* dispatch-observer.ts, d01-bridge.ts).                                   *)
(*                                                                         *)
(* The candidate behind the harness is not trusted.  Any call may reject   *)
(* or return something that is not JSON; what it returns may be a snapshot *)
(* or a live object that later calls change; and two calls may return the  *)
(* same object.  What must survive all this: the candidate's handle is     *)
(* released, the frames say what the harness showed, and where the public  *)
(* contract is about object identity the identity is kept.                 *)
(***************************************************************************)
EXTENDS Naturals, Sequences

CONSTANTS
  Aliases,   \* request aliases of H02 scenarios
  Objects,   \* identities of the objects a candidate returns
  MaxSteps,  \* bound on the steps of a scenario
  NoAlias,   \* the alias of every other step
  NoObject   \* what an observation without an identity exposes

ASSUME ObserverAssumption ==
  MaxSteps \in Nat /\ NoAlias \notin Aliases /\ NoObject \notin Objects

VARIABLES
  kind,       \* which observer
  scenario,   \* the released steps
  live,       \* does the candidate return live objects?
  phase,      \* where the capture is
  i,          \* the step it is at
  version,    \* the candidate's state
  frames,     \* the frames recorded so far
  handles,    \* the request handle bound to each alias, 0 for none
  selected,   \* how many handles were handed out
  completed,  \* the handles passed to complete, in order
  seenObjects,\* the objects that have an ordinal, in order of their first frame
  disposed, attempted, \* the capture's own flags
  disposals,  \* calls of the harness's dispose
  rejected,   \* the harness call that rejected last, or "none"
  refusedDispose, \* did a dispose reject?
  held,       \* the disposal observation: the version it showed, whether it is JSON
  failed      \* has an error been thrown in the loop?

flags == <<disposed, attempted, disposals, rejected, refusedDispose>>
requests == <<handles, selected, completed>>
evidence == <<version, frames, seenObjects, held>>
vars == <<kind, scenario, live, phase, i, evidence, requests, flags, failed>>

\* "h03" is the dispatch observer on BG-H03, "dispatch" on its other fixtures.
Kinds == {"d01", "d03", "h01", "h02", "h03", "h05", "dispatch"}
Identified == {"h03", "h05"}        \* identity is part of the observation
Dispatching == {"h03", "dispatch"}
MountsInStep == {"d03", "h01"}      \* the first step constructs or mounts
LooksFirst == {"h01", "h02"}        \* observe() before a disposal

\* The steps each observer accepts, by what they do to the harness; "malformed"
\* is any step its normalization refuses.
Plain(operations) == [op : operations \cup {"malformed"}, alias : {NoAlias}]

D03Steps == Plain({"first", "observe", "change"})
H01Steps == Plain({"first", "observe", "change", "dispose"})
H02Steps ==
  Plain({"observe", "change", "dispose"})
    \cup [op : {"select", "complete"}, alias : Aliases]
H05Steps == Plain({"observe", "change", "dispose"})
D01Steps == Plain({"observe", "change", "dispose"})
DispatchSteps == Plain({"observe", "change", "dispose"})

Steps(k) ==
  CASE k = "d01" -> D01Steps
    [] k = "d03" -> D03Steps
    [] k = "h01" -> H01Steps
    [] k = "h02" -> H02Steps
    [] k = "h05" -> H05Steps
    [] k \in Dispatching -> DispatchSteps
Scenarios(k) == UNION {[1..n -> Steps(k)] : n \in 1..MaxSteps}

Init ==
  /\ kind \in Kinds
  /\ scenario \in Scenarios(kind)
  /\ live \in BOOLEAN
  /\ phase = "validating" /\ i = 1
  /\ version = 0 /\ frames = <<>> /\ seenObjects = <<>>
  /\ held = [seen |-> 0, json |-> TRUE]
  /\ handles = [a \in Aliases |-> 0] /\ selected = 0 /\ completed = <<>>
  /\ disposed = FALSE /\ attempted = FALSE /\ disposals = 0
  /\ rejected = "none" /\ refusedDispose = FALSE
  /\ failed = FALSE

(***************************************************************************)
(* Before the handle exists.                                               *)
(***************************************************************************)
Normalized ==
  /\ \A n \in DOMAIN scenario : scenario[n].op # "malformed"
  /\ kind \in MountsInStep =>
       \A n \in DOMAIN scenario : scenario[n].op = "first" <=> n = 1
  /\ kind = "d01" =>
       \A n \in DOMAIN scenario : scenario[n].op = "dispose" => n = Len(scenario)

\* Every step is normalized before any candidate work.
Validate ==
  /\ phase = "validating"
  /\ phase' = IF Normalized THEN "mounting" ELSE "thrown"
  /\ UNCHANGED <<kind, scenario, live, i, evidence, requests, flags, failed>>

Mount ==
  /\ phase = "mounting"
  /\ phase' = IF kind \in MountsInStep THEN "first" ELSE "loop"
  /\ UNCHANGED <<kind, scenario, live, i, evidence, requests, flags, failed>>

MountRejects ==
  /\ phase = "mounting"
  /\ phase' = "thrown" /\ rejected' = "mount"
  /\ UNCHANGED <<kind, scenario, live, i, evidence, requests, disposed, attempted,
                 disposals, refusedDispose, failed>>

(***************************************************************************)
(* Frames.                                                                 *)
(***************************************************************************)
\* Mutant: the identities seen do not outlive a frame.
OrdinalsForgetful(object) == IF object = NoObject THEN <<>> ELSE <<object>>

\* The objects that have an ordinal once object is recorded; an object's
\* ordinal is its place.
Ordinals(object) ==
  IF object = NoObject \/ \E n \in DOMAIN seenObjects : seenObjects[n] = object
    THEN seenObjects
    ELSE Append(seenObjects, object)

Ordinal(object, known) ==
  IF object = NoObject THEN 0 ELSE CHOOSE n \in DOMAIN known : known[n] = object

Exposed == IF kind \in Identified THEN Objects ELSE {NoObject}

\* The frame of the current step: it was shown `at` and reads `seen`.
Record(at, seen, object) ==
  /\ seenObjects' = Ordinals(object)
  /\ frames' = Append(frames,
       [step |-> scenario[i], at |-> at, seen |-> seen, object |-> object,
        ordinal |-> Ordinal(object, Ordinals(object))])
  /\ i' = i + 1

\* The step threw: on to the finally block.
Abort ==
  /\ failed' = TRUE /\ phase' = "finally"
  /\ UNCHANGED <<i, frames, seenObjects>>

\* The first frame, taken outside the try block: a failure here skips finally.
FirstFrame ==
  /\ phase = "first"
  /\ Record(version, version, NoObject)
  /\ phase' = "loop"
  /\ UNCHANGED <<kind, scenario, live, version, held, requests, flags, failed>>

FirstFrameFails ==
  /\ phase = "first"
  /\ phase' = "thrown" /\ rejected' = "observe"
  /\ UNCHANGED <<kind, scenario, live, i, evidence, requests, disposed, attempted,
                 disposals, refusedDispose, failed>>

(***************************************************************************)
(* The steps.                                                              *)
(***************************************************************************)
\* Mutant: a step after the disposal is carried out.
AtAnyTime(op) == phase = "loop" /\ i <= Len(scenario) /\ scenario[i].op = op

At(op) == phase = "loop" /\ i <= Len(scenario) /\ ~disposed /\ scenario[i].op = op

\* What the harness returned is recorded, unless it is not JSON or lacks the
\* object whose identity is observed.
Shown(at) ==
  \/ phase' = phase /\ failed' = failed /\ \E o \in Exposed : Record(at, at, o)
  \/ Abort

Observe ==
  /\ At("observe")
  /\ Shown(version)
  /\ UNCHANGED <<kind, scenario, live, version, held, requests, flags>>

\* dispatch, rerender, reset, a write, an addition.
Change ==
  /\ At("change")
  /\ version' = version + 1
  /\ Shown(version')
  /\ UNCHANGED <<kind, scenario, live, held, requests, flags>>

Select ==
  /\ At("select")
  /\ handles[scenario[i].alias] = 0
  /\ version' = version + 1 /\ selected' = selected + 1
  /\ handles' = [handles EXCEPT ![scenario[i].alias] = selected']
  /\ Shown(version')
  /\ UNCHANGED <<kind, scenario, live, held, completed, flags>>

\* The alias is unbound before the handle is passed on, so that a rejected
\* completion is not repeated.
Complete ==
  /\ At("complete")
  /\ handles[scenario[i].alias] # 0
  /\ version' = version + 1
  /\ completed' = Append(completed, handles[scenario[i].alias])
  /\ handles' = [handles EXCEPT ![scenario[i].alias] = 0]
  /\ Shown(version')
  /\ UNCHANGED <<kind, scenario, live, held, selected, flags>>

\* Selecting a bound alias, or completing an unbound one.
AliasRefused ==
  /\ \/ At("select") /\ handles[scenario[i].alias] # 0
     \/ At("complete") /\ handles[scenario[i].alias] = 0
  /\ Abort
  /\ UNCHANGED <<kind, scenario, live, version, held, requests, flags>>

\* The harness call of a step rejects; a completion has spent its handle.
StepRejects ==
  /\ At("observe") \/ At("change") \/ At("select") \/ At("complete")
  /\ scenario[i].op = "select" => handles[scenario[i].alias] = 0
  /\ scenario[i].op = "complete" => handles[scenario[i].alias] # 0
  /\ rejected' = scenario[i].op
  /\ IF scenario[i].op = "complete"
       THEN /\ completed' = Append(completed, handles[scenario[i].alias])
            /\ handles' = [handles EXCEPT ![scenario[i].alias] = 0]
       ELSE UNCHANGED <<completed, handles>>
  /\ Abort
  /\ UNCHANGED <<kind, scenario, live, version, held, selected, disposed, attempted,
                 disposals, refusedDispose>>

FollowsDisposal ==
  /\ phase = "loop" /\ i <= Len(scenario) /\ disposed
  /\ Abort
  /\ UNCHANGED <<kind, scenario, live, version, held, requests, flags>>

\* The harness disposes in a dispose step; the step's own frame may still fail.
Disposing(seen) ==
  /\ disposed' = TRUE /\ attempted' = TRUE /\ disposals' = disposals + 1
  /\ version' = version + 1
  /\ \E json \in BOOLEAN : held' = [seen |-> seen, json |-> json]
  /\ UNCHANGED <<kind, scenario, live, requests, rejected, refusedDispose>>

\* H01 and H02 observe first, and read what they saw only after the disposal.
DisposeAfterLook ==
  /\ At("dispose") /\ kind \in LooksFirst
  /\ LET seen == IF live THEN version + 1 ELSE version
     IN /\ Disposing(seen)
        /\ IF held'.json
             THEN Record(version, seen, NoObject) /\ UNCHANGED <<phase, failed>>
             ELSE Abort

\* H05 and the dispatch observer record what dispose returns.
DisposeReturns ==
  /\ At("dispose") /\ kind \in {"h05"} \cup Dispatching
  /\ Disposing(version + 1)
  /\ IF held'.json
       THEN /\ \E o \in Exposed : Record(version + 1, version + 1, o)
            /\ UNCHANGED <<phase, failed>>
       ELSE Abort

\* The D01 bridge records null.
DisposeBridge ==
  /\ At("dispose") /\ kind = "d01"
  /\ Disposing(version + 1) /\ held'.json
  /\ Record(version + 1, version + 1, NoObject)
  /\ UNCHANGED <<phase, failed>>

\* The observation before it rejects: nothing is attempted yet.
LookRejects ==
  /\ At("dispose") /\ kind \in LooksFirst
  /\ rejected' = "observe"
  /\ Abort
  /\ UNCHANGED <<kind, scenario, live, version, held, requests, disposed, attempted,
                 disposals, refusedDispose>>

\* The dispose of the step rejects.  Only the specialized observers remember
\* that they tried.
DisposeRejects ==
  /\ At("dispose")
  /\ attempted' = TRUE /\ disposals' = disposals + 1
  /\ rejected' = "dispose" /\ refusedDispose' = TRUE
  /\ Abort
  /\ UNCHANGED <<kind, scenario, live, version, held, requests, disposed>>

LoopEnds ==
  /\ phase = "loop" /\ i > Len(scenario)
  /\ phase' = "finally"
  /\ UNCHANGED <<kind, scenario, live, i, evidence, requests, flags, failed>>

(***************************************************************************)
(* The finally block and the transcript.                                   *)
(***************************************************************************)
\* Mutant: the specialized observers forget that a disposal was attempted.
OwesForgetful == kind # "d03" /\ ~disposed

Owes ==
  /\ kind # "d03" /\ ~disposed
  /\ kind \in {"h01", "h02", "h05"} => ~attempted

\* Nothing is owed: the error goes on, or the transcript is built, in which a
\* disposal observation that is not JSON throws.
Settle ==
  /\ phase = "finally" /\ ~Owes
  /\ phase' = IF failed \/ ~held.json THEN "thrown" ELSE "returned"
  /\ UNCHANGED <<kind, scenario, live, i, evidence, requests, flags, failed>>

FinalDispose ==
  /\ phase = "finally" /\ Owes
  /\ disposed' = TRUE /\ attempted' = TRUE /\ disposals' = disposals + 1
  /\ version' = version + 1
  /\ \E json \in BOOLEAN :
       held' = [seen |-> IF kind \in LooksFirst /\ ~live THEN version ELSE version',
                json |-> json \/ kind = "d01"]
  /\ UNCHANGED <<kind, scenario, live, phase, i, frames, seenObjects, requests,
                 rejected, refusedDispose, failed>>

\* The observation before the final disposal rejects: the handle stays.
FinalLookRejects ==
  /\ phase = "finally" /\ Owes /\ kind \in LooksFirst
  /\ rejected' = "observe" /\ phase' = "thrown"
  /\ UNCHANGED <<kind, scenario, live, i, evidence, requests, disposed, attempted,
                 disposals, refusedDispose, failed>>

FinalDisposeRejects ==
  /\ phase = "finally" /\ Owes
  /\ attempted' = TRUE /\ disposals' = disposals + 1
  /\ rejected' = "dispose" /\ refusedDispose' = TRUE /\ phase' = "thrown"
  /\ UNCHANGED <<kind, scenario, live, i, evidence, requests, disposed, failed>>

Next ==
  \/ Validate \/ Mount \/ MountRejects \/ FirstFrame \/ FirstFrameFails
  \/ Observe \/ Change \/ Select \/ Complete \/ AliasRefused \/ StepRejects
  \/ FollowsDisposal \/ DisposeAfterLook \/ DisposeReturns \/ DisposeBridge
  \/ LookRejects \/ DisposeRejects \/ LoopEnds
  \/ Settle \/ FinalDispose \/ FinalLookRejects \/ FinalDisposeRejects

Spec == Init /\ [][Next]_vars
-----------------------------------------------------------------------------
(***************************************************************************)
(* Properties.                                                             *)
(***************************************************************************)
Settled == {"returned", "thrown"}

\* Types.
TypeOK ==
  /\ kind \in Kinds /\ live \in BOOLEAN /\ failed \in BOOLEAN
  /\ phase \in {"validating", "mounting", "first", "loop", "finally"} \cup Settled
  /\ i \in 1..(Len(scenario) + 1)
  /\ version \in Nat /\ selected \in Nat /\ disposals \in Nat
  /\ Len(frames) = i - 1
  /\ handles \in [Aliases -> Nat]
  /\ disposed \in BOOLEAN /\ attempted \in BOOLEAN /\ refusedDispose \in BOOLEAN

\* A returned transcript has one frame for each released step, in order, each
\* reading what the harness showed when that step ran, none after the disposal,
\* and every completion spent a handle of its own.  The one late reading is the
\* disposal frame of H01 and H02 on a candidate that returns live objects.
FaithfulTranscript ==
  phase = "returned" =>
    /\ Len(frames) = Len(scenario)
    /\ \A n \in DOMAIN frames :
         /\ frames[n].step = scenario[n]
         /\ frames[n].seen = frames[n].at
              \/ (frames[n].step.op = "dispose" /\ kind \in LooksFirst /\ live)
         /\ frames[n].step.op = "dispose" => n = Len(frames)
         /\ n > 1 => frames[n - 1].at <= frames[n].at
    /\ \A m, n \in DOMAIN completed :
         completed[m] <= selected /\ (completed[m] = completed[n] => m = n)

\* Once the harness is mounted, a capture that returns has disposed of it exactly
\* once, and one that throws has tried to: it tried twice only after a refusal
\* that the dispatch observer and the D01 bridge do not remember; it did not try
\* only where H01's first observation failed, or the observation H01 and H02 take
\* before they dispose.  (BG-D03's planner has nothing to dispose of.)
HandleReleased ==
  phase \in Settled /\ kind # "d03" /\ Normalized /\ rejected # "mount" =>
    /\ disposals <= 2
    /\ phase = "returned" => disposals = 1 /\ disposed
    /\ disposals = 2 => kind \in Dispatching \cup {"d01"} /\ refusedDispose
    /\ disposals = 0 => kind \in LooksFirst /\ rejected = "observe"

\* For the two contracts about identity, two frames have the same ordinal exactly
\* when the candidate returned the same object, across the whole capture.
IdentityIsPreserved ==
  kind \in Identified =>
    \A m, n \in DOMAIN frames :
      frames[m].ordinal = frames[n].ordinal <=> frames[m].object = frames[n].object
=============================================================================
