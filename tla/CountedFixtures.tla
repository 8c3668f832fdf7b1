--------------------------- MODULE CountedFixtures ---------------------------
(***************************************************************************)
(* The three fixtures that keep counts: the museum board (BG-D01), the     *)
(* parcel dispatch board (BG-D02) and the tray planner (BG-D03).           *)
(*                                                                         *)
(* A fixture is given by what its candidates do to a state at one settled  *)
(* action, by what the harness reads of that state, by the scripts of its  *)
(* visible assertions and by the oracle over the frames of its canonical   *)
(* script.  An action is a tuple whose first member is its type; a frame   *)
(* is what the harness reads after an action, the first one at the mount.  *)
(* Selections are sets: both boards keep them in the order of the ids.     *)
(***************************************************************************)
EXTENDS Integers, Sequences, SequencesExt

CONSTANTS CardCount,  \* cards of the museum board (300 in the code)
          LaneCount   \* lanes of the dispatch board (6 in the code)

ASSUME CountsAssumption == CardCount \in Nat \ {0} /\ LaneCount \in Nat \ {0}

Cards == 1 .. CardCount
Lanes == 1 .. LaneCount
everyThird == {c \in Cards : c % 3 = 0}
evenLanes == {l \in Lanes : l % 2 = 0}

Zeros(ids) == [id \in ids |-> 0]
Marked(ids, marked, v, w) == [id \in ids |-> IF id \in marked THEN v ELSE w]

\* A delta on the selected counts, never below zero (the same in D01 and D02).
adjustSelected(counts, selected, delta) ==
  [id \in DOMAIN counts |->
     IF id \notin selected THEN counts[id]
     ELSE IF counts[id] + delta < 0 THEN 0 ELSE counts[id] + delta]

-----------------------------------------------------------------------------
(* BG-D01: a board of cards with a selection and a bulk step. *)

D01Actions == {<<"select-all">>, <<"select-every-third">>, <<"reset">>, <<"remove">>}
              \cup {<<"set-step", n>> : n \in {0, 1, 3}}
              \cup {<<"allocate", m>> : m \in {1, 2}}

D01Mount == [alloc |-> Zeros(Cards), selected |-> {}, step |-> 1, log |-> <<<<"mount">>>>]

\* actionLabel throws before anything is written when the step is not positive.
D01Rejects(a) == a[1] = "set-step" /\ a[2] <= 0

D01Label(a, step) ==
  IF a[1] \in {"allocate", "remove"} THEN Append(a, step) ELSE a

\* What the three components do alike: every action but the allocation.
D01Others(s, a) ==
  CASE a[1] = "select-all"         -> [s EXCEPT !.selected = Cards]
    [] a[1] = "select-every-third" -> [s EXCEPT !.selected = everyThird]
    [] a[1] = "set-step"           -> [s EXCEPT !.step = a[2]]
    [] a[1] = "remove"             -> [s EXCEPT !.alloc = adjustSelected(@, s.selected, -s.step)]
    [] a[1] = "reset"              -> [D01Mount EXCEPT !.log = s.log]

\* The legacy board queues one updater per request, each over the latest state.
D01Legacy(s, a) ==
  IF a[1] # "allocate" THEN D01Others(s, a)
  ELSE LET update(latest) == adjustSelected(latest, s.selected, s.step)
       IN  [s EXCEPT !.alloc = IF a[2] = 2 THEN update(update(@)) ELSE update(@)]

\* Candidate A reads the signal again at every round of its loop.
D01Preserving(s, a) ==
  IF a[1] # "allocate" THEN D01Others(s, a)
  ELSE LET once == adjustSelected(s.alloc, s.selected, s.step)
       IN  [s EXCEPT !.alloc = IF a[2] = 1 THEN once
                               ELSE adjustSelected(once, s.selected, s.step)]

\* Candidate B: every round starts from the snapshot taken before the loop.
D01FalseGreen(s, a) ==
  IF a[1] # "allocate" THEN D01Others(s, a)
  ELSE [s EXCEPT !.alloc = adjustSelected(s.alloc, s.selected, s.step)]

D01Effect(c, s, a) ==
  CASE c = "legacy"      -> D01Legacy(s, a)
    [] c = "preserving"  -> D01Preserving(s, a)
    [] c = "false_green" -> D01FalseGreen(s, a)

\* One settled dispatch: the label first, then the effect, then the log.
D01Step(c, s, a) ==
  IF D01Rejects(a) THEN s
  ELSE [D01Effect(c, s, a) EXCEPT !.log = Append(@, D01Label(a, s.step))]

D01Visible ==
  << <<>>,
     <<<<"select-all">>>>,
     <<<<"select-every-third">>, <<"allocate", 1>>>>,
     <<<<"select-all">>, <<"allocate", 1>>, <<"set-step", 3>>, <<"remove">>>>,
     <<<<"select-all">>, <<"allocate", 1>>, <<"set-step", 3>>, <<"reset">>>> >>

D01Holds(k, frames) ==
  LET value == Last(frames)
  IN  CASE k = 1 -> value.alloc = Zeros(Cards) /\ value.step = 1 /\ value.selected = {}
        [] k = 2 -> value.selected = Cards
        [] k = 3 -> value.alloc = Marked(Cards, everyThird, 1, 0)
        [] k = 4 -> frames[3].alloc = frames[4].alloc /\ value.alloc = Zeros(Cards)
        [] k = 5 -> value.alloc = Zeros(Cards) /\ value.step = 1 /\ value.selected = {}

D01Canonical ==
  <<<<"select-all">>, <<"allocate", 2>>, <<"set-step", 3>>, <<"allocate", 2>>,
    <<"select-every-third">>, <<"remove">>, <<"reset">>, <<"reset">>>>

D01Log ==
  <<<<"mount">>, <<"select-all">>, <<"allocate", 2, 1>>, <<"set-step", 3>>, <<"allocate", 2, 3>>,
    <<"select-every-third">>, <<"remove", 3>>, <<"reset">>, <<"reset">>>>

D01Expected ==
  LET all(v) == [c \in Cards |-> v]
  IN  << <<all(0), {}, 1>>, <<all(0), Cards, 1>>, <<all(2), Cards, 1>>, <<all(2), Cards, 3>>,
         <<all(8), Cards, 3>>, <<all(8), everyThird, 3>>,
         <<Marked(Cards, everyThird, 5, 8), everyThird, 3>>, <<all(0), {}, 1>>, <<all(0), {}, 1>> >>

\* Mutant: an oracle that looks at the settled end of the script only.
D01OracleAtEnd(frames) ==
  /\ Len(frames) = Len(D01Expected)
  /\ <<Last(frames).alloc, Last(frames).selected, Last(frames).step>> = Last(D01Expected)

D01Oracle(frames) ==
  /\ Len(frames) = Len(D01Expected)
  /\ \A i \in DOMAIN frames :
       /\ <<frames[i].alloc, frames[i].selected, frames[i].step>> = D01Expected[i]
       /\ frames[i].log = SubSeq(D01Log, 1, i)

-----------------------------------------------------------------------------
(* BG-D02: parcels queued on lanes and flushed. *)

D02Actions == {<<"select-all">>, <<"select-even">>, <<"flush">>, <<"reset">>}
              \cup {<<"set-unit", n>> : n \in {0, 1, 3}}
              \cup {<<"queue", m>> : m \in {1, 2}}

D02Mount == [pending |-> Zeros(Lanes), dispatched |-> Zeros(Lanes), selected |-> {},
             unit |-> 1, log |-> <<<<"mount">>>>]

D02Rejects(a) == a[1] = "set-unit" /\ a[2] <= 0

D02Label(a, unit) == IF a[1] = "queue" THEN Append(a, unit) ELSE a

D02Flush(s) ==
  [s EXCEPT !.dispatched = [l \in Lanes |-> IF l \in s.selected THEN @[l] + s.pending[l] ELSE @[l]],
            !.pending = [l \in Lanes |-> IF l \in s.selected THEN 0 ELSE @[l]]]

D02Others(s, a) ==
  CASE a[1] = "select-all"  -> [s EXCEPT !.selected = Lanes]
    [] a[1] = "select-even" -> [s EXCEPT !.selected = evenLanes]
    [] a[1] = "set-unit"    -> [s EXCEPT !.unit = a[2]]
    [] a[1] = "flush"       -> D02Flush(s)
    [] a[1] = "reset"       -> [D02Mount EXCEPT !.log = s.log]

\* Every queued entry accumulates onto the pending counts of the one before it.
D02Preserving(s, a) ==
  IF a[1] # "queue" THEN D02Others(s, a)
  ELSE LET once == adjustSelected(s.pending, s.selected, s.unit)
       IN  [s EXCEPT !.pending = IF a[2] = 1 THEN once
                                 ELSE adjustSelected(once, s.selected, s.unit)]

\* Every queued entry derives from the counts before the event.
D02FalseGreen(s, a) ==
  IF a[1] # "queue" THEN D02Others(s, a)
  ELSE [s EXCEPT !.pending = adjustSelected(s.pending, s.selected, s.unit)]

D02Effect(c, s, a) ==
  IF c = "preserving" THEN D02Preserving(s, a) ELSE D02FalseGreen(s, a)

D02Step(c, s, a) ==
  IF D02Rejects(a) THEN s
  ELSE [D02Effect(c, s, a) EXCEPT !.log = Append(@, D02Label(a, s.unit))]

D02Visible ==
  << <<>>,
     <<<<"select-all">>, <<"select-even">>>>,
     <<<<"select-even">>, <<"queue", 1>>>>,
     <<<<"select-all">>, <<"queue", 1>>, <<"set-unit", 3>>, <<"select-even">>, <<"flush">>>>,
     <<<<"select-all">>, <<"queue", 1>>, <<"flush">>, <<"set-unit", 3>>, <<"reset">>>> >>

D02Holds(k, frames) ==
  LET value == Last(frames)
      restored == /\ value.pending = Zeros(Lanes)
                  /\ value.dispatched = Zeros(Lanes)
                  /\ value.unit = 1
                  /\ value.selected = {}
  IN  CASE k \in {1, 5} -> restored
        [] k = 2 -> value.selected = evenLanes
        [] k = 3 -> value.pending = Marked(Lanes, evenLanes, 1, 0)
        [] k = 4 -> /\ value.unit = 3
                    /\ value.pending = Marked(Lanes, evenLanes, 0, 1)
                    /\ value.dispatched = Marked(Lanes, evenLanes, 1, 0)

D02Canonical ==
  <<<<"select-all">>, <<"queue", 2>>, <<"flush">>, <<"set-unit", 3>>, <<"queue", 2>>,
    <<"select-even">>, <<"flush">>, <<"reset">>, <<"reset">>>>

D02Log ==
  <<<<"mount">>, <<"select-all">>, <<"queue", 2, 1>>, <<"flush">>, <<"set-unit", 3>>,
    <<"queue", 2, 3>>, <<"select-even">>, <<"flush">>, <<"reset">>, <<"reset">>>>

D02Expected ==
  LET all(v) == [l \in Lanes |-> v]
  IN  << <<all(0), all(0), {}, 1>>, <<all(0), all(0), Lanes, 1>>, <<all(2), all(0), Lanes, 1>>,
         <<all(0), all(2), Lanes, 1>>, <<all(0), all(2), Lanes, 3>>, <<all(6), all(2), Lanes, 3>>,
         <<all(6), all(2), evenLanes, 3>>,
         <<Marked(Lanes, evenLanes, 0, 6), Marked(Lanes, evenLanes, 8, 2), evenLanes, 3>>,
         <<all(0), all(0), {}, 1>>, <<all(0), all(0), {}, 1>> >>

D02Oracle(frames) ==
  /\ Len(frames) = Len(D02Expected)
  /\ \A i \in DOMAIN frames :
       /\ <<frames[i].pending, frames[i].dispatched, frames[i].selected, frames[i].unit>>
            = D02Expected[i]
       /\ frames[i].log = SubSeq(D02Log, 1, i)

-----------------------------------------------------------------------------
(* BG-D03: packets of seed varieties planned on a tray.  The last result of *)
(* an operation is part of the state, "none" before the first one.  The     *)
(* catalogues of the visible test and of the oracle are taken together.     *)

Varieties == {"basil", "marigold", "radish"}
cellsPerPacket == [basil |-> 2, marigold |-> 3, radish |-> 3]
Capacity == 8

Planned(id, count) == [varietyId |-> id, packetCount |-> count]

D03Actions == {<<"add", "basil">>, <<"add", "marigold">>, <<"add", "unknown">>,
               <<"remove", "basil">>, <<"remove", "marigold">>, <<"reset">>}
              \cup {<<"setPacketCount", id, n>> : id \in {"basil", "marigold"}, n \in {0, 1, 3}}

\* total is the writable duplicate that only candidate B has.
D03Mount == [selected |-> <<>>, total |-> 0, result |-> "none"]

\* A variety is planned at most once: add refuses one that is.
PlaceOf(s, id) == CHOOSE i \in DOMAIN s.selected : s.selected[i].varietyId = id

IsPlanned(s, id) == \E i \in DOMAIN s.selected : s.selected[i].varietyId = id

D03Applies(s, a) ==
  CASE a[1] = "add"            -> a[2] \in Varieties /\ ~IsPlanned(s, a[2])
    [] a[1] = "setPacketCount" -> a[3] > 0 /\ IsPlanned(s, a[2])
    [] a[1] = "remove"         -> IsPlanned(s, a[2])
    [] a[1] = "reset"          -> TRUE

\* The selection after an operation that applies; its order survives.
D03Selected(s, a) ==
  CASE a[1] = "add" -> Append(s.selected, Planned(a[2], 1))
    [] a[1] = "setPacketCount" ->
         [i \in DOMAIN s.selected |->
            IF s.selected[i].varietyId = a[2] THEN Planned(a[2], a[3]) ELSE s.selected[i]]
    [] a[1] = "remove" -> RemoveAt(s.selected, PlaceOf(s, a[2]))
    [] a[1] = "reset"  -> <<>>

\* Candidate A writes its one source; the totals follow from it.
D03Preserving(s, a) ==
  IF ~D03Applies(s, a) THEN [s EXCEPT !.result = "false"]
  ELSE [s EXCEPT !.selected = D03Selected(s, a),
                 !.result = IF a[1] = "reset" THEN @ ELSE "true"]

PacketCountOf(s, id) == s.selected[PlaceOf(s, id)].packetCount

\* Candidate B also keeps the duplicate, but not in setPacketCount.
D03FalseGreen(s, a) ==
  LET t == D03Preserving(s, a)
  IN  IF ~D03Applies(s, a) THEN t
      ELSE CASE a[1] = "add"            -> [t EXCEPT !.total = @ + cellsPerPacket[a[2]]]
             [] a[1] = "setPacketCount" -> t
             [] a[1] = "remove"         -> [t EXCEPT !.total = @ - cellsPerPacket[a[2]] * PacketCountOf(s, a[2])]
             [] a[1] = "reset"          -> [t EXCEPT !.total = 0]

D03Step(c, s, a) ==
  IF c = "preserving" THEN D03Preserving(s, a) ELSE D03FalseGreen(s, a)

CellsPlanned(selected) ==
  FoldSeq(LAMBDA p, cells : cells + cellsPerPacket[p.varietyId] * p.packetCount, 0, selected)

\* The snapshot: A computes the occupied cells, B reads its duplicate.
D03Observe(c, s) ==
  LET occupied == IF c = "preserving" THEN CellsPlanned(s.selected) ELSE s.total
  IN  [selected |-> s.selected, occupied |-> occupied, remaining |-> Capacity - occupied,
       over |-> Capacity - occupied < 0, result |-> s.result]

D03Visible ==
  << <<>>,
     <<<<"add", "basil">>, <<"setPacketCount", "basil", 3>>, <<"add", "marigold">>,
       <<"remove", "basil">>, <<"reset">>, <<"add", "unknown">>,
       <<"setPacketCount", "marigold", 0>>, <<"remove", "marigold">>>> >>

D03Empty(value) ==
  value.selected = <<>> /\ value.occupied = 0 /\ value.remaining = Capacity /\ ~value.over

D03Holds(k, frames) ==
  CASE k = 1 -> D03Empty(frames[1])
    [] k = 2 -> /\ frames[2].selected = <<Planned("basil", 1)>>
                /\ frames[3].selected = <<Planned("basil", 3)>>
                /\ frames[5].selected = <<Planned("marigold", 1)>>
                /\ D03Empty(frames[6])
                /\ [i \in 1 .. 8 |-> frames[i + 1].result]
                     = <<"true", "true", "true", "true", "true", "false", "false", "false">>

D03Canonical == <<<<"add", "radish">>, <<"setPacketCount", "radish", 3>>>>

\* The derived values the oracle asserts, of a tray over its capacity.
D03Derived(value) ==
  value = [selected |-> <<Planned("radish", 3)>>, occupied |-> 9, remaining |-> -1,
           over |-> TRUE, result |-> "true"]

\* The evaluator replays the frames of the transcript through that assertion.
D03Oracle(frames) ==
  Len(frames) = 3 /\ frames[2].result = "true" /\ D03Derived(frames[3])
=============================================================================
