---------------------------- MODULE SourceFixtures ----------------------------
(***************************************************************************)
(* The four fixtures whose candidate follows something outside itself: a   *)
(* bulletin source it subscribes to (BG-D04), requests that complete in an *)
(* order it does not choose (BG-H02), a store that two readouts share      *)
(* (BG-H05) and a save that may be refused (BG-H06).  They are given like  *)
(* those of CountedFixtures.                                               *)
(***************************************************************************)
EXTENDS Integers, Sequences, SequencesExt

CONSTANT MaxRequests  \* bound: the requests of a free BG-H02 trial; its script makes three

ASSUME RequestsAssumption == MaxRequests \in Nat /\ MaxRequests >= 3

-----------------------------------------------------------------------------
(* BG-D04: a panel shows the last bulletin of the channel it has selected. *)

Channels == {"harbor", "orchard"}
NoBulletin == <<>>

D04Actions == {<<"switch", ch>> : ch \in Channels} \cup {<<"reset">>, <<"dispose">>}
              \cup {<<"publish", ch, v>> : ch \in Channels, v \in {-1, 2}}

\* The listeners of each channel; the effect of the mount adds the first one.
D04Mount == [channel |-> "harbor", bulletin |-> NoBulletin, mounted |-> TRUE,
             listeners |-> [ch \in Channels |-> IF ch = "harbor" THEN 1 ELSE 0]]

\* A negative value throws before any listener is told; a listener of a channel
\* shows that channel's bulletin whatever the selected channel is by then.
D04Publish(s, ch, v) ==
  IF v < 0 \/ s.listeners[ch] = 0 THEN s ELSE [s EXCEPT !.bulletin = <<ch, v>>]

\* The effect runs again when the channel changes: A's cleanup removes the old
\* listener before the new one is added.
D04Preserving(s, ch) ==
  [s EXCEPT !.channel = ch, !.bulletin = NoBulletin,
            !.listeners = [c \in Channels |-> @[c] + (IF c = ch THEN 1 ELSE 0)
                                                   - (IF c = s.channel THEN 1 ELSE 0)]]

\* B's effect returns no cleanup.
D04FalseGreen(s, ch) ==
  [s EXCEPT !.channel = ch, !.bulletin = NoBulletin,
            !.listeners[ch] = @ + (IF ch = s.channel THEN 0 ELSE 1)]

D04Select(c, s, ch) == IF c = "preserving" THEN D04Preserving(s, ch) ELSE D04FalseGreen(s, ch)

\* Unmounting runs the cleanup, if the effect has one.
D04Dispose(c, s) ==
  [s EXCEPT !.mounted = FALSE,
            !.listeners[s.channel] = IF c = "preserving" THEN @ - 1 ELSE @]

D04Step(c, s, a) ==
  CASE a[1] = "publish" -> D04Publish(s, a[2], a[3])
    [] a[1] = "switch"  -> D04Select(c, s, a[2])
    [] a[1] = "reset"   -> D04Select(c, s, "harbor")
    [] a[1] = "dispose" -> D04Dispose(c, s)

D04Visible ==
  << <<>>,
     <<<<"publish", "harbor", 2>>>>,
     <<<<"switch", "orchard">>, <<"publish", "orchard", 3>>>>,
     <<<<"switch", "orchard">>, <<"reset">>, <<"publish", "harbor", 7>>>> >>

D04Holds(k, frames) ==
  LET value == Last(frames)
  IN  CASE k = 1 -> /\ value.channel = "harbor" /\ value.bulletin = NoBulletin
                    /\ value.listeners["harbor"] = 1 /\ value.listeners["orchard"] = 0
        [] k = 2 -> value.bulletin = <<"harbor", 2>>
        [] k = 3 -> /\ frames[2].channel = "orchard" /\ frames[2].bulletin = NoBulletin
                    /\ value.bulletin = <<"orchard", 3>>
        [] k = 4 -> /\ frames[3].channel = "harbor" /\ frames[3].bulletin = NoBulletin
                    /\ value.bulletin = <<"harbor", 7>>

D04Canonical ==
  <<<<"publish", "harbor", 2>>, <<"switch", "orchard">>, <<"publish", "harbor", 5>>,
    <<"publish", "orchard", 3>>, <<"reset">>, <<"dispose">>>>

\* Channel, bulletin, listeners of harbor and of orchard, up to the disposal.
D04Expected ==
  << <<"harbor", NoBulletin, 1, 0>>, <<"harbor", <<"harbor", 2>>, 1, 0>>,
     <<"orchard", NoBulletin, 0, 1>>, <<"orchard", NoBulletin, 0, 1>>,
     <<"orchard", <<"orchard", 3>>, 0, 1>>, <<"harbor", NoBulletin, 1, 0>> >>

D04Oracle(frames) ==
  /\ Len(frames) = Len(D04Expected) + 1
  /\ \A i \in DOMAIN D04Expected :
       <<frames[i].channel, frames[i].bulletin, frames[i].listeners["harbor"],
         frames[i].listeners["orchard"]>> = D04Expected[i]
  /\ \A ch \in Channels : Last(frames).listeners[ch] = 0

-----------------------------------------------------------------------------
(* BG-H02: a preview of the guide whose request is the latest. *)

Guides == {"moon", "meteor", "comet"}
NoGuide == "none"

H02Actions == {<<"select", g>> : g \in Guides} \cup {<<"reset">>}
              \cup {<<"complete", i>> : i \in 1 .. MaxRequests}

\* Each request remembers the epoch its callback was created in.
H02Mount == [guide |-> NoGuide, status |-> "idle", content |-> NoGuide, epoch |-> 0,
             requests |-> <<>>, log |-> <<<<"mount">>>>]

\* The source keeps one pending handle per request, completed once.
H02Request(s, g) ==
  [s EXCEPT !.requests = Append(@, [guide |-> g, epoch |-> s.epoch, pending |-> TRUE])]

H02Select(s, g) ==
  H02Request([s EXCEPT !.epoch = @ + 1, !.guide = g, !.status = "loading", !.content = NoGuide,
                       !.log = Append(@, <<"select", g>>)], g)

\* Mutant: a reset that does not start a new epoch.
H02ResetInEpoch(s) ==
  [s EXCEPT !.guide = NoGuide, !.status = "idle", !.content = NoGuide,
            !.log = Append(@, <<"reset">>)]

H02Reset(s) ==
  [s EXCEPT !.epoch = @ + 1, !.guide = NoGuide, !.status = "idle", !.content = NoGuide,
            !.log = Append(@, <<"reset">>)]

\* What a completion publishes.
H02Publish(s, i) == [s EXCEPT !.content = s.requests[i].guide, !.status = "ready"]

\* Candidate A drops a completion of another epoch; B keeps no epoch and has no guard.
H02Callback(c, s, i) ==
  IF c = "preserving" /\ s.requests[i].epoch # s.epoch THEN s ELSE H02Publish(s, i)

\* A handle that is not pending is refused; it is deleted before the callback.
H02Complete(c, s, i) ==
  IF i \notin DOMAIN s.requests \/ ~s.requests[i].pending THEN s
  ELSE H02Callback(c, [s EXCEPT !.requests[i].pending = FALSE], i)

H02Step(c, s, a) ==
  CASE a[1] = "select"   -> H02Select(s, a[2])
    [] a[1] = "complete" -> H02Complete(c, s, a[2])
    [] a[1] = "reset"    -> H02Reset(s)

H02Visible ==
  << <<>>,
     <<<<"select", "moon">>>>,
     <<<<"select", "moon">>, <<"complete", 1>>>>,
     <<<<"select", "moon">>, <<"complete", 1>>, <<"select", "meteor">>, <<"complete", 2>>>>,
     <<<<"select", "comet">>, <<"complete", 1>>, <<"reset">>>> >>

\* The harness reads all but the epoch, and of the requests how many were made.
H02Observe(s) ==
  [guide |-> s.guide, status |-> s.status, content |-> s.content, log |-> s.log,
   requests |-> Len(s.requests)]

H02Holds(k, frames) ==
  LET value == Last(frames)
      shows(g, status, content) ==
        value.guide = g /\ value.status = status /\ value.content = content
  IN  CASE k = 1 -> shows(NoGuide, "idle", NoGuide) /\ value.log = <<<<"mount">>>>
        [] k = 2 -> shows("moon", "loading", NoGuide) /\ value.requests = 1
        [] k = 3 -> value.status = "ready" /\ value.content = "moon"
        [] k = 4 -> shows("meteor", "ready", "meteor") /\ value.requests = 2
        [] k = 5 -> /\ shows(NoGuide, "idle", NoGuide)
                    /\ value.log = <<<<"mount">>, <<"select", "comet">>, <<"reset">>>>

H02Canonical ==
  <<<<"select", "moon">>, <<"select", "meteor">>, <<"complete", 2>>, <<"complete", 1>>,
    <<"select", "comet">>, <<"reset">>, <<"complete", 3>>>>

\* Guide, status, content, entries of the log and requests made.
H02Expected ==
  << <<NoGuide, "idle", NoGuide, 1, 0>>, <<"moon", "loading", NoGuide, 2, 1>>,
     <<"meteor", "loading", NoGuide, 3, 2>>, <<"meteor", "ready", "meteor", 3, 2>>,
     <<"meteor", "ready", "meteor", 3, 2>>, <<"comet", "loading", NoGuide, 4, 3>>,
     <<NoGuide, "idle", NoGuide, 5, 3>>, <<NoGuide, "idle", NoGuide, 5, 3>> >>

H02Log == <<<<"mount">>, <<"select", "moon">>, <<"select", "meteor">>, <<"select", "comet">>, <<"reset">>>>

H02Oracle(frames) ==
  /\ Len(frames) = Len(H02Expected)
  /\ \A i \in DOMAIN frames :
       /\ <<frames[i].guide, frames[i].status, frames[i].content, Len(frames[i].log),
            frames[i].requests>> = H02Expected[i]
       /\ frames[i].log = SubSeq(H02Log, 1, H02Expected[i][4])

-----------------------------------------------------------------------------
(* BG-H05: two readouts of one store; the toolbar of the north one writes it. *)

Units == {"metric", "imperial"}
Readouts == {"north", "south"}
NoReadout == [unit |-> "none", revision |-> 0]

H05Actions == {<<"toolbarWrite", u>> : u \in Units} \cup {<<"externalWrite", u>> : u \in Units}
              \cup {<<"unmountSouth">>, <<"remountSouth">>, <<"dispose">>}

H05Initial == [unit |-> "metric", revision |-> 0]

\* shown keeps what a readout showed last, mounted or not; only A subscribes.
H05Mount(c, pair) ==
  LET up == IF pair THEN Readouts ELSE {"north"}
  IN  [store |-> H05Initial,
       shown |-> [r \in Readouts |-> IF r \in up THEN H05Initial ELSE NoReadout],
       mounted |-> up,
       subscribers |-> IF c = "preserving" THEN up ELSE {},
       notified |-> [r \in Readouts |-> 0]]

\* A write of the same unit keeps the snapshot; another tells every subscriber once.
H05Write(s, u) ==
  LET next == [unit |-> u, revision |-> s.store.revision + 1]
  IN  IF u = s.store.unit THEN s
      ELSE [s EXCEPT !.store = next,
                     !.shown = [r \in Readouts |-> IF r \in s.subscribers THEN next ELSE @[r]],
                     !.notified = [r \in Readouts |-> IF r \in s.subscribers THEN @[r] + 1 ELSE @[r]]]

\* B reads the store back for its own readout, and only after its own write.
H05FalseGreenWrite(s, u) ==
  LET t == H05Write(s, u) IN [t EXCEPT !.shown["north"] = t.store]

H05Unmount(s, gone) ==
  [s EXCEPT !.mounted = @ \ gone, !.subscribers = @ \ gone]

\* A new component starts from the snapshot of the store.
H05RemountSouth(c, s) ==
  IF "south" \in s.mounted THEN s
  ELSE [s EXCEPT !.mounted = @ \cup {"south"}, !.shown["south"] = s.store,
                 !.subscribers = IF c = "preserving" THEN @ \cup {"south"} ELSE @]

H05Step(c, s, a) ==
  CASE a[1] = "toolbarWrite"  -> IF c = "preserving" THEN H05Write(s, a[2]) ELSE H05FalseGreenWrite(s, a[2])
    [] a[1] = "externalWrite" -> H05Write(s, a[2])
    [] a[1] = "unmountSouth"  -> H05Unmount(s, {"south"})
    [] a[1] = "remountSouth"  -> H05RemountSouth(c, s)
    [] a[1] = "dispose"       -> H05Unmount(s, Readouts)

H05Visible ==
  << <<>>, <<<<"toolbarWrite", "imperial">>>>,
     <<<<"toolbarWrite", "imperial">>, <<"toolbarWrite", "imperial">>>>,
     <<<<"dispose">>>> >>

\* The single readout of the visible gate; the snapshot is kept by its revision.
H05Holds(k, frames) ==
  LET value == Last(frames)
  IN  CASE k = 1 -> value.shown["north"] = H05Initial
        [] k = 2 -> value.shown["north"] = [unit |-> "imperial", revision |-> 1]
        [] k = 3 -> frames[2].store = value.store /\ value.store.revision = 1
        [] k = 4 -> value.subscribers = {}

H05Canonical ==
  <<<<"toolbarWrite", "imperial">>, <<"externalWrite", "metric">>, <<"unmountSouth">>,
    <<"externalWrite", "imperial">>, <<"remountSouth">>, <<"externalWrite", "imperial">>,
    <<"dispose">>>>

\* Revisions of the store, north and south, subscribers, notifications of each;
\* the unit is imperial at the odd revisions.
H05Expected ==
  << <<0, 0, 0, 2, 0, 0>>, <<1, 1, 1, 2, 1, 1>>, <<2, 2, 2, 2, 2, 2>>, <<2, 2, 2, 1, 2, 2>>,
     <<3, 3, 2, 1, 3, 2>>, <<3, 3, 3, 2, 3, 2>>, <<3, 3, 3, 2, 3, 2>>, <<3, 3, 3, 0, 3, 2>> >>

SnapshotAt(revision) ==
  [unit |-> IF revision % 2 = 1 THEN "imperial" ELSE "metric", revision |-> revision]

H05Oracle(frames) ==
  /\ Len(frames) = Len(H05Expected)
  /\ \A i \in DOMAIN frames :
       LET row == H05Expected[i]
       IN  /\ frames[i].store = SnapshotAt(row[1])
           /\ frames[i].shown["north"] = SnapshotAt(row[2])
           /\ frames[i].shown["south"] = SnapshotAt(row[3])
           /\ Cardinality(frames[i].subscribers) = row[4]
           /\ frames[i].notified["north"] = row[5]
           /\ frames[i].notified["south"] = row[6]

-----------------------------------------------------------------------------
(* BG-H06: a theme shown before its save is known. *)

Themes == {"light", "dark"}
NoSave == <<>>

H06Actions == {<<"choose", t>> : t \in Themes} \cup {<<"resolve">>, <<"reject">>, <<"dismiss-error">>}

\* The pending save is what was requested and what was committed before.
H06Mount == [displayed |-> "light", committed |-> "light", status |-> "idle", error |-> FALSE,
             pending |-> NoSave]

H06Settled(s, displayed, committed, error) ==
  [s EXCEPT !.displayed = displayed, !.committed = committed, !.status = "idle",
            !.error = error, !.pending = NoSave]

\* A choice while a save is pending, or of the committed theme, is ignored.
H06Choose(s, t) ==
  IF s.status = "saving" \/ t = s.committed THEN s
  ELSE [s EXCEPT !.displayed = t, !.status = "saving", !.error = FALSE,
                 !.pending = <<t, s.committed>>]

\* Candidate A puts back what was committed before the choice.
H06RejectPreserving(s) == H06Settled(s, s.pending[2], s.pending[2], TRUE)

\* Candidate B keeps showing what was requested.
H06RejectFalseGreen(s) == H06Settled(s, s.pending[1], s.pending[2], TRUE)

H06Step(c, s, a) ==
  CASE a[1] = "choose"        -> H06Choose(s, a[2])
    [] a[1] = "dismiss-error" -> [s EXCEPT !.error = FALSE]
    [] a[1] \in {"resolve", "reject"} /\ s.pending = NoSave -> s
    [] a[1] = "resolve" /\ s.pending # NoSave -> H06Settled(s, s.pending[1], s.pending[1], FALSE)
    [] a[1] = "reject" /\ s.pending # NoSave ->
         IF c = "preserving" THEN H06RejectPreserving(s) ELSE H06RejectFalseGreen(s)

H06Visible ==
  << <<>>, <<<<"choose", "dark">>>>, <<<<"choose", "dark">>, <<"resolve">>>>, <<<<"dismiss-error">>>> >>

H06Observe(s) ==
  [displayed |-> s.displayed, committed |-> s.committed, status |-> s.status, error |-> s.error,
   pendingCount |-> IF s.pending = NoSave THEN 0 ELSE 1]

H06Frame(displayed, committed, status, error) ==
  [displayed |-> displayed, committed |-> committed, status |-> status, error |-> error,
   pendingCount |-> IF status = "saving" THEN 1 ELSE 0]

H06Holds(k, frames) ==
  LET value == Last(frames)
  IN  CASE k = 1 -> value = H06Frame("light", "light", "idle", FALSE)
        [] k = 2 -> value = [H06Frame("dark", "light", "saving", FALSE) EXCEPT !.error = value.error]
        [] k = 3 -> value = H06Frame("dark", "dark", "idle", FALSE)
        [] k = 4 -> value = frames[1]

H06Canonical ==
  <<<<"choose", "dark">>, <<"choose", "light">>, <<"reject">>, <<"dismiss-error">>,
    <<"choose", "dark">>, <<"resolve">>, <<"choose", "light">>, <<"reject">>, <<"reject">>>>

H06Expected ==
  << H06Frame("light", "light", "idle", FALSE), H06Frame("dark", "light", "saving", FALSE),
     H06Frame("dark", "light", "saving", FALSE), H06Frame("light", "light", "idle", TRUE),
     H06Frame("light", "light", "idle", FALSE), H06Frame("dark", "light", "saving", FALSE),
     H06Frame("dark", "dark", "idle", FALSE), H06Frame("light", "dark", "saving", FALSE),
     H06Frame("dark", "dark", "idle", TRUE), H06Frame("dark", "dark", "idle", TRUE) >>

H06Oracle(frames) == frames = H06Expected
=============================================================================
