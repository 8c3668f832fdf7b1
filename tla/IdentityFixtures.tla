--------------------------- MODULE IdentityFixtures ---------------------------
(***************************************************************************)
(* The three fixtures about whose state it is: the drafts of a display     *)
(* card (BG-H01), the handle object of a selection (BG-H03) and the drawer *)
(* that is mounted while it is active (BG-H04).  They are given like those *)
(* of CountedFixtures.                                                     *)
(***************************************************************************)
EXTENDS Integers, Sequences, SequencesExt

-----------------------------------------------------------------------------
(* BG-H01: an editor of a card whose identity comes from the parent. *)

\* Titles are only told apart: theirs have a space where these have a hyphen.
CardProps(id, title, theme) == [cardId |-> id, initialTitle |-> title, initialTheme |-> theme]

Card01 == CardProps("CARD-01", "Moon-map", "blue")
Card02 == CardProps("CARD-02", "Meteor-guide", "amber")
Card01Renamed == CardProps("CARD-01", "Moon-chart", "blue")  \* unstable initial fields
CardBlank == CardProps("CARD-02", "blank", "amber")

H01Actions == {<<"edit-title", "Lunar-map">>, <<"edit-theme", "green">>, <<"reset-current">>}
              \cup {<<"rerender", p>> : p \in {Card01, Card02, Card01Renamed, CardBlank}}

\* thrown: the effect of a render threw, and the component is gone.
H01Mount == [current |-> Card01, title |-> Card01.initialTitle, theme |-> Card01.initialTheme,
             log |-> <<<<"mount">>>>, thrown |-> FALSE]

isDirty(s) == s.title # s.current.initialTitle \/ s.theme # s.current.initialTheme

\* assertCardProps refuses blank inputs in the harness, before any render.
assertCardProps(p) == p.initialTitle # "blank"

\* Initial fields that changed under one identity make the layout effect throw.
H01Unstable(s, p) == p.cardId = s.current.cardId /\ p # s.current

\* Candidate A: a new identity replaces both drafts with it.
H01Preserving(s, p) ==
  IF p.cardId = s.current.cardId THEN s
  ELSE [s EXCEPT !.current = p, !.title = p.initialTitle, !.theme = p.initialTheme]

\* Candidate B: the identity advances, the drafts stay.
H01FalseGreen(s, p) == [s EXCEPT !.current = p]

H01Rerender(c, s, p) ==
  IF ~assertCardProps(p) THEN s
  ELSE IF H01Unstable(s, p) THEN [s EXCEPT !.thrown = TRUE]
  ELSE LET t == IF c = "preserving" THEN H01Preserving(s, p) ELSE H01FalseGreen(s, p)
       IN  [t EXCEPT !.log = Append(@, <<"rerender", p.cardId>>)]

H01Dispatch(s, a) ==
  LET logged(t, label) == [t EXCEPT !.log = Append(@, label)]
  IN  CASE a[1] = "edit-title" -> logged([s EXCEPT !.title = a[2]], <<a[1], s.current.cardId>>)
        [] a[1] = "edit-theme" -> logged([s EXCEPT !.theme = a[2]], <<a[1], s.current.cardId>>)
        [] a[1] = "reset-current" ->
             logged([s EXCEPT !.title = s.current.initialTitle, !.theme = s.current.initialTheme], a)

H01Step(c, s, a) ==
  IF a[1] = "rerender" THEN H01Rerender(c, s, a[2]) ELSE H01Dispatch(s, a)

H01Observe(s) ==
  [cardId |-> s.current.cardId, title |-> s.title, theme |-> s.theme, dirty |-> isDirty(s),
   log |-> s.log]

H01Visible ==
  << <<>>, <<<<"edit-title", "Lunar-map">>>>, <<<<"edit-theme", "green">>>>,
     <<<<"edit-title", "Lunar-map">>, <<"rerender", Card01>>>>,
     <<<<"edit-title", "Lunar-map">>, <<"reset-current">>>> >>

H01Holds(k, frames) ==
  LET value == Last(frames)
      shows(title, theme, dirty) ==
        value.title = title /\ value.theme = theme /\ value.dirty = dirty
  IN  CASE k = 1 -> /\ value.cardId = "CARD-01" /\ shows("Moon-map", "blue", FALSE)
                    /\ value.log = <<<<"mount">>>>
        [] k = 2 -> shows("Lunar-map", "blue", TRUE)
        [] k = 3 -> shows("Moon-map", "green", TRUE)
        [] k = 4 -> /\ shows("Lunar-map", "blue", TRUE)
                    /\ value.log = <<<<"mount">>, <<"edit-title", "CARD-01">>, <<"rerender", "CARD-01">>>>
        [] k = 5 -> shows("Moon-map", "blue", FALSE) /\ ~assertCardProps(CardBlank)

H01Canonical ==
  <<<<"edit-title", "Lunar-map">>, <<"rerender", Card01>>, <<"rerender", Card02>>,
    <<"edit-theme", "green">>, <<"rerender", Card01>>, <<"reset-current">>>>

H01Log ==
  <<<<"mount">>, <<"edit-title", "CARD-01">>, <<"rerender", "CARD-01">>, <<"rerender", "CARD-02">>,
    <<"edit-theme", "CARD-02">>, <<"rerender", "CARD-01">>, <<"reset-current">>>>

H01Expected ==
  << <<"CARD-01", "Moon-map", "blue", FALSE>>, <<"CARD-01", "Lunar-map", "blue", TRUE>>,
     <<"CARD-01", "Lunar-map", "blue", TRUE>>, <<"CARD-02", "Meteor-guide", "amber", FALSE>>,
     <<"CARD-02", "Meteor-guide", "green", TRUE>>, <<"CARD-01", "Moon-map", "blue", FALSE>>,
     <<"CARD-01", "Moon-map", "blue", FALSE>> >>

H01Oracle(frames) ==
  /\ Len(frames) = Len(H01Expected)
  /\ \A i \in DOMAIN frames :
       /\ <<frames[i].cardId, frames[i].title, frames[i].theme, frames[i].dirty>> = H01Expected[i]
       /\ frames[i].log = SubSeq(H01Log, 1, i)

-----------------------------------------------------------------------------
(* BG-H03: a desk that gives out the handle object of its selection.  An   *)
(* object is its number in the order of creation, which is also how the    *)
(* evaluator tells references apart in the transcript.                     *)

\* The note of the mount and after a reset.
NoNote == ""
Collections == {"herbs", "flowers"}

H03Actions == {<<"set-note", "spring">>, <<"set-note", "summer">>, <<"reset">>}
              \cup {<<"select", id>> : id \in Collections}

\* The effect over the handle has run once by the time the mount settles.
H03Mount == [selected |-> "herbs", handle |-> 1, label |-> "herbs", note |-> NoNote,
             attachments |-> 1, log |-> <<<<"mount">>>>]

\* A new handle object, and with it the effect that attaches the preview.
createSelectionHandle(s, id) ==
  [s EXCEPT !.handle = @ + 1, !.label = id, !.attachments = @ + 1]

\* Candidate A makes a handle only for another selection.
H03Choose(s, id) ==
  IF id = s.selected THEN s ELSE createSelectionHandle([s EXCEPT !.selected = id], id)

H03Preserving(s, a) ==
  CASE a[1] = "set-note" -> [s EXCEPT !.note = a[2]]
    [] a[1] = "select"   -> H03Choose(s, a[2])
    [] a[1] = "reset"    -> H03Choose([s EXCEPT !.note = NoNote], "herbs")

\* Candidate B makes one after every action, from the selection it then has.
H03FalseGreen(s, a) ==
  LET t == CASE a[1] = "set-note" -> [s EXCEPT !.note = a[2]]
             [] a[1] = "select"   -> [s EXCEPT !.selected = a[2]]
             [] a[1] = "reset"    -> [s EXCEPT !.selected = "herbs", !.note = NoNote]
  IN  createSelectionHandle(t, t.selected)

H03Step(c, s, a) ==
  LET t == IF c = "preserving" THEN H03Preserving(s, a) ELSE H03FalseGreen(s, a)
  IN  [t EXCEPT !.log = Append(@, a)]

\* The visible gate never compares two handles nor counts the attachments.
H03Visible ==
  << <<>>, <<<<"set-note", "spring">>>>, <<<<"select", "flowers">>>>,
     <<<<"set-note", "summer">>, <<"select", "flowers">>, <<"reset">>>> >>

H03Holds(k, frames) ==
  LET value == Last(frames)
  IN  CASE k = 1 -> value.selected = "herbs" /\ value.label = "herbs" /\ value.note = NoNote
        [] k = 2 -> value.selected = "herbs" /\ value.label = "herbs" /\ value.note = "spring"
        [] k = 3 -> value.selected = "flowers" /\ value.label = "flowers"
        [] k = 4 -> /\ value.selected = "herbs" /\ value.note = NoNote
                    /\ value.log = <<<<"mount">>, <<"set-note", "summer">>, <<"select", "flowers">>, <<"reset">>>>

H03Canonical ==
  <<<<"set-note", "spring">>, <<"set-note", "summer">>, <<"select", "flowers">>,
    <<"set-note", "autumn">>, <<"select", "flowers">>, <<"select", "herbs">>, <<"reset">>>>

\* Frames of one reference ordinal are given one object back before the oracle.
SameHandle(frames, i, j) == frames[i].handle = frames[j].handle

H03Oracle(frames) ==
  LET labels == <<<<"mount">>>> \o H03Canonical
      same(i, j) == SameHandle(frames, i, j)
  IN  /\ Len(frames) = Len(labels)
      /\ \A i \in DOMAIN frames : Last(frames[i].log) = labels[i]
      /\ [i \in DOMAIN frames |-> frames[i].attachments] = <<1, 1, 1, 2, 2, 2, 3, 3>>
      /\ same(2, 1) /\ same(3, 1) /\ ~same(4, 3) /\ same(5, 4) /\ same(6, 4) /\ ~same(7, 6) /\ same(8, 7)
      /\ frames[8].selected = "herbs" /\ frames[8].note = NoNote /\ frames[8].log = labels

-----------------------------------------------------------------------------
(* BG-H04: a drawer that the parent mounts while it is active. *)

NoDrawer == [generation |-> 0, draft |-> "none"]

H04Actions == {<<"activate">>, <<"deactivate">>, <<"edit-draft", "check">>,
               <<"set-source-note", "focus">>, <<"dispose">>}

\* drawer is the mounted component, with the draft it keeps for itself; the ledger
\* of the harness counts mounts and cleanups, one cleanup for a registration.
H04Ledger(s, mounts, cleanups) ==
  [s EXCEPT !.mounts = @ + mounts, !.cleanups = @ + cleanups]

H04Mounted(s) ==
  LET t == H04Ledger(s, 1, 0)
  IN  [t EXCEPT !.drawer = [generation |-> t.mounts, draft |-> s.note]]

H04Cleaned(s) ==
  IF s.drawer = NoDrawer THEN s ELSE [H04Ledger(s, 0, 1) EXCEPT !.drawer = NoDrawer]

H04Parent == [note |-> "align", active |-> FALSE, drawer |-> NoDrawer, mounts |-> 0, cleanups |-> 0,
              log |-> <<<<"mount">>>>, disposed |-> FALSE]

\* The projection of candidate B registers with the parent itself.
H04Mount(c) == IF c = "preserving" THEN H04Parent ELSE H04Mounted(H04Parent)

\* Candidate A renders the drawer exactly while it is active.
H04Activate(c, s) ==
  LET t == [s EXCEPT !.active = TRUE]
  IN  IF c = "preserving" /\ ~s.active THEN H04Mounted(t) ELSE t

H04Deactivate(c, s) ==
  LET t == [s EXCEPT !.active = FALSE]
  IN  IF c = "preserving" THEN H04Cleaned(t) ELSE t

\* The setter of a drawer that is not mounted does nothing.
H04Edit(s, draft) == IF s.drawer = NoDrawer THEN s ELSE [s EXCEPT !.drawer.draft = draft]

H04Dispatch(c, s, a) ==
  CASE a[1] = "activate"        -> H04Activate(c, s)
    [] a[1] = "deactivate"      -> H04Deactivate(c, s)
    [] a[1] = "edit-draft"      -> H04Edit(s, a[2])
    [] a[1] = "set-source-note" -> [s EXCEPT !.note = a[2]]
    [] a[1] = "dispose"         -> [H04Cleaned(s) EXCEPT !.disposed = TRUE]

\* The harness adds the last label itself, after the unmount.
H04Step(c, s, a) == [H04Dispatch(c, s, a) EXCEPT !.log = Append(@, a)]

H04Observe(s) ==
  [note |-> s.note, present |-> s.drawer # NoDrawer, visible |-> s.drawer # NoDrawer /\ s.active,
   generation |-> s.drawer.generation, draft |-> s.drawer.draft,
   counts |-> <<s.mounts, s.cleanups, s.mounts - s.cleanups>>, log |-> s.log]

H04Visible ==
  << <<>>, <<<<"activate">>>>, <<<<"activate">>, <<"edit-draft", "check">>>>,
     <<<<"activate">>, <<"edit-draft", "check">>, <<"deactivate">>>> >>

H04Holds(k, frames) ==
  LET value == Last(frames)
  IN  CASE k = 1 -> ~value.visible /\ value.note = "align"
        [] k = 2 -> value.visible /\ value.draft = "align"
        [] k = 3 -> value.draft = "check" /\ value.note = "align"
        [] k = 4 -> ~value.visible

H04Canonical ==
  <<<<"activate">>, <<"edit-draft", "check">>, <<"deactivate">>, <<"set-source-note", "focus">>,
    <<"activate">>, <<"deactivate">>, <<"dispose">>>>

\* Generation (0 when the drawer is absent), draft and counts, up to the disposal.
H04Expected ==
  << <<0, "none", <<0, 0, 0>>>>, <<1, "align", <<1, 0, 1>>>>, <<1, "check", <<1, 0, 1>>>>,
     <<0, "none", <<1, 1, 0>>>>, <<0, "none", <<1, 1, 0>>>>, <<2, "focus", <<2, 1, 1>>>>,
     <<0, "none", <<2, 2, 0>>>> >>

H04Oracle(frames) ==
  LET labels == <<<<"mount">>>> \o H04Canonical
  IN  /\ Len(frames) = Len(H04Expected) + 1
      /\ \A i \in DOMAIN H04Expected :
           LET value == frames[i]
           IN  /\ <<value.generation, value.draft, value.counts>> = H04Expected[i]
               /\ value.present = (H04Expected[i][1] # 0) /\ value.visible = value.present
               /\ Last(value.log) = labels[i]
               /\ i > 4 => value.note = "focus"
      /\ Last(frames).counts = <<2, 2, 0>> /\ Last(frames).note = "focus"
      /\ Last(Last(frames).log) = <<"dispose">>
=============================================================================
