-------------------------- MODULE FixtureTrialProofs --------------------------
(***************************************************************************)
(* Theorems about FixtureTrial, for any number of cards, lanes and         *)
(* requests and for trials of any length.                                  *)
(*                                                                         *)
(* Each fixture has an invariant of its own, XInv, of what a preserving    *)
(* candidate holds, and one lemma XKeeps: a settled action keeps XInv and  *)
(* the fixture's published contract.  TrialInv adds what a trial may still *)
(* play: actions of its fixture, and nothing after a disposal.             *)
(*                                                                         *)
(* The judgements rest on the chain of states behind the frames of a       *)
(* scripted trial (RecordInv): the frames are what the harness reads of    *)
(* them, one after each action.  For each fixture XAt writes its states    *)
(* down, a lemma per kind of action says which XAt follows which, and      *)
(* XCanonicalShows and XVisibleShows go through the scripts action by      *)
(* action: each visible assertion holds of either candidate, and the       *)
(* oracle of all candidates but the false-green one.  ScriptsShow puts the *)
(* ten together, and VerdictsMatch follows with RecordInv.                 *)
(***************************************************************************)
EXTENDS FixtureTrial, SequenceTheorems, FiniteSetTheorems, TLAPS

\* A log is a sequence, whatever its labels are.
IsLog(l) == \E S : l \in Seq(S)

LEMMA SeqGrows ==
  ASSUME NEW S, NEW T, S \subseteq T, NEW l \in Seq(S)
  PROVE  l \in Seq(T)
OBVIOUS

LEMMA LogGrows ==
  ASSUME NEW l, IsLog(l), NEW x
  PROVE  /\ IsLog(Append(l, x))
         /\ Len(Append(l, x)) = Len(l) + 1 /\ Front(Append(l, x)) = l
<1>1. PICK S : l \in Seq(S)
  BY DEF IsLog
<1> DEFINE T == S \cup {x}
<1>2. S \subseteq T /\ x \in T
  OBVIOUS
<1> HIDE DEF T
<1>3. l \in Seq(T)
  BY ONLY <1>1, <1>2, SeqGrows
<1>4. /\ Append(l, x) \in Seq(T)
      /\ Len(Append(l, x)) = Len(l) + 1 /\ Front(Append(l, x)) = l
  BY <1>2, <1>3 DEF Front
<1> QED BY <1>4 DEF IsLog

LEMMA OneLabelIsLog == \A x : IsLog(<<x>>)
<1> SUFFICES ASSUME NEW x PROVE IsLog(<<x>>)
  OBVIOUS
<1>1. <<x>> \in Seq({x})
  OBVIOUS
<1> QED BY <1>1 DEF IsLog

-----------------------------------------------------------------------------
(* BG-D01. *)

D01Inv(s) ==
  /\ s = [alloc |-> s.alloc, selected |-> s.selected, step |-> s.step, log |-> s.log]
  /\ s.alloc \in [Cards -> Nat] /\ s.selected \subseteq Cards
  /\ s.step \in Nat \ {0} /\ IsLog(s.log)

LEMMA Adjusted ==
  ASSUME NEW ids, NEW counts \in [ids -> Nat], NEW selected, NEW delta \in Int
  PROVE  LET t == adjustSelected(counts, selected, delta)
         IN /\ t \in [ids -> Nat]
            /\ \A id \in ids :
                 /\ id \notin selected => t[id] = counts[id]
                 /\ id \in selected /\ delta >= 0 => t[id] = counts[id] + delta
                 /\ id \in selected /\ delta <= 0 => t[id] \in 0 .. counts[id]
BY DEF adjustSelected

LEMMA D01Mounted == D01Inv(D01Mount)
BY OneLabelIsLog DEF D01Inv, D01Mount, Zeros

LEMMA D01Keeps ==
  ASSUME NEW c \in {"preserving", "legacy"}, NEW s, D01Inv(s), NEW a \in D01Actions
  PROVE  D01Inv(D01Step(c, s, a)) /\ D01Contract(s, a, D01Step(c, s, a))
<1> DEFINE e == D01Effect(c, s, a)
           t == D01Step(c, s, a)
           label == D01Label(a, s.step)
<1>1. CASE D01Rejects(a)
  BY <1>1 DEF D01Step, D01Contract
<1>2. CASE ~D01Rejects(a)
  <2>1. ASSUME D01Inv(e), e.log = s.log,
               a[1] = "allocate" =>
                 /\ \A k \in Cards :
                      e.alloc[k] = s.alloc[k] + (IF k \in s.selected THEN a[2] * s.step ELSE 0)
                 /\ e.selected = s.selected /\ e.step = s.step,
               a[1] = "remove" =>
                 \A k \in Cards : e.alloc[k] \in 0 .. s.alloc[k]
                                    /\ (e.alloc[k] = s.alloc[k] \/ k \in s.selected),
               a[1] \notin {"allocate", "remove", "reset"} => e.alloc = s.alloc
        PROVE  D01Inv(t) /\ D01Contract(s, a, t)
    <3>1. t = [e EXCEPT !.log = Append(e.log, label)]
      BY <1>2 DEF D01Step
    <3> HIDE DEF e, t, label
    <3>2. IsLog(e.log)
      BY <2>1 DEF D01Inv
    <3>3. /\ IsLog(Append(e.log, label)) /\ Len(Append(e.log, label)) = Len(e.log) + 1
          /\ Front(Append(e.log, label)) = e.log
      BY <3>2, LogGrows
    <3>4. /\ t = [alloc |-> e.alloc, selected |-> e.selected, step |-> e.step,
                  log |-> Append(e.log, label)]
      BY <2>1, <3>1 DEF D01Inv
    <3>5. D01Inv(t)
      BY <2>1, <3>3, <3>4 DEF D01Inv
    <3>6. OneMoreLabel(s, t)
      BY <2>1, <3>3, <3>4 DEF OneMoreLabel
    <3> QED BY <1>2, <2>1, <3>4, <3>5, <3>6 DEF D01Contract
  <2> SUFFICES /\ D01Inv(e) /\ e.log = s.log
               /\ a[1] = "allocate" =>
                    /\ \A k \in Cards :
                         e.alloc[k] = s.alloc[k] + (IF k \in s.selected THEN a[2] * s.step ELSE 0)
                    /\ e.selected = s.selected /\ e.step = s.step
               /\ a[1] = "remove" =>
                    \A k \in Cards : e.alloc[k] \in 0 .. s.alloc[k]
                                       /\ (e.alloc[k] = s.alloc[k] \/ k \in s.selected)
               /\ a[1] \notin {"allocate", "remove", "reset"} => e.alloc = s.alloc
    BY <2>1
  <2>2. CASE a = <<"select-all">> \/ a = <<"select-every-third">>
    <3> DEFINE chosen == IF a = <<"select-all">> THEN Cards ELSE everyThird
    <3>1. chosen \subseteq Cards
      BY DEF everyThird
    <3>2. e = [s EXCEPT !.selected = chosen]
      BY <2>2 DEF D01Effect, D01Legacy, D01Preserving, D01Others
    <3> HIDE DEF e, chosen
    <3>3. e = [alloc |-> s.alloc, selected |-> chosen, step |-> s.step, log |-> s.log]
      BY <3>2 DEF D01Inv
    <3>4. D01Inv(e) /\ e.alloc = s.alloc /\ e.log = s.log
      BY <3>1, <3>3 DEF D01Inv
    <3> QED BY <2>2, <3>4
  <2>3. CASE a = <<"reset">>
    BY <2>3 DEF D01Effect, D01Legacy, D01Preserving, D01Others, D01Inv, D01Mount, Zeros
  <2>4. CASE a = <<"remove">>
    <3> DEFINE alloc == adjustSelected(s.alloc, s.selected, -s.step)
    <3>1. /\ alloc \in [Cards -> Nat]
          /\ \A k \in Cards : /\ k \notin s.selected => alloc[k] = s.alloc[k]
                              /\ k \in s.selected => alloc[k] \in 0 .. s.alloc[k]
      BY Adjusted DEF D01Inv
    <3> HIDE DEF alloc
    <3>2. e = [s EXCEPT !.alloc = alloc]
      BY <2>4 DEF D01Effect, D01Legacy, D01Preserving, D01Others, alloc
    <3> HIDE DEF e
    <3> QED BY <2>4, <3>1, <3>2 DEF D01Inv
  <2>5. CASE a[1] = "set-step"
    <3>1. PICK n \in {1, 3} : a = <<"set-step", n>>
      BY <1>2, <2>5 DEF D01Actions, D01Rejects
    <3> QED BY <3>1 DEF D01Effect, D01Legacy, D01Preserving, D01Others, D01Inv
  <2>6. CASE a[1] = "allocate"
    <3> DEFINE once == adjustSelected(s.alloc, s.selected, s.step)
               twice == adjustSelected(once, s.selected, s.step)
    <3>1. PICK m \in {1, 2} : a = <<"allocate", m>>
      BY <2>6 DEF D01Actions
    <3>2. /\ once \in [Cards -> Nat]
          /\ \A k \in Cards : /\ k \notin s.selected => once[k] = s.alloc[k]
                              /\ k \in s.selected => once[k] = s.alloc[k] + s.step
      BY Adjusted DEF D01Inv
    <3>3. /\ twice \in [Cards -> Nat]
          /\ \A k \in Cards : /\ k \notin s.selected => twice[k] = once[k]
                              /\ k \in s.selected => twice[k] = once[k] + s.step
      <4> HIDE DEF once
      <4> QED BY <3>2, Adjusted DEF D01Inv
    <3>4. /\ m = 1 => e = [s EXCEPT !.alloc = once]
          /\ m = 2 => e = [s EXCEPT !.alloc = twice]
      BY <3>1 DEF D01Effect, D01Legacy, D01Preserving
    <3> HIDE DEF e, once, twice
    <3>5. CASE m = 1
      BY <3>1, <3>2, <3>4, <3>5 DEF D01Inv
    <3>6. CASE m = 2
      BY <3>1, <3>2, <3>3, <3>4, <3>6 DEF D01Inv
    <3> QED BY <3>5, <3>6
  <2> QED BY <2>2, <2>3, <2>4, <2>5, <2>6 DEF D01Actions
<1> QED BY <1>1, <1>2

-----------------------------------------------------------------------------
(* BG-D02. *)

D02Inv(s) ==
  /\ s = [pending |-> s.pending, dispatched |-> s.dispatched, selected |-> s.selected,
          unit |-> s.unit, log |-> s.log]
  /\ s.pending \in [Lanes -> Nat] /\ s.dispatched \in [Lanes -> Nat] /\ s.selected \subseteq Lanes
  /\ s.unit \in Nat \ {0} /\ IsLog(s.log)

\* What an effect does before its label is logged.
D02Moves(s, a, e) ==
  /\ D02Inv(e) /\ e.log = s.log
  /\ a[1] # "reset" => \A l \in Lanes :
       e.pending[l] + e.dispatched[l] =
         s.pending[l] + s.dispatched[l]
           + (IF a[1] = "queue" /\ l \in s.selected THEN a[2] * s.unit ELSE 0)
  /\ a[1] = "flush" => \A l \in Lanes : e.pending[l] = IF l \in s.selected THEN 0 ELSE s.pending[l]
  /\ a[1] \notin {"flush", "reset"} => e.dispatched = s.dispatched

LEMMA D02Mounted == D02Inv(D02Mount)
BY OneLabelIsLog DEF D02Inv, D02Mount, Zeros

\* Every effect of a preserving candidate moves parcels as the contract says.
LEMMA D02EffectMoves ==
  ASSUME NEW s, D02Inv(s), NEW a \in D02Actions, ~D02Rejects(a)
  PROVE  D02Moves(s, a, D02Effect("preserving", s, a))
<1> DEFINE e == D02Effect("preserving", s, a)
<1> SUFFICES D02Moves(s, a, e)
  OBVIOUS
<1>0. /\ s.unit \in Nat \ {0}
      /\ \A l \in Lanes : s.pending[l] \in Nat /\ s.dispatched[l] \in Nat
  BY DEF D02Inv
<1>1. CASE a = <<"select-all">> \/ a = <<"select-even">>
  <2> DEFINE chosen == IF a = <<"select-all">> THEN Lanes ELSE evenLanes
  <2>1. chosen \subseteq Lanes
    BY DEF evenLanes
  <2>2. e = [s EXCEPT !.selected = chosen]
    BY <1>1 DEF D02Effect, D02Preserving, D02Others
  <2> HIDE DEF e, chosen
  <2>3. e = [pending |-> s.pending, dispatched |-> s.dispatched, selected |-> chosen,
             unit |-> s.unit, log |-> s.log]
    BY <2>2 DEF D02Inv
  <2>4. D02Inv(e)
    BY <2>1, <2>3 DEF D02Inv
  <2>5. /\ e.log = s.log /\ e.pending = s.pending /\ e.dispatched = s.dispatched
        /\ a[1] \notin {"queue", "flush", "reset"}
    BY <1>1, <2>3
  <2> QED BY <1>0, <2>4, <2>5 DEF D02Moves
<1>2. CASE a = <<"reset">>
  <2>1. e = [D02Mount EXCEPT !.log = s.log]
    BY <1>2 DEF D02Effect, D02Preserving, D02Others
  <2> HIDE DEF e
  <2>2. e = [pending |-> Zeros(Lanes), dispatched |-> Zeros(Lanes), selected |-> {},
             unit |-> 1, log |-> s.log]
    BY <2>1 DEF D02Mount
  <2>3. D02Inv(e)
    BY <2>2 DEF D02Inv, Zeros
  <2> QED BY <1>2, <2>2, <2>3 DEF D02Moves
<1>3. CASE a[1] = "set-unit"
  <2>1. PICK n \in {1, 3} : a = <<"set-unit", n>>
    BY <1>3 DEF D02Actions, D02Rejects
  <2>2. e = [s EXCEPT !.unit = n]
    BY <2>1 DEF D02Effect, D02Preserving, D02Others
  <2> HIDE DEF e
  <2>3. e = [pending |-> s.pending, dispatched |-> s.dispatched, selected |-> s.selected,
             unit |-> n, log |-> s.log]
    BY <2>2 DEF D02Inv
  <2>4. D02Inv(e)
    BY <2>3 DEF D02Inv
  <2>5. /\ e.log = s.log /\ e.pending = s.pending /\ e.dispatched = s.dispatched
        /\ a[1] \notin {"queue", "flush", "reset"}
    BY <2>1, <2>3
  <2> QED BY <1>0, <2>4, <2>5 DEF D02Moves
<1>4. CASE a = <<"flush">>
  <2> DEFINE sent == [l \in Lanes |-> IF l \in s.selected THEN s.dispatched[l] + s.pending[l]
                                      ELSE s.dispatched[l]]
             kept == [l \in Lanes |-> IF l \in s.selected THEN 0 ELSE s.pending[l]]
  <2>1. e = [s EXCEPT !.dispatched = sent, !.pending = kept]
    BY <1>4 DEF D02Effect, D02Preserving, D02Others, D02Flush, D02Inv
  <2> HIDE DEF e
  <2>2. e = [pending |-> kept, dispatched |-> sent, selected |-> s.selected,
             unit |-> s.unit, log |-> s.log]
    BY <2>1 DEF D02Inv
  <2>3. sent \in [Lanes -> Nat] /\ kept \in [Lanes -> Nat]
    BY DEF D02Inv
  <2>4. D02Inv(e)
    BY <2>2, <2>3 DEF D02Inv
  <2>5. \A l \in Lanes : /\ kept[l] = IF l \in s.selected THEN 0 ELSE s.pending[l]
                         /\ kept[l] + sent[l] = s.pending[l] + s.dispatched[l]
    BY DEF D02Inv
  <2> HIDE DEF sent, kept
  <2>6. e.log = s.log /\ e.pending = kept /\ e.dispatched = sent /\ a[1] = "flush"
    BY <1>4, <2>2
  <2> QED BY <1>0, <2>4, <2>5, <2>6 DEF D02Moves
<1>5. CASE a[1] = "queue"
  <2> DEFINE once == adjustSelected(s.pending, s.selected, s.unit)
             twice == adjustSelected(once, s.selected, s.unit)
  <2>1. PICK m \in {1, 2} : a = <<"queue", m>>
    BY <1>5 DEF D02Actions
  <2>2. /\ once \in [Lanes -> Nat]
        /\ \A l \in Lanes : /\ l \notin s.selected => once[l] = s.pending[l]
                            /\ l \in s.selected => once[l] = s.pending[l] + s.unit
    BY Adjusted DEF D02Inv
  <2>3. /\ twice \in [Lanes -> Nat]
        /\ \A l \in Lanes : /\ l \notin s.selected => twice[l] = once[l]
                            /\ l \in s.selected => twice[l] = once[l] + s.unit
    <3> HIDE DEF once
    <3> QED BY <2>2, Adjusted DEF D02Inv
  <2>4. /\ m = 1 => e = [s EXCEPT !.pending = once]
        /\ m = 2 => e = [s EXCEPT !.pending = twice]
    BY <2>1 DEF D02Effect, D02Preserving
  <2> HIDE DEF e, once, twice
  <2>5. CASE m = 1
    <3>1. e = [pending |-> once, dispatched |-> s.dispatched, selected |-> s.selected,
               unit |-> s.unit, log |-> s.log]
      BY <2>4, <2>5 DEF D02Inv
    <3>2. D02Inv(e)
      BY <2>2, <3>1 DEF D02Inv
    <3>3. /\ e.log = s.log /\ e.pending = once /\ e.dispatched = s.dispatched
          /\ a[1] = "queue" /\ a[2] = 1
      BY <2>1, <2>5, <3>1
    <3>4. \A l \in Lanes : once[l] = s.pending[l] + (IF l \in s.selected THEN a[2] * s.unit ELSE 0)
      BY <1>0, <2>2, <3>3
    <3> QED BY <1>0, <2>2, <3>2, <3>3, <3>4 DEF D02Moves
  <2>6. CASE m = 2
    <3>1. e = [pending |-> twice, dispatched |-> s.dispatched, selected |-> s.selected,
               unit |-> s.unit, log |-> s.log]
      BY <2>4, <2>6 DEF D02Inv
    <3>2. D02Inv(e)
      BY <2>3, <3>1 DEF D02Inv
    <3>3. /\ e.log = s.log /\ e.pending = twice /\ e.dispatched = s.dispatched
          /\ a[1] = "queue" /\ a[2] = 2
      BY <2>1, <2>6, <3>1
    <3>4. \A l \in Lanes : twice[l] = s.pending[l] + (IF l \in s.selected THEN a[2] * s.unit ELSE 0)
      BY <1>0, <2>2, <2>3, <3>3
    <3> QED BY <1>0, <2>2, <2>3, <3>2, <3>3, <3>4 DEF D02Moves
  <2> QED BY <2>5, <2>6
<1> HIDE DEF e
<1> QED BY <1>1, <1>2, <1>3, <1>4, <1>5 DEF D02Actions

LEMMA D02Keeps ==
  ASSUME NEW s, D02Inv(s), NEW a \in D02Actions
  PROVE  LET t == D02Step("preserving", s, a) IN D02Inv(t) /\ D02Contract(s, a, t)
<1> DEFINE e == D02Effect("preserving", s, a)
           t == D02Step("preserving", s, a)
           label == D02Label(a, s.unit)
<1>1. CASE D02Rejects(a)
  BY <1>1 DEF D02Step, D02Contract
<1>2. CASE ~D02Rejects(a)
  <2>1. D02Moves(s, a, e)
    BY <1>2, D02EffectMoves
  <2>2. t = [e EXCEPT !.log = Append(e.log, label)]
    BY <1>2 DEF D02Step
  <2> HIDE DEF e, t, label
  <2>3. D02Inv(e) /\ IsLog(e.log)
    BY <2>1 DEF D02Moves, D02Inv
  <2>4. /\ IsLog(Append(e.log, label)) /\ Len(Append(e.log, label)) = Len(e.log) + 1
        /\ Front(Append(e.log, label)) = e.log
    BY <2>3, LogGrows
  <2>5. t = [pending |-> e.pending, dispatched |-> e.dispatched, selected |-> e.selected,
             unit |-> e.unit, log |-> Append(e.log, label)]
    BY <2>2, <2>3 DEF D02Inv
  <2>6. D02Inv(t)
    BY <2>3, <2>4, <2>5 DEF D02Inv
  <2>7. OneMoreLabel(s, t)
    BY <2>1, <2>4, <2>5 DEF OneMoreLabel, D02Moves
  <2>8. t.pending = e.pending /\ t.dispatched = e.dispatched
    BY <2>5
  <2>9. D02Contract(s, a, t)
    BY <1>2, <2>1, <2>7, <2>8 DEF D02Contract, D02Moves
  <2> QED BY <2>6, <2>9 DEF t
<1> QED BY <1>1, <1>2

-----------------------------------------------------------------------------
(* BG-D03.  Its canonical script also plans a variety no free trial plans. *)

D03Played == D03Actions \cup {<<"add", "radish">>, <<"setPacketCount", "radish", 3>>}

Packets == [varietyId : Varieties, packetCount : Nat \ {0}]

\* A plan names no variety twice.
IsPlan(u) ==
  /\ u \in Seq(Packets)
  /\ \A i, j \in DOMAIN u : u[i].varietyId = u[j].varietyId => i = j

D03Inv(s) ==
  /\ s = [selected |-> s.selected, total |-> s.total, result |-> s.result]
  /\ IsPlan(s.selected)

\* Varieties other than id are planned before and after in the same order, with
\* the same packets.
SameOrder(s, id, t) ==
  \A p, q \in Range(s.selected) \cup Range(t.selected) :
    id \notin {p.varietyId, q.varietyId} => (Before(s, p, q) <=> Before(t, p, q))

LEMMA D03Mounted == D03Inv(D03Mount)
BY DEF D03Inv, D03Mount, IsPlan

\* A packet of an unplanned variety goes last.
LEMMA AddedLast ==
  ASSUME NEW s, IsPlan(s.selected), NEW id \in Varieties, ~IsPlanned(s, id), NEW t,
         t.selected = Append(s.selected, Planned(id, 1))
  PROVE  IsPlan(t.selected) /\ SameOrder(s, id, t)
<1> DEFINE S == s.selected
           T == t.selected
           n == Len(S)
<1>1. Planned(id, 1) \in Packets /\ Planned(id, 1).varietyId = id
  BY DEF Planned, Packets
<1>2. /\ S \in Seq(Packets) /\ T \in Seq(Packets) /\ n \in Nat
      /\ DOMAIN S = 1 .. n /\ DOMAIN T = 1 .. n + 1
      /\ \A i \in 1 .. n : T[i] = S[i]
      /\ T[n + 1].varietyId = id
  BY <1>1 DEF IsPlan
<1>3. \A i \in 1 .. n : S[i].varietyId # id
  BY <1>2 DEF IsPlanned
<1>4. \A i, j \in 1 .. n : S[i].varietyId = S[j].varietyId => i = j
  BY <1>2 DEF IsPlan
<1> HIDE DEF S, T, n
<1>5. IsPlan(T)
  BY <1>2, <1>3, <1>4 DEF IsPlan
<1>6. ASSUME NEW p, NEW q, id \notin {p.varietyId, q.varietyId}
      PROVE  Before(s, p, q) <=> Before(t, p, q)
  <2>1. ASSUME NEW i \in DOMAIN S, NEW j \in DOMAIN S, i <= j, S[i] = p, S[j] = q
        PROVE  \E k, l \in DOMAIN T : k <= l /\ T[k] = p /\ T[l] = q
    BY <1>2, <2>1
  <2>2. ASSUME NEW i \in DOMAIN T, NEW j \in DOMAIN T, i <= j, T[i] = p, T[j] = q
        PROVE  \E k, l \in DOMAIN S : k <= l /\ S[k] = p /\ S[l] = q
    BY <1>2, <1>6, <2>2
  <2> QED BY <2>1, <2>2 DEF Before, S, T
<1> QED BY <1>5, <1>6 DEF SameOrder, T

\* Another count stays at its place.
LEMMA CountedInPlace ==
  ASSUME NEW s, IsPlan(s.selected), NEW id \in Varieties, NEW k \in Nat \ {0}, NEW t,
         t.selected = [i \in DOMAIN s.selected |->
                         IF s.selected[i].varietyId = id THEN Planned(id, k) ELSE s.selected[i]]
  PROVE  IsPlan(t.selected) /\ SameOrder(s, id, t)
<1> DEFINE S == s.selected
           T == t.selected
           n == Len(S)
<1>1. Planned(id, k) \in Packets /\ Planned(id, k).varietyId = id
  BY DEF Planned, Packets
<1>2. /\ S \in Seq(Packets) /\ n \in Nat /\ DOMAIN S = 1 .. n
      /\ T = [i \in 1 .. n |-> IF S[i].varietyId = id THEN Planned(id, k) ELSE S[i]]
  BY DEF IsPlan
<1>3. \A i, j \in 1 .. n : S[i].varietyId = S[j].varietyId => i = j
  BY <1>2 DEF IsPlan
<1> HIDE DEF S, T, n
<1>4. /\ T \in Seq(Packets) /\ DOMAIN T = 1 .. n
      /\ \A i \in 1 .. n : /\ T[i].varietyId = S[i].varietyId
                           /\ S[i].varietyId # id => T[i] = S[i]
  BY <1>1, <1>2
<1>5. IsPlan(T)
  BY <1>3, <1>4 DEF IsPlan
<1>6. ASSUME NEW p, NEW q, id \notin {p.varietyId, q.varietyId}
      PROVE  Before(s, p, q) <=> Before(t, p, q)
  <2>1. ASSUME NEW i \in DOMAIN S, NEW j \in DOMAIN S, i <= j, S[i] = p, S[j] = q
        PROVE  \E g, h \in DOMAIN T : g <= h /\ T[g] = p /\ T[h] = q
    BY <1>2, <1>4, <1>6, <2>1
  <2>2. ASSUME NEW i \in DOMAIN T, NEW j \in DOMAIN T, i <= j, T[i] = p, T[j] = q
        PROVE  \E g, h \in DOMAIN S : g <= h /\ S[g] = p /\ S[h] = q
    BY <1>2, <1>4, <1>6, <2>2
  <2> QED BY <2>1, <2>2 DEF Before, S, T
<1> QED BY <1>5, <1>6 DEF SameOrder, T

\* The packets after the removed one move up by one place.
LEMMA RemovedFrom ==
  ASSUME NEW s, IsPlan(s.selected), NEW id, NEW k \in DOMAIN s.selected,
         s.selected[k].varietyId = id, NEW t,
         t.selected = RemoveAt(s.selected, k)
  PROVE  IsPlan(t.selected) /\ SameOrder(s, id, t)
<1> DEFINE S == s.selected
           T == t.selected
           n == Len(S)
<1>1. S \in Seq(Packets) /\ n \in Nat /\ DOMAIN S = 1 .. n /\ k \in 1 .. n
  BY DEF IsPlan
<1>2. /\ T \in Seq(Packets) /\ DOMAIN T = 1 .. n - 1
      /\ \A i \in 1 .. n - 1 : T[i] = IF i < k THEN S[i] ELSE S[i + 1]
  <2>1. T = SubSeq(S, 1, k - 1) \o SubSeq(S, k + 1, n)
    BY DEF RemoveAt
  <2> DEFINE front == SubSeq(S, 1, k - 1)
             back == SubSeq(S, k + 1, n)
  <2> HIDE DEF S, T, n
  <2>2. /\ front \in Seq(Packets) /\ Len(front) = k - 1
        /\ \A i \in 1 .. k - 1 : front[i] = S[i]
    BY <1>1
  <2>3. back \in Seq(Packets) /\ Len(back) = n - k
    BY <1>1
  <2>4. \A i \in 1 .. n - k : back[i] = S[k + i]
    BY <1>1
  <2> HIDE DEF front, back
  <2>5. T = front \o back
    BY <2>1 DEF front, back
  <2>6. T \in Seq(Packets) /\ Len(T) = n - 1 /\ DOMAIN T = 1 .. n - 1
    BY <1>1, <2>2, <2>3, <2>5
  <2>7. ASSUME NEW i \in 1 .. n - 1
        PROVE  T[i] = IF i < k THEN S[i] ELSE S[i + 1]
    <3>1. CASE i < k
      BY <1>1, <2>2, <2>3, <2>5, <3>1
    <3>2. CASE ~(i < k)
      <4>1. T[i] = back[i - (k - 1)] /\ i - (k - 1) \in 1 .. n - k
        BY <1>1, <2>2, <2>3, <2>5, <3>2, SMTT(30)
      <4> QED BY <1>1, <2>4, <3>2, <4>1
    <3> QED BY <3>1, <3>2
  <2> QED BY <2>6, <2>7
<1>3. \A i, j \in 1 .. n : S[i].varietyId = S[j].varietyId => i = j
  BY <1>1 DEF IsPlan
<1>4. S[k].varietyId = id
  OBVIOUS
<1> HIDE DEF S, T, n
<1>5. IsPlan(T)
  <2>1. ASSUME NEW i \in 1 .. n - 1, NEW j \in 1 .. n - 1, T[i].varietyId = T[j].varietyId
        PROVE  i = j
    <3> DEFINE at(h) == IF h < k THEN h ELSE h + 1
    <3>1. at(i) \in 1 .. n /\ at(j) \in 1 .. n /\ T[i] = S[at(i)] /\ T[j] = S[at(j)]
      BY <1>1, <1>2
    <3>2. at(i) = at(j)
      BY <1>3, <2>1, <3>1
    <3> QED BY <1>1, <3>2
  <2> QED BY <1>2, <2>1 DEF IsPlan
<1>6. ASSUME NEW p, NEW q, id \notin {p.varietyId, q.varietyId}
      PROVE  Before(s, p, q) <=> Before(t, p, q)
  <2>1. ASSUME NEW i \in DOMAIN S, NEW j \in DOMAIN S, i <= j, S[i] = p, S[j] = q
        PROVE  \E g, h \in DOMAIN T : g <= h /\ T[g] = p /\ T[h] = q
    <3> DEFINE to(h) == IF h < k THEN h ELSE h - 1
    <3>1. i # k /\ j # k
      BY <1>4, <1>6, <2>1
    <3>2. /\ to(i) \in DOMAIN T /\ to(j) \in DOMAIN T /\ to(i) <= to(j)
          /\ T[to(i)] = S[i] /\ T[to(j)] = S[j]
      BY <1>1, <1>2, <2>1, <3>1
    <3> QED BY <2>1, <3>2
  <2>2. ASSUME NEW i \in DOMAIN T, NEW j \in DOMAIN T, i <= j, T[i] = p, T[j] = q
        PROVE  \E g, h \in DOMAIN S : g <= h /\ S[g] = p /\ S[h] = q
    <3> DEFINE at(h) == IF h < k THEN h ELSE h + 1
    <3>1. /\ at(i) \in DOMAIN S /\ at(j) \in DOMAIN S /\ at(i) <= at(j)
          /\ S[at(i)] = T[i] /\ S[at(j)] = T[j]
      BY <1>1, <1>2, <2>2
    <3> QED BY <2>2, <3>1
  <2> QED BY <2>1, <2>2 DEF Before, S, T
<1> QED BY <1>5, <1>6 DEF SameOrder, T

LEMMA D03Keeps ==
  ASSUME NEW s, D03Inv(s), NEW a \in D03Played
  PROVE  LET t == D03Step("preserving", s, a)
         IN  D03Inv(t) /\ D03Contract("preserving", s, a, t)
<1> DEFINE t == D03Step("preserving", s, a)
<1>1. D03Observe("preserving", t).occupied = CellsPlanned(t.selected)
  BY DEF D03Observe
<1>2. CASE ~D03Applies(s, a)
  <2>1. t = [s EXCEPT !.result = "false"]
    BY <1>2 DEF D03Step, D03Preserving
  <2> HIDE DEF t
  <2>2. t = [selected |-> s.selected, total |-> s.total, result |-> "false"]
    BY <2>1 DEF D03Inv
  <2>3. D03Inv(t) /\ t.selected = s.selected
    BY <2>2 DEF D03Inv
  <2> QED BY <1>1, <2>3 DEF D03Contract, D03Inv, IsPlan, Before, t
<1>3. CASE D03Applies(s, a)
  <2> DEFINE result == IF a[1] = "reset" THEN s.result ELSE "true"
  <2>1. t = [s EXCEPT !.selected = D03Selected(s, a), !.result = result]
    BY <1>3 DEF D03Step, D03Preserving
  <2> HIDE DEF t, result
  <2>2. t = [selected |-> D03Selected(s, a), total |-> s.total, result |-> result]
    BY <2>1 DEF D03Inv
  <2>3. t.selected = D03Selected(s, a) /\ t.result = result /\ IsPlan(s.selected)
    BY <2>2 DEF D03Inv
  <2>4. IsPlan(t.selected) /\ (a[1] # "reset" => SameOrder(s, a[2], t))
    <3>1. CASE a = <<"reset">>
      BY <2>3, <3>1 DEF D03Selected, IsPlan
    <3>2. CASE a[1] = "add"
      <4>1. a[2] \in Varieties /\ ~IsPlanned(s, a[2])
        BY <1>3, <3>2 DEF D03Applies
      <4>2. t.selected = Append(s.selected, Planned(a[2], 1))
        BY <2>3, <3>2 DEF D03Selected
      <4> QED BY <2>3, <4>1, <4>2, AddedLast
    <3>3. CASE a[1] = "setPacketCount"
      <4>1. a[2] \in Varieties /\ a[3] \in Nat \ {0}
        BY <1>3, <3>3 DEF D03Applies, D03Played, D03Actions, Varieties
      <4>2. t.selected = [i \in DOMAIN s.selected |->
                            IF s.selected[i].varietyId = a[2] THEN Planned(a[2], a[3])
                            ELSE s.selected[i]]
        BY <2>3, <3>3 DEF D03Selected
      <4> QED BY <2>3, <4>1, <4>2, CountedInPlace
    <3>4. CASE a[1] = "remove"
      <4> DEFINE k == PlaceOf(s, a[2])
      <4>1. k \in DOMAIN s.selected /\ s.selected[k].varietyId = a[2]
        BY <1>3, <3>4 DEF D03Applies, IsPlanned, PlaceOf
      <4>2. t.selected = RemoveAt(s.selected, k)
        BY <2>3, <3>4 DEF D03Selected
      <4> HIDE DEF k
      <4> QED BY <2>3, <4>1, <4>2, RemovedFrom
    <3> QED BY <3>1, <3>2, <3>3, <3>4 DEF D03Played, D03Actions
  <2>5. D03Inv(t)
    BY <2>2, <2>4 DEF D03Inv
  <2>6. t.result = "false" /\ a[1] # "reset" => t.selected = s.selected
    BY <2>3 DEF result
  <2> QED BY <1>1, <2>4, <2>5, <2>6 DEF D03Contract, IsPlan, SameOrder, t
<1> QED BY <1>2, <1>3

-----------------------------------------------------------------------------
(* BG-D04.  The scripts publish other values than the free trials. *)

D04Played == D04Actions \cup {<<"publish", ch, v>> : ch \in Channels, v \in {3, 5, 7}}

D04Inv(s) ==
  /\ s = [channel |-> s.channel, bulletin |-> s.bulletin, mounted |-> s.mounted,
          listeners |-> s.listeners]
  /\ s.channel \in Channels /\ s.mounted \in BOOLEAN /\ s.listeners \in [Channels -> Nat]
  /\ D04Contract(s)

LEMMA D04Mounted == D04Inv(D04Mount)
BY DEF D04Inv, D04Mount, D04Contract, Channels

LEMMA D04Keeps ==
  ASSUME NEW s, D04Inv(s), s.mounted, NEW a \in D04Played
  PROVE  D04Inv(D04Step("preserving", s, a))
<1> DEFINE t == D04Step("preserving", s, a)
<1> SUFFICES D04Inv(t)
  OBVIOUS
<1>0. /\ s.channel \in Channels /\ s.mounted = TRUE
      /\ s.listeners = [c \in Channels |-> IF c = s.channel THEN 1 ELSE 0]
      /\ s.bulletin # NoBulletin => s.bulletin[1] = s.channel
  BY DEF D04Inv, D04Contract
<1>1. CASE a[1] = "publish"
  <2>1. PICK ch \in Channels, v \in {-1, 2, 3, 5, 7} : a = <<"publish", ch, v>>
    BY <1>1 DEF D04Played, D04Actions
  <2>2. t = D04Publish(s, ch, v)
    BY <2>1 DEF D04Step
  <2>3. CASE v < 0 \/ s.listeners[ch] = 0
    BY <2>2, <2>3 DEF D04Publish
  <2>4. CASE ~(v < 0 \/ s.listeners[ch] = 0)
    <3>1. ch = s.channel
      BY <1>0, <2>1, <2>4
    <3>2. t = [s EXCEPT !.bulletin = <<ch, v>>]
      BY <2>2, <2>4 DEF D04Publish
    <3> HIDE DEF t
    <3>3. t = [channel |-> s.channel, bulletin |-> <<ch, v>>, mounted |-> s.mounted,
               listeners |-> s.listeners]
      BY <3>2 DEF D04Inv
    <3> QED BY <3>1, <3>3 DEF D04Inv, D04Contract
  <2> QED BY <2>3, <2>4
<1>2. CASE a[1] \in {"switch", "reset"}
  <2> DEFINE ch == IF a[1] = "switch" THEN a[2] ELSE "harbor"
             heard == [c \in Channels |-> s.listeners[c] + (IF c = ch THEN 1 ELSE 0)
                                                        - (IF c = s.channel THEN 1 ELSE 0)]
  <2>1. ch \in Channels
    BY <1>2 DEF D04Played, D04Actions, Channels
  <2>2. t = [s EXCEPT !.channel = ch, !.bulletin = NoBulletin, !.listeners = heard]
    BY <1>2 DEF D04Step, D04Select, D04Preserving
  <2> HIDE DEF t, ch
  <2>3. heard = [c \in Channels |-> IF c = ch THEN 1 ELSE 0]
    BY <1>0, <2>1
  <2> HIDE DEF heard
  <2>4. t = [channel |-> ch, bulletin |-> NoBulletin, mounted |-> s.mounted, listeners |-> heard]
    BY <2>2 DEF D04Inv
  <2>5. heard \in [Channels -> Nat] /\ \A c \in Channels : heard[c] = IF c = ch THEN 1 ELSE 0
    BY <2>3
  <2> QED BY <1>0, <2>1, <2>4, <2>5 DEF D04Inv, D04Contract
<1>3. CASE a[1] = "dispose"
  <2> DEFINE heard == [s.listeners EXCEPT ![s.channel] = s.listeners[s.channel] - 1]
  <2>1. t = [s EXCEPT !.mounted = FALSE, !.listeners = heard]
    BY <1>3 DEF D04Step, D04Dispose
  <2> HIDE DEF t
  <2>2. heard = [c \in Channels |-> 0]
    BY <1>0
  <2> HIDE DEF heard
  <2>3. t = [channel |-> s.channel, bulletin |-> s.bulletin, mounted |-> FALSE, listeners |-> heard]
    BY <2>1 DEF D04Inv
  <2>4. heard \in [Channels -> Nat] /\ \A c \in Channels : heard[c] = 0
    BY <2>2
  <2> QED BY <1>0, <2>3, <2>4 DEF D04Inv, D04Contract
<1> HIDE DEF t
<1> QED BY <1>1, <1>2, <1>3 DEF D04Played, D04Actions

-----------------------------------------------------------------------------
(* BG-H01. *)

H01Inv(s) ==
  /\ s = [current |-> s.current, title |-> s.title, theme |-> s.theme, log |-> s.log,
          thrown |-> s.thrown]
  /\ s.current = CardProps(s.current.cardId, s.current.initialTitle, s.current.initialTheme)
  /\ IsLog(s.log)

LEMMA H01Mounted == H01Inv(H01Mount)
BY OneLabelIsLog DEF H01Inv, H01Mount, Card01, CardProps

\* One label more on the log, whatever the other fields become.
LEMMA H01Logs ==
  ASSUME NEW s, H01Inv(s), NEW label, NEW current, NEW title, NEW theme,
         current = CardProps(current.cardId, current.initialTitle, current.initialTheme),
         NEW t, t = [current |-> current, title |-> title, theme |-> theme,
                     log |-> Append(s.log, label), thrown |-> s.thrown]
  PROVE  H01Inv(t) /\ OneMoreLabel(s, t)
<1>1. /\ IsLog(Append(s.log, label)) /\ Len(Append(s.log, label)) = Len(s.log) + 1
      /\ Front(Append(s.log, label)) = s.log
  BY LogGrows DEF H01Inv
<1> QED BY <1>1 DEF H01Inv, OneMoreLabel

LEMMA H01Cases ==
  ASSUME NEW a \in H01Actions
  PROVE  \/ a = <<"edit-title", "Lunar-map">> \/ a = <<"edit-theme", "green">>
         \/ a = <<"reset-current">>
         \/ \E p \in {Card01, Card02, Card01Renamed, CardBlank} : a = <<"rerender", p>>
BY Zenon DEF H01Actions

LEMMA EditIsNoRender ==
  ASSUME NEW a, \/ a = <<"edit-title", "Lunar-map">> \/ a = <<"edit-theme", "green">>
                \/ a = <<"reset-current">>
  PROVE  a[1] # "rerender"
<1>1. CASE a = <<"edit-title", "Lunar-map">>
  BY <1>1
<1>2. CASE a = <<"edit-theme", "green">>
  BY <1>2
<1>3. CASE a = <<"reset-current">>
  BY <1>3
<1> QED BY <1>1, <1>2, <1>3

LEMMA H01Keeps ==
  ASSUME NEW s, H01Inv(s), NEW a \in H01Actions
  PROVE  LET t == H01Step("preserving", s, a) IN H01Inv(t) /\ H01Contract(s, a, t)
<1> DEFINE t == H01Step("preserving", s, a)
<1> SUFFICES H01Inv(t) /\ H01Contract(s, a, t)
  OBVIOUS
<1>1. CASE \/ a = <<"edit-title", "Lunar-map">> \/ a = <<"edit-theme", "green">>
           \/ a = <<"reset-current">>
  <2> DEFINE title == CASE a[1] = "edit-title" -> a[2]
                        [] a[1] = "edit-theme" -> s.title
                        [] a[1] = "reset-current" -> s.current.initialTitle
             theme == CASE a[1] = "edit-title" -> s.theme
                        [] a[1] = "edit-theme" -> a[2]
                        [] a[1] = "reset-current" -> s.current.initialTheme
             label == IF a[1] = "reset-current" THEN a ELSE <<a[1], s.current.cardId>>
             edited == [current |-> s.current, title |-> title, theme |-> theme,
                        log |-> Append(s.log, label), thrown |-> s.thrown]
  <2>1. t = edited
    <3>1. s = [current |-> s.current, title |-> s.title, theme |-> s.theme, log |-> s.log,
               thrown |-> s.thrown]
      BY DEF H01Inv
    <3>2. CASE a = <<"edit-title", "Lunar-map">>
      BY <3>1, <3>2 DEF H01Step, H01Dispatch
    <3>3. CASE a = <<"edit-theme", "green">>
      BY <3>1, <3>3 DEF H01Step, H01Dispatch
    <3>4. CASE a = <<"reset-current">>
      BY <3>1, <3>4 DEF H01Step, H01Dispatch
    <3> QED BY <1>1, <3>2, <3>3, <3>4
  <2> HIDE DEF t, title, theme, label
  <2>2. H01Inv(t) /\ OneMoreLabel(s, t)
    BY <2>1, H01Logs DEF H01Inv
  <2>3. t.current = s.current
    BY <2>1
  <2>4. a[1] # "rerender"
    BY <1>1, EditIsNoRender
  <2> QED BY <2>2, <2>3, <2>4 DEF H01Contract
<1>2. CASE \E p \in {Card01, Card02, Card01Renamed, CardBlank} : a = <<"rerender", p>>
  <2>1. PICK p \in {Card01, Card02, Card01Renamed, CardBlank} : a = <<"rerender", p>>
    BY <1>2
  <2>2. p = CardProps(p.cardId, p.initialTitle, p.initialTheme)
    BY DEF Card01, Card02, Card01Renamed, CardBlank, CardProps
  <2>3. t = H01Rerender("preserving", s, p)
    BY <2>1 DEF H01Step
  <2> HIDE DEF t
  <2>4. CASE ~assertCardProps(p)
    <3>1. t = s
      BY <2>3, <2>4 DEF H01Rerender
    <3> QED BY <2>1, <2>4, <3>1 DEF H01Contract
  <2>5. CASE assertCardProps(p) /\ H01Unstable(s, p)
    <3>1. t = [s EXCEPT !.thrown = TRUE]
      BY <2>3, <2>5 DEF H01Rerender
    <3>2. t = [current |-> s.current, title |-> s.title, theme |-> s.theme, log |-> s.log,
               thrown |-> TRUE]
      BY <3>1 DEF H01Inv
    <3>3. H01Inv(t)
      BY <3>2 DEF H01Inv
    <3> QED BY <3>2, <3>3 DEF H01Contract
  <2>6. CASE assertCardProps(p) /\ ~H01Unstable(s, p) /\ p.cardId = s.current.cardId
    <3>1. t = [s EXCEPT !.log = Append(s.log, <<"rerender", p.cardId>>)]
      BY <2>3, <2>6 DEF H01Rerender, H01Preserving
    <3>2. t = [current |-> s.current, title |-> s.title, theme |-> s.theme,
               log |-> Append(s.log, <<"rerender", p.cardId>>), thrown |-> s.thrown]
      BY <3>1 DEF H01Inv
    <3>3. H01Inv(t) /\ OneMoreLabel(s, t)
      BY <3>2, H01Logs DEF H01Inv
    <3>4. t.current = s.current /\ t.title = s.title /\ t.theme = s.theme
      BY <3>2
    <3> QED BY <3>3, <3>4 DEF H01Contract
  <2>7. CASE assertCardProps(p) /\ p.cardId # s.current.cardId
    <3>1. ~H01Unstable(s, p)
      BY <2>7 DEF H01Unstable
    <3>2. t = [[s EXCEPT !.current = p, !.title = p.initialTitle, !.theme = p.initialTheme]
                 EXCEPT !.log = Append(s.log, <<"rerender", p.cardId>>)]
      BY <2>3, <2>7, <3>1 DEF H01Rerender, H01Preserving, H01Inv
    <3>3. t = [current |-> p, title |-> p.initialTitle, theme |-> p.initialTheme,
               log |-> Append(s.log, <<"rerender", p.cardId>>), thrown |-> s.thrown]
      BY <3>2 DEF H01Inv
    <3>4. H01Inv(t) /\ OneMoreLabel(s, t)
      BY <2>2, <3>3, H01Logs
    <3>5. /\ t.current = p /\ t.title = p.initialTitle /\ t.theme = p.initialTheme
          /\ ~isDirty(t)
      BY <3>3 DEF isDirty
    <3> QED BY <2>7, <3>4, <3>5 DEF H01Contract
  <2> QED BY <2>4, <2>5, <2>6, <2>7
<1> HIDE DEF t
<1> QED BY <1>1, <1>2, H01Cases

-----------------------------------------------------------------------------
(* BG-H02.  The latest epoch belongs to the latest request, if it asked for *)
(* anything since the last reset, and to no other.                          *)

Handles == [guide : Guides, epoch : Nat, pending : BOOLEAN]

H02Typed(s) ==
  /\ s = [guide |-> s.guide, status |-> s.status, content |-> s.content, epoch |-> s.epoch,
          requests |-> s.requests, log |-> s.log]
  /\ s.status \in {"idle", "loading", "ready"} /\ s.epoch \in Nat
  /\ s.requests \in Seq(Handles)

H02Inv(s) ==
  /\ H02Typed(s)
  /\ \A i \in DOMAIN s.requests :
       /\ s.requests[i].epoch <= s.epoch
       /\ s.requests[i].epoch = s.epoch => i = Len(s.requests) /\ s.status # "idle"
  /\ s.status # "idle" =>
       /\ s.requests # <<>>
       /\ LET latest == s.requests[Len(s.requests)]
          IN  /\ latest.epoch = s.epoch /\ latest.guide = s.guide
              /\ latest.pending <=> s.status = "loading"
  /\ s.content = IF s.status = "ready" THEN s.guide ELSE NoGuide

LEMMA H02Types ==
  ASSUME NEW s, H02Inv(s)
  PROVE  /\ H02Typed(s)
         /\ \A i \in DOMAIN s.requests :
              /\ i \in Nat /\ s.requests[i] \in Handles
              /\ s.requests[i].epoch \in Nat /\ s.requests[i].epoch <= s.epoch
<1>1. H02Typed(s) /\ \A i \in DOMAIN s.requests : s.requests[i].epoch <= s.epoch
  BY DEF H02Inv
<1>2. ASSUME NEW i \in DOMAIN s.requests
      PROVE  i \in Nat /\ s.requests[i] \in Handles
  BY <1>1, <1>2 DEF H02Typed
<1>3. \A h \in Handles : h.epoch \in Nat
  BY DEF Handles
<1> QED BY <1>1, <1>2, <1>3

LEMMA H02Mounted == H02Inv(H02Mount)
<1>1. <<>> \in Seq(Handles)
  OBVIOUS
<1> QED BY <1>1 DEF H02Inv, H02Typed, H02Mount

LEMMA H02Selects ==
  ASSUME NEW s, H02Inv(s), NEW g \in Guides
  PROVE  LET t == H02Select(s, g)
         IN  H02Inv(t) /\ t.content = NoGuide /\ t.status = "loading"
<1> DEFINE t == H02Select(s, g)
           request == [guide |-> g, epoch |-> s.epoch + 1, pending |-> TRUE]
           requests == Append(s.requests, request)
           n == Len(s.requests)
<1>0. /\ s = [guide |-> s.guide, status |-> s.status, content |-> s.content, epoch |-> s.epoch,
              requests |-> s.requests, log |-> s.log]
      /\ s.requests \in Seq(Handles) /\ s.epoch \in Nat
  BY DEF H02Inv, H02Typed
<1>1. t = [guide |-> g, status |-> "loading", content |-> NoGuide, epoch |-> s.epoch + 1,
           requests |-> requests, log |-> Append(s.log, <<"select", g>>)]
  <2> DEFINE u == [s EXCEPT !.epoch = s.epoch + 1, !.guide = g, !.status = "loading",
                            !.content = NoGuide, !.log = Append(s.log, <<"select", g>>)]
             v == [guide |-> g, status |-> "loading", content |-> NoGuide,
                   epoch |-> s.epoch + 1, requests |-> s.requests,
                   log |-> Append(s.log, <<"select", g>>)]
  <2>1. u = v
    <3>1. u = [s EXCEPT !.epoch = s.epoch + 1, !.guide = g, !.status = "loading",
                        !.content = NoGuide, !.log = Append(s.log, <<"select", g>>)]
      OBVIOUS
    <3> HIDE DEF u
    <3> QED BY <1>0, <3>1
  <2>2. t = [u EXCEPT !.requests = Append(u.requests, [guide |-> g, epoch |-> u.epoch, pending |-> TRUE])]
    BY DEF H02Select, H02Request
  <2> HIDE DEF t, u
  <2>3. t = [v EXCEPT !.requests = Append(s.requests, request)]
    BY <2>1, <2>2
  <2> HIDE DEF request
  <2> QED BY <2>3
<1>2. request \in Handles /\ s.requests \in Seq(Handles) /\ n \in Nat /\ s.epoch \in Nat
  BY <1>0 DEF Handles
<1>3. /\ requests \in Seq(Handles) /\ Len(requests) = n + 1 /\ requests # <<>>
      /\ requests[n + 1] = request
      /\ \A i \in 1 .. n : requests[i] = s.requests[i]
  <2> HIDE DEF request
  <2> QED BY <1>2
<1>4. \A i \in 1 .. n : s.requests[i].epoch \in Nat /\ s.requests[i].epoch <= s.epoch
  BY <1>2, H02Types
<1>5. request.epoch = s.epoch + 1 /\ request.guide = g /\ request.pending = TRUE
  OBVIOUS
<1> HIDE DEF t, request, requests, n
<1>6. H02Typed(t)
  BY <1>1, <1>2, <1>3 DEF H02Typed
<1>7. \A i \in DOMAIN requests :
        /\ requests[i].epoch <= s.epoch + 1
        /\ requests[i].epoch = s.epoch + 1 => i = n + 1
  BY <1>2, <1>3, <1>4, <1>5
<1>8. H02Inv(t)
  BY <1>1, <1>3, <1>5, <1>6, <1>7 DEF H02Inv
<1> QED BY <1>1, <1>8 DEF t

LEMMA H02Resets ==
  ASSUME NEW s, H02Inv(s)
  PROVE  LET t == H02Reset(s)
         IN  H02Inv(t) /\ t.content = NoGuide /\ t.status = "idle"
<1> DEFINE t == H02Reset(s)
<1>1. t = [guide |-> NoGuide, status |-> "idle", content |-> NoGuide, epoch |-> s.epoch + 1,
           requests |-> s.requests, log |-> Append(s.log, <<"reset">>)]
  <2>1. t = [s EXCEPT !.epoch = s.epoch + 1, !.guide = NoGuide, !.status = "idle",
                      !.content = NoGuide, !.log = Append(s.log, <<"reset">>)]
    BY DEF H02Reset
  <2> HIDE DEF t
  <2> QED BY <2>1 DEF H02Inv, H02Typed
<1>2. s.requests \in Seq(Handles) /\ s.epoch \in Nat
  BY H02Types DEF H02Typed
<1>3. \A i \in DOMAIN s.requests : s.requests[i].epoch \in Nat /\ s.requests[i].epoch <= s.epoch
  BY H02Types
<1> HIDE DEF t
<1>4. H02Typed(t)
  BY <1>1, <1>2 DEF H02Typed
<1>5. H02Inv(t)
  BY <1>1, <1>2, <1>3, <1>4 DEF H02Inv
<1> QED BY <1>1, <1>5 DEF t

\* A completion that is not of the latest request only uses its handle up.
LEMMA H02Completes ==
  ASSUME NEW s, H02Inv(s), NEW i
  PROVE  LET t == H02Complete("preserving", s, i)
         IN  /\ H02Inv(t)
             /\ t.content # s.content => i = Len(s.requests) /\ s.status = "loading"
<1> DEFINE t == H02Complete("preserving", s, i)
           n == Len(s.requests)
<1> SUFFICES H02Inv(t) /\ (t.content # s.content => i = n /\ s.status = "loading")
  OBVIOUS
<1>1. CASE i \notin DOMAIN s.requests \/ ~s.requests[i].pending
  BY <1>1 DEF H02Complete
<1>2. CASE i \in DOMAIN s.requests /\ s.requests[i].pending
  <2> DEFINE used == [s.requests[i] EXCEPT !.pending = FALSE]
             requests == [s.requests EXCEPT ![i] = used]
             u == [s EXCEPT !.requests = requests]
  <2>1. t = H02Callback("preserving", u, i)
    BY <1>2 DEF H02Complete
  <2>2. /\ s.requests \in Seq(Handles) /\ n \in Nat /\ DOMAIN s.requests = 1 .. n /\ i \in 1 .. n
        /\ s.requests[i] \in Handles
    BY <1>2 DEF H02Inv, H02Typed
  <2>3. /\ used = [guide |-> s.requests[i].guide, epoch |-> s.requests[i].epoch, pending |-> FALSE]
        /\ used \in Handles
    <3> DEFINE handle == s.requests[i]
    <3>1. handle \in Handles
      BY <2>2
    <3> HIDE DEF handle, used
    <3>2. used = [handle EXCEPT !.pending = FALSE]
      BY DEF used, handle
    <3>3. /\ used = [guide |-> handle.guide, epoch |-> handle.epoch, pending |-> FALSE]
          /\ used \in Handles
      BY <3>1, <3>2 DEF Handles
    <3> QED BY <3>3 DEF handle
  <2>4. u = [guide |-> s.guide, status |-> s.status, content |-> s.content, epoch |-> s.epoch,
             requests |-> requests, log |-> s.log]
    <3> HIDE DEF requests
    <3> QED BY H02Types DEF H02Typed
  <2> HIDE DEF t, used, n
  <2>5. /\ requests \in Seq(Handles) /\ Len(requests) = n /\ DOMAIN requests = 1 .. n
        /\ requests[i] = used
        /\ \A j \in 1 .. n : j # i => requests[j] = s.requests[j]
    BY <2>2, <2>3
  <2> HIDE DEF requests, u
  <2>6. /\ \A j \in 1 .. n : /\ requests[j].epoch = s.requests[j].epoch
                             /\ requests[j].guide = s.requests[j].guide
                             /\ j # i => requests[j].pending = s.requests[j].pending
        /\ requests[i].pending = FALSE /\ requests # <<>>
    BY <2>2, <2>3, <2>5
  <2>7. CASE requests[i].epoch # s.epoch
    <3>1. t = u
      BY <2>1, <2>4, <2>7 DEF H02Callback
    <3>2. H02Typed(u)
      BY <2>4, <2>5 DEF H02Inv, H02Typed
    <3>3. s.status # "idle" => i # n
      BY <2>2, <2>6, <2>7 DEF H02Inv, n
    <3>4. s.status # "idle" => n \in 1 .. n
      BY <2>2
    <3>5. H02Inv(u)
      BY <2>2, <2>4, <2>5, <2>6, <3>2, <3>3, <3>4 DEF H02Inv, n
    <3> QED BY <2>4, <3>1, <3>5
  <2>8. CASE requests[i].epoch = s.epoch
    <3>1. i = n /\ s.status # "idle"
      BY <2>2, <2>6, <2>8 DEF H02Inv, n
    <3>2. s.status = "loading"
      BY <1>2, <3>1 DEF H02Inv, n
    <3>3. requests[i].guide = s.guide
      BY <2>2, <2>6, <3>1 DEF H02Inv, n
    <3>4. t = [u EXCEPT !.content = u.requests[i].guide, !.status = "ready"]
      BY <2>1, <2>4, <2>8 DEF H02Callback, H02Publish
    <3>5. t = [guide |-> s.guide, status |-> "ready", content |-> s.guide, epoch |-> s.epoch,
               requests |-> requests, log |-> s.log]
      BY <2>4, <3>3, <3>4
    <3>6. H02Typed(t)
      BY <2>5, <3>5 DEF H02Inv, H02Typed
    <3>7. \A j \in 1 .. n : /\ requests[j].epoch <= s.epoch
                            /\ requests[j].epoch = s.epoch => j = n
      BY <2>2, <2>6 DEF H02Inv, n
    <3>8. H02Inv(t)
      BY <2>5, <2>6, <2>8, <3>1, <3>3, <3>5, <3>6, <3>7 DEF H02Inv
    <3> QED BY <3>1, <3>2, <3>8
  <2> QED BY <2>7, <2>8
<1> QED BY <1>1, <1>2

LEMMA H02Keeps ==
  ASSUME NEW s, H02Inv(s), NEW a \in H02Actions
  PROVE  LET t == H02Step("preserving", s, a) IN H02Inv(t) /\ H02Contract(s, a, t)
<1> DEFINE t == H02Step("preserving", s, a)
<1> SUFFICES H02Inv(t) /\ H02Contract(s, a, t)
  OBVIOUS
<1>1. ASSUME H02Inv(t),
             a[1] = "complete" /\ t.content # s.content => a[2] = Len(s.requests) /\ s.status = "loading"
      PROVE  H02Inv(t) /\ H02Contract(s, a, t)
  <2> HIDE DEF t
  <2>1. t.content # NoGuide => t.status = "ready" /\ t.content = t.guide
    BY <1>1 DEF H02Inv
  <2>2. t.status = "loading" => t.requests[Len(t.requests)].pending
    BY <1>1 DEF H02Inv
  <2> QED BY <1>1, <2>1, <2>2 DEF H02Contract
<1>2. CASE a[1] = "select"
  <2>1. PICK g \in Guides : a = <<"select", g>>
    BY <1>2 DEF H02Actions
  <2>2. t = H02Select(s, g) /\ a[1] # "complete"
    BY <2>1 DEF H02Step
  <2> QED BY <1>1, <2>2, H02Selects
<1>3. CASE a[1] = "complete"
  <2>1. t = H02Complete("preserving", s, a[2])
    BY <1>3 DEF H02Step
  <2> QED BY <1>1, <2>1, H02Completes
<1>4. CASE a[1] = "reset"
  <2>1. t = H02Reset(s) /\ a[1] # "complete"
    BY <1>4 DEF H02Step
  <2> QED BY <1>1, <2>1, H02Resets
<1> HIDE DEF t
<1> QED BY <1>2, <1>3, <1>4 DEF H02Actions

-----------------------------------------------------------------------------
(* BG-H03.  Its canonical script writes one more note. *)

H03Played == H03Actions \cup {<<"set-note", "autumn">>}

H03Inv(s) ==
  /\ s = [selected |-> s.selected, handle |-> s.handle, label |-> s.label, note |-> s.note,
          attachments |-> s.attachments, log |-> s.log]
  /\ s.label = s.selected /\ s.handle \in Nat /\ s.attachments \in Nat

LEMMA H03Mounted == H03Inv(H03Mount)
BY DEF H03Inv, H03Mount

\* A choice makes a handle exactly when it changes the selection.
LEMMA H03Chooses ==
  ASSUME NEW s, H03Inv(s), NEW id
  PROVE  LET t == H03Choose(s, id)
         IN  H03Inv(t) /\ H03Contract(s, t)
<1> DEFINE t == H03Choose(s, id)
<1> SUFFICES H03Inv(t) /\ H03Contract(s, t)
  OBVIOUS
<1>1. CASE id = s.selected
  BY <1>1 DEF H03Choose, H03Contract, H03Inv
<1>2. CASE id # s.selected
  <2> DEFINE u == [s EXCEPT !.selected = id]
             v == [selected |-> id, handle |-> s.handle, label |-> s.label, note |-> s.note,
                   attachments |-> s.attachments, log |-> s.log]
  <2>1. u = v
    <3>1. u = [s EXCEPT !.selected = id]
      OBVIOUS
    <3> HIDE DEF u
    <3> QED BY <3>1 DEF H03Inv
  <2>2. t = [u EXCEPT !.handle = u.handle + 1, !.label = id, !.attachments = u.attachments + 1]
    BY <1>2 DEF H03Choose, createSelectionHandle
  <2> HIDE DEF t, u
  <2>3. t = [selected |-> id, handle |-> s.handle + 1, label |-> id, note |-> s.note,
             attachments |-> s.attachments + 1, log |-> s.log]
    BY <2>1, <2>2
  <2> QED BY <1>2, <2>3 DEF H03Inv, H03Contract
<1> QED BY <1>1, <1>2

LEMMA H03Keeps ==
  ASSUME NEW s, H03Inv(s), NEW a \in H03Played
  PROVE  LET t == H03Step("preserving", s, a) IN H03Inv(t) /\ H03Contract(s, t)
<1> DEFINE e == H03Preserving(s, a)
           t == H03Step("preserving", s, a)
<1> SUFFICES H03Inv(t) /\ H03Contract(s, t)
  OBVIOUS
<1>1. ASSUME H03Inv(e), H03Contract(s, e)
      PROVE  H03Inv(t) /\ H03Contract(s, t)
  <2>1. t = [e EXCEPT !.log = Append(e.log, a)]
    BY DEF H03Step
  <2> HIDE DEF e, t
  <2>2. t = [selected |-> e.selected, handle |-> e.handle, label |-> e.label, note |-> e.note,
             attachments |-> e.attachments, log |-> Append(e.log, a)]
    BY <1>1, <2>1 DEF H03Inv
  <2> QED BY <1>1, <2>2 DEF H03Inv, H03Contract
<1>2. CASE a[1] = "set-note"
  <2>1. e = [s EXCEPT !.note = a[2]]
    BY <1>2 DEF H03Preserving
  <2>2. H03Inv(e) /\ H03Contract(s, e)
    <3> HIDE DEF e
    <3>1. e = [selected |-> s.selected, handle |-> s.handle, label |-> s.label, note |-> a[2],
               attachments |-> s.attachments, log |-> s.log]
      BY <2>1 DEF H03Inv
    <3> QED BY <3>1 DEF H03Inv, H03Contract
  <2> QED BY <1>1, <2>2
<1>3. CASE a[1] = "select"
  <2>1. e = H03Choose(s, a[2])
    BY <1>3 DEF H03Preserving
  <2> QED BY <1>1, <2>1, H03Chooses
<1>4. CASE a[1] = "reset"
  <2> DEFINE u == [s EXCEPT !.note = NoNote]
  <2>1. e = H03Choose(u, "herbs")
    BY <1>4 DEF H03Preserving
  <2>2. /\ H03Inv(u)
        /\ u.selected = s.selected /\ u.handle = s.handle /\ u.attachments = s.attachments
    <3>1. u = [s EXCEPT !.note = NoNote]
      OBVIOUS
    <3> HIDE DEF u
    <3>2. u = [selected |-> s.selected, handle |-> s.handle, label |-> s.label, note |-> NoNote,
               attachments |-> s.attachments, log |-> s.log]
      BY <3>1 DEF H03Inv
    <3> QED BY <3>2 DEF H03Inv
  <2> HIDE DEF u
  <2>3. H03Inv(e) /\ H03Contract(u, e)
    BY <2>1, <2>2, H03Chooses
  <2>4. H03Contract(s, e)
    BY <2>2, <2>3 DEF H03Contract
  <2> QED BY <1>1, <2>3, <2>4
<1> HIDE DEF e, t
<1> QED BY <1>2, <1>3, <1>4 DEF H03Played, H03Actions

-----------------------------------------------------------------------------
(* BG-H04. *)

H04Inv(s) ==
  /\ s = [note |-> s.note, active |-> s.active, drawer |-> s.drawer, mounts |-> s.mounts,
          cleanups |-> s.cleanups, log |-> s.log, disposed |-> s.disposed]
  /\ s.active \in BOOLEAN /\ s.disposed \in BOOLEAN /\ s.mounts \in Nat /\ s.cleanups \in Nat
  /\ s.drawer = [generation |-> s.drawer.generation, draft |-> s.drawer.draft]
  /\ s.drawer # NoDrawer => s.drawer.generation \in Nat \ {0}
  /\ (s.drawer # NoDrawer) = (s.active /\ ~s.disposed)
  /\ s.mounts - s.cleanups = (IF s.drawer = NoDrawer THEN 0 ELSE 1)

LEMMA H04MountedInv == H04Inv(H04Mount("preserving"))
BY DEF H04Inv, H04Mount, H04Parent, NoDrawer

\* An unmount closes the drawer and counts one cleanup.
LEMMA H04Cleans ==
  ASSUME NEW s, s.drawer # NoDrawer, s.mounts \in Nat, s.cleanups \in Nat,
         s = [note |-> s.note, active |-> s.active, drawer |-> s.drawer, mounts |-> s.mounts,
              cleanups |-> s.cleanups, log |-> s.log, disposed |-> s.disposed]
  PROVE  H04Cleaned(s) =
           [note |-> s.note, active |-> s.active, drawer |-> NoDrawer, mounts |-> s.mounts,
            cleanups |-> s.cleanups + 1, log |-> s.log, disposed |-> s.disposed]
<1> DEFINE u == [s EXCEPT !.mounts = s.mounts + 0, !.cleanups = s.cleanups + 1]
           t == H04Cleaned(s)
<1>1. u = [s EXCEPT !.mounts = s.mounts + 0, !.cleanups = s.cleanups + 1]
  OBVIOUS
<1>2. t = [u EXCEPT !.drawer = NoDrawer]
  BY DEF H04Cleaned, H04Ledger
<1> HIDE DEF u, t
<1>3. u = [s EXCEPT !.mounts = s.mounts, !.cleanups = s.cleanups + 1]
  <2>1. s.mounts + 0 = s.mounts
    OBVIOUS
  <2> QED BY <1>1, <2>1, Zenon
<1>4. u = [note |-> s.note, active |-> s.active, drawer |-> s.drawer, mounts |-> s.mounts,
           cleanups |-> s.cleanups + 1, log |-> s.log, disposed |-> s.disposed]
  BY <1>3
<1>5. t = [note |-> s.note, active |-> s.active, drawer |-> NoDrawer, mounts |-> s.mounts,
           cleanups |-> s.cleanups + 1, log |-> s.log, disposed |-> s.disposed]
  BY <1>2, <1>4
<1> QED BY <1>5 DEF t

LEMMA H04Dispatches ==
  ASSUME NEW s, H04Inv(s), ~s.disposed, NEW a \in H04Actions
  PROVE  LET e == H04Dispatch("preserving", s, a)
         IN  H04Inv(e) /\ H04Contract(s, e) /\ (a[1] # "dispose" => ~e.disposed)
<1> DEFINE e == H04Dispatch("preserving", s, a)
<1> SUFFICES H04Inv(e) /\ H04Contract(s, e) /\ (a[1] # "dispose" => ~e.disposed)
  OBVIOUS
<1>0. /\ s = [note |-> s.note, active |-> s.active, drawer |-> s.drawer, mounts |-> s.mounts,
              cleanups |-> s.cleanups, log |-> s.log, disposed |-> s.disposed]
      /\ s.disposed = FALSE /\ s.active \in BOOLEAN
      /\ s.mounts \in Nat /\ s.cleanups \in Nat
  BY DEF H04Inv
<1>1. s.drawer # NoDrawer <=> s.active
  BY DEF H04Inv
<1>2. CASE a = <<"activate">>
  <2>1. CASE s.active
    <3>1. e = [s EXCEPT !.active = TRUE]
      BY <1>2, <2>1 DEF H04Dispatch, H04Activate
    <3>2. e = s
      <4> HIDE DEF e
      <4> QED BY <1>0, <2>1, <3>1
    <3> QED BY <3>2 DEF H04Inv, H04Contract
  <2>2. CASE ~s.active
    <3> DEFINE u == [s EXCEPT !.active = TRUE]
               v == [u EXCEPT !.mounts = u.mounts + 1, !.cleanups = u.cleanups + 0]
               drawer == [generation |-> s.mounts + 1, draft |-> s.note]
    <3>1. e = [v EXCEPT !.drawer = [generation |-> v.mounts, draft |-> u.note]]
      BY <1>2, <2>2 DEF H04Dispatch, H04Activate, H04Mounted, H04Ledger
    <3>2. u = [note |-> s.note, active |-> TRUE, drawer |-> s.drawer, mounts |-> s.mounts,
               cleanups |-> s.cleanups, log |-> s.log, disposed |-> s.disposed]
      <4>1. u = [s EXCEPT !.active = TRUE]
        OBVIOUS
      <4> HIDE DEF u
      <4> QED BY <1>0, <4>1
    <3>3. v = [note |-> s.note, active |-> TRUE, drawer |-> s.drawer, mounts |-> s.mounts + 1,
               cleanups |-> s.cleanups, log |-> s.log, disposed |-> s.disposed]
      <4>1. v = [u EXCEPT !.mounts = u.mounts + 1, !.cleanups = u.cleanups + 0]
        OBVIOUS
      <4> HIDE DEF u, v
      <4>2. v = [u EXCEPT !.mounts = s.mounts + 1, !.cleanups = s.cleanups]
        <5>1. u.mounts + 1 = s.mounts + 1 /\ u.cleanups + 0 = s.cleanups
          BY <1>0, <3>2
        <5> QED BY <4>1, <5>1, Zenon
      <4> QED BY <3>2, <4>2
    <3> HIDE DEF e, u, v, drawer
    <3>4. e = [v EXCEPT !.drawer = drawer]
      BY <3>1, <3>2, <3>3 DEF drawer
    <3>5. e = [note |-> s.note, active |-> TRUE, drawer |-> drawer, mounts |-> s.mounts + 1,
               cleanups |-> s.cleanups, log |-> s.log, disposed |-> s.disposed]
      BY <3>3, <3>4
    <3>6. /\ drawer = [generation |-> drawer.generation, draft |-> drawer.draft]
          /\ drawer.generation \in Nat \ {0} /\ drawer # NoDrawer
          /\ drawer = [generation |-> s.mounts + 1, draft |-> s.note]
      BY <1>0 DEF drawer, NoDrawer
    <3>7. s.drawer = NoDrawer /\ s.mounts - s.cleanups = 0
      BY <1>1, <2>2 DEF H04Inv
    <3> QED BY <1>0, <3>5, <3>6, <3>7 DEF H04Inv, H04Contract
  <2> QED BY <2>1, <2>2
<1>3. CASE a = <<"deactivate">>
  <2> DEFINE u == [s EXCEPT !.active = FALSE]
  <2>1. e = H04Cleaned(u)
    BY <1>3 DEF H04Dispatch, H04Deactivate
  <2>2. u = [note |-> s.note, active |-> FALSE, drawer |-> s.drawer, mounts |-> s.mounts,
             cleanups |-> s.cleanups, log |-> s.log, disposed |-> s.disposed]
    <3>1. u = [s EXCEPT !.active = FALSE]
      OBVIOUS
    <3> HIDE DEF u
    <3> QED BY <1>0, <3>1
  <2> HIDE DEF u, e
  <2>3. CASE s.drawer = NoDrawer
    <3>1. e = u
      BY <2>1, <2>2, <2>3 DEF H04Cleaned
    <3> QED BY <1>0, <2>2, <2>3, <3>1 DEF H04Inv, H04Contract
  <2>4. CASE s.drawer # NoDrawer
    <3>0. /\ u.note = s.note /\ u.active = FALSE /\ u.drawer = s.drawer /\ u.mounts = s.mounts
          /\ u.cleanups = s.cleanups /\ u.log = s.log /\ u.disposed = s.disposed
      BY <2>2
    <3>1. e = [note |-> s.note, active |-> FALSE, drawer |-> NoDrawer, mounts |-> s.mounts,
               cleanups |-> s.cleanups + 1, log |-> s.log, disposed |-> s.disposed]
      <4>1. u = [note |-> u.note, active |-> u.active, drawer |-> u.drawer, mounts |-> u.mounts,
                 cleanups |-> u.cleanups, log |-> u.log, disposed |-> u.disposed]
        BY <2>2, <3>0, Zenon
      <4>2. e = [note |-> u.note, active |-> u.active, drawer |-> NoDrawer, mounts |-> u.mounts,
                 cleanups |-> u.cleanups + 1, log |-> u.log, disposed |-> u.disposed]
        BY <1>0, <2>1, <2>4, <3>0, <4>1, H04Cleans
      <4> QED BY <3>0, <4>2, Zenon
    <3>2. s.mounts - s.cleanups = 1
      BY <2>4 DEF H04Inv
    <3>3. NoDrawer = [generation |-> NoDrawer.generation, draft |-> NoDrawer.draft]
      BY DEF NoDrawer
    <3> QED BY <1>0, <3>1, <3>2, <3>3 DEF H04Inv, H04Contract
  <2> QED BY <2>3, <2>4
<1>4. CASE a = <<"edit-draft", "check">>
  <2>1. e = H04Edit(s, "check")
    BY <1>4 DEF H04Dispatch
  <2>2. CASE s.drawer = NoDrawer
    BY <2>1, <2>2 DEF H04Edit, H04Inv, H04Contract
  <2>3. CASE s.drawer # NoDrawer
    <3> DEFINE drawer == [s.drawer EXCEPT !.draft = "check"]
    <3>1. e = [s EXCEPT !.drawer = drawer]
      BY <2>1, <2>3 DEF H04Edit
    <3>2. drawer = [generation |-> s.drawer.generation, draft |-> "check"]
      BY DEF H04Inv
    <3> HIDE DEF e, drawer
    <3>3. e = [note |-> s.note, active |-> s.active, drawer |-> drawer, mounts |-> s.mounts,
               cleanups |-> s.cleanups, log |-> s.log, disposed |-> s.disposed]
      BY <1>0, <3>1
    <3>4. /\ drawer = [generation |-> drawer.generation, draft |-> drawer.draft]
          /\ drawer.generation \in Nat \ {0} /\ drawer # NoDrawer
      BY <2>3, <3>2 DEF H04Inv, NoDrawer
    <3>5. s.active /\ s.mounts - s.cleanups = 1
      BY <1>1, <2>3 DEF H04Inv
    <3> QED BY <1>0, <2>3, <3>3, <3>4, <3>5 DEF H04Inv, H04Contract
  <2> QED BY <2>2, <2>3
<1>5. CASE a = <<"set-source-note", "focus">>
  <2>1. e = [s EXCEPT !.note = "focus"]
    BY <1>5 DEF H04Dispatch
  <2> HIDE DEF e
  <2>2. e = [note |-> "focus", active |-> s.active, drawer |-> s.drawer, mounts |-> s.mounts,
             cleanups |-> s.cleanups, log |-> s.log, disposed |-> s.disposed]
    BY <1>0, <2>1
  <2> QED BY <2>2 DEF H04Inv, H04Contract
<1>6. CASE a = <<"dispose">>
  <2> DEFINE u == H04Cleaned(s)
             cleanups == IF s.drawer = NoDrawer THEN s.cleanups ELSE s.cleanups + 1
  <2>1. e = [u EXCEPT !.disposed = TRUE]
    BY <1>6 DEF H04Dispatch
  <2>2. u = [note |-> s.note, active |-> s.active, drawer |-> NoDrawer, mounts |-> s.mounts,
             cleanups |-> cleanups, log |-> s.log, disposed |-> s.disposed]
    <3>1. CASE s.drawer = NoDrawer
      BY <1>0, <3>1 DEF H04Cleaned
    <3>2. CASE s.drawer # NoDrawer
      BY <1>0, <3>2, H04Cleans
    <3> QED BY <3>1, <3>2
  <2> HIDE DEF e, u
  <2>3. e = [note |-> s.note, active |-> s.active, drawer |-> NoDrawer, mounts |-> s.mounts,
             cleanups |-> cleanups, log |-> s.log, disposed |-> TRUE]
    BY <2>1, <2>2
  <2>4. cleanups \in Nat /\ s.mounts - cleanups = 0
    BY <1>0 DEF H04Inv
  <2>5. NoDrawer = [generation |-> NoDrawer.generation, draft |-> NoDrawer.draft]
    BY DEF NoDrawer
  <2> HIDE DEF cleanups
  <2> QED BY <1>0, <1>6, <2>3, <2>4, <2>5 DEF H04Inv, H04Contract
<1> HIDE DEF e
<1> QED BY <1>2, <1>3, <1>4, <1>5, <1>6 DEF H04Actions

LEMMA H04Keeps ==
  ASSUME NEW s, H04Inv(s), ~s.disposed, NEW a \in H04Actions
  PROVE  LET t == H04Step("preserving", s, a)
         IN  H04Inv(t) /\ H04Contract(s, t) /\ (a[1] # "dispose" => ~t.disposed)
<1> DEFINE e == H04Dispatch("preserving", s, a)
           t == H04Step("preserving", s, a)
<1>1. H04Inv(e) /\ H04Contract(s, e) /\ (a[1] # "dispose" => ~e.disposed)
  BY H04Dispatches
<1>2. t = [e EXCEPT !.log = Append(e.log, a)]
  BY DEF H04Step
<1> HIDE DEF e, t
<1>3. t = [note |-> e.note, active |-> e.active, drawer |-> e.drawer, mounts |-> e.mounts,
           cleanups |-> e.cleanups, log |-> Append(e.log, a), disposed |-> e.disposed]
  BY <1>1, <1>2 DEF H04Inv
<1>4. H04Inv(t)
  BY <1>1, <1>3 DEF H04Inv
<1>5. H04Contract(s, t)
  BY <1>1, <1>3 DEF H04Contract
<1>6. a[1] # "dispose" => ~t.disposed
  BY <1>1, <1>3
<1> QED BY <1>4, <1>5, <1>6 DEF t

-----------------------------------------------------------------------------
(* BG-H05. *)

H05Inv(s) ==
  /\ s = [store |-> s.store, shown |-> s.shown, mounted |-> s.mounted,
          subscribers |-> s.subscribers, notified |-> s.notified]
  /\ s.store = [unit |-> s.store.unit, revision |-> s.store.revision]
  /\ s.store.revision \in Nat
  /\ DOMAIN s.shown = Readouts /\ s.notified \in [Readouts -> Nat]
  /\ s.shown = [r \in Readouts |-> s.shown[r]]
  /\ s.mounted \subseteq Readouts /\ s.subscribers = s.mounted
  /\ \A r \in s.mounted : s.shown[r] = s.store

LEMMA H05MountedInv == \A m : H05Inv(H05Mount("preserving", m \in {Free, Canonical}))
<1> SUFFICES ASSUME NEW m PROVE H05Inv(H05Mount("preserving", m \in {Free, Canonical}))
  OBVIOUS
<1> DEFINE up == IF m \in {Free, Canonical} THEN Readouts ELSE {"north"}
           shown == [r \in Readouts |-> IF r \in up THEN H05Initial ELSE NoReadout]
           notified == [r \in Readouts |-> 0]
           s == H05Mount("preserving", m \in {Free, Canonical})
<1>1. s = [store |-> H05Initial, shown |-> shown, mounted |-> up, subscribers |-> up,
           notified |-> notified]
  BY DEF H05Mount
<1>2. /\ up \subseteq Readouts /\ notified \in [Readouts -> Nat] /\ DOMAIN shown = Readouts
      /\ shown = [r \in Readouts |-> shown[r]]
      /\ \A r \in up : shown[r] = H05Initial
  BY DEF Readouts
<1>3. /\ H05Initial = [unit |-> H05Initial.unit, revision |-> H05Initial.revision]
      /\ H05Initial.revision \in Nat
  BY DEF H05Initial
<1> HIDE DEF s, up, shown, notified
<1>4. H05Inv(s)
  BY <1>1, <1>2, <1>3 DEF H05Inv
<1> QED BY <1>4 DEF s

\* A write shows itself on every mounted readout and on no other.
LEMMA H05Writes ==
  ASSUME NEW s, H05Inv(s), NEW u
  PROVE  LET t == H05Write(s, u) IN H05Inv(t) /\ H05Contract(s, t)
<1> DEFINE t == H05Write(s, u)
           next == [unit |-> u, revision |-> s.store.revision + 1]
           shown == [r \in Readouts |-> IF r \in s.subscribers THEN next ELSE s.shown[r]]
           notified == [r \in Readouts |-> IF r \in s.subscribers THEN s.notified[r] + 1
                                           ELSE s.notified[r]]
<1> SUFFICES H05Inv(t) /\ H05Contract(s, t)
  OBVIOUS
<1>1. CASE u = s.store.unit
  BY <1>1 DEF H05Write, H05Inv, H05Contract
<1>2. CASE u # s.store.unit
  <2>1. t = [s EXCEPT !.store = next, !.shown = shown, !.notified = notified]
    BY <1>2 DEF H05Write
  <2>2. /\ next = [unit |-> next.unit, revision |-> next.revision]
        /\ next.unit = u /\ next.revision = s.store.revision + 1 /\ next.revision \in Nat
    BY DEF H05Inv
  <2>3. /\ DOMAIN shown = Readouts /\ shown = [r \in Readouts |-> shown[r]]
        /\ notified \in [Readouts -> Nat]
        /\ \A r \in s.mounted : shown[r] = next
        /\ \A r \in Readouts \ s.mounted : shown[r] = s.shown[r] /\ notified[r] = s.notified[r]
    <3> HIDE DEF next
    <3> QED BY DEF H05Inv
  <2> HIDE DEF t, next, shown, notified
  <2>4. t = [store |-> next, shown |-> shown, mounted |-> s.mounted,
             subscribers |-> s.subscribers, notified |-> notified]
    BY <2>1 DEF H05Inv
  <2>5. H05Inv(t)
    BY <2>2, <2>3, <2>4 DEF H05Inv
  <2> QED BY <1>2, <2>2, <2>3, <2>4, <2>5 DEF H05Inv, H05Contract
<1> QED BY <1>1, <1>2

LEMMA H05Unmounts ==
  ASSUME NEW s, H05Inv(s), NEW gone
  PROVE  LET t == H05Unmount(s, gone) IN H05Inv(t) /\ H05Contract(s, t)
<1> DEFINE t == H05Unmount(s, gone)
<1>1. t = [s EXCEPT !.mounted = s.mounted \ gone, !.subscribers = s.subscribers \ gone]
  BY DEF H05Unmount
<1> HIDE DEF t
<1>2. t = [store |-> s.store, shown |-> s.shown, mounted |-> s.mounted \ gone,
           subscribers |-> s.subscribers \ gone, notified |-> s.notified]
  BY <1>1 DEF H05Inv
<1>3. H05Inv(t)
  BY <1>2 DEF H05Inv
<1>4. H05Contract(s, t)
  BY <1>2 DEF H05Inv, H05Contract
<1> QED BY <1>3, <1>4 DEF t

LEMMA H05Remounts ==
  ASSUME NEW s, H05Inv(s)
  PROVE  LET t == H05RemountSouth("preserving", s) IN H05Inv(t) /\ H05Contract(s, t)
<1> DEFINE t == H05RemountSouth("preserving", s)
           up == s.mounted \cup {"south"}
           shown == [s.shown EXCEPT !["south"] = s.store]
<1> SUFFICES H05Inv(t) /\ H05Contract(s, t)
  OBVIOUS
<1>1. CASE "south" \in s.mounted
  BY <1>1 DEF H05RemountSouth, H05Inv, H05Contract
<1>2. CASE "south" \notin s.mounted
  <2>1. t = [s EXCEPT !.mounted = up, !.shown = shown, !.subscribers = s.subscribers \cup {"south"}]
    BY <1>2 DEF H05RemountSouth
  <2>2. /\ DOMAIN shown = Readouts /\ shown = [r \in Readouts |-> shown[r]]
        /\ shown["south"] = s.store /\ \A r \in Readouts \ {"south"} : shown[r] = s.shown[r]
        /\ up \subseteq Readouts
    BY DEF H05Inv, Readouts
  <2> HIDE DEF t, shown
  <2>3. t = [store |-> s.store, shown |-> shown, mounted |-> up,
             subscribers |-> s.subscribers \cup {"south"}, notified |-> s.notified]
    BY <2>1 DEF H05Inv
  <2>4. H05Inv(t)
    BY <2>2, <2>3 DEF H05Inv
  <2> QED BY <2>2, <2>3, <2>4 DEF H05Inv, H05Contract
<1> QED BY <1>1, <1>2

LEMMA H05Keeps ==
  ASSUME NEW s, H05Inv(s), NEW a \in H05Actions
  PROVE  LET t == H05Step("preserving", s, a) IN H05Inv(t) /\ H05Contract(s, t)
<1> DEFINE t == H05Step("preserving", s, a)
<1> SUFFICES H05Inv(t) /\ H05Contract(s, t)
  OBVIOUS
<1>1. CASE a[1] \in {"toolbarWrite", "externalWrite"}
  <2>1. t = H05Write(s, a[2])
    BY <1>1 DEF H05Step
  <2> QED BY <2>1, H05Writes
<1>2. CASE a[1] \in {"unmountSouth", "dispose"}
  <2>1. t = H05Unmount(s, IF a[1] = "dispose" THEN Readouts ELSE {"south"})
    BY <1>2 DEF H05Step
  <2> QED BY <2>1, H05Unmounts
<1>3. CASE a[1] = "remountSouth"
  <2>1. t = H05RemountSouth("preserving", s)
    BY <1>3 DEF H05Step
  <2> QED BY <2>1, H05Remounts
<1> HIDE DEF t
<1> QED BY <1>1, <1>2, <1>3 DEF H05Actions

-----------------------------------------------------------------------------
(* BG-H06. *)

H06Inv(s) ==
  /\ s = [displayed |-> s.displayed, committed |-> s.committed, status |-> s.status,
          error |-> s.error, pending |-> s.pending]
  /\ s.status \in {"idle", "saving"} /\ s.error \in BOOLEAN
  /\ s.status = "idle" => s.displayed = s.committed /\ s.pending = NoSave
  /\ s.status = "saving" => s.pending = <<s.displayed, s.committed>> /\ s.displayed # s.committed

LEMMA H06Mounted == H06Inv(H06Mount)
BY DEF H06Inv, H06Mount

LEMMA H06Keeps ==
  ASSUME NEW s, H06Inv(s), NEW a \in H06Actions
  PROVE  LET t == H06Step("preserving", s, a) IN H06Inv(t) /\ H06Contract(s, a, t)
<1> DEFINE t == H06Step("preserving", s, a)
<1> SUFFICES H06Inv(t) /\ H06Contract(s, a, t)
  OBVIOUS
<1>1. s.status = "saving" <=> s.pending # NoSave
  BY DEF H06Inv, NoSave
<1>2. CASE t = s
  BY <1>2 DEF H06Inv, H06Contract
<1>3. CASE a[1] = "choose" /\ t # s
  <2>1. t = H06Choose(s, a[2])
    BY <1>3 DEF H06Step
  <2>2. ~(s.status = "saving" \/ a[2] = s.committed)
    BY <1>3, <2>1 DEF H06Choose
  <2>3. t = [s EXCEPT !.displayed = a[2], !.status = "saving", !.error = FALSE,
                      !.pending = <<a[2], s.committed>>]
    BY <2>1, <2>2 DEF H06Choose
  <2> HIDE DEF t
  <2>4. t = [displayed |-> a[2], committed |-> s.committed, status |-> "saving", error |-> FALSE,
             pending |-> <<a[2], s.committed>>]
    BY <2>3 DEF H06Inv
  <2> QED BY <2>2, <2>4 DEF H06Inv, H06Contract
<1>4. CASE a[1] = "dismiss-error"
  <2>1. t = [s EXCEPT !.error = FALSE]
    BY <1>4 DEF H06Step
  <2> HIDE DEF t
  <2>2. t = [displayed |-> s.displayed, committed |-> s.committed, status |-> s.status,
             error |-> FALSE, pending |-> s.pending]
    BY <2>1 DEF H06Inv
  <2> QED BY <2>2 DEF H06Inv, H06Contract
<1>5. CASE a[1] = "resolve" /\ t # s
  <2>1. s.pending # NoSave
    BY <1>5 DEF H06Step
  <2>2. /\ s.status = "saving" /\ s.pending = <<s.displayed, s.committed>>
        /\ s.displayed # s.committed
    BY <1>1, <2>1 DEF H06Inv
  <2>3. t = [s EXCEPT !.displayed = s.displayed, !.committed = s.displayed, !.status = "idle",
                      !.error = FALSE, !.pending = NoSave]
    BY <1>5, <2>1, <2>2 DEF H06Step, H06Settled
  <2> HIDE DEF t
  <2>4. t = [displayed |-> s.displayed, committed |-> s.displayed, status |-> "idle",
             error |-> FALSE, pending |-> NoSave]
    BY <2>3 DEF H06Inv
  <2> QED BY <1>5, <2>4 DEF H06Inv, H06Contract
<1>6. CASE a[1] = "reject" /\ t # s
  <2>1. s.pending # NoSave
    BY <1>6 DEF H06Step
  <2>2. s.pending[2] = s.committed
    BY <1>1, <2>1 DEF H06Inv
  <2>3. t = [s EXCEPT !.displayed = s.committed, !.committed = s.committed, !.status = "idle",
                      !.error = TRUE, !.pending = NoSave]
    BY <1>6, <2>1, <2>2 DEF H06Step, H06RejectPreserving, H06Settled
  <2> HIDE DEF t
  <2>4. t = [displayed |-> s.committed, committed |-> s.committed, status |-> "idle",
             error |-> TRUE, pending |-> NoSave]
    BY <2>3 DEF H06Inv
  <2> QED BY <1>6, <2>4 DEF H06Inv, H06Contract
<1> HIDE DEF t
<1> QED BY <1>2, <1>3, <1>4, <1>5, <1>6 DEF H06Actions

-----------------------------------------------------------------------------
(* The trial. *)

Played(f) ==
  CASE f = "D03" -> D03Played [] f = "D04" -> D04Played [] f = "H03" -> H03Played
    [] OTHER -> ActionsOf(f)

StateInv(f, s) ==
  CASE f = "D01" -> D01Inv(s) [] f = "D02" -> D02Inv(s) [] f = "D03" -> D03Inv(s)
    [] f = "D04" -> D04Inv(s) [] f = "H01" -> H01Inv(s) [] f = "H02" -> H02Inv(s)
    [] f = "H03" -> H03Inv(s) [] f = "H04" -> H04Inv(s) [] f = "H05" -> H05Inv(s)
    [] f = "H06" -> H06Inv(s)

\* The candidate has been unmounted and is not to be played further.
Over(f, s) == (f = "D04" /\ ~s.mounted) \/ (f = "H04" /\ s.disposed)

\* A script plays its fixture's actions, and a disposal only as the last one.
Fits(f, actions) ==
  /\ actions \in Seq(Played(f))
  /\ \A i \in DOMAIN actions : actions[i][1] = "dispose" => i = Len(actions)

TrialInv ==
  /\ fixture \in Fixtures /\ candidate \in Candidates(fixture)
  /\ mode = Free => script = <<>>
  /\ candidate # "false_green" =>
       /\ StateInv(fixture, state)
       /\ Fits(fixture, script)
       /\ script # <<>> => ~Over(fixture, state)

\* The scripts of each fixture fit it.

LEMMA D01Scripts ==
  /\ Fits("D01", D01Canonical)
  /\ \A k \in DOMAIN D01Visible : Fits("D01", D01Visible[k])
<1>1. Played("D01") = D01Actions
  BY DEF Played, ActionsOf
<1>2. Fits("D01", D01Canonical)
  BY <1>1 DEF Fits, D01Canonical, D01Actions
<1>3. DOMAIN D01Visible = 1 .. 5
  BY DEF D01Visible
<1>4. Fits("D01", D01Visible[1])
  BY <1>1 DEF Fits, D01Visible, D01Actions
<1>5. Fits("D01", D01Visible[2])
  BY <1>1 DEF Fits, D01Visible, D01Actions
<1>6. Fits("D01", D01Visible[3])
  BY <1>1 DEF Fits, D01Visible, D01Actions
<1>7. Fits("D01", D01Visible[4])
  BY <1>1 DEF Fits, D01Visible, D01Actions
<1>8. Fits("D01", D01Visible[5])
  BY <1>1 DEF Fits, D01Visible, D01Actions
<1> QED BY <1>2, <1>3, <1>4, <1>5, <1>6, <1>7, <1>8

LEMMA D02Scripts ==
  /\ Fits("D02", D02Canonical)
  /\ \A k \in DOMAIN D02Visible : Fits("D02", D02Visible[k])
<1>1. Played("D02") = D02Actions
  BY DEF Played, ActionsOf
<1>2. Fits("D02", D02Canonical)
  BY <1>1 DEF Fits, D02Canonical, D02Actions
<1>3. DOMAIN D02Visible = 1 .. 5
  BY DEF D02Visible
<1>4. Fits("D02", D02Visible[1])
  BY <1>1 DEF Fits, D02Visible, D02Actions
<1>5. Fits("D02", D02Visible[2])
  BY <1>1 DEF Fits, D02Visible, D02Actions
<1>6. Fits("D02", D02Visible[3])
  BY <1>1 DEF Fits, D02Visible, D02Actions
<1>7. Fits("D02", D02Visible[4])
  BY <1>1 DEF Fits, D02Visible, D02Actions
<1>8. Fits("D02", D02Visible[5])
  BY <1>1 DEF Fits, D02Visible, D02Actions
<1> QED BY <1>2, <1>3, <1>4, <1>5, <1>6, <1>7, <1>8

LEMMA D03Scripts ==
  /\ Fits("D03", D03Canonical)
  /\ \A k \in DOMAIN D03Visible : Fits("D03", D03Visible[k])
<1>1. Played("D03") = D03Played
  BY DEF Played
<1>2. Fits("D03", D03Canonical)
  BY <1>1 DEF Fits, D03Canonical, D03Played, D03Actions
<1>3. DOMAIN D03Visible = 1 .. 2
  BY DEF D03Visible
<1>4. Fits("D03", D03Visible[1])
  BY <1>1 DEF Fits, D03Visible, D03Played, D03Actions
<1>5. Fits("D03", D03Visible[2])
  BY <1>1 DEF Fits, D03Visible, D03Played, D03Actions
<1> QED BY <1>2, <1>3, <1>4, <1>5

LEMMA D04Scripts ==
  /\ Fits("D04", D04Canonical)
  /\ \A k \in DOMAIN D04Visible : Fits("D04", D04Visible[k])
<1>1. Played("D04") = D04Played
  BY DEF Played
<1>2. Fits("D04", D04Canonical)
  BY <1>1 DEF Fits, D04Canonical, D04Played, D04Actions, Channels
<1>3. DOMAIN D04Visible = 1 .. 4
  BY DEF D04Visible
<1>4. Fits("D04", D04Visible[1])
  BY <1>1 DEF Fits, D04Visible, D04Played, D04Actions, Channels
<1>5. Fits("D04", D04Visible[2])
  BY <1>1 DEF Fits, D04Visible, D04Played, D04Actions, Channels
<1>6. Fits("D04", D04Visible[3])
  BY <1>1 DEF Fits, D04Visible, D04Played, D04Actions, Channels
<1>7. Fits("D04", D04Visible[4])
  BY <1>1 DEF Fits, D04Visible, D04Played, D04Actions, Channels
<1> QED BY <1>2, <1>3, <1>4, <1>5, <1>6, <1>7

LEMMA H01Plays ==
  /\ <<"edit-title", "Lunar-map">> \in H01Actions /\ <<"edit-theme", "green">> \in H01Actions
  /\ <<"reset-current">> \in H01Actions
  /\ <<"rerender", Card01>> \in H01Actions /\ <<"rerender", Card02>> \in H01Actions
BY Zenon DEF H01Actions

LEMMA H01NeverDisposes == \A a \in H01Actions : a[1] # "dispose"
<1> SUFFICES ASSUME NEW a \in H01Actions
             PROVE  a[1] # "dispose"
  OBVIOUS
<1>1. CASE a = <<"edit-title", "Lunar-map">>
  BY <1>1
<1>2. CASE a = <<"edit-theme", "green">>
  BY <1>2
<1>3. CASE a = <<"reset-current">>
  BY <1>3
<1>4. CASE \E p \in {Card01, Card02, Card01Renamed, CardBlank} : a = <<"rerender", p>>
  BY <1>4
<1> QED BY <1>1, <1>2, <1>3, <1>4, H01Cases

LEMMA H01Scripts ==
  /\ Fits("H01", H01Canonical)
  /\ \A k \in DOMAIN H01Visible : Fits("H01", H01Visible[k])
<1> DEFINE title == <<"edit-title", "Lunar-map">>
           theme == <<"edit-theme", "green">>
           reset == <<"reset-current">>
           first == <<"rerender", Card01>>
           second == <<"rerender", Card02>>
<1>1. Played("H01") = H01Actions
  BY DEF Played, ActionsOf
<1>2. \A actions \in Seq(H01Actions) : Fits("H01", actions)
  BY <1>1, H01NeverDisposes DEF Fits
<1>3. {title, theme, reset, first, second} \subseteq H01Actions
  BY H01Plays
<1>4. /\ H01Canonical = <<title, first, second, theme, first, reset>>
      /\ H01Visible = << <<>>, <<title>>, <<theme>>, <<title, first>>, <<title, reset>> >>
  BY DEF H01Canonical, H01Visible
<1> HIDE DEF title, theme, reset, first, second
<1>5. Fits("H01", H01Canonical)
  <2>1. <<title, first, second, theme, first, reset>> \in Seq(H01Actions)
    BY <1>3
  <2> QED BY <1>2, <1>4, <2>1, Zenon
<1>6. /\ DOMAIN H01Visible = 1 .. 5
      /\ H01Visible[1] = <<>> /\ H01Visible[2] = <<title>> /\ H01Visible[3] = <<theme>>
      /\ H01Visible[4] = <<title, first>> /\ H01Visible[5] = <<title, reset>>
  BY <1>4
<1>7. /\ <<>> \in Seq(H01Actions) /\ <<title>> \in Seq(H01Actions) /\ <<theme>> \in Seq(H01Actions)
      /\ <<title, first>> \in Seq(H01Actions) /\ <<title, reset>> \in Seq(H01Actions)
  BY <1>3
<1>8. ASSUME NEW k \in 1 .. 5
      PROVE  Fits("H01", H01Visible[k])
  <2>1. H01Visible[k] \in Seq(H01Actions)
    <3>1. k = 1 \/ k = 2 \/ k = 3 \/ k = 4 \/ k = 5
      OBVIOUS
    <3> QED BY <1>6, <1>7, <3>1, Zenon
  <2> QED BY <1>2, <2>1, Zenon
<1> QED BY <1>5, <1>6, <1>8, Zenon

LEMMA H02Scripts ==
  /\ Fits("H02", H02Canonical)
  /\ \A k \in DOMAIN H02Visible : Fits("H02", H02Visible[k])
<1>1. Played("H02") = H02Actions
  BY DEF Played, ActionsOf
<1>2. Fits("H02", H02Canonical)
  BY <1>1, RequestsAssumption DEF Fits, H02Canonical, H02Actions, Guides
<1>3. DOMAIN H02Visible = 1 .. 5
  BY DEF H02Visible
<1>4. Fits("H02", H02Visible[1])
  BY <1>1, RequestsAssumption DEF Fits, H02Visible, H02Actions, Guides
<1>5. Fits("H02", H02Visible[2])
  BY <1>1, RequestsAssumption DEF Fits, H02Visible, H02Actions, Guides
<1>6. Fits("H02", H02Visible[3])
  BY <1>1, RequestsAssumption DEF Fits, H02Visible, H02Actions, Guides
<1>7. Fits("H02", H02Visible[4])
  BY <1>1, RequestsAssumption DEF Fits, H02Visible, H02Actions, Guides
<1>8. Fits("H02", H02Visible[5])
  BY <1>1, RequestsAssumption DEF Fits, H02Visible, H02Actions, Guides
<1> QED BY <1>2, <1>3, <1>4, <1>5, <1>6, <1>7, <1>8

LEMMA H03Scripts ==
  /\ Fits("H03", H03Canonical)
  /\ \A k \in DOMAIN H03Visible : Fits("H03", H03Visible[k])
<1>1. Played("H03") = H03Played
  BY DEF Played
<1>2. Fits("H03", H03Canonical)
  BY <1>1 DEF Fits, H03Canonical, H03Played, H03Actions, Collections
<1>3. DOMAIN H03Visible = 1 .. 4
  BY DEF H03Visible
<1>4. Fits("H03", H03Visible[1])
  BY <1>1 DEF Fits, H03Visible, H03Played, H03Actions, Collections
<1>5. Fits("H03", H03Visible[2])
  BY <1>1 DEF Fits, H03Visible, H03Played, H03Actions, Collections
<1>6. Fits("H03", H03Visible[3])
  BY <1>1 DEF Fits, H03Visible, H03Played, H03Actions, Collections
<1>7. Fits("H03", H03Visible[4])
  BY <1>1 DEF Fits, H03Visible, H03Played, H03Actions, Collections
<1> QED BY <1>2, <1>3, <1>4, <1>5, <1>6, <1>7

LEMMA H04Scripts ==
  /\ Fits("H04", H04Canonical)
  /\ \A k \in DOMAIN H04Visible : Fits("H04", H04Visible[k])
<1>1. Played("H04") = H04Actions
  BY DEF Played, ActionsOf
<1>2. Fits("H04", H04Canonical)
  BY <1>1 DEF Fits, H04Canonical, H04Actions
<1>3. DOMAIN H04Visible = 1 .. 4
  BY DEF H04Visible
<1>4. Fits("H04", H04Visible[1])
  BY <1>1 DEF Fits, H04Visible, H04Actions
<1>5. Fits("H04", H04Visible[2])
  BY <1>1 DEF Fits, H04Visible, H04Actions
<1>6. Fits("H04", H04Visible[3])
  BY <1>1 DEF Fits, H04Visible, H04Actions
<1>7. Fits("H04", H04Visible[4])
  BY <1>1 DEF Fits, H04Visible, H04Actions
<1> QED BY <1>2, <1>3, <1>4, <1>5, <1>6, <1>7

LEMMA H05Scripts ==
  /\ Fits("H05", H05Canonical)
  /\ \A k \in DOMAIN H05Visible : Fits("H05", H05Visible[k])
<1>1. Played("H05") = H05Actions
  BY DEF Played, ActionsOf
<1>2. Fits("H05", H05Canonical)
  BY <1>1 DEF Fits, H05Canonical, H05Actions, Units
<1>3. DOMAIN H05Visible = 1 .. 4
  BY DEF H05Visible
<1>4. Fits("H05", H05Visible[1])
  BY <1>1 DEF Fits, H05Visible, H05Actions, Units
<1>5. Fits("H05", H05Visible[2])
  BY <1>1 DEF Fits, H05Visible, H05Actions, Units
<1>6. Fits("H05", H05Visible[3])
  BY <1>1 DEF Fits, H05Visible, H05Actions, Units
<1>7. Fits("H05", H05Visible[4])
  BY <1>1 DEF Fits, H05Visible, H05Actions, Units
<1> QED BY <1>2, <1>3, <1>4, <1>5, <1>6, <1>7

LEMMA H06Scripts ==
  /\ Fits("H06", H06Canonical)
  /\ \A k \in DOMAIN H06Visible : Fits("H06", H06Visible[k])
<1>1. Played("H06") = H06Actions
  BY DEF Played, ActionsOf
<1>2. Fits("H06", H06Canonical)
  BY <1>1 DEF Fits, H06Canonical, H06Actions, Themes
<1>3. DOMAIN H06Visible = 1 .. 4
  BY DEF H06Visible
<1>4. Fits("H06", H06Visible[1])
  BY <1>1 DEF Fits, H06Visible, H06Actions, Themes
<1>5. Fits("H06", H06Visible[2])
  BY <1>1 DEF Fits, H06Visible, H06Actions, Themes
<1>6. Fits("H06", H06Visible[3])
  BY <1>1 DEF Fits, H06Visible, H06Actions, Themes
<1>7. Fits("H06", H06Visible[4])
  BY <1>1 DEF Fits, H06Visible, H06Actions, Themes
<1> QED BY <1>2, <1>3, <1>4, <1>5, <1>6, <1>7

\* Every script a trial may be given fits its fixture.
LEMMA ScriptsFit ==
  ASSUME NEW f \in Fixtures
  PROVE  Fits(f, CanonicalOf(f)) /\ \A k \in DOMAIN VisibleOf(f) : Fits(f, VisibleOf(f)[k])
<1>1. CASE f = "D01"
  BY <1>1, D01Scripts DEF CanonicalOf, VisibleOf
<1>2. CASE f = "D02"
  BY <1>2, D02Scripts DEF CanonicalOf, VisibleOf
<1>3. CASE f = "D03"
  BY <1>3, D03Scripts DEF CanonicalOf, VisibleOf
<1>4. CASE f = "D04"
  BY <1>4, D04Scripts DEF CanonicalOf, VisibleOf
<1>5. CASE f = "H01"
  BY <1>5, H01Scripts DEF CanonicalOf, VisibleOf
<1>6. CASE f = "H02"
  BY <1>6, H02Scripts DEF CanonicalOf, VisibleOf
<1>7. CASE f = "H03"
  BY <1>7, H03Scripts DEF CanonicalOf, VisibleOf
<1>8. CASE f = "H04"
  BY <1>8, H04Scripts DEF CanonicalOf, VisibleOf
<1>9. CASE f = "H05"
  BY <1>9, H05Scripts DEF CanonicalOf, VisibleOf
<1>10. CASE f = "H06"
  BY <1>10, H06Scripts DEF CanonicalOf, VisibleOf
<1> QED BY <1>1, <1>2, <1>3, <1>4, <1>5, <1>6, <1>7, <1>8, <1>9, <1>10 DEF Fixtures

\* The mount of a preserving candidate, and of the legacy board, is in the invariant.
LEMMA MountedWell ==
  ASSUME NEW f \in Fixtures, NEW c \in Candidates(f), c # "false_green", NEW m
  PROVE  StateInv(f, MountOf(f, c, m)) /\ ~Over(f, MountOf(f, c, m))
<1>0. f # "D01" => c = "preserving"
  BY DEF Candidates
<1>1. CASE f = "D01"
  BY <1>1, D01Mounted DEF StateInv, MountOf, Over
<1>2. CASE f = "D02"
  BY <1>2, D02Mounted DEF StateInv, MountOf, Over
<1>3. CASE f = "D03"
  BY <1>3, D03Mounted DEF StateInv, MountOf, Over
<1>4. CASE f = "D04"
  <2>1. StateInv(f, MountOf(f, c, m))
    BY <1>4, D04Mounted DEF StateInv, MountOf
  <2>2. D04Mount.mounted = TRUE
    BY DEF D04Mount
  <2> QED BY <1>4, <2>1, <2>2 DEF Over, MountOf
<1>5. CASE f = "H01"
  BY <1>5, H01Mounted DEF StateInv, MountOf, Over
<1>6. CASE f = "H02"
  BY <1>6, H02Mounted DEF StateInv, MountOf, Over
<1>7. CASE f = "H03"
  BY <1>7, H03Mounted DEF StateInv, MountOf, Over
<1>8. CASE f = "H04"
  <2>1. MountOf(f, c, m) = H04Mount("preserving")
    BY <1>0, <1>8 DEF MountOf
  <2>2. H04Mount("preserving").disposed = FALSE
    BY DEF H04Mount, H04Parent
  <2> QED BY <1>8, <2>1, <2>2, H04MountedInv DEF StateInv, Over
<1>9. CASE f = "H05"
  <2>1. MountOf(f, c, m) = H05Mount("preserving", m \in {Free, Canonical})
    BY <1>0, <1>9 DEF MountOf
  <2> QED BY <1>9, <2>1, H05MountedInv DEF StateInv, Over
<1>10. CASE f = "H06"
  BY <1>10, H06Mounted DEF StateInv, MountOf, Over
<1> QED BY <1>1, <1>2, <1>3, <1>4, <1>5, <1>6, <1>7, <1>8, <1>9, <1>10 DEF Fixtures

\* A settled action keeps the invariant and the contract of the fixture.
LEMMA StepKeeps ==
  ASSUME NEW f \in Fixtures, NEW c \in Candidates(f), c # "false_green",
         NEW s, StateInv(f, s), ~Over(f, s), NEW a \in Played(f)
  PROVE  LET t == StepOf(f, c, s, a) IN StateInv(f, t) /\ Contract(f, c, s, a, t)
<1> DEFINE t == StepOf(f, c, s, a)
<1> SUFFICES StateInv(f, t) /\ Contract(f, c, s, a, t)
  OBVIOUS
<1>0. /\ f # "D01" => c = "preserving"
      /\ c \in {"preserving", "legacy"}
  BY DEF Candidates
<1>1. CASE f = "D01"
  <2>1. D01Inv(s) /\ a \in D01Actions /\ t = D01Step(c, s, a)
    BY <1>0, <1>1 DEF StateInv, Played, ActionsOf, StepOf
  <2> HIDE DEF t
  <2>2. D01Inv(t) /\ D01Contract(s, a, t)
    BY <1>0, <2>1, D01Keeps
  <2> QED BY <1>0, <1>1, <2>2 DEF StateInv, Contract
<1>2. CASE f = "D02"
  <2>1. D02Inv(s) /\ a \in D02Actions /\ t = D02Step("preserving", s, a)
    BY <1>0, <1>2 DEF StateInv, Played, ActionsOf, StepOf
  <2> HIDE DEF t
  <2>2. D02Inv(t) /\ D02Contract(s, a, t)
    BY <1>0, <2>1, D02Keeps
  <2> QED BY <1>0, <1>2, <2>2 DEF StateInv, Contract
<1>3. CASE f = "D03"
  <2>1. D03Inv(s) /\ a \in D03Played /\ t = D03Step("preserving", s, a)
    BY <1>0, <1>3 DEF StateInv, Played, StepOf
  <2> HIDE DEF t
  <2>2. D03Inv(t) /\ D03Contract("preserving", s, a, t)
    BY <1>0, <2>1, D03Keeps
  <2> QED BY <1>0, <1>3, <2>2 DEF StateInv, Contract
<1>4. CASE f = "D04"
  <2>1. D04Inv(s) /\ a \in D04Played /\ t = D04Step("preserving", s, a) /\ s.mounted
    BY <1>0, <1>4 DEF StateInv, Played, StepOf, Over
  <2> HIDE DEF t
  <2>2. D04Inv(t) /\ D04Contract(t)
    BY <1>0, <2>1, D04Keeps DEF D04Inv
  <2> QED BY <1>0, <1>4, <2>2 DEF StateInv, Contract
<1>5. CASE f = "H01"
  <2>1. H01Inv(s) /\ a \in H01Actions /\ t = H01Step("preserving", s, a)
    BY <1>0, <1>5 DEF StateInv, Played, ActionsOf, StepOf
  <2> HIDE DEF t
  <2>2. H01Inv(t) /\ H01Contract(s, a, t)
    BY <1>0, <2>1, H01Keeps
  <2> QED BY <1>0, <1>5, <2>2 DEF StateInv, Contract
<1>6. CASE f = "H02"
  <2>1. H02Inv(s) /\ a \in H02Actions /\ t = H02Step("preserving", s, a)
    BY <1>0, <1>6 DEF StateInv, Played, ActionsOf, StepOf
  <2> HIDE DEF t
  <2>2. H02Inv(t) /\ H02Contract(s, a, t)
    BY <1>0, <2>1, H02Keeps
  <2> QED BY <1>0, <1>6, <2>2 DEF StateInv, Contract
<1>7. CASE f = "H03"
  <2>1. H03Inv(s) /\ a \in H03Played /\ t = H03Step("preserving", s, a)
    BY <1>0, <1>7 DEF StateInv, Played, StepOf
  <2> HIDE DEF t
  <2>2. H03Inv(t) /\ H03Contract(s, t)
    BY <1>0, <2>1, H03Keeps
  <2> QED BY <1>0, <1>7, <2>2 DEF StateInv, Contract
<1>8. CASE f = "H04"
  <2>1. H04Inv(s) /\ a \in H04Actions /\ t = H04Step("preserving", s, a) /\ ~s.disposed
    BY <1>0, <1>8 DEF StateInv, Played, ActionsOf, StepOf, Over
  <2> HIDE DEF t
  <2>2. H04Inv(t) /\ H04Contract(s, t)
    BY <1>0, <2>1, H04Keeps
  <2> QED BY <1>0, <1>8, <2>2 DEF StateInv, Contract
<1>9. CASE f = "H05"
  <2>1. H05Inv(s) /\ a \in H05Actions /\ t = H05Step("preserving", s, a)
    BY <1>0, <1>9 DEF StateInv, Played, ActionsOf, StepOf
  <2> HIDE DEF t
  <2>2. H05Inv(t) /\ H05Contract(s, t)
    BY <1>0, <2>1, H05Keeps
  <2> QED BY <1>0, <1>9, <2>2 DEF StateInv, Contract
<1>10. CASE f = "H06"
  <2>1. H06Inv(s) /\ a \in H06Actions /\ t = H06Step("preserving", s, a)
    BY <1>0, <1>10 DEF StateInv, Played, ActionsOf, StepOf
  <2> HIDE DEF t
  <2>2. H06Inv(t) /\ H06Contract(s, a, t)
    BY <1>0, <2>1, H06Keeps
  <2> QED BY <1>0, <1>10, <2>2 DEF StateInv, Contract
<1> QED BY <1>1, <1>2, <1>3, <1>4, <1>5, <1>6, <1>7, <1>8, <1>9, <1>10 DEF Fixtures

\* Only a disposal unmounts the candidate for good.
LEMMA OverByDisposal ==
  ASSUME NEW f \in Fixtures, NEW s, StateInv(f, s), ~Over(f, s), NEW a \in Played(f),
         a[1] # "dispose"
  PROVE  ~Over(f, StepOf(f, "preserving", s, a))
<1>1. CASE f = "D04"
  <2>1. /\ D04Inv(s) /\ s.mounted /\ a \in D04Played
        /\ StepOf(f, "preserving", s, a) = D04Step("preserving", s, a)
    BY <1>1 DEF StateInv, Over, Played, StepOf
  <2>2. a[1] \in {"publish", "switch", "reset"}
    BY <2>1 DEF D04Played, D04Actions
  <2>3. D04Step("preserving", s, a).mounted
    <3>1. CASE a[1] = "publish"
      BY <2>1, <3>1 DEF D04Step, D04Publish, D04Inv
    <3>2. CASE a[1] # "publish"
      BY <2>1, <2>2, <3>2 DEF D04Step, D04Select, D04Preserving, D04Inv
    <3> QED BY <3>1, <3>2
  <2> QED BY <1>1, <2>1, <2>3 DEF Over
<1>2. CASE f = "H04"
  <2> DEFINE t == H04Step("preserving", s, a)
  <2>1. H04Inv(s) /\ ~s.disposed /\ a \in H04Actions /\ StepOf(f, "preserving", s, a) = t
    BY <1>2 DEF StateInv, Over, Played, ActionsOf, StepOf
  <2>2. ~t.disposed
    BY <2>1, H04Keeps
  <2> QED BY <1>2, <2>1, <2>2 DEF Over
<1> QED BY <1>1, <1>2 DEF Over
-----------------------------------------------------------------------------
(* The theorems. *)

\* A settled action of a preserving candidate, in the invariant before it.
LEMMA SettleKeeps ==
  ASSUME TrialInv, NEW a \in Played(fixture), ~Over(fixture, state), Settle(a),
         candidate # "false_green"
  PROVE  /\ StateInv(fixture', state') /\ fixture' = fixture /\ candidate' = candidate
         /\ Contract(fixture, candidate, state, last', state')
         /\ a[1] # "dispose" => ~Over(fixture, state')
<1>1. /\ fixture \in Fixtures /\ candidate \in Candidates(fixture)
      /\ StateInv(fixture, state)
  BY DEF TrialInv
<1>2. /\ state' = StepOf(fixture, candidate, state, a) /\ last' = a
      /\ fixture' = fixture /\ candidate' = candidate
  BY DEF Settle
<1>3. StateInv(fixture, state') /\ Contract(fixture, candidate, state, a, state')
  BY <1>1, <1>2, StepKeeps
<1>4. a[1] # "dispose" => ~Over(fixture, state')
  <2>1. CASE fixture \in {"D04", "H04"}
    <3>1. candidate = "preserving"
      BY <1>1, <2>1 DEF Candidates
    <3> QED BY <1>1, <1>2, <3>1, OverByDisposal
  <2>2. CASE fixture \notin {"D04", "H04"}
    BY <2>2 DEF Over
  <2> QED BY <2>1, <2>2
<1> QED BY <1>2, <1>3, <1>4

\* The head of a script that fits may be played, and what is left fits as well.
LEMMA ScriptGoesOn ==
  ASSUME NEW f, NEW actions, Fits(f, actions), actions # <<>>
  PROVE  /\ Head(actions) \in Played(f) /\ Fits(f, Tail(actions))
         /\ Tail(actions) # <<>> => Head(actions)[1] # "dispose"
<1> DEFINE P == Played(f)
<1>1. /\ actions \in Seq(P)
      /\ \A i \in DOMAIN actions : actions[i][1] = "dispose" => i = Len(actions)
  BY DEF Fits
<1> HIDE DEF P
<1>2. /\ Len(actions) \in Nat \ {0} /\ Head(actions) = actions[1] /\ Head(actions) \in P
      /\ Tail(actions) \in Seq(P) /\ Len(Tail(actions)) = Len(actions) - 1
      /\ \A i \in DOMAIN Tail(actions) : i + 1 \in DOMAIN actions /\ Tail(actions)[i] = actions[i + 1]
  BY <1>1
<1>3. Tail(actions) # <<>> => Len(actions) # 1
  BY <1>2
<1>4. \A i \in DOMAIN Tail(actions) : Tail(actions)[i][1] = "dispose" => i = Len(Tail(actions))
  <2> SUFFICES ASSUME NEW i \in DOMAIN Tail(actions), Tail(actions)[i][1] = "dispose"
               PROVE  i = Len(Tail(actions))
    OBVIOUS
  <2>1. i \in Nat /\ i + 1 = Len(actions)
    BY <1>1, <1>2
  <2>2. Len(actions) \in Nat /\ Len(Tail(actions)) = Len(actions) - 1
    BY <1>2
  <2> QED BY ONLY <2>1, <2>2
<1>5. 1 \in DOMAIN actions
  BY <1>1, <1>2
<1> QED BY <1>1, <1>2, <1>3, <1>4, <1>5 DEF Fits, P

LEMMA InitTrialInv == Init => TrialInv
<1> SUFFICES ASSUME Init, candidate # "false_green"
             PROVE  /\ StateInv(fixture, state) /\ Fits(fixture, script)
                    /\ ~Over(fixture, state)
  BY DEF Init, TrialInv, Free, Canonical
<1>1. fixture \in Fixtures /\ candidate \in Candidates(fixture)
  BY DEF Init
<1>2. StateInv(fixture, state) /\ ~Over(fixture, state)
  BY <1>1, MountedWell DEF Init
<1>3. Fits(fixture, script)
  <2>1. CASE mode = Free
    <3>1. script = <<>>
      BY <2>1 DEF Init, Free, Canonical
    <3> QED BY <3>1 DEF Fits
  <2>2. CASE mode = Canonical
    <3>1. script = CanonicalOf(fixture)
      BY <2>2 DEF Init, Free, Canonical
    <3> QED BY <1>1, <3>1, ScriptsFit
  <2>3. CASE mode \notin {Free, Canonical}
    <3>1. PICK k \in DOMAIN VisibleOf(fixture) : mode = Assertion(k)
      BY <2>3 DEF Init
    <3>2. script = VisibleOf(fixture)[k]
      BY <2>3, <3>1 DEF Init, Assertion
    <3> QED BY <1>1, <3>2, ScriptsFit
  <2> QED BY <2>1, <2>2, <2>3
<1> QED BY <1>2, <1>3

\* One step keeps the invariant, and the contract if it settles an action.
LEMMA NextKeeps ==
  ASSUME TrialInv, [Next]_vars
  PROVE  /\ TrialInv'
         /\ turn' # turn /\ candidate # "false_green" =>
              Contract(fixture, candidate, state, last', state')
<1>1. CASE Play
  <2>1. PICK a \in ActionsOf(fixture) : MayPlay(fixture, state, a) /\ Settle(a)
    BY <1>1 DEF Play
  <2>2. script' = script /\ mode = Free /\ mode' = mode /\ script = <<>>
    BY <1>1, <2>1 DEF Play, Settle, TrialInv
  <2>3. a \in Played(fixture) /\ ~Over(fixture, state)
    <3>1. CASE fixture \in {"D03", "D04", "H03"}
      <4>1. ActionsOf(fixture) \subseteq Played(fixture)
        BY <3>1 DEF Played, ActionsOf, D03Played, D04Played, H03Played
      <4> QED BY <2>1, <3>1, <4>1 DEF MayPlay, Over
    <3>2. CASE fixture \notin {"D03", "D04", "H03"}
      <4>1. Played(fixture) = ActionsOf(fixture)
        BY <3>2 DEF Played
      <4>2. ~Over(fixture, state)
        BY <2>1, <3>2 DEF MayPlay, Over
      <4> QED BY <2>1, <4>1, <4>2
    <3> QED BY <3>1, <3>2
  <2>4. CASE candidate = "false_green"
    BY <2>1, <2>2, <2>4 DEF TrialInv, Settle
  <2>5. CASE candidate # "false_green"
    BY <2>1, <2>2, <2>3, <2>5, SettleKeeps DEF TrialInv
  <2> QED BY <2>4, <2>5
<1>2. CASE Advance
  <2>1. /\ mode # Free /\ script # <<>> /\ Settle(Head(script)) /\ script' = Tail(script)
        /\ fixture' = fixture /\ candidate' = candidate /\ mode' = mode
    BY <1>2 DEF Advance, Settle
  <2>2. CASE candidate = "false_green"
    BY <2>1, <2>2 DEF TrialInv
  <2>3. CASE candidate # "false_green"
    <3>1. Fits(fixture, script) /\ ~Over(fixture, state)
      BY <2>1, <2>3 DEF TrialInv
    <3>2. /\ Head(script) \in Played(fixture) /\ Fits(fixture, Tail(script))
          /\ Tail(script) # <<>> => Head(script)[1] # "dispose"
      BY <2>1, <3>1, ScriptGoesOn
    <3>3. /\ StateInv(fixture', state')
          /\ Contract(fixture, candidate, state, last', state')
          /\ Head(script)[1] # "dispose" => ~Over(fixture, state')
      BY <2>1, <2>3, <3>1, <3>2, SettleKeeps
    <3> QED BY <2>1, <3>2, <3>3 DEF TrialInv
  <2> QED BY <2>2, <2>3
<1>3. CASE JudgeVisible \/ JudgeCanonical \/ UNCHANGED vars
  <2>1. UNCHANGED <<fixture, candidate, mode, script, state, last, turn>>
    BY <1>3 DEF JudgeVisible, JudgeCanonical, vars
  <2> QED BY <2>1 DEF TrialInv
<1> QED BY <1>1, <1>2, <1>3 DEF Next

\* Along every trial, TrialInv.
THEOREM TrialInvariant == Spec => []TrialInv
<1>1. TrialInv /\ [Next]_vars => TrialInv'
  BY NextKeeps
<1> QED BY InitTrialInv, <1>1, PTL DEF Spec

\* A preserving candidate, and the legacy board, keeps its fixture's published
\* contract at every settled action, for any number of cards, lanes and requests
\* and trials of any length.
THEOREM ContractsKept == Spec => ContractKept
<1>1. TrialInv /\ [Next]_vars
        => [turn' # turn /\ candidate # "false_green" =>
              Contract(fixture, candidate, state, last', state')]_vars
  BY NextKeeps
<1>2. Spec => []TrialInv
  BY TrialInvariant
<1> QED BY <1>1, <1>2, PTL DEF Spec, ContractKept

-----------------------------------------------------------------------------
(* The verdicts: a scripted trial has recorded what its script shows.      *)

\* The script a scripted trial is given.
ScriptOf(f, m) == IF m = Canonical THEN CanonicalOf(f) ELSE VisibleOf(f)[m[2]]

\* The states behind the first n actions of a script, one after the other.
Passes(f, c, m, n, st) ==
  /\ st[1] = MountOf(f, c, m)
  /\ \A i \in 1 .. n : st[i + 1] = StepOf(f, c, st[i], ScriptOf(f, m)[i])

\* What the harness reads of them.
Read(f, c, n, st) == [i \in 1 .. n + 1 |-> ObserveOf(f, c, st[i])]

Modes(f) == {Free, Canonical} \cup {Assertion(k) : k \in DOMAIN VisibleOf(f)}

\* After turn actions the frames are those of the states passed, the last of which
\* is the state, and the rest of the script is still to play.
RecordInv ==
  mode # Free =>
    /\ turn \in 0 .. Len(ScriptOf(fixture, mode))
    /\ IsLog(script) /\ Len(script) = Len(ScriptOf(fixture, mode)) - turn
    /\ \A i \in 1 .. Len(script) : script[i] = ScriptOf(fixture, mode)[turn + i]
    /\ \E st : /\ Passes(fixture, candidate, mode, turn, st)
               /\ state = st[turn + 1] /\ frames = Read(fixture, candidate, turn, st)

VerdictInv ==
  /\ fixture \in Fixtures /\ candidate \in Candidates(fixture) /\ mode \in Modes(fixture)
  /\ RecordInv /\ VerdictMatchesKind

LEMMA AppendedRead ==
  ASSUME NEW n \in Nat, NEW e, NEW g, g = [i \in 1 .. n |-> e[i]], NEW x
  PROVE  Append(g, x) = [i \in 1 .. n + 1 |-> IF i <= n THEN e[i] ELSE x]
<1> DEFINE S == {e[i] : i \in 1 .. n} \cup {x}
           h == [i \in 1 .. n + 1 |-> IF i <= n THEN e[i] ELSE x]
<1>1. x \in S /\ \A i \in 1 .. n : e[i] \in S
  OBVIOUS
<1> SUFFICES Append(g, x) = h
  OBVIOUS
<1>2. h = [i \in 1 .. n + 1 |-> IF i <= n THEN e[i] ELSE x]
  OBVIOUS
<1> HIDE DEF S, h
<1>3. g \in Seq(S) /\ Len(g) = n /\ \A i \in 1 .. n : g[i] = e[i]
  BY <1>1
<1>4. h \in Seq(S) /\ Len(h) = n + 1
  BY <1>1, <1>2
<1>5. Append(g, x) \in Seq(S) /\ Len(Append(g, x)) = n + 1
  BY <1>1, <1>3
<1>6. ASSUME NEW i \in 1 .. n + 1 PROVE Append(g, x)[i] = h[i]
  BY <1>1, <1>2, <1>3
<1> QED BY <1>4, <1>5, <1>6

\* What the whole of a script shows.
Shows(f, c, m, st) ==
  LET fs == Read(f, c, Len(ScriptOf(f, m)), st)
  IN  IF m = Canonical THEN OracleOf(f, fs) <=> c # "false_green" ELSE HoldsOf(f, m[2], fs)

-----------------------------------------------------------------------------
(* Sequences given entry by entry. *)

LEMMA OneEntry ==
  ASSUME NEW S, NEW s \in Seq(S), Len(s) = 1
  PROVE  s = <<s[1]>>
<1> DEFINE t == <<s[1]>>
<1>1. t \in Seq(S) /\ Len(t) = 1 /\ t[1] = s[1]
  OBVIOUS
<1> SUFFICES s = t
  OBVIOUS
<1> HIDE DEF t
<1>2. \A i \in 1 .. Len(s) : s[i] = t[i]
  BY <1>1
<1> QED BY <1>1, <1>2, SeqEqual

LEMMA TwoEntries ==
  ASSUME NEW a, NEW b
  PROVE  Append(<<a>>, b) = <<a, b>>
<1> DEFINE S == {a, b}
           s == Append(<<a>>, b)
           t == <<a, b>>
<1>1. s \in Seq(S) /\ t \in Seq(S) /\ Len(s) = 2 /\ Len(t) = 2
  OBVIOUS
<1>2. s[1] = a /\ s[2] = b /\ t[1] = a /\ t[2] = b
  OBVIOUS
<1> SUFFICES s = t
  OBVIOUS
<1> HIDE DEF S, s, t
<1>3. \A i \in 1 .. Len(s) : s[i] = t[i]
  BY <1>1, <1>2
<1> QED BY <1>1, <1>3, SeqEqual

LEMMA ThreeEntries ==
  ASSUME NEW a, NEW b, NEW c
  PROVE  Append(<<a, b>>, c) = <<a, b, c>>
<1> DEFINE S == {a, b, c}
           s == Append(<<a, b>>, c)
           t == <<a, b, c>>
<1>1. s \in Seq(S) /\ t \in Seq(S) /\ Len(s) = 3 /\ Len(t) = 3
  OBVIOUS
<1>2. s[1] = a /\ s[2] = b /\ s[3] = c /\ t[1] = a /\ t[2] = b /\ t[3] = c
  OBVIOUS
<1> SUFFICES s = t
  OBVIOUS
<1> HIDE DEF S, s, t
<1>3. \A i \in 1 .. Len(s) : s[i] = t[i]
  BY <1>1, <1>2
<1> QED BY <1>1, <1>3, SeqEqual

LEMMA FourEntries ==
  ASSUME NEW a, NEW b, NEW c, NEW d
  PROVE  Append(<<a, b, c>>, d) = <<a, b, c, d>>
<1> DEFINE S == {a, b, c, d}
           s == Append(<<a, b, c>>, d)
           t == <<a, b, c, d>>
<1>1. s \in Seq(S) /\ t \in Seq(S) /\ Len(s) = 4 /\ Len(t) = 4
  OBVIOUS
<1>2. /\ s[1] = a /\ s[2] = b /\ s[3] = c /\ s[4] = d
      /\ t[1] = a /\ t[2] = b /\ t[3] = c /\ t[4] = d
  OBVIOUS
<1> SUFFICES s = t
  OBVIOUS
<1> HIDE DEF S, s, t
<1>3. \A i \in 1 .. Len(s) : s[i] = t[i]
  BY <1>1, <1>2
<1> QED BY <1>1, <1>3, SeqEqual

\* Append, where what it does is not needed.
Then(log, label) == Append(log, label)
Labelled(s, label) == [s EXCEPT !.log = Append(@, label)]

\* A log that starts with the mount, and its prefixes.
LEMMA MountFirst ==
  ASSUME NEW S, NEW m \in S, NEW s \in Seq(S)
  PROVE  /\ <<m>> \o s \in Seq(S) /\ Len(<<m>> \o s) = Len(s) + 1
         /\ (<<m>> \o s)[1] = m /\ \A i \in 1 .. Len(s) : (<<m>> \o s)[i + 1] = s[i]
<1> DEFINE t == <<m>>
<1>1. t \in Seq(S) /\ Len(t) = 1 /\ t[1] = m
  OBVIOUS
<1> SUFFICES /\ t \o s \in Seq(S) /\ Len(t \o s) = Len(s) + 1
             /\ (t \o s)[1] = m /\ \A i \in 1 .. Len(s) : (t \o s)[i + 1] = s[i]
  OBVIOUS
<1> HIDE DEF t
<1>2. t \o s \in Seq(S)
  BY <1>1, ConcatProperties
<1>3. Len(s) \in Nat /\ Len(t \o s) = Len(t) + Len(s)
  <2>1. Len(t \o s) = Len(t) + Len(s)
    BY <1>1, ConcatProperties
  <2> QED BY <2>1
<1>4. \A i \in 1 .. Len(t) + Len(s) : (t \o s)[i] = IF i <= Len(t) THEN t[i] ELSE s[i - Len(t)]
  BY <1>1, ConcatProperties
<1>5. Len(t \o s) = Len(s) + 1
  BY <1>1, <1>3
<1>6. (t \o s)[1] = m
  BY <1>1, <1>3, <1>4
<1>7. ASSUME NEW i \in 1 .. Len(s) PROVE (t \o s)[i + 1] = s[i]
  <2>1. i + 1 \in 1 .. Len(t) + Len(s) /\ ~(i + 1 <= Len(t)) /\ i + 1 - Len(t) = i
    BY <1>1, <1>3
  <2> QED BY <1>4, <2>1
<1> QED BY <1>2, <1>5, <1>6, <1>7

LEMMA LogExtended ==
  ASSUME NEW S, NEW log \in Seq(S), NEW n \in 1 .. Len(log) - 1
  PROVE  Append(SubSeq(log, 1, n), log[n + 1]) = SubSeq(log, 1, n + 1)
<1> DEFINE a == SubSeq(log, 1, n)
           b == SubSeq(log, 1, n + 1)
           t == Append(a, log[n + 1])
<1>1. a \in Seq(S) /\ Len(a) = n /\ \A j \in 1 .. n : a[j] = log[j]
  OBVIOUS
<1>2. b \in Seq(S) /\ Len(b) = n + 1 /\ \A j \in 1 .. n + 1 : b[j] = log[j]
  OBVIOUS
<1>3. log[n + 1] \in S
  OBVIOUS
<1>4. t = Append(a, log[n + 1]) /\ n \in Nat
  OBVIOUS
<1> SUFFICES t = b
  OBVIOUS
<1> HIDE DEF a, b, t
<1>5. t \in Seq(S) /\ Len(t) = n + 1 /\ t[n + 1] = log[n + 1] /\ \A j \in 1 .. n : t[j] = a[j]
  BY <1>1, <1>3, <1>4
<1>6. \A j \in 1 .. n + 1 : t[j] = b[j]
  BY <1>1, <1>2, <1>4, <1>5
<1>7. Len(t) = Len(b) /\ \A j \in 1 .. Len(t) : t[j] = b[j]
  BY <1>2, <1>5, <1>6
<1> QED BY <1>2, <1>5, <1>7, SeqEqual

LEMMA LogEnds ==
  ASSUME NEW S, NEW log \in Seq(S), NEW n \in 1 .. Len(log)
  PROVE  Last(SubSeq(log, 1, n)) = log[n]
BY DEF Last

LEMMA LogStarts ==
  ASSUME NEW S, NEW log \in Seq(S), Len(log) > 0
  PROVE  SubSeq(log, 1, 1) = <<log[1]>>
<1>1. SubSeq(log, 1, 1) \in Seq(S) /\ Len(SubSeq(log, 1, 1)) = 1 /\ SubSeq(log, 1, 1)[1] = log[1]
  OBVIOUS
<1> QED BY <1>1, OneEntry

-----------------------------------------------------------------------------
(* The counts that the scripts of BG-D01 and BG-D02 reach. *)

\* All counts alike, or the marked ones and the others.
Alike(ids, v) == [id \in ids |-> v]

LEMMA AllAdjusted ==
  \A ids, v, w, d :
    /\ v + d < 0 => adjustSelected(Alike(ids, v), ids, d) = Alike(ids, 0)
    /\ ~(v + d < 0) /\ w = v + d => adjustSelected(Alike(ids, v), ids, d) = Alike(ids, w)
<1> TAKE ids, v, w, d
<1> QED BY DEF adjustSelected, Alike

LEMMA MarkedAdjusted ==
  \A ids, m, v, u, w, d :
    ~(v + d < 0) /\ w = v + d => adjustSelected(Marked(ids, m, v, u), m, d) = Marked(ids, m, w, u)
<1> TAKE ids, m, v, u, w, d
<1> QED BY DEF adjustSelected, Marked

LEMMA AlikeIsMarked ==
  /\ \A ids : Zeros(ids) = Alike(ids, 0)
  /\ \A ids, m, v : Alike(ids, v) = Marked(ids, m, v, v)
BY DEF Zeros, Alike, Marked

-----------------------------------------------------------------------------
(* What the scripts of BG-D01 show. *)

D01At(alloc, selected, step, log) ==
  [alloc |-> alloc, selected |-> selected, step |-> step, log |-> log]

LEMMA D01Parts ==
  \A a, x, n, l :
    /\ D01At(a, x, n, l).alloc = a /\ D01At(a, x, n, l).selected = x
    /\ D01At(a, x, n, l).step = n /\ D01At(a, x, n, l).log = l
<1> TAKE a, x, n, l
<1> QED BY DEF D01At

LEMMA D01Starts == D01Mount = D01At(Alike(Cards, 0), {}, 1, <<<<"mount">>>>)
BY AlikeIsMarked, Zenon DEF D01Mount, D01At

\* A dispatch that is not refused, of the state that its effect leaves.
LEMMA D01Dispatched ==
  \A c, s, a, x, v, n, l :
    /\ ~D01Rejects(a) /\ D01Effect(c, s, a) = D01At(x, v, n, l)
    => D01Step(c, s, a) = D01At(x, v, n, Then(l, D01Label(a, s.step)))
<1> TAKE c, s, a, x, v, n, l
<1> HAVE ~D01Rejects(a) /\ D01Effect(c, s, a) = D01At(x, v, n, l)
<1> DEFINE e == D01At(x, v, n, l)
           k == Append(l, D01Label(a, s.step))
           t == [e EXCEPT !.log = k]
<1>1. e.log = l
  BY D01Parts
<1>2. D01Step(c, s, a) = t
  <2>1. D01Effect(c, s, a) = e
    OBVIOUS
  <2> HIDE DEF e
  <2> QED BY <1>1, <2>1 DEF D01Step
<1>3. t = D01At(x, v, n, k)
  <2> HIDE DEF k
  <2> QED BY DEF D01At
<1> HIDE DEF t
<1> QED BY <1>2, <1>3 DEF Then

LEMMA D01AllSelected ==
  \A c, x, v, n, l :
    c \in {"legacy", "preserving", "false_green"} =>
      D01Step(c, D01At(x, v, n, l), <<"select-all">>) = D01At(x, Cards, n, Then(l, <<"select-all">>))
<1> TAKE c, x, v, n, l
<1> HAVE c \in {"legacy", "preserving", "false_green"}
<1> DEFINE s == D01At(x, v, n, l)
           a == <<"select-all">>
           t == [s EXCEPT !.selected = Cards]
<1> SUFFICES D01Step(c, s, a) = D01At(x, Cards, n, Then(l, <<"select-all">>))
  OBVIOUS
<1>1. s = D01At(x, v, n, l) /\ s.alloc = x /\ s.selected = v /\ s.step = n
  BY D01Parts
<1>2. t = [s EXCEPT !.selected = Cards]
  OBVIOUS
<1>3. D01Effect(c, s, a) = t
  <2> HIDE DEF s
  <2> QED BY DEF D01Effect, D01Legacy, D01Preserving, D01FalseGreen, D01Others
<1>4. ~D01Rejects(a)
  BY DEF D01Rejects
<1>5. D01Label(a, n) = <<"select-all">>
  BY TwoEntries, ThreeEntries, Zenon DEF D01Label
<1> HIDE DEF s, t, a
<1>6. t = D01At(x, Cards, n, l)
  <2> HIDE DEF s, t, a
  <2> QED BY <1>1, <1>2 DEF D01At
<1>7. D01Effect(c, s, a) = D01At(x, Cards, n, l)
  BY <1>3, <1>6
<1>8. D01Step(c, s, a) = D01At(x, Cards, n, Then(l, D01Label(a, s.step)))
  BY <1>4, <1>7, D01Dispatched
<1> QED BY <1>1, <1>5, <1>8, Zenon

LEMMA D01ThirdSelected ==
  \A c, x, v, n, l :
    c \in {"legacy", "preserving", "false_green"} =>
      D01Step(c, D01At(x, v, n, l), <<"select-every-third">>)
        = D01At(x, everyThird, n, Then(l, <<"select-every-third">>))
<1> TAKE c, x, v, n, l
<1> HAVE c \in {"legacy", "preserving", "false_green"}
<1> DEFINE s == D01At(x, v, n, l)
           a == <<"select-every-third">>
           t == [s EXCEPT !.selected = everyThird]
<1> SUFFICES D01Step(c, s, a) = D01At(x, everyThird, n, Then(l, <<"select-every-third">>))
  OBVIOUS
<1>1. s = D01At(x, v, n, l) /\ s.alloc = x /\ s.selected = v /\ s.step = n
  BY D01Parts
<1>2. t = [s EXCEPT !.selected = everyThird]
  OBVIOUS
<1>3. D01Effect(c, s, a) = t
  <2> HIDE DEF s
  <2> QED BY DEF D01Effect, D01Legacy, D01Preserving, D01FalseGreen, D01Others
<1>4. ~D01Rejects(a)
  BY DEF D01Rejects
<1>5. D01Label(a, n) = <<"select-every-third">>
  BY TwoEntries, ThreeEntries, Zenon DEF D01Label
<1> HIDE DEF s, t, a
<1>6. t = D01At(x, everyThird, n, l)
  <2> HIDE DEF s, t, a
  <2> QED BY <1>1, <1>2 DEF D01At
<1>7. D01Effect(c, s, a) = D01At(x, everyThird, n, l)
  BY <1>3, <1>6
<1>8. D01Step(c, s, a) = D01At(x, everyThird, n, Then(l, D01Label(a, s.step)))
  BY <1>4, <1>7, D01Dispatched
<1> QED BY <1>1, <1>5, <1>8, Zenon

LEMMA D01StepSet ==
  \A c, x, v, n, l, k :
    c \in {"legacy", "preserving", "false_green"} /\ ~(k <= 0) =>
      D01Step(c, D01At(x, v, n, l), <<"set-step", k>>) = D01At(x, v, k, Then(l, <<"set-step", k>>))
<1> TAKE c, x, v, n, l, k
<1> HAVE c \in {"legacy", "preserving", "false_green"} /\ ~(k <= 0)
<1> DEFINE s == D01At(x, v, n, l)
           a == <<"set-step", k>>
           t == [s EXCEPT !.step = k]
<1> SUFFICES D01Step(c, s, a) = D01At(x, v, k, Then(l, <<"set-step", k>>))
  OBVIOUS
<1>1. s = D01At(x, v, n, l) /\ s.alloc = x /\ s.selected = v /\ s.step = n
  BY D01Parts
<1>2. t = [s EXCEPT !.step = k]
  OBVIOUS
<1>3. D01Effect(c, s, a) = t
  <2> HIDE DEF s
  <2> QED BY DEF D01Effect, D01Legacy, D01Preserving, D01FalseGreen, D01Others
<1>4. ~D01Rejects(a)
  BY DEF D01Rejects
<1>5. D01Label(a, n) = <<"set-step", k>>
  BY TwoEntries, ThreeEntries, Zenon DEF D01Label
<1> HIDE DEF s, t, a
<1>6. t = D01At(x, v, k, l)
  <2> HIDE DEF s, t, a
  <2> QED BY <1>1, <1>2 DEF D01At
<1>7. D01Effect(c, s, a) = D01At(x, v, k, l)
  BY <1>3, <1>6
<1>8. D01Step(c, s, a) = D01At(x, v, k, Then(l, D01Label(a, s.step)))
  BY <1>4, <1>7, D01Dispatched
<1> QED BY <1>1, <1>5, <1>8, Zenon

LEMMA D01Removed ==
  \A c, x, v, n, l :
    c \in {"legacy", "preserving", "false_green"} =>
      D01Step(c, D01At(x, v, n, l), <<"remove">>)
        = D01At(adjustSelected(x, v, -n), v, n, Then(l, <<"remove", n>>))
<1> TAKE c, x, v, n, l
<1> HAVE c \in {"legacy", "preserving", "false_green"}
<1> DEFINE s == D01At(x, v, n, l)
           a == <<"remove">>
           t == [s EXCEPT !.alloc = adjustSelected(s.alloc, s.selected, -s.step)]
<1> SUFFICES D01Step(c, s, a) = D01At(adjustSelected(x, v, -n), v, n, Then(l, <<"remove", n>>))
  OBVIOUS
<1>1. s = D01At(x, v, n, l) /\ s.alloc = x /\ s.selected = v /\ s.step = n
  BY D01Parts
<1>2. t = [s EXCEPT !.alloc = adjustSelected(s.alloc, s.selected, -s.step)]
  OBVIOUS
<1>3. D01Effect(c, s, a) = t
  <2> HIDE DEF s
  <2> QED BY DEF D01Effect, D01Legacy, D01Preserving, D01FalseGreen, D01Others
<1>4. ~D01Rejects(a)
  BY DEF D01Rejects
<1>5. D01Label(a, n) = <<"remove", n>>
  BY TwoEntries, ThreeEntries, Zenon DEF D01Label
<1> HIDE DEF s, t, a
<1>6. t = D01At(adjustSelected(x, v, -n), v, n, l)
  <2> HIDE DEF s, t, a
  <2> QED BY <1>1, <1>2 DEF D01At
<1>7. D01Effect(c, s, a) = D01At(adjustSelected(x, v, -n), v, n, l)
  BY <1>3, <1>6
<1>8. D01Step(c, s, a) = D01At(adjustSelected(x, v, -n), v, n, Then(l, D01Label(a, s.step)))
  BY <1>4, <1>7, D01Dispatched
<1> QED BY <1>1, <1>5, <1>8, Zenon

LEMMA D01AllocatedOnce ==
  \A c, x, v, n, l :
    c \in {"legacy", "preserving", "false_green"} =>
      D01Step(c, D01At(x, v, n, l), <<"allocate", 1>>)
        = D01At(adjustSelected(x, v, n), v, n, Then(l, <<"allocate", 1, n>>))
<1> TAKE c, x, v, n, l
<1> HAVE c \in {"legacy", "preserving", "false_green"}
<1> DEFINE s == D01At(x, v, n, l)
           a == <<"allocate", 1>>
           t == [s EXCEPT !.alloc = adjustSelected(s.alloc, s.selected, s.step)]
<1> SUFFICES D01Step(c, s, a) = D01At(adjustSelected(x, v, n), v, n, Then(l, <<"allocate", 1, n>>))
  OBVIOUS
<1>1. s = D01At(x, v, n, l) /\ s.alloc = x /\ s.selected = v /\ s.step = n
  BY D01Parts
<1>2. t = [s EXCEPT !.alloc = adjustSelected(s.alloc, s.selected, s.step)]
  OBVIOUS
<1>3. D01Effect(c, s, a) = t
  <2> HIDE DEF s
  <2> QED BY DEF D01Effect, D01Legacy, D01Preserving, D01FalseGreen, D01Others
<1>4. ~D01Rejects(a)
  BY DEF D01Rejects
<1>5. D01Label(a, n) = <<"allocate", 1, n>>
  BY TwoEntries, ThreeEntries, Zenon DEF D01Label
<1> HIDE DEF s, t, a
<1>6. t = D01At(adjustSelected(x, v, n), v, n, l)
  <2> HIDE DEF s, t, a
  <2> QED BY <1>1, <1>2 DEF D01At
<1>7. D01Effect(c, s, a) = D01At(adjustSelected(x, v, n), v, n, l)
  BY <1>3, <1>6
<1>8. D01Step(c, s, a) = D01At(adjustSelected(x, v, n), v, n, Then(l, D01Label(a, s.step)))
  BY <1>4, <1>7, D01Dispatched
<1> QED BY <1>1, <1>5, <1>8, Zenon

LEMMA D01AllocatedTwice ==
  \A c, x, v, n, l :
    c \in {"legacy", "preserving"} =>
      D01Step(c, D01At(x, v, n, l), <<"allocate", 2>>)
        = D01At(adjustSelected(adjustSelected(x, v, n), v, n), v, n, Then(l, <<"allocate", 2, n>>))
<1> TAKE c, x, v, n, l
<1> HAVE c \in {"legacy", "preserving"}
<1> DEFINE s == D01At(x, v, n, l)
           a == <<"allocate", 2>>
           t == [s EXCEPT !.alloc = adjustSelected(adjustSelected(s.alloc, s.selected, s.step),
             s.selected, s.step)]
<1> SUFFICES D01Step(c, s, a) = D01At(adjustSelected(adjustSelected(x, v, n), v, n), v, n,
               Then(l, <<"allocate", 2, n>>))
  OBVIOUS
<1>1. s = D01At(x, v, n, l) /\ s.alloc = x /\ s.selected = v /\ s.step = n
  BY D01Parts
<1>2. t = [s EXCEPT !.alloc = adjustSelected(adjustSelected(s.alloc, s.selected, s.step), s.selected,
        s.step)]
  OBVIOUS
<1>3. D01Effect(c, s, a) = t
  <2> HIDE DEF s
  <2> QED BY DEF D01Effect, D01Legacy, D01Preserving, D01FalseGreen, D01Others
<1>4. ~D01Rejects(a)
  BY DEF D01Rejects
<1>5. D01Label(a, n) = <<"allocate", 2, n>>
  BY TwoEntries, ThreeEntries, Zenon DEF D01Label
<1> HIDE DEF s, t, a
<1>6. t = D01At(adjustSelected(adjustSelected(x, v, n), v, n), v, n, l)
  <2> HIDE DEF s, t, a
  <2> QED BY <1>1, <1>2 DEF D01At
<1>7. D01Effect(c, s, a) = D01At(adjustSelected(adjustSelected(x, v, n), v, n), v, n, l)
  BY <1>3, <1>6
<1>8. D01Step(c, s, a) = D01At(adjustSelected(adjustSelected(x, v, n), v, n), v, n,
        Then(l, D01Label(a, s.step)))
  BY <1>4, <1>7, D01Dispatched
<1> QED BY <1>1, <1>5, <1>8, Zenon

LEMMA D01AllocatedStale ==
  \A c, x, v, n, l :
    c \in {"false_green"} =>
      D01Step(c, D01At(x, v, n, l), <<"allocate", 2>>)
        = D01At(adjustSelected(x, v, n), v, n, Then(l, <<"allocate", 2, n>>))
<1> TAKE c, x, v, n, l
<1> HAVE c \in {"false_green"}
<1> DEFINE s == D01At(x, v, n, l)
           a == <<"allocate", 2>>
           t == [s EXCEPT !.alloc = adjustSelected(s.alloc, s.selected, s.step)]
<1> SUFFICES D01Step(c, s, a) = D01At(adjustSelected(x, v, n), v, n, Then(l, <<"allocate", 2, n>>))
  OBVIOUS
<1>1. s = D01At(x, v, n, l) /\ s.alloc = x /\ s.selected = v /\ s.step = n
  BY D01Parts
<1>2. t = [s EXCEPT !.alloc = adjustSelected(s.alloc, s.selected, s.step)]
  OBVIOUS
<1>3. D01Effect(c, s, a) = t
  <2> HIDE DEF s
  <2> QED BY DEF D01Effect, D01Legacy, D01Preserving, D01FalseGreen, D01Others
<1>4. ~D01Rejects(a)
  BY DEF D01Rejects
<1>5. D01Label(a, n) = <<"allocate", 2, n>>
  BY TwoEntries, ThreeEntries, Zenon DEF D01Label
<1> HIDE DEF s, t, a
<1>6. t = D01At(adjustSelected(x, v, n), v, n, l)
  <2> HIDE DEF s, t, a
  <2> QED BY <1>1, <1>2 DEF D01At
<1>7. D01Effect(c, s, a) = D01At(adjustSelected(x, v, n), v, n, l)
  BY <1>3, <1>6
<1>8. D01Step(c, s, a) = D01At(adjustSelected(x, v, n), v, n, Then(l, D01Label(a, s.step)))
  BY <1>4, <1>7, D01Dispatched
<1> QED BY <1>1, <1>5, <1>8, Zenon

LEMMA D01BoardReset ==
  \A c, x, v, n, l :
    c \in {"legacy", "preserving", "false_green"} =>
      D01Step(c, D01At(x, v, n, l), <<"reset">>) = D01At(Alike(Cards, 0), {}, 1, Then(l, <<"reset">>))
<1> TAKE c, x, v, n, l
<1> HAVE c \in {"legacy", "preserving", "false_green"}
<1> DEFINE s == D01At(x, v, n, l)
           a == <<"reset">>
           m == D01Mount
           t == [m EXCEPT !.log = s.log]
<1> SUFFICES D01Step(c, s, a) = D01At(Alike(Cards, 0), {}, 1, Then(l, <<"reset">>))
  OBVIOUS
<1>1. s.log = l /\ s.step = n
  BY D01Parts
<1>2. D01Effect(c, s, a) = t
  <2> HIDE DEF s
  <2> QED BY DEF D01Effect, D01Legacy, D01Preserving, D01FalseGreen, D01Others
<1>3. ~D01Rejects(a)
  BY DEF D01Rejects
<1>4. D01Label(a, n) = <<"reset">>
  BY DEF D01Label
<1>5. m = D01At(Alike(Cards, 0), {}, 1, <<<<"mount">>>>)
  BY D01Starts
<1>6. t = D01At(Alike(Cards, 0), {}, 1, l)
  <2> DEFINE first == <<<<"mount">>>>
             zeros == Alike(Cards, 0)
  <2>1. m = D01At(zeros, {}, 1, first) /\ t = [m EXCEPT !.log = l]
    BY <1>1, <1>5
  <2> HIDE DEF first, zeros, m, t
  <2>2. t = D01At(zeros, {}, 1, l)
    BY <2>1 DEF D01At
  <2> QED BY <2>2 DEF zeros
<1> HIDE DEF s, t, a, m
<1>7. D01Effect(c, s, a) = D01At(Alike(Cards, 0), {}, 1, l)
  BY <1>2, <1>6
<1>8. D01Step(c, s, a) = D01At(Alike(Cards, 0), {}, 1, Then(l, D01Label(a, s.step)))
  BY <1>3, <1>7, D01Dispatched
<1> QED BY <1>1, <1>4, <1>8, Zenon

\* The log after each action of the script.
D01LogTo(i) == SubSeq(D01Log, 1, i)

LEMMA D01LogIs ==
  /\ IsLog(D01Log) /\ Len(D01Log) = 9
  /\ D01Log[1] = <<"mount">>
  /\ D01Log[2] = <<"select-all">>
  /\ D01Log[3] = <<"allocate", 2, 1>>
  /\ D01Log[4] = <<"set-step", 3>>
  /\ D01Log[5] = <<"allocate", 2, 3>>
  /\ D01Log[6] = <<"select-every-third">>
  /\ D01Log[7] = <<"remove", 3>>
  /\ D01Log[8] = <<"reset">>
  /\ D01Log[9] = <<"reset">>
<1> DEFINE Words == {<<"mount">>, <<"select-all">>, <<"allocate", 2, 1>>, <<"set-step", 3>>,
             <<"allocate", 2, 3>>, <<"select-every-third">>, <<"remove", 3>>, <<"reset">>}
<1>1. D01Log \in Seq(Words)
  BY DEF D01Log
<1>2. Len(D01Log) = 9
  BY DEF D01Log
<1>3. D01Log[1] = <<"mount">>
  BY DEF D01Log
<1>4. D01Log[2] = <<"select-all">>
  BY DEF D01Log
<1>5. D01Log[3] = <<"allocate", 2, 1>>
  BY DEF D01Log
<1>6. D01Log[4] = <<"set-step", 3>>
  BY DEF D01Log
<1>7. D01Log[5] = <<"allocate", 2, 3>>
  BY DEF D01Log
<1>8. D01Log[6] = <<"select-every-third">>
  BY DEF D01Log
<1>9. D01Log[7] = <<"remove", 3>>
  BY DEF D01Log
<1>10. D01Log[8] = <<"reset">>
  BY DEF D01Log
<1>11. D01Log[9] = <<"reset">>
  BY DEF D01Log
<1>12. IsLog(D01Log)
  BY <1>1 DEF IsLog
<1> QED BY <1>2, <1>3, <1>4, <1>5, <1>6, <1>7, <1>8, <1>9, <1>10, <1>11, <1>12, Zenon

LEMMA D01Logged ==
  /\ D01LogTo(1) = <<<<"mount">>>>
  /\ Then(D01LogTo(1), <<"select-all">>) = D01LogTo(2)
  /\ Then(D01LogTo(2), <<"allocate", 2, 1>>) = D01LogTo(3)
  /\ Then(D01LogTo(3), <<"set-step", 3>>) = D01LogTo(4)
  /\ Then(D01LogTo(4), <<"allocate", 2, 3>>) = D01LogTo(5)
  /\ Then(D01LogTo(5), <<"select-every-third">>) = D01LogTo(6)
  /\ Then(D01LogTo(6), <<"remove", 3>>) = D01LogTo(7)
  /\ Then(D01LogTo(7), <<"reset">>) = D01LogTo(8)
  /\ Then(D01LogTo(8), <<"reset">>) = D01LogTo(9)
<1>1. PICK S : D01Log \in Seq(S)
  BY D01LogIs DEF IsLog
<1>2. D01LogTo(1) = <<<<"mount">>>>
  <2>1. Len(D01Log) > 0
    BY D01LogIs
  <2>2. SubSeq(D01Log, 1, 1) = <<D01Log[1]>>
    BY <1>1, <2>1, LogStarts, Zenon
  <2> QED BY <2>2, D01LogIs, Zenon DEF D01LogTo
<1>3. \A i \in 1 .. 8 : Then(D01LogTo(i), D01Log[i + 1]) = D01LogTo(i + 1)
  <2>1. \A i \in 1 .. Len(D01Log) - 1 :
          Append(SubSeq(D01Log, 1, i), D01Log[i + 1]) = SubSeq(D01Log, 1, i + 1)
    BY <1>1, LogExtended
  <2>2. Len(D01Log) = 9
    BY D01LogIs
  <2>3. 1 .. Len(D01Log) - 1 = 1 .. 8
    BY <2>2
  <2> QED BY <2>1, <2>3 DEF D01LogTo, Then
<1>4. /\ Then(D01LogTo(1), D01Log[2]) = D01LogTo(2)
      /\ Then(D01LogTo(2), D01Log[3]) = D01LogTo(3)
      /\ Then(D01LogTo(3), D01Log[4]) = D01LogTo(4)
      /\ Then(D01LogTo(4), D01Log[5]) = D01LogTo(5)
      /\ Then(D01LogTo(5), D01Log[6]) = D01LogTo(6)
      /\ Then(D01LogTo(6), D01Log[7]) = D01LogTo(7)
      /\ Then(D01LogTo(7), D01Log[8]) = D01LogTo(8)
      /\ Then(D01LogTo(8), D01Log[9]) = D01LogTo(9)
  BY <1>3
<1> QED BY <1>2, <1>4, D01LogIs, Zenon

LEMMA D01CanonicalShows ==
  ASSUME NEW c \in {"legacy", "preserving", "false_green"}, NEW st, Passes("D01", c, Canonical, 8, st)
  PROVE  D01Oracle([i \in 1 .. 9 |-> st[i]]) <=> c # "false_green"
<1> DEFINE fs == [i \in 1 .. 9 |-> st[i]]
<1> SUFFICES D01Oracle(fs) <=> c # "false_green"
  OBVIOUS
<1>1. /\ st[1] = D01Mount
      /\ st[2] = D01Step(c, st[1], <<"select-all">>)
      /\ st[3] = D01Step(c, st[2], <<"allocate", 2>>)
      /\ st[4] = D01Step(c, st[3], <<"set-step", 3>>)
      /\ st[5] = D01Step(c, st[4], <<"allocate", 2>>)
      /\ st[6] = D01Step(c, st[5], <<"select-every-third">>)
      /\ st[7] = D01Step(c, st[6], <<"remove">>)
      /\ st[8] = D01Step(c, st[7], <<"reset">>)
      /\ st[9] = D01Step(c, st[8], <<"reset">>)
  BY DEF Passes, ScriptOf, CanonicalOf, MountOf, StepOf, D01Canonical
<1>2. \A i \in 1 .. 9 : fs[i] = st[i]
  OBVIOUS
<1>3. Len(fs) = 9 /\ DOMAIN fs = 1 .. 9
  OBVIOUS
<1> HIDE DEF fs
<1>4. st[2] = D01At(Alike(Cards, 0), Cards, 1, D01LogTo(2))
  <2>1. st[1] = D01At(Alike(Cards, 0), {}, 1, D01LogTo(1))
    BY <1>1, D01Starts, D01Logged
  <2> QED BY <1>1, <2>1, D01AllSelected, D01Logged
<1>5. /\ adjustSelected(Alike(Cards, 0), Cards, 1) = Alike(Cards, 1)
      /\ adjustSelected(Alike(Cards, 1), Cards, 1) = Alike(Cards, 2)
      /\ adjustSelected(Alike(Cards, 2), Cards, 3) = Alike(Cards, 5)
      /\ adjustSelected(Alike(Cards, 5), Cards, 3) = Alike(Cards, 8)
  <2>1. 0 + 1 = 1 /\ 1 + 1 = 2 /\ 2 + 3 = 5 /\ 5 + 3 = 8 /\ ~(1 < 0) /\ ~(2 < 0) /\ ~(5 < 0) /\ ~(8 < 0)
    OBVIOUS
  <2> QED BY <2>1, AllAdjusted
<1>6. adjustSelected(Alike(Cards, 8), everyThird, -3) = Marked(Cards, everyThird, 5, 8)
  <2>1. 8 + (-3) = 5 /\ ~(5 < 0)
    OBVIOUS
  <2>2. adjustSelected(Marked(Cards, everyThird, 8, 8), everyThird, -3) = Marked(Cards, everyThird, 5, 8)
    BY <2>1, MarkedAdjusted
  <2>3. Alike(Cards, 8) = Marked(Cards, everyThird, 8, 8)
    BY AlikeIsMarked
  <2> QED BY <2>2, <2>3
<1>7. CASE c \in {"legacy", "preserving"}
  <2>1. st[1] = D01At(Alike(Cards, 0), {}, 1, D01LogTo(1))
    BY <1>1, D01Starts, D01Logged
  <2>2. st[2] = D01At(Alike(Cards, 0), Cards, 1, D01LogTo(2))
    BY <1>4
  <2>3. st[3] = D01At(Alike(Cards, 2), Cards, 1, D01LogTo(3))
    <3>1. st[3] = D01At(adjustSelected(adjustSelected(Alike(Cards, 0), Cards, 1), Cards, 1), Cards, 1,
                        Then(D01LogTo(2), <<"allocate", 2, 1>>))
      BY <1>1, <1>7, <2>2, D01AllocatedTwice
    <3> QED BY <1>5, <3>1, D01Logged
  <2>4. st[4] = D01At(Alike(Cards, 2), Cards, 3, D01LogTo(4))
    <3>1. ~(3 <= 0)
      OBVIOUS
    <3> QED BY <1>1, <2>3, <3>1, D01StepSet, D01Logged
  <2>5. st[5] = D01At(Alike(Cards, 8), Cards, 3, D01LogTo(5))
    <3>1. st[5] = D01At(adjustSelected(adjustSelected(Alike(Cards, 2), Cards, 3), Cards, 3), Cards, 3,
                        Then(D01LogTo(4), <<"allocate", 2, 3>>))
      BY <1>1, <1>7, <2>4, D01AllocatedTwice
    <3> QED BY <1>5, <3>1, D01Logged
  <2>6. st[6] = D01At(Alike(Cards, 8), everyThird, 3, D01LogTo(6))
    BY <1>1, <2>5, D01ThirdSelected, D01Logged
  <2>7. st[7] = D01At(Marked(Cards, everyThird, 5, 8), everyThird, 3, D01LogTo(7))
    <3>1. st[7] = D01At(adjustSelected(Alike(Cards, 8), everyThird, -3), everyThird, 3,
                        Then(D01LogTo(6), <<"remove", 3>>))
      BY <1>1, <2>6, D01Removed
    <3> QED BY <1>6, <3>1, D01Logged
  <2>8. st[8] = D01At(Alike(Cards, 0), {}, 1, D01LogTo(8))
    BY <1>1, <2>7, D01BoardReset, D01Logged
  <2>9. st[9] = D01At(Alike(Cards, 0), {}, 1, D01LogTo(9))
    BY <1>1, <2>8, D01BoardReset, D01Logged
  <2> DEFINE Right(i) == /\ <<fs[i].alloc, fs[i].selected, fs[i].step>> = D01Expected[i]
                         /\ fs[i].log = SubSeq(D01Log, 1, i)
  <2>10. Right(1)
    <3>1. /\ fs[1].alloc = Alike(Cards, 0) /\ fs[1].selected = {}
          /\ fs[1].step = 1 /\ fs[1].log = D01LogTo(1)
      BY <1>2, <2>1, D01Parts
    <3>2. D01Expected[1] = <<Alike(Cards, 0), {}, 1>>
      BY DEF D01Expected, Alike
    <3> QED BY <3>1, <3>2, Zenon DEF D01LogTo
  <2>11. Right(2)
    <3>1. /\ fs[2].alloc = Alike(Cards, 0) /\ fs[2].selected = Cards
          /\ fs[2].step = 1 /\ fs[2].log = D01LogTo(2)
      BY <1>2, <2>2, D01Parts
    <3>2. D01Expected[2] = <<Alike(Cards, 0), Cards, 1>>
      BY DEF D01Expected, Alike
    <3> QED BY <3>1, <3>2, Zenon DEF D01LogTo
  <2>12. Right(3)
    <3>1. /\ fs[3].alloc = Alike(Cards, 2) /\ fs[3].selected = Cards
          /\ fs[3].step = 1 /\ fs[3].log = D01LogTo(3)
      BY <1>2, <2>3, D01Parts
    <3>2. D01Expected[3] = <<Alike(Cards, 2), Cards, 1>>
      BY DEF D01Expected, Alike
    <3> QED BY <3>1, <3>2, Zenon DEF D01LogTo
  <2>13. Right(4)
    <3>1. /\ fs[4].alloc = Alike(Cards, 2) /\ fs[4].selected = Cards
          /\ fs[4].step = 3 /\ fs[4].log = D01LogTo(4)
      BY <1>2, <2>4, D01Parts
    <3>2. D01Expected[4] = <<Alike(Cards, 2), Cards, 3>>
      BY DEF D01Expected, Alike
    <3> QED BY <3>1, <3>2, Zenon DEF D01LogTo
  <2>14. Right(5)
    <3>1. /\ fs[5].alloc = Alike(Cards, 8) /\ fs[5].selected = Cards
          /\ fs[5].step = 3 /\ fs[5].log = D01LogTo(5)
      BY <1>2, <2>5, D01Parts
    <3>2. D01Expected[5] = <<Alike(Cards, 8), Cards, 3>>
      BY DEF D01Expected, Alike
    <3> QED BY <3>1, <3>2, Zenon DEF D01LogTo
  <2>15. Right(6)
    <3>1. /\ fs[6].alloc = Alike(Cards, 8) /\ fs[6].selected = everyThird
          /\ fs[6].step = 3 /\ fs[6].log = D01LogTo(6)
      BY <1>2, <2>6, D01Parts
    <3>2. D01Expected[6] = <<Alike(Cards, 8), everyThird, 3>>
      BY DEF D01Expected, Alike
    <3> QED BY <3>1, <3>2, Zenon DEF D01LogTo
  <2>16. Right(7)
    <3>1. /\ fs[7].alloc = Marked(Cards, everyThird, 5, 8) /\ fs[7].selected = everyThird
          /\ fs[7].step = 3 /\ fs[7].log = D01LogTo(7)
      BY <1>2, <2>7, D01Parts
    <3>2. D01Expected[7] = <<Marked(Cards, everyThird, 5, 8), everyThird, 3>>
      BY DEF D01Expected, Alike
    <3> QED BY <3>1, <3>2, Zenon DEF D01LogTo
  <2>17. Right(8)
    <3>1. /\ fs[8].alloc = Alike(Cards, 0) /\ fs[8].selected = {}
          /\ fs[8].step = 1 /\ fs[8].log = D01LogTo(8)
      BY <1>2, <2>8, D01Parts
    <3>2. D01Expected[8] = <<Alike(Cards, 0), {}, 1>>
      BY DEF D01Expected, Alike
    <3> QED BY <3>1, <3>2, Zenon DEF D01LogTo
  <2>18. Right(9)
    <3>1. /\ fs[9].alloc = Alike(Cards, 0) /\ fs[9].selected = {}
          /\ fs[9].step = 1 /\ fs[9].log = D01LogTo(9)
      BY <1>2, <2>9, D01Parts
    <3>2. D01Expected[9] = <<Alike(Cards, 0), {}, 1>>
      BY DEF D01Expected, Alike
    <3> QED BY <3>1, <3>2, Zenon DEF D01LogTo
  <2> HIDE DEF Right
  <2>19. \A i \in 1 .. 9 : Right(i)
    BY <2>10, <2>11, <2>12, <2>13, <2>14, <2>15, <2>16, <2>17, <2>18
  <2>20. Len(D01Expected) = 9
    BY DEF D01Expected
  <2>21. D01Oracle(fs)
    BY <1>3, <2>19, <2>20 DEF D01Oracle, Right
  <2> QED BY <1>7, <2>21
\* Candidate B adds one round of the two.
<1>8. CASE c = "false_green"
  <2>1. st[3] = D01At(Alike(Cards, 1), Cards, 1, D01LogTo(3))
    <3>1. st[3] = D01At(adjustSelected(Alike(Cards, 0), Cards, 1), Cards, 1,
                        Then(D01LogTo(2), <<"allocate", 2, 1>>))
      BY <1>1, <1>4, <1>8, D01AllocatedStale
    <3> QED BY <1>5, <3>1, D01Logged
  <2>2. fs[3].alloc[1] = 1
    <3>1. fs[3].alloc = Alike(Cards, 1)
      BY <1>2, <2>1, D01Parts
    <3>2. 1 \in Cards
      BY CountsAssumption DEF Cards
    <3> QED BY <3>1, <3>2 DEF Alike
  <2>3. D01Expected[3] = <<Alike(Cards, 2), Cards, 1>>
    BY DEF D01Expected, Alike
  <2>4. ASSUME <<fs[3].alloc, fs[3].selected, fs[3].step>> = <<Alike(Cards, 2), Cards, 1>> PROVE FALSE
    <3>1. fs[3].alloc = Alike(Cards, 2)
      BY <2>4
    <3>2. 1 \in Cards
      BY CountsAssumption DEF Cards
    <3>3. Alike(Cards, 2)[1] = 2
      BY <3>2 DEF Alike
    <3> QED BY <2>2, <3>1, <3>3
  <2>5. 3 \in DOMAIN fs
    BY <1>3
  <2> QED BY <1>8, <2>3, <2>4, <2>5 DEF D01Oracle
<1> QED BY <1>7, <1>8

LEMMA D01VisibleShows ==
  ASSUME NEW c \in {"legacy", "preserving", "false_green"}, NEW k \in DOMAIN D01Visible, NEW st,
         Passes("D01", c, Assertion(k), Len(D01Visible[k]), st)
  PROVE  D01Holds(k, [i \in 1 .. Len(D01Visible[k]) + 1 |-> st[i]])
<1> DEFINE fs == [i \in 1 .. Len(D01Visible[k]) + 1 |-> st[i]]
<1> SUFFICES D01Holds(k, fs)
  OBVIOUS
<1>1. PICK l : st[1] = D01At(Alike(Cards, 0), {}, 1, l)
  BY D01Starts DEF Passes, MountOf
<1>2. k \in 1 .. 5
  BY DEF D01Visible
<1>3. ASSUME NEW l1, NEW s, s = D01At(Alike(Cards, 0), {}, 1, l1)
      PROVE  s.alloc = Zeros(Cards) /\ s.step = 1 /\ s.selected = {}
  BY <1>3, D01Parts, AlikeIsMarked
<1>4. CASE k = 1
  <2>1. Last(fs) = st[1]
    BY <1>4 DEF D01Visible, Last
  <2> HIDE DEF fs
  <2> QED BY <1>1, <1>3, <1>4, <2>1 DEF D01Holds
<1>5. CASE k = 2
  <2>1. st[2] = D01Step(c, st[1], <<"select-all">>) /\ Last(fs) = st[2]
    BY <1>5 DEF Passes, ScriptOf, VisibleOf, StepOf, D01Visible, Assertion, Canonical, Last
  <2> HIDE DEF fs
  <2>2. Last(fs).selected = Cards
    BY <1>1, <2>1, D01AllSelected, D01Parts
  <2> QED BY <1>5, <2>2 DEF D01Holds
<1>6. CASE k = 3
  <2>1. /\ st[2] = D01Step(c, st[1], <<"select-every-third">>)
        /\ st[3] = D01Step(c, st[2], <<"allocate", 1>>) /\ Last(fs) = st[3]
    BY <1>6 DEF Passes, ScriptOf, VisibleOf, StepOf, D01Visible, Assertion, Canonical, Last
  <2> HIDE DEF fs
  <2>2. PICK l2 : st[2] = D01At(Alike(Cards, 0), everyThird, 1, l2)
    BY <1>1, <2>1, D01ThirdSelected
  <2>3. PICK l3 : st[3] = D01At(adjustSelected(Alike(Cards, 0), everyThird, 1), everyThird, 1, l3)
    <3>1. st[3] = D01At(adjustSelected(Alike(Cards, 0), everyThird, 1), everyThird, 1,
                        Then(l2, <<"allocate", 1, 1>>))
      BY <2>1, <2>2, D01AllocatedOnce
    <3> QED BY <3>1
  <2>4. adjustSelected(Alike(Cards, 0), everyThird, 1) = Marked(Cards, everyThird, 1, 0)
    <3>1. 0 + 1 = 1 /\ ~(1 < 0)
      OBVIOUS
    <3>2. adjustSelected(Marked(Cards, everyThird, 0, 0), everyThird, 1) = Marked(Cards, everyThird, 1, 0)
      BY <3>1, MarkedAdjusted
    <3>3. Alike(Cards, 0) = Marked(Cards, everyThird, 0, 0)
      BY AlikeIsMarked
    <3> QED BY <3>2, <3>3
  <2>5. Last(fs).alloc = Marked(Cards, everyThird, 1, 0)
    BY <2>1, <2>3, <2>4, D01Parts
  <2> QED BY <1>6, <2>5 DEF D01Holds
\* The three actions that the last two scripts begin with.
<1>7. ASSUME st[2] = D01Step(c, st[1], <<"select-all">>), st[3] = D01Step(c, st[2], <<"allocate", 1>>),
             st[4] = D01Step(c, st[3], <<"set-step", 3>>)
      PROVE  \E l3, l4 : /\ st[3] = D01At(Alike(Cards, 1), Cards, 1, l3)
                         /\ st[4] = D01At(Alike(Cards, 1), Cards, 3, l4)
  <2>1. PICK l2 : st[2] = D01At(Alike(Cards, 0), Cards, 1, l2)
    BY <1>1, <1>7, D01AllSelected
  <2>2. PICK l3 : st[3] = D01At(adjustSelected(Alike(Cards, 0), Cards, 1), Cards, 1, l3)
    <3>1. st[3] = D01At(adjustSelected(Alike(Cards, 0), Cards, 1), Cards, 1,
                        Then(l2, <<"allocate", 1, 1>>))
      BY <1>7, <2>1, D01AllocatedOnce
    <3> QED BY <3>1
  <2>3. adjustSelected(Alike(Cards, 0), Cards, 1) = Alike(Cards, 1)
    <3>1. 0 + 1 = 1 /\ ~(1 < 0)
      OBVIOUS
    <3> QED BY <3>1, AllAdjusted
  <2>4. ~(3 <= 0)
    OBVIOUS
  <2>5. PICK l4 : st[4] = D01At(adjustSelected(Alike(Cards, 0), Cards, 1), Cards, 3, l4)
    BY <1>7, <2>2, <2>4, D01StepSet
  <2> QED BY <2>2, <2>3, <2>5
<1>8. CASE k = 4
  <2>1. /\ st[2] = D01Step(c, st[1], <<"select-all">>) /\ st[3] = D01Step(c, st[2], <<"allocate", 1>>)
        /\ st[4] = D01Step(c, st[3], <<"set-step", 3>>) /\ st[5] = D01Step(c, st[4], <<"remove">>)
        /\ fs[3] = st[3] /\ fs[4] = st[4] /\ Last(fs) = st[5]
    BY <1>8 DEF Passes, ScriptOf, VisibleOf, StepOf, D01Visible, Assertion, Canonical, Last
  <2> HIDE DEF fs
  <2>2. PICK l3, l4 : /\ st[3] = D01At(Alike(Cards, 1), Cards, 1, l3)
                      /\ st[4] = D01At(Alike(Cards, 1), Cards, 3, l4)
    BY <1>7, <2>1
  <2>3. PICK l5 : st[5] = D01At(adjustSelected(Alike(Cards, 1), Cards, -3), Cards, 3, l5)
    <3>1. st[5] = D01At(adjustSelected(Alike(Cards, 1), Cards, -3), Cards, 3, Then(l4, <<"remove", 3>>))
      BY <2>1, <2>2, D01Removed
    <3> QED BY <3>1
  <2>4. adjustSelected(Alike(Cards, 1), Cards, -3) = Alike(Cards, 0)
    <3>1. 1 + (-3) < 0
      OBVIOUS
    <3> QED BY <3>1, AllAdjusted
  <2>5. fs[3].alloc = fs[4].alloc /\ Last(fs).alloc = Zeros(Cards)
    BY <2>1, <2>2, <2>3, <2>4, D01Parts, AlikeIsMarked
  <2> QED BY <1>8, <2>5 DEF D01Holds
<1>9. CASE k = 5
  <2>1. /\ st[2] = D01Step(c, st[1], <<"select-all">>) /\ st[3] = D01Step(c, st[2], <<"allocate", 1>>)
        /\ st[4] = D01Step(c, st[3], <<"set-step", 3>>) /\ st[5] = D01Step(c, st[4], <<"reset">>)
        /\ Last(fs) = st[5]
    BY <1>9 DEF Passes, ScriptOf, VisibleOf, StepOf, D01Visible, Assertion, Canonical, Last
  <2> HIDE DEF fs
  <2>2. PICK l3, l4 : /\ st[3] = D01At(Alike(Cards, 1), Cards, 1, l3)
                      /\ st[4] = D01At(Alike(Cards, 1), Cards, 3, l4)
    BY <1>7, <2>1
  <2>3. PICK l5 : st[5] = D01At(Alike(Cards, 0), {}, 1, l5)
    BY <2>1, <2>2, D01BoardReset
  <2> QED BY <1>3, <1>9, <2>1, <2>3 DEF D01Holds
<1> QED BY <1>2, <1>4, <1>5, <1>6, <1>8, <1>9

-----------------------------------------------------------------------------
(* What the scripts of BG-D02 show. *)

D02At(pending, dispatched, selected, unit, log) ==
  [pending |-> pending, dispatched |-> dispatched, selected |-> selected, unit |-> unit, log |-> log]

\* What a flush of the lanes x leaves pending and has dispatched.
D02Left(p, x) == [l \in Lanes |-> IF l \in x THEN 0 ELSE p[l]]
D02Moved(p, d, x) == [l \in Lanes |-> IF l \in x THEN d[l] + p[l] ELSE d[l]]

LEMMA D02Parts ==
  \A p, d, x, n, l :
    /\ D02At(p, d, x, n, l).pending = p /\ D02At(p, d, x, n, l).dispatched = d
    /\ D02At(p, d, x, n, l).selected = x /\ D02At(p, d, x, n, l).unit = n
    /\ D02At(p, d, x, n, l).log = l
<1> TAKE p, d, x, n, l
<1> QED BY DEF D02At

LEMMA D02Starts == D02Mount = D02At(Alike(Lanes, 0), Alike(Lanes, 0), {}, 1, <<<<"mount">>>>)
BY AlikeIsMarked, Zenon DEF D02Mount, D02At

\* A dispatch that is not refused, of the state that its effect leaves.
LEMMA D02Dispatched ==
  \A c, s, a, p, d, x, n, l :
    /\ ~D02Rejects(a) /\ D02Effect(c, s, a) = D02At(p, d, x, n, l)
    => D02Step(c, s, a) = D02At(p, d, x, n, Then(l, D02Label(a, s.unit)))
<1> TAKE c, s, a, p, d, x, n, l
<1> HAVE ~D02Rejects(a) /\ D02Effect(c, s, a) = D02At(p, d, x, n, l)
<1> DEFINE e == D02At(p, d, x, n, l)
           k == Append(l, D02Label(a, s.unit))
           t == [e EXCEPT !.log = k]
<1>1. e.log = l
  BY D02Parts
<1>2. D02Step(c, s, a) = t
  <2>1. D02Effect(c, s, a) = e
    OBVIOUS
  <2> HIDE DEF e
  <2> QED BY <1>1, <2>1 DEF D02Step
<1>3. t = D02At(p, d, x, n, k)
  <2> HIDE DEF k
  <2> QED BY DEF D02At
<1> HIDE DEF t
<1> QED BY <1>2, <1>3 DEF Then

LEMMA D02AllSelected ==
  \A c, p, d, x, n, l :
      D02Step(c, D02At(p, d, x, n, l), <<"select-all">>)
        = D02At(p, d, Lanes, n, Then(l, <<"select-all">>))
<1> TAKE c, p, d, x, n, l
<1> DEFINE s == D02At(p, d, x, n, l)
           a == <<"select-all">>
           t == [s EXCEPT !.selected = Lanes]
<1> SUFFICES D02Step(c, s, a) = D02At(p, d, Lanes, n, Then(l, <<"select-all">>))
  OBVIOUS
<1>1. s = D02At(p, d, x, n, l) /\ s.pending = p /\ s.dispatched = d /\ s.selected = x /\ s.unit = n
  BY D02Parts
<1>2. t = [s EXCEPT !.selected = Lanes]
  OBVIOUS
<1>3. D02Effect(c, s, a) = t
  <2> HIDE DEF s
  <2> QED BY DEF D02Effect, D02Preserving, D02FalseGreen, D02Others, D02Flush, D02Left, D02Moved
<1>4. ~D02Rejects(a)
  BY DEF D02Rejects
<1>5. D02Label(a, n) = <<"select-all">>
  BY TwoEntries, ThreeEntries, Zenon DEF D02Label
<1> HIDE DEF s, t, a
<1>6. t = D02At(p, d, Lanes, n, l)
  BY <1>1, <1>2 DEF D02At
<1>7. D02Effect(c, s, a) = D02At(p, d, Lanes, n, l)
  BY <1>3, <1>6
<1>8. D02Step(c, s, a) = D02At(p, d, Lanes, n, Then(l, D02Label(a, s.unit)))
  BY <1>4, <1>7, D02Dispatched
<1> QED BY <1>1, <1>5, <1>8, Zenon

LEMMA D02EvenSelected ==
  \A c, p, d, x, n, l :
      D02Step(c, D02At(p, d, x, n, l), <<"select-even">>)
        = D02At(p, d, evenLanes, n, Then(l, <<"select-even">>))
<1> TAKE c, p, d, x, n, l
<1> DEFINE s == D02At(p, d, x, n, l)
           a == <<"select-even">>
           t == [s EXCEPT !.selected = evenLanes]
<1> SUFFICES D02Step(c, s, a) = D02At(p, d, evenLanes, n, Then(l, <<"select-even">>))
  OBVIOUS
<1>1. s = D02At(p, d, x, n, l) /\ s.pending = p /\ s.dispatched = d /\ s.selected = x /\ s.unit = n
  BY D02Parts
<1>2. t = [s EXCEPT !.selected = evenLanes]
  OBVIOUS
<1>3. D02Effect(c, s, a) = t
  <2> HIDE DEF s
  <2> QED BY DEF D02Effect, D02Preserving, D02FalseGreen, D02Others, D02Flush, D02Left, D02Moved
<1>4. ~D02Rejects(a)
  BY DEF D02Rejects
<1>5. D02Label(a, n) = <<"select-even">>
  BY TwoEntries, ThreeEntries, Zenon DEF D02Label
<1> HIDE DEF s, t, a
<1>6. t = D02At(p, d, evenLanes, n, l)
  BY <1>1, <1>2 DEF D02At
<1>7. D02Effect(c, s, a) = D02At(p, d, evenLanes, n, l)
  BY <1>3, <1>6
<1>8. D02Step(c, s, a) = D02At(p, d, evenLanes, n, Then(l, D02Label(a, s.unit)))
  BY <1>4, <1>7, D02Dispatched
<1> QED BY <1>1, <1>5, <1>8, Zenon

LEMMA D02UnitSet ==
  \A c, p, d, x, n, l, k :
    ~(k <= 0) =>
      D02Step(c, D02At(p, d, x, n, l), <<"set-unit", k>>)
        = D02At(p, d, x, k, Then(l, <<"set-unit", k>>))
<1> TAKE c, p, d, x, n, l, k
<1> HAVE ~(k <= 0)
<1> DEFINE s == D02At(p, d, x, n, l)
           a == <<"set-unit", k>>
           t == [s EXCEPT !.unit = k]
<1> SUFFICES D02Step(c, s, a) = D02At(p, d, x, k, Then(l, <<"set-unit", k>>))
  OBVIOUS
<1>1. s = D02At(p, d, x, n, l) /\ s.pending = p /\ s.dispatched = d /\ s.selected = x /\ s.unit = n
  BY D02Parts
<1>2. t = [s EXCEPT !.unit = k]
  OBVIOUS
<1>3. D02Effect(c, s, a) = t
  <2> HIDE DEF s
  <2> QED BY DEF D02Effect, D02Preserving, D02FalseGreen, D02Others, D02Flush, D02Left, D02Moved
<1>4. ~D02Rejects(a)
  BY DEF D02Rejects
<1>5. D02Label(a, n) = <<"set-unit", k>>
  BY TwoEntries, ThreeEntries, Zenon DEF D02Label
<1> HIDE DEF s, t, a
<1>6. t = D02At(p, d, x, k, l)
  BY <1>1, <1>2 DEF D02At
<1>7. D02Effect(c, s, a) = D02At(p, d, x, k, l)
  BY <1>3, <1>6
<1>8. D02Step(c, s, a) = D02At(p, d, x, k, Then(l, D02Label(a, s.unit)))
  BY <1>4, <1>7, D02Dispatched
<1> QED BY <1>1, <1>5, <1>8, Zenon

LEMMA D02Flushed ==
  \A c, p, d, x, n, l :
      D02Step(c, D02At(p, d, x, n, l), <<"flush">>)
        = D02At(D02Left(p, x), D02Moved(p, d, x), x, n, Then(l, <<"flush">>))
<1> TAKE c, p, d, x, n, l
<1> DEFINE s == D02At(p, d, x, n, l)
           a == <<"flush">>
           t == [s EXCEPT !.dispatched = D02Moved(s.pending, s.dispatched, s.selected),
             !.pending = D02Left(s.pending, s.selected)]
<1> SUFFICES D02Step(c, s, a) = D02At(D02Left(p, x), D02Moved(p, d, x), x, n, Then(l, <<"flush">>))
  OBVIOUS
<1>1. s = D02At(p, d, x, n, l) /\ s.pending = p /\ s.dispatched = d /\ s.selected = x /\ s.unit = n
  BY D02Parts
<1>2. t = [s EXCEPT !.dispatched = D02Moved(s.pending, s.dispatched, s.selected),
        !.pending = D02Left(s.pending, s.selected)]
  OBVIOUS
<1>3. D02Effect(c, s, a) = t
  <2> HIDE DEF s
  <2> QED BY DEF D02Effect, D02Preserving, D02FalseGreen, D02Others, D02Flush, D02Left, D02Moved
<1>4. ~D02Rejects(a)
  BY DEF D02Rejects
<1>5. D02Label(a, n) = <<"flush">>
  BY TwoEntries, ThreeEntries, Zenon DEF D02Label
<1> HIDE DEF s, t, a
<1>6. t = D02At(D02Left(p, x), D02Moved(p, d, x), x, n, l)
  BY <1>1, <1>2 DEF D02At
<1>7. D02Effect(c, s, a) = D02At(D02Left(p, x), D02Moved(p, d, x), x, n, l)
  BY <1>3, <1>6
<1>8. D02Step(c, s, a) = D02At(D02Left(p, x), D02Moved(p, d, x), x, n, Then(l, D02Label(a, s.unit)))
  BY <1>4, <1>7, D02Dispatched
<1> QED BY <1>1, <1>5, <1>8, Zenon

LEMMA D02QueuedOnce ==
  \A c, p, d, x, n, l :
      D02Step(c, D02At(p, d, x, n, l), <<"queue", 1>>)
        = D02At(adjustSelected(p, x, n), d, x, n, Then(l, <<"queue", 1, n>>))
<1> TAKE c, p, d, x, n, l
<1> DEFINE s == D02At(p, d, x, n, l)
           a == <<"queue", 1>>
           t == [s EXCEPT !.pending = adjustSelected(s.pending, s.selected, s.unit)]
<1> SUFFICES D02Step(c, s, a) = D02At(adjustSelected(p, x, n), d, x, n, Then(l, <<"queue", 1, n>>))
  OBVIOUS
<1>1. s = D02At(p, d, x, n, l) /\ s.pending = p /\ s.dispatched = d /\ s.selected = x /\ s.unit = n
  BY D02Parts
<1>2. t = [s EXCEPT !.pending = adjustSelected(s.pending, s.selected, s.unit)]
  OBVIOUS
<1>3. D02Effect(c, s, a) = t
  <2> HIDE DEF s
  <2> QED BY DEF D02Effect, D02Preserving, D02FalseGreen, D02Others, D02Flush, D02Left, D02Moved
<1>4. ~D02Rejects(a)
  BY DEF D02Rejects
<1>5. D02Label(a, n) = <<"queue", 1, n>>
  BY TwoEntries, ThreeEntries, Zenon DEF D02Label
<1> HIDE DEF s, t, a
<1>6. t = D02At(adjustSelected(p, x, n), d, x, n, l)
  BY <1>1, <1>2 DEF D02At
<1>7. D02Effect(c, s, a) = D02At(adjustSelected(p, x, n), d, x, n, l)
  BY <1>3, <1>6
<1>8. D02Step(c, s, a) = D02At(adjustSelected(p, x, n), d, x, n, Then(l, D02Label(a, s.unit)))
  BY <1>4, <1>7, D02Dispatched
<1> QED BY <1>1, <1>5, <1>8, Zenon

LEMMA D02QueuedTwice ==
  \A c, p, d, x, n, l :
    c = "preserving" =>
      D02Step(c, D02At(p, d, x, n, l), <<"queue", 2>>)
        = D02At(adjustSelected(adjustSelected(p, x, n), x, n), d, x, n, Then(l, <<"queue", 2, n>>))
<1> TAKE c, p, d, x, n, l
<1> HAVE c = "preserving"
<1> DEFINE s == D02At(p, d, x, n, l)
           a == <<"queue", 2>>
           t == [s EXCEPT !.pending = adjustSelected(adjustSelected(s.pending, s.selected, s.unit),
             s.selected, s.unit)]
<1> SUFFICES D02Step(c, s, a) = D02At(adjustSelected(adjustSelected(p, x, n), x, n), d, x, n,
               Then(l, <<"queue", 2, n>>))
  OBVIOUS
<1>1. s = D02At(p, d, x, n, l) /\ s.pending = p /\ s.dispatched = d /\ s.selected = x /\ s.unit = n
  BY D02Parts
<1>2. t = [s EXCEPT !.pending = adjustSelected(adjustSelected(s.pending, s.selected, s.unit), s.selected,
        s.unit)]
  OBVIOUS
<1>3. D02Effect(c, s, a) = t
  <2> HIDE DEF s
  <2> QED BY DEF D02Effect, D02Preserving, D02FalseGreen, D02Others, D02Flush, D02Left, D02Moved
<1>4. ~D02Rejects(a)
  BY DEF D02Rejects
<1>5. D02Label(a, n) = <<"queue", 2, n>>
  BY TwoEntries, ThreeEntries, Zenon DEF D02Label
<1> HIDE DEF s, t, a
<1>6. t = D02At(adjustSelected(adjustSelected(p, x, n), x, n), d, x, n, l)
  BY <1>1, <1>2 DEF D02At
<1>7. D02Effect(c, s, a) = D02At(adjustSelected(adjustSelected(p, x, n), x, n), d, x, n, l)
  BY <1>3, <1>6
<1>8. D02Step(c, s, a) = D02At(adjustSelected(adjustSelected(p, x, n), x, n), d, x, n,
        Then(l, D02Label(a, s.unit)))
  BY <1>4, <1>7, D02Dispatched
<1> QED BY <1>1, <1>5, <1>8, Zenon

LEMMA D02QueuedStale ==
  \A c, p, d, x, n, l :
    c # "preserving" =>
      D02Step(c, D02At(p, d, x, n, l), <<"queue", 2>>)
        = D02At(adjustSelected(p, x, n), d, x, n, Then(l, <<"queue", 2, n>>))
<1> TAKE c, p, d, x, n, l
<1> HAVE c # "preserving"
<1> DEFINE s == D02At(p, d, x, n, l)
           a == <<"queue", 2>>
           t == [s EXCEPT !.pending = adjustSelected(s.pending, s.selected, s.unit)]
<1> SUFFICES D02Step(c, s, a) = D02At(adjustSelected(p, x, n), d, x, n, Then(l, <<"queue", 2, n>>))
  OBVIOUS
<1>1. s = D02At(p, d, x, n, l) /\ s.pending = p /\ s.dispatched = d /\ s.selected = x /\ s.unit = n
  BY D02Parts
<1>2. t = [s EXCEPT !.pending = adjustSelected(s.pending, s.selected, s.unit)]
  OBVIOUS
<1>3. D02Effect(c, s, a) = t
  <2> HIDE DEF s
  <2> QED BY DEF D02Effect, D02Preserving, D02FalseGreen, D02Others, D02Flush, D02Left, D02Moved
<1>4. ~D02Rejects(a)
  BY DEF D02Rejects
<1>5. D02Label(a, n) = <<"queue", 2, n>>
  BY TwoEntries, ThreeEntries, Zenon DEF D02Label
<1> HIDE DEF s, t, a
<1>6. t = D02At(adjustSelected(p, x, n), d, x, n, l)
  BY <1>1, <1>2 DEF D02At
<1>7. D02Effect(c, s, a) = D02At(adjustSelected(p, x, n), d, x, n, l)
  BY <1>3, <1>6
<1>8. D02Step(c, s, a) = D02At(adjustSelected(p, x, n), d, x, n, Then(l, D02Label(a, s.unit)))
  BY <1>4, <1>7, D02Dispatched
<1> QED BY <1>1, <1>5, <1>8, Zenon

LEMMA D02BoardReset ==
  \A c, p, d, x, n, l :
      D02Step(c, D02At(p, d, x, n, l), <<"reset">>)
        = D02At(Alike(Lanes, 0), Alike(Lanes, 0), {}, 1, Then(l, <<"reset">>))
<1> TAKE c, p, d, x, n, l
<1> DEFINE s == D02At(p, d, x, n, l)
           a == <<"reset">>
           m == D02Mount
           t == [m EXCEPT !.log = s.log]
<1> SUFFICES D02Step(c, s, a) = D02At(Alike(Lanes, 0), Alike(Lanes, 0), {}, 1, Then(l, <<"reset">>))
  OBVIOUS
<1>1. s.log = l /\ s.unit = n
  BY D02Parts
<1>2. D02Effect(c, s, a) = t
  <2> HIDE DEF s
  <2> QED BY DEF D02Effect, D02Preserving, D02FalseGreen, D02Others
<1>3. ~D02Rejects(a)
  BY DEF D02Rejects
<1>4. D02Label(a, n) = <<"reset">>
  BY DEF D02Label
<1>5. m = D02At(Alike(Lanes, 0), Alike(Lanes, 0), {}, 1, <<<<"mount">>>>)
  BY D02Starts
<1>6. t = D02At(Alike(Lanes, 0), Alike(Lanes, 0), {}, 1, l)
  <2> DEFINE first == <<<<"mount">>>>
             zeros == Alike(Lanes, 0)
  <2>1. m = D02At(zeros, zeros, {}, 1, first) /\ t = [m EXCEPT !.log = l]
    BY <1>1, <1>5
  <2> HIDE DEF first, zeros, m, t
  <2>2. t = D02At(zeros, zeros, {}, 1, l)
    BY <2>1 DEF D02At
  <2> QED BY <2>2 DEF zeros
<1> HIDE DEF s, t, a, m
<1>7. D02Effect(c, s, a) = D02At(Alike(Lanes, 0), Alike(Lanes, 0), {}, 1, l)
  BY <1>2, <1>6
<1>8. D02Step(c, s, a) = D02At(Alike(Lanes, 0), Alike(Lanes, 0), {}, 1, Then(l, D02Label(a, s.unit)))
  BY <1>3, <1>7, D02Dispatched
<1> QED BY <1>1, <1>4, <1>8, Zenon

\* The flushes of the scripts: of all lanes, and of the even ones.
LEMMA D02Flushes ==
  /\ D02Left(Alike(Lanes, 2), Lanes) = Alike(Lanes, 0)
  /\ D02Moved(Alike(Lanes, 2), Alike(Lanes, 0), Lanes) = Alike(Lanes, 2)
  /\ \A v : D02Left(Alike(Lanes, v), evenLanes) = Marked(Lanes, evenLanes, 0, v)
  /\ \A v, w, u : u = w + v =>
       D02Moved(Alike(Lanes, v), Alike(Lanes, w), evenLanes) = Marked(Lanes, evenLanes, u, w)
<1>1. D02Left(Alike(Lanes, 2), Lanes) = Alike(Lanes, 0)
  BY DEF D02Left, Alike
<1>2. D02Moved(Alike(Lanes, 2), Alike(Lanes, 0), Lanes) = Alike(Lanes, 2)
  BY DEF D02Moved, Alike
<1>3. \A v : D02Left(Alike(Lanes, v), evenLanes) = Marked(Lanes, evenLanes, 0, v)
  BY DEF D02Left, Alike, Marked
<1>4. \A v, w, u : u = w + v =>
        D02Moved(Alike(Lanes, v), Alike(Lanes, w), evenLanes) = Marked(Lanes, evenLanes, u, w)
  BY DEF D02Moved, Alike, Marked
<1> QED BY <1>1, <1>2, <1>3, <1>4, Zenon

\* The log after each action of the script.
D02LogTo(i) == SubSeq(D02Log, 1, i)

LEMMA D02LogIs ==
  /\ IsLog(D02Log) /\ Len(D02Log) = 10
  /\ D02Log[1] = <<"mount">>
  /\ D02Log[2] = <<"select-all">>
  /\ D02Log[3] = <<"queue", 2, 1>>
  /\ D02Log[4] = <<"flush">>
  /\ D02Log[5] = <<"set-unit", 3>>
  /\ D02Log[6] = <<"queue", 2, 3>>
  /\ D02Log[7] = <<"select-even">>
  /\ D02Log[8] = <<"flush">>
  /\ D02Log[9] = <<"reset">>
  /\ D02Log[10] = <<"reset">>
<1> DEFINE Words == {<<"mount">>, <<"select-all">>, <<"queue", 2, 1>>, <<"flush">>, <<"set-unit", 3>>,
             <<"queue", 2, 3>>, <<"select-even">>, <<"reset">>}
<1>1. D02Log \in Seq(Words)
  BY DEF D02Log
<1>2. Len(D02Log) = 10
  BY DEF D02Log
<1>3. D02Log[1] = <<"mount">>
  BY DEF D02Log
<1>4. D02Log[2] = <<"select-all">>
  BY DEF D02Log
<1>5. D02Log[3] = <<"queue", 2, 1>>
  BY DEF D02Log
<1>6. D02Log[4] = <<"flush">>
  BY DEF D02Log
<1>7. D02Log[5] = <<"set-unit", 3>>
  BY DEF D02Log
<1>8. D02Log[6] = <<"queue", 2, 3>>
  BY DEF D02Log
<1>9. D02Log[7] = <<"select-even">>
  BY DEF D02Log
<1>10. D02Log[8] = <<"flush">>
  BY DEF D02Log
<1>11. D02Log[9] = <<"reset">>
  BY DEF D02Log
<1>12. D02Log[10] = <<"reset">>
  BY DEF D02Log
<1>13. IsLog(D02Log)
  BY <1>1 DEF IsLog
<1> QED BY <1>2, <1>3, <1>4, <1>5, <1>6, <1>7, <1>8, <1>9, <1>10, <1>11, <1>12, <1>13, Zenon

LEMMA D02Logged ==
  /\ D02LogTo(1) = <<<<"mount">>>>
  /\ Then(D02LogTo(1), <<"select-all">>) = D02LogTo(2)
  /\ Then(D02LogTo(2), <<"queue", 2, 1>>) = D02LogTo(3)
  /\ Then(D02LogTo(3), <<"flush">>) = D02LogTo(4)
  /\ Then(D02LogTo(4), <<"set-unit", 3>>) = D02LogTo(5)
  /\ Then(D02LogTo(5), <<"queue", 2, 3>>) = D02LogTo(6)
  /\ Then(D02LogTo(6), <<"select-even">>) = D02LogTo(7)
  /\ Then(D02LogTo(7), <<"flush">>) = D02LogTo(8)
  /\ Then(D02LogTo(8), <<"reset">>) = D02LogTo(9)
  /\ Then(D02LogTo(9), <<"reset">>) = D02LogTo(10)
<1>1. PICK S : D02Log \in Seq(S)
  BY D02LogIs DEF IsLog
<1>2. D02LogTo(1) = <<<<"mount">>>>
  <2>1. Len(D02Log) > 0
    BY D02LogIs
  <2>2. SubSeq(D02Log, 1, 1) = <<D02Log[1]>>
    BY <1>1, <2>1, LogStarts, Zenon
  <2> QED BY <2>2, D02LogIs, Zenon DEF D02LogTo
<1>3. \A i \in 1 .. 9 : Then(D02LogTo(i), D02Log[i + 1]) = D02LogTo(i + 1)
  <2>1. \A i \in 1 .. Len(D02Log) - 1 :
          Append(SubSeq(D02Log, 1, i), D02Log[i + 1]) = SubSeq(D02Log, 1, i + 1)
    BY <1>1, LogExtended
  <2>2. Len(D02Log) = 10
    BY D02LogIs
  <2>3. 1 .. Len(D02Log) - 1 = 1 .. 9
    BY <2>2
  <2> QED BY <2>1, <2>3 DEF D02LogTo, Then
<1>4. /\ Then(D02LogTo(1), D02Log[2]) = D02LogTo(2)
      /\ Then(D02LogTo(2), D02Log[3]) = D02LogTo(3)
      /\ Then(D02LogTo(3), D02Log[4]) = D02LogTo(4)
      /\ Then(D02LogTo(4), D02Log[5]) = D02LogTo(5)
      /\ Then(D02LogTo(5), D02Log[6]) = D02LogTo(6)
      /\ Then(D02LogTo(6), D02Log[7]) = D02LogTo(7)
      /\ Then(D02LogTo(7), D02Log[8]) = D02LogTo(8)
      /\ Then(D02LogTo(8), D02Log[9]) = D02LogTo(9)
      /\ Then(D02LogTo(9), D02Log[10]) = D02LogTo(10)
  BY <1>3
<1> QED BY <1>2, <1>4, D02LogIs, Zenon

LEMMA D02CanonicalShows ==
  ASSUME NEW c \in {"preserving", "false_green"}, NEW st, Passes("D02", c, Canonical, 9, st)
  PROVE  D02Oracle([i \in 1 .. 10 |-> st[i]]) <=> c = "preserving"
<1> DEFINE fs == [i \in 1 .. 10 |-> st[i]]
<1> SUFFICES D02Oracle(fs) <=> c = "preserving"
  OBVIOUS
<1>1. /\ st[1] = D02Mount
      /\ st[2] = D02Step(c, st[1], <<"select-all">>)
      /\ st[3] = D02Step(c, st[2], <<"queue", 2>>)
      /\ st[4] = D02Step(c, st[3], <<"flush">>)
      /\ st[5] = D02Step(c, st[4], <<"set-unit", 3>>)
      /\ st[6] = D02Step(c, st[5], <<"queue", 2>>)
      /\ st[7] = D02Step(c, st[6], <<"select-even">>)
      /\ st[8] = D02Step(c, st[7], <<"flush">>)
      /\ st[9] = D02Step(c, st[8], <<"reset">>)
      /\ st[10] = D02Step(c, st[9], <<"reset">>)
  BY DEF Passes, ScriptOf, CanonicalOf, MountOf, StepOf, D02Canonical
<1>2. \A i \in 1 .. 10 : fs[i] = st[i]
  OBVIOUS
<1>3. Len(fs) = 10 /\ DOMAIN fs = 1 .. 10
  OBVIOUS
<1> HIDE DEF fs
<1>4. st[2] = D02At(Alike(Lanes, 0), Alike(Lanes, 0), Lanes, 1, D02LogTo(2))
  <2>1. st[1] = D02At(Alike(Lanes, 0), Alike(Lanes, 0), {}, 1, D02LogTo(1))
    BY <1>1, D02Starts, D02Logged
  <2> QED BY <1>1, <2>1, D02AllSelected, D02Logged
<1>5. /\ adjustSelected(Alike(Lanes, 0), Lanes, 1) = Alike(Lanes, 1)
      /\ adjustSelected(Alike(Lanes, 1), Lanes, 1) = Alike(Lanes, 2)
      /\ adjustSelected(Alike(Lanes, 0), Lanes, 3) = Alike(Lanes, 3)
      /\ adjustSelected(Alike(Lanes, 3), Lanes, 3) = Alike(Lanes, 6)
  <2>1. 0 + 1 = 1 /\ 1 + 1 = 2 /\ 0 + 3 = 3 /\ 3 + 3 = 6 /\ ~(1 < 0) /\ ~(2 < 0) /\ ~(3 < 0) /\ ~(6 < 0)
    OBVIOUS
  <2> QED BY <2>1, AllAdjusted
<1>6. CASE c = "preserving"
  <2>1. st[1] = D02At(Alike(Lanes, 0), Alike(Lanes, 0), {}, 1, D02LogTo(1))
    BY <1>1, D02Starts, D02Logged
  <2>2. st[2] = D02At(Alike(Lanes, 0), Alike(Lanes, 0), Lanes, 1, D02LogTo(2))
    BY <1>4
  <2>3. st[3] = D02At(Alike(Lanes, 2), Alike(Lanes, 0), Lanes, 1, D02LogTo(3))
    <3>1. st[3] = D02At(adjustSelected(adjustSelected(Alike(Lanes, 0), Lanes, 1), Lanes, 1),
            Alike(Lanes, 0),
                        Lanes, 1, Then(D02LogTo(2), <<"queue", 2, 1>>))
      BY <1>1, <1>6, <2>2, D02QueuedTwice
    <3> QED BY <1>5, <3>1, D02Logged
  <2>4. st[4] = D02At(Alike(Lanes, 0), Alike(Lanes, 2), Lanes, 1, D02LogTo(4))
    <3>1. st[4] = D02At(D02Left(Alike(Lanes, 2), Lanes), D02Moved(Alike(Lanes, 2), Alike(Lanes, 0), Lanes),
                        Lanes, 1, Then(D02LogTo(3), <<"flush">>))
      BY <1>1, <2>3, D02Flushed
    <3> QED BY <3>1, D02Flushes, D02Logged
  <2>5. st[5] = D02At(Alike(Lanes, 0), Alike(Lanes, 2), Lanes, 3, D02LogTo(5))
    <3>1. ~(3 <= 0)
      OBVIOUS
    <3> QED BY <1>1, <2>4, <3>1, D02UnitSet, D02Logged
  <2>6. st[6] = D02At(Alike(Lanes, 6), Alike(Lanes, 2), Lanes, 3, D02LogTo(6))
    <3>1. st[6] = D02At(adjustSelected(adjustSelected(Alike(Lanes, 0), Lanes, 3), Lanes, 3),
            Alike(Lanes, 2),
                        Lanes, 3, Then(D02LogTo(5), <<"queue", 2, 3>>))
      BY <1>1, <1>6, <2>5, D02QueuedTwice
    <3> QED BY <1>5, <3>1, D02Logged
  <2>7. st[7] = D02At(Alike(Lanes, 6), Alike(Lanes, 2), evenLanes, 3, D02LogTo(7))
    BY <1>1, <2>6, D02EvenSelected, D02Logged
  <2>8. st[8] = D02At(Marked(Lanes, evenLanes, 0, 6), Marked(Lanes, evenLanes, 8, 2), evenLanes, 3,
          D02LogTo(8))
    <3>1. st[8] = D02At(D02Left(Alike(Lanes, 6), evenLanes),
                        D02Moved(Alike(Lanes, 6), Alike(Lanes, 2), evenLanes),
                        evenLanes, 3, Then(D02LogTo(7), <<"flush">>))
      BY <1>1, <2>7, D02Flushed
    <3>2. 8 = 2 + 6
      OBVIOUS
    <3>3. D02Moved(Alike(Lanes, 6), Alike(Lanes, 2), evenLanes) = Marked(Lanes, evenLanes, 8, 2)
      BY <3>2, D02Flushes
    <3>4. D02Left(Alike(Lanes, 6), evenLanes) = Marked(Lanes, evenLanes, 0, 6)
      BY D02Flushes
    <3> QED BY <3>1, <3>3, <3>4, D02Logged
  <2>9. st[9] = D02At(Alike(Lanes, 0), Alike(Lanes, 0), {}, 1, D02LogTo(9))
    BY <1>1, <2>8, D02BoardReset, D02Logged
  <2>10. st[10] = D02At(Alike(Lanes, 0), Alike(Lanes, 0), {}, 1, D02LogTo(10))
    BY <1>1, <2>9, D02BoardReset, D02Logged
  <2> DEFINE Right(i) ==
               /\ <<fs[i].pending, fs[i].dispatched, fs[i].selected, fs[i].unit>> = D02Expected[i]
               /\ fs[i].log = SubSeq(D02Log, 1, i)
  <2>11. Right(1)
    <3>1. /\ fs[1].pending = Alike(Lanes, 0) /\ fs[1].dispatched = Alike(Lanes, 0)
          /\ fs[1].selected = {} /\ fs[1].unit = 1 /\ fs[1].log = D02LogTo(1)
      BY <1>2, <2>1, D02Parts
    <3>2. D02Expected[1] = <<Alike(Lanes, 0), Alike(Lanes, 0), {}, 1>>
      BY DEF D02Expected, Alike
    <3> QED BY <3>1, <3>2, Zenon DEF D02LogTo
  <2>12. Right(2)
    <3>1. /\ fs[2].pending = Alike(Lanes, 0) /\ fs[2].dispatched = Alike(Lanes, 0)
          /\ fs[2].selected = Lanes /\ fs[2].unit = 1 /\ fs[2].log = D02LogTo(2)
      BY <1>2, <2>2, D02Parts
    <3>2. D02Expected[2] = <<Alike(Lanes, 0), Alike(Lanes, 0), Lanes, 1>>
      BY DEF D02Expected, Alike
    <3> QED BY <3>1, <3>2, Zenon DEF D02LogTo
  <2>13. Right(3)
    <3>1. /\ fs[3].pending = Alike(Lanes, 2) /\ fs[3].dispatched = Alike(Lanes, 0)
          /\ fs[3].selected = Lanes /\ fs[3].unit = 1 /\ fs[3].log = D02LogTo(3)
      BY <1>2, <2>3, D02Parts
    <3>2. D02Expected[3] = <<Alike(Lanes, 2), Alike(Lanes, 0), Lanes, 1>>
      BY DEF D02Expected, Alike
    <3> QED BY <3>1, <3>2, Zenon DEF D02LogTo
  <2>14. Right(4)
    <3>1. /\ fs[4].pending = Alike(Lanes, 0) /\ fs[4].dispatched = Alike(Lanes, 2)
          /\ fs[4].selected = Lanes /\ fs[4].unit = 1 /\ fs[4].log = D02LogTo(4)
      BY <1>2, <2>4, D02Parts
    <3>2. D02Expected[4] = <<Alike(Lanes, 0), Alike(Lanes, 2), Lanes, 1>>
      BY DEF D02Expected, Alike
    <3> QED BY <3>1, <3>2, Zenon DEF D02LogTo
  <2>15. Right(5)
    <3>1. /\ fs[5].pending = Alike(Lanes, 0) /\ fs[5].dispatched = Alike(Lanes, 2)
          /\ fs[5].selected = Lanes /\ fs[5].unit = 3 /\ fs[5].log = D02LogTo(5)
      BY <1>2, <2>5, D02Parts
    <3>2. D02Expected[5] = <<Alike(Lanes, 0), Alike(Lanes, 2), Lanes, 3>>
      BY DEF D02Expected, Alike
    <3> QED BY <3>1, <3>2, Zenon DEF D02LogTo
  <2>16. Right(6)
    <3>1. /\ fs[6].pending = Alike(Lanes, 6) /\ fs[6].dispatched = Alike(Lanes, 2)
          /\ fs[6].selected = Lanes /\ fs[6].unit = 3 /\ fs[6].log = D02LogTo(6)
      BY <1>2, <2>6, D02Parts
    <3>2. D02Expected[6] = <<Alike(Lanes, 6), Alike(Lanes, 2), Lanes, 3>>
      BY DEF D02Expected, Alike
    <3> QED BY <3>1, <3>2, Zenon DEF D02LogTo
  <2>17. Right(7)
    <3>1. /\ fs[7].pending = Alike(Lanes, 6) /\ fs[7].dispatched = Alike(Lanes, 2)
          /\ fs[7].selected = evenLanes /\ fs[7].unit = 3 /\ fs[7].log = D02LogTo(7)
      BY <1>2, <2>7, D02Parts
    <3>2. D02Expected[7] = <<Alike(Lanes, 6), Alike(Lanes, 2), evenLanes, 3>>
      BY DEF D02Expected, Alike
    <3> QED BY <3>1, <3>2, Zenon DEF D02LogTo
  <2>18. Right(8)
    <3>1. /\ fs[8].pending = Marked(Lanes, evenLanes, 0, 6)
          /\ fs[8].dispatched = Marked(Lanes, evenLanes, 8, 2)
          /\ fs[8].selected = evenLanes /\ fs[8].unit = 3 /\ fs[8].log = D02LogTo(8)
      BY <1>2, <2>8, D02Parts
    <3>2. D02Expected[8] = <<Marked(Lanes, evenLanes, 0, 6), Marked(Lanes, evenLanes, 8, 2), evenLanes, 3>>
      BY DEF D02Expected, Alike
    <3> QED BY <3>1, <3>2, Zenon DEF D02LogTo
  <2>19. Right(9)
    <3>1. /\ fs[9].pending = Alike(Lanes, 0) /\ fs[9].dispatched = Alike(Lanes, 0)
          /\ fs[9].selected = {} /\ fs[9].unit = 1 /\ fs[9].log = D02LogTo(9)
      BY <1>2, <2>9, D02Parts
    <3>2. D02Expected[9] = <<Alike(Lanes, 0), Alike(Lanes, 0), {}, 1>>
      BY DEF D02Expected, Alike
    <3> QED BY <3>1, <3>2, Zenon DEF D02LogTo
  <2>20. Right(10)
    <3>1. /\ fs[10].pending = Alike(Lanes, 0) /\ fs[10].dispatched = Alike(Lanes, 0)
          /\ fs[10].selected = {} /\ fs[10].unit = 1 /\ fs[10].log = D02LogTo(10)
      BY <1>2, <2>10, D02Parts
    <3>2. D02Expected[10] = <<Alike(Lanes, 0), Alike(Lanes, 0), {}, 1>>
      BY DEF D02Expected, Alike
    <3> QED BY <3>1, <3>2, Zenon DEF D02LogTo
  <2> HIDE DEF Right
  <2>21. \A i \in 1 .. 10 : Right(i)
    BY <2>11, <2>12, <2>13, <2>14, <2>15, <2>16, <2>17, <2>18, <2>19, <2>20
  <2>22. Len(D02Expected) = 10
    BY DEF D02Expected
  <2>23. D02Oracle(fs)
    BY <1>3, <2>21, <2>22 DEF D02Oracle, Right
  <2> QED BY <1>6, <2>23
\* Candidate B queues one of the two.
<1>7. CASE c = "false_green"
  <2>1. st[3] = D02At(Alike(Lanes, 1), Alike(Lanes, 0), Lanes, 1, D02LogTo(3))
    <3>1. st[3] = D02At(adjustSelected(Alike(Lanes, 0), Lanes, 1), Alike(Lanes, 0),
                        Lanes, 1, Then(D02LogTo(2), <<"queue", 2, 1>>))
      BY <1>1, <1>4, <1>7, D02QueuedStale
    <3> QED BY <1>5, <3>1, D02Logged
  <2>2. 1 \in Lanes
    BY CountsAssumption DEF Lanes
  <2>3. fs[3].pending[1] = 1
    <3>1. fs[3].pending = Alike(Lanes, 1)
      BY <1>2, <2>1, D02Parts
    <3> QED BY <2>2, <3>1 DEF Alike
  <2>4. D02Expected[3] = <<Alike(Lanes, 2), Alike(Lanes, 0), Lanes, 1>>
    BY DEF D02Expected, Alike
  <2>5. ASSUME <<fs[3].pending, fs[3].dispatched, fs[3].selected, fs[3].unit>>
                 = <<Alike(Lanes, 2), Alike(Lanes, 0), Lanes, 1>>
        PROVE  FALSE
    <3>1. fs[3].pending = Alike(Lanes, 2)
      BY <2>5
    <3>2. Alike(Lanes, 2)[1] = 2
      BY <2>2 DEF Alike
    <3> QED BY <2>3, <3>1, <3>2
  <2>6. 3 \in DOMAIN fs
    BY <1>3
  <2> QED BY <1>7, <2>4, <2>5, <2>6 DEF D02Oracle
<1> QED BY <1>6, <1>7

LEMMA D02VisibleShows ==
  ASSUME NEW c, NEW k \in DOMAIN D02Visible, NEW st,
         Passes("D02", c, Assertion(k), Len(D02Visible[k]), st)
  PROVE  D02Holds(k, [i \in 1 .. Len(D02Visible[k]) + 1 |-> st[i]])
<1> DEFINE fs == [i \in 1 .. Len(D02Visible[k]) + 1 |-> st[i]]
<1> SUFFICES D02Holds(k, fs)
  OBVIOUS
<1>1. PICK l : st[1] = D02At(Alike(Lanes, 0), Alike(Lanes, 0), {}, 1, l)
  BY D02Starts DEF Passes, MountOf
<1>2. k \in 1 .. 5
  BY DEF D02Visible
<1>3. ASSUME NEW m, NEW s, s = D02At(Alike(Lanes, 0), Alike(Lanes, 0), {}, 1, m)
      PROVE  s.pending = Zeros(Lanes) /\ s.dispatched = Zeros(Lanes) /\ s.unit = 1 /\ s.selected = {}
  BY <1>3, D02Parts, AlikeIsMarked
<1>4. CASE k = 1
  <2>1. Last(fs) = st[1]
    BY <1>4 DEF D02Visible, Last
  <2> HIDE DEF fs
  <2> QED BY <1>1, <1>3, <1>4, <2>1 DEF D02Holds
<1>5. CASE k = 2
  <2>1. /\ st[2] = D02Step(c, st[1], <<"select-all">>)
        /\ st[3] = D02Step(c, st[2], <<"select-even">>) /\ Last(fs) = st[3]
    BY <1>5 DEF Passes, ScriptOf, VisibleOf, StepOf, D02Visible, Assertion, Canonical, Last
  <2> HIDE DEF fs
  <2>2. PICK m : st[2] = D02At(Alike(Lanes, 0), Alike(Lanes, 0), Lanes, 1, m)
    BY <1>1, <2>1, D02AllSelected
  <2>3. Last(fs).selected = evenLanes
    BY <2>1, <2>2, D02EvenSelected, D02Parts
  <2> QED BY <1>5, <2>3 DEF D02Holds
<1>6. CASE k = 3
  <2>1. /\ st[2] = D02Step(c, st[1], <<"select-even">>)
        /\ st[3] = D02Step(c, st[2], <<"queue", 1>>) /\ Last(fs) = st[3]
    BY <1>6 DEF Passes, ScriptOf, VisibleOf, StepOf, D02Visible, Assertion, Canonical, Last
  <2> HIDE DEF fs
  <2>2. PICK m : st[2] = D02At(Alike(Lanes, 0), Alike(Lanes, 0), evenLanes, 1, m)
    BY <1>1, <2>1, D02EvenSelected
  <2>3. st[3] = D02At(adjustSelected(Alike(Lanes, 0), evenLanes, 1), Alike(Lanes, 0), evenLanes, 1,
                      Then(m, <<"queue", 1, 1>>))
    BY <2>1, <2>2, D02QueuedOnce
  <2>4. adjustSelected(Alike(Lanes, 0), evenLanes, 1) = Marked(Lanes, evenLanes, 1, 0)
    <3>1. 0 + 1 = 1 /\ ~(1 < 0)
      OBVIOUS
    <3>2. adjustSelected(Marked(Lanes, evenLanes, 0, 0), evenLanes, 1) = Marked(Lanes, evenLanes, 1, 0)
      BY <3>1, MarkedAdjusted
    <3>3. Alike(Lanes, 0) = Marked(Lanes, evenLanes, 0, 0)
      BY AlikeIsMarked
    <3> QED BY <3>2, <3>3
  <2>5. Last(fs).pending = Marked(Lanes, evenLanes, 1, 0)
    BY <2>1, <2>3, <2>4, D02Parts
  <2> QED BY <1>6, <2>5 DEF D02Holds
\* The two actions that the last two scripts begin with.
<1>7. ASSUME st[2] = D02Step(c, st[1], <<"select-all">>), st[3] = D02Step(c, st[2], <<"queue", 1>>)
      PROVE  \E m : st[3] = D02At(Alike(Lanes, 1), Alike(Lanes, 0), Lanes, 1, m)
  <2>1. PICK m : st[2] = D02At(Alike(Lanes, 0), Alike(Lanes, 0), Lanes, 1, m)
    BY <1>1, <1>7, D02AllSelected
  <2>2. st[3] = D02At(adjustSelected(Alike(Lanes, 0), Lanes, 1), Alike(Lanes, 0), Lanes, 1,
                      Then(m, <<"queue", 1, 1>>))
    BY <1>7, <2>1, D02QueuedOnce
  <2>3. adjustSelected(Alike(Lanes, 0), Lanes, 1) = Alike(Lanes, 1)
    <3>1. 0 + 1 = 1 /\ ~(1 < 0)
      OBVIOUS
    <3> QED BY <3>1, AllAdjusted
  <2> QED BY <2>2, <2>3
<1>8. CASE k = 4
  <2>1. /\ st[2] = D02Step(c, st[1], <<"select-all">>) /\ st[3] = D02Step(c, st[2], <<"queue", 1>>)
        /\ st[4] = D02Step(c, st[3], <<"set-unit", 3>>) /\ st[5] = D02Step(c, st[4], <<"select-even">>)
        /\ st[6] = D02Step(c, st[5], <<"flush">>) /\ Last(fs) = st[6]
    BY <1>8 DEF Passes, ScriptOf, VisibleOf, StepOf, D02Visible, Assertion, Canonical, Last
  <2> HIDE DEF fs
  <2>2. PICK m : st[3] = D02At(Alike(Lanes, 1), Alike(Lanes, 0), Lanes, 1, m)
    BY <1>7, <2>1
  <2>3. PICK q : st[4] = D02At(Alike(Lanes, 1), Alike(Lanes, 0), Lanes, 3, q)
    <3>1. ~(3 <= 0)
      OBVIOUS
    <3> QED BY <2>1, <2>2, <3>1, D02UnitSet
  <2>4. PICK r : st[5] = D02At(Alike(Lanes, 1), Alike(Lanes, 0), evenLanes, 3, r)
    BY <2>1, <2>3, D02EvenSelected
  <2>5. st[6] = D02At(D02Left(Alike(Lanes, 1), evenLanes),
          D02Moved(Alike(Lanes, 1), Alike(Lanes, 0), evenLanes),
                      evenLanes, 3, Then(r, <<"flush">>))
    BY <2>1, <2>4, D02Flushed
  <2>6. D02Moved(Alike(Lanes, 1), Alike(Lanes, 0), evenLanes) = Marked(Lanes, evenLanes, 1, 0)
    <3>1. 1 = 0 + 1
      OBVIOUS
    <3> QED BY <3>1, D02Flushes
  <2>7. D02Left(Alike(Lanes, 1), evenLanes) = Marked(Lanes, evenLanes, 0, 1)
    BY D02Flushes
  <2>8. /\ Last(fs).unit = 3 /\ Last(fs).pending = Marked(Lanes, evenLanes, 0, 1)
        /\ Last(fs).dispatched = Marked(Lanes, evenLanes, 1, 0)
    BY <2>1, <2>5, <2>6, <2>7, D02Parts
  <2> QED BY <1>8, <2>8 DEF D02Holds
<1>9. CASE k = 5
  <2>1. /\ st[2] = D02Step(c, st[1], <<"select-all">>) /\ st[3] = D02Step(c, st[2], <<"queue", 1>>)
        /\ st[4] = D02Step(c, st[3], <<"flush">>) /\ st[5] = D02Step(c, st[4], <<"set-unit", 3>>)
        /\ st[6] = D02Step(c, st[5], <<"reset">>) /\ Last(fs) = st[6]
    BY <1>9 DEF Passes, ScriptOf, VisibleOf, StepOf, D02Visible, Assertion, Canonical, Last
  <2> HIDE DEF fs
  <2>2. PICK m : st[3] = D02At(Alike(Lanes, 1), Alike(Lanes, 0), Lanes, 1, m)
    BY <1>7, <2>1
  <2>3. PICK p, d, q : st[4] = D02At(p, d, Lanes, 1, q)
    BY <2>1, <2>2, D02Flushed
  <2>4. PICK r : st[5] = D02At(p, d, Lanes, 3, r)
    <3>1. ~(3 <= 0)
      OBVIOUS
    <3> QED BY <2>1, <2>3, <3>1, D02UnitSet
  <2>5. PICK e : st[6] = D02At(Alike(Lanes, 0), Alike(Lanes, 0), {}, 1, e)
    BY <2>1, <2>4, D02BoardReset
  <2> QED BY <1>3, <1>9, <2>1, <2>5 DEF D02Holds
<1> QED BY <1>2, <1>4, <1>5, <1>6, <1>8, <1>9

-----------------------------------------------------------------------------
(* What the scripts of BG-D03 show. *)

\* The cells of the two trays that the scripts look at: an empty one and one with
\* a single packet planned.
CellsOf(q, i) == cellsPerPacket[q[i].varietyId] * q[i].packetCount

CellsFrom(q, it) ==
  [s \in SUBSET DOMAIN q |->
     IF s = {} THEN 0
     ELSE LET x == CHOOSE x \in s : TRUE IN it[s \ {x}] + CellsOf(q, x)]

LEMMA CellsFolded ==
  \A q : CellsPlanned(q) = (CHOOSE it : it = CellsFrom(q, it))[DOMAIN q]
<1> TAKE q
<1> QED BY DEF CellsPlanned, FoldSeq, FoldFunction, FoldFunctionOnSet, MapThenFoldSet, CellsFrom, CellsOf

LEMMA NoCells == CellsPlanned(<<>>) = 0
<1> DEFINE q == <<>>
           it == CHOOSE it : it = CellsFrom(q, it)
           none == [s \in {{}} |-> 0]
<1>1. CellsPlanned(q) = it[DOMAIN q]
  BY CellsFolded, Zenon
<1>2. DOMAIN q = {} /\ SUBSET DOMAIN q = {{}}
  OBVIOUS
<1> HIDE DEF q
<1>3. \A h : CellsFrom(q, h) = none
  BY <1>2 DEF CellsFrom
<1>4. it = none
  BY <1>3
<1> QED BY <1>1, <1>2, <1>4 DEF q

LEMMA OnePacketCells ==
  \A id, n : CellsOf(<<Planned(id, n)>>, 1) \in Int =>
    CellsPlanned(<<Planned(id, n)>>) = CellsOf(<<Planned(id, n)>>, 1)
<1> TAKE id, n
<1> DEFINE q == <<Planned(id, n)>>
           it == CHOOSE it : it = CellsFrom(q, it)
           some == [s \in SUBSET {1} |-> IF s = {} THEN 0 ELSE CellsOf(q, 1)]
<1> HAVE CellsOf(q, 1) \in Int
<1>1. CellsPlanned(q) = it[DOMAIN q]
  BY CellsFolded, Zenon
<1>2. DOMAIN q = {1}
  OBVIOUS
<1>3. 0 + CellsOf(q, 1) = CellsOf(q, 1)
  OBVIOUS
<1> HIDE DEF q
<1>4. \A s \in SUBSET {1} : s = {} \/ s = {1}
  OBVIOUS
<1>5. (CHOOSE x \in {1} : TRUE) = 1 /\ {1} \ {1} = {} /\ {} \in SUBSET {1} /\ {1} \in SUBSET {1} /\ {1} # {}
  OBVIOUS
<1>6. some = CellsFrom(q, some)
  <2>1. some[{}] = 0
    BY <1>5
  <2>2. ASSUME NEW s \in SUBSET {1}
        PROVE  (IF s = {} THEN 0 ELSE CellsOf(q, 1))
                 = IF s = {} THEN 0
                   ELSE LET x == CHOOSE x \in s : TRUE IN some[s \ {x}] + CellsOf(q, x)
    <3>1. CASE s = {}
      BY <3>1
    <3>2. CASE s = {1}
      <4> HIDE DEF some
      <4> QED BY <1>3, <1>5, <2>1, <3>2
    <3> QED BY <1>4, <3>1, <3>2
  <2>3. CellsFrom(q, some) = [s \in SUBSET {1} |->
            IF s = {} THEN 0
                   ELSE LET x == CHOOSE x \in s : TRUE IN some[s \ {x}] + CellsOf(q, x)]
    BY <1>2, Zenon DEF CellsFrom
  <2> QED BY <2>2, <2>3
<1>7. it = CellsFrom(q, it)
  <2> HIDE DEF some
  <2> QED BY <1>6, Zenon
<1> HIDE DEF it
<1>8. it = [s \in SUBSET {1} |->
              IF s = {} THEN 0
              ELSE LET x == CHOOSE x \in s : TRUE IN it[s \ {x}] + CellsOf(q, x)]
  BY <1>2, <1>7, Zenon DEF CellsFrom
<1>9. it[{}] = 0
  BY <1>5, <1>8
<1>10. it[{1}] = it[{}] + CellsOf(q, 1)
  BY <1>5, <1>8
<1> QED BY <1>1, <1>2, <1>3, <1>9, <1>10 DEF q

\* A state and the trays of the scripts.
D03At(selected, total, result) == [selected |-> selected, total |-> total, result |-> result]
D03NoTray == <<>>
D03OneTray(id, n) == <<Planned(id, n)>>
D03TwoTray == <<Planned("basil", 3), Planned("marigold", 1)>>
D03Holding(p, id) == \E i \in DOMAIN p : p[i].varietyId = id

LEMMA D03Parts ==
  \A p, n, r : /\ D03At(p, n, r).selected = p /\ D03At(p, n, r).total = n /\ D03At(p, n, r).result = r
               /\ \A id : IsPlanned(D03At(p, n, r), id) <=> D03Holding(p, id)
<1> TAKE p, n, r
<1> DEFINE s == D03At(p, n, r)
<1>1. s.selected = p /\ s.total = n /\ s.result = r
  BY DEF D03At
<1>2. ASSUME NEW id PROVE IsPlanned(s, id) <=> D03Holding(p, id)
  <2> HIDE DEF s
  <2> QED BY <1>1 DEF IsPlanned, D03Holding
<1> QED BY <1>1, <1>2

LEMMA D03Trays ==
  /\ \A id : ~D03Holding(D03NoTray, id)
  /\ \A id, n, v : D03Holding(D03OneTray(id, n), v) <=> v = id
  /\ D03Holding(D03TwoTray, "basil")
<1>1. \A id : ~D03Holding(D03NoTray, id)
  BY DEF D03Holding, D03NoTray
<1>2. ASSUME NEW id, NEW n, NEW v PROVE D03Holding(D03OneTray(id, n), v) <=> v = id
  <2> DEFINE p == D03OneTray(id, n)
  <2>1. DOMAIN p = {1} /\ p[1].varietyId = id
    BY DEF D03OneTray, Planned
  <2> SUFFICES D03Holding(p, v) <=> v = id
    OBVIOUS
  <2> HIDE DEF p
  <2>2. D03Holding(p, id)
    <3>1. 1 \in DOMAIN p
      BY <2>1
    <3> QED BY <2>1, <3>1 DEF D03Holding
  <2>3. ASSUME D03Holding(p, v) PROVE v = id
    <3>1. PICK i \in DOMAIN p : p[i].varietyId = v
      BY <2>3 DEF D03Holding
    <3>2. i = 1
      BY <2>1
    <3> QED BY <2>1, <3>1, <3>2
  <2> QED BY <2>2, <2>3
<1>3. D03Holding(D03TwoTray, "basil")
  <2>1. 1 \in DOMAIN D03TwoTray /\ D03TwoTray[1].varietyId = "basil"
    BY DEF D03TwoTray, Planned
  <2> QED BY <2>1 DEF D03Holding
<1> QED BY <1>1, <1>2, <1>3

LEMMA D03Refused ==
  \A c, p, n, r, a :
    ~D03Applies(D03At(p, n, r), a) => D03Step(c, D03At(p, n, r), a) = D03At(p, n, "false")
<1> TAKE c, p, n, r, a
<1> HAVE ~D03Applies(D03At(p, n, r), a)
<1> DEFINE s == D03At(p, n, r)
           t == [s EXCEPT !.result = "false"]
<1> SUFFICES D03Step(c, s, a) = D03At(p, n, "false")
  OBVIOUS
<1>1. s = D03At(p, n, r) /\ ~D03Applies(s, a)
  OBVIOUS
<1>2. t = [s EXCEPT !.result = "false"]
  OBVIOUS
<1>3. D03Step(c, s, a) = t
  <2> HIDE DEF s
  <2> QED BY <1>1 DEF D03Step, D03Preserving, D03FalseGreen
<1> HIDE DEF s, t
<1>4. t = D03At(p, n, "false")
  BY <1>1, <1>2 DEF D03At
<1> QED BY <1>3, <1>4

\* What an operation that applies leaves of the duplicate.
D03Total(c, s, a) ==
  IF c = "preserving" THEN s.total
  ELSE CASE a[1] = "add"            -> s.total + cellsPerPacket[a[2]]
         [] a[1] = "setPacketCount" -> s.total
         [] a[1] = "remove"         -> s.total - cellsPerPacket[a[2]] * PacketCountOf(s, a[2])
         [] a[1] = "reset"          -> 0

LEMMA D03Done ==
  \A c, p, n, r, a :
    D03Applies(D03At(p, n, r), a) /\ a[1] \in {"add", "setPacketCount", "remove", "reset"} =>
      D03Step(c, D03At(p, n, r), a)
        = D03At(D03Selected(D03At(p, n, r), a), D03Total(c, D03At(p, n, r), a),
                IF a[1] = "reset" THEN r ELSE "true")
<1> TAKE c, p, n, r, a
<1> HAVE D03Applies(D03At(p, n, r), a) /\ a[1] \in {"add", "setPacketCount", "remove", "reset"}
<1> DEFINE s == D03At(p, n, r)
           q == D03Selected(s, a)
           m == D03Total(c, s, a)
           e == IF a[1] = "reset" THEN r ELSE "true"
           t == [s EXCEPT !.selected = q, !.result = e]
           u == [t EXCEPT !.total = m]
<1> SUFFICES D03Step(c, s, a) = D03At(q, m, e)
  OBVIOUS
<1>1. s = D03At(p, n, r) /\ D03Applies(s, a)
  OBVIOUS
<1>2. t = [s EXCEPT !.selected = q, !.result = e]
  OBVIOUS
<1>3. u = [t EXCEPT !.total = m]
  OBVIOUS
<1>4. s.result = r /\ s.total = n
  BY D03Parts
<1>5. D03Preserving(s, a) = t
  <2>1. e = IF a[1] = "reset" THEN s.result ELSE "true"
    BY <1>4
  <2> HIDE DEF s, e
  <2> QED BY <1>1, <2>1 DEF D03Preserving
<1>6. t = D03At(q, n, e)
  <2> HIDE DEF s, q, e, t
  <2> QED BY <1>1, <1>2 DEF D03At
<1>7. u = D03At(q, m, e)
  <2> HIDE DEF s, q, e, t, m, u
  <2> QED BY <1>3, <1>6 DEF D03At
<1>8. CASE c = "preserving"
  <2>1. m = n
    BY <1>4, <1>8 DEF D03Total
  <2>2. D03Step(c, s, a) = t
    <3> HIDE DEF s, t
    <3> QED BY <1>5, <1>8 DEF D03Step
  <2> HIDE DEF s, q, e, t, m, u
  <2> QED BY <1>6, <2>1, <2>2
<1>9. CASE c # "preserving"
  <2>1. D03Step(c, s, a) = D03FalseGreen(s, a)
    <3> HIDE DEF s
    <3> QED BY <1>9 DEF D03Step
  <2>2. t.total = s.total
    <3> HIDE DEF s, q, e, t, m, u
    <3> QED BY <1>1, <1>6 DEF D03At
  <2>3. D03FalseGreen(s, a) = u
    <3>1. CASE a[1] = "add"
      <4>1. m = t.total + cellsPerPacket[a[2]]
        BY <1>9, <2>2, <3>1 DEF D03Total
      <4> HIDE DEF s, q, e, t, m
      <4>2. D03FalseGreen(s, a) = [t EXCEPT !.total = t.total + cellsPerPacket[a[2]]]
        BY <1>1, <1>5, <3>1 DEF D03FalseGreen
      <4> QED BY <1>3, <4>1, <4>2
    <3>2. CASE a[1] = "setPacketCount"
      <4>1. m = t.total
        BY <1>9, <2>2, <3>2 DEF D03Total
      <4>2. D03FalseGreen(s, a) = t
        <5> HIDE DEF s, q, e, t, m
        <5> QED BY <1>1, <1>5, <3>2 DEF D03FalseGreen
      <4>3. m = n
        BY <1>4, <1>9, <3>2 DEF D03Total
      <4> HIDE DEF s, q, e, t, m, u
      <4> QED BY <1>6, <1>7, <4>2, <4>3
    <3>3. CASE a[1] = "remove"
      <4>1. m = t.total - cellsPerPacket[a[2]] * PacketCountOf(s, a[2])
        BY <1>9, <2>2, <3>3 DEF D03Total
      <4> HIDE DEF s, q, e, t, m
      <4>2. D03FalseGreen(s, a)
              = [t EXCEPT !.total = t.total - cellsPerPacket[a[2]] * PacketCountOf(s, a[2])]
        BY <1>1, <1>5, <3>3 DEF D03FalseGreen
      <4> QED BY <1>3, <4>1, <4>2
    <3>4. CASE a[1] = "reset"
      <4>1. m = 0
        BY <1>9, <3>4 DEF D03Total
      <4> HIDE DEF s, q, e, t, m
      <4>2. D03FalseGreen(s, a) = [t EXCEPT !.total = 0]
        BY <1>1, <1>5, <3>4 DEF D03FalseGreen
      <4> QED BY <1>3, <4>1, <4>2
    <3> QED BY <3>1, <3>2, <3>3, <3>4
  <2> HIDE DEF s, q, e, t, m, u
  <2> QED BY <1>7, <2>1, <2>3
<1> QED BY <1>8, <1>9

D03Set(p, id, n) ==
  [i \in DOMAIN p |-> IF p[i].varietyId = id THEN Planned(id, n) ELSE p[i]]

\* What each operation says of an action of its kind.
LEMMA D03AddMeans ==
  \A c, s, a : a[1] = "add" =>
    /\ D03Applies(s, a) <=> a[2] \in Varieties /\ ~IsPlanned(s, a[2])
    /\ D03Selected(s, a) = Append(s.selected, Planned(a[2], 1))
    /\ D03Total(c, s, a) = IF c = "preserving" THEN s.total ELSE s.total + cellsPerPacket[a[2]]
<1> TAKE c, s, a
<1> HAVE a[1] = "add"
<1>1. D03Applies(s, a) <=> a[2] \in Varieties /\ ~IsPlanned(s, a[2])
  BY DEF D03Applies
<1>2. D03Selected(s, a) = Append(s.selected, Planned(a[2], 1))
  BY DEF D03Selected
<1>3. D03Total(c, s, a) = IF c = "preserving" THEN s.total ELSE s.total + cellsPerPacket[a[2]]
  BY DEF D03Total
<1> QED BY <1>1, <1>2, <1>3, Zenon

LEMMA D03SetMeans ==
  \A c, s, a : a[1] = "setPacketCount" =>
    /\ D03Applies(s, a) <=> a[3] > 0 /\ IsPlanned(s, a[2])
    /\ D03Selected(s, a) = D03Set(s.selected, a[2], a[3])
    /\ D03Total(c, s, a) = IF c = "preserving" THEN s.total ELSE s.total
<1> TAKE c, s, a
<1> HAVE a[1] = "setPacketCount"
<1>1. D03Applies(s, a) <=> a[3] > 0 /\ IsPlanned(s, a[2])
  BY DEF D03Applies
<1>2. D03Selected(s, a) = D03Set(s.selected, a[2], a[3])
  BY DEF D03Selected, D03Set
<1>3. D03Total(c, s, a) = IF c = "preserving" THEN s.total ELSE s.total
  BY DEF D03Total
<1> QED BY <1>1, <1>2, <1>3, Zenon

LEMMA D03RemoveMeans ==
  \A c, s, a : a[1] = "remove" =>
    /\ D03Applies(s, a) <=> IsPlanned(s, a[2])
    /\ D03Selected(s, a) = RemoveAt(s.selected, PlaceOf(s, a[2]))
    /\ D03Total(c, s, a) = IF c = "preserving" THEN s.total
         ELSE s.total - cellsPerPacket[a[2]] * PacketCountOf(s, a[2])
<1> TAKE c, s, a
<1> HAVE a[1] = "remove"
<1>1. D03Applies(s, a) <=> IsPlanned(s, a[2])
  BY DEF D03Applies
<1>2. D03Selected(s, a) = RemoveAt(s.selected, PlaceOf(s, a[2]))
  BY DEF D03Selected
<1>3. D03Total(c, s, a) = IF c = "preserving" THEN s.total
        ELSE s.total - cellsPerPacket[a[2]] * PacketCountOf(s, a[2])
  BY DEF D03Total
<1> QED BY <1>1, <1>2, <1>3, Zenon

LEMMA D03ResetMeans ==
  \A c, s, a : a[1] = "reset" =>
    /\ D03Applies(s, a) <=> TRUE
    /\ D03Selected(s, a) = <<>>
    /\ D03Total(c, s, a) = IF c = "preserving" THEN s.total ELSE 0
<1> TAKE c, s, a
<1> HAVE a[1] = "reset"
<1>1. D03Applies(s, a) <=> TRUE
  BY DEF D03Applies
<1>2. D03Selected(s, a) = <<>>
  BY DEF D03Selected
<1>3. D03Total(c, s, a) = IF c = "preserving" THEN s.total ELSE 0
  BY DEF D03Total
<1> QED BY <1>1, <1>2, <1>3, Zenon

D03Place(p, id) == CHOOSE i \in DOMAIN p : p[i].varietyId = id

LEMMA D03Adds ==
  \A c, p, n, r, v :
    v \in Varieties /\ ~D03Holding(p, v) =>
      D03Step(c, D03At(p, n, r), <<"add", v>>)
        = D03At(Append(p, Planned(v, 1)), IF c = "preserving" THEN n ELSE n + cellsPerPacket[v], "true")
<1> TAKE c, p, n, r, v
<1> HAVE v \in Varieties /\ ~D03Holding(p, v)
<1> DEFINE s == D03At(p, n, r)
           a == <<"add", v>>
<1>1. s = D03At(p, n, r) /\ s.selected = p /\ s.total = n /\ ~IsPlanned(s, v)
  BY D03Parts
<1>2. a[1] = "add" /\ a[2] = v /\ a[1] \in {"add", "setPacketCount", "remove", "reset"}
  OBVIOUS
<1> SUFFICES D03Step(c, s, a)
               = D03At(Append(p, Planned(v, 1)), IF c = "preserving" THEN n
                 ELSE n + cellsPerPacket[v], "true")
  OBVIOUS
<1> HIDE DEF s, a
<1>3. D03Applies(s, a)
  BY <1>1, <1>2, D03AddMeans
<1>4. D03Selected(s, a) = Append(p, Planned(v, 1))
  <2>1. D03Selected(s, a) = Append(s.selected, Planned(a[2], 1))
    BY <1>2, D03AddMeans, Zenon
  <2> QED BY <1>1, <1>2, <2>1
<1>5. D03Total(c, s, a) = IF c = "preserving" THEN n ELSE n + cellsPerPacket[v]
  <2>1. D03Total(c, s, a) = IF c = "preserving" THEN s.total ELSE s.total + cellsPerPacket[a[2]]
    BY <1>2, D03AddMeans, Zenon
  <2> QED BY <1>1, <1>2, <2>1
<1>6. D03Step(c, s, a) = D03At(D03Selected(s, a), D03Total(c, s, a), IF a[1] = "reset" THEN r ELSE "true")
  BY <1>1, <1>2, <1>3, D03Done
<1>7. (IF a[1] = "reset" THEN r ELSE "true") = "true"
  BY <1>2
<1> QED BY <1>4, <1>5, <1>6, <1>7, Zenon

LEMMA D03Sets ==
  \A c, p, n, r, v, k :
    k > 0 /\ D03Holding(p, v) =>
      D03Step(c, D03At(p, n, r), <<"setPacketCount", v, k>>) = D03At(D03Set(p, v, k), n, "true")
<1> TAKE c, p, n, r, v, k
<1> HAVE k > 0 /\ D03Holding(p, v)
<1> DEFINE s == D03At(p, n, r)
           a == <<"setPacketCount", v, k>>
<1>1. s = D03At(p, n, r) /\ s.selected = p /\ s.total = n /\ IsPlanned(s, v)
  BY D03Parts
<1>2. /\ a[1] = "setPacketCount" /\ a[2] = v /\ a[3] = k
      /\ a[1] \in {"add", "setPacketCount", "remove", "reset"}
  OBVIOUS
<1> SUFFICES D03Step(c, s, a) = D03At(D03Set(p, v, k), n, "true")
  OBVIOUS
<1> HIDE DEF s, a
<1>3. D03Applies(s, a)
  BY <1>1, <1>2, D03SetMeans
<1>4. D03Selected(s, a) = D03Set(p, v, k)
  <2>1. D03Selected(s, a) = D03Set(s.selected, a[2], a[3])
    BY <1>2, D03SetMeans, Zenon
  <2> QED BY <1>1, <1>2, <2>1
<1>5. D03Total(c, s, a) = n
  BY <1>1, <1>2, D03SetMeans
<1>6. D03Step(c, s, a) = D03At(D03Selected(s, a), D03Total(c, s, a), IF a[1] = "reset" THEN r ELSE "true")
  BY <1>1, <1>2, <1>3, D03Done
<1>7. (IF a[1] = "reset" THEN r ELSE "true") = "true"
  BY <1>2
<1> QED BY <1>4, <1>5, <1>6, <1>7, Zenon

LEMMA D03Removes ==
  \A c, p, n, r, v :
    D03Holding(p, v) =>
      \E m : D03Step(c, D03At(p, n, r), <<"remove", v>>) = D03At(RemoveAt(p, D03Place(p, v)), m, "true")
<1> TAKE c, p, n, r, v
<1> HAVE D03Holding(p, v)
<1> DEFINE s == D03At(p, n, r)
           a == <<"remove", v>>
<1>1. s = D03At(p, n, r) /\ s.selected = p /\ IsPlanned(s, v)
  BY D03Parts
<1>2. a[1] = "remove" /\ a[2] = v /\ a[1] \in {"add", "setPacketCount", "remove", "reset"}
  OBVIOUS
<1> SUFFICES \E m : D03Step(c, s, a) = D03At(RemoveAt(p, D03Place(p, v)), m, "true")
  OBVIOUS
<1> HIDE DEF s, a
<1>3. D03Applies(s, a)
  BY <1>1, <1>2, D03RemoveMeans
<1>4. D03Selected(s, a) = RemoveAt(p, D03Place(p, v))
  <2>1. D03Selected(s, a) = RemoveAt(s.selected, PlaceOf(s, v))
    BY <1>2, D03RemoveMeans, Zenon
  <2>2. PlaceOf(s, v) = D03Place(p, v)
    BY <1>1, Zenon DEF PlaceOf, D03Place
  <2> QED BY <1>1, <2>1, <2>2
<1>5. D03Step(c, s, a) = D03At(D03Selected(s, a), D03Total(c, s, a), IF a[1] = "reset" THEN r ELSE "true")
  BY <1>1, <1>2, <1>3, D03Done
<1>6. (IF a[1] = "reset" THEN r ELSE "true") = "true"
  BY <1>2
<1>7. D03Step(c, s, a) = D03At(RemoveAt(p, D03Place(p, v)), D03Total(c, s, a), "true")
  BY <1>4, <1>5, <1>6, Zenon
<1> QED BY <1>7

LEMMA D03ResetTo ==
  \A c, p, n, r :
    D03Step(c, D03At(p, n, r), <<"reset">>) = D03At(D03NoTray, IF c = "preserving" THEN n ELSE 0, r)
<1> TAKE c, p, n, r
<1> DEFINE s == D03At(p, n, r)
           a == <<"reset">>
<1>1. s = D03At(p, n, r) /\ s.total = n
  BY D03Parts
<1>2. a[1] = "reset" /\ a[1] \in {"add", "setPacketCount", "remove", "reset"}
  OBVIOUS
<1> SUFFICES D03Step(c, s, a) = D03At(D03NoTray, IF c = "preserving" THEN n ELSE 0, r)
  OBVIOUS
<1> HIDE DEF s, a
<1>3. D03Applies(s, a)
  BY <1>2, D03ResetMeans
<1>4. D03Selected(s, a) = D03NoTray
  BY <1>2, D03ResetMeans, Zenon DEF D03NoTray
<1>5. D03Total(c, s, a) = IF c = "preserving" THEN n ELSE 0
  BY <1>1, <1>2, D03ResetMeans
<1>6. D03Step(c, s, a) = D03At(D03Selected(s, a), D03Total(c, s, a), IF a[1] = "reset" THEN r ELSE "true")
  BY <1>1, <1>2, <1>3, D03Done
<1>7. (IF a[1] = "reset" THEN r ELSE "true") = r
  BY <1>2
<1> QED BY <1>4, <1>5, <1>6, <1>7, Zenon

\* An unknown variety, a count of zero, a variety that is not planned.
LEMMA D03Refuses ==
  \A c, p, n, r, a :
    (\/ a = <<"add", "unknown">> \/ a = <<"setPacketCount", "marigold", 0>>
     \/ a = <<"remove", "marigold">> /\ ~D03Holding(p, "marigold"))
    => D03Step(c, D03At(p, n, r), a) = D03At(p, n, "false")
<1> TAKE c, p, n, r, a
<1> HAVE \/ a = <<"add", "unknown">> \/ a = <<"setPacketCount", "marigold", 0>>
         \/ a = <<"remove", "marigold">> /\ ~D03Holding(p, "marigold")
<1>1. ~D03Applies(D03At(p, n, r), a)
  <2> DEFINE t == D03At(p, n, r)
  <2>0. ~D03Holding(p, "marigold") => ~IsPlanned(t, "marigold")
    BY D03Parts
  <2> SUFFICES ~D03Applies(t, a)
    OBVIOUS
  <2> HIDE DEF t
  <2>1. CASE a = <<"add", "unknown">>
    <3>1. a[1] = "add" /\ a[2] \notin Varieties
      BY <2>1 DEF Varieties
    <3> QED BY ONLY <3>1, D03AddMeans
  <2>2. CASE a = <<"setPacketCount", "marigold", 0>>
    <3>1. a[1] = "setPacketCount" /\ ~(a[3] > 0)
      BY <2>2
    <3> QED BY ONLY <3>1, D03SetMeans
  <2>3. CASE a = <<"remove", "marigold">> /\ ~D03Holding(p, "marigold")
    <3>1. a[1] = "remove" /\ a[2] = "marigold"
      BY <2>3
    <3>2. ~IsPlanned(t, a[2])
      BY <2>0, <2>3, <3>1
    <3> QED BY ONLY <3>1, <3>2, D03RemoveMeans
  <2> QED BY <2>1, <2>2, <2>3
<1> QED BY <1>1, D03Refused

LEMMA D03TrayAdded ==
  /\ \A v : Append(D03NoTray, Planned(v, 1)) = D03OneTray(v, 1)
  /\ Append(D03OneTray("basil", 3), Planned("marigold", 1)) = D03TwoTray
<1>1. ASSUME NEW v PROVE Append(D03NoTray, Planned(v, 1)) = D03OneTray(v, 1)
  <2> DEFINE x == Planned(v, 1)
             s == Append(<<>>, x)
  <2>1. s \in Seq({x}) /\ Len(s) = 1 /\ s[1] = x
    BY SMT
  <2> SUFFICES s = <<x>>
    BY SMT DEF D03NoTray, D03OneTray
  <2> HIDE DEF s, x
  <2>2. s = <<s[1]>>
    BY <2>1, OneEntry
  <2> QED BY <2>1, <2>2, Zenon
<1>2. Append(D03OneTray("basil", 3), Planned("marigold", 1)) = D03TwoTray
  BY TwoEntries, Zenon DEF D03OneTray, D03TwoTray
<1> QED BY <1>1, <1>2

LEMMA D03TraySet ==
  \A v, n, k : D03Set(D03OneTray(v, n), v, k) = D03OneTray(v, k)
<1> TAKE v, n, k
<1> DEFINE p == D03OneTray(v, n)
           x == Planned(v, k)
           s == D03Set(p, v, k)
<1>1. Len(p) = 1 /\ DOMAIN p = 1 .. 1 /\ p[1].varietyId = v
  BY DEF D03OneTray, Planned
<1>2. s = [i \in DOMAIN p |-> IF p[i].varietyId = v THEN x ELSE p[i]]
  BY DEF D03Set
<1> SUFFICES s = <<x>>
  BY DEF D03OneTray
<1> HIDE DEF p, s, x
<1>3. s \in Seq({x}) /\ Len(s) = 1 /\ s[1] = x
  BY <1>1, <1>2
<1>4. s = <<s[1]>>
  BY <1>3, OneEntry
<1> QED BY <1>3, <1>4, Zenon

LEMMA D03TrayRemoved == RemoveAt(D03TwoTray, D03Place(D03TwoTray, "basil")) = D03OneTray("marigold", 1)
<1> DEFINE p == D03TwoTray
           x == Planned("basil", 3)
           y == Planned("marigold", 1)
           k == D03Place(p, "basil")
<1>1. p = <<x, y>>
  BY DEF D03TwoTray
<1>2. x.varietyId = "basil" /\ y.varietyId # "basil"
  BY DEF Planned
<1> SUFFICES RemoveAt(p, k) = <<y>>
  BY DEF D03OneTray
<1>3. k = CHOOSE i \in DOMAIN p : p[i].varietyId = "basil"
  BY DEF D03Place
<1> HIDE DEF p, x, y, k
<1>4. DOMAIN p = 1 .. 2 /\ Len(p) = 2 /\ p[1] = x /\ p[2] = y /\ p \in Seq({x, y})
  BY <1>1
<1>5. k = 1
  <2>1. \E i \in DOMAIN p : p[i].varietyId = "basil"
    <3>1. 1 \in DOMAIN p /\ p[1].varietyId = "basil"
      BY <1>2, <1>4
    <3> QED BY <3>1
  <2>2. k \in DOMAIN p /\ p[k].varietyId = "basil"
    BY <1>3, <2>1, Zenon
  <2>3. k = 1 \/ k = 2
    BY <1>4, <2>2
  <2>4. k # 2
    BY <1>2, <1>4, <2>2
  <2> QED BY <2>3, <2>4
<1> DEFINE front == SubSeq(p, 1, 0)
           back == SubSeq(p, 2, 2)
           s == front \o back
<1>6. RemoveAt(p, k) = s
  <2>1. 1 - 1 = 0 /\ 1 + 1 = 2
    OBVIOUS
  <2>2. RemoveAt(p, 1) = SubSeq(p, 1, 1 - 1) \o SubSeq(p, 1 + 1, Len(p))
    BY Zenon DEF RemoveAt
  <2> QED BY <1>4, <1>5, <2>1, <2>2
<1>7. front \in Seq({y}) /\ Len(front) = 0
  BY <1>4
<1>8. back \in Seq({y}) /\ Len(back) = 1 /\ back[1] = y
  BY <1>4
<1> SUFFICES s = <<y>>
  BY <1>6
<1>9. s = front \o back
  OBVIOUS
<1> HIDE DEF front, back, s
<1>10. /\ s \in Seq({y}) /\ Len(s) = Len(front) + Len(back)
       /\ \A i \in 1 .. Len(front) + Len(back) : s[i] = IF i <= Len(front) THEN front[i]
            ELSE back[i - Len(front)]
  BY <1>7, <1>8, <1>9, ConcatProperties
<1>11. s \in Seq({y}) /\ Len(s) = 1 /\ s[1] = y
  BY <1>7, <1>8, <1>10
<1>12. s = <<s[1]>>
  BY <1>11, OneEntry
<1> QED BY <1>11, <1>12, Zenon

LEMMA D03Cells ==
  CellsPlanned(D03NoTray) = 0 /\ CellsPlanned(D03OneTray("radish", 3)) = 9
<1>1. CellsPlanned(D03NoTray) = 0
  BY NoCells DEF D03NoTray
<1>2. CellsPlanned(D03OneTray("radish", 3)) = 9
  <2>1. CellsOf(<<Planned("radish", 3)>>, 1) = 9
    <3> DEFINE q == <<Planned("radish", 3)>>
    <3>1. q[1].varietyId = "radish" /\ q[1].packetCount = 3
      BY DEF Planned
    <3>2. cellsPerPacket["radish"] = 3
      BY DEF cellsPerPacket
    <3>3. CellsOf(q, 1) = cellsPerPacket[q[1].varietyId] * q[1].packetCount
      BY Zenon DEF CellsOf
    <3> HIDE DEF q
    <3>4. CellsOf(q, 1) = 3 * 3
      BY <3>1, <3>2, <3>3
    <3> QED BY <3>4 DEF q
  <2> QED BY <2>1, OnePacketCells DEF D03OneTray
<1> QED BY <1>1, <1>2

\* A frame.
D03Seen(selected, occupied, result) ==
  [selected |-> selected, occupied |-> occupied, remaining |-> Capacity - occupied,
   over |-> Capacity - occupied < 0, result |-> result]

LEMMA D03Observed ==
  \A c, p, n, r : D03Observe(c, D03At(p, n, r))
    = D03Seen(p, IF c = "preserving" THEN CellsPlanned(p) ELSE n, r)
<1> TAKE c, p, n, r
<1> DEFINE s == D03At(p, n, r)
<1> SUFFICES D03Observe(c, s) = D03Seen(p, IF c = "preserving" THEN CellsPlanned(p) ELSE n, r)
  OBVIOUS
<1>1. s.selected = p /\ s.total = n /\ s.result = r
  BY D03Parts
<1> HIDE DEF s
<1> QED BY <1>1 DEF D03Observe, D03Seen

LEMMA D03CanonicalShows ==
  ASSUME NEW c \in {"preserving", "false_green"}, NEW st, Passes("D03", c, Canonical, 2, st)
  PROVE  D03Oracle([i \in 1 .. 3 |-> D03Observe(c, st[i])]) <=> c = "preserving"
<1> DEFINE fs == [i \in 1 .. 3 |-> D03Observe(c, st[i])]
<1> SUFFICES D03Oracle(fs) <=> c = "preserving"
  OBVIOUS
<1>1. /\ st[1] = D03Mount
      /\ st[2] = D03Step(c, st[1], <<"add", "radish">>)
      /\ st[3] = D03Step(c, st[2], <<"setPacketCount", "radish", 3>>)
  BY DEF Passes, ScriptOf, CanonicalOf, MountOf, StepOf, D03Canonical
<1>2. \A i \in 1 .. 3 : fs[i] = D03Observe(c, st[i])
  OBVIOUS
<1>3. Len(fs) = 3 /\ DOMAIN fs = 1 .. 3
  OBVIOUS
<1> HIDE DEF fs
<1>4. st[1] = D03At(D03NoTray, 0, "none")
  BY <1>1 DEF D03Mount, D03At, D03NoTray
<1>5. PICK m : /\ st[2] = D03At(D03OneTray("radish", 1), m, "true")
               /\ c = "false_green" => m = 3
  <2>1. "radish" \in Varieties /\ cellsPerPacket["radish"] = 3
    BY DEF Varieties, cellsPerPacket
  <2>2. ~D03Holding(D03NoTray, "radish")
    BY D03Trays
  <2> DEFINE m == IF c = "preserving" THEN 0 ELSE 0 + cellsPerPacket["radish"]
  <2>3. D03Step(c, D03At(D03NoTray, 0, "none"), <<"add", "radish">>)
          = D03At(Append(D03NoTray, Planned("radish", 1)), m, "true")
    BY <2>1, <2>2, D03Adds
  <2>4. c = "false_green" => m = 3
    BY <2>1
  <2> HIDE DEF m
  <2>5. Append(D03NoTray, Planned("radish", 1)) = D03OneTray("radish", 1)
    BY D03TrayAdded, Zenon
  <2>6. st[2] = D03At(D03OneTray("radish", 1), m, "true")
    BY <1>1, <1>4, <2>3, <2>5
  <2> QED BY <2>4, <2>6
<1>6. st[3] = D03At(D03OneTray("radish", 3), m, "true")
  <2>1. D03Holding(D03OneTray("radish", 1), "radish")
    BY D03Trays
  <2>2. D03Step(c, D03At(D03OneTray("radish", 1), m, "true"), <<"setPacketCount", "radish", 3>>)
          = D03At(D03Set(D03OneTray("radish", 1), "radish", 3), m, "true")
    <3>1. 3 > 0
      OBVIOUS
    <3> QED BY <2>1, <3>1, D03Sets
  <2>3. D03Set(D03OneTray("radish", 1), "radish", 3) = D03OneTray("radish", 3)
    BY D03TraySet
  <2> QED BY <1>1, <1>5, <2>2, <2>3
<1>7. fs[2].result = "true"
  <2>1. fs[2] = D03Seen(D03OneTray("radish", 1),
                        IF c = "preserving" THEN CellsPlanned(D03OneTray("radish", 1)) ELSE m, "true")
    BY <1>2, <1>5, D03Observed
  <2> QED BY <2>1 DEF D03Seen
<1>8. fs[3] = D03Seen(D03OneTray("radish", 3), IF c = "preserving" THEN 9 ELSE m, "true")
  <2>1. fs[3] = D03Seen(D03OneTray("radish", 3),
                        IF c = "preserving" THEN CellsPlanned(D03OneTray("radish", 3)) ELSE m, "true")
    BY <1>2, <1>6, D03Observed
  <2> QED BY <2>1, D03Cells
<1>9. CASE c = "preserving"
  <2>1. fs[3] = D03Seen(D03OneTray("radish", 3), 9, "true")
    BY <1>8, <1>9
  <2>2. D03Derived(fs[3])
    <3>1. Capacity - 9 = -1 /\ (Capacity - 9 < 0) = TRUE
      BY DEF Capacity
    <3>2. D03Seen(D03OneTray("radish", 3), 9, "true")
            = [selected |-> <<Planned("radish", 3)>>, occupied |-> 9, remaining |-> -1,
               over |-> TRUE, result |-> "true"]
      BY <3>1, Zenon DEF D03Seen, D03OneTray
    <3> QED BY <2>1, <3>2, Zenon DEF D03Derived
  <2> QED BY <1>3, <1>7, <1>9, <2>2 DEF D03Oracle
\* The duplicate of candidate B is still that of one packet.
<1>10. CASE c = "false_green"
  <2>1. fs[3].occupied = 3
    BY <1>5, <1>8, <1>10 DEF D03Seen
  <2>2. ~D03Derived(fs[3])
    <3>1. ASSUME D03Derived(fs[3]) PROVE fs[3].occupied = 9
      BY <3>1 DEF D03Derived
    <3> QED BY <2>1, <3>1
  <2> QED BY <1>10, <2>2 DEF D03Oracle
<1> QED BY <1>9, <1>10

LEMMA D03VisibleShows ==
  ASSUME NEW c, NEW k \in DOMAIN D03Visible, NEW st,
         Passes("D03", c, Assertion(k), Len(D03Visible[k]), st)
  PROVE  D03Holds(k, [i \in 1 .. Len(D03Visible[k]) + 1 |-> D03Observe(c, st[i])])
<1> DEFINE fs == [i \in 1 .. Len(D03Visible[k]) + 1 |-> D03Observe(c, st[i])]
<1> SUFFICES D03Holds(k, fs)
  OBVIOUS
<1>1. st[1] = D03At(D03NoTray, 0, "none")
  BY DEF Passes, MountOf, D03Mount, D03At, D03NoTray
<1>2. k \in 1 .. 2
  BY DEF D03Visible
\* An empty tray, whether its cells are computed or read.
<1>3. \A n, r : (c # "preserving" => n = 0) => D03Empty(D03Observe(c, D03At(D03NoTray, n, r)))
  <2> TAKE n, r
  <2> HAVE c # "preserving" => n = 0
  <2>1. D03Observe(c, D03At(D03NoTray, n, r)) = D03Seen(D03NoTray, 0, r)
    <3>1. D03Observe(c, D03At(D03NoTray, n, r))
            = D03Seen(D03NoTray, IF c = "preserving" THEN CellsPlanned(D03NoTray) ELSE n, r)
      BY D03Observed
    <3> QED BY <3>1, D03Cells
  <2>2. Capacity - 0 = Capacity /\ ~(Capacity - 0 < 0)
    BY DEF Capacity
  <2>3. /\ D03Seen(D03NoTray, 0, r).selected = <<>> /\ D03Seen(D03NoTray, 0, r).occupied = 0
        /\ D03Seen(D03NoTray, 0, r).remaining = Capacity /\ ~D03Seen(D03NoTray, 0, r).over
    BY <2>2 DEF D03Seen, D03NoTray
  <2> QED BY <2>1, <2>3 DEF D03Empty
<1>4. CASE k = 1
  <2>1. fs[1] = D03Observe(c, st[1])
    BY <1>4 DEF D03Visible
  <2> HIDE DEF fs
  <2>2. D03Empty(fs[1])
    BY <1>1, <1>3, <2>1
  <2> QED BY <1>4, <2>2 DEF D03Holds
<1>5. CASE k = 2
  <2>1. Len(D03Visible[k]) = 8
    BY <1>5 DEF D03Visible
  <2>2. /\ st[2] = D03Step(c, st[1], <<"add", "basil">>)
        /\ st[3] = D03Step(c, st[2], <<"setPacketCount", "basil", 3>>)
        /\ st[4] = D03Step(c, st[3], <<"add", "marigold">>)
        /\ st[5] = D03Step(c, st[4], <<"remove", "basil">>)
        /\ st[6] = D03Step(c, st[5], <<"reset">>)
        /\ st[7] = D03Step(c, st[6], <<"add", "unknown">>)
        /\ st[8] = D03Step(c, st[7], <<"setPacketCount", "marigold", 0>>)
        /\ st[9] = D03Step(c, st[8], <<"remove", "marigold">>)
    BY <1>5, <2>1 DEF Passes, ScriptOf, VisibleOf, StepOf, D03Visible, Assertion, Canonical
  <2>3. \A i \in 1 .. 9 : fs[i] = D03Observe(c, st[i])
    BY <2>1
  <2> HIDE DEF fs
  <2>4. "basil" \in Varieties /\ "marigold" \in Varieties /\ 3 > 0
    BY DEF Varieties
  <2>5. PICK m : st[2] = D03At(D03OneTray("basil", 1), m, "true")
    <3>1. ~D03Holding(D03NoTray, "basil")
      BY D03Trays
    <3>2. st[2] = D03At(Append(D03NoTray, Planned("basil", 1)),
                        IF c = "preserving" THEN 0 ELSE 0 + cellsPerPacket["basil"], "true")
      BY <1>1, <2>2, <2>4, <3>1, D03Adds
    <3>3. Append(D03NoTray, Planned("basil", 1)) = D03OneTray("basil", 1)
      BY D03TrayAdded, Zenon
    <3> QED BY <3>2, <3>3
  <2>6. st[3] = D03At(D03OneTray("basil", 3), m, "true")
    <3>1. D03Holding(D03OneTray("basil", 1), "basil")
      BY D03Trays
    <3>2. st[3] = D03At(D03Set(D03OneTray("basil", 1), "basil", 3), m, "true")
      BY <2>2, <2>4, <2>5, <3>1, D03Sets
    <3> QED BY <3>2, D03TraySet
  <2>7. PICK w : st[4] = D03At(D03TwoTray, w, "true")
    <3>1. ~D03Holding(D03OneTray("basil", 3), "marigold")
      BY D03Trays
    <3>2. st[4] = D03At(Append(D03OneTray("basil", 3), Planned("marigold", 1)),
                        IF c = "preserving" THEN m ELSE m + cellsPerPacket["marigold"], "true")
      BY <2>2, <2>4, <2>6, <3>1, D03Adds
    <3>3. Append(D03OneTray("basil", 3), Planned("marigold", 1)) = D03TwoTray
      BY D03TrayAdded, Zenon
    <3> QED BY <3>2, <3>3
  <2>8. PICK z : st[5] = D03At(D03OneTray("marigold", 1), z, "true")
    <3>1. \E z : st[5] = D03At(RemoveAt(D03TwoTray, D03Place(D03TwoTray, "basil")), z, "true")
      BY <2>2, <2>7, D03Trays, D03Removes
    <3> QED BY <3>1, D03TrayRemoved
  <2>9. PICK e : st[6] = D03At(D03NoTray, e, "true") /\ (c # "preserving" => e = 0)
    <3>1. st[6] = D03At(D03NoTray, IF c = "preserving" THEN z ELSE 0, "true")
      BY <2>2, <2>8, D03ResetTo
    <3> QED BY <3>1
  <2>10. st[7] = D03At(D03NoTray, e, "false")
    BY <2>2, <2>9, D03Refuses
  <2>11. st[8] = D03At(D03NoTray, e, "false")
    BY <2>2, <2>10, D03Refuses
  <2>12. st[9] = D03At(D03NoTray, e, "false")
    <3>1. ~D03Holding(D03NoTray, "marigold")
      BY D03Trays
    <3> QED BY <2>2, <2>11, <3>1, D03Refuses
  <2>13. \A p, n, r : D03Observe(c, D03At(p, n, r)).selected = p /\ D03Observe(c, D03At(p, n, r)).result = r
    <3> TAKE p, n, r
    <3>1. D03Observe(c, D03At(p, n, r)) = D03Seen(p, IF c = "preserving" THEN CellsPlanned(p) ELSE n, r)
      BY D03Observed
    <3> QED BY <3>1 DEF D03Seen
  <2>14. /\ fs[2].selected = D03OneTray("basil", 1) /\ fs[2].result = "true"
         /\ fs[3].selected = D03OneTray("basil", 3) /\ fs[3].result = "true"
         /\ fs[4].result = "true"
         /\ fs[5].selected = D03OneTray("marigold", 1) /\ fs[5].result = "true"
         /\ fs[6].result = "true" /\ fs[7].result = "false" /\ fs[8].result = "false"
         /\ fs[9].result = "false"
    BY <2>3, <2>5, <2>6, <2>7, <2>8, <2>9, <2>10, <2>11, <2>12, <2>13
  <2>15. D03Empty(fs[6])
    BY <1>3, <2>3, <2>9
  <2>16. [i \in 1 .. 8 |-> fs[i + 1].result]
           = <<"true", "true", "true", "true", "true", "false", "false", "false">>
    <3> DEFINE s == [i \in 1 .. 8 |-> fs[i + 1].result]
               t == <<"true", "true", "true", "true", "true", "false", "false", "false">>
               S == {"true", "false"}
    <3>1. /\ s[1] = "true" /\ s[2] = "true" /\ s[3] = "true" /\ s[4] = "true" /\ s[5] = "true"
          /\ s[6] = "false" /\ s[7] = "false" /\ s[8] = "false"
      BY <2>14
    <3>2. DOMAIN s = 1 .. 8
      OBVIOUS
    <3>3. /\ t[1] = "true" /\ t[2] = "true" /\ t[3] = "true" /\ t[4] = "true" /\ t[5] = "true"
          /\ t[6] = "false" /\ t[7] = "false" /\ t[8] = "false" /\ t \in Seq(S) /\ Len(t) = 8
      OBVIOUS
    <3>4. s = [i \in 1 .. 8 |-> fs[i + 1].result]
      OBVIOUS
    <3> SUFFICES s = t
      OBVIOUS
    <3> HIDE DEF s, t
    <3>5. \A i \in 1 .. 8 : s[i] = t[i]
      BY <3>1, <3>3
    <3>6. \A i \in 1 .. 8 : s[i] \in S
      BY <3>1
    <3>7. s \in Seq(S) /\ Len(s) = 8
      BY <3>2, <3>4, <3>6
    <3> QED BY <3>3, <3>5, <3>7, SeqEqual
  <2>17. /\ fs[2].selected = <<Planned("basil", 1)>> /\ fs[3].selected = <<Planned("basil", 3)>>
         /\ fs[5].selected = <<Planned("marigold", 1)>>
    BY <2>14, Zenon DEF D03OneTray
  <2> QED BY <1>5, <2>15, <2>16, <2>17, Zenon DEF D03Holds
<1> QED BY <1>2, <1>4, <1>5

-----------------------------------------------------------------------------
(* What the scripts of BG-D04 show. *)

\* The listeners of harbor and of orchard, and the panel with them, mounted or not.
D04Ears(h, o) == [ch \in Channels |-> IF ch = "harbor" THEN h ELSE o]
D04At(channel, bulletin, h, o) ==
  [channel |-> channel, bulletin |-> bulletin, mounted |-> TRUE, listeners |-> D04Ears(h, o)]
D04Gone(channel, bulletin, h, o) ==
  [channel |-> channel, bulletin |-> bulletin, mounted |-> FALSE, listeners |-> D04Ears(h, o)]

LEMMA D04EarsAre ==
  \A h, o : D04Ears(h, o)["harbor"] = h /\ D04Ears(h, o)["orchard"] = o
<1> TAKE h, o
<1> QED BY DEF D04Ears, Channels

LEMMA D04Starts == D04Mount = D04At("harbor", NoBulletin, 1, 0)
BY DEF D04Mount, D04At, D04Ears

LEMMA D04HarborHeard ==
  \A c, ch, b, h, o, v :
    h # 0 /\ ~(v < 0) =>
      D04Step(c, D04At(ch, b, h, o), <<"publish", "harbor", v>>) = D04At(ch, <<"harbor", v>>, h, o)
<1> TAKE c, ch, b, h, o, v
<1> HAVE h # 0 /\ ~(v < 0)
<1> DEFINE s == D04At(ch, b, h, o)
           t == [s EXCEPT !.bulletin = <<"harbor", v>>]
<1>1. s = D04At(ch, b, h, o)
  OBVIOUS
<1>2. t = [s EXCEPT !.bulletin = <<"harbor", v>>]
  OBVIOUS
<1>3. s.listeners["harbor"] # 0
  BY D04EarsAre DEF D04At
<1> HIDE DEF s
<1>4. D04Step(c, s, <<"publish", "harbor", v>>) = t
  BY <1>3 DEF D04Step, D04Publish
<1> HIDE DEF t
<1>5. t = D04At(ch, <<"harbor", v>>, h, o)
  BY <1>1, <1>2 DEF D04At
<1> QED BY <1>1, <1>4, <1>5

LEMMA D04OrchardHeard ==
  \A c, ch, b, h, o, v :
    o # 0 /\ ~(v < 0) =>
      D04Step(c, D04At(ch, b, h, o), <<"publish", "orchard", v>>) = D04At(ch, <<"orchard", v>>, h, o)
<1> TAKE c, ch, b, h, o, v
<1> HAVE o # 0 /\ ~(v < 0)
<1> DEFINE s == D04At(ch, b, h, o)
           t == [s EXCEPT !.bulletin = <<"orchard", v>>]
<1>1. s = D04At(ch, b, h, o)
  OBVIOUS
<1>2. t = [s EXCEPT !.bulletin = <<"orchard", v>>]
  OBVIOUS
<1>3. s.listeners["orchard"] # 0
  BY D04EarsAre DEF D04At
<1> HIDE DEF s
<1>4. D04Step(c, s, <<"publish", "orchard", v>>) = t
  BY <1>3 DEF D04Step, D04Publish
<1> HIDE DEF t
<1>5. t = D04At(ch, <<"orchard", v>>, h, o)
  BY <1>1, <1>2 DEF D04At
<1> QED BY <1>1, <1>4, <1>5

LEMMA D04Unheard ==
  \A c, ch, b, o, v :
    D04Step(c, D04At(ch, b, 0, o), <<"publish", "harbor", v>>) = D04At(ch, b, 0, o)
<1> TAKE c, ch, b, o, v
<1> DEFINE s == D04At(ch, b, 0, o)
<1>1. s.listeners["harbor"] = 0
  BY D04EarsAre DEF D04At
<1> SUFFICES D04Step(c, s, <<"publish", "harbor", v>>) = s
  OBVIOUS
<1> HIDE DEF s
<1> QED BY <1>1 DEF D04Step, D04Publish

LEMMA D04Switched ==
  \A b :
    D04Step("preserving", D04At("harbor", b, 1, 0), <<"switch", "orchard">>)
      = D04At("orchard", NoBulletin, 0, 1)
<1> TAKE b
<1> DEFINE s == D04At("harbor", b, 1, 0)
           ears == [e \in Channels |-> s.listeners[e] + (IF e = "orchard" THEN 1 ELSE 0)
             - (IF e = s.channel THEN 1 ELSE 0)]
           t == [s EXCEPT !.channel = "orchard", !.bulletin = NoBulletin, !.listeners = ears]
<1>1. s = D04At("harbor", b, 1, 0)
  OBVIOUS
<1>2. t = [s EXCEPT !.channel = "orchard", !.bulletin = NoBulletin, !.listeners = ears]
  OBVIOUS
<1>3. s.listeners = D04Ears(1, 0) /\ s.channel = "harbor"
  BY DEF D04At
<1> HIDE DEF s
<1>4. D04Step("preserving", s, <<"switch", "orchard">>) = t
  BY DEF D04Step, D04Select, D04Preserving
<1>5. ears = D04Ears(0, 1)
  BY <1>3 DEF D04Ears, Channels
<1> HIDE DEF t, ears
<1>6. t = D04At("orchard", NoBulletin, 0, 1)
  BY <1>1, <1>2, <1>5 DEF D04At
<1> QED BY <1>1, <1>4, <1>6

LEMMA D04SwitchedBack ==
  \A b :
    D04Step("preserving", D04At("orchard", b, 0, 1), <<"reset">>)
      = D04At("harbor", NoBulletin, 1, 0)
<1> TAKE b
<1> DEFINE s == D04At("orchard", b, 0, 1)
           ears == [e \in Channels |-> s.listeners[e] + (IF e = "harbor" THEN 1 ELSE 0)
             - (IF e = s.channel THEN 1 ELSE 0)]
           t == [s EXCEPT !.channel = "harbor", !.bulletin = NoBulletin, !.listeners = ears]
<1>1. s = D04At("orchard", b, 0, 1)
  OBVIOUS
<1>2. t = [s EXCEPT !.channel = "harbor", !.bulletin = NoBulletin, !.listeners = ears]
  OBVIOUS
<1>3. s.listeners = D04Ears(0, 1) /\ s.channel = "orchard"
  BY DEF D04At
<1> HIDE DEF s
<1>4. D04Step("preserving", s, <<"reset">>) = t
  BY DEF D04Step, D04Select, D04Preserving
<1>5. ears = D04Ears(1, 0)
  BY <1>3 DEF D04Ears, Channels
<1> HIDE DEF t, ears
<1>6. t = D04At("harbor", NoBulletin, 1, 0)
  BY <1>1, <1>2, <1>5 DEF D04At
<1> QED BY <1>1, <1>4, <1>6

LEMMA D04Added ==
  \A c, b :
    c # "preserving" => D04Step(c, D04At("harbor", b, 1, 0), <<"switch", "orchard">>)
      = D04At("orchard", NoBulletin, 1, 1)
<1> TAKE c, b
<1> HAVE c # "preserving"
<1> DEFINE s == D04At("harbor", b, 1, 0)
           ears == [s.listeners EXCEPT !["orchard"] = @ + (IF "orchard" = s.channel THEN 0 ELSE 1)]
           t == [s EXCEPT !.channel = "orchard", !.bulletin = NoBulletin, !.listeners = ears]
<1>1. s = D04At("harbor", b, 1, 0)
  OBVIOUS
<1>2. t = [s EXCEPT !.channel = "orchard", !.bulletin = NoBulletin, !.listeners = ears]
  OBVIOUS
<1>3. s.listeners = D04Ears(1, 0) /\ s.channel = "harbor"
  BY DEF D04At
<1> HIDE DEF s
<1>4. D04Step(c, s, <<"switch", "orchard">>) = t
  BY DEF D04Step, D04Select, D04FalseGreen
<1>5. ears = D04Ears(1, 1)
  BY <1>3 DEF D04Ears, Channels
<1> HIDE DEF t, ears
<1>6. t = D04At("orchard", NoBulletin, 1, 1)
  BY <1>1, <1>2, <1>5 DEF D04At
<1> QED BY <1>1, <1>4, <1>6

LEMMA D04AddedBack ==
  \A c, b :
    c # "preserving" => D04Step(c, D04At("orchard", b, 1, 1), <<"reset">>)
      = D04At("harbor", NoBulletin, 2, 1)
<1> TAKE c, b
<1> HAVE c # "preserving"
<1> DEFINE s == D04At("orchard", b, 1, 1)
           ears == [s.listeners EXCEPT !["harbor"] = @ + (IF "harbor" = s.channel THEN 0 ELSE 1)]
           t == [s EXCEPT !.channel = "harbor", !.bulletin = NoBulletin, !.listeners = ears]
<1>1. s = D04At("orchard", b, 1, 1)
  OBVIOUS
<1>2. t = [s EXCEPT !.channel = "harbor", !.bulletin = NoBulletin, !.listeners = ears]
  OBVIOUS
<1>3. s.listeners = D04Ears(1, 1) /\ s.channel = "orchard"
  BY DEF D04At
<1> HIDE DEF s
<1>4. D04Step(c, s, <<"reset">>) = t
  BY DEF D04Step, D04Select, D04FalseGreen
<1>5. ears = D04Ears(2, 1)
  BY <1>3 DEF D04Ears, Channels
<1> HIDE DEF t, ears
<1>6. t = D04At("harbor", NoBulletin, 2, 1)
  BY <1>1, <1>2, <1>5 DEF D04At
<1> QED BY <1>1, <1>4, <1>6

LEMMA D04Disposed ==
  \A b : D04Step("preserving", D04At("harbor", b, 1, 0), <<"dispose">>) = D04Gone("harbor", b, 0, 0)
<1> TAKE b
<1> DEFINE s == D04At("harbor", b, 1, 0)
           ears == [s.listeners EXCEPT !["harbor"] = @ - 1]
           t == [s EXCEPT !.mounted = FALSE, !.listeners = ears]
<1>1. s = D04At("harbor", b, 1, 0)
  OBVIOUS
<1>2. t = [s EXCEPT !.mounted = FALSE, !.listeners = ears]
  OBVIOUS
<1>3. s.listeners = D04Ears(1, 0) /\ s.channel = "harbor"
  BY DEF D04At
<1> HIDE DEF s
<1>4. D04Step("preserving", s, <<"dispose">>) = t
  BY <1>3 DEF D04Step, D04Dispose
<1>5. ears = D04Ears(0, 0)
  BY <1>3 DEF D04Ears, Channels
<1> HIDE DEF t, ears
<1>6. t = D04Gone("harbor", b, 0, 0)
  BY <1>1, <1>2, <1>5 DEF D04At, D04Gone
<1> QED BY <1>1, <1>4, <1>6

LEMMA D04CanonicalShows ==
  ASSUME NEW c \in {"preserving", "false_green"}, NEW st, Passes("D04", c, Canonical, 6, st)
  PROVE  D04Oracle([i \in 1 .. 7 |-> st[i]]) <=> c = "preserving"
<1> DEFINE fs == [i \in 1 .. 7 |-> st[i]]
<1> SUFFICES D04Oracle(fs) <=> c = "preserving"
  OBVIOUS
<1>1. /\ st[1] = D04Mount
      /\ st[2] = D04Step(c, st[1], <<"publish", "harbor", 2>>)
      /\ st[3] = D04Step(c, st[2], <<"switch", "orchard">>)
      /\ st[4] = D04Step(c, st[3], <<"publish", "harbor", 5>>)
      /\ st[5] = D04Step(c, st[4], <<"publish", "orchard", 3>>)
      /\ st[6] = D04Step(c, st[5], <<"reset">>)
      /\ st[7] = D04Step(c, st[6], <<"dispose">>)
  BY DEF Passes, ScriptOf, CanonicalOf, MountOf, StepOf, D04Canonical
<1>2. \A i \in 1 .. 7 : fs[i] = st[i]
  OBVIOUS
<1>3. Len(fs) = 7 /\ DOMAIN fs = 1 .. 7
  OBVIOUS
<1> HIDE DEF fs
<1>4. st[2] = D04At("harbor", <<"harbor", 2>>, 1, 0)
  BY <1>1, D04Starts, D04HarborHeard
<1>5. CASE c = "preserving"
  <2>1. st[1] = D04At("harbor", NoBulletin, 1, 0)
    BY <1>1, D04Starts
  <2>2. st[2] = D04At("harbor", <<"harbor", 2>>, 1, 0)
    BY <1>4
  <2>3. st[3] = D04At("orchard", NoBulletin, 0, 1)
    BY <1>1, <1>5, <2>2, D04Switched
  <2>4. st[4] = D04At("orchard", NoBulletin, 0, 1)
    BY <1>1, <1>5, <2>3, D04Unheard
  <2>5. st[5] = D04At("orchard", <<"orchard", 3>>, 0, 1)
    BY <1>1, <1>5, <2>4, D04OrchardHeard
  <2>6. st[6] = D04At("harbor", NoBulletin, 1, 0)
    BY <1>1, <1>5, <2>5, D04SwitchedBack
  <2>7. st[7] = D04Gone("harbor", NoBulletin, 0, 0)
    BY <1>1, <1>5, <2>6, D04Disposed
  <2> DEFINE Right(i) ==
               <<fs[i].channel, fs[i].bulletin, fs[i].listeners["harbor"], fs[i].listeners["orchard"]>>
                 = D04Expected[i]
  <2>8. Right(1)
    <3>1. /\ fs[1].channel = "harbor" /\ fs[1].bulletin = NoBulletin
          /\ fs[1].listeners["harbor"] = 1 /\ fs[1].listeners["orchard"] = 0
      BY <1>2, <2>1, D04EarsAre DEF D04At
    <3>2. D04Expected[1] = <<"harbor", NoBulletin, 1, 0>>
      BY DEF D04Expected
    <3> QED BY <3>1, <3>2, Zenon
  <2>9. Right(2)
    <3>1. /\ fs[2].channel = "harbor" /\ fs[2].bulletin = <<"harbor", 2>>
          /\ fs[2].listeners["harbor"] = 1 /\ fs[2].listeners["orchard"] = 0
      BY <1>2, <2>2, D04EarsAre DEF D04At
    <3>2. D04Expected[2] = <<"harbor", <<"harbor", 2>>, 1, 0>>
      BY DEF D04Expected
    <3> QED BY <3>1, <3>2, Zenon
  <2>10. Right(3)
    <3>1. /\ fs[3].channel = "orchard" /\ fs[3].bulletin = NoBulletin
          /\ fs[3].listeners["harbor"] = 0 /\ fs[3].listeners["orchard"] = 1
      BY <1>2, <2>3, D04EarsAre DEF D04At
    <3>2. D04Expected[3] = <<"orchard", NoBulletin, 0, 1>>
      BY DEF D04Expected
    <3> QED BY <3>1, <3>2, Zenon
  <2>11. Right(4)
    <3>1. /\ fs[4].channel = "orchard" /\ fs[4].bulletin = NoBulletin
          /\ fs[4].listeners["harbor"] = 0 /\ fs[4].listeners["orchard"] = 1
      BY <1>2, <2>4, D04EarsAre DEF D04At
    <3>2. D04Expected[4] = <<"orchard", NoBulletin, 0, 1>>
      BY DEF D04Expected
    <3> QED BY <3>1, <3>2, Zenon
  <2>12. Right(5)
    <3>1. /\ fs[5].channel = "orchard" /\ fs[5].bulletin = <<"orchard", 3>>
          /\ fs[5].listeners["harbor"] = 0 /\ fs[5].listeners["orchard"] = 1
      BY <1>2, <2>5, D04EarsAre DEF D04At
    <3>2. D04Expected[5] = <<"orchard", <<"orchard", 3>>, 0, 1>>
      BY DEF D04Expected
    <3> QED BY <3>1, <3>2, Zenon
  <2>13. Right(6)
    <3>1. /\ fs[6].channel = "harbor" /\ fs[6].bulletin = NoBulletin
          /\ fs[6].listeners["harbor"] = 1 /\ fs[6].listeners["orchard"] = 0
      BY <1>2, <2>6, D04EarsAre DEF D04At
    <3>2. D04Expected[6] = <<"harbor", NoBulletin, 1, 0>>
      BY DEF D04Expected
    <3> QED BY <3>1, <3>2, Zenon
  <2>14. \A ch \in Channels : Last(fs).listeners[ch] = 0
    <3>1. Last(fs) = D04Gone("harbor", NoBulletin, 0, 0)
      BY <1>2, <1>3, <2>7 DEF Last
    <3> QED BY <3>1 DEF D04Gone, D04Ears
  <2> HIDE DEF Right
  <2>15. \A i \in 1 .. 6 : Right(i)
    BY <2>8, <2>9, <2>10, <2>11, <2>12, <2>13
  <2>16. Len(D04Expected) = 6 /\ DOMAIN D04Expected = 1 .. 6
    BY DEF D04Expected
  <2>17. D04Oracle(fs)
    BY <1>3, <2>14, <2>15, <2>16 DEF D04Oracle, Right
  <2> QED BY <1>5, <2>17
<1>6. CASE c = "false_green"
  <2>1. st[3] = D04At("orchard", NoBulletin, 1, 1)
    BY <1>1, <1>4, <1>6, D04Added
  <2>2. fs[3].listeners["harbor"] = 1
    BY <1>2, <2>1, D04EarsAre DEF D04At
  <2>3. /\ <<fs[3].channel, fs[3].bulletin, fs[3].listeners["harbor"], fs[3].listeners["orchard"]>>
             # D04Expected[3]
        /\ 3 \in DOMAIN D04Expected
    BY <2>2 DEF D04Expected
  <2> QED BY <1>6, <2>3 DEF D04Oracle
<1> QED BY <1>5, <1>6

LEMMA D04VisibleShows ==
  ASSUME NEW c, NEW k \in DOMAIN D04Visible, NEW st,
         Passes("D04", c, Assertion(k), Len(D04Visible[k]), st)
  PROVE  D04Holds(k, [i \in 1 .. Len(D04Visible[k]) + 1 |-> st[i]])
<1> DEFINE fs == [i \in 1 .. Len(D04Visible[k]) + 1 |-> st[i]]
<1> SUFFICES D04Holds(k, fs)
  OBVIOUS
<1>1. st[1] = D04At("harbor", NoBulletin, 1, 0)
  BY D04Starts DEF Passes, MountOf
<1>2. k \in 1 .. 4
  BY DEF D04Visible
<1>3. CASE k = 1
  <2>1. Last(fs) = st[1]
    BY <1>3 DEF D04Visible, Last
  <2> HIDE DEF fs
  <2> QED BY <1>1, <1>3, <2>1, D04EarsAre DEF D04Holds, D04At
<1>4. CASE k = 2
  <2>1. st[2] = D04Step(c, st[1], <<"publish", "harbor", 2>>) /\ Last(fs) = st[2]
    BY <1>4 DEF Passes, ScriptOf, VisibleOf, StepOf, D04Visible, Assertion, Canonical, Last
  <2>2. st[2] = D04At("harbor", <<"harbor", 2>>, 1, 0)
    BY <1>1, <2>1, D04HarborHeard
  <2> HIDE DEF fs
  <2> QED BY <1>4, <2>1, <2>2 DEF D04Holds, D04At
\* Candidate B may still listen to the harbor.
<1>5. ASSUME st[2] = D04Step(c, st[1], <<"switch", "orchard">>)
      PROVE  \/ c = "preserving" /\ st[2] = D04At("orchard", NoBulletin, 0, 1)
             \/ c # "preserving" /\ st[2] = D04At("orchard", NoBulletin, 1, 1)
  BY <1>1, <1>5, D04Switched, D04Added
<1>6. CASE k = 3
  <2>1. /\ st[2] = D04Step(c, st[1], <<"switch", "orchard">>)
        /\ st[3] = D04Step(c, st[2], <<"publish", "orchard", 3>>)
        /\ fs[2] = st[2] /\ Last(fs) = st[3]
    BY <1>6 DEF Passes, ScriptOf, VisibleOf, StepOf, D04Visible, Assertion, Canonical, Last
  <2> HIDE DEF fs
  <2>2. PICK h : st[2] = D04At("orchard", NoBulletin, h, 1)
    BY <1>5, <2>1
  <2>3. st[3] = D04At("orchard", <<"orchard", 3>>, h, 1)
    BY <2>1, <2>2, D04OrchardHeard
  <2> QED BY <1>6, <2>1, <2>2, <2>3 DEF D04Holds, D04At
<1>7. CASE k = 4
  <2>1. /\ st[2] = D04Step(c, st[1], <<"switch", "orchard">>)
        /\ st[3] = D04Step(c, st[2], <<"reset">>)
        /\ st[4] = D04Step(c, st[3], <<"publish", "harbor", 7>>)
        /\ fs[3] = st[3] /\ Last(fs) = st[4]
    BY <1>7 DEF Passes, ScriptOf, VisibleOf, StepOf, D04Visible, Assertion, Canonical, Last
  <2> HIDE DEF fs
  <2>2. PICK h, o : h # 0 /\ st[3] = D04At("harbor", NoBulletin, h, o)
    <3>1. CASE c = "preserving"
      <4>1. st[3] = D04At("harbor", NoBulletin, 1, 0)
        BY <1>5, <2>1, <3>1, D04SwitchedBack
      <4> QED BY <4>1
    <3>2. CASE c # "preserving"
      <4>1. st[3] = D04At("harbor", NoBulletin, 2, 1)
        BY <1>5, <2>1, <3>2, D04AddedBack
      <4> QED BY <4>1
    <3> QED BY <3>1, <3>2
  <2>3. st[4] = D04At("harbor", <<"harbor", 7>>, h, o)
    BY <2>1, <2>2, D04HarborHeard
  <2> QED BY <1>7, <2>1, <2>2, <2>3 DEF D04Holds, D04At
<1> QED BY <1>2, <1>3, <1>4, <1>6, <1>7

-----------------------------------------------------------------------------
(* What the scripts of BG-H01 show. *)

H01At(card, title, theme, log) ==
  [current |-> card, title |-> title, theme |-> theme, log |-> log, thrown |-> FALSE]

LEMMA H01Starts ==
  H01Mount = H01At(Card01, "Moon-map", "blue", <<<<"mount">>>>)
BY DEF H01Mount, H01At, Card01, CardProps

LEMMA H01TitleEdited ==
  \A c, t, h, l, x :
    H01Step(c, H01At(Card01, t, h, l), <<"edit-title", x>>)
           = H01At(Card01, x, h, Then(l, <<"edit-title", "CARD-01">>))
<1> TAKE c, t, h, l, x
<1> QED BY DEF Then, H01At, H01Step, H01Dispatch, Card01, CardProps

LEMMA H01ThemeEdited ==
  \A c, t, h, l, x :
    H01Step(c, H01At(Card01, t, h, l), <<"edit-theme", x>>)
           = H01At(Card01, t, x, Then(l, <<"edit-theme", "CARD-01">>))
<1> TAKE c, t, h, l, x
<1> QED BY DEF Then, H01At, H01Step, H01Dispatch, Card01, CardProps

LEMMA H01OtherThemeEdited ==
  \A c, t, h, l, x :
    H01Step(c, H01At(Card02, t, h, l), <<"edit-theme", x>>)
           = H01At(Card02, t, x, Then(l, <<"edit-theme", "CARD-02">>))
<1> TAKE c, t, h, l, x
<1> QED BY DEF Then, H01At, H01Step, H01Dispatch, Card02, CardProps

LEMMA H01DraftsReset ==
  \A c, t, h, l :
    H01Step(c, H01At(Card01, t, h, l), <<"reset-current">>)
           = H01At(Card01, "Moon-map", "blue", Then(l, <<"reset-current">>))
<1> TAKE c, t, h, l
<1> QED BY DEF Then, H01At, H01Step, H01Dispatch, Card01, CardProps

LEMMA H01SameCard ==
  \A c, t, h, l :
    H01Step(c, H01At(Card01, t, h, l), <<"rerender", Card01>>)
           = H01At(Card01, t, h, Then(l, <<"rerender", "CARD-01">>))
<1> TAKE c, t, h, l
<1> QED BY DEF Then, H01At, H01Step, H01Rerender, H01Unstable, H01Preserving, H01FalseGreen, Card01,
                 CardProps, assertCardProps

LEMMA H01Replaced ==
  \A t, h, l :
    H01Step("preserving", H01At(Card01, t, h, l), <<"rerender", Card02>>)
           = H01At(Card02, "Meteor-guide", "amber", Then(l, <<"rerender", "CARD-02">>))
<1> TAKE t, h, l
<1> QED BY DEF Then, H01At, H01Step, H01Rerender, H01Unstable, H01Preserving, Card01, Card02, CardProps,
                 assertCardProps

LEMMA H01ReplacedAgain ==
  \A t, h, l :
    H01Step("preserving", H01At(Card02, t, h, l), <<"rerender", Card01>>)
           = H01At(Card01, "Moon-map", "blue", Then(l, <<"rerender", "CARD-01">>))
<1> TAKE t, h, l
<1> QED BY DEF Then, H01At, H01Step, H01Rerender, H01Unstable, H01Preserving, Card01, Card02, CardProps,
                 assertCardProps

LEMMA H01Carried ==
  \A t, h, l :
    H01Step("false_green", H01At(Card01, t, h, l), <<"rerender", Card02>>)
           = H01At(Card02, t, h, Then(l, <<"rerender", "CARD-02">>))
<1> TAKE t, h, l
<1> QED BY DEF Then, H01At, H01Step, H01Rerender, H01Unstable, H01FalseGreen, Card01, Card02, CardProps,
                 assertCardProps

\* A frame without and with an unsaved draft.
H01CleanSeen(id, title, theme, log) ==
  [cardId |-> id, title |-> title, theme |-> theme, dirty |-> FALSE, log |-> log]
H01DirtySeen(id, title, theme, log) ==
  [cardId |-> id, title |-> title, theme |-> theme, dirty |-> TRUE, log |-> log]

LEMMA H01Clean ==
  \A l :
    H01Observe(H01At(Card01, "Moon-map", "blue", l)) = H01CleanSeen("CARD-01", "Moon-map", "blue", l)
<1> TAKE l
<1> QED BY DEF H01At, H01Observe, H01CleanSeen, H01DirtySeen, isDirty, Card01, CardProps

LEMMA H01Dirty ==
  \A t, h, l :
    t # "Moon-map" \/ h # "blue" =>
    H01Observe(H01At(Card01, t, h, l)) = H01DirtySeen("CARD-01", t, h, l)
<1> TAKE t, h, l
<1> QED BY DEF H01At, H01Observe, H01CleanSeen, H01DirtySeen, isDirty, Card01, CardProps

LEMMA H01OtherClean ==
  \A l :
    H01Observe(H01At(Card02, "Meteor-guide", "amber", l))
      = H01CleanSeen("CARD-02", "Meteor-guide", "amber", l)
<1> TAKE l
<1> QED BY DEF H01At, H01Observe, H01CleanSeen, H01DirtySeen, isDirty, Card02, CardProps

LEMMA H01OtherDirty ==
  \A t, h, l :
    t # "Meteor-guide" \/ h # "amber" =>
    H01Observe(H01At(Card02, t, h, l)) = H01DirtySeen("CARD-02", t, h, l)
<1> TAKE t, h, l
<1> QED BY DEF H01At, H01Observe, H01CleanSeen, H01DirtySeen, isDirty, Card02, CardProps

H01LogTo(i) == SubSeq(H01Log, 1, i)

LEMMA H01Logged ==
  /\ H01LogTo(1) = <<<<"mount">>>>
  /\ Then(H01LogTo(1), <<"edit-title", "CARD-01">>) = H01LogTo(2)
  /\ Then(H01LogTo(2), <<"rerender", "CARD-01">>) = H01LogTo(3)
  /\ Then(H01LogTo(3), <<"rerender", "CARD-02">>) = H01LogTo(4)
  /\ Then(H01LogTo(4), <<"edit-theme", "CARD-02">>) = H01LogTo(5)
  /\ Then(H01LogTo(5), <<"rerender", "CARD-01">>) = H01LogTo(6)
  /\ Then(H01LogTo(6), <<"reset-current">>) = H01LogTo(7)
<1>1. H01LogTo(1) = <<<<"mount">>>>
  <2>1. /\ H01LogTo(1) \in Seq({<<"mount">>}) /\ Len(H01LogTo(1)) = 1
        /\ H01LogTo(1)[1] = <<"mount">>
    BY DEF H01LogTo, H01Log
  <2> QED BY <2>1, OneEntry
<1>2. Then(H01LogTo(1), <<"edit-title", "CARD-01">>) = H01LogTo(2)
  BY DEF Then, H01LogTo, H01Log
<1>3. Then(H01LogTo(2), <<"rerender", "CARD-01">>) = H01LogTo(3)
  BY DEF Then, H01LogTo, H01Log
<1>4. Then(H01LogTo(3), <<"rerender", "CARD-02">>) = H01LogTo(4)
  BY DEF Then, H01LogTo, H01Log
<1>5. Then(H01LogTo(4), <<"edit-theme", "CARD-02">>) = H01LogTo(5)
  BY DEF Then, H01LogTo, H01Log
<1>6. Then(H01LogTo(5), <<"rerender", "CARD-01">>) = H01LogTo(6)
  BY DEF Then, H01LogTo, H01Log
<1>7. Then(H01LogTo(6), <<"reset-current">>) = H01LogTo(7)
  BY DEF Then, H01LogTo, H01Log
<1> QED BY <1>1, <1>2, <1>3, <1>4, <1>5, <1>6, <1>7

LEMMA H01CanonicalShows ==
  ASSUME NEW c \in {"preserving", "false_green"}, NEW st, Passes("H01", c, Canonical, 6, st)
  PROVE  H01Oracle([i \in 1 .. 7 |-> H01Observe(st[i])]) <=> c = "preserving"
<1> DEFINE fs == [i \in 1 .. 7 |-> H01Observe(st[i])]
<1> SUFFICES H01Oracle(fs) <=> c = "preserving"
  OBVIOUS
<1>1. /\ st[1] = H01Mount
      /\ st[2] = H01Step(c, st[1], <<"edit-title", "Lunar-map">>)
      /\ st[3] = H01Step(c, st[2], <<"rerender", Card01>>)
      /\ st[4] = H01Step(c, st[3], <<"rerender", Card02>>)
      /\ st[5] = H01Step(c, st[4], <<"edit-theme", "green">>)
      /\ st[6] = H01Step(c, st[5], <<"rerender", Card01>>)
      /\ st[7] = H01Step(c, st[6], <<"reset-current">>)
  BY DEF Passes, ScriptOf, CanonicalOf, MountOf, StepOf, H01Canonical
<1>2. st[1] = H01At(Card01, "Moon-map", "blue", H01LogTo(1))
  BY <1>1, H01Starts, H01Logged
<1>3. st[2] = H01At(Card01, "Lunar-map", "blue", H01LogTo(2))
  BY <1>1, <1>2, H01TitleEdited, H01Logged
<1>4. st[3] = H01At(Card01, "Lunar-map", "blue", H01LogTo(3))
  BY <1>1, <1>3, H01SameCard, H01Logged
<1>5. \A i \in 1 .. 7 : fs[i] = H01Observe(st[i])
  OBVIOUS
<1>6. Len(fs) = 7 /\ DOMAIN fs = 1 .. 7
  OBVIOUS
<1> HIDE DEF fs
<1>7. CASE c = "preserving"
  <2>1. st[4] = H01At(Card02, "Meteor-guide", "amber", H01LogTo(4))
    BY <1>1, <1>4, <1>7, H01Replaced, H01Logged
  <2>2. st[5] = H01At(Card02, "Meteor-guide", "green", H01LogTo(5))
    BY <1>1, <2>1, H01OtherThemeEdited, H01Logged
  <2>3. st[6] = H01At(Card01, "Moon-map", "blue", H01LogTo(6))
    BY <1>1, <1>7, <2>2, H01ReplacedAgain, H01Logged
  <2>4. st[7] = H01At(Card01, "Moon-map", "blue", H01LogTo(7))
    BY <1>1, <2>3, H01DraftsReset, H01Logged
  <2> DEFINE Right(i) == /\ <<fs[i].cardId, fs[i].title, fs[i].theme, fs[i].dirty>> = H01Expected[i]
                         /\ fs[i].log = SubSeq(H01Log, 1, i)
  <2>5. Right(1)
    <3>1. fs[1] = H01CleanSeen("CARD-01", "Moon-map", "blue", H01LogTo(1))
      BY <1>5, <1>2, H01Clean
    <3>2. H01Expected[1] = <<"CARD-01", "Moon-map", "blue", FALSE>>
      BY DEF H01Expected
    <3> QED BY <3>1, <3>2 DEF H01CleanSeen, H01DirtySeen, H01LogTo
  <2>6. Right(2)
    <3>1. fs[2] = H01DirtySeen("CARD-01", "Lunar-map", "blue", H01LogTo(2))
      BY <1>5, <1>3, H01Dirty
    <3>2. H01Expected[2] = <<"CARD-01", "Lunar-map", "blue", TRUE>>
      BY DEF H01Expected
    <3> QED BY <3>1, <3>2 DEF H01CleanSeen, H01DirtySeen, H01LogTo
  <2>7. Right(3)
    <3>1. fs[3] = H01DirtySeen("CARD-01", "Lunar-map", "blue", H01LogTo(3))
      BY <1>5, <1>4, H01Dirty
    <3>2. H01Expected[3] = <<"CARD-01", "Lunar-map", "blue", TRUE>>
      BY DEF H01Expected
    <3> QED BY <3>1, <3>2 DEF H01CleanSeen, H01DirtySeen, H01LogTo
  <2>8. Right(4)
    <3>1. fs[4] = H01CleanSeen("CARD-02", "Meteor-guide", "amber", H01LogTo(4))
      BY <1>5, <2>1, H01OtherClean
    <3>2. H01Expected[4] = <<"CARD-02", "Meteor-guide", "amber", FALSE>>
      BY DEF H01Expected
    <3> QED BY <3>1, <3>2 DEF H01CleanSeen, H01DirtySeen, H01LogTo
  <2>9. Right(5)
    <3>1. fs[5] = H01DirtySeen("CARD-02", "Meteor-guide", "green", H01LogTo(5))
      BY <1>5, <2>2, H01OtherDirty
    <3>2. H01Expected[5] = <<"CARD-02", "Meteor-guide", "green", TRUE>>
      BY DEF H01Expected
    <3> QED BY <3>1, <3>2 DEF H01CleanSeen, H01DirtySeen, H01LogTo
  <2>10. Right(6)
    <3>1. fs[6] = H01CleanSeen("CARD-01", "Moon-map", "blue", H01LogTo(6))
      BY <1>5, <2>3, H01Clean
    <3>2. H01Expected[6] = <<"CARD-01", "Moon-map", "blue", FALSE>>
      BY DEF H01Expected
    <3> QED BY <3>1, <3>2 DEF H01CleanSeen, H01DirtySeen, H01LogTo
  <2>11. Right(7)
    <3>1. fs[7] = H01CleanSeen("CARD-01", "Moon-map", "blue", H01LogTo(7))
      BY <1>5, <2>4, H01Clean
    <3>2. H01Expected[7] = <<"CARD-01", "Moon-map", "blue", FALSE>>
      BY DEF H01Expected
    <3> QED BY <3>1, <3>2 DEF H01CleanSeen, H01DirtySeen, H01LogTo
  <2> HIDE DEF Right
  <2>12. \A i \in 1 .. 7 : Right(i)
    BY <2>5, <2>6, <2>7, <2>8, <2>9, <2>10, <2>11
  <2>13. Len(H01Expected) = 7
    BY DEF H01Expected
  <2>14. H01Oracle(fs)
    BY <1>6, <2>12, <2>13 DEF H01Oracle, Right
  <2> QED BY <1>7, <2>14
<1>8. CASE c = "false_green"
  <2>1. st[4] = H01At(Card02, "Lunar-map", "blue", H01LogTo(4))
    BY <1>1, <1>4, <1>8, H01Carried, H01Logged
  <2>2. fs[4].title = "Lunar-map"
    BY <1>5, <2>1 DEF H01Observe, H01At
  <2>3. <<fs[4].cardId, fs[4].title, fs[4].theme, fs[4].dirty>> # H01Expected[4]
    BY <2>2 DEF H01Expected
  <2> QED BY <1>6, <1>8, <2>3 DEF H01Oracle
<1> QED BY <1>7, <1>8

LEMMA H01VisibleShows ==
  ASSUME NEW c, NEW k \in DOMAIN H01Visible, NEW st,
         Passes("H01", c, Assertion(k), Len(H01Visible[k]), st)
  PROVE  H01Holds(k, [i \in 1 .. Len(H01Visible[k]) + 1 |-> H01Observe(st[i])])
<1> DEFINE fs == [i \in 1 .. Len(H01Visible[k]) + 1 |-> H01Observe(st[i])]
<1> SUFFICES H01Holds(k, fs)
  OBVIOUS
<1>1. st[1] = H01At(Card01, "Moon-map", "blue", <<<<"mount">>>>)
  BY H01Starts DEF Passes, MountOf
<1>2. k \in 1 .. 5
  BY DEF H01Visible
<1>3. CASE k = 1
  <2>1. Last(fs) = H01Observe(st[1])
    BY <1>3 DEF H01Visible, Last
  <2> HIDE DEF fs
  <2>2. Last(fs) = H01CleanSeen("CARD-01", "Moon-map", "blue", <<<<"mount">>>>)
    BY <1>1, <2>1, H01Clean
  <2> QED BY <1>3, <2>2 DEF H01Holds, H01CleanSeen, H01DirtySeen
<1>4. CASE k = 2
  <2>1. st[2] = H01Step(c, st[1], <<"edit-title", "Lunar-map">>) /\ Last(fs) = H01Observe(st[2])
    BY <1>4 DEF Passes, ScriptOf, VisibleOf, StepOf, H01Visible, Assertion, Canonical, Last
  <2>2. \E l : st[2] = H01At(Card01, "Lunar-map", "blue", l)
    BY <1>1, <2>1, H01TitleEdited
  <2> HIDE DEF fs
  <2>3. \E l : Last(fs) = H01DirtySeen("CARD-01", "Lunar-map", "blue", l)
    BY <2>1, <2>2, H01Dirty
  <2> QED BY <1>4, <2>3 DEF H01Holds, H01CleanSeen, H01DirtySeen
<1>5. CASE k = 3
  <2>1. st[2] = H01Step(c, st[1], <<"edit-theme", "green">>) /\ Last(fs) = H01Observe(st[2])
    BY <1>5 DEF Passes, ScriptOf, VisibleOf, StepOf, H01Visible, Assertion, Canonical, Last
  <2>2. \E l : st[2] = H01At(Card01, "Moon-map", "green", l)
    BY <1>1, <2>1, H01ThemeEdited
  <2> HIDE DEF fs
  <2>3. \E l : Last(fs) = H01DirtySeen("CARD-01", "Moon-map", "green", l)
    BY <2>1, <2>2, H01Dirty
  <2> QED BY <1>5, <2>3 DEF H01Holds, H01CleanSeen, H01DirtySeen
<1>6. CASE k = 4
  <2>1. /\ st[2] = H01Step(c, st[1], <<"edit-title", "Lunar-map">>)
        /\ st[3] = H01Step(c, st[2], <<"rerender", Card01>>) /\ Last(fs) = H01Observe(st[3])
    BY <1>6 DEF Passes, ScriptOf, VisibleOf, StepOf, H01Visible, Assertion, Canonical, Last
  <2> DEFINE two == <<<<"mount">>, <<"edit-title", "CARD-01">>>>
             three == <<<<"mount">>, <<"edit-title", "CARD-01">>, <<"rerender", "CARD-01">>>>
  <2>2. Then(<<<<"mount">>>>, <<"edit-title", "CARD-01">>) = two
          /\ Then(two, <<"rerender", "CARD-01">>) = three
    BY TwoEntries, ThreeEntries, Zenon DEF Then
  <2> SUFFICES /\ Last(fs).title = "Lunar-map" /\ Last(fs).theme = "blue" /\ Last(fs).dirty = TRUE
               /\ Last(fs).log = three
    BY <1>6 DEF H01Holds
  <2> HIDE DEF fs, two, three
  <2>3. st[2] = H01At(Card01, "Lunar-map", "blue", two)
    BY <1>1, <2>1, <2>2, H01TitleEdited
  <2>4. st[3] = H01At(Card01, "Lunar-map", "blue", three)
    BY <2>1, <2>2, <2>3, H01SameCard
  <2>5. Last(fs) = H01DirtySeen("CARD-01", "Lunar-map", "blue", three)
    BY <2>1, <2>4, H01Dirty
  <2> QED BY <2>5 DEF H01CleanSeen, H01DirtySeen
<1>7. CASE k = 5
  <2>1. /\ st[2] = H01Step(c, st[1], <<"edit-title", "Lunar-map">>)
        /\ st[3] = H01Step(c, st[2], <<"reset-current">>) /\ Last(fs) = H01Observe(st[3])
    BY <1>7 DEF Passes, ScriptOf, VisibleOf, StepOf, H01Visible, Assertion, Canonical, Last
  <2>2. PICK l : st[2] = H01At(Card01, "Lunar-map", "blue", l)
    BY <1>1, <2>1, H01TitleEdited
  <2>3. \E g : st[3] = H01At(Card01, "Moon-map", "blue", g)
    BY <2>1, <2>2, H01DraftsReset
  <2>4. ~assertCardProps(CardBlank)
    BY DEF assertCardProps, CardBlank, CardProps
  <2> HIDE DEF fs
  <2>5. \E g : Last(fs) = H01CleanSeen("CARD-01", "Moon-map", "blue", g)
    BY <2>1, <2>3, H01Clean
  <2> QED BY <1>7, <2>4, <2>5 DEF H01Holds, H01CleanSeen, H01DirtySeen
<1> QED BY <1>2, <1>3, <1>4, <1>5, <1>6, <1>7

-----------------------------------------------------------------------------
(* What the scripts of BG-H02 show. *)

H02At(guide, status, content, epoch, requests, log) ==
  [guide |-> guide, status |-> status, content |-> content, epoch |-> epoch,
   requests |-> requests, log |-> log]

\* A request that is pending, and the requests after the completion of the i-th.
H02Open(guide, epoch) == [guide |-> guide, epoch |-> epoch, pending |-> TRUE]
H02Asked == [guide : {"moon", "meteor", "comet"}, epoch : Nat, pending : BOOLEAN]
H02Closed(q, i) == [q EXCEPT ![i].pending = FALSE]
H02Asks(q, guide, epoch) == Append(q, H02Open(guide, epoch))
H02Waits(q, i, guide, epoch) == i \in DOMAIN q /\ q[i] = H02Open(guide, epoch)
H02Made(q) == Len(q)
NoRequests == <<>>

LEMMA H02Starts == H02Mount = H02At(NoGuide, "idle", NoGuide, 0, NoRequests, <<<<"mount">>>>)
BY DEF H02Mount, H02At, NoRequests

LEMMA H02Opened ==
  \A q, g, e :
    q \in Seq(H02Asked) /\ g \in {"moon", "meteor", "comet"} /\ e \in Nat =>
      /\ H02Asks(q, g, e) \in Seq(H02Asked) /\ Len(H02Asks(q, g, e)) = Len(q) + 1
      /\ \A i \in 1 .. Len(q) : H02Asks(q, g, e)[i] = q[i]
<1> TAKE q, g, e
<1> HAVE q \in Seq(H02Asked) /\ g \in {"moon", "meteor", "comet"} /\ e \in Nat
<1> DEFINE r == H02Open(g, e)
<1>1. r \in H02Asked
  BY DEF H02Asked, H02Open
<1> SUFFICES /\ Append(q, r) \in Seq(H02Asked) /\ Len(Append(q, r)) = Len(q) + 1
             /\ \A i \in 1 .. Len(q) : Append(q, r)[i] = q[i]
  BY DEF H02Asks
<1> HIDE DEF r
<1> QED BY <1>1

LEMMA H02Closing ==
  \A q, i :
    q \in Seq(H02Asked) /\ i \in 1 .. Len(q) =>
      /\ H02Closed(q, i) \in Seq(H02Asked) /\ Len(H02Closed(q, i)) = Len(q)
      /\ \A j \in 1 .. Len(q) : j # i => H02Closed(q, i)[j] = q[j]
<1> TAKE q, i
<1> HAVE q \in Seq(H02Asked) /\ i \in 1 .. Len(q)
<1> DEFINE r == [q[i] EXCEPT !.pending = FALSE]
<1>1. H02Closed(q, i) = [q EXCEPT ![i] = r]
  BY DEF H02Closed
<1>2. r \in H02Asked
  <2>1. q[i] \in H02Asked
    OBVIOUS
  <2> QED BY <2>1 DEF H02Asked
<1> HIDE DEF r
<1> QED BY <1>1, <1>2

\* The queue as the steps below see it: its length and the requests that wait in it.
H02Queue(q, n) == q \in Seq(H02Asked) /\ Len(q) = n

LEMMA H02Enqueued ==
  \A q, g, e : \A n \in Nat :
    H02Queue(q, n) /\ g \in {"moon", "meteor", "comet"} /\ e \in Nat =>
      H02Queue(H02Asks(q, g, e), n + 1) /\ H02Waits(H02Asks(q, g, e), n + 1, g, e)
<1> TAKE q, g, e
<1> TAKE n \in Nat
<1> HAVE H02Queue(q, n) /\ g \in {"moon", "meteor", "comet"} /\ e \in Nat
<1> DEFINE r == H02Asks(q, g, e)
<1>1. q \in Seq(H02Asked) /\ Len(q) = n
  BY DEF H02Queue
<1>2. r \in Seq(H02Asked) /\ Len(r) = Len(q) + 1
  BY <1>1, H02Opened
<1>3. r[Len(q) + 1] = H02Open(g, e)
  <2> DEFINE o == H02Open(g, e)
  <2>1. o \in H02Asked
    BY DEF H02Asked, H02Open
  <2> SUFFICES Append(q, o)[Len(q) + 1] = o
    BY DEF H02Asks
  <2> HIDE DEF o
  <2> QED BY <1>1, <2>1
<1> SUFFICES H02Queue(r, n + 1) /\ H02Waits(r, n + 1, g, e)
  OBVIOUS
<1> HIDE DEF r
<1>4. r[n + 1] = H02Open(g, e)
  BY <1>1, <1>3, Zenon
<1>5. n + 1 \in DOMAIN r
  BY <1>1, <1>2
<1> QED BY <1>1, <1>2, <1>4, <1>5 DEF H02Queue, H02Waits

LEMMA H02StillWaits ==
  \A q, g, e, i, h, f : \A n \in Nat :
    H02Queue(q, n) /\ g \in {"moon", "meteor", "comet"} /\ e \in Nat /\ H02Waits(q, i, h, f) =>
      H02Waits(H02Asks(q, g, e), i, h, f)
<1> TAKE q, g, e, i, h, f
<1> TAKE n \in Nat
<1> HAVE H02Queue(q, n) /\ g \in {"moon", "meteor", "comet"} /\ e \in Nat /\ H02Waits(q, i, h, f)
<1> DEFINE r == H02Asks(q, g, e)
<1>1. q \in Seq(H02Asked) /\ i \in 1 .. Len(q) /\ q[i] = H02Open(h, f)
  BY DEF H02Queue, H02Waits
<1>2. r \in Seq(H02Asked) /\ Len(r) = Len(q) + 1
  BY <1>1, H02Opened
<1>3. \A j \in 1 .. Len(q) : r[j] = q[j]
  BY <1>1, H02Opened
<1> SUFFICES H02Waits(r, i, h, f)
  OBVIOUS
<1> HIDE DEF r
<1>4. r[i] = H02Open(h, f)
  BY <1>1, <1>3
<1>5. i \in DOMAIN r
  BY <1>1, <1>2
<1> QED BY <1>4, <1>5 DEF H02Waits

LEMMA H02ClosedQueue ==
  \A q, i : \A n \in Nat :
    H02Queue(q, n) /\ i \in 1 .. n =>
      /\ H02Queue(H02Closed(q, i), n)
      /\ \A j, h, f : j # i /\ H02Waits(q, j, h, f) => H02Waits(H02Closed(q, i), j, h, f)
<1> TAKE q, i
<1> TAKE n \in Nat
<1> HAVE H02Queue(q, n) /\ i \in 1 .. n
<1> DEFINE r == H02Closed(q, i)
<1>1. q \in Seq(H02Asked) /\ Len(q) = n /\ i \in 1 .. Len(q)
  BY DEF H02Queue
<1>2. r \in Seq(H02Asked) /\ Len(r) = Len(q)
  BY <1>1, H02Closing
<1>3. \A j \in 1 .. Len(q) : j # i => r[j] = q[j]
  BY <1>1, H02Closing
<1> SUFFICES H02Queue(r, n) /\ \A j, h, f : j # i /\ H02Waits(q, j, h, f) => H02Waits(r, j, h, f)
  OBVIOUS
<1> HIDE DEF r
<1>4. ASSUME NEW j, NEW h, NEW f, j # i, H02Waits(q, j, h, f)
      PROVE  H02Waits(r, j, h, f)
  <2>1. j \in 1 .. Len(q) /\ q[j] = H02Open(h, f)
    BY <1>1, <1>4 DEF H02Waits
  <2>2. r[j] = H02Open(h, f)
    BY <1>3, <1>4, <2>1
  <2>3. j \in DOMAIN r
    BY <1>2, <2>1
  <2> QED BY <2>2, <2>3 DEF H02Waits
<1> QED BY <1>1, <1>2, <1>4 DEF H02Queue

LEMMA H02Chosen ==
  \A c, h, w, x, e, q, l, g :
    H02Step(c, H02At(h, w, x, e, q, l), <<"select", g>>)
      = H02At(g, "loading", NoGuide, e + 1, H02Asks(q, g, e + 1), Then(l, <<"select", g>>))
<1> TAKE c, h, w, x, e, q, l, g
<1> DEFINE s == H02At(h, w, x, e, q, l)
           t == [s EXCEPT !.epoch = s.epoch + 1, !.guide = g, !.status = "loading", !.content = NoGuide,
                          !.log = Append(s.log, <<"select", g>>)]
           u == [t EXCEPT !.requests = Append(t.requests,
             [guide |-> g, epoch |-> t.epoch, pending |-> TRUE])]
<1> SUFFICES H02Step(c, s, <<"select", g>>)
               = H02At(g, "loading", NoGuide, e + 1, H02Asks(q, g, e + 1), Then(l, <<"select", g>>))
  OBVIOUS
<1>1. s = H02At(h, w, x, e, q, l)
  OBVIOUS
<1>2. t = [s EXCEPT !.epoch = s.epoch + 1, !.guide = g, !.status = "loading", !.content = NoGuide,
                    !.log = Append(s.log, <<"select", g>>)]
  OBVIOUS
<1>3. u = [t EXCEPT !.requests = Append(t.requests, [guide |-> g, epoch |-> t.epoch, pending |-> TRUE])]
  OBVIOUS
<1>4. H02Step(c, s, <<"select", g>>) = u
  <2> HIDE DEF s
  <2> QED BY DEF H02Step, H02Select, H02Request
<1> HIDE DEF s, t, u
<1>5. s.epoch = e /\ s.log = l
  BY <1>1 DEF H02At
<1>6. t = H02At(g, "loading", NoGuide, e + 1, q, Then(l, <<"select", g>>))
  BY <1>1, <1>2, <1>5 DEF H02At, Then
<1>7. t.requests = q /\ t.epoch = e + 1
  BY <1>6 DEF H02At
<1>8. u = [t EXCEPT !.requests = H02Asks(q, g, e + 1)]
  BY <1>3, <1>7 DEF H02Open, H02Asks
<1>9. u = H02At(g, "loading", NoGuide, e + 1, H02Asks(q, g, e + 1), Then(l, <<"select", g>>))
  BY <1>6, <1>8 DEF H02At
<1> QED BY <1>4, <1>9

LEMMA H02Cleared ==
  \A c, h, w, x, e, q, l :
    H02Step(c, H02At(h, w, x, e, q, l), <<"reset">>)
      = H02At(NoGuide, "idle", NoGuide, e + 1, q, Then(l, <<"reset">>))
<1> TAKE c, h, w, x, e, q, l
<1> DEFINE s == H02At(h, w, x, e, q, l)
           t == [s EXCEPT !.epoch = s.epoch + 1, !.guide = NoGuide, !.status = "idle",
                          !.content = NoGuide, !.log = Append(s.log, <<"reset">>)]
<1> SUFFICES H02Step(c, s, <<"reset">>)
               = H02At(NoGuide, "idle", NoGuide, e + 1, q, Then(l, <<"reset">>))
  OBVIOUS
<1>1. s = H02At(h, w, x, e, q, l)
  OBVIOUS
<1>2. t = [s EXCEPT !.epoch = s.epoch + 1, !.guide = NoGuide, !.status = "idle",
                    !.content = NoGuide, !.log = Append(s.log, <<"reset">>)]
  OBVIOUS
<1>3. H02Step(c, s, <<"reset">>) = t
  <2> HIDE DEF s
  <2> QED BY DEF H02Step, H02Reset
<1> HIDE DEF s, t
<1>4. s.epoch = e /\ s.log = l
  BY <1>1 DEF H02At
<1>5. t = H02At(NoGuide, "idle", NoGuide, e + 1, q, Then(l, <<"reset">>))
  BY <1>1, <1>2, <1>4 DEF H02At, Then
<1> QED BY <1>3, <1>5

\* A completion of a pending request closes it.
LEMMA H02Completed ==
  \A c, h, w, x, e, q, l, i, g, f :
    H02Waits(q, i, g, f) =>
      H02Step(c, H02At(h, w, x, e, q, l), <<"complete", i>>)
        = H02Callback(c, H02At(h, w, x, e, H02Closed(q, i), l), i)
<1> TAKE c, h, w, x, e, q, l, i, g, f
<1> HAVE H02Waits(q, i, g, f)
<1> DEFINE s == H02At(h, w, x, e, q, l)
           t == [s EXCEPT !.requests = H02Closed(s.requests, i)]
<1> SUFFICES H02Step(c, s, <<"complete", i>>)
               = H02Callback(c, H02At(h, w, x, e, H02Closed(q, i), l), i)
  OBVIOUS
<1>1. s = H02At(h, w, x, e, q, l)
  OBVIOUS
<1>2. t = [s EXCEPT !.requests = H02Closed(s.requests, i)]
  OBVIOUS
<1>3. s.requests = q
  BY DEF H02At
<1>4. i \in DOMAIN s.requests /\ s.requests[i].pending
  <2> HIDE DEF s
  <2> QED BY <1>3 DEF H02Waits, H02Open
<1>5. H02Step(c, s, <<"complete", i>>) = H02Callback(c, t, i)
  <2> HIDE DEF s
  <2>1. H02Step(c, s, <<"complete", i>>) = H02Complete(c, s, i)
    BY DEF H02Step
  <2>2. H02Complete(c, s, i) = H02Callback(c, [s EXCEPT !.requests[i].pending = FALSE], i)
    BY <1>4 DEF H02Complete
  <2>3. [s EXCEPT !.requests[i].pending = FALSE] = t
    BY DEF H02Closed
  <2> QED BY <2>1, <2>2, <2>3
<1> HIDE DEF s, t
<1>6. t = H02At(h, w, x, e, H02Closed(q, i), l)
  BY <1>1, <1>2, <1>3 DEF H02At
<1> QED BY <1>5, <1>6

LEMMA H02ClosedEntry ==
  \A q, i, g, f :
    H02Waits(q, i, g, f) => H02Closed(q, i)[i].guide = g /\ H02Closed(q, i)[i].epoch = f
<1> TAKE q, i, g, f
<1> HAVE H02Waits(q, i, g, f)
<1>1. H02Closed(q, i)[i] = [q[i] EXCEPT !.pending = FALSE]
  BY DEF H02Waits, H02Closed
<1> QED BY <1>1 DEF H02Waits, H02Open

LEMMA H02Publishes ==
  \A c, h, w, x, e, q, l, i, g, f :
    H02Waits(q, i, g, f) /\ (c # "preserving" \/ f = e) =>
      H02Step(c, H02At(h, w, x, e, q, l), <<"complete", i>>)
        = H02At(h, "ready", g, e, H02Closed(q, i), l)
<1> TAKE c, h, w, x, e, q, l, i, g, f
<1> HAVE H02Waits(q, i, g, f) /\ (c # "preserving" \/ f = e)
<1> DEFINE s == H02At(h, w, x, e, H02Closed(q, i), l)
           t == [s EXCEPT !.content = g, !.status = "ready"]
<1>0. s = H02At(h, w, x, e, H02Closed(q, i), l)
  OBVIOUS
<1>1. H02Step(c, H02At(h, w, x, e, q, l), <<"complete", i>>) = H02Callback(c, s, i)
  <2>1. H02Waits(q, i, g, f)
    OBVIOUS
  <2> HIDE DEF s
  <2>2. \A c0, h0, w0, x0, e0, q0, l0, i0, g0, f0 :
          H02Waits(q0, i0, g0, f0) =>
            H02Step(c0, H02At(h0, w0, x0, e0, q0, l0), <<"complete", i0>>)
              = H02Callback(c0, H02At(h0, w0, x0, e0, H02Closed(q0, i0), l0), i0)
    BY H02Completed
  <2>3. H02Step(c, H02At(h, w, x, e, q, l), <<"complete", i>>)
          = H02Callback(c, H02At(h, w, x, e, H02Closed(q, i), l), i)
    BY <2>1, <2>2
  <2> QED BY <1>0, <2>3, Zenon
<1>2. s = H02At(h, w, x, e, H02Closed(q, i), l)
  OBVIOUS
<1>3. t = [s EXCEPT !.content = g, !.status = "ready"]
  OBVIOUS
<1>4. s.requests[i].guide = g /\ s.requests[i].epoch = f /\ s.epoch = e
  BY H02ClosedEntry DEF H02At
<1>5. H02Callback(c, s, i) = t
  <2> HIDE DEF s
  <2> QED BY <1>4 DEF H02Callback, H02Publish
<1> HIDE DEF s, t
<1>6. t = H02At(h, "ready", g, e, H02Closed(q, i), l)
  BY <1>2, <1>3 DEF H02At
<1> QED BY <1>1, <1>5, <1>6

LEMMA H02Drops ==
  \A h, w, x, e, q, l, i, g, f :
    H02Waits(q, i, g, f) /\ f # e =>
      H02Step("preserving", H02At(h, w, x, e, q, l), <<"complete", i>>)
        = H02At(h, w, x, e, H02Closed(q, i), l)
<1> TAKE h, w, x, e, q, l, i, g, f
<1> HAVE H02Waits(q, i, g, f) /\ f # e
<1> DEFINE s == H02At(h, w, x, e, H02Closed(q, i), l)
<1>0. s = H02At(h, w, x, e, H02Closed(q, i), l)
  OBVIOUS
<1>1. H02Step("preserving", H02At(h, w, x, e, q, l), <<"complete", i>>) = H02Callback("preserving", s, i)
  <2>1. H02Waits(q, i, g, f)
    OBVIOUS
  <2> HIDE DEF s
  <2>2. \A c0, h0, w0, x0, e0, q0, l0, i0, g0, f0 :
          H02Waits(q0, i0, g0, f0) =>
            H02Step(c0, H02At(h0, w0, x0, e0, q0, l0), <<"complete", i0>>)
              = H02Callback(c0, H02At(h0, w0, x0, e0, H02Closed(q0, i0), l0), i0)
    BY H02Completed
  <2>3. H02Step("preserving", H02At(h, w, x, e, q, l), <<"complete", i>>)
          = H02Callback("preserving", H02At(h, w, x, e, H02Closed(q, i), l), i)
    BY <2>1, <2>2
  <2> QED BY <1>0, <2>3, Zenon
<1>2. s.requests[i].epoch = f /\ s.epoch = e
  BY H02ClosedEntry DEF H02At
<1>3. H02Callback("preserving", s, i) = s
  <2> HIDE DEF s
  <2> QED BY <1>2 DEF H02Callback
<1> QED BY <1>1, <1>3

\* A frame.
H02Seen(guide, status, content, requests, log) ==
  [guide |-> guide, status |-> status, content |-> content, log |-> log, requests |-> requests]

LEMMA H02Observed ==
  \A h, w, x, e, q, l : H02Observe(H02At(h, w, x, e, q, l)) = H02Seen(h, w, x, H02Made(q), l)
<1> TAKE h, w, x, e, q, l
<1> QED BY DEF H02Observe, H02At, H02Seen, H02Made

H02LogTo(i) == SubSeq(H02Log, 1, i)

LEMMA H02Logged ==
  /\ H02LogTo(1) = <<<<"mount">>>>
  /\ Then(H02LogTo(1), <<"select", "moon">>) = H02LogTo(2)
  /\ Then(H02LogTo(2), <<"select", "meteor">>) = H02LogTo(3)
  /\ Then(H02LogTo(3), <<"select", "comet">>) = H02LogTo(4)
  /\ Then(H02LogTo(4), <<"reset">>) = H02LogTo(5)
<1>1. H02LogTo(1) = <<<<"mount">>>>
  <2>1. /\ H02LogTo(1) \in Seq({<<"mount">>}) /\ Len(H02LogTo(1)) = 1
        /\ H02LogTo(1)[1] = <<"mount">>
    BY DEF H02LogTo, H02Log
  <2> QED BY <2>1, OneEntry
<1>2. Then(H02LogTo(1), <<"select", "moon">>) = H02LogTo(2)
  BY DEF Then, H02LogTo, H02Log
<1>3. Then(H02LogTo(2), <<"select", "meteor">>) = H02LogTo(3)
  BY DEF Then, H02LogTo, H02Log
<1>4. Then(H02LogTo(3), <<"select", "comet">>) = H02LogTo(4)
  BY DEF Then, H02LogTo, H02Log
<1>5. Then(H02LogTo(4), <<"reset">>) = H02LogTo(5)
  BY DEF Then, H02LogTo, H02Log
<1> QED BY <1>1, <1>2, <1>3, <1>4, <1>5

LEMMA H02LogLengths == \A i \in 1 .. 5 : Len(H02LogTo(i)) = i
BY DEF H02LogTo, H02Log

\* The requests made by the scripts.
H02Moon == H02Asks(NoRequests, "moon", 1)
H02Meteor == H02Asks(H02Moon, "meteor", 2)
H02Ready == H02Closed(H02Meteor, 2)
H02Late == H02Closed(H02Ready, 1)
H02Comet == H02Asks(H02Late, "comet", 3)
H02Over == H02Closed(H02Comet, 3)
H02MoonReady == H02Closed(H02Moon, 1)
H02MeteorNext == H02Asks(H02MoonReady, "meteor", 2)
H02MeteorReady == H02Closed(H02MeteorNext, 2)
H02CometFirst == H02Asks(NoRequests, "comet", 1)

LEMMA H02Queues ==
  /\ H02Queue(NoRequests, 0) /\ H02Queue(H02Moon, 1) /\ H02Queue(H02Meteor, 2) /\ H02Queue(H02Ready, 2)
  /\ H02Queue(H02Late, 2) /\ H02Queue(H02Comet, 3) /\ H02Queue(H02Over, 3) /\ H02Queue(H02MeteorReady, 2)
  /\ H02Waits(H02Meteor, 2, "meteor", 2) /\ H02Waits(H02Ready, 1, "moon", 1)
  /\ H02Waits(H02Comet, 3, "comet", 3) /\ H02Waits(H02Moon, 1, "moon", 1)
  /\ H02Waits(H02MeteorNext, 2, "meteor", 2) /\ H02Waits(H02CometFirst, 1, "comet", 1)
<1>1. H02Queue(NoRequests, 0)
  BY DEF H02Queue, NoRequests
<1>2. /\ 0 \in Nat /\ 1 \in Nat /\ 2 \in Nat /\ 3 \in Nat /\ 0 + 1 = 1 /\ 1 + 1 = 2 /\ 2 + 1 = 3
      /\ 1 \in 1 .. 1 /\ 1 \in 1 .. 2 /\ 2 \in 1 .. 2 /\ 3 \in 1 .. 3 /\ 1 # 2
  OBVIOUS
<1>3. H02Queue(H02Moon, 1) /\ H02Waits(H02Moon, 1, "moon", 1)
  <2>1. H02Queue(H02Moon, 0 + 1) /\ H02Waits(H02Moon, 0 + 1, "moon", 1)
    BY <1>1, <1>2, H02Enqueued DEF H02Moon
  <2> QED BY <2>1
<1>4. H02Queue(H02CometFirst, 1) /\ H02Waits(H02CometFirst, 1, "comet", 1)
  <2>1. H02Queue(H02CometFirst, 0 + 1) /\ H02Waits(H02CometFirst, 0 + 1, "comet", 1)
    BY <1>1, <1>2, H02Enqueued DEF H02CometFirst
  <2> QED BY <2>1
<1>5. H02Queue(H02Meteor, 2) /\ H02Waits(H02Meteor, 2, "meteor", 2)
  <2>1. H02Queue(H02Meteor, 1 + 1) /\ H02Waits(H02Meteor, 1 + 1, "meteor", 2)
    BY <1>2, <1>3, H02Enqueued DEF H02Meteor
  <2> QED BY <2>1
<1>6. H02Waits(H02Meteor, 1, "moon", 1)
  BY <1>2, <1>3, H02StillWaits DEF H02Meteor
<1>7. H02Queue(H02Ready, 2) /\ H02Waits(H02Ready, 1, "moon", 1)
  BY <1>2, <1>5, <1>6, H02ClosedQueue DEF H02Ready
<1>8. H02Queue(H02Late, 2)
  BY <1>2, <1>7, H02ClosedQueue DEF H02Late
<1>9. H02Queue(H02Comet, 3) /\ H02Waits(H02Comet, 3, "comet", 3)
  <2>1. H02Queue(H02Comet, 2 + 1) /\ H02Waits(H02Comet, 2 + 1, "comet", 3)
    BY <1>2, <1>8, H02Enqueued DEF H02Comet
  <2> QED BY <2>1
<1>10. H02Queue(H02Over, 3)
  BY <1>2, <1>9, H02ClosedQueue DEF H02Over
<1>11. H02Queue(H02MoonReady, 1)
  BY <1>2, <1>3, H02ClosedQueue DEF H02MoonReady
<1>12. H02Queue(H02MeteorNext, 2) /\ H02Waits(H02MeteorNext, 2, "meteor", 2)
  <2>1. H02Queue(H02MeteorNext, 1 + 1) /\ H02Waits(H02MeteorNext, 1 + 1, "meteor", 2)
    BY <1>2, <1>11, H02Enqueued DEF H02MeteorNext
  <2> QED BY <2>1
<1>13. H02Queue(H02MeteorReady, 2)
  BY <1>2, <1>12, H02ClosedQueue DEF H02MeteorReady
<1> QED BY <1>1, <1>3, <1>4, <1>5, <1>7, <1>8, <1>9, <1>10, <1>12, <1>13

LEMMA H02Counts ==
  /\ H02Made(NoRequests) = 0 /\ H02Made(H02Moon) = 1 /\ H02Made(H02Meteor) = 2 /\ H02Made(H02Ready) = 2
  /\ H02Made(H02Late) = 2 /\ H02Made(H02Comet) = 3 /\ H02Made(H02Over) = 3 /\ H02Made(H02MeteorReady) = 2
BY H02Queues DEF H02Queue, H02Made

LEMMA H02CanonicalShows ==
  ASSUME NEW c \in {"preserving", "false_green"}, NEW st, Passes("H02", c, Canonical, 7, st)
  PROVE  H02Oracle([i \in 1 .. 8 |-> H02Observe(st[i])]) <=> c = "preserving"
<1> DEFINE fs == [i \in 1 .. 8 |-> H02Observe(st[i])]
<1> SUFFICES H02Oracle(fs) <=> c = "preserving"
  OBVIOUS
<1>1. /\ st[1] = H02Mount
      /\ st[2] = H02Step(c, st[1], <<"select", "moon">>)
      /\ st[3] = H02Step(c, st[2], <<"select", "meteor">>)
      /\ st[4] = H02Step(c, st[3], <<"complete", 2>>)
      /\ st[5] = H02Step(c, st[4], <<"complete", 1>>)
      /\ st[6] = H02Step(c, st[5], <<"select", "comet">>)
      /\ st[7] = H02Step(c, st[6], <<"reset">>)
      /\ st[8] = H02Step(c, st[7], <<"complete", 3>>)
  BY DEF Passes, ScriptOf, CanonicalOf, MountOf, StepOf, H02Canonical
<1>2. \A i \in 1 .. 8 : fs[i] = H02Observe(st[i])
  OBVIOUS
<1>3. Len(fs) = 8 /\ DOMAIN fs = 1 .. 8
  OBVIOUS
<1> HIDE DEF fs
<1>6. st[1] = H02At(NoGuide, "idle", NoGuide, 0, NoRequests, H02LogTo(1))
  BY <1>1, H02Starts, H02Logged
<1>7. st[2] = H02At("moon", "loading", NoGuide, 1, H02Moon, H02LogTo(2))
  <2>1. st[2] = H02At("moon", "loading", NoGuide, 0 + 1, H02Asks(NoRequests, "moon", 0 + 1), H02LogTo(2))
    BY <1>1, <1>6, H02Chosen, H02Logged
  <2> QED BY <2>1 DEF H02Moon
<1>8. st[3] = H02At("meteor", "loading", NoGuide, 2, H02Meteor, H02LogTo(3))
  <2>1. st[3] = H02At("meteor", "loading", NoGuide, 1 + 1, H02Asks(H02Moon, "meteor", 1 + 1), H02LogTo(3))
    BY <1>1, <1>7, H02Chosen, H02Logged
  <2> QED BY <2>1 DEF H02Meteor
<1>9. st[4] = H02At("meteor", "ready", "meteor", 2, H02Ready, H02LogTo(3))
  BY <1>1, <1>8, H02Queues, H02Publishes DEF H02Ready
<1>10. CASE c = "preserving"
  <2>1. st[5] = H02At("meteor", "ready", "meteor", 2, H02Late, H02LogTo(3))
    <3>1. 1 # 2
      OBVIOUS
    <3> QED BY <1>1, <1>9, <1>10, <3>1, H02Queues, H02Drops DEF H02Late
  <2>2. st[6] = H02At("comet", "loading", NoGuide, 3, H02Comet, H02LogTo(4))
    <3>1. st[6] = H02At("comet", "loading", NoGuide, 2 + 1, H02Asks(H02Late, "comet", 2 + 1), H02LogTo(4))
      BY <1>1, <2>1, H02Chosen, H02Logged
    <3> QED BY <3>1 DEF H02Comet
  <2>3. st[7] = H02At(NoGuide, "idle", NoGuide, 4, H02Comet, H02LogTo(5))
    <3>1. st[7] = H02At(NoGuide, "idle", NoGuide, 3 + 1, H02Comet, H02LogTo(5))
      BY <1>1, <2>2, H02Cleared, H02Logged
    <3> QED BY <3>1
  <2>4. st[8] = H02At(NoGuide, "idle", NoGuide, 4, H02Over, H02LogTo(5))
    <3>1. 3 # 4
      OBVIOUS
    <3> QED BY <1>1, <1>10, <2>3, <3>1, H02Queues, H02Drops DEF H02Over
  <2> DEFINE Right(i) ==
               /\ <<fs[i].guide, fs[i].status, fs[i].content, Len(fs[i].log), fs[i].requests>>
                    = H02Expected[i]
               /\ fs[i].log = SubSeq(H02Log, 1, H02Expected[i][4])
  <2>5. Right(1)
    <3>1. fs[1] = H02Seen(NoGuide, "idle", NoGuide, 0, H02LogTo(1))
      BY <1>2, <1>6, H02Observed, H02Counts
    <3>2. H02Expected[1] = <<NoGuide, "idle", NoGuide, 1, 0>>
      BY DEF H02Expected
    <3>3. fs[1].guide = NoGuide /\ fs[1].status = "idle" /\ fs[1].content = NoGuide /\ fs[1].requests = 0
      BY <3>1 DEF H02Seen
    <3>4. fs[1].log = H02LogTo(1)
      BY <3>1 DEF H02Seen
    <3>5. Len(fs[1].log) = 1
      BY <3>4, H02LogLengths
    <3>6. <<fs[1].guide, fs[1].status, fs[1].content, Len(fs[1].log), fs[1].requests>>
            = H02Expected[1]
      BY <3>2, <3>3, <3>5, Zenon
    <3>7. H02Expected[1][4] = 1
      BY <3>2
    <3> QED BY <3>4, <3>6, <3>7, Zenon DEF H02LogTo
  <2>6. Right(2)
    <3>1. fs[2] = H02Seen("moon", "loading", NoGuide, 1, H02LogTo(2))
      BY <1>2, <1>7, H02Observed, H02Counts
    <3>2. H02Expected[2] = <<"moon", "loading", NoGuide, 2, 1>>
      BY DEF H02Expected
    <3>3. fs[2].guide = "moon" /\ fs[2].status = "loading" /\ fs[2].content = NoGuide /\ fs[2].requests = 1
      BY <3>1 DEF H02Seen
    <3>4. fs[2].log = H02LogTo(2)
      BY <3>1 DEF H02Seen
    <3>5. Len(fs[2].log) = 2
      BY <3>4, H02LogLengths
    <3>6. <<fs[2].guide, fs[2].status, fs[2].content, Len(fs[2].log), fs[2].requests>>
            = H02Expected[2]
      BY <3>2, <3>3, <3>5, Zenon
    <3>7. H02Expected[2][4] = 2
      BY <3>2
    <3> QED BY <3>4, <3>6, <3>7, Zenon DEF H02LogTo
  <2>7. Right(3)
    <3>1. fs[3] = H02Seen("meteor", "loading", NoGuide, 2, H02LogTo(3))
      BY <1>2, <1>8, H02Observed, H02Counts
    <3>2. H02Expected[3] = <<"meteor", "loading", NoGuide, 3, 2>>
      BY DEF H02Expected
    <3>3. fs[3].guide = "meteor" /\ fs[3].status = "loading" /\ fs[3].content = NoGuide
            /\ fs[3].requests = 2
      BY <3>1 DEF H02Seen
    <3>4. fs[3].log = H02LogTo(3)
      BY <3>1 DEF H02Seen
    <3>5. Len(fs[3].log) = 3
      BY <3>4, H02LogLengths
    <3>6. <<fs[3].guide, fs[3].status, fs[3].content, Len(fs[3].log), fs[3].requests>>
            = H02Expected[3]
      BY <3>2, <3>3, <3>5, Zenon
    <3>7. H02Expected[3][4] = 3
      BY <3>2
    <3> QED BY <3>4, <3>6, <3>7, Zenon DEF H02LogTo
  <2>8. Right(4)
    <3>1. fs[4] = H02Seen("meteor", "ready", "meteor", 2, H02LogTo(3))
      BY <1>2, <1>9, H02Observed, H02Counts
    <3>2. H02Expected[4] = <<"meteor", "ready", "meteor", 3, 2>>
      BY DEF H02Expected
    <3>3. fs[4].guide = "meteor" /\ fs[4].status = "ready" /\ fs[4].content = "meteor" /\ fs[4].requests = 2
      BY <3>1 DEF H02Seen
    <3>4. fs[4].log = H02LogTo(3)
      BY <3>1 DEF H02Seen
    <3>5. Len(fs[4].log) = 3
      BY <3>4, H02LogLengths
    <3>6. <<fs[4].guide, fs[4].status, fs[4].content, Len(fs[4].log), fs[4].requests>>
            = H02Expected[4]
      BY <3>2, <3>3, <3>5, Zenon
    <3>7. H02Expected[4][4] = 3
      BY <3>2
    <3> QED BY <3>4, <3>6, <3>7, Zenon DEF H02LogTo
  <2>9. Right(5)
    <3>1. fs[5] = H02Seen("meteor", "ready", "meteor", 2, H02LogTo(3))
      BY <1>2, <2>1, H02Observed, H02Counts
    <3>2. H02Expected[5] = <<"meteor", "ready", "meteor", 3, 2>>
      BY DEF H02Expected
    <3>3. fs[5].guide = "meteor" /\ fs[5].status = "ready" /\ fs[5].content = "meteor" /\ fs[5].requests = 2
      BY <3>1 DEF H02Seen
    <3>4. fs[5].log = H02LogTo(3)
      BY <3>1 DEF H02Seen
    <3>5. Len(fs[5].log) = 3
      BY <3>4, H02LogLengths
    <3>6. <<fs[5].guide, fs[5].status, fs[5].content, Len(fs[5].log), fs[5].requests>>
            = H02Expected[5]
      BY <3>2, <3>3, <3>5, Zenon
    <3>7. H02Expected[5][4] = 3
      BY <3>2
    <3> QED BY <3>4, <3>6, <3>7, Zenon DEF H02LogTo
  <2>10. Right(6)
    <3>1. fs[6] = H02Seen("comet", "loading", NoGuide, 3, H02LogTo(4))
      BY <1>2, <2>2, H02Observed, H02Counts
    <3>2. H02Expected[6] = <<"comet", "loading", NoGuide, 4, 3>>
      BY DEF H02Expected
    <3>3. fs[6].guide = "comet" /\ fs[6].status = "loading" /\ fs[6].content = NoGuide /\ fs[6].requests = 3
      BY <3>1 DEF H02Seen
    <3>4. fs[6].log = H02LogTo(4)
      BY <3>1 DEF H02Seen
    <3>5. Len(fs[6].log) = 4
      BY <3>4, H02LogLengths
    <3>6. <<fs[6].guide, fs[6].status, fs[6].content, Len(fs[6].log), fs[6].requests>>
            = H02Expected[6]
      BY <3>2, <3>3, <3>5, Zenon
    <3>7. H02Expected[6][4] = 4
      BY <3>2
    <3> QED BY <3>4, <3>6, <3>7, Zenon DEF H02LogTo
  <2>11. Right(7)
    <3>1. fs[7] = H02Seen(NoGuide, "idle", NoGuide, 3, H02LogTo(5))
      BY <1>2, <2>3, H02Observed, H02Counts
    <3>2. H02Expected[7] = <<NoGuide, "idle", NoGuide, 5, 3>>
      BY DEF H02Expected
    <3>3. fs[7].guide = NoGuide /\ fs[7].status = "idle" /\ fs[7].content = NoGuide /\ fs[7].requests = 3
      BY <3>1 DEF H02Seen
    <3>4. fs[7].log = H02LogTo(5)
      BY <3>1 DEF H02Seen
    <3>5. Len(fs[7].log) = 5
      BY <3>4, H02LogLengths
    <3>6. <<fs[7].guide, fs[7].status, fs[7].content, Len(fs[7].log), fs[7].requests>>
            = H02Expected[7]
      BY <3>2, <3>3, <3>5, Zenon
    <3>7. H02Expected[7][4] = 5
      BY <3>2
    <3> QED BY <3>4, <3>6, <3>7, Zenon DEF H02LogTo
  <2>12. Right(8)
    <3>1. fs[8] = H02Seen(NoGuide, "idle", NoGuide, 3, H02LogTo(5))
      BY <1>2, <2>4, H02Observed, H02Counts
    <3>2. H02Expected[8] = <<NoGuide, "idle", NoGuide, 5, 3>>
      BY DEF H02Expected
    <3>3. fs[8].guide = NoGuide /\ fs[8].status = "idle" /\ fs[8].content = NoGuide /\ fs[8].requests = 3
      BY <3>1 DEF H02Seen
    <3>4. fs[8].log = H02LogTo(5)
      BY <3>1 DEF H02Seen
    <3>5. Len(fs[8].log) = 5
      BY <3>4, H02LogLengths
    <3>6. <<fs[8].guide, fs[8].status, fs[8].content, Len(fs[8].log), fs[8].requests>>
            = H02Expected[8]
      BY <3>2, <3>3, <3>5, Zenon
    <3>7. H02Expected[8][4] = 5
      BY <3>2
    <3> QED BY <3>4, <3>6, <3>7, Zenon DEF H02LogTo
  <2> HIDE DEF Right
  <2>13. \A i \in 1 .. 8 : Right(i)
    BY <2>5, <2>6, <2>7, <2>8, <2>9, <2>10, <2>11, <2>12
  <2>14. Len(H02Expected) = 8
    BY DEF H02Expected
  <2>15. H02Oracle(fs)
    BY <1>3, <2>13, <2>14 DEF H02Oracle, Right
  <2> QED BY <1>10, <2>15
<1>11. CASE c = "false_green"
  <2>1. st[5] = H02At("meteor", "ready", "moon", 2, H02Late, H02LogTo(3))
    BY <1>1, <1>9, <1>11, H02Queues, H02Publishes DEF H02Late
  <2>2. fs[5].content = "moon"
    BY <1>2, <2>1, H02Observed DEF H02Seen
  <2>3. <<fs[5].guide, fs[5].status, fs[5].content, Len(fs[5].log), fs[5].requests>> # H02Expected[5]
    BY <2>2 DEF H02Expected
  <2> QED BY <1>3, <1>11, <2>3 DEF H02Oracle
<1> QED BY <1>10, <1>11

LEMMA H02VisibleShows ==
  ASSUME NEW c, NEW k \in DOMAIN H02Visible, NEW st,
         Passes("H02", c, Assertion(k), Len(H02Visible[k]), st)
  PROVE  H02Holds(k, [i \in 1 .. Len(H02Visible[k]) + 1 |-> H02Observe(st[i])])
<1> DEFINE fs == [i \in 1 .. Len(H02Visible[k]) + 1 |-> H02Observe(st[i])]
<1> SUFFICES H02Holds(k, fs)
  OBVIOUS
<1> DEFINE one == <<<<"mount">>>>
           two == <<<<"mount">>, <<"select", "comet">>>>
           three == <<<<"mount">>, <<"select", "comet">>, <<"reset">>>>
<1>1. st[1] = H02At(NoGuide, "idle", NoGuide, 0, NoRequests, one)
  BY H02Starts DEF Passes, MountOf
<1>2. k \in 1 .. 5
  BY DEF H02Visible
<1>5. ASSUME st[2] = H02Step(c, st[1], <<"select", "moon">>)
      PROVE  st[2] = H02At("moon", "loading", NoGuide, 1, H02Moon, Then(one, <<"select", "moon">>))
  <2>1. st[2] = H02At("moon", "loading", NoGuide, 0 + 1, H02Asks(NoRequests, "moon", 0 + 1),
                      Then(one, <<"select", "moon">>))
    BY <1>1, <1>5, H02Chosen
  <2> QED BY <2>1 DEF H02Moon
<1>6. ASSUME st[2] = H02Step(c, st[1], <<"select", "comet">>)
      PROVE  st[2] = H02At("comet", "loading", NoGuide, 1, H02CometFirst, two)
  <2>1. st[2] = H02At("comet", "loading", NoGuide, 0 + 1, H02Asks(NoRequests, "comet", 0 + 1),
                      Then(one, <<"select", "comet">>))
    BY <1>1, <1>6, H02Chosen
  <2>2. Then(one, <<"select", "comet">>) = two
    BY TwoEntries, Zenon DEF Then
  <2>3. st[2] = H02At("comet", "loading", NoGuide, 0 + 1, H02Asks(NoRequests, "comet", 0 + 1), two)
    BY <2>1, <2>2, Zenon
  <2> QED BY <2>3 DEF H02CometFirst
<1>7. Then(two, <<"reset">>) = three
  BY ThreeEntries, Zenon DEF Then
<1>8. CASE k = 1
  <2>1. Last(fs) = H02Observe(st[1])
    BY <1>8 DEF H02Visible, Last
  <2> HIDE DEF fs, one
  <2>2. Last(fs) = H02Seen(NoGuide, "idle", NoGuide, H02Made(NoRequests), one)
    BY <1>1, <2>1, H02Observed
  <2>3. /\ Last(fs).guide = NoGuide /\ Last(fs).status = "idle" /\ Last(fs).content = NoGuide
        /\ Last(fs).log = one
    BY <2>2 DEF H02Seen
  <2>4. Last(fs).log = <<<<"mount">>>>
    BY <2>3, Zenon DEF one
  <2> QED BY <1>8, <2>3, <2>4 DEF H02Holds
<1>9. CASE k = 2
  <2>1. st[2] = H02Step(c, st[1], <<"select", "moon">>) /\ Last(fs) = H02Observe(st[2])
    BY <1>9 DEF Passes, ScriptOf, VisibleOf, StepOf, H02Visible, Assertion, Canonical, Last
  <2> HIDE DEF fs, one
  <2>2. Last(fs) = H02Seen("moon", "loading", NoGuide, 1, Then(one, <<"select", "moon">>))
    BY <1>5, <2>1, H02Counts, H02Observed
  <2> QED BY <1>9, <2>2 DEF H02Holds, H02Seen
<1>10. CASE k = 3
  <2>1. /\ st[2] = H02Step(c, st[1], <<"select", "moon">>)
        /\ st[3] = H02Step(c, st[2], <<"complete", 1>>) /\ Last(fs) = H02Observe(st[3])
    BY <1>10 DEF Passes, ScriptOf, VisibleOf, StepOf, H02Visible, Assertion, Canonical, Last
  <2> HIDE DEF fs, one
  <2>2. st[3] = H02At("moon", "ready", "moon", 1, H02MoonReady, Then(one, <<"select", "moon">>))
    BY <1>5, <2>1, H02Queues, H02Publishes DEF H02MoonReady
  <2>3. Last(fs).status = "ready" /\ Last(fs).content = "moon"
    BY <2>1, <2>2, H02Observed DEF H02Seen
  <2> QED BY <1>10, <2>3 DEF H02Holds
<1>11. CASE k = 4
  <2>1. /\ st[2] = H02Step(c, st[1], <<"select", "moon">>)
        /\ st[3] = H02Step(c, st[2], <<"complete", 1>>)
        /\ st[4] = H02Step(c, st[3], <<"select", "meteor">>)
        /\ st[5] = H02Step(c, st[4], <<"complete", 2>>) /\ Last(fs) = H02Observe(st[5])
    BY <1>11 DEF Passes, ScriptOf, VisibleOf, StepOf, H02Visible, Assertion, Canonical, Last
  <2> DEFINE log == Then(one, <<"select", "moon">>)
             now == Then(log, <<"select", "meteor">>)
  <2> HIDE DEF fs, one
  <2>2. st[3] = H02At("moon", "ready", "moon", 1, H02MoonReady, log)
    BY <1>5, <2>1, H02Queues, H02Publishes DEF H02MoonReady
  <2>3. st[4] = H02At("meteor", "loading", NoGuide, 2, H02MeteorNext, now)
    <3> HIDE DEF log
    <3>1. st[4] = H02At("meteor", "loading", NoGuide, 1 + 1, H02Asks(H02MoonReady, "meteor", 1 + 1),
                        Then(log, <<"select", "meteor">>))
      BY <2>1, <2>2, H02Chosen
    <3> QED BY <3>1 DEF H02MeteorNext
  <2> HIDE DEF log, now
  <2>4. st[5] = H02At("meteor", "ready", "meteor", 2, H02MeteorReady, now)
    BY <2>1, <2>3, H02Queues, H02Publishes DEF H02MeteorReady
  <2>5. Last(fs) = H02Seen("meteor", "ready", "meteor", 2, now)
    BY <2>1, <2>4, H02Counts, H02Observed
  <2> QED BY <1>11, <2>5 DEF H02Holds, H02Seen
<1>12. CASE k = 5
  <2>1. /\ st[2] = H02Step(c, st[1], <<"select", "comet">>)
        /\ st[3] = H02Step(c, st[2], <<"complete", 1>>)
        /\ st[4] = H02Step(c, st[3], <<"reset">>) /\ Last(fs) = H02Observe(st[4])
    BY <1>12 DEF Passes, ScriptOf, VisibleOf, StepOf, H02Visible, Assertion, Canonical, Last
  <2> HIDE DEF fs, two, three
  <2>2. st[3] = H02At("comet", "ready", "comet", 1, H02Closed(H02CometFirst, 1), two)
    BY <1>6, <2>1, H02Queues, H02Publishes
  <2>3. st[4] = H02At(NoGuide, "idle", NoGuide, 1 + 1, H02Closed(H02CometFirst, 1), three)
    BY <1>7, <2>1, <2>2, H02Cleared
  <2>4. Last(fs) = H02Seen(NoGuide, "idle", NoGuide, H02Made(H02Closed(H02CometFirst, 1)), three)
    BY <2>1, <2>3, H02Observed
  <2>5. /\ Last(fs).guide = NoGuide /\ Last(fs).status = "idle" /\ Last(fs).content = NoGuide
        /\ Last(fs).log = three
    BY <2>4 DEF H02Seen
  <2>6. Last(fs).log = <<<<"mount">>, <<"select", "comet">>, <<"reset">>>>
    BY <2>5, Zenon DEF three
  <2> QED BY <1>12, <2>5, <2>6 DEF H02Holds
<1> QED BY <1>2, <1>8, <1>9, <1>10, <1>11, <1>12

-----------------------------------------------------------------------------
(* What the scripts of BG-H03 show. *)

\* A state in which made handles have been made so far.
H03At(selected, note, made, log) ==
  [selected |-> selected, handle |-> made, label |-> selected, note |-> note,
   attachments |-> made, log |-> log]

LEMMA H03Starts == H03Mount = H03At("herbs", NoNote, 1, <<<<"mount">>>>)
BY DEF H03Mount, H03At

\* The label is added to what the candidate made of the state.
LEMMA H03Labelled ==
  \A s, n, k, l, a : [H03At(s, n, k, l) EXCEPT !.log = Append(@, a)] = H03At(s, n, k, Then(l, a))
<1> TAKE s, n, k, l, a
<1> QED BY DEF H03At, Then

LEMMA H03StepIs ==
  \A s, a : H03Step("preserving", s, a) = [H03Preserving(s, a) EXCEPT !.log = Append(@, a)]
<1> TAKE s, a
<1> QED BY DEF H03Step

LEMMA H03OtherStepIs ==
  \A c, s, a :
    c # "preserving" => H03Step(c, s, a) = [H03FalseGreen(s, a) EXCEPT !.log = Append(@, a)]
<1> TAKE c, s, a
<1> QED BY DEF H03Step

LEMMA H03Noted ==
  \A s, n, k, l, x :
    H03Step("preserving", H03At(s, n, k, l), <<"set-note", x>>)
      = H03At(s, x, k, Then(l, <<"set-note", x>>))
<1> TAKE s, n, k, l, x
<1>1. H03Preserving(H03At(s, n, k, l), <<"set-note", x>>) = H03At(s, x, k, l)
  BY DEF H03At, H03Preserving
<1> QED BY <1>1, H03StepIs, H03Labelled

LEMMA H03SameSelected ==
  \A s, n, k, l :
    H03Step("preserving", H03At(s, n, k, l), <<"select", s>>)
      = H03At(s, n, k, Then(l, <<"select", s>>))
<1> TAKE s, n, k, l
<1>1. H03Preserving(H03At(s, n, k, l), <<"select", s>>) = H03At(s, n, k, l)
  BY DEF H03At, H03Preserving, H03Choose
<1> QED BY <1>1, H03StepIs, H03Labelled

LEMMA H03OtherSelected ==
  \A s, n, k, l, x :
    x # s => H03Step("preserving", H03At(s, n, k, l), <<"select", x>>)
               = H03At(x, n, k + 1, Then(l, <<"select", x>>))
<1> TAKE s, n, k, l, x
<1> SUFFICES ASSUME x # s
             PROVE  H03Step("preserving", H03At(s, n, k, l), <<"select", x>>)
                      = H03At(x, n, k + 1, Then(l, <<"select", x>>))
  OBVIOUS
<1>1. H03Preserving(H03At(s, n, k, l), <<"select", x>>) = H03At(x, n, k + 1, l)
  BY DEF H03At, H03Preserving, H03Choose, createSelectionHandle
<1> QED BY <1>1, H03StepIs, H03Labelled

LEMMA H03NothingReset ==
  \A n, k, l :
    H03Step("preserving", H03At("herbs", n, k, l), <<"reset">>)
      = H03At("herbs", NoNote, k, Then(l, <<"reset">>))
<1> TAKE n, k, l
<1>1. H03Preserving(H03At("herbs", n, k, l), <<"reset">>) = H03At("herbs", NoNote, k, l)
  BY DEF H03At, H03Preserving, H03Choose
<1> QED BY <1>1, H03StepIs, H03Labelled

LEMMA H03SelectionReset ==
  \A s, n, k, l :
    s # "herbs" => H03Step("preserving", H03At(s, n, k, l), <<"reset">>)
                     = H03At("herbs", NoNote, k + 1, Then(l, <<"reset">>))
<1> TAKE s, n, k, l
<1> SUFFICES ASSUME s # "herbs"
             PROVE  H03Step("preserving", H03At(s, n, k, l), <<"reset">>)
                      = H03At("herbs", NoNote, k + 1, Then(l, <<"reset">>))
  OBVIOUS
<1>1. H03Preserving(H03At(s, n, k, l), <<"reset">>) = H03At("herbs", NoNote, k + 1, l)
  BY DEF H03At, H03Preserving, H03Choose, createSelectionHandle
<1> QED BY <1>1, H03StepIs, H03Labelled

\* The other candidate makes a handle whatever the action was.
H03Made(selected, label, note, made, log) ==
  [selected |-> selected, handle |-> made, label |-> label, note |-> note,
   attachments |-> made, log |-> log]

LEMMA H03Created ==
  \A s, x, n, k, l : createSelectionHandle(H03Made(x, s, n, k, l), x) = H03At(x, n, k + 1, l)
<1> TAKE s, x, n, k, l
<1> DEFINE u == H03Made(x, s, n, k, l)
           t == createSelectionHandle(u, x)
<1> SUFFICES t = H03At(x, n, k + 1, l)
  OBVIOUS
<1>1. u = H03Made(x, s, n, k, l) /\ t = createSelectionHandle(u, x)
  OBVIOUS
<1> HIDE DEF u, t
<1>2. t = [u EXCEPT !.handle = k + 1, !.label = x, !.attachments = k + 1]
  BY <1>1 DEF H03Made, createSelectionHandle
<1> QED BY <1>1, <1>2 DEF H03Made, H03At

LEMMA H03NotedAnew ==
  \A c, s, n, k, l, x :
    c # "preserving" => H03Step(c, H03At(s, n, k, l), <<"set-note", x>>)
                          = H03At(s, x, k + 1, Then(l, <<"set-note", x>>))
<1> TAKE c, s, n, k, l, x
<1> DEFINE u == H03At(s, n, k, l)
           t == [u EXCEPT !.note = x]
<1>1. H03FalseGreen(u, <<"set-note", x>>) = createSelectionHandle(t, t.selected)
  BY DEF H03FalseGreen, t
<1>2. u = H03At(s, n, k, l) /\ t = [u EXCEPT !.note = x]
  OBVIOUS
<1> HIDE DEF u, t
<1>3. t = H03Made(s, s, x, k, l)
  BY <1>2 DEF H03At, H03Made
<1>4. t.selected = s
  BY <1>3 DEF H03Made
<1>5. H03FalseGreen(u, <<"set-note", x>>) = H03At(s, x, k + 1, l)
  BY <1>1, <1>3, <1>4, H03Created
<1> QED BY <1>2, <1>5, H03OtherStepIs, H03Labelled, SMTT(30)

LEMMA H03SelectedAnew ==
  \A c, s, n, k, l, x :
    c # "preserving" => H03Step(c, H03At(s, n, k, l), <<"select", x>>)
                          = H03At(x, n, k + 1, Then(l, <<"select", x>>))
<1> TAKE c, s, n, k, l, x
<1> DEFINE u == H03At(s, n, k, l)
           t == [u EXCEPT !.selected = x]
<1>1. H03FalseGreen(u, <<"select", x>>) = createSelectionHandle(t, t.selected)
  BY DEF H03FalseGreen, t
<1>2. u = H03At(s, n, k, l) /\ t = [u EXCEPT !.selected = x]
  OBVIOUS
<1> HIDE DEF u, t
<1>3. t = H03Made(x, s, n, k, l)
  BY <1>2 DEF H03At, H03Made
<1>4. t.selected = x
  BY <1>3 DEF H03Made
<1>5. H03FalseGreen(u, <<"select", x>>) = H03At(x, n, k + 1, l)
  BY <1>1, <1>3, <1>4, H03Created
<1> QED BY <1>2, <1>5, H03OtherStepIs, H03Labelled, SMTT(30)

LEMMA H03ResetAnew ==
  \A c, s, n, k, l :
    c # "preserving" => H03Step(c, H03At(s, n, k, l), <<"reset">>)
                          = H03At("herbs", NoNote, k + 1, Then(l, <<"reset">>))
<1> TAKE c, s, n, k, l
<1> DEFINE u == H03At(s, n, k, l)
           t == [u EXCEPT !.selected = "herbs", !.note = NoNote]
<1>1. H03FalseGreen(u, <<"reset">>) = createSelectionHandle(t, t.selected)
  BY DEF H03FalseGreen, t
<1>2. u = H03At(s, n, k, l) /\ t = [u EXCEPT !.selected = "herbs", !.note = NoNote]
  OBVIOUS
<1> HIDE DEF u, t
<1>3. t = H03Made("herbs", s, NoNote, k, l)
  BY <1>2 DEF H03At, H03Made
<1>4. t.selected = "herbs"
  BY <1>3 DEF H03Made
<1>5. H03FalseGreen(u, <<"reset">>) = H03At("herbs", NoNote, k + 1, l)
  BY <1>1, <1>3, <1>4, H03Created
<1> QED BY <1>2, <1>5, H03OtherStepIs, H03Labelled

\* Whoever plays: only the handles made differ.
LEMMA H03AnyNoted ==
  \A c, s, n, k, l, x : \E m :
    H03Step(c, H03At(s, n, k, l), <<"set-note", x>>) = H03At(s, x, m, Then(l, <<"set-note", x>>))
<1> TAKE c, s, n, k, l, x
<1>1. CASE c = "preserving"
  BY <1>1, H03Noted
<1>2. CASE c # "preserving"
  BY <1>2, H03NotedAnew
<1> QED BY <1>1, <1>2

LEMMA H03AnySelected ==
  \A c, s, n, k, l, x : \E m :
    H03Step(c, H03At(s, n, k, l), <<"select", x>>) = H03At(x, n, m, Then(l, <<"select", x>>))
<1> TAKE c, s, n, k, l, x
<1>1. CASE c = "preserving" /\ x = s
  BY <1>1, H03SameSelected
<1>2. CASE c = "preserving" /\ x # s
  BY <1>2, H03OtherSelected
<1>3. CASE c # "preserving"
  BY <1>3, H03SelectedAnew
<1> QED BY <1>1, <1>2, <1>3

LEMMA H03AnyReset ==
  \A c, s, n, k, l : \E m :
    H03Step(c, H03At(s, n, k, l), <<"reset">>) = H03At("herbs", NoNote, m, Then(l, <<"reset">>))
<1> TAKE c, s, n, k, l
<1>1. CASE c = "preserving" /\ s = "herbs"
  BY <1>1, H03NothingReset
<1>2. CASE c = "preserving" /\ s # "herbs"
  BY <1>2, H03SelectionReset
<1>3. CASE c # "preserving"
  BY <1>3, H03ResetAnew
<1> QED BY <1>1, <1>2, <1>3

\* The labels of the script, and the log after each of its actions.
H03Words == Seq({"mount", "set-note", "select", "reset", "spring", "summer", "autumn", "herbs", "flowers"})
H03Labels == <<<<"mount">>>> \o H03Canonical
H03LogTo(i) == SubSeq(H03Labels, 1, i)

LEMMA H03LabelsAre ==
  /\ H03Labels \in Seq(H03Words) /\ Len(H03Labels) = 8
  /\ H03Labels[1] = <<"mount">> /\ H03Labels[2] = <<"set-note", "spring">>
  /\ H03Labels[3] = <<"set-note", "summer">> /\ H03Labels[4] = <<"select", "flowers">>
  /\ H03Labels[5] = <<"set-note", "autumn">> /\ H03Labels[6] = <<"select", "flowers">>
  /\ H03Labels[7] = <<"select", "herbs">> /\ H03Labels[8] = <<"reset">>
<1> DEFINE played == H03Canonical
           mounted == <<"mount">>
<1>1. played \in Seq(H03Words) /\ mounted \in H03Words /\ Len(played) = 7
  BY DEF H03Canonical, H03Words
<1>2. /\ played[1] = <<"set-note", "spring">> /\ played[2] = <<"set-note", "summer">>
      /\ played[3] = <<"select", "flowers">> /\ played[4] = <<"set-note", "autumn">>
      /\ played[5] = <<"select", "flowers">> /\ played[6] = <<"select", "herbs">> /\ played[7] = <<"reset">>
  BY DEF H03Canonical
<1>3. H03Labels = <<mounted>> \o played
  BY DEF H03Labels
<1> HIDE DEF played, mounted
<1>4. /\ <<mounted>> \o played \in Seq(H03Words) /\ Len(<<mounted>> \o played) = 8
      /\ (<<mounted>> \o played)[1] = mounted
      /\ \A i \in 1 .. 7 : (<<mounted>> \o played)[i + 1] = played[i]
  <2>1. /\ <<mounted>> \o played \in Seq(H03Words) /\ Len(<<mounted>> \o played) = Len(played) + 1
        /\ (<<mounted>> \o played)[1] = mounted
        /\ \A i \in 1 .. Len(played) : (<<mounted>> \o played)[i + 1] = played[i]
    <3>1. played \in Seq(H03Words) /\ mounted \in H03Words
      BY <1>1
    <3> QED BY <3>1, MountFirst
  <2> QED BY <1>1, <2>1
<1>5. H03Labels[1] = mounted /\ \A i \in 1 .. 7 : H03Labels[i + 1] = played[i]
  BY <1>3, <1>4
<1>6. /\ H03Labels[2] = played[1] /\ H03Labels[3] = played[2] /\ H03Labels[4] = played[3]
      /\ H03Labels[5] = played[4]
      /\ H03Labels[6] = played[5] /\ H03Labels[7] = played[6] /\ H03Labels[8] = played[7]
  BY <1>5
<1> QED BY <1>2, <1>3, <1>4, <1>5, <1>6 DEF mounted

LEMMA H03Logged ==
  /\ H03LogTo(1) = <<<<"mount">>>>
  /\ Then(H03LogTo(1), <<"set-note", "spring">>) = H03LogTo(2)
  /\ Then(H03LogTo(2), <<"set-note", "summer">>) = H03LogTo(3)
  /\ Then(H03LogTo(3), <<"select", "flowers">>) = H03LogTo(4)
  /\ Then(H03LogTo(4), <<"set-note", "autumn">>) = H03LogTo(5)
  /\ Then(H03LogTo(5), <<"select", "flowers">>) = H03LogTo(6)
  /\ Then(H03LogTo(6), <<"select", "herbs">>) = H03LogTo(7)
  /\ Then(H03LogTo(7), <<"reset">>) = H03LogTo(8)
<1>1. H03LogTo(1) = <<<<"mount">>>>
  <2>1. SubSeq(H03Labels, 1, 1) = <<H03Labels[1]>>
    <3>1. Len(H03Labels) > 0
      BY H03LabelsAre
    <3> QED BY <3>1, H03LabelsAre, LogStarts, Zenon
  <2> QED BY <2>1, H03LabelsAre, Zenon DEF H03LogTo
<1>2. \A i \in 1 .. 7 : Then(H03LogTo(i), H03Labels[i + 1]) = H03LogTo(i + 1)
  <2>1. \A i \in 1 .. Len(H03Labels) - 1 :
          Append(SubSeq(H03Labels, 1, i), H03Labels[i + 1]) = SubSeq(H03Labels, 1, i + 1)
    <3>1. H03Labels \in Seq(H03Words)
      BY H03LabelsAre
    <3> QED BY <3>1, LogExtended
  <2>2. 1 .. Len(H03Labels) - 1 = 1 .. 7
    BY H03LabelsAre
  <2> QED BY <2>1, <2>2 DEF H03LogTo, Then
<1>3. /\ Then(H03LogTo(1), H03Labels[2]) = H03LogTo(2) /\ Then(H03LogTo(2), H03Labels[3]) = H03LogTo(3)
      /\ Then(H03LogTo(3), H03Labels[4]) = H03LogTo(4) /\ Then(H03LogTo(4), H03Labels[5]) = H03LogTo(5)
      /\ Then(H03LogTo(5), H03Labels[6]) = H03LogTo(6) /\ Then(H03LogTo(6), H03Labels[7]) = H03LogTo(7)
      /\ Then(H03LogTo(7), H03Labels[8]) = H03LogTo(8)
  BY <1>2
<1> QED BY <1>1, <1>3, H03LabelsAre, Zenon

LEMMA H03LogEnds ==
  /\ H03LogTo(8) = H03Labels
  /\ \A i \in 1 .. 8 : Last(H03LogTo(i)) = H03Labels[i]
<1>1. H03LogTo(8) = H03Labels
  BY H03LabelsAre, SubSeqFull DEF H03LogTo
<1>2. \A i \in 1 .. 8 : Last(H03LogTo(i)) = H03Labels[i]
  BY H03LabelsAre, LogEnds DEF H03LogTo
<1> QED BY <1>1, <1>2

LEMMA H03CanonicalShows ==
  ASSUME NEW c \in {"preserving", "false_green"}, NEW st, Passes("H03", c, Canonical, 7, st)
  PROVE  H03Oracle([i \in 1 .. 8 |-> st[i]]) <=> c = "preserving"
<1> DEFINE fs == [i \in 1 .. 8 |-> st[i]]
<1> SUFFICES H03Oracle(fs) <=> c = "preserving"
  OBVIOUS
<1>1. /\ st[1] = H03Mount
      /\ st[2] = H03Step(c, st[1], <<"set-note", "spring">>)
      /\ st[3] = H03Step(c, st[2], <<"set-note", "summer">>)
      /\ st[4] = H03Step(c, st[3], <<"select", "flowers">>)
      /\ st[5] = H03Step(c, st[4], <<"set-note", "autumn">>)
      /\ st[6] = H03Step(c, st[5], <<"select", "flowers">>)
      /\ st[7] = H03Step(c, st[6], <<"select", "herbs">>)
      /\ st[8] = H03Step(c, st[7], <<"reset">>)
  BY DEF Passes, ScriptOf, CanonicalOf, MountOf, StepOf, H03Canonical
<1>2. st[1] = H03At("herbs", NoNote, 1, H03LogTo(1))
  BY <1>1, H03Starts, H03Logged
<1>3. \A i \in 1 .. 8 : fs[i] = st[i]
  OBVIOUS
<1>4. Len(fs) = 8 /\ DOMAIN fs = 1 .. 8
  OBVIOUS
<1> DEFINE attached == [i \in DOMAIN fs |-> fs[i].attachments]
<1> HIDE DEF fs
<1>5. CASE c = "preserving"
  <2>1. st[2] = H03At("herbs", "spring", 1, H03LogTo(2))
    BY <1>1, <1>2, <1>5, H03Noted, H03Logged
  <2>2. st[3] = H03At("herbs", "summer", 1, H03LogTo(3))
    BY <1>1, <1>5, <2>1, H03Noted, H03Logged
  <2>3. st[4] = H03At("flowers", "summer", 2, H03LogTo(4))
    <3>1. st[4] = H03At("flowers", "summer", 1 + 1, H03LogTo(4))
      BY <1>1, <1>5, <2>2, H03OtherSelected, H03Logged
    <3> QED BY <3>1
  <2>4. st[5] = H03At("flowers", "autumn", 2, H03LogTo(5))
    BY <1>1, <1>5, <2>3, H03Noted, H03Logged
  <2>5. st[6] = H03At("flowers", "autumn", 2, H03LogTo(6))
    BY <1>1, <1>5, <2>4, H03SameSelected, H03Logged
  <2>6. st[7] = H03At("herbs", "autumn", 3, H03LogTo(7))
    <3>1. st[7] = H03At("herbs", "autumn", 2 + 1, H03LogTo(7))
      BY <1>1, <1>5, <2>5, H03OtherSelected, H03Logged
    <3> QED BY <3>1
  <2>7. st[8] = H03At("herbs", NoNote, 3, H03LogTo(8))
    BY <1>1, <1>5, <2>6, H03NothingReset, H03Logged
  <2>8. /\ fs[1] = H03At("herbs", NoNote, 1, H03LogTo(1))
        /\ fs[2] = H03At("herbs", "spring", 1, H03LogTo(2))
        /\ fs[3] = H03At("herbs", "summer", 1, H03LogTo(3))
        /\ fs[4] = H03At("flowers", "summer", 2, H03LogTo(4))
        /\ fs[5] = H03At("flowers", "autumn", 2, H03LogTo(5))
        /\ fs[6] = H03At("flowers", "autumn", 2, H03LogTo(6))
        /\ fs[7] = H03At("herbs", "autumn", 3, H03LogTo(7))
        /\ fs[8] = H03At("herbs", NoNote, 3, H03LogTo(8))
    BY <1>2, <1>3, <2>1, <2>2, <2>3, <2>4, <2>5, <2>6, <2>7
  <2>9. \A i \in 1 .. 8 : fs[i].log = H03LogTo(i)
    BY <2>8 DEF H03At
  <2>10. \A i \in DOMAIN fs : Last(fs[i].log) = H03Labels[i]
    BY <1>4, <2>9, H03LogEnds
  <2>11. attached = <<1, 1, 1, 2, 2, 2, 3, 3>>
    <3> DEFINE e == <<1, 1, 1, 2, 2, 2, 3, 3>>
    <3>1. e \in Seq(Nat) /\ Len(e) = 8 /\ e[1] = 1 /\ e[2] = 1 /\ e[3] = 1 /\ e[4] = 2
      OBVIOUS
    <3>2. e[5] = 2 /\ e[6] = 2 /\ e[7] = 3 /\ e[8] = 3
      OBVIOUS
    <3>3. /\ fs[1].attachments = 1 /\ fs[2].attachments = 1 /\ fs[3].attachments = 1
          /\ fs[4].attachments = 2 /\ fs[5].attachments = 2 /\ fs[6].attachments = 2
          /\ fs[7].attachments = 3 /\ fs[8].attachments = 3
      BY <2>8 DEF H03At
    <3>4. attached \in Seq(Nat) /\ Len(attached) = 8
      BY <1>4, <3>3
    <3>5. \A i \in 1 .. 8 : attached[i] = fs[i].attachments
      BY <1>4
    <3> SUFFICES attached = e
      OBVIOUS
    <3> HIDE DEF e, attached
    <3>6. \A i \in 1 .. 8 : attached[i] = e[i]
      BY <3>1, <3>2, <3>3, <3>5
    <3> QED BY <3>1, <3>4, <3>6, SeqEqual
  <2>12. /\ SameHandle(fs, 2, 1) /\ SameHandle(fs, 3, 1) /\ ~SameHandle(fs, 4, 3) /\ SameHandle(fs, 5, 4)
         /\ SameHandle(fs, 6, 4) /\ ~SameHandle(fs, 7, 6) /\ SameHandle(fs, 8, 7)
    BY <2>8 DEF H03At, SameHandle
  <2>13. fs[8].selected = "herbs" /\ fs[8].note = NoNote /\ fs[8].log = H03Labels
    BY <2>8, H03LogEnds DEF H03At
  <2>14. H03Oracle(fs)
    BY <1>4, <2>10, <2>11, <2>12, <2>13, H03LabelsAre DEF H03Oracle, H03Labels
  <2> QED BY <1>5, <2>14
<1>6. CASE c = "false_green"
  <2>1. st[2] = H03At("herbs", "spring", 1 + 1, H03LogTo(2))
    BY <1>1, <1>2, <1>6, H03NotedAnew, H03Logged
  <2>2. fs[2].attachments = 2
    BY <1>3, <2>1 DEF H03At
  <2>3. attached[2] # <<1, 1, 1, 2, 2, 2, 3, 3>>[2]
    BY <1>4, <2>2
  <2>4. attached # <<1, 1, 1, 2, 2, 2, 3, 3>>
    BY <2>3
  <2> QED BY <1>6, <2>4 DEF H03Oracle
<1> QED BY <1>5, <1>6

LEMMA H03VisibleShows ==
  ASSUME NEW c, NEW k \in DOMAIN H03Visible, NEW st,
         Passes("H03", c, Assertion(k), Len(H03Visible[k]), st)
  PROVE  H03Holds(k, [i \in 1 .. Len(H03Visible[k]) + 1 |-> st[i]])
<1> DEFINE fs == [i \in 1 .. Len(H03Visible[k]) + 1 |-> st[i]]
<1> SUFFICES H03Holds(k, fs)
  OBVIOUS
<1>1. st[1] = H03At("herbs", NoNote, 1, <<<<"mount">>>>)
  BY H03Starts DEF Passes, MountOf
<1>2. k \in 1 .. 4
  BY DEF H03Visible
<1>3. CASE k = 1
  <2>1. Last(fs) = st[1]
    BY <1>3 DEF H03Visible, Last
  <2> HIDE DEF fs
  <2> QED BY <1>1, <1>3, <2>1 DEF H03Holds, H03At
<1>4. CASE k = 2
  <2>1. st[2] = H03Step(c, st[1], <<"set-note", "spring">>) /\ Last(fs) = st[2]
    BY <1>4 DEF Passes, ScriptOf, VisibleOf, StepOf, H03Visible, Assertion, Canonical, Last
  <2>2. \E m, l : st[2] = H03At("herbs", "spring", m, l)
    BY <1>1, <2>1, H03AnyNoted
  <2> HIDE DEF fs
  <2> QED BY <1>4, <2>1, <2>2 DEF H03Holds, H03At
<1>5. CASE k = 3
  <2>1. st[2] = H03Step(c, st[1], <<"select", "flowers">>) /\ Last(fs) = st[2]
    BY <1>5 DEF Passes, ScriptOf, VisibleOf, StepOf, H03Visible, Assertion, Canonical, Last
  <2>2. \E n, m, l : st[2] = H03At("flowers", n, m, l)
    BY <1>1, <2>1, H03AnySelected
  <2> HIDE DEF fs
  <2> QED BY <1>5, <2>1, <2>2 DEF H03Holds, H03At
<1>6. CASE k = 4
  <2>1. /\ st[2] = H03Step(c, st[1], <<"set-note", "summer">>)
        /\ st[3] = H03Step(c, st[2], <<"select", "flowers">>)
        /\ st[4] = H03Step(c, st[3], <<"reset">>) /\ Last(fs) = st[4]
    BY <1>6 DEF Passes, ScriptOf, VisibleOf, StepOf, H03Visible, Assertion, Canonical, Last
  <2> DEFINE one == <<<<"mount">>>>
             two == <<<<"mount">>, <<"set-note", "summer">>>>
             three == <<<<"mount">>, <<"set-note", "summer">>, <<"select", "flowers">>>>
             four == <<<<"mount">>, <<"set-note", "summer">>, <<"select", "flowers">>, <<"reset">>>>
  <2>2. Then(one, <<"set-note", "summer">>) = two
    BY TwoEntries, Zenon DEF Then
  <2>3. Then(two, <<"select", "flowers">>) = three
    BY ThreeEntries, Zenon DEF Then
  <2>4. Then(three, <<"reset">>) = four
    BY FourEntries, Zenon DEF Then
  <2>5. st[1] = H03At("herbs", NoNote, 1, one)
    BY <1>1
  <2> SUFFICES Last(fs).selected = "herbs" /\ Last(fs).note = NoNote /\ Last(fs).log = four
    BY <1>6 DEF H03Holds
  <2> HIDE DEF fs, one, two, three, four
  <2>6. PICK p : st[2] = H03At("herbs", "summer", p, two)
    BY <2>1, <2>2, <2>5, H03AnyNoted
  <2>7. PICK q : st[3] = H03At("flowers", "summer", q, three)
    BY <2>1, <2>3, <2>6, H03AnySelected
  <2>8. PICK r : st[4] = H03At("herbs", NoNote, r, four)
    BY <2>1, <2>4, <2>7, H03AnyReset
  <2> QED BY <2>1, <2>8 DEF H03At
<1> QED BY <1>2, <1>3, <1>4, <1>5, <1>6

-----------------------------------------------------------------------------
(* What the scripts of BG-H04 show. *)

\* The parent without and with the drawer, and inactive with it (candidate B only).
H04Off(note, mounts, cleanups, log) ==
  [note |-> note, active |-> FALSE, drawer |-> NoDrawer, mounts |-> mounts, cleanups |-> cleanups,
   log |-> log, disposed |-> FALSE]
H04On(note, generation, draft, mounts, cleanups, log) ==
  [note |-> note, active |-> TRUE, drawer |-> [generation |-> generation, draft |-> draft],
   mounts |-> mounts, cleanups |-> cleanups, log |-> log, disposed |-> FALSE]
H04Kept(note, generation, draft, mounts, cleanups, log) ==
  [note |-> note, active |-> FALSE, drawer |-> [generation |-> generation, draft |-> draft],
   mounts |-> mounts, cleanups |-> cleanups, log |-> log, disposed |-> FALSE]
H04Gone(note, mounts, cleanups, log) ==
  [note |-> note, active |-> FALSE, drawer |-> NoDrawer, mounts |-> mounts, cleanups |-> cleanups,
   log |-> log, disposed |-> TRUE]

LEMMA H04Starts == H04Mount("preserving") = H04Off("align", 0, 0, <<<<"mount">>>>)
BY DEF H04Mount, H04Parent, H04Off

LEMMA H04KeptStarts ==
  \A c : c # "preserving" => H04Mount(c) = H04Kept("align", 1, "align", 1, 0, <<<<"mount">>>>)
<1> TAKE c
<1> HAVE c # "preserving"
<1> DEFINE s == H04Parent
           u == H04Ledger(s, 1, 0)
           v == H04Mount(c)
<1> SUFFICES v = H04Kept("align", 1, "align", 1, 0, <<<<"mount">>>>)
  OBVIOUS
<1>1. s = H04Off("align", 0, 0, <<<<"mount">>>>)
  BY DEF H04Parent, H04Off
<1>2. v = [u EXCEPT !.drawer = [generation |-> u.mounts, draft |-> s.note]]
  BY DEF H04Mount, H04Mounted
<1>3. u = H04Ledger(s, 1, 0)
  OBVIOUS
<1> HIDE DEF s, u, v
<1>4. u = [s EXCEPT !.mounts = 1, !.cleanups = 0]
  <2>1. s.mounts = 0 /\ s.cleanups = 0 /\ 0 + 1 = 1 /\ 0 + 0 = 0
    BY <1>1 DEF H04Off
  <2>2. u = [s EXCEPT !.mounts = s.mounts + 1, !.cleanups = s.cleanups + 0]
    BY <1>3 DEF H04Ledger
  <2> QED BY <2>1, <2>2
<1>5. u = H04Off("align", 1, 0, <<<<"mount">>>>)
  BY <1>1, <1>4 DEF H04Off
<1>6. v = [u EXCEPT !.drawer = [generation |-> 1, draft |-> "align"]]
  BY <1>1, <1>2, <1>5 DEF H04Off
<1> QED BY <1>5, <1>6 DEF H04Off, H04Kept

LEMMA H04OffLabelled ==
  \A n, m, k, l, a :
    Labelled(H04Off(n, m, k, l), a) = H04Off(n, m, k, Then(l, a))
<1> TAKE n, m, k, l, a
<1> DEFINE s == H04Off(n, m, k, l)
           t == Labelled(s, a)
<1> SUFFICES t = H04Off(n, m, k, Then(l, a))
  OBVIOUS
<1>1. s = H04Off(n, m, k, l) /\ t = [s EXCEPT !.log = Append(s.log, a)]
  BY DEF Labelled
<1> HIDE DEF s, t
<1>2. s.log = l
  BY <1>1 DEF H04Off
<1>3. t = [s EXCEPT !.log = Then(l, a)]
  BY <1>1, <1>2 DEF Then
<1> QED BY <1>1, <1>3 DEF H04Off

LEMMA H04OnLabelled ==
  \A n, g, d, m, k, l, a :
    Labelled(H04On(n, g, d, m, k, l), a) = H04On(n, g, d, m, k, Then(l, a))
<1> TAKE n, g, d, m, k, l, a
<1> DEFINE s == H04On(n, g, d, m, k, l)
           t == Labelled(s, a)
<1> SUFFICES t = H04On(n, g, d, m, k, Then(l, a))
  OBVIOUS
<1>1. s = H04On(n, g, d, m, k, l) /\ t = [s EXCEPT !.log = Append(s.log, a)]
  BY DEF Labelled
<1> HIDE DEF s, t
<1>2. s.log = l
  BY <1>1 DEF H04On
<1>3. t = [s EXCEPT !.log = Then(l, a)]
  BY <1>1, <1>2 DEF Then
<1> QED BY <1>1, <1>3 DEF H04On

LEMMA H04KeptLabelled ==
  \A n, g, d, m, k, l, a :
    Labelled(H04Kept(n, g, d, m, k, l), a) = H04Kept(n, g, d, m, k, Then(l, a))
<1> TAKE n, g, d, m, k, l, a
<1> DEFINE s == H04Kept(n, g, d, m, k, l)
           t == Labelled(s, a)
<1> SUFFICES t = H04Kept(n, g, d, m, k, Then(l, a))
  OBVIOUS
<1>1. s = H04Kept(n, g, d, m, k, l) /\ t = [s EXCEPT !.log = Append(s.log, a)]
  BY DEF Labelled
<1> HIDE DEF s, t
<1>2. s.log = l
  BY <1>1 DEF H04Kept
<1>3. t = [s EXCEPT !.log = Then(l, a)]
  BY <1>1, <1>2 DEF Then
<1> QED BY <1>1, <1>3 DEF H04Kept

LEMMA H04GoneLabelled ==
  \A n, m, k, l, a :
    Labelled(H04Gone(n, m, k, l), a) = H04Gone(n, m, k, Then(l, a))
<1> TAKE n, m, k, l, a
<1> DEFINE s == H04Gone(n, m, k, l)
           t == Labelled(s, a)
<1> SUFFICES t = H04Gone(n, m, k, Then(l, a))
  OBVIOUS
<1>1. s = H04Gone(n, m, k, l) /\ t = [s EXCEPT !.log = Append(s.log, a)]
  BY DEF Labelled
<1> HIDE DEF s, t
<1>2. s.log = l
  BY <1>1 DEF H04Gone
<1>3. t = [s EXCEPT !.log = Then(l, a)]
  BY <1>1, <1>2 DEF Then
<1> QED BY <1>1, <1>3 DEF H04Gone

LEMMA H04StepIs == \A c, s, a : H04Step(c, s, a) = Labelled(H04Dispatch(c, s, a), a)
<1> TAKE c, s, a
<1> QED BY DEF H04Step, Labelled

LEMMA H04Activated ==
  \A n, l : \A m, k \in Nat :
    H04Step("preserving", H04Off(n, m, k, l), <<"activate">>)
      = H04On(n, m + 1, n, m + 1, k, Then(l, <<"activate">>))
<1> TAKE n, l
<1> TAKE m, k \in Nat
<1> DEFINE s == H04Off(n, m, k, l)
           t == [s EXCEPT !.active = TRUE]
           u == H04Ledger(t, 1, 0)
           v == [u EXCEPT !.drawer = [generation |-> u.mounts, draft |-> t.note]]
<1>0. s = H04Off(n, m, k, l)
  OBVIOUS
<1>1. t = [s EXCEPT !.active = TRUE] /\ u = H04Ledger(t, 1, 0)
  OBVIOUS
<1>2. v = [u EXCEPT !.drawer = [generation |-> u.mounts, draft |-> t.note]]
  OBVIOUS
<1>3. H04Dispatch("preserving", s, <<"activate">>) = v
  <2>1. ~s.active
    BY DEF H04Off
  <2> HIDE DEF s
  <2> QED BY <2>1 DEF H04Dispatch, H04Activate, H04Mounted
<1> HIDE DEF s, t, u, v
<1>4. t = [note |-> n, active |-> TRUE, drawer |-> NoDrawer, mounts |-> m, cleanups |-> k,
           log |-> l, disposed |-> FALSE]
  BY <1>0, <1>1 DEF H04Off
<1>5. u = [t EXCEPT !.mounts = m + 1, !.cleanups = k]
  <2>1. t.mounts = m /\ t.cleanups = k /\ k + 0 = k
    BY <1>4
  <2>2. u = [t EXCEPT !.mounts = t.mounts + 1, !.cleanups = t.cleanups + 0]
    BY <1>0, <1>1 DEF H04Ledger
  <2> QED BY <2>1, <2>2
<1>6. u = [note |-> n, active |-> TRUE, drawer |-> NoDrawer, mounts |-> m + 1, cleanups |-> k,
           log |-> l, disposed |-> FALSE]
  BY <1>4, <1>5
<1>7. v = [u EXCEPT !.drawer = [generation |-> m + 1, draft |-> n]]
  BY <1>2, <1>4, <1>6
<1>8. v = H04On(n, m + 1, n, m + 1, k, l)
  BY <1>6, <1>7 DEF H04On
<1> QED BY <1>0, <1>3, <1>8, H04StepIs, H04OnLabelled

LEMMA H04KeptActivated ==
  \A c, n, g, d, m, k, l :
    c # "preserving" => H04Step(c, H04Kept(n, g, d, m, k, l), <<"activate">>)
                          = H04On(n, g, d, m, k, Then(l, <<"activate">>))
<1> TAKE c, n, g, d, m, k, l
<1> HAVE c # "preserving"
<1> DEFINE s == H04Kept(n, g, d, m, k, l)
           t == [s EXCEPT !.active = TRUE]
<1>0. s = H04Kept(n, g, d, m, k, l)
  OBVIOUS
<1>1. t = [s EXCEPT !.active = TRUE]
  OBVIOUS
<1>2. c # "preserving" => H04Dispatch(c, s, <<"activate">>) = t
  <2> HIDE DEF s
  <2> QED BY DEF H04Dispatch, H04Activate
<1> HIDE DEF s, t
<1>3. t = H04On(n, g, d, m, k, l)
  BY <1>0, <1>1 DEF H04Kept, H04On
<1> QED BY <1>0, <1>2, <1>3, H04StepIs, H04OnLabelled

LEMMA H04Edited ==
  \A c, n, g, d, m, k, l, x :
    g # 0 => H04Step(c, H04On(n, g, d, m, k, l), <<"edit-draft", x>>)
               = H04On(n, g, x, m, k, Then(l, <<"edit-draft", x>>))
<1> TAKE c, n, g, d, m, k, l, x
<1> DEFINE s == H04On(n, g, d, m, k, l)
           t == [s EXCEPT !.drawer.draft = x]
<1>0. s = H04On(n, g, d, m, k, l)
  OBVIOUS
<1>1. t = [s EXCEPT !.drawer.draft = x]
  OBVIOUS
<1> HAVE g # 0
<1>2. s.drawer # NoDrawer
  BY DEF H04On, NoDrawer
<1> HIDE DEF s
<1>3. H04Dispatch(c, s, <<"edit-draft", x>>) = t
  BY <1>2 DEF H04Dispatch, H04Edit
<1> HIDE DEF t
<1>4. s.drawer = [generation |-> g, draft |-> d]
  BY <1>0, <1>1 DEF H04On
<1>5. [s.drawer EXCEPT !.draft = x] = [generation |-> g, draft |-> x]
  <2> DEFINE e == s.drawer
  <2>1. e = [generation |-> g, draft |-> d]
    BY <1>4
  <2> HIDE DEF e
  <2>2. [e EXCEPT !.draft = x] = [generation |-> g, draft |-> x]
    BY <2>1
  <2> QED BY <2>2 DEF e
<1>6. t = [s EXCEPT !.drawer = [generation |-> g, draft |-> x]]
  BY <1>1, <1>5
<1>7. t = H04On(n, g, x, m, k, l)
  BY <1>0, <1>1, <1>6 DEF H04On
<1> QED BY <1>0, <1>3, <1>7, H04StepIs, H04OnLabelled

LEMMA H04Deactivated ==
  \A n, g, d, l : \A m, k \in Nat :
    g # 0 => H04Step("preserving", H04On(n, g, d, m, k, l), <<"deactivate">>)
               = H04Off(n, m, k + 1, Then(l, <<"deactivate">>))
<1> TAKE n, g, d, l
<1> TAKE m, k \in Nat
<1> DEFINE s == H04On(n, g, d, m, k, l)
           t == [s EXCEPT !.active = FALSE]
           u == H04Ledger(t, 0, 1)
           v == [u EXCEPT !.drawer = NoDrawer]
<1> HAVE g # 0
<1>0. s = H04On(n, g, d, m, k, l)
  OBVIOUS
<1>1. t = [s EXCEPT !.active = FALSE] /\ u = H04Ledger(t, 0, 1)
  OBVIOUS
<1>2. v = [u EXCEPT !.drawer = NoDrawer]
  OBVIOUS
<1> HIDE DEF s
<1>3. t.drawer # NoDrawer => H04Dispatch("preserving", s, <<"deactivate">>) = v
  BY DEF H04Dispatch, H04Deactivate, H04Cleaned
<1> HIDE DEF t, u, v
<1>4. t = [note |-> n, active |-> FALSE, drawer |-> [generation |-> g, draft |-> d], mounts |-> m,
           cleanups |-> k, log |-> l, disposed |-> FALSE]
  BY <1>0, <1>1 DEF H04On
<1>5. t.drawer # NoDrawer
  BY <1>4 DEF NoDrawer
<1>6. u = [t EXCEPT !.mounts = m, !.cleanups = k + 1]
  <2>1. t.mounts = m /\ t.cleanups = k /\ m + 0 = m
    BY <1>4
  <2>2. u = [t EXCEPT !.mounts = t.mounts + 0, !.cleanups = t.cleanups + 1]
    BY <1>0, <1>1 DEF H04Ledger
  <2> QED BY <2>1, <2>2
<1>7. u = [note |-> n, active |-> FALSE, drawer |-> [generation |-> g, draft |-> d], mounts |-> m,
           cleanups |-> k + 1, log |-> l, disposed |-> FALSE]
  BY <1>4, <1>6
<1>8. v = H04Off(n, m, k + 1, l)
  BY <1>2, <1>7 DEF H04Off
<1> QED BY <1>0, <1>3, <1>5, <1>8, H04StepIs, H04OffLabelled

LEMMA H04KeptDeactivated ==
  \A c, n, g, d, m, k, l :
    c # "preserving" => H04Step(c, H04On(n, g, d, m, k, l), <<"deactivate">>)
                          = H04Kept(n, g, d, m, k, Then(l, <<"deactivate">>))
<1> TAKE c, n, g, d, m, k, l
<1> HAVE c # "preserving"
<1> DEFINE s == H04On(n, g, d, m, k, l)
           t == [s EXCEPT !.active = FALSE]
<1>0. s = H04On(n, g, d, m, k, l)
  OBVIOUS
<1>1. t = [s EXCEPT !.active = FALSE]
  OBVIOUS
<1>2. c # "preserving" => H04Dispatch(c, s, <<"deactivate">>) = t
  <2> HIDE DEF s
  <2> QED BY DEF H04Dispatch, H04Deactivate
<1> HIDE DEF s, t
<1>3. t = H04Kept(n, g, d, m, k, l)
  BY <1>0, <1>1 DEF H04Kept, H04On
<1> QED BY <1>0, <1>2, <1>3, H04StepIs, H04KeptLabelled

LEMMA H04NoteSet ==
  \A c, n, m, k, l, x :
    H04Step(c, H04Off(n, m, k, l), <<"set-source-note", x>>)
      = H04Off(x, m, k, Then(l, <<"set-source-note", x>>))
<1> TAKE c, n, m, k, l, x
<1> DEFINE s == H04Off(n, m, k, l)
           t == [s EXCEPT !.note = x]
<1>0. s = H04Off(n, m, k, l)
  OBVIOUS
<1>1. t = [s EXCEPT !.note = x]
  OBVIOUS
<1>2. H04Dispatch(c, s, <<"set-source-note", x>>) = t
  <2> HIDE DEF s
  <2> QED BY DEF H04Dispatch
<1> HIDE DEF s, t
<1>3. t = H04Off(x, m, k, l)
  BY <1>0, <1>1 DEF H04Off
<1> QED BY <1>0, <1>2, <1>3, H04StepIs, H04OffLabelled

LEMMA H04Disposed ==
  \A c, n, m, k, l :
    H04Step(c, H04Off(n, m, k, l), <<"dispose">>) = H04Gone(n, m, k, Then(l, <<"dispose">>))
<1> TAKE c, n, m, k, l
<1> DEFINE s == H04Off(n, m, k, l)
           t == [s EXCEPT !.disposed = TRUE]
<1>0. s = H04Off(n, m, k, l)
  OBVIOUS
<1>1. t = [s EXCEPT !.disposed = TRUE]
  OBVIOUS
<1>2. s.drawer = NoDrawer
  BY DEF H04Off
<1> HIDE DEF s
<1>3. H04Dispatch(c, s, <<"dispose">>) = t
  BY <1>2 DEF H04Dispatch, H04Cleaned
<1> HIDE DEF t
<1>4. t = H04Gone(n, m, k, l)
  BY <1>0, <1>1 DEF H04Off, H04Gone
<1> QED BY <1>0, <1>3, <1>4, H04StepIs, H04GoneLabelled

\* A frame without and with a visible drawer, and with an invisible one.
H04Absent(note, counts, log) ==
  [note |-> note, present |-> FALSE, visible |-> FALSE, generation |-> 0, draft |-> "none",
   counts |-> counts, log |-> log]
H04Shown(note, generation, draft, counts, log) ==
  [note |-> note, present |-> TRUE, visible |-> TRUE, generation |-> generation, draft |-> draft,
   counts |-> counts, log |-> log]
H04Hidden(note, generation, draft, counts, log) ==
  [note |-> note, present |-> TRUE, visible |-> FALSE, generation |-> generation, draft |-> draft,
   counts |-> counts, log |-> log]

LEMMA H04OffSeen ==
  \A n, m, k, l : H04Observe(H04Off(n, m, k, l)) = H04Absent(n, <<m, k, m - k>>, l)
<1> TAKE n, m, k, l
<1> QED BY DEF H04Observe, H04Off, H04Absent, NoDrawer

LEMMA H04GoneSeen ==
  \A n, m, k, l : H04Observe(H04Gone(n, m, k, l)) = H04Absent(n, <<m, k, m - k>>, l)
<1> TAKE n, m, k, l
<1> QED BY DEF H04Observe, H04Gone, H04Absent, NoDrawer

LEMMA H04OnSeen ==
  \A n, g, d, m, k, l :
    g # 0 => H04Observe(H04On(n, g, d, m, k, l)) = H04Shown(n, g, d, <<m, k, m - k>>, l)
<1> TAKE n, g, d, m, k, l
<1> HAVE g # 0
<1>1. [generation |-> g, draft |-> d] # NoDrawer
  BY DEF NoDrawer
<1> QED BY <1>1 DEF H04Observe, H04On, H04Shown

LEMMA H04KeptSeen ==
  \A n, g, d, m, k, l :
    g # 0 => H04Observe(H04Kept(n, g, d, m, k, l)) = H04Hidden(n, g, d, <<m, k, m - k>>, l)
<1> TAKE n, g, d, m, k, l
<1> HAVE g # 0
<1>1. [generation |-> g, draft |-> d] # NoDrawer
  BY DEF NoDrawer
<1> QED BY <1>1 DEF H04Observe, H04Kept, H04Hidden

\* The labels of the script, and the log after each of its actions.
H04Words == Seq({"mount", "activate", "edit-draft", "check", "deactivate", "set-source-note", "focus",
    "dispose"})
H04Labels == <<<<"mount">>>> \o H04Canonical
H04LogTo(i) == SubSeq(H04Labels, 1, i)

LEMMA H04LabelsAre ==
  /\ H04Labels \in Seq(H04Words) /\ Len(H04Labels) = 8
  /\ H04Labels[1] = <<"mount">>
  /\ H04Labels[2] = <<"activate">>
  /\ H04Labels[3] = <<"edit-draft", "check">>
  /\ H04Labels[4] = <<"deactivate">>
  /\ H04Labels[5] = <<"set-source-note", "focus">>
  /\ H04Labels[6] = <<"activate">>
  /\ H04Labels[7] = <<"deactivate">>
  /\ H04Labels[8] = <<"dispose">>
<1> DEFINE played == H04Canonical
           mounted == <<"mount">>
<1>1. played \in Seq(H04Words) /\ mounted \in H04Words /\ Len(played) = 7
  BY DEF H04Canonical, H04Words
<1>2. /\ played[1] = <<"activate">>
      /\ played[2] = <<"edit-draft", "check">>
      /\ played[3] = <<"deactivate">>
      /\ played[4] = <<"set-source-note", "focus">>
      /\ played[5] = <<"activate">>
      /\ played[6] = <<"deactivate">>
      /\ played[7] = <<"dispose">>
  BY DEF H04Canonical
<1>3. H04Labels = <<mounted>> \o played
  BY DEF H04Labels
<1> HIDE DEF played, mounted
<1>4. /\ <<mounted>> \o played \in Seq(H04Words) /\ Len(<<mounted>> \o played) = 8
      /\ (<<mounted>> \o played)[1] = mounted
      /\ \A i \in 1 .. 7 : (<<mounted>> \o played)[i + 1] = played[i]
  <2>1. /\ <<mounted>> \o played \in Seq(H04Words)
        /\ Len(<<mounted>> \o played) = Len(played) + 1 /\ (<<mounted>> \o played)[1] = mounted
        /\ \A i \in 1 .. Len(played) : (<<mounted>> \o played)[i + 1] = played[i]
    <3>1. played \in Seq(H04Words) /\ mounted \in H04Words
      BY <1>1
    <3> QED BY <3>1, MountFirst
  <2> QED BY <1>1, <2>1
<1>5. H04Labels[1] = mounted /\ \A i \in 1 .. 7 : H04Labels[i + 1] = played[i]
  BY <1>3, <1>4
<1>6. /\ H04Labels[2] = played[1]
      /\ H04Labels[3] = played[2]
      /\ H04Labels[4] = played[3]
      /\ H04Labels[5] = played[4]
      /\ H04Labels[6] = played[5]
      /\ H04Labels[7] = played[6]
      /\ H04Labels[8] = played[7]
  BY <1>5
<1> QED BY <1>2, <1>3, <1>4, <1>5, <1>6 DEF mounted

LEMMA H04Logged ==
  /\ H04LogTo(1) = <<<<"mount">>>>
  /\ Then(H04LogTo(1), <<"activate">>) = H04LogTo(2)
  /\ Then(H04LogTo(2), <<"edit-draft", "check">>) = H04LogTo(3)
  /\ Then(H04LogTo(3), <<"deactivate">>) = H04LogTo(4)
  /\ Then(H04LogTo(4), <<"set-source-note", "focus">>) = H04LogTo(5)
  /\ Then(H04LogTo(5), <<"activate">>) = H04LogTo(6)
  /\ Then(H04LogTo(6), <<"deactivate">>) = H04LogTo(7)
  /\ Then(H04LogTo(7), <<"dispose">>) = H04LogTo(8)
<1>1. H04LogTo(1) = <<<<"mount">>>>
  <2>1. SubSeq(H04Labels, 1, 1) = <<H04Labels[1]>>
    <3>1. Len(H04Labels) > 0
      BY H04LabelsAre
    <3> QED BY <3>1, H04LabelsAre, LogStarts, Zenon
  <2> QED BY <2>1, H04LabelsAre, Zenon DEF H04LogTo
<1>2. \A i \in 1 .. 7 : Then(H04LogTo(i), H04Labels[i + 1]) = H04LogTo(i + 1)
  <2>1. \A i \in 1 .. Len(H04Labels) - 1 :
          Append(SubSeq(H04Labels, 1, i), H04Labels[i + 1]) = SubSeq(H04Labels, 1, i + 1)
    <3>1. H04Labels \in Seq(H04Words)
      BY H04LabelsAre
    <3> QED BY <3>1, LogExtended
  <2>2. 1 .. Len(H04Labels) - 1 = 1 .. 7
    BY H04LabelsAre
  <2> QED BY <2>1, <2>2 DEF H04LogTo, Then
<1>3. /\ Then(H04LogTo(1), H04Labels[2]) = H04LogTo(2)
      /\ Then(H04LogTo(2), H04Labels[3]) = H04LogTo(3)
      /\ Then(H04LogTo(3), H04Labels[4]) = H04LogTo(4)
      /\ Then(H04LogTo(4), H04Labels[5]) = H04LogTo(5)
      /\ Then(H04LogTo(5), H04Labels[6]) = H04LogTo(6)
      /\ Then(H04LogTo(6), H04Labels[7]) = H04LogTo(7)
      /\ Then(H04LogTo(7), H04Labels[8]) = H04LogTo(8)
  BY <1>2
<1> QED BY <1>1, <1>3, H04LabelsAre, Zenon

LEMMA H04LogEnds ==
  /\ H04LogTo(8) = H04Labels
  /\ \A i \in 1 .. 8 : Last(H04LogTo(i)) = H04Labels[i]
<1>1. H04LogTo(8) = H04Labels
  BY H04LabelsAre, SubSeqFull DEF H04LogTo
<1>2. \A i \in 1 .. 8 : Last(H04LogTo(i)) = H04Labels[i]
  BY H04LabelsAre, LogEnds DEF H04LogTo
<1> QED BY <1>1, <1>2

LEMMA H04CanonicalShows ==
  ASSUME NEW c \in {"preserving", "false_green"}, NEW st, Passes("H04", c, Canonical, 7, st)
  PROVE  H04Oracle([i \in 1 .. 8 |-> H04Observe(st[i])]) <=> c = "preserving"
<1> DEFINE fs == [i \in 1 .. 8 |-> H04Observe(st[i])]
<1> SUFFICES H04Oracle(fs) <=> c = "preserving"
  OBVIOUS
<1>1. /\ st[1] = H04Mount(c)
      /\ st[2] = H04Step(c, st[1], <<"activate">>)
      /\ st[3] = H04Step(c, st[2], <<"edit-draft", "check">>)
      /\ st[4] = H04Step(c, st[3], <<"deactivate">>)
      /\ st[5] = H04Step(c, st[4], <<"set-source-note", "focus">>)
      /\ st[6] = H04Step(c, st[5], <<"activate">>)
      /\ st[7] = H04Step(c, st[6], <<"deactivate">>)
      /\ st[8] = H04Step(c, st[7], <<"dispose">>)
  BY DEF Passes, ScriptOf, CanonicalOf, MountOf, StepOf, H04Canonical
<1>2. \A i \in 1 .. 8 : fs[i] = H04Observe(st[i])
  OBVIOUS
<1>3. Len(fs) = 8 /\ DOMAIN fs = 1 .. 8
  OBVIOUS
<1> HIDE DEF fs
<1>4. CASE c = "preserving"
  <2>1. st[1] = H04Off("align", 0, 0, H04LogTo(1))
    BY <1>1, <1>4, H04Starts, H04Logged
  <2>2. st[2] = H04On("align", 1, "align", 1, 0, H04LogTo(2))
    <3>1. st[2] = H04On("align", 0 + 1, "align", 0 + 1, 0, H04LogTo(2))
      BY <1>1, <1>4, <2>1, H04Activated, H04Logged
    <3> QED BY <3>1
  <2>3. st[3] = H04On("align", 1, "check", 1, 0, H04LogTo(3))
    BY <1>1, <1>4, <2>2, H04Edited, H04Logged
  <2>4. st[4] = H04Off("align", 1, 1, H04LogTo(4))
    <3>1. st[4] = H04Off("align", 1, 0 + 1, H04LogTo(4))
      BY <1>1, <1>4, <2>3, H04Deactivated, H04Logged
    <3> QED BY <3>1
  <2>5. st[5] = H04Off("focus", 1, 1, H04LogTo(5))
    BY <1>1, <1>4, <2>4, H04NoteSet, H04Logged
  <2>6. st[6] = H04On("focus", 2, "focus", 2, 1, H04LogTo(6))
    <3>1. st[6] = H04On("focus", 1 + 1, "focus", 1 + 1, 1, H04LogTo(6))
      BY <1>1, <1>4, <2>5, H04Activated, H04Logged
    <3> QED BY <3>1
  <2>7. st[7] = H04Off("focus", 2, 2, H04LogTo(7))
    <3>1. st[7] = H04Off("focus", 2, 1 + 1, H04LogTo(7))
      BY <1>1, <1>4, <2>6, H04Deactivated, H04Logged
    <3> QED BY <3>1
  <2>8. st[8] = H04Gone("focus", 2, 2, H04LogTo(8))
    BY <1>1, <1>4, <2>7, H04Disposed, H04Logged
  <2> DEFINE Right(i) ==
               /\ <<fs[i].generation, fs[i].draft, fs[i].counts>> = H04Expected[i]
               /\ fs[i].present = (H04Expected[i][1] # 0) /\ fs[i].visible = fs[i].present
               /\ Last(fs[i].log) = H04Labels[i]
               /\ i > 4 => fs[i].note = "focus"
  <2>9. Right(1)
    <3>1. fs[1] = H04Absent("align", <<0, 0, 0>>, H04LogTo(1))
      <4>1. fs[1] = H04Absent("align", <<0, 0, 0 - 0>>, H04LogTo(1))
        BY <1>2, <2>1, H04OffSeen
      <4> QED BY <4>1
    <3>2. H04Expected[1] = <<0, "none", <<0, 0, 0>>>>
      BY DEF H04Expected
    <3>3. fs[1].log = H04LogTo(1)
      BY <3>1 DEF H04Shown, H04Absent
    <3>4. fs[1].generation = 0 /\ fs[1].draft = "none" /\ fs[1].counts = <<0, 0, 0>> /\ fs[1].note = "align"
      BY <3>1 DEF H04Shown, H04Absent
    <3>5. fs[1].present = FALSE /\ fs[1].visible = FALSE
      BY <3>1 DEF H04Shown, H04Absent
    <3>6. Last(fs[1].log) = H04Labels[1]
      BY <3>3, H04LogEnds
    <3>7. (H04Expected[1][1] # 0) = FALSE
      BY <3>2
    <3>8. <<fs[1].generation, fs[1].draft, fs[1].counts>> = H04Expected[1]
      BY <3>2, <3>4, Zenon
    <3>9. fs[1].present = (H04Expected[1][1] # 0) /\ fs[1].visible = fs[1].present
      BY <3>5, <3>7, Zenon
    <3>10. 1 > 4 => fs[1].note = "focus"
      BY <3>4
    <3> QED BY <3>6, <3>8, <3>9, <3>10
  <2>10. Right(2)
    <3>1. fs[2] = H04Shown("align", 1, "align", <<1, 0, 1>>, H04LogTo(2))
      <4>1. fs[2] = H04Shown("align", 1, "align", <<1, 0, 1 - 0>>, H04LogTo(2))
        BY <1>2, <2>2, H04OnSeen
      <4> QED BY <4>1
    <3>2. H04Expected[2] = <<1, "align", <<1, 0, 1>>>>
      BY DEF H04Expected
    <3>3. fs[2].log = H04LogTo(2)
      BY <3>1 DEF H04Shown, H04Absent
    <3>4. fs[2].generation = 1 /\ fs[2].draft = "align" /\ fs[2].counts = <<1, 0, 1>>
            /\ fs[2].note = "align"
      BY <3>1 DEF H04Shown, H04Absent
    <3>5. fs[2].present = TRUE /\ fs[2].visible = TRUE
      BY <3>1 DEF H04Shown, H04Absent
    <3>6. Last(fs[2].log) = H04Labels[2]
      BY <3>3, H04LogEnds
    <3>7. (H04Expected[2][1] # 0) = TRUE
      BY <3>2
    <3>8. <<fs[2].generation, fs[2].draft, fs[2].counts>> = H04Expected[2]
      BY <3>2, <3>4, Zenon
    <3>9. fs[2].present = (H04Expected[2][1] # 0) /\ fs[2].visible = fs[2].present
      BY <3>5, <3>7, Zenon
    <3>10. 2 > 4 => fs[2].note = "focus"
      BY <3>4
    <3> QED BY <3>6, <3>8, <3>9, <3>10
  <2>11. Right(3)
    <3>1. fs[3] = H04Shown("align", 1, "check", <<1, 0, 1>>, H04LogTo(3))
      <4>1. fs[3] = H04Shown("align", 1, "check", <<1, 0, 1 - 0>>, H04LogTo(3))
        BY <1>2, <2>3, H04OnSeen
      <4> QED BY <4>1
    <3>2. H04Expected[3] = <<1, "check", <<1, 0, 1>>>>
      BY DEF H04Expected
    <3>3. fs[3].log = H04LogTo(3)
      BY <3>1 DEF H04Shown, H04Absent
    <3>4. fs[3].generation = 1 /\ fs[3].draft = "check" /\ fs[3].counts = <<1, 0, 1>>
            /\ fs[3].note = "align"
      BY <3>1 DEF H04Shown, H04Absent
    <3>5. fs[3].present = TRUE /\ fs[3].visible = TRUE
      BY <3>1 DEF H04Shown, H04Absent
    <3>6. Last(fs[3].log) = H04Labels[3]
      BY <3>3, H04LogEnds
    <3>7. (H04Expected[3][1] # 0) = TRUE
      BY <3>2
    <3>8. <<fs[3].generation, fs[3].draft, fs[3].counts>> = H04Expected[3]
      BY <3>2, <3>4, Zenon
    <3>9. fs[3].present = (H04Expected[3][1] # 0) /\ fs[3].visible = fs[3].present
      BY <3>5, <3>7, Zenon
    <3>10. 3 > 4 => fs[3].note = "focus"
      BY <3>4
    <3> QED BY <3>6, <3>8, <3>9, <3>10
  <2>12. Right(4)
    <3>1. fs[4] = H04Absent("align", <<1, 1, 0>>, H04LogTo(4))
      <4>1. fs[4] = H04Absent("align", <<1, 1, 1 - 1>>, H04LogTo(4))
        BY <1>2, <2>4, H04OffSeen
      <4> QED BY <4>1
    <3>2. H04Expected[4] = <<0, "none", <<1, 1, 0>>>>
      BY DEF H04Expected
    <3>3. fs[4].log = H04LogTo(4)
      BY <3>1 DEF H04Shown, H04Absent
    <3>4. fs[4].generation = 0 /\ fs[4].draft = "none" /\ fs[4].counts = <<1, 1, 0>> /\ fs[4].note = "align"
      BY <3>1 DEF H04Shown, H04Absent
    <3>5. fs[4].present = FALSE /\ fs[4].visible = FALSE
      BY <3>1 DEF H04Shown, H04Absent
    <3>6. Last(fs[4].log) = H04Labels[4]
      BY <3>3, H04LogEnds
    <3>7. (H04Expected[4][1] # 0) = FALSE
      BY <3>2
    <3>8. <<fs[4].generation, fs[4].draft, fs[4].counts>> = H04Expected[4]
      BY <3>2, <3>4, Zenon
    <3>9. fs[4].present = (H04Expected[4][1] # 0) /\ fs[4].visible = fs[4].present
      BY <3>5, <3>7, Zenon
    <3>10. 4 > 4 => fs[4].note = "focus"
      BY <3>4
    <3> QED BY <3>6, <3>8, <3>9, <3>10
  <2>13. Right(5)
    <3>1. fs[5] = H04Absent("focus", <<1, 1, 0>>, H04LogTo(5))
      <4>1. fs[5] = H04Absent("focus", <<1, 1, 1 - 1>>, H04LogTo(5))
        BY <1>2, <2>5, H04OffSeen
      <4> QED BY <4>1
    <3>2. H04Expected[5] = <<0, "none", <<1, 1, 0>>>>
      BY DEF H04Expected
    <3>3. fs[5].log = H04LogTo(5)
      BY <3>1 DEF H04Shown, H04Absent
    <3>4. fs[5].generation = 0 /\ fs[5].draft = "none" /\ fs[5].counts = <<1, 1, 0>> /\ fs[5].note = "focus"
      BY <3>1 DEF H04Shown, H04Absent
    <3>5. fs[5].present = FALSE /\ fs[5].visible = FALSE
      BY <3>1 DEF H04Shown, H04Absent
    <3>6. Last(fs[5].log) = H04Labels[5]
      BY <3>3, H04LogEnds
    <3>7. (H04Expected[5][1] # 0) = FALSE
      BY <3>2
    <3>8. <<fs[5].generation, fs[5].draft, fs[5].counts>> = H04Expected[5]
      BY <3>2, <3>4, Zenon
    <3>9. fs[5].present = (H04Expected[5][1] # 0) /\ fs[5].visible = fs[5].present
      BY <3>5, <3>7, Zenon
    <3>10. 5 > 4 => fs[5].note = "focus"
      BY <3>4
    <3> QED BY <3>6, <3>8, <3>9, <3>10
  <2>14. Right(6)
    <3>1. fs[6] = H04Shown("focus", 2, "focus", <<2, 1, 1>>, H04LogTo(6))
      <4>1. fs[6] = H04Shown("focus", 2, "focus", <<2, 1, 2 - 1>>, H04LogTo(6))
        BY <1>2, <2>6, H04OnSeen
      <4> QED BY <4>1
    <3>2. H04Expected[6] = <<2, "focus", <<2, 1, 1>>>>
      BY DEF H04Expected
    <3>3. fs[6].log = H04LogTo(6)
      BY <3>1 DEF H04Shown, H04Absent
    <3>4. fs[6].generation = 2 /\ fs[6].draft = "focus" /\ fs[6].counts = <<2, 1, 1>>
            /\ fs[6].note = "focus"
      BY <3>1 DEF H04Shown, H04Absent
    <3>5. fs[6].present = TRUE /\ fs[6].visible = TRUE
      BY <3>1 DEF H04Shown, H04Absent
    <3>6. Last(fs[6].log) = H04Labels[6]
      BY <3>3, H04LogEnds
    <3>7. (H04Expected[6][1] # 0) = TRUE
      BY <3>2
    <3>8. <<fs[6].generation, fs[6].draft, fs[6].counts>> = H04Expected[6]
      BY <3>2, <3>4, Zenon
    <3>9. fs[6].present = (H04Expected[6][1] # 0) /\ fs[6].visible = fs[6].present
      BY <3>5, <3>7, Zenon
    <3>10. 6 > 4 => fs[6].note = "focus"
      BY <3>4
    <3> QED BY <3>6, <3>8, <3>9, <3>10
  <2>15. Right(7)
    <3>1. fs[7] = H04Absent("focus", <<2, 2, 0>>, H04LogTo(7))
      <4>1. fs[7] = H04Absent("focus", <<2, 2, 2 - 2>>, H04LogTo(7))
        BY <1>2, <2>7, H04OffSeen
      <4> QED BY <4>1
    <3>2. H04Expected[7] = <<0, "none", <<2, 2, 0>>>>
      BY DEF H04Expected
    <3>3. fs[7].log = H04LogTo(7)
      BY <3>1 DEF H04Shown, H04Absent
    <3>4. fs[7].generation = 0 /\ fs[7].draft = "none" /\ fs[7].counts = <<2, 2, 0>> /\ fs[7].note = "focus"
      BY <3>1 DEF H04Shown, H04Absent
    <3>5. fs[7].present = FALSE /\ fs[7].visible = FALSE
      BY <3>1 DEF H04Shown, H04Absent
    <3>6. Last(fs[7].log) = H04Labels[7]
      BY <3>3, H04LogEnds
    <3>7. (H04Expected[7][1] # 0) = FALSE
      BY <3>2
    <3>8. <<fs[7].generation, fs[7].draft, fs[7].counts>> = H04Expected[7]
      BY <3>2, <3>4, Zenon
    <3>9. fs[7].present = (H04Expected[7][1] # 0) /\ fs[7].visible = fs[7].present
      BY <3>5, <3>7, Zenon
    <3>10. 7 > 4 => fs[7].note = "focus"
      BY <3>4
    <3> QED BY <3>6, <3>8, <3>9, <3>10
  <2>16. Last(fs).counts = <<2, 2, 0>> /\ Last(fs).note = "focus" /\ Last(Last(fs).log) = <<"dispose">>
    <3>1. fs[8] = H04Absent("focus", <<2, 2, 0>>, H04LogTo(8))
      <4>1. fs[8] = H04Absent("focus", <<2, 2, 2 - 2>>, H04LogTo(8))
        BY <1>2, <2>8, H04GoneSeen
      <4> QED BY <4>1
    <3>2. Last(fs) = fs[8]
      BY <1>3 DEF Last
    <3>3. fs[8].log = H04LogTo(8)
      BY <3>1 DEF H04Absent
    <3>4. Last(fs[8].log) = <<"dispose">>
      <4>1. Last(H04LogTo(8)) = H04Labels[8]
        BY H04LogEnds
      <4> QED BY <3>3, <4>1, H04LabelsAre
    <3> QED BY <3>1, <3>2, <3>4 DEF H04Absent
  <2> HIDE DEF Right
  <2>17. \A i \in 1 .. 7 : Right(i)
    BY <2>9, <2>10, <2>11, <2>12, <2>13, <2>14, <2>15
  <2>18. Len(H04Expected) = 7 /\ DOMAIN H04Expected = 1 .. 7
    BY DEF H04Expected
  <2>19. H04Oracle(fs)
    <3>1. \A i \in DOMAIN H04Expected : Right(i)
      BY <2>17, <2>18
    <3>2. Len(fs) = Len(H04Expected) + 1
      BY <1>3, <2>18
    <3> QED BY <2>16, <3>1, <3>2 DEF H04Oracle, H04Labels, Right
  <2> QED BY <1>4, <2>19
<1>5. CASE c = "false_green"
  <2>1. st[1] = H04Kept("align", 1, "align", 1, 0, <<<<"mount">>>>)
    BY <1>1, <1>5, H04KeptStarts
  <2>2. fs[1].generation = 1
    BY <1>2, <2>1 DEF H04Observe, H04Kept
  <2>3. <<fs[1].generation, fs[1].draft, fs[1].counts>> # H04Expected[1] /\ 1 \in DOMAIN H04Expected
    BY <2>2 DEF H04Expected
  <2> QED BY <1>5, <2>3 DEF H04Oracle
<1> QED BY <1>4, <1>5

LEMMA H04VisibleShows ==
  ASSUME NEW c, NEW k \in DOMAIN H04Visible, NEW st,
         Passes("H04", c, Assertion(k), Len(H04Visible[k]), st)
  PROVE  H04Holds(k, [i \in 1 .. Len(H04Visible[k]) + 1 |-> H04Observe(st[i])])
<1> DEFINE fs == [i \in 1 .. Len(H04Visible[k]) + 1 |-> H04Observe(st[i])]
<1> SUFFICES H04Holds(k, fs)
  OBVIOUS
<1>1. st[1] = H04Mount(c)
  BY DEF Passes, MountOf
<1>2. k \in 1 .. 4
  BY DEF H04Visible
<1>3. CASE k = 1
  <2>1. Last(fs) = H04Observe(st[1])
    BY <1>3 DEF H04Visible, Last
  <2> HIDE DEF fs
  <2>2. CASE c = "preserving"
    <3>1. \E e, l : Last(fs) = H04Absent("align", e, l)
      BY <1>1, <2>1, <2>2, H04Starts, H04OffSeen, ZenonT(60)
    <3> QED BY <1>3, <3>1 DEF H04Holds, H04Absent
  <2>3. CASE c # "preserving"
    <3>1. Last(fs) = H04Hidden("align", 1, "align", <<1, 0, 1 - 0>>, <<<<"mount">>>>)
      BY <1>1, <2>1, <2>3, H04KeptStarts, H04KeptSeen
    <3> QED BY <1>3, <3>1 DEF H04Holds, H04Hidden
  <2> QED BY <2>2, <2>3
\* Both candidates show the same drawer once it is activated.
<1>4. ASSUME st[2] = H04Step(c, st[1], <<"activate">>)
      PROVE  \E l : st[2] = H04On("align", 1, "align", 1, 0, l)
  <2>1. CASE c = "preserving"
    <3>1. \E l : st[2] = H04On("align", 0 + 1, "align", 0 + 1, 0, l)
      BY <1>1, <1>4, <2>1, H04Starts, H04Activated
    <3> QED BY <3>1
  <2>2. CASE c # "preserving"
    BY <1>1, <1>4, <2>2, H04KeptStarts, H04KeptActivated
  <2> QED BY <2>1, <2>2
<1>5. CASE k = 2
  <2>1. st[2] = H04Step(c, st[1], <<"activate">>) /\ Last(fs) = H04Observe(st[2])
    BY <1>5 DEF Passes, ScriptOf, VisibleOf, StepOf, H04Visible, Assertion, Canonical, Last
  <2> HIDE DEF fs
  <2>2. \E l : Last(fs) = H04Shown("align", 1, "align", <<1, 0, 1 - 0>>, l)
    BY <1>4, <2>1, H04OnSeen
  <2> QED BY <1>5, <2>2 DEF H04Holds, H04Shown
<1>6. CASE k = 3
  <2>1. /\ st[2] = H04Step(c, st[1], <<"activate">>)
        /\ st[3] = H04Step(c, st[2], <<"edit-draft", "check">>) /\ Last(fs) = H04Observe(st[3])
    BY <1>6 DEF Passes, ScriptOf, VisibleOf, StepOf, H04Visible, Assertion, Canonical, Last
  <2> HIDE DEF fs
  <2>2. \E l : st[3] = H04On("align", 1, "check", 1, 0, l)
    BY <1>4, <2>1, H04Edited
  <2>3. \E l : Last(fs) = H04Shown("align", 1, "check", <<1, 0, 1 - 0>>, l)
    BY <2>1, <2>2, H04OnSeen
  <2> QED BY <1>6, <2>3 DEF H04Holds, H04Shown
<1>7. CASE k = 4
  <2>1. /\ st[2] = H04Step(c, st[1], <<"activate">>)
        /\ st[3] = H04Step(c, st[2], <<"edit-draft", "check">>)
        /\ st[4] = H04Step(c, st[3], <<"deactivate">>) /\ Last(fs) = H04Observe(st[4])
    BY <1>7 DEF Passes, ScriptOf, VisibleOf, StepOf, H04Visible, Assertion, Canonical, Last
  <2> HIDE DEF fs
  <2>2. PICK l : st[3] = H04On("align", 1, "check", 1, 0, l)
    BY <1>4, <2>1, H04Edited
  <2>3. CASE c = "preserving"
    <3>1. st[4] = H04Off("align", 1, 0 + 1, Then(l, <<"deactivate">>))
      BY <2>1, <2>2, <2>3, H04Deactivated
    <3>2. \E n, e, f : Last(fs) = H04Absent(n, e, f)
      BY <2>1, <3>1, H04OffSeen, ZenonT(60)
    <3> QED BY <1>7, <3>2 DEF H04Holds, H04Absent
  <2>4. CASE c # "preserving"
    <3>1. st[4] = H04Kept("align", 1, "check", 1, 0, Then(l, <<"deactivate">>))
      BY <2>1, <2>2, <2>4, H04KeptDeactivated
    <3>2. Last(fs) = H04Hidden("align", 1, "check", <<1, 0, 1 - 0>>, Then(l, <<"deactivate">>))
      BY <2>1, <3>1, H04KeptSeen
    <3> QED BY <1>7, <3>2 DEF H04Holds, H04Hidden
  <2> QED BY <2>3, <2>4
<1> QED BY <1>2, <1>3, <1>5, <1>6, <1>7

-----------------------------------------------------------------------------
(* What the scripts of BG-H05 show. *)

\* A value for each readout; a state, and the snapshot after a write.
H05Pair(x, y) == [r \in Readouts |-> IF r = "north" THEN x ELSE y]
H05At(store, north, south, up, subscribers, n, k) ==
  [store |-> store, shown |-> H05Pair(north, south), mounted |-> up, subscribers |-> subscribers,
   notified |-> H05Pair(n, k)]
H05Next(v, u) == [unit |-> u, revision |-> v.revision + 1]

LEMMA H05PairOf ==
  \A x, y : H05Pair(x, y)["north"] = x /\ H05Pair(x, y)["south"] = y
<1> TAKE x, y
<1> QED BY DEF H05Pair, Readouts

LEMMA H05Parts ==
  \A v, x, y, w, l, n, k :
    /\ H05At(v, x, y, w, l, n, k).store = v /\ H05At(v, x, y, w, l, n, k).subscribers = l
    /\ H05At(v, x, y, w, l, n, k).mounted = w
    /\ H05At(v, x, y, w, l, n, k).shown["north"] = x /\ H05At(v, x, y, w, l, n, k).shown["south"] = y
    /\ H05At(v, x, y, w, l, n, k).notified["north"] = n /\ H05At(v, x, y, w, l, n, k).notified["south"] = k
<1> TAKE v, x, y, w, l, n, k
<1>1. /\ H05At(v, x, y, w, l, n, k).shown = H05Pair(x, y)
      /\ H05At(v, x, y, w, l, n, k).notified = H05Pair(n, k)
      /\ H05At(v, x, y, w, l, n, k).store = v /\ H05At(v, x, y, w, l, n, k).subscribers = l
      /\ H05At(v, x, y, w, l, n, k).mounted = w
  BY DEF H05At
<1> QED BY <1>1, H05PairOf

LEMMA H05Starts ==
  H05Mount("preserving", TRUE) = H05At(H05Initial, H05Initial, H05Initial, Readouts, Readouts, 0, 0)
<1>1. [r \in Readouts |-> IF r \in Readouts THEN H05Initial ELSE NoReadout]
        = H05Pair(H05Initial, H05Initial)
  BY DEF H05Pair
<1>2. [r \in Readouts |-> 0] = H05Pair(0, 0)
  BY DEF H05Pair
<1>3. H05Mount("preserving", TRUE)
        = [store |-> H05Initial,
           shown |-> [r \in Readouts |-> IF r \in Readouts THEN H05Initial ELSE NoReadout],
           mounted |-> Readouts, subscribers |-> Readouts, notified |-> [r \in Readouts |-> 0]]
  BY DEF H05Mount
<1> QED BY <1>1, <1>2, <1>3, Zenon DEF H05At

LEMMA H05SingleStarts ==
  \A c : H05Mount(c, FALSE) = H05At(H05Initial, H05Initial, NoReadout, {"north"},
                                    IF c = "preserving" THEN {"north"} ELSE {}, 0, 0)
<1> TAKE c
<1>1. [r \in Readouts |-> IF r \in {"north"} THEN H05Initial ELSE NoReadout]
        = H05Pair(H05Initial, NoReadout)
  BY DEF H05Pair
<1>2. [r \in Readouts |-> 0] = H05Pair(0, 0)
  BY DEF H05Pair
<1>3. H05Mount(c, FALSE)
        = [store |-> H05Initial,
           shown |-> [r \in Readouts |-> IF r \in {"north"} THEN H05Initial ELSE NoReadout],
           mounted |-> {"north"}, subscribers |-> IF c = "preserving" THEN {"north"} ELSE {},
           notified |-> [r \in Readouts |-> 0]]
  BY DEF H05Mount
<1> QED BY <1>1, <1>2, <1>3, Zenon DEF H05At

LEMMA H05SameWritten ==
  \A v, x, y, w, l, n, k, u :
    u = v.unit => H05Write(H05At(v, x, y, w, l, n, k), u) = H05At(v, x, y, w, l, n, k)
<1> TAKE v, x, y, w, l, n, k, u
<1> HAVE u = v.unit
<1> DEFINE s == H05At(v, x, y, w, l, n, k)
<1> SUFFICES H05Write(s, u) = s
  OBVIOUS
<1>1. s.store = v
  BY H05Parts
<1> HIDE DEF s
<1> QED BY <1>1 DEF H05Write

LEMMA H05TellsBoth ==
  \A v, x, y, w, n, k, u :
    u # v.unit =>
      H05Write(H05At(v, x, y, w, Readouts, n, k), u)
        = H05At(H05Next(v, u), H05Next(v, u), H05Next(v, u), w, Readouts, n + 1, k + 1)
<1> TAKE v, x, y, w, n, k, u
<1> HAVE u # v.unit
<1> DEFINE s == H05At(v, x, y, w, Readouts, n, k)
           o == H05Next(s.store, u)
           shown == [r \in Readouts |-> IF r \in s.subscribers THEN o ELSE s.shown[r]]
           told == [r \in Readouts |-> IF r \in s.subscribers THEN s.notified[r] + 1 ELSE s.notified[r]]
           t == [s EXCEPT !.store = o, !.shown = shown, !.notified = told]
<1> SUFFICES H05Write(s, u) = H05At(H05Next(v, u), H05Next(v, u), H05Next(v, u), w, Readouts, n + 1, k + 1)
  OBVIOUS
<1>1. s = H05At(v, x, y, w, Readouts, n, k)
  OBVIOUS
<1>2. t = [s EXCEPT !.store = o, !.shown = shown, !.notified = told]
  OBVIOUS
<1>3. /\ s.store = v /\ s.subscribers = Readouts /\ s.shown["north"] = x /\ s.shown["south"] = y
      /\ s.notified["north"] = n /\ s.notified["south"] = k
  BY H05Parts
<1>4. H05Write(s, u) = t
  <2>1. u # s.store.unit
    BY <1>3
  <2> HIDE DEF s
  <2> QED BY <2>1 DEF H05Write, H05Next
<1>5. o = H05Next(v, u)
  BY <1>3
<1>6. shown = H05Pair(H05Next(v, u), H05Next(v, u))
  <2> HIDE DEF s, o
  <2>1. \A r \in Readouts : (IF r \in s.subscribers THEN o ELSE s.shown[r])
          = (IF r = "north" THEN H05Next(v, u) ELSE H05Next(v, u))
    BY <1>3, <1>5 DEF Readouts
  <2> QED BY <2>1 DEF H05Pair
<1>7. told = H05Pair(n + 1, k + 1)
  <2> HIDE DEF s
  <2>1. \A r \in Readouts : (IF r \in s.subscribers THEN s.notified[r] + 1 ELSE s.notified[r])
                               = (IF r = "north" THEN n + 1 ELSE k + 1)
    BY <1>3 DEF Readouts
  <2> QED BY <2>1 DEF H05Pair
<1> HIDE DEF s, o, shown, told, t
<1>8. t = H05At(H05Next(v, u), H05Next(v, u), H05Next(v, u), w, Readouts, n + 1, k + 1)
  BY <1>1, <1>2, <1>5, <1>6, <1>7 DEF H05At
<1> QED BY <1>4, <1>8

LEMMA H05TellsNorth ==
  \A v, x, y, w, n, k, u :
    u # v.unit =>
      H05Write(H05At(v, x, y, w, {"north"}, n, k), u)
        = H05At(H05Next(v, u), H05Next(v, u), y, w, {"north"}, n + 1, k)
<1> TAKE v, x, y, w, n, k, u
<1> HAVE u # v.unit
<1> DEFINE s == H05At(v, x, y, w, {"north"}, n, k)
           o == H05Next(s.store, u)
           shown == [r \in Readouts |-> IF r \in s.subscribers THEN o ELSE s.shown[r]]
           told == [r \in Readouts |-> IF r \in s.subscribers THEN s.notified[r] + 1 ELSE s.notified[r]]
           t == [s EXCEPT !.store = o, !.shown = shown, !.notified = told]
<1> SUFFICES H05Write(s, u) = H05At(H05Next(v, u), H05Next(v, u), y, w, {"north"}, n + 1, k)
  OBVIOUS
<1>1. s = H05At(v, x, y, w, {"north"}, n, k)
  OBVIOUS
<1>2. t = [s EXCEPT !.store = o, !.shown = shown, !.notified = told]
  OBVIOUS
<1>3. /\ s.store = v /\ s.subscribers = {"north"} /\ s.shown["north"] = x /\ s.shown["south"] = y
      /\ s.notified["north"] = n /\ s.notified["south"] = k
  BY H05Parts
<1>4. H05Write(s, u) = t
  <2>1. u # s.store.unit
    BY <1>3
  <2> HIDE DEF s
  <2> QED BY <2>1 DEF H05Write, H05Next
<1>5. o = H05Next(v, u)
  BY <1>3
<1>6. shown = H05Pair(H05Next(v, u), y)
  <2> HIDE DEF s, o
  <2>1. \A r \in Readouts : (IF r \in s.subscribers THEN o ELSE s.shown[r])
          = (IF r = "north" THEN H05Next(v, u) ELSE y)
    BY <1>3, <1>5 DEF Readouts
  <2> QED BY <2>1 DEF H05Pair
<1>7. told = H05Pair(n + 1, k)
  <2> HIDE DEF s
  <2>1. \A r \in Readouts : (IF r \in s.subscribers THEN s.notified[r] + 1 ELSE s.notified[r])
                               = (IF r = "north" THEN n + 1 ELSE k)
    BY <1>3 DEF Readouts
  <2> QED BY <2>1 DEF H05Pair
<1> HIDE DEF s, o, shown, told, t
<1>8. t = H05At(H05Next(v, u), H05Next(v, u), y, w, {"north"}, n + 1, k)
  BY <1>1, <1>2, <1>5, <1>6, <1>7 DEF H05At
<1> QED BY <1>4, <1>8

LEMMA H05TellsNobody ==
  \A v, x, y, w, n, k, u :
    u # v.unit =>
      H05Write(H05At(v, x, y, w, {}, n, k), u)
        = H05At(H05Next(v, u), x, y, w, {}, n, k)
<1> TAKE v, x, y, w, n, k, u
<1> HAVE u # v.unit
<1> DEFINE s == H05At(v, x, y, w, {}, n, k)
           o == H05Next(s.store, u)
           shown == [r \in Readouts |-> IF r \in s.subscribers THEN o ELSE s.shown[r]]
           told == [r \in Readouts |-> IF r \in s.subscribers THEN s.notified[r] + 1 ELSE s.notified[r]]
           t == [s EXCEPT !.store = o, !.shown = shown, !.notified = told]
<1> SUFFICES H05Write(s, u) = H05At(H05Next(v, u), x, y, w, {}, n, k)
  OBVIOUS
<1>1. s = H05At(v, x, y, w, {}, n, k)
  OBVIOUS
<1>2. t = [s EXCEPT !.store = o, !.shown = shown, !.notified = told]
  OBVIOUS
<1>3. /\ s.store = v /\ s.subscribers = {} /\ s.shown["north"] = x /\ s.shown["south"] = y
      /\ s.notified["north"] = n /\ s.notified["south"] = k
  BY H05Parts
<1>4. H05Write(s, u) = t
  <2>1. u # s.store.unit
    BY <1>3
  <2> HIDE DEF s
  <2> QED BY <2>1 DEF H05Write, H05Next
<1>5. o = H05Next(v, u)
  BY <1>3
<1>6. shown = H05Pair(x, y)
  <2> HIDE DEF s, o
  <2>1. \A r \in Readouts : (IF r \in s.subscribers THEN o ELSE s.shown[r]) = (IF r = "north" THEN x ELSE y)
    BY <1>3, <1>5 DEF Readouts
  <2> QED BY <2>1 DEF H05Pair
<1>7. told = H05Pair(n, k)
  <2> HIDE DEF s
  <2>1. \A r \in Readouts : (IF r \in s.subscribers THEN s.notified[r] + 1 ELSE s.notified[r])
                               = (IF r = "north" THEN n ELSE k)
    BY <1>3 DEF Readouts
  <2> QED BY <2>1 DEF H05Pair
<1> HIDE DEF s, o, shown, told, t
<1>8. t = H05At(H05Next(v, u), x, y, w, {}, n, k)
  BY <1>1, <1>2, <1>5, <1>6, <1>7 DEF H05At
<1> QED BY <1>4, <1>8

LEMMA H05Unmounted ==
  \A v, x, y, w, l, n, k, g :
    H05Unmount(H05At(v, x, y, w, l, n, k), g) = H05At(v, x, y, w \ g, l \ g, n, k)
<1> TAKE v, x, y, w, l, n, k, g
<1> DEFINE s == H05At(v, x, y, w, l, n, k)
           t == [s EXCEPT !.mounted = s.mounted \ g, !.subscribers = s.subscribers \ g]
<1> SUFFICES H05Unmount(s, g) = H05At(v, x, y, w \ g, l \ g, n, k)
  OBVIOUS
<1>1. s = H05At(v, x, y, w, l, n, k)
  OBVIOUS
<1>2. t = [s EXCEPT !.mounted = s.mounted \ g, !.subscribers = s.subscribers \ g]
  OBVIOUS
<1>3. s.mounted = w /\ s.subscribers = l
  BY H05Parts
<1>4. H05Unmount(s, g) = t
  <2> HIDE DEF s
  <2> QED BY DEF H05Unmount
<1> HIDE DEF s, t
<1>5. t = H05At(v, x, y, w \ g, l \ g, n, k)
  BY <1>1, <1>2, <1>3 DEF H05At
<1> QED BY <1>4, <1>5

LEMMA H05Remounted ==
  \A v, x, y, n, k :
    H05RemountSouth("preserving", H05At(v, x, y, {"north"}, {"north"}, n, k))
      = H05At(v, x, v, Readouts, Readouts, n, k)
<1> TAKE v, x, y, n, k
<1> DEFINE s == H05At(v, x, y, {"north"}, {"north"}, n, k)
           shown == [s.shown EXCEPT !["south"] = s.store]
           t == [s EXCEPT !.mounted = s.mounted \cup {"south"}, !.shown = shown,
                          !.subscribers = s.subscribers \cup {"south"}]
<1> SUFFICES H05RemountSouth("preserving", s) = H05At(v, x, v, Readouts, Readouts, n, k)
  OBVIOUS
<1>1. s = H05At(v, x, y, {"north"}, {"north"}, n, k)
  OBVIOUS
<1>2. t = [s EXCEPT !.mounted = s.mounted \cup {"south"}, !.shown = shown,
                    !.subscribers = s.subscribers \cup {"south"}]
  OBVIOUS
<1>3. s.mounted = {"north"} /\ s.subscribers = {"north"} /\ s.store = v
  BY H05Parts
<1>4. H05RemountSouth("preserving", s) = t
  <2> HIDE DEF s
  <2>1. "south" \notin s.mounted
    BY <1>3
  <2> QED BY <2>1 DEF H05RemountSouth
<1>5. s.shown = H05Pair(x, y)
  BY DEF H05At
<1>6. shown = H05Pair(x, v)
  <2> HIDE DEF s
  <2>1. shown = [H05Pair(x, y) EXCEPT !["south"] = v]
    BY <1>3, <1>5
  <2> QED BY <2>1 DEF H05Pair, Readouts
<1>7. {"north"} \cup {"south"} = Readouts
  BY DEF Readouts
<1> HIDE DEF s, t, shown
<1>8. t = H05At(v, x, v, Readouts, Readouts, n, k)
  <2>1. t = [s EXCEPT !.mounted = Readouts, !.shown = H05Pair(x, v), !.subscribers = Readouts]
    BY <1>2, <1>3, <1>6, <1>7
  <2> QED BY <1>1, <2>1 DEF H05At
<1> QED BY <1>4, <1>8

\* What B shows after its own write.
H05ReadBack(t) == [t EXCEPT !.shown["north"] = t.store]

LEMMA H05ReadsBack ==
  \A v, x, y, w, l, n, k : H05ReadBack(H05At(v, x, y, w, l, n, k)) = H05At(v, v, y, w, l, n, k)
<1> TAKE v, x, y, w, l, n, k
<1> DEFINE s == H05At(v, x, y, w, l, n, k)
           shown == [s.shown EXCEPT !["north"] = s.store]
           t == [s EXCEPT !.shown = shown]
<1> SUFFICES H05ReadBack(s) = H05At(v, v, y, w, l, n, k)
  OBVIOUS
<1>1. s = H05At(v, x, y, w, l, n, k)
  OBVIOUS
<1>2. t = [s EXCEPT !.shown = shown]
  OBVIOUS
<1>3. s.store = v
  BY H05Parts
<1>4. H05ReadBack(s) = t
  <2> HIDE DEF s
  <2> QED BY DEF H05ReadBack
<1>5. s.shown = H05Pair(x, y)
  BY DEF H05At
<1>6. shown = H05Pair(v, y)
  <2> HIDE DEF s
  <2>1. shown = [H05Pair(x, y) EXCEPT !["north"] = v]
    BY <1>3, <1>5
  <2> QED BY <2>1 DEF H05Pair, Readouts
<1> HIDE DEF s, t, shown
<1>7. t = H05At(v, v, y, w, l, n, k)
  BY <1>1, <1>2, <1>6 DEF H05At
<1> QED BY <1>4, <1>7

LEMMA H05Snapshots ==
  /\ H05Initial = SnapshotAt(0) /\ H05Next(SnapshotAt(0), "imperial") = SnapshotAt(1)
  /\ H05Next(SnapshotAt(1), "metric") = SnapshotAt(2) /\ H05Next(SnapshotAt(2), "imperial") = SnapshotAt(3)
  /\ SnapshotAt(0).unit # "imperial" /\ SnapshotAt(1).unit # "metric" /\ SnapshotAt(1).unit = "imperial"
  /\ SnapshotAt(2).unit # "imperial" /\ SnapshotAt(3).unit = "imperial"
<1>1. /\ SnapshotAt(0) = [unit |-> "metric", revision |-> 0]
      /\ SnapshotAt(1) = [unit |-> "imperial", revision |-> 1]
      /\ SnapshotAt(2) = [unit |-> "metric", revision |-> 2]
      /\ SnapshotAt(3) = [unit |-> "imperial", revision |-> 3]
  <2>1. 0 % 2 = 0 /\ 1 % 2 = 1 /\ 2 % 2 = 0 /\ 3 % 2 = 1
    OBVIOUS
  <2> QED BY <2>1 DEF SnapshotAt
<1> QED BY <1>1 DEF H05Initial, H05Next

LEMMA H05Sizes ==
  Cardinality(Readouts) = 2 /\ Cardinality({"north"}) = 1 /\ Cardinality({}) = 0
<1>1. Cardinality({"north"}) = 1 /\ IsFiniteSet({"north"})
  BY FS_Singleton
<1>2. "south" \notin {"north"} /\ {"north"} \cup {"south"} = Readouts
  BY DEF Readouts
<1>3. Cardinality(Readouts) = Cardinality({"north"}) + 1
  BY <1>1, <1>2, FS_AddElement
<1> QED BY <1>1, <1>3, FS_EmptySet

LEMMA H05CanonicalShows ==
  ASSUME NEW c \in {"preserving", "false_green"}, NEW st, Passes("H05", c, Canonical, 7, st)
  PROVE  H05Oracle([i \in 1 .. 8 |-> st[i]]) <=> c = "preserving"
<1> DEFINE fs == [i \in 1 .. 8 |-> st[i]]
<1> SUFFICES H05Oracle(fs) <=> c = "preserving"
  OBVIOUS
<1>1. /\ st[1] = H05Mount(c, TRUE)
      /\ st[2] = H05Step(c, st[1], <<"toolbarWrite", "imperial">>)
      /\ st[3] = H05Step(c, st[2], <<"externalWrite", "metric">>)
      /\ st[4] = H05Step(c, st[3], <<"unmountSouth">>)
      /\ st[5] = H05Step(c, st[4], <<"externalWrite", "imperial">>)
      /\ st[6] = H05Step(c, st[5], <<"remountSouth">>)
      /\ st[7] = H05Step(c, st[6], <<"externalWrite", "imperial">>)
      /\ st[8] = H05Step(c, st[7], <<"dispose">>)
  <2>1. (Canonical \in {Free, Canonical}) = TRUE
    OBVIOUS
  <2>2. MountOf("H05", c, Canonical) = H05Mount(c, Canonical \in {Free, Canonical})
    BY DEF MountOf
  <2>3. MountOf("H05", c, Canonical) = H05Mount(c, TRUE)
    BY <2>1, <2>2, Zenon
  <2>4. st[1] = H05Mount(c, TRUE)
    BY <2>3 DEF Passes
  <2>5. /\ st[2] = H05Step(c, st[1], <<"toolbarWrite", "imperial">>)
        /\ st[3] = H05Step(c, st[2], <<"externalWrite", "metric">>)
        /\ st[4] = H05Step(c, st[3], <<"unmountSouth">>)
        /\ st[5] = H05Step(c, st[4], <<"externalWrite", "imperial">>)
        /\ st[6] = H05Step(c, st[5], <<"remountSouth">>)
        /\ st[7] = H05Step(c, st[6], <<"externalWrite", "imperial">>)
        /\ st[8] = H05Step(c, st[7], <<"dispose">>)
    BY DEF Passes, ScriptOf, CanonicalOf, StepOf, H05Canonical
  <2> QED BY <2>4, <2>5
<1>2. \A i \in 1 .. 8 : fs[i] = st[i]
  OBVIOUS
<1>3. Len(fs) = 8 /\ DOMAIN fs = 1 .. 8
  OBVIOUS
<1> HIDE DEF fs
<1>4. CASE c = "preserving"
  <2>1. st[1] = H05At(SnapshotAt(0), SnapshotAt(0), SnapshotAt(0), Readouts, Readouts, 0, 0)
    BY <1>1, <1>4, H05Starts, H05Snapshots
  <2>2. st[2] = H05At(SnapshotAt(1), SnapshotAt(1), SnapshotAt(1), Readouts, Readouts, 1, 1)
    <3>1. st[2] = H05Write(st[1], "imperial")
      BY <1>1, <1>4 DEF H05Step
    <3>2. st[2] = H05At(SnapshotAt(1), SnapshotAt(1), SnapshotAt(1), Readouts, Readouts, 0 + 1, 0 + 1)
      BY <2>1, <3>1, H05TellsBoth, H05Snapshots
    <3> QED BY <3>2
  <2>3. st[3] = H05At(SnapshotAt(2), SnapshotAt(2), SnapshotAt(2), Readouts, Readouts, 2, 2)
    <3>1. st[3] = H05Write(st[2], "metric")
      BY <1>1, <1>4 DEF H05Step
    <3>2. st[3] = H05At(SnapshotAt(2), SnapshotAt(2), SnapshotAt(2), Readouts, Readouts, 1 + 1, 1 + 1)
      BY <2>2, <3>1, H05TellsBoth, H05Snapshots
    <3> QED BY <3>2
  <2>4. st[4] = H05At(SnapshotAt(2), SnapshotAt(2), SnapshotAt(2), {"north"}, {"north"}, 2, 2)
    <3>1. st[4] = H05Unmount(st[3], {"south"})
      BY <1>1, <1>4 DEF H05Step
    <3>2. Readouts \ {"south"} = {"north"}
      BY DEF Readouts
    <3>3. st[4] = H05At(SnapshotAt(2), SnapshotAt(2), SnapshotAt(2), Readouts \ {"south"},
            Readouts \ {"south"}, 2, 2)
      BY <2>3, <3>1, H05Unmounted
    <3> QED BY <3>2, <3>3
  <2>5. st[5] = H05At(SnapshotAt(3), SnapshotAt(3), SnapshotAt(2), {"north"}, {"north"}, 3, 2)
    <3>1. st[5] = H05Write(st[4], "imperial")
      BY <1>1, <1>4 DEF H05Step
    <3>2. st[5] = H05At(SnapshotAt(3), SnapshotAt(3), SnapshotAt(2), {"north"}, {"north"}, 2 + 1, 2)
      BY <2>4, <3>1, H05TellsNorth, H05Snapshots
    <3> QED BY <3>2
  <2>6. st[6] = H05At(SnapshotAt(3), SnapshotAt(3), SnapshotAt(3), Readouts, Readouts, 3, 2)
    <3>1. st[6] = H05RemountSouth("preserving", st[5])
      BY <1>1, <1>4 DEF H05Step
    <3> QED BY <2>5, <3>1, H05Remounted
  <2>7. st[7] = H05At(SnapshotAt(3), SnapshotAt(3), SnapshotAt(3), Readouts, Readouts, 3, 2)
    <3>1. st[7] = H05Write(st[6], "imperial")
      BY <1>1, <1>4 DEF H05Step
    <3> QED BY <2>6, <3>1, H05SameWritten, H05Snapshots
  <2>8. st[8] = H05At(SnapshotAt(3), SnapshotAt(3), SnapshotAt(3), {}, {}, 3, 2)
    <3>1. st[8] = H05Unmount(st[7], Readouts)
      BY <1>1, <1>4 DEF H05Step
    <3>2. st[8] = H05At(SnapshotAt(3), SnapshotAt(3), SnapshotAt(3), Readouts \ Readouts,
            Readouts \ Readouts, 3, 2)
      BY <2>7, <3>1, H05Unmounted
    <3>3. Readouts \ Readouts = {}
      OBVIOUS
    <3> QED BY <3>2, <3>3
  <2> DEFINE Right(i) ==
               LET row == H05Expected[i]
               IN  /\ fs[i].store = SnapshotAt(row[1])
                   /\ fs[i].shown["north"] = SnapshotAt(row[2])
                   /\ fs[i].shown["south"] = SnapshotAt(row[3])
                   /\ Cardinality(fs[i].subscribers) = row[4]
                   /\ fs[i].notified["north"] = row[5]
                   /\ fs[i].notified["south"] = row[6]
  <2>9. Right(1)
    <3>1. /\ H05Expected[1][1] = 0 /\ H05Expected[1][2] = 0 /\ H05Expected[1][3] = 0
          /\ H05Expected[1][4] = 2 /\ H05Expected[1][5] = 0 /\ H05Expected[1][6] = 0
      BY DEF H05Expected
    <3>2. /\ fs[1].store = SnapshotAt(0) /\ fs[1].shown["north"] = SnapshotAt(0)
          /\ fs[1].shown["south"] = SnapshotAt(0) /\ fs[1].subscribers = Readouts
          /\ fs[1].notified["north"] = 0 /\ fs[1].notified["south"] = 0
      BY <1>2, <2>1, H05Parts
    <3> QED BY <3>1, <3>2, H05Sizes, Zenon
  <2>10. Right(2)
    <3>1. /\ H05Expected[2][1] = 1 /\ H05Expected[2][2] = 1 /\ H05Expected[2][3] = 1
          /\ H05Expected[2][4] = 2 /\ H05Expected[2][5] = 1 /\ H05Expected[2][6] = 1
      BY DEF H05Expected
    <3>2. /\ fs[2].store = SnapshotAt(1) /\ fs[2].shown["north"] = SnapshotAt(1)
          /\ fs[2].shown["south"] = SnapshotAt(1) /\ fs[2].subscribers = Readouts
          /\ fs[2].notified["north"] = 1 /\ fs[2].notified["south"] = 1
      BY <1>2, <2>2, H05Parts
    <3> QED BY <3>1, <3>2, H05Sizes, Zenon
  <2>11. Right(3)
    <3>1. /\ H05Expected[3][1] = 2 /\ H05Expected[3][2] = 2 /\ H05Expected[3][3] = 2
          /\ H05Expected[3][4] = 2 /\ H05Expected[3][5] = 2 /\ H05Expected[3][6] = 2
      BY DEF H05Expected
    <3>2. /\ fs[3].store = SnapshotAt(2) /\ fs[3].shown["north"] = SnapshotAt(2)
          /\ fs[3].shown["south"] = SnapshotAt(2) /\ fs[3].subscribers = Readouts
          /\ fs[3].notified["north"] = 2 /\ fs[3].notified["south"] = 2
      BY <1>2, <2>3, H05Parts
    <3> QED BY <3>1, <3>2, H05Sizes, Zenon
  <2>12. Right(4)
    <3>1. /\ H05Expected[4][1] = 2 /\ H05Expected[4][2] = 2 /\ H05Expected[4][3] = 2
          /\ H05Expected[4][4] = 1 /\ H05Expected[4][5] = 2 /\ H05Expected[4][6] = 2
      BY DEF H05Expected
    <3>2. /\ fs[4].store = SnapshotAt(2) /\ fs[4].shown["north"] = SnapshotAt(2)
          /\ fs[4].shown["south"] = SnapshotAt(2) /\ fs[4].subscribers = {"north"}
          /\ fs[4].notified["north"] = 2 /\ fs[4].notified["south"] = 2
      BY <1>2, <2>4, H05Parts
    <3> QED BY <3>1, <3>2, H05Sizes, Zenon
  <2>13. Right(5)
    <3>1. /\ H05Expected[5][1] = 3 /\ H05Expected[5][2] = 3 /\ H05Expected[5][3] = 2
          /\ H05Expected[5][4] = 1 /\ H05Expected[5][5] = 3 /\ H05Expected[5][6] = 2
      BY DEF H05Expected
    <3>2. /\ fs[5].store = SnapshotAt(3) /\ fs[5].shown["north"] = SnapshotAt(3)
          /\ fs[5].shown["south"] = SnapshotAt(2) /\ fs[5].subscribers = {"north"}
          /\ fs[5].notified["north"] = 3 /\ fs[5].notified["south"] = 2
      BY <1>2, <2>5, H05Parts
    <3> QED BY <3>1, <3>2, H05Sizes, Zenon
  <2>14. Right(6)
    <3>1. /\ H05Expected[6][1] = 3 /\ H05Expected[6][2] = 3 /\ H05Expected[6][3] = 3
          /\ H05Expected[6][4] = 2 /\ H05Expected[6][5] = 3 /\ H05Expected[6][6] = 2
      BY DEF H05Expected
    <3>2. /\ fs[6].store = SnapshotAt(3) /\ fs[6].shown["north"] = SnapshotAt(3)
          /\ fs[6].shown["south"] = SnapshotAt(3) /\ fs[6].subscribers = Readouts
          /\ fs[6].notified["north"] = 3 /\ fs[6].notified["south"] = 2
      BY <1>2, <2>6, H05Parts
    <3> QED BY <3>1, <3>2, H05Sizes, Zenon
  <2>15. Right(7)
    <3>1. /\ H05Expected[7][1] = 3 /\ H05Expected[7][2] = 3 /\ H05Expected[7][3] = 3
          /\ H05Expected[7][4] = 2 /\ H05Expected[7][5] = 3 /\ H05Expected[7][6] = 2
      BY DEF H05Expected
    <3>2. /\ fs[7].store = SnapshotAt(3) /\ fs[7].shown["north"] = SnapshotAt(3)
          /\ fs[7].shown["south"] = SnapshotAt(3) /\ fs[7].subscribers = Readouts
          /\ fs[7].notified["north"] = 3 /\ fs[7].notified["south"] = 2
      BY <1>2, <2>7, H05Parts
    <3> QED BY <3>1, <3>2, H05Sizes, Zenon
  <2>16. Right(8)
    <3>1. /\ H05Expected[8][1] = 3 /\ H05Expected[8][2] = 3 /\ H05Expected[8][3] = 3
          /\ H05Expected[8][4] = 0 /\ H05Expected[8][5] = 3 /\ H05Expected[8][6] = 2
      BY DEF H05Expected
    <3>2. /\ fs[8].store = SnapshotAt(3) /\ fs[8].shown["north"] = SnapshotAt(3)
          /\ fs[8].shown["south"] = SnapshotAt(3) /\ fs[8].subscribers = {}
          /\ fs[8].notified["north"] = 3 /\ fs[8].notified["south"] = 2
      BY <1>2, <2>8, H05Parts
    <3> QED BY <3>1, <3>2, H05Sizes, Zenon
  <2> HIDE DEF Right
  <2>17. \A i \in 1 .. 8 : Right(i)
    BY <2>9, <2>10, <2>11, <2>12, <2>13, <2>14, <2>15, <2>16
  <2>18. Len(H05Expected) = 8
    BY DEF H05Expected
  <2>19. H05Oracle(fs)
    BY <1>3, <2>17, <2>18 DEF H05Oracle, Right
  <2> QED BY <1>4, <2>19
\* Candidate B subscribes nobody.
<1>5. CASE c = "false_green"
  <2>1. st[1].subscribers = {}
    BY <1>1, <1>5 DEF H05Mount
  <2>2. Cardinality(fs[1].subscribers) = 0
    BY <1>2, <2>1, H05Sizes
  <2>3. Cardinality(fs[1].subscribers) # H05Expected[1][4] /\ 1 \in DOMAIN fs
    BY <1>3, <2>2 DEF H05Expected
  <2> QED BY <1>5, <2>3 DEF H05Oracle
<1> QED BY <1>4, <1>5

LEMMA H05VisibleShows ==
  ASSUME NEW c, NEW k \in DOMAIN H05Visible, NEW st,
         Passes("H05", c, Assertion(k), Len(H05Visible[k]), st)
  PROVE  H05Holds(k, [i \in 1 .. Len(H05Visible[k]) + 1 |-> st[i]])
<1> DEFINE fs == [i \in 1 .. Len(H05Visible[k]) + 1 |-> st[i]]
<1> SUFFICES H05Holds(k, fs)
  OBVIOUS
<1>0. Assertion(k) \notin {Free, Canonical}
  BY DEF Assertion, Free, Canonical
<1>1. PICK l : st[1] = H05At(SnapshotAt(0), SnapshotAt(0), NoReadout, {"north"}, l, 0, 0)
               /\ (c = "preserving" => l = {"north"}) /\ (c # "preserving" => l = {})
  <2>1. st[1] = H05Mount(c, FALSE)
    <3>1. (Assertion(k) \in {Free, Canonical}) = FALSE
      BY <1>0
    <3>2. st[1] = H05Mount(c, Assertion(k) \in {Free, Canonical})
      BY DEF Passes, MountOf
    <3> QED BY <3>1, <3>2, Zenon
  <2> QED BY <2>1, H05SingleStarts, H05Snapshots
<1>2. k \in 1 .. 4
  BY DEF H05Visible
<1>3. CASE k = 1
  <2>1. Last(fs) = st[1]
    BY <1>3 DEF H05Visible, Last
  <2> HIDE DEF fs
  <2>2. Last(fs).shown["north"] = H05Initial
    BY <1>1, <2>1, H05Parts, H05Snapshots
  <2> QED BY <1>3, <2>2 DEF H05Holds
\* The write shows imperial, by the notification or by the reading back.
<1>4. ASSUME st[2] = H05Step(c, st[1], <<"toolbarWrite", "imperial">>)
      PROVE  \E n : st[2] = H05At(SnapshotAt(1), SnapshotAt(1), NoReadout, {"north"}, l, n, 0)
  <2>1. CASE c = "preserving"
    <3>1. st[2] = H05Write(st[1], "imperial")
      BY <1>4, <2>1 DEF H05Step
    <3>2. st[2] = H05At(SnapshotAt(1), SnapshotAt(1), NoReadout, {"north"}, {"north"}, 0 + 1, 0)
      <4>1. st[1] = H05At(SnapshotAt(0), SnapshotAt(0), NoReadout, {"north"}, {"north"}, 0, 0)
        BY <1>1, <2>1
      <4> QED BY <3>1, <4>1, H05TellsNorth, H05Snapshots
    <3> QED BY <1>1, <2>1, <3>2
  <2>2. CASE c # "preserving"
    <3> DEFINE t == H05Write(st[1], "imperial")
    <3>1. st[2] = H05FalseGreenWrite(st[1], "imperial")
      BY <1>4, <2>2 DEF H05Step
    <3>2. t = H05At(SnapshotAt(1), SnapshotAt(0), NoReadout, {"north"}, {}, 0, 0)
      <4>1. st[1] = H05At(SnapshotAt(0), SnapshotAt(0), NoReadout, {"north"}, {}, 0, 0)
        BY <1>1, <2>2
      <4> QED BY <4>1, H05TellsNobody, H05Snapshots
    <3>3. H05FalseGreenWrite(st[1], "imperial") = H05ReadBack(t)
      BY DEF H05FalseGreenWrite, H05ReadBack
    <3> HIDE DEF t
    <3>4. st[2] = H05At(SnapshotAt(1), SnapshotAt(1), NoReadout, {"north"}, {}, 0, 0)
      BY <3>1, <3>2, <3>3, H05ReadsBack
    <3> QED BY <1>1, <2>2, <3>4
  <2> QED BY <2>1, <2>2
<1>5. CASE k = 2
  <2>1. st[2] = H05Step(c, st[1], <<"toolbarWrite", "imperial">>) /\ Last(fs) = st[2]
    BY <1>5 DEF Passes, ScriptOf, VisibleOf, StepOf, H05Visible, Assertion, Canonical, Last
  <2> HIDE DEF fs
  <2>2. Last(fs).shown["north"] = SnapshotAt(1)
    BY <1>4, <2>1, H05Parts
  <2>3. SnapshotAt(1) = [unit |-> "imperial", revision |-> 1]
    <3>1. 1 % 2 = 1
      OBVIOUS
    <3> QED BY <3>1 DEF SnapshotAt
  <2>4. Last(fs).shown["north"] = [unit |-> "imperial", revision |-> 1]
    BY <2>2, <2>3, Zenon
  <2> QED BY <1>5, <2>4 DEF H05Holds
<1>6. CASE k = 3
  <2>1. /\ st[2] = H05Step(c, st[1], <<"toolbarWrite", "imperial">>)
        /\ st[3] = H05Step(c, st[2], <<"toolbarWrite", "imperial">>)
        /\ fs[2] = st[2] /\ Last(fs) = st[3]
    BY <1>6 DEF Passes, ScriptOf, VisibleOf, StepOf, H05Visible, Assertion, Canonical, Last
  <2> HIDE DEF fs
  <2>2. PICK n : st[2] = H05At(SnapshotAt(1), SnapshotAt(1), NoReadout, {"north"}, l, n, 0)
    BY <1>4, <2>1
  <2>3. H05Write(st[2], "imperial") = st[2]
    BY <2>2, H05SameWritten, H05Snapshots
  <2>4. st[3].store = SnapshotAt(1)
    <3>1. CASE c = "preserving"
      <4>1. st[3] = H05Write(st[2], "imperial")
        BY <2>1, <3>1 DEF H05Step
      <4> QED BY <2>2, <2>3, <4>1, H05Parts
    <3>2. CASE c # "preserving"
      <4>1. st[3] = H05FalseGreenWrite(st[2], "imperial")
        BY <2>1, <3>2 DEF H05Step
      <4>2. H05FalseGreenWrite(st[2], "imperial") = H05ReadBack(st[2])
        BY <2>3 DEF H05FalseGreenWrite, H05ReadBack
      <4>3. st[3] = st[2]
        BY <2>2, <4>1, <4>2, H05ReadsBack
      <4> QED BY <2>2, <4>3, H05Parts
    <3> QED BY <3>1, <3>2
  <2>5. fs[2].store = Last(fs).store /\ Last(fs).store = SnapshotAt(1)
    BY <2>1, <2>2, <2>4, H05Parts
  <2>6. SnapshotAt(1).revision = 1
    BY DEF SnapshotAt
  <2> QED BY <1>6, <2>5, <2>6 DEF H05Holds
<1>7. CASE k = 4
  <2>1. st[2] = H05Step(c, st[1], <<"dispose">>) /\ Last(fs) = st[2]
    BY <1>7 DEF Passes, ScriptOf, VisibleOf, StepOf, H05Visible, Assertion, Canonical, Last
  <2> HIDE DEF fs
  <2>2. st[2] = H05Unmount(st[1], Readouts)
    BY <2>1 DEF H05Step
  <2>3. Last(fs).subscribers = l \ Readouts
    <3>1. st[2] = H05At(SnapshotAt(0), SnapshotAt(0), NoReadout, {"north"} \ Readouts, l \ Readouts, 0, 0)
      BY <1>1, <2>2, H05Unmounted
    <3> QED BY <2>1, <3>1, H05Parts
  <2>4. Last(fs).subscribers = {}
    BY <1>1, <2>3 DEF Readouts
  <2> QED BY <1>7, <2>4 DEF H05Holds
<1> QED BY <1>2, <1>3, <1>5, <1>6, <1>7

-----------------------------------------------------------------------------
(* What the scripts of BG-H06 show. *)

\* A state and a frame; shown is "yes" while an error is.
H06At(displayed, committed, status, shown, pending) ==
  [displayed |-> displayed, committed |-> committed, status |-> status, error |-> shown = "yes",
   pending |-> pending]

H06Seen(displayed, committed, status, shown) ==
  [displayed |-> displayed, committed |-> committed, status |-> status, error |-> shown = "yes",
   pendingCount |-> IF status = "saving" THEN 1 ELSE 0]

LEMMA H06Starts == H06Mount = H06At("light", "light", "idle", "no", NoSave)
BY DEF H06Mount, H06At

LEMMA H06Chosen ==
  ASSUME NEW c, NEW d, NEW m, NEW e, NEW t
  PROVE  t # m => H06Step(c, H06At(d, m, "idle", e, NoSave), <<"choose", t>>)
                    = H06At(t, m, "saving", "no", <<t, m>>)
BY DEF H06At, H06Step, H06Choose, NoSave

LEMMA H06Ignored ==
  ASSUME NEW c, NEW d, NEW m, NEW e, NEW t, NEW x
  PROVE  H06Step(c, H06At(d, m, "saving", e, x), <<"choose", t>>) = H06At(d, m, "saving", e, x)
BY DEF H06At, H06Step, H06Choose

LEMMA H06Dismissed ==
  ASSUME NEW c, NEW d, NEW m, NEW e
  PROVE  H06Step(c, H06At(d, m, "idle", e, NoSave), <<"dismiss-error">>)
           = H06At(d, m, "idle", "no", NoSave)
BY DEF H06At, H06Step

LEMMA H06Resolved ==
  ASSUME NEW c, NEW d, NEW m, NEW e, NEW t, NEW x
  PROVE  H06Step(c, H06At(d, m, "saving", e, <<t, x>>), <<"resolve">>)
           = H06At(t, t, "idle", "no", NoSave)
BY DEF H06At, H06Step, H06Settled, NoSave

LEMMA H06PutBack ==
  ASSUME NEW d, NEW m, NEW e, NEW t, NEW x
  PROVE  H06Step("preserving", H06At(d, m, "saving", e, <<t, x>>), <<"reject">>)
           = H06At(x, x, "idle", "yes", NoSave)
BY DEF H06At, H06Step, H06Settled, NoSave, H06RejectPreserving

LEMMA H06LeftShown ==
  ASSUME NEW d, NEW m, NEW e, NEW t, NEW x
  PROVE  H06Step("false_green", H06At(d, m, "saving", e, <<t, x>>), <<"reject">>)
           = H06At(t, x, "idle", "yes", NoSave)
BY DEF H06At, H06Step, H06Settled, NoSave, H06RejectFalseGreen

LEMMA H06NothingToReject ==
  ASSUME NEW c, NEW d, NEW m, NEW e
  PROVE  H06Step(c, H06At(d, m, "idle", e, NoSave), <<"reject">>) = H06At(d, m, "idle", e, NoSave)
BY DEF H06At, H06Step

LEMMA H06Idle ==
  ASSUME NEW d, NEW m, NEW e
  PROVE  H06Observe(H06At(d, m, "idle", e, NoSave)) = H06Seen(d, m, "idle", e)
BY DEF H06At, H06Observe, H06Seen

LEMMA H06Saving ==
  ASSUME NEW d, NEW m, NEW e, NEW t, NEW x
  PROVE  H06Observe(H06At(d, m, "saving", e, <<t, x>>)) = H06Seen(d, m, "saving", e)
BY DEF H06At, H06Observe, H06Seen, NoSave

LEMMA H06CanonicalShows ==
  ASSUME NEW c \in {"preserving", "false_green"}, NEW st, Passes("H06", c, Canonical, 9, st)
  PROVE  H06Oracle([i \in 1 .. 10 |-> H06Observe(st[i])]) <=> c = "preserving"
<1> DEFINE fs == [i \in 1 .. 10 |-> H06Observe(st[i])]
<1>1. /\ st[1] = H06Mount
      /\ st[2] = H06Step(c, st[1], <<"choose", "dark">>)
      /\ st[3] = H06Step(c, st[2], <<"choose", "light">>)
      /\ st[4] = H06Step(c, st[3], <<"reject">>)
      /\ st[5] = H06Step(c, st[4], <<"dismiss-error">>)
      /\ st[6] = H06Step(c, st[5], <<"choose", "dark">>)
      /\ st[7] = H06Step(c, st[6], <<"resolve">>)
      /\ st[8] = H06Step(c, st[7], <<"choose", "light">>)
      /\ st[9] = H06Step(c, st[8], <<"reject">>)
      /\ st[10] = H06Step(c, st[9], <<"reject">>)
  BY DEF Passes, ScriptOf, CanonicalOf, MountOf, StepOf, H06Canonical
<1>2. st[1] = H06At("light", "light", "idle", "no", NoSave)
  BY <1>1, H06Starts
<1>3. st[2] = H06At("dark", "light", "saving", "no", <<"dark", "light">>)
  BY <1>1, <1>2, H06Chosen
<1>4. st[3] = H06At("dark", "light", "saving", "no", <<"dark", "light">>)
  BY <1>1, <1>3, H06Ignored
<1>5. H06Expected =
        << H06Seen("light", "light", "idle", "no"), H06Seen("dark", "light", "saving", "no"),
           H06Seen("dark", "light", "saving", "no"), H06Seen("light", "light", "idle", "yes"),
           H06Seen("light", "light", "idle", "no"), H06Seen("dark", "light", "saving", "no"),
           H06Seen("dark", "dark", "idle", "no"), H06Seen("light", "dark", "saving", "no"),
           H06Seen("dark", "dark", "idle", "yes"), H06Seen("dark", "dark", "idle", "yes") >>
  BY DEF H06Expected, H06Frame, H06Seen
<1>6. CASE c = "preserving"
  <2>1. st[4] = H06At("light", "light", "idle", "yes", NoSave)
    BY <1>1, <1>4, <1>6, H06PutBack
  <2>2. st[5] = H06At("light", "light", "idle", "no", NoSave)
    BY <1>1, <2>1, H06Dismissed
  <2>3. st[6] = H06At("dark", "light", "saving", "no", <<"dark", "light">>)
    BY <1>1, <2>2, H06Chosen
  <2>4. st[7] = H06At("dark", "dark", "idle", "no", NoSave)
    BY <1>1, <2>3, H06Resolved
  <2>5. st[8] = H06At("light", "dark", "saving", "no", <<"light", "dark">>)
    BY <1>1, <2>4, H06Chosen
  <2>6. st[9] = H06At("dark", "dark", "idle", "yes", NoSave)
    BY <1>1, <1>6, <2>5, H06PutBack
  <2>7. st[10] = H06At("dark", "dark", "idle", "yes", NoSave)
    BY <1>1, <2>6, H06NothingToReject
  <2>8. /\ H06Observe(st[1]) = H06Seen("light", "light", "idle", "no")
        /\ H06Observe(st[2]) = H06Seen("dark", "light", "saving", "no")
        /\ H06Observe(st[3]) = H06Seen("dark", "light", "saving", "no")
        /\ H06Observe(st[4]) = H06Seen("light", "light", "idle", "yes")
        /\ H06Observe(st[5]) = H06Seen("light", "light", "idle", "no")
        /\ H06Observe(st[6]) = H06Seen("dark", "light", "saving", "no")
        /\ H06Observe(st[7]) = H06Seen("dark", "dark", "idle", "no")
        /\ H06Observe(st[8]) = H06Seen("light", "dark", "saving", "no")
        /\ H06Observe(st[9]) = H06Seen("dark", "dark", "idle", "yes")
        /\ H06Observe(st[10]) = H06Seen("dark", "dark", "idle", "yes")
    BY <1>2, <1>3, <1>4, <2>1, <2>2, <2>3, <2>4, <2>5, <2>6, <2>7, H06Idle, H06Saving
  <2>9. fs = H06Expected
    BY <1>5, <2>8
  <2> QED BY <1>6, <2>9 DEF H06Oracle
<1>7. CASE c = "false_green"
  <2>1. st[4] = H06At("dark", "light", "idle", "yes", NoSave)
    BY <1>1, <1>4, <1>7, H06LeftShown
  <2>2. fs[4] = H06Seen("dark", "light", "idle", "yes")
    BY <2>1, H06Idle
  <2>3. fs[4] # H06Expected[4]
    BY <1>5, <2>2 DEF H06Seen
  <2> QED BY <1>7, <2>3 DEF H06Oracle
<1> QED BY <1>6, <1>7

LEMMA H06VisibleShows ==
  ASSUME NEW c, NEW k \in DOMAIN H06Visible, NEW st,
         Passes("H06", c, Assertion(k), Len(H06Visible[k]), st)
  PROVE  H06Holds(k, [i \in 1 .. Len(H06Visible[k]) + 1 |-> H06Observe(st[i])])
<1> DEFINE fs == [i \in 1 .. Len(H06Visible[k]) + 1 |-> H06Observe(st[i])]
<1> SUFFICES H06Holds(k, fs)
  OBVIOUS
<1>1. st[1] = H06At("light", "light", "idle", "no", NoSave)
  BY H06Starts DEF Passes, MountOf
<1>2. k \in 1 .. 4
  BY DEF H06Visible
<1>3. CASE k = 1
  <2>1. Last(fs) = H06Observe(st[1])
    BY <1>3 DEF H06Visible, Last
  <2>2. Last(fs) = H06Seen("light", "light", "idle", "no")
    BY <1>1, <2>1, H06Idle
  <2>3. Last(fs) = H06Frame("light", "light", "idle", FALSE)
    BY <2>2 DEF H06Frame, H06Seen
  <2> HIDE DEF fs
  <2> QED BY <1>3, <2>3 DEF H06Holds
<1>4. CASE k = 2
  <2>1. st[2] = H06Step(c, st[1], <<"choose", "dark">>) /\ Last(fs) = H06Observe(st[2])
    BY <1>4 DEF Passes, ScriptOf, VisibleOf, StepOf, H06Visible, Assertion, Canonical, Last
  <2>2. st[2] = H06At("dark", "light", "saving", "no", <<"dark", "light">>)
    BY <1>1, <2>1, H06Chosen
  <2>3. Last(fs) = H06Seen("dark", "light", "saving", "no")
    BY <2>1, <2>2, H06Saving
  <2> QED BY <1>4, <2>3 DEF H06Holds, H06Frame, H06Seen
<1>5. CASE k = 3
  <2>1. /\ st[2] = H06Step(c, st[1], <<"choose", "dark">>)
        /\ st[3] = H06Step(c, st[2], <<"resolve">>) /\ Last(fs) = H06Observe(st[3])
    BY <1>5 DEF Passes, ScriptOf, VisibleOf, StepOf, H06Visible, Assertion, Canonical, Last
  <2>2. st[2] = H06At("dark", "light", "saving", "no", <<"dark", "light">>)
    BY <1>1, <2>1, H06Chosen
  <2>3. st[3] = H06At("dark", "dark", "idle", "no", NoSave)
    BY <2>1, <2>2, H06Resolved
  <2>4. Last(fs) = H06Seen("dark", "dark", "idle", "no")
    BY <2>1, <2>3, H06Idle
  <2>5. Last(fs) = H06Frame("dark", "dark", "idle", FALSE)
    BY <2>4 DEF H06Frame, H06Seen
  <2> HIDE DEF fs
  <2> QED BY <1>5, <2>5 DEF H06Holds
<1>6. CASE k = 4
  <2>1. /\ st[2] = H06Step(c, st[1], <<"dismiss-error">>)
        /\ Last(fs) = H06Observe(st[2]) /\ fs[1] = H06Observe(st[1])
    BY <1>6 DEF Passes, ScriptOf, VisibleOf, StepOf, H06Visible, Assertion, Canonical, Last
  <2>2. st[2] = H06At("light", "light", "idle", "no", NoSave)
    BY <1>1, <2>1, H06Dismissed
  <2>3. Last(fs) = fs[1]
    BY <1>1, <2>1, <2>2
  <2> QED BY <1>6, <2>3 DEF H06Holds
<1> QED BY <1>2, <1>3, <1>4, <1>5, <1>6

-----------------------------------------------------------------------------
(* The scripts of the ten fixtures, one after the other. *)

LEMMA ScriptedModes ==
  ASSUME NEW f, NEW m \in Modes(f), m # Free
  PROVE  \/ m = Canonical /\ ScriptOf(f, m) = CanonicalOf(f)
         \/ \E k \in DOMAIN VisibleOf(f) :
              m = Assertion(k) /\ m # Canonical /\ m[2] = k /\ ScriptOf(f, m) = VisibleOf(f)[k]
<1>1. CASE m = Canonical
  BY <1>1 DEF ScriptOf
<1>2. CASE m # Canonical
  <2>1. PICK k \in DOMAIN VisibleOf(f) : m = Assertion(k)
    BY <1>2 DEF Modes
  <2>2. m[2] = k
    BY <2>1 DEF Assertion
  <2> QED BY <1>2, <2>1, <2>2 DEF ScriptOf
<1> QED BY <1>1, <1>2

LEMMA D01Shows ==
  ASSUME NEW c \in Candidates("D01"), NEW m \in Modes("D01"), m # Free, NEW st,
         Passes("D01", c, m, Len(ScriptOf("D01", m)), st)
  PROVE  Shows("D01", c, m, st)
<1>1. /\ CanonicalOf("D01") = D01Canonical /\ VisibleOf("D01") = D01Visible
      /\ \A fs : OracleOf("D01", fs) <=> D01Oracle(fs)
      /\ \A k, fs : HoldsOf("D01", k, fs) <=> D01Holds(k, fs)
  BY DEF CanonicalOf, VisibleOf, OracleOf, HoldsOf
<1>2. \A k : Read("D01", c, k, st) = [i \in 1 .. k + 1 |-> st[i]]
  BY DEF Read, ObserveOf
<1>3. c \in {"legacy", "preserving", "false_green"}
  BY DEF Candidates
<1>4. CASE m = Canonical /\ ScriptOf("D01", m) = CanonicalOf("D01")
  <2>1. Len(ScriptOf("D01", m)) = 8
    BY <1>1, <1>4 DEF D01Canonical
  <2>2. Read("D01", c, 8, st) = [i \in 1 .. 9 |-> st[i]]
    <3>1. 8 + 1 = 9
      OBVIOUS
    <3> QED BY <1>2, <3>1
  <2>3. D01Oracle(Read("D01", c, 8, st)) <=> c # "false_green"
    <3>1. Passes("D01", c, Canonical, 8, st)
      BY <1>4, <2>1
    <3> QED BY <1>3, <2>2, <3>1, D01CanonicalShows
  <2>4. OracleOf("D01", Read("D01", c, Len(ScriptOf("D01", m)), st)) <=> c # "false_green"
    BY <1>1, <2>1, <2>3
  <2> QED BY <1>4, <2>4 DEF Shows
<1>5. ASSUME NEW k \in DOMAIN D01Visible, m = Assertion(k), m # Canonical, m[2] = k,
             ScriptOf("D01", m) = D01Visible[k]
      PROVE  Shows("D01", c, m, st)
  <2>1. Passes("D01", c, Assertion(k), Len(D01Visible[k]), st)
    BY <1>5
  <2>2. D01Holds(k, Read("D01", c, Len(D01Visible[k]), st))
    BY <1>2, <1>3, <2>1, D01VisibleShows
  <2>3. HoldsOf("D01", m[2], Read("D01", c, Len(ScriptOf("D01", m)), st))
    BY <1>1, <1>5, <2>2
  <2> QED BY <1>5, <2>3 DEF Shows
<1> QED BY <1>1, <1>4, <1>5, ScriptedModes

LEMMA D02Shows ==
  ASSUME NEW c \in Candidates("D02"), NEW m \in Modes("D02"), m # Free, NEW st,
         Passes("D02", c, m, Len(ScriptOf("D02", m)), st)
  PROVE  Shows("D02", c, m, st)
<1>1. /\ CanonicalOf("D02") = D02Canonical /\ VisibleOf("D02") = D02Visible
      /\ \A fs : OracleOf("D02", fs) <=> D02Oracle(fs)
      /\ \A k, fs : HoldsOf("D02", k, fs) <=> D02Holds(k, fs)
  BY DEF CanonicalOf, VisibleOf, OracleOf, HoldsOf
<1>2. \A k : Read("D02", c, k, st) = [i \in 1 .. k + 1 |-> st[i]]
  BY DEF Read, ObserveOf
<1>3. c \in {"preserving", "false_green"}
  BY DEF Candidates
<1>4. CASE m = Canonical /\ ScriptOf("D02", m) = CanonicalOf("D02")
  <2>1. Len(ScriptOf("D02", m)) = 9
    BY <1>1, <1>4 DEF D02Canonical
  <2>2. Read("D02", c, 9, st) = [i \in 1 .. 10 |-> st[i]]
    <3>1. 9 + 1 = 10
      OBVIOUS
    <3> QED BY <1>2, <3>1
  <2>3. D02Oracle(Read("D02", c, 9, st)) <=> c # "false_green"
    <3>1. Passes("D02", c, Canonical, 9, st)
      BY <1>4, <2>1
    <3> QED BY <1>3, <2>2, <3>1, D02CanonicalShows
  <2>4. OracleOf("D02", Read("D02", c, Len(ScriptOf("D02", m)), st)) <=> c # "false_green"
    BY <1>1, <2>1, <2>3
  <2> QED BY <1>4, <2>4 DEF Shows
<1>5. ASSUME NEW k \in DOMAIN D02Visible, m = Assertion(k), m # Canonical, m[2] = k,
             ScriptOf("D02", m) = D02Visible[k]
      PROVE  Shows("D02", c, m, st)
  <2>1. Passes("D02", c, Assertion(k), Len(D02Visible[k]), st)
    BY <1>5
  <2>2. D02Holds(k, Read("D02", c, Len(D02Visible[k]), st))
    BY <1>2, <1>3, <2>1, D02VisibleShows
  <2>3. HoldsOf("D02", m[2], Read("D02", c, Len(ScriptOf("D02", m)), st))
    BY <1>1, <1>5, <2>2
  <2> QED BY <1>5, <2>3 DEF Shows
<1> QED BY <1>1, <1>4, <1>5, ScriptedModes

LEMMA D03Shows ==
  ASSUME NEW c \in Candidates("D03"), NEW m \in Modes("D03"), m # Free, NEW st,
         Passes("D03", c, m, Len(ScriptOf("D03", m)), st)
  PROVE  Shows("D03", c, m, st)
<1>1. /\ CanonicalOf("D03") = D03Canonical /\ VisibleOf("D03") = D03Visible
      /\ \A fs : OracleOf("D03", fs) <=> D03Oracle(fs)
      /\ \A k, fs : HoldsOf("D03", k, fs) <=> D03Holds(k, fs)
  BY DEF CanonicalOf, VisibleOf, OracleOf, HoldsOf
<1>2. \A k : Read("D03", c, k, st) = [i \in 1 .. k + 1 |-> D03Observe(c, st[i])]
  BY DEF Read, ObserveOf
<1>3. c \in {"preserving", "false_green"}
  BY DEF Candidates
<1>4. CASE m = Canonical /\ ScriptOf("D03", m) = CanonicalOf("D03")
  <2>1. Len(ScriptOf("D03", m)) = 2
    BY <1>1, <1>4 DEF D03Canonical
  <2>2. Read("D03", c, 2, st) = [i \in 1 .. 3 |-> D03Observe(c, st[i])]
    <3>1. 2 + 1 = 3
      OBVIOUS
    <3> QED BY <1>2, <3>1
  <2>3. D03Oracle(Read("D03", c, 2, st)) <=> c # "false_green"
    <3>1. Passes("D03", c, Canonical, 2, st)
      BY <1>4, <2>1
    <3> QED BY <1>3, <2>2, <3>1, D03CanonicalShows
  <2>4. OracleOf("D03", Read("D03", c, Len(ScriptOf("D03", m)), st)) <=> c # "false_green"
    BY <1>1, <2>1, <2>3
  <2> QED BY <1>4, <2>4 DEF Shows
<1>5. ASSUME NEW k \in DOMAIN D03Visible, m = Assertion(k), m # Canonical, m[2] = k,
             ScriptOf("D03", m) = D03Visible[k]
      PROVE  Shows("D03", c, m, st)
  <2>1. Passes("D03", c, Assertion(k), Len(D03Visible[k]), st)
    BY <1>5
  <2>2. D03Holds(k, Read("D03", c, Len(D03Visible[k]), st))
    BY <1>2, <1>3, <2>1, D03VisibleShows
  <2>3. HoldsOf("D03", m[2], Read("D03", c, Len(ScriptOf("D03", m)), st))
    BY <1>1, <1>5, <2>2
  <2> QED BY <1>5, <2>3 DEF Shows
<1> QED BY <1>1, <1>4, <1>5, ScriptedModes

LEMMA D04Shows ==
  ASSUME NEW c \in Candidates("D04"), NEW m \in Modes("D04"), m # Free, NEW st,
         Passes("D04", c, m, Len(ScriptOf("D04", m)), st)
  PROVE  Shows("D04", c, m, st)
<1>1. /\ CanonicalOf("D04") = D04Canonical /\ VisibleOf("D04") = D04Visible
      /\ \A fs : OracleOf("D04", fs) <=> D04Oracle(fs)
      /\ \A k, fs : HoldsOf("D04", k, fs) <=> D04Holds(k, fs)
  BY DEF CanonicalOf, VisibleOf, OracleOf, HoldsOf
<1>2. \A k : Read("D04", c, k, st) = [i \in 1 .. k + 1 |-> st[i]]
  BY DEF Read, ObserveOf
<1>3. c \in {"preserving", "false_green"}
  BY DEF Candidates
<1>4. CASE m = Canonical /\ ScriptOf("D04", m) = CanonicalOf("D04")
  <2>1. Len(ScriptOf("D04", m)) = 6
    BY <1>1, <1>4 DEF D04Canonical
  <2>2. Read("D04", c, 6, st) = [i \in 1 .. 7 |-> st[i]]
    <3>1. 6 + 1 = 7
      OBVIOUS
    <3> QED BY <1>2, <3>1
  <2>3. D04Oracle(Read("D04", c, 6, st)) <=> c # "false_green"
    <3>1. Passes("D04", c, Canonical, 6, st)
      BY <1>4, <2>1
    <3> QED BY <1>3, <2>2, <3>1, D04CanonicalShows
  <2>4. OracleOf("D04", Read("D04", c, Len(ScriptOf("D04", m)), st)) <=> c # "false_green"
    BY <1>1, <2>1, <2>3
  <2> QED BY <1>4, <2>4 DEF Shows
<1>5. ASSUME NEW k \in DOMAIN D04Visible, m = Assertion(k), m # Canonical, m[2] = k,
             ScriptOf("D04", m) = D04Visible[k]
      PROVE  Shows("D04", c, m, st)
  <2>1. Passes("D04", c, Assertion(k), Len(D04Visible[k]), st)
    BY <1>5
  <2>2. D04Holds(k, Read("D04", c, Len(D04Visible[k]), st))
    BY <1>2, <1>3, <2>1, D04VisibleShows
  <2>3. HoldsOf("D04", m[2], Read("D04", c, Len(ScriptOf("D04", m)), st))
    BY <1>1, <1>5, <2>2
  <2> QED BY <1>5, <2>3 DEF Shows
<1> QED BY <1>1, <1>4, <1>5, ScriptedModes

LEMMA H01Shows ==
  ASSUME NEW c \in Candidates("H01"), NEW m \in Modes("H01"), m # Free, NEW st,
         Passes("H01", c, m, Len(ScriptOf("H01", m)), st)
  PROVE  Shows("H01", c, m, st)
<1>1. /\ CanonicalOf("H01") = H01Canonical /\ VisibleOf("H01") = H01Visible
      /\ \A fs : OracleOf("H01", fs) <=> H01Oracle(fs)
      /\ \A k, fs : HoldsOf("H01", k, fs) <=> H01Holds(k, fs)
  BY DEF CanonicalOf, VisibleOf, OracleOf, HoldsOf
<1>2. \A k : Read("H01", c, k, st) = [i \in 1 .. k + 1 |-> H01Observe(st[i])]
  BY DEF Read, ObserveOf
<1>3. c \in {"preserving", "false_green"}
  BY DEF Candidates
<1>4. CASE m = Canonical /\ ScriptOf("H01", m) = CanonicalOf("H01")
  <2>1. Len(ScriptOf("H01", m)) = 6
    BY <1>1, <1>4 DEF H01Canonical
  <2>2. Read("H01", c, 6, st) = [i \in 1 .. 7 |-> H01Observe(st[i])]
    <3>1. 6 + 1 = 7
      OBVIOUS
    <3> QED BY <1>2, <3>1
  <2>3. H01Oracle(Read("H01", c, 6, st)) <=> c # "false_green"
    <3>1. Passes("H01", c, Canonical, 6, st)
      BY <1>4, <2>1
    <3> QED BY <1>3, <2>2, <3>1, H01CanonicalShows
  <2>4. OracleOf("H01", Read("H01", c, Len(ScriptOf("H01", m)), st)) <=> c # "false_green"
    BY <1>1, <2>1, <2>3
  <2> QED BY <1>4, <2>4 DEF Shows
<1>5. ASSUME NEW k \in DOMAIN H01Visible, m = Assertion(k), m # Canonical, m[2] = k,
             ScriptOf("H01", m) = H01Visible[k]
      PROVE  Shows("H01", c, m, st)
  <2>1. Passes("H01", c, Assertion(k), Len(H01Visible[k]), st)
    BY <1>5
  <2>2. H01Holds(k, Read("H01", c, Len(H01Visible[k]), st))
    BY <1>2, <1>3, <2>1, H01VisibleShows
  <2>3. HoldsOf("H01", m[2], Read("H01", c, Len(ScriptOf("H01", m)), st))
    BY <1>1, <1>5, <2>2
  <2> QED BY <1>5, <2>3 DEF Shows
<1> QED BY <1>1, <1>4, <1>5, ScriptedModes

LEMMA H02Shows ==
  ASSUME NEW c \in Candidates("H02"), NEW m \in Modes("H02"), m # Free, NEW st,
         Passes("H02", c, m, Len(ScriptOf("H02", m)), st)
  PROVE  Shows("H02", c, m, st)
<1>1. /\ CanonicalOf("H02") = H02Canonical /\ VisibleOf("H02") = H02Visible
      /\ \A fs : OracleOf("H02", fs) <=> H02Oracle(fs)
      /\ \A k, fs : HoldsOf("H02", k, fs) <=> H02Holds(k, fs)
  BY DEF CanonicalOf, VisibleOf, OracleOf, HoldsOf
<1>2. \A k : Read("H02", c, k, st) = [i \in 1 .. k + 1 |-> H02Observe(st[i])]
  BY DEF Read, ObserveOf
<1>3. c \in {"preserving", "false_green"}
  BY DEF Candidates
<1>4. CASE m = Canonical /\ ScriptOf("H02", m) = CanonicalOf("H02")
  <2>1. Len(ScriptOf("H02", m)) = 7
    BY <1>1, <1>4 DEF H02Canonical
  <2>2. Read("H02", c, 7, st) = [i \in 1 .. 8 |-> H02Observe(st[i])]
    <3>1. 7 + 1 = 8
      OBVIOUS
    <3> QED BY <1>2, <3>1
  <2>3. H02Oracle(Read("H02", c, 7, st)) <=> c # "false_green"
    <3>1. Passes("H02", c, Canonical, 7, st)
      BY <1>4, <2>1
    <3> QED BY <1>3, <2>2, <3>1, H02CanonicalShows
  <2>4. OracleOf("H02", Read("H02", c, Len(ScriptOf("H02", m)), st)) <=> c # "false_green"
    BY <1>1, <2>1, <2>3
  <2> QED BY <1>4, <2>4 DEF Shows
<1>5. ASSUME NEW k \in DOMAIN H02Visible, m = Assertion(k), m # Canonical, m[2] = k,
             ScriptOf("H02", m) = H02Visible[k]
      PROVE  Shows("H02", c, m, st)
  <2>1. Passes("H02", c, Assertion(k), Len(H02Visible[k]), st)
    BY <1>5
  <2>2. H02Holds(k, Read("H02", c, Len(H02Visible[k]), st))
    BY <1>2, <1>3, <2>1, H02VisibleShows
  <2>3. HoldsOf("H02", m[2], Read("H02", c, Len(ScriptOf("H02", m)), st))
    BY <1>1, <1>5, <2>2
  <2> QED BY <1>5, <2>3 DEF Shows
<1> QED BY <1>1, <1>4, <1>5, ScriptedModes

LEMMA H03Shows ==
  ASSUME NEW c \in Candidates("H03"), NEW m \in Modes("H03"), m # Free, NEW st,
         Passes("H03", c, m, Len(ScriptOf("H03", m)), st)
  PROVE  Shows("H03", c, m, st)
<1>1. /\ CanonicalOf("H03") = H03Canonical /\ VisibleOf("H03") = H03Visible
      /\ \A fs : OracleOf("H03", fs) <=> H03Oracle(fs)
      /\ \A k, fs : HoldsOf("H03", k, fs) <=> H03Holds(k, fs)
  BY DEF CanonicalOf, VisibleOf, OracleOf, HoldsOf
<1>2. \A k : Read("H03", c, k, st) = [i \in 1 .. k + 1 |-> st[i]]
  BY DEF Read, ObserveOf
<1>3. c \in {"preserving", "false_green"}
  BY DEF Candidates
<1>4. CASE m = Canonical /\ ScriptOf("H03", m) = CanonicalOf("H03")
  <2>1. Len(ScriptOf("H03", m)) = 7
    BY <1>1, <1>4 DEF H03Canonical
  <2>2. Read("H03", c, 7, st) = [i \in 1 .. 8 |-> st[i]]
    <3>1. 7 + 1 = 8
      OBVIOUS
    <3> QED BY <1>2, <3>1
  <2>3. H03Oracle(Read("H03", c, 7, st)) <=> c # "false_green"
    <3>1. Passes("H03", c, Canonical, 7, st)
      BY <1>4, <2>1
    <3> QED BY <1>3, <2>2, <3>1, H03CanonicalShows
  <2>4. OracleOf("H03", Read("H03", c, Len(ScriptOf("H03", m)), st)) <=> c # "false_green"
    BY <1>1, <2>1, <2>3
  <2> QED BY <1>4, <2>4 DEF Shows
<1>5. ASSUME NEW k \in DOMAIN H03Visible, m = Assertion(k), m # Canonical, m[2] = k,
             ScriptOf("H03", m) = H03Visible[k]
      PROVE  Shows("H03", c, m, st)
  <2>1. Passes("H03", c, Assertion(k), Len(H03Visible[k]), st)
    BY <1>5
  <2>2. H03Holds(k, Read("H03", c, Len(H03Visible[k]), st))
    BY <1>2, <1>3, <2>1, H03VisibleShows
  <2>3. HoldsOf("H03", m[2], Read("H03", c, Len(ScriptOf("H03", m)), st))
    BY <1>1, <1>5, <2>2
  <2> QED BY <1>5, <2>3 DEF Shows
<1> QED BY <1>1, <1>4, <1>5, ScriptedModes

LEMMA H04Shows ==
  ASSUME NEW c \in Candidates("H04"), NEW m \in Modes("H04"), m # Free, NEW st,
         Passes("H04", c, m, Len(ScriptOf("H04", m)), st)
  PROVE  Shows("H04", c, m, st)
<1>1. /\ CanonicalOf("H04") = H04Canonical /\ VisibleOf("H04") = H04Visible
      /\ \A fs : OracleOf("H04", fs) <=> H04Oracle(fs)
      /\ \A k, fs : HoldsOf("H04", k, fs) <=> H04Holds(k, fs)
  BY DEF CanonicalOf, VisibleOf, OracleOf, HoldsOf
<1>2. \A k : Read("H04", c, k, st) = [i \in 1 .. k + 1 |-> H04Observe(st[i])]
  BY DEF Read, ObserveOf
<1>3. c \in {"preserving", "false_green"}
  BY DEF Candidates
<1>4. CASE m = Canonical /\ ScriptOf("H04", m) = CanonicalOf("H04")
  <2>1. Len(ScriptOf("H04", m)) = 7
    BY <1>1, <1>4 DEF H04Canonical
  <2>2. Read("H04", c, 7, st) = [i \in 1 .. 8 |-> H04Observe(st[i])]
    <3>1. 7 + 1 = 8
      OBVIOUS
    <3> QED BY <1>2, <3>1
  <2>3. H04Oracle(Read("H04", c, 7, st)) <=> c # "false_green"
    <3>1. Passes("H04", c, Canonical, 7, st)
      BY <1>4, <2>1
    <3> QED BY <1>3, <2>2, <3>1, H04CanonicalShows
  <2>4. OracleOf("H04", Read("H04", c, Len(ScriptOf("H04", m)), st)) <=> c # "false_green"
    BY <1>1, <2>1, <2>3
  <2> QED BY <1>4, <2>4 DEF Shows
<1>5. ASSUME NEW k \in DOMAIN H04Visible, m = Assertion(k), m # Canonical, m[2] = k,
             ScriptOf("H04", m) = H04Visible[k]
      PROVE  Shows("H04", c, m, st)
  <2>1. Passes("H04", c, Assertion(k), Len(H04Visible[k]), st)
    BY <1>5
  <2>2. H04Holds(k, Read("H04", c, Len(H04Visible[k]), st))
    BY <1>2, <1>3, <2>1, H04VisibleShows
  <2>3. HoldsOf("H04", m[2], Read("H04", c, Len(ScriptOf("H04", m)), st))
    BY <1>1, <1>5, <2>2
  <2> QED BY <1>5, <2>3 DEF Shows
<1> QED BY <1>1, <1>4, <1>5, ScriptedModes

LEMMA H05Shows ==
  ASSUME NEW c \in Candidates("H05"), NEW m \in Modes("H05"), m # Free, NEW st,
         Passes("H05", c, m, Len(ScriptOf("H05", m)), st)
  PROVE  Shows("H05", c, m, st)
<1>1. /\ CanonicalOf("H05") = H05Canonical /\ VisibleOf("H05") = H05Visible
      /\ \A fs : OracleOf("H05", fs) <=> H05Oracle(fs)
      /\ \A k, fs : HoldsOf("H05", k, fs) <=> H05Holds(k, fs)
  BY DEF CanonicalOf, VisibleOf, OracleOf, HoldsOf
<1>2. \A k : Read("H05", c, k, st) = [i \in 1 .. k + 1 |-> st[i]]
  BY DEF Read, ObserveOf
<1>3. c \in {"preserving", "false_green"}
  BY DEF Candidates
<1>4. CASE m = Canonical /\ ScriptOf("H05", m) = CanonicalOf("H05")
  <2>1. Len(ScriptOf("H05", m)) = 7
    BY <1>1, <1>4 DEF H05Canonical
  <2>2. Read("H05", c, 7, st) = [i \in 1 .. 8 |-> st[i]]
    <3>1. 7 + 1 = 8
      OBVIOUS
    <3> QED BY <1>2, <3>1
  <2>3. H05Oracle(Read("H05", c, 7, st)) <=> c # "false_green"
    <3>1. Passes("H05", c, Canonical, 7, st)
      BY <1>4, <2>1
    <3> QED BY <1>3, <2>2, <3>1, H05CanonicalShows
  <2>4. OracleOf("H05", Read("H05", c, Len(ScriptOf("H05", m)), st)) <=> c # "false_green"
    BY <1>1, <2>1, <2>3
  <2> QED BY <1>4, <2>4 DEF Shows
<1>5. ASSUME NEW k \in DOMAIN H05Visible, m = Assertion(k), m # Canonical, m[2] = k,
             ScriptOf("H05", m) = H05Visible[k]
      PROVE  Shows("H05", c, m, st)
  <2>1. Passes("H05", c, Assertion(k), Len(H05Visible[k]), st)
    BY <1>5
  <2>2. H05Holds(k, Read("H05", c, Len(H05Visible[k]), st))
    BY <1>2, <1>3, <2>1, H05VisibleShows
  <2>3. HoldsOf("H05", m[2], Read("H05", c, Len(ScriptOf("H05", m)), st))
    BY <1>1, <1>5, <2>2
  <2> QED BY <1>5, <2>3 DEF Shows
<1> QED BY <1>1, <1>4, <1>5, ScriptedModes

LEMMA H06Shows ==
  ASSUME NEW c \in Candidates("H06"), NEW m \in Modes("H06"), m # Free, NEW st,
         Passes("H06", c, m, Len(ScriptOf("H06", m)), st)
  PROVE  Shows("H06", c, m, st)
<1>1. /\ CanonicalOf("H06") = H06Canonical /\ VisibleOf("H06") = H06Visible
      /\ \A fs : OracleOf("H06", fs) <=> H06Oracle(fs)
      /\ \A k, fs : HoldsOf("H06", k, fs) <=> H06Holds(k, fs)
  BY DEF CanonicalOf, VisibleOf, OracleOf, HoldsOf
<1>2. \A k : Read("H06", c, k, st) = [i \in 1 .. k + 1 |-> H06Observe(st[i])]
  BY DEF Read, ObserveOf
<1>3. c \in {"preserving", "false_green"}
  BY DEF Candidates
<1>4. CASE m = Canonical /\ ScriptOf("H06", m) = CanonicalOf("H06")
  <2>1. Len(ScriptOf("H06", m)) = 9
    BY <1>1, <1>4 DEF H06Canonical
  <2>2. Read("H06", c, 9, st) = [i \in 1 .. 10 |-> H06Observe(st[i])]
    <3>1. 9 + 1 = 10
      OBVIOUS
    <3> QED BY <1>2, <3>1
  <2>3. H06Oracle(Read("H06", c, 9, st)) <=> c # "false_green"
    <3>1. Passes("H06", c, Canonical, 9, st)
      BY <1>4, <2>1
    <3> QED BY <1>3, <2>2, <3>1, H06CanonicalShows
  <2>4. OracleOf("H06", Read("H06", c, Len(ScriptOf("H06", m)), st)) <=> c # "false_green"
    BY <1>1, <2>1, <2>3
  <2> QED BY <1>4, <2>4 DEF Shows
<1>5. ASSUME NEW k \in DOMAIN H06Visible, m = Assertion(k), m # Canonical, m[2] = k,
             ScriptOf("H06", m) = H06Visible[k]
      PROVE  Shows("H06", c, m, st)
  <2>1. Passes("H06", c, Assertion(k), Len(H06Visible[k]), st)
    BY <1>5
  <2>2. H06Holds(k, Read("H06", c, Len(H06Visible[k]), st))
    BY <1>2, <1>3, <2>1, H06VisibleShows
  <2>3. HoldsOf("H06", m[2], Read("H06", c, Len(ScriptOf("H06", m)), st))
    BY <1>1, <1>5, <2>2
  <2> QED BY <1>5, <2>3 DEF Shows
<1> QED BY <1>1, <1>4, <1>5, ScriptedModes

LEMMA ScriptsShow ==
  ASSUME NEW f \in Fixtures, NEW c \in Candidates(f), NEW m \in Modes(f), m # Free, NEW st,
         Passes(f, c, m, Len(ScriptOf(f, m)), st)
  PROVE  Shows(f, c, m, st)
<1>1. CASE f = "D01"
  BY <1>1, D01Shows
<1>2. CASE f = "D02"
  BY <1>2, D02Shows
<1>3. CASE f = "D03"
  BY <1>3, D03Shows
<1>4. CASE f = "D04"
  BY <1>4, D04Shows
<1>5. CASE f = "H01"
  BY <1>5, H01Shows
<1>6. CASE f = "H02"
  BY <1>6, H02Shows
<1>7. CASE f = "H03"
  BY <1>7, H03Shows
<1>8. CASE f = "H04"
  BY <1>8, H04Shows
<1>9. CASE f = "H05"
  BY <1>9, H05Shows
<1>10. CASE f = "H06"
  BY <1>10, H06Shows
<1> QED BY <1>1, <1>2, <1>3, <1>4, <1>5, <1>6, <1>7, <1>8, <1>9, <1>10 DEF Fixtures

-----------------------------------------------------------------------------
(* The judgements, of all fixtures alike. *)

LEMMA ScriptIsLog ==
  ASSUME NEW f \in Fixtures, NEW m \in Modes(f), m # Free
  PROVE  IsLog(ScriptOf(f, m))
<1>1. Fits(f, ScriptOf(f, m))
  <2>1. CASE m = Canonical
    BY <2>1, ScriptsFit DEF ScriptOf
  <2>2. CASE m # Canonical
    <3>1. PICK k \in DOMAIN VisibleOf(f) : m = Assertion(k)
      BY <2>2 DEF Modes
    <3>2. ScriptOf(f, m) = VisibleOf(f)[k]
      BY <2>2, <3>1 DEF ScriptOf, Assertion
    <3> QED BY <3>2, ScriptsFit
  <2> QED BY <2>1, <2>2
<1> QED BY <1>1 DEF Fits, IsLog

\* A trial starts with the frame of its mount and the whole of its script to play.
LEMMA InitVerdictInv == Init => VerdictInv
<1> SUFFICES ASSUME Init PROVE VerdictInv
  OBVIOUS
<1>1. /\ fixture \in Fixtures /\ candidate \in Candidates(fixture) /\ mode \in Modes(fixture)
      /\ report = NoReport
  BY DEF Init, Modes
<1>2. ASSUME mode # Free PROVE RecordInv
  <2> DEFINE st == [i \in 1 .. 1 |-> state]
  <2>1. /\ turn = 0 /\ state = MountOf(fixture, candidate, mode)
        /\ frames = <<ObserveOf(fixture, candidate, state)>>
    BY <1>2 DEF Init
  <2>2. script = ScriptOf(fixture, mode) /\ IsLog(script)
    <3>1. script = ScriptOf(fixture, mode)
      BY <1>2 DEF Init, ScriptOf
    <3> QED BY <1>1, <1>2, <3>1, ScriptIsLog
  <2>3. Len(script) \in Nat
    BY <2>2 DEF IsLog
  <2>4. Passes(fixture, candidate, mode, turn, st) /\ state = st[turn + 1]
    BY <2>1 DEF Passes
  <2>5. frames = Read(fixture, candidate, turn, st)
    BY <2>1 DEF Read
  <2> HIDE DEF st
  <2> QED BY <2>1, <2>2, <2>3, <2>4, <2>5 DEF RecordInv
<1> QED BY <1>1, <1>2 DEF VerdictInv, RecordInv, VerdictMatchesKind

\* One more action of the script adds its state and its frame.
LEMMA AdvanceRecords ==
  ASSUME VerdictInv, Advance
  PROVE  VerdictInv'
<1>1. /\ mode # Free /\ script # <<>> /\ script' = Tail(script)
      /\ state' = StepOf(fixture, candidate, state, Head(script)) /\ turn' = turn + 1
      /\ frames' = Append(frames, ObserveOf(fixture, candidate, state'))
      /\ UNCHANGED <<fixture, candidate, mode, report>>
  BY DEF Advance, Settle
<1> DEFINE S == ScriptOf(fixture, mode)
<1>2. /\ turn \in 0 .. Len(S) /\ IsLog(script) /\ Len(script) = Len(S) - turn
      /\ \A i \in 1 .. Len(script) : script[i] = S[turn + i]
  BY <1>1 DEF VerdictInv, RecordInv
<1>3. PICK st : /\ Passes(fixture, candidate, mode, turn, st)
                /\ state = st[turn + 1] /\ frames = Read(fixture, candidate, turn, st)
  BY <1>1 DEF VerdictInv, RecordInv
<1> HIDE DEF S
<1>4. /\ Head(script) = script[1] /\ Len(script) \in Nat \ {0} /\ IsLog(Tail(script))
      /\ Len(Tail(script)) = Len(script) - 1
      /\ \A i \in 1 .. Len(script) - 1 : Tail(script)[i] = script[i + 1]
  BY <1>1, <1>2 DEF IsLog
<1>5. turn \in Nat /\ turn + 1 \in 0 .. Len(S) /\ Len(script') = Len(S) - turn'
  <2>1. Len(S) \in Nat
    BY <1>1, ScriptIsLog DEF VerdictInv, IsLog, S
  <2> QED BY <1>1, <1>2, <1>4, <2>1
<1>6. Head(script) = S[turn + 1]
  BY <1>2, <1>4
<1>7. \A i \in 1 .. Len(script') : script'[i] = S[turn' + i]
  <2> SUFFICES ASSUME NEW i \in 1 .. Len(script) - 1 PROVE Tail(script)[i] = S[turn + 1 + i]
    BY <1>1, <1>4
  <2>1. i + 1 \in 1 .. Len(script) /\ turn + 1 + i = turn + (i + 1)
    BY <1>2, <1>4, <1>5
  <2> QED BY <1>2, <1>4, <2>1
<1> DEFINE next == [i \in 1 .. turn + 2 |-> IF i <= turn + 1 THEN st[i] ELSE state']
<1>8. /\ \A i \in 1 .. turn + 1 : next[i] = st[i]
      /\ next[turn + 2] = state'
  BY <1>5
<1> HIDE DEF next
<1>9. Passes(fixture, candidate, mode, turn + 1, next)
  <2>1. next[1] = MountOf(fixture, candidate, mode)
    BY <1>3, <1>5, <1>8 DEF Passes
  <2>2. ASSUME NEW i \in 1 .. turn + 1
        PROVE  next[i + 1] = StepOf(fixture, candidate, next[i], S[i])
    <3>1. CASE i = turn + 1
      <4>1. i + 1 = turn + 2 /\ next[i] = state
        BY <1>3, <1>5, <1>8, <3>1
      <4> QED BY <1>1, <1>6, <1>8, <3>1, <4>1
    <3>2. CASE i # turn + 1
      <4>1. i \in 1 .. turn /\ i \in 1 .. turn + 1 /\ i + 1 \in 1 .. turn + 1
        BY <1>5, <3>2
      <4> QED BY <1>3, <1>8, <4>1 DEF Passes, S
    <3> QED BY <3>1, <3>2
  <2> QED BY <2>1, <2>2 DEF Passes, S
<1>10. frames' = Read(fixture, candidate, turn + 1, next)
  <2> DEFINE e == [i \in 1 .. turn + 1 |-> ObserveOf(fixture, candidate, st[i])]
             x == ObserveOf(fixture, candidate, state')
  <2>1. frames = [i \in 1 .. turn + 1 |-> e[i]]
    BY <1>3 DEF Read
  <2> HIDE DEF e, x
  <2>2. Append(frames, x) = [i \in 1 .. turn + 1 + 1 |-> IF i <= turn + 1 THEN e[i] ELSE x]
    BY <1>5, <2>1, AppendedRead
  <2>3. \A i \in 1 .. turn + 1 + 1 : (IF i <= turn + 1 THEN e[i] ELSE x)
          = ObserveOf(fixture, candidate, next[i])
    <3> SUFFICES ASSUME NEW i \in 1 .. turn + 1 + 1
                 PROVE  (IF i <= turn + 1 THEN e[i] ELSE x) = ObserveOf(fixture, candidate, next[i])
      OBVIOUS
    <3>1. CASE i <= turn + 1
      <4>1. i \in 1 .. turn + 1
        BY <1>5, <3>1
      <4> QED BY <1>8, <3>1, <4>1 DEF e
    <3>2. CASE ~(i <= turn + 1)
      <4>1. i = turn + 2
        BY <1>5, <3>2
      <4> QED BY <1>8, <3>2, <4>1 DEF x
    <3> QED BY <3>1, <3>2
  <2>4. frames' = Append(frames, x)
    BY <1>1 DEF x
  <2> QED BY <2>2, <2>3, <2>4 DEF Read
<1>11. RecordInv'
  <2>1. turn' + 1 = turn + 2
    BY <1>1, <1>5
  <2>2. ScriptOf(fixture', mode') = S
    BY <1>1 DEF S
  <2>3. /\ Passes(fixture', candidate', mode', turn', next)
        /\ state' = next[turn' + 1] /\ frames' = Read(fixture', candidate', turn', next)
    BY <1>1, <1>8, <1>9, <1>10, <2>1
  <2>4. turn' \in 0 .. Len(S) /\ IsLog(script')
    BY <1>1, <1>4, <1>5
  <2> QED BY <1>5, <1>7, <2>2, <2>3, <2>4 DEF RecordInv
<1>12. VerdictMatchesKind'
  BY <1>1 DEF VerdictInv, VerdictMatchesKind
<1> QED BY <1>1, <1>11, <1>12 DEF VerdictInv, Modes

\* At the judgement the frames are those of the whole script.
LEMMA WholeScript ==
  ASSUME VerdictInv, mode # Free, script = <<>>
  PROVE  \E st : /\ frames = Read(fixture, candidate, Len(ScriptOf(fixture, mode)), st)
                 /\ Shows(fixture, candidate, mode, st)
<1>1. PICK st : /\ Passes(fixture, candidate, mode, turn, st)
                /\ frames = Read(fixture, candidate, turn, st)
  BY DEF VerdictInv, RecordInv
<1>2. turn = Len(ScriptOf(fixture, mode))
  <2> DEFINE n == Len(ScriptOf(fixture, mode))
  <2>1. turn \in 0 .. n /\ 0 = n - turn /\ n \in Nat
    BY ScriptIsLog DEF VerdictInv, RecordInv, IsLog
  <2> HIDE DEF n
  <2>2. turn = n
    BY ONLY <2>1
  <2> QED BY <2>2 DEF n
<1>3. Shows(fixture, candidate, mode, st)
  BY <1>1, <1>2, ScriptsShow DEF VerdictInv
<1> QED BY <1>1, <1>2, <1>3

LEMMA NextVerdictInv ==
  ASSUME VerdictInv, [Next]_vars
  PROVE  VerdictInv'
<1>1. CASE Play
  BY <1>1 DEF Play, Settle, VerdictInv, RecordInv, VerdictMatchesKind, Modes
<1>2. CASE Advance
  BY <1>2, AdvanceRecords
<1>3. CASE JudgeVisible
  <2>1. /\ mode \notin {Free, Canonical} /\ script = <<>>
        /\ report' = GateReport(HoldsOf(fixture, mode[2], frames))
        /\ UNCHANGED <<fixture, candidate, mode, script, state, last, frames, turn>>
    BY <1>3 DEF JudgeVisible
  <2>2. HoldsOf(fixture, mode[2], frames)
    <3>1. PICK st : /\ frames = Read(fixture, candidate, Len(ScriptOf(fixture, mode)), st)
                    /\ Shows(fixture, candidate, mode, st)
      BY <2>1, WholeScript
    <3> QED BY <2>1, <3>1 DEF Shows
  <2>3. report'.green = TRUE
    BY <2>1, <2>2 DEF GateReport
  <2>4. VerdictMatchesKind'
    BY <2>1, <2>3 DEF VerdictMatchesKind
  <2> QED BY <2>1, <2>4 DEF VerdictInv, RecordInv, Modes
<1>4. CASE JudgeCanonical
  <2>1. /\ mode = Canonical /\ script = <<>> /\ mode # Free
        /\ UNCHANGED <<fixture, candidate, mode, script, state, last, frames, turn>>
    BY <1>4 DEF JudgeCanonical, Free, Canonical
  <2>2. PICK verdict \in {"accept", "reject", "abstain"}, named \in BOOLEAN :
          report' = EvaluatorReport(OracleOf(fixture, frames), verdict, named)
    BY <1>4 DEF JudgeCanonical
  <2>3. OracleOf(fixture, frames) <=> candidate # "false_green"
    <3>1. PICK st : /\ frames = Read(fixture, candidate, Len(ScriptOf(fixture, mode)), st)
                    /\ Shows(fixture, candidate, mode, st)
      BY <2>1, WholeScript
    <3> QED BY <2>1, <3>1 DEF Shows
  <2>4. /\ (report'.groundTruth = "false_green") = (candidate = "false_green")
        /\ report'.reasonCorrectReject => candidate = "false_green"
    <3>1. CASE candidate = "false_green"
      BY <2>2, <2>3, <3>1 DEF EvaluatorReport
    <3>2. CASE candidate # "false_green"
      BY <2>2, <2>3, <3>2 DEF EvaluatorReport, reasonCorrect
    <3> QED BY <3>1, <3>2
  <2>5. VerdictMatchesKind'
    BY <2>1, <2>4 DEF VerdictMatchesKind
  <2> QED BY <2>1, <2>5 DEF VerdictInv, RecordInv, Modes
<1>5. CASE UNCHANGED vars
  BY <1>5 DEF vars, VerdictInv, RecordInv, VerdictMatchesKind, Modes
<1> QED BY <1>1, <1>2, <1>3, <1>4, <1>5 DEF Next

\* A visible gate that was judged is green whichever candidate played it, and the
\* canonical judgement names the ground truth of the candidate: the oracle refuses
\* the false-green candidate alone, and only its rejection has the right reason.
\* For any number of cards, lanes and requests.
THEOREM VerdictsMatch == Spec => []VerdictMatchesKind
<1>1. VerdictInv /\ [Next]_vars => VerdictInv'
  BY NextVerdictInv
<1>2. VerdictInv => VerdictMatchesKind
  BY DEF VerdictInv
<1> QED BY InitVerdictInv, <1>1, <1>2, PTL DEF Spec
=============================================================================
