---------------------------- MODULE RoleCallProofs ----------------------------
(***************************************************************************)
(* Theorems about RoleCall and CodexStream: what the reader of a reasoning *)
(* stream accepts, for streams of any length; and that an answer is sound, *)
(* the scratch directory follows the call and denied files stay unreadable *)
(* for any capabilities, any outputs and any bound on them.                *)
(***************************************************************************)
EXTENDS RoleCall, SequenceTheorems, WellFoundedInduction, TLAPS

(***************************************************************************)
(* The reader.                                                             *)
(***************************************************************************)
\* Of the checks that fail there is a first one.
LEMMA FirstOf ==
  ASSUME NEW T \in SUBSET (1..10), T # {}
  PROVE  \E k \in T : \A l \in 1..(k - 1) : l \notin T
<1>1. T \subseteq Nat
  OBVIOUS
<1>2. PICK k \in T : \A l \in T : ~ (<<l, k>> \in OpToRel(<, Nat))
  BY <1>1, NatLessThanWellFounded, WFMin
<1>3. \A l \in T : ~ (l < k)
  BY <1>1, <1>2 DEF OpToRel
<1> QED BY <1>1, <1>3

LEMMA CodesOfChecks ==
  ASSUME NEW stream, NEW k \in 1..10
  PROVE  /\ Checks(stream)[k].code \in FailureCodes
         /\ Checks(stream)[k].code # Accepted
BY DEF Checks, FailureCodes, Accepted

\* A stream is accepted, or refused with the code of a check.
LEMMA ParseCodes ==
  ASSUME NEW stream
  PROVE  /\ Parse(stream) = Accepted <=> \A k \in 1..10 : ~Checks(stream)[k].fails
         /\ Parse(stream) # Accepted => Parse(stream) \in FailureCodes
<1>1. CASE \A k \in 1..10 : ~Checks(stream)[k].fails
  BY <1>1 DEF Parse
<1>2. CASE ~ \A k \in 1..10 : ~Checks(stream)[k].fails
  <2> DEFINE T == {k \in 1..10 : Checks(stream)[k].fails}
             first == CHOOSE k \in 1..10 : /\ Checks(stream)[k].fails
                                           /\ \A l \in 1..(k - 1) : ~Checks(stream)[l].fails
  <2>1. T \in SUBSET (1..10) /\ T # {}
    BY <1>2
  <2>2. PICK k \in T : \A l \in 1..(k - 1) : l \notin T
    BY <2>1, FirstOf
  <2>3. /\ k \in 1..10 /\ Checks(stream)[k].fails
        /\ \A l \in 1..(k - 1) : ~Checks(stream)[l].fails
    BY <2>2
  <2>4. first \in 1..10
    BY <2>3
  <2> HIDE DEF first
  <2>5. Checks(stream)[first].code \in FailureCodes /\ Checks(stream)[first].code # Accepted
    BY <2>4, CodesOfChecks
  <2>6. Parse(stream) = Checks(stream)[first].code
    BY <1>2 DEF Parse, first
  <2> QED BY <1>2, <2>5, <2>6
<1> QED BY <1>1, <1>2

LEMMA NoCheckFails ==
  ASSUME NEW stream, \A k \in 1..10 : ~Checks(stream)[k].fails
  PROVE  /\ stream # <<>> /\ ~Has(stream, {"frame"})
         /\ ~Has(stream, Unreadable) /\ ~Has(stream, {"failed"})
         /\ Bracketed(stream) /\ ~Has(stream, {"damaged"})
         /\ Has(stream, Message) /\ Once(stream, Message)
         /\ ~Has(stream, {"prose"}) /\ ~Has(stream, {"misused"})
<1>1. ~Checks(stream)[1].fails /\ ~Checks(stream)[3].fails /\ ~Checks(stream)[4].fails
      /\ ~Checks(stream)[5].fails
  OBVIOUS
<1>2. ~Checks(stream)[6].fails /\ ~Checks(stream)[7].fails /\ ~Checks(stream)[8].fails
      /\ ~Checks(stream)[9].fails /\ ~Checks(stream)[10].fails
  OBVIOUS
<1> QED BY <1>1, <1>2 DEF Checks

LEMMA AllChecksPass ==
  ASSUME NEW stream,
         stream # <<>>, ~Has(stream, {"frame"}), ~Undecodable(stream),
         ~Has(stream, Unreadable), ~Has(stream, {"failed"}),
         Bracketed(stream), ~Has(stream, {"damaged"}),
         Has(stream, Message), Once(stream, Message),
         ~Has(stream, {"prose"}), ~Has(stream, {"misused"}),
         NEW k \in 1..10
  PROVE  ~Checks(stream)[k].fails
<1>1. /\ ~Checks(stream)[1].fails /\ ~Checks(stream)[2].fails
      /\ ~Checks(stream)[3].fails /\ ~Checks(stream)[4].fails
      /\ ~Checks(stream)[5].fails
  BY DEF Checks
<1>2. /\ ~Checks(stream)[6].fails /\ ~Checks(stream)[7].fails
      /\ ~Checks(stream)[8].fails /\ ~Checks(stream)[9].fails
      /\ ~Checks(stream)[10].fails
  BY DEF Checks
<1>3. k = 1 \/ k = 2 \/ k = 3 \/ k = 4 \/ k = 5 \/ k = 6 \/ k = 7 \/ k = 8 \/ k = 9 \/ k = 10
  OBVIOUS
<1> QED BY <1>1, <1>2, <1>3

LEMMA PassedIsComplete ==
  ASSUME NEW stream \in Streams, \A k \in 1..10 : ~Checks(stream)[k].fails
  PROVE  Complete(stream)
<1> DEFINE n == Len(stream)
<1>1. n \in Nat /\ DOMAIN stream = 1..n /\ \A j \in 1..n : stream[j] \in Lines
  BY LenProperties, ElementOfSeq DEF Streams
<1>2. /\ n >= 2 /\ stream[1] = "thread" /\ Once(stream, {"thread"})
      /\ stream[2] = "turn" /\ Once(stream, {"turn"})
      /\ stream[n] \in Closing /\ Once(stream, Closing)
  BY NoCheckFails DEF Bracketed
<1>3. PICK a \in 1..n : stream[a] \in Message /\ \A j \in 1..n : stream[j] \in Message => j = a
  BY <1>1, NoCheckFails DEF Once
<1>4. /\ \A j \in 1..n : stream[j] \notin {"frame", "failed", "damaged", "prose", "misused"}
      /\ \A j \in 1..n : stream[j] \notin Unreadable
  BY <1>1, NoCheckFails DEF Has
<1>5. stream[n] = "completed" /\ stream[a] = "answer"
  BY <1>1, <1>2, <1>3, <1>4 DEF Closing, Message
<1>6. n >= 4 /\ a \in 3..(n - 1)
  BY SMTT(30), <1>1, <1>2, <1>3, <1>5
<1>7. ASSUME NEW j \in 3..(n - 1), j # a
      PROVE  stream[j] = "progress"
  <2>0. n \in Nat /\ n >= 4
    BY <1>1, <1>6
  <2>1. j \in 1..n /\ j # 1 /\ j # 2 /\ j # n /\ 1 \in 1..n /\ 2 \in 1..n /\ n \in 1..n
    <3> HIDE DEF n
    <3> QED BY SMTT(30), <2>0
  <2>2. stream[j] # "thread" /\ stream[j] # "turn" /\ stream[j] \notin Closing
    BY <1>1, <1>2, <2>1 DEF Once
  <2>3. stream[j] \notin Message
    BY <1>3, <1>7, <2>1
  <2> QED BY <1>1, <1>4, <2>1, <2>2, <2>3 DEF Lines
<1> QED BY <1>2, <1>5, <1>6, <1>7 DEF Complete

LEMMA CompletePasses ==
  ASSUME NEW stream \in Streams, Complete(stream)
  PROVE  \A k \in 1..10 : ~Checks(stream)[k].fails
<1> DEFINE n == Len(stream)
<1>1. n \in Nat /\ DOMAIN stream = 1..n
  BY LenProperties DEF Streams
<1>2. n >= 4 /\ stream[1] = "thread" /\ stream[2] = "turn" /\ stream[n] = "completed"
  BY DEF Complete
<1>3. PICK a \in 3..(n - 1) : /\ stream[a] = "answer"
                              /\ \A j \in 3..(n - 1) : j # a => stream[j] = "progress"
  BY DEF Complete
<1>4. ASSUME NEW j \in 1..n
      PROVE  stream[j] \in {"thread", "turn", "completed", "answer", "progress"}
             /\ (stream[j] = "thread" => j = 1) /\ (stream[j] = "turn" => j = 2)
             /\ (stream[j] = "completed" => j = n) /\ (stream[j] = "answer" => j = a)
  <2>1. CASE j = 1 \/ j = 2 \/ j = n \/ j = a
    BY SMTT(30), <2>1, <1>2, <1>3
  <2>2. CASE ~(j = 1 \/ j = 2 \/ j = n \/ j = a)
    <3>1. j \in 3..(n - 1)
      <4> HIDE DEF n
      <4> QED BY <1>1, <2>2
    <3> QED BY <1>3, <2>2, <3>1
  <2> QED BY <2>1, <2>2
<1>5. 1 \in 1..n /\ 2 \in 1..n /\ n \in 1..n /\ a \in 1..n
  BY <1>1, <1>2
<1>6. /\ stream # <<>> /\ ~Has(stream, {"frame"}) /\ ~Undecodable(stream)
      /\ ~Has(stream, Unreadable) /\ ~Has(stream, {"failed"}) /\ ~Has(stream, {"damaged"})
      /\ ~Has(stream, {"prose"}) /\ ~Has(stream, {"misused"})
  <2>1. \A j \in DOMAIN stream :
          stream[j] \in {"thread", "turn", "completed", "answer", "progress"}
    BY <1>1, <1>4
  <2>2. stream # <<>>
    BY <1>2
  <2>3. ~Undecodable(stream) /\ ~Has(stream, Unreadable)
    BY <2>1 DEF Has, Undecodable, Unreadable
  <2>4. ~Has(stream, {"frame"}) /\ ~Has(stream, {"failed"}) /\ ~Has(stream, {"damaged"})
    BY <2>1 DEF Has
  <2>5. ~Has(stream, {"prose"}) /\ ~Has(stream, {"misused"})
    BY SMTT(30), <2>1 DEF Has
  <2> QED BY <2>2, <2>3, <2>4, <2>5
<1>7. Has(stream, Message) /\ Once(stream, Message)
  BY <1>1, <1>3, <1>4, <1>5 DEF Has, Once, Message
<1>8. Bracketed(stream)
  <2>1. Once(stream, {"thread"}) /\ Once(stream, {"turn"})
    BY ZenonT(40), <1>1, <1>2, <1>4, <1>5 DEF Once
  <2>2. stream[n] \in Closing /\ Once(stream, Closing)
    BY <1>1, <1>2, <1>4, <1>5 DEF Once, Closing
  <2> QED BY SMTT(30), <1>1, <1>2, <2>1, <2>2 DEF Bracketed
<1> QED BY <1>6, <1>7, <1>8, AllChecksPass

\* The reader's ten checks accept exactly the complete streams, of any length.
THEOREM ReaderIsExact ==
  ASSUME NEW stream \in Streams
  PROVE  Parse(stream) = Accepted <=> Complete(stream)
BY ParseCodes, PassedIsComplete, CompletePasses

\* Of a complete stream no proper prefix is accepted.
LEMMA PrefixRefused ==
  ASSUME NEW stream \in Streams, Complete(stream), NEW m \in 0..(Len(stream) - 1)
  PROVE  Parse(SubSeq(stream, 1, m)) # Accepted
<1> DEFINE prefix == SubSeq(stream, 1, m)
<1>1. Len(stream) \in Nat /\ stream \in Seq(Lines)
  BY LenProperties DEF Streams
<1>2. /\ prefix \in Streams /\ Len(prefix) = m
      /\ \A i \in 1..m : prefix[i] = stream[i]
  BY <1>1, SubSeqProperties DEF Streams
<1>3. SUFFICES ASSUME Complete(prefix) PROVE FALSE
  BY <1>2, ReaderIsExact
<1>4. m >= 4 /\ prefix[m] = "completed"
  BY <1>2, <1>3 DEF Complete
<1>5. stream[m] = "completed" /\ m \in 3..(Len(stream) - 1)
  BY <1>1, <1>2, <1>4
<1> QED BY <1>5 DEF Complete

(***************************************************************************)
(* Types.                                                                  *)
(***************************************************************************)
Texts == Lines \cup Replies \cup Prints

LEMMA StagesLength ==
  ASSUME NEW role \in Roles
  PROVE  Len(Stages(role)) \in 0..5
BY DEF Stages, Roles

LEMMA InitTypeOK == Init => TypeOK
<1> SUFFICES ASSUME Init PROVE TypeOK
  OBVIOUS
<1>1. stdout \in Seq(Texts)
  BY DEF Init
<1>2. call.role \in Roles /\ call.arm \in {"status-quo", "beyondgreen"}
      /\ call.cap \in Capabilities
  BY DEF Init
<1>3. scratch \in BOOLEAN /\ heir \in BOOLEAN /\ fed \in BOOLEAN /\ broken \in BOOLEAN
  BY Zenon DEF Init
<1>4. exit \in {0, 1, 2} /\ at \in 0..5
  BY DEF Init
<1> QED BY <1>1, <1>2, <1>3, <1>4 DEF Init, TypeOK, Texts, Phases, AnswerKinds, Nothing

\* A signal keeps the types.
LEMMA KilledTypes ==
  ASSUME TypeOK, Killed
  PROVE  child' = "killed" /\ stdout' \in Seq(Texts)
         /\ UNCHANGED <<exit, heir, fed, at, served>>
<1>1. stdout \in Seq(Texts)
  BY DEF TypeOK, Texts
<1>2. \A line \in {"junk", "text"} : Append(stdout, line) \in Seq(Texts)
  BY <1>1, AppendProperties DEF Texts, Lines, Prints, Unreadable
<1>3. stdout' \in {stdout} \cup {Append(stdout, line) : line \in {"junk", "text"}}
  BY DEF Killed
<1> QED BY <1>1, <1>2, <1>3 DEF Killed

\* The answers of a classification have known kinds.
LEMMA ResultKinds ==
  /\ TransportResult.kind \in {"verdict", "abstained"}
  /\ LaunchResult.kind \in {"response", "thrown"}
  /\ TypeOK => Received.kind \in AnswerKinds
BY DEF TransportResult, LaunchResult, Received, Abstained, Thrown, TypeOK, AnswerKinds

\* The call is settled before its first step.
LEMMA CallStays == [Next]_vars => call' = call
BY DEF Next, Parent, Callbacks, Child, Refuse, MakeScratch, PreparationFails,
       Spawn, SpawnFails, Classify, Clean, CleanFails, Receive, TimerFires, Close,
       PipeBreaks, FloodKills, ReadStdin, CodexWrites, FixturePrints,
       RoleAdvances, RoleServes, Fork, HeirEnds, ChildExits, SystemKills, vars

LEMMA ParentTypes == TypeOK /\ Parent => TypeOK'
<1> SUFFICES ASSUME TypeOK, Parent PROVE TypeOK'
  OBVIOUS
<1> USE DEF TypeOK, process, Phases, AnswerKinds, Thrown
<1>1. CASE Refuse
  BY <1>1 DEF Refuse
<1>2. CASE MakeScratch
  BY <1>2 DEF MakeScratch
<1>3. CASE PreparationFails
  BY <1>3 DEF PreparationFails
<1>4. CASE Spawn
  BY <1>4 DEF Spawn
<1>5. CASE SpawnFails
  BY <1>5 DEF SpawnFails
<1>6. CASE Classify
  BY <1>6, ResultKinds DEF Classify
<1>7. CASE Clean
  <2>1. scratch' \in BOOLEAN
    BY <1>7, Zenon DEF Clean
  <2> QED BY <1>7, <2>1 DEF Clean
<1>8. CASE CleanFails
  BY <1>8 DEF CleanFails
<1>9. CASE Receive
  BY <1>9, ResultKinds DEF Receive
<1> QED BY <1>1, <1>2, <1>3, <1>4, <1>5, <1>6, <1>7, <1>8, <1>9 DEF Parent

LEMMA CallbackTypes == TypeOK /\ (TimerFires \/ Callbacks) => TypeOK'
<1> SUFFICES ASSUME TypeOK, TimerFires \/ Callbacks PROVE TypeOK'
  OBVIOUS
<1>1. CASE TimerFires /\ child = "running"
  BY <1>1, KilledTypes DEF TimerFires, TypeOK, Texts
<1>2. CASE TimerFires /\ child # "running"
  BY <1>2 DEF TimerFires, TypeOK, process
<1>3. CASE Close
  BY <1>3 DEF Close, TypeOK, process, Phases
<1>4. CASE PipeBreaks
  BY <1>4 DEF PipeBreaks, TypeOK, process, Phases
<1>5. CASE FloodKills
  BY <1>5, KilledTypes DEF FloodKills, TypeOK, Texts
<1> QED BY <1>1, <1>2, <1>3, <1>4, <1>5 DEF Callbacks

LEMMA ChildTypes == TypeOK /\ Child => TypeOK'
<1> SUFFICES ASSUME TypeOK, Child PROVE TypeOK'
  OBVIOUS
<1>0. \A line \in Texts : Append(stdout, line) \in Seq(Texts)
  BY AppendProperties DEF TypeOK, Texts
<1>1. CASE ReadStdin
  BY <1>1 DEF ReadStdin, TypeOK
<1>2. ASSUME NEW line \in Lines, CodexWrites(line) PROVE TypeOK'
  BY <1>0, <1>2 DEF CodexWrites, TypeOK, Texts
<1>3. ASSUME NEW line \in Prints \cup Replies, FixturePrints(line) PROVE TypeOK'
  BY <1>0, <1>3 DEF FixturePrints, TypeOK, Texts
<1>4. CASE RoleAdvances
  <2>1. Len(Stages(call.role)) \in 0..5
    BY StagesLength DEF TypeOK
  <2>2. at \in 0..5 /\ at < Len(Stages(call.role)) /\ at' = at + 1
    BY <1>4 DEF RoleAdvances, TypeOK
  <2>3. \A a, n \in 0..5 : a < n => a + 1 \in 0..5
    OBVIOUS
  <2>4. at' \in 0..5
    BY <2>1, <2>2, <2>3
  <2> QED BY <1>4, <2>4 DEF RoleAdvances, TypeOK
<1>5. ASSUME NEW how \in {"ok", "failed"}, RoleServes(how) PROVE TypeOK'
  <2>1. stdout' \in Seq(Texts)
    BY <1>0, <1>5 DEF RoleServes, Texts, Replies
  <2> QED BY <1>5, <2>1 DEF RoleServes, TypeOK, Texts
<1>6. CASE Fork
  BY <1>6 DEF Fork, TypeOK
<1>7. CASE HeirEnds
  BY <1>7 DEF HeirEnds, TypeOK
<1>8. ASSUME NEW code \in {0, 1, 2}, ChildExits(code) PROVE TypeOK'
  BY <1>8 DEF ChildExits, TypeOK
<1>9. CASE SystemKills
  BY <1>9, KilledTypes DEF SystemKills, TypeOK, Texts
<1> QED BY <1>1, <1>2, <1>3, <1>4, <1>5, <1>6, <1>7, <1>8, <1>9 DEF Child

LEMMA TypesKept == TypeOK /\ [Next]_vars => TypeOK'
<1>1. TypeOK /\ UNCHANGED vars => TypeOK'
  BY DEF TypeOK, vars, process
<1> QED BY <1>1, ParentTypes, CallbackTypes, ChildTypes DEF Next

\* The state of a call keeps its types.
THEOREM CallTypeCorrect == Spec => []TypeOK
BY InitTypeOK, TypesKept, PTL DEF Spec

(***************************************************************************)
(* Where the call is, and what that says of its child, its scratch         *)
(* directory and its answer.                                               *)
(***************************************************************************)
ChildInv ==
  /\ phase \in {"checking", "prepared"} => child = "none"
  /\ child = "none" => ~heir
  /\ child = "running" => phase = "waiting"
  /\ phase \notin {"waiting", "crashed"} => ~heir
  /\ phase = "waiting" => child # "none"
  /\ phase = "settled" => broken \/ child \in {"exited", "killed"}
ScratchInv ==
  /\ phase = "checking" => ~scratch
  /\ phase \in {"prepared", "waiting", "settled", "cleaning"} => scratch
  /\ phase \in {"returned", "ended"} /\ scratch => answer = Thrown
PendingInv ==
  phase \in {"checking", "prepared", "waiting", "settled", "crashed"} => answer = Nothing
PlaceInv == ChildInv /\ ScratchInv /\ PendingInv

LEMMA InitPlace == Init => PlaceInv
BY DEF Init, PlaceInv, ChildInv, ScratchInv, PendingInv

LEMMA ThrownReceived == answer = Thrown => Received = Thrown
BY DEF Received, Thrown

LEMMA ParentPlace == TypeOK /\ PlaceInv /\ Parent => PlaceInv'
<1> SUFFICES ASSUME TypeOK, PlaceInv, Parent PROVE PlaceInv'
  OBVIOUS
<1> USE DEF PlaceInv, ChildInv, ScratchInv, PendingInv, process
<1>1. CASE Refuse
  BY <1>1 DEF Refuse
<1>2. CASE MakeScratch
  BY <1>2 DEF MakeScratch
<1>3. CASE PreparationFails
  BY <1>3 DEF PreparationFails
<1>4. CASE Spawn
  BY <1>4 DEF Spawn
<1>5. CASE SpawnFails
  BY <1>5 DEF SpawnFails
<1>6. CASE Classify
  BY <1>6 DEF Classify
<1>7. CASE Clean
  BY <1>7 DEF Clean
<1>8. CASE CleanFails
  BY <1>8 DEF CleanFails
<1>9. CASE Receive
  BY <1>9, ThrownReceived DEF Receive
<1> QED BY <1>1, <1>2, <1>3, <1>4, <1>5, <1>6, <1>7, <1>8, <1>9 DEF Parent

LEMMA CallbackPlace == TypeOK /\ PlaceInv /\ (TimerFires \/ Callbacks) => PlaceInv'
<1> SUFFICES ASSUME TypeOK, PlaceInv, TimerFires \/ Callbacks PROVE PlaceInv'
  OBVIOUS
<1> USE DEF PlaceInv, ChildInv, ScratchInv, PendingInv, process
<1>1. CASE TimerFires
  BY <1>1 DEF TimerFires, Killed
<1>2. CASE Close
  BY <1>2 DEF Close
<1>3. CASE PipeBreaks
  BY <1>3 DEF PipeBreaks
<1>4. CASE FloodKills
  BY <1>4 DEF FloodKills, Killed
<1> QED BY <1>1, <1>2, <1>3, <1>4 DEF Callbacks

LEMMA ChildPlace == TypeOK /\ PlaceInv /\ Child => PlaceInv'
<1> SUFFICES ASSUME TypeOK, PlaceInv, Child PROVE PlaceInv'
  OBVIOUS
<1> USE DEF PlaceInv, ChildInv, ScratchInv, PendingInv
<1>1. CASE ReadStdin
  BY <1>1 DEF ReadStdin
<1>2. ASSUME NEW line \in Lines, CodexWrites(line) PROVE PlaceInv'
  BY <1>2 DEF CodexWrites
<1>3. ASSUME NEW line \in Prints \cup Replies, FixturePrints(line) PROVE PlaceInv'
  BY <1>3 DEF FixturePrints
<1>4. CASE RoleAdvances
  BY <1>4 DEF RoleAdvances
<1>5. ASSUME NEW how \in {"ok", "failed"}, RoleServes(how) PROVE PlaceInv'
  BY <1>5 DEF RoleServes
<1>6. CASE Fork
  BY <1>6 DEF Fork
<1>7. CASE HeirEnds
  BY <1>7 DEF HeirEnds
<1>8. ASSUME NEW code \in {0, 1, 2}, ChildExits(code) PROVE PlaceInv'
  BY <1>8 DEF ChildExits
<1>9. CASE SystemKills
  BY <1>9 DEF SystemKills, Killed
<1> QED BY <1>1, <1>2, <1>3, <1>4, <1>5, <1>6, <1>7, <1>8, <1>9 DEF Child

LEMMA PlaceKept == TypeOK /\ PlaceInv /\ [Next]_vars => PlaceInv'
<1>1. PlaceInv /\ UNCHANGED vars => PlaceInv'
  BY DEF PlaceInv, ChildInv, ScratchInv, PendingInv, vars, process
<1> QED BY <1>1, ParentPlace, CallbackPlace, ChildPlace DEF Next

LEMMA PlaceHolds == Spec => []PlaceInv
<1>1. Spec => []TypeOK
  BY CallTypeCorrect
<1> QED BY <1>1, InitPlace, PlaceKept, PTL DEF Spec

LEMMA ScratchSafe == PlaceInv => ScratchFollowsCall
BY DEF PlaceInv, ChildInv, ScratchInv, ScratchFollowsCall, Thrown

\* A call that hands back an answer has removed its scratch directory, and
\* never under a running child.
THEOREM ScratchCorrect == Spec => []ScratchFollowsCall
BY PlaceHolds, ScratchSafe, PTL

(***************************************************************************)
(* What a child was started with.                                          *)
(***************************************************************************)
Allowed == IF Reasoning THEN BundleIsSafe(call.cap) ELSE Admissible(call.cap)
StartInv == phase = "prepared" \/ child # "none" => Allowed

LEMMA AllowedStays == call' = call => (Allowed' <=> Allowed)
BY DEF Allowed, Reasoning, BundleIsSafe, Admissible

\* Only the preparation, which checks the capability, and the spawn after it
\* lead to a child.
LEMMA StartStays ==
  PlaceInv /\ Next =>
    \/ Allowed
    \/ phase' = "prepared" \/ child' # "none" => phase = "prepared" \/ child # "none"
<1> SUFFICES ASSUME PlaceInv, Next,
                    ~Allowed, phase # "prepared", child = "none"
             PROVE  phase' # "prepared" /\ child' = "none"
  BY Zenon
<1> USE DEF PlaceInv, ChildInv, process
<1>1. CASE Parent
  BY <1>1 DEF Parent, Refuse, MakeScratch, PreparationFails, Spawn, SpawnFails,
              Classify, Clean, CleanFails, Receive, Allowed
<1>2. CASE TimerFires \/ Callbacks
  BY <1>2 DEF Callbacks, TimerFires, Close, PipeBreaks, FloodKills
<1>3. CASE Child
  BY <1>3 DEF Child, ReadStdin, CodexWrites, FixturePrints, RoleAdvances, RoleServes,
              Fork, HeirEnds, ChildExits, SystemKills
<1> QED BY <1>1, <1>2, <1>3 DEF Next

LEMMA StartKept == PlaceInv /\ StartInv /\ [Next]_vars => StartInv'
<1> SUFFICES ASSUME PlaceInv, StartInv, [Next]_vars PROVE StartInv'
  OBVIOUS
<1>1. Allowed' <=> Allowed
  BY CallStays, AllowedStays
<1>2. CASE Next
  BY <1>1, <1>2, StartStays DEF StartInv
<1>3. CASE UNCHANGED vars
  BY <1>1, <1>3 DEF StartInv, vars, process
<1> QED BY <1>2, <1>3

LEMMA StartHolds == Spec => []StartInv
<1>1. Init => StartInv
  BY DEF Init, StartInv
<1>2. Spec => []PlaceInv
  BY PlaceHolds
<1> QED BY <1>1, <1>2, StartKept, PTL DEF Spec

\* Two paths that contain the same file overlap.
LEMMA PrefixesOverlap ==
  ASSUME NEW left, NEW right, NEW file,
         Len(left) \in Nat, Len(right) \in Nat,
         Within(left, file), Within(right, file)
  PROVE  Overlap(left, right)
<1>1. CASE Len(left) <= Len(right)
  BY <1>1 DEF Overlap, Within
<1>2. CASE Len(right) <= Len(left)
  BY <1>2 DEF Overlap, Within
<1> QED BY <1>1, <1>2

LEMMA StartSafe == TypeOK /\ StartInv => DeniedStaysUnreadable
<1> SUFFICES ASSUME TypeOK, StartInv, child # "none", ~Reasoning,
                    NEW f \in Files,
                    NEW p \in call.cap.allow, Within(Real[p], f),
                    NEW d \in call.cap.deny, Within(Real[d], f)
             PROVE  FALSE
  BY Zenon DEF DeniedStaysUnreadable
<1>1. ~Overlap(Real[p], Real[d])
  BY DEF StartInv, Allowed, Admissible, Physical
<1>2. Len(Real[p]) \in Nat /\ Len(Real[d]) \in Nat
  BY PathsAssumption DEF TypeOK
<1> QED BY <1>1, <1>2, PrefixesOverlap

\* No file a started isolated child may read is a denied one, whatever the
\* paths of its capability resolve to.
THEOREM DeniedCorrect == Spec => []DeniedStaysUnreadable
BY CallTypeCorrect, StartHolds, StartSafe, PTL

(***************************************************************************)
(* What the lines of stdout tell: of codex only lines of its stream; of a  *)
(* role process that hosts no fixture code a reply only after it was       *)
(* served; and of any a served reply stays among them.                     *)
(***************************************************************************)
CodexLines == Reasoning => stdout \in Seq(Lines)
Reply(how) == IF how = "ok" THEN "success" ELSE "failure"
ServedReplies ==
  ~Reasoning =>
    /\ ~HostsFixtureCode =>
         \A j \in 1..Len(stdout) :
           /\ stdout[j] = "success" => served = "ok"
           /\ stdout[j] = "failure" => served = "failed"
    /\ served # "none" => \E j \in 1..Len(stdout) : stdout[j] = Reply(served)
LinesInv == CodexLines /\ ServedReplies

LEMMA InitLines == Init => LinesInv
BY DEF Init, LinesInv, CodexLines, ServedReplies

\* Fixture code that was loaded stays.
LEMMA CodeStays == TypeOK /\ [Next]_vars => (HostsFixtureCode => HostsFixtureCode')
<1> SUFFICES ASSUME TypeOK, [Next]_vars, HostsFixtureCode PROVE HostsFixtureCode'
  OBVIOUS
<1>1. call' = call
  BY CallStays
<1>2. at' = at \/ at' = at + 1
  BY DEF Next, Parent, Callbacks, Child, Refuse, MakeScratch, PreparationFails,
         Spawn, SpawnFails, Classify, Clean, CleanFails, Receive, TimerFires, Close,
         PipeBreaks, FloodKills, ReadStdin, CodexWrites, FixturePrints,
         RoleAdvances, RoleServes, Fork, HeirEnds, ChildExits, SystemKills, Killed,
         process, vars
<1>3. at \in 0..5
  BY DEF TypeOK
<1> QED BY <1>1, <1>2, <1>3 DEF HostsFixtureCode, Reasoning

\* A step either leaves the lines and what was served, or adds a line, a reply
\* only beside fixture code, or serves and adds the reply.
LEMMA LinesStep ==
  TypeOK /\ Next =>
    \/ UNCHANGED <<stdout, served>>
    \/ /\ UNCHANGED served
       /\ \E line \in Texts :
            /\ stdout' = Append(stdout, line)
            /\ line \in Lines \/ ~Reasoning
            /\ line \in Prints \/ Reasoning \/ HostsFixtureCode
    \/ /\ ~Reasoning /\ served = "none"
       /\ served' \in {"ok", "failed"}
       /\ stdout' = Append(stdout, Reply(served'))
<1> SUFFICES ASSUME TypeOK, Next
             PROVE  \/ UNCHANGED <<stdout, served>>
                    \/ /\ UNCHANGED served
                       /\ \E line \in Texts :
                            /\ stdout' = Append(stdout, line)
                            /\ line \in Lines \/ ~Reasoning
                            /\ line \in Prints \/ Reasoning \/ HostsFixtureCode
                    \/ /\ ~Reasoning /\ served = "none"
                       /\ served' \in {"ok", "failed"}
                       /\ stdout' = Append(stdout, Reply(served'))
  OBVIOUS
<1> DEFINE Adds == /\ UNCHANGED served
                   /\ \E line \in Texts :
                        /\ stdout' = Append(stdout, line)
                        /\ line \in Lines \/ ~Reasoning
                        /\ line \in Prints \/ Reasoning \/ HostsFixtureCode
<1>0. Killed => UNCHANGED <<stdout, served>> \/ Adds
  BY DEF Killed, Lines, Unreadable, Prints, Texts
<1>1. CASE Parent
  BY <1>1 DEF Parent, Refuse, MakeScratch, PreparationFails, Spawn, SpawnFails,
              Classify, Clean, CleanFails, Receive, process
<1>2. CASE TimerFires \/ Callbacks
  BY <1>0, <1>2 DEF Callbacks, TimerFires, Close, PipeBreaks, FloodKills, process
<1>3. CASE Child
  <2>1. CASE ReadStdin \/ RoleAdvances \/ Fork \/ HeirEnds
    BY <2>1 DEF ReadStdin, RoleAdvances, Fork, HeirEnds
  <2>2. CASE SystemKills
    BY <1>0, <2>2 DEF SystemKills
  <2>3. ASSUME NEW line \in Lines, CodexWrites(line) PROVE Adds
    BY <2>3 DEF CodexWrites, Texts
  <2>4. ASSUME NEW line \in Prints \cup Replies, FixturePrints(line) PROVE Adds
    BY <2>4 DEF FixturePrints, HostsFixtureCode, Texts
  <2>5. ASSUME NEW how \in {"ok", "failed"}, RoleServes(how)
        PROVE  /\ ~Reasoning /\ served = "none"
               /\ served' \in {"ok", "failed"}
               /\ stdout' = Append(stdout, Reply(served'))
    BY <2>5 DEF RoleServes, Reply
  <2>6. ASSUME NEW code \in {0, 1, 2}, ChildExits(code)
        PROVE  UNCHANGED <<stdout, served>>
    BY <2>6 DEF ChildExits
  <2> QED BY <1>3, <2>1, <2>2, <2>3, <2>4, <2>5, <2>6 DEF Child
<1> QED BY <1>1, <1>2, <1>3 DEF Next

LEMMA LinesKept == TypeOK /\ LinesInv /\ [Next]_vars => LinesInv'
<1> SUFFICES ASSUME TypeOK, LinesInv, [Next]_vars PROVE LinesInv'
  OBVIOUS
<1>0. (Reasoning' <=> Reasoning) /\ (HostsFixtureCode => HostsFixtureCode')
  BY CallStays, CodeStays DEF Reasoning
<1>1. CASE UNCHANGED <<stdout, served>>
  BY <1>0, <1>1 DEF LinesInv, CodexLines, ServedReplies, Reply
<1>2. ASSUME UNCHANGED served,
             NEW line \in Texts, stdout' = Append(stdout, line),
             line \in Lines \/ ~Reasoning,
             line \in Prints \/ Reasoning \/ HostsFixtureCode
      PROVE  LinesInv'
  <2>1. stdout \in Seq(Texts)
    BY DEF TypeOK, Texts
  <2>2. CASE Reasoning
    <3>1. Append(stdout, line) \in Seq(Lines)
      BY <1>2, <2>2, AppendProperties DEF LinesInv, CodexLines
    <3> QED BY <1>0, <1>2, <2>2, <3>1 DEF LinesInv, CodexLines, ServedReplies
  <2>3. CASE ~Reasoning
    <3>1. HostsFixtureCode \/ (line # "success" /\ line # "failure")
      BY <1>2, <2>3 DEF Prints
    <3>2. /\ Len(stdout) \in Nat /\ Len(stdout') = Len(stdout) + 1
          /\ stdout'[Len(stdout) + 1] = line
          /\ \A j \in 1..Len(stdout) : stdout'[j] = stdout[j]
      BY <1>2, <2>1, AppendProperties, LenProperties DEF Texts
    <3>3. ASSUME NEW j \in 1..Len(stdout')
          PROVE  stdout'[j] = line \/ (j \in 1..Len(stdout) /\ stdout'[j] = stdout[j])
      BY <3>2
    <3>4. \A j \in 1..Len(stdout) : j \in 1..Len(stdout') /\ stdout'[j] = stdout[j]
      BY <3>2
    <3>5. ServedReplies'
      BY <1>0, <1>2, <2>3, <3>1, <3>3, <3>4 DEF LinesInv, ServedReplies, Reply
    <3> QED BY <1>0, <2>3, <3>5 DEF LinesInv, CodexLines
  <2> QED BY <2>2, <2>3
<1>3. ASSUME ~Reasoning, served = "none", served' \in {"ok", "failed"},
             stdout' = Append(stdout, Reply(served'))
      PROVE  LinesInv'
  <2>1. stdout \in Seq(Texts) /\ Reply(served') \in Texts
    BY <1>3 DEF TypeOK, Texts, Reply, Replies
  <2>2. /\ Len(stdout) \in Nat /\ Len(stdout') = Len(stdout) + 1
        /\ stdout'[Len(stdout) + 1] = Reply(served')
        /\ \A j \in 1..Len(stdout) : stdout'[j] = stdout[j]
    BY <1>3, <2>1, AppendProperties, LenProperties
  <2>3. ASSUME NEW j \in 1..Len(stdout')
        PROVE  \/ stdout'[j] = Reply(served')
               \/ j \in 1..Len(stdout) /\ stdout'[j] = stdout[j]
    BY <2>2
  <2>4. HostsFixtureCode
        \/ \A j \in 1..Len(stdout) : stdout[j] # "success" /\ stdout[j] # "failure"
    BY <1>3 DEF LinesInv, ServedReplies
  <2>5. Len(stdout') \in 1..Len(stdout') /\ stdout'[Len(stdout')] = Reply(served')
    BY <2>2
  <2>6. ServedReplies'
    BY <1>0, <1>3, <2>3, <2>4, <2>5 DEF ServedReplies, Reply
  <2> QED BY <1>0, <1>3, <2>6 DEF LinesInv, CodexLines
<1>4. CASE Next
  BY <1>1, <1>2, <1>3, <1>4, LinesStep
<1>5. CASE UNCHANGED vars
  BY <1>1, <1>5 DEF vars, process
<1> QED BY <1>4, <1>5

LEMMA LinesHold == Spec => []LinesInv
BY CallTypeCorrect, InitLines, LinesKept, PTL DEF Spec

LEMMA StreamSafe == LinesInv => StreamReadExactly
<1> SUFFICES ASSUME stdout \in Streams
             PROVE  /\ Parse(stdout) = Accepted <=> Complete(stdout)
                    /\ Complete(stdout) =>
                         \A n \in 0..(Len(stdout) - 1) :
                           Parse(SubSeq(stdout, 1, n)) # Accepted
  BY DEF LinesInv, CodexLines, StreamReadExactly, Streams
<1> QED BY ReaderIsExact, PrefixRefused

\* Whatever a reasoning child has written, the reader accepts it exactly when
\* it is complete, and accepts no shorter part of what is complete.
THEOREM StreamCorrect == Spec => []StreamReadExactly
BY LinesHold, StreamSafe, PTL

(***************************************************************************)
(* The answer.                                                             *)
(***************************************************************************)
\* The child ended by itself with this code, after this one line.
EndedWith(code, line) ==
  child = "exited" /\ exit = code /\ ~heir /\ Len(stdout) = 1 /\ stdout[1] = line
\* The reader accepted what a child left that ended in time, with 0.
AcceptedInTime ==
  child = "exited" /\ exit = 0 /\ ~heir /\ timer # "fired" /\ Parse(stdout) = Accepted

ReasoningAnswer ==
  Reasoning =>
    /\ answer.kind \in {"none", "thrown", "verdict", "abstained", "result"}
    /\ answer.kind \in {"verdict", "result"} => AcceptedInTime
    /\ answer.kind = "abstained" => answer.code \in FailureCodes
RoleAnswer ==
  ~Reasoning =>
    /\ answer.kind \in {"none", "thrown", "response", "abstained", "result", "roleFailure"}
    /\ answer.kind = "response" /\ answer.code = "success" => EndedWith(0, "success")
    /\ answer.kind = "response" /\ answer.code = "failure" => EndedWith(1, "failure")
    /\ answer.kind = "result" => EndedWith(0, "success")
    /\ answer.kind \in {"abstained", "roleFailure"} => EndedWith(1, "failure")
AnswerInv == ReasoningAnswer /\ RoleAnswer

LEMMA UnansweredIsSound == answer \in {Nothing, Thrown} => AnswerInv
BY DEF AnswerInv, ReasoningAnswer, RoleAnswer, Nothing, Thrown

\* Once there is an answer, nothing it was read from changes.
LEMMA AnswerOutlasts ==
  PlaceInv /\ Next =>
    \/ UNCHANGED <<child, exit, heir, stdout, timer>>
    \/ answer' = Nothing
<1> SUFFICES ASSUME PlaceInv, Next, ~UNCHANGED <<child, exit, heir, stdout, timer>>
             PROVE  answer' = Nothing
  BY Zenon
<1> USE DEF PlaceInv, ChildInv, PendingInv, process
<1>1. CASE Parent
  BY <1>1 DEF Parent, Refuse, MakeScratch, PreparationFails, Spawn, SpawnFails,
              Classify, Clean, CleanFails, Receive
<1>2. CASE TimerFires \/ Callbacks
  BY <1>2 DEF Callbacks, TimerFires, Close, PipeBreaks, FloodKills
<1>3. CASE Child
  BY <1>3 DEF Child, ReadStdin, CodexWrites, FixturePrints, RoleAdvances, RoleServes,
              Fork, HeirEnds, ChildExits, SystemKills
<1> QED BY <1>1, <1>2, <1>3 DEF Next

\* The answer itself changes only where it is thrown, classified or received.
LEMMA AnswerChanges ==
  Next => \/ UNCHANGED answer \/ answer' = Thrown
          \/ Classify \/ Receive
BY DEF Next, Parent, Callbacks, Child, Refuse, MakeScratch, PreparationFails,
       Spawn, SpawnFails, Classify, Clean, CleanFails, Receive, TimerFires, Close,
       PipeBreaks, FloodKills, ReadStdin, CodexWrites, FixturePrints,
       RoleAdvances, RoleServes, Fork, HeirEnds, ChildExits, SystemKills

LEMMA TransportSound ==
  ASSUME TypeOK, PlaceInv, phase = "settled"
  PROVE  /\ TransportResult.kind \in {"verdict", "abstained"}
         /\ TransportResult.kind = "verdict" => AcceptedInTime
         /\ TransportResult.kind = "abstained" => TransportResult.code \in FailureCodes
<1>1. ~heir /\ (broken \/ child \in {"exited", "killed"})
  BY DEF PlaceInv, ChildInv
<1>2. Parse(stdout) # Accepted => Parse(stdout) \in FailureCodes
  BY ParseCodes
<1>3. CASE timer = "fired" \/ broken \/ child = "killed" \/ exit # 0
  BY <1>3 DEF TransportResult, Abstained, FailureCodes
<1>4. CASE timer # "fired" /\ ~broken /\ child # "killed" /\ exit = 0
  BY <1>1, <1>2, <1>4 DEF TransportResult, Abstained, AcceptedInTime
<1> QED BY <1>3, <1>4

LEMMA LaunchSound ==
  ASSUME TypeOK, PlaceInv, phase = "settled"
  PROVE  /\ LaunchResult.kind \in {"response", "thrown"}
         /\ LaunchResult.kind = "response" /\ LaunchResult.code = "success" =>
              EndedWith(0, "success")
         /\ LaunchResult.kind = "response" /\ LaunchResult.code = "failure" =>
              EndedWith(1, "failure")
<1>1. ~heir
  BY DEF PlaceInv, ChildInv
<1>2. CASE LaunchResult = Thrown
  BY <1>2 DEF Thrown
<1>3. CASE LaunchResult # Thrown
  <2>1. /\ child = "exited" /\ exit \in {0, 1} /\ Len(stdout) = 1
        /\ exit = 1 <=> stdout[1] = "failure"
        /\ LaunchResult = [kind |-> "response", code |-> stdout[1]]
    BY <1>3 DEF LaunchResult
  <2> QED BY <1>1, <2>1 DEF EndedWith
<1> QED BY <1>2, <1>3

LEMMA ClassifySound == TypeOK /\ PlaceInv /\ Classify => AnswerInv'
<1> SUFFICES ASSUME TypeOK, PlaceInv, Classify PROVE AnswerInv'
  OBVIOUS
<1>1. /\ UNCHANGED <<call, child, exit, heir, stdout, timer>>
      /\ phase = "settled"
      /\ answer' = IF Reasoning THEN TransportResult ELSE LaunchResult
  BY DEF Classify, process
<1>2. /\ Reasoning' <=> Reasoning
      /\ AcceptedInTime' <=> AcceptedInTime
      /\ \A code, line : EndedWith(code, line)' <=> EndedWith(code, line)
  BY <1>1 DEF Reasoning, AcceptedInTime, EndedWith
<1>3. CASE Reasoning
  BY <1>1, <1>2, <1>3, TransportSound DEF AnswerInv, ReasoningAnswer, RoleAnswer
<1>4. CASE ~Reasoning
  BY <1>1, <1>2, <1>4, LaunchSound DEF AnswerInv, ReasoningAnswer, RoleAnswer
<1> QED BY <1>3, <1>4

\* Receiving a response does not make more of it than it says.
LEMMA ReceiveSound == AnswerInv /\ Receive => AnswerInv'
<1> SUFFICES ASSUME AnswerInv, Receive PROVE AnswerInv'
  OBVIOUS
<1>1. /\ UNCHANGED <<call, child, exit, heir, stdout, timer>>
      /\ answer' = Received
  BY DEF Receive, process
<1>2. /\ Reasoning' <=> Reasoning
      /\ AcceptedInTime' <=> AcceptedInTime
      /\ \A code, line : EndedWith(code, line)' <=> EndedWith(code, line)
  BY <1>1 DEF Reasoning, AcceptedInTime, EndedWith
<1>3. CASE answer.kind = "response" /\ answer.code = "success"
  <2>1. answer' = [kind |-> "result", code |-> "none"]
    BY <1>1, <1>3 DEF Received, Replies
  <2> QED BY <1>2, <1>3, <2>1 DEF AnswerInv, ReasoningAnswer, RoleAnswer
<1>4. CASE answer.kind = "response" /\ answer.code = "failure"
  <2>1. answer' \in {Abstained("failure"), [kind |-> "roleFailure", code |-> "failure"]}
    BY <1>1, <1>4 DEF Received, Replies
  <2> QED BY <1>2, <1>4, <2>1 DEF AnswerInv, ReasoningAnswer, RoleAnswer, Abstained
<1>5. CASE answer.kind = "response" /\ answer.code \notin {"success", "failure"}
  <2>1. answer' = Thrown
    BY <1>1, <1>5 DEF Received, Replies
  <2> QED BY <2>1 DEF AnswerInv, ReasoningAnswer, RoleAnswer, Thrown
<1>6. CASE answer.kind = "verdict"
  <2>1. answer' = [kind |-> "result", code |-> "none"]
    BY <1>1, <1>6 DEF Received
  <2> QED BY <1>2, <1>6, <2>1 DEF AnswerInv, ReasoningAnswer, RoleAnswer
<1>7. CASE answer.kind \notin {"response", "verdict"}
  <2>1. answer' = answer
    BY <1>1, <1>7 DEF Received
  <2> QED BY <1>2, <2>1 DEF AnswerInv, ReasoningAnswer, RoleAnswer
<1> QED BY <1>3, <1>4, <1>5, <1>6, <1>7

LEMMA AnswerKept == TypeOK /\ PlaceInv /\ AnswerInv /\ [Next]_vars => AnswerInv'
<1> SUFFICES ASSUME TypeOK, PlaceInv, AnswerInv, [Next]_vars PROVE AnswerInv'
  OBVIOUS
<1>1. CASE answer' \in {Nothing, Thrown}
  BY <1>1 DEF AnswerInv, ReasoningAnswer, RoleAnswer, Nothing, Thrown
<1>2. CASE UNCHANGED <<answer, child, exit, heir, stdout, timer>>
  <2>1. Reasoning' <=> Reasoning
    BY CallStays DEF Reasoning
  <2>2. /\ AcceptedInTime' <=> AcceptedInTime
        /\ \A code, line : EndedWith(code, line)' <=> EndedWith(code, line)
    BY <1>2 DEF AcceptedInTime, EndedWith
  <2> QED BY <1>2, <2>1, <2>2 DEF AnswerInv, ReasoningAnswer, RoleAnswer
<1>3. CASE Classify \/ Receive
  BY <1>3, ClassifySound, ReceiveSound
<1>4. CASE Next
  BY <1>1, <1>2, <1>3, <1>4, AnswerOutlasts, AnswerChanges
<1>5. CASE UNCHANGED vars
  BY <1>2, <1>5 DEF vars, process
<1> QED BY <1>4, <1>5

LEMMA AnswerHolds == Spec => []AnswerInv
<1>1. Init => AnswerInv
  BY UnansweredIsSound DEF Init
<1>2. Spec => []PlaceInv
  BY PlaceHolds
<1> QED BY <1>1, <1>2, CallTypeCorrect, AnswerKept, PTL DEF Spec

LEMMA OneLine ==
  ASSUME NEW s \in Seq(Texts), Len(s) = 1
  PROVE  s = <<s[1]>>
OBVIOUS

LEMMA AnswerSafe == TypeOK /\ LinesInv /\ AnswerInv => SoundAnswer
<1> SUFFICES ASSUME TypeOK, LinesInv, AnswerInv PROVE SoundAnswer
  OBVIOUS
<1>1. CASE Reasoning
  <2>1. AcceptedInTime => Complete(stdout)
    BY <1>1, ReaderIsExact DEF LinesInv, CodexLines, Streams, AcceptedInTime
  <2> QED BY <1>1, <2>1 DEF AnswerInv, ReasoningAnswer, AcceptedInTime, SoundAnswer
<1>2. CASE ~Reasoning
  <2>1. ASSUME NEW code, NEW line, EndedWith(code, line)
        PROVE  /\ child = "exited" /\ exit = code /\ ~heir /\ stdout = <<line>>
               /\ line = "success" => SaidBy("ok")
               /\ line = "failure" => SaidBy("failed")
    <3>1. stdout = <<stdout[1]>> /\ Len(stdout) = 1
      BY <2>1, OneLine DEF TypeOK, Texts, EndedWith
    <3>2. 1..Len(stdout) = {1}
      BY <3>1
    <3>3. served # "none" => stdout[1] = Reply(served)
      BY <1>2, <3>2 DEF LinesInv, ServedReplies
    <3>4. served \in {"none", "ok", "failed"}
      BY DEF TypeOK
    <3>5. ~HostsFixtureCode => (stdout[1] = "success" => served = "ok")
                            /\ (stdout[1] = "failure" => served = "failed")
      BY <1>2, <3>2 DEF LinesInv, ServedReplies
    <3> QED BY <2>1, <3>1, <3>3, <3>4, <3>5 DEF EndedWith, SaidBy, Reply
  <2> QED BY <1>2, <2>1 DEF AnswerInv, RoleAnswer, SoundAnswer
<1> QED BY <1>1, <1>2

\* A hook hands back a verdict only of a complete stream in time, and a role's
\* reply only when it stood alone and the process exited with it: the served
\* one, unless the process hosts fixture code and served none.
THEOREM AnswerCorrect == Spec => []SoundAnswer
BY CallTypeCorrect, LinesHold, AnswerHolds, AnswerSafe, PTL
=============================================================================
