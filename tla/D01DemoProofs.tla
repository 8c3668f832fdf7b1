----------------------------- MODULE D01DemoProofs -----------------------------
(***************************************************************************)
(* Theorems about D01Demo and ReplayChain, for any assertions, contracts,  *)
(* reasonings, runs and damages.                                           *)
(***************************************************************************)
EXTENDS D01Demo, SequenceTheorems, TLAPS

(***************************************************************************)
(* The replay of one reasoning.                                            *)
(***************************************************************************)
\* Its four records.
HeaderOf(r) == Sealed(Base("header", 1, r, <<>>, Header))
RequestOf(r) == Sealed(Base("reasoning_request", 2, r, <<HeaderOf(r).digest>>, Request(r)))
ResponseOf(r) ==
  Sealed(Base("reasoning_response", 3, r, <<HeaderOf(r).digest, RequestOf(r).digest>>,
              Response(r)))
PrefixOf(r) == <<HeaderOf(r).digest, RequestOf(r).digest, ResponseOf(r).digest>>
ClosingOf(r) ==
  [records |-> 4, header |-> HeaderOf(r).digest, request |-> RequestOf(r).digest,
   response |-> ResponseOf(r).digest, prefix |-> PrefixOf(r), final |-> Response(r)]
FooterOf(r) == Sealed(Base("footer", 4, r, PrefixOf(r), ClosingOf(r)))

LEMMA Chains ==
  /\ Chain(<<>>) = <<>>
  /\ \A a : Chain(<<a>>) = <<a.digest>>
  /\ \A a, b : Chain(<<a, b>>) = <<a.digest, b.digest>>
  /\ \A a, b, c : Chain(<<a, b, c>>) = <<a.digest, b.digest, c.digest>>
BY DEF Chain

LEMMA Appends ==
  /\ \A a, b : Append(<<a>>, b) = <<a, b>>
  /\ \A a, b, c : Append(<<a, b>>, c) = <<a, b, c>>
  /\ \A a, b, c, d : Append(<<a, b, c>>, d) = <<a, b, c, d>>
<1>1. ASSUME NEW a, NEW b PROVE Append(<<a>>, b) = <<a, b>>
  <2> DEFINE S == {a, b}
  <2>1. <<a>> \in Seq(S) /\ Len(<<a>>) = 1 /\ b \in S
    OBVIOUS
  <2>2. <<a, b>> \in Seq(S) /\ Len(<<a, b>>) = 2
    OBVIOUS
  <2> HIDE DEF S
  <2>3. /\ Append(<<a>>, b) \in Seq(S)
        /\ Len(Append(<<a>>, b)) = 2
        /\ \A i \in 1..1 : Append(<<a>>, b)[i] = <<a>>[i]
        /\ Append(<<a>>, b)[2] = b
    BY <2>1, AppendProperties
  <2>4. \A i \in 1..2 : Append(<<a>>, b)[i] = <<a, b>>[i]
    BY <2>3
  <2> QED BY <2>2, <2>3, <2>4, SeqEqual
<1>2. ASSUME NEW a, NEW b, NEW c PROVE Append(<<a, b>>, c) = <<a, b, c>>
  <2> DEFINE S == {a, b, c}
  <2>1. <<a, b>> \in Seq(S) /\ Len(<<a, b>>) = 2 /\ c \in S
    OBVIOUS
  <2>2. <<a, b, c>> \in Seq(S) /\ Len(<<a, b, c>>) = 3
    OBVIOUS
  <2> HIDE DEF S
  <2>3. /\ Append(<<a, b>>, c) \in Seq(S)
        /\ Len(Append(<<a, b>>, c)) = 3
        /\ \A i \in 1..2 : Append(<<a, b>>, c)[i] = <<a, b>>[i]
        /\ Append(<<a, b>>, c)[3] = c
    BY <2>1, AppendProperties
  <2>4. \A i \in 1..3 : Append(<<a, b>>, c)[i] = <<a, b, c>>[i]
    BY <2>3
  <2> QED BY <2>2, <2>3, <2>4, SeqEqual
<1>3. ASSUME NEW a, NEW b, NEW c, NEW d PROVE Append(<<a, b, c>>, d) = <<a, b, c, d>>
  <2> DEFINE S == {a, b, c, d}
  <2>1. <<a, b, c>> \in Seq(S) /\ Len(<<a, b, c>>) = 3 /\ d \in S
    OBVIOUS
  <2>2. <<a, b, c, d>> \in Seq(S) /\ Len(<<a, b, c, d>>) = 4
    OBVIOUS
  <2> HIDE DEF S
  <2>3. /\ Append(<<a, b, c>>, d) \in Seq(S)
        /\ Len(Append(<<a, b, c>>, d)) = 4
        /\ \A i \in 1..3 : Append(<<a, b, c>>, d)[i] = <<a, b, c>>[i]
        /\ Append(<<a, b, c>>, d)[4] = d
    BY <2>1, AppendProperties
  <2>4. \A i \in 1..4 : Append(<<a, b, c>>, d)[i] = <<a, b, c, d>>[i]
    BY <2>3
  <2> QED BY <2>2, <2>3, <2>4, SeqEqual
<1> QED BY <1>1, <1>2, <1>3

LEMMA WholeOfThree ==
  ASSUME NEW a, NEW b, NEW c
  PROVE  SubSeq(<<a, b, c>>, 1, 3) = <<a, b, c>>
<1>1. <<a, b, c>> \in Seq({a, b, c}) /\ Len(<<a, b, c>>) = 3
  OBVIOUS
<1> QED BY <1>1, SubSeqFull

LEMMA ReplayRecordsOf ==
  ASSUME NEW r
  PROVE  Replay(r) = <<HeaderOf(r), RequestOf(r), ResponseOf(r), FooterOf(r)>>
<1>1. AppendRecord(<<>>, r, Header) = <<HeaderOf(r)>>
  BY Chains DEF AppendRecord, HeaderOf, RecordTypes
<1>2. AppendRecord(<<HeaderOf(r)>>, r, Request(r)) = <<HeaderOf(r), RequestOf(r)>>
  <2>1. Chain(<<HeaderOf(r)>>) = <<HeaderOf(r).digest>> /\ Len(<<HeaderOf(r)>>) + 1 = 2
    BY Chains
  <2>2. RecordTypes[2] = "reasoning_request"
    BY DEF RecordTypes
  <2> QED BY <2>1, <2>2, Appends DEF AppendRecord, RequestOf
<1>3. AppendRecord(<<HeaderOf(r), RequestOf(r)>>, r, Response(r))
        = <<HeaderOf(r), RequestOf(r), ResponseOf(r)>>
  <2>1. /\ Chain(<<HeaderOf(r), RequestOf(r)>>) = <<HeaderOf(r).digest, RequestOf(r).digest>>
        /\ Len(<<HeaderOf(r), RequestOf(r)>>) + 1 = 3
    BY Chains
  <2>2. RecordTypes[3] = "reasoning_response"
    BY DEF RecordTypes
  <2> QED BY <2>1, <2>2, Appends DEF AppendRecord, ResponseOf
<1> DEFINE open == <<HeaderOf(r), RequestOf(r), ResponseOf(r)>>
<1>4. Footer(open) = ClosingOf(r)
  <2>1. SubSeq(open, 1, 3) = open
    BY WholeOfThree
  <2>2. Chain(open) = PrefixOf(r)
    BY Chains DEF PrefixOf
  <2>3. open[3].base.payload = Response(r)
    BY DEF ResponseOf, Sealed, Base
  <2> QED BY <2>1, <2>2, <2>3 DEF Footer, ClosingOf
<1>5. AppendRecord(open, r, ClosingOf(r)) = <<HeaderOf(r), RequestOf(r), ResponseOf(r), FooterOf(r)>>
  <2>1. Chain(open) = PrefixOf(r) /\ Len(open) + 1 = 4
    BY Chains DEF PrefixOf
  <2>2. RecordTypes[4] = "footer"
    BY DEF RecordTypes
  <2> QED BY <2>1, <2>2, Appends DEF AppendRecord, FooterOf
<1> QED BY <1>1, <1>2, <1>3, <1>4, <1>5 DEF Replay

(***************************************************************************)
(* Records, as RecordSchema accepts them: any of the payloads under any    *)
(* type, and any digest.                                                   *)
(***************************************************************************)
Previous == {<<>>} \cup UNION {{<<HeaderOf(r).digest>>,
                                <<HeaderOf(r).digest, RequestOf(r).digest>>,
                                PrefixOf(r)} : r \in Reasonings}
Payloads == {Header} \cup Requests \cup Responses \cup {ClosingOf(r) : r \in Reasonings}
Bases == [type : Range(RecordTypes), sequence : 1..4, replay : Candidates,
          candidate : Candidates, content : Contents, previous : Previous, payload : Payloads]
ReplayRecords == [base : Bases, digest : Bases]

(***************************************************************************)
(* Four records validate exactly when they are the replay of a reasoning.  *)
(***************************************************************************)
LEMMA Prefixes ==
  ASSUME NEW a, NEW b, NEW c, NEW d
  PROVE  /\ SubSeq(<<a, b, c, d>>, 1, 0) = <<>>
         /\ SubSeq(<<a, b, c, d>>, 1, 1) = <<a>>
         /\ SubSeq(<<a, b, c, d>>, 1, 2) = <<a, b>>
         /\ SubSeq(<<a, b, c, d>>, 1, 3) = <<a, b, c>>
<1> DEFINE S == {a, b, c, d}
           s == <<a, b, c, d>>
<1>1. /\ s[1] = a /\ s[2] = b /\ s[3] = c /\ s[4] = d
      /\ a \in S /\ b \in S /\ c \in S /\ d \in S
  OBVIOUS
<1>2. /\ <<a>> \in Seq(S) /\ Len(<<a>>) = 1 /\ <<a>>[1] = a
      /\ <<a, b>> \in Seq(S) /\ Len(<<a, b>>) = 2 /\ <<a, b>>[1] = a /\ <<a, b>>[2] = b
      /\ <<a, b, c>> \in Seq(S) /\ Len(<<a, b, c>>) = 3
      /\ <<a, b, c>>[1] = a /\ <<a, b, c>>[2] = b /\ <<a, b, c>>[3] = c
  OBVIOUS
<1> HIDE DEF S, s
<1>3. \A n \in 1..3 : /\ SubSeq(s, 1, n) \in Seq(S) /\ Len(SubSeq(s, 1, n)) = n
                      /\ \A i \in 1..n : SubSeq(s, 1, n)[i] = s[i]
  <2> TAKE n \in 1..3
  <2>1. \A i \in 1..n : s[i] \in S
    BY <1>1
  <2>2. /\ SubSeq(s, 1, n) \in Seq(S)
        /\ Len(SubSeq(s, 1, n)) = IF 1 <= n THEN n - 1 + 1 ELSE 0
        /\ \A i \in 1..(n - 1 + 1) : SubSeq(s, 1, n)[i] = s[1 + i - 1]
    BY <2>1, SubSeqProperties
  <2> QED BY <2>2
<1>4. SubSeq(s, 1, 0) = <<>>
  BY SubSeqEmpty
<1>5. SubSeq(s, 1, 1) = <<a>>
  <2>1. \A i \in 1..Len(<<a>>) : SubSeq(s, 1, 1)[i] = <<a>>[i]
    BY <1>1, <1>2, <1>3
  <2>2. SubSeq(s, 1, 1) \in Seq(S) /\ Len(SubSeq(s, 1, 1)) = 1
    BY <1>3
  <2>3. \A i \in 1..Len(SubSeq(s, 1, 1)) : SubSeq(s, 1, 1)[i] = <<a>>[i]
    BY <1>2, <2>1, <2>2
  <2>4. <<a>> \in Seq(S) /\ Len(SubSeq(s, 1, 1)) = Len(<<a>>)
    BY <1>2, <2>2
  <2> QED BY ONLY <2>2, <2>3, <2>4, SeqEqual
<1>6. SubSeq(s, 1, 2) = <<a, b>>
  <2>1. \A i \in 1..Len(<<a, b>>) : SubSeq(s, 1, 2)[i] = <<a, b>>[i]
    BY <1>1, <1>2, <1>3
  <2>2. SubSeq(s, 1, 2) \in Seq(S) /\ Len(SubSeq(s, 1, 2)) = 2
    BY <1>3
  <2>3. \A i \in 1..Len(SubSeq(s, 1, 2)) : SubSeq(s, 1, 2)[i] = <<a, b>>[i]
    BY <1>2, <2>1, <2>2
  <2>4. <<a, b>> \in Seq(S) /\ Len(SubSeq(s, 1, 2)) = Len(<<a, b>>)
    BY <1>2, <2>2
  <2> QED BY ONLY <2>2, <2>3, <2>4, SeqEqual
<1>7. SubSeq(s, 1, 3) = <<a, b, c>>
  <2>1. \A i \in 1..Len(<<a, b, c>>) : SubSeq(s, 1, 3)[i] = <<a, b, c>>[i]
    BY <1>1, <1>2, <1>3
  <2>2. SubSeq(s, 1, 3) \in Seq(S) /\ Len(SubSeq(s, 1, 3)) = 3
    BY <1>3
  <2>3. \A i \in 1..Len(SubSeq(s, 1, 3)) : SubSeq(s, 1, 3)[i] = <<a, b, c>>[i]
    BY <1>2, <2>1, <2>2
  <2>4. <<a, b, c>> \in Seq(S) /\ Len(SubSeq(s, 1, 3)) = Len(<<a, b, c>>)
    BY <1>2, <2>2
  <2> QED BY ONLY <2>2, <2>3, <2>4, SeqEqual
<1> QED BY <1>4, <1>5, <1>6, <1>7 DEF s

\* The checks, on four records one by one.
FourBound(a, b, c, d) ==
  /\ a.base.sequence = 1 /\ a.base.type = "header"
  /\ b.base.sequence = 2 /\ b.base.type = "reasoning_request"
  /\ c.base.sequence = 3 /\ c.base.type = "reasoning_response"
  /\ d.base.sequence = 4 /\ d.base.type = "footer"
  /\ b.base.replay = a.base.replay /\ c.base.replay = a.base.replay
  /\ d.base.replay = a.base.replay
  /\ b.base.candidate = a.base.candidate /\ c.base.candidate = a.base.candidate
  /\ d.base.candidate = a.base.candidate
  /\ b.base.content = a.base.content /\ c.base.content = a.base.content
  /\ d.base.content = a.base.content
  /\ a.digest = a.base /\ b.digest = b.base
  /\ c.digest = c.base /\ d.digest = d.base
  /\ a.base.previous = <<>>
  /\ b.base.previous = <<a.digest>>
  /\ c.base.previous = <<a.digest, b.digest>>
  /\ d.base.previous = <<a.digest, b.digest, c.digest>>
  /\ PayloadsBound(<<a, b, c, d>>)
  /\ d.base.payload = [records |-> 4, header |-> a.digest, request |-> b.digest,
                       response |-> c.digest,
                       prefix |-> <<a.digest, b.digest, c.digest>>,
                       final |-> c.base.payload]

LEMMA ValidationOfFour ==
  ASSUME NEW a, NEW b, NEW c, NEW d
  PROVE  Validates(<<a, b, c, d>>) <=> FourBound(a, b, c, d)
<1> DEFINE s == <<a, b, c, d>>
<1>1. s[1] = a /\ s[2] = b /\ s[3] = c /\ s[4] = d /\ Len(s) = 4
  OBVIOUS
<1>2. /\ SubSeq(s, 1, 0) = <<>> /\ SubSeq(s, 1, 1) = <<a>> /\ SubSeq(s, 1, 2) = <<a, b>>
      /\ SubSeq(s, 1, 3) = <<a, b, c>>
  BY Prefixes
<1> HIDE DEF s
<1>3. InOrder(s) <=> /\ a.base.sequence = 1 /\ a.base.type = "header"
                     /\ b.base.sequence = 2 /\ b.base.type = "reasoning_request"
                     /\ c.base.sequence = 3 /\ c.base.type = "reasoning_response"
                     /\ d.base.sequence = 4 /\ d.base.type = "footer"
  <2>1. /\ RecordTypes[1] = "header" /\ RecordTypes[2] = "reasoning_request"
        /\ RecordTypes[3] = "reasoning_response" /\ RecordTypes[4] = "footer"
    BY DEF RecordTypes
  <2>2. 1..4 = {1, 2, 3, 4}
    OBVIOUS
  <2> QED BY <1>1, <2>1, <2>2 DEF InOrder
<1>4. Chained(s) <=> /\ b.base.replay = a.base.replay /\ c.base.replay = a.base.replay
                     /\ d.base.replay = a.base.replay
                     /\ b.base.candidate = a.base.candidate /\ c.base.candidate = a.base.candidate
                     /\ d.base.candidate = a.base.candidate
                     /\ b.base.content = a.base.content /\ c.base.content = a.base.content
                     /\ d.base.content = a.base.content
                     /\ a.digest = a.base /\ b.digest = b.base
                     /\ c.digest = c.base /\ d.digest = d.base
                     /\ a.base.previous = <<>>
                     /\ b.base.previous = <<a.digest>>
                     /\ c.base.previous = <<a.digest, b.digest>>
                     /\ d.base.previous = <<a.digest, b.digest, c.digest>>
  <2> DEFINE Holds(i) == /\ s[i].base.replay = s[1].base.replay
                         /\ s[i].base.candidate = s[1].base.candidate
                         /\ s[i].base.content = s[1].base.content
                         /\ s[i].base.previous = Chain(SubSeq(s, 1, i - 1))
                         /\ s[i].digest = s[i].base
  <2>1. Chained(s) <=> \A i \in 1..4 : Holds(i)
    BY DEF Chained
  <2>2. 1..4 = {1, 2, 3, 4} /\ 1 - 1 = 0 /\ 2 - 1 = 1 /\ 3 - 1 = 2 /\ 4 - 1 = 3
    OBVIOUS
  <2>3. Chained(s) <=> Holds(1) /\ Holds(2) /\ Holds(3) /\ Holds(4)
    BY <2>1, <2>2
  <2>4. /\ Chain(SubSeq(s, 1, 0)) = <<>>
        /\ Chain(SubSeq(s, 1, 1)) = <<a.digest>>
        /\ Chain(SubSeq(s, 1, 2)) = <<a.digest, b.digest>>
        /\ Chain(SubSeq(s, 1, 3)) = <<a.digest, b.digest, c.digest>>
    BY <1>2, Chains
  <2> QED BY <1>1, <2>2, <2>3, <2>4
<1>5. Footer(s) = [records |-> 4, header |-> a.digest, request |-> b.digest,
                   response |-> c.digest, prefix |-> <<a.digest, b.digest, c.digest>>,
                   final |-> c.base.payload]
  BY <1>1, <1>2, Chains DEF Footer
<1> QED BY <1>1, <1>3, <1>4, <1>5 DEF Validates, FooterBinds, FourBound, s

LEMMA ReplayValidates ==
  ASSUME NEW r \in Reasonings
  PROVE  Validates(Replay(r))
<1> DEFINE a == HeaderOf(r)
           b == RequestOf(r)
           c == ResponseOf(r)
           d == FooterOf(r)
<1>1. /\ a.base = Base("header", 1, r, <<>>, Header) /\ a.digest = a.base
      /\ b.base = Base("reasoning_request", 2, r, <<a.digest>>, Request(r))
      /\ b.digest = b.base
      /\ c.base = Base("reasoning_response", 3, r, <<a.digest, b.digest>>, Response(r))
      /\ c.digest = c.base
      /\ d.base = Base("footer", 4, r, PrefixOf(r), ClosingOf(r)) /\ d.digest = d.base
  BY DEF HeaderOf, RequestOf, ResponseOf, FooterOf, Sealed
<1>2. PrefixOf(r) = <<a.digest, b.digest, c.digest>>
  BY DEF PrefixOf
<1>3. ClosingOf(r) = [records |-> 4, header |-> a.digest, request |-> b.digest,
                      response |-> c.digest, prefix |-> <<a.digest, b.digest, c.digest>>,
                      final |-> Response(r)]
  BY <1>2 DEF ClosingOf
<1> HIDE DEF a, b, c, d
<1>4. /\ r.candidate \in Candidates /\ r.content \in Contents
      /\ r.risk \in Risks /\ r.plan \in Plans
  BY DEF Reasonings
<1>5. Request(r) \in Requests /\ Response(r) \in Responses
  BY <1>4 DEF Request, Response, Requests, Responses
<1>6. PayloadsBound(<<a, b, c, d>>)
  <2>1. /\ <<a, b, c, d>>[1] = a /\ <<a, b, c, d>>[2] = b /\ <<a, b, c, d>>[3] = c
    OBVIOUS
  <2>2. /\ a.base.payload = Header /\ a.base.replay = r.candidate
        /\ a.base.candidate = r.candidate /\ a.base.content = r.content
        /\ b.base.payload = Request(r) /\ c.base.payload = Response(r)
    BY <1>1 DEF Base
  <2>3. /\ Request(r).candidate = r.candidate /\ Request(r).content = r.content
        /\ Request(r).risk = r.risk
        /\ Response(r).candidate = r.candidate /\ Response(r).riskDigest = r.risk
    BY DEF Request, Response
  <2> QED BY ONLY <1>5, <2>1, <2>2, <2>3 DEF PayloadsBound
<1>7. c.base.payload = Response(r) /\ d.base.payload = ClosingOf(r)
  BY <1>1 DEF Base
<1>8. /\ a.base.sequence = 1 /\ a.base.type = "header" /\ a.base.previous = <<>>
      /\ b.base.sequence = 2 /\ b.base.type = "reasoning_request"
      /\ b.base.previous = <<a.digest>>
      /\ c.base.sequence = 3 /\ c.base.type = "reasoning_response"
      /\ c.base.previous = <<a.digest, b.digest>>
      /\ d.base.sequence = 4 /\ d.base.type = "footer"
      /\ d.base.previous = <<a.digest, b.digest, c.digest>>
  BY <1>1, <1>2 DEF Base
<1>9. \A e \in {a, b, c, d} : /\ e.base.replay = r.candidate /\ e.base.candidate = r.candidate
                              /\ e.base.content = r.content /\ e.digest = e.base
  BY <1>1 DEF Base
<1>10. Validates(<<a, b, c, d>>)
  <2>1. /\ b.base.replay = a.base.replay /\ c.base.replay = a.base.replay
        /\ d.base.replay = a.base.replay
        /\ b.base.candidate = a.base.candidate /\ c.base.candidate = a.base.candidate
        /\ d.base.candidate = a.base.candidate
        /\ b.base.content = a.base.content /\ c.base.content = a.base.content
        /\ d.base.content = a.base.content
        /\ a.digest = a.base /\ b.digest = b.base
        /\ c.digest = c.base /\ d.digest = d.base
    BY ONLY <1>9
  <2>2. d.base.payload = [records |-> 4, header |-> a.digest, request |-> b.digest,
                          response |-> c.digest, prefix |-> <<a.digest, b.digest, c.digest>>,
                          final |-> c.base.payload]
    BY ONLY <1>3, <1>7
  <2> QED BY ONLY <1>6, <1>8, <2>1, <2>2, ValidationOfFour DEF FourBound
<1> QED BY <1>10, ReplayRecordsOf DEF a, b, c, d

\* The reasoning that four records speak of.
Told(s) == [candidate |-> s[1].base.candidate, content |-> s[1].base.content,
            risk |-> s[2].base.payload.risk, plan |-> s[3].base.payload.plan]

LEMMA RecordIsItsFields ==
  ASSUME NEW e \in ReplayRecords
  PROVE  /\ e = [base |-> e.base, digest |-> e.digest] /\ e.base \in Bases
         /\ e.base = [type |-> e.base.type, sequence |-> e.base.sequence,
                      replay |-> e.base.replay, candidate |-> e.base.candidate,
                      content |-> e.base.content, previous |-> e.base.previous,
                      payload |-> e.base.payload]
         /\ e.base.candidate \in Candidates /\ e.base.content \in Contents
BY DEF ReplayRecords, Bases

LEMMA OnlyReplaysValidate ==
  ASSUME NEW a \in ReplayRecords, NEW b \in ReplayRecords, NEW c \in ReplayRecords,
         NEW d \in ReplayRecords, Validates(<<a, b, c, d>>)
  PROVE  /\ Told(<<a, b, c, d>>) \in Reasonings
         /\ <<a, b, c, d>> = Replay(Told(<<a, b, c, d>>))
<1> DEFINE r == Told(<<a, b, c, d>>)
<1>0. /\ <<a, b, c, d>>[1] = a /\ <<a, b, c, d>>[2] = b /\ <<a, b, c, d>>[3] = c
  OBVIOUS
<1>a. FourBound(a, b, c, d)
  BY ONLY Validates(<<a, b, c, d>>), ValidationOfFour
<1>1. /\ a.base.sequence = 1 /\ a.base.type = "header" /\ a.base.previous = <<>>
      /\ b.base.sequence = 2 /\ b.base.type = "reasoning_request"
      /\ b.base.previous = <<a.digest>>
      /\ c.base.sequence = 3 /\ c.base.type = "reasoning_response"
      /\ c.base.previous = <<a.digest, b.digest>>
      /\ d.base.sequence = 4 /\ d.base.type = "footer"
      /\ d.base.previous = <<a.digest, b.digest, c.digest>>
      /\ PayloadsBound(<<a, b, c, d>>)
      /\ d.base.payload = [records |-> 4, header |-> a.digest, request |-> b.digest,
                           response |-> c.digest,
                           prefix |-> <<a.digest, b.digest, c.digest>>,
                           final |-> c.base.payload]
  BY ONLY <1>a DEF FourBound
<1>2. /\ b.base.replay = a.base.replay /\ c.base.replay = a.base.replay
      /\ d.base.replay = a.base.replay
      /\ b.base.candidate = a.base.candidate /\ c.base.candidate = a.base.candidate
      /\ d.base.candidate = a.base.candidate
      /\ b.base.content = a.base.content /\ c.base.content = a.base.content
      /\ d.base.content = a.base.content
  BY ONLY <1>a DEF FourBound
<1>2a. /\ a.digest = a.base /\ b.digest = b.base
       /\ c.digest = c.base /\ d.digest = d.base
  BY ONLY <1>a DEF FourBound
<1>3. /\ a.base.payload = Header /\ a.base.replay = a.base.candidate
      /\ b.base.payload \in Requests /\ c.base.payload \in Responses
      /\ b.base.payload.candidate = a.base.candidate
      /\ b.base.payload.content = a.base.content
      /\ c.base.payload.candidate = a.base.candidate
      /\ c.base.payload.riskDigest = b.base.payload.risk
  BY ONLY <1>0, <1>1 DEF PayloadsBound
<1>4. /\ r.candidate = a.base.candidate /\ r.content = a.base.content
      /\ r.risk = b.base.payload.risk /\ r.plan = c.base.payload.plan
  BY <1>0 DEF Told
<1>5. r \in Reasonings
  <2>1. a.base.candidate \in Candidates /\ a.base.content \in Contents
    BY RecordIsItsFields
  <2>2. b.base.payload.risk \in Risks /\ c.base.payload.plan \in Plans
    BY <1>3 DEF Requests, Responses
  <2> QED BY <1>0, <2>1, <2>2 DEF Told, Reasonings
<1> HIDE DEF r
<1>6. b.base.payload = Request(r) /\ c.base.payload = Response(r)
  BY <1>3, <1>4 DEF Requests, Responses, Request, Response
<1>7. a = HeaderOf(r)
  <2>1. a.base = Base("header", 1, r, <<>>, Header)
    BY ONLY RecordIsItsFields, <1>1, <1>3, <1>4, a \in ReplayRecords DEF Base
  <2> QED BY <1>2a, <2>1, RecordIsItsFields DEF HeaderOf, Sealed
<1>8. b = RequestOf(r)
  <2>1. b.base = Base("reasoning_request", 2, r, <<a.digest>>, Request(r))
    BY ONLY RecordIsItsFields, <1>1, <1>2, <1>3, <1>4, <1>6, b \in ReplayRecords DEF Base
  <2> QED BY <1>2a, <1>7, <2>1, RecordIsItsFields DEF RequestOf, Sealed
<1>9. c = ResponseOf(r)
  <2>1. c.base = Base("reasoning_response", 3, r, <<a.digest, b.digest>>, Response(r))
    BY ONLY RecordIsItsFields, <1>1, <1>2, <1>3, <1>4, <1>6, c \in ReplayRecords DEF Base
  <2> QED BY <1>2a, <1>7, <1>8, <2>1, RecordIsItsFields DEF ResponseOf, Sealed
<1>10. d = FooterOf(r)
  <2>1. <<a.digest, b.digest, c.digest>> = PrefixOf(r)
    BY <1>7, <1>8, <1>9 DEF PrefixOf
  <2>2. d.base.payload = ClosingOf(r)
    BY <1>1, <1>6, <1>7, <1>8, <1>9, <2>1 DEF ClosingOf
  <2>3. d.base = Base("footer", 4, r, PrefixOf(r), ClosingOf(r))
    BY ONLY RecordIsItsFields, <1>1, <1>2, <1>3, <1>4, <2>1, <2>2, d \in ReplayRecords DEF Base
  <2> QED BY <1>2a, <2>3, RecordIsItsFields DEF FooterOf, Sealed
<1> QED BY <1>5, <1>7, <1>8, <1>9, <1>10, ReplayRecordsOf DEF r

\* replay-core.ts, validateReasoningReplay: of all sequences of records that pass the
\* schema, exactly the replays of a reasoning validate.
THEOREM ValidationIsExact ==
  ASSUME NEW s \in Seq(ReplayRecords)
  PROVE  Validates(s) <=> \E r \in Reasonings : s = Replay(r)
<1>1. (\E r \in Reasonings : s = Replay(r)) => Validates(s)
  BY ReplayValidates
<1>2. ASSUME Validates(s) PROVE \E r \in Reasonings : s = Replay(r)
  <2>1. Len(s) = 4
    BY <1>2 DEF Validates
  <2>2. /\ s[1] \in ReplayRecords /\ s[2] \in ReplayRecords
        /\ s[3] \in ReplayRecords /\ s[4] \in ReplayRecords
    <3>1. 1 \in 1..Len(s) /\ 2 \in 1..Len(s) /\ 3 \in 1..Len(s) /\ 4 \in 1..Len(s)
      BY <2>1
    <3> QED BY ONLY <3>1, s \in Seq(ReplayRecords), ElementOfSeq
  <2>3. s = <<s[1], s[2], s[3], s[4]>>
    BY <2>1, SeqEqual
  <2>4. Validates(<<s[1], s[2], s[3], s[4]>>)
    BY <1>2, <2>3
  <2>5. /\ Told(<<s[1], s[2], s[3], s[4]>>) \in Reasonings
        /\ <<s[1], s[2], s[3], s[4]>> = Replay(Told(<<s[1], s[2], s[3], s[4]>>))
    BY ONLY <2>2, <2>4, OnlyReplaysValidate
  <2> QED BY ONLY <2>3, <2>5
<1> QED BY <1>1, <1>2

(***************************************************************************)
(* Whatever happens to the replay file, its records pass the schema.       *)
(***************************************************************************)
LEMMA ReplaysAreRecords ==
  ASSUME NEW r \in Reasonings
  PROVE  /\ Replay(r) \in Seq(ReplayRecords) /\ Len(Replay(r)) = 4
         /\ Replay(r) # <<>>
         /\ \A i \in 1..4 : /\ Replay(r)[i] \in ReplayRecords
                            /\ Replay(r)[i].base.payload \in Payloads
<1>1. /\ r.candidate \in Candidates /\ r.content \in Contents
      /\ r.risk \in Risks /\ r.plan \in Plans
  BY DEF Reasonings
<1>2. /\ Header \in Payloads /\ Request(r) \in Payloads /\ Response(r) \in Payloads
      /\ ClosingOf(r) \in Payloads
  <2>1. Request(r) \in Requests /\ Response(r) \in Responses
    BY <1>1 DEF Request, Response, Requests, Responses
  <2> QED BY <2>1 DEF Payloads
<1>3. /\ <<>> \in Previous /\ <<HeaderOf(r).digest>> \in Previous
      /\ <<HeaderOf(r).digest, RequestOf(r).digest>> \in Previous
      /\ PrefixOf(r) \in Previous
  BY DEF Previous
<1>4. /\ "header" \in Range(RecordTypes) /\ "reasoning_request" \in Range(RecordTypes)
      /\ "reasoning_response" \in Range(RecordTypes) /\ "footer" \in Range(RecordTypes)
  BY DEF Range, RecordTypes
<1>5. ASSUME NEW type \in Range(RecordTypes), NEW i \in 1..4, NEW previous \in Previous,
             NEW payload \in Payloads
      PROVE  /\ Sealed(Base(type, i, r, previous, payload)) \in ReplayRecords
             /\ Sealed(Base(type, i, r, previous, payload)).base.payload = payload
  BY <1>1 DEF Sealed, Base, ReplayRecords, Bases
<1>6. /\ HeaderOf(r) \in ReplayRecords /\ HeaderOf(r).base.payload \in Payloads
      /\ RequestOf(r) \in ReplayRecords /\ RequestOf(r).base.payload \in Payloads
      /\ ResponseOf(r) \in ReplayRecords /\ ResponseOf(r).base.payload \in Payloads
      /\ FooterOf(r) \in ReplayRecords /\ FooterOf(r).base.payload \in Payloads
  <2>1. 1 \in 1..4 /\ 2 \in 1..4 /\ 3 \in 1..4 /\ 4 \in 1..4
    OBVIOUS
  <2>2. HeaderOf(r) \in ReplayRecords /\ HeaderOf(r).base.payload \in Payloads
    BY <1>2, <1>3, <1>4, <1>5, <2>1 DEF HeaderOf
  <2>3. RequestOf(r) \in ReplayRecords /\ RequestOf(r).base.payload \in Payloads
    BY <1>2, <1>3, <1>4, <1>5, <2>1 DEF RequestOf
  <2>4. ResponseOf(r) \in ReplayRecords /\ ResponseOf(r).base.payload \in Payloads
    BY <1>2, <1>3, <1>4, <1>5, <2>1 DEF ResponseOf
  <2>5. FooterOf(r) \in ReplayRecords /\ FooterOf(r).base.payload \in Payloads
    BY <1>2, <1>3, <1>4, <1>5, <2>1 DEF FooterOf
  <2> QED BY <2>2, <2>3, <2>4, <2>5
<1> HIDE DEF ReplayRecords
<1>7. Replay(r) = <<HeaderOf(r), RequestOf(r), ResponseOf(r), FooterOf(r)>>
  BY ReplayRecordsOf
<1>8. /\ Replay(r)[1] = HeaderOf(r) /\ Replay(r)[2] = RequestOf(r)
      /\ Replay(r)[3] = ResponseOf(r) /\ Replay(r)[4] = FooterOf(r) /\ Len(Replay(r)) = 4
  BY <1>7
<1>9. Replay(r) \in Seq(ReplayRecords)
  BY <1>6, <1>7
<1>10. Replay(r) # <<>>
  BY <1>8
<1>11. \A i \in 1..4 : /\ Replay(r)[i] \in ReplayRecords
                       /\ Replay(r)[i].base.payload \in Payloads
  <2>1. 1..4 = {1, 2, 3, 4}
    OBVIOUS
  <2> QED BY <1>6, <1>8, <2>1
<1> QED BY <1>8, <1>9, <1>10, <1>11

LEMMA EditedRecords ==
  ASSUME NEW e \in ReplayRecords, NEW p \in Payloads
  PROVE  /\ [e EXCEPT !.base.payload = p] \in ReplayRecords
         /\ Sealed([e.base EXCEPT !.payload = p]) \in ReplayRecords
BY DEF ReplayRecords, Bases, Sealed

LEMMA PartsOfRecords ==
  ASSUME NEW S, NEW s \in Seq(S), NEW m \in Int, NEW n \in Int, 1 <= m, n <= Len(s)
  PROVE  SubSeq(s, m, n) \in Seq(S)
<1>1. \A i \in m..n : s[i] \in S
  <2>1. \A i \in m..n : i \in 1..Len(s)
    <3>1. Len(s) \in Nat
      BY LenProperties
    <3> QED BY <3>1
  <2> QED BY <2>1, ElementOfSeq
<1> QED BY <1>1, SubSeqProperties

LEMMA DamagedRecords ==
  ASSUME NEW s \in Seq(ReplayRecords), NEW t \in Damaged(s)
  PROVE  t \in Seq(ReplayRecords)
<1> DEFINE S == ReplayRecords
<1>1. Len(s) \in Nat /\ DOMAIN s = 1..Len(s)
  BY LenProperties
<1>2. ASSUME NEW i \in DOMAIN s,
             t = SubSeq(s, 1, i - 1) \o SubSeq(s, i + 1, Len(s))
      PROVE  t \in Seq(S)
  <2>1. /\ i \in Int /\ 1 <= i /\ i <= Len(s) /\ i - 1 \in Int /\ i + 1 \in Int
        /\ i - 1 <= Len(s) /\ 1 <= i + 1
    BY <1>1
  <2> HIDE DEF S
  <2>2. SubSeq(s, 1, i - 1) \in Seq(S) /\ SubSeq(s, i + 1, Len(s)) \in Seq(S)
    BY <1>1, <2>1, PartsOfRecords DEF S
  <2> QED BY <1>2, <2>2, ConcatProperties
<1>3. ASSUME NEW i \in DOMAIN s, t = SubSeq(s, 1, i) \o SubSeq(s, i, Len(s))
      PROVE  t \in Seq(S)
  <2>1. i \in Int /\ 1 <= i /\ i <= Len(s)
    BY <1>1
  <2> HIDE DEF S
  <2>2. SubSeq(s, 1, i) \in Seq(S) /\ SubSeq(s, i, Len(s)) \in Seq(S)
    BY <1>1, <2>1, PartsOfRecords DEF S
  <2> QED BY <1>3, <2>2, ConcatProperties
<1>4. ASSUME NEW i \in 1..(Len(s) - 1), t = [s EXCEPT ![i] = s[i + 1], ![i + 1] = s[i]]
      PROVE  t \in Seq(S)
  <2>1. i \in 1..Len(s) /\ i + 1 \in 1..Len(s)
    BY <1>1
  <2>2. s[i] \in S /\ s[i + 1] \in S
    BY <2>1, ElementOfSeq
  <2> DEFINE u == [s EXCEPT ![i] = s[i + 1]]
  <2> HIDE DEF S
  <2>3. u \in Seq(S) /\ Len(u) = Len(s)
    BY <2>1, <2>2, ExceptSeq DEF S
  <2>4. t = [u EXCEPT ![i + 1] = s[i]]
    BY <1>4
  <2> HIDE DEF u
  <2> QED BY <2>1, <2>2, <2>3, <2>4, ExceptSeq
<1>5. ASSUME NEW f \in Foreign, NEW i \in DOMAIN s \cap 1..4,
             \/ t = [s EXCEPT ![i] = Replay(f)[i]]
             \/ t = [s EXCEPT ![i].base.payload = Replay(f)[i].base.payload]
             \/ t = [s EXCEPT ![i] = Sealed([@.base EXCEPT !.payload = Replay(f)[i].base.payload])]
      PROVE  t \in Seq(S)
  <2>1. i \in 1..Len(s) /\ i \in 1..4 /\ f \in Reasonings
    BY <1>1, DemoAssumption
  <2>2. s[i] \in S
    BY <2>1, ElementOfSeq
  <2>3. Replay(f)[i] \in S /\ Replay(f)[i].base.payload \in Payloads
    BY <2>1, ReplaysAreRecords
  <2> DEFINE p == Replay(f)[i].base.payload
  <2> HIDE DEF S, p
  <2>4. p \in Payloads
    BY <2>3 DEF p
  <2>5. /\ [s[i] EXCEPT !.base.payload = p] \in S
        /\ Sealed([s[i].base EXCEPT !.payload = p]) \in S
    BY <2>2, <2>4, EditedRecords DEF S
  <2>6. \E e \in S : t = [s EXCEPT ![i] = e]
    <3>1. CASE t = [s EXCEPT ![i] = Replay(f)[i]]
      BY <2>3, <3>1
    <3>2. CASE t = [s EXCEPT ![i].base.payload = Replay(f)[i].base.payload]
      BY <2>5, <3>2 DEF p
    <3>3. CASE t = [s EXCEPT ![i] = Sealed([@.base EXCEPT !.payload = Replay(f)[i].base.payload])]
      BY <2>5, <3>3 DEF p
    <3> QED BY <1>5, <3>1, <3>2, <3>3
  <2> QED BY <2>1, <2>6, ExceptSeq DEF S
<1>6. CASE \E i \in DOMAIN s : t = SubSeq(s, 1, i - 1) \o SubSeq(s, i + 1, Len(s))
  BY <1>2, <1>6
<1>7. CASE \E i \in DOMAIN s : t = SubSeq(s, 1, i) \o SubSeq(s, i, Len(s))
  BY <1>3, <1>7
<1>8. CASE \E i \in 1..(Len(s) - 1) : t = [s EXCEPT ![i] = s[i + 1], ![i + 1] = s[i]]
  BY <1>4, <1>8
<1>9. CASE \E f \in Foreign, i \in DOMAIN s \cap 1..4 :
             \/ t = [s EXCEPT ![i] = Replay(f)[i]]
             \/ t = [s EXCEPT ![i].base.payload = Replay(f)[i].base.payload]
             \/ t = [s EXCEPT ![i] = Sealed([@.base EXCEPT !.payload = Replay(f)[i].base.payload])]
  BY <1>5, <1>9
<1>10. \/ \E i \in DOMAIN s : t = SubSeq(s, 1, i - 1) \o SubSeq(s, i + 1, Len(s))
       \/ \E i \in DOMAIN s : t = SubSeq(s, 1, i) \o SubSeq(s, i, Len(s))
       \/ \E i \in 1..(Len(s) - 1) : t = [s EXCEPT ![i] = s[i + 1], ![i + 1] = s[i]]
       \/ \E f \in Foreign, i \in DOMAIN s \cap 1..4 :
             \/ t = [s EXCEPT ![i] = Replay(f)[i]]
             \/ t = [s EXCEPT ![i].base.payload = Replay(f)[i].base.payload]
             \/ t = [s EXCEPT ![i] = Sealed([@.base EXCEPT !.payload = Replay(f)[i].base.payload])]
  <2> DEFINE Variants(other, i) ==
               {[s EXCEPT ![i] = other[i]],
                [s EXCEPT ![i].base.payload = other[i].base.payload],
                [s EXCEPT ![i] = Sealed([@.base EXCEPT !.payload = other[i].base.payload])]}
             Edits(other) == UNION {Variants(other, i) : i \in DOMAIN s \cap 1..4}
             Lost1 == {SubSeq(s, 1, i - 1) \o SubSeq(s, i + 1, Len(s)) : i \in DOMAIN s}
             Twice == {SubSeq(s, 1, i) \o SubSeq(s, i, Len(s)) : i \in DOMAIN s}
             Moved == {[s EXCEPT ![i] = s[i + 1], ![i + 1] = s[i]] : i \in 1..(Len(s) - 1)}
             Edited == UNION {Edits(other) : other \in {Replay(f) : f \in Foreign}}
  <2>1. Damaged(s) = Lost1 \cup Twice \cup Moved \cup Edited
    BY DEF Damaged
  <2>2. t \in Lost1 => \E i \in DOMAIN s : t = SubSeq(s, 1, i - 1) \o SubSeq(s, i + 1, Len(s))
    OBVIOUS
  <2>3. t \in Twice => \E i \in DOMAIN s : t = SubSeq(s, 1, i) \o SubSeq(s, i, Len(s))
    OBVIOUS
  <2>4. t \in Moved => \E i \in 1..(Len(s) - 1) :
                         t = [s EXCEPT ![i] = s[i + 1], ![i + 1] = s[i]]
    OBVIOUS
  <2>5. ASSUME t \in Edited
        PROVE  \E f \in Foreign, i \in DOMAIN s \cap 1..4 : t \in Variants(Replay(f), i)
    <3>1. PICK f \in Foreign : t \in Edits(Replay(f))
      <4> HIDE DEF Edits
      <4> QED BY <2>5
    <3>2. PICK i \in DOMAIN s \cap 1..4 : t \in Variants(Replay(f), i)
      <4> HIDE DEF Variants
      <4> QED BY <3>1
    <3> QED BY <3>2
  <2>6. ASSUME NEW f, NEW i, t \in Variants(Replay(f), i)
        PROVE  \/ t = [s EXCEPT ![i] = Replay(f)[i]]
               \/ t = [s EXCEPT ![i].base.payload = Replay(f)[i].base.payload]
               \/ t = [s EXCEPT ![i] =
                          Sealed([@.base EXCEPT !.payload = Replay(f)[i].base.payload])]
    BY <2>6
  <2> HIDE DEF Variants, Edits, Lost1, Twice, Moved, Edited
  <2>7. t \in Lost1 \/ t \in Twice \/ t \in Moved \/ t \in Edited
    BY ONLY <2>1, t \in Damaged(s)
  <2>8. t \in Edited => \E f \in Foreign, i \in DOMAIN s \cap 1..4 :
             \/ t = [s EXCEPT ![i] = Replay(f)[i]]
             \/ t = [s EXCEPT ![i].base.payload = Replay(f)[i].base.payload]
             \/ t = [s EXCEPT ![i] = Sealed([@.base EXCEPT !.payload = Replay(f)[i].base.payload])]
    BY ONLY <2>5, <2>6
  <2> QED BY ONLY <2>2, <2>3, <2>4, <2>7, <2>8
<1> QED BY <1>6, <1>7, <1>8, <1>9, <1>10

(***************************************************************************)
(* The inductive invariant.                                                *)
(***************************************************************************)
EvidenceFiles ==
  {Missing, Torn} \cup {Evidence(n, q) : n \in 1..run, q \in {<<>>, Replay(Reasoned)}}

\* What is in the variables.
DemoTyped ==
  /\ run \in 1..MaxRuns /\ damage \in Nat
  /\ at \in Working \cup {"concluded", "slice", "json", "html", "replay", "stopped"}
  /\ arm \in Arms
  /\ diagnosed \in BOOLEAN /\ loaded \in {"pending", "yes", "no"}
  /\ tests \in [Assertions -> Outcomes] /\ probes \in [Contracts -> Outcomes]
  /\ risk \in {"none", "supported", "unsupported", "uncovered"}
  /\ DOMAIN decisions \subseteq Arms
  /\ files \in [json : EvidenceFiles, html : EvidenceFiles, replay : Seq(ReplayRecords)]

\* How far the worker is, and what it has in consequence.
WorkerInv ==
  /\ at \in {"compile", "import", "visible"} =>
       risk = "none" /\ probes = Fresh(Contracts)
  /\ at \in {"visible", "reason", "probe"} => loaded = "yes"
  /\ at \in {"reason", "probe"} => \A a \in Assertions : tests[a] # "pending"
  /\ at = "probe" => risk = "supported"
  /\ at = "concluded" =>
       \/ loaded = "no"
       \/ /\ loaded = "yes" /\ \A a \in Assertions : tests[a] # "pending"
          /\ arm = "beyondgreen" =>
               risk = "supported" /\ \A c \in Contracts : probes[c] # "pending"
  /\ arm = "status-quo" => risk = "none" /\ probes = Fresh(Contracts)
  /\ at \in {"reason", "probe"} => arm = "beyondgreen"

\* Which files are already of this run.
FilesInv ==
  /\ at \in {"html", "replay"} => files.json = Evidence(run, Embedded)
  /\ at = "replay" => files.html = Evidence(run, Embedded)
  /\ exited =>
       /\ at = "stopped"
       /\ files.json = Evidence(run, Replay(Reasoned))
       /\ files.html = Evidence(run, Replay(Reasoned))
       /\ damage = 0 => files.replay = Replay(Reasoned)
  /\ damage # 0 => at = "stopped"

DemoInv == DemoTyped /\ WorkerInv /\ FilesInv

LEMMA EmbeddedIs == Embedded \in {<<>>, Replay(Reasoned)}
BY DEF Embedded

LEMMA ReasonedReplays ==
  /\ Replay(Reasoned) \in Seq(ReplayRecords) /\ Replay(Reasoned) # <<>>
  /\ Validates(Replay(Reasoned)) /\ ~Validates(<<>>)
<1>1. Reasoned \in Reasonings
  BY DemoAssumption
<1>2. ~Validates(<<>>)
  BY DEF Validates
<1> QED BY <1>1, <1>2, ReplaysAreRecords, ReplayValidates

LEMMA DemoInit == Init => DemoInv /\ VerdictIsEarned
<1> SUFFICES ASSUME Init PROVE DemoInv /\ VerdictIsEarned
  OBVIOUS
<1>1. /\ DOMAIN decisions = {} /\ decisions = <<>>
  BY DEF Init
<1>2. files \in [json : EvidenceFiles, html : EvidenceFiles, replay : Seq(ReplayRecords)]
  <2>1. <<>> \in Seq(ReplayRecords)
    BY EmptySeq
  <2>2. Missing \in EvidenceFiles
    BY DEF EvidenceFiles
  <2> HIDE DEF EvidenceFiles, ReplayRecords, Missing
  <2> QED BY <2>1, <2>2 DEF Init
<1>3. Fresh(Assertions) \in [Assertions -> Outcomes] /\ Fresh(Contracts) \in [Contracts -> Outcomes]
  BY DEF Fresh, Outcomes
<1>4. DemoTyped
  <2>1. run \in 1..MaxRuns
    BY DemoAssumption DEF Init
  <2> QED BY <1>1, <1>2, <1>3, <2>1 DEF Init, DemoTyped, Working, Arms
<1>5. WorkerInv
  BY DEF Init, WorkerInv
<1>6. FilesInv
  BY DEF Init, FilesInv
<1>7. VerdictIsEarned
  BY <1>1 DEF VerdictIsEarned
<1> QED BY <1>4, <1>5, <1>6, <1>7 DEF DemoInv

(***************************************************************************)
(* Type correctness, action by action.                                     *)
(***************************************************************************)
LEMMA FreshWorkerTyped ==
  FreshWorker => /\ diagnosed' \in BOOLEAN /\ loaded' \in {"pending", "yes", "no"}
                 /\ tests' \in [Assertions -> Outcomes] /\ probes' \in [Contracts -> Outcomes]
                 /\ risk' \in {"none", "supported", "unsupported", "uncovered"}
BY DEF FreshWorker, Fresh, Outcomes

LEMMA NextArmTyped ==
  NextArm => /\ arm' \in {arm, "beyondgreen"} /\ at' \in {"compile", "slice"} /\ FreshWorker
BY DEF NextArm

LEMMA RecordTyped ==
  ASSUME NEW d, Record(d), DOMAIN decisions \subseteq Arms, arm \in Arms
  PROVE  DOMAIN decisions' \subseteq Arms
BY DEF Record

LEMMA FilesStay ==
  ASSUME run' = run
  PROVE  EvidenceFiles' = EvidenceFiles
BY DEF EvidenceFiles

LEMMA FilesLast ==
  ASSUME run \in Nat, run' = run + 1
  PROVE  EvidenceFiles \subseteq EvidenceFiles'
<1>1. \A n \in 1..run : n \in 1..(run')
  OBVIOUS
<1> HIDE DEF Evidence, Missing, Torn, Replay
<1> QED BY <1>1 DEF EvidenceFiles

LEMMA WrittenTyped ==
  ASSUME DemoTyped
  PROVE  /\ Evidence(run, Embedded) \in EvidenceFiles /\ Torn \in EvidenceFiles
         /\ Embedded \in Seq(ReplayRecords) /\ <<>> \in Seq(ReplayRecords)
<1>1. run \in 1..run
  BY DemoAssumption DEF DemoTyped
<1>2. Embedded \in Seq(ReplayRecords) /\ <<>> \in Seq(ReplayRecords)
  BY EmbeddedIs, ReasonedReplays, EmptySeq
<1> HIDE DEF Evidence, Missing, Torn, Replay
<1> QED BY <1>1, <1>2, EmbeddedIs DEF EvidenceFiles

\* The part of the invariant about the files, by the steps that write them.
LEMMA FilesTyped ==
  ASSUME DemoTyped, [Next]_vars
  PROVE  files' \in [json : EvidenceFiles', html : EvidenceFiles', replay : Seq(ReplayRecords)]
<1> DEFINE E == EvidenceFiles
           E1 == EvidenceFiles'
           R == Seq(ReplayRecords)
<1>1. files \in [json : E, html : E, replay : R] /\ run \in Nat
  BY DemoAssumption DEF DemoTyped
<1>2. /\ Evidence(run, Embedded) \in E /\ Torn \in E /\ Embedded \in R /\ <<>> \in R
  BY WrittenTyped
<1>3. \/ run' = run /\ E1 = E
      \/ run' = run + 1 /\ E \subseteq E1 /\ files' = files
  <2>1. run' = run \/ RunAgain
    BY DEF Next, vars, worker, Compile, Import, ImportFails, Assertion, VisibleDone, Reason,
           Probe, ProbesDone, Lost, Conclude, SliceEnds, SliceFails, WriteJson, WriteHtml,
           WriteReplay, NoReplay, Crash, Damage, Stop
  <2>2. RunAgain => run' = run + 1 /\ files' = files
    BY DEF RunAgain
  <2> QED BY <1>1, <2>1, <2>2, FilesStay, FilesLast
<1>4. CASE run' = run + 1 /\ E \subseteq E1 /\ files' = files
  <2> SUFFICES files' \in [json : E1, html : E1, replay : R]
    OBVIOUS
  <2> HIDE DEF E, E1, R
  <2> QED BY <1>1, <1>4
<1>5. CASE run' = run /\ E1 = E
  <2>1. \/ files' = files
        \/ files' = [files EXCEPT !.json = Evidence(run, Embedded)]
        \/ files' = [files EXCEPT !.html = Evidence(run, Embedded)]
        \/ files' = [files EXCEPT !.replay = Embedded]
        \/ files' = [files EXCEPT !.json = Torn]
        \/ files' = [files EXCEPT !.html = Torn]
        \/ files' = [files EXCEPT !.replay = <<>>]
        \/ \E s \in Damaged(files.replay) : files' = [files EXCEPT !.replay = s]
    BY DEF Next, vars, worker, Compile, Import, ImportFails, Assertion, VisibleDone, Reason,
           Probe, ProbesDone, Lost, Conclude, SliceEnds, SliceFails, WriteJson, WriteHtml,
           WriteReplay, NoReplay, Crash, RunAgain, Damage, Stop
  <2>2. \A s \in Damaged(files.replay) : s \in R
    BY <1>1, DamagedRecords
  <2>3. files' \in [json : E, html : E, replay : R]
    <3> HIDE DEF E, E1, R, Evidence, Torn, Embedded, Damaged
    <3> QED BY <1>1, <1>2, <2>1, <2>2
  <2> QED BY <1>5, <2>3
<1> QED BY <1>3, <1>4, <1>5

LEMMA TypedStep ==
  ASSUME DemoTyped, [Next]_vars
  PROVE  DemoTyped'
<1> DEFINE Rest ==
      /\ run \in 1..MaxRuns /\ damage \in Nat
      /\ at \in Working \cup {"concluded", "slice", "json", "html", "replay", "stopped"}
      /\ arm \in Arms
      /\ diagnosed \in BOOLEAN /\ loaded \in {"pending", "yes", "no"}
      /\ tests \in [Assertions -> Outcomes] /\ probes \in [Contracts -> Outcomes]
      /\ risk \in {"none", "supported", "unsupported", "uncovered"}
      /\ DOMAIN decisions \subseteq Arms
<1> SUFFICES Rest'
  BY FilesTyped DEF DemoTyped
<1> USE DEF Working
<1>0. Rest
  BY DEF DemoTyped
<1>e. DOMAIN <<>> = {}
  OBVIOUS
<1>1. CASE UNCHANGED vars
  BY <1>0, <1>1 DEF vars, worker
<1>2. CASE Compile \/ Import \/ ImportFails \/ VisibleDone \/ Reason \/ ProbesDone
  BY <1>0, <1>2 DEF Compile, Import, ImportFails, VisibleDone, Reason, ProbesDone, worker
<1>3. ASSUME NEW a \in Assertions, Assertion(a) PROVE Rest'
  BY <1>0, <1>3 DEF Assertion
<1>4. ASSUME NEW c \in Contracts, Probe(c) PROVE Rest'
  BY <1>0, <1>4 DEF Probe
<1>5. CASE Lost \/ Conclude
  <2>1. DOMAIN decisions' \subseteq Arms
    BY <1>0, <1>5, RecordTyped DEF Lost, Conclude
  <2>2. NextArm /\ UNCHANGED <<run, files, damage, exited>>
    BY <1>5 DEF Lost, Conclude
  <2> QED BY <1>0, <2>1, <2>2, NextArmTyped, FreshWorkerTyped DEF Arms
<1>6. CASE SliceEnds \/ WriteJson \/ WriteHtml
  BY <1>0, <1>6 DEF SliceEnds, WriteJson, WriteHtml, worker
<1>7. CASE SliceFails \/ WriteReplay \/ NoReplay \/ Crash
  <2>1. Stop
    BY <1>7 DEF SliceFails, WriteReplay, NoReplay, Crash
  <2> QED BY <1>0, <1>e, <2>1 DEF Stop, worker
<1>8. CASE RunAgain
  <2>1. run' \in 1..MaxRuns
    BY <1>0, <1>8, DemoAssumption DEF RunAgain
  <2> QED BY <1>0, <1>8, <2>1, FreshWorkerTyped DEF RunAgain, Arms
<1>9. CASE Damage
  BY <1>0, <1>9 DEF Damage, worker
<1> HIDE DEF Rest
<1> QED BY <1>1, <1>2, <1>3, <1>4, <1>5, <1>6, <1>7, <1>8, <1>9 DEF Next

(***************************************************************************)
(* The worker.                                                             *)
(***************************************************************************)
LEMMA WorkerStep ==
  ASSUME DemoTyped, WorkerInv, [Next]_vars
  PROVE  WorkerInv'
<1> USE DEF WorkerInv
<1>0. arm \in Arms /\ tests \in [Assertions -> Outcomes] /\ probes \in [Contracts -> Outcomes]
  BY DEF DemoTyped
<1>1. CASE UNCHANGED vars
  BY <1>1 DEF vars, worker
<1>2. CASE Compile \/ Import \/ ImportFails
  BY <1>2 DEF Compile, Import, ImportFails
<1>3. ASSUME NEW a \in Assertions, Assertion(a) PROVE WorkerInv'
  BY <1>3 DEF Assertion
<1>4. CASE VisibleDone
  BY <1>0, <1>4 DEF VisibleDone, Arms
<1>5. CASE Reason
  BY <1>5 DEF Reason, worker
<1>6. ASSUME NEW c \in Contracts, Probe(c) PROVE WorkerInv'
  BY <1>6 DEF Probe
<1>7. CASE ProbesDone
  BY <1>7 DEF ProbesDone, worker
<1>8. CASE Lost \/ Conclude
  <2>1. NextArm
    BY <1>8 DEF Lost, Conclude
  <2> QED BY <2>1, <1>0 DEF NextArm, FreshWorker, Arms
<1>9. CASE SliceEnds \/ WriteJson \/ WriteHtml
  BY <1>9 DEF SliceEnds, WriteJson, WriteHtml, worker
<1>10. CASE SliceFails \/ WriteReplay \/ NoReplay \/ Crash
  <2>1. Stop
    BY <1>10 DEF SliceFails, WriteReplay, NoReplay, Crash
  <2> QED BY <2>1 DEF Stop, worker
<1>11. CASE RunAgain
  BY <1>11 DEF RunAgain, FreshWorker
<1>12. CASE Damage
  BY <1>12 DEF Damage, worker
<1> QED BY <1>1, <1>2, <1>3, <1>4, <1>5, <1>6, <1>7, <1>8, <1>9, <1>10, <1>11, <1>12 DEF Next

(***************************************************************************)
(* The files.                                                              *)
(***************************************************************************)
LEMMA FilesStep ==
  ASSUME DemoTyped, FilesInv, [Next]_vars
  PROVE  FilesInv'
<1> USE DEF FilesInv
<1>0. /\ files = [json |-> files.json, html |-> files.html, replay |-> files.replay]
      /\ damage \in Nat
  BY DEF DemoTyped
<1> HIDE DEF Evidence, Replay, Validates
<1>1. CASE \/ UNCHANGED vars
           \/ Compile \/ Import \/ ImportFails \/ VisibleDone \/ Reason \/ ProbesDone
           \/ \E a \in Assertions : Assertion(a)
           \/ \E c \in Contracts : Probe(c)
  <2>1. at' = at \/ at' \in Working \cup {"concluded"}
    BY <1>1 DEF Compile, Import, ImportFails, VisibleDone, Reason, ProbesDone, Assertion, Probe,
                vars, Working
  <2>2. UNCHANGED <<run, decisions, files, damage, exited>>
    BY <1>1 DEF Compile, Import, ImportFails, VisibleDone, Reason, ProbesDone, Assertion, Probe,
                vars
  <2>3. at \in Working \cup {"concluded"} \/ at' = at
    BY <1>1 DEF Compile, Import, ImportFails, VisibleDone, Reason, ProbesDone, Assertion, Probe,
                vars, Working
  <2> QED BY <2>1, <2>2, <2>3 DEF Working, Embedded
<1>2. CASE Lost \/ Conclude
  <2>1. /\ at \in Working \cup {"concluded"} /\ at' \in {"compile", "slice"}
        /\ UNCHANGED <<run, files, damage, exited>>
    BY <1>2 DEF Lost, Conclude, NextArm
  <2> QED BY <2>1 DEF Working
<1>3. CASE SliceEnds
  BY <1>3 DEF SliceEnds
<1>4. CASE SliceFails \/ NoReplay \/ Crash
  <2>1. at' = "stopped" /\ UNCHANGED <<run, damage, exited>>
    BY <1>4 DEF SliceFails, NoReplay, Crash, Stop
  <2>2. at # "stopped"
    BY <1>4 DEF SliceFails, NoReplay, Crash
  <2> QED BY <2>1, <2>2
<1>5. CASE WriteJson
  <2>1. UNCHANGED Embedded
    BY <1>5 DEF WriteJson, Embedded
  <2>2. files'.json = Evidence(run, Embedded)
    BY <1>0, <1>5 DEF WriteJson
  <2> HIDE DEF Embedded
  <2> QED BY <1>5, <2>1, <2>2 DEF WriteJson
<1>6. CASE WriteHtml
  <2>1. UNCHANGED Embedded
    BY <1>6 DEF WriteHtml, Embedded
  <2>2. files'.html = Evidence(run, Embedded) /\ files'.json = files.json
    BY <1>0, <1>6 DEF WriteHtml
  <2> HIDE DEF Embedded
  <2> QED BY <1>6, <2>1, <2>2 DEF WriteHtml
<1>7. CASE WriteReplay
  <2>1. Embedded = Replay(Reasoned)
    BY <1>7, EmbeddedIs DEF WriteReplay
  <2>2. files'.html = files.html /\ files'.json = files.json /\ files'.replay = Embedded
    BY <1>0, <1>7 DEF WriteReplay
  <2>3. at = "replay" /\ at' = "stopped" /\ UNCHANGED <<run, damage>>
    BY <1>7 DEF WriteReplay, Stop
  <2> HIDE DEF Embedded
  <2> QED BY <2>1, <2>2, <2>3
<1>8. CASE RunAgain
  BY <1>8 DEF RunAgain
<1>9. CASE Damage
  <2>1. /\ files'.html = files.html /\ files'.json = files.json
        /\ at = "stopped" /\ damage' = damage + 1 /\ UNCHANGED <<run, at, exited>>
    BY <1>0, <1>9 DEF Damage
  <2> QED BY <1>0, <2>1
<1> QED BY <1>1, <1>2, <1>3, <1>4, <1>5, <1>6, <1>7, <1>8, <1>9 DEF Next

LEMMA DemoInvStep == DemoInv /\ [Next]_vars => DemoInv'
BY TypedStep, WorkerStep, FilesStep DEF DemoInv

\* The inductive invariant of the demo (d01-demo.ts with the workers and the replay it
\* writes): types, what a running worker has established, and what the files hold.
THEOREM DemoInvariant == Spec => []DemoInv
<1>1. Init => DemoInv
  BY DemoInit
<1> QED BY <1>1, DemoInvStep, PTL DEF Spec

(***************************************************************************)
(* The theorems.                                                           *)
(***************************************************************************)
\* d01/replay.ts reads the replay file whatever became of it: it validates only if it is
\* the replay of one reasoning, record by record, however often records were lost,
\* repeated, moved, replaced or edited.
THEOREM ReplayCorrect == Spec => []ReplayIsExact
<1>1. DemoInv => ReplayIsExact
  <2> SUFFICES ASSUME DemoInv PROVE ReplayIsExact
    OBVIOUS
  <2>1. files.replay \in Seq(ReplayRecords)
    BY DEF DemoInv, DemoTyped
  <2> QED BY <2>1, ValidationIsExact DEF ReplayIsExact
<1> QED BY <1>1, DemoInvariant, PTL

\* d01-demo.ts writes three files one after the other: what replays is of one run, and what
\* a run that exited normally left does replay, unless the replay was changed since.
THEOREM FilesCorrect == Spec => []FilesOfOneRun
<1>1. DemoInv => FilesOfOneRun
  <2> SUFFICES ASSUME DemoInv PROVE FilesOfOneRun
    OBVIOUS
  <2>0. /\ files.json \in EvidenceFiles /\ run \in Nat \ {0}
    BY DemoAssumption DEF DemoInv, DemoTyped
  <2>1. ASSUME Reproduces
        PROVE  /\ files.json.run = files.html.run /\ files.json.run \in 1..run
               /\ files.replay = Replay(Reasoned)
    <3>1. PICK n \in 1..run, q \in {<<>>, Replay(Reasoned)} : files.json = Evidence(n, q)
      <4> HIDE DEF Evidence, Missing, Torn, Replay
      <4> QED BY <2>0, <2>1 DEF Reproduces, EvidenceFiles
    <3>2. files.json.run = n /\ files.json.replay = q
      BY <3>1 DEF Evidence
    <3>3. q # <<>>
      BY <2>1, <3>2, ReasonedReplays DEF Reproduces
    <3> HIDE DEF Evidence, Missing, Torn, Replay
    <3> QED BY <2>1, <3>2, <3>3 DEF Reproduces
  <2>2. ASSUME exited, damage = 0 \/ files.replay = Replay(Reasoned)
        PROVE  Reproduces
    <3>1. /\ files.json = Evidence(run, Replay(Reasoned)) /\ files.html = files.json
          /\ files.replay = Replay(Reasoned)
      <4> HIDE DEF Evidence, Replay
      <4> QED BY <2>2 DEF DemoInv, FilesInv
    <3>2. files.json # Missing /\ files.json # Torn /\ files.json.replay = Replay(Reasoned)
      <4> HIDE DEF Replay
      <4> QED BY <2>0, <3>1 DEF Evidence, Missing, Torn
    <3> HIDE DEF Evidence, Missing, Torn, Replay
    <3> QED BY <3>1, <3>2, ReasonedReplays DEF Reproduces
  <2> QED BY <2>1, <2>2 DEF FilesOfOneRun
<1> QED BY <1>1, DemoInvariant, PTL

(***************************************************************************)
(* The verdicts.                                                           *)
(***************************************************************************)
\* What VerdictIsEarned asks of the decision of one arm.
Green(seen) == /\ ~seen.diagnosed /\ seen.loaded = "yes"
               /\ \A t \in Assertions : seen.tests[t] = "passed"
Probed(seen) == \A c \in Contracts : seen.probes[c] \in {"passed", "failed"}
Kept(seen) == \A c \in Contracts : seen.probes[c] = "passed"
Earned(a, seen) ==
  /\ seen.d.verdict = "accept" =>
       seen.proven /\ Green(seen) /\ (a = "beyondgreen" => Kept(seen))
  /\ seen.d.verdict = "reject" =>
       /\ seen.proven
       /\ \/ seen.diagnosed
          \/ \E t \in Assertions : seen.tests[t] = "failed"
          \/ a = "beyondgreen" /\ Green(seen) /\ Probed(seen) /\ ~Kept(seen)
  /\ seen.d.verdict = "abstain" /\ seen.proven =>
       /\ ~seen.diagnosed /\ \A t \in Assertions : seen.tests[t] # "failed"
       /\ ~Green(seen) \/ (a = "beyondgreen" /\ ~Probed(seen))
  /\ a = "status-quo" => seen.risk = "none" /\ seen.probes = Fresh(Contracts)

LEMMA VerdictByArm ==
  VerdictIsEarned <=> \A a \in DOMAIN decisions : Earned(a, decisions[a])
BY DEF VerdictIsEarned, Earned, Green, Probed, Kept

\* Of an arm whose worker was lost.
LEMMA LostEarned ==
  ASSUME DemoInv, at \in Working
  PROVE  Earned(arm, Decided(UnavailableGate, FALSE))
<1> DEFINE seen == Decided(UnavailableGate, FALSE)
<1>1. /\ seen.d.verdict = "abstain" /\ seen.proven = FALSE
      /\ seen.risk = risk /\ seen.probes = probes
  BY DEF Decided, UnavailableGate, Decide, Abstain
<1>2. arm = "status-quo" => risk = "none" /\ probes = Fresh(Contracts)
  BY DEF DemoInv, WorkerInv
<1> HIDE DEF seen
<1> QED BY <1>1, <1>2 DEF Earned, seen

\* The gate of a worker that concluded.
LEMMA GateIs ==
  /\ Gate.compile = "failed" <=> diagnosed
  /\ Gate.compile \in {"failed", "passed"}
  /\ Gate.visible = "failed" <=> Failures # {}
  /\ Gate.visible = "passed" <=> Failures = {} /\ ~Operational
  /\ Gate.deterministic <=> ~Operational
BY DEF Gate

LEMMA DecideIs ==
  LET d == Decide(Gate)
      green == ~diagnosed /\ Failures = {} /\ ~Operational
  IN /\ diagnosed => d.verdict = "reject"
     /\ ~diagnosed /\ Failures # {} => d.verdict = "reject"
     /\ ~diagnosed /\ Failures = {} /\ Operational => d.verdict = "abstain"
     /\ green /\ arm = "status-quo" => d.verdict = "accept"
     /\ green /\ arm # "status-quo" /\ Incomplete => d.verdict = "abstain"
     /\ green /\ arm # "status-quo" /\ ~Incomplete /\ (\E c \in Checks : probes[c] = "failed") =>
          d.verdict = "reject"
     /\ green /\ arm # "status-quo" /\ ~Incomplete /\ ~(\E c \in Checks : probes[c] = "failed") =>
          d.verdict = "accept"
<1> DEFINE g == Gate
<1>0. /\ g.compile = "failed" <=> diagnosed
      /\ g.compile \in {"failed", "passed"}
      /\ g.visible = "failed" <=> Failures # {}
      /\ g.visible = "passed" <=> Failures = {} /\ ~Operational
      /\ g.deterministic <=> ~Operational
  BY GateIs
<1> HIDE DEF g
<1>1. diagnosed => Decide(g).verdict = "reject"
  BY <1>0 DEF Decide
<1>2. ~diagnosed /\ Failures # {} => Decide(g).verdict = "reject"
  BY <1>0 DEF Decide
<1>3. ~diagnosed /\ Failures = {} /\ Operational => Decide(g).verdict = "abstain"
  BY <1>0 DEF Decide, Abstain
<1>4. ~diagnosed /\ Failures = {} /\ ~Operational =>
        Decide(g) = IF arm = "status-quo"
                      THEN [verdict |-> "accept", reason |-> "visible_gate_green"]
                    ELSE IF Incomplete THEN Abstain("incomplete_beyondgreen_evidence")
                    ELSE IF \E c \in Checks : probes[c] = "failed"
                      THEN [verdict |-> "reject", reason |-> "ordering_contract_violation"]
                    ELSE [verdict |-> "accept", reason |-> "all_checks_green"]
  BY <1>0 DEF Decide
<1> HIDE DEF Incomplete, Checks
<1> QED BY <1>1, <1>2, <1>3, <1>4 DEF g, Abstain

LEMMA ConcludedEarned ==
  ASSUME DemoInv, at = "concluded"
  PROVE  Earned(arm, Decided(Gate, TRUE))
<1> DEFINE seen == Decided(Gate, TRUE)
<1>1. /\ seen.d = Decide(Gate) /\ seen.proven = TRUE /\ seen.diagnosed = diagnosed
      /\ seen.loaded = loaded /\ seen.tests = tests /\ seen.risk = risk /\ seen.probes = probes
  BY DEF Decided
<1>2. /\ arm \in Arms /\ tests \in [Assertions -> Outcomes] /\ probes \in [Contracts -> Outcomes]
      /\ \/ loaded = "no"
         \/ /\ loaded = "yes" /\ \A a \in Assertions : tests[a] # "pending"
            /\ arm = "beyondgreen" =>
                 risk = "supported" /\ \A c \in Contracts : probes[c] # "pending"
      /\ arm = "status-quo" => risk = "none" /\ probes = Fresh(Contracts)
  BY DEF DemoInv, DemoTyped, WorkerInv
<1>3. Failures = {} <=> \A t \in Assertions : tests[t] # "failed"
  BY DEF Failures
<1>4. Green(seen) <=> ~diagnosed /\ Failures = {} /\ ~Operational
  <2> HIDE DEF seen
  <2> QED BY <1>1, <1>2, <1>3 DEF Green, Operational, Outcomes
<1>5. loaded = "yes" /\ arm = "beyondgreen" => (Incomplete <=> ~Probed(seen))
  <2> HIDE DEF seen
  <2>1. Checks = Contracts <=> \A c \in Contracts : probes[c] \in {"passed", "failed"}
    BY DEF Checks
  <2>2. Errors # {} => Checks # Contracts
    BY DEF Errors, Checks
  <2> QED BY <1>1, <1>2, <2>1, <2>2 DEF Incomplete, Reasons, Probed
<1>6. Probed(seen) => (Kept(seen) <=> ~\E c \in Checks : probes[c] = "failed")
  <2> HIDE DEF seen
  <2> QED BY <1>1 DEF Probed, Kept, Checks
<1>7. arm = "status-quo" \/ arm = "beyondgreen"
  BY <1>2 DEF Arms
<1>8. Green(seen) => loaded = "yes"
  BY <1>1 DEF Green
<1> HIDE DEF seen
<1>9. /\ diagnosed => seen.d.verdict = "reject"
      /\ ~diagnosed /\ Failures # {} => seen.d.verdict = "reject"
      /\ ~diagnosed /\ Failures = {} /\ Operational => seen.d.verdict = "abstain"
      /\ Green(seen) /\ arm = "status-quo" => seen.d.verdict = "accept"
      /\ Green(seen) /\ arm = "beyondgreen" /\ ~Probed(seen) => seen.d.verdict = "abstain"
      /\ Green(seen) /\ arm = "beyondgreen" /\ Probed(seen) /\ ~Kept(seen) =>
           seen.d.verdict = "reject"
      /\ Green(seen) /\ arm = "beyondgreen" /\ Probed(seen) /\ Kept(seen) =>
           seen.d.verdict = "accept"
  BY <1>1, <1>4, <1>5, <1>6, <1>7, <1>8, DecideIs
<1>10. Kept(seen) => Probed(seen)
  BY DEF Kept, Probed
<1>11. /\ seen.d.verdict = "accept" => Green(seen) /\ (arm = "beyondgreen" => Kept(seen))
       /\ seen.d.verdict = "reject" =>
            \/ diagnosed
            \/ Failures # {}
            \/ arm = "beyondgreen" /\ Green(seen) /\ Probed(seen) /\ ~Kept(seen)
       /\ seen.d.verdict = "abstain" =>
            /\ ~diagnosed /\ Failures = {}
            /\ ~Green(seen) \/ (arm = "beyondgreen" /\ ~Probed(seen))
  BY <1>4, <1>7, <1>9, <1>10
<1>12. Failures # {} => \E t \in Assertions : seen.tests[t] = "failed"
  BY <1>1, <1>3
<1>13. Failures = {} => \A t \in Assertions : seen.tests[t] # "failed"
  BY <1>1, <1>3
<1>14. /\ seen.d.verdict = "accept" =>
            seen.proven /\ Green(seen) /\ (arm = "beyondgreen" => Kept(seen))
       /\ seen.d.verdict = "reject" =>
            /\ seen.proven
            /\ \/ seen.diagnosed
               \/ \E t \in Assertions : seen.tests[t] = "failed"
               \/ arm = "beyondgreen" /\ Green(seen) /\ Probed(seen) /\ ~Kept(seen)
  BY <1>1, <1>11, <1>12
<1>15. seen.d.verdict = "abstain" =>
         /\ ~seen.diagnosed /\ \A t \in Assertions : seen.tests[t] # "failed"
         /\ ~Green(seen) \/ (arm = "beyondgreen" /\ ~Probed(seen))
  BY <1>1, <1>11, <1>13
<1>16. arm = "status-quo" => seen.risk = "none" /\ seen.probes = Fresh(Contracts)
  BY <1>1, <1>2
<1>17. Earned(arm, seen)
  BY ONLY <1>14, <1>15, <1>16 DEF Earned
<1> QED BY <1>17 DEF seen

LEMMA RecordEarned ==
  ASSUME NEW d, Record(d), Earned(arm, d),
         \A a \in DOMAIN decisions : Earned(a, decisions[a])
  PROVE  \A a \in DOMAIN decisions' : Earned(a, decisions'[a])
<1>1. decisions' = [a \in DOMAIN decisions \cup {arm} |->
                      IF a = arm THEN d ELSE decisions[a]]
  BY DEF Record
<1> HIDE DEF Earned
<1> QED BY <1>1

LEMMA VerdictStep ==
  ASSUME DemoInv, VerdictIsEarned, [Next]_vars
  PROVE  VerdictIsEarned'
<1> DEFINE AllEarned == \A a \in DOMAIN decisions : Earned(a, decisions[a])
<1>0. AllEarned
  BY VerdictByArm
<1>1. VerdictIsEarned' <=> \A a \in DOMAIN decisions' : Earned(a, decisions'[a])
  BY DEF VerdictIsEarned, Earned, Green, Probed, Kept
<1>2. CASE UNCHANGED decisions
  <2> HIDE DEF Earned
  <2> QED BY <1>0, <1>1, <1>2
<1>3. CASE decisions' = <<>>
  <2>1. DOMAIN decisions' = {}
    BY <1>3
  <2> QED BY <1>1, <2>1
<1>4. CASE Lost
  BY <1>0, <1>1, <1>4, LostEarned, RecordEarned DEF Lost
<1>5. CASE Conclude
  BY <1>0, <1>1, <1>5, ConcludedEarned, RecordEarned DEF Conclude
<1>6. \/ UNCHANGED decisions \/ decisions' = <<>> \/ Lost \/ Conclude
  BY DEF Next, vars, Compile, Import, ImportFails, Assertion, VisibleDone, Reason,
         Probe, ProbesDone, SliceEnds, SliceFails, WriteJson, WriteHtml,
         WriteReplay, NoReplay, Crash, RunAgain, Damage, Stop
<1> QED BY <1>2, <1>3, <1>4, <1>5, <1>6

\* d01/decision.ts decides on what d01/worker-runtime.ts reports, by d01/arm-checks.ts and
\* d01/reasoning.ts: no arm accepts, rejects or abstains without the evidence for it.
THEOREM VerdictsEarned == Spec => []VerdictIsEarned
<1>1. Init => VerdictIsEarned
  BY DemoInit
<1>2. DemoInv /\ VerdictIsEarned /\ [Next]_vars => VerdictIsEarned'
  BY VerdictStep
<1> QED BY <1>1, <1>2, DemoInvariant, PTL DEF Spec
===============================================================================
