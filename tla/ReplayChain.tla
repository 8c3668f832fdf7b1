----------------------------- MODULE ReplayChain -----------------------------
(***************************************************************************)
(* The replay of a reasoning call (replay-core.ts): four records, each     *)
(* with its own digest and chained to the ones before it, closed by a      *)
(* footer that repeats the digests.  Digests have no collisions: the       *)
(* digest of a value is the value, and that of a chain is the sequence of  *)
(* the digests in it.                                                      *)
(***************************************************************************)
EXTENDS Naturals, Sequences

CONSTANTS
  Candidates,  \* who is reasoned about
  Contents,    \* digests of candidates
  Risks,       \* risk inventories
  Plans        \* what the reasoning comes to

Reasonings ==
  [candidate : Candidates, content : Contents, risk : Risks, plan : Plans]

RecordTypes == <<"header", "reasoning_request", "reasoning_response", "footer">>

Header == [adapter |-> "offline-replay-jsonl-v1"]
Request(r) == [candidate |-> r.candidate, content |-> r.content, risk |-> r.risk]
Response(r) == [candidate |-> r.candidate, riskDigest |-> r.risk, plan |-> r.plan]

\* What the schemas of the adapter's input and output accept.
Requests == [candidate : Candidates, content : Contents, risk : Risks]
Responses == [candidate : Candidates, riskDigest : Risks, plan : Plans]

\* The digest of a record covers all of it but the digest.
Base(type, i, r, previous, payload) ==
  [type |-> type, sequence |-> i, replay |-> r.candidate,
   candidate |-> r.candidate, content |-> r.content,
   previous |-> previous, payload |-> payload]
Sealed(base) == [base |-> base, digest |-> base]
Chain(records) == [i \in DOMAIN records |-> records[i].digest]

AppendRecord(records, r, payload) ==
  LET i == Len(records) + 1
  IN Append(records, Sealed(Base(RecordTypes[i], i, r, Chain(records), payload)))

Footer(records) ==
  [records |-> 4, header |-> records[1].digest, request |-> records[2].digest,
   response |-> records[3].digest, prefix |-> Chain(SubSeq(records, 1, 3)),
   final |-> records[3].base.payload]

\* buildReasoningReplay
Replay(r) ==
  LET open == AppendRecord(AppendRecord(AppendRecord(<<>>, r, Header), r, Request(r)),
                           r, Response(r))
  IN AppendRecord(open, r, Footer(open))

(***************************************************************************)
(* validateReasoningReplay, check by check.                                *)
(***************************************************************************)
InOrder(records) ==
  \A i \in 1..4 : records[i].base.sequence = i /\ records[i].base.type = RecordTypes[i]

Chained(records) ==
  \A i \in 1..4 :
    /\ records[i].base.replay = records[1].base.replay
    /\ records[i].base.candidate = records[1].base.candidate
    /\ records[i].base.content = records[1].base.content
    /\ records[i].base.previous = Chain(SubSeq(records, 1, i - 1))
    /\ records[i].digest = records[i].base

PayloadsBound(records) ==
  LET head == records[1].base
      input == records[2].base.payload
      output == records[3].base.payload
  IN /\ head.payload = Header /\ head.replay = head.candidate
     /\ input \in Requests /\ output \in Responses
     /\ input.candidate = head.candidate /\ input.content = head.content
     /\ output.candidate = head.candidate
     /\ output.riskDigest = input.risk

\* Mutant: the footer is read, but not compared.
FooterRead(records) == records[4].base.payload.records = 4

FooterBinds(records) == records[4].base.payload = Footer(records)

Validates(records) ==
  /\ Len(records) = 4
  /\ InOrder(records)
  /\ Chained(records)
  /\ PayloadsBound(records)
  /\ FooterBinds(records)
=============================================================================
