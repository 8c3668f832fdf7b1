-------------------------------- MODULE Scoring --------------------------------
(***************************************************************************)
(* The scores of a run (aggregation.ts): what is counted over the records  *)
(* of the evaluators, for each arm.  A record is                           *)
(*   [slot, arm, verdict, truth, reason, complete]                         *)
(* where the slot stands for the fixture and the candidate it names.       *)
(***************************************************************************)
EXTENDS Naturals, FiniteSets, Sequences

Arms == {"status-quo", "beyondgreen"}
Verdicts == {"accept", "reject", "abstain"}
Truths == {"preserving", "false_green"}

ScoredRecords(slots) ==
  [slot : slots, arm : Arms, verdict : Verdicts, truth : Truths,
   reason : BOOLEAN, complete : BOOLEAN]

\* At least one record, and no two of the same arm and candidate.
Aggregable(records) ==
  /\ records # <<>>
  /\ \A i, j \in DOMAIN records :
       records[i].slot = records[j].slot /\ records[i].arm = records[j].arm => i = j

\* Mutant: an abstention on a preserving candidate does not count as blocking.
BlockedWithoutAbstentions(records) ==
  Cardinality({r \in records : r.truth = "preserving" /\ r.verdict = "reject"})

Blocked(records) ==
  Cardinality({r \in records :
                 r.truth = "preserving" /\ r.verdict \in {"reject", "abstain"}})

ArmScore(records) ==
  [total |-> Cardinality(records),
   correct |-> Cardinality({r \in records :
                  \/ r.verdict = "accept" /\ r.truth = "preserving"
                  \/ r.verdict = "reject" /\ r.truth = "false_green"}),
   falseGreen |-> Cardinality({r \in records : r.truth = "false_green"}),
   reasonCorrect |-> Cardinality({r \in records :
                        r.truth = "false_green" /\ r.verdict = "reject" /\ r.reason}),
   preserving |-> Cardinality({r \in records : r.truth = "preserving"}),
   blocked |-> Blocked(records),
   completed |-> Cardinality({r \in records :
                    r.complete /\ r.verdict \in {"accept", "reject"}})]

\* One score for each arm that has records.
Aggregates(records) ==
  LET all == {records[i] : i \in DOMAIN records}
  IN [arm \in {r.arm : r \in all} |-> ArmScore({r \in all : r.arm = arm})]
=============================================================================
