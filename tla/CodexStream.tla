------------------------------ MODULE CodexStream ------------------------------
(***************************************************************************)
(* The reader of the reasoning stream (reasoning/parser.ts) and the names  *)
(* of its failures (reasoning/errors.ts).  A stream is the sequence of its *)
(* lines; a line is what the reader tells apart:                           *)
(*   frame      an empty line, or one with a carriage return               *)
(*   junk       not JSON           alien      JSON, but no supported event *)
(*   thread     thread.started     turn       turn.started                 *)
(*   progress   item.started or item.updated, or an item.completed that is *)
(*              not an agent message (the reader passes over its item)     *)
(*   damaged    item.completed without an item, or a message without text  *)
(*   answer     an agent message that satisfies the output schema          *)
(*   prose      an agent message that does not                             *)
(*   completed  turn.completed, its usage absent or well formed            *)
(*   misused    turn.completed with a malformed usage                      *)
(*   failed     error or turn.failed                                       *)
(***************************************************************************)
EXTENDS Naturals, Sequences

Unreadable == {"junk", "alien"}
Message == {"answer", "prose"}
Closing == {"completed", "misused"}
Lines == {"frame", "thread", "turn", "progress", "damaged", "failed"}
           \cup Unreadable \cup Message \cup Closing

Streams == Seq(Lines)

Has(stream, kinds) == \E i \in DOMAIN stream : stream[i] \in kinds
Once(stream, kinds) ==
  \E i \in DOMAIN stream :
    /\ stream[i] \in kinds
    /\ \A j \in DOMAIN stream : stream[j] \in kinds => j = i

\* The first unreadable line, if any, is not JSON.
Undecodable(stream) ==
  \E i \in DOMAIN stream :
    stream[i] = "junk" /\ \A j \in 1..(i - 1) : stream[j] # "alien"

\* Mutant: the bracket is checked, but not that the turn closed.
BracketedOpen(stream) ==
  /\ Len(stream) >= 2
  /\ stream[1] = "thread" /\ Once(stream, {"thread"})
  /\ stream[2] = "turn" /\ Once(stream, {"turn"})

\* One thread, one turn, closed by the last event.
Bracketed(stream) ==
  /\ Len(stream) >= 2
  /\ stream[1] = "thread" /\ Once(stream, {"thread"})
  /\ stream[2] = "turn" /\ Once(stream, {"turn"})
  /\ stream[Len(stream)] \in Closing /\ Once(stream, Closing)

Accepted == "accepted"

\* The reader's checks in its order, each with the code of its failure.
Checks(stream) == <<
  [fails |-> stream = <<>> \/ Has(stream, {"frame"}), code |-> "MALFORMED_JSONL"],
  [fails |-> Undecodable(stream),            code |-> "MALFORMED_JSONL"],
  [fails |-> Has(stream, Unreadable),        code |-> "UNSUPPORTED_EVENT"],
  [fails |-> Has(stream, {"failed"}),        code |-> "STREAM_ERROR"],
  [fails |-> ~Bracketed(stream),             code |-> "INCOMPLETE_STREAM"],
  [fails |-> Has(stream, {"damaged"}),       code |-> "POLICY_VIOLATION"],
  [fails |-> ~Has(stream, Message),          code |-> "MISSING_FINAL_OUTPUT"],
  [fails |-> ~Once(stream, Message),         code |-> "MULTIPLE_FINAL_OUTPUTS"],
  [fails |-> Has(stream, {"prose"}),         code |-> "INVALID_FINAL_OUTPUT"],
  [fails |-> Has(stream, {"misused"}),       code |-> "POLICY_VIOLATION"]>>

\* The codes this build can report of a call; the rest of the table of
\* errors.ts has no caller.
FailureCodes ==
  {"TOTAL_TIMEOUT", "EXECUTABLE_UNAVAILABLE", "NONZERO_EXIT",
   "MALFORMED_JSONL", "UNSUPPORTED_EVENT", "STREAM_ERROR", "INCOMPLETE_STREAM",
   "MISSING_FINAL_OUTPUT", "MULTIPLE_FINAL_OUTPUTS", "INVALID_FINAL_OUTPUT",
   "POLICY_VIOLATION"}

\* The code of the first check that fails, or Accepted.
Parse(stream) ==
  IF \A k \in 1..10 : ~Checks(stream)[k].fails
    THEN Accepted
    ELSE LET first == CHOOSE k \in 1..10 :
                        /\ Checks(stream)[k].fails
                        /\ \A l \in 1..(k - 1) : ~Checks(stream)[l].fails
         IN Checks(stream)[first].code

(***************************************************************************)
(* What an acceptable stream is, said without the reader's checks: an      *)
(* opening, any amount of progress around exactly one answer, a closing.   *)
(***************************************************************************)
Complete(stream) ==
  /\ Len(stream) >= 4
  /\ stream[1] = "thread" /\ stream[2] = "turn"
  /\ stream[Len(stream)] = "completed"
  /\ \E a \in 3..(Len(stream) - 1) :
       /\ stream[a] = "answer"
       /\ \A i \in 3..(Len(stream) - 1) : i # a => stream[i] = "progress"
=============================================================================
