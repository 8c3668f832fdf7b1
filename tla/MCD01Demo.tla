------------------------------ MODULE MCD01Demo ------------------------------
(***************************************************************************)
(* Instances of D01Demo for TLC: the demo's reasoning, and others that     *)
(* differ from it in one respect.                                          *)
(***************************************************************************)
EXTENDS D01Demo, TLC

CONSTANTS t1, t2, accumulate, order

MCAssertions == {t1, t2}
MCContracts == {accumulate, order}
MCReasoned == [candidate |-> "c2", content |-> "b2", risk |-> "r2", plan |-> "p"]
MCForeign ==
  {[MCReasoned EXCEPT !.candidate = "c1"], [MCReasoned EXCEPT !.content = "b1"],
   [MCReasoned EXCEPT !.risk = "r1"], [MCReasoned EXCEPT !.plan = "q"]}
MCSymmetry == Permutations(MCAssertions) \cup Permutations(MCContracts)

MCCandidates == {"c1", "c2"}
MCContents == {"b1", "b2"}
MCRisks == {"r1", "r2"}
MCPlans == {"p", "q"}
=============================================================================
