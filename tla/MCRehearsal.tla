----------------------------- MODULE MCRehearsal -----------------------------
(***************************************************************************)
(* Instances of Rehearsal for TLC: a plan of two slots, the decisions in   *)
(* their order, those of the last slot swapped, and the last one missing.  *)
(***************************************************************************)
EXTENDS Rehearsal, SequencesExt

CONSTANTS early, late

MCSlots == <<early, late>>
MCSources ==
  {OrderedPair(early) \o OrderedPair(late),
   OrderedPair(early) \o Reverse(OrderedPair(late)),
   OrderedPair(early) \o <<Decision(late, "status-quo")>>}
=============================================================================
