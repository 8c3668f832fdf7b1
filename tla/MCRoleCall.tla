------------------------------ MODULE MCRoleCall ------------------------------
(***************************************************************************)
(* Instances of RoleCall for TLC: a repository with a candidate, a         *)
(* verifier, the runtime, and a link from the candidate to the verifier.   *)
(***************************************************************************)
EXTENDS RoleCall

CONSTANTS candidates, c1, link, verifier, runtime

MCCandidates == <<candidates>>
MCFile == <<candidates, c1>>
MCLink == <<candidates, link>>
MCVerifier == <<verifier>>
MCRuntime == <<runtime>>

MCFiles == {MCFile, MCVerifier, MCRuntime}
MCReal == [p \in {MCCandidates, MCFile, MCLink, MCVerifier, MCRuntime} |->
             IF p = MCLink THEN MCVerifier ELSE p]

MCCap(role, allow, deny) ==
  [role |-> role, allow |-> allow, deny |-> deny, entry |-> MCRuntime,
   lawful |-> TRUE]

\* Capabilities as the registry builds them, and one of each refused shape.
MCCapabilities ==
  {MCCap(r, {MCFile, MCRuntime}, {MCVerifier}) : r \in Roles} \cup
  {MCCap("evaluator", {MCVerifier, MCRuntime}, {MCCandidates}),
   MCCap("observer", {MCLink, MCRuntime}, {MCVerifier}),
   MCCap("observer", {MCLink, MCVerifier, MCRuntime}, {MCFile}),
   MCCap("observer", {MCCandidates, MCRuntime}, {MCFile}),
   MCCap("observer", {MCFile}, {MCVerifier}),
   [MCCap("arm", {MCFile, MCRuntime}, {MCFile}) EXCEPT !.lawful = FALSE]}

MCPublicPaths == {MCFile}
=============================================================================
