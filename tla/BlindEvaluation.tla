---------------------------- MODULE BlindEvaluation ----------------------------
(***************************************************************************)
(* What a scored evaluation promises, free of how the coordinator, the     *)
(* role processes and the file writer achieve it.  Every arm plan is       *)
(* decided before anything verifier-side is released (K = 0), observed     *)
(* twice, scored after both observations, and the report is published only *)
(* over a complete set of scores.  Evidence is never withdrawn.            *)
(***************************************************************************)
EXTENDS Naturals

CONSTANTS
  Plans,    \* the arm plans: one per candidate slot and arm
  Reports   \* the artifacts that make up the published report

VARIABLES
  decided,    \* arm plans whose decision is committed
  unblinded,  \* has anything verifier-side been released?
  observed,   \* committed observations, as <<arm plan, ordinal>>
  scored,     \* arm plans whose score is committed
  published   \* report artifacts published

abstractVars == <<decided, unblinded, observed, scored, published>>

AbstractInit ==
  /\ decided = {}
  /\ unblinded = FALSE
  /\ observed = {}
  /\ scored = {}
  /\ published = {}

\* A decision is committed once, and never after the release.
Decide(k) ==
  /\ ~unblinded
  /\ k \notin decided
  /\ decided' = decided \cup {k}
  /\ UNCHANGED <<unblinded, observed, scored, published>>

Unblind ==
  /\ decided = Plans
  /\ unblinded' = TRUE
  /\ UNCHANGED <<decided, observed, scored, published>>

Observe(k, i) ==
  /\ unblinded
  /\ scored = {}
  /\ <<k, i>> \notin observed
  /\ observed' = observed \cup {<<k, i>>}
  /\ UNCHANGED <<decided, unblinded, scored, published>>

\* No plan is scored before every plan has been observed twice.
Score(k) ==
  /\ Plans \X {1, 2} \subseteq observed
  /\ k \notin scored
  /\ scored' = scored \cup {k}
  /\ UNCHANGED <<decided, unblinded, observed, published>>

Publish(r) ==
  /\ scored = Plans
  /\ r \notin published
  /\ published' = published \cup {r}
  /\ UNCHANGED <<decided, unblinded, observed, scored>>

AbstractNext ==
  \/ \E k \in Plans : Decide(k) \/ Score(k)
  \/ Unblind
  \/ \E k \in Plans, i \in {1, 2} : Observe(k, i)
  \/ \E r \in Reports : Publish(r)

AbstractSpec == AbstractInit /\ [][AbstractNext]_abstractVars
=============================================================================
