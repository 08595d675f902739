------------------------- MODULE CapabilityDecision -------------------------
(* The evaluator before one question after another, each about a snapshot of *)
(* its own: it keeps nothing between two.                                    *)
EXTENDS CapabilityPolicy

CONSTANT UnitIds   \* what may be written as the id of a unit

ASSUME IdsAssumption == NoUnit \notin UnitIds

VARIABLE ask       \* the request, and the snapshot it is answered from

CapabilityRequests ==
  [parent : UNION {[D -> UnitIds \cup {NoUnit}] : D \in {E \in SUBSET UnitIds : IsFiniteSet(E)}},
   members : {M \in SUBSET (UnitIds \X STRING) : IsFiniteSet(M)}, version : Nat,
   sealed : Nat, type : STRING, capability : STRING, target : UnitIds \cup {NoUnit}]

DecisionSpec == ask \in CapabilityRequests /\ [][ask' \in CapabilityRequests]_ask

\* Every decision on every snapshot asked about meets the reference: it allows
\* what a sound snapshot of the sealed version entitles to, and no more
\* (CapabilityEvaluator.Evaluate).
EvaluateMeetsReference == MeetsReference(ask, ask.sealed, ask.type, ask.capability, ask.target)
=============================================================================
