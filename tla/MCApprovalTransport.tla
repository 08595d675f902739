------------------------- MODULE MCApprovalTransport -------------------------
(* The approval transport on small sets of interchangeable model values.   *)
EXTENDS ApprovalTransport, TLC

Symmetry ==
  Permutations(Plans) \cup Permutations(Operations)
    \cup Permutations(Decisions) \cup Permutations(Callers)
=============================================================================
