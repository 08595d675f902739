--------------------------- MODULE MCActionService ---------------------------
(* Two instances of ActionService in one run: approvals and grants of two   *)
(* actions; one action, its results and its compensation.                   *)
EXTENDS ActionService, TLC

CONSTANTS k1, k2, o1, o2, p1

Req(k, o, p, c) == [key |-> k, op |-> o, plan |-> p, compensable |-> c, of |-> NoAction]

\* Two actions share a plan; a third request reuses a key for another operation.
ApprovalRequests == {Req(k1, o1, p1, FALSE), Req(k2, o1, p1, FALSE), Req(k2, o2, NoPlan, FALSE)}
ApprovalOps == {"RequestAction", "Grant", "Dispatch", "Cancel", "HumanTakeover"}

\* One action that may or may not declare a compensation, its compensation,
\* and every way a result can arrive.
CompletionRequests == {Req(k1, o1, NoPlan, TRUE), Req(k1, o1, NoPlan, FALSE)}
CompletionOps == OperationNames \ {"Cancel", "HumanTakeover"}

\* What brings one action to a receipt and to its compensation.
CompensationRequests == {Req(k1, o1, NoPlan, TRUE)}
CompensationOps == {"RequestAction", "Grant", "Dispatch", "IngestReceipt", "Compensate"}

VARIABLE part

PartOps == IF part = "approvals" THEN ApprovalOps ELSE CompletionOps
PartRequests == IF part = "approvals" THEN ApprovalRequests ELSE CompletionRequests
MCRequests == ApprovalRequests \cup CompletionRequests

MCInit == part \in {"approvals", "completion"} /\ Init /\ (part = "completion" => \A p \in Plans : evidence[p].op = o1)

\* A call starts only with an operation and a request of its part; the second
\* part has no plan.
MCNext ==
  /\ Next /\ UNCHANGED part
  /\ \A c \in Callers : call[c].pc = "idle" /\ call'[c].pc # "idle" =>
       /\ call'[c].op \in PartOps
       /\ call'[c].op = "RequestAction" => call'[c].bind \in PartRequests
  /\ part = "completion" => evidence' = evidence

MCSpec == MCInit /\ [][MCNext]_<<vars, part>>

Symmetry == Permutations(Callers) \cup Permutations(Actions)
=============================================================================
