---------------------------- MODULE ActionStates ----------------------------
(***************************************************************************)
(* The frozen lifecycle of one Action: internal/actions/state_machine.go.  *)
(* Pure definitions, shared by the store, the service and the workers.     *)
(***************************************************************************)

Statuses ==
  {"requested", "awaiting_approval", "granted", "dispatched", "executing",
   "succeeded", "failed", "result_unknown", "reconciling", "compensating",
   "human_takeover"}

\* The transition table; a status outside its domain has no successor.
allowedEdges ==
  [s \in Statuses |->
     CASE s = "requested"         -> {"awaiting_approval", "granted", "failed", "human_takeover"}
       [] s = "awaiting_approval" -> {"granted", "failed", "human_takeover"}
       [] s = "granted"           -> {"dispatched", "failed", "human_takeover"}
       [] s = "dispatched"        -> {"executing", "succeeded", "failed", "result_unknown",
                                      "compensating", "human_takeover"}
       [] s = "executing"         -> {"succeeded", "failed", "result_unknown",
                                      "compensating", "human_takeover"}
       [] s = "result_unknown"    -> {"reconciling", "compensating", "human_takeover"}
       [] s = "reconciling"       -> {"succeeded", "failed", "human_takeover"}
       [] s = "succeeded"         -> {"compensating", "human_takeover"}
       [] s = "failed"            -> {"compensating", "human_takeover"}
       [] s = "compensating"      -> {"human_takeover"}
       [] s = "human_takeover"    -> {}]

canTransition(from, to) == from \in Statuses /\ to \in allowedEdges[from]

\* Statuses from which Compensate may mint a compensation.  "reconciling" is
\* among them although it has no edge to "compensating".
compensable ==
  {"dispatched", "executing", "succeeded", "failed", "result_unknown", "reconciling"}

\* The technical outcomes a receipt may carry.
ReceiptStatuses == {"succeeded", "failed"}

\* Statuses no connector may re-run: only reconciliation leaves them.
AwaitingReconciliation == {"result_unknown", "reconciling"}
=============================================================================
