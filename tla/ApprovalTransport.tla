-------------------------- MODULE ApprovalTransport --------------------------
(***************************************************************************)
(* The approval transmission plane (internal/approvaltransport): callers   *)
(* transmit signed plans to the approval channel, the authority returns    *)
(* decisions, operators revoke, and the action service consumes a decision *)
(* once.  A handler reads without a lock and then commits one transaction  *)
(* under the plan's advisory lock; between its steps other calls run, and  *)
(* it may end there for good.  A refused call is no step; so is a call on  *)
(* an expired plan, which every run without that call covers.              *)
(***************************************************************************)
EXTENDS Naturals

CONSTANTS
  Plans,        \* plan refs
  Operations,   \* the operations a plan can bind (capability, parameter hash)
  Refs,         \* approval refs an authority gives its decisions
  Decisions,    \* what an authority decides: approved, denied or narrowed
  Callers,      \* concurrent calls
  NoOperation, NoRef, NoDecision, NoPlan,
  MaxDeliveries \* bound on delivery attempts per plan

ASSUME TransportAssumption ==
  /\ NoOperation \notin Operations /\ NoRef \notin Refs
  /\ NoDecision \notin Decisions /\ NoPlan \notin Plans
  /\ MaxDeliveries \in Nat

Acts == {"transmit", "submitted", "recorded", "revoke"}

VARIABLES
  tx,        \* status of a plan's transmission row, "absent" without one
  bound,     \* the operation the row binds
  deliveries, \* rows of approval_delivery_attempts
  evidence,  \* the plan's row of approval_evidence_records
  lineage,   \* the audit acts appended for a plan
  reached,   \* whether the channel ever took the plan (observation)
  call       \* per caller, the request in progress

tableVars == <<tx, bound, deliveries, evidence>>
vars == <<tableVars, lineage, reached, call>>

NoEvidence == [ref |-> NoRef, decision |-> NoDecision, consumed |-> FALSE]

NoCall ==
  [op |-> "none", pc |-> "idle", plan |-> NoPlan, bind |-> NoOperation,
   ref |-> NoRef, decision |-> NoDecision, outcome |-> "none"]

Calls ==
  [op : {"none", "Transmit", "RecordEvidence", "Revoke"},
   pc : {"idle", "audit", "store", "deliver", "attempt", "accept"},
   plan : Plans \cup {NoPlan}, bind : Operations \cup {NoOperation},
   ref : Refs \cup {NoRef}, decision : Decisions \cup {NoDecision},
   outcome : {"none", "delivered", "failed"}]

\* The monotonic lifecycle.
statusRank == [s \in {"absent", "pending", "delivered", "evidence_recorded", "revoked"} |->
  CASE s = "absent" -> 0 [] s = "pending" -> 1 [] s = "delivered" -> 2
    [] s = "evidence_recorded" -> 3 [] s = "revoked" -> 4]

TypeOK ==
  /\ tx \in [Plans -> DOMAIN statusRank]
  /\ bound \in [Plans -> Operations \cup {NoOperation}]
  /\ deliveries \in [Plans -> 0..MaxDeliveries]
  /\ evidence \in [Plans -> [ref : Refs \cup {NoRef}, decision : Decisions \cup {NoDecision},
                             consumed : BOOLEAN]]
  /\ lineage \in [Plans -> SUBSET Acts]
  /\ reached \in [Plans -> BOOLEAN]
  /\ call \in [Callers -> Calls]

Init ==
  /\ tx = [p \in Plans |-> "absent"]
  /\ bound = [p \in Plans |-> NoOperation]
  /\ deliveries = [p \in Plans |-> 0]
  /\ evidence = [p \in Plans |-> NoEvidence]
  /\ lineage = [p \in Plans |-> {}]
  /\ reached = [p \in Plans |-> FALSE]
  /\ call = [c \in Callers |-> NoCall]

-----------------------------------------------------------------------------
(* Steps shared by the handlers.                                           *)

Idle(c) == call[c].pc = "idle"
Start(c, record) == call' = [call EXCEPT ![c] = record]
Continue(c, pc) == call' = [call EXCEPT ![c].pc = pc]
Finish(c) == call' = [call EXCEPT ![c] = NoCall]

\* AppendApprovalAudit, mandatory before the store write.
Audit(c) ==
  LET act == CASE call[c].op = "Transmit" -> "transmit"
               [] call[c].op = "RecordEvidence" -> "submitted"
               [] OTHER -> "revoke"
  IN  /\ call[c].pc = "audit"
      /\ lineage' = [lineage EXCEPT ![call[c].plan] = @ \cup {act}]
      /\ Continue(c, "store")
      /\ UNCHANGED <<tableVars, reached>>

\* The call ends between two of its commits: audit or store unavailable, the
\* request cancelled, or the replica down.
Abandon(c) == ~Idle(c) /\ Finish(c) /\ UNCHANGED <<tableVars, lineage, reached>>

-----------------------------------------------------------------------------
(* Transmit.                                                               *)

\* continueExisting: only a pending plan of the same binding is sent again.
Resends(p, o) == bound[p] = o /\ tx[p] = "pending"

\* Transmit, its read: a new plan is audited, an existing one continued.
Transmit(c, p, o) ==
  LET start == [NoCall EXCEPT !.op = "Transmit", !.plan = p, !.bind = o]
  IN  /\ Idle(c)
      /\ \/ tx[p] = "absent" /\ Start(c, [start EXCEPT !.pc = "audit"])
         \/ tx[p] # "absent" /\ Resends(p, o) /\ Start(c, [start EXCEPT !.pc = "deliver"])
      /\ UNCHANGED <<tableVars, lineage, reached>>

\* CreateTransmission: INSERT ... ON CONFLICT DO NOTHING, then the row's fate.
CreateTransmission(c) ==
  LET p == call[c].plan
      o == call[c].bind
  IN  /\ call[c].op = "Transmit" /\ call[c].pc = "store"
      /\ IF tx[p] = "absent"
         THEN /\ tx' = [tx EXCEPT ![p] = "pending"]
              /\ bound' = [bound EXCEPT ![p] = o]
              /\ Continue(c, "deliver")
         ELSE /\ IF Resends(p, o) THEN Continue(c, "deliver") ELSE Finish(c)
              /\ UNCHANGED <<tx, bound>>
      /\ UNCHANGED <<deliveries, evidence, lineage, reached>>

\* deliver, its channel call; a failed one may still have reached the authority.
Deliver(c) ==
  /\ call[c].pc = "deliver" /\ deliveries[call[c].plan] < MaxDeliveries
  /\ \E taken \in BOOLEAN, outcome \in {"delivered", "failed"} :
       /\ outcome = "delivered" => taken
       /\ reached' = IF taken THEN [reached EXCEPT ![call[c].plan] = TRUE] ELSE reached
       /\ call' = [call EXCEPT ![c].pc = "attempt", ![c].outcome = outcome]
  /\ UNCHANGED <<tableVars, lineage>>

\* RecordDeliveryAttempt: one more attempt, and pending becomes delivered.
RecordDeliveryAttempt(c) ==
  LET p == call[c].plan
  IN  /\ call[c].pc = "attempt" /\ deliveries[p] < MaxDeliveries
      /\ deliveries' = [deliveries EXCEPT ![p] = @ + 1]
      /\ tx' = IF call[c].outcome = "delivered" /\ tx[p] = "pending"
               THEN [tx EXCEPT ![p] = "delivered"] ELSE tx
      /\ Finish(c)
      /\ UNCHANGED <<bound, evidence, lineage, reached>>

-----------------------------------------------------------------------------
(* RecordEvidence.                                                         *)

\* RecordEvidence, its read: evidence of another operation is rejected there.
RecordEvidence(c, p, r, d) ==
  /\ Idle(c)
  /\ tx[p] \notin {"absent", "revoked"}
  /\ Start(c, [NoCall EXCEPT !.op = "RecordEvidence", !.pc = "audit", !.plan = p,
                 !.ref = r, !.decision = d])
  /\ UNCHANGED <<tableVars, lineage, reached>>

\* Faulty variants of Recordable: no lookup by ref; the status the handler read
\* is not read again under the lock.
Recordable_AnyRef(p, r) == tx[p] # "revoked" /\ evidence[p] = NoEvidence
Recordable_Stale(p, r) ==
  evidence[p] = NoEvidence /\ \A q \in Plans : evidence[q].ref # r

\* The store takes the record: not revoked by now, a fresh ref, and the first
\* decision of the plan.
Recordable(p, r) ==
  tx[p] # "revoked" /\ evidence[p] = NoEvidence /\ \A q \in Plans : evidence[q].ref # r

\* The store's RecordEvidence transaction: a new record goes on to the
\* acceptance marker, an identical or a conflicting one ends the call.
StoreEvidence(c) ==
  LET p == call[c].plan
      r == call[c].ref
  IN  /\ call[c].op = "RecordEvidence" /\ call[c].pc = "store"
      /\ IF Recordable(p, r)
         THEN /\ evidence' = [evidence EXCEPT ![p] = [ref |-> r, decision |-> call[c].decision,
                                                      consumed |-> FALSE]]
              /\ tx' = [tx EXCEPT ![p] = "evidence_recorded"]
              /\ Continue(c, "accept")
         ELSE Finish(c) /\ UNCHANGED <<evidence, tx>>
      /\ UNCHANGED <<bound, deliveries, lineage, reached>>

\* The acceptance marker, only after the record is stored.
AcceptEvidence(c) ==
  /\ call[c].pc = "accept"
  /\ lineage' = [lineage EXCEPT ![call[c].plan] = @ \cup {"recorded"}]
  /\ Finish(c)
  /\ UNCHANGED <<tableVars, reached>>

-----------------------------------------------------------------------------
(* Revoke and ConsumeEvidence.                                             *)

Revoke(c, p) ==
  /\ Idle(c) /\ tx[p] \notin {"absent", "revoked"}
  /\ Start(c, [NoCall EXCEPT !.op = "Revoke", !.pc = "audit", !.plan = p])
  /\ UNCHANGED <<tableVars, lineage, reached>>

\* Faulty variant of StoreRevoke: the revocation drops the decision.
StoreRevoke_Erases(c) ==
  /\ call[c].op = "Revoke" /\ call[c].pc = "store"
  /\ tx' = [tx EXCEPT ![call[c].plan] = "revoked"]
  /\ evidence' = [evidence EXCEPT ![call[c].plan] = NoEvidence]
  /\ Finish(c)
  /\ UNCHANGED <<bound, deliveries, lineage, reached>>

\* The store's Revoke transaction, idempotent.
StoreRevoke(c) ==
  /\ call[c].op = "Revoke" /\ call[c].pc = "store"
  /\ tx' = [tx EXCEPT ![call[c].plan] = "revoked"]
  /\ Finish(c)
  /\ UNCHANGED <<bound, deliveries, evidence, lineage, reached>>

\* ConsumeEvidence of the grant path, one transaction; the expiry of the plan
\* is not looked at any more.
ConsumeEvidence(p) ==
  /\ tx[p] \notin {"absent", "revoked"}
  /\ evidence[p] # NoEvidence /\ ~evidence[p].consumed
  /\ evidence' = [evidence EXCEPT ![p].consumed = TRUE]
  /\ UNCHANGED <<tx, bound, deliveries, lineage, reached, call>>

-----------------------------------------------------------------------------
Next ==
  \/ \E c \in Callers :
       \/ Audit(c) \/ Abandon(c) \/ CreateTransmission(c) \/ Deliver(c) \/ RecordDeliveryAttempt(c)
       \/ StoreEvidence(c) \/ AcceptEvidence(c) \/ StoreRevoke(c)
  \/ \E c \in Callers, p \in Plans :
       \/ \E o \in Operations : Transmit(c, p, o)
       \/ \E r \in Refs, d \in Decisions : RecordEvidence(c, p, r, d)
       \/ Revoke(c, p)
  \/ \E p \in Plans : ConsumeEvidence(p)

Spec == Init /\ [][Next]_vars

-----------------------------------------------------------------------------
(* Properties.                                                             *)

\* One decision per plan under one ref: a ref never decides two plans, and the
\* two tables agree on which plans are decided, whatever submissions,
\* deliveries and revocations race (the store's RecordEvidence and Revoke).
OneDecisionPerRef ==
  \A p \in Plans :
    /\ \A q \in Plans : evidence[p].ref = evidence[q].ref /\ evidence[p] # NoEvidence => p = q
    /\ tx[p] = "evidence_recorded" => evidence[p] # NoEvidence
    /\ evidence[p] # NoEvidence => tx[p] \in {"evidence_recorded", "revoked"}

\* "a stored status never regresses": a late delivery confirmation cannot
\* demote recorded evidence, and a revocation is terminal (statusRank).
StatusNeverRegresses ==
  [][\A p \in Plans : statusRank[tx'[p]] >= statusRank[tx[p]]]_vars

\* "Transport failure can never create approval progress": a plan shown as
\* delivered has reached the authority (Service.deliver).
DeliveredIsTrue == \A p \in Plans : tx[p] = "delivered" => reached[p]

\* The lineage explains the tables: every row, decision and revocation has its
\* act, and an acceptance marker stands for a stored decision only
\* (RecordEvidence audits the submission before and the acceptance after).
LineageExplainsRows ==
  \A p \in Plans :
    /\ tx[p] # "absent" => "transmit" \in lineage[p]
    /\ evidence[p] # NoEvidence => "submitted" \in lineage[p]
    /\ tx[p] = "revoked" => "revoke" \in lineage[p]
    /\ "recorded" \in lineage[p] => evidence[p] # NoEvidence

\* The transport keeps the promises of ApprovalRegistry.
Promised == INSTANCE ApprovalRegistry
  WITH registry <- [p \in Plans |->
         [decision |-> evidence[p].decision, op |-> bound[p],
          consumed |-> evidence[p].consumed, revoked |-> tx[p] = "revoked"]]

ImplementsRegistry == Promised!RegistrySpec
=============================================================================
