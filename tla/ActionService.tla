---------------------------- MODULE ActionService ----------------------------
(***************************************************************************)
(* actions.Service (internal/actions/service.go, compensate.go,            *)
(* reconcile.go): concurrent callers drive Actions through the tables of   *)
(* ActionStore.                                                            *)
(*                                                                         *)
(* Every operation is a read without a lock, a guard on what was read, a   *)
(* mandatory audit append and one store transaction, each its own commit.  *)
(* A caller holds what it read in its call record between these steps, so  *)
(* every interleaving of two handlers is a behaviour.  An early return     *)
(* changes nothing and is no step.  A crash, a cancelled request, a failed *)
(* audit append and an unavailable store all end the call where it stands. *)
(***************************************************************************)
EXTENDS ActionStore

CONSTANTS
  Callers,     \* requests being served, by any replica
  Trusted,     \* callers whose principal passes verifyDecisionProvider
  Served,      \* the operations callers use in this instance
  Requests,    \* what clients request: bindings of new actions
  CanFail      \* whether calls may end between two of their commits

OperationNames ==
  {"RequestAction", "Grant", "Dispatch", "MarkExecuting", "IngestReceipt",
   "MarkResultUnknown", "HumanTakeover", "Cancel", "Compensate",
   "BeginReconciliation", "ResolveSucceeded", "ResolveFailed"}

ASSUME ServiceAssumption ==
  /\ Trusted \subseteq Callers /\ Served \subseteq OperationNames /\ CanFail \in BOOLEAN
  /\ Requests \subseteq {b \in Bindings : b.key \in Keys /\ b.op \in Operations /\ b.of = NoAction}

VARIABLES
  evidence,  \* approval evidence by plan, as the transport service stores it
  audits,    \* per action, the status_to values its audit events name
  call       \* per caller, the request in progress

serviceVars == <<evidence, audits, call>>
vars == <<storeVars, serviceVars>>

\* A transmitted plan and its validated evidence; op is the operation the plan
\* binds, which RecordEvidence requires the evidence to name.
Evidence ==
  [decision : {"none", "approved", "denied"}, op : Operations,
   consumed : BOOLEAN, revoked : BOOLEAN]

Calls ==
  [op : OperationNames \cup {"none"},
   pc : {"idle", "consume", "audit", "store", "audit2", "store2"},
   act : Actions \cup {NoAction},         \* the action written, minted or read
   orig : Actions \cup {NoAction},        \* Compensate: the original
   from : Statuses \cup {"absent"}, to : Statuses \cup {"absent"},
   bind : Bindings \cup {NoBinding},      \* RequestAction, Compensate: the new row
   result : ResultIds \cup {NoResult},
   approved : Plans \cup {NoPlan}]

NoCall ==
  [op |-> "none", pc |-> "idle", act |-> NoAction, orig |-> NoAction,
   from |-> "absent", to |-> "absent", bind |-> NoBinding, result |-> NoResult,
   approved |-> NoPlan]

TypeOK ==
  /\ StoreTypeOK
  /\ evidence \in [Plans -> Evidence]
  /\ audits \in [Actions -> SUBSET Statuses]
  /\ call \in [Callers -> Calls]

Init ==
  /\ StoreInit
  /\ evidence \in [Plans -> {[decision |-> "none", op |-> o, consumed |-> FALSE, revoked |-> FALSE] :
                               o \in Operations}]
  /\ audits = [a \in Actions |-> {}]
  /\ call = [c \in Callers |-> NoCall]

-----------------------------------------------------------------------------
(* Steps shared by the handlers.                                           *)

Idle(c, op) == call[c].pc = "idle" /\ op \in Served

\* A ref newID has not handed out: no row, no call and no audit event has it.
Fresh(a) ==
  /\ a \notin Rows /\ audits[a] = {}
  /\ \A c \in Callers : call[c].act # a

Start(c, record) == call' = [call EXCEPT ![c] = record]
At(c, pc) == call' = [call EXCEPT ![c].pc = pc]
Finish(c) == call' = [call EXCEPT ![c] = NoCall]

\* The read and guard of a handler that moves an existing row from -> to.
StartOn(c, op, a, from, to) ==
  /\ status[a] \in from
  /\ canTransition(status[a], to)
  /\ Start(c, [NoCall EXCEPT !.op = op, !.pc = "audit", !.act = a,
                             !.from = status[a], !.to = to])
  /\ UNCHANGED <<storeVars, evidence, audits>>

\* Faulty variant of appendAudit: a failed append is logged and ignored.
appendAudit_BestEffort(c) ==
  /\ call[c].pc \in {"audit", "audit2"}
  /\ At(c, IF call[c].pc = "audit" THEN "store" ELSE "store2")
  /\ UNCHANGED <<storeVars, evidence, audits>>

\* appendAudit: the mandatory lineage event, committed before the store write.
appendAudit(c) ==
  \/ /\ call[c].pc = "audit"
     /\ audits' = [audits EXCEPT ![call[c].act] = @ \cup {call[c].to}]
     /\ At(c, "store")
     /\ UNCHANGED <<storeVars, evidence>>
  \/ /\ call[c].pc = "audit2"
     /\ audits' = [audits EXCEPT ![call[c].orig] = @ \cup {"compensating"}]
     /\ At(c, "store2")
     /\ UNCHANGED <<storeVars, evidence>>

\* The call ends between two commits: audit or store unavailable, the request
\* cancelled, or the replica down.
Abandon(c) ==
  /\ CanFail
  /\ call[c].pc # "idle"
  /\ Finish(c)
  /\ UNCHANGED <<storeVars, evidence, audits>>

\* A store write: applied when the transaction accepts it, else an error.
Write(c, accepted, Apply) ==
  /\ IF accepted THEN Apply ELSE UNCHANGED storeVars
  /\ Finish(c)
  /\ UNCHANGED <<evidence, audits>>

-----------------------------------------------------------------------------
(* The operations.                                                         *)

\* RequestAction: the idempotent pre-check found no row of the key.
RequestAction(c, a, b) ==
  /\ Idle(c, "RequestAction") /\ c \in Trusted /\ Fresh(a)
  /\ ByKey(b.key) = {}
  /\ Start(c, [NoCall EXCEPT !.op = "RequestAction", !.pc = "audit", !.act = a, !.bind = b,
                 !.to = IF b.plan = NoPlan THEN "requested" ELSE "awaiting_approval"])
  /\ UNCHANGED <<storeVars, evidence, audits>>

\* PutRequested; a racing request of the same key makes it a no-op that
\* returns the row already there, or an idempotency conflict.
StorePutRequested(c) ==
  /\ call[c].op = "RequestAction" /\ call[c].pc = "store"
  /\ Write(c, ByKey(call[c].bind.key) = {}, PutRequested(call[c].act, call[c].bind, call[c].to))

\* Grant: the read, the trust gate, and where the evidence is consumed.
Grant(c, a) ==
  /\ Idle(c, "Grant") /\ c \in Trusted
  /\ status[a] \in {"requested", "awaiting_approval"}
  /\ Start(c, [NoCall EXCEPT !.op = "Grant", !.act = a, !.from = status[a], !.to = "granted",
                 !.pc = IF status[a] = "awaiting_approval" THEN "consume" ELSE "audit"])
  /\ UNCHANGED <<storeVars, evidence, audits>>

\* Faulty variant of Consumable: consumed_at is not tested.
Consumable_Again(p) == evidence[p].decision # "none" /\ ~evidence[p].revoked

\* Whether a plan's evidence can be consumed, and whether it approves action a.
Consumable(p) ==
  evidence[p].decision # "none" /\ ~evidence[p].consumed /\ ~evidence[p].revoked
Approves(p, a) == evidence[p].decision = "approved" /\ evidence[p].op = binding[a].op

\* ConsumeApprovalEvidence stamps consumed_at in its own transaction; the
\* decision and its binding are compared after that.
ConsumeEvidence(c) ==
  LET a == call[c].act
      p == binding[a].plan
  IN  /\ call[c].pc = "consume"
      /\ UNCHANGED <<storeVars, audits>>
      /\ IF Consumable(p)
         THEN /\ evidence' = [evidence EXCEPT ![p].consumed = TRUE]
              /\ IF Approves(p, a)
                 THEN Start(c, [call[c] EXCEPT !.pc = "audit", !.approved = p])
                 ELSE Finish(c)
         ELSE Finish(c) /\ UNCHANGED evidence

StoreGrantStep(c) ==
  /\ call[c].op = "Grant" /\ call[c].pc = "store"
  /\ Write(c, GrantAccepted(call[c].act), StoreGrant(call[c].act, call[c].approved))

Dispatch(c, a) ==
  /\ Idle(c, "Dispatch")
  /\ status[a] = "granted"
  /\ Start(c, [NoCall EXCEPT !.op = "Dispatch", !.pc = "audit", !.act = a,
                 !.from = "granted", !.to = "dispatched"])
  /\ UNCHANGED <<storeVars, evidence, audits>>

StoreDispatchStep(c) ==
  /\ call[c].op = "Dispatch" /\ call[c].pc = "store"
  /\ Write(c, DispatchAccepted(call[c].act), StoreDispatch(call[c].act))

\* The handlers that only move the status.
MarkExecuting(c, a) ==
  Idle(c, "MarkExecuting") /\ StartOn(c, "MarkExecuting", a, {"dispatched"}, "executing")

MarkResultUnknown(c, a) ==
  /\ Idle(c, "MarkResultUnknown")
  /\ StartOn(c, "MarkResultUnknown", a, {"executing", "dispatched"}, "result_unknown")

HumanTakeover(c, a) ==
  Idle(c, "HumanTakeover") /\ StartOn(c, "HumanTakeover", a, Statuses, "human_takeover")

\* Before dispatch a cancel fails the action, after it a human takes over.
Cancel(c, a) ==
  /\ Idle(c, "Cancel")
  /\ \/ StartOn(c, "Cancel", a, {"requested", "awaiting_approval", "granted"}, "failed")
     \/ StartOn(c, "Cancel", a, {"dispatched", "executing", "result_unknown", "reconciling"},
                "human_takeover")

BeginReconciliation(c, a) ==
  /\ Idle(c, "BeginReconciliation")
  /\ StartOn(c, "BeginReconciliation", a, {"result_unknown"}, "reconciling")

\* Faulty variant of ResolveFailed: success needs no recovered receipt.
ResolveFailed_AnyOutcome(c, a) ==
  /\ Idle(c, "ResolveFailed")
  /\ \E to \in {"failed", "succeeded"} : StartOn(c, "ResolveFailed", a, {"reconciling"}, to)

\* ResolveReconciliation with a failed outcome is a plain transition.
ResolveFailed(c, a) ==
  Idle(c, "ResolveFailed") /\ StartOn(c, "ResolveFailed", a, {"reconciling"}, "failed")

StoreTransitionStep(c) ==
  LET k == call[c]
  IN  /\ k.op \in {"MarkExecuting", "MarkResultUnknown", "HumanTakeover", "Cancel",
                   "BeginReconciliation", "ResolveFailed"}
      /\ k.pc = "store"
      /\ Write(c, TransitionAccepted(k.act, k.from, k.to), StoreTransition(k.act, k.from, k.to))

\* IngestReceipt of a receipt verifyReceipt accepts.  Read in a completed row,
\* the result is a duplicate or out of order: neither writes.
IngestReceipt(c, a, r, outcome) ==
  /\ Idle(c, "IngestReceipt")
  /\ status[a] \in {"executing", "dispatched"}
  /\ Start(c, [NoCall EXCEPT !.op = "IngestReceipt", !.pc = "audit", !.act = a,
                 !.from = status[a], !.to = outcome, !.result = r])
  /\ UNCHANGED <<storeVars, evidence, audits>>

\* ResolveReconciliation with a recovered receipt of a succeeded execution.
ResolveSucceeded(c, a) ==
  /\ Idle(c, "ResolveSucceeded")
  /\ status[a] = "reconciling"
  /\ Start(c, [NoCall EXCEPT !.op = "ResolveSucceeded", !.pc = "audit", !.act = a,
                 !.from = status[a], !.to = "succeeded", !.result = ReconcileId(a)])
  /\ UNCHANGED <<storeVars, evidence, audits>>

\* A result id already in the inbox makes this a no-op that reports success.
StoreIngestStep(c) ==
  LET k == call[c]
  IN  /\ k.op \in {"IngestReceipt", "ResolveSucceeded"} /\ k.pc = "store"
      /\ Write(c, IngestAccepted(k.act, k.result, k.to), IngestResult(k.act, k.result, k.to))

\* Faulty variant of Compensate: a declared compensation is not required.
Compensate_Undeclared(c, orig, a) ==
  /\ Idle(c, "Compensate") /\ Fresh(a)
  /\ status[orig] \in compensable \cup {"compensating"}
  /\ ByKey(CompKey(orig)) = {}
  /\ Start(c, [NoCall EXCEPT !.op = "Compensate", !.pc = "audit", !.act = a, !.orig = orig,
                 !.from = status[orig], !.to = "requested",
                 !.bind = [key |-> CompKey(orig), op |-> CompOperation, plan |-> NoPlan,
                           compensable |-> FALSE, of |-> orig]])
  /\ UNCHANGED <<storeVars, evidence, audits>>

\* Compensate: the read of the original and of the compensation's key.
Compensate(c, orig, a) ==
  /\ Idle(c, "Compensate") /\ Fresh(a)
  /\ status[orig] \in compensable \cup {"compensating"}
  /\ binding[orig].compensable
  /\ ByKey(CompKey(orig)) = {}
  /\ Start(c, [NoCall EXCEPT !.op = "Compensate", !.pc = "audit", !.act = a, !.orig = orig,
                 !.from = status[orig], !.to = "requested",
                 !.bind = [key |-> CompKey(orig), op |-> CompOperation, plan |-> NoPlan,
                           compensable |-> FALSE, of |-> orig]])
  /\ UNCHANGED <<storeVars, evidence, audits>>

\* PutRequested of the compensation; only its creator moves the original on.
StorePutCompensation(c) ==
  LET k == call[c]
  IN  /\ k.op = "Compensate" /\ k.pc = "store"
      /\ UNCHANGED <<evidence, audits>>
      /\ IF ByKey(k.bind.key) = {}
         THEN /\ PutRequested(k.act, k.bind, "requested")
              /\ IF k.from = "compensating" THEN Finish(c) ELSE At(c, "audit2")
         ELSE Finish(c) /\ UNCHANGED storeVars

StoreMarkCompensating(c) ==
  LET k == call[c]
  IN  /\ k.pc = "store2"
      /\ Write(c, TransitionAccepted(k.orig, k.from, "compensating"),
                  StoreTransition(k.orig, k.from, "compensating"))

-----------------------------------------------------------------------------
(* The approval transport, as far as evidence goes: an authority records   *)
(* one validated decision per plan, and may revoke the transmission.       *)

RecordEvidence(p, d) ==
  /\ evidence[p].decision = "none" /\ ~evidence[p].revoked
  /\ evidence' = [evidence EXCEPT ![p].decision = d]
  /\ UNCHANGED <<storeVars, audits, call>>

RevokePlan(p) ==
  /\ ~evidence[p].revoked
  /\ evidence' = [evidence EXCEPT ![p].revoked = TRUE]
  /\ UNCHANGED <<storeVars, audits, call>>

ExpireGrant(a) == GrantExpires(a) /\ UNCHANGED serviceVars

-----------------------------------------------------------------------------
CallStep(c) ==
  \/ appendAudit(c) \/ Abandon(c) \/ ConsumeEvidence(c)
  \/ StorePutRequested(c) \/ StoreGrantStep(c) \/ StoreDispatchStep(c)
  \/ StoreTransitionStep(c) \/ StoreIngestStep(c)
  \/ StorePutCompensation(c) \/ StoreMarkCompensating(c)

CallStart(c, a) ==
  \/ \E b \in Requests : RequestAction(c, a, b)
  \/ Grant(c, a) \/ Dispatch(c, a) \/ MarkExecuting(c, a) \/ MarkResultUnknown(c, a)
  \/ HumanTakeover(c, a) \/ Cancel(c, a) \/ BeginReconciliation(c, a)
  \/ ResolveFailed(c, a) \/ ResolveSucceeded(c, a)
  \/ \E r \in Results, outcome \in ReceiptStatuses : IngestReceipt(c, a, r, outcome)
  \/ \E orig \in Actions : Compensate(c, orig, a)

Next ==
  \/ \E c \in Callers : CallStep(c)
  \/ \E c \in Callers, a \in Actions : CallStart(c, a)
  \/ \E p \in Plans, d \in {"approved", "denied"} : RecordEvidence(p, d)
  \/ \E p \in Plans : RevokePlan(p)
  \/ \E a \in Actions : ExpireGrant(a)

Spec == Init /\ [][Next]_vars
-----------------------------------------------------------------------------
(* Properties.                                                             *)

\* A granted action that carries an approval plan is backed by that plan's
\* approval of exactly its operation, and no approval ever backs two actions,
\* whatever Grant calls race for it (Service.Grant, ConsumeEvidence).
ApprovalBacksOneGrant ==
  \A a \in Rows : grant[a] # "none" =>
    LET p == binding[a].plan
    IN  /\ approval[a] = p
        /\ p # NoPlan => /\ evidence[p].consumed /\ Approves(p, a)
                         /\ \A b \in Rows \ {a} : approval[b] # p

\* No status is reached without an audit event that names it: a crash may
\* leave an event without its transition, never a transition without its
\* event (appendAudit runs before every store write).
AuditPrecedesStatus ==
  \A a \in Rows : status[a] \in audits[a]

\* Every committed change of a row's status is an edge of the state machine,
\* although callers decide on a status they read before their write.
StatusFollowsEdges ==
  [][\A a \in Actions : status[a] # "absent" /\ status'[a] # status[a] =>
       canTransition(status[a], status'[a])]_vars

\* A compensation is a new Action for an original that declared one, at most
\* one per original, and never itself compensable (Service.Compensate).
CompensationIsUnique ==
  \A a \in Rows : binding[a].of # NoAction =>
    /\ binding[a].of \in Rows /\ binding[binding[a].of].compensable
    /\ \A b \in Rows : binding[b].of = binding[a].of => b = a
    /\ ~\E b \in Rows : binding[b].of = a

\* An action rests in compensating only while its compensation exists.
CompensatingHasCompensation ==
  \A a \in Rows : status[a] = "compensating" => ByKey(CompKey(a)) # {}

\* Compensations and the actions they undo belong together in both directions
\* (Service.Compensate, through its two transactions and their retries).
CompensationsAreSound == CompensationIsUnique /\ CompensatingHasCompensation

\* "The original action moves to compensating" (compensate.go): once every
\* call has returned, the original of a compensation has left its status.
CompensatedOriginalMoves ==
  (\A c \in Callers : call[c].pc = "idle") =>
    \A a \in Rows : binding[a].of # NoAction =>
      status[binding[a].of] \in {"compensating", "human_takeover"}
=============================================================================
