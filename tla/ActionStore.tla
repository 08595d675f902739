----------------------------- MODULE ActionStore -----------------------------
(***************************************************************************)
(* The durable tables of the action plane and the transactions of          *)
(* actions.PostgresStore over them (internal/actions/postgres.go, with the *)
(* CHECKs and triggers of db/migrations/000010_durable_actions.sql).       *)
(*                                                                         *)
(* Each transaction is one atomic step: it runs under the per-action       *)
(* advisory lock and commits or rolls back as a whole.  A refused          *)
(* transaction (an ErrForbiddenTransition, a violated CHECK) changes       *)
(* nothing, so it is a disabled action here; the service module says what  *)
(* its caller does about the refusal.                                      *)
(***************************************************************************)
EXTENDS ActionStates, Naturals

CONSTANTS
  Actions,      \* action refs the service may mint (act_...)
  Keys,         \* idempotency keys of clients
  Operations,   \* what a request binds: capability, parameter hash, business context
  Plans,        \* approval plan refs
  Results,      \* connector result ids, the inbox dedup keys
  NoAction, NoPlan, NoResult, NoBinding,
  CompOperation \* the operation of a compensation Action

\* The idempotency key of the compensation of a ("cmp:" + action_ref), and
\* the result id of its reconciliation ("reconcile:" + action_ref).
CompKey(a) == <<"cmp", a>>
ReconcileId(a) == <<"reconcile", a>>
CompKeys == {CompKey(a) : a \in Actions}
ResultIds == Results \cup {ReconcileId(a) : a \in Actions}

ASSUME StoreAssumption ==
  /\ NoAction \notin Actions /\ NoPlan \notin Plans
  /\ NoResult \notin ResultIds
  /\ Keys \cap CompKeys = {} /\ CompOperation \notin Operations

\* The immutable columns of an actions row.
Bindings ==
  [key : Keys \cup CompKeys, op : Operations \cup {CompOperation},
   plan : Plans \cup {NoPlan}, compensable : BOOLEAN, of : Actions \cup {NoAction}]

ASSUME BindingAssumption == NoBinding \notin Bindings

VARIABLES
  status,    \* actions.status, "absent" before the row exists
  binding,   \* the immutable columns of the row
  approval,  \* actions.approval_evidence_ref: the plan whose evidence backs the grant
  grant,     \* the action_grants row; "expired" is unused and past expires_at
  intents,   \* number of action_outbox rows of the action
  receipt,   \* actions.receipt_ref, named by the result that carried it
  inbox      \* action_inbox: which action a result id was applied to

storeVars == <<status, binding, approval, grant, intents, receipt, inbox>>

Rows == {a \in Actions : status[a] # "absent"}

StoreTypeOK ==
  /\ status \in [Actions -> Statuses \cup {"absent"}]
  /\ binding \in [Actions -> Bindings \cup {NoBinding}]
  /\ \A a \in Rows : binding[a] \in Bindings
  /\ approval \in [Actions -> Plans \cup {NoPlan}]
  /\ grant \in [Actions -> {"none", "unused", "expired", "consumed"}]
  /\ intents \in [Actions -> Nat]
  /\ receipt \in [Actions -> ResultIds \cup {NoResult}]
  /\ inbox \in [ResultIds -> Actions \cup {NoAction}]

StoreInit ==
  /\ status = [a \in Actions |-> "absent"]
  /\ binding = [a \in Actions |-> NoBinding]
  /\ approval = [a \in Actions |-> NoPlan]
  /\ grant = [a \in Actions |-> "none"]
  /\ intents = [a \in Actions |-> 0]
  /\ receipt = [a \in Actions |-> NoResult]
  /\ inbox = [r \in ResultIds |-> NoAction]

-----------------------------------------------------------------------------
(* Conditions of the transactions.                                         *)

\* GetByIdempotencyKey: the rows holding key k (at most one, by the UNIQUE).
ByKey(k) == {a \in Rows : binding[a].key = k}

\* Faulty variant of UpdateAllowed: the lifecycle trigger is missing.
UpdateAllowed_NoTrigger(a, to, receiptAfter) == receiptAfter # NoResult => to \in ReceiptStatuses

\* What every UPDATE of an actions row passes: the guard_action_lifecycle
\* trigger, and the CHECK that a row with a receipt is succeeded or failed.
UpdateAllowed(a, to, receiptAfter) ==
  /\ canTransition(status[a], to)
  /\ receiptAfter # NoResult => to \in ReceiptStatuses

GrantAccepted(a) ==
  /\ grant[a] = "none"
  /\ status[a] \in {"requested", "awaiting_approval"}
  /\ UpdateAllowed(a, "granted", receipt[a])

DispatchAccepted(a) ==
  /\ status[a] = "granted"
  /\ grant[a] \in {"unused", "expired"}
  /\ UpdateAllowed(a, "dispatched", receipt[a])

TransitionAccepted(a, from, to) ==
  /\ status[a] = from
  /\ UpdateAllowed(a, to, receipt[a])

\* Faulty variant of IngestAccepted: no inbox dedup.
IngestAccepted_NoInbox(a, r, to) ==
  /\ status[a] \in {"executing", "dispatched", "reconciling"}
  /\ UpdateAllowed(a, to, r)

IngestAccepted(a, r, to) ==
  /\ inbox[r] = NoAction
  /\ status[a] \in {"executing", "dispatched", "reconciling"}
  /\ UpdateAllowed(a, to, r)

-----------------------------------------------------------------------------
(* The transactions.                                                       *)

\* InsertAction ... ON CONFLICT (tenant_ref, idempotency_key) DO NOTHING.
PutRequested(a, b, s) ==
  /\ status[a] = "absent"
  /\ ByKey(b.key) = {}
  /\ status' = [status EXCEPT ![a] = s]
  /\ binding' = [binding EXCEPT ![a] = b]
  /\ UNCHANGED <<approval, grant, intents, receipt, inbox>>

\* The grant row and the transition to granted, in one transaction.
StoreGrant(a, p) ==
  /\ GrantAccepted(a)
  /\ grant' = [grant EXCEPT ![a] = "unused"]
  /\ status' = [status EXCEPT ![a] = "granted"]
  /\ approval' = [approval EXCEPT ![a] = p]
  /\ UNCHANGED <<binding, intents, receipt, inbox>>

\* Faulty variant of StoreDispatch: the grant is not consumed.
StoreDispatch_KeepsGrant(a) ==
  /\ DispatchAccepted(a)
  /\ status' = [status EXCEPT ![a] = "dispatched"]
  /\ intents' = [intents EXCEPT ![a] = @ + 1]
  /\ UNCHANGED <<grant, binding, approval, receipt, inbox>>

\* Consuming the one-use grant and writing the outbox row, in one transaction.
\* ConsumeActionGrant tests consumed_at only, not expires_at, so an
\* expired grant is accepted as well.
StoreDispatch(a) ==
  /\ DispatchAccepted(a)
  /\ status' = [status EXCEPT ![a] = "dispatched"]
  /\ grant' = [grant EXCEPT ![a] = "consumed"]
  /\ intents' = [intents EXCEPT ![a] = @ + 1]
  /\ UNCHANGED <<binding, approval, receipt, inbox>>

\* TransitionAction: a compare-and-set on the status, no side rows.
StoreTransition(a, from, to) ==
  /\ TransitionAccepted(a, from, to)
  /\ status' = [status EXCEPT ![a] = to]
  /\ UNCHANGED <<binding, approval, grant, intents, receipt, inbox>>

\* The inbox row, the receipt and the completion, in one transaction.
IngestResult(a, r, to) ==
  /\ IngestAccepted(a, r, to)
  /\ inbox' = [inbox EXCEPT ![r] = a]
  /\ receipt' = [receipt EXCEPT ![a] = r]
  /\ status' = [status EXCEPT ![a] = to]
  /\ UNCHANGED <<binding, approval, grant, intents>>

\* Time passes expires_at of a grant that was never used (maxActionGrantTTL).
GrantExpires(a) ==
  /\ grant[a] = "unused"
  /\ grant' = [grant EXCEPT ![a] = "expired"]
  /\ UNCHANGED <<status, binding, approval, intents, receipt, inbox>>

\* The statuses Service.transition, Compensate and ResolveReconciliation move
\* a row to without side rows; the others are reached by Grant, Dispatch and
\* IngestResult only.
PlainTargets ==
  {"executing", "failed", "result_unknown", "reconciling", "compensating", "human_takeover"}

PutRequestedStep ==
  \E a \in Actions, b \in Bindings, s \in {"requested", "awaiting_approval"} : PutRequested(a, b, s)

StoreNext ==
  \/ PutRequestedStep
  \/ \E a \in Actions, p \in Plans \cup {NoPlan} : StoreGrant(a, p)
  \/ \E a \in Actions : StoreDispatch(a)
  \/ \E a \in Actions, from \in Statuses, to \in PlainTargets : StoreTransition(a, from, to)
  \/ \E a \in Actions, r \in ResultIds, to \in ReceiptStatuses : IngestResult(a, r, to)
  \/ \E a \in Actions : GrantExpires(a)

\* What the tables do under any caller that respects PlainTargets.
StoreSpec == StoreInit /\ [][StoreNext]_storeVars

-----------------------------------------------------------------------------
(* What the tables promise, whoever calls.                                 *)

\* Dispatch authority is one-use: a row has at most one outbox intent, exactly
\* when its only grant is consumed, so no action is dispatched twice however
\* Grant, Dispatch and Cancel calls interleave (PostgresStore.Dispatch).
OneUseDispatch ==
  \A a \in Actions : intents[a] = (IF grant[a] = "consumed" THEN 1 ELSE 0)

\* A connector result is applied to one action and an action has one result:
\* inbox rows and receipts pair up, and only a completed row holds a receipt
\* (PostgresStore.IngestResult rolls the inbox row back with the completion).
ResultAppliedOnce ==
  \A a \in Actions :
    /\ \A r \in ResultIds : inbox[r] = a <=> receipt[a] = r
    /\ receipt[a] # NoResult => status[a] \in ReceiptStatuses

\* "succeeded" is only ever reached with a receipt, and only after dispatch:
\* no plain transition, cancellation or reconciliation can assert success.
SuccessIsEvidenced ==
  \A a \in Actions :
    status[a] = "succeeded" => receipt[a] # NoResult /\ intents[a] = 1

\* The two tables agree about authority, though they are separate rows: no
\* grant before "granted", an unused one there, and a consumed one behind every
\* status that only a dispatch leads to (Grant and Dispatch write both rows).
GrantMatchesStatus ==
  \A a \in Actions :
    /\ status[a] \in {"absent", "requested", "awaiting_approval"} => grant[a] = "none"
    /\ status[a] = "granted" => grant[a] \in {"unused", "expired"}
    /\ status[a] \in {"dispatched", "executing", "result_unknown", "reconciling", "succeeded"} =>
         grant[a] = "consumed"

\* One logical Action per idempotency key, the compensation keys included.
OneActionPerKey ==
  \A a, b \in Rows : binding[a].key = binding[b].key => a = b
=============================================================================
