# AgentNexus in TLA+

AgentNexus is an enterprise gateway between agents and the systems they act on.
A caller is identified at ingress, a task is given grants on evidence, and an agent
asks for an *Action*; the gateway decides, records an audit lineage, mints one-use
authority, hands the Action to a connector through a durable outbox and a message
stream, and accepts a signed receipt of what happened. This directory models the
action plane and the identity, evidence, audit and connector planes around it,
checks them with TLC on small instances and proves their safety properties with
TLAPS for every instance.

Paths below are relative to `services/agentnexus/`, except those that begin with
`sdk/`.

## 1. Inventory

| Component | State | Operations | What is hard |
|---|---|---|---|
| Action state machine, `internal/actions/state_machine.go` | none | `canTransition`, `compensable` | the table against the handlers that use it |
| Action store, `internal/actions/postgres.go`, `db/migrations/000010` | actions, grants, outbox, inbox, receipts | `PutRequested`, `Grant`, `Dispatch`, `Transition`, `IngestResult` | several rows per transaction; CHECKs and triggers as second guards |
| Action service, `internal/actions/service.go`, `compensate.go`, `reconcile.go` | none of its own | request, grant, dispatch, mark executing, ingest, unknown, takeover, cancel, compensate, reconcile | reads without a lock, then audit, then commit; crashes in between; racing callers |
| Dispatch outbox, `internal/actions/outbox.go`, `recovery_pump.go`, `nats.go` | outbox rows, row locks, the stream | claim, publish, stamp, retry, dead letter | lost acknowledgements, crash between publish and stamp, starvation |
| Central worker, `internal/connectors/worker` | in-process ownership, the stream's pending intents | `ProcessDispatch`, `executeAndComplete`, `failUnresolvedBinding` | at-least-once delivery against an effect that must not repeat |
| Edge agent, `internal/connectors/agent` | journal, session, intake queue | the worker's, plus resume and rotation | restart with a journalled result; bounded intake |
| Connector host and runtime, `internal/connectors/host`, `runtime` | a supervisor's policy, goroutines, a process tree | `Run`, webhook, paged reads, process | an answer racing the wall clock; work that outlives its verdict |
| Secrets, `sdk/go/secretprovider`, `internal/secrets` | master versions, handles | acquire, redeem, rotate, revoke | single use under loss and rotation |
| Approval transport, `internal/approvaltransport` | transmissions, evidence | transmit, record, consume, revoke | evidence is consumed once, in its own transaction |
| Task orchestrator, `internal/tasks` | task runs, steps, checkpoints | start, append, wait, complete | read-then-write without compare-and-set |
| Step grants, `internal/tickets`, `internal/app/postgres_grants.go` | tickets, owners, grants, issuances | authorise, mint, verify | what was checked at ingress is stale at commit |
| Organisation and policy, `internal/iam`, `internal/policy` | live units, sealed versions, the feed | edit, publish, subscribe, evaluate | a snapshot taken by two statements; numbering and paging |
| Browser authentication, `internal/browserauth`, `internal/app/browser_auth.go` | login attempts, counters, codes, sessions, tokens | authorize, callback, exchange, use, logout | counters at their limit, one-use codes, sliding expiry, partial failure of a callback |
| Agent trust, `internal/agenttrust` | clients, certifications, status log | register, certify, revoke, assess | supersession racing revocation; a list older than the statuses |
| Trust context, `internal/trust` | none | resolve a request's identity | five kinds of credential, origins, tenants |
| Evidence vault, `internal/evidence` | registry, objects, handles, events | locate, read, revoke, sweep | staged content against a source that moves; ambiguous failures |
| Audit chain, `internal/audit`, `internal/app`, `sdk/go/audit` | rows, signing keys, checkpoints | append, export, checkpoint, verify | concurrent appends, revoked keys, lost tails |
| Handlers, commands, configuration, console, model router | none | translation and wiring | none |

How they interact: the middleware of `internal/trust` resolves every request; the
handlers of `internal/app` call the action service, the tickets, the evidence vault
and the audit chain. Step grants are decided on a sealed organisation version. The
action service calls the approval transport (to consume evidence), the audit chain
(a mandatory append before every write) and the store. `Dispatch` commits an outbox
row and publishes it to JetStream; the recovery pump of every replica publishes what
that left behind. Workers and edge agents pull the stream, run the connector in the
host, which redeems a secret handle, and call back into the service:
`MarkExecuting`, `IngestReceipt`, `MarkResultUnknown`.

`PROJECT.json` lists the hazards at their lines with the properties aimed at them.

## 2. Modules

| Module | Models | Extends |
|---|---|---|
| `ActionStates` | the frozen transition table | |
| `ActionStore` | the tables and their transactions | `ActionStates` |
| `ActionService` | concurrent callers of the service | `ActionStore` |
| `Outbox` | delivery of committed intents | |
| `ActionOutcome` | abstract: what the execution plane promises | |
| `ConnectorWorker` | worker processes over the tables, a refinement of `ActionOutcome` | `ActionStore` |
| `EdgeAgent` | one edge agent and its journal, a second refinement of `ActionOutcome` | `ActionStore` |
| `SecretProvider` | master versions and single-use handles | |
| `ConnectorHost` | `Supervisor.Run`, its adapters and families: what is behind the worker's `Run` | `SecretProvider` |
| `ApprovalRegistry` | abstract: what the approval transport promises | |
| `ApprovalTransport` | concurrent calls of the approval transport, a refinement of `ApprovalRegistry` | |
| `CapabilityPolicy` | the capability evaluator and its reference | |
| `CapabilityDecision` | the evaluator before one question of any snapshot | `CapabilityPolicy` |
| `OrgPolicy` | the live organisation, publication, the feed | `CapabilityPolicy` |
| `StepGrants` | grant requests and verification beside publication | `OrgPolicy` |
| `TaskRuns` | one task run under concurrent callers | |
| `LoginAttempts` | authorize, its limits, consumption of attempts | |
| `BrowserSessions` | sessions, codes, tokens, logout | `LoginAttempts` |
| `AgentTrust` | certification, supersession, revocation, assessment | |
| `TrustContext` | the resolver as a function of the request at the door, and its reference | |
| `Evidence` | registry, locate, read, revocation, sweep | |
| `Merkle`, `AuditChain` | the tree; the ledger, its export and verification | `Merkle` |
| `ActionStoreProofs`, `ActionServiceProofs` | theorems about the tables and their callers | `ActionStore`, `ActionService` |
| `DeliveryProofs` | theorems about the outbox and the approval transport | `Outbox`, `ApprovalTransport` |
| `ConnectorWorkerProofs` | theorems about the worker and the host | `ConnectorWorker`, `ConnectorHost` |
| `EdgeAgentProofs` | theorems about the edge agent | `EdgeAgent` |
| `GrantsProofs` | theorems about publication, grants, the capability decision and task runs | `StepGrants`, `CapabilityDecision`, `TaskRuns` |
| `IdentityProofs` | theorems about agent trust, sessions, login limits and ingress | `AgentTrust`, `BrowserSessions`, `TrustContext` |
| `EvidenceProofs` | theorems about the evidence vault, the audit ledger, its packages and the Merkle tree | `Evidence`, `AuditChain` |
| `MCActionService`, `MCConnectorWorker`, `MCEdgeAgent`, `MCApprovalTransport`, `MCGrants`, `MCIdentity`, `MCEvidence` | instances for TLC | |

An MC module with a variable `part` holds several instances that share no step: the
part is chosen in the initial state and never changes.

A definition whose name ends in `_Something` is a faulty variant of the definition
before the underscore. `PROJECT.json` pairs each property with one of them; under it
the property is violated.

### ActionStore

One variable per durable fact: `status` and `binding` (the mutable and the
immutable columns of `actions`), `approval` (`approval_evidence_ref`), `grant`
(the `action_grants` row; `expired` is an unused row past `expires_at`), `intents`
(number of `action_outbox` rows), `receipt` and `inbox`. Each transaction of
`PostgresStore` is one action, because it runs under the per-action advisory lock
and commits as a whole. What the SQL refuses is the `...Accepted` predicate of the
transaction; `UpdateAllowed` is the `guard_action_lifecycle` trigger together with
the CHECK that a row with a receipt is `succeeded` or `failed`. What a request
binds (capability, parameter hash, business context) is one opaque value,
`Operations`. Client idempotency keys are assumed not to begin with the reserved
`cmp:` prefix; the code does not enforce this.

### ActionService

A caller's request is a record in `call`: the operation, the row it read (`from`)
and what it will write (`to`). A handler is a start action (the read and the
guards), `appendAudit`, and a store step, so two handlers interleave at every
commit. `Abandon` ends a call between two commits: an unavailable audit sink or
store, a cancelled request or a dead replica are the same to the tables.
`ConsumeEvidence` is its own step because the approval transport commits it on
its own. `audits` keeps, per action, the `status_to` values of its audit events.
Refused calls return an error and are no step. A receipt that `verifyReceipt`
rejects and an untrusted principal are early returns too; `Trusted` names the
callers whose principal passes.

### Outbox

`claim` is the row lock (`FOR UPDATE SKIP LOCKED`) held across publish and stamp.
`Publish` has the three outcomes JetStream gives: acknowledged, taken with the
acknowledgement lost, not taken. `due` is the time a pass fixed when it began: the
drain compares `next_attempt_at` with it, not with the current time. Durations are
abstracted to waiting or due. `excuses` and `tried` are observations.

### ConnectorWorker

A handler walks through `ProcessDispatch` by `pc`; `seen` is the status it read,
`found` the outcome its receipt will carry, `inflight` the per-process ownership
set. A service call is one step at its commit, except `IngestReceipt`, whose read
and commit are two: in between the action may be flagged, reconciled or completed.
`Run` chooses whether the side effect happened: a success implies it did, a failure
or an uncertain result says nothing. `Operator` stands for takeovers, compensations
and reconcilers; a reconciler that asserts success has a receipt of a run that
happened. The model allows several deliveries at once in one process, more than
the sequential loop of `Worker.Run` does.

### EdgeAgent

The agent runs at the customer's edge: it pulls intents into a bounded queue
(`fetchInto`), walks `ProcessDispatch`, and reaches the central action plane only
by request and reply. A request is served at once, later or never: one under way sits
in `late` and is served whenever it arrives, whatever its caller has done meanwhile.
Its caller gets the reply, an error (`CallFails`), or nothing (`CallBlocks`):
`RemoteActionPlane.call` waits on the context of `Run` alone, so a caller whose reply
is lost stays in `blocked` until the connection is closed (`WaitEnds`) or the process
dies, and a serial loop waits with it. The journal
(`RecordReceipt`, `LoadReceipt` and the observations) survives a crash; the queue,
the ownership set and the handlers do not. `HandleRotation` is two steps, since it
flags what was in flight over the same lossy calls. `effects` and `yielded` are
observations: how often the connector ran, and which deliveries were acked because
another one was believed to own the action.

### ApprovalTransport

A plan has its transmission row (`tx`, `bound`), the count of its delivery
attempts, its one evidence record and the audit acts appended for it (`lineage`).
A call is read, audit append, transaction and, for transmit, the channel call and
its record; `Abandon` ends it between any two. The channel's answer may be an error
although the authority got the plan (`reached`). A transaction is one step: it runs
under the plan's advisory lock, and where two plans are involved (one approval ref
for both) the unique index makes the second insert wait for the first. Expiry only
refuses calls, so a clock would add no behaviour. The decision itself (approved,
denied or narrowed) is opaque here; `ActionService` is what reads it.

`ApprovalRegistry` states what the Grant handler relies on: a bound operation, one
decision, one consumption, none of them after a revocation. `ActionService` keeps
its own smaller copy of the evidence.

### ConnectorHost and SecretProvider

`Supervisor.Run` and the adapter goroutine it starts are separate: `runs[r]` holds
both, so an adapter goes on after `Run` stopped waiting, and `Select` may take the
deadline or an answer that arrived together with it. `DerivePolicy` and `checkAccess`
are guards on what the call asks for. A webhook's send may be taken with its reply
lost; a reader fetches page after page from a source that may move in between and that
need not name itself on every page, and reports the version of the first page that
does; a process has a tree in which descendants survive the child until the group is
killed. The child itself is not trusted to stop, only to report a verdict that was
true when it made it. Handles are minted by `AcquireHandle`, redeemed by the
adapter or the child, any number of times, while versions rotate and expire.

### OrgPolicy, CapabilityPolicy, StepGrants, TaskRuns

A publication is the session lock, `CreateOrgVersion`, two captures and the seal;
under REPEATABLE READ both captures see the snapshot of the first statement
(`SnapshotMembers`). A grant request reads the version at ingress, is authorised on
that sealed version, and is looked at again and recorded under the publication and
the audit lock; units, owners, tickets and versions change meanwhile. `audit` is the
part of the chain these requests write. `CapabilityPolicy` builds relation tuples
and walks the unit graph as the code does; `MeetsReference` says, by paths, what the
answer should be, cycles, missing parents and snapshots beyond `MaxSealedOrgUnits` or
`MaxSealedMemberships` included. Such a snapshot is refused where it is loaded
(`internal/app/postgres_authorization.go:132`, `:142`) and denied by the evaluator if it
gets that far (`internal/policy/capability.go:301`). The evaluator keeps nothing
between two requests, so `CapabilityDecision` has one variable, the request with the
snapshot it is answered from. `TaskRuns` begins with the run
`CreateTaskRun` wrote and has one step per statement.

### LoginAttempts and BrowserSessions

Every handler reads the time when a step begins and compares rows with it after it
may have waited, so `now` may be one tick old. Counters are rows by expiry; the
clean-up deletes a batch of the oldest. A session is named by the login that opened
it, a token by its code. The callback opens a session, audits it, then sets the
cookie; a failure after the session runs the clean-up, which is tried twice. Logout
by cookie revokes and audits in one transaction, logout by token in two. `answers` is
a history of what callers were told.

### AgentTrust and TrustContext

Issuing holds the product's advisory lock and a row lock for each revision it
supersedes; revoking holds only the row lock. An assessment walks a list it read
earlier and asks for each status separately. The resolver of
`TrustContext` keeps no state: its one variable is the request at the door.
`Middleware` and `ResolveBrowserRequest` are operators, compared for every small
request with a reference that says when one authentic credential was presented.

### Evidence

A locate stages, for each need, what the source answers, puts the sealed object,
appends the lineage and creates the handle; `LocateFails` may happen at any point and
leaves the clean-up, whose own steps may fail. A read looks at the handle, its
events, the binding, the object and the page in separate steps. `epoch` counts
invalidations, so that "current" can be said without trusting version numbers.
`MixUpFiles` exchanges two object files.

### AuditChain and Merkle

Digests and signatures are free terms: equal only if what was hashed or signed was
equal. A writer takes the lock, reads the two heads, appends and commits; a keyed
append derives its id from the key. Operators read the chain and the keys at
different times, build packages and checkpoints, and compare. `LoseTail` is a
restored database. `Damaged(p)` enumerates packages someone could have made of `p`.
`Level` and `Climb` are the loops of `MerkleRoot` and `MerkleProof` as functions of the
round; a level of one node is its own next one, so as many rounds as leaves suffice.

## 3. Runs

| Run | Instance | Shows |
|---|---|---|
| `lifecycle` | 2 callers, 2 actions, 2 keys, 1 shared plan, 1 result id, crashes, expiry; symmetry | `OneUseDispatch`, `ApprovalBacksOneGrant`, `ResultAppliedOnce`, `SuccessIsEvidenced`, `AuditPrecedesStatus`, `CompensationsAreSound`, `StatusFollowsEdges` |
| `outbox` | 2 pumps, 2 intents (the second healthy), 2 attempts, 1 crash, fairness | `DeliveriesAreTrue` (exclusive, true stamps, duplicates only by fault), `EveryIntentSettles`, `HealthyIntentsFlow` |
| `worker` | 2 processes with 3 handlers; 1 process alone, fairness; 1 call of the host | `ImplementsOutcome`, `VerdictsAreTrue`, `SoleWorkerSettles`; for the host `DeliveredOnce`, `HostIsSound`, `RunEndsForGood` |
| `edge` | 1 action, 1 handler in a loop or 2 at once, 2 needs (one detached), queue of 1, 1 fault, 1 rotation, 1 republished intent, fairness | `ImplementsOutcome`, `JournalAndCentreAgree`, `AckedIsObserved`, `JournaledReceiptLands` |
| `transport` | 2 calls, 2 plans, 2 operations, 1 shared ref, 2 decisions, 2 attempts per plan, crashes; symmetry | `OneDecisionPerRef`, `LineageExplainsRows`, `ImplementsRegistry` |
| `grants` | 2 publishers and a feed; 2 requests beside them; 2 callers of a task; every small snapshot, and flat ones beyond a limit; symmetry | `PublicationIsSound`, `GrantsAreSound`, `GrantFreshAtIssue`, `TerminalChangesAreStale`, `EvaluateMeetsReference` |
| `identity` | 2 requests and 2 browsers at limits 1 and 2; a session, its users and 1 access token; 2 administrators; every small request; symmetry | `LimitsHold`, `EndedStaysEnded`, `SessionsAreAccounted`, `OneActiveOnLinearLogs`, `TrustFollowsTheLog`, `IngressMeetsReference` |
| `evidence` | one locator and one reader in 3 settings; 2 writers of a ledger; 2 operators and 3 events | `ServedIsSound`, `HandlesAreSound`, `LedgerIsSound`, `NoTruthAfterRevocation`, `PackagesAreSound`, `TruncationIsTold` |
| `edge_orphan`, `compensate_completed`, `audit_vocabulary`, `webhook_deadline` | small | violated: see below |

Where a run checks a conjunction, its parts are named definitions with a comment
each; most include the module's type invariant.

Bounds. Two callers suffice for a race of a read with another caller's commit: a
handler reads once and commits at most twice. Two actions suffice for what one
approval, one key or one result id can do to another action, since those
properties relate pairs. Two pumps and a request race for a row; two intents give
an order and a row behind. Two attempts give a backoff and a dead letter. Three
handlers in two processes give siblings and a stranger. The fault bounds allow a
crash before and after the barrier and a failing dependency. At the edge one
handler is the loop of `Session.Run`, which a blocked call stops; two
handlers of one action give a redelivery that meets its predecessor, one late
request a call that outlives its caller, and a queue of one is full at once. In the
transport one ref for two plans is the only way two plans meet; two calls and two
attempts give a late confirmation. The host's source has three pages for a reader
that takes two, one retry is the limit, and an output may be below, at and above the
ceiling. Three version numbers and two edits let a publication be refused, overtaken
and cut between its captures; the evaluator is asked about every parent function on
up to three units, so cycles, missing parents and depth beyond `MaxSealedOrgDepth`
(two) all occur; a fourth unit and a third membership pass the sealed sizes, three and
two. Limits of one per browser and two in all are reached by two requests, and
a clean-up batch of one row leaves rows behind; three ticks pass every timeout. Two
revisions and two administrators give supersession against revocation and
assessment. Three names hold two needs and a continuation; a count of three with a
page of one gives a first, a middle and a last page. Four rows hold a chain with an
odd Merkle level, a checkpoint and a tail to lose; of the two bodies one is taken for
an outcome and one is not. Batches of up to four hashes are
compared by their roots (`MaxBatch`): three is the first length at which a node is
promoted, and four the one it could be mistaken for.

Symmetry. In each run with `SYMMETRY` the permuted sets occur in no `CHOOSE` whose
choice matters, no order and no temporal property with fairness: the temporal
properties there are step properties and a refinement, both symmetric.

Fairness. `Outbox`: `RecoveryPump.Run` never ends on an error, so a pump keeps
stepping; a claim's publish returns and its transaction ends unless the process
dies; time passes. Nothing is assumed of the dispatching request. `Healthy` names
intents the transport takes whenever they are published; nothing is assumed of the
others. `ConnectorWorker`: a process that runs goes on with its delivery, and the
stream redelivers an unacknowledged intent (strong fairness, as a handler is busy
in between). `ConnectorHost`: the supervisor's select is scheduled and the wall
clock runs out; nothing is assumed of an adapter, a connector or a caller.
`EdgeAgent`: the loop of `Session.Run` keeps polling and its handlers go on, and the
stream redelivers what is not acked. Nothing is assumed of a late request, a
rotation or an operator, nor of a call that gets no reply: no step of a blocked handler
is fair, and `JournaledReceiptLands` has as its premise that no handler stays blocked
(`CallsEnd`). The code does not keep that promise, the connection must. Faults are bounded, as liveness against an endless outage
is not promised.

`CHECK_DEADLOCK FALSE` is set where the system may come to rest: all actions
handed over, all intents acknowledged, all requests answered.

What the violated runs show:

* `compensate_completed`: `Compensate` commits the compensation first and then
  moves the original. For an original with a receipt the receipt CHECK refuses
  `compensating`; for one in `reconciling` the table has no such edge although
  `compensable` admits it. The call fails after the commit, and a retry returns
  the existing compensation early.
* `edge_orphan`: a `MarkExecuting` whose reply is lost is nakked. If its request is
  served after the redelivery has read `dispatched`, the second `MarkExecuting` is
  refused, reclassified as another owner's and acked; the action stays `executing`
  and nothing is delivered any more. No second process is needed.
* `audit_vocabulary`: the action transition's capability is signed into the chain
  without the verifier's outcome lint. `RequestAction` accepts `graph.read`; the
  verifier refuses the event, and with it the tenant's whole signed chain.
* `webhook_deadline`: a webhook whose reply is cut off by the deadline or a
  cancellation answers with a definite failure although the endpoint may have taken
  it, and the supervisor's select may take that answer.

What the models showed besides, and the runs take as the code's behaviour:

* `ConsumeActionGrant` tests `consumed_at` only, so an expired grant dispatches
  (`internal/actions/postgres.go:205`; `model.go:498` calls the in-process rule
  identical). `DispatchAccepted` admits it.
* A handler that loses `MarkExecuting` acks; if the winner in another process then
  crashes, the action stays `executing` (`dispatcher.go:123` against
  `worker.go:263`). `SoleWorkerSettles` is about one process for that reason.
* A failed receipt of a binding that is permanently unresolvable in one process may
  complete an action another process resolved and ran (`dispatcher.go:181`).
* A completed task run is changed by a call that read it before
  (`internal/tasks/orchestrator.go:158`); `TerminalChangesAreStale` bounds this.
* An edge agent's call whose reply is lost may wait for ever, and its loop with it:
  `RemoteActionPlane` stores a timeout (`connectors/agent/nats_client.go:115`) that `call`
  (`:118`) never applies, although `DefaultActionPlaneTimeout` "bounds one ActionPlane
  request/reply round trip" (`:71`) and the context of `Run` has no deadline.
  `JournaledReceiptLands` without its premise is violated.
* A read whose first pages name no source takes the version of the first page that does
  (`runtime/host_adapter.go:427`), which may be newer than the pages before it;
  `ReadIsSound` bounds the version by the pages that name their source only.
* A paged read ends silently at `maxPages` (`runtime/host_adapter.go:394`);
  `ReadIsSound` admits that prefix.
* A descendant that leaves its process group escapes `terminate` on Unix; the model
  keeps it in the group.
* A webhook's idempotency key does not depend on the payload
  (`runtime/webhook.go:153`), and `stagingFields` ignores an explicitly empty
  allow-list when fields are named; neither payloads nor that pair are modelled.
* An object put before its handle was created, by a locate that crashed, is never
  swept, and never readable.
* A data class registered again with another authority keeps its version, so content
  staged before is attested with the new authority (`evidence/observation.go:34`).
* A rejection at ingress before a principal is known has no tenant to be audited
  under (`internal/app/browser_auth.go:229`).

## 4. Proofs

Every theorem holds for any sets the constants name and any bounds, and is about the
specification its own module states: `StoreSpec`, `Spec` (service, worker, edge agent,
transport), `OutboxSpec`, `HostSpec`, `GrantSpec`, `TaskSpec`, `DecisionSpec`,
`TrustSpec`, `SessionsSpec`, `IngressSpec`, `EvidenceSpec` and `AuditSpec`. The MC
modules run the same actions, several components side by side and with some bounds of
their own; `SessionsSpec` is the composition of logins and sessions in which both may
be under way at once, with a fresh state for every attempt. The proofs need nothing of the system but the `ASSUME`s
of the modules, which TLC evaluates in every run:

| Assumption | Says |
|---|---|
| `StoreAssumption`, `BindingAssumption`, `ServiceAssumption` | null values lie outside their sets, compensation keys differ from client keys |
| `WorkerAssumption`, `EdgeAssumption` | dispatch references are unique and no reconciliation has one of them as its id; needs are numbered, the detached ones among them |
| `OutboxAssumption`, `PumpAssumption`, `TransportAssumption` | there is at least one attempt; pumps are not requests; null values |
| `HostAssumption`, `SecretAssumption` | families, page bounds and the values of a pinned pack are of their types |
| `PolicyAssumption`, `OrgAssumption`, `GrantAssumption`, `IdsAssumption` | a positive walk limit, sealed sizes that are natural numbers; bounds are natural numbers; null values; the empty id is no unit's |
| `TrustAssumption`, `TimeoutsValid`, `LimitsValid`, `SourcesKnown` | timeouts and limits are natural numbers; nobody is not an administrator or a request; a configured scheme is a known one |
| `EvidenceBounds`, `AuditAssumption` | bounds are natural numbers; no key is a signer's and a request's, and the forger's key is not pinned; null values |

### What is proved, and along which argument

No property listed under section 3 is inductive. Each proof states what holds between
its steps as well, and above all what a caller still knows of what it read. The
invariants were first checked by TLC on the instances of the runs.

`ActionStoreProofs`. `StoreInv` joins the promises of the tables: a second dispatch is
excluded because `granted` implies an unused grant and every later status a consumed
one; a result is paired with one row because a live row has no receipt.

`ActionServiceProofs`. `ServiceInv` adds what calls in flight hold: a Grant past its
consumption owns the plan it consumed, no other call or row holds that plan, and its
evidence approves the bound operation. `ServiceImplementsStore` shows that every step
is a store step or leaves the tables alone, so the store's theorems carry over.
`ServiceApprovalBacksOneGrant` needs `ServiceInv`; `ServiceAuditPrecedesStatus` needs
`LineageInv`: a call at its store step has its audit row, and a row never goes.
`ServiceCompensationsAreSound` follows from unique compensation keys: the key of a
compensation names its original, so the second insert is refused.

`DeliveryProofs`. `OutboxInv` rests on the row lock: from claim to release a row is
pending and nobody else's, so what the claimer knows of the publish is true when it
stamps. A copy beyond the first is paired with the crash or lost acknowledgement that
excuses it. `TransportInv` says that rows are whole and what a call knows at its next
step: its act is in the lineage, the row it found is there, a confirmation in hand is
true. A call is never trusted to know the status it read, which is why the transaction
reads it again.

`ConnectorWorkerProofs`. `WorkerInv`: a handler past the barrier is the only one
there for its action, the action has left `dispatched`, and its effect has not run
before `Run`. `WorkerImplementsOutcome` is the refinement of `ActionOutcome`. `HostInv`
follows one run through its supervisor, the adapter that may outlive it and its
process tree: how far the adapter has come bounds what it may have written, what has
been read is a prefix of the pages with versions in their order, so the first page that
names its source has the oldest version of those that do (`ReportedIsFirst`), and a handle is redeemed by the run that acquired
it. `HostDeliversOnce` and `HostSoundness` follow; `HostDefiniteIsFinal` is the safety
half of `RunEndsForGood`.

`EdgeAgentProofs`. The in-flight set plays no part, since a rotation empties it under
a running handler. `EdgeInv` rests on the barrier, and on the journal being written
first: only the one handler that won the barrier writes a receipt, every request that
carries an outcome, also one served late, was journaled before, and a success is never
left. The status a handler read may be old, but what it rules out stays ruled out.
`EdgeImplementsOutcome` is the second refinement of `ActionOutcome`.

`GrantsProofs`. Whoever holds the publication lock is alone with the head and the
registered owner, whoever holds the audit lock with the end of the chain; sealing only
adds versions, so what was true of a sealed version stays true. `GrantInv` says, for
each step of a request, what it rechecked under which lock. The feed's page is shown
to be gap-free by counting, as an injection of the page into the versions it spans.
`CompletionIsFinal` needs of a task run only what its callers read (`TaskInv`).
`DecisionIsExact` is about the evaluator as a function, for any finite snapshot: one
beyond the sealed sizes is refused, and within them the graph decides. A walk
up the units that ends in time is the least set closed under parents; every walk ends
in time exactly when the units are a forest, since a walk that goes on meets a unit
twice, which is a cycle, or more units than a forest of that depth has above one; and a
tuple of one permission or unit never answers for another.

`IdentityProofs`. `TrustInv`: what a caller read of a log it has locked is the end of
that log when it appends, and the one that appends an active status under the
product's lock has superseded every other. Sessions have no lock. `SessionInv` holds
because a request commits before the clock has moved twice since it read it, because a
session lives for `IdleTimeout` at least and a slide only moves its end past the
clock, and because the name of a consumed attempt becomes the name of one session.
`LimitInv` rests on the lock of the scope: what the creator that holds it counted
covers what lives until it commits; every counter is exact, for the present and every
expiry to come, and the row of a window has counted what it admitted. Sums over
counters are bounded by injections (`SumCovers`), not by induction over their rows.
`IngressIsExact` is about the resolver as a function, for requests with any number of
credentials and origins: `ResolveMeets` reduces a request to the one credential it
presents, and `OriginOnlyLowersCapability` compares it with its silent twin.

`EvidenceProofs`. The vault has no lock that spans a locate or a read. `EvidenceInv`:
a version that is current, of a source that is not deleted, names the content of the
present epoch; names are fresh, so only the locate that put an object makes handles
for it; handles that share an object share its deadline. For the ledger, `AuditInv`:
the row a writer built is the one it would still build when it inserts it; a row knows
its own number, links and key; the signed rows are numbered without a gap, so the
listed chain is the rows by number (`Chained`, by a bijection); what a command has
read the chain still has, unless rows were lost.

The Merkle tree is a function of the batch, and what is proved of it holds for every
batch. `WitnessIsExact`: at each level, a value and the siblings collected so far amount
to the node on the way to the root exactly if the value is the leaf's. `RootIsExact`: a
root determines its batch, of whatever length. The two trees are built equally high, so
that both end in the root, and compared from the top down. A level is `Full`: every node
but the last is exactly as deep as the level is high, and the last no deeper. A promoted
node is therefore never mistaken for one hashed of two, and a level is known, its length
included, from the level above (`KnownFromAbove`).

`PackageInv` says that a package is the bundle of a chain as it was appended. A whole
chain verifies with the keys of every signer exactly if no word of its events is taken
for an outcome (`WholeVerifies`), hence `LedgerSoundness` for the listed chain and
`PackagesVerify`. Neither supposes anything of the vocabulary: that the code admits
such words, and what follows, is what the run `audit_vocabulary` shows.
For `DamageIsDetected`, the signature of the batch is over its root: events rebuilt
under it have the hashes they had, a hash determines its event, and what is left is the
package itself. A key nobody pinned resolves under no name.

Where an argument would go by induction over data, it takes a least counterexample
instead (`LeastNatural`, from the well-foundedness of the natural numbers).

Theorems about definitions no run lists, because a stronger one is checked:
`StoreInv`, the other invariants and type invariants, `OneActionPerKey`,
`AtMostOneExecution` (implied by `ImplementsOutcome`), `DeliveredIsTrue`,
`StatusNeverRegresses` and `DefiniteIsFinal`; `MerkleIsExact` and `DamageSoundness`,
which are parts of `PackagesAreSound`.

### What is only model-checked

* `EveryIntentSettles`, `HealthyIntentsFlow`, `SoleWorkerSettles`,
  `JournaledReceiptLands` and the liveness half of `RunEndsForGood`: fairness and
  `ENABLED` are out of the prover's reach.
* The violated properties, which are findings.

## 5. Plan

Done: all modules, and the safety properties of every component as theorems.

Next, in this order:

1. Operators: `StagingFields` and `ProjectRecords` for every pair of field lists,
   `RegisteredSigningKeys` with keys that were registered twice.
2. Composition of `ActionService` with `ApprovalRegistry` in place of its own copy of
   the evidence, with the refinement of the transport carrying it over, and of the host
   with the worker's `Run`.
3. The edge agent's registration and self-update; `IssueCaseTicket`; the directory
   import and its reconciliation.

## 6. Not modelled

Cryptography (receipt and evidence signatures are accepted or not; hashes are free
terms), the contents of payloads, bindings and policies, HTTP, configuration, the
console, the container adapter (it builds a specification for another program), the
Windows job object, the model router, the conversation front end, the directory
import, and the in-process memory stores used by tests. Text lengths are left out, so
is the difference between runes and bytes in the bounds of an Idempotency-Key.
`PROJECT.json` gives the reason for each component.
