------------------------------ MODULE EdgeAgent ------------------------------
(***************************************************************************)
(* The outbound connector agent at the customer edge                       *)
(* (internal/connectors/agent): it pulls dispatch intents into a bounded   *)
(* queue, executes them on the local host and resumes after a disconnect   *)
(* from a durable edge journal, over the tables of ActionStore.            *)
(*                                                                         *)
(* The central action plane is reached by request and reply.  A call may   *)
(* fail for the agent, or lose its reply and keep its caller waiting: no   *)
(* timeout is applied to it.  Either way its request may have been served, *)
(* or be served later: it waits in "late".  The calls are atomic at the    *)
(* centre; ActionService covers their inside.                              *)
(***************************************************************************)
EXTENDS ActionStore, Sequences

CONSTANTS
  Processes,     \* agent processes sharing the durable consumer
  Handlers,      \* goroutines in ProcessDispatch
  ProcessOf,     \* the process of a handler
  DispatchRef,   \* the dispatch ref of an action, its result id in the inbox
  Bound,         \* the immutable columns of the dispatched actions
  NeedCount,     \* how many VerificationNeeds an action declares
  Detached,      \* the needs no producer can observe (ErrObservationRejected)
  StalePackage,  \* whether a resolution can find a stale package
  QueueBound,    \* capacity of the intake queue
  MaxFaults,     \* bound on failed calls and crashes in a behaviour
  MaxRotations,  \* bound on accepted rotations of the TLS material
  MaxDuplicates  \* bound on republished intents

Needs == 1..NeedCount

ASSUME EdgeAssumption ==
  /\ ProcessOf \in [Handlers -> Processes]
  /\ DispatchRef \in [Actions -> Results]
  /\ \A a, b \in Actions : DispatchRef[a] = DispatchRef[b] => a = b
  /\ \A a, b \in Actions : DispatchRef[a] # ReconcileId(b)  \* "dsp_", "reconcile:"
  /\ Bound \in [Actions -> Bindings]
  /\ \A a, b \in Actions : Bound[a].key = Bound[b].key => a = b
  /\ NeedCount \in Nat /\ Detached \subseteq Needs
  /\ StalePackage \in BOOLEAN /\ QueueBound \in Nat \ {0}
  /\ MaxFaults \in Nat /\ MaxRotations \in Nat /\ MaxDuplicates \in Nat

VARIABLES
  unacked,    \* intents the stream still has to deliver
  queue,      \* per process, the intakeQueue of pulled deliveries
  pc,         \* per handler, the next step of ProcessDispatch
  job,        \* per handler, the action of its delivery
  seen,       \* per handler, the status GetAction returned
  found,      \* per handler, the outcome its receipt carries
  at,         \* per handler, the loop index of driveObservations
  deferred,   \* per handler, whether driveObservations has a transientErr
  inflight,   \* per process, the action refs its inflightSet holds
  blocked,    \* the handlers whose call to the action plane gets no reply
  rotating,   \* per process, the refs HandleRotation still has to flag
  journal,    \* per process, the EdgeJournal's receipt of an action
  observed,   \* per process, the EdgeJournal's observations of an action
  late,       \* requests to the action plane whose caller gave up
  effects,    \* how often the side effect of an action ran (observation)
  yielded,    \* actions acked by an attempt that did not decide them (observation)
  faults, rotations, duplicates

handlerVars == <<pc, job, seen, found, at, deferred, inflight, blocked>>
journalVars == <<journal, observed>>
ghostVars == <<effects, yielded>>
boundVars == <<faults, rotations, duplicates>>
vars == <<storeVars, unacked, queue, handlerVars, rotating, journalVars, late,
          ghostVars, boundVars>>

Steps ==
  {"idle", "classify", "resolve", "barrier", "run", "record", "load", "ingest",
   "flag", "observe", "produce"}

\* What a request asks for: the two transitions, or a receipt with its outcome.
Methods == {"mark_executing", "mark_result_unknown"} \cup ReceiptStatuses

TypeOK ==
  /\ StoreTypeOK
  /\ unacked \in [Actions -> BOOLEAN]
  /\ queue \in [Processes -> Seq(Actions)]
  /\ \A p \in Processes : Len(queue[p]) <= QueueBound
  /\ pc \in [Handlers -> Steps]
  /\ job \in [Handlers -> Actions \cup {NoAction}]
  /\ seen \in [Handlers -> Statuses \cup {"absent"}]
  /\ found \in [Handlers -> {"none"} \cup ReceiptStatuses]
  /\ at \in [Handlers -> 1..(NeedCount + 1)]
  /\ deferred \in [Handlers -> BOOLEAN]
  /\ inflight \in [Processes -> SUBSET Actions]
  /\ blocked \subseteq Handlers
  /\ rotating \in [Processes -> SUBSET Actions]
  /\ journal \in [Processes -> [Actions -> {"none"} \cup ReceiptStatuses]]
  /\ observed \in [Processes -> [Actions -> SUBSET Needs]]
  /\ late \subseteq Actions \X Methods
  /\ effects \in [Actions -> Nat]
  /\ yielded \subseteq Actions
  /\ faults \in 0..MaxFaults /\ rotations \in 0..MaxRotations
  /\ duplicates \in 0..MaxDuplicates

\* Every action has just been dispatched and its intent published.
Init ==
  /\ status = [a \in Actions |-> "dispatched"]
  /\ binding = Bound
  /\ approval = [a \in Actions |-> Bound[a].plan]
  /\ grant = [a \in Actions |-> "consumed"]
  /\ intents = [a \in Actions |-> 1]
  /\ receipt = [a \in Actions |-> NoResult]
  /\ inbox = [r \in ResultIds |-> NoAction]
  /\ unacked = [a \in Actions |-> TRUE]
  /\ queue = [p \in Processes |-> <<>>]
  /\ pc = [h \in Handlers |-> "idle"]
  /\ job = [h \in Handlers |-> NoAction]
  /\ seen = [h \in Handlers |-> "absent"]
  /\ found = [h \in Handlers |-> "none"]
  /\ at = [h \in Handlers |-> 1]
  /\ deferred = [h \in Handlers |-> FALSE]
  /\ inflight = [p \in Processes |-> {}]
  /\ blocked = {}
  /\ rotating = [p \in Processes |-> {}]
  /\ journal = [p \in Processes |-> [a \in Actions |-> "none"]]
  /\ observed = [p \in Processes |-> [a \in Actions |-> {}]]
  /\ late = {}
  /\ effects = [a \in Actions |-> 0]
  /\ yielded = {}
  /\ faults = 0 /\ rotations = 0 /\ duplicates = 0

-----------------------------------------------------------------------------
(* How a handler goes on, or ends.                                         *)

Goto(h, step) ==
  /\ pc' = [pc EXCEPT ![h] = step]
  /\ UNCHANGED <<unacked, job, seen, found, at, deferred, inflight, blocked, yielded>>

\* The handler deferred a release: it acquired the action, as every branch
\* but resumeExecuting does.
Owning(h) == pc[h] \notin {"idle", "classify"} /\ seen[h] # "executing"

\* ProcessDispatch returns.  The release drops the ref whoever holds it now.
Return(h) ==
  /\ pc' = [pc EXCEPT ![h] = "idle"]
  /\ job' = [job EXCEPT ![h] = NoAction]
  /\ seen' = [seen EXCEPT ![h] = "absent"]
  /\ found' = [found EXCEPT ![h] = "none"]
  /\ at' = [at EXCEPT ![h] = 1]
  /\ deferred' = [deferred EXCEPT ![h] = FALSE]
  /\ inflight' = IF Owning(h) THEN [inflight EXCEPT ![ProcessOf[h]] = @ \ {job[h]}] ELSE inflight
  /\ blocked' = blocked \ {h}

\* handleDelivery: every decided outcome acks, a transient error naks.
Acks(h) == Return(h) /\ unacked' = [unacked EXCEPT ![job[h]] = FALSE]
Ack(h) == Acks(h) /\ UNCHANGED yielded
Nak(h) == Return(h) /\ UNCHANGED <<unacked, yielded>>

\* OutcomeSkipped, OutcomeDeduped or OutcomeRejected of an attempt that leaves
\* the action to another one.
Yield(h) == Acks(h) /\ yielded' = yielded \cup {job[h]}

Fault == faults < MaxFaults /\ faults' = faults + 1 /\ UNCHANGED <<rotations, duplicates>>
NoFault == UNCHANGED boundVars

-----------------------------------------------------------------------------
(* The action plane, as the central responder serves it.                   *)

\* IngestReceipt accepts a receipt for an action that is not completed yet.
Ingestible(a, to) ==
  status[a] \in {"executing", "dispatched"} /\ IngestAccepted(a, DispatchRef[a], to)

\* IngestReceipt finds this dispatch ref in the inbox of a completed action.
Duplicate(a) == status[a] \in ReceiptStatuses /\ inbox[DispatchRef[a]] # NoAction

\* serveOne: one method, by one store transaction; a refused one changes nothing.
Serve(a, m) ==
  \/ /\ m = "mark_executing" /\ StoreTransition(a, "dispatched", "executing")
  \/ /\ m = "mark_result_unknown" /\ StoreTransition(a, status[a], "result_unknown")
  \/ /\ m \in ReceiptStatuses /\ Ingestible(a, m) /\ IngestResult(a, DispatchRef[a], m)

Served(a, m) ==
  \/ m = "mark_executing" /\ TransitionAccepted(a, "dispatched", "executing")
  \/ m = "mark_result_unknown" /\ TransitionAccepted(a, status[a], "result_unknown")
  \/ m \in ReceiptStatuses /\ Ingestible(a, m)

\* The responder serves a request nobody waits for any more.
ServeLate(a, m) ==
  /\ <<a, m>> \in late
  /\ late' = late \ {<<a, m>>}
  /\ IF Served(a, m) THEN Serve(a, m) ELSE UNCHANGED storeVars
  /\ UNCHANGED <<unacked, queue, handlerVars, rotating, journalVars, ghostVars, boundVars>>

-----------------------------------------------------------------------------
(* Intake: Session.Run, fetchInto and the bounded queue.                   *)

\* Fetch brings owed intents, at most as many as the queue has room for.  The
\* stream may redeliver one that is still queued or being handled.
FetchInto(p, a) ==
  /\ unacked[a]
  /\ Len(queue[p]) < QueueBound
  /\ queue' = [queue EXCEPT ![p] = Append(@, a)]
  /\ UNCHANGED <<storeVars, unacked, handlerVars, rotating, journalVars, late, ghostVars, boundVars>>

\* poll, and the GetAction of ProcessDispatch.  The intents modelled pass
\* ValidateBinding and the pin; one that does not is acked without a step.
Poll(h) ==
  LET p == ProcessOf[h]
      a == Head(queue[p])
  IN  /\ pc[h] = "idle" /\ queue[p] # <<>>
      /\ queue' = [queue EXCEPT ![p] = Tail(@)]
      /\ pc' = [pc EXCEPT ![h] = "classify"]
      /\ job' = [job EXCEPT ![h] = a]
      /\ seen' = [seen EXCEPT ![h] = status[a]]
      /\ UNCHANGED <<storeVars, unacked, found, at, deferred, inflight, blocked, rotating,
                     journalVars, late, ghostVars, boundVars>>

-----------------------------------------------------------------------------
(* ProcessDispatch.                                                        *)

\* acquire, and the branch that follows it.
Acquire(h, step) ==
  /\ inflight' = [inflight EXCEPT ![ProcessOf[h]] = @ \cup {job[h]}]
  /\ pc' = [pc EXCEPT ![h] = step]
  /\ UNCHANGED <<unacked, job, seen, found, at, deferred, blocked, yielded>>

\* Faulty variant of Classify: an executing action is always somebody else's.
Classify_Skips(h) ==
  LET busy == job[h] \in inflight[ProcessOf[h]]
  IN  /\ pc[h] = "classify"
      /\ \/ seen[h] = "dispatched" /\ ~busy /\ Acquire(h, "resolve")
         \/ seen[h] = "succeeded" /\ ~busy /\ Acquire(h, "observe")
         \/ seen[h] \in {"dispatched", "succeeded"} /\ busy /\ Yield(h)
         \/ seen[h] \notin {"dispatched", "succeeded"} /\ Ack(h)
      /\ UNCHANGED <<storeVars, queue, rotating, journalVars, late, effects>> /\ NoFault

\* The switch on the status read.  An executing action nobody here owns was
\* left by an earlier attempt and is resumed, without taking ownership.
Classify(h) ==
  LET busy == job[h] \in inflight[ProcessOf[h]]
  IN  /\ pc[h] = "classify"
      /\ \/ seen[h] = "dispatched" /\ ~busy /\ Acquire(h, "resolve")
         \/ seen[h] = "succeeded" /\ ~busy /\ Acquire(h, "observe")
         \/ seen[h] = "executing" /\ ~busy /\ Goto(h, "load")
         \/ seen[h] \in {"dispatched", "succeeded", "executing"} /\ busy /\ Yield(h)
         \/ seen[h] \notin {"dispatched", "succeeded", "executing"} /\ Ack(h)
      /\ UNCHANGED <<storeVars, queue, rotating, journalVars, late, effects>> /\ NoFault

\* The private binding resolves, or its package is stale: a permanent refusal
\* that leaves the action dispatched.
Resolve(h) ==
  /\ pc[h] = "resolve"
  /\ \/ Goto(h, "barrier")
     \/ StalePackage /\ Yield(h)
  /\ UNCHANGED <<storeVars, queue, rotating, journalVars, late, effects>> /\ NoFault

\* MarkExecuting, the durable barrier; losing it is reclassified and acked.
Barrier(h) ==
  /\ pc[h] = "barrier"
  /\ IF Served(job[h], "mark_executing")
     THEN Serve(job[h], "mark_executing") /\ Goto(h, "run")
     ELSE Yield(h) /\ UNCHANGED storeVars
  /\ UNCHANGED <<queue, rotating, journalVars, late, effects>> /\ NoFault

\* The handler knows its outcome and goes on with a receipt of it.
WithReceipt(h, outcome, step) ==
  /\ pc' = [pc EXCEPT ![h] = step]
  /\ found' = [found EXCEPT ![h] = outcome]
  /\ UNCHANGED <<unacked, job, seen, at, deferred, inflight, blocked, yielded>>

\* Faulty variant of Run: the receipt is applied before it is journaled.
Run_SkipsJournal(h) ==
  /\ pc[h] = "run"
  /\ \E outcome \in ReceiptStatuses :
       /\ effects' = [effects EXCEPT ![job[h]] = @ + 1]
       /\ WithReceipt(h, outcome, "ingest")
  /\ UNCHANGED <<storeVars, queue, rotating, journalVars, late>> /\ NoFault

\* runOnHost and BuildSignedActionReceipt: a succeeded run had its effect, a
\* failed one may have had it; an uncertain result, or one that cannot be
\* signed, has no receipt.
Run(h) ==
  /\ pc[h] = "run"
  /\ \E ran \in BOOLEAN, outcome \in ReceiptStatuses \cup {"uncertain"} :
       /\ outcome = "succeeded" => ran
       /\ effects' = IF ran THEN [effects EXCEPT ![job[h]] = @ + 1] ELSE effects
       /\ IF outcome = "uncertain" THEN Goto(h, "flag") ELSE WithReceipt(h, outcome, "record")
  /\ UNCHANGED <<storeVars, queue, rotating, journalVars, late>> /\ NoFault

\* RecordReceipt, before the central apply.
RecordReceipt(h) ==
  /\ pc[h] = "record"
  /\ journal' = [journal EXCEPT ![ProcessOf[h]][job[h]] = found[h]]
  /\ Goto(h, "ingest")
  /\ UNCHANGED <<storeVars, queue, rotating, observed, late, effects>> /\ NoFault

\* Faulty variant of LoadReceipt: without a receipt the connector runs again.
LoadReceipt_Reruns(h) ==
  LET r == journal[ProcessOf[h]][job[h]]
  IN  /\ pc[h] = "load"
      /\ IF r = "none" THEN Goto(h, "run") ELSE WithReceipt(h, r, "ingest")
      /\ UNCHANGED <<storeVars, queue, rotating, journalVars, late, effects>> /\ NoFault

\* resumeExecuting: the journaled receipt is applied again, and without one the
\* outcome is unknown.
LoadReceipt(h) ==
  LET r == journal[ProcessOf[h]][job[h]]
  IN  /\ pc[h] = "load"
      /\ IF r = "none" THEN Goto(h, "flag") ELSE WithReceipt(h, r, "ingest")
      /\ UNCHANGED <<storeVars, queue, rotating, journalVars, late, effects>> /\ NoFault

\* A succeeded action is observed, anything else acked.
AfterIngest(h, final) == IF final = "succeeded" THEN Goto(h, "observe") ELSE Ack(h)

\* IngestReceipt: applied, a duplicate, or forbidden and reclassified.
Ingest(h) ==
  LET a == job[h]
  IN  /\ pc[h] = "ingest"
      /\ \/ Served(a, found[h]) /\ Serve(a, found[h]) /\ AfterIngest(h, found[h])
         \/ Duplicate(a) /\ AfterIngest(h, status[a]) /\ UNCHANGED storeVars
         \/ ~Served(a, found[h]) /\ ~Duplicate(a) /\ Yield(h) /\ UNCHANGED storeVars
      /\ UNCHANGED <<queue, rotating, journalVars, late, effects>> /\ NoFault

\* flagResultUnknown; an action that moved on meanwhile is left alone.
Flag(h) ==
  /\ pc[h] = "flag"
  /\ IF Served(job[h], "mark_result_unknown")
     THEN Serve(job[h], "mark_result_unknown") /\ Ack(h)
     ELSE Yield(h) /\ UNCHANGED storeVars
  /\ UNCHANGED <<queue, rotating, journalVars, late, effects>> /\ NoFault

-----------------------------------------------------------------------------
(* driveObservations, one need after the other.                            *)

\* The loop goes on with the next need.
NextNeed(h, failed) ==
  /\ pc' = [pc EXCEPT ![h] = "observe"]
  /\ at' = [at EXCEPT ![h] = @ + 1]
  /\ deferred' = [deferred EXCEPT ![h] = @ \/ failed]
  /\ UNCHANGED <<unacked, job, seen, found, inflight, blocked, yielded>>

\* Faulty variant of Observe: the intent is acked with needs still deferred.
Observe_Forgets(h) ==
  /\ pc[h] = "observe"
  /\ \/ at[h] > NeedCount /\ Ack(h)
     \/ at[h] \in observed[ProcessOf[h]][job[h]] /\ NextNeed(h, FALSE)
     \/ at[h] \in Needs \ observed[ProcessOf[h]][job[h]] /\ Goto(h, "produce")
  /\ UNCHANGED <<storeVars, queue, rotating, journalVars, late, effects>> /\ NoFault

\* A journaled need is loaded, another one produced; at the end a deferred need
\* keeps the intent owed.
Observe(h) ==
  /\ pc[h] = "observe"
  /\ \/ at[h] > NeedCount /\ deferred[h] /\ Nak(h)
     \/ at[h] > NeedCount /\ ~deferred[h] /\ Ack(h)
     \/ at[h] \in observed[ProcessOf[h]][job[h]] /\ NextNeed(h, FALSE)
     \/ at[h] \in Needs \ observed[ProcessOf[h]][job[h]] /\ Goto(h, "produce")
  /\ UNCHANGED <<storeVars, queue, rotating, journalVars, late, effects>> /\ NoFault

\* ProduceObservation and RecordObservation; a detached need is surfaced as an
\* error and never journaled.
Produce(h) ==
  /\ pc[h] = "produce"
  /\ observed' = IF at[h] \in Detached THEN observed
                 ELSE [observed EXCEPT ![ProcessOf[h]][job[h]] = @ \cup {at[h]}]
  /\ NextNeed(h, FALSE)
  /\ UNCHANGED <<storeVars, queue, rotating, journal, late, effects>> /\ NoFault

-----------------------------------------------------------------------------
(* Failures, rotation and the environment.                                 *)

\* The request a step sends to the action plane, if it sends one.
Request(h) ==
  CASE pc[h] = "barrier" -> {<<job[h], "mark_executing">>}
    [] pc[h] = "flag" -> {<<job[h], "mark_result_unknown">>}
    [] pc[h] = "ingest" -> {<<job[h], found[h]>>}
    [] OTHER -> {}

\* GetAction, the resolver, the journal or the action plane fails for the
\* agent: the intent is nakked.  Its request may still be served.
CallFails(h) ==
  /\ Fault
  /\ pc[h] \in {"classify", "resolve", "barrier", "load", "flag", "ingest"} /\ h \notin blocked
  /\ \E sent \in SUBSET Request(h) : late' = late \cup sent
  /\ Nak(h)
  /\ UNCHANGED <<storeVars, queue, rotating, journalVars, effects>>

\* RemoteActionPlane.call gets no reply.  It waits on the context of Run, which
\* has no deadline; its own timeout field is never applied.
CallBlocks(h) ==
  /\ Fault
  /\ pc[h] \in {"classify", "barrier", "flag", "ingest"} /\ h \notin blocked
  /\ \E sent \in SUBSET Request(h) : late' = late \cup sent
  /\ blocked' = blocked \cup {h}
  /\ UNCHANGED <<storeVars, unacked, queue, pc, job, seen, found, at, deferred, inflight,
                 rotating, journalVars, ghostVars>>

\* The connection is closed under a call that waits: it fails after all.
WaitEnds(h) ==
  /\ h \in blocked
  /\ Nak(h)
  /\ UNCHANGED <<storeVars, queue, rotating, journalVars, late, effects>> /\ NoFault

\* RecordReceipt fails for the agent, whether or not the record is durable.
RecordFails(h) ==
  /\ Fault
  /\ pc[h] = "record"
  /\ \/ UNCHANGED journal
     \/ journal' = [journal EXCEPT ![ProcessOf[h]][job[h]] = found[h]]
  /\ Nak(h)
  /\ UNCHANGED <<storeVars, queue, rotating, observed, late, effects>>

\* The producer or the journal fails for one need, which is deferred.
ObservationFails(h) ==
  /\ Fault
  /\ pc[h] \in {"produce", "observe"} /\ at[h] <= NeedCount
  /\ NextNeed(h, TRUE)
  /\ UNCHANGED <<storeVars, queue, rotating, journalVars, late, effects>>

\* HandleRotation tears the session down and takes a snapshot of the in-flight
\* refs, while their handlers go on.
Rotate(p) ==
  /\ rotations < MaxRotations /\ rotating[p] = {}
  /\ rotations' = rotations + 1
  /\ rotating' = [rotating EXCEPT ![p] = inflight[p]]
  /\ UNCHANGED <<storeVars, unacked, queue, handlerVars, journalVars, late, ghostVars, faults, duplicates>>

\* It flags one ref, unless the call is refused or lost, and releases it.
RotationFlags(p, a) ==
  /\ a \in rotating[p]
  /\ \/ /\ IF Served(a, "mark_result_unknown")
           THEN Serve(a, "mark_result_unknown") ELSE UNCHANGED storeVars
        /\ UNCHANGED late
     \/ late' = late \cup {<<a, "mark_result_unknown">>} /\ UNCHANGED storeVars
  /\ rotating' = [rotating EXCEPT ![p] = @ \ {a}]
  /\ inflight' = [inflight EXCEPT ![p] = @ \ {a}]
  /\ UNCHANGED <<unacked, queue, pc, job, seen, found, at, deferred, blocked, journalVars, ghostVars, boundVars>>

\* A process dies: its memory is gone, its journal stays, nothing is acked.
Crash(p) ==
  LET mine == {h \in Handlers : ProcessOf[h] = p}
      Reset(f, v) == [h \in Handlers |-> IF h \in mine THEN v ELSE f[h]]
  IN  /\ \E h \in mine : pc[h] # "idle"
      /\ Fault
      /\ queue' = [queue EXCEPT ![p] = <<>>]
      /\ pc' = Reset(pc, "idle") /\ job' = Reset(job, NoAction)
      /\ seen' = Reset(seen, "absent") /\ found' = Reset(found, "none")
      /\ at' = Reset(at, 1) /\ deferred' = Reset(deferred, FALSE)
      /\ inflight' = [inflight EXCEPT ![p] = {}] /\ blocked' = blocked \ mine
      /\ rotating' = [rotating EXCEPT ![p] = {}]
      /\ UNCHANGED <<storeVars, unacked, journalVars, late, ghostVars>>

\* The outbox publishes the intent again, past the stream's dedup window.
Republish(a) ==
  /\ ~unacked[a] /\ duplicates < MaxDuplicates
  /\ duplicates' = duplicates + 1
  /\ unacked' = [unacked EXCEPT ![a] = TRUE]
  /\ UNCHANGED <<storeVars, queue, handlerVars, rotating, journalVars, late, ghostVars, faults, rotations>>

\* Operators and reconcilers, through the action service.
Operator(a) ==
  /\ \/ \E to \in {"human_takeover", "compensating", "reconciling"} : StoreTransition(a, status[a], to)
     \/ StoreTransition(a, "reconciling", "failed")
     \/ /\ status[a] = "reconciling" /\ effects[a] > 0
        /\ IngestResult(a, ReconcileId(a), "succeeded")
  /\ UNCHANGED <<unacked, queue, handlerVars, rotating, journalVars, late, ghostVars, boundVars>>

HandlerStep(h) ==
  /\ h \notin blocked
  /\ \/ Classify(h) \/ Resolve(h) \/ Barrier(h) \/ Run(h) \/ RecordReceipt(h)
     \/ LoadReceipt(h) \/ Ingest(h) \/ Flag(h) \/ Observe(h) \/ Produce(h)

HandlerFails(h) ==
  CallFails(h) \/ CallBlocks(h) \/ WaitEnds(h) \/ RecordFails(h) \/ ObservationFails(h)

Next ==
  \/ \E h \in Handlers : Poll(h) \/ HandlerStep(h) \/ HandlerFails(h)
  \/ \E p \in Processes, a \in Actions : FetchInto(p, a) \/ RotationFlags(p, a)
  \/ \E p \in Processes : Rotate(p) \/ Crash(p)
  \/ \E a \in Actions, m \in Methods : ServeLate(a, m)
  \/ \E a \in Actions : Republish(a) \/ Operator(a)

Spec == Init /\ [][Next]_vars

\* The Run loop of a live process fetches, polls and goes on with its delivery,
\* and the stream redelivers what is owed.  A blocked call has no fairness: it
\* may block for ever, and a lost connection need not be noticed.
FairSpec ==
  /\ Spec
  /\ \A h \in Handlers : WF_vars(HandlerStep(h)) /\ WF_vars(Poll(h))
  /\ \A a \in Actions : SF_vars(\E p \in Processes : FetchInto(p, a))

-----------------------------------------------------------------------------
(* Properties.                                                             *)

\* No central completion without a durable edge record: what an agent applied
\* is the receipt some journal holds, so every later resume agrees with it
\* (executeAndComplete journals "BEFORE the central apply").
AppliedReceiptIsJournaled ==
  \A a \in Actions : receipt[a] = DispatchRef[a] =>
    \E p \in Processes : journal[p][a] = status[a]

\* A journal claims success only of a connector that ran, and holds
\* observations only of an action that is centrally succeeded, however late
\* requests, rotations and operators interleave with the agent.
JournalIsTrue ==
  \A p \in Processes, a \in Actions :
    /\ journal[p][a] = "succeeded" => effects[a] = 1
    /\ observed[p][a] # {} => status[a] = "succeeded"

\* The journals and the centre agree in both directions, and the intake queues
\* stay within their bound, whatever is redelivered, rotated or late (fetchInto,
\* executeAndComplete, resumeExecuting).
JournalAndCentreAgree == TypeOK /\ AppliedReceiptIsJournaled /\ JournalIsTrue

\* An agent that is done with an action it completed has every observable need
\* journaled, or some attempt gave way to another one (resumeObservations).
AckedIsObserved ==
  \A a \in Actions :
    /\ receipt[a] = DispatchRef[a] /\ status[a] = "succeeded"
    /\ ~unacked[a] /\ a \notin yielded /\ \A h \in Handlers : job[h] # a
    => \E p \in Processes : Needs \ Detached \subseteq observed[p][a]

\* The agent keeps the promises of ActionOutcome.
Outcome(s) ==
  CASE s \in {"dispatched", "executing"} -> "open"
    [] s \in AwaitingReconciliation -> "unknown"
    [] s \in {"compensating", "human_takeover"} -> "handed_over"
    [] OTHER -> s

Promised == INSTANCE ActionOutcome
              WITH runs <- effects, outcome <- [a \in Actions |-> Outcome(status[a])]

ImplementsOutcome == Promised!OutcomeSpec

\* No call of a handler waits for ever.
CallsEnd == \A h \in Handlers : []<>(h \notin blocked)

\* As long as no call waits for ever, a journaled receipt reaches the centre:
\* the action completes or leaves the agent's hands, unless an attempt gave way
\* to another one (resumeExecuting).  The premise is not the code's to keep, it
\* is the connection's: RemoteActionPlane.call applies no timeout.
JournaledReceiptLands ==
  CallsEnd => \A a \in Actions :
    (\E p \in Processes : journal[p][a] # "none") ~>
      (status[a] \notin {"dispatched", "executing"} \/ a \in yielded)

\* "Un-acked work stays owed on the durable consumer, never dropped" (Run): an
\* executing action is owed, queued or in the hands of a handler.
ExecutingIsOwed ==
  \A a \in Actions : status[a] = "executing" =>
    \/ unacked[a]
    \/ \E h \in Handlers : job[h] = a
=============================================================================
