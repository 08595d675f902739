--------------------------- MODULE ConnectorWorker ---------------------------
(***************************************************************************)
(* The central connector worker (internal/connectors/worker): processes    *)
(* that pull dispatch intents from JetStream and execute each through the  *)
(* isolated host, over the tables of ActionStore.                          *)
(*                                                                         *)
(* The stream is at-least-once: an unacknowledged intent may be delivered  *)
(* to any handler at any time, also while another one works on it, and the *)
(* outbox may publish it again.  A service call is one step at its commit  *)
(* (ActionService covers its inside), except IngestReceipt, whose read and *)
(* commit are two: the row may move in between and still be completed.     *)
(***************************************************************************)
EXTENDS ActionStore

CONSTANTS
  Processes,     \* worker processes
  Handlers,      \* goroutines handling deliveries
  ProcessOf,     \* the process of a handler
  DispatchRef,   \* the dispatch ref of an action, its result id in the inbox
  Bound,         \* the immutable columns of the dispatched actions
  Permanent,     \* whether a resolution can fail permanently
  MaxFaults,     \* bound on crashes and transient errors in a behaviour
  MaxDuplicates  \* bound on republished intents

ASSUME WorkerAssumption ==
  /\ ProcessOf \in [Handlers -> Processes]
  /\ DispatchRef \in [Actions -> Results]
  /\ \A a, b \in Actions : DispatchRef[a] = DispatchRef[b] => a = b
  /\ Bound \in [Actions -> Bindings]
  /\ \A a, b \in Actions : Bound[a].key = Bound[b].key => a = b
  /\ Permanent \in BOOLEAN /\ MaxFaults \in Nat /\ MaxDuplicates \in Nat

VARIABLES
  unacked,   \* intents the stream still has to deliver
  pc,        \* per handler, the next step of ProcessDispatch
  job,       \* per handler, the action of its delivery
  seen,      \* per handler, the status GetAction returned
  found,     \* per handler, the outcome its receipt will carry
  inflight,  \* per process, the action refs its inflightSet holds
  effects,   \* how often the side effect of an action ran
  verdict,   \* what the receipt of an action was built from (observation)
  faults, duplicates

workVars == <<pc, job, seen, found, inflight>>
ghostVars == <<effects, verdict>>
boundVars == <<faults, duplicates>>
vars == <<storeVars, unacked, workVars, ghostVars, boundVars>>

Steps ==
  {"idle", "classify", "resolve", "barrier", "run", "sign", "ingest", "apply",
   "flag", "observe"}

TypeOK ==
  /\ StoreTypeOK
  /\ unacked \in [Actions -> BOOLEAN]
  /\ pc \in [Handlers -> Steps]
  /\ job \in [Handlers -> Actions \cup {NoAction}]
  /\ seen \in [Handlers -> Statuses \cup {"absent"}]
  /\ found \in [Handlers -> {"none", "succeeded", "failed", "unresolved"}]
  /\ inflight \in [Processes -> SUBSET Actions]
  /\ effects \in [Actions -> Nat]
  /\ verdict \in [Actions -> {"none", "host", "unresolved", "reconciled"}]
  /\ faults \in 0..MaxFaults /\ duplicates \in 0..MaxDuplicates

\* Every action has just been dispatched and its intent published.
Init ==
  /\ status = [a \in Actions |-> "dispatched"]
  /\ binding = Bound
  /\ approval = [a \in Actions |-> Bound[a].plan]
  /\ grant = [a \in Actions |-> "consumed"]
  /\ intents = [a \in Actions |-> 1]
  /\ receipt = [a \in Actions |-> NoResult]
  /\ inbox = [r \in ResultIds |-> NoAction]
  /\ unacked = [a \in Actions |-> TRUE]
  /\ pc = [h \in Handlers |-> "idle"]
  /\ job = [h \in Handlers |-> NoAction]
  /\ seen = [h \in Handlers |-> "absent"]
  /\ found = [h \in Handlers |-> "none"]
  /\ inflight = [p \in Processes |-> {}]
  /\ effects = [a \in Actions |-> 0]
  /\ verdict = [a \in Actions |-> "none"]
  /\ faults = 0 /\ duplicates = 0

-----------------------------------------------------------------------------
(* How a handler goes on, or ends.                                         *)

Goto(h, step) == pc' = [pc EXCEPT ![h] = step]

\* Where a handler holds in-process ownership (acquire .. the deferred release).
Owning(h) ==
  \/ pc[h] \in {"resolve", "barrier", "run", "sign", "ingest", "apply", "observe"}
  \/ pc[h] = "flag" /\ seen[h] = "dispatched"

\* The handler returns: ownership is released and its locals are gone.
Return(h) ==
  /\ pc' = [pc EXCEPT ![h] = "idle"]
  /\ job' = [job EXCEPT ![h] = NoAction]
  /\ seen' = [seen EXCEPT ![h] = "absent"]
  /\ found' = [found EXCEPT ![h] = "none"]
  /\ inflight' = IF Owning(h) THEN [inflight EXCEPT ![ProcessOf[h]] = @ \ {job[h]}] ELSE inflight

\* handleDelivery: every decided outcome acks, a transient error naks.
Ack(h) == Return(h) /\ unacked' = [unacked EXCEPT ![job[h]] = FALSE]
Nak(h) == Return(h) /\ UNCHANGED unacked

\* A dependency fails: the store, the audit append, the resolver, the signer.
Fault == faults < MaxFaults /\ faults' = faults + 1 /\ UNCHANGED duplicates
NoFault == UNCHANGED boundVars

-----------------------------------------------------------------------------
(* ProcessDispatch and executeAndComplete.                                 *)

\* A delivery, and the GetAction of ProcessDispatch.  The intents modelled
\* pass ValidateBinding; one that does not is acked without a step.
Receive(h, a) ==
  /\ pc[h] = "idle" /\ unacked[a]
  /\ Goto(h, "classify")
  /\ job' = [job EXCEPT ![h] = a]
  /\ seen' = [seen EXCEPT ![h] = status[a]]
  /\ UNCHANGED <<storeVars, unacked, found, inflight, ghostVars, boundVars>>

\* Faulty variant of Classify: an executing action is handed back to the stream.
Classify_Naks(h) ==
  LET a == job[h]
      p == ProcessOf[h]
  IN  /\ pc[h] = "classify"
      /\ \/ /\ seen[h] = "dispatched" /\ a \notin inflight[p]
            /\ inflight' = [inflight EXCEPT ![p] = @ \cup {a}]
            /\ Goto(h, "resolve")
            /\ UNCHANGED <<unacked, job, seen, found>>
         \/ seen[h] = "executing" /\ a \notin inflight[p] /\ Nak(h)
         \/ /\ seen[h] \notin {"dispatched", "executing"} \/ a \in inflight[p]
            /\ Ack(h)
      /\ UNCHANGED <<storeVars, ghostVars>> /\ NoFault

\* The switch on the status read: only a dispatched action is executed, and an
\* executing one nobody here owns was left by a crash.
Classify(h) ==
  LET a == job[h]
      p == ProcessOf[h]
  IN  /\ pc[h] = "classify"
      /\ \/ /\ seen[h] = "dispatched" /\ a \notin inflight[p]
            /\ inflight' = [inflight EXCEPT ![p] = @ \cup {a}]
            /\ Goto(h, "resolve")
            /\ UNCHANGED <<unacked, job, seen, found>>
         \/ /\ seen[h] = "executing" /\ a \notin inflight[p]
            /\ Goto(h, "flag")
            /\ UNCHANGED <<unacked, job, seen, found, inflight>>
         \/ /\ seen[h] \notin {"dispatched", "executing"} \/ a \in inflight[p]
            /\ Ack(h)
      /\ UNCHANGED <<storeVars, ghostVars>> /\ NoFault

\* The private binding resolves, or never will; a permanent refusal becomes a
\* failed receipt.
Resolve(h) ==
  /\ pc[h] = "resolve"
  /\ \/ Goto(h, "barrier") /\ UNCHANGED found
     \/ /\ Permanent
        /\ Goto(h, "sign") /\ found' = [found EXCEPT ![h] = "unresolved"]
  /\ UNCHANGED <<storeVars, unacked, job, seen, inflight, ghostVars>> /\ NoFault

\* Faulty variant of Barrier: MarkExecuting is idempotent.
Barrier_Idempotent(h) ==
  LET a == job[h]
  IN  /\ pc[h] = "barrier"
      /\ IF status[a] \in {"dispatched", "executing"}
         THEN /\ status' = [status EXCEPT ![a] = "executing"]
              /\ Goto(h, "run")
              /\ UNCHANGED <<binding, approval, grant, intents, receipt, inbox,
                             unacked, job, seen, found, inflight>>
         ELSE Ack(h) /\ UNCHANGED storeVars
      /\ UNCHANGED ghostVars /\ NoFault

\* MarkExecuting, the durable barrier; losing it is reclassified and acked.
Barrier(h) ==
  LET a == job[h]
  IN  /\ pc[h] = "barrier"
      /\ IF TransitionAccepted(a, "dispatched", "executing")
         THEN /\ StoreTransition(a, "dispatched", "executing")
              /\ Goto(h, "run")
              /\ UNCHANGED <<unacked, job, seen, found, inflight>>
         ELSE Ack(h) /\ UNCHANGED storeVars
      /\ UNCHANGED ghostVars /\ NoFault

\* Faulty variant of Run: an uncertain result is signed as success.
Run_Optimistic(h) ==
  /\ pc[h] = "run"
  /\ \E ran \in BOOLEAN, result \in {"succeeded", "failed", "uncertain"} :
       /\ result = "succeeded" => ran
       /\ effects' = IF ran THEN [effects EXCEPT ![job[h]] = @ + 1] ELSE effects
       /\ Goto(h, "sign")
       /\ found' = [found EXCEPT ![h] = IF result = "uncertain" THEN "succeeded" ELSE result]
  /\ UNCHANGED <<storeVars, unacked, job, seen, inflight, verdict>> /\ NoFault

\* Host.Run and ClassifyHostResult: a succeeded run had its effect, a failed or
\* uncertain one may have had it.
Run(h) ==
  /\ pc[h] = "run"
  /\ \E ran \in BOOLEAN, result \in {"succeeded", "failed", "uncertain"} :
       /\ result = "succeeded" => ran
       /\ effects' = IF ran THEN [effects EXCEPT ![job[h]] = @ + 1] ELSE effects
       /\ IF result = "uncertain"
          THEN Goto(h, "flag") /\ UNCHANGED found
          ELSE Goto(h, "sign") /\ found' = [found EXCEPT ![h] = result]
  /\ UNCHANGED <<storeVars, unacked, job, seen, inflight, verdict>> /\ NoFault

\* buildSignedReceipt.
Sign(h) ==
  /\ pc[h] = "sign"
  /\ Goto(h, "ingest")
  /\ UNCHANGED <<storeVars, unacked, job, seen, found, inflight, ghostVars>> /\ NoFault

\* Where a completed call goes: a succeeded action is observed, else acked.
AfterIngest(h, finalStatus) ==
  IF finalStatus = "succeeded"
  THEN Goto(h, "observe") /\ UNCHANGED <<unacked, job, seen, found, inflight>>
  ELSE Ack(h)

\* IngestReceipt returns ErrForbiddenTransition on its read.
Forbidden(a) ==
  /\ status[a] \notin {"executing", "dispatched"}
  /\ status[a] \in ReceiptStatuses => inbox[DispatchRef[a]] = NoAction

\* IngestReceipt, its read: a live action goes on to the apply, a completed one
\* is a duplicate when the inbox has this dispatch ref, anything else is
\* forbidden, reclassified and acked.
Ingest(h) ==
  LET a == job[h]
  IN  /\ pc[h] = "ingest"
      /\ \/ /\ status[a] \in {"executing", "dispatched"}
            /\ Goto(h, "apply") /\ UNCHANGED <<unacked, job, seen, found, inflight>>
         \/ /\ status[a] \in ReceiptStatuses /\ inbox[DispatchRef[a]] # NoAction
            /\ IF found[h] = "unresolved" THEN Ack(h) ELSE AfterIngest(h, status[a])
         \/ Forbidden(a) /\ Ack(h)
      /\ UNCHANGED <<storeVars, ghostVars>> /\ NoFault

\* The receipt status of what was found.
ReceiptOf(f) == IF f = "unresolved" THEN "failed" ELSE f

\* IngestReceipt, its transaction.
Apply(h) ==
  LET a == job[h]
      r == DispatchRef[a]
      to == ReceiptOf(found[h])
  IN  /\ pc[h] = "apply"
      /\ IF IngestAccepted(a, r, to)
         THEN /\ IngestResult(a, r, to)
              /\ verdict' = [verdict EXCEPT ![a] = IF found[h] = "unresolved" THEN "unresolved" ELSE "host"]
              /\ AfterIngest(h, to)
         ELSE /\ IF inbox[r] # NoAction /\ found[h] # "unresolved"
                 THEN AfterIngest(h, status[a]) ELSE Ack(h)
              /\ UNCHANGED <<storeVars, verdict>>
      /\ UNCHANGED effects /\ NoFault

\* flagResultUnknown; an action that moved on meanwhile is left alone.
Flag(h) ==
  LET a == job[h]
  IN  /\ pc[h] = "flag"
      /\ IF TransitionAccepted(a, status[a], "result_unknown")
         THEN StoreTransition(a, status[a], "result_unknown") ELSE UNCHANGED storeVars
      /\ Ack(h)
      /\ UNCHANGED ghostVars /\ NoFault

\* produceObservations: its error is reported but the intent is acked all the same.
Observe(h) ==
  /\ pc[h] = "observe"
  /\ Ack(h)
  /\ UNCHANGED <<storeVars, ghostVars>> /\ NoFault

-----------------------------------------------------------------------------
(* Failures.                                                               *)

\* A call of the handler fails.  Before the barrier, and in the flag itself,
\* the intent is nakked; after the effect the action is flagged.  An
\* unresolved binding ran nothing, so its signing and ingest only nak, as
\* does a reclassify that cannot read the action.
StepFails(h) ==
  /\ Fault
  /\ \/ /\ \/ pc[h] \in {"classify", "resolve", "barrier", "flag"}
           \/ pc[h] \in {"sign", "ingest", "apply"} /\ found[h] = "unresolved"
           \/ pc[h] = "ingest" /\ Forbidden(job[h])
        /\ Nak(h)
     \/ /\ pc[h] \in {"sign", "ingest", "apply"} /\ found[h] # "unresolved"
        /\ Goto(h, "flag")
        /\ UNCHANGED <<unacked, job, seen, found, inflight>>
  /\ UNCHANGED <<storeVars, ghostVars>>

\* A process dies: its handlers and its inflightSet are gone, nothing is acked.
Crash(p) ==
  LET mine == {h \in Handlers : ProcessOf[h] = p}
  IN  /\ \E h \in mine : pc[h] # "idle"
      /\ Fault
      /\ pc' = [h \in Handlers |-> IF h \in mine THEN "idle" ELSE pc[h]]
      /\ job' = [h \in Handlers |-> IF h \in mine THEN NoAction ELSE job[h]]
      /\ seen' = [h \in Handlers |-> IF h \in mine THEN "absent" ELSE seen[h]]
      /\ found' = [h \in Handlers |-> IF h \in mine THEN "none" ELSE found[h]]
      /\ inflight' = [inflight EXCEPT ![p] = {}]
      /\ UNCHANGED <<storeVars, unacked, ghostVars>>

\* The outbox publishes the intent again, past the stream's dedup window.
Republish(a) ==
  /\ ~unacked[a] /\ duplicates < MaxDuplicates
  /\ duplicates' = duplicates + 1
  /\ unacked' = [unacked EXCEPT ![a] = TRUE]
  /\ UNCHANGED <<storeVars, workVars, ghostVars, faults>>

-----------------------------------------------------------------------------
(* Operators and reconcilers, through the action service.                  *)

Operator(a) ==
  \/ /\ \E to \in {"human_takeover", "compensating", "reconciling"} : StoreTransition(a, status[a], to)
     /\ UNCHANGED <<unacked, workVars, ghostVars, boundVars>>
  \/ /\ StoreTransition(a, "reconciling", "failed")
     /\ UNCHANGED <<unacked, workVars, ghostVars, boundVars>>
  \/ /\ status[a] = "reconciling" /\ effects[a] > 0
     /\ IngestResult(a, ReconcileId(a), "succeeded")
     /\ verdict' = [verdict EXCEPT ![a] = "reconciled"]
     /\ UNCHANGED <<unacked, workVars, effects, boundVars>>

HandlerStep(h) ==
  \/ Classify(h) \/ Resolve(h) \/ Barrier(h) \/ Run(h) \/ Sign(h)
  \/ Ingest(h) \/ Apply(h) \/ Flag(h) \/ Observe(h)

Next ==
  \/ \E h \in Handlers : HandlerStep(h) \/ StepFails(h) \/ \E a \in Actions : Receive(h, a)
  \/ \E p \in Processes : Crash(p)
  \/ \E a \in Actions : Republish(a) \/ Operator(a)

Spec == Init /\ [][Next]_vars

\* A running process goes on with its delivery, and the stream redelivers an
\* unacknowledged intent to some handler.
FairSpec ==
  /\ Spec
  /\ \A h \in Handlers : WF_vars(HandlerStep(h))
  /\ \A a \in Actions : SF_vars(\E h \in Handlers : Receive(h, a))

-----------------------------------------------------------------------------
(* Properties.                                                             *)

\* The side effect of an action runs at most once, whatever is redelivered,
\* raced between processes or crashed (Worker.executeAndComplete).
AtMostOneExecution == \A a \in Actions : effects[a] <= 1

\* A definite verdict is not contradicted by what ran: success was executed,
\* and success and failure come from this action's own receipt.
VerdictsAreTrue ==
  \A a \in Actions :
    /\ status[a] = "succeeded" => effects[a] = 1 /\ verdict[a] \in {"host", "reconciled"}
    /\ verdict[a] = "host" => inbox[DispatchRef[a]] = a

\* The central worker keeps the promises of ActionOutcome.
Outcome(s) ==
  CASE s \in {"dispatched", "executing"} -> "open"
    [] s \in AwaitingReconciliation -> "unknown"
    [] s \in {"compensating", "human_takeover"} -> "handed_over"
    [] OTHER -> s

Promised == INSTANCE ActionOutcome
              WITH runs <- effects, outcome <- [a \in Actions |-> Outcome(status[a])]

ImplementsOutcome == Promised!OutcomeSpec

\* Every dispatched action eventually has an outcome or is known to be
\* unknown: nothing stays dispatched or executing (Worker.Run, redelivery).
EveryDispatchSettles ==
  \A a \in Actions : status[a] \in {"dispatched", "executing"} ~>
                     status[a] \notin {"dispatched", "executing"}
=============================================================================
