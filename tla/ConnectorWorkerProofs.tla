------------------------ MODULE ConnectorWorkerProofs ------------------------
(***************************************************************************)
(* The side effect of an action runs at most once, and its outcome is one  *)
(* the abstract ActionOutcome allows: for any number of actions, worker    *)
(* processes and handlers, redeliveries, crashes and operator calls.       *)
(*                                                                         *)
(* The durable barrier carries the argument: a handler is between barrier  *)
(* and host only when it won dispatched -> executing itself, no edge leads *)
(* back to dispatched, so a second handler can never be there as well.     *)
(*                                                                         *)
(* Then the isolated host that runs the connectors: one delivery per Run,  *)
(* only declared writes, sound reads, and definite verdicts that are final,*)
(* for any packs, bindings, requests, page counts and interleavings.       *)
(***************************************************************************)
EXTENDS ConnectorWorker, ConnectorHost, ActionStoreProofs, WellFoundedInduction

\* A handler at work has an action, and a receipt in hand tells the truth.
HandlersKnow ==
  \A h \in Handlers :
    /\ pc[h] # "idle" => job[h] \in Actions
    /\ pc[h] = "idle" => found[h] = "none"
    /\ pc[h] \in {"sign", "ingest", "apply"} => found[h] # "none"
    /\ found[h] = "succeeded" => effects[job[h]] = 1

\* Past dispatch for good: only a dispatched action has still to be executed.
DispatchedOnce ==
  \A a \in Actions :
    /\ status[a] \notin {"absent", "requested", "awaiting_approval", "granted"}
    /\ status[a] = "dispatched" => effects[a] = 0

\* Between barrier and host: alone, and before the effect.
BarrierHeld ==
  /\ \A h \in Handlers : pc[h] = "run" =>
       status[job[h]] # "dispatched" /\ effects[job[h]] = 0
  /\ \A h, i \in Handlers : pc[h] = "run" /\ pc[i] = "run" /\ job[h] = job[i] => h = i

WorkerInv ==
  /\ StoreInv /\ TypeOK
  /\ HandlersKnow /\ DispatchedOnce /\ BarrierHeld
  /\ AtMostOneExecution /\ VerdictsAreTrue

-----------------------------------------------------------------------------
\* Freshly dispatched actions satisfy the invariant.
LEMMA WorkerInitInv == Init => WorkerInv
<1> SUFFICES ASSUME Init PROVE WorkerInv
  OBVIOUS
<1>1. StoreTypeOK
  BY WorkerAssumption DEF Init, StoreTypeOK, Rows, Statuses, Bindings
<1>2. StoreInv
  BY <1>1, WorkerAssumption, StoreAssumption DEF Init, StoreInv, GrantMatchesStatus, OneUseDispatch, ResultAppliedOnce,
       SuccessIsEvidenced, OneActionPerKey, Rows
<1>3. TypeOK
  BY <1>1, WorkerAssumption DEF Init, TypeOK, Steps
<1>4. HandlersKnow /\ DispatchedOnce /\ BarrierHeld
  BY DEF Init, HandlersKnow, DispatchedOnce, BarrierHeld
<1>5. AtMostOneExecution /\ VerdictsAreTrue
  BY DEF Init, AtMostOneExecution, VerdictsAreTrue
<1> QED
  BY <1>2, <1>3, <1>4, <1>5 DEF WorkerInv

\* The tables' step of a worker, an operator or a reconciler never makes an
\* action dispatched again.
LEMMA StoreStepKeeps ==
  ASSUME WorkerInv, [StoreNext]_storeVars, NEW a \in Actions
  PROVE  /\ status'[a] \notin {"absent", "requested", "awaiting_approval", "granted"}
         /\ status'[a] = "dispatched" => status[a] = "dispatched"
<1> USE DEF WorkerInv, StoreInv, StoreTypeOK, DispatchedOnce
<1>1. CASE PutRequestedStep
  BY <1>1 DEF PutRequestedStep, PutRequested
<1>2. CASE \E x \in Actions, p \in Plans \cup {NoPlan} : StoreGrant(x, p)
  BY <1>2 DEF StoreGrant, GrantAccepted
<1>3. CASE \E x \in Actions : StoreDispatch(x)
  BY <1>3 DEF StoreDispatch, DispatchAccepted
<1>4. CASE \E x \in Actions, from \in Statuses, to \in PlainTargets : StoreTransition(x, from, to)
  BY <1>4 DEF StoreTransition, PlainTargets
<1>5. CASE \E x \in Actions, r \in ResultIds, to \in ReceiptStatuses : IngestResult(x, r, to)
  BY <1>5 DEF IngestResult, ReceiptStatuses
<1>6. CASE (\E x \in Actions : GrantExpires(x)) \/ UNCHANGED storeVars
  BY <1>6 DEF GrantExpires, storeVars
<1> QED
  BY <1>1, <1>2, <1>3, <1>4, <1>5, <1>6 DEF StoreNext

\* A step that runs nothing, completes nothing and lets nobody past the barrier.
LEMMA QuietStepInv ==
  ASSUME WorkerInv, [StoreNext]_storeVars, TypeOK', HandlersKnow', UNCHANGED ghostVars,
         UNCHANGED inbox, \A a \in Actions : status'[a] = "succeeded" => status[a] = "succeeded",
         \A h \in Handlers : pc'[h] = "run" => pc[h] = "run" /\ job'[h] = job[h]
  PROVE  WorkerInv'
<1>1. StoreInv'
  BY StoreNextInv DEF WorkerInv
<1>2. DispatchedOnce'
  BY StoreStepKeeps DEF WorkerInv, DispatchedOnce, ghostVars
<1>3. BarrierHeld'
  BY StoreStepKeeps DEF WorkerInv, BarrierHeld, HandlersKnow, ghostVars
<1>4. AtMostOneExecution' /\ VerdictsAreTrue'
  BY DEF WorkerInv, AtMostOneExecution, VerdictsAreTrue, ghostVars
<1> QED
  BY <1>1, <1>2, <1>3, <1>4 DEF WorkerInv

-----------------------------------------------------------------------------
(* What a step does to its handler.                                        *)

\* The part of TypeOK about handlers and the stream.
WorkTypeOK ==
  /\ unacked \in [Actions -> BOOLEAN]
  /\ pc \in [Handlers -> Steps]
  /\ job \in [Handlers -> Actions \cup {NoAction}]
  /\ seen \in [Handlers -> Statuses \cup {"absent"}]
  /\ found \in [Handlers -> {"none", "succeeded", "failed", "unresolved"}]
  /\ inflight \in [Processes -> SUBSET Actions]

\* The rest of TypeOK follows from the tables' step and unchanged counters.
LEMMA TypeFromParts ==
  ASSUME WorkerInv, [StoreNext]_storeVars, WorkTypeOK', UNCHANGED ghostVars,
         faults' \in 0..MaxFaults, duplicates' \in 0..MaxDuplicates
  PROVE  TypeOK'
<1>1. StoreTypeOK'
  BY StoreNextInv DEF WorkerInv, StoreInv
<1> QED
  BY <1>1 DEF WorkerInv, TypeOK, WorkTypeOK, ghostVars

\* A handler returning, acked or nakked.
LEMMA ReturnKeeps ==
  ASSUME NEW h \in Handlers, WorkerInv, UNCHANGED effects, Ack(h) \/ Nak(h), pc[h] # "idle"
  PROVE  /\ WorkTypeOK' /\ HandlersKnow'
         /\ \A i \in Handlers : pc'[i] = "run" => pc[i] = "run" /\ job'[i] = job[i]
<1>1. /\ pc' = [pc EXCEPT ![h] = "idle"]
      /\ job' = [job EXCEPT ![h] = NoAction]
      /\ seen' = [seen EXCEPT ![h] = "absent"]
      /\ found' = [found EXCEPT ![h] = "none"]
  BY DEF Ack, Nak, Return
<1>2. unacked' \in [Actions -> BOOLEAN]
  BY DEF Ack, Nak, WorkerInv, TypeOK
<1>3. inflight' \in [Processes -> SUBSET Actions]
  BY DEF Ack, Nak, Return, WorkerInv, TypeOK
<1>4. WorkTypeOK'
  BY <1>1, <1>2, <1>3 DEF WorkTypeOK, WorkerInv, TypeOK, Steps
<1>5. HandlersKnow'
  BY <1>1 DEF HandlersKnow, WorkerInv, TypeOK
<1> QED
  BY <1>1, <1>4, <1>5 DEF WorkerInv, TypeOK

\* A handler going on to a step before or after the host, its receipt in hand.
LEMMA GotoKeeps ==
  ASSUME NEW h \in Handlers, NEW step \in Steps \ {"idle", "run"}, WorkerInv, UNCHANGED effects,
         NEW f \in {"none", "succeeded", "failed", "unresolved"},
         pc[h] # "idle", Goto(h, step), UNCHANGED <<unacked, job, seen>>,
         inflight' \in [Processes -> SUBSET Actions], found' = [found EXCEPT ![h] = f],
         step \in {"sign", "ingest", "apply"} => f # "none",
         f = "succeeded" => effects[job[h]] = 1
  PROVE  /\ WorkTypeOK' /\ HandlersKnow'
         /\ \A i \in Handlers : pc'[i] = "run" => pc[i] = "run" /\ job'[i] = job[i]
<1>1. pc' = [pc EXCEPT ![h] = step]
  BY DEF Goto
<1>2. WorkTypeOK'
  BY <1>1 DEF WorkTypeOK, WorkerInv, TypeOK
<1>3. HandlersKnow'
  BY <1>1 DEF HandlersKnow, WorkerInv, TypeOK
<1> QED
  BY <1>1, <1>2, <1>3 DEF WorkerInv, TypeOK

\* Steps that leave the tables alone.
LEMMA IdleStoreInv ==
  ASSUME WorkerInv, UNCHANGED <<storeVars, ghostVars>>, WorkTypeOK', HandlersKnow',
         faults' \in 0..MaxFaults, duplicates' \in 0..MaxDuplicates,
         \A i \in Handlers : pc'[i] = "run" => pc[i] = "run" /\ job'[i] = job[i]
  PROVE  WorkerInv' /\ [StoreNext]_storeVars
<1>1. TypeOK'
  BY TypeFromParts
<1> QED
  BY <1>1, QuietStepInv DEF storeVars

\* Counters that do not change, or count one fault, stay in bounds.
LEMMA CountersTyped ==
  ASSUME WorkerInv, NoFault \/ Fault
  PROVE  faults' \in 0..MaxFaults /\ duplicates' \in 0..MaxDuplicates
  BY WorkerAssumption DEF WorkerInv, TypeOK, NoFault, Fault, boundVars

-----------------------------------------------------------------------------
(* The steps.                                                              *)

\* Steps without a table write: the read, the switch, the resolver, the signer.
LEMMA HandlerReadInv ==
  ASSUME NEW h \in Handlers, WorkerInv, Classify(h) \/ Resolve(h) \/ Sign(h) \/ Ingest(h) \/ Observe(h)
  PROVE  WorkerInv' /\ [StoreNext]_storeVars /\ UNCHANGED effects
<1>1. UNCHANGED <<storeVars, ghostVars>> /\ UNCHANGED effects /\ NoFault /\ pc[h] # "idle"
  BY DEF Classify, Resolve, Sign, Ingest, Observe, ghostVars
<1>2. faults' \in 0..MaxFaults /\ duplicates' \in 0..MaxDuplicates
  BY <1>1, CountersTyped
<1>3. /\ inflight \in [Processes -> SUBSET Actions] /\ job[h] \in Actions
      /\ found = [found EXCEPT ![h] = found[h]] /\ found[h] \in {"none", "succeeded", "failed", "unresolved"}
      /\ found[h] = "succeeded" => effects[job[h]] = 1
      /\ pc[h] \in {"sign", "ingest", "apply"} => found[h] # "none"
  BY <1>1 DEF WorkerInv, TypeOK, HandlersKnow
<1>4. \/ Ack(h)
      \/ \E step \in Steps \ {"idle", "run"}, f \in {"none", "succeeded", "failed", "unresolved"} :
           /\ Goto(h, step) /\ UNCHANGED <<unacked, job, seen>>
           /\ inflight' \in [Processes -> SUBSET Actions]
           /\ found' = [found EXCEPT ![h] = f]
           /\ step \in {"sign", "ingest", "apply"} => f # "none"
           /\ f = "succeeded" => effects[job[h]] = 1
  <2>1. CASE Classify(h)
    <3>1. CASE Ack(h)
      BY <3>1
    <3>2. CASE Goto(h, "flag") /\ UNCHANGED <<unacked, job, seen, found, inflight>>
      BY <1>3, <3>2 DEF Steps
    <3>3. CASE /\ Goto(h, "resolve") /\ UNCHANGED <<unacked, job, seen, found>>
               /\ inflight' = [inflight EXCEPT ![ProcessOf[h]] = @ \cup {job[h]}]
      BY <1>3, <3>3 DEF Steps
    <3> QED
      BY <2>1, <3>1, <3>2, <3>3 DEF Classify
  <2>2. CASE Resolve(h)
    <3>1. CASE Goto(h, "barrier") /\ UNCHANGED <<unacked, job, seen, found, inflight>>
      BY <1>3, <3>1 DEF Steps
    <3>2. CASE /\ Goto(h, "sign") /\ UNCHANGED <<unacked, job, seen, inflight>>
               /\ found' = [found EXCEPT ![h] = "unresolved"]
      BY <1>3, <3>2 DEF Steps
    <3> QED
      BY <2>2, <3>1, <3>2 DEF Resolve
  <2>3. CASE Sign(h)
    BY <1>3, <2>3 DEF Sign, Steps
  <2>4. CASE Ingest(h)
    <3>1. CASE Goto(h, "apply") /\ UNCHANGED <<unacked, job, seen, found, inflight>>
      BY <1>3, <2>4, <3>1 DEF Ingest, Steps
    <3>2. CASE Goto(h, "observe") /\ UNCHANGED <<unacked, job, seen, found, inflight>>
      BY <1>3, <3>2 DEF Steps
    <3> QED
      BY <2>4, <3>1, <3>2 DEF Ingest, AfterIngest
  <2>5. CASE Observe(h)
    BY <2>5 DEF Observe
  <2> QED
    BY <2>1, <2>2, <2>3, <2>4, <2>5
<1>5. /\ WorkTypeOK' /\ HandlersKnow'
      /\ \A i \in Handlers : pc'[i] = "run" => pc[i] = "run" /\ job'[i] = job[i]
  BY <1>1, <1>4, ReturnKeeps, GotoKeeps
<1> QED
  BY <1>1, <1>2, <1>5, IdleStoreInv

\* A delivery.
LEMMA ReceiveInv ==
  ASSUME NEW h \in Handlers, NEW a \in Actions, WorkerInv, Receive(h, a)
  PROVE  WorkerInv' /\ [StoreNext]_storeVars /\ UNCHANGED effects
<1> USE DEF Receive, Goto
<1>1. WorkTypeOK'
  BY DEF WorkTypeOK, WorkerInv, TypeOK, StoreTypeOK, Steps
<1>2. HandlersKnow'
  BY DEF HandlersKnow, WorkerInv, TypeOK, ghostVars
<1>3. \A i \in Handlers : pc'[i] = "run" => pc[i] = "run" /\ job'[i] = job[i]
  BY DEF WorkerInv, TypeOK
<1>4. faults' \in 0..MaxFaults /\ duplicates' \in 0..MaxDuplicates
  BY CountersTyped DEF NoFault
<1> QED
  BY <1>1, <1>2, <1>3, <1>4, IdleStoreInv DEF ghostVars

\* Winning the barrier puts the handler alone before the host.
LEMMA BarrierInv ==
  ASSUME NEW h \in Handlers, WorkerInv, Barrier(h)
  PROVE  WorkerInv' /\ [StoreNext]_storeVars /\ UNCHANGED effects
<1>0. PICK a : a = job[h]
  OBVIOUS
<1>1. a \in Actions /\ pc[h] = "barrier" /\ UNCHANGED ghostVars /\ UNCHANGED effects /\ NoFault
  BY <1>0 DEF Barrier, WorkerInv, HandlersKnow, ghostVars
<1>2. faults' \in 0..MaxFaults /\ duplicates' \in 0..MaxDuplicates
  BY <1>1, CountersTyped
<1>3. CASE ~TransitionAccepted(a, "dispatched", "executing")
  <2>1. Ack(h) /\ UNCHANGED storeVars
    BY <1>0, <1>3 DEF Barrier
  <2> QED
    BY <1>1, <1>2, <2>1, ReturnKeeps, IdleStoreInv
<1>4. CASE TransitionAccepted(a, "dispatched", "executing")
  <2>1. /\ StoreTransition(a, "dispatched", "executing") /\ pc' = [pc EXCEPT ![h] = "run"]
        /\ UNCHANGED <<unacked, job, seen, found, inflight>>
    BY <1>0, <1>4 DEF Barrier, Goto
  <2>2. [StoreNext]_storeVars
    BY <1>1, <2>1 DEF StoreNext, Statuses, PlainTargets
  <2>3. StoreInv'
    BY <2>2, StoreNextInv DEF WorkerInv
  <2>4. TypeOK'
    <3>1. WorkTypeOK'
      BY <2>1 DEF WorkTypeOK, WorkerInv, TypeOK, Steps
    <3> QED
      BY <1>1, <1>2, <2>2, <3>1, TypeFromParts
  <2>5. /\ status[a] = "dispatched" /\ effects[a] = 0
        /\ status' = [status EXCEPT ![a] = "executing"] /\ UNCHANGED inbox
    BY <1>1, <1>4, <2>1 DEF TransitionAccepted, StoreTransition, WorkerInv, DispatchedOnce
  <2>6. HandlersKnow'
    BY <1>0, <1>1, <2>1 DEF HandlersKnow, WorkerInv, TypeOK
  <2>7. DispatchedOnce'
    BY <1>1, <2>5 DEF DispatchedOnce, WorkerInv, TypeOK, StoreTypeOK
  <2>8. BarrierHeld'
    <3>1. \A i \in Handlers : pc[i] = "run" => job[i] # a
      BY <2>5 DEF WorkerInv, BarrierHeld
    <3>2. status'[a] # "dispatched" /\ \A b \in Actions : status'[b] = "dispatched" => status[b] = "dispatched"
      BY <1>1, <2>5 DEF WorkerInv, TypeOK, StoreTypeOK
    <3>3. \A i \in Handlers : pc'[i] = IF i = h THEN "run" ELSE pc[i]
      BY <2>1 DEF WorkerInv, TypeOK
    <3> QED
      BY <1>0, <1>1, <2>1, <2>5, <3>1, <3>2, <3>3 DEF WorkerInv, BarrierHeld, HandlersKnow
  <2>9. AtMostOneExecution' /\ VerdictsAreTrue'
    BY <1>1, <2>5 DEF WorkerInv, TypeOK, StoreTypeOK, AtMostOneExecution, VerdictsAreTrue, ghostVars
  <2> QED
    BY <1>1, <2>2, <2>3, <2>4, <2>6, <2>7, <2>8, <2>9 DEF WorkerInv
<1> QED
  BY <1>3, <1>4

\* The host runs; nobody else is before it, so the effect is the first.
LEMMA RunInv ==
  ASSUME NEW h \in Handlers, WorkerInv, Run(h)
  PROVE  WorkerInv' /\ UNCHANGED storeVars
<1>0. PICK a : a = job[h]
  OBVIOUS
<1>1. PICK ran \in BOOLEAN, result \in {"succeeded", "failed", "uncertain"} :
        /\ result = "succeeded" => ran
        /\ effects' = IF ran THEN [effects EXCEPT ![a] = @ + 1] ELSE effects
        /\ IF result = "uncertain"
           THEN Goto(h, "flag") /\ UNCHANGED found
           ELSE Goto(h, "sign") /\ found' = [found EXCEPT ![h] = result]
  BY <1>0 DEF Run
<1>2. /\ pc[h] = "run" /\ a \in Actions /\ effects[a] = 0 /\ status[a] # "dispatched"
      /\ UNCHANGED <<storeVars, unacked, job, seen, inflight, verdict>> /\ NoFault
  BY <1>0 DEF Run, WorkerInv, HandlersKnow, BarrierHeld
<1>3. StoreInv'
  BY <1>2, StoreNextInv DEF WorkerInv
<1>4. /\ \A b \in Actions : effects'[b] = IF b = a /\ ran THEN 1 ELSE effects[b]
      /\ effects' \in [Actions -> Nat]
  BY <1>1, <1>2 DEF WorkerInv, TypeOK
<1>5. PICK step \in {"flag", "sign"} : pc' = [pc EXCEPT ![h] = step] /\ (step = "flag" <=> result = "uncertain")
  BY <1>1 DEF Goto
<1>6. TypeOK'
  <2>1. faults' \in 0..MaxFaults /\ duplicates' \in 0..MaxDuplicates
    BY <1>2, CountersTyped
  <2>2. pc' \in [Handlers -> Steps] /\ found' \in [Handlers -> {"none", "succeeded", "failed", "unresolved"}]
    BY <1>1, <1>5 DEF WorkerInv, TypeOK, Steps
  <2> QED
    BY <1>2, <1>3, <1>4, <2>1, <2>2 DEF WorkerInv, TypeOK, StoreInv
<1>7. HandlersKnow'
  <2> SUFFICES ASSUME NEW i \in Handlers
               PROVE  /\ pc'[i] # "idle" => job[i] \in Actions
                      /\ pc'[i] = "idle" => found'[i] = "none"
                      /\ pc'[i] \in {"sign", "ingest", "apply"} => found'[i] # "none"
                      /\ found'[i] = "succeeded" => effects'[job[i]] = 1
    BY <1>2 DEF HandlersKnow
  <2>1. CASE i = h
    <3>1. pc'[i] = step
      BY <1>5, <2>1 DEF WorkerInv, TypeOK
    <3>2. CASE result = "uncertain"
      BY <1>0, <1>1, <1>2, <1>4, <1>5, <2>1, <3>1, <3>2 DEF WorkerInv, HandlersKnow
    <3>3. CASE result # "uncertain"
      <4>1. found'[i] = result
        BY <1>1, <2>1, <3>3 DEF WorkerInv, TypeOK
      <4> QED
        BY <1>0, <1>1, <1>2, <1>4, <1>5, <2>1, <3>1, <3>3, <4>1
    <3> QED
      BY <3>2, <3>3
  <2>2. CASE i # h
    <3>1. pc'[i] = pc[i] /\ found'[i] = found[i]
      BY <1>1, <1>5, <2>2 DEF WorkerInv, TypeOK
    <3>2. found[i] = "succeeded" => job[i] \in Actions /\ effects[job[i]] = 1
      BY DEF WorkerInv, TypeOK, HandlersKnow
    <3> QED
      BY <1>2, <1>4, <3>1, <3>2 DEF WorkerInv, HandlersKnow
  <2> QED
    BY <2>1, <2>2
<1>8. DispatchedOnce' /\ AtMostOneExecution' /\ VerdictsAreTrue'
  BY <1>2, <1>4 DEF WorkerInv, DispatchedOnce, AtMostOneExecution, VerdictsAreTrue, storeVars
<1>9. BarrierHeld'
  <2>1. \A i \in Handlers : pc'[i] = "run" => pc[i] = "run" /\ job[i] # a
    BY <1>0, <1>2, <1>5 DEF WorkerInv, TypeOK, BarrierHeld
  <2> QED
    BY <1>2, <1>4, <2>1 DEF WorkerInv, HandlersKnow, BarrierHeld, storeVars
<1> QED
  BY <1>2, <1>3, <1>6, <1>7, <1>8, <1>9 DEF WorkerInv

\* A completion of the tables by a result, and what became of the handlers.
LEMMA CompletionInv ==
  ASSUME NEW a \in Actions, NEW r \in ResultIds, NEW to \in ReceiptStatuses,
         NEW v \in {"host", "unresolved", "reconciled"},
         WorkerInv, IngestResult(a, r, to), UNCHANGED effects,
         verdict' = [verdict EXCEPT ![a] = v],
         to = "succeeded" => effects[a] = 1 /\ v \in {"host", "reconciled"},
         v = "host" => r = DispatchRef[a],
         WorkTypeOK', HandlersKnow', faults' \in 0..MaxFaults, duplicates' \in 0..MaxDuplicates,
         \A i \in Handlers : pc'[i] = "run" => pc[i] = "run" /\ job'[i] = job[i]
  PROVE  WorkerInv' /\ [StoreNext]_storeVars
<1>1. [StoreNext]_storeVars
  BY DEF StoreNext
<1>2. StoreInv'
  BY <1>1, StoreNextInv DEF WorkerInv
<1>3. TypeOK'
  BY <1>2 DEF WorkerInv, StoreInv, TypeOK, WorkTypeOK
<1>4. DispatchedOnce' /\ BarrierHeld'
  BY <1>1, StoreStepKeeps DEF WorkerInv, DispatchedOnce, BarrierHeld, HandlersKnow
<1>5. VerdictsAreTrue'
  <2>1. /\ inbox[r] = NoAction /\ inbox' = [inbox EXCEPT ![r] = a]
        /\ status' = [status EXCEPT ![a] = to]
    BY DEF IngestResult, IngestAccepted
  <2>2. \A b \in Actions : DispatchRef[b] \in ResultIds
    BY WorkerAssumption DEF ResultIds
  <2>3. NoAction \notin Actions
    BY StoreAssumption
  <2> QED
    BY <2>1, <2>2, <2>3 DEF WorkerInv, TypeOK, StoreTypeOK, VerdictsAreTrue
<1> QED
  BY <1>1, <1>2, <1>3, <1>4, <1>5 DEF WorkerInv, AtMostOneExecution

\* The receipt's transaction.
LEMMA ApplyInv ==
  ASSUME NEW h \in Handlers, WorkerInv, Apply(h)
  PROVE  WorkerInv' /\ [StoreNext]_storeVars /\ UNCHANGED effects
<1>0. PICK a, r, to : a = job[h] /\ r = DispatchRef[a] /\ to = ReceiptOf(found[h])
  OBVIOUS
<1>1. /\ pc[h] = "apply" /\ a \in Actions /\ UNCHANGED effects /\ NoFault
      /\ found[h] \in {"succeeded", "failed", "unresolved"}
      /\ found[h] = "succeeded" => effects[a] = 1
  BY <1>0 DEF Apply, WorkerInv, TypeOK, HandlersKnow
<1>2. r \in ResultIds /\ to \in ReceiptStatuses /\ (to = "succeeded" <=> found[h] = "succeeded")
  BY <1>0, <1>1, WorkerAssumption DEF ResultIds, ReceiptOf, ReceiptStatuses
<1>3. faults' \in 0..MaxFaults /\ duplicates' \in 0..MaxDuplicates
  BY <1>1, CountersTyped
<1>4. Ack(h) \/ (Goto(h, "observe") /\ UNCHANGED <<unacked, job, seen, found, inflight>>)
  BY DEF Apply, AfterIngest
<1>5. /\ WorkTypeOK' /\ HandlersKnow'
      /\ \A i \in Handlers : pc'[i] = "run" => pc[i] = "run" /\ job'[i] = job[i]
  <2>1. CASE Ack(h)
    BY <1>1, <2>1, ReturnKeeps
  <2>2. CASE Goto(h, "observe") /\ UNCHANGED <<unacked, job, seen, found, inflight>>
    <3>1. /\ "observe" \in Steps \ {"idle", "run"} /\ inflight' \in [Processes -> SUBSET Actions]
          /\ found' = [found EXCEPT ![h] = found[h]]
      BY <2>2 DEF Steps, WorkerInv, TypeOK
    <3> QED
      BY <1>0, <1>1, <2>2, <3>1, GotoKeeps
  <2> QED
    BY <1>4, <2>1, <2>2
<1>6. CASE IngestAccepted(a, r, to)
  <2>1. PICK v \in {"host", "unresolved"} :
          /\ IngestResult(a, r, to) /\ verdict' = [verdict EXCEPT ![a] = v]
          /\ v = IF found[h] = "unresolved" THEN "unresolved" ELSE "host"
    BY <1>0, <1>6 DEF Apply
  <2> QED
    BY <1>0, <1>1, <1>2, <1>3, <1>5, <2>1, CompletionInv
<1>7. CASE ~IngestAccepted(a, r, to)
  <2>1. UNCHANGED <<storeVars, ghostVars>>
    BY <1>0, <1>1, <1>7 DEF Apply, ghostVars
  <2> QED
    BY <1>1, <1>3, <1>5, <2>1, IdleStoreInv
<1> QED
  BY <1>6, <1>7

\* A plain transition of the tables beside a quiet handler step.
LEMMA TransitionInv ==
  ASSUME NEW a \in Actions, NEW to \in PlainTargets, WorkerInv,
         StoreTransition(a, status[a], to), UNCHANGED ghostVars, WorkTypeOK', HandlersKnow',
         faults' \in 0..MaxFaults, duplicates' \in 0..MaxDuplicates,
         \A i \in Handlers : pc'[i] = "run" => pc[i] = "run" /\ job'[i] = job[i]
  PROVE  WorkerInv' /\ [StoreNext]_storeVars
<1>1. [StoreNext]_storeVars
  BY DEF StoreNext, WorkerInv, TypeOK, StoreTypeOK, DispatchedOnce
<1>2. TypeOK'
  BY <1>1, TypeFromParts
<1>3. UNCHANGED inbox /\ \A b \in Actions : status'[b] = "succeeded" => status[b] = "succeeded"
  BY DEF StoreTransition, PlainTargets, WorkerInv, TypeOK, StoreTypeOK
<1> QED
  BY <1>1, <1>2, <1>3, QuietStepInv

\* Flagging an action of unknown result.
LEMMA FlagInv ==
  ASSUME NEW h \in Handlers, WorkerInv, Flag(h)
  PROVE  WorkerInv' /\ [StoreNext]_storeVars /\ UNCHANGED effects
<1>0. PICK a : a = job[h]
  OBVIOUS
<1>1. /\ a \in Actions /\ pc[h] # "idle" /\ Ack(h) /\ NoFault /\ UNCHANGED ghostVars /\ UNCHANGED effects
      /\ IF TransitionAccepted(a, status[a], "result_unknown")
         THEN StoreTransition(a, status[a], "result_unknown") ELSE UNCHANGED storeVars
  BY <1>0 DEF Flag, WorkerInv, HandlersKnow, ghostVars
<1>2. faults' \in 0..MaxFaults /\ duplicates' \in 0..MaxDuplicates
  BY <1>1, CountersTyped
<1>3. /\ WorkTypeOK' /\ HandlersKnow'
      /\ \A i \in Handlers : pc'[i] = "run" => pc[i] = "run" /\ job'[i] = job[i]
  BY <1>1, ReturnKeeps
<1>4. "result_unknown" \in PlainTargets
  BY DEF PlainTargets
<1> QED
  BY <1>1, <1>2, <1>3, <1>4, TransitionInv, IdleStoreInv

\* A failing call: the handler naks, or goes on to flag.
LEMMA StepFailsInv ==
  ASSUME NEW h \in Handlers, WorkerInv, StepFails(h)
  PROVE  WorkerInv' /\ [StoreNext]_storeVars /\ UNCHANGED effects
<1>1. /\ UNCHANGED <<storeVars, ghostVars>> /\ UNCHANGED effects /\ pc[h] # "idle"
      /\ faults' \in 0..MaxFaults /\ duplicates' \in 0..MaxDuplicates
  BY CountersTyped DEF StepFails, ghostVars
<1>2. Nak(h) \/ (Goto(h, "flag") /\ UNCHANGED <<unacked, job, seen, found, inflight>>)
  BY DEF StepFails
<1>3. /\ WorkTypeOK' /\ HandlersKnow'
      /\ \A i \in Handlers : pc'[i] = "run" => pc[i] = "run" /\ job'[i] = job[i]
  <2>1. CASE Nak(h)
    BY <1>1, <2>1, ReturnKeeps
  <2>2. CASE Goto(h, "flag") /\ UNCHANGED <<unacked, job, seen, found, inflight>>
    <3>1. /\ "flag" \in Steps \ {"idle", "run"} /\ inflight' \in [Processes -> SUBSET Actions]
          /\ found' = [found EXCEPT ![h] = found[h]]
          /\ found[h] \in {"none", "succeeded", "failed", "unresolved"}
          /\ found[h] = "succeeded" => effects[job[h]] = 1
      BY <1>1, <2>2 DEF Steps, WorkerInv, TypeOK, HandlersKnow
    <3> QED
      BY <1>1, <2>2, <3>1, GotoKeeps
  <2> QED
    BY <1>2, <2>1, <2>2
<1> QED
  BY <1>1, <1>3, IdleStoreInv

\* A process dies.
LEMMA CrashInv ==
  ASSUME NEW p \in Processes, WorkerInv, Crash(p)
  PROVE  WorkerInv' /\ [StoreNext]_storeVars /\ UNCHANGED effects
<1>1. /\ UNCHANGED <<storeVars, ghostVars>> /\ UNCHANGED effects
      /\ faults' \in 0..MaxFaults /\ duplicates' \in 0..MaxDuplicates
  BY CountersTyped DEF Crash, ghostVars
<1>2. WorkTypeOK'
  BY DEF Crash, WorkTypeOK, WorkerInv, TypeOK, Steps
<1>3. HandlersKnow' /\ \A i \in Handlers : pc'[i] = "run" => pc[i] = "run" /\ job'[i] = job[i]
  BY <1>1 DEF Crash, HandlersKnow, WorkerInv, TypeOK
<1> QED
  BY <1>1, <1>2, <1>3, IdleStoreInv

\* A republished intent, and the operators' and reconcilers' calls.
LEMMA OutsideInv ==
  ASSUME NEW a \in Actions, WorkerInv, Republish(a) \/ Operator(a)
  PROVE  WorkerInv' /\ [StoreNext]_storeVars /\ UNCHANGED effects
<1>1. CASE Republish(a)
  <2>1. faults' \in 0..MaxFaults /\ duplicates' \in 0..MaxDuplicates
    BY <1>1, WorkerAssumption DEF Republish, WorkerInv, TypeOK
  <2>2. WorkTypeOK' /\ HandlersKnow' /\ \A i \in Handlers : pc'[i] = "run" => pc[i] = "run" /\ job'[i] = job[i]
    BY <1>1 DEF Republish, WorkTypeOK, HandlersKnow, WorkerInv, TypeOK, workVars, ghostVars
  <2> QED
    BY <1>1, <2>1, <2>2, IdleStoreInv DEF Republish, ghostVars
<1>2. CASE Operator(a)
  <2>1. UNCHANGED <<unacked, workVars, effects, boundVars>>
    BY <1>2 DEF Operator, ghostVars
  <2>2. /\ faults' \in 0..MaxFaults /\ duplicates' \in 0..MaxDuplicates
        /\ WorkTypeOK' /\ HandlersKnow'
        /\ \A i \in Handlers : pc'[i] = "run" => pc[i] = "run" /\ job'[i] = job[i]
    BY <2>1 DEF WorkTypeOK, HandlersKnow, WorkerInv, TypeOK, workVars, boundVars
  <2>3. CASE \E to \in PlainTargets : StoreTransition(a, status[a], to) /\ UNCHANGED ghostVars
    BY <2>1, <2>2, <2>3, TransitionInv
  <2>4. CASE /\ effects[a] > 0 /\ IngestResult(a, ReconcileId(a), "succeeded")
             /\ verdict' = [verdict EXCEPT ![a] = "reconciled"]
    <3>1. ReconcileId(a) \in ResultIds /\ "succeeded" \in ReceiptStatuses /\ effects[a] = 1
      BY <2>4 DEF ResultIds, ReceiptStatuses, WorkerInv, TypeOK, AtMostOneExecution
    <3> QED
      BY <2>1, <2>2, <2>4, <3>1, CompletionInv
  <2> QED
    BY <1>2, <2>3, <2>4 DEF Operator, PlainTargets, StoreTransition, TransitionAccepted
<1> QED
  BY <1>1, <1>2

\* The invariant is inductive, and only the host step runs anything.
LEMMA WorkerNextInv ==
  WorkerInv /\ [Next]_vars =>
    WorkerInv' /\ ( \/ [StoreNext]_storeVars /\ UNCHANGED effects
                   \/ \E h \in Handlers : Run(h) )
<1> SUFFICES ASSUME WorkerInv, [Next]_vars
             PROVE  WorkerInv' /\ ( \/ [StoreNext]_storeVars /\ UNCHANGED effects
                                   \/ \E h \in Handlers : Run(h) )
  OBVIOUS
<1>1. CASE \E h \in Handlers : HandlerStep(h)
  BY <1>1, HandlerReadInv, BarrierInv, RunInv, ApplyInv, FlagInv DEF HandlerStep
<1>2. CASE \E h \in Handlers : StepFails(h) \/ \E a \in Actions : Receive(h, a)
  BY <1>2, StepFailsInv, ReceiveInv
<1>3. CASE \E p \in Processes : Crash(p)
  BY <1>3, CrashInv
<1>4. CASE \E a \in Actions : Republish(a) \/ Operator(a)
  BY <1>4, OutsideInv
<1>5. CASE UNCHANGED vars
  <2>1. /\ UNCHANGED <<storeVars, ghostVars>> /\ UNCHANGED <<unacked, pc, job, seen, found, inflight>>
        /\ UNCHANGED <<effects, faults, duplicates>>
    BY <1>5 DEF vars, workVars, ghostVars, boundVars
  <2>2. WorkTypeOK' /\ HandlersKnow' /\ faults' \in 0..MaxFaults /\ duplicates' \in 0..MaxDuplicates
    BY <2>1 DEF WorkTypeOK, HandlersKnow, WorkerInv, TypeOK
  <2> QED
    BY <2>1, <2>2, IdleStoreInv
<1> QED
  BY <1>1, <1>2, <1>3, <1>4, <1>5 DEF Next

-----------------------------------------------------------------------------
(* The theorems.                                                           *)

\* The workers stay within the invariant.
THEOREM WorkerInvariant == Spec => []WorkerInv
  BY WorkerInitInv, WorkerNextInv, PTL DEF Spec

\* Type correctness of tables, stream and handlers.
THEOREM WorkerTypeOK == Spec => []TypeOK
<1>1. WorkerInv => TypeOK
  BY DEF WorkerInv
<1> QED
  BY <1>1, WorkerInvariant, PTL

\* No side effect runs twice, for any number of processes, handlers, crashes
\* and redeliveries (Worker.executeAndComplete).
THEOREM WorkerAtMostOneExecution == Spec => []AtMostOneExecution
<1>1. WorkerInv => AtMostOneExecution
  BY DEF WorkerInv
<1> QED
  BY <1>1, WorkerInvariant, PTL

\* Success is reported only of an effect that ran, by a receipt applied to its
\* own action (Worker.executeAndComplete, IngestReceipt).
THEOREM WorkerVerdictsAreTrue == Spec => []VerdictsAreTrue
<1>1. WorkerInv => VerdictsAreTrue
  BY DEF WorkerInv
<1> QED
  BY <1>1, WorkerInvariant, PTL

\* A change of one status along an edge concludes an outcome or keeps it.
LEMMA EdgeConcludes ==
  ASSUME NEW a \in Actions, NEW to \in Statuses, WorkerInv, WorkerInv', UNCHANGED effects,
         canTransition(status[a], to), status' = [status EXCEPT ![a] = to]
  PROVE  [Promised!OutcomeNext]_(Promised!outcomeVars)
<1> DEFINE before == [x \in Actions |-> Outcome(status[x])]
           after == [x \in Actions |-> Outcome(status'[x])]
<1>1. after = [before EXCEPT ![a] = Outcome(to)]
  BY DEF WorkerInv, TypeOK, StoreTypeOK
<1>2. before[a] = Outcome(status[a])
  OBVIOUS
<1>3. status[a] \in Statuses \ {"requested", "awaiting_approval", "granted"}
  BY DEF WorkerInv, DispatchedOnce, canTransition
<1>4. to = "succeeded" => effects[a] = 1
  BY DEF WorkerInv, TypeOK, StoreTypeOK, VerdictsAreTrue
<1>5. \/ Outcome(to) = Outcome(status[a])
      \/ /\ \/ Outcome(status[a]) = "open" /\ Outcome(to) \in {"unknown", "succeeded", "failed"}
            \/ Outcome(status[a]) = "unknown" /\ Outcome(to) \in {"succeeded", "failed"}
            \/ Outcome(status[a]) # "handed_over" /\ Outcome(to) = "handed_over"
         /\ Outcome(to) = "succeeded" => to = "succeeded"
  BY <1>3 DEF Outcome, canTransition, allowedEdges, Statuses, AwaitingReconciliation
<1>6. CASE Outcome(to) = Outcome(status[a])
  <2>1. after = before
    BY <1>1, <1>2, <1>6
  <2> QED
    BY <2>1 DEF Promised!outcomeVars
<1>7. CASE Outcome(to) # Outcome(status[a])
  <2>1. Promised!Conclude(a, Outcome(to))
    BY <1>1, <1>2, <1>4, <1>5, <1>7 DEF Promised!Conclude
  <2>2. Outcome(to) \in {"unknown", "succeeded", "failed", "handed_over"}
    BY <1>5, <1>7
  <2> QED
    BY <2>1, <2>2 DEF Promised!OutcomeNext
<1> QED
  BY <1>6, <1>7

\* The central worker implements ActionOutcome: crashes, races and redeliveries
\* never yield a second run, an unexecuted success or a replaced outcome.
THEOREM WorkerImplementsOutcome == Spec => ImplementsOutcome
<1>1. Init => Promised!OutcomeInit
  <2>1. Outcome("dispatched") = "open"
    BY DEF Outcome, AwaitingReconciliation
  <2> QED
    BY <2>1 DEF Init, Promised!OutcomeInit
<1>2. WorkerInv /\ WorkerInv' /\ [Next]_vars => [Promised!OutcomeNext]_(Promised!outcomeVars)
  <2> SUFFICES ASSUME WorkerInv, WorkerInv', [Next]_vars
               PROVE  [Promised!OutcomeNext]_(Promised!outcomeVars)
    OBVIOUS
  <2>1. ASSUME NEW h \in Handlers, Run(h) PROVE [Promised!OutcomeNext]_(Promised!outcomeVars)
    <3>1. PICK a : a = job[h]
      OBVIOUS
    <3>2. a \in Actions /\ effects[a] = 0 /\ UNCHANGED status
      BY <2>1, <3>1 DEF Run, WorkerInv, HandlersKnow, BarrierHeld, storeVars
    <3>3. effects' = effects \/ effects' = [effects EXCEPT ![a] = @ + 1]
      BY <2>1, <3>1 DEF Run
    <3>4. CASE effects' = effects
      BY <3>2, <3>4 DEF Promised!outcomeVars
    <3>5. CASE effects' = [effects EXCEPT ![a] = @ + 1]
      <4>1. effects' = [effects EXCEPT ![a] = 1]
        BY <3>2, <3>5
      <4>2. Promised!RunOnce(a)
        BY <3>2, <4>1 DEF Promised!RunOnce
      <4> QED
        BY <3>2, <4>2 DEF Promised!OutcomeNext
    <3> QED
      BY <3>3, <3>4, <3>5
  <2>2. ASSUME [StoreNext]_storeVars, UNCHANGED effects
        PROVE  [Promised!OutcomeNext]_(Promised!outcomeVars)
    <3>1. CASE UNCHANGED status
      BY <2>2, <3>1 DEF Promised!outcomeVars
    <3>2. CASE status' # status
      <4>1. \E a \in Actions, to \in Statuses :
              canTransition(status[a], to) /\ status' = [status EXCEPT ![a] = to]
        <5> USE DEF WorkerInv, DispatchedOnce, UpdateAllowed
        <5>1. CASE PutRequestedStep
          BY <5>1 DEF PutRequestedStep, PutRequested
        <5>2. CASE \E x \in Actions, q \in Plans \cup {NoPlan} : StoreGrant(x, q)
          BY <5>2 DEF StoreGrant, GrantAccepted
        <5>3. CASE \E x \in Actions : StoreDispatch(x)
          BY <5>3 DEF StoreDispatch, DispatchAccepted
        <5>4. CASE \E x \in Actions, from \in Statuses, to \in PlainTargets : StoreTransition(x, from, to)
          <6>1. PICK x \in Actions, from \in Statuses, to \in PlainTargets : StoreTransition(x, from, to)
            BY <5>4
          <6> QED
            <7>1. to \in Statuses
              BY DEF PlainTargets, Statuses
            <7> QED
              BY <6>1, <7>1 DEF StoreTransition, TransitionAccepted
        <5>5. CASE \E x \in Actions, r \in ResultIds, to \in ReceiptStatuses : IngestResult(x, r, to)
          <6>1. PICK x \in Actions, r \in ResultIds, to \in ReceiptStatuses : IngestResult(x, r, to)
            BY <5>5
          <6>2. to \in Statuses
            BY DEF ReceiptStatuses, Statuses
          <6> QED
            BY <6>1, <6>2 DEF IngestResult, IngestAccepted
        <5>6. CASE (\E x \in Actions : GrantExpires(x)) \/ UNCHANGED storeVars
          BY <3>2, <5>6 DEF GrantExpires, storeVars
        <5> QED
          BY <2>2, <5>1, <5>2, <5>3, <5>4, <5>5, <5>6 DEF StoreNext
      <4> QED
        BY <2>2, <4>1, EdgeConcludes
    <3> QED
      BY <3>1, <3>2
  <2> QED
    BY <2>1, <2>2, WorkerNextInv
<1> QED
  BY <1>1, <1>2, WorkerInvariant, PTL DEF Spec, ImplementsOutcome, Promised!OutcomeSpec

-----------------------------------------------------------------------------
(* The isolated host behind the worker's Run step.  Its invariant says, for  *)
(* each call, where the supervisor's half and the goroutine's half of it     *)
(* stand, what the call has written by then, and which handle it may use.    *)

\* What is kept of a page, and of a call.
PageRecords == [page : Nat, version : 1..MaxSourceVersion, named : BOOLEAN, shown : SUBSET Fields]

RunRecords ==
  [op : OpSpecs \cup {NoOp},
   step : {"idle", "acquire", "request", "select", "done"},
   adapter : {"none", "redeem", "execute", "send", "fetch", "backoff", "child", "ended"},
   ctx : {"live", "deadline", "cancelled"}, granted : BOOLEAN,
   answer : Answers \cup {NoAnswer}, retry : 0..MaxRateRetries, pages : Seq(PageRecords),
   said : Answers \cup {NoAnswer}, tree : SUBSET {"child", "descendant"},
   result : HostStatuses \cup {"none"}]

\* Where the supervisor's half of a call stands.
SupervisorFacts(x) ==
  /\ x.step = "idle" => x.op = NoOp
  /\ x.step # "idle" => x.op \in OpSpecs /\ policy # NoPolicy
  /\ x.step \in {"idle", "acquire", "request"} => x.adapter = "none"
  /\ x.step \in {"acquire", "request"} => CheckAccess(x.op)
  /\ x.step # "done" => x.result = "none"
  /\ x.result \in Definite => x.adapter \in {"none", "ended"}
  /\ x.result = "succeeded" => x.answer # NoAnswer /\ x.answer.status = "succeeded"

\* Where the goroutine's half of it stands: what it has written, and why it may.
AdapterFacts(x, w) ==
  /\ x.adapter # "ended" => x.answer = NoAnswer
  /\ x.tree # {} => x.adapter = "child"
  /\ x.adapter \notin {"none", "ended"} => x.step \in {"select", "done"}
  /\ x.adapter \in {"none", "redeem", "execute", "send", "fetch", "backoff"} => w = 0
  /\ x.adapter # "none" => CheckAccess(x.op) /\ x.op.flaw # "unnamed"
  /\ w \in {0, 1}
  /\ x.adapter = "child" => x.op.family = "process"
  /\ x.adapter = "send" => x.op.family = "webhook"
  /\ x.adapter = "fetch" => x.op.family \in Readers
  /\ x.adapter = "backoff" => x.op.family \in Readers \cup {"webhook"}
  /\ x.adapter \in {"send", "backoff"} /\ x.op.family = "webhook" => x.op.flaw = "none"
  /\ w > 0 => x.op.family \in {"webhook", "process"} /\ x.op.flaw = "none"
  /\ x.answer # NoAnswer /\ x.answer.status = "succeeded" /\ x.op.family = "webhook" => w = 1

\* Versions grow from page to page.
InOrder(pages) ==
  \A k, n \in 1..Len(pages) : k <= n => pages[k].version <= pages[n].version

\* There is a first page among those that name their source.
HasFirst(pages) ==
  Naming(pages) # {} => \E n \in Naming(pages) : \A m \in Naming(pages) : n <= m

\* What a reader has read so far.
ReadFacts(x) ==
  /\ x.adapter \in {"none", "redeem", "execute"} => x.pages = <<>>
  /\ x.adapter \in {"send", "fetch", "backoff"} => Len(x.pages) < SourcePages /\ Len(x.pages) < MaxPages
  /\ Len(x.pages) <= MaxPages
  /\ \A n \in 1..Len(x.pages) :
       /\ x.pages[n].page = n /\ x.pages[n].shown = DeclaredFields \ RedactedFields
       /\ x.pages[n].version <= sourceVersion
  /\ InOrder(x.pages) /\ HasFirst(x.pages)
  /\ x.answer # NoAnswer /\ x.answer.status = "succeeded" /\ x.op.family \in Readers =>
       Len(x.pages) \in {SourcePages, MaxPages}

\* The policy in force was derived from a pinned pack and its binding.
PolicyDerived ==
  policy # NoPolicy =>
    \E p \in Packs, b \in Installs :
      /\ b.pinned = p.digest
      /\ policy = [digest |-> p.digest, roots |-> Roots, egress |-> DeriveEgress(p, b)]

\* A handle is minted by its own call, once, and reveals only while unconsumed.
HandleFacts ==
  \A i \in HandleIds :
    /\ revealed[i] \in {0, 1}
    /\ i \in DOMAIN secretHandles =>
         /\ i \in HostOps /\ runs[i].step \notin {"idle", "acquire"}
         /\ ~secretHandles[i].consumed => revealed[i] = 0
    /\ i \in HostOps /\ runs[i].step \in {"idle", "acquire"} => revealed[i] = 0

HostInv ==
  /\ SecretTypeOK
  /\ policy = NoPolicy \/ policy \in [digest : {p.digest : p \in Packs}, roots : {Roots}, egress : SUBSET UNION {b.endpoints : b \in Installs}]
  /\ runs \in [HostOps -> RunRecords]
  /\ writes \in [HostOps -> Nat]
  /\ sourceVersion \in 1..MaxSourceVersion
  /\ PolicyDerived /\ HandleFacts
  /\ \A r \in HostOps : SupervisorFacts(runs[r]) /\ AdapterFacts(runs[r], writes[r]) /\ ReadFacts(runs[r])

-----------------------------------------------------------------------------
(* The secret provider.                                                    *)

\* The calls that have not asked for their handle.
Unasked == {"idle", "acquire"}

\* A set of naturals that is not empty has a least element.
LEMMA LeastNatural ==
  ASSUME NEW S \in SUBSET Nat, S # {}
  PROVE  \E m \in S : \A k \in S : m <= k
<1> DEFINE R == OpToRel(<, Nat)
<1>1. IsWellFoundedOn(R, Nat)
  BY NatLessThanWellFounded
<1>2. PICK m \in S : \A k \in S : ~(<<k, m>> \in R)
  <2> HIDE DEF R
  <2> QED
    BY <1>1, WFMin
<1>3. \A k \in S : ~(k < m)
  BY <1>2 DEF OpToRel
<1> QED
  BY <1>3

\* A bounded set of naturals that is not empty has a greatest element.
LEMMA GreatestBelow ==
  ASSUME NEW n \in Nat, NEW S \in SUBSET (0..n), S # {}
  PROVE  \E m \in S : \A k \in S : k <= m
<1> DEFINE D == {n - k : k \in S}
<1>1. \A k \in S : n - k \in Nat
  OBVIOUS
<1>2. D \in SUBSET Nat /\ D # {}
  <2>1. PICK k \in S : TRUE
    OBVIOUS
  <2>2. n - k \in D
    BY <2>1
  <2> QED
    BY <1>1, <2>2
<1>3. PICK d \in D : \A e \in D : d <= e
  <2> HIDE DEF D
  <2> QED
    BY <1>2, LeastNatural
<1>4. PICK m \in S : d = n - m
  OBVIOUS
<1>5. \A k \in S : d <= n - k
  BY <1>3
<1> QED
  BY <1>4, <1>5

\* The version the provider falls back to is one it has.
LEMMA LatestLiveTyped ==
  ASSUME masterVersions \in Nat, NEW revoked
  PROVE  LatestLiveVersion(revoked) \in 0..masterVersions
<1> DEFINE live == {v \in 1..masterVersions : v \notin revoked}
<1>1. CASE live = {}
  BY <1>1 DEF LatestLiveVersion
<1>2. CASE live # {}
  <2>1. live \in SUBSET (0..masterVersions)
    OBVIOUS
  <2>2. \E v \in live : \A w \in live : w <= v
    <3> HIDE DEF live
    <3> QED
      BY <1>2, <2>1, GreatestBelow
  <2>3. LatestLiveVersion(revoked) \in live
    BY <1>2, <2>2 DEF LatestLiveVersion
  <2> QED
    BY <2>1, <2>3
<1> QED
  BY <1>1, <1>2

\* The provider's own calls keep its records well-formed and touch no handle.
LEMMA ProviderTyped ==
  ASSUME SecretTypeOK, ProviderStep
  PROVE  SecretTypeOK' /\ secretHandles' = secretHandles /\ revealed' = revealed
<1> USE SecretAssumption
<1>1. CASE SetMaster
  BY <1>1 DEF SetMaster, SecretTypeOK
<1>2. CASE Rotate
  BY <1>2 DEF Rotate, SecretTypeOK
<1>3. ASSUME NEW v \in 1..masterVersions, Revoke(v) PROVE SecretTypeOK' /\ secretHandles' = secretHandles /\ revealed' = revealed
  <2>1. LatestLiveVersion(revokedMasters \cup {v}) \in 0..masterVersions
    BY LatestLiveTyped DEF SecretTypeOK
  <2> QED
    BY <1>3, <2>1 DEF Revoke, SecretTypeOK
<1>4. CASE SecretTick
  BY <1>4 DEF SecretTick, masterVars, SecretTypeOK
<1> QED
  BY <1>1, <1>2, <1>3, <1>4 DEF ProviderStep

\* A minted handle is a record of the current version; the others stay or go.
LEMMA MintTyped ==
  ASSUME SecretTypeOK, NEW i \in HandleIds, i \notin DOMAIN secretHandles, MintHandle(i)
  PROVE  /\ SecretTypeOK'
         /\ revealed' = revealed
         /\ \A j \in HandleIds \ {i} : j \in DOMAIN secretHandles' =>
              j \in DOMAIN secretHandles /\ secretHandles'[j] = secretHandles[j]
<1> USE SecretAssumption
<1> DEFINE fresh == [scope |-> i, version |-> currentMaster, expires |-> secretTime + Lifetime, consumed |-> FALSE]
<1>1. Acquirable => currentMaster \in 1..MaxVersions
  BY DEF Acquirable, SecretTypeOK
<1>2. Acquirable => fresh \in HandleRecords
  BY <1>1 DEF HandleRecords, SecretTypeOK, Lifetime
<1>3. Unexpired \subseteq DOMAIN secretHandles
  BY DEF Unexpired
<1>4. \A j \in DOMAIN secretHandles' :
        \/ j = i /\ Acquirable /\ secretHandles'[j] = fresh
        \/ j # i /\ j \in DOMAIN secretHandles /\ secretHandles'[j] = secretHandles[j]
  BY <1>3 DEF MintHandle
<1>5. DOMAIN secretHandles' \subseteq HandleIds /\ \A j \in DOMAIN secretHandles' : secretHandles'[j] \in HandleRecords
  <2> HIDE DEF fresh
  <2> QED
    BY <1>2, <1>4 DEF SecretTypeOK
<1>6. SecretTypeOK'
  BY <1>5 DEF MintHandle, masterVars, SecretTypeOK
<1> QED
  BY <1>4, <1>6 DEF MintHandle

\* Redeem reveals at most once more, and only an unconsumed handle; the other
\* handles are as they were.
LEMMA RedeemTyped ==
  ASSUME SecretTypeOK, NEW i \in HandleIds, Redeem(i, i)
  PROVE  /\ SecretTypeOK'
         /\ \A j \in HandleIds \ {i} : revealed'[j] = revealed[j]
         /\ \A j \in DOMAIN secretHandles' : j \in DOMAIN secretHandles /\ (j # i => secretHandles'[j] = secretHandles[j])
         /\ \/ revealed'[i] = revealed[i] /\ (i \in DOMAIN secretHandles' => secretHandles'[i] = secretHandles[i])
            \/ /\ i \in DOMAIN secretHandles /\ ~secretHandles[i].consumed
               /\ revealed'[i] = revealed[i] + 1 /\ secretHandles'[i].consumed
<1>1. CASE Redeemable(i, i)
  <2>1. i \in DOMAIN secretHandles /\ ~secretHandles[i].consumed
    BY <1>1 DEF Redeemable, HandleBound
  <2>2. revealed' = [revealed EXCEPT ![i] = @ + 1] /\ secretHandles' = [secretHandles EXCEPT ![i].consumed = TRUE]
    BY <1>1 DEF Redeem
  <2>3. [secretHandles[i] EXCEPT !.consumed = TRUE] \in HandleRecords
    BY <2>1 DEF SecretTypeOK, HandleRecords
  <2>4. DOMAIN secretHandles' = DOMAIN secretHandles
        /\ \A j \in DOMAIN secretHandles : secretHandles'[j] = IF j = i THEN [secretHandles[i] EXCEPT !.consumed = TRUE] ELSE secretHandles[j]
    BY <2>2
  <2>5. \A j \in DOMAIN secretHandles' : secretHandles'[j] \in HandleRecords
    BY <2>3, <2>4 DEF SecretTypeOK
  <2>6. secretHandles'[i].consumed
    BY <2>1, <2>4 DEF SecretTypeOK, HandleRecords
  <2>7. revealed' \in [HandleIds -> Nat] /\ revealed'[i] = revealed[i] + 1 /\ \A j \in HandleIds \ {i} : revealed'[j] = revealed[j]
    BY <2>2 DEF SecretTypeOK
  <2>8. SecretTypeOK'
    BY <2>4, <2>5, <2>7 DEF Redeem, masterVars, SecretTypeOK
  <2> QED
    BY <2>1, <2>4, <2>6, <2>7, <2>8
<1>2. CASE ~Redeemable(i, i)
  <2>1. revealed' = revealed
    BY <1>2 DEF Redeem
  <2>2. DOMAIN secretHandles' \subseteq DOMAIN secretHandles /\ \A j \in DOMAIN secretHandles' : secretHandles'[j] = secretHandles[j]
    BY <1>2 DEF Redeem
  <2>3. SecretTypeOK'
    BY <2>1, <2>2 DEF Redeem, masterVars, SecretTypeOK
  <2> QED
    BY <2>1, <2>2, <2>3
<1> QED
  BY <1>1, <1>2

\* Redeeming a handle after its call asked for it keeps what is known of handles.
LEMMA RedeemFacts ==
  ASSUME HostInv, NEW r \in HostOps, Redeem(r, r), runs[r].step \notin Unasked,
         \A q \in HostOps : runs'[q].step \in Unasked => runs[q].step \in Unasked
  PROVE  SecretTypeOK' /\ HandleFacts'
<1>1. r \in HandleIds
  BY HostAssumption
<1>2. SecretTypeOK /\ HandleFacts
  BY DEF HostInv
<1>3. SecretTypeOK'
  BY <1>1, <1>2, RedeemTyped
<1>4. HandleFacts'
  <2> SUFFICES ASSUME NEW i \in HandleIds
               PROVE  /\ revealed'[i] \in {0, 1}
                      /\ i \in DOMAIN secretHandles' =>
                           /\ i \in HostOps /\ runs'[i].step \notin Unasked
                           /\ ~secretHandles'[i].consumed => revealed'[i] = 0
                      /\ i \in HostOps /\ runs'[i].step \in Unasked => revealed'[i] = 0
    BY DEF HandleFacts, Unasked
  <2>1. /\ revealed[i] \in {0, 1}
        /\ i \in DOMAIN secretHandles =>
             /\ i \in HostOps /\ runs[i].step \notin Unasked
             /\ ~secretHandles[i].consumed => revealed[i] = 0
        /\ i \in HostOps /\ runs[i].step \in Unasked => revealed[i] = 0
    BY <1>2 DEF HandleFacts, Unasked
  <2>2. CASE i # r
    BY <1>1, <1>2, <2>1, <2>2, RedeemTyped
  <2>3. CASE i = r
    BY <1>1, <1>2, <2>1, <2>3, RedeemTyped
  <2> QED
    BY <2>2, <2>3
<1> QED
  BY <1>3, <1>4

\* A call that mints its handle has not done so before.
LEMMA MintFacts ==
  ASSUME HostInv, NEW r \in HostOps, MintHandle(r), runs[r].step \in Unasked, runs'[r].step \notin Unasked,
         \A q \in HostOps : runs'[q].step \in Unasked => runs[q].step \in Unasked
  PROVE  SecretTypeOK' /\ HandleFacts'
<1>1. r \in HandleIds
  BY HostAssumption
<1>2. SecretTypeOK /\ HandleFacts
  BY DEF HostInv
<1>3. r \notin DOMAIN secretHandles
  BY <1>1, <1>2 DEF HandleFacts, Unasked
<1>4. revealed[r] = 0
  BY <1>1, <1>2 DEF HandleFacts, Unasked
<1>5. SecretTypeOK' /\ revealed' = revealed
  BY <1>1, <1>2, <1>3, MintTyped
<1>6. \A j \in HandleIds \ {r} : j \in DOMAIN secretHandles' => j \in DOMAIN secretHandles /\ secretHandles'[j] = secretHandles[j]
  BY <1>1, <1>2, <1>3, MintTyped
<1>7. HandleFacts'
  BY <1>2, <1>4, <1>5, <1>6 DEF HandleFacts, Unasked
<1> QED
  BY <1>5, <1>7

\* Steps that leave the provider alone.
LEMMA SecretsKept ==
  ASSUME HostInv, UNCHANGED secretVars,
         \A q \in HostOps : runs'[q].step \in Unasked => runs[q].step \in Unasked
  PROVE  SecretTypeOK' /\ HandleFacts'
<1>1. SecretTypeOK'
  BY DEF HostInv, SecretTypeOK, secretVars
<1>2. HandleFacts'
  BY DEF HostInv, HandleFacts, secretVars, Unasked
<1> QED
  BY <1>1, <1>2

-----------------------------------------------------------------------------
(* The steps of one call.                                                  *)

\* A step of one call keeps the invariant when its own facts hold after it.
LEMMA OneCallMoves ==
  ASSUME HostInv, NEW r \in HostOps,
         runs' = [runs EXCEPT ![r] = runs'[r]], runs'[r] \in RunRecords,
         writes' = [writes EXCEPT ![r] = writes'[r]], writes'[r] \in Nat,
         policy' = policy, sourceVersion' = sourceVersion,
         SecretTypeOK', HandleFacts',
         SupervisorFacts(runs'[r]), AdapterFacts(runs'[r], writes'[r]), ReadFacts(runs'[r])
  PROVE  HostInv'
<1>1. runs' \in [HostOps -> RunRecords] /\ writes' \in [HostOps -> Nat]
  BY DEF HostInv
<1>2. \A q \in HostOps : q # r => runs'[q] = runs[q] /\ writes'[q] = writes[q]
  BY DEF HostInv
<1>3. ASSUME NEW q \in HostOps
      PROVE  SupervisorFacts(runs'[q]) /\ AdapterFacts(runs'[q], writes'[q]) /\ ReadFacts(runs'[q])
  BY <1>2 DEF HostInv
<1>4. \A q \in HostOps : SupervisorFacts(runs[q])' /\ AdapterFacts(runs[q], writes[q])' /\ ReadFacts(runs[q])'
  BY <1>3 DEF SupervisorFacts, AdapterFacts, ReadFacts, CheckAccess, AllowPath, AllowEgress
<1>5. PolicyDerived'
  BY DEF HostInv, PolicyDerived
<1> QED
  BY <1>1, <1>4, <1>5 DEF HostInv

\* A step of a call that writes nothing and asks the provider for nothing.
LEMMA QuietCallMoves ==
  ASSUME HostInv, NEW r \in HostOps,
         runs' = [runs EXCEPT ![r] = runs'[r]], runs'[r] \in RunRecords,
         UNCHANGED <<policy, writes, sourceVersion, secretVars>>,
         runs'[r].step \in Unasked => runs[r].step \in Unasked,
         SupervisorFacts(runs'[r]), AdapterFacts(runs'[r], writes[r]), ReadFacts(runs'[r])
  PROVE  HostInv'
<1>1. runs \in [HostOps -> RunRecords] /\ writes \in [HostOps -> Nat]
  BY DEF HostInv
<1>2. \A q \in HostOps : runs'[q].step \in Unasked => runs[q].step \in Unasked
  BY <1>1
<1>3. SecretTypeOK' /\ HandleFacts'
  BY <1>2, SecretsKept
<1> QED
  BY <1>1, <1>3, OneCallMoves

\* What the invariant says of one call.
LEMMA CallFacts ==
  ASSUME HostInv, NEW r \in HostOps
  PROVE  /\ runs \in [HostOps -> RunRecords] /\ runs[r] \in RunRecords
         /\ writes \in [HostOps -> Nat] /\ writes[r] \in Nat
         /\ SupervisorFacts(runs[r]) /\ AdapterFacts(runs[r], writes[r]) /\ ReadFacts(runs[r])
BY DEF HostInv

\* The end of Run: the result is a verdict of the host, and a definite one only
\* when nothing of the call is left.
LEMMA FinishKeeps ==
  ASSUME HostInv, NEW r \in HostOps, NEW st \in HostStatuses, Finish(r, st),
         runs[r].step # "idle",
         st \in Definite => runs[r].adapter \in {"none", "ended"},
         st = "succeeded" => runs[r].answer # NoAnswer /\ runs[r].answer.status = "succeeded"
  PROVE  /\ runs' = [runs EXCEPT ![r] = runs'[r]] /\ runs'[r] \in RunRecords /\ runs'[r].step = "done"
         /\ SupervisorFacts(runs'[r]) /\ AdapterFacts(runs'[r], writes[r]) /\ ReadFacts(runs'[r])
<1> DEFINE y == [runs[r] EXCEPT !.step = "done", !.result = st, !.ctx = IF @ = "live" THEN "cancelled" ELSE @]
<1>1. runs \in [HostOps -> RunRecords] /\ runs[r] \in RunRecords
  BY CallFacts
<1>2. runs' = [runs EXCEPT ![r] = y] /\ runs'[r] = y
  BY <1>1 DEF Finish
<1>3. y \in RunRecords
  BY <1>1 DEF RunRecords
<1>4. /\ y.step = "done" /\ y.result = st /\ y.op = runs[r].op /\ y.adapter = runs[r].adapter /\ y.answer = runs[r].answer
      /\ y.tree = runs[r].tree /\ y.pages = runs[r].pages
  BY <1>1 DEF RunRecords
<1> HIDE DEF y
<1>5. SupervisorFacts(y)
  BY <1>4, CallFacts DEF SupervisorFacts
<1>6. AdapterFacts(y, writes[r])
  BY <1>4, CallFacts DEF AdapterFacts
<1>7. ReadFacts(y)
  BY <1>4, CallFacts DEF ReadFacts
<1> QED
  BY <1>2, <1>3, <1>4, <1>5, <1>6, <1>7

\* Start.
LEMMA StartInv ==
  ASSUME HostInv, NEW r \in HostOps, NEW op \in OpSpecs, Start(r, op)
  PROVE  HostInv'
<1>1. runs \in [HostOps -> RunRecords] /\ runs[r] \in RunRecords
  BY CallFacts
<1>a. PICK st : st = IF ~CheckAccess(op) THEN "done" ELSE IF op.credential THEN "acquire" ELSE "request"
  OBVIOUS
<1>b. PICK res : res = IF CheckAccess(op) THEN "none" ELSE "denied_policy"
  OBVIOUS
<1>c. /\ st \in {"done", "acquire", "request"} /\ res \in {"none", "denied_policy"}
      /\ st # "done" => res = "none" /\ CheckAccess(op)
  BY <1>a, <1>b
<1>d. res \in HostStatuses \cup {"none"}
  BY <1>c DEF HostStatuses
<1> DEFINE y == [runs[r] EXCEPT !.op = op, !.step = st, !.result = res]
<1>2. runs' = [runs EXCEPT ![r] = y] /\ runs'[r] = y
  BY <1>1, <1>a, <1>b DEF Start
<1>3. y \in RunRecords
  BY <1>1, <1>c, <1>d DEF RunRecords
<1>4. /\ y.op = op /\ y.adapter = runs[r].adapter /\ y.answer = runs[r].answer /\ y.tree = runs[r].tree /\ y.pages = runs[r].pages
      /\ y.step \in {"done", "acquire", "request"} /\ y.result \in {"none", "denied_policy"}
      /\ y.step # "done" => y.result = "none" /\ CheckAccess(y.op)
  BY <1>1, <1>c, <1>d DEF RunRecords
<1>5. runs[r].step = "idle" /\ policy # NoPolicy /\ runs[r].adapter = "none"
  BY CallFacts DEF Start, SupervisorFacts
<1> HIDE DEF y
<1>6. SupervisorFacts(y)
  BY <1>4, <1>5, CallFacts DEF SupervisorFacts, Definite
<1>7. AdapterFacts(y, writes[r])
  BY <1>4, <1>5, CallFacts DEF AdapterFacts
<1>8. ReadFacts(y)
  BY <1>4, <1>5, CallFacts DEF ReadFacts, AdapterFacts
<1>9. UNCHANGED <<policy, writes, sourceVersion, secretVars>>
  BY DEF Start
<1> QED
  BY <1>2, <1>3, <1>4, <1>5, <1>6, <1>7, <1>8, <1>9, QuietCallMoves DEF Unasked

\* AcquireHandle and AcquireFails.
LEMMA AcquireInv ==
  ASSUME HostInv, NEW r \in HostOps, AcquireHandle(r) \/ AcquireFails(r)
  PROVE  HostInv'
<1>1. runs \in [HostOps -> RunRecords] /\ runs[r] \in RunRecords /\ writes \in [HostOps -> Nat]
  BY CallFacts
<1>2. runs[r].step = "acquire" /\ runs[r].adapter = "none"
  BY CallFacts DEF AcquireHandle, AcquireFails, SupervisorFacts
<1>3. UNCHANGED <<policy, writes, sourceVersion>>
  BY DEF AcquireHandle, AcquireFails
<1>4. CASE Finish(r, "failed")
  <2>1. /\ runs' = [runs EXCEPT ![r] = runs'[r]] /\ runs'[r] \in RunRecords /\ runs'[r].step = "done"
        /\ SupervisorFacts(runs'[r]) /\ AdapterFacts(runs'[r], writes[r]) /\ ReadFacts(runs'[r])
    BY <1>2, <1>4, FinishKeeps DEF HostStatuses, Reportable
  <2>2. \A q \in HostOps : runs'[q].step \in Unasked => runs[q].step \in Unasked
    BY <1>1, <2>1 DEF Unasked
  <2>3. MintHandle(r) \/ UNCHANGED secretVars
    BY DEF AcquireHandle, AcquireFails
  <2>4. SecretTypeOK' /\ HandleFacts'
    BY <1>2, <2>1, <2>2, <2>3, MintFacts, SecretsKept DEF Unasked
  <2> QED
    BY <1>1, <1>3, <2>1, <2>4, OneCallMoves
<1>5. CASE MintHandle(r) /\ runs' = [runs EXCEPT ![r].step = "request", ![r].granted = TRUE]
  <2> DEFINE y == [runs[r] EXCEPT !.step = "request", !.granted = TRUE]
  <2>1. runs' = [runs EXCEPT ![r] = y] /\ runs'[r] = y
    BY <1>1, <1>5
  <2>2. y \in RunRecords
    BY <1>1 DEF RunRecords
  <2>3. /\ y.op = runs[r].op /\ y.step = "request" /\ y.adapter = runs[r].adapter /\ y.answer = runs[r].answer
        /\ y.tree = runs[r].tree /\ y.pages = runs[r].pages /\ y.result = runs[r].result
    BY <1>1 DEF RunRecords
  <2> HIDE DEF y
  <2>4. SupervisorFacts(y) /\ AdapterFacts(y, writes[r]) /\ ReadFacts(y)
    BY <1>2, <2>3, CallFacts DEF SupervisorFacts, AdapterFacts, ReadFacts
  <2>5. \A q \in HostOps : runs'[q].step \in Unasked => runs[q].step \in Unasked
    BY <1>1, <2>1, <2>3 DEF Unasked
  <2>6. SecretTypeOK' /\ HandleFacts'
    BY <1>2, <1>5, <2>1, <2>3, <2>5, MintFacts DEF Unasked
  <2> QED
    BY <1>1, <1>3, <2>1, <2>2, <2>4, <2>6, OneCallMoves
<1> QED
  BY <1>4, <1>5 DEF AcquireHandle, AcquireFails

\* Dispatch.
LEMMA DispatchInv ==
  ASSUME HostInv, NEW r \in HostOps, Dispatch(r)
  PROVE  HostInv'
<1>1. runs \in [HostOps -> RunRecords] /\ runs[r] \in RunRecords
  BY CallFacts
<1>2. runs[r].step = "request" /\ runs[r].adapter = "none"
  BY CallFacts DEF Dispatch, SupervisorFacts
<1>3. UNCHANGED <<policy, writes, sourceVersion, secretVars>>
  BY DEF Dispatch
<1>4. CASE Finish(r, "failed")
  <2>1. /\ runs' = [runs EXCEPT ![r] = runs'[r]] /\ runs'[r] \in RunRecords /\ runs'[r].step = "done"
        /\ SupervisorFacts(runs'[r]) /\ AdapterFacts(runs'[r], writes[r]) /\ ReadFacts(runs'[r])
    BY <1>2, <1>4, FinishKeeps DEF HostStatuses, Reportable
  <2> QED
    BY <1>3, <2>1, QuietCallMoves DEF Unasked
<1>5. CASE runs[r].op.flaw # "unnamed"
  <2>1. PICK ad : ad = IF runs[r].granted /\ runs[r].op.family # "process" THEN "redeem" ELSE "execute"
    OBVIOUS
  <2> DEFINE y == [runs[r] EXCEPT !.step = "select", !.adapter = ad]
  <2>2. ad \in {"redeem", "execute"}
    BY <2>1
  <2>3. runs' = [runs EXCEPT ![r] = y] /\ runs'[r] = y
    BY <1>1, <1>5, <2>1 DEF Dispatch
  <2>4. y \in RunRecords
    BY <1>1, <2>2 DEF RunRecords
  <2>5. /\ y.op = runs[r].op /\ y.step = "select" /\ y.adapter = ad /\ y.answer = runs[r].answer
        /\ y.tree = runs[r].tree /\ y.pages = runs[r].pages /\ y.result = runs[r].result
    BY <1>1, <2>2 DEF RunRecords
  <2> HIDE DEF y
  <2>6. CheckAccess(runs[r].op)
    BY <1>2, CallFacts DEF SupervisorFacts
  <2>7. SupervisorFacts(y)
    BY <1>2, <2>5, CallFacts DEF SupervisorFacts, Definite
  <2>8. AdapterFacts(y, writes[r])
    BY <1>2, <1>5, <2>2, <2>5, <2>6, CallFacts DEF AdapterFacts
  <2>9. ReadFacts(y)
    BY <1>2, <2>2, <2>5, CallFacts DEF ReadFacts
  <2> QED
    BY <1>3, <2>3, <2>4, <2>5, <2>7, <2>8, <2>9, QuietCallMoves DEF Unasked
<1> QED
  BY <1>4, <1>5 DEF Dispatch

\* ContextEnds.
LEMMA ContextEndsInv ==
  ASSUME HostInv, NEW r \in HostOps, NEW why \in {"deadline", "cancelled"}, ContextEnds(r, why)
  PROVE  HostInv'
<1> DEFINE y == [runs[r] EXCEPT !.ctx = why]
<1>1. runs \in [HostOps -> RunRecords] /\ runs[r] \in RunRecords
  BY CallFacts
<1>2. runs' = [runs EXCEPT ![r] = y] /\ runs'[r] = y
  BY <1>1 DEF ContextEnds
<1>3. y \in RunRecords
  BY <1>1 DEF RunRecords
<1>4. /\ y.op = runs[r].op /\ y.step = runs[r].step /\ y.adapter = runs[r].adapter /\ y.answer = runs[r].answer
      /\ y.tree = runs[r].tree /\ y.pages = runs[r].pages /\ y.result = runs[r].result
  BY <1>1 DEF RunRecords
<1> HIDE DEF y
<1>5. SupervisorFacts(y) /\ AdapterFacts(y, writes[r]) /\ ReadFacts(y)
  BY <1>4, CallFacts DEF SupervisorFacts, AdapterFacts, ReadFacts
<1>6. UNCHANGED <<policy, writes, sourceVersion, secretVars>>
  BY DEF ContextEnds
<1> QED
  BY <1>2, <1>3, <1>4, <1>5, <1>6, QuietCallMoves

\* What the supervisor makes of an answer: a success only of one.
LEMMA ResultIsVerdict ==
  ASSUME NEW a \in Answers
  PROVE  ResultOf(a) \in HostStatuses /\ (ResultOf(a) = "succeeded" => a.status = "succeeded")
<1>1. CASE a.err \in Errors
  BY <1>1 DEF ResultOf, Errors, HostStatuses
<1>2. CASE a.err = "none"
  <2>1. a.status \in HostStatuses
    BY <1>2 DEF Answers, Errors
  <2>2. ResultOf(a) \in {"execution_uncertain", "resource_exhausted", a.status}
    BY <1>2 DEF ResultOf
  <2> QED
    BY <2>1, <2>2 DEF HostStatuses
<1> QED
  BY <1>1, <1>2 DEF Answers

\* Select.
LEMMA SelectInv ==
  ASSUME HostInv, NEW r \in HostOps, Select(r)
  PROVE  HostInv'
<1>1. runs \in [HostOps -> RunRecords] /\ runs[r] \in RunRecords
  BY CallFacts
<1>2. UNCHANGED <<policy, writes, sourceVersion, secretVars>>
  BY DEF Select
<1>3. PICK st \in HostStatuses :
        /\ Finish(r, st)
        /\ st \in Definite => runs[r].adapter \in {"none", "ended"}
        /\ st = "succeeded" => runs[r].answer # NoAnswer /\ runs[r].answer.status = "succeeded"
  <2>1. CASE Timeout(r)
    <3>1. PICK st : st = IF runs[r].ctx = "deadline" THEN "resource_exhausted" ELSE "execution_uncertain"
      OBVIOUS
    <3>2. Finish(r, st)
      BY <2>1, <3>1 DEF Timeout
    <3>3. st \in HostStatuses /\ st \notin Definite /\ st # "succeeded"
      BY <3>1 DEF HostStatuses, Definite
    <3> QED
      BY <3>2, <3>3
  <2>2. CASE runs[r].answer # NoAnswer /\ Finish(r, ResultOf(runs[r].answer))
    <3>1. runs[r].answer \in Answers
      BY <1>1, <2>2 DEF RunRecords
    <3>2. runs[r].adapter = "ended"
      BY <2>2, CallFacts DEF AdapterFacts
    <3> QED
      BY <2>2, <3>1, <3>2, ResultIsVerdict
  <2> QED
    BY <2>1, <2>2 DEF Select
<1>4. runs[r].step = "select"
  BY DEF Select
<1>5. /\ runs' = [runs EXCEPT ![r] = runs'[r]] /\ runs'[r] \in RunRecords /\ runs'[r].step = "done"
      /\ SupervisorFacts(runs'[r]) /\ AdapterFacts(runs'[r], writes[r]) /\ ReadFacts(runs'[r])
  BY <1>3, <1>4, FinishKeeps
<1> QED
  BY <1>2, <1>5, QuietCallMoves DEF Unasked

\* The goroutine answers: what it wrote is what the answer claims.
LEMMA AnswerKeeps ==
  ASSUME HostInv, NEW r \in HostOps, NEW a \in Answers, NEW w \in {0, 1}, Answer(r, a),
         runs[r].adapter \in {"redeem", "execute", "send", "fetch", "backoff"},
         w = 1 => runs[r].op.family = "webhook" /\ runs[r].op.flaw = "none",
         a.status = "succeeded" /\ runs[r].op.family = "webhook" => w = 1,
         ~(a.status = "succeeded" /\ runs[r].op.family \in Readers)
  PROVE  /\ runs' = [runs EXCEPT ![r] = runs'[r]] /\ runs'[r] \in RunRecords /\ runs'[r].step = runs[r].step
         /\ SupervisorFacts(runs'[r]) /\ AdapterFacts(runs'[r], w) /\ ReadFacts(runs'[r])
<1> DEFINE y == [runs[r] EXCEPT !.adapter = "ended", !.answer = a]
<1>1. runs \in [HostOps -> RunRecords] /\ runs[r] \in RunRecords
  BY CallFacts
<1>2. runs' = [runs EXCEPT ![r] = y] /\ runs'[r] = y
  BY <1>1 DEF Answer
<1>3. y \in RunRecords
  BY <1>1 DEF RunRecords
<1>4. /\ y.op = runs[r].op /\ y.step = runs[r].step /\ y.adapter = "ended" /\ y.answer = a
      /\ y.tree = runs[r].tree /\ y.pages = runs[r].pages /\ y.result = runs[r].result
  BY <1>1 DEF RunRecords
<1> HIDE DEF y
<1>5. SupervisorFacts(y)
  BY <1>4, CallFacts DEF SupervisorFacts, Definite
<1>6. AdapterFacts(y, w)
  BY <1>4, CallFacts DEF AdapterFacts
<1>7. ReadFacts(y)
  BY <1>4, CallFacts DEF ReadFacts
<1> QED
  BY <1>2, <1>3, <1>4, <1>5, <1>6, <1>7

\* The goroutine goes on to another of its steps, having written nothing.
LEMMA GoesOn ==
  ASSUME HostInv, NEW r \in HostOps, NEW ad \in {"execute", "send", "fetch", "backoff"}, NEW n \in 0..MaxRateRetries,
         runs' = [runs EXCEPT ![r].adapter = ad, ![r].retry = n],
         runs[r].adapter \in {"redeem", "execute", "send", "fetch", "backoff"},
         ad = "execute" => runs[r].adapter = "redeem",
         ad = "send" => runs[r].op.family = "webhook",
         ad = "fetch" => runs[r].op.family \in Readers,
         ad = "backoff" => runs[r].op.family \in Readers \cup {"webhook"} /\ runs[r].adapter \in {"send", "fetch"},
         ad # "execute" /\ runs[r].op.family = "webhook" => runs[r].op.flaw = "none"
  PROVE  /\ runs' = [runs EXCEPT ![r] = runs'[r]] /\ runs'[r] \in RunRecords /\ runs'[r].step = runs[r].step
         /\ SupervisorFacts(runs'[r]) /\ AdapterFacts(runs'[r], writes[r]) /\ ReadFacts(runs'[r])
<1> DEFINE y == [runs[r] EXCEPT !.adapter = ad, !.retry = n]
<1>1. runs \in [HostOps -> RunRecords] /\ runs[r] \in RunRecords
  BY CallFacts
<1>2. runs' = [runs EXCEPT ![r] = y] /\ runs'[r] = y
  BY <1>1
<1>3. y \in RunRecords
  BY <1>1 DEF RunRecords
<1>4. /\ y.op = runs[r].op /\ y.step = runs[r].step /\ y.adapter = ad /\ y.answer = runs[r].answer
      /\ y.tree = runs[r].tree /\ y.pages = runs[r].pages /\ y.result = runs[r].result
  BY <1>1 DEF RunRecords
<1> HIDE DEF y
<1>5. SupervisorFacts(y)
  BY <1>4, CallFacts DEF SupervisorFacts, Definite
<1>6. AdapterFacts(y, writes[r])
  BY <1>4, CallFacts DEF AdapterFacts
<1>7. ReadFacts(y)
  <2>1. runs[r].adapter \in {"redeem", "execute"} => Len(runs[r].pages) = 0
    BY CallFacts DEF ReadFacts
  <2>2. Len(runs[r].pages) < SourcePages /\ Len(runs[r].pages) < MaxPages
    BY <2>1, CallFacts, HostAssumption DEF ReadFacts
  <2> QED
    BY <1>4, <2>2, CallFacts DEF ReadFacts
<1> QED
  BY <1>2, <1>3, <1>4, <1>5, <1>6, <1>7

\* Errors and refusals are answers, and no success.
LEMMA AnswersTyped ==
  /\ \A st \in HostStatuses, z \in OutputSizes \cup {0} : Response(st, z) \in Answers /\ Response(st, z).status = st
  /\ \A e \in Errors : Error(e) \in Answers /\ Error(e).status # "succeeded"
BY DEF Response, Error, Answers

\* A step of the goroutine that neither writes nor uses the handle.
LEMMA QuietAdapterInv ==
  ASSUME HostInv, NEW r \in HostOps,
         UNCHANGED <<policy, writes, sourceVersion, secretVars>>,
         runs' = [runs EXCEPT ![r] = runs'[r]], runs'[r] \in RunRecords, runs'[r].step = runs[r].step,
         SupervisorFacts(runs'[r]), AdapterFacts(runs'[r], writes[r]), ReadFacts(runs'[r])
  PROVE  HostInv'
BY QuietCallMoves

\* A refusal, or an error, of a goroutine that has written nothing.
LEMMA RefusalKeeps ==
  ASSUME HostInv, NEW r \in HostOps, NEW a \in Answers, a.status # "succeeded", Answer(r, a),
         runs[r].adapter \in {"redeem", "execute", "send", "fetch", "backoff"}
  PROVE  /\ runs' = [runs EXCEPT ![r] = runs'[r]] /\ runs'[r] \in RunRecords /\ runs'[r].step = runs[r].step
         /\ SupervisorFacts(runs'[r]) /\ AdapterFacts(runs'[r], writes[r]) /\ ReadFacts(runs'[r])
<1>1. writes[r] = 0
  BY CallFacts DEF AdapterFacts
<1> QED
  BY <1>1, AnswerKeeps

\* RedeemGrant.
LEMMA RedeemGrantInv ==
  ASSUME HostInv, NEW r \in HostOps, RedeemGrant(r)
  PROVE  HostInv'
<1>1. runs \in [HostOps -> RunRecords] /\ runs[r] \in RunRecords /\ writes \in [HostOps -> Nat]
  BY CallFacts
<1>2. runs[r].adapter = "redeem" /\ runs[r].step \notin Unasked
  BY CallFacts DEF RedeemGrant, AdapterFacts, Unasked
<1>3. UNCHANGED <<policy, writes, sourceVersion>>
  BY DEF RedeemGrant
<1>4. /\ runs' = [runs EXCEPT ![r] = runs'[r]] /\ runs'[r] \in RunRecords /\ runs'[r].step = runs[r].step
      /\ SupervisorFacts(runs'[r]) /\ AdapterFacts(runs'[r], writes[r]) /\ ReadFacts(runs'[r])
  <2>1. CASE runs' = [runs EXCEPT ![r].adapter = "execute"]
    <3>1. runs[r].retry \in 0..MaxRateRetries
      BY <1>1 DEF RunRecords
    <3>2. runs' = [runs EXCEPT ![r].adapter = "execute", ![r].retry = runs[r].retry]
      BY <1>1, <2>1 DEF RunRecords
    <3> QED
      BY <1>2, <3>1, <3>2, GoesOn
  <2>2. CASE Answer(r, Response("denied", 0))
    <3>1. Response("denied", 0) \in Answers /\ Response("denied", 0).status # "succeeded"
      BY AnswersTyped DEF HostStatuses, Reportable
    <3> QED
      BY <1>2, <2>2, <3>1, RefusalKeeps
  <2>3. CASE runs[r].ctx # "live" /\ Answer(r, Error(runs[r].ctx))
    <3>1. runs[r].ctx \in Errors
      BY <1>1, <2>3 DEF RunRecords, Errors
    <3> QED
      BY <1>2, <2>3, <3>1, AnswersTyped, RefusalKeeps
  <2> QED
    BY <2>1, <2>2, <2>3 DEF RedeemGrant
<1>5. \A q \in HostOps : runs'[q].step \in Unasked => runs[q].step \in Unasked
  BY <1>1, <1>4
<1>6. Redeem(r, r) \/ UNCHANGED secretVars
  BY DEF RedeemGrant
<1>7. SecretTypeOK' /\ HandleFacts'
  BY <1>2, <1>5, <1>6, RedeemFacts, SecretsKept
<1> QED
  BY <1>1, <1>3, <1>4, <1>7, OneCallMoves

\* Execute: what a family lets through has none of its flaws.
LEMMA ExecuteInv ==
  ASSUME HostInv, NEW r \in HostOps, Execute(r)
  PROVE  HostInv'
<1>1. runs \in [HostOps -> RunRecords] /\ runs[r] \in RunRecords
  BY CallFacts
<1>2. runs[r].adapter = "execute" /\ runs[r].op.family # "process"
  BY DEF Execute
<1>3. UNCHANGED <<policy, writes, sourceVersion, secretVars>>
  BY DEF Execute
<1>4. CASE Answer(r, Response("denied", 0))
  <2>1. Response("denied", 0) \in Answers /\ Response("denied", 0).status # "succeeded"
    BY AnswersTyped DEF HostStatuses, Reportable
  <2> QED
    BY <1>2, <1>3, <1>4, <2>1, RefusalKeeps, QuietAdapterInv
<1>5. CASE ~Refused(runs[r].op) /\ runs' = [runs EXCEPT ![r].adapter = IF runs[r].op.family = "webhook" THEN "send" ELSE "fetch"]
  <2>1. PICK ad : ad = IF runs[r].op.family = "webhook" THEN "send" ELSE "fetch"
    OBVIOUS
  <2>2. runs[r].op \in OpSpecs /\ runs[r].op.flaw # "unnamed"
    BY <1>2, CallFacts DEF SupervisorFacts, AdapterFacts
  <2>3. runs[r].op.family \in Readers \cup {"webhook"}
    BY <1>2, <2>2, HostAssumption DEF FamilyFlaws, Readers
  <2>4. runs[r].op.family = "webhook" => runs[r].op.flaw = "none"
    BY <1>5, <2>2, HostAssumption DEF Refused, Capability, EndpointDeclared, FamilyFlaws
  <2>5. runs[r].retry \in 0..MaxRateRetries
    BY <1>1 DEF RunRecords
  <2>6. runs' = [runs EXCEPT ![r].adapter = ad, ![r].retry = runs[r].retry]
    BY <1>1, <1>5, <2>1 DEF RunRecords
  <2>7. ad \in {"execute", "send", "fetch", "backoff"} /\ ad # "execute" /\ ad # "backoff"
        /\ (ad = "send" => runs[r].op.family = "webhook") /\ (ad = "fetch" => runs[r].op.family \in Readers)
    BY <2>1, <2>3
  <2>8. /\ runs' = [runs EXCEPT ![r] = runs'[r]] /\ runs'[r] \in RunRecords /\ runs'[r].step = runs[r].step
        /\ SupervisorFacts(runs'[r]) /\ AdapterFacts(runs'[r], writes[r]) /\ ReadFacts(runs'[r])
    BY <1>2, <2>4, <2>5, <2>6, <2>7, GoesOn
  <2> QED
    BY <1>3, <2>8, QuietAdapterInv
<1> QED
  BY <1>4, <1>5 DEF Execute

\* AdapterPanics.
LEMMA PanicInv ==
  ASSUME HostInv, NEW r \in HostOps, AdapterPanics(r)
  PROVE  HostInv'
<1>1. runs[r].adapter \in {"send", "fetch"} /\ Answer(r, Error("panic"))
  BY DEF AdapterPanics
<1>2. Error("panic") \in Answers /\ Error("panic").status # "succeeded"
  BY AnswersTyped DEF Errors
<1>3. UNCHANGED <<policy, writes, sourceVersion, secretVars>>
  BY DEF AdapterPanics
<1> QED
  BY <1>1, <1>2, <1>3, RefusalKeeps, QuietAdapterInv

\* A rate limit: another attempt, or a failure once they are used up.
LEMMA RateLimitedKeeps ==
  ASSUME HostInv, NEW r \in HostOps, RateLimited(r), runs[r].adapter \in {"send", "fetch"}
  PROVE  /\ runs' = [runs EXCEPT ![r] = runs'[r]] /\ runs'[r] \in RunRecords /\ runs'[r].step = runs[r].step
         /\ SupervisorFacts(runs'[r]) /\ AdapterFacts(runs'[r], writes[r]) /\ ReadFacts(runs'[r])
<1>1. runs \in [HostOps -> RunRecords] /\ runs[r] \in RunRecords
  BY CallFacts
<1>2. runs[r].retry \in 0..MaxRateRetries
  BY <1>1 DEF RunRecords
<1>3. CASE runs[r].retry >= MaxRateRetries
  <2>1. Answer(r, Response("failed", 0))
    BY <1>3 DEF RateLimited
  <2>2. Response("failed", 0) \in Answers /\ Response("failed", 0).status # "succeeded"
    BY AnswersTyped DEF HostStatuses, Reportable
  <2> QED
    BY <2>1, <2>2, RefusalKeeps
<1>4. CASE ~(runs[r].retry >= MaxRateRetries)
  <2>1. runs[r].retry + 1 \in 0..MaxRateRetries
    BY <1>2, <1>4, HostAssumption
  <2>2. runs' = [runs EXCEPT ![r].adapter = "backoff", ![r].retry = runs[r].retry + 1]
    BY <1>1, <1>4 DEF RateLimited, RunRecords
  <2>3. /\ runs[r].op.family \in Readers \cup {"webhook"}
        /\ runs[r].op.family = "webhook" => runs[r].op.flaw = "none"
    BY CallFacts DEF AdapterFacts, Readers
  <2> QED
    BY <2>1, <2>2, <2>3, GoesOn
<1> QED
  BY <1>3, <1>4

\* Backoff.
LEMMA BackoffInv ==
  ASSUME HostInv, NEW r \in HostOps, Backoff(r)
  PROVE  HostInv'
<1>1. runs \in [HostOps -> RunRecords] /\ runs[r] \in RunRecords
  BY CallFacts
<1>2. runs[r].adapter = "backoff"
  BY DEF Backoff
<1>3. UNCHANGED <<policy, writes, sourceVersion, secretVars>>
  BY DEF Backoff
<1>4. CASE Answer(r, Response("failed", 0))
  <2>1. Response("failed", 0) \in Answers /\ Response("failed", 0).status # "succeeded"
    BY AnswersTyped DEF HostStatuses, Reportable
  <2> QED
    BY <1>2, <1>3, <1>4, <2>1, RefusalKeeps, QuietAdapterInv
<1>5. CASE runs' = [runs EXCEPT ![r].adapter = IF runs[r].op.family = "webhook" THEN "send" ELSE "fetch"]
  <2>1. PICK ad : ad = IF runs[r].op.family = "webhook" THEN "send" ELSE "fetch"
    OBVIOUS
  <2>2. /\ runs[r].op.family \in Readers \cup {"webhook"}
        /\ runs[r].op.family = "webhook" => runs[r].op.flaw = "none"
    BY <1>2, CallFacts DEF AdapterFacts, Readers
  <2>3. runs[r].retry \in 0..MaxRateRetries
    BY <1>1 DEF RunRecords
  <2>4. runs' = [runs EXCEPT ![r].adapter = ad, ![r].retry = runs[r].retry]
    BY <1>1, <1>5, <2>1 DEF RunRecords
  <2>5. ad \in {"execute", "send", "fetch", "backoff"} /\ ad # "execute" /\ ad # "backoff"
        /\ (ad = "send" => runs[r].op.family = "webhook") /\ (ad = "fetch" => runs[r].op.family \in Readers)
    BY <2>1, <2>2
  <2>6. /\ runs' = [runs EXCEPT ![r] = runs'[r]] /\ runs'[r] \in RunRecords /\ runs'[r].step = runs[r].step
        /\ SupervisorFacts(runs'[r]) /\ AdapterFacts(runs'[r], writes[r]) /\ ReadFacts(runs'[r])
    BY <1>2, <2>2, <2>3, <2>4, <2>5, GoesOn
  <2> QED
    BY <1>3, <2>6, QuietAdapterInv
<1> QED
  BY <1>4, <1>5 DEF Backoff

\* Send: whatever the endpoint did, it did it at most once before the answer,
\* and a success is claimed only of a delivery.
LEMMA SendInv ==
  ASSUME HostInv, NEW r \in HostOps, Send(r)
  PROVE  HostInv'
<1>1. runs \in [HostOps -> RunRecords] /\ runs[r] \in RunRecords /\ writes \in [HostOps -> Nat]
  BY CallFacts
<1>2. runs[r].adapter = "send" /\ writes[r] = 0 /\ runs[r].op.family = "webhook" /\ runs[r].op.flaw = "none"
  BY CallFacts DEF Send, AdapterFacts
<1>3. UNCHANGED <<policy, sourceVersion, secretVars>>
  BY DEF Send
<1>4. "webhook" \notin Readers
  BY DEF Readers
<1>5. Writes(r) => writes' = [writes EXCEPT ![r] = 1] /\ writes'[r] = 1
  BY <1>1, <1>2 DEF Writes
<1>6. /\ writes' = [writes EXCEPT ![r] = writes'[r]] /\ writes'[r] \in {0, 1}
      /\ runs' = [runs EXCEPT ![r] = runs'[r]] /\ runs'[r] \in RunRecords /\ runs'[r].step = runs[r].step
      /\ SupervisorFacts(runs'[r]) /\ AdapterFacts(runs'[r], writes'[r]) /\ ReadFacts(runs'[r])
  <2>1. ASSUME NEW size \in OutputSizes, Writes(r), Answer(r, Response("succeeded", size)) PROVE <1>6!:
    <3>1. Response("succeeded", size) \in Answers
      BY AnswersTyped DEF HostStatuses, Reportable
    <3> QED
      BY <1>1, <1>2, <1>4, <1>5, <2>1, <3>1, AnswerKeeps
  <2>2. CASE UNCHANGED writes /\ RateLimited(r)
    BY <1>1, <1>2, <2>2, RateLimitedKeeps
  <2>3. CASE (Writes(r) \/ UNCHANGED writes) /\ Answer(r, Response("failed", 0))
    <3>1. Response("failed", 0) \in Answers /\ Response("failed", 0).status # "succeeded"
      BY AnswersTyped DEF HostStatuses, Reportable
    <3>2. writes' = [writes EXCEPT ![r] = writes'[r]] /\ writes'[r] \in {0, 1}
      BY <1>1, <1>2, <1>5, <2>3
    <3> QED
      BY <1>2, <1>4, <2>3, <3>1, <3>2, AnswerKeeps
  <2>4. CASE (Writes(r) \/ UNCHANGED writes) /\ Answer(r, Error("dispatch"))
    <3>1. Error("dispatch") \in Answers /\ Error("dispatch").status # "succeeded"
      BY AnswersTyped DEF Errors
    <3>2. writes' = [writes EXCEPT ![r] = writes'[r]] /\ writes'[r] \in {0, 1}
      BY <1>1, <1>2, <1>5, <2>4
    <3> QED
      BY <1>2, <1>4, <2>4, <3>1, <3>2, AnswerKeeps
  <2> QED
    BY <2>1, <2>2, <2>3, <2>4 DEF Send, SendLost
<1>7. \A q \in HostOps : runs'[q].step \in Unasked => runs[q].step \in Unasked
  BY <1>1, <1>6
<1>8. SecretTypeOK' /\ HandleFacts'
  BY <1>3, <1>7, SecretsKept
<1> QED
  BY <1>3, <1>6, <1>8, OneCallMoves

\* A further page changes the first one only if there was none.
LEMMA FirstNamingKept ==
  ASSUME NEW old \in Seq(PageRecords), NEW new \in Seq(PageRecords),
         Len(new) = Len(old) + 1, \A k \in 1..Len(old) : new[k] = old[k], HasFirst(old)
  PROVE  HasFirst(new)
<1>1. /\ DOMAIN old = 1..Len(old) /\ DOMAIN new = 1..(Len(old) + 1) /\ Len(old) \in Nat
      /\ Naming(old) \subseteq Naming(new)
  BY DEF Naming
<1>2. \A m \in Naming(new) : m \in Naming(old) \/ m = Len(old) + 1
  BY <1>1 DEF Naming
<1>3. CASE Naming(old) = {}
  BY <1>1, <1>2, <1>3 DEF HasFirst
<1>4. CASE Naming(old) # {}
  <2>1. PICK n \in Naming(old) : \A m \in Naming(old) : n <= m
    BY <1>4 DEF HasFirst
  <2>2. n \in 1..Len(old)
    BY <1>1 DEF Naming
  <2> QED
    BY <1>1, <1>2, <2>1, <2>2 DEF HasFirst
<1> QED
  BY <1>3, <1>4

\* The version claimed is that of the first page that names its source.
LEMMA ReportedIsFirst ==
  ASSUME NEW pages \in Seq(PageRecords), InOrder(pages), HasFirst(pages)
  PROVE  /\ \A n \in 1..Len(pages) : pages[n].named => ReportedVersion(pages) <= pages[n].version
         /\ ReportedVersion(pages) = NoVersion <=> Naming(pages) = {}
<1>1. Naming(pages) = {n \in 1..Len(pages) : pages[n].named}
  BY DEF Naming
<1>2. CASE Naming(pages) = {}
  BY <1>1, <1>2 DEF ReportedVersion
<1>3. CASE Naming(pages) # {}
  <2>1. PICK first : first = CHOOSE n \in Naming(pages) : \A m \in Naming(pages) : n <= m
    OBVIOUS
  <2>2. first \in Naming(pages) /\ \A m \in Naming(pages) : first <= m
    BY <1>3, <2>1 DEF HasFirst
  <2>3. ReportedVersion(pages) = pages[first].version
    BY <1>3, <2>1 DEF ReportedVersion
  <2>4. first \in 1..Len(pages) /\ pages[first] \in PageRecords
    BY <1>1, <2>2
  <2>5. pages[first].version # NoVersion
    BY <2>4, HostAssumption DEF PageRecords, NoVersion
  <2>6. \A n \in 1..Len(pages) : pages[n].named => pages[first].version <= pages[n].version
    BY <1>1, <2>2, <2>4 DEF InOrder
  <2> QED
    BY <1>3, <2>3, <2>5, <2>6
<1> QED
  BY <1>2, <1>3

\* Fetch: the next page, of the version the source is at now.
LEMMA FetchInv ==
  ASSUME HostInv, NEW r \in HostOps, Fetch(r)
  PROVE  HostInv'
<1>1. runs \in [HostOps -> RunRecords] /\ runs[r] \in RunRecords
  BY CallFacts
<1>2. /\ runs[r].adapter = "fetch" /\ runs[r].op.family \in Readers /\ runs[r].op.family # "webhook"
      /\ runs[r].answer = NoAnswer /\ writes[r] = 0 /\ runs[r].result # "succeeded"
  BY CallFacts DEF Fetch, AdapterFacts, SupervisorFacts, Definite, Readers
<1>3. UNCHANGED <<policy, writes, sourceVersion, secretVars>>
  BY DEF Fetch
<1>4. CASE RateLimited(r)
  BY <1>2, <1>3, <1>4, RateLimitedKeeps, QuietAdapterInv
<1>5. CASE \E st \in {"denied", "failed"} : Answer(r, Response(st, 0))
  <2>1. PICK st \in {"denied", "failed"} : Answer(r, Response(st, 0))
    BY <1>5
  <2>2. Response(st, 0) \in Answers /\ Response(st, 0).status # "succeeded"
    BY AnswersTyped DEF HostStatuses, Reportable
  <2> QED
    BY <1>2, <1>3, <2>1, <2>2, RefusalKeeps, QuietAdapterInv
<1>6. ASSUME NEW f \in SUBSET Fields, NEW named \in BOOLEAN, Valid(f),
             LET n == Len(runs[r].pages) + 1
             IN  runs' = [runs EXCEPT ![r].pages = Append(@, Page(n, f, named)),
                            ![r].retry = 0,
                            ![r].adapter = IF n < SourcePages /\ n < MaxPages THEN @ ELSE "ended",
                            ![r].answer = IF n < SourcePages /\ n < MaxPages THEN @ ELSE Response("succeeded", 0)]
      PROVE  HostInv'
  <2>1. PICK n : n = Len(runs[r].pages) + 1
    OBVIOUS
  <2>2. PICK p : p = Page(n, f, named)
    OBVIOUS
  <2>3. PICK ad : ad = IF n < SourcePages /\ n < MaxPages THEN "fetch" ELSE "ended"
    OBVIOUS
  <2>4. PICK an : an = IF n < SourcePages /\ n < MaxPages THEN NoAnswer ELSE Response("succeeded", 0)
    OBVIOUS
  <2>5. runs[r].pages \in Seq(PageRecords) /\ n \in Nat /\ n > 0
    BY <1>1, <2>1 DEF RunRecords
  <2>6. Masked(f) = DeclaredFields \ RedactedFields /\ sourceVersion \in 1..MaxSourceVersion
    BY <1>6 DEF Masked, Valid, HostInv
  <2>7. p \in PageRecords /\ p.page = n /\ p.version = sourceVersion /\ p.shown = DeclaredFields \ RedactedFields
    BY <2>2, <2>5, <2>6, HostAssumption DEF PageRecords, Page
  <2>8. PICK ps : ps = Append(runs[r].pages, p)
    OBVIOUS
  <2>9. /\ ps \in Seq(PageRecords) /\ Len(ps) = n /\ ps[n] = p
        /\ \A k \in 1..Len(runs[r].pages) : ps[k] = runs[r].pages[k]
    BY <2>1, <2>5, <2>7, <2>8
  <2>10. /\ ad \in {"fetch", "ended"} /\ an \in Answers \cup {NoAnswer}
         /\ ad = "fetch" => n < SourcePages /\ n < MaxPages /\ an = NoAnswer
         /\ ad # "fetch" => ~(n < SourcePages /\ n < MaxPages)
    <3>1. Response("succeeded", 0) \in Answers
      BY AnswersTyped DEF HostStatuses, Reportable
    <3> QED
      BY <2>3, <2>4, <3>1
  <2> DEFINE y == [runs[r] EXCEPT !.pages = ps, !.retry = 0, !.adapter = ad, !.answer = an]
  <2>11. runs' = [runs EXCEPT ![r] = y] /\ runs'[r] = y
    BY <1>1, <1>2, <1>6, <2>1, <2>2, <2>3, <2>4, <2>8 DEF RunRecords
  <2>12. y \in RunRecords
    <3>1. 0 \in 0..MaxRateRetries /\ ad \in {"none", "redeem", "execute", "send", "fetch", "backoff", "child", "ended"}
      BY <2>10, HostAssumption
    <3>2. ps \in Seq(PageRecords) /\ an \in Answers \cup {NoAnswer}
      BY <2>9, <2>10
    <3> QED
      BY <1>1, <3>1, <3>2 DEF RunRecords
  <2>13. /\ y.op = runs[r].op /\ y.step = runs[r].step /\ y.adapter = ad /\ y.answer = an
         /\ y.tree = runs[r].tree /\ y.pages = ps /\ y.result = runs[r].result
    BY <1>1 DEF RunRecords
  <2> HIDE DEF y
  <2>14. SupervisorFacts(y)
    BY <1>2, <2>10, <2>13, CallFacts DEF SupervisorFacts, Definite
  <2>15. AdapterFacts(y, writes[r])
    BY <1>2, <2>10, <2>13, CallFacts DEF AdapterFacts
  <2>16. ReadFacts(y)
    <3>1. Len(runs[r].pages) < SourcePages /\ Len(runs[r].pages) < MaxPages
      BY <1>2, CallFacts DEF ReadFacts
    <3>2. n <= SourcePages /\ n <= MaxPages /\ (ad # "fetch" => n \in {SourcePages, MaxPages})
      BY <2>1, <2>5, <2>10, <3>1, HostAssumption
    <3>3. /\ \A k \in 1..Len(runs[r].pages) :
               /\ runs[r].pages[k].page = k /\ runs[r].pages[k].shown = DeclaredFields \ RedactedFields
               /\ runs[r].pages[k].version <= sourceVersion
          /\ InOrder(runs[r].pages) /\ HasFirst(runs[r].pages)
      BY CallFacts DEF ReadFacts
    <3>4. \A k \in 1..n : k # n => k \in 1..Len(runs[r].pages) /\ ps[k] = runs[r].pages[k]
      BY <2>1, <2>5, <2>9
    <3>5. \A k \in 1..n :
            /\ ps[k].page = k /\ ps[k].shown = DeclaredFields \ RedactedFields
            /\ ps[k].version <= sourceVersion
      BY <2>6, <2>7, <2>9, <3>3, <3>4
    <3>6. InOrder(ps)
      <4> SUFFICES ASSUME NEW k \in 1..n, NEW m \in 1..n, k <= m
                   PROVE  ps[k].version <= ps[m].version
        BY <2>9 DEF InOrder
      <4>1. CASE m = n
        BY <2>7, <2>9, <3>5, <4>1
      <4>2. CASE m # n
        BY <2>5, <3>3, <3>4, <4>2 DEF InOrder
      <4> QED
        BY <4>1, <4>2
    <3>7. HasFirst(ps)
      BY <2>1, <2>5, <2>9, <3>3, FirstNamingKept
    <3> QED
      BY <2>9, <2>10, <2>13, <3>2, <3>5, <3>6, <3>7 DEF ReadFacts
  <2> QED
    BY <1>3, <2>11, <2>12, <2>13, <2>14, <2>15, <2>16, QuietAdapterInv
<1>7. CASE Answer(r, Response("failed", 0))
  BY <1>5, <1>7
<1> QED
  BY <1>4, <1>5, <1>6, <1>7 DEF Fetch

\* SourceMoves: versions already read are no newer for it.
LEMMA SourceMovesInv ==
  ASSUME HostInv, SourceMoves
  PROVE  HostInv'
<1>1. sourceVersion' \in 1..MaxSourceVersion /\ sourceVersion' = sourceVersion + 1
  BY HostAssumption DEF HostInv, SourceMoves
<1>2. UNCHANGED <<policy, runs, writes, secretVars>>
  BY DEF SourceMoves
<1>3. SecretTypeOK' /\ HandleFacts'
  BY <1>2, SecretsKept
<1>4. ASSUME NEW q \in HostOps PROVE ReadFacts(runs[q])'
  <2>1. \A n \in 1..Len(runs[q].pages) : runs[q].pages[n].version \in Nat
    <3>1. runs[q].pages \in Seq(PageRecords)
      BY CallFacts DEF RunRecords
    <3>2. \A n \in 1..Len(runs[q].pages) : runs[q].pages[n] \in PageRecords
      BY <3>1
    <3> QED
      BY <3>2 DEF PageRecords
  <2>2. \A n \in 1..Len(runs[q].pages) : runs[q].pages[n].version <= sourceVersion + 1
    <3>1. \A n \in 1..Len(runs[q].pages) : runs[q].pages[n].version <= sourceVersion
      BY CallFacts DEF ReadFacts
    <3>2. sourceVersion \in Nat
      BY DEF HostInv
    <3> QED
      BY <2>1, <3>1, <3>2
  <2> QED
    BY <1>1, <1>2, <2>2, CallFacts DEF ReadFacts
<1>5. \A q \in HostOps : SupervisorFacts(runs[q])' /\ AdapterFacts(runs[q], writes[q])'
  BY <1>2, CallFacts DEF SupervisorFacts, AdapterFacts, CheckAccess, AllowPath, AllowEgress
<1>6. PolicyDerived'
  BY <1>2 DEF HostInv, PolicyDerived
<1> QED
  BY <1>1, <1>2, <1>3, <1>4, <1>5, <1>6 DEF HostInv

-----------------------------------------------------------------------------
(* The process adapter.                                                    *)

\* A step of the process adapter: still a child, or an answer and no process.
LEMMA ProcessMoves ==
  ASSUME HostInv, NEW r \in HostOps,
         runs[r].adapter \in {"execute", "child"}, runs[r].op.family = "process",
         runs' = [runs EXCEPT ![r] = runs'[r]], runs'[r] \in RunRecords,
         runs'[r].op = runs[r].op, runs'[r].step = runs[r].step, runs'[r].result = runs[r].result,
         runs'[r].pages = runs[r].pages,
         \/ runs'[r].adapter = "child" /\ runs'[r].answer = NoAnswer
         \/ runs'[r].adapter = "ended" /\ runs'[r].tree = {},
         UNCHANGED <<policy, writes, sourceVersion, secretVars>>
  PROVE  HostInv'
<1>1. "process" \notin Readers /\ "process" # "webhook"
  BY DEF Readers
<1>2. SupervisorFacts(runs'[r])
  BY CallFacts DEF SupervisorFacts, Definite
<1>3. AdapterFacts(runs'[r], writes[r])
  BY <1>1, CallFacts DEF AdapterFacts
<1>4. ReadFacts(runs'[r])
  BY <1>1, CallFacts DEF ReadFacts
<1> QED
  BY <1>2, <1>3, <1>4, QuietAdapterInv

\* What is known of a live process tree.
LEMMA TreeFacts ==
  ASSUME HostInv, NEW r \in HostOps
  PROVE  /\ runs[r].tree # {} => runs[r].adapter = "child"
         /\ runs[r].adapter = "child" => runs[r].op.family = "process"
         /\ runs[r].adapter # "ended" => runs[r].answer = NoAnswer
BY CallFacts DEF AdapterFacts

\* ProcessStarts.
LEMMA ProcessStartsInv ==
  ASSUME HostInv, NEW r \in HostOps, ProcessStarts(r)
  PROVE  HostInv'
<1>1. runs \in [HostOps -> RunRecords] /\ runs[r] \in RunRecords
  BY CallFacts
<1>2. UNCHANGED <<policy, writes, sourceVersion, secretVars>>
  BY DEF ProcessStarts
<1>3. runs[r].adapter = "execute" /\ runs[r].op.family = "process" /\ runs[r].answer = NoAnswer /\ runs[r].tree = {}
  BY TreeFacts DEF ProcessStarts
<1>4. CASE runs' = [runs EXCEPT ![r].adapter = "child", ![r].tree = {"child"}]
  <2> DEFINE y == [runs[r] EXCEPT !.adapter = "child", !.tree = {"child"}]
  <2>1. runs' = [runs EXCEPT ![r] = y] /\ runs'[r] = y
    BY <1>1, <1>4
  <2>2. y \in RunRecords
    BY <1>1 DEF RunRecords
  <2>3. /\ y.op = runs[r].op /\ y.step = runs[r].step /\ y.adapter = "child" /\ y.answer = NoAnswer
        /\ y.pages = runs[r].pages /\ y.result = runs[r].result
    BY <1>1, <1>3 DEF RunRecords
  <2> HIDE DEF y
  <2> QED
    BY <1>2, <1>3, <2>1, <2>2, <2>3, ProcessMoves
<1>5. CASE Answer(r, Error("dispatch"))
  <2>1. Error("dispatch") \in Answers /\ Error("dispatch").status # "succeeded"
    BY AnswersTyped DEF Errors
  <2> QED
    BY <1>2, <1>3, <1>5, <2>1, RefusalKeeps, QuietAdapterInv
<1> QED
  BY <1>4, <1>5 DEF ProcessStarts

\* ChildSpawns.
LEMMA ChildSpawnsInv ==
  ASSUME HostInv, NEW r \in HostOps, ChildSpawns(r)
  PROVE  HostInv'
<1> DEFINE y == [runs[r] EXCEPT !.tree = @ \cup {"descendant"}]
<1>1. runs \in [HostOps -> RunRecords] /\ runs[r] \in RunRecords
  BY CallFacts
<1>2. UNCHANGED <<policy, writes, sourceVersion, secretVars>>
  BY DEF ChildSpawns
<1>3. runs[r].tree # {}
  BY DEF ChildSpawns
<1>4. runs[r].adapter = "child" /\ runs[r].op.family = "process" /\ runs[r].answer = NoAnswer
  BY <1>3, TreeFacts
<1>5. runs' = [runs EXCEPT ![r] = y] /\ runs'[r] = y
  BY <1>1 DEF ChildSpawns
<1>6. y \in RunRecords
  BY <1>1 DEF RunRecords
<1>7. /\ y.op = runs[r].op /\ y.step = runs[r].step /\ y.adapter = "child" /\ y.answer = NoAnswer
      /\ y.pages = runs[r].pages /\ y.result = runs[r].result
  BY <1>1, <1>4 DEF RunRecords
<1> HIDE DEF y
<1> QED
  BY <1>2, <1>4, <1>5, <1>6, <1>7, ProcessMoves

\* ChildExits.
LEMMA ChildExitsInv ==
  ASSUME HostInv, NEW r \in HostOps, ChildExits(r)
  PROVE  HostInv'
<1>1. runs \in [HostOps -> RunRecords] /\ runs[r] \in RunRecords
  BY CallFacts
<1>2. UNCHANGED <<policy, writes, sourceVersion, secretVars>> /\ runs[r].tree # {}
  BY DEF ChildExits
<1>3. PICK st \in Reportable, z \in OutputSizes : \E a \in {Error("dispatch"), Decoded(st, z)} :
        runs' = [runs EXCEPT ![r].tree = @ \ {"child"}, ![r].said = a]
  BY DEF ChildExits
<1>4. runs[r].adapter = "child" /\ runs[r].op.family = "process" /\ runs[r].answer = NoAnswer
  BY <1>2, TreeFacts
<1>5. PICK a \in {Error("dispatch"), Decoded(st, z)} : runs' = [runs EXCEPT ![r].tree = @ \ {"child"}, ![r].said = a]
  BY <1>3
<1>6. a \in Answers
  <2>1. Decoded(st, z) \in {Error("overflow"), Error("dispatch"), Response(st, z)}
    BY DEF Decoded
  <2>2. Error("dispatch") \in Answers /\ Error("overflow") \in Answers
    BY AnswersTyped DEF Errors
  <2>3. Response(st, z) \in Answers
    BY AnswersTyped DEF HostStatuses
  <2> QED
    BY <1>5, <2>1, <2>2, <2>3
<1> DEFINE y == [runs[r] EXCEPT !.tree = @ \ {"child"}, !.said = a]
<1>7. runs' = [runs EXCEPT ![r] = y] /\ runs'[r] = y
  BY <1>1, <1>5
<1>8. y \in RunRecords
  BY <1>1, <1>6 DEF RunRecords
<1>9. /\ y.op = runs[r].op /\ y.step = runs[r].step /\ y.adapter = "child" /\ y.answer = NoAnswer
      /\ y.pages = runs[r].pages /\ y.result = runs[r].result
  BY <1>1, <1>4 DEF RunRecords
<1> HIDE DEF y
<1> QED
  BY <1>2, <1>4, <1>7, <1>8, <1>9, ProcessMoves

\* ProcessReturns: the answer comes after the whole tree is gone.
LEMMA ProcessReturnsInv ==
  ASSUME HostInv, NEW r \in HostOps, ProcessReturns(r)
  PROVE  HostInv'
<1>1. runs \in [HostOps -> RunRecords] /\ runs[r] \in RunRecords
  BY CallFacts
<1>2. UNCHANGED <<policy, writes, sourceVersion, secretVars>>
  BY DEF ProcessReturns
<1>3. runs[r].adapter = "child" /\ runs[r].op.family = "process"
  BY TreeFacts DEF ProcessReturns
<1>4. PICK a \in Answers : runs' = [runs EXCEPT ![r].adapter = "ended", ![r].answer = a, ![r].tree = {}]
  BY DEF ProcessReturns, Reaped
<1> DEFINE y == [runs[r] EXCEPT !.adapter = "ended", !.answer = a, !.tree = {}]
<1>5. runs' = [runs EXCEPT ![r] = y] /\ runs'[r] = y
  BY <1>1, <1>4
<1>6. y \in RunRecords
  BY <1>1 DEF RunRecords
<1>7. /\ y.op = runs[r].op /\ y.step = runs[r].step /\ y.adapter = "ended" /\ y.tree = {}
      /\ y.pages = runs[r].pages /\ y.result = runs[r].result
  BY <1>1 DEF RunRecords
<1> HIDE DEF y
<1> QED
  BY <1>2, <1>3, <1>5, <1>6, <1>7, ProcessMoves

\* ChildRedeems and ChildWrites: a live process has the handle its call asked
\* for, and writes once.
LEMMA ChildActsInv ==
  ASSUME HostInv, NEW r \in HostOps, ChildRedeems(r) \/ ChildWrites(r)
  PROVE  HostInv'
<1>1. runs \in [HostOps -> RunRecords] /\ runs[r] \in RunRecords /\ writes \in [HostOps -> Nat]
  BY CallFacts
<1>2. runs[r].tree # {} /\ UNCHANGED <<policy, runs, sourceVersion>>
  BY DEF ChildRedeems, ChildWrites
<1>3. runs[r].adapter = "child" /\ runs[r].op.family = "process" /\ runs[r].answer = NoAnswer
  BY <1>2, TreeFacts
<1>4. runs[r].step \notin Unasked
  BY <1>3, CallFacts DEF AdapterFacts, Unasked
<1>5. \A q \in HostOps : runs'[q].step \in Unasked => runs[q].step \in Unasked
  BY <1>2
<1>6. runs' = [runs EXCEPT ![r] = runs'[r]] /\ runs'[r] = runs[r]
  BY <1>1, <1>2
<1>7. CASE ChildRedeems(r)
  <2>1. SecretTypeOK' /\ HandleFacts' /\ writes' = writes
    BY <1>4, <1>5, <1>7, RedeemFacts DEF ChildRedeems
  <2>2. SupervisorFacts(runs[r]) /\ AdapterFacts(runs[r], writes[r]) /\ ReadFacts(runs[r])
    BY CallFacts
  <2> QED
    BY <1>1, <1>2, <1>6, <2>1, <2>2, OneCallMoves
<1>8. CASE ChildWrites(r)
  <2>1. SecretTypeOK' /\ HandleFacts'
    BY <1>5, <1>8, SecretsKept DEF ChildWrites
  <2>2. writes' = [writes EXCEPT ![r] = writes'[r]] /\ writes'[r] = 1
    BY <1>1, <1>8 DEF ChildWrites, Writes
  <2>3. runs[r].op \in OpSpecs /\ runs[r].op.flaw # "unnamed"
    BY <1>3, CallFacts DEF SupervisorFacts, AdapterFacts
  <2>4. runs[r].op.flaw = "none"
    BY <1>3, <2>3, HostAssumption DEF FamilyFlaws
  <2>5. AdapterFacts(runs[r], 1)
    BY <1>3, <2>4, CallFacts DEF AdapterFacts
  <2>6. SupervisorFacts(runs[r]) /\ ReadFacts(runs[r])
    BY CallFacts
  <2> QED
    BY <1>1, <1>2, <1>6, <2>1, <2>2, <2>5, <2>6, OneCallMoves
<1> QED
  BY <1>7, <1>8

-----------------------------------------------------------------------------
(* The theorems.                                                           *)

\* NewSupervisor: no call has started yet.
LEMMA NewSupervisorInv ==
  ASSUME HostInv, NEW p \in Packs, NEW b \in Installs, NewSupervisor(p, b)
  PROVE  HostInv'
<1>1. policy = NoPolicy /\ b.pinned = p.digest /\ UNCHANGED <<runs, writes, sourceVersion, secretVars>>
  BY DEF NewSupervisor
<1>2. DeriveEgress(p, b) \in SUBSET UNION {c.endpoints : c \in Installs}
  BY DEF DeriveEgress
<1>3. policy' = [digest |-> p.digest, roots |-> Roots, egress |-> DeriveEgress(p, b)]
  BY DEF NewSupervisor
<1>4. policy' \in [digest : {c.digest : c \in Packs}, roots : {Roots}, egress : SUBSET UNION {c.endpoints : c \in Installs}]
  BY <1>2, <1>3
<1>5. PolicyDerived'
  BY <1>1, <1>3 DEF PolicyDerived
<1>6. SecretTypeOK' /\ HandleFacts'
  BY <1>1, SecretsKept
<1>7. \A q \in HostOps : runs[q].step = "idle" /\ runs[q].adapter = "none"
  BY <1>1, CallFacts DEF SupervisorFacts, RunRecords
<1>8. ASSUME NEW q \in HostOps
      PROVE  SupervisorFacts(runs[q])' /\ AdapterFacts(runs[q], writes[q])' /\ ReadFacts(runs[q])'
  <2>1. SupervisorFacts(runs[q])'
    BY <1>1, <1>7, CallFacts DEF SupervisorFacts
  <2>2. AdapterFacts(runs[q], writes[q])'
    BY <1>1, <1>7, CallFacts DEF AdapterFacts
  <2>3. ReadFacts(runs[q])'
    BY <1>1, CallFacts DEF ReadFacts
  <2> QED
    BY <2>1, <2>2, <2>3
<1> QED
  BY <1>1, <1>4, <1>5, <1>6, <1>8 DEF HostInv

\* A host that has run nothing.
LEMMA HostInitInv == HostInit /\ SecretInit => HostInv
<1> SUFFICES ASSUME HostInit, SecretInit PROVE HostInv
  OBVIOUS
<1>1. SecretTypeOK
  BY SecretAssumption DEF SecretInit, SecretTypeOK
<1>2. NewRun \in RunRecords
  BY HostAssumption DEF NewRun, RunRecords
<1>3. runs \in [HostOps -> RunRecords] /\ writes \in [HostOps -> Nat] /\ sourceVersion \in 1..MaxSourceVersion
  BY <1>2, HostAssumption DEF HostInit
<1>4. PolicyDerived /\ policy = NoPolicy
  BY DEF HostInit, PolicyDerived
<1>5. HandleFacts
  BY DEF SecretInit, HandleFacts
<1>6. ASSUME NEW q \in HostOps
      PROVE  SupervisorFacts(runs[q]) /\ AdapterFacts(runs[q], writes[q]) /\ ReadFacts(runs[q])
  <2>1. runs[q] = NewRun /\ writes[q] = 0
    BY DEF HostInit
  <2>2. SupervisorFacts(NewRun)
    BY DEF NewRun, SupervisorFacts, Definite
  <2>3. AdapterFacts(NewRun, 0)
    BY DEF NewRun, AdapterFacts
  <2>4. ReadFacts(NewRun)
    <3>1. InOrder(<<>>) /\ HasFirst(<<>>)
      BY DEF InOrder, HasFirst, Naming
    <3>2. /\ NewRun.adapter = "none" /\ NewRun.pages = <<>> /\ NewRun.answer = NoAnswer
          /\ Len(<<>>) = 0 /\ MaxPages \in Nat
      BY HostAssumption DEF NewRun
    <3> QED
      BY <3>1, <3>2 DEF ReadFacts
  <2> QED
    BY <2>1, <2>2, <2>3, <2>4
<1> QED
  BY <1>1, <1>3, <1>4, <1>5, <1>6 DEF HostInv

\* Every step of the host keeps the invariant.
LEMMA HostNextInv ==
  ASSUME HostInv, [HostNext]_<<hostVars, secretVars>>
  PROVE  HostInv'
<1>1. CASE UNCHANGED <<hostVars, secretVars>>
  <2>1. SecretTypeOK' /\ HandleFacts'
    BY <1>1, SecretsKept DEF hostVars
  <2> QED
    BY <1>1, <2>1 DEF HostInv, hostVars, PolicyDerived, SupervisorFacts, AdapterFacts, ReadFacts, CheckAccess, AllowPath, AllowEgress
<1>2. CASE ProviderStep /\ UNCHANGED hostVars
  <2>1. SecretTypeOK' /\ secretHandles' = secretHandles /\ revealed' = revealed
    BY <1>2, ProviderTyped DEF HostInv
  <2>2. HandleFacts'
    BY <1>2, <2>1 DEF HostInv, HandleFacts, hostVars
  <2> QED
    BY <1>2, <2>1, <2>2 DEF HostInv, hostVars, PolicyDerived, SupervisorFacts, AdapterFacts, ReadFacts, CheckAccess, AllowPath, AllowEgress
<1>3. ASSUME NEW r \in HostOps, AdapterStep(r) PROVE HostInv'
  BY <1>3, RedeemGrantInv, ExecuteInv, PanicInv, BackoffInv, SendInv, FetchInv, ProcessStartsInv, ChildActsInv,
     ChildSpawnsInv, ChildExitsInv, ProcessReturnsInv DEF AdapterStep
<1>4. ASSUME NEW r \in HostOps, SupervisorStep(r) PROVE HostInv'
  BY <1>4, AcquireInv, DispatchInv, SelectInv DEF SupervisorStep
<1> QED
  BY <1>1, <1>2, <1>3, <1>4, NewSupervisorInv, StartInv, ContextEndsInv, SourceMovesInv DEF HostNext

\* The inductive invariant of the isolated host.
THEOREM HostInvariant == HostSpec => []HostInv
BY HostInitInv, HostNextInv, PTL DEF HostSpec

\* Whatever is asked of it, a webhook delivers at most once for a Run and exactly
\* once for one that succeeded (WebhookAdapter.Execute).
THEOREM HostDeliversOnce == HostSpec => []DeliveredOnce
<1>1. ASSUME HostInv PROVE DeliveredOnce
  <2> SUFFICES ASSUME NEW r \in HostOps, runs[r].op # NoOp, runs[r].op.family = "webhook"
               PROVE  writes[r] <= 1 /\ (runs[r].result = "succeeded" => writes[r] = 1)
    BY DEF DeliveredOnce
  <2>1. writes[r] \in {0, 1}
    BY <1>1, CallFacts DEF AdapterFacts
  <2>2. runs[r].result = "succeeded" => writes[r] = 1
    BY <1>1, CallFacts DEF AdapterFacts, SupervisorFacts
  <2> QED
    BY <2>1, <2>2
<1> QED
  BY <1>1, HostInvariant, PTL

\* For any packs, bindings, requests, pages and versions the host lets through
\* only what HostIsSound allows (DerivePolicy, checkAccess, runReadPipeline,
\* LocalProvider.Redeem).
THEOREM HostSoundness == HostSpec => []HostIsSound
<1>1. ASSUME HostInv PROVE HostIsSound
  <2>1. HostTypeOK
    <3>1. ASSUME NEW r \in HostOps
          PROVE  /\ runs[r].op \in OpSpecs \cup {NoOp}
                 /\ runs[r].step \in {"idle", "acquire", "request", "select", "done"}
                 /\ runs[r].adapter \in {"none", "redeem", "execute", "send", "fetch", "backoff", "child", "ended"}
                 /\ runs[r].ctx \in {"live", "deadline", "cancelled"}
                 /\ runs[r].answer \in Answers \cup {NoAnswer} /\ runs[r].said \in Answers \cup {NoAnswer}
                 /\ runs[r].retry \in 0..MaxRateRetries /\ Len(runs[r].pages) <= MaxPages
                 /\ runs[r].tree \subseteq {"child", "descendant"}
                 /\ runs[r].result \in HostStatuses \cup {"none"}
      <4>1. runs[r] \in RunRecords /\ Len(runs[r].pages) <= MaxPages
        BY <1>1, CallFacts DEF ReadFacts
      <4> QED
        BY <4>1 DEF RunRecords
    <3> QED
      BY <1>1, <3>1 DEF HostInv, HostTypeOK
  <2>2. WritesAreDeclared
    <3> SUFFICES ASSUME NEW r \in HostOps, writes[r] > 0
                 PROVE  \E p \in Packs, b \in Installs :
                          /\ p.digest = b.pinned /\ p.digest = policy.digest
                          /\ runs[r].op.targets \subseteq (IF p.isolation \in {"isolated", "none"} THEN {} ELSE b.endpoints)
                          /\ runs[r].op.paths \subseteq Roots
                          /\ runs[r].op.family \in {"webhook", "process"} /\ runs[r].op.flaw = "none"
      BY DEF WritesAreDeclared
    <3>1. runs[r].op.family \in {"webhook", "process"} /\ runs[r].op.flaw = "none"
      BY <1>1, CallFacts DEF AdapterFacts
    <3>2. runs[r].adapter # "none" /\ CheckAccess(runs[r].op)
      BY <1>1, CallFacts DEF AdapterFacts
    <3>3. policy # NoPolicy
      BY <1>1, <3>2, CallFacts DEF SupervisorFacts
    <3>4. PICK p \in Packs, b \in Installs :
            /\ b.pinned = p.digest
            /\ policy = [digest |-> p.digest, roots |-> Roots, egress |-> DeriveEgress(p, b)]
      BY <1>1, <3>3 DEF HostInv, PolicyDerived
    <3>5. policy.digest = p.digest /\ policy.roots = Roots /\ policy.egress = DeriveEgress(p, b)
      BY <3>4
    <3>6. runs[r].op.paths \subseteq Roots /\ runs[r].op.targets \subseteq DeriveEgress(p, b)
      BY <3>2, <3>5 DEF CheckAccess, AllowPath, AllowEgress
    <3>7. DeriveEgress(p, b) \subseteq (IF p.isolation \in {"isolated", "none"} THEN {} ELSE b.endpoints)
      BY DEF DeriveEgress
    <3> QED
      BY <3>1, <3>4, <3>5, <3>6, <3>7
  <2>3. ReadIsSound
    <3> SUFFICES ASSUME NEW r \in HostOps, runs[r].result = "succeeded" /\ runs[r].op.family \in Readers
                 PROVE  /\ Len(runs[r].pages) \in {SourcePages, MaxPages}
                        /\ \A n \in 1..Len(runs[r].pages) :
                             /\ runs[r].pages[n].page = n
                             /\ runs[r].pages[n].shown = DeclaredFields \ RedactedFields
                             /\ runs[r].pages[n].named => ReportedVersion(runs[r].pages) <= runs[r].pages[n].version
                        /\ ReportedVersion(runs[r].pages) = NoVersion <=> Naming(runs[r].pages) = {}
      BY DEF ReadIsSound
    <3>1. SupervisorFacts(runs[r]) /\ ReadFacts(runs[r]) /\ runs[r].pages \in Seq(PageRecords)
      BY <1>1, CallFacts DEF RunRecords
    <3>2. /\ Len(runs[r].pages) \in {SourcePages, MaxPages}
          /\ \A n \in 1..Len(runs[r].pages) :
               runs[r].pages[n].page = n /\ runs[r].pages[n].shown = DeclaredFields \ RedactedFields
      BY <3>1 DEF SupervisorFacts, ReadFacts
    <3>3. InOrder(runs[r].pages) /\ HasFirst(runs[r].pages)
      BY <3>1 DEF ReadFacts
    <3> QED
      BY <3>1, <3>2, <3>3, ReportedIsFirst
  <2>4. HandleRevealsOnce
    <3> SUFFICES ASSUME NEW i \in HandleIds PROVE revealed[i] <= 1
      BY DEF HandleRevealsOnce
    <3>1. revealed[i] = 0 \/ revealed[i] = 1
      BY <1>1 DEF HostInv, HandleFacts
    <3> QED
      BY <3>1
  <2> QED
    BY <2>1, <2>2, <2>3, <2>4 DEF HostIsSound
<1> QED
  BY <1>1, HostInvariant, PTL

\* Once Run returned a definite verdict nothing of the operation writes any more:
\* an answer is given after the goroutine is done and the process tree is gone,
\* and a verdict without an answer is given before anything started.
THEOREM HostDefiniteIsFinal == HostSpec => DefiniteIsFinal
<1>1. ASSUME HostInv, HostNext, NEW r \in HostOps, runs[r].result \in Definite
      PROVE  writes'[r] = writes[r]
  <2>1. runs[r].adapter \in {"none", "ended"} /\ writes \in [HostOps -> Nat]
    BY <1>1, CallFacts DEF SupervisorFacts
  <2>2. ASSUME NEW q \in HostOps, Send(q) PROVE writes'[r] = writes[r]
    <3>1. q # r
      BY <2>1, <2>2 DEF Send
    <3>2. Writes(q) \/ UNCHANGED writes
      BY <2>2 DEF Send, SendLost
    <3> QED
      BY <2>1, <3>1, <3>2 DEF Writes
  <2>3. ASSUME NEW q \in HostOps, ChildWrites(q) PROVE writes'[r] = writes[r]
    <3>1. q # r
      BY <1>1, <2>1, <2>3, TreeFacts DEF ChildWrites
    <3> QED
      BY <2>1, <2>3, <3>1 DEF ChildWrites, Writes
  <2>4. ASSUME NEW q \in HostOps, AdapterStep(q) PROVE writes'[r] = writes[r]
    <3>1. CASE RedeemGrant(q) \/ Execute(q) \/ AdapterPanics(q) \/ Backoff(q) \/ Fetch(q)
      BY <3>1 DEF RedeemGrant, Execute, AdapterPanics, Backoff, Fetch
    <3>2. CASE ProcessStarts(q) \/ ChildRedeems(q) \/ ChildSpawns(q) \/ ChildExits(q) \/ ProcessReturns(q)
      BY <3>2 DEF ProcessStarts, ChildRedeems, ChildSpawns, ChildExits, ProcessReturns
    <3> QED
      BY <2>2, <2>3, <2>4, <3>1, <3>2 DEF AdapterStep
  <2>5. ASSUME NEW q \in HostOps, SupervisorStep(q) PROVE writes'[r] = writes[r]
    BY <2>5 DEF SupervisorStep, AcquireHandle, AcquireFails, Dispatch, Select
  <2>6. ASSUME NEW q \in HostOps, NEW op \in OpSpecs, Start(q, op) PROVE writes'[r] = writes[r]
    BY <2>6 DEF Start
  <2>7. ASSUME NEW q \in HostOps, NEW why \in {"deadline", "cancelled"}, ContextEnds(q, why) PROVE writes'[r] = writes[r]
    BY <2>7 DEF ContextEnds
  <2>8. ASSUME NEW p \in Packs, NEW b \in Installs, NewSupervisor(p, b) PROVE writes'[r] = writes[r]
    BY <2>8 DEF NewSupervisor
  <2>9. CASE SourceMoves \/ (ProviderStep /\ UNCHANGED hostVars)
    BY <2>9 DEF SourceMoves, hostVars
  <2>10. HostNext
    BY <1>1
  <2> QED
    BY <2>4, <2>5, <2>6, <2>7, <2>8, <2>9, <2>10 DEF HostNext
<1>2. HostInv /\ [HostNext]_<<hostVars, secretVars>>
        => [\A r \in HostOps : runs[r].result \in Definite => writes'[r] = writes[r]]_<<hostVars, secretVars>>
  BY <1>1
<1> QED
  BY <1>2, HostInvariant, PTL DEF HostSpec, DefiniteIsFinal
=============================================================================
