------------------------- MODULE ActionServiceProofs -------------------------
(***************************************************************************)
(* The service never takes the tables outside ActionStore's promises, and  *)
(* an approval backs one grant, for every number of callers and actions.   *)
(*                                                                         *)
(* A caller acts on what it read earlier, so the invariant has to say what *)
(* a call record still knows when it writes: its action exists, its target *)
(* is one the operation may write, and an approval it consumed is its own. *)
(***************************************************************************)
EXTENDS ActionService, ActionStoreProofs

\* The operations that only move the status.
PlainOps ==
  {"MarkExecuting", "MarkResultUnknown", "HumanTakeover", "Cancel",
   "BeginReconciliation", "ResolveFailed"}
MintingOps == {"RequestAction", "Compensate"}

\* What a call record in progress still knows.
GoodCall(k) ==
  k.pc # "idle" =>
    /\ k.act \in Actions /\ k.to \in Statuses
    /\ k.op \in MintingOps => k.bind \in Bindings
    /\ k.op = "RequestAction" =>
         /\ k.pc \in {"audit", "store"}
         /\ k.to = IF k.bind.plan = NoPlan THEN "requested" ELSE "awaiting_approval"
    /\ k.op = "Compensate" =>
         /\ k.pc # "consume" /\ k.bind.plan = NoPlan /\ k.to = "requested"
         /\ k.orig \in Rows /\ k.from \in Statuses
    /\ k.op \notin MintingOps => k.act \in Rows /\ k.pc \in {"consume", "audit", "store"}
    /\ k.op \in PlainOps => k.from \in Statuses /\ k.to \in PlainTargets
    /\ k.op \in {"IngestReceipt", "ResolveSucceeded"} =>
         k.to \in ReceiptStatuses /\ k.result \in ResultIds
    /\ k.pc = "consume" => k.op = "Grant" /\ binding[k.act].plan \in Plans

\* A Grant past its consume holds its action's own plan, consumed for it alone.
HoldsApproval(k) ==
  /\ k.op = "Grant" /\ k.pc \in {"audit", "store"} => k.approved = binding[k.act].plan
  /\ k.approved # NoPlan =>
       /\ k.op = "Grant" /\ k.pc \in {"audit", "store"}
       /\ evidence[k.approved].consumed /\ Approves(k.approved, k.act)
       /\ \A b \in Rows : approval[b] # k.approved

CallsGood == \A c \in Callers : GoodCall(call[c])

ApprovalsHeld ==
  /\ \A c \in Callers : HoldsApproval(call[c])
  /\ \A c, d \in Callers : call[c].approved = call[d].approved /\ call[c].approved # NoPlan => c = d

\* A row waits for an approval exactly when it names a plan, and names the plan
\* that backs it only once granted.
PlansFit ==
  \A a \in Actions :
    /\ status[a] = "requested" => binding[a].plan = NoPlan
    /\ status[a] = "awaiting_approval" => binding[a].plan \in Plans
    /\ grant[a] = "none" => approval[a] = NoPlan

ServiceInv ==
  /\ StoreInv /\ TypeOK
  /\ CallsGood /\ ApprovalsHeld /\ PlansFit /\ ApprovalBacksOneGrant

-----------------------------------------------------------------------------
\* An idle caller knows nothing and holds nothing.
LEMMA NoCallGood ==
  NoCall \in Calls /\ GoodCall(NoCall) /\ HoldsApproval(NoCall) /\ NoCall.approved = NoPlan
  BY DEF NoCall, Calls, GoodCall, HoldsApproval, OperationNames

\* The initial state satisfies the invariant.
LEMMA ServiceInitInv == Init => ServiceInv
<1> SUFFICES ASSUME Init PROVE ServiceInv
  OBVIOUS
<1>1. StoreInv
  BY StoreInitInv DEF Init
<1>2. TypeOK
  <2>1. evidence \in [Plans -> Evidence]
    <3>1. ASSUME NEW o \in Operations
          PROVE  [decision |-> "none", op |-> o, consumed |-> FALSE, revoked |-> FALSE] \in Evidence
      BY DEF Evidence
    <3> QED
      BY <3>1 DEF Init
  <2> QED
    BY <1>1, <2>1, NoCallGood DEF Init, StoreInv, TypeOK
<1>3. CallsGood /\ ApprovalsHeld
  BY DEF Init, NoCall, CallsGood, GoodCall, ApprovalsHeld, HoldsApproval
<1>4. PlansFit /\ ApprovalBacksOneGrant
  BY DEF Init, StoreInit, PlansFit, ApprovalBacksOneGrant, Rows
<1> QED
  BY <1>1, <1>2, <1>3, <1>4 DEF ServiceInv

\* A step that only replaces a call record by one that knows enough and holds
\* no approval: every read, and every end of a call.
LEMMA CallOnlyInv ==
  ASSUME NEW c \in Callers, NEW k \in Calls, ServiceInv,
         GoodCall(k), HoldsApproval(k), k.approved = NoPlan,
         call' = [call EXCEPT ![c] = k], UNCHANGED <<storeVars, evidence, audits>>
  PROVE  ServiceInv'
<1> USE DEF storeVars
<1>1. StoreInv'
  BY StoreNextInv DEF ServiceInv
<1>2. TypeOK'
  BY <1>1 DEF ServiceInv, StoreInv, TypeOK
<1>3. CallsGood'
  BY DEF ServiceInv, TypeOK, CallsGood, GoodCall, Rows
<1>4. ApprovalsHeld'
  BY DEF ServiceInv, TypeOK, ApprovalsHeld, HoldsApproval, Approves, Rows
<1>5. PlansFit' /\ ApprovalBacksOneGrant'
  BY DEF ServiceInv, PlansFit, ApprovalBacksOneGrant, Approves, Rows
<1> QED
  BY <1>1, <1>2, <1>3, <1>4, <1>5 DEF ServiceInv

-----------------------------------------------------------------------------
(* The steps of a call.                                                    *)

\* Committed rows stay, with their immutable columns.
LEMMA RowsStay ==
  ASSUME StoreTypeOK, [StoreNext]_storeVars
  PROVE  \A a \in Rows : a \in Rows' /\ binding'[a] = binding[a]
<1>1. CASE PutRequestedStep
  BY <1>1 DEF PutRequestedStep, PutRequested, StoreTypeOK, Rows
<1>2. CASE \E a \in Actions, p \in Plans \cup {NoPlan} : StoreGrant(a, p)
  BY <1>2 DEF StoreGrant, StoreTypeOK, Rows
<1>3. CASE \E a \in Actions : StoreDispatch(a)
  BY <1>3 DEF StoreDispatch, StoreTypeOK, Rows
<1>4. CASE \E a \in Actions, from \in Statuses, to \in PlainTargets : StoreTransition(a, from, to)
  BY <1>4 DEF StoreTransition, StoreTypeOK, Rows, PlainTargets
<1>5. CASE \E a \in Actions, r \in ResultIds, to \in ReceiptStatuses : IngestResult(a, r, to)
  BY <1>5 DEF IngestResult, StoreTypeOK, Rows, ReceiptStatuses
<1>6. CASE \E a \in Actions : GrantExpires(a)
  BY <1>6 DEF GrantExpires, Rows
<1>7. CASE UNCHANGED storeVars
  BY <1>7 DEF storeVars, Rows
<1> QED
  BY <1>1, <1>2, <1>3, <1>4, <1>5, <1>6, <1>7 DEF StoreNext

\* A store step of caller c that grants nothing: the call ends or goes on to its
\* second half without an approval, and nothing an approval rests on changes.
LEMMA PlainStoreInv ==
  ASSUME NEW c \in Callers, NEW k \in Calls, ServiceInv, [StoreNext]_storeVars,
         GoodCall(k)', k.approved = NoPlan, ~(k.op = "Grant" /\ k.pc # "idle"),
         call' = [call EXCEPT ![c] = k], UNCHANGED <<evidence, audits, approval>>,
         \A a \in Actions : grant'[a] = "none" <=> grant[a] = "none",
         PlansFit'
  PROVE  ServiceInv'
<1>1. StoreInv'
  BY StoreNextInv DEF ServiceInv
<1>2. TypeOK'
  BY <1>1 DEF ServiceInv, StoreInv, TypeOK
<1>3. \A a \in Rows : a \in Rows' /\ binding'[a] = binding[a]
  BY RowsStay DEF ServiceInv, StoreInv
<1>4. CallsGood'
  <2> SUFFICES ASSUME NEW d \in Callers PROVE GoodCall(call[d])'
    BY DEF CallsGood
  <2>1. CASE d = c
    BY <2>1 DEF ServiceInv, TypeOK
  <2>2. CASE d # c
    <3>1. call'[d] = call[d] /\ GoodCall(call[d])
      BY <2>2 DEF ServiceInv, TypeOK, CallsGood
    <3> QED
      BY <1>3, <3>1 DEF GoodCall, MintingOps
  <2> QED
    BY <2>1, <2>2
<1>5. \A b \in Rows' : b \notin Rows => approval[b] = NoPlan
  BY DEF ServiceInv, StoreInv, StoreTypeOK, GrantMatchesStatus, PlansFit, Rows
<1>6. ApprovalsHeld'
  <2>1. ASSUME NEW d \in Callers PROVE HoldsApproval(call[d])'
    <3>1. CASE d = c
      BY <3>1 DEF ServiceInv, TypeOK, HoldsApproval
    <3>2. CASE d # c
      <4>1. call'[d] = call[d] /\ HoldsApproval(call[d]) /\ GoodCall(call[d])
        BY <3>2 DEF ServiceInv, TypeOK, ApprovalsHeld, CallsGood
      <4>2. call[d].op = "Grant" /\ call[d].pc \in {"audit", "store"} => call[d].act \in Rows
        BY <4>1 DEF GoodCall, MintingOps
      <4> QED
        BY <1>3, <1>5, <4>1, <4>2 DEF HoldsApproval, Approves
    <3> QED
      BY <3>1, <3>2
  <2>2. ASSUME NEW d \in Callers, NEW e \in Callers,
               call'[d].approved = call'[e].approved, call'[d].approved # NoPlan
        PROVE  d = e
    BY <2>2 DEF ServiceInv, TypeOK, ApprovalsHeld
  <2> QED
    BY <2>1, <2>2 DEF ApprovalsHeld
<1>7. ApprovalBacksOneGrant'
  <2> SUFFICES ASSUME NEW a \in Rows', grant'[a] # "none"
               PROVE  /\ approval[a] = binding'[a].plan
                      /\ binding'[a].plan # NoPlan =>
                           /\ evidence[binding'[a].plan].consumed
                           /\ Approves(binding[a].plan, a)'
                           /\ \A b \in Rows' \ {a} : approval[b] # binding'[a].plan
    BY DEF ApprovalBacksOneGrant
  <2>1. a \in Rows /\ grant[a] # "none"
    BY DEF ServiceInv, StoreInv, GrantMatchesStatus, Rows
  <2> QED
    BY <1>3, <1>5, <2>1 DEF ServiceInv, ApprovalBacksOneGrant, Approves
<1> QED
  BY <1>1, <1>2, <1>4, <1>6, <1>7 DEF ServiceInv

\* A read that decides on a plain transition.
LEMMA StartOnInv ==
  ASSUME NEW c \in Callers, NEW a \in Actions, NEW op \in PlainOps, NEW from, NEW to \in PlainTargets,
         ServiceInv, StartOn(c, op, a, from, to)
  PROVE  ServiceInv' /\ UNCHANGED storeVars
<1> DEFINE k == [NoCall EXCEPT !.op = op, !.pc = "audit", !.act = a, !.from = status[a], !.to = to]
<1>1. status[a] \in Statuses /\ a \in Rows
  BY DEF StartOn, canTransition, Rows, Statuses
<1>2. k \in Calls /\ k.approved = NoPlan
  <2>1. op \in OperationNames /\ to \in Statuses
    BY DEF PlainOps, OperationNames, PlainTargets, Statuses
  <2> QED
    BY <1>1, <2>1 DEF NoCall, Calls
<1>3. GoodCall(k) /\ HoldsApproval(k)
  BY <1>1 DEF NoCall, GoodCall, HoldsApproval, PlainOps, MintingOps, PlainTargets, Statuses
<1> QED
  BY <1>2, <1>3, CallOnlyInv DEF StartOn, Start

\* Every read leaves a record that knows enough for its later write.
LEMMA CallStartInv ==
  ASSUME NEW c \in Callers, NEW a \in Actions, ServiceInv, CallStart(c, a)
  PROVE  ServiceInv' /\ UNCHANGED storeVars
<1>1. ASSUME NEW b \in Requests, RequestAction(c, a, b)
      PROVE  ServiceInv' /\ UNCHANGED storeVars
  <2> DEFINE k == [NoCall EXCEPT !.op = "RequestAction", !.pc = "audit", !.act = a, !.bind = b,
                     !.to = IF b.plan = NoPlan THEN "requested" ELSE "awaiting_approval"]
  <2>1. b \in Bindings
    BY ServiceAssumption
  <2>2. k \in Calls /\ k.approved = NoPlan
    BY <2>1, NoCallGood DEF NoCall, Calls, Statuses, OperationNames
  <2>3. GoodCall(k) /\ HoldsApproval(k)
    BY <2>1 DEF NoCall, GoodCall, HoldsApproval, PlainOps, MintingOps, Statuses
  <2> QED
    BY <1>1, <2>2, <2>3, CallOnlyInv DEF RequestAction, Start
<1>2. CASE Grant(c, a)
  <2> DEFINE k == [NoCall EXCEPT !.op = "Grant", !.act = a, !.from = status[a], !.to = "granted",
                     !.pc = IF status[a] = "awaiting_approval" THEN "consume" ELSE "audit"]
  <2>1. status[a] \in {"requested", "awaiting_approval"} /\ a \in Rows
    BY <1>2 DEF Grant, Rows
  <2>2. k \in Calls /\ k.approved = NoPlan
    BY <2>1, NoCallGood DEF NoCall, Calls, Statuses, OperationNames
  <2>3. GoodCall(k) /\ HoldsApproval(k)
    BY <2>1 DEF NoCall, GoodCall, HoldsApproval, PlainOps, MintingOps, Statuses, ServiceInv, PlansFit
  <2> QED
    BY <1>2, <2>2, <2>3, CallOnlyInv DEF Grant, Start
<1>3. CASE Dispatch(c, a)
  <2> DEFINE k == [NoCall EXCEPT !.op = "Dispatch", !.pc = "audit", !.act = a,
                     !.from = "granted", !.to = "dispatched"]
  <2>1. status[a] = "granted" /\ a \in Rows
    BY <1>3 DEF Dispatch, Rows
  <2>2. k \in Calls /\ k.approved = NoPlan
    BY <2>1, NoCallGood DEF NoCall, Calls, Statuses, OperationNames
  <2>3. GoodCall(k) /\ HoldsApproval(k)
    BY <2>1 DEF NoCall, GoodCall, HoldsApproval, PlainOps, MintingOps, Statuses
  <2> QED
    BY <1>3, <2>2, <2>3, CallOnlyInv DEF Dispatch, Start
<1>4. CASE MarkExecuting(c, a) \/ MarkResultUnknown(c, a) \/ HumanTakeover(c, a) \/ Cancel(c, a)
           \/ BeginReconciliation(c, a) \/ ResolveFailed(c, a)
  BY <1>4, StartOnInv DEF MarkExecuting, MarkResultUnknown, HumanTakeover, Cancel,
       BeginReconciliation, ResolveFailed, PlainOps, PlainTargets
<1>5. CASE ResolveSucceeded(c, a)
  <2> DEFINE k == [NoCall EXCEPT !.op = "ResolveSucceeded", !.pc = "audit", !.act = a,
                     !.from = status[a], !.to = "succeeded", !.result = ReconcileId(a)]
  <2>1. status[a] = "reconciling" /\ a \in Rows /\ ReconcileId(a) \in ResultIds
    BY <1>5 DEF ResolveSucceeded, Rows, ResultIds
  <2>2. k \in Calls /\ k.approved = NoPlan
    BY <2>1, NoCallGood DEF NoCall, Calls, Statuses, OperationNames
  <2>3. GoodCall(k) /\ HoldsApproval(k)
    BY <2>1 DEF NoCall, GoodCall, HoldsApproval, PlainOps, MintingOps, Statuses, ReceiptStatuses
  <2> QED
    BY <1>5, <2>2, <2>3, CallOnlyInv DEF ResolveSucceeded, Start
<1>6. ASSUME NEW r \in Results, NEW outcome \in ReceiptStatuses, IngestReceipt(c, a, r, outcome)
      PROVE  ServiceInv' /\ UNCHANGED storeVars
  <2> DEFINE k == [NoCall EXCEPT !.op = "IngestReceipt", !.pc = "audit", !.act = a,
                     !.from = status[a], !.to = outcome, !.result = r]
  <2>1. status[a] \in {"executing", "dispatched"} /\ a \in Rows /\ r \in ResultIds
    BY <1>6 DEF IngestReceipt, Rows, ResultIds
  <2>2. k \in Calls /\ k.approved = NoPlan
    BY <2>1, NoCallGood DEF NoCall, Calls, Statuses, ReceiptStatuses, OperationNames
  <2>3. GoodCall(k) /\ HoldsApproval(k)
    BY <2>1 DEF NoCall, GoodCall, HoldsApproval, PlainOps, MintingOps, Statuses, ReceiptStatuses
  <2> QED
    BY <1>6, <2>2, <2>3, CallOnlyInv DEF IngestReceipt, Start
<1>7. ASSUME NEW orig \in Actions, Compensate(c, orig, a)
      PROVE  ServiceInv' /\ UNCHANGED storeVars
  <2> DEFINE b == [key |-> CompKey(orig), op |-> CompOperation, plan |-> NoPlan,
                   compensable |-> FALSE, of |-> orig]
             k == [NoCall EXCEPT !.op = "Compensate", !.pc = "audit", !.act = a, !.orig = orig,
                     !.from = status[orig], !.to = "requested", !.bind = b]
  <2>1. status[orig] \in Statuses /\ orig \in Rows
    BY <1>7 DEF Compensate, Rows, compensable, Statuses
  <2>2. b \in Bindings /\ b.plan = NoPlan
    BY DEF Bindings, CompKeys
  <2> HIDE DEF b
  <2>3. k \in Calls /\ k.approved = NoPlan
    BY <2>1, <2>2, NoCallGood DEF NoCall, Calls, Statuses, OperationNames
  <2>4. GoodCall(k) /\ HoldsApproval(k)
    BY <2>1, <2>2 DEF NoCall, GoodCall, HoldsApproval, PlainOps, MintingOps, Statuses
  <2>5. call' = [call EXCEPT ![c] = k] /\ UNCHANGED <<storeVars, evidence, audits>>
    BY <1>7 DEF Compensate, Start, b
  <2> QED
    BY <2>3, <2>4, <2>5, CallOnlyInv
<1> QED
  BY <1>1, <1>2, <1>3, <1>4, <1>5, <1>6, <1>7 DEF CallStart

\* The audit append changes the record's step and the trail only.
LEMMA AppendAuditInv ==
  ASSUME NEW c \in Callers, ServiceInv, appendAudit(c)
  PROVE  ServiceInv' /\ UNCHANGED storeVars
<1> USE DEF storeVars
<1>1. PICK pc \in {"store", "store2"} :
        /\ call' = [call EXCEPT ![c].pc = pc] /\ UNCHANGED <<storeVars, evidence>>
        /\ call[c].pc = IF pc = "store" THEN "audit" ELSE "audit2"
        /\ audits' = [audits EXCEPT ![IF pc = "store" THEN call[c].act ELSE call[c].orig] =
                        @ \cup {IF pc = "store" THEN call[c].to ELSE "compensating"}]
  BY DEF appendAudit, At
<1>2. call[c] \in Calls /\ GoodCall(call[c]) /\ HoldsApproval(call[c])
  BY DEF ServiceInv, TypeOK, CallsGood, ApprovalsHeld
<1>3. StoreInv'
  BY <1>1, StoreNextInv DEF ServiceInv
<1>4. TypeOK'
  <2>1. call' \in [Callers -> Calls]
    BY <1>1, <1>2 DEF ServiceInv, TypeOK, Calls
  <2>2. audits' \in [Actions -> SUBSET Statuses]
    BY <1>1, <1>2 DEF ServiceInv, TypeOK, GoodCall, Statuses
  <2> QED
    BY <1>1, <1>3, <2>1, <2>2 DEF ServiceInv, StoreInv, TypeOK
<1>5. CallsGood'
  <2> SUFFICES ASSUME NEW d \in Callers PROVE GoodCall(call[d])'
    BY DEF CallsGood
  <2>1. CASE d = c
    <3>1. call'[d] = [call[c] EXCEPT !.pc = pc]
      BY <1>1, <2>1 DEF ServiceInv, TypeOK
    <3>2. pc = "store2" => call[c].op = "Compensate"
      BY <1>1, <1>2 DEF GoodCall, MintingOps
    <3> QED
      BY <1>1, <1>2, <3>1, <3>2 DEF GoodCall, Calls, Rows
  <2>2. CASE d # c
    BY <1>1, <2>2 DEF ServiceInv, TypeOK, CallsGood, GoodCall, Rows
  <2> QED
    BY <2>1, <2>2
<1>6. \A d \in Callers : call'[d].approved = call[d].approved
  BY <1>1, <1>2 DEF ServiceInv, TypeOK, Calls
<1>7. ApprovalsHeld'
  <2>1. ASSUME NEW d \in Callers PROVE HoldsApproval(call[d])'
    <3>1. /\ call'[d].op = call[d].op /\ call'[d].act = call[d].act
          /\ call'[d].pc = IF d = c THEN pc ELSE call[d].pc
      BY <1>1, <1>2 DEF ServiceInv, TypeOK, Calls
    <3> QED
      BY <1>1, <1>2, <1>6, <3>1 DEF ServiceInv, ApprovalsHeld, HoldsApproval, Approves, Rows, CallsGood, GoodCall, MintingOps
  <2>2. ASSUME NEW d \in Callers, NEW e \in Callers,
               call'[d].approved = call'[e].approved, call'[d].approved # NoPlan
        PROVE  d = e
    <3>1. call[d].approved = call[e].approved /\ call[d].approved # NoPlan
      BY <1>6, <2>2
    <3> QED
      BY <3>1 DEF ServiceInv, ApprovalsHeld
  <2> QED
    BY <2>1, <2>2 DEF ApprovalsHeld
<1>8. PlansFit' /\ ApprovalBacksOneGrant'
  BY <1>1 DEF ServiceInv, PlansFit, ApprovalBacksOneGrant, Approves, Rows
<1> QED
  BY <1>1, <1>3, <1>4, <1>5, <1>7, <1>8 DEF ServiceInv

\* Consuming evidence: it was unconsumed, so no call and no row had it.
LEMMA ConsumeEvidenceInv ==
  ASSUME NEW c \in Callers, ServiceInv, ConsumeEvidence(c)
  PROVE  ServiceInv' /\ UNCHANGED storeVars
<1>0. PICK a, p : a = call[c].act /\ p = binding[a].plan
  OBVIOUS
<1> DEFINE k == [call[c] EXCEPT !.pc = "audit", !.approved = p]
<1> USE DEF storeVars
<1>1. /\ call[c] \in Calls /\ GoodCall(call[c]) /\ HoldsApproval(call[c])
      /\ call[c].pc = "consume"
  BY DEF ServiceInv, TypeOK, CallsGood, ApprovalsHeld, ConsumeEvidence
<1>2. call[c].op = "Grant" /\ a \in Rows /\ a \in Actions /\ p \in Plans
  BY <1>0, <1>1 DEF GoodCall, MintingOps
<1>3. CASE ~Consumable(p)
  BY <1>0, <1>3, NoCallGood, CallOnlyInv DEF ConsumeEvidence, Finish
<1>4. CASE Consumable(p)
  <2>1. /\ evidence' = [evidence EXCEPT ![p].consumed = TRUE]
        /\ UNCHANGED <<storeVars, audits>>
        /\ call' = [call EXCEPT ![c] = IF Approves(p, a) THEN k ELSE NoCall]
    BY <1>0, <1>4 DEF ConsumeEvidence, Start, Finish
  <2>2. StoreInv'
    BY <2>1, StoreNextInv DEF ServiceInv
  <2>3. k \in Calls /\ k.approved = p /\ k.op = "Grant" /\ k.pc = "audit" /\ k.act = a
    BY <1>0, <1>1, <1>2 DEF Calls
  <2>4. NoPlan \notin Plans /\ ~evidence[p].consumed
    BY <1>4, StoreAssumption DEF Consumable
  <2>5. \A q \in Plans : /\ evidence'[q] \in Evidence
                          /\ evidence'[q].decision = evidence[q].decision
                          /\ evidence'[q].op = evidence[q].op
                          /\ evidence'[q].consumed = (evidence[q].consumed \/ q = p)
    <3> TAKE q \in Plans
    <3>1. evidence[q] \in Evidence /\ evidence \in [Plans -> Evidence]
      BY DEF ServiceInv, TypeOK
    <3>2. CASE q = p
      <4>1. evidence'[q] = [evidence[q] EXCEPT !.consumed = TRUE]
        BY <2>1, <3>1, <3>2
      <4> QED
        BY <3>1, <3>2, <4>1 DEF Evidence
    <3>3. CASE q # p
      <4>1. evidence'[q] = evidence[q]
        BY <2>1, <3>1, <3>3
      <4> QED
        BY <3>1, <3>3, <4>1 DEF Evidence
    <3> QED
      BY <3>2, <3>3
  <2>6. \A b \in Rows : approval[b] # p
    <3> SUFFICES ASSUME NEW b \in Rows, approval[b] = p PROVE FALSE
      OBVIOUS
    <3>1. grant[b] # "none"
      BY <1>2, <2>4 DEF ServiceInv, PlansFit, Rows
    <3> QED
      BY <1>2, <2>4, <3>1 DEF ServiceInv, ApprovalBacksOneGrant
  <2>7. \A d \in Callers : call[d].approved # p
    <3> SUFFICES ASSUME NEW d \in Callers, call[d].approved = p PROVE FALSE
      OBVIOUS
    <3> QED
      BY <1>2, <2>4 DEF ServiceInv, ApprovalsHeld, HoldsApproval
  <2>8. TypeOK'
    <3>1. evidence' \in [Plans -> Evidence]
      BY <2>1, <2>5 DEF ServiceInv, TypeOK
    <3> QED
      BY <2>1, <2>2, <2>3, <3>1, NoCallGood DEF ServiceInv, StoreInv, TypeOK
  <2>9. CallsGood'
    <3>1. GoodCall(k)
      BY <1>0, <1>1, <1>2, <2>3 DEF GoodCall, Calls, MintingOps, PlainOps
    <3> QED
      BY <2>1, <3>1, NoCallGood DEF ServiceInv, TypeOK, CallsGood, GoodCall, Rows
  <2>10. ApprovalsHeld'
    <3>1. ASSUME NEW d \in Callers PROVE HoldsApproval(call[d])'
      <4>1. CASE d # c
        <5>1. call'[d] = call[d] /\ HoldsApproval(call[d]) /\ call[d].approved \in Plans \cup {NoPlan}
          BY <2>1, <4>1 DEF ServiceInv, TypeOK, ApprovalsHeld, Calls
        <5>2. call[d].approved # NoPlan => Approves(call[d].approved, call[d].act)'
          BY <2>1, <2>5, <5>1 DEF HoldsApproval, Approves
        <5> QED
          BY <2>1, <2>5, <5>1, <5>2 DEF HoldsApproval, Rows
      <4>2. CASE d = c
        <5>1. call'[d] = IF Approves(p, a) THEN k ELSE NoCall
          BY <2>1, <4>2 DEF ServiceInv, TypeOK
        <5>2. CASE ~Approves(p, a)
          BY <5>1, <5>2 DEF NoCall, HoldsApproval
        <5>3. CASE Approves(p, a)
          <6>1. call'[d].approved = p /\ call'[d].op = "Grant" /\ call'[d].pc = "audit" /\ call'[d].act = a
            BY <2>3, <5>1, <5>3
          <6>2. evidence'[p].consumed /\ Approves(p, a)'
            BY <1>2, <2>1, <2>5, <5>3 DEF Approves
          <6> QED
            BY <1>0, <2>1, <2>6, <6>1, <6>2 DEF HoldsApproval, Approves, Rows
        <5> QED
          BY <5>2, <5>3
      <4> QED
        BY <4>1, <4>2
    <3>2. ASSUME NEW d \in Callers, NEW e \in Callers,
                 call'[d].approved = call'[e].approved, call'[d].approved # NoPlan
          PROVE  d = e
      BY <2>1, <2>3, <2>7, <3>2, NoCallGood DEF ServiceInv, TypeOK, ApprovalsHeld
    <3> QED
      BY <3>1, <3>2 DEF ApprovalsHeld
  <2>11. PlansFit' /\ ApprovalBacksOneGrant'
    <3>1. \A b \in Rows : binding[b].plan # NoPlan => binding[b].plan \in Plans
      BY DEF ServiceInv, StoreInv, StoreTypeOK, Bindings
    <3> QED
      BY <2>1, <2>5, <3>1 DEF ServiceInv, PlansFit, ApprovalBacksOneGrant, Approves, Rows
  <2> QED
    BY <2>1, <2>2, <2>8, <2>9, <2>10, <2>11 DEF ServiceInv
<1> QED
  BY <1>3, <1>4

\* Writes: a transaction refused is a call that ends.
LEMMA RefusedWriteInv ==
  ASSUME NEW c \in Callers, ServiceInv, Finish(c), UNCHANGED <<storeVars, evidence, audits>>
  PROVE  ServiceInv'
  BY NoCallGood, CallOnlyInv DEF Finish

\* The minting writes: the new row fits its plan.
LEMMA PutRequestedStepInv ==
  ASSUME NEW c \in Callers, NEW k \in Calls, ServiceInv,
         GoodCall(call[c]), call[c].pc = "store", call[c].op \in MintingOps,
         GoodCall(k)', k.approved = NoPlan, ~(k.op = "Grant" /\ k.pc # "idle"),
         call' = [call EXCEPT ![c] = k], UNCHANGED <<evidence, audits>>,
         PutRequested(call[c].act, call[c].bind, call[c].to)
  PROVE  ServiceInv' /\ [StoreNext]_storeVars
<1>1. PICK a \in Actions, b \in Bindings, s \in {"requested", "awaiting_approval"} :
        /\ PutRequested(a, b, s)
        /\ s = IF b.plan = NoPlan THEN "requested" ELSE "awaiting_approval"
  <2>1. call[c].act \in Actions /\ call[c].bind \in Bindings
    BY DEF GoodCall
  <2>2. call[c].to = IF call[c].bind.plan = NoPlan THEN "requested" ELSE "awaiting_approval"
    BY DEF GoodCall, MintingOps
  <2> QED
    BY <2>1, <2>2
<1>2. [StoreNext]_storeVars
  BY <1>1 DEF StoreNext, PutRequestedStep
<1>3. b.plan # NoPlan => b.plan \in Plans
  BY DEF Bindings
<1>4. PlansFit'
  BY <1>1, <1>3 DEF ServiceInv, StoreInv, StoreTypeOK, PlansFit, PutRequested
<1>5. UNCHANGED approval /\ \A x \in Actions : grant'[x] = "none" <=> grant[x] = "none"
  BY <1>1 DEF PutRequested
<1> QED
  BY <1>2, <1>4, <1>5, PlainStoreInv

\* RequestAction's insert.
LEMMA StorePutRequestedInv ==
  ASSUME NEW c \in Callers, ServiceInv, StorePutRequested(c)
  PROVE  ServiceInv' /\ [StoreNext]_storeVars
<1>1. call[c] \in Calls /\ GoodCall(call[c])
  BY DEF ServiceInv, TypeOK, CallsGood
<1>2. CASE ByKey(call[c].bind.key) = {}
  <2>1. GoodCall(NoCall)' /\ NoCall \in Calls /\ NoCall.op # "Grant" /\ NoCall.approved = NoPlan
    BY NoCallGood DEF NoCall, GoodCall
  <2> QED
    BY <1>1, <1>2, <2>1, PutRequestedStepInv DEF StorePutRequested, Write, Finish, MintingOps
<1>3. CASE ByKey(call[c].bind.key) # {}
  BY <1>3, RefusedWriteInv DEF StorePutRequested, Write
<1> QED
  BY <1>2, <1>3

\* Compensate's insert; the call may go on to move the original.
LEMMA StorePutCompensationInv ==
  ASSUME NEW c \in Callers, ServiceInv, StorePutCompensation(c)
  PROVE  ServiceInv' /\ [StoreNext]_storeVars
<1>1. /\ call[c] \in Calls /\ GoodCall(call[c]) /\ HoldsApproval(call[c])
      /\ call[c].op = "Compensate" /\ call[c].pc = "store"
  BY DEF ServiceInv, TypeOK, CallsGood, ApprovalsHeld, StorePutCompensation
<1>2. CASE ByKey(call[c].bind.key) # {}
  BY <1>2, RefusedWriteInv DEF StorePutCompensation
<1>3. CASE ByKey(call[c].bind.key) = {}
  <2>1. PutRequested(call[c].act, call[c].bind, call[c].to) /\ UNCHANGED <<evidence, audits>>
    BY <1>1, <1>3 DEF StorePutCompensation, GoodCall
  <2>2. CASE call[c].from = "compensating"
    <3>1. GoodCall(NoCall)' /\ NoCall \in Calls /\ NoCall.op # "Grant" /\ NoCall.approved = NoPlan
      BY NoCallGood DEF NoCall, GoodCall
    <3> QED
      BY <1>1, <1>3, <2>1, <2>2, <3>1, PutRequestedStepInv DEF StorePutCompensation, Finish, MintingOps
  <2>3. CASE call[c].from # "compensating"
    <3>1. PICK k : k = [call[c] EXCEPT !.pc = "audit2"]
      OBVIOUS
    <3>2. call' = [call EXCEPT ![c] = k]
      BY <1>1, <1>3, <2>3, <3>1 DEF StorePutCompensation, At, ServiceInv, TypeOK
    <3>3. k \in Calls /\ k.approved = NoPlan /\ k.op = "Compensate"
      BY <1>1, <3>1 DEF Calls, HoldsApproval
    <3>4. call[c].orig \in Rows /\ call[c].act \in Actions
      BY <1>1 DEF GoodCall
    <3>5. call[c].orig \in Rows'
      BY <2>1, <3>4, <1>1 DEF PutRequested, ServiceInv, StoreInv, StoreTypeOK, Rows, GoodCall
    <3>6. GoodCall(k)'
      BY <1>1, <3>1, <3>5 DEF GoodCall, Calls, MintingOps, PlainOps
    <3> QED
      BY <1>1, <2>1, <3>2, <3>3, <3>6, PutRequestedStepInv DEF MintingOps
  <2> QED
    BY <2>2, <2>3
<1> QED
  BY <1>2, <1>3

\* A write that ends its call and grants nothing.
LEMMA EndingWriteInv ==
  ASSUME NEW c \in Callers, ServiceInv, Finish(c), UNCHANGED <<evidence, audits, approval>>,
         [StoreNext]_storeVars, PlansFit',
         \A a \in Actions : grant'[a] = "none" <=> grant[a] = "none"
  PROVE  ServiceInv'
<1>1. GoodCall(NoCall)' /\ NoCall \in Calls /\ NoCall.op # "Grant" /\ NoCall.approved = NoPlan
  BY NoCallGood DEF NoCall, GoodCall
<1> QED
  BY <1>1, PlainStoreInv DEF Finish

\* A plain transition of the tables, with whatever expectation it was made.
LEMMA TransitionKeepsPlans ==
  ASSUME NEW a \in Actions, NEW from \in Statuses, NEW to \in PlainTargets,
         ServiceInv, StoreTransition(a, from, to)
  PROVE  /\ [StoreNext]_storeVars /\ PlansFit' /\ UNCHANGED approval
         /\ \A x \in Actions : grant'[x] = "none" <=> grant[x] = "none"
<1>1. [StoreNext]_storeVars
  BY DEF StoreNext
<1>2. PlansFit'
  BY DEF ServiceInv, StoreInv, StoreTypeOK, PlansFit, StoreTransition, PlainTargets
<1> QED
  BY <1>1, <1>2 DEF StoreTransition

\* The status-only operations.
LEMMA StoreTransitionStepInv ==
  ASSUME NEW c \in Callers, ServiceInv, StoreTransitionStep(c)
  PROVE  ServiceInv' /\ [StoreNext]_storeVars
<1>1. PICK a, from, to : a = call[c].act /\ from = call[c].from /\ to = call[c].to
  OBVIOUS
<1>2. a \in Actions /\ from \in Statuses /\ to \in PlainTargets
  BY <1>1 DEF ServiceInv, CallsGood, GoodCall, StoreTransitionStep, PlainOps
<1>3. CASE TransitionAccepted(a, from, to)
  BY <1>1, <1>2, <1>3, TransitionKeepsPlans, EndingWriteInv DEF StoreTransitionStep, Write
<1>4. CASE ~TransitionAccepted(a, from, to)
  BY <1>1, <1>4, RefusedWriteInv DEF StoreTransitionStep, Write
<1> QED
  BY <1>3, <1>4

\* Compensate's transition of the original.
LEMMA StoreMarkCompensatingInv ==
  ASSUME NEW c \in Callers, ServiceInv, StoreMarkCompensating(c)
  PROVE  ServiceInv' /\ [StoreNext]_storeVars
<1>1. PICK a, from : a = call[c].orig /\ from = call[c].from
  OBVIOUS
<1>2. call[c].op = "Compensate" /\ a \in Actions /\ from \in Statuses
  BY <1>1 DEF ServiceInv, CallsGood, GoodCall, StoreMarkCompensating, MintingOps, Rows
<1>3. CASE TransitionAccepted(a, from, "compensating")
  BY <1>1, <1>2, <1>3, TransitionKeepsPlans, EndingWriteInv
     DEF StoreMarkCompensating, Write, PlainTargets
<1>4. CASE ~TransitionAccepted(a, from, "compensating")
  BY <1>1, <1>4, RefusedWriteInv DEF StoreMarkCompensating, Write
<1> QED
  BY <1>3, <1>4

\* Consuming the grant and writing the intent.
LEMMA StoreDispatchStepInv ==
  ASSUME NEW c \in Callers, ServiceInv, StoreDispatchStep(c)
  PROVE  ServiceInv' /\ [StoreNext]_storeVars
<1>1. PICK a : a = call[c].act
  OBVIOUS
<1>2. a \in Actions
  BY <1>1 DEF ServiceInv, CallsGood, GoodCall, StoreDispatchStep
<1>3. CASE DispatchAccepted(a)
  <2>1. StoreDispatch(a) /\ Finish(c) /\ UNCHANGED <<evidence, audits>>
    BY <1>1, <1>3 DEF StoreDispatchStep, Write
  <2>2. [StoreNext]_storeVars
    BY <1>2, <2>1 DEF StoreNext
  <2>3. PlansFit' /\ UNCHANGED approval /\ \A x \in Actions : grant'[x] = "none" <=> grant[x] = "none"
    BY <1>2, <2>1 DEF ServiceInv, StoreInv, StoreTypeOK, PlansFit, StoreDispatch, DispatchAccepted
  <2> QED
    BY <2>1, <2>2, <2>3, EndingWriteInv
<1>4. CASE ~DispatchAccepted(a)
  BY <1>1, <1>4, RefusedWriteInv DEF StoreDispatchStep, Write
<1> QED
  BY <1>3, <1>4

\* A receipt or a recovered result completing its action.
LEMMA StoreIngestStepInv ==
  ASSUME NEW c \in Callers, ServiceInv, StoreIngestStep(c)
  PROVE  ServiceInv' /\ [StoreNext]_storeVars
<1>1. PICK a, r, to : a = call[c].act /\ r = call[c].result /\ to = call[c].to
  OBVIOUS
<1>2. a \in Actions /\ r \in ResultIds /\ to \in ReceiptStatuses
  BY <1>1 DEF ServiceInv, CallsGood, GoodCall, StoreIngestStep
<1>3. CASE IngestAccepted(a, r, to)
  <2>1. IngestResult(a, r, to) /\ Finish(c) /\ UNCHANGED <<evidence, audits>>
    BY <1>1, <1>3 DEF StoreIngestStep, Write
  <2>2. [StoreNext]_storeVars
    BY <1>2, <2>1 DEF StoreNext
  <2>3. PlansFit' /\ UNCHANGED approval /\ \A x \in Actions : grant'[x] = "none" <=> grant[x] = "none"
    BY <1>2, <2>1 DEF ServiceInv, StoreInv, StoreTypeOK, PlansFit, IngestResult, ReceiptStatuses
  <2> QED
    BY <2>1, <2>2, <2>3, EndingWriteInv
<1>4. CASE ~IngestAccepted(a, r, to)
  BY <1>1, <1>4, RefusedWriteInv DEF StoreIngestStep, Write
<1> QED
  BY <1>3, <1>4

\* The grant takes over the approval its call held, and the call lets it go.
LEMMA StoreGrantStepInv ==
  ASSUME NEW c \in Callers, ServiceInv, StoreGrantStep(c)
  PROVE  ServiceInv' /\ [StoreNext]_storeVars
<1>1. PICK a, p : a = call[c].act /\ p = call[c].approved
  OBVIOUS
<1>2. CASE ~GrantAccepted(a)
  BY <1>1, <1>2, RefusedWriteInv DEF StoreGrantStep, Write
<1>3. CASE GrantAccepted(a)
  <2>1. StoreGrant(a, p) /\ call' = [call EXCEPT ![c] = NoCall] /\ UNCHANGED <<evidence, audits>>
    BY <1>1, <1>3 DEF StoreGrantStep, Write, Finish
  <2>2. call[c] \in Calls /\ GoodCall(call[c]) /\ HoldsApproval(call[c])
    BY DEF ServiceInv, TypeOK, CallsGood, ApprovalsHeld
  <2>3. a \in Actions /\ a \in Rows /\ p \in Plans \cup {NoPlan} /\ p = binding[a].plan
    BY <1>1, <2>2 DEF StoreGrantStep, GoodCall, HoldsApproval, Calls, MintingOps
  <2>4. p # NoPlan => /\ evidence[p].consumed /\ Approves(p, a)
                      /\ \A b \in Rows : approval[b] # p
    BY <1>1, <2>2 DEF HoldsApproval
  <2>5. [StoreNext]_storeVars
    BY <2>1, <2>3 DEF StoreNext
  <2>6. StoreInv'
    BY <2>5, StoreNextInv DEF ServiceInv
  <2>7. TypeOK'
    BY <2>1, <2>6, NoCallGood DEF ServiceInv, StoreInv, TypeOK
  <2>8. Rows' = Rows /\ UNCHANGED binding
    BY <2>1, <2>3 DEF StoreGrant, ServiceInv, StoreInv, StoreTypeOK, Rows
  <2>9. \A d \in Callers : call'[d] = IF d = c THEN NoCall ELSE call[d]
    BY <2>1 DEF ServiceInv, TypeOK
  <2>10. CallsGood'
    <3> SUFFICES ASSUME NEW d \in Callers PROVE GoodCall(call[d])'
      BY DEF CallsGood
    <3>1. CASE d = c
      BY <2>9, <3>1 DEF NoCall, GoodCall
    <3>2. CASE d # c
      BY <2>8, <2>9, <3>2 DEF ServiceInv, CallsGood, GoodCall
    <3> QED
      BY <3>1, <3>2
  <2>11. \A b \in Rows : approval'[b] = IF b = a THEN p ELSE approval[b]
    BY <2>1 DEF StoreGrant, ServiceInv, StoreInv, StoreTypeOK, Rows
  <2>12. ApprovalsHeld'
    <3>1. ASSUME NEW d \in Callers PROVE HoldsApproval(call[d])'
      <4>1. CASE d = c
        BY <2>9, <4>1 DEF NoCall, HoldsApproval
      <4>2. CASE d # c
        <5>1. call'[d] = call[d] /\ HoldsApproval(call[d])
          BY <2>9, <4>2 DEF ServiceInv, ApprovalsHeld
        <5>2. call[d].approved # NoPlan => call[d].approved # p
          BY <1>1, <4>2 DEF ServiceInv, ApprovalsHeld
        <5>3. call[d].approved # NoPlan => Approves(call[d].approved, call[d].act)'
          BY <2>1, <2>8, <5>1 DEF HoldsApproval, Approves
        <5> QED
          BY <2>1, <2>8, <2>11, <5>1, <5>2, <5>3 DEF HoldsApproval
      <4> QED
        BY <4>1, <4>2
    <3>2. ASSUME NEW d \in Callers, NEW e \in Callers,
                 call'[d].approved = call'[e].approved, call'[d].approved # NoPlan
          PROVE  d = e
      BY <2>9, <3>2, NoCallGood DEF ServiceInv, ApprovalsHeld
    <3> QED
      BY <3>1, <3>2 DEF ApprovalsHeld
  <2>13. PlansFit'
    BY <2>1, <2>3 DEF StoreGrant, ServiceInv, StoreInv, StoreTypeOK, PlansFit
  <2>14. ApprovalBacksOneGrant'
    <3> SUFFICES ASSUME NEW b \in Rows, grant'[b] # "none"
                 PROVE  /\ approval'[b] = binding[b].plan
                        /\ binding[b].plan # NoPlan =>
                             /\ evidence[binding[b].plan].consumed
                             /\ Approves(binding[b].plan, b)
                             /\ \A x \in Rows \ {b} : approval'[x] # binding[b].plan
      BY <2>1, <2>8 DEF ApprovalBacksOneGrant, Approves
    <3>1. CASE b = a
      BY <2>3, <2>4, <2>11, <3>1
    <3>2. CASE b # a
      <4>1. grant[b] # "none"
        BY <2>1, <2>3, <3>2 DEF StoreGrant, ServiceInv, StoreInv, StoreTypeOK, Rows
      <4>2. /\ approval[b] = binding[b].plan
            /\ binding[b].plan # NoPlan =>
                 /\ evidence[binding[b].plan].consumed
                 /\ Approves(binding[b].plan, b)
                 /\ \A x \in Rows \ {b} : approval[x] # binding[b].plan
        BY <4>1 DEF ServiceInv, ApprovalBacksOneGrant
      <4> QED
        BY <2>4, <2>11, <3>2, <4>2
    <3> QED
      BY <3>1, <3>2
  <2> QED
    BY <2>5, <2>6, <2>7, <2>10, <2>12, <2>13, <2>14 DEF ServiceInv
<1> QED
  BY <1>2, <1>3

-----------------------------------------------------------------------------
(* Time and the approval transport.                                        *)

\* Expiry changes no authority an approval stands behind.
LEMMA ExpireGrantInv ==
  ASSUME NEW a \in Actions, ServiceInv, ExpireGrant(a)
  PROVE  ServiceInv' /\ [StoreNext]_storeVars
<1>1. GrantExpires(a) /\ UNCHANGED <<evidence, audits, call>>
  BY DEF ExpireGrant, serviceVars
<1>2. [StoreNext]_storeVars
  BY <1>1 DEF StoreNext
<1>3. StoreInv'
  BY <1>2, StoreNextInv DEF ServiceInv
<1>4. TypeOK'
  BY <1>1, <1>3 DEF ServiceInv, StoreInv, TypeOK
<1>5. Rows' = Rows /\ UNCHANGED <<status, binding, approval>>
  BY <1>1 DEF GrantExpires, Rows
<1>6. \A x \in Actions : grant'[x] = "none" <=> grant[x] = "none"
  BY <1>1 DEF GrantExpires, ServiceInv, StoreInv, StoreTypeOK
<1>7. CallsGood' /\ ApprovalsHeld'
  BY <1>1, <1>5 DEF ServiceInv, CallsGood, GoodCall, ApprovalsHeld, HoldsApproval, Approves
<1>8. PlansFit' /\ ApprovalBacksOneGrant'
  BY <1>1, <1>5, <1>6 DEF ServiceInv, PlansFit, ApprovalBacksOneGrant, Approves, Rows
<1> QED
  BY <1>2, <1>3, <1>4, <1>7, <1>8 DEF ServiceInv

\* Evidence that grew or was revoked without changing what was approved.
LEMMA EvidenceOnlyInv ==
  ASSUME ServiceInv, UNCHANGED <<storeVars, audits, call>>,
         evidence' \in [Plans -> Evidence],
         \A q \in Plans : /\ evidence[q].consumed => evidence'[q].consumed
                          /\ evidence'[q].op = evidence[q].op
                          /\ evidence[q].decision = "approved" => evidence'[q].decision = "approved"
  PROVE  ServiceInv'
<1> USE DEF storeVars
<1>1. StoreInv'
  BY StoreNextInv DEF ServiceInv
<1>2. TypeOK'
  BY <1>1 DEF ServiceInv, StoreInv, TypeOK
<1>3. CallsGood' /\ PlansFit'
  BY DEF ServiceInv, CallsGood, GoodCall, PlansFit, Rows
<1>4. ASSUME NEW q \in Plans, NEW a, Approves(q, a) PROVE Approves(q, a)'
  BY <1>4 DEF Approves
<1>5. ApprovalsHeld'
  <2>1. ASSUME NEW c \in Callers PROVE HoldsApproval(call[c])'
    <3>1. HoldsApproval(call[c]) /\ call[c].approved \in Plans \cup {NoPlan}
      BY DEF ServiceInv, TypeOK, ApprovalsHeld, Calls
    <3>2. call[c].approved # NoPlan => Approves(call[c].approved, call[c].act)'
      BY <3>1 DEF HoldsApproval, Approves
    <3> QED
      BY <3>1, <3>2 DEF HoldsApproval, Rows
  <2> QED
    BY <2>1 DEF ServiceInv, ApprovalsHeld
<1>6. ApprovalBacksOneGrant'
  <2>1. \A b \in Rows : binding[b].plan # NoPlan => binding[b].plan \in Plans
    BY DEF ServiceInv, StoreInv, StoreTypeOK, Bindings
  <2> QED
    BY <2>1 DEF ServiceInv, ApprovalBacksOneGrant, Approves, Rows
<1> QED
  BY <1>1, <1>2, <1>3, <1>5, <1>6 DEF ServiceInv

\* The authority's decision, and a revocation.
LEMMA TransportInv ==
  ASSUME NEW p \in Plans, ServiceInv,
         RevokePlan(p) \/ \E d \in {"approved", "denied"} : RecordEvidence(p, d)
  PROVE  ServiceInv' /\ UNCHANGED storeVars
<1>0. evidence \in [Plans -> Evidence]
  BY DEF ServiceInv, TypeOK
<1>1. CASE RevokePlan(p)
  <2>1. UNCHANGED <<storeVars, audits, call>> /\ evidence' = [evidence EXCEPT ![p].revoked = TRUE]
    BY <1>1 DEF RevokePlan
  <2>2. evidence' \in [Plans -> Evidence]
    BY <1>0, <2>1 DEF Evidence
  <2>3. \A q \in Plans : /\ evidence'[q].consumed = evidence[q].consumed
                          /\ evidence'[q].op = evidence[q].op
                          /\ evidence'[q].decision = evidence[q].decision
    BY <1>0, <2>1 DEF Evidence
  <2> QED
    BY <2>1, <2>2, <2>3, EvidenceOnlyInv
<1>2. ASSUME NEW d \in {"approved", "denied"}, RecordEvidence(p, d)
      PROVE  ServiceInv' /\ UNCHANGED storeVars
  <2>1. /\ UNCHANGED <<storeVars, audits, call>> /\ evidence' = [evidence EXCEPT ![p].decision = d]
        /\ evidence[p].decision = "none"
    BY <1>2 DEF RecordEvidence
  <2>2. evidence' \in [Plans -> Evidence]
    BY <1>0, <2>1 DEF Evidence
  <2>3. \A q \in Plans : /\ evidence'[q].consumed = evidence[q].consumed
                          /\ evidence'[q].op = evidence[q].op
                          /\ evidence[q].decision = "approved" => evidence'[q].decision = "approved"
    BY <1>0, <2>1 DEF Evidence
  <2> QED
    BY <2>1, <2>2, <2>3, EvidenceOnlyInv
<1> QED
  BY <1>1, <1>2

-----------------------------------------------------------------------------
(* The theorems.                                                           *)

\* Every step of the service keeps the invariant and is a transaction of the
\* tables or leaves them alone.
LEMMA ServiceNextInv ==
  ServiceInv /\ [Next]_vars => ServiceInv' /\ [StoreNext]_storeVars
<1> SUFFICES ASSUME ServiceInv, [Next]_vars PROVE ServiceInv' /\ [StoreNext]_storeVars
  OBVIOUS
<1>1. ASSUME NEW c \in Callers, CallStep(c) PROVE ServiceInv' /\ [StoreNext]_storeVars
  <2>1. CASE appendAudit(c)
    BY <2>1, AppendAuditInv
  <2>2. CASE Abandon(c)
    BY <2>2, RefusedWriteInv DEF Abandon
  <2>3. CASE ConsumeEvidence(c)
    BY <2>3, ConsumeEvidenceInv
  <2>4. CASE StorePutRequested(c) \/ StorePutCompensation(c)
    BY <2>4, StorePutRequestedInv, StorePutCompensationInv
  <2>5. CASE StoreGrantStep(c) \/ StoreDispatchStep(c)
    BY <2>5, StoreGrantStepInv, StoreDispatchStepInv
  <2>6. CASE StoreTransitionStep(c) \/ StoreIngestStep(c) \/ StoreMarkCompensating(c)
    BY <2>6, StoreTransitionStepInv, StoreIngestStepInv, StoreMarkCompensatingInv
  <2> QED
    BY <1>1, <2>1, <2>2, <2>3, <2>4, <2>5, <2>6 DEF CallStep
<1>2. ASSUME NEW c \in Callers, NEW a \in Actions, CallStart(c, a)
      PROVE  ServiceInv' /\ [StoreNext]_storeVars
  BY <1>2, CallStartInv
<1>3. ASSUME NEW p \in Plans, RevokePlan(p) \/ \E d \in {"approved", "denied"} : RecordEvidence(p, d)
      PROVE  ServiceInv' /\ [StoreNext]_storeVars
  BY <1>3, TransportInv
<1>4. ASSUME NEW a \in Actions, ExpireGrant(a) PROVE ServiceInv' /\ [StoreNext]_storeVars
  BY <1>4, ExpireGrantInv
<1>5. CASE UNCHANGED vars
  <2>1. evidence' = evidence /\ UNCHANGED <<storeVars, audits, call>>
    BY <1>5 DEF vars, serviceVars
  <2> QED
    BY <2>1, EvidenceOnlyInv DEF ServiceInv, TypeOK
<1> QED
  BY <1>1, <1>2, <1>3, <1>4, <1>5 DEF Next

\* The service stays within its invariant for any number of callers.
THEOREM ServiceInvariant == Spec => []ServiceInv
  BY ServiceInitInv, ServiceNextInv, PTL DEF Spec

\* Type correctness of the whole service state.
THEOREM ServiceTypeOK == Spec => []TypeOK
<1>1. ServiceInv => TypeOK
  BY DEF ServiceInv
<1> QED
  BY <1>1, ServiceInvariant, PTL

\* The service implements the tables' specification: whatever its callers read
\* and when, it only ever commits the transactions ActionStore allows.
THEOREM ServiceImplementsStore == Spec => StoreSpec
<1>1. Init => StoreInit
  BY DEF Init
<1> QED
  BY <1>1, ServiceInvariant, ServiceNextInv, PTL DEF Spec, StoreSpec

\* One approval backs one grant of exactly the operation it approved, whatever
\* Grant calls race for it (Service.Grant, ConsumeEvidence).
THEOREM ServiceApprovalBacksOneGrant == Spec => []ApprovalBacksOneGrant
<1>1. ServiceInv => ApprovalBacksOneGrant
  BY DEF ServiceInv
<1> QED
  BY <1>1, ServiceInvariant, PTL

\* Dispatch authority is one-use under every interleaving of service calls.
THEOREM ServiceOneUseDispatch == Spec => []OneUseDispatch
  BY ServiceImplementsStore, StoreOneUseDispatch, PTL

\* A result is applied once under every interleaving of service calls.
THEOREM ServiceResultAppliedOnce == Spec => []ResultAppliedOnce
  BY ServiceImplementsStore, StoreResultAppliedOnce, PTL

\* The tables only move a row along an edge of the state machine.
LEMMA StoreFollowsEdges ==
  ASSUME StoreTypeOK, [StoreNext]_storeVars, NEW a \in Actions,
         status[a] # "absent", status'[a] # status[a]
  PROVE  canTransition(status[a], status'[a])
<1>1. CASE PutRequestedStep
  BY <1>1 DEF PutRequestedStep, PutRequested, StoreTypeOK
<1>2. CASE \E x \in Actions, p \in Plans \cup {NoPlan} : StoreGrant(x, p)
  BY <1>2 DEF StoreGrant, GrantAccepted, UpdateAllowed, StoreTypeOK
<1>3. CASE \E x \in Actions : StoreDispatch(x)
  BY <1>3 DEF StoreDispatch, DispatchAccepted, UpdateAllowed, StoreTypeOK
<1>4. CASE \E x \in Actions, from \in Statuses, to \in PlainTargets : StoreTransition(x, from, to)
  BY <1>4 DEF StoreTransition, TransitionAccepted, UpdateAllowed, StoreTypeOK
<1>5. CASE \E x \in Actions, r \in ResultIds, to \in ReceiptStatuses : IngestResult(x, r, to)
  BY <1>5 DEF IngestResult, IngestAccepted, UpdateAllowed, StoreTypeOK
<1>6. CASE (\E x \in Actions : GrantExpires(x)) \/ UNCHANGED storeVars
  BY <1>6 DEF GrantExpires, storeVars
<1> QED
  BY <1>1, <1>2, <1>3, <1>4, <1>5, <1>6 DEF StoreNext

\* No committed status change leaves the state machine's edges, although every
\* caller decides on a status it read before its write (mapTransitionErr).
THEOREM ServiceFollowsEdges == Spec => StatusFollowsEdges
<1>1. ServiceInv /\ [Next]_vars =>
        [\A a \in Actions : status[a] # "absent" /\ status'[a] # status[a] =>
           canTransition(status[a], status'[a])]_vars
  BY ServiceNextInv, StoreFollowsEdges DEF ServiceInv, StoreInv
<1> QED
  BY <1>1, ServiceInvariant, PTL DEF Spec, StatusFollowsEdges

-----------------------------------------------------------------------------
(* Lineage and compensation.  A call that is about to write has audited    *)
(* what it writes; a compensation is bound to its original by its key, so  *)
(* the uniqueness of keys makes it the only one.                           *)

\* What a call record prepares: its audit event is committed before its write,
\* it writes what its operation says, and a compensation it minted stays minted.
Prepared(k) ==
  k.pc # "idle" =>
    /\ k.pc = "store" => k.to \in audits[k.act]
    /\ k.pc = "store2" => "compensating" \in audits[k.orig]
    /\ k.op = "Grant" => k.to = "granted"
    /\ k.op = "Dispatch" => k.to = "dispatched"
    /\ k.op \in PlainOps => k.to # "compensating"
    /\ k.op = "RequestAction" => k.bind.of = NoAction
    /\ k.op = "Compensate" =>
         /\ k.bind.of = k.orig /\ k.bind.key = CompKey(k.orig) /\ ~k.bind.compensable
         /\ binding[k.orig].compensable
    /\ k.pc \in {"audit2", "store2"} =>
         k.op = "Compensate" /\ k.act \in Rows /\ binding[k.act].key = CompKey(k.orig)

CallsPrepared == \A c \in Callers : Prepared(call[c])

\* A compensation carries its original's key and is not compensable itself.
CompensationsBound ==
  \A a \in Rows : binding[a].of # NoAction =>
    /\ binding[a].key = CompKey(binding[a].of) /\ ~binding[a].compensable
    /\ binding[a].of \in Rows /\ binding[binding[a].of].compensable

LineageInv ==
  CallsPrepared /\ AuditPrecedesStatus /\ CompensationsBound /\ CompensatingHasCompensation

\* With one row per key, bound compensations are unique.
LEMMA BoundIsUnique ==
  ASSUME ServiceInv, CompensationsBound PROVE CompensationIsUnique
<1> SUFFICES ASSUME NEW a \in Rows, binding[a].of # NoAction
             PROVE  /\ \A b \in Rows : binding[b].of = binding[a].of => b = a
                    /\ ~\E b \in Rows : binding[b].of = a
  BY DEF CompensationsBound, CompensationIsUnique
<1>1. ASSUME NEW b \in Rows, binding[b].of = binding[a].of PROVE b = a
  BY <1>1 DEF CompensationsBound, ServiceInv, StoreInv, OneActionPerKey
<1>2. ASSUME NEW b \in Rows, binding[b].of = a PROVE FALSE
  <2>1. a # NoAction
    BY StoreAssumption DEF Rows
  <2> QED
    BY <1>2, <2>1 DEF CompensationsBound
<1> QED
  BY <1>1, <1>2

\* A call that does not move keeps what it prepared.
LEMMA OthersPrepared ==
  ASSUME ServiceInv, CallsPrepared, [StoreNext]_storeVars,
         \A a \in Actions : audits[a] \subseteq audits'[a],
         NEW d \in Callers, call'[d] = call[d]
  PROVE  Prepared(call[d])'
<1>1. GoodCall(call[d]) /\ Prepared(call[d])
  BY DEF ServiceInv, CallsGood, CallsPrepared
<1>2. \A a \in Rows : a \in Actions /\ a \in Rows' /\ binding'[a] = binding[a]
  BY RowsStay DEF ServiceInv, StoreInv, Rows
<1>3. call[d].pc # "idle" => call[d].act \in Actions
  BY <1>1 DEF GoodCall
<1>4. call[d].pc # "idle" /\ call[d].op = "Compensate" => call[d].orig \in Rows
  BY <1>1 DEF GoodCall
<1> QED
  BY <1>1, <1>2, <1>3, <1>4 DEF Prepared

\* The tables are left alone while the trail grows.
LEMMA QuietLineage ==
  ASSUME LineageInv, UNCHANGED storeVars,
         \A a \in Actions : audits[a] \subseteq audits'[a], CallsPrepared'
  PROVE  LineageInv'
  BY DEF storeVars, LineageInv, AuditPrecedesStatus, CompensationsBound, CompensatingHasCompensation, ByKey, Rows

\* One row moves to a status that was audited.
LEMMA MovedLineage ==
  ASSUME ServiceInv, LineageInv, NEW a \in Actions, NEW s \in Statuses,
         a \in Rows, status' = [status EXCEPT ![a] = s], UNCHANGED <<binding, audits>>,
         s \in audits[a], s = "compensating" => ByKey(CompKey(a)) # {}, CallsPrepared'
  PROVE  LineageInv'
<1>1. Rows' = Rows
  BY DEF Rows, ServiceInv, TypeOK, StoreTypeOK, Statuses
<1>2. \A k : ByKey(k)' = ByKey(k)
  BY <1>1 DEF ByKey
<1>3. AuditPrecedesStatus' /\ CompensatingHasCompensation'
  BY <1>1, <1>2 DEF LineageInv, AuditPrecedesStatus, CompensatingHasCompensation, ServiceInv, TypeOK, StoreTypeOK, Rows
<1>4. CompensationsBound'
  BY <1>1 DEF LineageInv, CompensationsBound
<1> QED
  BY <1>3, <1>4 DEF LineageInv

\* A row is minted, its first status audited; a compensation is bound to an
\* original that declared one.
LEMMA MintedLineage ==
  ASSUME ServiceInv, LineageInv, NEW a \in Actions, NEW b \in Bindings,
         NEW s \in {"requested", "awaiting_approval"},
         PutRequested(a, b, s), UNCHANGED audits, s \in audits[a], CallsPrepared',
         b.of # NoAction => /\ b.key = CompKey(b.of) /\ ~b.compensable
                            /\ b.of \in Rows /\ binding[b.of].compensable
  PROVE  LineageInv'
<1>1. Rows' = Rows \cup {a} /\ a \notin Rows
  BY DEF PutRequested, Rows, ServiceInv, TypeOK, StoreTypeOK
<1>2. /\ \A x \in Rows : binding'[x] = binding[x] /\ status'[x] = status[x]
      /\ binding'[a] = b /\ status'[a] = s
  BY <1>1 DEF PutRequested, Rows, ServiceInv, TypeOK, StoreTypeOK
<1>3. AuditPrecedesStatus'
  BY <1>1, <1>2 DEF LineageInv, AuditPrecedesStatus
<1>4. CompensatingHasCompensation'
  BY <1>1, <1>2 DEF LineageInv, CompensatingHasCompensation, ByKey
<1>5. CompensationsBound'
  BY <1>1, <1>2 DEF LineageInv, CompensationsBound
<1> QED
  BY <1>3, <1>4, <1>5 DEF LineageInv

\* A step of caller c leaves the other calls alone; its own record is prepared.
LEMMA CallerPrepared ==
  ASSUME ServiceInv, CallsPrepared, [StoreNext]_storeVars, NEW c \in Callers,
         \A a \in Actions : audits[a] \subseteq audits'[a],
         \A d \in Callers \ {c} : call'[d] = call[d],
         Prepared(call[c])'
  PROVE  CallsPrepared'
  BY OthersPrepared DEF CallsPrepared

\* A call that ends prepares nothing.
LEMMA FinishPrepared ==
  ASSUME ServiceInv, CallsPrepared, [StoreNext]_storeVars, NEW c \in Callers,
         UNCHANGED audits, Finish(c)
  PROVE  CallsPrepared'
<1>1. call'[c] = NoCall /\ \A d \in Callers \ {c} : call'[d] = call[d]
  BY DEF Finish, ServiceInv, TypeOK
<1>2. Prepared(call[c])'
  BY <1>1 DEF Prepared, NoCall
<1> QED
  BY <1>1, <1>2, CallerPrepared

\* A read leaves a record that has promised nothing yet.
LEMMA StartLineage ==
  ASSUME ServiceInv, LineageInv, NEW c \in Callers, NEW k,
         call' = [call EXCEPT ![c] = k], UNCHANGED <<storeVars, evidence, audits>>, Prepared(k)
  PROVE  LineageInv'
<1>1. call'[c] = k /\ \A d \in Callers \ {c} : call'[d] = call[d]
  BY DEF ServiceInv, TypeOK
<1>2. Prepared(call[c])'
  BY <1>1 DEF Prepared, storeVars, Rows
<1>3. CallsPrepared'
  BY <1>1, <1>2, CallerPrepared DEF LineageInv
<1> QED
  BY <1>3, QuietLineage

\* Every read starts a call that is prepared.
LEMMA CallStartLineage ==
  ASSUME ServiceInv, LineageInv, NEW c \in Callers, NEW a \in Actions, CallStart(c, a)
  PROVE  LineageInv'
<1>1. ASSUME NEW b \in Requests, RequestAction(c, a, b) PROVE LineageInv'
  <2> DEFINE k == [NoCall EXCEPT !.op = "RequestAction", !.pc = "audit", !.act = a, !.bind = b,
                     !.to = IF b.plan = NoPlan THEN "requested" ELSE "awaiting_approval"]
  <2>1. b.of = NoAction
    BY ServiceAssumption
  <2>2. Prepared(k)
    BY <2>1 DEF NoCall, Prepared, PlainOps
  <2> QED
    BY <1>1, <2>2, StartLineage DEF RequestAction, Start
<1>2. CASE Grant(c, a)
  <2> DEFINE k == [NoCall EXCEPT !.op = "Grant", !.act = a, !.from = status[a], !.to = "granted",
                     !.pc = IF status[a] = "awaiting_approval" THEN "consume" ELSE "audit"]
  <2>1. Prepared(k)
    BY DEF NoCall, Prepared, PlainOps
  <2> QED
    BY <1>2, <2>1, StartLineage DEF Grant, Start
<1>3. CASE Dispatch(c, a)
  <2> DEFINE k == [NoCall EXCEPT !.op = "Dispatch", !.pc = "audit", !.act = a,
                     !.from = "granted", !.to = "dispatched"]
  <2>1. Prepared(k)
    BY DEF NoCall, Prepared, PlainOps
  <2> QED
    BY <1>3, <2>1, StartLineage DEF Dispatch, Start
<1>4. CASE MarkExecuting(c, a) \/ MarkResultUnknown(c, a) \/ HumanTakeover(c, a) \/ Cancel(c, a)
           \/ BeginReconciliation(c, a) \/ ResolveFailed(c, a)
  <2>1. ASSUME NEW op \in PlainOps, NEW from, NEW to \in PlainTargets \ {"compensating"},
               StartOn(c, op, a, from, to)
        PROVE  LineageInv'
    <3> DEFINE k == [NoCall EXCEPT !.op = op, !.pc = "audit", !.act = a, !.from = status[a], !.to = to]
    <3>1. Prepared(k)
      BY DEF NoCall, Prepared, PlainOps
    <3> QED
      BY <2>1, <3>1, StartLineage DEF StartOn, Start
  <2> QED
    BY <1>4, <2>1 DEF MarkExecuting, MarkResultUnknown, HumanTakeover, Cancel,
         BeginReconciliation, ResolveFailed, PlainOps, PlainTargets
<1>5. CASE ResolveSucceeded(c, a)
  <2> DEFINE k == [NoCall EXCEPT !.op = "ResolveSucceeded", !.pc = "audit", !.act = a,
                     !.from = status[a], !.to = "succeeded", !.result = ReconcileId(a)]
  <2>1. Prepared(k)
    BY DEF NoCall, Prepared, PlainOps
  <2> QED
    BY <1>5, <2>1, StartLineage DEF ResolveSucceeded, Start
<1>6. ASSUME NEW r \in Results, NEW outcome \in ReceiptStatuses, IngestReceipt(c, a, r, outcome)
      PROVE  LineageInv'
  <2> DEFINE k == [NoCall EXCEPT !.op = "IngestReceipt", !.pc = "audit", !.act = a,
                     !.from = status[a], !.to = outcome, !.result = r]
  <2>1. Prepared(k)
    BY DEF NoCall, Prepared, PlainOps
  <2> QED
    BY <1>6, <2>1, StartLineage DEF IngestReceipt, Start
<1>7. ASSUME NEW orig \in Actions, Compensate(c, orig, a) PROVE LineageInv'
  <2> DEFINE b == [key |-> CompKey(orig), op |-> CompOperation, plan |-> NoPlan,
                   compensable |-> FALSE, of |-> orig]
             k == [NoCall EXCEPT !.op = "Compensate", !.pc = "audit", !.act = a, !.orig = orig,
                     !.from = status[orig], !.to = "requested", !.bind = b]
  <2>1. binding[orig].compensable /\ call' = [call EXCEPT ![c] = k]
        /\ UNCHANGED <<storeVars, evidence, audits>>
    BY <1>7 DEF Compensate, Start
  <2>2. b.of = orig /\ b.key = CompKey(orig) /\ ~b.compensable
    OBVIOUS
  <2> HIDE DEF b
  <2>3. Prepared(k)
    BY <2>1, <2>2 DEF NoCall, Prepared, PlainOps
  <2> QED
    BY <2>1, <2>3, StartLineage
<1> QED
  BY <1>1, <1>2, <1>3, <1>4, <1>5, <1>6, <1>7 DEF CallStart

\* The append names what the call goes on to write.
LEMMA AppendAuditLineage ==
  ASSUME ServiceInv, LineageInv, NEW c \in Callers, appendAudit(c)
  PROVE  LineageInv'
<1>1. PICK pc \in {"store", "store2"} :
        /\ call' = [call EXCEPT ![c].pc = pc] /\ UNCHANGED storeVars
        /\ call[c].pc = IF pc = "store" THEN "audit" ELSE "audit2"
        /\ audits' = [audits EXCEPT ![IF pc = "store" THEN call[c].act ELSE call[c].orig] =
                        @ \cup {IF pc = "store" THEN call[c].to ELSE "compensating"}]
  BY DEF appendAudit, At
<1>2. call[c] \in Calls /\ GoodCall(call[c]) /\ Prepared(call[c])
  BY DEF ServiceInv, TypeOK, CallsGood, LineageInv, CallsPrepared
<1>3. \A a \in Actions : audits[a] \subseteq audits'[a]
  BY <1>1 DEF ServiceInv, TypeOK
<1>4. call'[c] = [call[c] EXCEPT !.pc = pc] /\ \A d \in Callers \ {c} : call'[d] = call[d]
  BY <1>1 DEF ServiceInv, TypeOK
<1>5. call[c].act \in Actions /\ (pc = "store2" => call[c].orig \in Actions)
  BY <1>1, <1>2 DEF GoodCall, Prepared, Rows
<1>6. /\ pc = "store" => call[c].to \in audits'[call[c].act]
      /\ pc = "store2" => "compensating" \in audits'[call[c].orig]
  BY <1>1, <1>5 DEF ServiceInv, TypeOK
<1>7. Prepared(call[c])'
  BY <1>1, <1>2, <1>4, <1>6 DEF Prepared, Calls, storeVars, Rows
<1>8. CallsPrepared'
  BY <1>1, <1>3, <1>4, <1>7, CallerPrepared DEF LineageInv
<1> QED
  BY <1>1, <1>3, <1>8, QuietLineage

\* Consuming evidence writes no row.
LEMMA ConsumeEvidenceLineage ==
  ASSUME ServiceInv, LineageInv, NEW c \in Callers, ConsumeEvidence(c)
  PROVE  LineageInv'
<1>1. call[c] \in Calls /\ Prepared(call[c]) /\ call[c].pc = "consume"
  BY DEF ServiceInv, TypeOK, LineageInv, CallsPrepared, ConsumeEvidence
<1>2. UNCHANGED storeVars /\ UNCHANGED audits
  BY DEF ConsumeEvidence
<1>3. \/ Finish(c)
      \/ \E p : call' = [call EXCEPT ![c] = [call[c] EXCEPT !.pc = "audit", !.approved = p]]
  BY DEF ConsumeEvidence, Start
<1>4. CASE Finish(c)
  BY <1>2, <1>4, FinishPrepared, QuietLineage DEF LineageInv
<1>5. ASSUME NEW p, call' = [call EXCEPT ![c] = [call[c] EXCEPT !.pc = "audit", !.approved = p]]
      PROVE  LineageInv'
  <2>1. call'[c] = [call[c] EXCEPT !.pc = "audit", !.approved = p]
        /\ \A d \in Callers \ {c} : call'[d] = call[d]
    BY <1>5 DEF ServiceInv, TypeOK
  <2>2. Prepared(call[c])'
    BY <1>1, <1>2, <2>1 DEF Prepared, Calls, storeVars, Rows
  <2>3. CallsPrepared'
    BY <1>2, <2>1, <2>2, CallerPrepared DEF LineageInv
  <2> QED
    BY <1>2, <2>3, QuietLineage
<1> QED
  BY <1>3, <1>4, <1>5

\* A refused write, and a call abandoned.
LEMMA RefusedLineage ==
  ASSUME ServiceInv, LineageInv, NEW c \in Callers, Finish(c), UNCHANGED <<storeVars, audits>>
  PROVE  LineageInv'
  BY FinishPrepared, QuietLineage DEF LineageInv

\* The writes that move one row.
LEMMA MovingWriteLineage ==
  ASSUME ServiceInv, LineageInv, NEW c \in Callers,
         \/ StoreGrantStep(c) \/ StoreDispatchStep(c) \/ StoreTransitionStep(c)
         \/ StoreIngestStep(c) \/ StoreMarkCompensating(c)
  PROVE  LineageInv'
<1>1. GoodCall(call[c]) /\ Prepared(call[c]) /\ call[c] \in Calls
  BY DEF ServiceInv, TypeOK, CallsGood, LineageInv, CallsPrepared
<1>2. Finish(c) /\ UNCHANGED audits
  BY DEF StoreGrantStep, StoreDispatchStep, StoreTransitionStep, StoreIngestStep, StoreMarkCompensating, Write
<1>3. [StoreNext]_storeVars
  BY StoreGrantStepInv, StoreDispatchStepInv, StoreTransitionStepInv, StoreIngestStepInv, StoreMarkCompensatingInv
<1>4. CallsPrepared'
  BY <1>2, <1>3, FinishPrepared DEF LineageInv
<1>5. CASE UNCHANGED storeVars
  BY <1>2, <1>4, <1>5, QuietLineage
<1>6. ASSUME NEW a \in Rows, NEW s \in Statuses, status' = [status EXCEPT ![a] = s], UNCHANGED binding,
             s \in audits[a], s = "compensating" => ByKey(CompKey(a)) # {}
      PROVE  LineageInv'
  BY <1>2, <1>4, <1>6, MovedLineage DEF Rows
<1>7. CASE StoreGrantStep(c)
  <2>1. call[c].act \in Rows /\ "granted" \in audits[call[c].act]
    BY <1>1, <1>7 DEF StoreGrantStep, GoodCall, Prepared, MintingOps
  <2>2. CASE GrantAccepted(call[c].act)
    BY <1>6, <1>7, <2>1, <2>2 DEF StoreGrantStep, Write, StoreGrant, Statuses
  <2> QED
    BY <1>5, <1>7, <2>2 DEF StoreGrantStep, Write
<1>8. CASE StoreDispatchStep(c)
  <2>1. call[c].act \in Rows /\ "dispatched" \in audits[call[c].act]
    BY <1>1, <1>8 DEF StoreDispatchStep, GoodCall, Prepared, MintingOps
  <2>2. CASE DispatchAccepted(call[c].act)
    BY <1>6, <1>8, <2>1, <2>2 DEF StoreDispatchStep, Write, StoreDispatch, Statuses
  <2> QED
    BY <1>5, <1>8, <2>2 DEF StoreDispatchStep, Write
<1>9. CASE StoreTransitionStep(c)
  <2>1. /\ call[c].act \in Rows /\ call[c].to \in audits[call[c].act]
        /\ call[c].to \in Statuses /\ call[c].to # "compensating"
    BY <1>1, <1>9 DEF StoreTransitionStep, GoodCall, Prepared, MintingOps, PlainOps
  <2>2. CASE TransitionAccepted(call[c].act, call[c].from, call[c].to)
    BY <1>6, <1>9, <2>1, <2>2 DEF StoreTransitionStep, Write, StoreTransition
  <2> QED
    BY <1>5, <1>9, <2>2 DEF StoreTransitionStep, Write
<1>10. CASE StoreIngestStep(c)
  <2>1. /\ call[c].act \in Rows /\ call[c].to \in audits[call[c].act]
        /\ call[c].to \in Statuses /\ call[c].to # "compensating"
    BY <1>1, <1>10 DEF StoreIngestStep, GoodCall, Prepared, MintingOps, ReceiptStatuses
  <2>2. CASE IngestAccepted(call[c].act, call[c].result, call[c].to)
    BY <1>6, <1>10, <2>1, <2>2 DEF StoreIngestStep, Write, IngestResult
  <2> QED
    BY <1>5, <1>10, <2>2 DEF StoreIngestStep, Write
<1>11. CASE StoreMarkCompensating(c)
  <2>1. /\ call[c].orig \in Rows /\ "compensating" \in audits[call[c].orig]
        /\ call[c].act \in ByKey(CompKey(call[c].orig))
    BY <1>1, <1>11 DEF StoreMarkCompensating, GoodCall, Prepared, ByKey
  <2>2. CASE TransitionAccepted(call[c].orig, call[c].from, "compensating")
    BY <1>6, <1>11, <2>1, <2>2 DEF StoreMarkCompensating, Write, StoreTransition, Statuses
  <2> QED
    BY <1>5, <1>11, <2>2 DEF StoreMarkCompensating, Write
<1> QED
  BY <1>7, <1>8, <1>9, <1>10, <1>11

\* The writes that mint a row.
LEMMA MintingWriteLineage ==
  ASSUME ServiceInv, LineageInv, NEW c \in Callers, StorePutRequested(c) \/ StorePutCompensation(c)
  PROVE  LineageInv'
<1> DEFINE a == call[c].act
           b == call[c].bind
           s == call[c].to
<1>1. GoodCall(call[c]) /\ Prepared(call[c]) /\ call[c] \in Calls
  BY DEF ServiceInv, TypeOK, CallsGood, LineageInv, CallsPrepared
<1>2. UNCHANGED audits /\ [StoreNext]_storeVars
  BY StorePutRequestedInv, StorePutCompensationInv DEF StorePutRequested, StorePutCompensation, Write
<1>3. /\ a \in Actions /\ b \in Bindings /\ s \in {"requested", "awaiting_approval"} /\ s \in audits[a]
      /\ b.of # NoAction => /\ b.key = CompKey(b.of) /\ ~b.compensable
                            /\ b.of \in Rows /\ binding[b.of].compensable
  BY <1>1 DEF StorePutRequested, StorePutCompensation, GoodCall, Prepared, MintingOps
<1>4. CASE ByKey(b.key) # {}
  BY <1>2, <1>4, RefusedLineage DEF StorePutRequested, StorePutCompensation, Write
<1>5. CASE ByKey(b.key) = {}
  <2>1. PutRequested(a, b, s)
    BY <1>1, <1>5 DEF StorePutRequested, StorePutCompensation, Write, GoodCall
  <2>2. CallsPrepared'
    <3>1. CASE Finish(c)
      BY <1>2, <3>1, FinishPrepared DEF LineageInv
    <3>2. CASE call[c].op = "Compensate" /\ At(c, "audit2")
      <4>1. call'[c] = [call[c] EXCEPT !.pc = "audit2"] /\ \A d \in Callers \ {c} : call'[d] = call[d]
        BY <3>2 DEF At, ServiceInv, TypeOK
      <4>2. a \in Rows' /\ binding'[a] = b /\ call[c].orig \in Rows
        BY <1>1, <1>3, <2>1, <3>2 DEF PutRequested, ServiceInv, TypeOK, StoreTypeOK, Rows, GoodCall,
             StorePutRequested, StorePutCompensation
      <4>3. binding'[call[c].orig] = binding[call[c].orig]
        BY <1>2, <4>2, RowsStay DEF ServiceInv, StoreInv
      <4>4. Prepared(call[c])'
        BY <1>1, <3>2, <4>1, <4>2, <4>3 DEF Prepared, Calls, PlainOps, StorePutRequested, StorePutCompensation
      <4> QED
        BY <1>2, <4>1, <4>4, CallerPrepared DEF LineageInv
    <3> QED
      BY <1>5, <3>1, <3>2 DEF StorePutRequested, StorePutCompensation, Write
  <2> QED
    BY <1>2, <1>3, <2>1, <2>2, MintedLineage
<1> QED
  BY <1>4, <1>5

\* Every step keeps the lineage.
LEMMA LineageNext == ServiceInv /\ LineageInv /\ [Next]_vars => LineageInv'
<1> SUFFICES ASSUME ServiceInv, LineageInv, [Next]_vars PROVE LineageInv'
  OBVIOUS
<1>1. ASSUME NEW c \in Callers, CallStep(c) PROVE LineageInv'
  BY <1>1, AppendAuditLineage, RefusedLineage, ConsumeEvidenceLineage, MovingWriteLineage,
     MintingWriteLineage DEF CallStep, Abandon
<1>2. ASSUME NEW c \in Callers, NEW a \in Actions, CallStart(c, a) PROVE LineageInv'
  BY <1>2, CallStartLineage
<1>3. ASSUME UNCHANGED <<audits, call, status, binding>> PROVE LineageInv'
  BY <1>3
  DEF LineageInv, CallsPrepared, Prepared, AuditPrecedesStatus, CompensationsBound,
      CompensatingHasCompensation, ByKey, Rows
<1>4. ASSUME NEW a \in Actions, ExpireGrant(a) PROVE LineageInv'
  BY <1>3, <1>4 DEF ExpireGrant, GrantExpires, serviceVars
<1>5. ASSUME NEW p \in Plans, RevokePlan(p) \/ \E d \in {"approved", "denied"} : RecordEvidence(p, d)
      PROVE  LineageInv'
  BY <1>3, <1>5 DEF RevokePlan, RecordEvidence, storeVars
<1>6. CASE UNCHANGED vars
  BY <1>3, <1>6 DEF vars, storeVars, serviceVars
<1> QED
  BY <1>1, <1>2, <1>4, <1>5, <1>6 DEF Next

\* The lineage holds from the start.
LEMMA LineageInit == Init => LineageInv
  BY DEF Init, StoreInit, LineageInv, CallsPrepared, Prepared, NoCall, AuditPrecedesStatus,
         CompensationsBound, CompensatingHasCompensation, Rows

\* Calls that write have audited, and compensations are bound, in every reachable state.
THEOREM ServiceLineage == Spec => []LineageInv
  BY ServiceInvariant, LineageInit, LineageNext, PTL DEF Spec

\* No transition without its audit event, for any number of callers, crashes and
\* abandoned calls (appendAudit before every store write).
THEOREM ServiceAuditPrecedesStatus == Spec => []AuditPrecedesStatus
<1>1. LineageInv => AuditPrecedesStatus
  BY DEF LineageInv
<1> QED
  BY <1>1, ServiceLineage, PTL

\* One compensation per original, of an original that declared one, and none
\* without its original or the other way round, through both transactions of
\* Service.Compensate, its retries and its races.
THEOREM ServiceCompensationsAreSound == Spec => []CompensationsAreSound
<1>1. ServiceInv /\ LineageInv => CompensationsAreSound
  BY BoundIsUnique DEF LineageInv, CompensationsAreSound
<1> QED
  BY <1>1, ServiceInvariant, ServiceLineage, PTL
=============================================================================
