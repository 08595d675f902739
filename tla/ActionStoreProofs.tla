-------------------------- MODULE ActionStoreProofs --------------------------
(***************************************************************************)
(* What the tables of ActionStore promise, proved for every set of         *)
(* actions, keys, plans and results, and for every caller.                 *)
(*                                                                         *)
(* No promise is inductive alone.  One-use dispatch gives "succeeded" its  *)
(* intent only because GrantMatchesStatus knows a live row has a consumed  *)
(* grant; and a result can be paired with a row only because a live row is *)
(* known to have no receipt yet.  StoreInv is their conjunction.           *)
(***************************************************************************)
EXTENDS ActionStore, TLAPS

StoreInv ==
  /\ StoreTypeOK
  /\ GrantMatchesStatus
  /\ OneUseDispatch
  /\ ResultAppliedOnce
  /\ SuccessIsEvidenced
  /\ OneActionPerKey

\* The empty tables satisfy every promise.
LEMMA StoreInitInv == StoreInit => StoreInv
<1> SUFFICES ASSUME StoreInit PROVE StoreInv
  OBVIOUS
<1>1. StoreTypeOK
  BY DEF StoreInit, StoreTypeOK, Rows
<1>2. GrantMatchesStatus /\ OneUseDispatch /\ SuccessIsEvidenced /\ OneActionPerKey
  BY DEF StoreInit, GrantMatchesStatus, OneUseDispatch, SuccessIsEvidenced, OneActionPerKey, Rows
<1>3. ResultAppliedOnce
  BY StoreAssumption DEF StoreInit, ResultAppliedOnce
<1> QED
  BY <1>1, <1>2, <1>3 DEF StoreInv

\* A new row: no grant, no receipt, and nobody else with its key.
LEMMA PutRequestedInv ==
  ASSUME NEW a \in Actions, NEW b \in Bindings, NEW s \in {"requested", "awaiting_approval"},
         StoreInv, PutRequested(a, b, s)
  PROVE  StoreInv'
<1> USE DEF PutRequested
<1>1. StoreTypeOK'
  BY BindingAssumption DEF StoreInv, StoreTypeOK, Rows, Statuses
<1>2. GrantMatchesStatus'
  BY DEF StoreInv, StoreTypeOK, GrantMatchesStatus
<1>3. OneUseDispatch'
  BY DEF StoreInv, OneUseDispatch
<1>4. ResultAppliedOnce'
  BY DEF StoreInv, StoreTypeOK, ResultAppliedOnce, ReceiptStatuses
<1>5. SuccessIsEvidenced'
  BY DEF StoreInv, StoreTypeOK, SuccessIsEvidenced
<1>6. OneActionPerKey'
  BY DEF StoreInv, StoreTypeOK, OneActionPerKey, ByKey, Rows
<1> QED
  BY <1>1, <1>2, <1>3, <1>4, <1>5, <1>6 DEF StoreInv

\* The grant row and the status move together.
LEMMA StoreGrantInv ==
  ASSUME NEW a \in Actions, NEW p \in Plans \cup {NoPlan}, StoreInv, StoreGrant(a, p)
  PROVE  StoreInv'
<1> USE DEF StoreGrant, GrantAccepted
<1>1. StoreTypeOK'
  BY DEF StoreInv, StoreTypeOK, Rows, Statuses
<1>2. GrantMatchesStatus'
  BY DEF StoreInv, StoreTypeOK, GrantMatchesStatus
<1>3. OneUseDispatch'
  BY DEF StoreInv, StoreTypeOK, OneUseDispatch
<1>4. ResultAppliedOnce'
  BY DEF StoreInv, StoreTypeOK, ResultAppliedOnce, ReceiptStatuses
<1>5. SuccessIsEvidenced'
  BY DEF StoreInv, StoreTypeOK, SuccessIsEvidenced
<1>6. OneActionPerKey'
  BY DEF StoreInv, StoreTypeOK, OneActionPerKey, Rows
<1> QED
  BY <1>1, <1>2, <1>3, <1>4, <1>5, <1>6 DEF StoreInv

\* The one intent is written as the grant is used up.
LEMMA StoreDispatchInv ==
  ASSUME NEW a \in Actions, StoreInv, StoreDispatch(a)
  PROVE  StoreInv'
<1> USE DEF StoreDispatch, DispatchAccepted
<1>1. StoreTypeOK'
  BY DEF StoreInv, StoreTypeOK, Rows, Statuses
<1>2. GrantMatchesStatus'
  BY DEF StoreInv, StoreTypeOK, GrantMatchesStatus
<1>3. OneUseDispatch'
  BY DEF StoreInv, StoreTypeOK, OneUseDispatch
<1>4. ResultAppliedOnce'
  BY DEF StoreInv, StoreTypeOK, ResultAppliedOnce, ReceiptStatuses
<1>5. SuccessIsEvidenced'
  BY DEF StoreInv, StoreTypeOK, SuccessIsEvidenced
<1>6. OneActionPerKey'
  BY DEF StoreInv, StoreTypeOK, OneActionPerKey, Rows
<1> QED
  BY <1>1, <1>2, <1>3, <1>4, <1>5, <1>6 DEF StoreInv

\* A plain transition: the CHECK keeps a receipt out of every other status, and
\* no edge leads to a status that a grant must already back.
LEMMA StoreTransitionInv ==
  ASSUME NEW a \in Actions, NEW from, NEW to \in PlainTargets,
         StoreInv, StoreTransition(a, from, to)
  PROVE  StoreInv'
<1> USE DEF StoreTransition, TransitionAccepted, UpdateAllowed
<1>1. StoreTypeOK'
  BY DEF StoreInv, StoreTypeOK, Rows, Statuses, PlainTargets, canTransition
<1>2. GrantMatchesStatus'
  BY DEF StoreInv, StoreTypeOK, GrantMatchesStatus, PlainTargets, canTransition, allowedEdges, Statuses
<1>3. OneUseDispatch'
  BY DEF StoreInv, OneUseDispatch
<1>4. ResultAppliedOnce'
  BY DEF StoreInv, StoreTypeOK, ResultAppliedOnce
<1>5. SuccessIsEvidenced'
  BY DEF StoreInv, StoreTypeOK, SuccessIsEvidenced, PlainTargets
<1>6. OneActionPerKey'
  BY DEF StoreInv, StoreTypeOK, OneActionPerKey, Rows, canTransition, Statuses
<1> QED
  BY <1>1, <1>2, <1>3, <1>4, <1>5, <1>6 DEF StoreInv

\* A result completes a live row: it has an intent and no receipt.
LEMMA IngestResultInv ==
  ASSUME NEW a \in Actions, NEW r \in ResultIds, NEW to \in ReceiptStatuses,
         StoreInv, IngestResult(a, r, to)
  PROVE  StoreInv'
<1> USE DEF IngestResult, IngestAccepted
<1>1. StoreTypeOK'
  BY DEF StoreInv, StoreTypeOK, Rows, Statuses, ReceiptStatuses
<1>2. GrantMatchesStatus'
  BY DEF StoreInv, StoreTypeOK, GrantMatchesStatus, ReceiptStatuses
<1>3. OneUseDispatch'
  BY DEF StoreInv, OneUseDispatch
<1>4. ResultAppliedOnce'
  <2>1. receipt[a] = NoResult
    BY DEF StoreInv, ResultAppliedOnce, ReceiptStatuses
  <2>2. NoAction \notin Actions /\ NoResult \notin ResultIds
    BY StoreAssumption
  <2>3. ASSUME NEW x \in Actions, NEW q \in ResultIds
        PROVE  (inbox[q] = x <=> receipt[x] = q)'
    <3>1. inbox[q] = x <=> receipt[x] = q
      BY DEF StoreInv, ResultAppliedOnce
    <3> QED
      BY <2>1, <2>2, <3>1 DEF StoreInv, StoreTypeOK
  <2>4. ASSUME NEW x \in Actions
        PROVE  (receipt[x] # NoResult => status[x] \in ReceiptStatuses)'
    BY DEF StoreInv, StoreTypeOK, ResultAppliedOnce
  <2> QED
    BY <2>3, <2>4 DEF ResultAppliedOnce
<1>5. SuccessIsEvidenced'
  BY StoreAssumption DEF StoreInv, StoreTypeOK, SuccessIsEvidenced, GrantMatchesStatus, OneUseDispatch
<1>6. OneActionPerKey'
  BY DEF StoreInv, StoreTypeOK, OneActionPerKey, Rows
<1> QED
  BY <1>1, <1>2, <1>3, <1>4, <1>5, <1>6 DEF StoreInv

\* Time alone never creates or uses authority.
LEMMA GrantExpiresInv ==
  ASSUME NEW a \in Actions, StoreInv, GrantExpires(a)
  PROVE  StoreInv'
<1> USE DEF GrantExpires
<1>1. StoreTypeOK'
  BY DEF StoreInv, StoreTypeOK, Rows
<1>2. GrantMatchesStatus'
  BY DEF StoreInv, StoreTypeOK, GrantMatchesStatus
<1>3. OneUseDispatch'
  BY DEF StoreInv, StoreTypeOK, OneUseDispatch
<1>4. (ResultAppliedOnce /\ SuccessIsEvidenced /\ OneActionPerKey)'
  BY DEF StoreInv, ResultAppliedOnce, SuccessIsEvidenced, OneActionPerKey, Rows
<1> QED
  BY <1>1, <1>2, <1>3, <1>4 DEF StoreInv

\* StoreInv is inductive.
LEMMA StoreNextInv == StoreInv /\ [StoreNext]_storeVars => StoreInv'
<1> SUFFICES ASSUME StoreInv, [StoreNext]_storeVars PROVE StoreInv'
  OBVIOUS
<1>1. CASE PutRequestedStep
  BY <1>1, PutRequestedInv DEF PutRequestedStep
<1>2. CASE \E a \in Actions, p \in Plans \cup {NoPlan} : StoreGrant(a, p)
  BY <1>2, StoreGrantInv
<1>3. CASE \E a \in Actions : StoreDispatch(a)
  BY <1>3, StoreDispatchInv
<1>4. CASE \E a \in Actions, from \in Statuses, to \in PlainTargets : StoreTransition(a, from, to)
  BY <1>4, StoreTransitionInv
<1>5. CASE \E a \in Actions, r \in ResultIds, to \in ReceiptStatuses : IngestResult(a, r, to)
  BY <1>5, IngestResultInv
<1>6. CASE \E a \in Actions : GrantExpires(a)
  BY <1>6, GrantExpiresInv
<1>7. CASE UNCHANGED storeVars
  BY <1>7 DEF StoreInv, StoreTypeOK, GrantMatchesStatus, OneUseDispatch, ResultAppliedOnce,
       SuccessIsEvidenced, OneActionPerKey, Rows, storeVars
<1> QED
  BY <1>1, <1>2, <1>3, <1>4, <1>5, <1>6, <1>7 DEF StoreNext

\* The tables keep all their promises under any sequence of transactions.
THEOREM StoreInvariant == StoreSpec => []StoreInv
  BY StoreInitInv, StoreNextInv, PTL DEF StoreSpec

\* Dispatch authority is one-use for any number of actions and callers
\* (PostgresStore.Grant, PostgresStore.Dispatch).
THEOREM StoreOneUseDispatch == StoreSpec => []OneUseDispatch
<1>1. StoreInv => OneUseDispatch
  BY DEF StoreInv
<1> QED
  BY <1>1, StoreInvariant, PTL

\* A result completes at most one action, and an action has at most one
\* (PostgresStore.IngestResult).
THEOREM StoreResultAppliedOnce == StoreSpec => []ResultAppliedOnce
<1>1. StoreInv => ResultAppliedOnce
  BY DEF StoreInv
<1> QED
  BY <1>1, StoreInvariant, PTL

\* Success is never asserted without a receipt and a dispatch.
THEOREM StoreSuccessIsEvidenced == StoreSpec => []SuccessIsEvidenced
<1>1. StoreInv => SuccessIsEvidenced
  BY DEF StoreInv
<1> QED
  BY <1>1, StoreInvariant, PTL

\* One Action per idempotency key (InsertAction's ON CONFLICT DO NOTHING).
THEOREM StoreOneActionPerKey == StoreSpec => []OneActionPerKey
<1>1. StoreInv => OneActionPerKey
  BY DEF StoreInv
<1> QED
  BY <1>1, StoreInvariant, PTL
=============================================================================
