--------------------------- MODULE DeliveryProofs ---------------------------
(***************************************************************************)
(* What leaves the gateway: intents to the stream, by the outbox, and      *)
(* plans to the approval channel, by the approval transport.               *)
(***************************************************************************)
EXTENDS Outbox, ApprovalTransport, TLAPS

-----------------------------------------------------------------------------
(* The outbox: the rows and the stream tell the truth about every intent,  *)
(* for every number of intents, pumps, attempts and faults.                *)
(*                                                                         *)
(* The row lock is what carries the argument: a claimer between its claim  *)
(* and its release holds a pending row that nobody else holds, so what it  *)
(* knows about the publish is still true when it writes the outcome.       *)

\* A claimer holds a row from its claim to its release, and the row is pending
\* all that time; once acknowledged, the stream has it.
ClaimsHold ==
  \A x \in Claimers :
    /\ claim[x] = NoRow <=> phase[x] \in {"idle", "ready"}
    /\ claim[x] # NoRow => state[claim[x]] = "pending"
    /\ phase[x] = "accepted" => copies[claim[x]] > 0

\* An attempt is left until the row is given up or published.
AttemptsLeft ==
  \A d \in Dispatches :
    /\ state[d] \in {"absent", "pending"} => attempts[d] < MaxAttempts
    /\ state[d] = "dead" => attempts[d] = MaxAttempts

\* One copy is the delivery itself: stamped, or acknowledged and about to be.
Delivered(d) ==
  state[d] = "published" \/ \E x \in Claimers : claim[x] = d /\ phase[x] = "accepted"

ExtraCopiesExcused ==
  \A d \in Dispatches :
    /\ copies[d] <= excuses[d] + 1
    /\ ~Delivered(d) => copies[d] <= excuses[d]

StampedIsTaken == \A d \in Dispatches : state[d] = "published" => copies[d] > 0

\* The request of an intent that is not committed yet has done nothing.
RequestsFollow == \A d \in Dispatches : state[d] = "absent" => phase[Request(d)] = "idle"

OutboxInv ==
  /\ OutboxTypeOK /\ NoConcurrentDelivery /\ RequestsFollow
  /\ ClaimsHold /\ AttemptsLeft /\ StampedIsTaken /\ ExtraCopiesExcused

\* The invariant is as strong as what the runs check.
LEMMA OutboxInvSuffices == OutboxInv => DeliveriesAreTrue
<1> SUFFICES ASSUME OutboxInv PROVE DeliveriesAreTrue
  OBVIOUS
<1>1. StampsAreTrue
  BY OutboxAssumption DEF OutboxInv, OutboxTypeOK, AttemptsLeft, StampedIsTaken, StampsAreTrue
<1>2. DuplicatesAreExcused
  BY DEF OutboxInv, OutboxTypeOK, ExtraCopiesExcused, Delivered, DuplicatesAreExcused
<1> QED
  BY <1>1, <1>2 DEF OutboxInv, DeliveriesAreTrue

\* The initial state satisfies the invariant.
LEMMA OutboxInitInv == OutboxInit => OutboxInv
  BY OutboxAssumption
  DEF OutboxInit, OutboxInv, OutboxTypeOK, NoConcurrentDelivery, ClaimsHold, AttemptsLeft, StampedIsTaken,
      ExtraCopiesExcused, Delivered, RequestsFollow, Claimers, Requests

\* The request of an intent is a claimer, and so is every pump.
LEMMA ClaimersAre ==
  /\ \A d \in Dispatches : Request(d) \in Claimers /\ Request(d) \notin Pumps
  /\ \A d, e \in Dispatches : Request(d) = Request(e) => d = e
  /\ \A p \in Pumps : p \in Claimers
  BY PumpAssumption DEF Claimers, Requests, Request

\* A step moves claimer x alone.
OnlyMoves(x) ==
  /\ claim' \in [Claimers -> Dispatches \cup {NoRow}]
  /\ phase' \in [Claimers -> {"idle", "ready", "publish", "accepted", "refused"}]
  /\ \A y \in Claimers \ {x} : claim'[y] = claim[y] /\ phase'[y] = phase[y]

PassesTyped ==
  /\ due \in [Pumps -> SUBSET Dispatches] /\ left \in [Pumps -> 0..Batch]
  /\ tried \in [Pumps -> SUBSET Dispatches]

\* A claimer that holds nothing goes on to hold nothing, or a row nobody held.
LEMMA ClaimInv ==
  ASSUME OutboxInv, NEW x \in Claimers, OnlyMoves(x), PassesTyped',
         phase[x] \in {"idle", "ready"}, phase[x] = "idle" => x \in Pumps,
         \/ claim'[x] = NoRow /\ phase'[x] \in {"idle", "ready"}
         \/ claim'[x] \in Dispatches /\ Claimable(claim'[x]) /\ phase'[x] = "publish",
         UNCHANGED <<rowVars, busVars, faults>>
  PROVE  OutboxInv'
<1> USE DEF rowVars, busVars, OnlyMoves, PassesTyped
<1>1. OutboxTypeOK'
  BY DEF OutboxInv, OutboxTypeOK
<1>2. NoConcurrentDelivery'
  BY DEF OutboxInv, OutboxTypeOK, NoConcurrentDelivery, Claimable, Locked
<1>3. ClaimsHold'
  BY OutboxAssumption DEF OutboxInv, OutboxTypeOK, ClaimsHold, Claimable
<1>4. AttemptsLeft' /\ StampedIsTaken'
  BY DEF OutboxInv, AttemptsLeft, StampedIsTaken
<1>6. RequestsFollow'
  BY ClaimersAre DEF OutboxInv, OutboxTypeOK, RequestsFollow
<1>5. ExtraCopiesExcused'
  <2>1. ASSUME NEW e \in Dispatches, Delivered(e) PROVE Delivered(e)'
    BY <2>1 DEF OutboxInv, OutboxTypeOK, Delivered
  <2> QED
    BY <2>1 DEF OutboxInv, ExtraCopiesExcused
<1> QED
  BY <1>1, <1>2, <1>3, <1>4, <1>5, <1>6 DEF OutboxInv

-----------------------------------------------------------------------------
(* The steps.                                                              *)

\* The commit of an intent leaves its request ready to claim it.
LEMMA CommitInv ==
  ASSUME OutboxInv, NEW d \in Dispatches, Commit(d) PROVE OutboxInv'
<1> USE DEF Commit, passVars, busVars
<1>1. Request(d) \in Claimers
  BY ClaimersAre
<1>2. \A x \in Claimers : claim[x] # d
  BY OutboxAssumption DEF OutboxInv, OutboxTypeOK, ClaimsHold
<1>3. phase[Request(d)] = "idle"
  BY DEF OutboxInv, RequestsFollow
<1>4. OutboxTypeOK' /\ NoConcurrentDelivery' /\ AttemptsLeft' /\ StampedIsTaken'
  BY <1>1 DEF OutboxInv, OutboxTypeOK, NoConcurrentDelivery, AttemptsLeft, StampedIsTaken
<1>5. ClaimsHold'
  BY <1>1, <1>2, <1>3 DEF OutboxInv, OutboxTypeOK, ClaimsHold
<1>6. RequestsFollow'
  BY <1>1, ClaimersAre DEF OutboxInv, OutboxTypeOK, RequestsFollow
<1>7. ASSUME NEW e \in Dispatches, Delivered(e) PROVE Delivered(e)'
  BY <1>1, <1>2, <1>3, <1>7 DEF OutboxInv, OutboxTypeOK, Delivered
<1>8. ExtraCopiesExcused'
  BY <1>7 DEF OutboxInv, ExtraCopiesExcused
<1> QED
  BY <1>4, <1>5, <1>6, <1>8 DEF OutboxInv

\* A claimer that finds a row claimable holds it alone.
LEMMA ClaimStepInv ==
  ASSUME OutboxInv, (\E d \in Dispatches : ClaimDispatch(d)) \/ (\E p \in Pumps : PumpStep(p))
  PROVE  OutboxInv'
<1> USE ClaimersAre, OutboxAssumption DEF passVars, OnlyMoves, PassesTyped
<1>1. ASSUME NEW d \in Dispatches, ClaimDispatch(d) PROVE OutboxInv'
  <2>1. CASE Claimable(d)
    BY <1>1, <2>1, ClaimInv DEF ClaimDispatch, OutboxInv, OutboxTypeOK
  <2>2. CASE ~Claimable(d)
    BY <1>1, <2>2, ClaimInv DEF ClaimDispatch, OutboxInv, OutboxTypeOK, ClaimsHold
  <2> QED
    BY <2>1, <2>2
<1>2. ASSUME NEW p \in Pumps, StartPass(p) PROVE OutboxInv'
  BY <1>2, ClaimInv DEF StartPass, OutboxInv, OutboxTypeOK, ClaimsHold
<1>3. ASSUME NEW p \in Pumps, ClaimNext(p) PROVE OutboxInv'
  <2>1. CASE left[p] > 0 /\ Eligible(p) # {}
    <3>1. PICK d \in Eligible(p) :
            /\ claim' = [claim EXCEPT ![p] = d]
            /\ phase' = [phase EXCEPT ![p] = "publish"]
            /\ left' = [left EXCEPT ![p] = @ - 1]
            /\ tried' = [tried EXCEPT ![p] = @ \cup {d}]
            /\ UNCHANGED due
      BY <1>3, <2>1 DEF ClaimNext
    <3>2. d \in Dispatches /\ Claimable(d)
      BY <3>1 DEF Eligible
    <3> QED
      BY <1>3, <2>1, <3>1, <3>2, ClaimInv DEF ClaimNext, OutboxInv, OutboxTypeOK
  <2>2. CASE ~(left[p] > 0 /\ Eligible(p) # {})
    BY <1>3, <2>2, ClaimInv DEF ClaimNext, OutboxInv, OutboxTypeOK, ClaimsHold
  <2> QED
    BY <2>1, <2>2
<1> QED
  BY <1>1, <1>2, <1>3 DEF PumpStep

\* Publishing changes the stream for the claimed row alone.
LEMMA PublishInv ==
  ASSUME OutboxInv, NEW x \in Claimers, Publish(x) PROVE OutboxInv'
<1> DEFINE d == claim[x]
<1> USE DEF Publish, rowVars, passVars, busVars
<1>1. d \in Dispatches /\ state[d] = "pending" /\ \A y \in Claimers \ {x} : claim[y] # d
  BY OutboxAssumption DEF OutboxInv, OutboxTypeOK, ClaimsHold, NoConcurrentDelivery
<1>2. copies[d] <= excuses[d]
  BY <1>1 DEF OutboxInv, ExtraCopiesExcused, Delivered
<1>3. \E ph \in {"accepted", "refused"} :
        /\ phase' = [phase EXCEPT ![x] = ph]
        /\ \/ copies' = [copies EXCEPT ![d] = @ + 1]
           \/ UNCHANGED copies /\ (ph = "accepted" => copies[d] > 0)
        /\ \/ ph = "accepted" /\ UNCHANGED excuses
           \/ ph = "refused" /\ excuses' = [excuses EXCEPT ![d] = @ + 1]
           \/ ph = "refused" /\ UNCHANGED <<copies, excuses>>
  BY DEF StreamTakes
<1>4. OutboxTypeOK'
  BY <1>1, <1>3 DEF OutboxInv, OutboxTypeOK
<1>5. NoConcurrentDelivery' /\ AttemptsLeft'
  BY DEF OutboxInv, NoConcurrentDelivery, AttemptsLeft
<1>6. ClaimsHold'
  BY <1>1, <1>3 DEF OutboxInv, OutboxTypeOK, ClaimsHold
<1>7. StampedIsTaken'
  BY <1>1, <1>3 DEF OutboxInv, OutboxTypeOK, StampedIsTaken
<1>8. ExtraCopiesExcused'
  <2> SUFFICES ASSUME NEW e \in Dispatches
               PROVE  (copies[e] <= excuses[e] + 1 /\ (~Delivered(e) => copies[e] <= excuses[e]))'
    BY DEF ExtraCopiesExcused
  <2>1. CASE e = d
    BY <1>1, <1>2, <1>3, <2>1 DEF OutboxInv, OutboxTypeOK, Delivered
  <2>2. CASE e # d
    <3>1. Delivered(e) => Delivered(e)'
      BY <1>3, <2>2 DEF OutboxInv, OutboxTypeOK, Delivered
    <3> QED
      BY <1>1, <1>3, <2>2, <3>1 DEF OutboxInv, OutboxTypeOK, ExtraCopiesExcused
  <2> QED
    BY <2>1, <2>2
<1>9. RequestsFollow'
  BY ClaimersAre DEF OutboxInv, OutboxTypeOK, RequestsFollow
<1> QED
  BY <1>4, <1>5, <1>6, <1>7, <1>8, <1>9 DEF OutboxInv

\* A claimer lets go of its row: it stamped it, recorded the attempt, or failed
\* and wrote nothing.
LEMMA ReleaseInv ==
  ASSUME OutboxInv, NEW x \in Claimers, OnlyMoves(x), PassesTyped',
         claim[x] # NoRow, claim'[x] = NoRow, phase'[x] \in {"idle", "ready"},
         state' \in [Dispatches -> {"absent", "pending", "published", "dead"}],
         attempts' \in [Dispatches -> 0..MaxAttempts],
         backoff' \in [Dispatches -> {"none", "waiting", "due"}], faults' \in 0..MaxFaults,
         \A e \in Dispatches \ {claim[x]} : state'[e] = state[e] /\ attempts'[e] = attempts[e],
         \/ state'[claim[x]] = "published" /\ phase[x] = "accepted" /\ UNCHANGED excuses
         \/ /\ \/ state'[claim[x]] = "pending" /\ attempts'[claim[x]] < MaxAttempts
               \/ state'[claim[x]] = "dead" /\ attempts'[claim[x]] = MaxAttempts
            /\ excuses' = IF phase[x] = "accepted"
                          THEN [excuses EXCEPT ![claim[x]] = @ + 1] ELSE excuses,
         UNCHANGED copies
  PROVE  OutboxInv'
<1> USE DEF OnlyMoves, PassesTyped
<1> DEFINE d == claim[x]
<1>1. d \in Dispatches /\ state[d] = "pending" /\ \A y \in Claimers \ {x} : claim[y] # d
  BY OutboxAssumption DEF OutboxInv, OutboxTypeOK, ClaimsHold, NoConcurrentDelivery
<1>2. OutboxTypeOK'
  BY <1>1 DEF OutboxInv, OutboxTypeOK
<1>3. NoConcurrentDelivery'
  BY DEF OutboxInv, OutboxTypeOK, NoConcurrentDelivery
<1>4. ClaimsHold'
  BY <1>1, OutboxAssumption DEF OutboxInv, OutboxTypeOK, ClaimsHold
<1>5. AttemptsLeft'
  BY <1>1, OutboxAssumption DEF OutboxInv, OutboxTypeOK, AttemptsLeft
<1>6. StampedIsTaken'
  BY <1>1 DEF OutboxInv, OutboxTypeOK, ClaimsHold, StampedIsTaken
<1>7. ExtraCopiesExcused'
  <2> SUFFICES ASSUME NEW e \in Dispatches
               PROVE  (copies[e] <= excuses[e] + 1 /\ (~Delivered(e) => copies[e] <= excuses[e]))'
    BY DEF ExtraCopiesExcused
  <2>1. CASE e = d
    <3>1. phase[x] # "accepted" => ~Delivered(d)
      BY <1>1 DEF Delivered
    <3> QED
      BY <1>1, <2>1, <3>1 DEF OutboxInv, OutboxTypeOK, ExtraCopiesExcused, Delivered
  <2>2. CASE e # d
    <3>1. Delivered(e) => Delivered(e)'
      BY <1>1, <2>2 DEF OutboxInv, OutboxTypeOK, Delivered
    <3> QED
      BY <1>1, <2>2, <3>1 DEF OutboxInv, OutboxTypeOK, ExtraCopiesExcused
  <2> QED
    BY <2>1, <2>2
<1>8. RequestsFollow'
  BY <1>1, ClaimersAre DEF OutboxInv, OutboxTypeOK, ClaimsHold, RequestsFollow
<1> QED
  BY <1>2, <1>3, <1>4, <1>5, <1>6, <1>7, <1>8 DEF OutboxInv

\* The outcome of a publish, and a fault, release the row.
LEMMA OutcomeInv ==
  ASSUME OutboxInv, NEW x \in Claimers, StampPublished(x) \/ RecordAttempt(x) \/ Fault(x)
  PROVE  OutboxInv'
<1> DEFINE d == claim[x]
<1> USE OutboxAssumption DEF rowVars, passVars, busVars, Release, OnlyMoves, PassesTyped
<1>1. phase[x] \in {"accepted", "refused"} => d \in Dispatches /\ state[d] = "pending"
  BY DEF OutboxInv, OutboxTypeOK, ClaimsHold
<1>2. CASE StampPublished(x)
  <2>1. attempts[d] < MaxAttempts
    BY <1>1, <1>2 DEF StampPublished, OutboxInv, AttemptsLeft
  <2> QED
    BY <1>1, <1>2, <2>1, ReleaseInv DEF StampPublished, OutboxInv, OutboxTypeOK
<1>3. CASE RecordAttempt(x)
  <2>1. attempts[d] < MaxAttempts
    BY <1>1, <1>3 DEF RecordAttempt, OutboxInv, AttemptsLeft
  <2>2. state' = [state EXCEPT ![d] = IF attempts[d] + 1 >= MaxAttempts THEN "dead" ELSE "pending"]
    BY <1>1, <1>3 DEF RecordAttempt, OutboxInv, OutboxTypeOK
  <2>3. attempts' = [attempts EXCEPT ![d] = @ + 1] /\ attempts[d] \in 0..MaxAttempts
    BY <1>1, <1>3 DEF RecordAttempt, OutboxInv, OutboxTypeOK
  <2>4. /\ state' \in [Dispatches -> {"absent", "pending", "published", "dead"}]
        /\ attempts' \in [Dispatches -> 0..MaxAttempts]
        /\ \A e \in Dispatches \ {d} : state'[e] = state[e] /\ attempts'[e] = attempts[e]
        /\ \/ state'[d] = "pending" /\ attempts'[d] < MaxAttempts
           \/ state'[d] = "dead" /\ attempts'[d] = MaxAttempts
    <3>1. d \in Dispatches /\ attempts[d] + 1 \in 0..MaxAttempts
      BY <1>1, <1>3, <2>1, <2>3 DEF RecordAttempt
    <3>2. attempts' \in [Dispatches -> 0..MaxAttempts] /\ attempts'[d] = attempts[d] + 1
      BY <2>3, <3>1 DEF OutboxInv, OutboxTypeOK
    <3> QED
      BY <2>2, <2>3, <3>1, <3>2 DEF OutboxInv, OutboxTypeOK
  <2>5. /\ OnlyMoves(x) /\ PassesTyped' /\ claim'[x] = NoRow /\ phase'[x] \in {"idle", "ready"}
        /\ backoff' \in [Dispatches -> {"none", "waiting", "due"}]
        /\ UNCHANGED <<faults, excuses, copies>> /\ faults \in 0..MaxFaults
    BY <1>1, <1>3 DEF RecordAttempt, OutboxInv, OutboxTypeOK
  <2>6. claim[x] # NoRow /\ phase[x] = "refused"
    BY <1>1, <1>3 DEF RecordAttempt
  <2> HIDE DEF OnlyMoves, PassesTyped
  <2> QED
    BY <2>4, <2>5, <2>6, ReleaseInv
<1>4. CASE Fault(x)
  <2>1. CASE claim[x] = NoRow
    BY <1>4, <2>1
    DEF Fault, OutboxInv, OutboxTypeOK, ClaimsHold, NoConcurrentDelivery, AttemptsLeft, StampedIsTaken, ExtraCopiesExcused, Delivered, RequestsFollow
  <2>2. CASE claim[x] # NoRow
    <3>1. d \in Dispatches /\ state[d] = "pending" /\ attempts[d] < MaxAttempts
      BY <2>2 DEF OutboxInv, OutboxTypeOK, ClaimsHold, AttemptsLeft
    <3>2. /\ OnlyMoves(x) /\ PassesTyped' /\ claim'[x] = NoRow /\ phase'[x] \in {"idle", "ready"}
          /\ backoff' \in [Dispatches -> {"none", "waiting", "due"}]
          /\ UNCHANGED <<state, attempts, copies>> /\ faults' \in 0..MaxFaults
          /\ excuses' = IF phase[x] = "accepted" THEN [excuses EXCEPT ![d] = @ + 1] ELSE excuses
      BY <1>4 DEF Fault, OutboxInv, OutboxTypeOK
    <3>3. /\ state' \in [Dispatches -> {"absent", "pending", "published", "dead"}]
          /\ attempts' \in [Dispatches -> 0..MaxAttempts]
      BY <3>2 DEF OutboxInv, OutboxTypeOK
    <3> HIDE DEF OnlyMoves, PassesTyped
    <3> QED
      BY <2>2, <3>1, <3>2, <3>3, ReleaseInv
  <2> QED
    BY <2>1, <2>2
<1> QED
  BY <1>2, <1>3, <1>4

\* Every step preserves the invariant.
LEMMA OutboxNextInv == OutboxInv /\ [OutboxNext]_outboxVars => OutboxInv'
<1> SUFFICES ASSUME OutboxInv, [OutboxNext]_outboxVars PROVE OutboxInv'
  OBVIOUS
<1>1. ASSUME NEW d \in Dispatches, BackoffElapses(d) PROVE OutboxInv'
  BY <1>1
  DEF BackoffElapses, passVars, busVars, OutboxInv, OutboxTypeOK, NoConcurrentDelivery, ClaimsHold,
      AttemptsLeft, StampedIsTaken, ExtraCopiesExcused, Delivered, RequestsFollow
<1>2. CASE UNCHANGED outboxVars
  BY <1>2
  DEF outboxVars, OutboxInv, OutboxTypeOK, NoConcurrentDelivery, ClaimsHold,
      AttemptsLeft, StampedIsTaken, ExtraCopiesExcused, Delivered, RequestsFollow
<1> QED
  BY <1>1, <1>2, CommitInv, ClaimStepInv, PublishInv, OutcomeInv DEF OutboxNext, ClaimerStep

\* Whatever requests, pumps and faults interleave, no intent is delivered by two
\* at once, a stamp is true, a row is given up only after its attempts, and every
\* copy too many has a fault behind it (ClaimDispatch, RepublishPending, deliver
\* and applyDispatchOutcome under the row lock).
THEOREM OutboxTellsTheTruth == OutboxSpec => []DeliveriesAreTrue
<1>1. OutboxSpec => []OutboxInv
  BY OutboxInitInv, OutboxNextInv, PTL DEF OutboxSpec
<1> QED
  BY <1>1, OutboxInvSuffices, PTL

-----------------------------------------------------------------------------
(* The approval transport: the tables stay consistent and keep the         *)
(* promises of ApprovalRegistry, for any number of plans, refs, decisions  *)
(* and calls.                                                              *)
(*                                                                         *)
(* A call in progress knows three things its read cannot vouch for: that   *)
(* its own act is in the lineage, that the row it found is still there,    *)
(* and what the channel answered.  Everything else is read again by the    *)
(* transaction, under the lock.                                            *)

\* Rows are whole: an operation is bound with the row, a record has a ref and
\* a decision.
RowsWhole ==
  \A p \in Plans :
    /\ tx[p] = "absent" <=> bound[p] = NoOperation
    /\ \/ evidence[p] = NoEvidence
       \/ evidence[p].ref \in Refs /\ evidence[p].decision \in Decisions

\* What a call in progress still knows at its next step.
CallsKnow ==
  \A c \in Callers :
    LET p == call[c].plan
    IN  /\ call[c].pc # "idle" => p \in Plans
        /\ call[c].pc = "idle" <=> call[c].op = "none"
        /\ call[c].op = "Transmit" => call[c].bind \in Operations
        /\ call[c].op = "RecordEvidence" =>
             call[c].ref \in Refs /\ call[c].decision \in Decisions /\ tx[p] # "absent"
        /\ call[c].op = "Revoke" => tx[p] # "absent"
        /\ call[c].pc = "store" =>
             /\ call[c].op = "Transmit" => "transmit" \in lineage[p]
             /\ call[c].op = "RecordEvidence" => "submitted" \in lineage[p]
             /\ call[c].op = "Revoke" => "revoke" \in lineage[p]
        /\ call[c].pc \in {"deliver", "attempt"} => call[c].op = "Transmit" /\ tx[p] # "absent"
        /\ call[c].pc = "accept" => call[c].op = "RecordEvidence" /\ evidence[p] # NoEvidence
        /\ call[c].pc = "attempt" /\ call[c].outcome = "delivered" => reached[p]

TransportInv ==
  /\ TypeOK /\ RowsWhole /\ CallsKnow
  /\ OneDecisionPerRef /\ DeliveredIsTrue /\ LineageExplainsRows

-----------------------------------------------------------------------------
\* The lifecycle's statuses, without their ranks.
LEMMA StatusDomain ==
  DOMAIN statusRank = {"absent", "pending", "delivered", "evidence_recorded", "revoked"}
BY DEF statusRank

\* Empty tables satisfy the invariant.
LEMMA TransportInitInv == Init => TransportInv
<1> SUFFICES ASSUME Init PROVE TransportInv
  OBVIOUS
<1>1. TypeOK
  BY TransportAssumption, StatusDomain DEF Init, TypeOK, NoEvidence, NoCall, Calls
<1>2. RowsWhole /\ CallsKnow
  BY DEF Init, RowsWhole, CallsKnow, NoCall
<1>3. OneDecisionPerRef /\ DeliveredIsTrue /\ LineageExplainsRows
  BY DEF Init, OneDecisionPerRef, DeliveredIsTrue, LineageExplainsRows
<1> QED
  BY <1>1, <1>2, <1>3 DEF TransportInv

\* A call that starts, continues or ends disturbs no table.
LEMMA StartInv ==
  ASSUME TransportInv, NEW c \in Callers, NEW k \in Calls, call' = [call EXCEPT ![c] = k],
         UNCHANGED <<tableVars, lineage, reached>>,
         CallsKnow'
  PROVE  TransportInv'
<1> USE DEF TransportInv, tableVars
<1>1. TypeOK'
  BY DEF TypeOK
<1>2. RowsWhole'
  BY DEF RowsWhole
<1>3. OneDecisionPerRef' /\ DeliveredIsTrue' /\ LineageExplainsRows'
  BY DEF OneDecisionPerRef, DeliveredIsTrue, LineageExplainsRows
<1> QED
  BY <1>1, <1>2, <1>3

\* A call that goes on to its next step is still a call.
LEMMA ContinueType ==
  ASSUME call \in [Callers -> Calls], NEW c \in Callers,
         NEW pc \in {"audit", "store", "deliver", "attempt", "accept"}, Continue(c, pc)
  PROVE  call' \in [Callers -> Calls]
<1>1. [call[c] EXCEPT !.pc = pc] \in Calls
  BY DEF Calls
<1>2. call' = [call EXCEPT ![c] = [call[c] EXCEPT !.pc = pc]]
  BY DEF Continue
<1> QED
  BY <1>1, <1>2

-----------------------------------------------------------------------------
\* Every step of every call keeps the invariant.
LEMMA TransportNextInv == TransportInv /\ [Next]_vars => TransportInv'
<1> SUFFICES ASSUME TransportInv, [Next]_vars PROVE TransportInv'
  OBVIOUS
<1> USE TransportAssumption
<1>types. NoCall \in Calls /\ NoEvidence \in [ref : Refs \cup {NoRef}, decision : Decisions \cup {NoDecision}, consumed : BOOLEAN]
  BY DEF NoCall, Calls, NoEvidence
<1>none. /\ NoCall.pc = "idle" /\ NoCall.op = "none"
         /\ NoEvidence.ref = NoRef /\ NoEvidence.decision = NoDecision
  BY DEF NoCall, NoEvidence
<1>1. ASSUME NEW c \in Callers, Audit(c) PROVE TransportInv'
  <2>1. TypeOK'
    <3>1. call' \in [Callers -> Calls]
      BY <1>1, ContinueType DEF TransportInv, TypeOK, Audit
    <3> QED
      BY <1>1, <3>1 DEF TransportInv, TypeOK, CallsKnow, Audit, tableVars, Acts
  <2> USE <1>1 DEF TransportInv, Audit, Continue, tableVars
  <2>2. RowsWhole' /\ OneDecisionPerRef' /\ DeliveredIsTrue'
    BY DEF RowsWhole, OneDecisionPerRef, DeliveredIsTrue
  <2>3. LineageExplainsRows'
    BY DEF TypeOK, LineageExplainsRows
  <2>4. CallsKnow'
    BY DEF TypeOK, CallsKnow, Calls
  <2> QED
    BY <2>1, <2>2, <2>3, <2>4
<1>2. ASSUME NEW c \in Callers, Abandon(c) PROVE TransportInv'
  <2>1. CallsKnow'
    BY <1>2, <1>none DEF TransportInv, TypeOK, CallsKnow, Abandon, Finish, tableVars
  <2> QED
    BY <1>2, <1>types, <2>1, StartInv DEF Abandon, Finish
<1>3. ASSUME NEW c \in Callers, CreateTransmission(c) PROVE TransportInv'
  <2>1. TypeOK'
    <3>1. call' \in [Callers -> Calls]
      BY <1>3, <1>types, ContinueType DEF TransportInv, TypeOK, CreateTransmission, Finish
    <3> QED
      BY <1>3, <3>1, StatusDomain DEF TransportInv, TypeOK, CallsKnow, CreateTransmission
  <2> USE <1>3 DEF TransportInv, CreateTransmission, Continue, Finish
  <2>2. RowsWhole'
    BY DEF TypeOK, RowsWhole, CallsKnow
  <2>3. OneDecisionPerRef' /\ DeliveredIsTrue'
    BY DEF TypeOK, OneDecisionPerRef, DeliveredIsTrue
  <2>4. LineageExplainsRows'
    BY DEF TypeOK, LineageExplainsRows, CallsKnow
  <2>5. CallsKnow'
    <3>1. CASE tx[call[c].plan] = "absent"
      BY <3>1 DEF TypeOK, CallsKnow, Calls
    <3>2. CASE tx[call[c].plan] # "absent" /\ Resends(call[c].plan, call[c].bind)
      BY <3>2 DEF TypeOK, CallsKnow, Calls
    <3>3. CASE tx[call[c].plan] # "absent" /\ ~Resends(call[c].plan, call[c].bind)
      BY <1>none, <3>3 DEF TypeOK, CallsKnow
    <3> QED
      BY <3>1, <3>2, <3>3
  <2> QED
    BY <2>1, <2>2, <2>3, <2>4, <2>5
<1>4. ASSUME NEW c \in Callers, Deliver(c) PROVE TransportInv'
  <2> USE <1>4 DEF TransportInv, Deliver, tableVars
  <2>1. TypeOK'
    <3>1. PICK outcome \in {"delivered", "failed"} :
            call' = [call EXCEPT ![c] = [call[c] EXCEPT !.pc = "attempt", !.outcome = outcome]]
      OBVIOUS
    <3>2. [call[c] EXCEPT !.pc = "attempt", !.outcome = outcome] \in Calls
      <4> HIDE <1>4 DEF TransportInv, Deliver
      <4>1. call[c] \in Calls
        BY DEF TransportInv, TypeOK
      <4> QED
        BY <4>1 DEF Calls
    <3>3. call' \in [Callers -> Calls]
      BY <3>1, <3>2 DEF TypeOK
    <3> QED
      BY <3>3 DEF TypeOK, CallsKnow
  <2>2. RowsWhole' /\ OneDecisionPerRef' /\ LineageExplainsRows'
    BY DEF RowsWhole, OneDecisionPerRef, LineageExplainsRows
  <2>3. DeliveredIsTrue'
    BY DEF TypeOK, DeliveredIsTrue
  <2>4. CallsKnow'
    BY DEF TypeOK, CallsKnow, Calls
  <2> QED
    BY <2>1, <2>2, <2>3, <2>4
<1>5. ASSUME NEW c \in Callers, RecordDeliveryAttempt(c) PROVE TransportInv'
  <2> USE <1>5 DEF TransportInv, RecordDeliveryAttempt, Finish
  <2>1. TypeOK'
    BY <1>types, StatusDomain DEF TypeOK, CallsKnow
  <2>2. RowsWhole'
    BY DEF TypeOK, RowsWhole, CallsKnow
  <2>3. OneDecisionPerRef' /\ LineageExplainsRows'
    BY DEF TypeOK, OneDecisionPerRef, LineageExplainsRows
  <2>4. DeliveredIsTrue'
    BY DEF TypeOK, DeliveredIsTrue, CallsKnow
  <2>5. CallsKnow'
    BY <1>none DEF TypeOK, CallsKnow
  <2> QED
    BY <2>1, <2>2, <2>3, <2>4, <2>5
<1>6. ASSUME NEW c \in Callers, StoreEvidence(c) PROVE TransportInv'
  <2>0. call[c].plan \in Plans /\ call[c].ref \in Refs /\ call[c].decision \in Decisions
    BY <1>6 DEF TransportInv, CallsKnow, StoreEvidence
  <2>1. TypeOK'
    <3>1. call' \in [Callers -> Calls]
      BY <1>6, <1>types, ContinueType DEF TransportInv, TypeOK, StoreEvidence, Finish
    <3>2. evidence' \in [Plans -> [ref : Refs \cup {NoRef}, decision : Decisions \cup {NoDecision},
                                   consumed : BOOLEAN]]
      <4> DEFINE Records == [ref : Refs \cup {NoRef}, decision : Decisions \cup {NoDecision},
                             consumed : BOOLEAN]
      <4>1. evidence \in [Plans -> Records]
        BY DEF TransportInv, TypeOK
      <4>2. [ref |-> call[c].ref, decision |-> call[c].decision, consumed |-> FALSE] \in Records
        BY <2>0
      <4>3. \/ evidence' = evidence
            \/ evidence' = [evidence EXCEPT ![call[c].plan] =
                 [ref |-> call[c].ref, decision |-> call[c].decision, consumed |-> FALSE]]
        BY <1>6 DEF StoreEvidence
      <4> HIDE DEF Records
      <4>4. evidence' \in [Plans -> Records]
        BY <4>1, <4>2, <4>3
      <4> QED
        BY <4>4 DEF Records
    <3>3. tx' \in [Plans -> DOMAIN statusRank]
      BY <1>6, <2>0, StatusDomain DEF TransportInv, TypeOK, StoreEvidence
    <3> QED
      BY <1>6, <3>1, <3>2, <3>3 DEF TransportInv, TypeOK, StoreEvidence
  <2> USE <1>6 DEF TransportInv, StoreEvidence, Continue, Finish
  <2>2. RowsWhole'
    BY <2>0 DEF TypeOK, RowsWhole, CallsKnow
  <2>3. OneDecisionPerRef'
    <3>1. CASE Recordable(call[c].plan, call[c].ref)
      <4> DEFINE p == call[c].plan
      <4>1. /\ \A q \in Plans \ {p} : evidence'[q] = evidence[q] /\ tx'[q] = tx[q]
            /\ evidence'[p].ref = call[c].ref /\ tx'[p] = "evidence_recorded"
        BY <2>0, <3>1 DEF TypeOK
      <4>2. \A q \in Plans : evidence[q].ref # call[c].ref
        BY <3>1 DEF Recordable
      <4>3. evidence'[p] # NoEvidence
        BY <1>none, <2>0, <4>1
      <4> QED
        BY <2>0, <4>1, <4>2, <4>3 DEF OneDecisionPerRef
    <3>2. CASE ~Recordable(call[c].plan, call[c].ref)
      BY <3>2 DEF OneDecisionPerRef
    <3> QED
      BY <3>1, <3>2
  <2>4. DeliveredIsTrue'
    BY <2>0 DEF TypeOK, DeliveredIsTrue
  <2>5. LineageExplainsRows'
    BY <2>0, <1>none DEF TypeOK, LineageExplainsRows, CallsKnow
  <2>6. CallsKnow'
    <3>1. CASE Recordable(call[c].plan, call[c].ref)
      <4> DEFINE p == call[c].plan
      <4>1. /\ \A q \in Plans : evidence[q] # NoEvidence => evidence'[q] # NoEvidence
            /\ \A q \in Plans : tx[q] # "absent" => tx'[q] # "absent"
            /\ evidence'[p] # NoEvidence
        BY <1>none, <2>0, <3>1 DEF TypeOK
      <4>2. \A e \in Callers \ {c} : call'[e] = call[e]
        BY <3>1 DEF TypeOK
      <4>3. call'[c] = [call[c] EXCEPT !.pc = "accept"]
        BY <3>1 DEF TypeOK
      <4>4. UNCHANGED <<lineage, reached>>
        OBVIOUS
      <4>5. call[c].op = "RecordEvidence" /\ call[c].pc = "store" /\ call[c] \in Calls
        BY DEF TypeOK
      <4> HIDE <1>6 DEF StoreEvidence
      <4>6. /\ call'[c].op = "RecordEvidence" /\ call'[c].pc = "accept" /\ call'[c].plan = p
            /\ call'[c].ref = call[c].ref /\ call'[c].decision = call[c].decision
        BY <4>3, <4>5 DEF Calls
      <4>7. tx[p] # "absent"
        BY <4>5 DEF CallsKnow
      <4> QED
        BY <2>0, <4>1, <4>2, <4>4, <4>6, <4>7 DEF CallsKnow
    <3>2. CASE ~Recordable(call[c].plan, call[c].ref)
      BY <1>none, <3>2 DEF TypeOK, CallsKnow
    <3> QED
      BY <3>1, <3>2
  <2> QED
    BY <2>1, <2>2, <2>3, <2>4, <2>5, <2>6
<1>7. ASSUME NEW c \in Callers, AcceptEvidence(c) PROVE TransportInv'
  <2> USE <1>7 DEF TransportInv, AcceptEvidence, Finish, tableVars
  <2>1. TypeOK'
    BY <1>types DEF TypeOK, CallsKnow, Acts
  <2>2. RowsWhole' /\ OneDecisionPerRef' /\ DeliveredIsTrue'
    BY DEF RowsWhole, OneDecisionPerRef, DeliveredIsTrue
  <2>3. LineageExplainsRows'
    BY DEF TypeOK, LineageExplainsRows, CallsKnow
  <2>4. CallsKnow'
    BY <1>none DEF TypeOK, CallsKnow
  <2> QED
    BY <2>1, <2>2, <2>3, <2>4
<1>8. ASSUME NEW c \in Callers, StoreRevoke(c) PROVE TransportInv'
  <2> USE <1>8 DEF TransportInv, StoreRevoke, Finish
  <2>1. TypeOK'
    BY <1>types, StatusDomain DEF TypeOK, CallsKnow
  <2>2. RowsWhole'
    BY DEF TypeOK, RowsWhole, CallsKnow
  <2>3. OneDecisionPerRef' /\ DeliveredIsTrue'
    BY DEF TypeOK, OneDecisionPerRef, DeliveredIsTrue
  <2>4. LineageExplainsRows'
    BY DEF TypeOK, LineageExplainsRows, CallsKnow
  <2>5. CallsKnow'
    BY <1>none DEF TypeOK, CallsKnow
  <2> QED
    BY <2>1, <2>2, <2>3, <2>4, <2>5
<1>9. ASSUME NEW c \in Callers, NEW p \in Plans, NEW o \in Operations, Transmit(c, p, o)
      PROVE  TransportInv'
  <2>1. PICK pc \in {"audit", "deliver"} :
          /\ call' = [call EXCEPT ![c] = [NoCall EXCEPT !.op = "Transmit", !.plan = p, !.bind = o, !.pc = pc]]
          /\ pc = "deliver" => tx[p] # "absent"
    BY <1>9 DEF Transmit, Start, NoCall
  <2>2. [NoCall EXCEPT !.op = "Transmit", !.plan = p, !.bind = o, !.pc = pc] \in Calls
    BY DEF NoCall, Calls
  <2>3. CallsKnow'
    BY <1>9, <2>1 DEF TransportInv, TypeOK, CallsKnow, Transmit, NoCall, tableVars
  <2> QED
    BY <1>9, <2>1, <2>2, <2>3, StartInv DEF Transmit
<1>10. ASSUME NEW c \in Callers, NEW p \in Plans, NEW r \in Refs, NEW d \in Decisions,
              RecordEvidence(c, p, r, d)
       PROVE  TransportInv'
  <2> DEFINE k == [NoCall EXCEPT !.op = "RecordEvidence", !.pc = "audit", !.plan = p,
                     !.ref = r, !.decision = d]
  <2>1. k \in Calls
    BY DEF NoCall, Calls
  <2>2. CallsKnow'
    BY <1>10 DEF TransportInv, TypeOK, CallsKnow, RecordEvidence, Start, NoCall, tableVars
  <2> QED
    BY <1>10, <2>1, <2>2, StartInv DEF RecordEvidence, Start
<1>11. ASSUME NEW c \in Callers, NEW p \in Plans, Revoke(c, p) PROVE TransportInv'
  <2> DEFINE k == [NoCall EXCEPT !.op = "Revoke", !.pc = "audit", !.plan = p]
  <2>1. k \in Calls
    BY DEF NoCall, Calls
  <2>2. CallsKnow'
    BY <1>11 DEF TransportInv, TypeOK, CallsKnow, Revoke, Start, NoCall, tableVars
  <2> QED
    BY <1>11, <2>1, <2>2, StartInv DEF Revoke, Start
<1>12. ASSUME NEW p \in Plans, ConsumeEvidence(p) PROVE TransportInv'
  <2> USE <1>12 DEF TransportInv, ConsumeEvidence
  <2>1. evidence[p].ref \in Refs /\ evidence[p].decision \in Decisions
    BY DEF RowsWhole
  <2>2. \A q \in Plans : /\ evidence'[q].ref = evidence[q].ref
                         /\ evidence'[q].decision = evidence[q].decision
                         /\ evidence'[q] = NoEvidence <=> evidence[q] = NoEvidence
    BY <1>none, <2>1 DEF TypeOK
  <2>3. TypeOK'
    BY DEF TypeOK
  <2>4. RowsWhole'
    BY <2>2 DEF RowsWhole
  <2>5. OneDecisionPerRef' /\ DeliveredIsTrue' /\ LineageExplainsRows'
    BY <2>2 DEF OneDecisionPerRef, DeliveredIsTrue, LineageExplainsRows
  <2>6. CallsKnow'
    BY <2>2 DEF CallsKnow
  <2> QED
    BY <2>3, <2>4, <2>5, <2>6
<1>13. CASE UNCHANGED vars
  BY <1>13 DEF vars, tableVars, TransportInv, TypeOK, RowsWhole, CallsKnow, OneDecisionPerRef,
       DeliveredIsTrue, LineageExplainsRows
<1> QED
  BY <1>1, <1>2, <1>3, <1>4, <1>5, <1>6, <1>7, <1>8, <1>9, <1>10, <1>11, <1>12, <1>13 DEF Next

-----------------------------------------------------------------------------
\* The inductive invariant holds in every reachable state.
THEOREM TransportInvariant == Spec => []TransportInv
BY TransportInitInv, TransportNextInv, PTL DEF Spec

\* Type correctness of the transport's tables and calls.
THEOREM TransportTypes == Spec => []TypeOK
<1>1. TransportInv => TypeOK
  BY DEF TransportInv
<1> QED
  BY <1>1, TransportInvariant, PTL

\* One decision per plan and per approval ref, however many submissions,
\* revocations and deliveries race (RecordEvidence, Revoke).
THEOREM TransportOneDecision == Spec => []OneDecisionPerRef
<1>1. TransportInv => OneDecisionPerRef
  BY DEF TransportInv
<1> QED
  BY <1>1, TransportInvariant, PTL

\* No transport failure shows a plan as delivered (Service.deliver).
THEOREM TransportDeliveredIsTrue == Spec => []DeliveredIsTrue
<1>1. TransportInv => DeliveredIsTrue
  BY DEF TransportInv
<1> QED
  BY <1>1, TransportInvariant, PTL

\* Every row, decision and revocation is explained by the audit lineage, and
\* every acceptance marker by a stored decision.
THEOREM TransportLineage == Spec => []LineageExplainsRows
<1>1. TransportInv => LineageExplainsRows
  BY DEF TransportInv
<1> QED
  BY <1>1, TransportInvariant, PTL

\* A stored status never regresses, late confirmations included (statusRank).
THEOREM TransportMonotone == Spec => StatusNeverRegresses
<1> DEFINE Up == \A p \in Plans : statusRank[tx'[p]] >= statusRank[tx[p]]
<1>r. /\ statusRank["absent"] = 0 /\ statusRank["pending"] = 1 /\ statusRank["delivered"] = 2
      /\ statusRank["evidence_recorded"] = 3 /\ statusRank["revoked"] = 4
  BY DEF statusRank
<1>1. ASSUME TransportInv, [Next]_vars PROVE [Up]_vars
  <2>0. \A p \in Plans : tx[p] \in {"absent", "pending", "delivered", "evidence_recorded", "revoked"}
    BY <1>1, StatusDomain DEF TransportInv, TypeOK
  <2>1. CASE tx' = tx
    BY <1>r, <2>0, <2>1
  <2>2. ASSUME NEW c \in Callers, CreateTransmission(c) PROVE Up
    BY <1>1, <1>r, <2>0, <2>2 DEF CreateTransmission, TransportInv, TypeOK
  <2>3. ASSUME NEW c \in Callers, RecordDeliveryAttempt(c) PROVE Up
    BY <1>1, <1>r, <2>0, <2>3 DEF RecordDeliveryAttempt, TransportInv, TypeOK
  <2>4. ASSUME NEW c \in Callers, StoreEvidence(c) PROVE Up
    BY <1>1, <1>r, <2>0, <2>4 DEF StoreEvidence, Recordable, TransportInv, TypeOK
  <2>5. ASSUME NEW c \in Callers, StoreRevoke(c) PROVE Up
    BY <1>1, <1>r, <2>0, <2>5 DEF StoreRevoke, TransportInv, TypeOK
  <2> QED
    BY <1>1, <2>1, <2>2, <2>3, <2>4, <2>5
       DEF Next, Audit, Abandon, Deliver, AcceptEvidence, Transmit, RecordEvidence, Revoke,
           ConsumeEvidence, tableVars, vars
<1> QED
  BY <1>1, TransportInvariant, PTL DEF Spec, StatusNeverRegresses

\* The transport implements ApprovalRegistry: an operation bound for good, one
\* decision, consumed once, none of it after a revocation.
THEOREM TransportImplementsRegistry == Spec => ImplementsRegistry
<1> DEFINE View == [p \in Plans |->
             [decision |-> evidence[p].decision, op |-> bound[p],
              consumed |-> evidence[p].consumed, revoked |-> tx[p] = "revoked"]]
<1>1. Init => Promised!RegistryInit
  <2> SUFFICES ASSUME Init PROVE Promised!RegistryInit
    OBVIOUS
  <2>1. \A p \in Plans : /\ evidence[p].decision = NoDecision /\ evidence[p].consumed = FALSE
                         /\ bound[p] = NoOperation /\ (tx[p] = "revoked") = FALSE
    BY DEF Init, NoEvidence
  <2> QED
    BY <2>1 DEF Promised!RegistryInit
<1>2. ASSUME TransportInv, [Next]_vars PROVE [Promised!RegistryNext]_View
  <2>types. /\ tx \in [Plans -> DOMAIN statusRank] /\ bound \in [Plans -> Operations \cup {NoOperation}]
            /\ evidence \in [Plans -> [ref : Refs \cup {NoRef}, decision : Decisions \cup {NoDecision},
                                       consumed : BOOLEAN]]
    BY <1>2 DEF TransportInv, TypeOK
  <2>1. CASE UNCHANGED <<tx, bound, evidence>>
    BY <2>1
  <2>2. ASSUME NEW c \in Callers, CreateTransmission(c) PROVE [Promised!RegistryNext]_View
    <3>1. PICK p \in Plans, o \in Operations : p = call[c].plan /\ o = call[c].bind
      BY <1>2, <2>2 DEF CreateTransmission, TransportInv, CallsKnow
    <3>2. CASE tx[p] = "absent"
      <4>1. /\ bound[p] = NoOperation /\ bound' = [bound EXCEPT ![p] = o]
            /\ tx' = [tx EXCEPT ![p] = "pending"] /\ evidence' = evidence
        BY <1>2, <2>2, <3>1, <3>2 DEF CreateTransmission, TransportInv, RowsWhole
      <4>2. Promised!Bind(p, o)
        BY <2>types, <3>1, <3>2, <4>1 DEF Promised!Bind
      <4> QED
        BY <3>1, <4>2 DEF Promised!RegistryNext
    <3>3. CASE tx[p] # "absent"
      BY <2>2, <3>1, <3>3 DEF CreateTransmission
    <3> QED
      BY <3>2, <3>3
  <2>3. ASSUME NEW c \in Callers, RecordDeliveryAttempt(c) PROVE View' = View
    <3>1. \A p \in Plans : tx'[p] = "revoked" <=> tx[p] = "revoked"
      BY <2>3, <2>types DEF RecordDeliveryAttempt
    <3>2. evidence' = evidence /\ bound' = bound
      BY <2>3 DEF RecordDeliveryAttempt
    <3> QED
      BY <3>1, <3>2
  <2>4. ASSUME NEW c \in Callers, StoreEvidence(c) PROVE [Promised!RegistryNext]_View
    <3>1. PICK p \in Plans, d \in Decisions :
            /\ p = call[c].plan /\ d = call[c].decision
            /\ call[c].ref \in Refs /\ tx[p] # "absent"
      BY <1>2, <2>4 DEF StoreEvidence, TransportInv, CallsKnow
    <3>2. CASE Recordable(p, call[c].ref)
      <4>1. /\ evidence' = [evidence EXCEPT ![p] = [ref |-> call[c].ref, decision |-> d, consumed |-> FALSE]]
            /\ tx' = [tx EXCEPT ![p] = "evidence_recorded"] /\ bound' = bound
        BY <2>4, <3>1, <3>2 DEF StoreEvidence
      <4>2. /\ evidence[p].decision = NoDecision /\ ~evidence[p].consumed
            /\ tx[p] # "revoked" /\ bound[p] # NoOperation
        BY <1>2, <3>1, <3>2 DEF Recordable, NoEvidence, TransportInv, RowsWhole
      <4>3. \A q \in Plans : (tx'[q] = "revoked") = (tx[q] = "revoked")
        BY <2>types, <3>1, <4>1, <4>2
      <4>4. Promised!Decide(p, d)
        <5>1. /\ evidence'[p].decision = d /\ evidence'[p].consumed = evidence[p].consumed
              /\ \A q \in Plans : q # p => evidence'[q] = evidence[q]
          BY <2>types, <3>1, <4>1, <4>2
        <5>2. /\ View[p].op # NoOperation /\ View[p].decision = NoDecision /\ ~View[p].revoked
              /\ View' = [View EXCEPT ![p].decision = d]
          BY <4>1, <4>2, <4>3, <5>1
        <5> QED
          BY <5>2 DEF Promised!Decide
      <4> QED
        BY <3>1, <4>4 DEF Promised!RegistryNext
    <3>3. CASE ~Recordable(p, call[c].ref)
      BY <2>4, <3>1, <3>3 DEF StoreEvidence
    <3> QED
      BY <3>2, <3>3
  <2>5. ASSUME NEW c \in Callers, StoreRevoke(c) PROVE [Promised!RegistryNext]_View
    <3>1. PICK p \in Plans : tx' = [tx EXCEPT ![p] = "revoked"] /\ UNCHANGED <<bound, evidence>>
      BY <1>2, <2>5 DEF StoreRevoke, TransportInv, CallsKnow
    <3>2. CASE tx[p] = "revoked"
      BY <2>types, <3>1, <3>2
    <3>3. CASE tx[p] # "revoked"
      <4>1. Promised!Withdraw(p)
        BY <2>types, <3>1, <3>3 DEF Promised!Withdraw
      <4> QED
        BY <3>1, <4>1 DEF Promised!RegistryNext
    <3> QED
      BY <3>2, <3>3
  <2>6. ASSUME NEW p \in Plans, ConsumeEvidence(p) PROVE [Promised!RegistryNext]_View
    <3>1. /\ evidence[p].decision # NoDecision /\ ~evidence[p].consumed /\ tx[p] # "revoked"
      BY <1>2, <2>6, TransportAssumption DEF ConsumeEvidence, TransportInv, RowsWhole
    <3>2. Promised!Consume(p)
      BY <2>types, <2>6, <3>1 DEF Promised!Consume, Promised!Unconsumed, ConsumeEvidence
    <3> QED
      BY <3>2 DEF Promised!RegistryNext
  <2> QED
    BY <1>2, <2>1, <2>2, <2>3, <2>4, <2>5, <2>6
       DEF Next, Audit, Abandon, Deliver, AcceptEvidence, Transmit, RecordEvidence, Revoke,
           tableVars, vars
<1> QED
  BY <1>1, <1>2, TransportInvariant, PTL DEF Spec, ImplementsRegistry, Promised!RegistrySpec
=============================================================================
