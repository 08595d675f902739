------------------------------- MODULE Outbox -------------------------------
(***************************************************************************)
(* Delivery of committed dispatch intents: internal/actions/outbox.go,     *)
(* recovery_pump.go, nats.go and the claim transactions of postgres.go.    *)
(*                                                                         *)
(* A Dispatch call commits an outbox row and then publishes it itself; the *)
(* recovery pump of every replica drains what that publish did not finish. *)
(* Both go through a claim: one transaction that locks the row (FOR UPDATE *)
(* SKIP LOCKED), publishes to JetStream and writes the outcome.  Publish   *)
(* and outcome are two steps here, with the row lock held across them.     *)
(***************************************************************************)
EXTENDS Integers, FiniteSets

CONSTANTS
  NumDispatches,   \* intents, numbered in created_at order
  Pumps,           \* one recovery pump per gateway replica
  MaxAttempts,     \* maxDispatchAttempts
  Batch,           \* defaultDispatchClaimBatch: rows one pass may claim
  Healthy,         \* intents the transport always accepts and acknowledges
  MaxFaults,       \* bound on crashes and failed commits in a behaviour
  NoRow

Dispatches == 1..NumDispatches

ASSUME OutboxAssumption ==
  /\ NumDispatches \in Nat /\ MaxAttempts \in Nat \ {0} /\ Batch \in Nat \ {0}
  /\ MaxFaults \in Nat /\ Healthy \subseteq Dispatches /\ NoRow \notin Dispatches

\* Who may hold a claim: the pumps, and the request that committed each intent.
Request(d) == <<"request", d>>
Requests == {Request(d) : d \in Dispatches}
Claimers == Pumps \cup Requests

ASSUME PumpAssumption == Pumps \cap Requests = {}

VARIABLES
  state,     \* outbox row: "absent", "pending", "published", "dead"
  attempts,  \* outbox row: attempts
  backoff,   \* next_attempt_at: "none" (NULL), "waiting" (ahead) or "due" (passed)
  claim,     \* per claimer, the row whose lock it holds
  phase,     \* per claimer: "idle", "ready", "publish", "accepted", "refused"
  due,       \* per pump, rows whose next_attempt_at is not after the start of its pass
  left,      \* per pump, rows its pass may still claim
  tried,     \* per pump, rows its pass has claimed (observation)
  copies,    \* messages JetStream stored for the intent
  excuses,   \* per intent: acknowledgements lost after the stream took it (observation)
  faults     \* crashes and failed commits so far

outboxVars == <<state, attempts, backoff, claim, phase, due, left, tried, copies, excuses, faults>>
rowVars == <<state, attempts, backoff>>
passVars == <<due, left, tried>>
busVars == <<copies, excuses>>

OutboxTypeOK ==
  /\ state \in [Dispatches -> {"absent", "pending", "published", "dead"}]
  /\ attempts \in [Dispatches -> 0..MaxAttempts]
  /\ backoff \in [Dispatches -> {"none", "waiting", "due"}]
  /\ claim \in [Claimers -> Dispatches \cup {NoRow}]
  /\ phase \in [Claimers -> {"idle", "ready", "publish", "accepted", "refused"}]
  /\ due \in [Pumps -> SUBSET Dispatches]
  /\ left \in [Pumps -> 0..Batch]
  /\ tried \in [Pumps -> SUBSET Dispatches]
  /\ copies \in [Dispatches -> Nat]
  /\ excuses \in [Dispatches -> Nat]
  /\ faults \in 0..MaxFaults

OutboxInit ==
  /\ state = [d \in Dispatches |-> "absent"]
  /\ attempts = [d \in Dispatches |-> 0]
  /\ backoff = [d \in Dispatches |-> "none"]
  /\ claim = [x \in Claimers |-> NoRow]
  /\ phase = [x \in Claimers |-> "idle"]
  /\ due = [p \in Pumps |-> {}]
  /\ left = [p \in Pumps |-> 0]
  /\ tried = [p \in Pumps |-> {}]
  /\ copies = [d \in Dispatches |-> 0]
  /\ excuses = [d \in Dispatches |-> 0]
  /\ faults = 0

-----------------------------------------------------------------------------
Locked(d) == \E x \in Claimers : claim[x] = d

\* Faulty variant of Claimable: no row lock.
Claimable_NoLock(d) == state[d] = "pending"

Claimable(d) == state[d] = "pending" /\ ~Locked(d)

\* The dispatching request commits the row, then owns its first delivery.
Commit(d) ==
  /\ state[d] = "absent" /\ \A e \in Dispatches : e < d => state[e] # "absent"
  /\ state' = [state EXCEPT ![d] = "pending"]
  /\ phase' = [phase EXCEPT ![Request(d)] = "ready"]
  /\ UNCHANGED <<attempts, backoff, claim, passVars, busVars, faults>>

\* publishDispatched -> ClaimDispatch: the backoff is not consulted, and a row
\* that is held, published or given up is simply not the request's to deliver.
ClaimDispatch(d) ==
  LET x == Request(d)
  IN  /\ phase[x] = "ready"
      /\ IF Claimable(d)
         THEN claim' = [claim EXCEPT ![x] = d] /\ phase' = [phase EXCEPT ![x] = "publish"]
         ELSE phase' = [phase EXCEPT ![x] = "idle"] /\ UNCHANGED claim
      /\ UNCHANGED <<rowVars, passVars, busVars, faults>>

\* A tick of RecoveryPump.Run: RepublishPending fixes its time and drains.
StartPass(p) ==
  /\ phase[p] = "idle"
  /\ phase' = [phase EXCEPT ![p] = "ready"]
  /\ due' = [due EXCEPT ![p] = {d \in Dispatches : backoff[d] = "due"}]
  /\ left' = [left EXCEPT ![p] = Batch]
  /\ tried' = [tried EXCEPT ![p] = {}]
  /\ UNCHANGED <<rowVars, claim, busVars, faults>>

\* Rows ClaimNextActionOutbox may return to p: next_attempt_at is compared with
\* the time the pass began.
Eligible(p) == {d \in Dispatches : Claimable(d) /\ (backoff[d] = "none" \/ d \in due[p])}

\* claimNext: the oldest eligible row, or the end of the pass.
ClaimNext(p) ==
  /\ phase[p] = "ready"
  /\ IF left[p] > 0 /\ Eligible(p) # {}
     THEN \E d \in Eligible(p) :
            /\ \A e \in Eligible(p) : d <= e
            /\ claim' = [claim EXCEPT ![p] = d]
            /\ phase' = [phase EXCEPT ![p] = "publish"]
            /\ left' = [left EXCEPT ![p] = @ - 1]
            /\ tried' = [tried EXCEPT ![p] = @ \cup {d}]
            /\ UNCHANGED due
     ELSE phase' = [phase EXCEPT ![p] = "idle"] /\ UNCHANGED <<claim, passVars>>
  /\ UNCHANGED <<rowVars, busVars, faults>>

\* The stream takes a message unless its dedup window still holds the ref.
StreamTakes(d) ==
  \/ copies' = [copies EXCEPT ![d] = @ + 1]
  \/ copies[d] > 0 /\ UNCHANGED copies

\* deliver -> PublishDispatch: acknowledged, or taken with the acknowledgement
\* lost, or not taken; the last two are the same error to the publisher.
Publish(x) ==
  LET d == claim[x]
  IN  /\ phase[x] = "publish"
      /\ \/ /\ StreamTakes(d)
            /\ phase' = [phase EXCEPT ![x] = "accepted"]
            /\ UNCHANGED excuses
         \/ /\ d \notin Healthy
            /\ StreamTakes(d)
            /\ phase' = [phase EXCEPT ![x] = "refused"]
            /\ excuses' = [excuses EXCEPT ![d] = @ + 1]
         \/ /\ d \notin Healthy
            /\ phase' = [phase EXCEPT ![x] = "refused"]
            /\ UNCHANGED busVars
      /\ UNCHANGED <<rowVars, claim, passVars, faults>>

\* Releasing the row ends a request's work and lets a pump go on.
Release(x) ==
  /\ claim' = [claim EXCEPT ![x] = NoRow]
  /\ phase' = [phase EXCEPT ![x] = IF x \in Pumps THEN "ready" ELSE "idle"]

\* applyDispatchOutcome: the publish stamp.
StampPublished(x) ==
  LET d == claim[x]
  IN  /\ phase[x] = "accepted"
      /\ state' = [state EXCEPT ![d] = "published"]
      /\ attempts' = [attempts EXCEPT ![d] = @ + 1]
      /\ Release(x)
      /\ UNCHANGED <<backoff, passVars, busVars, faults>>

\* Faulty variants of RecordAttempt: no attempt counted, nothing recorded.
RecordAttempt_Forever(x) ==
  LET d == claim[x]
  IN  /\ phase[x] = "refused"
      /\ backoff' = [backoff EXCEPT ![d] = "waiting"]
      /\ due' = [p \in Pumps |-> due[p] \ {d}]
      /\ Release(x)
      /\ UNCHANGED <<state, attempts, left, tried, busVars, faults>>
RecordAttempt_Unrecorded(x) ==
  phase[x] = "refused" /\ Release(x) /\ UNCHANGED <<rowVars, passVars, busVars, faults>>

\* applyDispatchOutcome: one failed attempt, the last one a dead letter.  The
\* new next_attempt_at is ahead of every pass begun so far.
RecordAttempt(x) ==
  LET d == claim[x]
  IN  /\ phase[x] = "refused"
      /\ attempts' = [attempts EXCEPT ![d] = @ + 1]
      /\ IF attempts[d] + 1 >= MaxAttempts
         THEN /\ state' = [state EXCEPT ![d] = "dead"]
              /\ backoff' = [backoff EXCEPT ![d] = "none"]
         ELSE /\ backoff' = [backoff EXCEPT ![d] = "waiting"]
              /\ UNCHANGED state
      /\ due' = [p \in Pumps |-> due[p] \ {d}]
      /\ Release(x)
      /\ UNCHANGED <<left, tried, busVars, faults>>

\* A crash, a cancelled request or a failed commit: the transaction rolls back,
\* the row lock goes, and a pass ends.  The stream keeps what it took.
Fault(x) ==
  /\ phase[x] # "idle" /\ faults < MaxFaults
  /\ faults' = faults + 1
  /\ excuses' = IF phase[x] = "accepted"
                THEN [excuses EXCEPT ![claim[x]] = @ + 1] ELSE excuses
  /\ claim' = [claim EXCEPT ![x] = NoRow]
  /\ phase' = [phase EXCEPT ![x] = "idle"]
  /\ UNCHANGED <<rowVars, passVars, copies>>

\* Time passes next_attempt_at.
BackoffElapses(d) ==
  /\ backoff[d] = "waiting"
  /\ backoff' = [backoff EXCEPT ![d] = "due"]
  /\ UNCHANGED <<state, attempts, claim, phase, passVars, busVars, faults>>

ClaimerStep(x) == Publish(x) \/ StampPublished(x) \/ RecordAttempt(x)
PumpStep(p) == StartPass(p) \/ ClaimNext(p)

OutboxNext ==
  \/ \E d \in Dispatches : Commit(d) \/ ClaimDispatch(d) \/ BackoffElapses(d)
  \/ \E p \in Pumps : PumpStep(p)
  \/ \E x \in Claimers : ClaimerStep(x) \/ Fault(x)

OutboxSpec == OutboxInit /\ [][OutboxNext]_outboxVars

\* Each pump goroutine keeps running (Run never ends on an error), a claim's
\* publish and stamp finish unless the process dies, and time passes.  No
\* fairness for Commit, the dispatching request or faults.
Fairness ==
  /\ \A p \in Pumps : WF_outboxVars(PumpStep(p))
  /\ \A x \in Claimers : WF_outboxVars(ClaimerStep(x))
  /\ \A d \in Dispatches : WF_outboxVars(BackoffElapses(d))

OutboxFairSpec == OutboxSpec /\ Fairness

-----------------------------------------------------------------------------
(* Properties.                                                             *)

\* Two claimers never deliver the same intent at once: the row lock is held
\* across the publish (ClaimActionOutbox, ClaimNextActionOutbox).
NoConcurrentDelivery ==
  \A x, y \in Claimers : claim[x] = claim[y] /\ claim[x] # NoRow => x = y

\* A row stamped published was taken by the stream, and a row is given up
\* only after all its attempts; until then it is still pending.
StampsAreTrue ==
  \A d \in Dispatches :
    /\ state[d] = "published" => copies[d] > 0
    /\ state[d] = "dead" <=> attempts[d] = MaxAttempts /\ state[d] # "published"

\* At least once, and more than once only by fault: every extra copy on the
\* stream has a lost acknowledgement or a rolled-back stamp behind it
\* (RepublishPending, RecoveryPump).
DuplicatesAreExcused ==
  \A d \in Dispatches :
    copies[d] <= excuses[d] + (IF state[d] = "published" \/ \E x \in Claimers :
                                   claim[x] = d /\ phase[x] = "accepted" THEN 1 ELSE 0)

\* Whatever requests, pumps and faults interleave, the rows say what happened to
\* their intents and no intent is on the stream more often than the faults
\* explain (publishDispatched, deliver and RepublishPending together).
DeliveriesAreTrue == OutboxTypeOK /\ NoConcurrentDelivery /\ StampsAreTrue /\ DuplicatesAreExcused

\* Every committed intent is eventually published or given up, though its
\* request may die before publishing (RecoveryPump.Run).
EveryIntentSettles ==
  \A d \in Dispatches : state[d] = "pending" ~> state[d] \in {"published", "dead"}

\* An intent the transport would take is published however long the intents
\* before it keep failing ("the intents behind it keep flowing", deliver).
HealthyIntentsFlow ==
  \A d \in Healthy : state[d] = "pending" ~> state[d] = "published"
=============================================================================
