--------------------------- MODULE EdgeAgentProofs ---------------------------
(***************************************************************************)
(* The edge journal and the centre agree, and the edge agent implements    *)
(* ActionOutcome: for any number of actions, agent processes, concurrent   *)
(* handlers, rotations, crashes, redeliveries and requests served late.    *)
(*                                                                         *)
(* The in-flight set plays no part: a rotation empties it under a running  *)
(* handler.  The barrier carries the argument, as it does for the central  *)
(* worker, and the journal adds to it: only the one handler that won the   *)
(* barrier ever writes a receipt, every request that carries an outcome    *)
(* was journaled first, and a success is never left again.                 *)
(***************************************************************************)
EXTENDS EdgeAgent, ActionStoreProofs

Open == {"dispatched", "executing"}

\* The agent's own receipt completed the action.
Landed(a) == receipt[a] = DispatchRef[a] /\ status[a] = "succeeded"

\* The agent has nothing left to do for the action.
Settled(a) ==
  /\ status[a] \notin Open
  /\ Landed(a) => \E p \in Processes : Needs \ Detached \subseteq observed[p][a]

\* Between the barrier and the journal.
Running(h) == pc[h] \in {"run", "record"}

NotJournaled(a) == \A p \in Processes : journal[p][a] = "none"

\* The status a handler read may be old, but what it rules out stays ruled out.
ReadIsPast(h) ==
  /\ seen[h] # "dispatched" => status[job[h]] # "dispatched"
  /\ seen[h] \notin Open => status[job[h]] \notin Open
  /\ seen[h] = "succeeded" => status[job[h]] = "succeeded"
  /\ seen[h] \notin Open \cup {"succeeded"} => ~Landed(job[h])

\* What a handler at each step knows of its action.
Knows(h) ==
  /\ pc[h] # "idle" => job[h] \in Actions
  /\ pc[h] \notin {"observe", "produce"} => at[h] = 1
  /\ pc[h] = "produce" => at[h] <= NeedCount
  /\ pc[h] = "classify" => ReadIsPast(h)
  /\ pc[h] \in {"run", "record", "load", "ingest", "flag"} => status[job[h]] # "dispatched"
  /\ Running(h) => NotJournaled(job[h])
  /\ pc[h] = "run" => effects[job[h]] = 0
  /\ pc[h] = "record" => found[h] # "none" /\ (found[h] = "succeeded" => effects[job[h]] = 1)
  /\ pc[h] = "ingest" => found[h] # "none" /\ journal[ProcessOf[h]][job[h]] = found[h]
  /\ pc[h] \in {"observe", "produce"} =>
       /\ status[job[h]] = "succeeded"
       /\ deferred[h] \/ \A n \in Needs \ Detached : n < at[h] => n \in observed[ProcessOf[h]][job[h]]

\* At most one handler is past the barrier of an action and before its journal.
OneRunner == \A h, i \in Handlers : Running(h) /\ Running(i) /\ job[h] = job[i] => h = i

\* What the tables, the journals and the effects say of one action.
ActionIsTrue(a) ==
  /\ status[a] \notin {"absent", "requested", "awaiting_approval", "granted"}
  /\ status[a] = "dispatched" => effects[a] = 0 /\ NotJournaled(a)
  /\ effects[a] \in {0, 1}
  /\ status[a] = "succeeded" => effects[a] = 1

WorldIsTrue == (\A a \in Actions : ActionIsTrue(a)) /\ AppliedReceiptIsJournaled /\ JournalIsTrue

\* A late request that carries an outcome was journaled before it was sent.
LateIsJournaled ==
  \A a \in Actions, m \in ReceiptStatuses : <<a, m>> \in late =>
    \E p \in Processes : journal[p][a] = m

\* An intent acked by an attempt that decided it owes nothing more.
AckedIsSettled == \A a \in Actions : ~unacked[a] /\ a \notin yielded => Settled(a)

EdgeInv ==
  /\ StoreInv /\ TypeOK
  /\ WorldIsTrue
  /\ \A h \in Handlers : Knows(h)
  /\ OneRunner /\ LateIsJournaled /\ AckedIsSettled

-----------------------------------------------------------------------------
\* Freshly dispatched actions and idle agents satisfy the invariant.
LEMMA EdgeInitInv == Init => EdgeInv
<1> SUFFICES ASSUME Init PROVE EdgeInv
  OBVIOUS
<1>1. StoreTypeOK
  BY EdgeAssumption DEF Init, StoreTypeOK, Rows, Statuses, Bindings
<1>2. StoreInv
  BY <1>1, EdgeAssumption, StoreAssumption DEF Init, StoreInv, GrantMatchesStatus, OneUseDispatch, ResultAppliedOnce,
       SuccessIsEvidenced, OneActionPerKey, Rows
<1>3. TypeOK
  <2>1. /\ queue \in [Processes -> Seq(Actions)]
        /\ \A p \in Processes : Len(queue[p]) <= QueueBound
    BY EdgeAssumption DEF Init
  <2>2. at \in [Handlers -> 1..(NeedCount + 1)] /\ faults \in 0..MaxFaults
        /\ rotations \in 0..MaxRotations /\ duplicates \in 0..MaxDuplicates
    BY EdgeAssumption DEF Init
  <2>3. /\ journal \in [Processes -> [Actions -> {"none"} \cup ReceiptStatuses]]
        /\ observed \in [Processes -> [Actions -> SUBSET Needs]]
    BY DEF Init
  <2> QED
    BY <1>1, <2>1, <2>2, <2>3 DEF Init, TypeOK, Steps
<1>4. WorldIsTrue
  BY EdgeAssumption, StoreAssumption DEF Init, WorldIsTrue, ActionIsTrue, AppliedReceiptIsJournaled, JournalIsTrue,
       NotJournaled, ResultIds
<1>5. \A h \in Handlers : Knows(h)
  BY DEF Init, Knows, Running
<1>6. OneRunner /\ LateIsJournaled /\ AckedIsSettled
  BY DEF Init, OneRunner, Running, LateIsJournaled, AckedIsSettled
<1> QED
  BY <1>2, <1>3, <1>4, <1>5, <1>6 DEF EdgeInv

-----------------------------------------------------------------------------
(* The tables.                                                             *)

\* What agents, late requests and operators do to the tables.
TableMove ==
  \/ UNCHANGED storeVars
  \/ \E a \in Actions, from \in Statuses, to \in PlainTargets : StoreTransition(a, from, to)
  \/ \E a \in Actions, m \in ReceiptStatuses :
       /\ Ingestible(a, m) /\ IngestResult(a, DispatchRef[a], m)
       /\ \E p \in Processes : journal[p][a] = m
  \/ \E a \in Actions :
       /\ status[a] = "reconciling" /\ effects[a] > 0
       /\ IngestResult(a, ReconcileId(a), "succeeded")

\* What no such step takes back from an action.
TablesKeep ==
  \A a \in Actions :
    /\ status'[a] = "dispatched" => status[a] = "dispatched"
    /\ status'[a] \in Open => status[a] \in Open
    /\ status[a] = "succeeded" => status'[a] = "succeeded"
    /\ Landed(a)' => Landed(a) \/ status[a] \in Open

\* Every step is one of the store's transactions.
LEMMA MoveIsStoreStep ==
  ASSUME TableMove
  PROVE  [StoreNext]_storeVars
<1>1. \A a \in Actions : DispatchRef[a] \in ResultIds /\ ReconcileId(a) \in ResultIds
  BY EdgeAssumption DEF ResultIds
<1>2. "succeeded" \in ReceiptStatuses
  BY DEF ReceiptStatuses
<1> QED
  BY <1>1, <1>2 DEF TableMove, StoreNext

\* A success has a receipt, and a row with a receipt is not moved again.
LEMMA MoveKeeps ==
  ASSUME EdgeInv, TableMove
  PROVE  StoreInv' /\ TablesKeep
<1>1. StoreInv'
  BY MoveIsStoreStep, StoreNextInv DEF EdgeInv
<1>2. ASSUME NEW a \in Actions, NEW x \in Actions, NEW to \in PlainTargets, NEW from \in Statuses,
             StoreTransition(a, from, to)
      PROVE  /\ status'[x] = "dispatched" => status[x] = "dispatched"
             /\ status'[x] \in Open => status[x] \in Open
             /\ status[x] = "succeeded" => status'[x] = "succeeded"
             /\ Landed(x)' => Landed(x)
  <2>1. /\ status \in [Actions -> Statuses \cup {"absent"}] /\ status' = [status EXCEPT ![a] = to]
        /\ UNCHANGED receipt /\ canTransition(status[a], to)
        /\ receipt[a] # NoResult => to \in ReceiptStatuses
        /\ status[a] = "succeeded" => receipt[a] # NoResult
    BY <1>2 DEF EdgeInv, StoreInv, StoreTypeOK, StoreTransition, TransitionAccepted, UpdateAllowed, SuccessIsEvidenced
  <2>2. status[a] # "succeeded" /\ to # "dispatched" /\ to # "succeeded"
        /\ (to = "executing" => status[a] = "dispatched")
    BY <2>1 DEF canTransition, allowedEdges, Statuses, ReceiptStatuses, PlainTargets
  <2> QED
    BY <2>1, <2>2 DEF Open, Landed
<1>3. ASSUME NEW a \in Actions, NEW x \in Actions, NEW m \in ReceiptStatuses, NEW r \in ResultIds,
             IngestResult(a, r, m), r = DispatchRef[a] => status[a] \in Open,
             \E b \in Actions : r = DispatchRef[a] \/ r = ReconcileId(b)
      PROVE  /\ status'[x] = "dispatched" => status[x] = "dispatched"
             /\ status'[x] \in Open => status[x] \in Open
             /\ status[x] = "succeeded" => status'[x] = "succeeded"
             /\ Landed(x)' => Landed(x) \/ status[x] \in Open
  <2>1. /\ status \in [Actions -> Statuses \cup {"absent"}] /\ status' = [status EXCEPT ![a] = m]
        /\ receipt \in [Actions -> ResultIds \cup {NoResult}] /\ receipt' = [receipt EXCEPT ![a] = r]
        /\ status[a] # "succeeded"
    BY <1>3 DEF EdgeInv, StoreInv, StoreTypeOK, IngestResult, IngestAccepted
  <2> QED
    BY <1>3, <2>1, EdgeAssumption DEF Open, Landed, ReceiptStatuses
<1>4. TablesKeep
  <2>1. CASE UNCHANGED storeVars
    BY <2>1 DEF TablesKeep, storeVars, Landed
  <2>2. CASE \E a \in Actions, from \in Statuses, to \in PlainTargets : StoreTransition(a, from, to)
    BY <1>2, <2>2 DEF TablesKeep
  <2>3. CASE \E a \in Actions, m \in ReceiptStatuses : Ingestible(a, m) /\ IngestResult(a, DispatchRef[a], m)
    <3>1. \A a \in Actions : DispatchRef[a] \in ResultIds
      BY EdgeAssumption DEF ResultIds
    <3> QED
      BY <1>3, <2>3, <3>1 DEF TablesKeep, Ingestible, Open
  <2>4. CASE \E a \in Actions : IngestResult(a, ReconcileId(a), "succeeded")
    <3>1. \A a \in Actions : ReconcileId(a) \in ResultIds /\ DispatchRef[a] # ReconcileId(a)
      BY EdgeAssumption DEF ResultIds
    <3> QED
      BY <1>3, <2>4, <3>1 DEF TablesKeep, ReceiptStatuses
  <2> QED
    BY <2>1, <2>2, <2>3, <2>4 DEF TableMove
<1> QED
  BY <1>1, <1>4
\* The tables move, the journals and the effects do not.
LEMMA MoveWorld ==
  ASSUME EdgeInv, TableMove, UNCHANGED <<effects, journal, observed>>
  PROVE  WorldIsTrue'
<1>1. StoreInv' /\ TablesKeep
  BY MoveKeeps
<1>2. ASSUME NEW x \in Actions
      PROVE  /\ status'[x] \notin {"absent", "requested", "awaiting_approval", "granted"}
             /\ status'[x] = "succeeded" => effects[x] = 1
             /\ receipt'[x] = DispatchRef[x] => \E p \in Processes : journal[p][x] = status'[x]
  <2> USE <1>2
  <2>1. /\ status[x] \notin {"absent", "requested", "awaiting_approval", "granted"}
        /\ status[x] = "succeeded" => effects[x] = 1 /\ effects[x] \in {0, 1}
        /\ receipt[x] = DispatchRef[x] => \E p \in Processes : journal[p][x] = status[x]
        /\ \A p \in Processes : journal[p][x] = "succeeded" => effects[x] = 1
        /\ effects[x] \in {0, 1}
    BY DEF EdgeInv, WorldIsTrue, ActionIsTrue, AppliedReceiptIsJournaled, JournalIsTrue
  <2>2. /\ status \in [Actions -> Statuses \cup {"absent"}]
        /\ receipt \in [Actions -> ResultIds \cup {NoResult}]
        /\ DispatchRef[x] # NoResult
    BY EdgeAssumption, StoreAssumption DEF EdgeInv, StoreInv, StoreTypeOK, ResultIds
  <2>3. CASE UNCHANGED storeVars
    BY <2>1, <2>3 DEF storeVars
  <2>4. CASE \E a \in Actions, from \in Statuses, to \in PlainTargets : StoreTransition(a, from, to)
    <3>1. PICK a \in Actions, from \in Statuses, to \in PlainTargets : StoreTransition(a, from, to)
      BY <2>4
    <3>2. /\ status' = [status EXCEPT ![a] = to] /\ UNCHANGED receipt /\ canTransition(status[a], to)
          /\ receipt[a] # NoResult => to \in ReceiptStatuses /\ status[a] \in ReceiptStatuses
      BY <3>1 DEF StoreTransition, TransitionAccepted, UpdateAllowed, EdgeInv, StoreInv, ResultAppliedOnce
    <3>3. receipt[a] = NoResult
      BY <3>2 DEF canTransition, allowedEdges, Statuses, ReceiptStatuses
    <3> QED
      BY <2>1, <2>2, <3>2, <3>3 DEF PlainTargets
  <2>5. CASE \E a \in Actions, m \in ReceiptStatuses :
               /\ Ingestible(a, m) /\ IngestResult(a, DispatchRef[a], m)
               /\ \E p \in Processes : journal[p][a] = m
    BY <2>1, <2>2, <2>5 DEF IngestResult, ReceiptStatuses
  <2>6. CASE \E a \in Actions :
               /\ status[a] = "reconciling" /\ effects[a] > 0
               /\ IngestResult(a, ReconcileId(a), "succeeded")
    <3>1. PICK a \in Actions : /\ status[a] = "reconciling" /\ effects[a] > 0
                               /\ IngestResult(a, ReconcileId(a), "succeeded")
      BY <2>6
    <3>2. status' = [status EXCEPT ![a] = "succeeded"] /\ receipt' = [receipt EXCEPT ![a] = ReconcileId(a)]
      BY <3>1 DEF IngestResult
    <3>3. effects[a] = 1 /\ ReconcileId(a) # DispatchRef[a]
      BY <3>1, EdgeAssumption DEF EdgeInv, WorldIsTrue, ActionIsTrue
    <3> QED
      BY <2>1, <2>2, <3>2, <3>3
  <2> QED
    BY <2>3, <2>4, <2>5, <2>6 DEF TableMove
<1>3. \A x \in Actions : ActionIsTrue(x)'
  BY <1>1, <1>2 DEF EdgeInv, WorldIsTrue, ActionIsTrue, NotJournaled, TablesKeep
<1>4. AppliedReceiptIsJournaled'
  BY <1>2 DEF AppliedReceiptIsJournaled
<1>5. JournalIsTrue'
  BY <1>1 DEF EdgeInv, WorldIsTrue, JournalIsTrue, TablesKeep
<1> QED
  BY <1>3, <1>4, <1>5 DEF WorldIsTrue

-----------------------------------------------------------------------------
(* One step of one handler, and everybody else.                            *)

\* The handler is not the one that moves.
Waits(h) ==
  /\ pc'[h] = pc[h] /\ job'[h] = job[h] /\ seen'[h] = seen[h]
  /\ found'[h] = found[h] /\ at'[h] = at[h] /\ deferred'[h] = deferred[h]

\* What a step may do to the journals and the effects that a handler relies on.
Undisturbed(h) ==
  \A a \in Actions, p \in Processes :
    /\ observed[p][a] \subseteq observed'[p][a]
    /\ journal[p][a] # "none" => journal'[p][a] = journal[p][a]
    /\ Running(h) /\ job[h] = a => effects'[a] = effects[a] /\ journal'[p][a] = journal[p][a]

\* A waiting handler still knows what it knew.
LEMMA WaitsKnows ==
  ASSUME NEW h \in Handlers, Knows(h), Waits(h), TablesKeep, Undisturbed(h)
  PROVE  Knows(h)'
<1>0. ProcessOf[h] \in Processes
  BY EdgeAssumption
<1>1. CASE pc[h] = "idle"
  BY <1>1 DEF Knows, Waits, Running
<1>2. CASE pc[h] = "classify"
  BY <1>2 DEF Knows, Waits, Running, ReadIsPast, TablesKeep, Open
<1>3. CASE pc[h] \notin {"idle", "classify"}
  <2>1. job[h] \in Actions
    BY <1>3 DEF Knows
  <2> QED
    BY <1>0, <1>3, <2>1 DEF Knows, Waits, Running, NotJournaled, TablesKeep, Undisturbed
<1> QED
  BY <1>1, <1>2, <1>3

\* What is settled stays settled.
LEMMA SettledStays ==
  ASSUME NEW a \in Actions, Settled(a), TablesKeep,
         \A p \in Processes : observed[p][a] \subseteq observed'[p][a]
  PROVE  Settled(a)'
  BY DEF Settled, TablesKeep

\* A step that acks nothing new, or only what is settled.
AcksAreSettled ==
  \A a \in Actions : ~unacked'[a] /\ a \notin yielded' =>
    (~unacked[a] /\ a \notin yielded) \/ Settled(a)'

\* The step of one handler, or of none when h is waiting too.
LEMMA StepInv ==
  ASSUME NEW h \in Handlers, EdgeInv, StoreInv', TypeOK', WorldIsTrue', TablesKeep, LateIsJournaled',
         AcksAreSettled, \A i \in Handlers \ {h} : Waits(i) /\ Undisturbed(i), Knows(h)',
         \A a \in Actions, p \in Processes : observed[p][a] \subseteq observed'[p][a],
         Running(h)' => \A i \in Handlers \ {h} : ~(Running(i) /\ job[i] = job'[h])
  PROVE  EdgeInv'
<1>1. \A i \in Handlers : Knows(i)'
  BY WaitsKnows DEF EdgeInv
<1>2. OneRunner'
  BY DEF EdgeInv, OneRunner, Waits, Running
<1>3. AckedIsSettled'
  BY SettledStays DEF EdgeInv, AckedIsSettled, AcksAreSettled
<1> QED
  BY <1>1, <1>2, <1>3 DEF EdgeInv

\* A step no handler takes.
LEMMA OutsideInv ==
  ASSUME EdgeInv, TypeOK', TableMove, LateIsJournaled', AcksAreSettled,
         UNCHANGED <<pc, job, seen, found, at, deferred, journal, observed, effects>>
  PROVE  EdgeInv'
<1>1. StoreInv' /\ TablesKeep /\ WorldIsTrue'
  BY MoveKeeps, MoveWorld
<1>2. \A i \in Handlers : Waits(i) /\ Undisturbed(i)
  BY DEF Waits, Undisturbed
<1>3. \A i \in Handlers : Knows(i)'
  BY <1>1, <1>2, WaitsKnows DEF EdgeInv
<1>4. OneRunner'
  BY DEF EdgeInv, OneRunner, Running
<1>5. AckedIsSettled'
  BY <1>1, SettledStays DEF EdgeInv, AckedIsSettled, AcksAreSettled
<1> QED
  BY <1>1, <1>3, <1>4, <1>5 DEF EdgeInv
-----------------------------------------------------------------------------
(* How a handler goes on.                                                  *)

\* The parts of TypeOK that handlers write, and the rest without the tables.
LocalTypeOK ==
  /\ pc \in [Handlers -> Steps]
  /\ job \in [Handlers -> Actions \cup {NoAction}]
  /\ seen \in [Handlers -> Statuses \cup {"absent"}]
  /\ found \in [Handlers -> {"none"} \cup ReceiptStatuses]
  /\ at \in [Handlers -> 1..(NeedCount + 1)]
  /\ deferred \in [Handlers -> BOOLEAN]
  /\ inflight \in [Processes -> SUBSET Actions]
  /\ blocked \subseteq Handlers

StreamTypeOK ==
  /\ unacked \in [Actions -> BOOLEAN]
  /\ queue \in [Processes -> Seq(Actions)]
  /\ \A p \in Processes : Len(queue[p]) <= QueueBound
  /\ rotating \in [Processes -> SUBSET Actions]
  /\ late \subseteq Actions \X Methods
  /\ yielded \subseteq Actions

RecordTypeOK ==
  /\ journal \in [Processes -> [Actions -> {"none"} \cup ReceiptStatuses]]
  /\ observed \in [Processes -> [Actions -> SUBSET Needs]]
  /\ effects \in [Actions -> Nat]

BoundTypeOK ==
  /\ faults \in 0..MaxFaults /\ rotations \in 0..MaxRotations
  /\ duplicates \in 0..MaxDuplicates

\* The type invariant, in the parts that the steps use.
LEMMA TypeParts ==
  /\ TypeOK <=> StoreTypeOK /\ LocalTypeOK /\ StreamTypeOK /\ RecordTypeOK /\ BoundTypeOK
  /\ EdgeInv => LocalTypeOK /\ StreamTypeOK /\ RecordTypeOK /\ BoundTypeOK
  BY DEF EdgeInv, TypeOK, LocalTypeOK, StreamTypeOK, RecordTypeOK, BoundTypeOK

\* The bounds of the queues, in the form that the steps use.
LEMMA BoundsHold ==
  ASSUME EdgeInv, NoFault \/ Fault
  PROVE  BoundTypeOK'
  BY TypeParts, EdgeAssumption DEF NoFault, Fault, boundVars, BoundTypeOK

\* A step of a handler that leaves journals and effects alone.
LEMMA HandlerInv ==
  ASSUME NEW h \in Handlers, EdgeInv, TableMove, UNCHANGED <<effects, journal, observed>>,
         NoFault \/ Fault, LocalTypeOK', StreamTypeOK', LateIsJournaled', AcksAreSettled,
         \A i \in Handlers \ {h} : Waits(i), Knows(h)',
         Running(h)' => \A i \in Handlers \ {h} : ~(Running(i) /\ job[i] = job'[h])
  PROVE  EdgeInv'
<1>1. StoreInv' /\ TablesKeep /\ WorldIsTrue'
  BY MoveKeeps, MoveWorld
<1>2. TypeOK'
  <2>1. RecordTypeOK' /\ StoreTypeOK'
    BY <1>1, TypeParts DEF RecordTypeOK, StoreInv
  <2> QED
    BY <2>1, BoundsHold, TypeParts DEF TypeOK, LocalTypeOK, StreamTypeOK, RecordTypeOK, BoundTypeOK
<1>3. /\ \A i \in Handlers \ {h} : Undisturbed(i)
      /\ \A a \in Actions, p \in Processes : observed[p][a] \subseteq observed'[p][a]
  BY DEF Undisturbed
<1> QED
  BY <1>1, <1>2, <1>3, StepInv

\* A return leaves the handler without a job.
LEMMA ReturnLocal ==
  ASSUME NEW h \in Handlers, EdgeInv, Return(h)
  PROVE  /\ LocalTypeOK' /\ Knows(h)' /\ ~Running(h)'
         /\ \A i \in Handlers \ {h} : Waits(i)
<1>1. LocalTypeOK
  BY TypeParts
<1>2. /\ pc' = [pc EXCEPT ![h] = "idle"]
      /\ job' = [job EXCEPT ![h] = NoAction]
      /\ seen' = [seen EXCEPT ![h] = "absent"]
      /\ found' = [found EXCEPT ![h] = "none"]
      /\ at' = [at EXCEPT ![h] = 1]
      /\ deferred' = [deferred EXCEPT ![h] = FALSE]
  BY DEF Return
<1>3. inflight' \in [Processes -> SUBSET Actions] /\ blocked' \subseteq Handlers
  BY <1>1 DEF Return, LocalTypeOK
<1>4. LocalTypeOK'
  <2>1. at' \in [Handlers -> 1..(NeedCount + 1)]
    BY <1>1, <1>2, EdgeAssumption DEF LocalTypeOK
  <2> QED
    BY <1>1, <1>2, <1>3, <2>1 DEF LocalTypeOK, Steps
<1>5. Knows(h)' /\ ~Running(h)'
  BY <1>1, <1>2 DEF LocalTypeOK, Knows, Running
<1>6. \A i \in Handlers \ {h} : Waits(i)
  BY <1>1, <1>2 DEF LocalTypeOK, Waits
<1> QED
  BY <1>4, <1>5, <1>6

\* An attempt that yields, naks, or acks what is settled.
LEMMA ReturnInv ==
  ASSUME NEW h \in Handlers, EdgeInv, pc[h] # "idle", TableMove, NoFault \/ Fault,
         Yield(h) \/ Nak(h) \/ (Ack(h) /\ \A a \in Actions : a = job[h] => Settled(a)'),
         UNCHANGED <<queue, rotating, effects, journal, observed>>,
         late' \subseteq Actions \X Methods, LateIsJournaled'
  PROVE  EdgeInv'
<1>1. Return(h)
  BY DEF Yield, Nak, Ack, Acks
<1>2. job[h] \in Actions /\ StreamTypeOK
  BY TypeParts DEF EdgeInv, Knows
<1>3. StreamTypeOK'
  BY <1>2 DEF Yield, Nak, Ack, Acks, StreamTypeOK
<1>4. AcksAreSettled
  BY <1>2 DEF Yield, Nak, Ack, Acks, StreamTypeOK, AcksAreSettled
<1> QED
  BY <1>1, <1>3, <1>4, ReturnLocal, HandlerInv

\* A handler that goes on to a step that does not run the connector.
LEMMA GoesOn ==
  ASSUME NEW h \in Handlers, EdgeInv, pc[h] # "idle", TableMove, NoFault \/ Fault,
         UNCHANGED <<unacked, job, seen, yielded, queue, rotating, late, effects, journal, observed>>,
         LocalTypeOK', \A i \in Handlers \ {h} : Waits(i), Knows(h)', ~Running(h)'
  PROVE  EdgeInv'
<1>1. StreamTypeOK'
  BY TypeParts DEF StreamTypeOK
<1>2. LateIsJournaled'
  BY DEF EdgeInv, LateIsJournaled
<1>3. AcksAreSettled
  BY DEF AcksAreSettled
<1> QED
  BY <1>1, <1>2, <1>3, HandlerInv
-----------------------------------------------------------------------------
(* The steps.                                                              *)

\* A handler that goes on with its receipt and its loop as they are.
LEMMA GotoLocal ==
  ASSUME NEW h \in Handlers, NEW step \in Steps, EdgeInv, pc' = [pc EXCEPT ![h] = step],
         UNCHANGED <<job, seen, found, at, deferred, blocked>>, inflight' \in [Processes -> SUBSET Actions]
  PROVE  LocalTypeOK' /\ pc'[h] = step /\ \A i \in Handlers \ {h} : Waits(i)
<1>1. LocalTypeOK
  BY TypeParts
<1> QED
  BY <1>1 DEF LocalTypeOK, Waits

\* The calls that cannot change the tables: a branch, a resolver, a journal read.
LEMMA ClassifyInv ==
  ASSUME NEW h \in Handlers, EdgeInv, Classify(h)
  PROVE  EdgeInv' /\ TableMove /\ UNCHANGED effects
<1>1. /\ pc[h] = "classify" /\ TableMove /\ NoFault
      /\ UNCHANGED <<queue, rotating, effects, journal, observed, late>>
  BY DEF Classify, TableMove, journalVars
<1>2. /\ job[h] \in Actions /\ at[h] = 1 /\ ReadIsPast(h) /\ inflight \in [Processes -> SUBSET Actions]
      /\ ProcessOf[h] \in Processes
  BY <1>1, EdgeAssumption DEF EdgeInv, Knows, TypeOK
<1>3. late' \subseteq Actions \X Methods /\ LateIsJournaled'
  BY <1>1 DEF EdgeInv, TypeOK, LateIsJournaled
<1>4. UNCHANGED storeVars
  BY DEF Classify
<1>5. CASE Yield(h)
  BY <1>1, <1>3, <1>5, ReturnInv
<1>6. CASE seen[h] \notin {"dispatched", "succeeded", "executing"} /\ Ack(h)
  <2>1. \A a \in Actions : a = job[h] => Settled(a)'
    BY <1>2, <1>4, <1>6 DEF ReadIsPast, Settled, Landed, Open, storeVars
  <2> QED
    BY <1>1, <1>3, <1>6, <2>1, ReturnInv
<1>7. ASSUME NEW step \in {"resolve", "observe", "load"}, pc' = [pc EXCEPT ![h] = step],
             UNCHANGED <<unacked, job, seen, found, at, deferred, blocked, yielded>>,
             inflight' \in [Processes -> SUBSET Actions],
             step = "observe" => seen[h] = "succeeded", step = "load" => seen[h] = "executing"
      PROVE  EdgeInv'
  <2>1. step \in Steps
    BY DEF Steps
  <2>2. LocalTypeOK' /\ pc'[h] = step /\ \A i \in Handlers \ {h} : Waits(i)
    BY <1>7, <2>1, GotoLocal
  <2>3. Knows(h)' /\ ~Running(h)'
    <3>1. /\ job'[h] = job[h] /\ at'[h] = 1 /\ UNCHANGED status
      BY <1>2, <1>4, <1>7 DEF storeVars
    <3>2. step = "observe" => status[job[h]] = "succeeded"
      BY <1>2, <1>7 DEF ReadIsPast
    <3>3. step = "load" => status[job[h]] # "dispatched"
      BY <1>2, <1>7 DEF ReadIsPast
    <3>4. \A n \in Needs \ Detached : ~(n < 1)
      BY EdgeAssumption DEF Needs
    <3> QED
      BY <1>2, <2>2, <3>1, <3>2, <3>3, <3>4 DEF Knows, Running
  <2> QED
    BY <1>1, <1>7, <2>2, <2>3, GoesOn
<1>8. CASE (seen[h] = "dispatched" /\ Acquire(h, "resolve")) \/ (seen[h] = "succeeded" /\ Acquire(h, "observe"))
  <2>1. inflight' \in [Processes -> SUBSET Actions]
    BY <1>2, <1>8 DEF Acquire
  <2> QED
    BY <1>1, <1>7, <1>8, <2>1 DEF Acquire
<1>9. CASE seen[h] = "executing" /\ Goto(h, "load")
  BY <1>1, <1>2, <1>7, <1>9 DEF Goto
<1> QED
  BY <1>1, <1>5, <1>6, <1>8, <1>9 DEF Classify

\* The resolver.
LEMMA ResolveInv ==
  ASSUME NEW h \in Handlers, EdgeInv, Resolve(h)
  PROVE  EdgeInv' /\ TableMove /\ UNCHANGED effects
<1>1. /\ pc[h] = "resolve" /\ TableMove /\ NoFault
      /\ UNCHANGED <<queue, rotating, effects, journal, observed, late>>
  BY DEF Resolve, TableMove, journalVars
<1>2. job[h] \in Actions /\ at[h] = 1 /\ inflight \in [Processes -> SUBSET Actions]
  BY <1>1 DEF EdgeInv, Knows, TypeOK
<1>3. late' \subseteq Actions \X Methods /\ LateIsJournaled'
  BY <1>1 DEF EdgeInv, TypeOK, LateIsJournaled
<1>4. CASE Yield(h)
  BY <1>1, <1>3, <1>4, ReturnInv
<1>5. CASE Goto(h, "barrier")
  <2>1. LocalTypeOK' /\ pc'[h] = "barrier" /\ \A i \in Handlers \ {h} : Waits(i)
    BY <1>2, <1>5, GotoLocal DEF Goto, Steps
  <2>2. Knows(h)' /\ ~Running(h)'
    BY <1>2, <1>5, <2>1 DEF Goto, Knows, Running
  <2> QED
    BY <1>1, <1>5, <2>1, <2>2, GoesOn DEF Goto
<1> QED
  BY <1>1, <1>4, <1>5 DEF Resolve
\* Serving a request is a step of the tables.
LEMMA ServeMoves ==
  ASSUME NEW a \in Actions, NEW m \in Methods, EdgeInv, Serve(a, m),
         m \in ReceiptStatuses => \E p \in Processes : journal[p][a] = m
  PROVE  TableMove /\ (m = "mark_result_unknown" => status'[a] = "result_unknown")
                   /\ (m = "mark_executing" => status[a] = "dispatched" /\ status'[a] = "executing")
                   /\ (m \in ReceiptStatuses => status'[a] = m)
<1>1. status \in [Actions -> Statuses \cup {"absent"}]
  BY DEF EdgeInv, StoreInv, StoreTypeOK
<1>2. CASE m = "mark_executing" /\ StoreTransition(a, "dispatched", "executing")
  <2>1. "dispatched" \in Statuses /\ "executing" \in PlainTargets
    BY DEF Statuses, PlainTargets
  <2>2. TableMove
    BY <1>2, <2>1 DEF TableMove
  <2> QED
    BY <1>1, <1>2, <2>2 DEF StoreTransition, TransitionAccepted, ReceiptStatuses
<1>3. CASE m = "mark_result_unknown" /\ StoreTransition(a, status[a], "result_unknown")
  <2>1. status[a] \in Statuses /\ "result_unknown" \in PlainTargets
    BY <1>3 DEF StoreTransition, TransitionAccepted, UpdateAllowed, canTransition, PlainTargets
  <2>2. TableMove
    BY <1>3, <2>1 DEF TableMove
  <2> QED
    BY <1>1, <1>3, <2>2 DEF StoreTransition, ReceiptStatuses
<1>4. CASE m \in ReceiptStatuses /\ Ingestible(a, m) /\ IngestResult(a, DispatchRef[a], m)
  <2>1. TableMove
    BY <1>4 DEF TableMove
  <2> QED
    BY <1>1, <1>4, <2>1 DEF IngestResult, ReceiptStatuses
<1> QED
  BY <1>2, <1>3, <1>4 DEF Serve

\* The one handler that wins the barrier is alone behind it.
LEMMA BarrierInv ==
  ASSUME NEW h \in Handlers, EdgeInv, Barrier(h)
  PROVE  EdgeInv' /\ TableMove /\ UNCHANGED effects
<1>0. PICK a : a = job[h]
  OBVIOUS
<1>1. /\ pc[h] = "barrier" /\ NoFault
      /\ UNCHANGED <<queue, rotating, effects, journal, observed, late>>
  BY DEF Barrier, journalVars
<1>2. a \in Actions /\ at[h] = 1 /\ inflight \in [Processes -> SUBSET Actions]
  BY <1>0, <1>1 DEF EdgeInv, Knows, TypeOK
<1>3. late' \subseteq Actions \X Methods /\ LateIsJournaled'
  BY <1>1 DEF EdgeInv, TypeOK, LateIsJournaled
<1>4. CASE Yield(h) /\ UNCHANGED storeVars
  <2>1. TableMove
    BY <1>4 DEF TableMove
  <2> QED
    BY <1>1, <1>3, <1>4, <2>1, ReturnInv
<1>5. CASE Serve(a, "mark_executing") /\ Goto(h, "run")
  <2>1. "mark_executing" \in Methods /\ "mark_executing" \notin ReceiptStatuses
    BY DEF Methods, ReceiptStatuses
  <2>2. TableMove /\ status[a] = "dispatched" /\ status'[a] = "executing"
    BY <1>2, <1>5, <2>1, ServeMoves
  <2>3. LocalTypeOK' /\ pc'[h] = "run" /\ \A i \in Handlers \ {h} : Waits(i)
    BY <1>2, <1>5, GotoLocal DEF Goto, Steps
  <2>4. effects[a] = 0 /\ NotJournaled(a)
    BY <1>2, <2>2 DEF EdgeInv, WorldIsTrue, ActionIsTrue
  <2>5. Knows(h)'
    <3>1. job'[h] = a /\ at'[h] = 1
      BY <1>0, <1>2, <1>5 DEF Goto
    <3>2. NotJournaled(job[h])'
      BY <1>1, <2>4, <3>1 DEF NotJournaled
    <3> QED
      BY <1>1, <1>2, <2>2, <2>3, <2>4, <3>1, <3>2 DEF Knows
  <2>6. \A i \in Handlers \ {h} : ~(Running(i) /\ job[i] = job'[h])
    BY <1>0, <1>5, <2>2 DEF EdgeInv, Knows, Running, Goto
  <2>7. StreamTypeOK'
    BY <1>1, <1>3, <1>5, TypeParts DEF StreamTypeOK, Goto
  <2>8. AcksAreSettled
    BY <1>5 DEF Goto, AcksAreSettled
  <2> QED
    BY <1>1, <1>3, <2>2, <2>3, <2>5, <2>6, <2>7, <2>8, HandlerInv
<1> QED
  BY <1>0, <1>4, <1>5 DEF Barrier

\* A receipt is applied: it is the one the handler's journal holds.
LEMMA IngestInv ==
  ASSUME NEW h \in Handlers, EdgeInv, Ingest(h)
  PROVE  EdgeInv' /\ TableMove /\ UNCHANGED effects
<1>0. PICK a : a = job[h]
  OBVIOUS
<1>1. /\ pc[h] = "ingest" /\ NoFault
      /\ UNCHANGED <<queue, rotating, effects, journal, observed, late>>
  BY DEF Ingest, journalVars
<1>2. /\ a \in Actions /\ at[h] = 1 /\ inflight \in [Processes -> SUBSET Actions]
      /\ found[h] \in ReceiptStatuses /\ journal[ProcessOf[h]][a] = found[h]
      /\ ProcessOf[h] \in Processes
  BY <1>0, <1>1, EdgeAssumption DEF EdgeInv, Knows, TypeOK
<1>3. late' \subseteq Actions \X Methods /\ LateIsJournaled'
  BY <1>1 DEF EdgeInv, TypeOK, LateIsJournaled
<1>4. CASE Yield(h) /\ UNCHANGED storeVars
  <2>1. TableMove
    BY <1>4 DEF TableMove
  <2> QED
    BY <1>1, <1>3, <1>4, <2>1, ReturnInv
<1>5. ASSUME TableMove, NEW final \in ReceiptStatuses, status'[a] = final, AfterIngest(h, final)
      PROVE  EdgeInv'
  <2>1. CASE final = "succeeded"
    <3>1. Goto(h, "observe")
      BY <1>5, <2>1 DEF AfterIngest
    <3>2. LocalTypeOK' /\ pc'[h] = "observe" /\ \A i \in Handlers \ {h} : Waits(i)
      BY <1>2, <3>1, GotoLocal DEF Goto, Steps
    <3>3. \A n \in Needs \ Detached : ~(n < 1)
      BY EdgeAssumption DEF Needs
    <3>4. Knows(h)' /\ ~Running(h)'
      BY <1>0, <1>2, <1>5, <2>1, <3>1, <3>2, <3>3 DEF Goto, Knows, Running
    <3> QED
      BY <1>1, <1>5, <3>1, <3>2, <3>4, GoesOn DEF Goto
  <2>2. CASE final # "succeeded"
    <3>1. Ack(h) /\ final = "failed"
      BY <1>5, <2>2 DEF AfterIngest, ReceiptStatuses
    <3>2. \A b \in Actions : b = job[h] => Settled(b)'
      BY <1>0, <1>5, <3>1 DEF Settled, Landed, Open
    <3> QED
      BY <1>1, <1>3, <1>5, <3>1, <3>2, ReturnInv
  <2> QED
    BY <2>1, <2>2
<1>6. CASE Serve(a, found[h]) /\ AfterIngest(h, found[h])
  <2>1. TableMove /\ status'[a] = found[h]
    BY <1>2, <1>6, ServeMoves DEF Methods
  <2> QED
    BY <1>1, <1>2, <1>5, <1>6, <2>1
<1>7. CASE Duplicate(a) /\ AfterIngest(h, status[a]) /\ UNCHANGED storeVars
  <2>1. TableMove /\ status[a] \in ReceiptStatuses /\ status'[a] = status[a]
    BY <1>7 DEF TableMove, Duplicate, storeVars
  <2> QED
    BY <1>1, <1>5, <1>7, <2>1
<1> QED
  BY <1>0, <1>4, <1>6, <1>7, <1>1 DEF Ingest, TableMove
\* The outcome is unknown: the action leaves the agent's hands.
LEMMA FlagInv ==
  ASSUME NEW h \in Handlers, EdgeInv, Flag(h)
  PROVE  EdgeInv' /\ TableMove /\ UNCHANGED effects
<1>0. PICK a : a = job[h]
  OBVIOUS
<1>1. /\ pc[h] = "flag" /\ NoFault
      /\ UNCHANGED <<queue, rotating, effects, journal, observed, late>>
  BY DEF Flag, journalVars
<1>2. a \in Actions
  BY <1>0, <1>1 DEF EdgeInv, Knows
<1>3. late' \subseteq Actions \X Methods /\ LateIsJournaled'
  BY <1>1 DEF EdgeInv, TypeOK, LateIsJournaled
<1>4. CASE Yield(h) /\ UNCHANGED storeVars
  <2>1. TableMove
    BY <1>4 DEF TableMove
  <2> QED
    BY <1>1, <1>3, <1>4, <2>1, ReturnInv
<1>5. CASE Serve(a, "mark_result_unknown") /\ Ack(h)
  <2>1. "mark_result_unknown" \in Methods /\ "mark_result_unknown" \notin ReceiptStatuses
    BY DEF Methods, ReceiptStatuses
  <2>2. TableMove /\ status'[a] = "result_unknown"
    BY <1>2, <1>5, <2>1, ServeMoves
  <2>3. \A b \in Actions : b = job[h] => Settled(b)'
    BY <1>0, <2>2 DEF Settled, Landed, Open
  <2> QED
    BY <1>1, <1>3, <1>5, <2>2, <2>3, ReturnInv
<1> QED
  BY <1>0, <1>4, <1>5 DEF Flag

\* A resumed action is applied with what its journal holds.
LEMMA LoadReceiptInv ==
  ASSUME NEW h \in Handlers, EdgeInv, LoadReceipt(h)
  PROVE  EdgeInv' /\ TableMove /\ UNCHANGED effects
<1>1. /\ pc[h] = "load" /\ NoFault /\ UNCHANGED storeVars
      /\ UNCHANGED <<queue, rotating, effects, journal, observed, late>>
  BY DEF LoadReceipt, journalVars
<1>2. /\ job[h] \in Actions /\ at[h] = 1 /\ status[job[h]] # "dispatched"
      /\ ProcessOf[h] \in Processes
      /\ journal[ProcessOf[h]][job[h]] \in {"none"} \cup ReceiptStatuses
  <2>1. job[h] \in Actions /\ at[h] = 1 /\ status[job[h]] # "dispatched" /\ ProcessOf[h] \in Processes
    BY <1>1, EdgeAssumption DEF EdgeInv, Knows
  <2> QED
    BY <2>1, TypeParts DEF RecordTypeOK
<1>3. TableMove /\ UNCHANGED status
  BY <1>1 DEF TableMove, storeVars
<1>4. CASE Goto(h, "flag")
  <2>1. LocalTypeOK' /\ pc'[h] = "flag" /\ \A i \in Handlers \ {h} : Waits(i)
    BY <1>4, GotoLocal, TypeParts DEF Goto, Steps, LocalTypeOK
  <2>2. Knows(h)' /\ ~Running(h)'
    BY <1>2, <1>3, <1>4, <2>1 DEF Goto, Knows, Running
  <2> QED
    BY <1>1, <1>3, <1>4, <2>1, <2>2, GoesOn DEF Goto
<1>5. CASE /\ journal[ProcessOf[h]][job[h]] # "none"
           /\ WithReceipt(h, journal[ProcessOf[h]][job[h]], "ingest")
  <2>1. LocalTypeOK' /\ pc'[h] = "ingest" /\ \A i \in Handlers \ {h} : Waits(i)
    BY <1>2, <1>5, TypeParts DEF WithReceipt, LocalTypeOK, Waits, Steps
  <2>2. found'[h] = journal[ProcessOf[h]][job[h]]
    BY <1>5, TypeParts DEF WithReceipt, LocalTypeOK
  <2>3. Knows(h)' /\ ~Running(h)'
    BY <1>1, <1>2, <1>3, <1>5, <2>1, <2>2 DEF WithReceipt, Knows, Running
  <2> QED
    BY <1>1, <1>3, <1>5, <2>1, <2>3, GoesOn DEF WithReceipt
<1> QED
  BY <1>1, <1>3, <1>4, <1>5 DEF LoadReceipt

\* What a step of the runner leaves to the others.
LEMMA OthersUndisturbed ==
  ASSUME NEW h \in Handlers, EdgeInv, Running(h),
         \A a \in Actions : a # job[h] =>
           effects'[a] = effects[a] /\ \A p \in Processes : journal'[p][a] = journal[p][a],
         \A a \in Actions, p \in Processes : journal[p][a] # "none" => journal'[p][a] = journal[p][a],
         UNCHANGED observed
  PROVE  \A i \in Handlers \ {h} : Undisturbed(i)
  BY DEF EdgeInv, OneRunner, Undisturbed

\* The connector runs: once, and only for the handler behind the barrier.
LEMMA RunInv ==
  ASSUME NEW h \in Handlers, EdgeInv, Run(h)
  PROVE  EdgeInv'
<1>0. PICK a : a = job[h]
  OBVIOUS
<1>1. /\ pc[h] = "run" /\ NoFault /\ UNCHANGED <<storeVars, queue, rotating, journal, observed, late>>
  BY DEF Run, journalVars
<1>2. PICK ran \in BOOLEAN, outcome \in ReceiptStatuses \cup {"uncertain"} :
        /\ outcome = "succeeded" => ran
        /\ effects' = IF ran THEN [effects EXCEPT ![a] = @ + 1] ELSE effects
        /\ IF outcome = "uncertain" THEN Goto(h, "flag") ELSE WithReceipt(h, outcome, "record")
  BY <1>0 DEF Run
<1>3. /\ a \in Actions /\ at[h] = 1 /\ effects[a] = 0 /\ NotJournaled(a) /\ status[a] # "dispatched"
      /\ effects \in [Actions -> Nat] /\ Running(h)
  BY <1>0, <1>1 DEF EdgeInv, Knows, TypeOK, Running
<1>4. /\ \A b \in Actions : b # a => effects'[b] = effects[b]
      /\ effects' \in [Actions -> Nat] /\ effects'[a] \in {0, 1} /\ (ran => effects'[a] = 1)
  BY <1>2, <1>3
<1>5. TableMove /\ UNCHANGED <<status, receipt>>
  BY <1>1 DEF TableMove, storeVars
<1>6. StoreInv' /\ TablesKeep
  BY <1>5, MoveKeeps
<1>7. WorldIsTrue'
  <2>1. status[a] # "succeeded"
    BY <1>3 DEF EdgeInv, WorldIsTrue, ActionIsTrue
  <2>2. \A b \in Actions : ActionIsTrue(b)'
    BY <1>1, <1>3, <1>4, <1>5, <2>1 DEF EdgeInv, WorldIsTrue, ActionIsTrue, NotJournaled
  <2>3. AppliedReceiptIsJournaled'
    BY <1>1, <1>5 DEF EdgeInv, WorldIsTrue, AppliedReceiptIsJournaled
  <2>4. JournalIsTrue'
    BY <1>1, <1>3, <1>4, <1>5 DEF EdgeInv, WorldIsTrue, JournalIsTrue, NotJournaled
  <2> QED
    BY <2>2, <2>3, <2>4 DEF WorldIsTrue
<1>8. /\ UNCHANGED <<unacked, job, seen, at, deferred, inflight, blocked, yielded>>
      /\ LocalTypeOK' /\ \A i \in Handlers \ {h} : Waits(i)
  <2>1. CASE outcome = "uncertain"
    BY <1>2, <2>1, TypeParts DEF Goto, LocalTypeOK, Waits, Steps
  <2>2. CASE outcome # "uncertain"
    BY <1>2, <2>2, TypeParts DEF WithReceipt, LocalTypeOK, Waits, Steps
  <2> QED
    BY <2>1, <2>2
<1>9. TypeOK'
  <2>1. RecordTypeOK' /\ StreamTypeOK' /\ StoreTypeOK'
    BY <1>1, <1>4, <1>6, <1>8, TypeParts DEF RecordTypeOK, StreamTypeOK, StoreInv
  <2> QED
    BY <1>1, <1>8, <2>1, BoundsHold, TypeParts
         DEF TypeOK, LocalTypeOK, StreamTypeOK, RecordTypeOK, BoundTypeOK
<1>10. Knows(h)'
  <2>1. /\ job'[h] = a /\ at'[h] = 1 /\ status' = status
        /\ NotJournaled(job[h])'
    BY <1>0, <1>1, <1>3, <1>5, <1>8 DEF NotJournaled
  <2>2. CASE outcome = "uncertain"
    <3>1. pc'[h] = "flag"
      BY <1>2, <2>2, TypeParts DEF Goto, LocalTypeOK
    <3> QED
      BY <1>3, <2>1, <3>1 DEF Knows, Running
  <2>3. CASE outcome # "uncertain"
    <3>1. pc'[h] = "record" /\ found'[h] = outcome /\ outcome # "none"
      BY <1>2, <2>3, TypeParts DEF WithReceipt, LocalTypeOK, ReceiptStatuses
    <3> QED
      BY <1>2, <1>3, <1>4, <2>1, <3>1 DEF Knows, Running
  <2> QED
    BY <2>2, <2>3
<1>11. \A i \in Handlers \ {h} : Undisturbed(i)
  BY <1>0, <1>1, <1>3, <1>4, OthersUndisturbed
<1>12. \A i \in Handlers \ {h} : ~(Running(i) /\ job[i] = job'[h])
  BY <1>0, <1>3, <1>8 DEF EdgeInv, OneRunner
<1>13. LateIsJournaled' /\ AcksAreSettled /\ \A b \in Actions, p \in Processes : observed[p][b] \subseteq observed'[p][b]
  BY <1>1, <1>8 DEF EdgeInv, LateIsJournaled, AcksAreSettled
<1> QED
  BY <1>6, <1>7, <1>8, <1>9, <1>10, <1>11, <1>12, <1>13, StepInv
\* The journal is written by the runner, and was empty until then.
LEMMA JournalWritten ==
  ASSUME NEW h \in Handlers, EdgeInv, pc[h] = "record", UNCHANGED <<storeVars, effects, observed>>,
         \/ UNCHANGED journal
         \/ journal' = [journal EXCEPT ![ProcessOf[h]][job[h]] = found[h]]
  PROVE  /\ StoreInv' /\ TablesKeep /\ WorldIsTrue' /\ RecordTypeOK' /\ TableMove
         /\ \A i \in Handlers \ {h} : Undisturbed(i)
         /\ \A a \in Actions, p \in Processes : journal[p][a] # "none" => journal'[p][a] = journal[p][a]
<1>0. PICK a, q : a = job[h] /\ q = ProcessOf[h]
  OBVIOUS
<1>1. /\ a \in Actions /\ q \in Processes /\ NotJournaled(a) /\ Running(h) /\ status[a] # "dispatched"
      /\ found[h] # "none" /\ (found[h] = "succeeded" => effects[a] = 1)
  BY <1>0, EdgeAssumption DEF EdgeInv, Knows, Running
<1>2. found[h] \in ReceiptStatuses /\ RecordTypeOK
  BY <1>1, TypeParts DEF LocalTypeOK
<1>3. RecordTypeOK'
  <2>1. CASE UNCHANGED journal
    BY <1>2, <2>1 DEF RecordTypeOK
  <2>2. CASE journal' = [journal EXCEPT ![q][a] = found[h]]
    BY <1>1, <1>2, <2>2 DEF RecordTypeOK
  <2> QED
    BY <1>0, <2>1, <2>2
<1>4. \A b \in Actions, p \in Processes :
        /\ journal[p][b] # "none" => journal'[p][b] = journal[p][b]
        /\ b # a => journal'[p][b] = journal[p][b]
        /\ journal'[p][b] = journal[p][b] \/ (b = a /\ journal'[p][b] = found[h])
  <2>1. CASE UNCHANGED journal
    BY <2>1
  <2>2. CASE journal' = [journal EXCEPT ![q][a] = found[h]]
    BY <1>1, <1>2, <2>2 DEF RecordTypeOK, NotJournaled
  <2> QED
    BY <1>0, <2>1, <2>2
<1>5. TableMove /\ UNCHANGED <<status, receipt>>
  BY DEF TableMove, storeVars
<1>6. StoreInv' /\ TablesKeep
  BY <1>5, MoveKeeps
<1>7. WorldIsTrue'
  <2>1. \A b \in Actions : ActionIsTrue(b)'
    BY <1>1, <1>4, <1>5 DEF EdgeInv, WorldIsTrue, ActionIsTrue, NotJournaled
  <2>2. AppliedReceiptIsJournaled'
    <3>1. SUFFICES ASSUME NEW b \in Actions, receipt[b] = DispatchRef[b]
                   PROVE  \E p \in Processes : journal'[p][b] = status[b]
      BY <1>5 DEF AppliedReceiptIsJournaled
    <3>2. PICK p \in Processes : journal[p][b] = status[b]
      BY <3>1 DEF EdgeInv, WorldIsTrue, AppliedReceiptIsJournaled
    <3>3. receipt[b] # NoResult
      BY <3>1, EdgeAssumption, StoreAssumption DEF ResultIds
    <3>4. status[b] # "none"
      BY <3>3 DEF EdgeInv, StoreInv, ResultAppliedOnce, ReceiptStatuses
    <3> QED
      BY <1>4, <3>2, <3>4
  <2>3. JournalIsTrue'
    BY <1>1, <1>4, <1>5 DEF EdgeInv, WorldIsTrue, JournalIsTrue
  <2> QED
    BY <2>1, <2>2, <2>3 DEF WorldIsTrue
<1>8. \A i \in Handlers \ {h} : Undisturbed(i)
  BY <1>0, <1>1, <1>4, OthersUndisturbed
<1> QED
  BY <1>3, <1>4, <1>5, <1>6, <1>7, <1>8

\* RecordReceipt, and its failure, durable or not.
LEMMA RecordInv ==
  ASSUME NEW h \in Handlers, EdgeInv, RecordReceipt(h) \/ RecordFails(h)
  PROVE  EdgeInv' /\ TableMove /\ UNCHANGED effects
<1>1. /\ pc[h] = "record"
      /\ UNCHANGED <<storeVars, effects, observed, queue, rotating, late>>
      /\ \/ UNCHANGED journal
         \/ journal' = [journal EXCEPT ![ProcessOf[h]][job[h]] = found[h]]
  BY DEF RecordReceipt, RecordFails
<1>2. /\ StoreInv' /\ TablesKeep /\ WorldIsTrue' /\ RecordTypeOK' /\ TableMove
      /\ \A i \in Handlers \ {h} : Undisturbed(i)
      /\ \A a \in Actions, p \in Processes : journal[p][a] # "none" => journal'[p][a] = journal[p][a]
  BY <1>1, JournalWritten
<1>3. LateIsJournaled'
  <2>1. SUFFICES ASSUME NEW a \in Actions, NEW m \in ReceiptStatuses, <<a, m>> \in late
                 PROVE  \E p \in Processes : journal'[p][a] = m
    BY <1>1 DEF LateIsJournaled
  <2>2. PICK p \in Processes : journal[p][a] = m
    BY <2>1 DEF EdgeInv, LateIsJournaled
  <2> QED
    BY <1>2, <2>2 DEF ReceiptStatuses
<1>4. /\ AcksAreSettled /\ UNCHANGED <<unacked, yielded>>
      /\ \A b \in Actions, p \in Processes : observed[p][b] \subseteq observed'[p][b]
  BY <1>1 DEF RecordReceipt, RecordFails, Goto, Nak, AcksAreSettled
<1>5. LocalTypeOK' /\ Knows(h)' /\ ~Running(h)' /\ \A i \in Handlers \ {h} : Waits(i)
  <2>1. CASE RecordFails(h)
    BY <2>1, ReturnLocal DEF RecordFails, Nak
  <2>2. CASE RecordReceipt(h)
    <3>1. Goto(h, "ingest") /\ journal' = [journal EXCEPT ![ProcessOf[h]][job[h]] = found[h]]
      BY <2>2 DEF RecordReceipt
    <3>2. LocalTypeOK' /\ pc'[h] = "ingest" /\ \A i \in Handlers \ {h} : Waits(i)
      BY <3>1, GotoLocal, TypeParts DEF Goto, Steps, LocalTypeOK
    <3>3. pc[h] = "record"
      BY <2>2 DEF RecordReceipt
    <3>4. job[h] \in Actions /\ ProcessOf[h] \in Processes /\ at[h] = 1 /\ found[h] # "none"
          /\ status[job[h]] # "dispatched"
      BY <3>3, EdgeAssumption DEF EdgeInv, Knows
    <3>5. journal'[ProcessOf[h]][job[h]] = found[h]
      BY <3>1, <3>4, TypeParts DEF RecordTypeOK
    <3>6. UNCHANGED status
      BY <1>1 DEF storeVars
    <3> QED
      BY <3>1, <3>2, <3>4, <3>5, <3>6 DEF Goto, Knows, Running
  <2> QED
    BY <2>1, <2>2
<1>6. TypeOK'
  <2>1. StreamTypeOK' /\ StoreTypeOK'
    BY <1>1, <1>2, <1>4, TypeParts DEF StreamTypeOK, StoreInv
  <2>2. BoundTypeOK'
    BY BoundsHold DEF RecordReceipt, RecordFails
  <2> QED
    BY <1>2, <1>5, <2>1, <2>2 DEF TypeOK, LocalTypeOK, StreamTypeOK, RecordTypeOK, BoundTypeOK
<1> QED
  BY <1>1, <1>2, <1>3, <1>4, <1>5, <1>6, StepInv
-----------------------------------------------------------------------------
(* Observations.                                                           *)

\* The loop goes on: the need before is journaled, detached or deferred.
LEMMA NextNeedKnows ==
  ASSUME NEW h \in Handlers, NEW failed \in BOOLEAN, EdgeInv, NextNeed(h, failed), UNCHANGED status,
         pc[h] \in {"observe", "produce"}, at[h] <= NeedCount,
         \A n \in Needs : n \in observed[ProcessOf[h]][job[h]] => n \in observed'[ProcessOf[h]][job[h]],
         failed \/ at[h] \in Detached \/ at[h] \in observed'[ProcessOf[h]][job[h]]
  PROVE  LocalTypeOK' /\ Knows(h)' /\ ~Running(h)' /\ \A i \in Handlers \ {h} : Waits(i)
<1>1. LocalTypeOK
  BY TypeParts
<1>2. /\ pc' = [pc EXCEPT ![h] = "observe"] /\ at' = [at EXCEPT ![h] = @ + 1]
      /\ deferred' = [deferred EXCEPT ![h] = @ \/ failed]
      /\ UNCHANGED <<job, seen, found, inflight, blocked>>
  BY DEF NextNeed
<1>3. at[h] \in 1..NeedCount /\ at'[h] = at[h] + 1 /\ NeedCount \in Nat
  BY <1>1, <1>2, EdgeAssumption DEF LocalTypeOK
<1>4. LocalTypeOK' /\ pc'[h] = "observe" /\ \A i \in Handlers \ {h} : Waits(i)
  <2>1. at' \in [Handlers -> 1..(NeedCount + 1)]
    BY <1>1, <1>2, <1>3 DEF LocalTypeOK
  <2>2. deferred' \in [Handlers -> BOOLEAN]
    BY <1>1, <1>2 DEF LocalTypeOK
  <2> QED
    BY <1>1, <1>2, <2>1, <2>2 DEF LocalTypeOK, Waits, Steps
<1>5. /\ job[h] \in Actions /\ status[job[h]] = "succeeded"
      /\ deferred[h] \/ \A n \in Needs \ Detached : n < at[h] => n \in observed[ProcessOf[h]][job[h]]
  BY DEF EdgeInv, Knows
<1>6. deferred'[h] \/ \A n \in Needs \ Detached : n < at'[h] => n \in observed'[ProcessOf[h]][job[h]]
  <2>1. CASE deferred[h] \/ failed
    BY <1>1, <1>2, <2>1 DEF LocalTypeOK
  <2>2. CASE ~deferred[h] /\ ~failed
    <3>1. SUFFICES ASSUME NEW n \in Needs \ Detached, n < at'[h]
                   PROVE  n \in observed'[ProcessOf[h]][job[h]]
      OBVIOUS
    <3>2. n < at[h] \/ n = at[h]
      BY <1>3, <3>1 DEF Needs
    <3> QED
      BY <1>5, <2>2, <3>2
  <2> QED
    BY <2>1, <2>2
<1>7. Knows(h)' /\ ~Running(h)'
  BY <1>2, <1>4, <1>5, <1>6 DEF Knows, Running
<1> QED
  BY <1>4, <1>7

\* The loop of driveObservations, and a need that fails.
LEMMA ObserveInv ==
  ASSUME NEW h \in Handlers, EdgeInv, Observe(h) \/ ObservationFails(h)
  PROVE  EdgeInv' /\ TableMove /\ UNCHANGED effects
<1>1. /\ pc[h] \in {"observe", "produce"} /\ UNCHANGED storeVars
      /\ UNCHANGED <<queue, rotating, effects, journal, observed, late>>
      /\ TableMove
  BY DEF Observe, ObservationFails, TableMove, journalVars
<1>2. NoFault \/ Fault
  BY DEF Observe, ObservationFails
<1>3. /\ job[h] \in Actions /\ status[job[h]] = "succeeded" /\ ProcessOf[h] \in Processes
      /\ deferred[h] \/ \A n \in Needs \ Detached : n < at[h] => n \in observed[ProcessOf[h]][job[h]]
  BY <1>1, EdgeAssumption DEF EdgeInv, Knows
<1>4. late' \subseteq Actions \X Methods /\ LateIsJournaled' /\ UNCHANGED status
  BY <1>1 DEF EdgeInv, TypeOK, LateIsJournaled, storeVars
<1>5. at[h] \in 1..(NeedCount + 1) /\ NeedCount \in Nat /\ observed[ProcessOf[h]][job[h]] \subseteq Needs
  BY <1>3, TypeParts, EdgeAssumption DEF LocalTypeOK, RecordTypeOK
<1>6. CASE Nak(h)
  BY <1>1, <1>2, <1>4, <1>6, ReturnInv
<1>7. CASE at[h] > NeedCount /\ ~deferred[h] /\ Ack(h)
  <2>1. \A n \in Needs : n < at[h]
    BY <1>5, <1>7 DEF Needs
  <2>2. Needs \ Detached \subseteq observed[ProcessOf[h]][job[h]]
    BY <1>3, <1>7, <2>1
  <2>3. \A a \in Actions : a = job[h] => Settled(a)'
    BY <1>1, <1>3, <1>4, <2>2 DEF Settled, Open
  <2> QED
    BY <1>1, <1>2, <1>4, <1>7, <2>3, ReturnInv
<1>8. ASSUME NEW failed \in BOOLEAN, NextNeed(h, failed), at[h] \in Needs,
             failed \/ at[h] \in observed[ProcessOf[h]][job[h]]
      PROVE  EdgeInv'
  <2>1. LocalTypeOK' /\ Knows(h)' /\ ~Running(h)' /\ \A i \in Handlers \ {h} : Waits(i)
    BY <1>1, <1>4, <1>5, <1>8, NextNeedKnows DEF Needs
  <2>2. UNCHANGED <<unacked, job, seen, yielded>>
    BY <1>8 DEF NextNeed
  <2> QED
    BY <1>1, <1>2, <2>1, <2>2, GoesOn
<1>9. CASE at[h] \in Needs /\ Goto(h, "produce") /\ pc[h] = "observe"
  <2>1. LocalTypeOK' /\ pc'[h] = "produce" /\ \A i \in Handlers \ {h} : Waits(i)
    BY <1>9, GotoLocal, TypeParts DEF Goto, Steps, LocalTypeOK
  <2>2. at[h] <= NeedCount
    BY <1>5, <1>9 DEF Needs
  <2>3. Knows(h)' /\ ~Running(h)'
    BY <1>1, <1>3, <1>4, <1>9, <2>1, <2>2 DEF Goto, Knows, Running
  <2> QED
    BY <1>1, <1>2, <1>9, <2>1, <2>3, GoesOn DEF Goto
<1>10. CASE Observe(h)
  BY <1>1, <1>5, <1>6, <1>7, <1>8, <1>9, <1>10 DEF Observe
<1>11. CASE ObservationFails(h)
  <2>1. NextNeed(h, TRUE) /\ at[h] <= NeedCount
    BY <1>11 DEF ObservationFails
  <2>2. at[h] \in Needs
    BY <1>5, <2>1 DEF Needs
  <2> QED
    BY <1>1, <1>8, <2>1, <2>2
<1> QED
  BY <1>10, <1>11

\* An observation is produced, and journaled unless the need is detached.
LEMMA ProduceInv ==
  ASSUME NEW h \in Handlers, EdgeInv, Produce(h)
  PROVE  EdgeInv' /\ TableMove /\ UNCHANGED effects
<1>0. PICK a, q : a = job[h] /\ q = ProcessOf[h]
  OBVIOUS
<1>1. /\ pc[h] = "produce" /\ UNCHANGED storeVars /\ NoFault /\ NextNeed(h, FALSE)
      /\ UNCHANGED <<queue, rotating, effects, journal, late>>
      /\ TableMove
  BY DEF Produce, TableMove
<1>2. /\ a \in Actions /\ status[a] = "succeeded" /\ q \in Processes /\ at[h] <= NeedCount
  BY <1>0, <1>1, EdgeAssumption DEF EdgeInv, Knows
<1>3. at[h] \in Needs /\ observed \in [Processes -> [Actions -> SUBSET Needs]]
  BY <1>2, TypeParts, EdgeAssumption DEF LocalTypeOK, RecordTypeOK, Needs
<1>4. \/ at[h] \in Detached /\ observed' = observed
      \/ observed' = [observed EXCEPT ![q][a] = @ \cup {at[h]}]
  BY <1>0 DEF Produce
<1>5. /\ observed' \in [Processes -> [Actions -> SUBSET Needs]]
      /\ \A b \in Actions, p \in Processes :
           observed[p][b] \subseteq observed'[p][b] /\ (b # a => observed'[p][b] = observed[p][b])
      /\ at[h] \in Detached \/ at[h] \in observed'[q][a]
  BY <1>2, <1>3, <1>4
<1>6. StoreInv' /\ TablesKeep /\ UNCHANGED <<status, receipt>>
  BY <1>1, MoveKeeps DEF storeVars
<1>7. WorldIsTrue'
  <2>1. (\A b \in Actions : ActionIsTrue(b)') /\ AppliedReceiptIsJournaled'
    BY <1>1, <1>6 DEF EdgeInv, WorldIsTrue, ActionIsTrue, NotJournaled, AppliedReceiptIsJournaled
  <2>2. JournalIsTrue'
    BY <1>1, <1>2, <1>5, <1>6 DEF EdgeInv, WorldIsTrue, JournalIsTrue
  <2> QED
    BY <2>1, <2>2 DEF WorldIsTrue
<1>8. LocalTypeOK' /\ Knows(h)' /\ ~Running(h)' /\ \A i \in Handlers \ {h} : Waits(i)
  <2>1. /\ \A n \in Needs : n \in observed[ProcessOf[h]][job[h]] => n \in observed'[ProcessOf[h]][job[h]]
        /\ FALSE \/ at[h] \in Detached \/ at[h] \in observed'[ProcessOf[h]][job[h]]
    BY <1>0, <1>2, <1>5
  <2> QED
    BY <1>1, <1>2, <1>6, <2>1, NextNeedKnows
<1>9. TypeOK'
  <2>1. StreamTypeOK' /\ StoreTypeOK' /\ RecordTypeOK'
    BY <1>1, <1>5, <1>6, TypeParts DEF StreamTypeOK, StoreInv, RecordTypeOK, NextNeed
  <2>2. BoundTypeOK'
    BY <1>1, BoundsHold
  <2> QED
    BY <1>8, <2>1, <2>2 DEF TypeOK, LocalTypeOK, StreamTypeOK, RecordTypeOK, BoundTypeOK
<1>10. \A i \in Handlers \ {h} : Undisturbed(i)
  BY <1>1, <1>5 DEF Undisturbed
<1>11. LateIsJournaled' /\ AcksAreSettled
  BY <1>1 DEF EdgeInv, LateIsJournaled, AcksAreSettled, NextNeed
<1> QED
  BY <1>1, <1>5, <1>6, <1>7, <1>8, <1>9, <1>10, <1>11, StepInv
-----------------------------------------------------------------------------
(* Failures, rotations, crashes and the environment.                       *)

\* What a call leaves behind in "late" was journaled before it was sent.
LEMMA SentWasJournaled ==
  ASSUME NEW h \in Handlers, NEW sent \in SUBSET Request(h), EdgeInv, pc[h] # "idle",
         late' = late \cup sent, UNCHANGED journal
  PROVE  late' \subseteq Actions \X Methods /\ LateIsJournaled'
<1>3. job[h] \in Actions /\ ProcessOf[h] \in Processes /\ found[h] \in {"none"} \cup ReceiptStatuses
  BY EdgeAssumption, TypeParts DEF EdgeInv, Knows, LocalTypeOK
<1>4. ASSUME NEW r \in Request(h)
      PROVE  \E m \in Methods : /\ r = <<job[h], m>>
                                /\ m \in ReceiptStatuses => journal[ProcessOf[h]][job[h]] = m
  <2>1. CASE pc[h] = "barrier"
    <3>1. r = <<job[h], "mark_executing">>
      BY <1>4, <2>1 DEF Request
    <3> QED
      BY <3>1 DEF Methods, ReceiptStatuses
  <2>2. CASE pc[h] = "flag"
    <3>1. r = <<job[h], "mark_result_unknown">>
      BY <1>4, <2>2 DEF Request
    <3> QED
      BY <3>1 DEF Methods, ReceiptStatuses
  <2>3. CASE pc[h] = "ingest"
    <3>1. r = <<job[h], found[h]>>
      BY <1>4, <2>3 DEF Request
    <3>2. found[h] \in ReceiptStatuses /\ journal[ProcessOf[h]][job[h]] = found[h]
      BY <1>3, <2>3 DEF EdgeInv, Knows
    <3> QED
      BY <3>1, <3>2 DEF Methods
  <2>4. CASE pc[h] \notin {"barrier", "flag", "ingest"}
    BY <1>4, <2>4 DEF Request
  <2> QED
    BY <2>1, <2>2, <2>3, <2>4
<1>5. late' \subseteq Actions \X Methods
  <2>1. late \subseteq Actions \X Methods
    BY TypeParts DEF StreamTypeOK
  <2>2. \A r \in Request(h) : r \in Actions \X Methods
    BY <1>3, <1>4
  <2> QED
    BY <2>1, <2>2
<1>6. LateIsJournaled'
  <2>1. SUFFICES ASSUME NEW a \in Actions, NEW m \in ReceiptStatuses, <<a, m>> \in late'
                 PROVE  \E p \in Processes : journal[p][a] = m
    BY DEF LateIsJournaled
  <2>2. CASE <<a, m>> \in late
    BY <2>2 DEF EdgeInv, LateIsJournaled
  <2>3. CASE <<a, m>> \in Request(h)
    <3>1. PICK k \in Methods : /\ <<a, m>> = <<job[h], k>>
                               /\ k \in ReceiptStatuses => journal[ProcessOf[h]][job[h]] = k
      BY <1>4, <2>3
    <3>2. a = job[h] /\ k = m
      BY <3>1
    <3> QED
      BY <1>3, <3>1, <3>2
  <2> QED
    BY <2>1, <2>2, <2>3
<1> QED
  BY <1>5, <1>6

\* A failed call is nakked.
LEMMA CallFailsInv ==
  ASSUME NEW h \in Handlers, EdgeInv, CallFails(h)
  PROVE  EdgeInv' /\ TableMove /\ UNCHANGED effects
<1>1. /\ pc[h] # "idle" /\ Fault /\ Nak(h) /\ TableMove
      /\ UNCHANGED <<queue, rotating, effects, journal, observed>>
  BY DEF CallFails, TableMove, journalVars
<1>2. PICK sent \in SUBSET Request(h) : late' = late \cup sent
  BY DEF CallFails
<1>3. late' \subseteq Actions \X Methods /\ LateIsJournaled'
  BY <1>1, <1>2, SentWasJournaled
<1> QED
  BY <1>1, <1>3, ReturnInv

\* A call without a reply leaves its handler where it is.
LEMMA CallBlocksInv ==
  ASSUME NEW h \in Handlers, EdgeInv, CallBlocks(h)
  PROVE  EdgeInv' /\ TableMove /\ UNCHANGED effects
<1>1. /\ pc[h] # "idle" /\ ~Running(h) /\ Fault
      /\ blocked' = blocked \cup {h}
      /\ UNCHANGED <<storeVars, unacked, queue, pc, job, seen, found, at, deferred, inflight,
                     rotating, journal, observed, effects, yielded>>
  BY DEF CallBlocks, Running, journalVars, ghostVars
<1>2. PICK sent \in SUBSET Request(h) : late' = late \cup sent
  BY DEF CallBlocks
<1>3. late' \subseteq Actions \X Methods /\ LateIsJournaled'
  BY <1>1, <1>2, SentWasJournaled
<1>4. TableMove /\ UNCHANGED <<status, receipt>>
  BY <1>1 DEF TableMove, storeVars
<1>5. LocalTypeOK' /\ StreamTypeOK'
  BY <1>1, <1>3, TypeParts DEF LocalTypeOK, StreamTypeOK
<1>6. /\ \A i \in Handlers : Waits(i) /\ Undisturbed(i)
      /\ ~Running(h)' /\ AcksAreSettled
  BY <1>1 DEF Waits, Undisturbed, Running, AcksAreSettled
<1>7. Knows(h)'
  BY <1>1, <1>4, <1>6, MoveKeeps, WaitsKnows DEF EdgeInv
<1> QED
  BY <1>1, <1>3, <1>4, <1>5, <1>6, <1>7, HandlerInv

\* A call that waited fails after all, and is nakked.
LEMMA WaitEndsInv ==
  ASSUME NEW h \in Handlers, EdgeInv, WaitEnds(h)
  PROVE  EdgeInv' /\ TableMove /\ UNCHANGED effects
<1>1. /\ Nak(h) /\ NoFault /\ TableMove
      /\ UNCHANGED <<queue, rotating, effects, journal, observed, late>>
  BY DEF WaitEnds, TableMove, journalVars
<1>2. StreamTypeOK' /\ LateIsJournaled' /\ AcksAreSettled
  BY <1>1, TypeParts DEF EdgeInv, Nak, StreamTypeOK, LateIsJournaled, AcksAreSettled
<1>3. LocalTypeOK' /\ Knows(h)' /\ ~Running(h)' /\ \A i \in Handlers \ {h} : Waits(i)
  BY <1>1, ReturnLocal DEF Nak
<1> QED
  BY <1>1, <1>2, <1>3, HandlerInv

\* A delivery is taken from the queue.
LEMMA PollInv ==
  ASSUME NEW h \in Handlers, EdgeInv, Poll(h)
  PROVE  EdgeInv' /\ TableMove /\ UNCHANGED effects
<1>0. PICK p, a : p = ProcessOf[h] /\ a = Head(queue[p])
  OBVIOUS
<1>1. /\ pc[h] = "idle" /\ queue[p] # <<>>
      /\ queue' = [queue EXCEPT ![p] = Tail(@)]
      /\ pc' = [pc EXCEPT ![h] = "classify"]
      /\ job' = [job EXCEPT ![h] = a]
      /\ seen' = [seen EXCEPT ![h] = status[a]]
      /\ UNCHANGED <<storeVars, unacked, found, at, deferred, inflight, blocked, rotating,
                     journal, observed, late, effects, yielded>> /\ NoFault
  BY <1>0 DEF Poll, journalVars, ghostVars, NoFault
<1>2. /\ p \in Processes /\ queue \in [Processes -> Seq(Actions)]
      /\ \A q \in Processes : Len(queue[q]) <= QueueBound
  BY <1>0, EdgeAssumption, TypeParts DEF StreamTypeOK
<1>3. a \in Actions /\ Tail(queue[p]) \in Seq(Actions) /\ Len(Tail(queue[p])) <= QueueBound
  BY <1>0, <1>1, <1>2, EdgeAssumption
<1>4. StreamTypeOK'
  <2>1. /\ queue' \in [Processes -> Seq(Actions)]
        /\ \A q \in Processes : Len(queue'[q]) <= QueueBound
    BY <1>1, <1>2, <1>3
  <2> QED
    BY <1>1, <2>1, TypeParts DEF StreamTypeOK
<1>5. TableMove /\ UNCHANGED <<status, receipt>>
  BY <1>1 DEF TableMove, storeVars
<1>6. LocalTypeOK' /\ pc'[h] = "classify" /\ job'[h] = a /\ seen'[h] = status[a]
      /\ \A i \in Handlers \ {h} : Waits(i)
  <2>1. status[a] \in Statuses \cup {"absent"}
    BY <1>3 DEF EdgeInv, StoreInv, StoreTypeOK
  <2> QED
    BY <1>1, <1>3, <2>1, TypeParts DEF LocalTypeOK, Waits, Steps
<1>7. at'[h] = 1
  BY <1>1 DEF EdgeInv, Knows
<1>8. ReadIsPast(h)'
  BY <1>5, <1>6 DEF ReadIsPast, Landed, Open
<1>9. Knows(h)' /\ ~Running(h)'
  BY <1>3, <1>6, <1>7, <1>8 DEF Knows, Running
<1>10. LateIsJournaled' /\ AcksAreSettled
  BY <1>1 DEF EdgeInv, LateIsJournaled, AcksAreSettled
<1> QED
  BY <1>1, <1>4, <1>5, <1>6, <1>9, <1>10, HandlerInv

\* Intake, rotation and republication touch no handler and no table.
LEMMA IntakeInv ==
  ASSUME EdgeInv,
         \/ \E p \in Processes, a \in Actions : FetchInto(p, a)
         \/ \E p \in Processes : Rotate(p)
         \/ \E a \in Actions : Republish(a)
  PROVE  EdgeInv' /\ TableMove /\ UNCHANGED effects
<1>1. /\ UNCHANGED <<storeVars, pc, job, seen, found, at, deferred, inflight, blocked, journal, observed,
                     late, effects, yielded>>
      /\ TableMove
  BY DEF FetchInto, Rotate, Republish, handlerVars, journalVars, ghostVars, TableMove
<1>2. AcksAreSettled
  <2>1. \A a \in Actions : ~unacked'[a] => ~unacked[a]
    BY TypeParts DEF FetchInto, Rotate, Republish, StreamTypeOK
  <2> QED
    BY <1>1, <2>1 DEF AcksAreSettled
<1>3. LateIsJournaled'
  BY <1>1 DEF EdgeInv, LateIsJournaled
<1>4. LocalTypeOK' /\ RecordTypeOK' /\ StoreTypeOK'
  BY <1>1, TypeParts, MoveKeeps DEF LocalTypeOK, RecordTypeOK, StoreInv
<1>5. StreamTypeOK' /\ BoundTypeOK'
  <2>1. StreamTypeOK /\ BoundTypeOK
    BY TypeParts
  <2>2. ASSUME NEW p \in Processes, NEW a \in Actions, FetchInto(p, a)
        PROVE  StreamTypeOK' /\ BoundTypeOK'
    <3>1. /\ queue' = [queue EXCEPT ![p] = Append(@, a)] /\ Len(queue[p]) < QueueBound
          /\ UNCHANGED <<unacked, rotating, late, yielded, faults, rotations, duplicates>>
      BY <2>2 DEF FetchInto, ghostVars, boundVars
    <3>2. Append(queue[p], a) \in Seq(Actions) /\ Len(Append(queue[p], a)) <= QueueBound
      BY <2>1, <3>1, EdgeAssumption DEF StreamTypeOK
    <3> QED
      BY <2>1, <3>1, <3>2 DEF StreamTypeOK, BoundTypeOK
  <2>3. ASSUME NEW p \in Processes, Rotate(p)
        PROVE  StreamTypeOK' /\ BoundTypeOK'
    <3>1. inflight[p] \subseteq Actions
      BY <2>3, TypeParts DEF LocalTypeOK
    <3>2. /\ rotating' = [rotating EXCEPT ![p] = inflight[p]]
          /\ UNCHANGED <<unacked, queue, late, yielded, faults, duplicates>>
          /\ rotations' = rotations + 1 /\ rotations < MaxRotations
      BY <2>3 DEF Rotate, ghostVars
    <3> QED
      BY <2>1, <3>1, <3>2, EdgeAssumption DEF StreamTypeOK, BoundTypeOK
  <2>4. ASSUME NEW a \in Actions, Republish(a)
        PROVE  StreamTypeOK' /\ BoundTypeOK'
    BY <2>1, <2>4, EdgeAssumption DEF Republish, StreamTypeOK, BoundTypeOK, ghostVars
  <2> QED
    BY <2>2, <2>3, <2>4
<1>6. TypeOK'
  BY <1>4, <1>5 DEF TypeOK, LocalTypeOK, StreamTypeOK, RecordTypeOK, BoundTypeOK
<1> QED
  BY <1>1, <1>2, <1>3, <1>6, OutsideInv
\* Requests served late, rotations that flag, operators: the tables move under
\* handlers that go on.
LEMMA ElsewhereInv ==
  ASSUME EdgeInv,
         \/ \E a \in Actions, m \in Methods : ServeLate(a, m)
         \/ \E p \in Processes, a \in Actions : RotationFlags(p, a)
         \/ \E a \in Actions : Operator(a)
  PROVE  EdgeInv' /\ TableMove /\ UNCHANGED effects
<1>1. UNCHANGED <<pc, job, seen, found, at, deferred, blocked, journal, observed, effects, unacked, yielded,
                  queue>>
      /\ NoFault
  BY DEF ServeLate, RotationFlags, Operator, handlerVars, journalVars, ghostVars, NoFault
<1>2. "mark_result_unknown" \in Methods /\ "mark_result_unknown" \notin ReceiptStatuses
  BY DEF Methods, ReceiptStatuses
<1>3. TableMove
  <2>1. ASSUME NEW a \in Actions, NEW m \in Methods, ServeLate(a, m) PROVE TableMove
    <3>1. m \in ReceiptStatuses => \E p \in Processes : journal[p][a] = m
      BY <2>1 DEF ServeLate, EdgeInv, LateIsJournaled
    <3>2. CASE Serve(a, m)
      BY <3>1, <3>2, ServeMoves
    <3>3. CASE UNCHANGED storeVars
      BY <3>3 DEF TableMove
    <3> QED
      BY <2>1, <3>2, <3>3 DEF ServeLate
  <2>2. ASSUME NEW p \in Processes, NEW a \in Actions, RotationFlags(p, a) PROVE TableMove
    <3>1. CASE Serve(a, "mark_result_unknown")
      BY <1>2, <3>1, ServeMoves
    <3>2. CASE UNCHANGED storeVars
      BY <3>2 DEF TableMove
    <3> QED
      BY <2>2, <3>1, <3>2 DEF RotationFlags
  <2>3. ASSUME NEW a \in Actions, Operator(a) PROVE TableMove
    <3>1. ASSUME NEW from, NEW to \in {"human_takeover", "compensating", "reconciling", "failed"},
                 StoreTransition(a, from, to)
          PROVE  TableMove
      <4>1. from \in Statuses /\ to \in PlainTargets
        BY <3>1 DEF StoreTransition, TransitionAccepted, UpdateAllowed, canTransition, PlainTargets
      <4> QED
        BY <3>1, <4>1 DEF TableMove
    <3>2. CASE /\ status[a] = "reconciling" /\ effects[a] > 0
               /\ IngestResult(a, ReconcileId(a), "succeeded")
      BY <3>2 DEF TableMove
    <3> QED
      BY <2>3, <3>1, <3>2 DEF Operator
  <2> QED
    BY <2>1, <2>2, <2>3
<1>4. AcksAreSettled
  BY <1>1 DEF AcksAreSettled
<1>5. LateIsJournaled' /\ late' \subseteq Actions \X Methods
  <2>1. late' \subseteq late \cup (Actions \X {"mark_result_unknown"})
    <3>1. CASE \E a \in Actions, m \in Methods : late' = late \ {<<a, m>>}
      BY <3>1
    <3>2. CASE \E a \in Actions : late' = late \cup {<<a, "mark_result_unknown">>}
      BY <3>2
    <3>3. CASE UNCHANGED late
      BY <3>3
    <3>4. ASSUME NEW a \in Actions, NEW m \in Methods, ServeLate(a, m) PROVE late' = late \ {<<a, m>>}
      BY <3>4 DEF ServeLate
    <3>5. ASSUME NEW p \in Processes, NEW a \in Actions, RotationFlags(p, a)
          PROVE  UNCHANGED late \/ late' = late \cup {<<a, "mark_result_unknown">>}
      BY <3>5 DEF RotationFlags
    <3>6. ASSUME NEW a \in Actions, Operator(a) PROVE UNCHANGED late
      BY <3>6 DEF Operator
    <3> QED
      BY <3>1, <3>2, <3>3, <3>4, <3>5, <3>6
  <2>2. late \subseteq Actions \X Methods
    BY TypeParts DEF StreamTypeOK
  <2>3. \A a \in Actions, m \in ReceiptStatuses : <<a, m>> \in late' => <<a, m>> \in late
    BY <1>2, <2>1
  <2> QED
    BY <1>1, <1>2, <2>1, <2>2, <2>3 DEF EdgeInv, LateIsJournaled
<1>6. /\ inflight' \in [Processes -> SUBSET Actions] /\ rotating' \in [Processes -> SUBSET Actions]
  BY TypeParts DEF LocalTypeOK, StreamTypeOK, ServeLate, RotationFlags, Operator, handlerVars
<1>7. LocalTypeOK' /\ RecordTypeOK' /\ StreamTypeOK' /\ StoreTypeOK' /\ BoundTypeOK'
  <2>1. LocalTypeOK'
    BY <1>1, <1>6, TypeParts DEF LocalTypeOK
  <2>2. StreamTypeOK'
    BY <1>1, <1>5, <1>6, TypeParts DEF StreamTypeOK
  <2>3. RecordTypeOK' /\ StoreTypeOK'
    BY <1>1, <1>3, TypeParts, MoveKeeps DEF RecordTypeOK, StoreInv
  <2> QED
    BY <1>1, <2>1, <2>2, <2>3, BoundsHold
<1>8. TypeOK'
  BY <1>7 DEF TypeOK, LocalTypeOK, StreamTypeOK, RecordTypeOK, BoundTypeOK
<1> QED
  BY <1>1, <1>3, <1>4, <1>5, <1>8, OutsideInv

\* A crash empties the memory of a process: its handlers know nothing.
LEMMA CrashInv ==
  ASSUME NEW p \in Processes, EdgeInv, Crash(p)
  PROVE  EdgeInv' /\ TableMove /\ UNCHANGED effects
<1> DEFINE Mine(h) == ProcessOf[h] = p
<1>1. /\ pc' = [h \in Handlers |-> IF Mine(h) THEN "idle" ELSE pc[h]]
      /\ job' = [h \in Handlers |-> IF Mine(h) THEN NoAction ELSE job[h]]
      /\ seen' = [h \in Handlers |-> IF Mine(h) THEN "absent" ELSE seen[h]]
      /\ found' = [h \in Handlers |-> IF Mine(h) THEN "none" ELSE found[h]]
      /\ at' = [h \in Handlers |-> IF Mine(h) THEN 1 ELSE at[h]]
      /\ deferred' = [h \in Handlers |-> IF Mine(h) THEN FALSE ELSE deferred[h]]
  BY DEF Crash
<1>2. /\ queue' = [queue EXCEPT ![p] = <<>>] /\ inflight' = [inflight EXCEPT ![p] = {}]
      /\ blocked' \subseteq blocked
      /\ rotating' = [rotating EXCEPT ![p] = {}] /\ Fault
      /\ UNCHANGED <<storeVars, unacked, journal, observed, late, effects, yielded>>
  BY DEF Crash, journalVars, ghostVars
<1>3. TableMove
  BY <1>2 DEF TableMove
<1>4. StoreInv' /\ TablesKeep /\ WorldIsTrue'
  BY <1>2, <1>3, MoveKeeps, MoveWorld
<1>5. \A h \in Handlers : Knows(h)'
  <2>1. SUFFICES ASSUME NEW h \in Handlers PROVE Knows(h)'
    OBVIOUS
  <2>2. CASE Mine(h)
    BY <1>1, <2>2 DEF Knows, Running
  <2>3. CASE ~Mine(h)
    <3>1. Waits(h) /\ Undisturbed(h)
      BY <1>1, <1>2, <2>3 DEF Waits, Undisturbed
    <3> QED
      BY <1>4, <3>1, WaitsKnows DEF EdgeInv
  <2> QED
    BY <2>2, <2>3
<1>6. OneRunner'
  BY <1>1 DEF EdgeInv, OneRunner, Running
<1>7. LateIsJournaled'
  BY <1>2 DEF EdgeInv, LateIsJournaled
<1>8. AckedIsSettled'
  BY <1>2, <1>4, SettledStays DEF EdgeInv, AckedIsSettled
<1>9. LocalTypeOK'
  <2>1. LocalTypeOK /\ 1 \in 1..(NeedCount + 1)
    BY TypeParts, EdgeAssumption
  <2> QED
    BY <1>1, <1>2, <2>1 DEF LocalTypeOK, Steps
<1>10. StreamTypeOK'
  <2>1. StreamTypeOK
    BY TypeParts
  <2>2. <<>> \in Seq(Actions) /\ Len(<<>>) <= QueueBound
    BY EdgeAssumption
  <2> QED
    BY <1>2, <2>1, <2>2 DEF StreamTypeOK
<1>11. RecordTypeOK' /\ StoreTypeOK' /\ BoundTypeOK'
  BY <1>2, <1>4, TypeParts, BoundsHold DEF RecordTypeOK, StoreInv
<1>12. TypeOK'
  BY <1>9, <1>10, <1>11 DEF TypeOK, LocalTypeOK, StreamTypeOK, RecordTypeOK, BoundTypeOK
<1> QED
  BY <1>2, <1>3, <1>4, <1>5, <1>6, <1>7, <1>8, <1>12 DEF EdgeInv

\* Every step keeps the invariant, and runs the connector or moves the tables.
LEMMA EdgeNextInv ==
  ASSUME EdgeInv, [Next]_vars
  PROVE  EdgeInv' /\ ((TableMove /\ UNCHANGED effects) \/ \E h \in Handlers : Run(h))
<1>1. CASE UNCHANGED vars
  <2>1. /\ UNCHANGED <<storeVars, unacked, queue, pc, job, seen, found, at, deferred, inflight, blocked, rotating,
                       journal, observed, late, effects, yielded, faults, rotations, duplicates>>
    BY <1>1 DEF vars, handlerVars, journalVars, ghostVars, boundVars
  <2>2. TableMove /\ AcksAreSettled /\ LateIsJournaled'
    BY <2>1 DEF TableMove, AcksAreSettled, EdgeInv, LateIsJournaled
  <2>3. StoreTypeOK'
    BY <2>2, MoveKeeps DEF StoreInv
  <2>4. TypeOK'
    BY <2>1, <2>3 DEF EdgeInv, TypeOK
  <2> QED
    BY <2>1, <2>2, <2>4, OutsideInv
<1>2. ASSUME NEW h \in Handlers, Poll(h) \/ HandlerStep(h) \/ HandlerFails(h)
      PROVE  EdgeInv' /\ ((TableMove /\ UNCHANGED effects) \/ Run(h))
  BY <1>2, PollInv, ClassifyInv, ResolveInv, BarrierInv, RunInv, RecordInv, LoadReceiptInv, IngestInv, FlagInv,
     ObserveInv, ProduceInv, CallFailsInv, CallBlocksInv, WaitEndsInv DEF HandlerStep, HandlerFails
<1>3. CASE \E p \in Processes, a \in Actions : FetchInto(p, a) \/ RotationFlags(p, a)
  BY <1>3, IntakeInv, ElsewhereInv
<1>4. CASE \E p \in Processes : Rotate(p) \/ Crash(p)
  BY <1>4, IntakeInv, CrashInv
<1>5. CASE \E a \in Actions, m \in Methods : ServeLate(a, m)
  BY <1>5, ElsewhereInv
<1>6. CASE \E a \in Actions : Republish(a) \/ Operator(a)
  BY <1>6, IntakeInv, ElsewhereInv
<1> QED
  BY <1>1, <1>2, <1>3, <1>4, <1>5, <1>6 DEF Next

-----------------------------------------------------------------------------
(* The theorems.                                                           *)

\* The inductive invariant holds of every behaviour of the edge agent.
THEOREM EdgeInvariant == Spec => []EdgeInv
<1>1. EdgeInv /\ [Next]_vars => EdgeInv'
  BY EdgeNextInv
<1> QED
  BY <1>1, EdgeInitInv, PTL DEF Spec

\* No central completion without a durable edge record of the same outcome, no
\* journaled success without the effect, no observation of anything but a
\* success, and no queue beyond its bound (executeAndComplete, resumeExecuting,
\* driveObservations, fetchInto).
THEOREM EdgeJournalAndCentreAgree == Spec => []JournalAndCentreAgree
<1>1. EdgeInv => JournalAndCentreAgree
  BY DEF EdgeInv, WorldIsTrue, JournalAndCentreAgree
<1> QED
  BY <1>1, EdgeInvariant, PTL

\* An agent that acked an action it completed owes no observation, unless some
\* attempt gave way to another one (resumeObservations, handleDelivery).
THEOREM EdgeAckedIsObserved == Spec => []AckedIsObserved
<1>1. EdgeInv => AckedIsObserved
  BY DEF EdgeInv, AckedIsSettled, Settled, Landed, AckedIsObserved
<1> QED
  BY <1>1, EdgeInvariant, PTL

\* A change of one status along an edge concludes an outcome or keeps it.
LEMMA EdgeConcludes ==
  ASSUME NEW a \in Actions, NEW to \in Statuses, EdgeInv, EdgeInv', UNCHANGED effects,
         canTransition(status[a], to), status' = [status EXCEPT ![a] = to]
  PROVE  [Promised!OutcomeNext]_(Promised!outcomeVars)
<1> DEFINE before == [x \in Actions |-> Outcome(status[x])]
           after == [x \in Actions |-> Outcome(status'[x])]
<1>1. status \in [Actions -> Statuses \cup {"absent"}] /\ status'[a] = to
  BY DEF EdgeInv, StoreInv, StoreTypeOK
<1>2. after = [before EXCEPT ![a] = Outcome(to)] /\ before[a] = Outcome(status[a])
  BY <1>1
<1>3. status[a] \in Statuses \ {"requested", "awaiting_approval", "granted"}
  BY DEF EdgeInv, WorldIsTrue, ActionIsTrue, canTransition
<1>4. to = "succeeded" => effects[a] = 1
  BY <1>1 DEF EdgeInv, WorldIsTrue, ActionIsTrue
<1>5. \/ Outcome(to) = Outcome(status[a])
      \/ /\ \/ Outcome(status[a]) = "open" /\ Outcome(to) \in {"unknown", "succeeded", "failed"}
            \/ Outcome(status[a]) = "unknown" /\ Outcome(to) \in {"succeeded", "failed"}
            \/ Outcome(status[a]) # "handed_over" /\ Outcome(to) = "handed_over"
         /\ Outcome(to) = "succeeded" => to = "succeeded"
  BY <1>3 DEF Outcome, canTransition, allowedEdges, Statuses, AwaitingReconciliation
<1>6. CASE Outcome(to) = Outcome(status[a])
  <2>1. after = before
    BY <1>2, <1>6
  <2> QED
    BY <2>1 DEF Promised!outcomeVars
<1>7. CASE Outcome(to) # Outcome(status[a])
  <2>1. Promised!Conclude(a, Outcome(to))
    BY <1>2, <1>4, <1>5, <1>7 DEF Promised!Conclude
  <2>2. Outcome(to) \in {"unknown", "succeeded", "failed", "handed_over"}
    BY <1>5, <1>7
  <2> QED
    BY <2>1, <2>2 DEF Promised!OutcomeNext
<1> QED
  BY <1>6, <1>7

\* The edge agent implements ActionOutcome: rotations, lost replies, requests
\* served late and resumes from the journal never yield a second run, a success
\* that did not run, or a replaced outcome.
THEOREM EdgeImplementsOutcome == Spec => ImplementsOutcome
<1>1. Init => Promised!OutcomeInit
  <2>1. Outcome("dispatched") = "open"
    BY DEF Outcome, AwaitingReconciliation
  <2> QED
    BY <2>1 DEF Init, Promised!OutcomeInit
<1>2. EdgeInv /\ EdgeInv' /\ [Next]_vars => [Promised!OutcomeNext]_(Promised!outcomeVars)
  <2> SUFFICES ASSUME EdgeInv, EdgeInv', [Next]_vars
               PROVE  [Promised!OutcomeNext]_(Promised!outcomeVars)
    OBVIOUS
  <2>1. ASSUME NEW h \in Handlers, Run(h) PROVE [Promised!OutcomeNext]_(Promised!outcomeVars)
    <3>1. PICK a : a = job[h]
      OBVIOUS
    <3>2. a \in Actions /\ effects[a] = 0 /\ UNCHANGED status
      BY <2>1, <3>1 DEF Run, EdgeInv, Knows, storeVars
    <3>3. effects' = effects \/ effects' = [effects EXCEPT ![a] = @ + 1]
      BY <2>1, <3>1 DEF Run
    <3>4. CASE effects' = effects
      BY <3>2, <3>4 DEF Promised!outcomeVars
    <3>5. CASE effects' = [effects EXCEPT ![a] = @ + 1]
      <4>1. effects' = [effects EXCEPT ![a] = 1]
        BY <3>2, <3>5
      <4>2. Promised!RunOnce(a)
        BY <3>2, <4>1 DEF Promised!RunOnce
      <4> QED
        BY <3>2, <4>2 DEF Promised!OutcomeNext
    <3> QED
      BY <3>3, <3>4, <3>5
  <2>2. ASSUME TableMove, UNCHANGED effects
        PROVE  [Promised!OutcomeNext]_(Promised!outcomeVars)
    <3>1. CASE UNCHANGED storeVars
      BY <2>2, <3>1 DEF Promised!outcomeVars, storeVars
    <3>2. CASE \E a \in Actions, from \in Statuses, to \in PlainTargets : StoreTransition(a, from, to)
      <4>1. PICK a \in Actions, from \in Statuses, to \in PlainTargets : StoreTransition(a, from, to)
        BY <3>2
      <4>2. to \in Statuses
        BY DEF PlainTargets, Statuses
      <4>3. canTransition(status[a], to) /\ status' = [status EXCEPT ![a] = to]
        BY <4>1 DEF StoreTransition, TransitionAccepted, UpdateAllowed
      <4> QED
        BY <2>2, <4>2, <4>3, EdgeConcludes
    <3>3. CASE \E r : \E a \in Actions, m \in ReceiptStatuses : IngestResult(a, r, m)
      <4>0. PICK r : \E a \in Actions, m \in ReceiptStatuses : IngestResult(a, r, m)
        BY <3>3
      <4>1. PICK a \in Actions, m \in ReceiptStatuses : IngestResult(a, r, m)
        BY <4>0
      <4>2. m \in Statuses
        BY DEF ReceiptStatuses, Statuses
      <4>3. canTransition(status[a], m) /\ status' = [status EXCEPT ![a] = m]
        BY <4>1 DEF IngestResult, IngestAccepted, UpdateAllowed
      <4> QED
        BY <2>2, <4>2, <4>3, EdgeConcludes
    <3> QED
      BY <2>2, <3>1, <3>2, <3>3 DEF TableMove, ReceiptStatuses
  <2> QED
    BY <2>1, <2>2, EdgeNextInv
<1> QED
  BY <1>1, <1>2, EdgeInvariant, PTL DEF Spec, ImplementsOutcome, Promised!OutcomeSpec
=============================================================================
