------------------------------ MODULE TaskRuns ------------------------------
(***************************************************************************)
(* One task run of the orchestrator (internal/tasks): every operation      *)
(* reads the run, checks the edge, and writes in later statements of their *)
(* own; the update does not repeat the check. Calls may die in between.    *)
(***************************************************************************)
EXTENDS Naturals, Sequences

CONSTANTS
  Callers,
  MaxEvents     \* bound: operations begun

VARIABLES
  status,       \* task_runs.status
  call,         \* what each caller is doing, with the status it read
  steps,        \* task_steps: their statuses
  checkpoints,  \* confirmation_checkpoints: pending rows
  events,       \* published task events
  begun

taskVars == <<status, call, steps, checkpoints, events, begun>>

Terminal == {"succeeded", "failed", "cancelled"}
Statuses == {"queued", "running", "waiting_confirmation"} \cup Terminal

canTransition(from, to) ==
  /\ from # to /\ from \notin Terminal
  /\ to = "running" => from \in {"queued", "waiting_confirmation"}
  /\ to = "waiting_confirmation" => from = "running"
  /\ to # "queued"

NoCall == [pc |-> "idle", op |-> "none", read |-> "queued", to |-> "queued"]

\* CreateTaskRun: the row, then the created event, whose loss leaves the row.
TaskInit ==
  /\ status = "queued"
  /\ call = [c \in Callers |-> NoCall]
  /\ steps = <<>> /\ checkpoints = 0
  /\ events \in {<<>>, <<"queued">>}
  /\ begun = 0

Goto(c, pc) == call' = [call EXCEPT ![c].pc = pc]

\* Faulty variant of Admits: completing does not look at the current status.
Admits_AnyCompletion(op, read, to) ==
  CASE op = "append"   -> read \notin Terminal
    [] op = "wait"     -> canTransition(read, "waiting_confirmation")
    [] op = "complete" -> to \in Terminal

\* What each operation requires of the status it read.
Admits(op, read, to) ==
  CASE op = "append"   -> read \notin Terminal
    [] op = "wait"     -> canTransition(read, "waiting_confirmation")
    [] op = "complete" -> to \in Terminal /\ canTransition(read, to)

FirstWrite == [append |-> "step", wait |-> "update", complete |-> "update"]

\* GetTaskRun and the checks before the first write.
Begin(c, op, to) ==
  /\ call[c].pc = "idle" /\ begun < MaxEvents
  /\ begun' = begun + 1
  /\ call' = [call EXCEPT ![c] = IF Admits(op, status, to)
                                 THEN [pc |-> FirstWrite[op], op |-> op, read |-> status, to |-> to]
                                 ELSE NoCall]
  /\ UNCHANGED <<status, steps, checkpoints, events>>

\* AppendTaskStep writes the step first; only a running step moves the run.
AppendTaskStep(c) ==
  /\ call[c].pc = "step"
  /\ steps' = Append(steps, call[c].to)
  /\ Goto(c, IF call[c].to = "running" /\ call[c].read # "running"
             THEN (IF canTransition(call[c].read, "running") THEN "update" ELSE "idle")
             ELSE "publish")
  /\ UNCHANGED <<status, checkpoints, events, begun>>

UpdateTaskRunStatus(c) ==
  /\ call[c].pc = "update"
  /\ status' = call[c].to
  /\ Goto(c, IF call[c].op = "wait" THEN "checkpoint" ELSE "publish")
  /\ UNCHANGED <<steps, checkpoints, events, begun>>

CreateConfirmationCheckpoint(c) ==
  /\ call[c].pc = "checkpoint"
  /\ checkpoints' = checkpoints + 1
  /\ Goto(c, "publish")
  /\ UNCHANGED <<status, steps, events, begun>>

\* publish carries the status this call wrote.
PublishTaskEvent(c) ==
  /\ call[c].pc = "publish"
  /\ events' = Append(events, call[c].to)
  /\ Goto(c, "idle")
  /\ UNCHANGED <<status, steps, checkpoints, begun>>

\* An error return, a lost connection or a crash ends the call where it is.
Abandon(c) ==
  /\ call[c].pc # "idle"
  /\ Goto(c, "idle")
  /\ UNCHANGED <<status, steps, checkpoints, events, begun>>

\* Statuses a step may carry are not tied to the run's.
TaskNext ==
  \E c \in Callers :
    \/ \E to \in {"running", "succeeded"} : Begin(c, "append", to)
    \/ Begin(c, "wait", "waiting_confirmation")
    \/ \E to \in {"succeeded", "failed"} : Begin(c, "complete", to)
    \/ AppendTaskStep(c) \/ UpdateTaskRunStatus(c) \/ CreateConfirmationCheckpoint(c)
    \/ PublishTaskEvent(c) \/ Abandon(c)

TaskSpec == TaskInit /\ [][TaskNext]_taskVars

-----------------------------------------------------------------------------
\* A call about to write on the strength of a status that was not terminal.
Stale(c) == call[c].pc \in {"step", "update"} /\ call[c].read \notin Terminal

\* Completion is final except for calls already under way: a terminal run is
\* changed, or gets another step, only by a call that read it before it ended
\* (CompleteTask, WaitForConfirmation and AppendTaskStep check only that read).
TerminalChangesAreStale ==
  [][(status \in Terminal /\ ~UNCHANGED <<status, steps>>) =>
       (\E c \in Callers : Stale(c) /\ call'[c] # call[c])]_taskVars
=============================================================================
