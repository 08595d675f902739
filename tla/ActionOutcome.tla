---------------------------- MODULE ActionOutcome ----------------------------
(***************************************************************************)
(* What the execution plane promises about one dispatched Action, whatever *)
(* is redelivered, raced or crashed: its side effect runs at most once, it *)
(* is reported succeeded only if it ran, and a reported outcome is never   *)
(* replaced by the opposite one.                                           *)
(***************************************************************************)
EXTENDS Naturals

CONSTANT Actions

VARIABLES
  runs,     \* how often the external side effect ran
  outcome   \* "open", "unknown", "succeeded", "failed", "handed_over"

outcomeVars == <<runs, outcome>>

OutcomeInit ==
  /\ runs = [a \in Actions |-> 0]
  /\ outcome = [a \in Actions |-> "open"]

\* The side effect runs, once; the plane may already have given up on knowing.
RunOnce(a) ==
  /\ runs[a] = 0
  /\ runs' = [runs EXCEPT ![a] = 1]
  /\ UNCHANGED outcome

\* The action gets an outcome, or is handed to a human or a compensation.
Conclude(a, o) ==
  /\ \/ outcome[a] = "open" /\ o \in {"unknown", "succeeded", "failed"}
     \/ outcome[a] = "unknown" /\ o \in {"succeeded", "failed"}
     \/ outcome[a] # "handed_over" /\ o = "handed_over"
  /\ o = "succeeded" => runs[a] = 1
  /\ outcome' = [outcome EXCEPT ![a] = o]
  /\ UNCHANGED runs

OutcomeNext ==
  \E a \in Actions :
    \/ RunOnce(a)
    \/ \E o \in {"unknown", "succeeded", "failed", "handed_over"} : Conclude(a, o)

OutcomeSpec == OutcomeInit /\ [][OutcomeNext]_outcomeVars
=============================================================================
