-------------------------- MODULE MCConnectorWorker --------------------------
(* Three instances in one run: a worker process with two concurrent          *)
(* deliveries beside another process; one process alone, restarted when it   *)
(* crashes; and one call of the isolated host behind a delivery.             *)
EXTENDS ConnectorWorker, ConnectorHost, TLC

CONSTANTS a1, k1, o1, r1, w1, w2, h1, h2, h3

VARIABLE part

MCBound == [a \in Actions |-> [key |-> k1, op |-> o1, plan |-> NoPlan, compensable |-> TRUE, of |-> NoAction]]
MCDispatchRef == [a \in Actions |-> r1]
Siblings == (h1 :> w1 @@ h2 :> w1 @@ h3 :> w2)

\* The lower bounds of the part with three handlers.
MaxSiblingFaults == 2
MaxSiblingDuplicates == 1

-----------------------------------------------------------------------------
(* What the host is asked for: each family, with a credential where it      *)
(* writes, and the requests the policy, the host or a family refuses.        *)

Call(family, credential) ==
  [family |-> family, credential |-> credential, paths |-> {"work"}, targets |-> {"erp"}, flaw |-> "none"]

Flawed(family, flaw) == [Call(family, FALSE) EXCEPT !.flaw = flaw]

MCOpSpecs ==
  {Call("webhook", TRUE), Call("webhook", FALSE), Call("process", TRUE), Call("http", FALSE),
   [Call("webhook", FALSE) EXCEPT !.targets = {"wiki"}], [Call("process", FALSE) EXCEPT !.paths = {"etc"}],
   Flawed("process", "unnamed"), Flawed("webhook", "undeclared"), Flawed("webhook", "foreign"),
   [Flawed("db", "write") EXCEPT !.targets = {}], Flawed("file", "traversal")}

\* A pack with egress and one that declares itself isolated.
MCPacks ==
  {[digest |-> "d1", classes |-> {"saas"}, isolation |-> "restricted"],
   [digest |-> "d2", classes |-> {"saas"}, isolation |-> "isolated"]}

MCInstalls == {[pinned |-> p.digest, endpoints |-> {"erp"}] : p \in MCPacks}

-----------------------------------------------------------------------------
allVars == <<vars, hostVars, secretVars, part>>

MCInit == part \in {"siblings", "alone", "host"} /\ Init /\ HostInit /\ SecretInit

SiblingsPart == Next /\ faults' <= MaxSiblingFaults /\ duplicates' <= MaxSiblingDuplicates

\* Only h1 takes deliveries; its process may crash.
AlonePart ==
  \/ HandlerStep(h1) \/ StepFails(h1) \/ Crash(w1)
  \/ \E a \in Actions : Receive(h1, a) \/ Republish(a) \/ Operator(a)

MCNext ==
  /\ UNCHANGED part
  /\ \/ part = "siblings" /\ SiblingsPart /\ UNCHANGED <<hostVars, secretVars>>
     \/ part = "alone" /\ AlonePart /\ UNCHANGED <<hostVars, secretVars>>
     \/ part = "host" /\ HostNext /\ UNCHANGED vars

\* FairSpec for the process that is alone, HostFairness for the host.
MCSpec ==
  /\ MCInit /\ [][MCNext]_allVars
  /\ WF_allVars(part = "alone" /\ HandlerStep(h1) /\ UNCHANGED <<hostVars, secretVars, part>>)
  /\ \A a \in Actions : SF_allVars(part = "alone" /\ Receive(h1, a) /\ UNCHANGED <<hostVars, secretVars, part>>)
  /\ \A r \in HostOps :
       /\ WF_allVars(part = "host" /\ Select(r) /\ UNCHANGED <<vars, part>>)
       /\ WF_allVars(part = "host" /\ ContextEnds(r, "deadline") /\ UNCHANGED <<vars, part>>)

\* A process that has the stream to itself settles every dispatch, however it
\* crashes (EveryDispatchSettles; Worker.Run).
SoleWorkerSettles == part = "alone" => EveryDispatchSettles
=============================================================================
