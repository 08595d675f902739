-------------------------- MODULE ApprovalRegistry --------------------------
(***************************************************************************)
(* What the approval transport promises the action service about a plan: a *)
(* bound operation that never changes, at most one decision, consumed at   *)
(* most once, and neither decided nor consumed after a revocation.         *)
(***************************************************************************)
CONSTANTS Plans, Decisions, NoDecision, Operations, NoOperation

VARIABLE registry

Unconsumed(p) ==
  registry[p].decision # NoDecision /\ ~registry[p].consumed /\ ~registry[p].revoked

RegistryInit ==
  registry = [p \in Plans |-> [decision |-> NoDecision, op |-> NoOperation,
                               consumed |-> FALSE, revoked |-> FALSE]]

Bind(p, o) ==
  /\ registry[p].op = NoOperation
  /\ registry' = [registry EXCEPT ![p].op = o]

Decide(p, d) ==
  /\ registry[p].op # NoOperation /\ registry[p].decision = NoDecision /\ ~registry[p].revoked
  /\ registry' = [registry EXCEPT ![p].decision = d]

Consume(p) == Unconsumed(p) /\ registry' = [registry EXCEPT ![p].consumed = TRUE]

Withdraw(p) == ~registry[p].revoked /\ registry' = [registry EXCEPT ![p].revoked = TRUE]

RegistryNext ==
  \E p \in Plans :
    \/ \E o \in Operations : Bind(p, o)
    \/ \E d \in Decisions : Decide(p, d)
    \/ Consume(p) \/ Withdraw(p)

RegistrySpec == RegistryInit /\ [][RegistryNext]_registry
=============================================================================
