----------------------------- MODULE MCEdgeAgent -----------------------------
(* Small instances of EdgeAgent for TLC.                                   *)
EXTENDS EdgeAgent, TLC

CONSTANTS a1, k1, o1, r1, p1, h1, h2

MCBound == [a \in Actions |-> [key |-> k1, op |-> o1, plan |-> NoPlan, compensable |-> TRUE, of |-> NoAction]]
MCDispatchRef == [a \in Actions |-> r1]

Loop == (h1 :> p1)
Pair == (h1 :> p1 @@ h2 :> p1)

\* Whether the deliveries of the process are handled one at a time, as
\* Session.Run does, or by two concurrent ProcessDispatch calls.
VARIABLE serial

Looping == IF serial THEN {h1} ELSE Handlers

MCInit == Init /\ serial \in BOOLEAN

MCNext ==
  /\ Next /\ UNCHANGED serial
  /\ \A h \in Handlers \ Looping : pc'[h] = "idle"

\* The fairness of FairSpec, for the handlers there are.
MCSpec ==
  /\ MCInit /\ [][MCNext]_<<vars, serial>>
  /\ \A h \in Handlers : WF_vars(h \in Looping /\ HandlerStep(h)) /\ WF_vars(h \in Looping /\ Poll(h))
  /\ \A a \in Actions : SF_vars(\E p \in Processes : FetchInto(p, a))
=============================================================================
