SPECIFICATION Spec
CONSTANTS
  Plans = {p1, p2}
  Operations = {o1, o2}
  Refs = {r1}
  Decisions = {d1, d2}
  Callers = {c1, c2}
  NoOperation = NoOperation
  NoRef = NoRef
  NoDecision = NoDecision
  NoPlan = NoPlan
  MaxDeliveries = 2
SYMMETRY Symmetry
INVARIANTS OneDecisionPerRef LineageExplainsRows
PROPERTIES ImplementsRegistry
CHECK_DEADLOCK FALSE
