SPECIFICATION MCSpec
CONSTANTS
  a1 = a1
  k1 = k1
  o1 = o1
  r1 = r1
  p1 = p1
  h1 = h1
  h2 = h2
  Actions = {a1}
  Keys = {k1}
  Operations = {o1}
  Plans = {}
  Results = {r1}
  NoAction = NoAction
  NoPlan = NoPlan
  NoResult = NoResult
  NoBinding = NoBinding
  CompOperation = CompOperation
  Processes = {p1}
  Handlers = {h1}
  ProcessOf <- Loop
  DispatchRef <- MCDispatchRef
  Bound <- MCBound
  NeedCount = 2
  Detached = {2}
  StalePackage = FALSE
  QueueBound = 1
  MaxFaults = 1
  MaxRotations = 0
  MaxDuplicates = 0
INVARIANTS ExecutingIsOwed
CHECK_DEADLOCK FALSE
