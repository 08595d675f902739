SPECIFICATION MCSpec
CONSTANTS
  k1 = k1
  k2 = k2
  o1 = o1
  o2 = o2
  p1 = p1
  Actions = {a1, a2}
  Keys = {k1, k2}
  Operations = {o1, o2}
  Plans = {p1}
  Results = {r1}
  NoAction = NoAction
  NoPlan = NoPlan
  NoResult = NoResult
  NoBinding = NoBinding
  CompOperation = CompOperation
  Callers = {c1, c2}
  Trusted = {c1, c2}
  Served <- OperationNames
  Requests <- MCRequests
  CanFail = TRUE
SYMMETRY Symmetry
INVARIANTS OneUseDispatch ApprovalBacksOneGrant ResultAppliedOnce SuccessIsEvidenced AuditPrecedesStatus CompensationsAreSound
PROPERTIES StatusFollowsEdges
CHECK_DEADLOCK FALSE
