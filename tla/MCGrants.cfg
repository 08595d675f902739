SPECIFICATION MCSpec
SYMMETRY Symmetry
CONSTANTS
  a1 = a1
  u3 = u3
  ghost = ghost
  Units = {u1, u2}
  Users = {a1}
  Publishers = {p1, p2}
  NoOne = NoOne
  NoUnit = NoUnit
  EditRoles = {"approve_high_risk", "cleaner"}
  MaxSealedOrgUnits = 3
  MaxSealedMemberships = 2
  MaxSealedOrgDepth = 2
  FeedLimit = 2
  MaxVersion = 3
  MaxEdits = 2
  Requests = {r1, r2}
  Tickets = {t1}
  TicketActor <- MCTicketActor
  TicketExpiry <- MCTicketExpiry
  MaxStepGrantTTL = 2
  TTLs = {3}
  MaxTime = 1
  MaxOtherEvents = 1
  Callers = {c1, c2}
  UnitIds <- MCUnitIds
  MaxEvents = 4
INVARIANTS PublicationIsSound GrantsAreSound EvaluateMeetsReference
PROPERTIES GrantFreshAtIssue TerminalChangesAreStale
