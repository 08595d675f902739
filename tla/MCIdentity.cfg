SPECIFICATION MCSpec
CONSTANTS
  Requests = {r1, r2}
  Browsers = {b1, b2}
  States = {s1, s2, s3}
  Codes = {c1, c2}
  Admins = {a1, a2}
  NoOne = NoOne
  Nobody = Nobody
  LoginTimeout = 2
  PerBrowser = 1
  Global = 2
  CleanupBatch = 1
  Window = 2
  RateLimit = 2
  MaxTime = 3
  IdleTimeout = 2
  AbsoluteTimeout = 3
  CodeTimeout = 1
  MaxRevisions = 2
  MaxRevokes = 1
  Tenant = Tenant
  Elsewhere = Elsewhere
  MaxTokens = 1
  Configured = {"cookie", "CaseTicket", "Bearer", "Basic"}
INVARIANTS LimitsHold EndedStaysEnded SessionsAreAccounted OneActiveOnLinearLogs IngressMeetsReference
PROPERTIES TrustFollowsTheLog
SYMMETRY Symmetry
CHECK_DEADLOCK FALSE
