SPECIFICATION MCSpec
CONSTANTS
  a1 = a1
  k1 = k1
  o1 = o1
  r1 = r1
  w1 = w1
  w2 = w2
  h1 = h1
  h2 = h2
  h3 = h3
  Actions = {a1}
  Keys = {k1}
  Operations = {o1}
  Plans = {}
  Results = {r1}
  NoAction = NoAction
  NoPlan = NoPlan
  NoResult = NoResult
  NoBinding = NoBinding
  CompOperation = CompOperation
  Processes = {w1, w2}
  Handlers = {h1, h2, h3}
  ProcessOf <- Siblings
  DispatchRef <- MCDispatchRef
  Bound <- MCBound
  Permanent = TRUE
  MaxFaults = 3
  MaxDuplicates = 2
  HandleIds = {r1}
  HandleTTL = 2
  MaxHandleTTL = 1
  MaxVersions = 2
  MaxSecretTime = 1
  HostOps = {r1}
  OpSpecs <- MCOpSpecs
  Packs <- MCPacks
  Installs <- MCInstalls
  Roots = {"work"}
  MaxOutputBytes = 2
  EnvelopeOverhead = 1
  EnvelopeBytes = 1
  MaxResponseBytes = 2
  OutputSizes = {1, 2, 3}
  MaxRateRetries = 1
  MaxPages = 2
  SourcePages = 3
  MaxSourceVersion = 2
  Fields = {"amount", "payee", "iban"}
  DeclaredFields = {"amount", "payee"}
  RedactedFields = {"payee"}
  NoOp = NoOp
  NoPolicy = NoPolicy
  NoAnswer = NoAnswer
INVARIANTS VerdictsAreTrue DeliveredOnce HostIsSound
PROPERTIES ImplementsOutcome SoleWorkerSettles RunEndsForGood
CHECK_DEADLOCK FALSE
