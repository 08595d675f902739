SPECIFICATION MCSpec
CONSTANTS
  Locators = {l1}
  Readers = {r1}
  Owners = {o1, o2}
  Names = {n1, n2, n3}
  NoName = NoName
  NoBinding = NoBinding
  Declarations <- MCDeclarations
  HandleTTL = 2
  Fields = {"amount", "payee", "date"}
  NoFields = NoFields
  Count = 3
  Asks <- MCAsks
  MaxTime = 2
  MaxVersion = 1
  Writers = {w1, w2}
  Operators = {x1, x2}
  Signers = {g, h}
  Forger = f
  Tenant = t
  Other = u
  RequestKeys = {k1}
  NoKey = NoKey
  Bodies <- MCBodies
  MaxReference = 4
  Nil = Nil
  MaxAppends = 4
  MaxBatch = 4
INVARIANTS ServedIsSound HandlesAreSound LedgerIsSound NoTruthAfterRevocation PackagesAreSound TruncationIsTold
CHECK_DEADLOCK FALSE
