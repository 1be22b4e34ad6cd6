SPECIFICATION Spec
CONSTANTS
  t1 = t1
  t2 = t2
  None = None
  Threads = {t1, t2}
  Members = {"m"}
  Permissions = {"a", "b"}
  Ids = {1, 2}
  Nonces = {1, 2, 3}
  EpochSeconds = 2
  MaxIssues = 1
  MaxScopeKeys = 2
  MaxNullifiers = 2
  Given <- MCGiven
  Modes = {"issuer", "pruned", "verifier"}
  MaxKeys = 3
  MaxTime = 3
  MaxCalls = 6
INVARIANTS QuotaHolds  OneUse
SYMMETRY Symmetry
CHECK_DEADLOCK FALSE
