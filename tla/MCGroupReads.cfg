CONSTANTS
  p1 = p1
  p2 = p2
  v1 = v1
  m = m
  n = n
  c = c
  g = g
  Nil = Nil
  Unresolved = Unresolved
  Address = {p1, p2, v1, m, n, c}
  Caller = {g}
  Goroutine = g
  FailureCodes = {"account_not_found", "rpc_error"}
  Bulk <- MCBulk
  Requests <- MCRequests
  ChunkSize = 2
  MaxSlot = 2
  MaxCalls = 7
SPECIFICATION GroupSpec
INVARIANTS
  NoPartialCache
  CurvesCostOnePriming
  MissingForAReason
  OneView
PROPERTY ImplementsContract
