CONSTANTS
  r1 = r1
  r2 = r2
  r3 = r3
  Nil = Nil
  MaxPools = 3
  Route = {r1, r2, r3}
  Rejection = {"malformed", "unsupported"}
  RPCError = {"timeout"}
  RequestConcurrency = {0, 1, 3}
  DefaultConcurrency = 2
  MaxCalls = 1
SPECIFICATION Spec
INVARIANTS
  TypeOK
  CompleteOnReturn
  ConcurrencyBounded
  ReportExact
  PrimeFailureStaysInGroup
PROPERTIES
  WriteOnce
  ImplementsContract
