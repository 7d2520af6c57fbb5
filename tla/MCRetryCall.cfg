CONSTANTS
  RetryConfig <- MCConfigs
  Ok = Ok
  Nil = Nil
SPECIFICATION Spec
CHECK_DEADLOCK FALSE
INVARIANTS
  RequestsBounded
  FailsForAReason
  BackoffSchedule
PROPERTY CallReturns
