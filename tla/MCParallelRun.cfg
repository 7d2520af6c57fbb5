CONSTANTS
  N = 3
  CtxErr = CtxErr
  Ok = Ok
  Nil = Nil
SPECIFICATION Spec
INVARIANTS
  TypeOK
  RootCause
  ErrorNotLost
  SuccessIsWhole
  JoinedOnReturn
PROPERTY RunReturns
