CONSTANTS
  a1 = a1
  a2 = a2
  a3 = a3
  c1 = c1
  c2 = c2
  Nil = Nil
  Address = {a1, a2, a3}
  Caller = {c1, c2}
  Requests <- MCRequestsPair
  ChunkSize = 1
  MaxSlot = 2
  MaxCalls = 2
SPECIFICATION Spec
SYMMETRY CallerSymmetry
CHECK_DEADLOCK FALSE
INVARIANTS
  TypeOK
  AnswersPositional
  ConfirmedMissing
  CostBound
