CONSTANTS
  Nil = Nil
  Protocol <- MCAll
  NamesMissing <- MCNamesMissing
  GuardsOwner <- MCGuardsOwner
  GuardsLayout <- MCGuardsLayout
  ChunkSizes = {4, 100}
  Shared <- MCShared
  Spelled = {"429", "rpc"}
  MaxSlot = 2
SPECIFICATION Spec
CHECK_DEADLOCK FALSE
INVARIANTS
  ReservesTogether
  MissingIsNotFound
  SoundMetrics
