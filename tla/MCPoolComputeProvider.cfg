CONSTANTS
  Nil = Nil
  Protocol = {"damm_v2"}
  NamesMissing = {}
  GuardsOwner = {}
  GuardsLayout = {}
  ChunkSizes = {4, 100}
  Shared <- MCShared
  Spelled = {"429"}
  MaxSlot = 2
SPECIFICATION Spec
CHECK_DEADLOCK FALSE
INVARIANT
  ProviderCodeMeansProvider
