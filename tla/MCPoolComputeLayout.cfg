CONSTANTS
  Nil = Nil
  Protocol = {"bonding_curve"}
  NamesMissing = {}
  GuardsOwner = {}
  GuardsLayout = {"bonding_curve"}
  ChunkSizes = {4, 100}
  Shared <- MCShared
  Spelled = {}
  MaxSlot = 2
SPECIFICATION Spec
CHECK_DEADLOCK FALSE
INVARIANT
  LayoutRefused
