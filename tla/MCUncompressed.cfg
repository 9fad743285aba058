SPECIFICATION MCSpec
CONSTANTS
  InitialReserve = 2
  ReadChunk = 3
  UnconditionalLayout = 6
  LayoutRatio = 2
  MaxTotal = 40
  MaxUnits = 2
INVARIANTS
  SamplesAtAddress
  ReadsExactlyLayout
  InflatesWithinBudget
CHECK_DEADLOCK FALSE
