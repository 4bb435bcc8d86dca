SPECIFICATION Spec
CONSTANTS
  NumCores = 2
  NumParts = 3
  TargetCore <- MCTarget3
  SliceTicks <- MCSliceShort
  TaskPrios <- MCTaskPrios
  MaxDly = 2
  TimeMod = 1
  PcMod = 1
  NumSegments = 3
  Ratio = 1
  Prompt = TRUE
PROPERTIES PartitionsTakeTurns DelaysEnd
