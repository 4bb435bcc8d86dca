SPECIFICATION Spec
CONSTANTS
  NumCores = 2
  NumParts = 3
  TargetCore <- MCTarget3
  SliceTicks <- MCSliceShort
  TaskPrios <- MCTaskPrios
  MaxDly = 1
  TimeMod = 1
  PcMod = 2
  NumSegments = 3
  Ratio = 1
  Prompt = FALSE
INVARIANTS TypeOK SegmentIsCurrent SwitchInNeverPanics SplitReadyListExact RunsHighestReady ContextIntegrity NoTickStolen
PROPERTIES PartitionsIsolated ImplementsTimeSlices
