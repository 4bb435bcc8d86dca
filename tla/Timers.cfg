SPECIFICATION Spec
CONSTANTS
  NULL = NULL
  NumTimers = 3
  WheelSize = 2
  TimeMod = 4
  SignalMax = 1
  Plans <- MCPlans
  MayCallOnNext = FALSE
INVARIANTS TypeOK WheelExact
PROPERTY ImplementsCountdown
