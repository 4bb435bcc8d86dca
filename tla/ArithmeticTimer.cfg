SPECIFICATION Spec
CONSTANTS
  OS_TICKS_PER_SEC = 100
  TimerInterval = 2000000
  Hours <- MCHours
  Minutes <- MCSixtieths
  Seconds <- MCSixtieths
  Millis <- MCMillis
INVARIANT DelayLastsAsAsked
