SPECIFICATION Spec
CONSTANTS
  NumTCBs = 4
  Prios <- MCPrios
  BootPrios <- MCBootPrios
  MaxDly = 1
  TimeMod = 1
  NestMax = 1
  PcMod = 1
  Calls = {"OSTimeDly", "OSTaskCreate", "OSTaskChangePrio", "OSSchedLock"}
  LockedSelfCalls = {"OSTaskChangePrio"}
INVARIANT SwitchInAssertion
