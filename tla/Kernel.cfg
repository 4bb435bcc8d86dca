SPECIFICATION Spec
CONSTANTS
  NumTCBs = 3
  Prios <- MCPrios
  BootPrios <- MCBootPrios
  MaxDly = 2
  TimeMod = 2
  NestMax = 2
  PcMod = 2
  Calls = {"OSTimeDly", "OSTimeDlyResume", "OSTimeSet", "OSTaskCreate", "OSTaskCreateExt", "OSTaskDel", "OSTaskDelReq", "OSTaskSuspend", "OSTaskResume", "OSTaskChangePrio", "OSSchedLock"}
  LockedSelfCalls = {}
INVARIANTS TypeOK SwitchInAssertion ContextIntegrity ReadyListExact RunsHighestReady PrioTblExact TCBsConserved
PROPERTIES LockedTaskKeepsCPU ImplementsPrioScheduler EveryTickCounts DeleteRequestFollowsTask DelaysEnd
