SPECIFICATION Spec
CONSTANTS
  A = A
  B = B
  C = C
  IdleTask = IdleTask
  NULL = NULL
  OS_TCB_RESERVED = OS_TCB_RESERVED
  Tasks <- MCTasks
  Prios <- MCPrios
  InitPrio <- MCInitPrio
  NewPrios <- MCNewPrios
  PCPs <- MCPCPs
  Events = {e1, e2}
  Msgs = {m1, m2}
  FlagGrps = {g1}
  Flags = {b1, b2}
  MemParts = {1, 2}
  NBlks = 3
  MaxDly = 1
  Applications <- MCDeleteOwnedApp
  Hazards = {"DeleteOwned"}
  SemMax = 2
  QSize = 2
  MaxQs = 1
  SwitchReturns = TRUE
INVARIANT CurrentTaskReady
