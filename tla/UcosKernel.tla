----------------------------- MODULE UcosKernel -----------------------------
(***************************************************************************)
(* One instance of the uC/OS-II kernel: the task management and scheduling *)
(* of one partition, on one core, from partition_context_init on.          *)
(*                                                                         *)
(* OS_ENTER_CRITICAL is empty in this port: the kernel is entered only by  *)
(* the exception of a system call and by interrupts, with interrupts       *)
(* disabled until the return to the task, so every call and every          *)
(* interrupt handler is one action.  A call the code refuses by an early   *)
(* return changes nothing and is a stuttering step, so only the guards of  *)
(* the accepted calls appear.  OS_PRIO_SELF is the current priority.       *)
(*                                                                         *)
(* A TCB is its index in OSTCBTbl plus one, and 0 is the null pointer.     *)
(* The TCB chains (OSTCBNext, OSTCBPrev) are the sequences OSTCBList and   *)
(* OSTCBFreeList.  A register context is [owner, pc]: the TCB of the task  *)
(* it belongs to and how far that task has run, modulo PcMod.              *)
(***************************************************************************)
EXTENDS PrioBitmap, Sequences

CONSTANTS
  NumTCBs,        \* OS_MAX_TASKS + OS_N_SYS_TASKS
  Prios,          \* the priorities tasks are given, all below OS_LOWEST_PRIO
  BootPrios,      \* priorities of the partition's configured tasks, in order
  MaxDly,         \* bound: the longest delay asked for
  TimeMod,        \* modulus of OSTime (2^32 in the code)
  NestMax,        \* 255: OSIntNesting and OSLockNesting do not count past it
  PcMod,          \* bound: progress of a task is counted modulo PcMod
  Calls,          \* the system calls the tasks make
  LockedSelfCalls \* those a task makes on itself with the scheduler locked

OS_TASK_IDLE_PRIO == 63

CallNames == {"OSTimeDly", "OSTimeDlyResume", "OSTimeSet", "OSTaskCreate",
              "OSTaskCreateExt", "OSTaskDel", "OSTaskDelReq", "OSTaskSuspend",
              "OSTaskResume", "OSTaskChangePrio", "OSSchedLock"}

ASSUME ConstantsAssumption ==
  /\ NumTCBs \in Nat /\ MaxDly \in Nat /\ NestMax \in Nat \ {0}
  /\ TimeMod \in Nat \ {0} /\ PcMod \in Nat \ {0}
  /\ Prios \subseteq 0..62
  /\ Calls \subseteq CallNames
  /\ LockedSelfCalls \subseteq {"OSTaskDel", "OSTaskChangePrio"}

\* The idle task is the first of every partition's task list, the priorities
\* are distinct, and there are TCBs for all: else partition_add panics.
ASSUME BootAssumption ==
  /\ BootPrios \in Seq(Prios \cup {OS_TASK_IDLE_PRIO})
  /\ Len(BootPrios) \in 1..NumTCBs
  /\ BootPrios[1] = OS_TASK_IDLE_PRIO
  /\ \A i, j \in 1..Len(BootPrios) : BootPrios[i] = BootPrios[j] => i = j

VARIABLES
  OSTime, OSRunning, OSIntNesting, OSLockNesting, OSTaskCtr,
  OSRdy,           \* OSRdyGrp and OSRdyTbl, a bitmap of PrioBitmap
  OSPrioCur, OSPrioHighRdy, OSTCBCur, OSTCBHighRdy,
  OSTCBPrioTbl,    \* TCB of each priority
  OSTCBList,       \* chain of the tasks that exist, latest first
  OSTCBFreeList,   \* chain of the free TCBs
  OSTCBPrio, OSTCBStat, OSTCBDly, OSTCBDelReq, context_frame, \* TCB fields
  task_context_saved, \* the context the CPU leaves the kernel with
  progress         \* history: how far the task of each TCB has run

dispatchVars == <<OSPrioCur, OSPrioHighRdy, OSTCBCur, OSTCBHighRdy,
                  context_frame, task_context_saved>>
listVars == <<OSTCBPrioTbl, OSTCBList, OSTCBFreeList, OSTaskCtr>>
nestVars == <<OSRunning, OSIntNesting, OSLockNesting>>
vars == <<OSTime, nestVars, listVars, dispatchVars, OSRdy, OSTCBPrio,
          OSTCBStat, OSTCBDly, OSTCBDelReq, progress>>

NULL == 0
TCBs == 1..NumTCBs
AllPrios == Prios \cup {OS_TASK_IDLE_PRIO}

\* Bits of OSTCBStat; OS_STAT_RDY is the empty set.  The pend bits are set by
\* the event services, which this configuration compiles out, as it does
\* OSEventPendMulti, which alone sets OS_STAT_MULTI.
OS_STAT_PEND_ANY == {"SEM", "MBOX", "Q", "FLAG", "MUTEX"}
OS_STAT_RDY == {}
StatBits == OS_STAT_PEND_ANY \cup {"SUSPEND"}

Contexts == [owner : TCBs \cup {NULL}, pc : 0..(PcMod - 1)]
NoContext == [owner |-> NULL, pc |-> 0]
\* OSTaskStkInit: a context that enters the task's function.
EntryContext(t) == [owner |-> t, pc |-> 0]

InList(t) == \E i \in 1..Len(OSTCBList) : OSTCBList[i] = t

\* partition_context_init, on a context that has no task yet.
Init ==
  /\ OSTime = 0 /\ OSRunning = FALSE /\ OSIntNesting = 0 /\ OSLockNesting = 0
  /\ OSTaskCtr = 0
  /\ OSRdy = EmptyBitmap
  /\ OSPrioCur = 0 /\ OSPrioHighRdy = 0
  /\ OSTCBCur = NULL /\ OSTCBHighRdy = NULL
  /\ OSTCBPrioTbl = [p \in AllPrios |-> NULL]
  /\ OSTCBList = <<>>
  /\ OSTCBFreeList = [i \in TCBs |-> i]
  /\ OSTCBPrio = [t \in TCBs |-> 0]
  /\ OSTCBStat = [t \in TCBs |-> OS_STAT_RDY]
  /\ OSTCBDly = [t \in TCBs |-> 0]
  /\ OSTCBDelReq = [t \in TCBs |-> FALSE]
  /\ context_frame = [t \in TCBs |-> NoContext]
  /\ task_context_saved = NoContext
  /\ progress = [t \in TCBs |-> 0]

-----------------------------------------------------------------------------
(* Scheduling *)

\* Fault: OSCtxSw loads the next task without saving the current one.
FaultSwitchWithoutSave(frames) ==
  /\ OSPrioHighRdy' = Highest(OSRdy')
  /\ OSTCBHighRdy' = OSTCBPrioTbl'[OSPrioHighRdy']
  /\ context_frame' = frames
  /\ IF OSPrioHighRdy' # OSPrioCur
     THEN /\ task_context_saved' = context_frame'[OSTCBHighRdy']
          /\ OSTCBCur' = OSTCBHighRdy'
          /\ OSPrioCur' = OSPrioHighRdy'
     ELSE UNCHANGED <<task_context_saved, OSTCBCur, OSPrioCur>>

\* The body OS_Sched and OSIntExit share: the context goes to the highest
\* priority ready if that is not OSPrioCur.  OSCtxSw and OSIntCtxSw set
\* OSTCBCur and OSPrioCur, load task_context_saved and return to the task,
\* never to their caller.  Read after the caller's changes: OSRdy' and
\* OSTCBPrioTbl', and the frames of the TCBs as the caller leaves them.
SwitchToHighRdy(frames) ==
  /\ OSPrioHighRdy' = Highest(OSRdy')
  /\ OSTCBHighRdy' = OSTCBPrioTbl'[OSPrioHighRdy']
  /\ IF OSPrioHighRdy' # OSPrioCur
     THEN /\ context_frame' = [frames EXCEPT ![OSTCBCur] = task_context_saved]
          /\ task_context_saved' = context_frame'[OSTCBHighRdy']
          /\ OSTCBCur' = OSTCBHighRdy'
          /\ OSPrioCur' = OSPrioHighRdy'
     ELSE /\ context_frame' = frames
          /\ UNCHANGED <<task_context_saved, OSTCBCur, OSPrioCur>>

NoSwitch(frames) ==
  /\ context_frame' = frames
  /\ UNCHANGED <<OSPrioCur, OSPrioHighRdy, OSTCBCur, OSTCBHighRdy,
                 task_context_saved>>

\* Fault: the scheduler lock is not looked at.
FaultSchedWithoutLock(frames) ==
  IF OSIntNesting' = 0 THEN SwitchToHighRdy(frames) ELSE NoSwitch(frames)

\* Fault: OS_SchedNew runs before the scheduler lock is looked at.
FaultSchedNewFirst(frames) ==
  IF OSIntNesting' = 0 /\ OSLockNesting' = 0
  THEN SwitchToHighRdy(frames)
  ELSE /\ OSPrioHighRdy' = Highest(OSRdy')
       /\ OSTCBHighRdy' = OSTCBPrioTbl'[OSPrioHighRdy']
       /\ context_frame' = frames
       /\ UNCHANGED <<task_context_saved, OSTCBCur, OSPrioCur>>

OS_Sched(frames) ==
  IF OSIntNesting' = 0 /\ OSLockNesting' = 0
  THEN SwitchToHighRdy(frames)
  ELSE NoSwitch(frames)

\* OSIntNesting after OSIntEnter and after the decrement of OSIntExit.
AfterIntEnter(n) == IF n < NestMax THEN n + 1 ELSE n
AfterIntExit(n) == IF n > 0 THEN n - 1 ELSE n

\* Fault: the walk starts at the second TCB of the chain.
FaultTickWalkSkipsFirst ==
  {OSTCBList[i] : i \in {j \in 2..Len(OSTCBList) :
     \A k \in 1..j : OSTCBPrio[OSTCBList[k]] # OS_TASK_IDLE_PRIO}}

\* The TCBs OSTimeTick visits: the chain up to the idle task.
TickWalk ==
  {OSTCBList[i] : i \in {j \in 1..Len(OSTCBList) :
     \A k \in 1..j : OSTCBPrio[OSTCBList[k]] # OS_TASK_IDLE_PRIO}}

\* The TCBs whose delay ends at this tick.
Expiring == {t \in TickWalk : OSTCBDly[t] = 1}

\* Fault: a suspended task is made ready when its delay ends.
FaultReadyThoughSuspended == Expiring

\* Those of them that become ready.
ReadyByTick == {t \in Expiring : "SUSPEND" \notin OSTCBStat[t]}

OSTimeTick ==
  /\ OSTime' = (OSTime + 1) % TimeMod
  /\ OSTCBDly' = [t \in TCBs |-> IF t \in TickWalk /\ OSTCBDly[t] # 0
                                 THEN OSTCBDly[t] - 1 ELSE OSTCBDly[t]]
  /\ OSTCBStat' = [t \in TCBs |-> IF t \in Expiring
                                  THEN OSTCBStat[t] \ OS_STAT_PEND_ANY
                                  ELSE OSTCBStat[t]]
  /\ OSRdy' = AddAll(OSRdy, {OSTCBPrio[t] : t \in ReadyByTick})
  /\ UNCHANGED <<listVars, OSTCBPrio, OSTCBDelReq, progress>>

\* OSTaskTimerISR: OSIntEnter, OSTimeTick, OSIntExit.
OSTaskTimerISR ==
  /\ OSRunning
  /\ OSTimeTick
  /\ OSIntNesting' = AfterIntExit(AfterIntEnter(OSIntNesting))
  /\ UNCHANGED <<OSRunning, OSLockNesting>>
  /\ OS_Sched(context_frame)

-----------------------------------------------------------------------------
(* Starting the partition *)

LinkTCB(t) == OSTCBList' = <<t>> \o OSTCBList

\* Fault: a deletion request for the TCB's former task is left in it.
FaultKeepDelReq(t) == UNCHANGED OSTCBDelReq

ClearDelReq(t) == OSTCBDelReq' = [OSTCBDelReq EXCEPT ![t] = FALSE]

\* OS_TCBInit: the next free TCB becomes a ready task of priority p.
OS_TCBInit(p) ==
  LET t == Head(OSTCBFreeList)
  IN  /\ OSTCBFreeList # <<>>
      /\ OSTCBFreeList' = Tail(OSTCBFreeList)
      /\ OSTCBPrio' = [OSTCBPrio EXCEPT ![t] = p]
      /\ OSTCBStat' = [OSTCBStat EXCEPT ![t] = OS_STAT_RDY]
      /\ OSTCBDly' = [OSTCBDly EXCEPT ![t] = 0]
      /\ ClearDelReq(t)
      /\ OSTCBPrioTbl' = [OSTCBPrioTbl EXCEPT ![p] = t]
      /\ LinkTCB(t)
      /\ OSRdy' = Add(OSRdy, p)
      /\ OSTaskCtr' = OSTaskCtr + 1
      /\ progress' = [progress EXCEPT ![t] = 0]

\* context_frame after OS_TCBInit has copied the new task's context.
FramesWithNewTask ==
  [context_frame EXCEPT ![Head(OSTCBFreeList)] = EntryContext(Head(OSTCBFreeList))]

\* partition_add: the next task of the partition's configuration.
PartitionAdd ==
  /\ OSRunning = FALSE
  /\ OSTaskCtr < Len(BootPrios)
  /\ OSTCBPrioTbl[BootPrios[OSTaskCtr + 1]] = NULL
  /\ OS_TCBInit(BootPrios[OSTaskCtr + 1])
  /\ NoSwitch(FramesWithNewTask)
  /\ UNCHANGED <<OSTime, nestVars>>

\* OSStart and OSStartHighRdy, and partition_switch on its first run of a
\* partition.
OSStart ==
  /\ OSRunning = FALSE
  /\ OSTaskCtr = Len(BootPrios)
  /\ OSPrioHighRdy' = Highest(OSRdy)
  /\ OSPrioCur' = OSPrioHighRdy'
  /\ OSTCBHighRdy' = OSTCBPrioTbl[OSPrioHighRdy']
  /\ OSTCBCur' = OSTCBHighRdy'
  /\ task_context_saved' = context_frame[OSTCBCur']
  /\ OSRunning' = TRUE
  /\ UNCHANGED <<OSTime, OSIntNesting, OSLockNesting, listVars, OSRdy,
                 OSTCBPrio, OSTCBStat, OSTCBDly, OSTCBDelReq, context_frame,
                 progress>>

-----------------------------------------------------------------------------
(* System calls of the running task *)

\* The idle task of every partition is an endless loop without calls.
CanCall(name) ==
  /\ name \in Calls
  /\ OSRunning
  /\ OSTCBPrio[OSTCBCur] # OS_TASK_IDLE_PRIO

\* A call on the current task while it holds the scheduler lock.
OnSelfLocked(p) == OSLockNesting > 0 /\ p = OSTCBPrio[OSTCBCur]

OSTimeDly(ticks) ==
  /\ CanCall("OSTimeDly")
  /\ OSIntNesting = 0 /\ OSLockNesting = 0
  /\ ticks > 0
  /\ OSRdy' = Remove(OSRdy, OSTCBPrio[OSTCBCur])
  /\ OSTCBDly' = [OSTCBDly EXCEPT ![OSTCBCur] = ticks]
  /\ UNCHANGED <<OSTime, nestVars, listVars, OSTCBPrio, OSTCBStat, OSTCBDelReq,
                 progress>>
  /\ OS_Sched(context_frame)

OSTimeDlyResume(p) ==
  LET t == OSTCBPrioTbl[p]
      stat == OSTCBStat[t] \ OS_STAT_PEND_ANY
  IN  /\ CanCall("OSTimeDlyResume")
      /\ p # OS_TASK_IDLE_PRIO
      /\ t # NULL
      /\ OSTCBDly[t] # 0
      /\ OSTCBDly' = [OSTCBDly EXCEPT ![t] = 0]
      /\ OSTCBStat' = [OSTCBStat EXCEPT ![t] = stat]
      /\ UNCHANGED <<OSTime, nestVars, listVars, OSTCBPrio, OSTCBDelReq, progress>>
      /\ IF "SUSPEND" \notin stat
         THEN OSRdy' = Add(OSRdy, OSTCBPrio[t]) /\ OS_Sched(context_frame)
         ELSE UNCHANGED <<OSRdy, dispatchVars>>

OSTimeSet(ticks) ==
  /\ CanCall("OSTimeSet")
  /\ OSTime' = ticks
  /\ UNCHANGED <<nestVars, listVars, dispatchVars, OSRdy, OSTCBPrio, OSTCBStat,
                 OSTCBDly, OSTCBDelReq, progress>>

\* OSTaskCreate.  When there is no free TCB the reserved priority is given
\* back and nothing has changed.
CreateTask(p) ==
  /\ OSIntNesting = 0
  /\ OSTCBPrioTbl[p] = NULL
  /\ OS_TCBInit(p)
  /\ UNCHANGED <<OSTime, nestVars>>
  /\ OS_Sched(FramesWithNewTask)

OSTaskCreate(p) == CanCall("OSTaskCreate") /\ CreateTask(p)

\* OSTaskCreateExt: its opt and pext are ignored, its id and stack bounds
\* are data no other operation reads.
OSTaskCreateExt(p) == CanCall("OSTaskCreateExt") /\ CreateTask(p)

\* The position of t in a TCB chain, and the chain without that TCB.
PositionOf(t, chain) == CHOOSE i \in 1..Len(chain) : chain[i] = t
\* Fault: unlinking cuts the chain off at the TCB.
FaultUnlinkCutsChain(t, chain) == SubSeq(chain, 1, PositionOf(t, chain) - 1)

Unlink(t, chain) ==
  LET k == PositionOf(t, chain)
  IN  SubSeq(chain, 1, k - 1) \o SubSeq(chain, k + 1, Len(chain))

\* Fault: OSTaskDel decrements the lock without having incremented it.
FaultDelUnlocksOnly(n) == n - 1

\* OSLockNesting over OSTaskDel's increment, below NestMax only, and decrement.
AfterDelLock(n) == (IF n < NestMax THEN n + 1 ELSE n) - 1

OSTaskDel(p) ==
  LET t == OSTCBPrioTbl[p]
  IN  /\ CanCall("OSTaskDel")
      /\ OnSelfLocked(p) => "OSTaskDel" \in LockedSelfCalls
      /\ OSIntNesting = 0
      /\ p # OS_TASK_IDLE_PRIO
      /\ t # NULL
      /\ OSRdy' = Remove(OSRdy, OSTCBPrio[t])
      /\ OSTCBDly' = [OSTCBDly EXCEPT ![t] = 0]
      /\ OSTCBStat' = [OSTCBStat EXCEPT ![t] = OS_STAT_RDY]
      /\ OSLockNesting' = AfterDelLock(OSLockNesting)
      /\ OSTaskCtr' = OSTaskCtr - 1
      /\ OSTCBPrioTbl' = [OSTCBPrioTbl EXCEPT ![p] = NULL]
      /\ OSTCBList' = Unlink(t, OSTCBList)
      /\ OSTCBFreeList' = <<t>> \o OSTCBFreeList
      /\ UNCHANGED <<OSTime, OSRunning, OSIntNesting, OSTCBPrio, OSTCBDelReq,
                     progress>>
      /\ OS_Sched(context_frame)

OSTaskDelReq(p) ==
  /\ CanCall("OSTaskDelReq")
  /\ p # OS_TASK_IDLE_PRIO
  /\ OSTCBPrioTbl[p] # NULL
  /\ OSTCBDelReq' = [OSTCBDelReq EXCEPT ![OSTCBPrioTbl[p]] = TRUE]
  /\ UNCHANGED <<OSTime, nestVars, listVars, dispatchVars, OSRdy, OSTCBPrio,
                 OSTCBStat, OSTCBDly, progress>>

\* With OS_ARG_CHK_EN 0 nothing refuses the idle task here and in
\* OSTaskChangePrio: callers must keep to priorities below OS_LOWEST_PRIO.
OSTaskSuspend(p) ==
  LET t == OSTCBPrioTbl[p]
  IN  /\ CanCall("OSTaskSuspend")
      /\ p # OS_TASK_IDLE_PRIO
      /\ t # NULL
      /\ OSRdy' = Remove(OSRdy, OSTCBPrio[t])
      /\ OSTCBStat' = [OSTCBStat EXCEPT ![t] = @ \cup {"SUSPEND"}]
      /\ UNCHANGED <<OSTime, nestVars, listVars, OSTCBPrio, OSTCBDly,
                     OSTCBDelReq, progress>>
      /\ IF p = OSTCBPrio[OSTCBCur] THEN OS_Sched(context_frame)
                                    ELSE UNCHANGED dispatchVars

\* Fault: a resumed task is made ready although its delay is running.
FaultResumeEndsDelay(t, stat) == stat = OS_STAT_RDY

\* With status stat, t waits for nothing: no event and no delay.
WaitsForNothing(t, stat) == stat = OS_STAT_RDY /\ OSTCBDly[t] = 0

OSTaskResume(p) ==
  LET t == OSTCBPrioTbl[p]
      stat == OSTCBStat[t] \ {"SUSPEND"}
  IN  /\ CanCall("OSTaskResume")
      /\ t # NULL
      /\ "SUSPEND" \in OSTCBStat[t]
      /\ OSTCBStat' = [OSTCBStat EXCEPT ![t] = stat]
      /\ UNCHANGED <<OSTime, nestVars, listVars, OSTCBPrio, OSTCBDly,
                     OSTCBDelReq, progress>>
      /\ IF WaitsForNothing(t, stat)
         THEN OSRdy' = Add(OSRdy, OSTCBPrio[t]) /\ OS_Sched(context_frame)
         ELSE UNCHANGED <<OSRdy, dispatchVars>>

\* Fault: the entry of the old priority is not cleared.
FaultKeepOldEntry(t, oldprio, newprio) ==
  OSTCBPrioTbl' = [OSTCBPrioTbl EXCEPT ![newprio] = t]

MoveEntry(t, oldprio, newprio) ==
  OSTCBPrioTbl' = [OSTCBPrioTbl EXCEPT ![oldprio] = NULL, ![newprio] = t]

\* OSPrioCur keeps the old priority of the current task until the switch
\* that OS_Sched then makes from that task to itself.
OSTaskChangePrio(oldprio, newprio) ==
  LET t == OSTCBPrioTbl[oldprio]
  IN  /\ CanCall("OSTaskChangePrio")
      /\ OnSelfLocked(oldprio) => "OSTaskChangePrio" \in LockedSelfCalls
      /\ oldprio # OS_TASK_IDLE_PRIO
      /\ OSTCBPrioTbl[newprio] = NULL
      /\ t # NULL
      /\ MoveEntry(t, oldprio, newprio)
      /\ OSRdy' = IF Contains(OSRdy, OSTCBPrio[t])
                  THEN Add(Remove(OSRdy, OSTCBPrio[t]), newprio)
                  ELSE OSRdy
      /\ OSTCBPrio' = [OSTCBPrio EXCEPT ![t] = newprio]
      /\ UNCHANGED <<OSTime, nestVars, OSTCBList, OSTCBFreeList, OSTaskCtr,
                     OSTCBStat, OSTCBDly, OSTCBDelReq, progress>>
      /\ OS_Sched(context_frame)

OSSchedLock ==
  /\ CanCall("OSSchedLock")
  /\ OSIntNesting = 0
  /\ OSLockNesting < NestMax
  /\ OSLockNesting' = OSLockNesting + 1
  /\ UNCHANGED <<OSTime, OSRunning, OSIntNesting, listVars, dispatchVars, OSRdy,
                 OSTCBPrio, OSTCBStat, OSTCBDly, OSTCBDelReq, progress>>

\* Fault: unlocking does not reschedule.
FaultUnlockWithoutSched ==
  /\ CanCall("OSSchedLock")
  /\ OSIntNesting = 0
  /\ OSLockNesting > 0
  /\ OSLockNesting' = OSLockNesting - 1
  /\ UNCHANGED <<OSTime, OSRunning, OSIntNesting, listVars, OSRdy, OSTCBPrio,
                 OSTCBStat, OSTCBDly, OSTCBDelReq, progress, dispatchVars>>

OSSchedUnlock ==
  /\ CanCall("OSSchedLock")
  /\ OSIntNesting = 0
  /\ OSLockNesting > 0
  /\ OSLockNesting' = OSLockNesting - 1
  /\ UNCHANGED <<OSTime, OSRunning, OSIntNesting, listVars, OSRdy, OSTCBPrio,
                 OSTCBStat, OSTCBDly, OSTCBDelReq, progress>>
  /\ OS_Sched(context_frame)

\* The running task executes: its context changes, and nothing of the kernel.
TaskStep ==
  LET t == task_context_saved.owner
      pc == (task_context_saved.pc + 1) % PcMod
  IN  /\ OSRunning
      /\ task_context_saved' = [owner |-> t, pc |-> pc]
      /\ progress' = [progress EXCEPT ![t] = pc]
      /\ UNCHANGED <<OSTime, nestVars, listVars, OSPrioCur, OSPrioHighRdy,
                     OSTCBCur, OSTCBHighRdy, context_frame, OSRdy, OSTCBPrio,
                     OSTCBStat, OSTCBDly, OSTCBDelReq>>

SystemCall ==
  \/ \E ticks \in 1..MaxDly : OSTimeDly(ticks)
  \/ \E ticks \in 0..(TimeMod - 1) : OSTimeSet(ticks)
  \/ \E p \in AllPrios : OSTimeDlyResume(p)
  \/ \E p \in AllPrios : OSTaskCreate(p)
  \/ \E p \in AllPrios : OSTaskCreateExt(p)
  \/ \E p \in AllPrios : OSTaskDel(p)
  \/ \E p \in AllPrios : OSTaskDelReq(p)
  \/ \E p \in AllPrios : OSTaskSuspend(p)
  \/ \E p \in AllPrios : OSTaskResume(p)
  \/ \E p, q \in AllPrios : OSTaskChangePrio(p, q)
  \/ OSSchedLock
  \/ OSSchedUnlock

Next == PartitionAdd \/ OSStart \/ OSTaskTimerISR \/ SystemCall \/ TaskStep

\* The boot code runs to its end and the task timer keeps interrupting.  The
\* tasks themselves are owed nothing: a task may loop forever.
Fairness == WF_vars(PartitionAdd) /\ WF_vars(OSStart) /\ WF_vars(OSTaskTimerISR)

Spec == Init /\ [][Next]_vars /\ Fairness

-----------------------------------------------------------------------------
(* Properties *)

TypeOK ==
  /\ OSTime \in 0..(TimeMod - 1)
  /\ OSRunning \in BOOLEAN
  /\ OSIntNesting \in 0..NestMax
  /\ OSLockNesting \in 0..NestMax
  /\ OSTaskCtr \in Nat
  /\ OSRdy \in Bitmaps
  /\ OSPrioCur \in Prios64
  /\ OSPrioHighRdy \in Prios64
  /\ OSTCBCur \in TCBs \cup {NULL}
  /\ OSTCBHighRdy \in TCBs \cup {NULL}
  /\ OSTCBPrioTbl \in [AllPrios -> TCBs \cup {NULL}]
  /\ OSTCBList \in Seq(TCBs)
  /\ OSTCBFreeList \in Seq(TCBs)
  /\ OSTCBPrio \in [TCBs -> Prios64]
  /\ OSTCBStat \in [TCBs -> SUBSET StatBits]
  /\ OSTCBDly \in [TCBs -> Nat]
  /\ OSTCBDelReq \in [TCBs -> BOOLEAN]
  /\ context_frame \in [TCBs -> Contexts]
  /\ task_context_saved \in Contexts
  /\ progress \in [TCBs -> 0..(PcMod - 1)]

\* A task that exists and waits for nothing.
IsReady(t) == InList(t) /\ OSTCBStat[t] = OS_STAT_RDY /\ OSTCBDly[t] = 0

\* The ready list and the TCBs tell the same story: over any sequence of
\* delays, ticks, suspensions, creations, deletions and priority changes, the
\* bit of a priority is set exactly when a task of that priority exists, is
\* not suspended and has no delay running, and the group byte follows.
ReadyListExact ==
  /\ GrpSummarisesTbl(OSRdy)
  /\ \A p \in Prios64 : Contains(OSRdy, p) <=> \E t \in TCBs : IsReady(t) /\ OSTCBPrio[t] = p

\* OSTCBPrioTbl finds every task that exists at its present priority, and
\* nothing else: no entry is left behind by OSTaskDel or OSTaskChangePrio.
PrioTblExact ==
  \A p \in AllPrios, t \in TCBs :
    OSTCBPrioTbl[p] = t <=> InList(t) /\ OSTCBPrio[t] = p

\* No TCB is lost or used twice: each is once in one of the two chains,
\* OSTaskCtr counts the tasks, and the idle task, where OSTimeTick's walk
\* ends, stays at the tail of the chain behind every task created later.
TCBsConserved ==
  LET chain == OSTCBList \o OSTCBFreeList
  IN  /\ Len(chain) = NumTCBs
      /\ \A i, j \in 1..Len(chain) : chain[i] = chain[j] => i = j
      /\ OSTaskCtr = Len(OSTCBList)
      /\ \A i \in 1..Len(OSTCBList) :
           OSTCBPrio[OSTCBList[i]] = OS_TASK_IDLE_PRIO <=> i = Len(OSTCBList)

\* Whenever the scheduler is not locked, the CPU runs a task that is ready
\* and no ready task has a higher priority: no path that makes a task ready,
\* ends the running one or changes a priority forgets to reschedule.
RunsHighestReady ==
  OSRunning /\ OSLockNesting = 0 =>
    /\ OSTCBCur \in TCBs /\ IsReady(OSTCBCur)
    /\ \A t \in TCBs : IsReady(t) => OSTCBPrio[OSTCBCur] <= OSTCBPrio[t]

\* What partition_switch asserts of a partition it switches to, and panics
\* about ("corrupted OSTCBCur"): the partition timer can interrupt after any
\* call, so it has to hold after every call, with the scheduler locked too.
SwitchInAssertion ==
  OSRunning => OSTCBCur = OSTCBHighRdy /\ OSPrioCur = OSPrioHighRdy

\* No switch mixes up or loses a register context: the CPU returns to the
\* current task exactly where it left it, and the TCB of every other task
\* holds that task's own context as of its last step.
ContextIntegrity ==
  OSRunning =>
    /\ OSTCBCur \in TCBs
    /\ task_context_saved = [owner |-> OSTCBCur, pc |-> progress[OSTCBCur]]
    /\ \A t \in TCBs : InList(t) /\ t # OSTCBCur =>
         context_frame[t] = [owner |-> t, pc |-> progress[t]]

\* A task that holds the scheduler lock keeps the CPU through ticks that
\* make higher priorities ready and through every call it makes.
LockedTaskKeepsCPU ==
  [][OSRunning /\ OSLockNesting > 0 /\ OSLockNesting' > 0 =>
       task_context_saved'.owner = task_context_saved.owner /\ OSTCBCur' = OSTCBCur]_vars

\* Every tick brings every delayed task one tick nearer to its end, whatever
\* its place in the TCB chain, and nothing but a tick shortens a delay: other
\* steps leave it or end it (OSTimeDlyResume, OSTaskDel).
EveryTickCounts ==
  [][\A t \in TCBs : InList(t) /\ OSTCBDly[t] > 0 =>
       IF OSTaskTimerISR THEN OSTCBDly'[t] = OSTCBDly[t] - 1
                         ELSE OSTCBDly'[t] \in {0, OSTCBDly[t]}]_vars

\* A deletion request reaches the task it was made for: it stays until that
\* task is deleted, and a task created in the same TCB does not inherit it.
DeleteRequestFollowsTask ==
  [][\A t \in TCBs :
       /\ InList(t) /\ InList(t)' /\ OSTCBDelReq[t] => OSTCBDelReq'[t]
       /\ ~InList(t) /\ InList(t)' => ~OSTCBDelReq'[t]]_vars

\* The partition starts, and every delay ends: a task that waits for time is
\* sooner or later ready, unless it has been suspended or deleted meanwhile.
DelaysEnd ==
  /\ <>OSRunning
  /\ \A t \in TCBs : OSTCBDly[t] > 0 ~>
       (IsReady(t) \/ "SUSPEND" \in OSTCBStat[t] \/ ~InList(t))
=============================================================================
