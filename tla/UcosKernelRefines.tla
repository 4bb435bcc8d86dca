------------------------- MODULE UcosKernelRefines -------------------------
(***************************************************************************)
(* UcosKernel implements PrioScheduler: the ready list, the tables and the *)
(* chains are one way to keep the set of ready tasks, and the saved        *)
(* contexts one way to let each task resume where it stopped.              *)
(***************************************************************************)
EXTENDS UcosKernel

LiveTasks == {t \in TCBs : InList(t)}

\* Where a task stands: in the CPU's context if it is running, else in its TCB.
ContextOf(t) == IF t = OSTCBCur THEN task_context_saved ELSE context_frame[t]

PrioOf == [t \in LiveTasks |-> OSTCBPrio[t]]
DelayOf == [t \in LiveTasks |-> OSTCBDly[t]]
SuspendedTasks == {t \in LiveTasks : "SUSPEND" \in OSTCBStat[t]}
PcOf == [t \in LiveTasks |-> ContextOf(t).pc]
IsLocked == OSLockNesting > 0

Sched == INSTANCE PrioScheduler WITH
  Tasks     <- TCBs,
  NoTask    <- NULL,
  TaskPrios <- AllPrios,
  IdlePrio  <- OS_TASK_IDLE_PRIO,
  Delays    <- 1..MaxDly,
  PcMod     <- PcMod,
  live      <- LiveTasks,
  prio      <- PrioOf,
  delay     <- DelayOf,
  suspended <- SuspendedTasks,
  pc        <- PcOf,
  running   <- OSTCBCur,
  locked    <- IsLocked

\* Every step of the kernel is a step of the priority scheduler or changes
\* nothing a task can see: bitmap, chains, tables and context copies keep the
\* promise that the highest ready priority runs, where it stopped.
ImplementsPrioScheduler == Sched!SchedSpec
=============================================================================
