# A TLA+ model of the partitioned uC/OS-II for the C66x

The repository is a small hypervisor-like system for a two-core TI C66x: uC/OS-II
(`kernel/`) is instantiated once per *partition*, a partition scheduler (`klib/partition.c`)
gives each core's partitions the core in fixed slices, and the tasks of a partition run in
user mode behind a memory segment of their own. This directory holds TLA+ modules of that
system, TLC configurations that check them on small instances, and proofs that TLAPS checks.

Run `tlc -config X.cfg M` for a configuration and its module (table below) and `tlapm M.tla`
for the modules whose names end in `Proofs`.

## 1. The system

| Component | State | Operations | Talks to |
|---|---|---|---|
| Ready list (`os_core.c`) | `OSRdyGrp`, `OSRdyTbl`: two-level bitmap of priorities; `OSUnMapTbl` | set, clear, find least | every service |
| Kernel core (`os_core.c`, `os_cpu_a.asm`) | `OSTCBCur`, `OSTCBHighRdy`, `OSPrioCur`, `OSPrioHighRdy`, nesting counters, `OSTCBPrioTbl`, TCB chains, `task_context_saved`, a context per TCB | `OS_Sched`, `OSIntEnter/Exit`, `OSTimeTick`, `OSSchedLock/Unlock`, `OSStart`, `OS_TCBInit`, `OSCtxSw`, `OSIntCtxSw` | task timer (interrupt), task and time services (calls) |
| Task services (`os_task.c`) | TCB fields | create, delete, request deletion, suspend, resume, change priority | kernel core |
| Time services (`os_time.c`) | `OSTime`, `OSTCBDly` | delay, resume, set | kernel core |
| Partition scheduler (`partition.c`) | `pcb_list` (shared by the cores), `partition_current` and the kernel globals (per core) | add, start, schedule, switch, save, load | partition timer (interrupt), kernel globals (copied), XMC, timers |
| Timers, interrupts (`timer.c`, `intc.c`, `isr.c`) | IRQSTATUS of two timers shared by the cores, pending interrupts of each core | overflow, service, acknowledge | both schedulers |
| XMC (`xmc.c`) | slot table (shared), segment 3 of each core | allocate, activate | partition scheduler |
| Exception entry (`os_cpu_a.asm`, `isr.c`, `syscall.c`) | `task_context_saved`, EFR | save, decode, restore; three system calls | kernel |
| Boot (`main.c`) | which core has come how far | add partitions, start the other core, start the timers | all |
| Semaphores, mailboxes, queues (`os_sem.c`, `os_mbox.c`, `os_q.c`) | event control blocks with a wait list each, queue control blocks, two free lists, `OSTCBEventPtr`, `OSTCBStat`, `OSTCBStatPend`, `OSTCBMsg` | create, delete, pend, pend on several, accept, post (one or all, front), abort, set, flush | kernel core, tick (timeouts), task services (wait lists) |
| Mutexes (`os_mutex.c`) | owner, its own priority and the ceiling in an event control block; the ceiling's entry in `OSTCBPrioTbl` | create, delete, pend, accept, post | the same; ready list and wait list of the owner |
| Event flags (`os_flag.c`) | groups, nodes on the stacks of waiting tasks | create, delete, pend, accept, post | kernel core, tick, deletion of tasks |
| Memory partitions (`os_mem.c`) | control blocks, links inside the free blocks | create, get, put | - |
| Software timers (`os_tmr.c`) | timer pool, wheel of doubly linked lists, `OSTmrTime` | create, delete, start, stop, remaining time, state, signal; the timer task | a semaphore, the scheduler lock, callbacks |
| Console (`printf.c`, `uart.c`), debug tables | none of interest | | |

What is hard in it:

* **Interleaving.** The kernel runs with interrupts disabled, so a handler is atomic on its
  core; but the partition timer may interrupt a partition between any two of its steps, at any
  state of its scheduler, and the two cores interleave on the timers and on `pcb_list`.
* **Two nested switches over one context.** A core has one `task_context_saved`. Task switches
  and partition switches copy it to and from TCBs; so do the kernel globals, of which a
  partition switch copies some (`OSRdyGrp`) and redirects pointers for others (`OSRdyTbl`).
* **Redundant state.** A task's readiness is in its TCB and in the bitmap; its priority in
  its TCB, in `OSTCBPrioTbl`, in the bitmap and, for the current task, in `OSPrioCur`. Every
  service updates its own part.
* **Long call sequences.** Delays, suspensions, locks, deletions and priority changes combine;
  TCBs are reused.
* **A pend in two halves.** A pend enters a wait list, calls `OS_Sched`, and looks at its TCB when the
  task runs again. In between, ticks, posts, aborts, deletions, suspensions and priority
  changes meet a task that waits, that has been answered, or that has timed out and is still
  in the list.
* **Priority inheritance.** A raised owner is at its ceiling in the ready list, its TCB and the
  priority table, and has to come back from all three.
* **Callbacks in a walk.** A timer's callback calls the timer services while the timer task is
  in the middle of the list they change.
* **Time.** Ticks may come while the scheduler is locked, are counted only in a partition's own
  slices, and merge when a core is late. `OSTmrTime` wraps.

For each component, what makes it correct: the bitmap is a set with a minimum; the kernel always
runs the highest ready priority, unless locked, and each task resumes where it stopped; the
kernel's tables agree; delays end; a partition is never changed by another and always
resumes as it was left; partitions have exactly their slices in turn; no tick is lost
between the cores; the wait lists hold exactly the tasks that wait, every pend returns exactly
the answer it was given, once, a mutex has one owner and nobody delays it, flags answer everyone they
satisfy, pools lose nothing, and a timer expires in exactly its tick.

`PROJECT.json` lists every hazard with its line and the properties for it.

## 2. Modules

| Module | Models | State and actions |
|---|---|---|
| `PrioBitmap` | the bitmap operations the kernel writes inline | pure operators; a byte is the set of its 1 bits |
| `PrioBitmapProofs` | - | that they implement insertion, deletion and minimum of a set of priorities, proved |
| `UcosKernel` | one kernel instance: `os_core.c`, `os_task.c`, `os_time.c`, the two context switches | the kernel's globals under their names; one action per service, the tick, start-up, and a step of the running task |
| `PrioScheduler` | nothing: the abstract specification of a kernel | a set of tasks, each ready, delayed or suspended, and a CPU |
| `UcosKernelRefines` | the refinement mapping of `UcosKernel` to `PrioScheduler` | |
| `UcosKernelProofs` | - | the inductive invariant of `UcosKernel` and what follows from it; that contexts stay with their tasks and the lock with the CPU, that ticks reach every delay and deletion requests follow their tasks; that it implements `PrioScheduler`: proved |
| `PartitionSched` | `partition.c`, `isr.c`, `xmc.c`, `timer.c`, the order of `main.c`, with a kernel that has delays only | per core: globals, pointers, current partition, segment, pending interrupts; shared: contexts, slices, timers |
| `TimeSlices` | nothing: the abstract cyclic schedule | who has each core, and for how long |
| `PartitionSchedRefines` | the refinement mapping to `TimeSlices` | |
| `PartitionSchedProofs` | - | the inductive invariant of `PartitionSched`, every safety property the runs check of it, and the refinement, proved |
| `KernelArithmetic` | `OSUnMapTbl`, the conversion of `OSTimeDlyHMSM`, the timer's interval | the last computation |
| `KernelArithmeticProofs` | - | that the table and the conversion are right for every byte and all arguments, and that the conversion does not overflow; proved |
| `UcosTasks` | TCBs, ready list, wait lists, tick, task and time services, `OS_EventTaskRdy`, `OS_EventTaskWait`, `OS_EventTaskRemove`, `...Multi`, as the event services see them | priorities as sets; `pc` tells where in a pend a task is |
| `UcosEvents` | `os_sem.c`, `os_mbox.c`, `os_q.c`, `OSEventPendMulti` | event and queue control blocks with their free lists; one action per service, and one for the second half of a pend |
| `UcosMutex` | `os_mutex.c` | on `UcosEvents`; the priority table with reserved ceilings |
| `UcosFlags` | `os_flag.c` | groups and nodes |
| `UcosMem` | `os_mem.c` | control blocks and the first word of every block |
| `UcosServices` | - | the composition of the five; task deletion and creation, in which several have a part |
| `EventService` | nothing: the abstract specification of semaphores, mailboxes, queues and mutexes | a stock per event, or tasks that wait, and an answer per task |
| `UcosServicesRefines` | the refinement mapping of `UcosServices` to `EventService` | |
| `UcosServicesProofs` | - | the pools of control blocks and memory blocks of `UcosServices`; lemmas on the values of TCBs, lists and mutexes, what one task's change does to them; the inductive invariant of the waiting tasks, the mutexes and the flag nodes and what follows from it; proved |
| `UcosStoresProofs` | - | what the control blocks and queues of `UcosServices` hold, and with it the types of all its variables; that no task waits for flags that are as it wants them, and that owners of mutexes are above those who wait; proved |
| `UcosEventServiceProofs` | - | that `UcosServices` implements `EventService`: one lemma per service that says which abstract step it is; proved |
| `UcosTimers` | `os_tmr.c` | the timers with their pointers, the spokes, `OSTmrTime`; one action per service and per step of `OSTmr_Task`'s loop |
| `CountdownTimers` | nothing: the abstract specification of timers | ticks that remain for each timer |
| `UcosTimersRefines` | the refinement mapping to `CountdownTimers` | |
| `UcosTimersProofs` | - | the inductive invariant of `UcosTimers`, what follows from it, and the refinement, proved |
| `MC*` | constants for TLC | |

### How the code maps to the modules

* `OS_ENTER_CRITICAL` is empty in this port. The kernel is entered by exception or interrupt,
  with interrupts disabled until the return to the task. Each service is therefore one action,
  its trailing `OS_Sched` or `OSIntExit` included. What a service checks first and refuses is a
  stuttering step and does not appear.
* A switch does not return to its caller: `OSCtxSw` and `OSIntCtxSw` branch to the context
  restore. Nothing that follows `OS_Sched` in a service runs after a switch. The
  modelled services have nothing there but a return.
* A TCB is a number, a TCB chain a sequence. The two chains share a link field in the code;
  `TCBsConserved` is what makes that harmless, and a pointer-level module is planned.
* A register context is `[owner, pc]`: whose it is and how far that task has run. A context
  saved in the wrong place, not saved, or restored twice shows as a wrong owner or a `pc` that
  differs from the history variable `progress`.
* `UcosKernel` lets a task make any call of the kernel API, not only the delay that the system
  calls export, because those services are what the kernel is for. `PartitionSched` has what
  the repository's tasks can reach: delays, computation, and an idle task that makes no calls.
* The idle task is never suspended, moved or deleted. The code guards only deletion, since
  `OS_ARG_CHK_EN` is 0; the model keeps to the documented use of the other two services.
* `LockedSelfCalls` says whether a task may delete or move *itself* while it holds the scheduler
  lock. The code does not refuse it, and it breaks the kernel (finding 1); it is empty in all
  other runs, and a hypothesis of the theorems that need it.
* Operators whose names begin with `Fault` are plausible errors in the definition that follows
  them. None is used by a specification; substituting one for that definition makes TLC
  report a violation of the property named in `PROJECT.json`, which shows that the property
  depends on that piece of code.

### The event services and timers

`os_cfg.h` compiles these services out (`OS_SEM_EN` and the like are 0). Their sources are in the
kernel and complete, and are modelled as they stand, with every `OS_..._EN` on and argument
checking off.

* *Halves of a pend.* The first half is the action of the service, up to `OS_Sched`; the second,
  everything after it, is `PendReturns` (`FlagPendReturns`), taken when the task is current
  again. Each half is in one critical section. Services that do not wait are one action, their
  `OS_Sched` at the end included.
* *A switch that returns.* The sources are written for an `OS_Sched` that returns when the task runs
  again. On this port it does not: `OSCtxSw` and the context restore resume a task in its own
  code. `SwitchReturns` chooses; the run takes TRUE. With FALSE the second half never runs after a
  switch and `WaitListExact` fails at the first timeout (`os_sem.c:339`): whoever switches
  these services on has to change the port first.
* *Interrupt handlers* may accept from semaphores, mailboxes, queues and flag groups, post, abort,
  set a semaphore, flush, get and put blocks at any point (`AnyCall`); tasks make the other calls (`TaskCall`).
* *Applications.* `Applications` is a set of applications, each with its tasks and the services they
  call. A behaviour is that of one of them: `calls` is chosen at the start and never changes.
  Together they combine each object with the task services that bear on its lists.
* *Hazards* names the sequences of calls that break a property and that no comment or check of the
  code forbids; each is a conjunct of the guard of the call that completes it, which can
  happen only if the constant lets it in. `ChangePrioAnswered` is finding 3. `SuspendMulti`: a
  task suspended inside `OSEventPendMulti`, answered and resumed is never made ready
  (`ReadyListExact`). `DeleteMulti`: a task in `OSEventPendMulti` whose event is deleted returns with
  its TCB not cleared (`ImplementsEventService`). `SuspendMutexPend`: a task is given a mutex while
  suspended inside its pend, and raising it puts it into the wait list (`WaitListExact`).
  `DeleteRaised`: `OSMutexDel` with `OS_DEL_NO_PEND` frees the ceiling a raised owner runs at
  (`PriorityTableExact`). `SuspendRaisedSelf`: a raised owner suspends itself by its own
  priority (`ReadyListExact`). `SuspendLockedSelf`: a task suspends itself under the scheduler lock
  and runs on (`CurrentTaskReady`; with a raised mutex also `ReadyListExact`). `DeleteOwned` is
  finding 5, `RecreateMutex` finding 6 (`MutualExclusion`): `OSMutexCreate` with a control block at the
  head of the free list on which a task is still inside `OSMutexPend`. TLC finds each in a few steps when it is put into the
  constant, with an application that has the calls; the run `Services` has none of them.
* *Restrictions that the code documents*: an owner of a mutex pends on nothing and takes no second
  mutex, its priority is not changed (`NotesKept`) and it is not deleted, ceilings are above all
  tasks (`os_mutex.c`, notes of `OSMutexPend`, `OSMutexDel`, `OSMutexCreate`). Besides, a task does not delete
  or move itself under the scheduler lock (that is `UcosKernel`'s finding 1).
* *Deletion and post.* A deletion answers those who wait as the code does: with `OS_ERR_NONE` and no
  message. On a semaphore or mutex that is what a post gives, and `EventService` promises no more, so
  `ImplementsEventService` does not say that a task can tell that the event is gone: it cannot
  (finding 7). What a mutex pend so answered returns is not counted as owning the deleted mutex (`MutexPendReturns`).
* *Timers.* Every service holds the scheduler lock, and so does `OSTmr_Task` through a spoke: services
  run between walks or in callbacks, `OSTmrSignal` at any time. Timers are created with the
  arguments `OSTmrCreate` accepts where it checks them, and with delays below the range of `OSTmrTime`.
  `MayCallOnNext` says whether a callback may call a service on the timer that the walk has
  saved as the next one (finding 4).
* *Refinements.* In `EventService` a task waits as long as it is in the list: a timeout takes effect
  only when its task runs, and a post before that wins; its answer is the TCB's until the pend
  has returned. What a handler accepts from an event is taken away and answers no task (`TakeAway`). In `CountdownTimers` what remains of a timer is what `OSTmrRemainGet` returns.

### Fairness

`UcosKernel`: the boot code runs to its end and the task timer keeps interrupting (weak
fairness of `PartitionAdd`, `OSStart`, `OSTaskTimerISR`). The timer reloads itself
(`GP_TIMER_TCLR_VAL_AR_ST`) and its handler can run whenever a task does. Tasks are owed
nothing and may loop for ever.

`PartitionSched`: the same, for both timers and each core's handlers. A core services the task
timer (vector 4) before the partition timer (vector 5), so a core that was always late could
starve the latter; liveness is checked with `Prompt`, under which pending interrupts are
serviced before the next overflow, that is within 100 ms. Safety is checked without it.

## 3. Runs

| Run | Module | Checks | Instance |
|---|---|---|---|
| `Kernel` | `MCUcosKernel` | `TypeOK`, `SwitchInAssertion`, `ContextIntegrity`, `ReadyListExact`, `RunsHighestReady`, `PrioTblExact`, `TCBsConserved`, `LockedTaskKeepsCPU`, `ImplementsPrioScheduler`, `EveryTickCounts`, `DeleteRequestFollowsTask`, `DelaysEnd` | 3 TCBs, 4 priorities in 3 rows, progress mod 2, nested lock |
| `KernelLockedSelf` | `MCUcosKernel` | `SwitchInAssertion` is violated | finding 1 |
| `Partitions` | `MCPartitionSched` | `TypeOK`, `SegmentIsCurrent`, `SwitchInNeverPanics`, `SplitReadyListExact`, `RunsHighestReady`, `ContextIntegrity`, `NoTickStolen`, `PartitionsIsolated`, `ImplementsTimeSlices` | 3 partitions on 2 cores, slices 1 and 2, progress mod 2 |
| `PartLive` | `MCPartitionSched` | `PartitionsTakeTurns`, `DelaysEnd` | the same, delays of 2, `Prompt` |
| `Services` | `MCUcosServices` | `TypeOK`, `WaitListExact`, `ReadyListExact`, `CurrentTaskReady`, `PoolsConserved`, `MutualExclusion`, `NoPriorityInversion`, `PriorityTableExact`, `FlagNodesExact`, `NoSatisfiedWaiter`, `BlocksConserved`, `ImplementsEventService` | 15 applications of 1 to 3 tasks, 2 events, a queue of 2, a flag group of 2 bits, 2 memory partitions of 3 blocks |
| `ChangePrioWaiting` | `MCUcosServices` | `WaitListExact` is violated | finding 3 |
| `DeleteOwned` | `MCUcosServices` | `CurrentTaskReady` is violated | finding 5 |
| `RecreateMutex` | `MCUcosServices` | `OneOwner` is violated | findings 6 and 7 |
| `Timers` | `MCUcosTimers` | `TypeOK`, `WheelExact`, `ImplementsCountdown` | 3 timers, 2 spokes, time mod 4 |
| `TimerCallback` | `MCUcosTimers` | `OnlyRunningExpire` is violated | finding 4 |
| `Arithmetic` | `MCKernelArithmetic` | `TableFindsLeastBit`, `DelayIsNearestTick` | all 256 bytes; arguments at the bounds of their types |
| `ArithmeticTimer` | `MCKernelArithmetic` | `DelayLastsAsAsked` is violated | finding 2 |

Bounds. Two tasks besides idle suffice for a preemption and a resumption, and to have one
suspended or deleted while the other and the idle task switch. With three TCBs and tasks that are
deleted, a TCB is reused, at its old priority or another: there is one priority more than there are tasks. Priorities are in several rows of the bitmap and two share a row, so that both `OSRdyGrp`
and `OSRdyTbl` decide. Delays of 2 run out over two ticks, so a delay can be
suspended, resumed and ended in its middle. `NestMax` 2 stands for 255: the counters reach
their limit. `TimeMod` and `PcMod` make `OSTime` and `progress` finite. With `PcMod` 2
a context one step old is told from a fresh one. Slices of 1 (no countdown) and 2 (a
countdown) and cores with one partition and with several cover the branches of
`partition_schedule`. `Ratio` is the number of task timer periods per partition timer period,
10 in the code; with 1, partition switches are as frequent as they can be relative to ticks.

For the services: two tasks suffice for a poster and a waiter, and for two waiters with a
handler that posts; three are needed for a mutex (owner, waiter, and a task in between or a
second waiter). With two events a pend on several has one answered and one left, and a
deleted event control block is used again. A queue of two wraps after two messages and tells
first from last; a semaphore counts to 2; timeouts of 1 expire in the next tick, and 0 waits
for ever. One memory partition has three blocks, so that a free list has a middle. Three timers
on two spokes give a spoke with a first, a middle and a last; delays of 3 are more than a
turn of the wheel, and time wraps at 4.

Deadlock is checked in every run.

## 4. Findings

1. *Changing one's own priority under the scheduler lock* (`KernelLockedSelf`). `OSTaskChangePrio`
   leaves it to `OS_Sched` to bring `OSPrioCur` up to date, by a switch of the task to itself;
   with the scheduler locked that does not happen. If a task is then created at the old
   priority and the lock released, `OS_SchedNew` finds that priority, `OS_Sched` takes it for
   the current one and does not switch, and the next `partition_switch` into this partition
   panics ("corrupted OSTCBCur"). No system call exports these services today.
2. *Tick rate* (`ArithmeticTimer`). `os_cfg.h` says 100 ticks per second, `timer_init`
   starts a 100 ms timer. `OSTimeDlyHMSM` delays last ten times too long.

3. *Priority of an answered task* (`ChangePrioWaiting`). `OS_EventTaskRdy` takes a task out of the wait
   list and leaves `OSTCBEventPtr` set until the task has run and clears it.
   `OSTaskChangePrio` takes a set `OSTCBEventPtr` for waiting and enters the new priority in the
   list. The task is then in the wait list of an event it got its answer from: the next post
   goes to it and is lost.
4. *Callback on the next timer* (`TimerCallback`). `OSTmr_Task` reads the next timer of the spoke before the
   callback. If the callback stops, deletes or restarts exactly that timer, the walk goes on
   from a timer that is no longer in the list: a stopped timer that was due expires all the same, through a
   null `OSTmrPrev`, and the rest of the spoke is skipped.
5. *Deleting the mutex of another task* (`DeleteOwned`). `OSMutex_RdyAtPrio` sets `OSPrioCur` to the priority the owner
   gets back, as if the owner were running. `OSMutexDel` calls it for whoever owns the mutex. Under the
   scheduler lock no switch corrects it; when the owner is then the highest ready task, `OS_Sched` takes it for
   the current one and a pend of the wrong task goes on without waiting.

6. *A mutex created where one was deleted* (`RecreateMutex`). `OSMutexCreate` takes the head of the free list, and
   `OSMutexDel` puts the control block it deletes there. A task that waited for the deleted mutex, answered by
   the deletion, has not run; the task that deleted it creates a mutex, gets the same control block and takes it. Then
   the pend of the first returns `OS_ERR_NONE` ("your task owns the mutex"), and both own it.
7. *A deletion looks like a post* (`RecreateMutex`). The notes of `OSMutexDel` and `OSSemDel` say that tasks
   must check the return code of their pend, but those who wait are readied with `OS_STAT_PEND_OK`, and their
   pend returns `OS_ERR_NONE`, by its own notes "your task owns the mutex", or the resource. In the trace of the run that is the last
   step: the pend on the deleted mutex returns `OS_ERR_NONE`. A mailbox returns a null message as well.

## 5. Proofs

All proofs are for every value of the constants that satisfies `ConstantsAssumption` and
`BootAssumption` (`UcosKernel`), `PartitionAssumption` (`PartitionSched`), `TimersAssumption`
(`UcosTimers`), or `TasksAssumption`, `EventsAssumption`, `MutexAssumption`, `FlagsAssumption` and
`MemAssumption` (`UcosServices`), or `ArgumentsAssumption` (`KernelArithmetic`): any number of TCBs, cores, partitions, timers, tasks, events, flag groups and
memory blocks, any priorities below 64, any delays, slices, wheels and limits, any set of
applications, any assignment of partitions to cores that gives each core one. Some theorems state
a further hypothesis, one without which they are false:

* the kernel's, `LockedSelfCalls = {}` (finding 1);
* the timers', `MayCallOnNext = FALSE` (finding 4);
* `WaitListsAreExact`, `NoWakeupIsLost`, `CurrentTaskIsReady`, `MutexesExclude`, `PriorityTableIsExact` and
  `FlagNodesAreExact`, `SwitchReturns = TRUE`, for without it a pend that has timed out never
  leaves its wait list, and `Hazards = {}`, for each member of it breaks one of them or
  `ImplementsEventService` (findings 3, 5 and 6, section 2). `MutexesExclude` so says nothing of an application that creates
  a mutex in the control block of one just deleted (`RecreateMutex`), where it is false. `ServicesTypes` and
  `ServicesImplementEventService`, which rest on their invariant, take over both;
* `NoFlagIsMissed`, besides these two, `FlagsUnmixed`: no application waits for set flags, waits for clear
  flags and consumes flags. Consuming looks for no waiting task (section 6);
* `OwnersOutrankWaiters`, besides these two, `PriosFixed`: no application uses both mutexes and
  `OSTaskChangePrio`. That service looks at no mutex: it may give a task that waits for one a priority
  above that of the owner, who is not raised then;
* `DelaysAreRounded`, `1000 % OS_TICKS_PER_SEC = 0`, as 100 does: at another rate a tick is no whole number of ms,
  which `DelayIsNearestTick` counts in.

| Theorem | Module | States |
|---|---|---|
| `HighestIsMinimum` | `PrioBitmapProofs` | `OS_SchedNew`'s two table lookups give the least member of a bitmap that is not empty |
| `TableIsRight` | `KernelArithmeticProofs` | `TableFindsLeastBit` is an invariant |
| `TicksFit` | `KernelArithmeticProofs` | no step of the `INT32U` computation of `OSTimeDlyHMSM` overflows |
| `DelaysAreRounded` | `KernelArithmeticProofs` | `DelayIsNearestTick` is an invariant |
| `KernelInvariant` | `UcosKernelProofs` | `Spec => []IInv`, the inductive invariant |
| `TypeCorrect`, `ReadyListCorrect`, `PrioTblCorrect`, `TCBsAreConserved`, `HighestPriorityRuns`, `SwitchInAssertionHolds` | `UcosKernelProofs` | `TypeOK`, `ReadyListExact`, `PrioTblExact`, `TCBsConserved`, `RunsHighestReady`, `SwitchInAssertion` are invariants |
| `ContextsKept` | `UcosKernelProofs` | `ContextIntegrity` is an invariant |
| `LockKeepsCPU` | `UcosKernelProofs` | `LockedTaskKeepsCPU`, with or without `LockedSelfCalls` |
| `TicksReachEveryDelay` | `UcosKernelProofs` | `EveryTickCounts` |
| `RequestsFollowTasks` | `UcosKernelProofs` | `DeleteRequestFollowsTask` |
| `KernelImplementsScheduler` | `UcosKernelProofs` | `UcosKernel` implements `PrioScheduler`; assumes also `NestMax > 1` |
| `PartitionsInOrder` | `PartitionSchedProofs` | `Spec => []IInv`, the inductive invariant of the partition scheduler |
| `PartitionSchedTypes`, `MemoryIsSeparated`, `SwitchInIsSafe`, `ReadyListHalvesFit`, `HighestReadyRuns`, `ContextsAreKept`, `NoTickIsStolen` | `PartitionSchedProofs` | `TypeOK`, `SegmentIsCurrent`, `SwitchInNeverPanics`, `SplitReadyListExact`, `RunsHighestReady`, `ContextIntegrity`, `NoTickStolen` are invariants |
| `PartitionsAreIsolated` | `PartitionSchedProofs` | `PartitionsIsolated`, an action property |
| `SchedulesCyclically` | `PartitionSchedProofs` | `PartitionSched` implements `TimeSlices` |
| `TimersInOrder` | `UcosTimersProofs` | `Spec => []TimersInv`, the inductive invariant of the timers |
| `TimersTypes`, `WheelStaysExact` | `UcosTimersProofs` | `TypeOK` and `WheelExact` are invariants |
| `StoppedTimersStay` | `UcosTimersProofs` | `OnlyRunningExpire`, an action property |
| `TimersCountDown` | `UcosTimersProofs` | `UcosTimers` implements `CountdownTimers` |
| `NoBlockIsLost`, `NoControlBlockIsLost` | `UcosServicesProofs` | `BlocksConserved` and `PoolsConserved` are invariants |
| `WaitListsAreExact`, `NoWakeupIsLost`, `CurrentTaskIsReady` | `UcosServicesProofs` | `WaitListExact`, `ReadyListExact`, `CurrentTaskReady` are invariants |
| `MutexesExclude`, `PriorityTableIsExact` | `UcosServicesProofs` | `MutualExclusion` and `PriorityTableExact` are invariants |
| `FlagNodesAreExact` | `UcosServicesProofs` | `FlagNodesExact` is an invariant |
| `ServicesTypes` | `UcosStoresProofs` | `TypeOK` of `UcosServices` is an invariant |
| `NoFlagIsMissed` | `UcosStoresProofs` | `NoSatisfiedWaiter` is an invariant |
| `OwnersOutrankWaiters` | `UcosStoresProofs` | `NoPriorityInversion` is an invariant |
| `ServicesImplementEventService` | `UcosEventServiceProofs` | `UcosServices` implements `EventService` |

*The bitmap.* `AddIsInsertion`, `AddAllIsUnion`, `RemoveIsDeletion` say what the inline operations
do to `Members`, the set a bitmap stands for, and that they keep the group byte in step. After
them no proof looks inside a bitmap.

*The arithmetic.* `LeastOfByte` finds the least bit of a byte by what its last bits are; `TableEntry` follows the table's own
layout: a row that is the same for all bytes but in its first entry, which only a byte with no low bits looks up. The rounding is shown
on inequalities between products, because the provers know little of a division by something that is not a number: with `d`
the ms in a tick, `RoundsToNearest` says that `500 \div OS_TICKS_PER_SEC` is half of `d`, cut off, and that the division by
1000 then cuts off less than a tick. The whole seconds are whole ticks. `TicksFit` bounds each intermediate value for the whole range of
the types, since with `OS_ARG_CHK_EN` 0 nothing else bounds the arguments.

*Why the invariants need each other.* None of them is inductive. `OS_Sched` indexes
`OSTCBPrioTbl` with the bit it finds, so that it finds a task, and not the null pointer, needs
the bitmap and the table to be exact and some bit to be set: even `TypeOK` rests on the idle task
existing and never waiting. The table is exact only if no TCB is in a chain twice. A service
that ends or moves the current task is right only because the current task was the highest
ready one before.

*The invariant.* `IInv` has two parts. `DataInv` relates the chains, the table, the ready list and
the TCBs, and says that the idle task is at the tail of the chain and never waits. Every
service keeps it by what it does before it reschedules, whoever the current task is
(`WaitChanges`, `TCBInitKeepsDataInv`, `TickKeepsDataInv`, `TaskDelKeepsIInv`,
`TaskChangePrioKeepsIInv`). `RunInv` describes the current task: it exists, the globals
agree on it, and with the scheduler unlocked it has the highest bit. `OSSchedIsRight` shows that
`OS_Sched` reestablishes `RunInv` from `DataInv` alone, under one condition that each service
has to meet: *unless a switch is certain, `OSPrioCur` still leads to `OSTCBCur`*. It is here that
`OSTaskDel` and `OSTaskChangePrio` on the caller fail under the lock. `BootInv` carries the
existence of the idle task from `partition_add` to `OSStart`.

*Contexts.* `CtxInv` adds that the saved context of every task but the current one is in its
own TCB. With `IInv` it is inductive: one lemma about a switch, one about a new task's
context, and for every other service that it leaves chains and contexts alone.

*Ticks and deletion requests.* Two properties of steps, from `IInv` alone. The walk of a tick
stops at the idle task; `WalkReachesDelayed` shows that no delayed task can stand behind it, because
the idle task is the last of the chain and is itself never delayed. `OSTimeDly` overwrites no running delay,
because its caller runs unlocked and so is ready. A request survives because only `OS_TCBInit`
clears it, in a TCB that no task had (`NewTaskHasNoRequest`).

*The refinement of `PrioScheduler`.* `RefInv` adds to `IInv` and `CtxInv` that nothing runs or is locked
before `OSStart` and that no pend bit is ever set (the event services are compiled out).
Every action of `PrioScheduler` ends in the same `Dispatch`, and every action of the kernel
meets it for the same reason (`Dispatches`): either `OS_Sched` saw the lock and left the CPU, or the lock
is free and `IInv` after the step says that the highest ready task has it. What is left of
each step is the data: `MappedTogether` says which abstract variable moves with which variable of the
kernel, `UnlinkTakesOne` and `TCBInitMaps` follow the chain, `WalkReachesDelayed` the tick. `NestMax > 1` is
needed because `OSTaskDel` locks and unlocks around its work, and skips the lock but not
the unlock when the counter is full: with a limit of 1 it would unlock the scheduler of a caller
who holds it (in the code, from 255 to 254).

*The partition scheduler.* Its seven conjuncts need each other for one reason: what a partition
*is* lies partly on the core and partly in its PCB, and where the border runs changes at a
switch. `GlobalsOf(p)` and `InCPU(p, t)` name the place that holds the truth. `KernelInv` says that
wherever the globals of a partition are, they make one bitmap with the half of the ready list that
stays in the PCB, that the bitmap has the tasks without a delay, and that the globals agree on
its least member. `FrameInv` says that every task but the one in a CPU has its context in its
TCB. `CoreInv` says what a running core holds: a partition of its own, that partition's pointers
and segment, and in `task_context_saved` the context of the task that `OSPrioCur` names. That task
is the one `partition_switch` saves under `OSTCBCur`, so `CoreInv` is what makes `FrameInv` survive a
switch, and `KernelInv` of a partition that is away is what makes `CoreInv` true again when
it returns. `SlotInv` (the XMC slot of a partition is its number), `DelayInv` (the idle task has no
delay, so a ready list is never empty) and `BootInv` (core 0 adds everything before any core
starts) hold this up from the boot.

Three lemmas carry the induction. `RescheduleKeepsIInv`: a kernel service or tick that changes a
ready list and delays together, and then reschedules, keeps `IInv`. `EnterKeepsIInv`: so does
loading a partition on a core, whether by `partition_start` or `partition_switch`,
provided that what was there before has been saved (`EntersInOrder`); `SwitchSaves` discharges that
for a switch at an arbitrary state of the interrupted kernel. The third,
`OthersUntouched`, says which components of which partitions an action can
reach; isolation follows from it and `IInv`. `NoTickStolen` is a matter of the two shared
timers alone: an overflow is pending for each core until that core counts it. For the refinement,
`StartBegins` and `HandlerTicks` map the search through `pcb_list`, with its wrap and its skipping
of the other core's partitions, to the cyclic successor; every other action is a stutter.

*The timers.* A linked list is hard to reason about step by step: what its pointers reach
depends on all of them. `TimersInv` describes the lists by *ranks*: there are numbers for the timers
such that in each spoke, and in the free list, `OSTmrNext` leads from every timer to the one of the
next rank and `OSTmrPrev` back. Linking gives the new first a rank below the others', taking a timer out
leaves the ranks of the others as they are (`ChainWithout`, `ChainWithHead`), so a change of a list is a
local change, and the other lists stay (`UnlinkWorks`, `LinkWorks`). The ranks also say where the walk
is: every timer that is due at this `OSTmrTime` is the saved one or behind it (`DueAhead`). A timer
that is linked during the walk goes before the first, where the walk would miss it; it is never due now,
because every delay is less than a turn of `OSTmrTime` and not 0 (`LinkedAhead`). So the walk ends with
no timer due, which is what `Tick` of `CountdownTimers` asks. The one way to break it is to move the
saved timer itself: `CallsOffSaved` is where `MayCallOnNext = FALSE` is used.

`ListFrom`, which `WheelExact` is stated with, is a recursive function. `LeastNatural` derives
induction over the natural numbers, in the form of a least counterexample, from the library's
theorem that `<` is well-founded; with it `ListsExist` shows that the function is defined and
`ChainExact` that along a chain its value is the chain, each timer once.

*Pools.* `MemInv` keeps, for each memory partition, a witness: a sequence that lists the free blocks
once each, in the order of their links (`ChainOf`). `OSMemGet` drops its head, `OSMemPut` puts a block before it, and no other
link changes, because a block is written only while it is free. `PoolsInv` says of the two free lists of the event services that they
list exactly the control blocks no object has, and that no two queues share a queue control block. Every service of
the nine kinds of object is one of three steps to it: it creates one object, deletes one, or changes neither types nor
pointers (`EventsPools`, `MutexPools`).

*The waiting tasks.* A service finds a task through a bit: in a wait list, in the ready list, in the priority
table. Which task that is, and whether it is the right one, no list says by itself: it takes the TCB, how
far the task is in its pend (`pc`), the type of the event, and that no two tasks have the priority.
`KernelInv` therefore has four parts that only hold together.

`Data` goes through the tasks. `Shape` says for each place a task can be in (in its own code, in a pend on one
event, on several, on flags) what its TCB can hold there: which pend bits, when `OSTCBEventPtr`, `OSTCBEventMultiPtr` and
`OSTCBDly` are cleared, and that a task that waits does so on an event that exists and has the type of the
bit. `Uniq` says that priorities differ, and the last conjuncts that the ready list and each wait list are the
priorities of the tasks that may run (`RunSet`) and that wait (`WaitSet`). `OwnersOK` and `HoldsOK` are the
mutexes: a free one has nobody waiting; the owner of another is live, runs at the saved
priority or at the ceiling, and is the task that holds it or was just given it, and ceilings differ.
`TableOK` is `OSTCBPrioTbl`: the tasks at their priorities, raised owners also at their saved ones, ceilings reserved.
Last, `OSPrioCur` is the current task's and is ready. They need each other: an owner is raised by
moving its bit in the ready list or in a wait list, which is right only if `Shape` says in which; its fall
finds the right owner only by `HoldsOK`; the ceiling it moved to is nobody else's only by `TableOK`; and the next `OS_Sched`
finds a task in the table only because the ready list holds priorities of tasks.

The induction separates what changes from what stays. Almost every service changes one task
(`OneData`, `TcbStep`), all tasks that wait on one event (`ManyData`: deletion and broadcast), or the priority of
one (`MovedData`: `OSTaskChangePrio`, and the raise and fall of an owner). These lemmas speak of values only, and
`ShapeOfAnswered`, `ShapeOfTimedOut` and the like say what `OS_EventTaskRdy`, the tick or a resumption make of one TCB.
`SchedKeepsCurrent` is the part of `OS_Sched`. It remains to show of every service that it is such a change. Two services
are two in one: `OSMutexPend` raises the owner and then starts to wait, `OSMutexPost` lowers it and then answers the
waiter that becomes the owner.

*The nodes of event flags.* A node lies on the stack of the task that waits, and `OSFlagPost` walks the nodes.
`NodesInv` ties each to its task: a task has a node as long as it is in `OSFlagPend`, and the node is in the list of one
group, the one it names, as long as nothing has answered. What the other services have to do for that is to leave these
tasks alone (`FlagPendsStay`): a post to an event, a timeout or a deletion that took an answer for another's would
end a flag pend and leave its node behind. `OSTaskDel` is the one that has to unlink a node it finds
(`OS_FlagUnlink`), and `OSFlagCreate` gets a group that is nobody's by the free list being exact.
The proof of each of these steps uses `KernelInv`, and that of `KernelInv` uses `PoolsInv`: the control block of a new event
is nobody's.

*What the services store.* `StoresInv` gives each event control block one of five shapes by its type: a free one
is blank, a semaphore counts from 0 to its greatest count, a mailbox has a message or none, a queue a control block, a mutex two
priorities in 16 bits and an owner or none. Each ring buffer has offsets and an entry count that agree (`RingOK`), which
is what keeps `OSQIn` and `OSQOut` inside the storage through posts at either end, reads and flushes (`RingPosted`, `RingTaken`,
`RingFlushed`). The shape of a block follows its type through deletion and reuse; that the pointer of a new queue
leads to a queue control block comes from `PoolsInv`, and that the priorities a mutex stores fit in a byte each from `KernelInv`.

*Flags and what is consumed.* `UnmetInv` says of each node in the list of a group that the flags do not fulfil it,
and of each pend under way that its wait type is one the application calls with; the second part is what
lets `FlagsUnmixed` speak about the node. `OSFlagPost` is the clear step: it goes through the whole list and answers what
it fulfils. The other is the second half of a pend, where the task takes its flags and may consume them, long after
the post that answered it: all nodes in the list are then of one type (`SameWaitType`), and what is consumed only moves the
flags away from what that type waits for (`ConsumingAnswersNobody`).

*Owners and those who wait.* That the owner of a mutex with a ceiling is above every task in its wait list
(`OwnersAbove`) is not inductive: a hand-over makes the highest waiter the owner, which is above the others
only as long as nobody lowers it, and `OSMutexPend` decides whether to raise by the priority the mutex *saved*, not by
the one in the TCB. `BasePrios` says that these agree: every task has the priority it was created with or
owns a mutex and is at its ceiling, and a mutex has saved the first of the two. A task that waits owns
nothing (`WaiterOwnsNone`), so no post of another mutex lowers it; and a waiter that was let in without a
raise was below the saved priority, which is the least the owner ever falls to.

*The refinement of `EventService`.* The mapping (`UcosServicesRefines`) reads five things off a state: what each
event is, what it has in stock, which events a task waits for, what answer it has, and its priority, its own one if it
is raised. `Mapped` says what they are by the values of one TCB, one `pc` and one control block, so that a change of
one of these changes what is seen of one task or event, and follows from `KernelInv` (`MappedNow`): a task waits for the events of its pend until something has answered or it has run again, so a timeout shows only when the task
runs again, and a post in between still counts; an answer lies in the TCB until the pend
returns; the priority is the saved one of the mutex the task owns and is raised by, so raising, lowering
and hand-over change the ready list, the wait lists and the priority table but nothing `EventService` sees (`PrioUnseen`, `GivenBackPrios`).
Each service then is one abstract step or none (`StepSeen`, a case per service):

* tick, delays, suspension, locks, flags and memory blocks are stutters. A task they change keeps the
  fields the mapping reads (`UnseenIsStutter`, `TcbUnseen`); the flag services have pend bits and types of
  their own, so what they answer is nothing the mapping reads (`ApartUnseen`);
* a call that finds something takes the first item, from a count, a message or a ring (`TakenStep`);
  for the ring, `ContentsTaken`, `ContentsAppended` and `ContentsPrepended` say that moving an offset, with the wrap at its end, is
  `Tail`, `Append` or putting in front of the sequence the ring stands for, which is arithmetic modulo
  `QSize` on `RingOK`. One that finds nothing begins to wait (`WaitedStep`); a handler, which is no task, takes
  its item away (`TakenAwayStep`);
* a post to a waiting task, an abort and a deletion answer exactly the abstract set (`AnswersTold`), a deletion with the answer of a post. That `OS_EventTaskRdy` takes the
  task of the least bit of the wait list, and not another, uses `Uniq` and `KernelInv`'s account of the
  list (`FirstIsHighest`): the order of the bits and of the abstract priorities agrees because a task that waits is not
  raised;
* the second half of a pend gives the task what its TCB holds (`LeftSeen`, `ReturnsSeen`).

One thing is proved of `EventService` itself, because a step of the code relies on it: `NeverBoth`, that
nobody waits for an event that has something in stock. `OSSemSet` decides by the count whether it may set it, and only then by
the wait list. `EventService` keeps `NeverBoth` in each of its steps (`NeverBothStep`), so it holds of the code along with the refinement.

`EventsAssumption` includes that the null pointer is not in `Msgs`. A mailbox tells by it whether it has a message, and
the notes of `OSMboxPost` forbid to post it, which the code checks only with `OS_ARG_CHK_EN`. A queue takes it ("As of V2.60", notes of
`OSQPost`), and so do the queue services of the model.

Only model-checked: liveness (`DelaysEnd`, `PartitionsTakeTurns`), for it needs `ENABLED` and fairness, which this
prover does not handle. Every other property of a passing run, invariant, action property or refinement, is stated by a
theorem; what a run adds is the evidence that the hypotheses above are met by states worth looking at.

## 6. Not modelled, and why

* Nested mutexes, and an owner that waits or is suspended inside a pend: the notes of `os_mutex.c`
  exclude them, and the priority to return to is not defined then.
* Which ready task runs is stated for `UcosKernel` (`RunsHighestReady`), for `UcosServices` only that
  the one that runs is ready. `OSMutexPost` with no waiter left lowers its caller without a reschedule, so it would
  not hold as it stands.
* Flags waited for both set and clear in a group whose flags are consumed: consuming does not look
  for tasks that wait for what it changes, and `NoSatisfiedWaiter` fails. The applications of
  `Services` mix set and clear, or consume, not both.
* Query, name and `OSFlagPendGetFlagsRdy` services: they read, or store a label.
* The entry and exit code register by register, the decoding of exceptions, and the window in
  `OSStartHighRdy` in which interrupts are enabled before the first context is restored: planned.
* Segment addresses and permissions, interrupt controller registers, C start-up, printing,
  hooks (empty), profiling counters, stack checking, names: data no operation reads.
* Panics on full tables (`partition_add`, `xmc_segment_allocate`) and on a core without a
  partition stop the boot; the models assume configurations without them.

## 7. Plan

1. `ContextEntry`: exception and interrupt entry, EFR, system call decoding, the start-up window.
2. `TCBChains`: the doubly linked chains, refining the sequences of `UcosKernel`.
