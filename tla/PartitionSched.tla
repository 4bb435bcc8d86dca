--------------------------- MODULE PartitionSched ---------------------------
(***************************************************************************)
(* The partition scheduler (klib/partition.c) with what it schedules: per  *)
(* core, the kernel globals of the current partition, the contexts of the  *)
(* others, the timer interrupts (klib/isr.c) and the memory segment of the *)
(* partitions (platform/csp/xmc.c).                                        *)
(*                                                                         *)
(* partition_context_save and _load copy the scalar globals of uC/OS-II,   *)
(* OSRdyGrp among them, while OSRdyTbl, OSTCBTbl and OSTCBPrioTbl stay in  *)
(* the partition's context and only the pointers to them move.  The kernel *)
(* below is UcosKernel cut down to what the tasks of this repository can   *)
(* reach: the tasks of a partition are fixed, their one kernel call is     *)
(* OSTimeDly, and the idle task makes none.  A TCB is <<partition,         *)
(* priority>>.  Handlers run with interrupts disabled, so each is one      *)
(* action of its core; the cores interleave.                               *)
(***************************************************************************)
EXTENDS PrioBitmap, FiniteSets

CONSTANTS
  NumCores,    \* cores are 0 .. NumCores - 1; the last one starts the timers
  NumParts,    \* partitions, numbered in the order core 0 adds them
  TargetCore,  \* core of each partition
  SliceTicks,  \* slice_ticks of each partition
  TaskPrios,   \* priorities of a partition's tasks; the largest is idle
  MaxDly,      \* bound: the longest delay asked for
  TimeMod,     \* modulus of OSTime (2^32 in the code)
  PcMod,       \* bound: progress of a task is counted modulo PcMod
  NumSegments, \* XMC_SEGMENT_NUM
  Ratio,       \* task timer periods in a partition timer period
  Prompt       \* interrupts are serviced within a period of the task timer

Cores == 0..(NumCores - 1)
Parts == 0..(NumParts - 1)
Idle == CHOOSE p \in TaskPrios : \A q \in TaskPrios : q <= p
NULL == -1
Timers == {"task", "part"}

ASSUME PartitionAssumption ==
  /\ NumCores \in Nat \ {0} /\ NumParts \in Nat \ {0}
  /\ TargetCore \in [Parts -> Cores]
  /\ SliceTicks \in [Parts -> Nat \ {0}]
  /\ TaskPrios \subseteq Prios64 /\ TaskPrios # {}
  /\ NumSegments \in Nat /\ NumParts <= 8 /\ NumParts <= NumSegments
  /\ MaxDly \in Nat /\ TimeMod \in Nat \ {0} /\ PcMod \in Nat \ {0}
  /\ Ratio \in Nat
  /\ \A c \in Cores : \E p \in Parts : TargetCore[p] = c

VARIABLES
  part_num,          \* partitions added so far
  slice_ticks_left, xmc_id, partition_context, \* fields of pcb_list
  xmc_indices,       \* segment slots: the partition whose memory is in it
  stage,             \* where the boot of each core is
  partition_current, globals, tables, \* per core: kernel globals, and the
                     \* partition OSRdyTbl, OSTCBTbl, OSTCBPrioTbl point into
  task_context_saved,\* per core: the context it leaves the kernel with
  segment,           \* per core: the partition whose memory segment 3 opens
  phase,             \* task timer periods into the partition timer's period
  irq,               \* per timer: its IRQSTATUS line
  ifr,               \* per core: the timer interrupts pending
  progress           \* history: how far each task has run

pcbVars == <<part_num, xmc_id, xmc_indices>>
coreVars == <<partition_current, globals, tables, task_context_saved, segment>>
timerVars == <<phase, irq, ifr>>
vars == <<pcbVars, coreVars, timerVars, slice_ticks_left, partition_context,
          stage, progress>>

\* A register context: the task it belongs to and how far that task is.
EntryContext(p, prio) == [tcb |-> <<p, prio>>, pc |-> 0]
NoTCB == <<NULL, NULL>>

\* The globals partition_context_init clears.
ClearGlobals ==
  [OSTime |-> 0, OSRunning |-> FALSE, OSRdyGrp |-> {}, OSPrioCur |-> 0,
   OSPrioHighRdy |-> 0, OSTCBCur |-> NoTCB, OSTCBHighRdy |-> NoTCB]

Init ==
  /\ part_num = 0
  /\ slice_ticks_left = [p \in Parts |-> 0]
  /\ xmc_id = [p \in Parts |-> 0]
  /\ partition_context = [p \in Parts |->
       [globals |-> ClearGlobals, OSRdyTbl |-> EmptyBitmap.tbl,
        OSTCBDly |-> [t \in TaskPrios |-> 0],
        frame |-> [t \in TaskPrios |-> EntryContext(p, t)]]]
  /\ xmc_indices = [i \in 0..(NumSegments - 1) |-> NULL]
  /\ stage = [c \in Cores |-> IF c = 0 THEN "main" ELSE "reset"]
  /\ partition_current = [c \in Cores |-> NULL]
  /\ globals = [c \in Cores |-> ClearGlobals]
  /\ tables = [c \in Cores |-> NULL]
  /\ task_context_saved = [c \in Cores |-> [tcb |-> NoTCB, pc |-> 0]]
  /\ segment = [c \in Cores |-> NULL]
  /\ phase = 0
  /\ irq = [tm \in Timers |-> FALSE]
  /\ ifr = [c \in Cores |-> {}]
  /\ progress = [p \in Parts |-> [t \in TaskPrios |-> 0]]

-----------------------------------------------------------------------------
(* Boot: main *)

\* xmc_segment_find_free.
FreeSegment == CHOOSE i \in 0..(NumSegments - 1) :
                 /\ xmc_indices[i] = NULL
                 /\ \A j \in 0..(i - 1) : xmc_indices[j] # NULL

\* partition_add on core 0: the partition's tasks are created, all ready, in
\* its context, which is saved again, and a segment slot gets its memory.
PartitionAdd ==
  LET p == part_num
      rdy == AddAll(EmptyBitmap, TaskPrios)
  IN  /\ stage[0] = "main" /\ part_num < NumParts
      /\ part_num' = part_num + 1
      /\ partition_context' = [partition_context EXCEPT
           ![p].globals = [ClearGlobals EXCEPT !.OSRdyGrp = rdy.grp],
           ![p].OSRdyTbl = rdy.tbl]
      /\ globals' = [globals EXCEPT ![0] = [ClearGlobals EXCEPT !.OSRdyGrp = rdy.grp]]
      /\ xmc_id' = [xmc_id EXCEPT ![p] = FreeSegment]
      /\ xmc_indices' = [xmc_indices EXCEPT ![FreeSegment] = p]
      /\ UNCHANGED <<slice_ticks_left, stage, partition_current, tables,
                     task_context_saved, segment, timerVars, progress>>

\* dsp2_start_core: the other core comes out of reset and runs main.
StartCores ==
  /\ stage[0] = "main" /\ part_num = NumParts
  /\ stage' = [c \in Cores |-> IF c = 0 THEN "start" ELSE "main"]
  /\ UNCHANGED <<pcbVars, coreVars, timerVars, slice_ticks_left,
                 partition_context, progress>>

-----------------------------------------------------------------------------
(* The kernel of the current partition of core c *)

RdyOf(g, p) == [grp |-> g.OSRdyGrp, tbl |-> partition_context[p].OSRdyTbl]

\* OS_SchedNew on given globals and ready list.
WithHighest(g, p, rdy) ==
  [g EXCEPT !.OSRdyGrp = rdy.grp, !.OSPrioHighRdy = Highest(rdy),
            !.OSTCBHighRdy = <<p, Highest(rdy)>>]

\* Fault: OSPrioCur is not updated with OSTCBCur.
FaultPrioCurLeft(g) == [g EXCEPT !.OSTCBCur = g.OSTCBHighRdy]

\* OSCtxSw, OSIntCtxSw: the task to run becomes the current one.
MadeCurrent(g) == [g EXCEPT !.OSTCBCur = g.OSTCBHighRdy, !.OSPrioCur = g.OSPrioHighRdy]

\* pc of the frame a TCB pointer leads to.
FrameAt(tcb) == partition_context[tcb[1]].frame[tcb[2]]

\* Fault: a task that is ready again waits until the running one stops.
FaultNoPreemption(h) == h.OSPrioHighRdy > h.OSPrioCur

NeedsSwitch(h) == h.OSPrioHighRdy # h.OSPrioCur

\* OS_Sched or OSIntExit at the end of a kernel service on core c that leaves
\* globals g, ready list rdy and delays dly.
Reschedule(c, g, rdy, dly) ==
  LET p == tables[c]
      h == WithHighest(g, p, rdy)
      switch == NeedsSwitch(h)
      kept == [partition_context EXCEPT ![p].OSRdyTbl = rdy.tbl, ![p].OSTCBDly = dly]
      cur == g.OSTCBCur
  IN  /\ globals' = [globals EXCEPT ![c] = IF switch THEN MadeCurrent(h) ELSE h]
      /\ partition_context' =
           IF switch THEN [kept EXCEPT ![cur[1]].frame[cur[2]] = task_context_saved[c]]
                     ELSE kept
      /\ task_context_saved' =
           IF switch THEN [task_context_saved EXCEPT ![c] = FrameAt(h.OSTCBHighRdy)]
                     ELSE task_context_saved

\* The system call of a task.
OSTimeDly(c, ticks) ==
  LET g == globals[c]
      prio == g.OSTCBCur[2]
  IN  /\ stage[c] = "run"
      /\ task_context_saved[c].tcb[2] # Idle
      /\ Reschedule(c, g, Remove(RdyOf(g, tables[c]), prio),
                    [partition_context[tables[c]].OSTCBDly EXCEPT ![prio] = ticks])
      /\ UNCHANGED <<pcbVars, timerVars, slice_ticks_left, stage,
                     partition_current, tables, segment, progress>>

\* Fault: the last tick of a delay is not counted.
FaultTickStopsAtOne(d) == IF d > 1 THEN d - 1 ELSE d

\* A delay after a tick.
Ticked(d) == IF d > 0 THEN d - 1 ELSE d

\* The task timer's handler: OSIntEnter, OSTimeTick, OSIntExit.  It counts in
\* the time of the current partition only.
OSTaskTimerISR(c) ==
  LET g == [globals[c] EXCEPT !.OSTime = (@ + 1) % TimeMod]
      dly == partition_context[tables[c]].OSTCBDly
      expiring == {t \in TaskPrios \ {Idle} : dly[t] # 0 /\ Ticked(dly[t]) = 0}
  IN  /\ stage[c] = "run" /\ "task" \in ifr[c]
      /\ irq' = [irq EXCEPT !["task"] = FALSE]
      /\ ifr' = [ifr EXCEPT ![c] = @ \ {"task"}]
      /\ Reschedule(c, g, AddAll(RdyOf(g, tables[c]), expiring),
                    [t \in TaskPrios |-> IF t # Idle THEN Ticked(dly[t]) ELSE dly[t]])
      /\ UNCHANGED <<pcbVars, phase, slice_ticks_left, stage,
                     partition_current, tables, segment, progress>>

TaskStep(c) ==
  LET tcb == task_context_saved[c].tcb
      pc == (task_context_saved[c].pc + 1) % PcMod
  IN  /\ stage[c] = "run"
      /\ task_context_saved' = [task_context_saved EXCEPT ![c].pc = pc]
      /\ progress' = [progress EXCEPT ![tcb[1]][tcb[2]] = pc]
      /\ UNCHANGED <<pcbVars, timerVars, slice_ticks_left, partition_context,
                     stage, partition_current, globals, tables, segment>>

-----------------------------------------------------------------------------
(* The partition scheduler *)

\* _core_first_partition, and _core_next_partition: the next of the core's
\* partitions in pcb_list after the current one, or else the first.
OnCore(c) == {p \in 0..(part_num - 1) : TargetCore[p] = c}
Least(S) == CHOOSE p \in S : \A q \in S : p <= q
CoreFirstPartition(c) == Least(OnCore(c))
\* Fault: the search always starts at the first partition.
FaultNextIsFirst(c) == CoreFirstPartition(c)

CoreNextPartition(c) ==
  LET after == {p \in OnCore(c) : p > partition_current[c]}
  IN  IF after # {} THEN Least(after) ELSE CoreFirstPartition(c)

\* The globals with which a partition that has not run yet begins: OSStart,
\* or partition_switch's own copy of it.
FirstRun(p, g) ==
  LET h == MadeCurrent(WithHighest(g, p, RdyOf(g, p)))
  IN  [h EXCEPT !.OSRunning = TRUE]

\* Fault: the tick that begins a slice is not taken off it.
FaultLongSlice(p) == SliceTicks[p]

\* slice_ticks_left as a slice begins.
FullSlice(p) == SliceTicks[p] - 1

\* Fault: the pointers to the tables stay in the partition entered first.
FaultKeepTables(c, p) ==
  tables' = IF tables[c] = NULL THEN [tables EXCEPT ![c] = p] ELSE tables

\* Fault: OSRdyGrp is not among the globals loaded.
FaultKeepRdyGrp(c, g) ==
  globals' = [globals EXCEPT ![c] = [g EXCEPT !.OSRdyGrp = globals[c].OSRdyGrp]]

\* partition_context_load: the pointers to the tables, and the globals.
LoadTables(c, p) == tables' = [tables EXCEPT ![c] = p]
LoadGlobals(c, g) == globals' = [globals EXCEPT ![c] = g]

\* Fault: segment 3 keeps the memory of the partition entered first.
FaultKeepSegment(c, p) ==
  segment' = IF segment[c] = NULL THEN [segment EXCEPT ![c] = p] ELSE segment

\* xmc_segment_activate of the partition's slot.
ActivateSegment(c, p) == segment' = [segment EXCEPT ![c] = xmc_indices[xmc_id[p]]]

\* The core begins a slice of p with globals g, which it has loaded, and
\* the context in the frame of their current TCB.
EnterPartition(c, p, g, contexts) ==
  /\ partition_current' = [partition_current EXCEPT ![c] = p]
  /\ slice_ticks_left' = [slice_ticks_left EXCEPT ![p] = FullSlice(p)]
  /\ LoadTables(c, p)
  /\ ActivateSegment(c, p)
  /\ LoadGlobals(c, g)
  /\ partition_context' = contexts
  /\ task_context_saved' =
       [task_context_saved EXCEPT ![c] = contexts[g.OSTCBCur[1]].frame[g.OSTCBCur[2]]]

\* partition_start; the last core to boot starts the timers.
PartitionStart(c) ==
  LET p == CoreFirstPartition(c)
      g == partition_context[p].globals
  IN  /\ stage[c] = IF c = 0 THEN "start" ELSE "main"
      /\ stage' = [stage EXCEPT ![c] = "run"]
      /\ EnterPartition(c, p, FirstRun(p, g), partition_context)
      /\ UNCHANGED <<pcbVars, timerVars, progress>>

\* Fault: the handler does not acknowledge the timer.
FaultTickNotAcknowledged(c) ==
  /\ stage[c] = "run" /\ "part" \in ifr[c] /\ "task" \notin ifr[c]
  /\ ifr' = [ifr EXCEPT ![c] = @ \ {"part"}]
  /\ UNCHANGED <<pcbVars, irq, phase, stage, progress>>

\* OSPartitionTimerISR, partition_schedule and partition_switch.
PartitionTick(c) ==
  /\ stage[c] = "run" /\ "part" \in ifr[c] /\ "task" \notin ifr[c]
  /\ irq' = [irq EXCEPT !["part"] = FALSE]
  /\ ifr' = [ifr EXCEPT ![c] = @ \ {"part"}]
  /\ UNCHANGED <<pcbVars, phase, stage, progress>>

\* Fault: a slice is over one tick later.
FaultSliceRunsOver(c) == slice_ticks_left[partition_current[c]] = -1

SliceIsOver(c) == slice_ticks_left[partition_current[c]] = 0

KeepSlice(c) ==
  LET p == partition_current[c]
  IN  /\ PartitionTick(c)
      /\ ~SliceIsOver(c)
      /\ slice_ticks_left' = [slice_ticks_left EXCEPT ![p] = @ - 1]
      /\ UNCHANGED <<coreVars, partition_context>>

RefillSlice(c) ==
  LET p == partition_current[c]
  IN  /\ PartitionTick(c)
      /\ SliceIsOver(c)
      /\ CoreNextPartition(c) = p
      /\ slice_ticks_left' = [slice_ticks_left EXCEPT ![p] = FullSlice(p)]
      /\ UNCHANGED <<coreVars, partition_context>>

\* partition_switch's panic: the partition to enter was left in mid-switch.
CorruptedOSTCBCur(g) == g.OSTCBCur # g.OSTCBHighRdy \/ g.OSPrioCur # g.OSPrioHighRdy

\* Fault: the context of the task that was interrupted is not saved.
FaultSwitchWithoutSave(c) ==
  LET old == partition_current[c]
      new == CoreNextPartition(c)
      contexts == [partition_context EXCEPT ![old].globals = globals[c]]
      g == contexts[new].globals
  IN  /\ PartitionTick(c)
      /\ SliceIsOver(c)
      /\ new # old
      /\ g.OSRunning => ~CorruptedOSTCBCur(g)
      /\ EnterPartition(c, new, IF g.OSRunning THEN MadeCurrent(g)
                                               ELSE FirstRun(new, g), contexts)

SwitchPartition(c) ==
  LET old == partition_current[c]
      new == CoreNextPartition(c)
      cur == globals[c].OSTCBCur
      contexts == [partition_context EXCEPT
                     ![cur[1]].frame[cur[2]] = task_context_saved[c],
                     ![old].globals = globals[c]]
      g == contexts[new].globals
  IN  /\ PartitionTick(c)
      /\ SliceIsOver(c)
      /\ new # old
      /\ g.OSRunning => ~CorruptedOSTCBCur(g)
      /\ EnterPartition(c, new, IF g.OSRunning THEN MadeCurrent(g)
                                               ELSE FirstRun(new, g), contexts)

OSPartitionTimerISR(c) == KeepSlice(c) \/ RefillSlice(c) \/ SwitchPartition(c)

-----------------------------------------------------------------------------
(* The two general purpose timers, shared by the cores *)

\* An overflow raises the timer's line; the edge makes the interrupt pending
\* on every core.  A line still up gives no edge.  Every Ratio-th overflow of
\* the task timer is followed by one of the partition timer.
Overflow(tm) ==
  /\ stage[NumCores - 1] = "run"
  /\ Prompt => \A c \in Cores : ifr[c] = {}
  /\ IF tm = "task" THEN phase < Ratio /\ phase' = phase + 1
                    ELSE phase = Ratio /\ phase' = 0
  /\ irq' = [irq EXCEPT ![tm] = TRUE]
  /\ ifr' = [c \in Cores |-> IF irq[tm] THEN ifr[c] ELSE ifr[c] \cup {tm}]
  /\ UNCHANGED <<pcbVars, coreVars, slice_ticks_left, partition_context, stage,
                 progress>>

Next ==
  \/ PartitionAdd \/ StartCores
  \/ \E tm \in Timers : Overflow(tm)
  \/ \E c \in Cores :
       \/ PartitionStart(c) \/ TaskStep(c)
       \/ OSTaskTimerISR(c) \/ OSPartitionTimerISR(c)
       \/ \E ticks \in 1..MaxDly : OSTimeDly(c, ticks)

\* Boot runs to its end, the timers run, and pending interrupts are taken.
\* The partition timer's has the lower priority; that it is taken too needs
\* Prompt, which leaves time for both between two overflows.
Fairness ==
  /\ WF_vars(PartitionAdd) /\ WF_vars(StartCores)
  /\ \A tm \in Timers : WF_vars(Overflow(tm))
  /\ \A c \in Cores : /\ WF_vars(PartitionStart(c))
                      /\ WF_vars(OSTaskTimerISR(c))
                      /\ WF_vars(OSPartitionTimerISR(c))

Spec == Init /\ [][Next]_vars /\ Fairness
-----------------------------------------------------------------------------
(* Properties *)

Running(c) == stage[c] = "run"
Added(p) == p < part_num
\* The partition has the core it is configured for.
Active(p) == partition_current[TargetCore[p]] = p

Globals ==
  [OSTime : 0..(TimeMod - 1), OSRunning : BOOLEAN, OSRdyGrp : SUBSET Bits,
   OSPrioCur : Prios64, OSPrioHighRdy : Prios64,
   OSTCBCur : (Parts \X TaskPrios) \cup {NoTCB},
   OSTCBHighRdy : (Parts \X TaskPrios) \cup {NoTCB}]

Contexts == [tcb : (Parts \X TaskPrios) \cup {NoTCB}, pc : 0..(PcMod - 1)]

TypeOK ==
  /\ part_num \in 0..NumParts
  /\ slice_ticks_left \in [Parts -> Nat]
  /\ xmc_id \in [Parts -> 0..(NumSegments - 1)]
  /\ partition_context \in [Parts ->
       [globals : Globals, OSRdyTbl : [Bits -> SUBSET Bits],
        OSTCBDly : [TaskPrios -> 0..MaxDly], frame : [TaskPrios -> Contexts]]]
  /\ xmc_indices \in [0..(NumSegments - 1) -> Parts \cup {NULL}]
  /\ stage \in [Cores -> {"reset", "main", "start", "run"}]
  /\ partition_current \in [Cores -> Parts \cup {NULL}]
  /\ globals \in [Cores -> Globals]
  /\ tables \in [Cores -> Parts \cup {NULL}]
  /\ task_context_saved \in [Cores -> Contexts]
  /\ segment \in [Cores -> Parts \cup {NULL}]
  /\ phase \in 0..Ratio
  /\ irq \in [Timers -> BOOLEAN]
  /\ ifr \in [Cores -> SUBSET Timers]
  /\ progress \in [Parts -> [TaskPrios -> 0..(PcMod - 1)]]

\* Spatial partitioning: while a task executes, segment 3 of its core opens
\* the memory of that task's partition and of no other, and the kernel's
\* table pointers and current TCB are in that partition, on its own core.
SegmentIsCurrent ==
  \A c \in Cores : Running(c) =>
    LET p == task_context_saved[c].tcb[1]
    IN  /\ p = segment[c] /\ p = partition_current[c] /\ p = tables[c]
        /\ p = globals[c].OSTCBCur[1] /\ p = globals[c].OSTCBHighRdy[1]
        /\ TargetCore[p] = c

\* partition_switch never panics: whatever a partition was doing when its
\* slice ended, it is left with OSTCBCur and OSPrioCur in agreement.
SwitchInNeverPanics ==
  \A p \in Parts : ~Active(p) /\ partition_context[p].globals.OSRunning =>
    ~CorruptedOSTCBCur(partition_context[p].globals)

\* Half of a ready list is copied (OSRdyGrp), half stays in place (OSRdyTbl):
\* over any number of partition switches the two halves of every partition
\* still fit and name the tasks with no delay.
SplitReadyListExact ==
  \A p \in Parts : Added(p) =>
    LET g == IF Active(p) THEN globals[TargetCore[p]] ELSE partition_context[p].globals
    IN  /\ GrpSummarisesTbl(RdyOf(g, p))
        /\ Members(RdyOf(g, p)) = {t \in TaskPrios : partition_context[p].OSTCBDly[t] = 0}

\* The task in the CPU is the highest ready of its partition, also after the
\* partition has been switched out and in.
RunsHighestReady ==
  \A c \in Cores : Running(c) =>
    LET p == partition_current[c]
        ready == {t \in TaskPrios : partition_context[p].OSTCBDly[t] = 0}
    IN  globals[c].OSTCBCur = <<p, Least(ready)>>

\* Through task switches inside partitions, nested in switches of partitions,
\* every task of every partition is kept exactly where it stopped.
ContextIntegrity ==
  \A p \in Parts, t \in TaskPrios : Added(p) =>
    LET c == TargetCore[p]
        kept == IF Running(c) /\ globals[c].OSTCBCur = <<p, t>>
                THEN task_context_saved[c] ELSE partition_context[p].frame[t]
    IN  kept = [tcb |-> <<p, t>>, pc |-> progress[p][t]]

\* Temporal partitioning: what a core does in the slice of one partition
\* changes nothing of any other: not its clock, delays, ready list or tasks.
PartitionsIsolated ==
  [][\A p \in Parts : Added(p) /\ ~Active(p) /\ ~Active(p)' =>
       /\ partition_context'[p] = partition_context[p]
       /\ progress'[p] = progress[p]]_vars

\* Both cores acknowledge the same timer.  One core's acknowledgement never
\* costs another a tick: a line still up, which would swallow the next edge,
\* means that no core has serviced the previous one.
NoTickStolen ==
  \A tm \in Timers : irq[tm] => \A c \in Cores : tm \in ifr[c]

\* Every partition gets its core again and again.
PartitionsTakeTurns == \A p \in Parts : []<>Active(p)

\* A task's delay ends, although its partition counts ticks in its own slices
\* only.
DelaysEnd ==
  \A p \in Parts, t \in TaskPrios :
    partition_context[p].OSTCBDly[t] > 0 ~> partition_context[p].OSTCBDly[t] = 0
=============================================================================
