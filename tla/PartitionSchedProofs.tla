------------------------ MODULE PartitionSchedProofs ------------------------
(***************************************************************************)
(* Invariants of PartitionSched, proved for any number of cores, for any   *)
(* assignment of partitions and slices to them, any tasks and any bounds.  *)
(***************************************************************************)
EXTENDS PartitionSchedRefines, PrioBitmapProofs

-----------------------------------------------------------------------------
(* The inductive invariant *)

\* What partition_context holds of a partition.
PartContexts ==
  [globals : Globals, OSRdyTbl : [Bits -> SUBSET Bits],
   OSTCBDly : [TaskPrios -> 0..MaxDly], frame : [TaskPrios -> Contexts]]

\* Core 0 adds all partitions before any core runs one.
BootInv ==
  /\ stage[0] \in {"main", "start", "run"}
  /\ stage[0] = "main" => \A c \in Cores \ {0} : stage[c] = "reset"
  /\ stage[0] # "main" => /\ part_num = NumParts
                          /\ \A c \in Cores \ {0} : stage[c] \in {"main", "run"}

\* xmc_segment_find_free gives the partitions the slots in their own order.
SlotInv ==
  /\ \A i \in 0..(NumSegments - 1) : xmc_indices[i] = IF i < part_num THEN i ELSE NULL
  /\ \A p \in Parts : Added(p) => xmc_id[p] = p

\* What is ready in a partition, by the delays of its tasks.
NotDelayed(p) == {t \in TaskPrios : partition_context[p].OSTCBDly[t] = 0}

\* Where the globals of a partition are: live on its core, or saved.
GlobalsOf(p) ==
  IF Active(p) THEN globals[TargetCore[p]] ELSE partition_context[p].globals

\* The globals describe one task, the highest ready one.
Settled(g, p) ==
  /\ g.OSPrioCur = Highest(RdyOf(g, p)) /\ g.OSPrioHighRdy = g.OSPrioCur
  /\ g.OSTCBCur = <<p, g.OSPrioCur>> /\ g.OSTCBHighRdy = g.OSTCBCur

\* The kernel of every partition, running or not, is in order.
KernelInOrder(p) ==
  /\ IsBitmap(RdyOf(GlobalsOf(p), p))
  /\ Members(RdyOf(GlobalsOf(p), p)) = NotDelayed(p)
  /\ GlobalsOf(p).OSRunning => Settled(GlobalsOf(p), p)

KernelInv == \A p \in Parts : Added(p) => KernelInOrder(p)

\* The idle task is never delayed, and a partition that has not been added
\* has neither delays nor a running kernel.
DelayInv ==
  \A p \in Parts :
    /\ partition_context[p].OSTCBDly[Idle] = 0
    /\ ~Added(p) => /\ ~partition_context[p].globals.OSRunning
                    /\ \A t \in TaskPrios : partition_context[p].OSTCBDly[t] = 0

\* A core that runs has a partition of its own, with the kernel's pointers,
\* the memory segment and the register context that belong to it.
CoreInv ==
  \A c \in Cores :
    IF Running(c)
    THEN /\ partition_current[c] \in Parts /\ TargetCore[partition_current[c]] = c
         /\ tables[c] = partition_current[c] /\ segment[c] = partition_current[c]
         /\ globals[c].OSRunning
         /\ task_context_saved[c] =
              [tcb |-> <<partition_current[c], globals[c].OSPrioCur>>,
               pc |-> progress[partition_current[c]][globals[c].OSPrioCur]]
    ELSE partition_current[c] = NULL

\* The task is the one in the CPU.
InCPU(p, t) == Active(p) /\ globals[TargetCore[p]].OSPrioCur = t

\* Every other task has its context in its TCB.
FrameInv ==
  \A p \in Parts, t \in TaskPrios : ~InCPU(p, t) =>
    partition_context[p].frame[t] = [tcb |-> <<p, t>>, pc |-> progress[p][t]]

IInv == /\ TypeOK /\ BootInv /\ SlotInv /\ KernelInv /\ DelayInv /\ CoreInv
        /\ FrameInv

-----------------------------------------------------------------------------
(* Least elements and the constants *)

\* A set of priorities that is not empty has a least member: OS_SchedNew
\* would find it.
LEMMA LeastOf ==
  ASSUME NEW S \in SUBSET Prios64, S # {}
  PROVE  Least(S) \in S /\ \A q \in S : Least(S) <= q
<1> DEFINE m == AddAll(EmptyBitmap, S)
<1>1. IsBitmap(m) /\ Members(m) = S
  BY EmptyIsBitmap, AddAllIsUnion
<1> HIDE DEF m
<1>2. Highest(m) \in S /\ \A q \in S : Highest(m) <= q
  BY <1>1, HighestIsMinimum
<1> QED
  BY <1>2 DEF Least

LEMMA LeastIsUnique ==
  ASSUME NEW S \in SUBSET Prios64, NEW p \in S, \A q \in S : p <= q
  PROVE  Least(S) = p
<1>1. Least(S) \in S /\ \A q \in S : Least(S) <= q
  BY LeastOf
<1>2. Least(S) <= p /\ p <= Least(S)
  BY <1>1
<1>3. Least(S) \in 0..63 /\ p \in 0..63
  BY <1>1 DEF Prios64
<1> QED
  BY <1>2, <1>3

\* The idle task is one of the tasks.
LEMMA IdleIsATask == Idle \in TaskPrios
<1> DEFINE S == {n \in Prios64 : 63 - n \in TaskPrios}
<1>1. S # {}
  <2>1. PICK p \in TaskPrios : p \in 0..63
    BY PartitionAssumption DEF Prios64
  <2>2. 63 - p \in Prios64 /\ 63 - (63 - p) = p
    BY <2>1 DEF Prios64
  <2> QED
    BY <2>1, <2>2
<1>2. PICK n \in S : \A m \in S : n <= m
  BY <1>1, LeastOf
<1>3. ASSUME NEW q \in TaskPrios
      PROVE  q <= 63 - n
  <2>1. q \in 0..63
    BY PartitionAssumption DEF Prios64
  <2>2. 63 - q \in Prios64 /\ 63 - (63 - q) = q
    BY <2>1 DEF Prios64
  <2>3. n <= 63 - q
    BY <1>2, <2>2
  <2> QED
    BY <2>1, <2>3 DEF Prios64
<1>4. 63 - n \in TaskPrios
  OBVIOUS
<1> HIDE DEF S
<1> QED
  BY <1>3, <1>4 DEF Idle

LEMMA ConstantTypes ==
  /\ 0 \in Cores /\ NumCores - 1 \in Cores
  /\ Parts \subseteq Prios64 /\ NULL \notin Parts
  /\ TaskPrios \in SUBSET Prios64 /\ Idle \in TaskPrios /\ 0 \in Prios64
  /\ TargetCore \in [Parts -> Cores] /\ SliceTicks \in [Parts -> Nat \ {0}]
  /\ MaxDly \in Nat /\ Ratio \in Nat /\ NumSegments \in Nat /\ NumParts \in Nat
  /\ \A n \in Nat : n % TimeMod \in 0..(TimeMod - 1) /\ n % PcMod \in 0..(PcMod - 1)
<1>1. NumCores \in Nat \ {0} /\ NumParts \in 1..8
  BY PartitionAssumption
<1>2. 0 \in Cores /\ NumCores - 1 \in Cores
  BY <1>1 DEF Cores
<1>3. Parts \subseteq Prios64 /\ NULL \notin Parts /\ 0 \in Prios64
  BY <1>1 DEF Parts, Prios64, NULL
<1>4. \A n \in Nat : n % TimeMod \in 0..(TimeMod - 1) /\ n % PcMod \in 0..(PcMod - 1)
  BY PartitionAssumption
<1> QED
  BY <1>1, <1>2, <1>3, <1>4, PartitionAssumption, IdleIsATask

\* The search through pcb_list, once all partitions are added, goes through
\* the partitions configured for the core.
LEMMA SearchIsSuccessor ==
  ASSUME NEW c \in Cores, part_num = NumParts
  PROVE  /\ CoreFirstPartition(c) = Least(ConfiguredOn(c))
         /\ CoreFirstPartition(c) \in Parts /\ TargetCore[CoreFirstPartition(c)] = c
         /\ partition_current[c] \in Parts /\ TargetCore[partition_current[c]] = c =>
              /\ CoreNextPartition(c) = Successor(partition_current[c])
              /\ CoreNextPartition(c) \in Parts /\ TargetCore[CoreNextPartition(c)] = c
<1>1. OnCore(c) = ConfiguredOn(c)
  BY DEF OnCore, ConfiguredOn, Parts
<1>2. ConfiguredOn(c) \in SUBSET Prios64 /\ ConfiguredOn(c) # {}
  BY ConstantTypes, PartitionAssumption DEF ConfiguredOn
<1>3. CoreFirstPartition(c) \in ConfiguredOn(c)
  BY <1>1, <1>2, LeastOf DEF CoreFirstPartition
<1>4. ASSUME partition_current[c] \in Parts, TargetCore[partition_current[c]] = c
      PROVE  /\ CoreNextPartition(c) = Successor(partition_current[c])
             /\ CoreNextPartition(c) \in ConfiguredOn(c)
  <2> DEFINE after == {p \in ConfiguredOn(c) : p > partition_current[c]}
  <2>1. CoreNextPartition(c) = IF after # {} THEN Least(after) ELSE CoreFirstPartition(c)
    BY <1>1 DEF CoreNextPartition
  <2>2. Successor(partition_current[c]) =
          IF after # {} THEN Least(after) ELSE Least(ConfiguredOn(c))
    BY <1>4 DEF Successor
  <2>3. after # {} => Least(after) \in after
    BY <1>2, LeastOf
  <2> QED
    BY <1>1, <1>3, <2>1, <2>2, <2>3 DEF CoreFirstPartition
<1> QED
  BY <1>1, <1>3, <1>4 DEF CoreFirstPartition, ConfiguredOn

\* xmc_segment_find_free finds the slot after those in use.
LEMMA FreeSlot ==
  ASSUME SlotInv, part_num \in 0..NumParts, part_num < NumParts
  PROVE  FreeSegment = part_num /\ part_num \in 0..(NumSegments - 1) /\ part_num \in Parts
<1>1. part_num \in 0..(NumSegments - 1) /\ part_num \in Parts /\ NumSegments \in Nat
  BY PartitionAssumption DEF Parts
<1> DEFINE Free(i) == /\ xmc_indices[i] = NULL
                      /\ \A j \in 0..(i - 1) : xmc_indices[j] # NULL
<1>2. Free(part_num)
  BY <1>1 DEF SlotInv, NULL
<1>3. ASSUME NEW i \in 0..(NumSegments - 1), Free(i)
      PROVE  i = part_num
  <2>1. ~(i < part_num)
    BY <1>3, <1>1 DEF SlotInv, NULL
  <2>2. ~(part_num < i)
    BY <1>1, <1>2, <1>3
  <2> QED
    BY <1>1, <2>1, <2>2
<1> QED
  BY <1>1, <1>2, <1>3 DEF FreeSegment

-----------------------------------------------------------------------------
(* Init *)

LEMMA ClearGlobalsType == ClearGlobals \in Globals
BY ConstantTypes, PartitionAssumption DEF ClearGlobals, Globals

LEMMA InitEstablishesIInv == Init => IInv
<1> SUFFICES ASSUME Init
             PROVE  IInv
  OBVIOUS
<1> USE ConstantTypes
<1>1. ClearGlobals \in Globals
  BY ClearGlobalsType
<1>2. EmptyBitmap.tbl \in [Bits -> SUBSET Bits]
  BY EmptyIsBitmap DEF IsBitmap, Bitmaps
<1>3. \A p \in Parts, t \in TaskPrios : EntryContext(p, t) \in Contexts
  BY PartitionAssumption DEF EntryContext, Contexts
<1>4. partition_context \in [Parts -> PartContexts]
  <2>1. [t \in TaskPrios |-> 0] \in [TaskPrios -> 0..MaxDly]
    OBVIOUS
  <2>2. ASSUME NEW p \in Parts
        PROVE  [t \in TaskPrios |-> EntryContext(p, t)] \in [TaskPrios -> Contexts]
    BY <1>3
  <2>3. ASSUME NEW p \in Parts
        PROVE  [globals |-> ClearGlobals, OSRdyTbl |-> EmptyBitmap.tbl,
                OSTCBDly |-> [t \in TaskPrios |-> 0],
                frame |-> [t \in TaskPrios |-> EntryContext(p, t)]] \in PartContexts
    BY <1>1, <1>2, <2>1, <2>2 DEF PartContexts
  <2> QED
    BY <2>3 DEF Init
<1>5. TypeOK
  <2>1. [tcb |-> NoTCB, pc |-> 0] \in Contexts
    BY PartitionAssumption DEF Contexts
  <2>2. /\ part_num \in 0..NumParts
        /\ slice_ticks_left \in [Parts -> Nat]
        /\ xmc_id \in [Parts -> 0..(NumSegments - 1)]
        /\ xmc_indices \in [0..(NumSegments - 1) -> Parts \cup {NULL}]
        /\ stage \in [Cores -> {"reset", "main", "start", "run"}]
        /\ partition_current \in [Cores -> Parts \cup {NULL}]
    BY PartitionAssumption DEF Init
  <2>3. /\ globals \in [Cores -> Globals]
        /\ tables \in [Cores -> Parts \cup {NULL}]
        /\ task_context_saved \in [Cores -> Contexts]
        /\ segment \in [Cores -> Parts \cup {NULL}]
        /\ phase \in 0..Ratio
        /\ irq \in [Timers -> BOOLEAN]
        /\ ifr \in [Cores -> SUBSET Timers]
    BY <1>1, <2>1 DEF Init
  <2>4. progress \in [Parts -> [TaskPrios -> 0..(PcMod - 1)]]
    BY PartitionAssumption DEF Init
  <2> QED
    BY <1>4, <2>2, <2>3, <2>4 DEF TypeOK, PartContexts
<1>6. BootInv /\ SlotInv /\ CoreInv
  BY DEF Init, BootInv, SlotInv, CoreInv, Running, Added, Parts
<1>7. KernelInv
  BY DEF Init, KernelInv, Added, Parts
<1>9. DelayInv
  <2>1. \A p \in Parts : /\ partition_context[p].globals = ClearGlobals
                         /\ partition_context[p].OSTCBDly = [t \in TaskPrios |-> 0]
    BY DEF Init
  <2>2. ClearGlobals.OSRunning = FALSE
    BY DEF ClearGlobals
  <2> QED
    BY <2>1, <2>2 DEF DelayInv
<1>8. FrameInv
  BY DEF Init, FrameInv, EntryContext
<1> QED
  BY <1>5, <1>6, <1>7, <1>8, <1>9 DEF IInv

-----------------------------------------------------------------------------
(* The kernel of a partition reschedules *)

LEMMA PartTypes ==
  ASSUME TypeOK, NEW p \in Parts
  PROVE  /\ partition_context[p].globals \in Globals
         /\ partition_context[p].OSRdyTbl \in [Bits -> SUBSET Bits]
         /\ partition_context[p].OSTCBDly \in [TaskPrios -> 0..MaxDly]
         /\ partition_context[p].frame \in [TaskPrios -> Contexts]
         /\ partition_context[p] =
              [globals |-> partition_context[p].globals,
               OSRdyTbl |-> partition_context[p].OSRdyTbl,
               OSTCBDly |-> partition_context[p].OSTCBDly,
               frame |-> partition_context[p].frame]
BY DEF TypeOK

\* The kernel's globals once the highest priority ready, h, has the CPU.
GlobalsOn(p, h, time, grp) ==
  [OSTime |-> time, OSRunning |-> TRUE, OSRdyGrp |-> grp, OSPrioCur |-> h,
   OSPrioHighRdy |-> h, OSTCBCur |-> <<p, h>>, OSTCBHighRdy |-> <<p, h>>]

LEMMA GlobalsOnType ==
  ASSUME NEW p \in Parts, NEW h \in TaskPrios, NEW time \in 0..(TimeMod - 1),
         NEW grp \in SUBSET Bits
  PROVE  GlobalsOn(p, h, time, grp) \in Globals
<1>1. h \in Prios64 /\ <<p, h>> \in (Parts \X TaskPrios) \cup {NoTCB}
  BY ConstantTypes
<1> QED
  BY <1>1 DEF GlobalsOn, Globals

\* The partition whose kernel runs on a core, and its current task.
LEMMA CurrentOf ==
  ASSUME IInv, NEW c \in Cores, Running(c)
  PROVE  /\ partition_current[c] \in Parts /\ TargetCore[partition_current[c]] = c
         /\ Active(partition_current[c]) /\ Added(partition_current[c])
         /\ tables[c] = partition_current[c]
         /\ globals[c] \in Globals /\ globals[c].OSRunning
         /\ globals[c].OSPrioCur \in TaskPrios
         /\ globals[c].OSPrioHighRdy = globals[c].OSPrioCur
         /\ globals[c].OSTCBCur = <<partition_current[c], globals[c].OSPrioCur>>
         /\ globals[c].OSTCBHighRdy = globals[c].OSTCBCur
         /\ globals[c].OSPrioCur = Highest(RdyOf(globals[c], partition_current[c]))
         /\ part_num = NumParts /\ stage[0] # "main"
<1> DEFINE p == partition_current[c]
<1>1. /\ p \in Parts /\ TargetCore[p] = c /\ tables[c] = p /\ globals[c].OSRunning
      /\ globals[c] \in Globals /\ stage \in [Cores -> {"reset", "main", "start", "run"}]
  BY DEF IInv, CoreInv, TypeOK
<1>2. stage[0] # "main" /\ part_num = NumParts
  BY <1>1 DEF IInv, BootInv, Running
<1>3. Active(p) /\ Added(p)
  BY <1>1, <1>2, PartitionAssumption DEF Active, Added, Parts
<1>4. Settled(globals[c], p)
  BY <1>1, <1>3 DEF IInv, KernelInv, KernelInOrder, GlobalsOf
<1>5. globals[c].OSPrioCur \in TaskPrios
  <2>1. <<p, globals[c].OSPrioCur>> \in (Parts \X TaskPrios) \cup {NoTCB}
    BY <1>1, <1>4 DEF Settled, Globals
  <2>2. <<p, globals[c].OSPrioCur>> # NoTCB
    BY <1>1, ConstantTypes DEF NoTCB
  <2> QED
    BY <2>1, <2>2
<1> QED
  BY <1>1, <1>2, <1>3, <1>4, <1>5 DEF Settled

\* What Reschedule does to the globals, the partition's context and the CPU,
\* whether it switches or finds the current task the highest.
LEMMA ReschedulesTo ==
  ASSUME IInv, NEW c \in Cores, Running(c),
         NEW STATE g, g \in Globals, g.OSRunning,
         g.OSTCBCur = globals[c].OSTCBCur, g.OSPrioCur = globals[c].OSPrioCur,
         NEW STATE rdy, IsBitmap(rdy),
         NEW STATE dly, dly \in [TaskPrios -> 0..MaxDly], dly[Idle] = 0,
         Members(rdy) = {t \in TaskPrios : dly[t] = 0},
         Reschedule(c, g, rdy, dly),
         NEW STATE p, p = partition_current[c],
         NEW STATE h, h = Highest(rdy)
  PROVE  /\ h \in TaskPrios
         /\ globals' = [globals EXCEPT ![c] = GlobalsOn(p, h, g.OSTime, rdy.grp)]
         /\ partition_context' \in [Parts -> PartContexts]
         /\ \A q \in Parts \ {p} : partition_context'[q] = partition_context[q]
         /\ partition_context'[p].globals = partition_context[p].globals
         /\ partition_context'[p].OSRdyTbl = rdy.tbl
         /\ partition_context'[p].OSTCBDly = dly
         /\ \A t \in TaskPrios : partition_context'[p].frame[t] =
              IF t = g.OSPrioCur /\ t # h THEN task_context_saved[c]
                                         ELSE partition_context[p].frame[t]
         /\ task_context_saved' = [task_context_saved EXCEPT ![c] =
              [tcb |-> <<p, h>>, pc |-> progress[p][h]]]
<1> DEFINE old == g.OSPrioCur
           hg == WithHighest(g, p, rdy)
           kept == [partition_context EXCEPT ![p].OSRdyTbl = rdy.tbl, ![p].OSTCBDly = dly]
<1>1. /\ p \in Parts /\ TargetCore[p] = c /\ tables[c] = p /\ Active(p)
      /\ old \in TaskPrios /\ g.OSTCBCur = <<p, old>>
  BY CurrentOf
<1>2. h \in TaskPrios
  <2>1. Idle \in Members(rdy)
    BY ConstantTypes
  <2> QED
    BY <2>1, HighestIsMinimum
<1>3. /\ rdy.grp \in SUBSET Bits /\ rdy.tbl \in [Bits -> SUBSET Bits]
      /\ partition_context \in [Parts -> PartContexts]
      /\ task_context_saved \in [Cores -> Contexts] /\ globals \in [Cores -> Globals]
  BY DEF IsBitmap, Bitmaps, IInv, TypeOK, PartContexts
<1>4. <<p, h>> \in Parts \X TaskPrios /\ h \in Prios64 /\ g.OSTime \in 0..(TimeMod - 1)
  BY <1>1, <1>2, ConstantTypes DEF Globals
<1>5. /\ hg \in Globals /\ hg.OSTime = g.OSTime /\ hg.OSRunning /\ hg.OSRdyGrp = rdy.grp
      /\ hg.OSPrioCur = old /\ hg.OSPrioHighRdy = h /\ hg.OSTCBCur = <<p, old>>
      /\ hg.OSTCBHighRdy = <<p, h>>
  BY <1>1, <1>3, <1>4 DEF WithHighest, Globals
<1> HIDE DEF hg
<1>6. /\ kept \in [Parts -> PartContexts]
      /\ \A q \in Parts \ {p} : kept[q] = partition_context[q]
      /\ kept[p].globals = partition_context[p].globals
      /\ kept[p].frame = partition_context[p].frame
      /\ kept[p].OSRdyTbl = rdy.tbl /\ kept[p].OSTCBDly = dly
  <2>1. partition_context \in [Parts -> PartContexts] /\ p \in Parts
        /\ rdy.tbl \in [Bits -> SUBSET Bits] /\ dly \in [TaskPrios -> 0..MaxDly]
    BY <1>1, <1>3
  <2> QED
    BY <2>1 DEF PartContexts
<1>7. task_context_saved[c] = [tcb |-> <<p, old>>, pc |-> progress[p][old]]
  BY <1>1, CurrentOf DEF IInv, CoreInv
<1>8. /\ globals' = [globals EXCEPT ![c] = IF h # old THEN MadeCurrent(hg) ELSE hg]
      /\ partition_context' =
           IF h # old THEN [kept EXCEPT ![p].frame[old] = task_context_saved[c]] ELSE kept
      /\ task_context_saved' =
           IF h # old THEN [task_context_saved EXCEPT ![c] = partition_context[p].frame[h]]
                      ELSE task_context_saved
  BY <1>1, <1>5 DEF Reschedule, FrameAt, NeedsSwitch, hg
<1> HIDE DEF kept
<1>9. CASE h # old
  <2>1. MadeCurrent(hg) = GlobalsOn(p, h, g.OSTime, rdy.grp)
    <3>1. /\ MadeCurrent(hg) \in Globals /\ MadeCurrent(hg).OSTime = g.OSTime
          /\ MadeCurrent(hg).OSRunning /\ MadeCurrent(hg).OSRdyGrp = rdy.grp
          /\ MadeCurrent(hg).OSPrioCur = h /\ MadeCurrent(hg).OSPrioHighRdy = h
          /\ MadeCurrent(hg).OSTCBCur = <<p, h>> /\ MadeCurrent(hg).OSTCBHighRdy = <<p, h>>
      BY <1>4, <1>5 DEF MadeCurrent, Globals
    <3> QED
      BY <3>1 DEF Globals, GlobalsOn
  <2>2. /\ partition_context' \in [Parts -> PartContexts]
        /\ \A q \in Parts \ {p} : partition_context'[q] = kept[q]
        /\ partition_context'[p].globals = kept[p].globals
        /\ partition_context'[p].frame = [kept[p].frame EXCEPT ![old] = task_context_saved[c]]
        /\ partition_context'[p].OSRdyTbl = kept[p].OSRdyTbl
        /\ partition_context'[p].OSTCBDly = kept[p].OSTCBDly
    <3>1. task_context_saved[c] \in Contexts
      BY <1>3
    <3>2. partition_context' = [kept EXCEPT ![p].frame[old] = task_context_saved[c]]
      BY <1>8, <1>9
    <3> HIDE DEF old
    <3> QED
      BY <1>1, <1>6, <3>1, <3>2 DEF PartContexts
  <2>3. \A t \in TaskPrios : partition_context'[p].frame[t] =
          IF t = old /\ t # h THEN task_context_saved[c] ELSE partition_context[p].frame[t]
    BY <1>1, <1>3, <1>6, <1>9, <2>2 DEF PartContexts
  <2>4. partition_context[p].frame[h] = [tcb |-> <<p, h>>, pc |-> progress[p][h]]
    BY <1>1, <1>2, <1>9, CurrentOf DEF InCPU, IInv, FrameInv
  <2> QED
    BY <1>2, <1>6, <1>8, <1>9, <2>1, <2>2, <2>3, <2>4
<1>10. CASE h = old
  <2>1. hg = GlobalsOn(p, h, g.OSTime, rdy.grp)
    BY <1>5, <1>10 DEF Globals, GlobalsOn
  <2> QED
    BY <1>2, <1>3, <1>6, <1>7, <1>8, <1>10, <2>1
<1> QED
  BY <1>9, <1>10


\* A step that leaves a partition's globals and context alone.
LEMMA KernelUntouched ==
  ASSUME NEW p \in Parts, KernelInOrder(p), GlobalsOf(p)' = GlobalsOf(p),
         partition_context'[p].OSRdyTbl = partition_context[p].OSRdyTbl,
         partition_context'[p].OSTCBDly = partition_context[p].OSTCBDly
  PROVE  KernelInOrder(p)'
<1>1. RdyOf(GlobalsOf(p), p)' = RdyOf(GlobalsOf(p), p)
  BY DEF RdyOf
<1>2. NotDelayed(p)' = NotDelayed(p)
  BY DEF NotDelayed
<1>3. Settled(GlobalsOf(p), p)' <=> Settled(GlobalsOf(p), p)
  BY <1>1 DEF Settled
<1> QED
  BY <1>1, <1>2, <1>3 DEF KernelInOrder

\* A step that gives a partition the globals of its highest ready task.
LEMMA KernelSettled ==
  ASSUME NEW p \in Parts, NEW STATE rdy, IsBitmap(rdy),
         NEW STATE time, GlobalsOf(p)' = GlobalsOn(p, Highest(rdy), time, rdy.grp),
         partition_context'[p].OSRdyTbl = rdy.tbl,
         Members(rdy) = {t \in TaskPrios : partition_context'[p].OSTCBDly[t] = 0}
  PROVE  KernelInOrder(p)'
<1> DEFINE h == Highest(rdy)
           g == GlobalsOn(p, h, time, rdy.grp)
<1>1. RdyOf(GlobalsOf(p), p)' = rdy
  <2>1. rdy = [grp |-> rdy.grp, tbl |-> rdy.tbl]
    BY DEF IsBitmap, Bitmaps
  <2>2. g.OSRdyGrp = rdy.grp
    BY DEF GlobalsOn
  <2> QED
    BY <2>1, <2>2 DEF RdyOf
<1>2. NotDelayed(p)' = Members(rdy)
  BY DEF NotDelayed
<1>3. /\ g.OSPrioCur = h /\ g.OSPrioHighRdy = h
      /\ g.OSTCBCur = <<p, h>> /\ g.OSTCBHighRdy = <<p, h>>
  BY DEF GlobalsOn
<1>4. Settled(GlobalsOf(p), p)'
  BY <1>1, <1>3 DEF Settled
<1> QED
  BY <1>1, <1>2, <1>4 DEF KernelInOrder

\* A reschedule of the current partition keeps the invariant.
LEMMA RescheduleKeepsIInv ==
  ASSUME IInv, NEW c \in Cores, Running(c),
         NEW STATE g, g \in Globals, g.OSRunning,
         g.OSTCBCur = globals[c].OSTCBCur, g.OSPrioCur = globals[c].OSPrioCur,
         NEW STATE rdy, IsBitmap(rdy),
         NEW STATE dly, dly \in [TaskPrios -> 0..MaxDly], dly[Idle] = 0,
         Members(rdy) = {t \in TaskPrios : dly[t] = 0},
         Reschedule(c, g, rdy, dly),
         UNCHANGED <<pcbVars, slice_ticks_left, stage, partition_current, tables,
                     segment, progress>>,
         phase' \in 0..Ratio, irq' \in [Timers -> BOOLEAN], ifr' \in [Cores -> SUBSET Timers]
  PROVE  IInv'
<1> DEFINE p == partition_current[c]
           h == Highest(rdy)
           new == GlobalsOn(p, h, g.OSTime, rdy.grp)
<1>1. /\ p \in Parts /\ TargetCore[p] = c /\ tables[c] = p /\ Active(p) /\ Added(p)
      /\ g.OSPrioCur \in TaskPrios /\ g.OSTCBCur = <<p, g.OSPrioCur>>
  BY CurrentOf
<1>2. /\ h \in TaskPrios
      /\ globals' = [globals EXCEPT ![c] = new]
      /\ partition_context' \in [Parts -> PartContexts]
      /\ \A q \in Parts \ {p} : partition_context'[q] = partition_context[q]
      /\ partition_context'[p].globals = partition_context[p].globals
      /\ partition_context'[p].OSRdyTbl = rdy.tbl
      /\ partition_context'[p].OSTCBDly = dly
      /\ \A t \in TaskPrios : partition_context'[p].frame[t] =
           IF t = g.OSPrioCur /\ t # h THEN task_context_saved[c]
                                      ELSE partition_context[p].frame[t]
      /\ task_context_saved' = [task_context_saved EXCEPT ![c] =
           [tcb |-> <<p, h>>, pc |-> progress[p][h]]]
  BY ReschedulesTo
<1>3. /\ stage' = stage /\ part_num' = part_num /\ partition_current' = partition_current
      /\ tables' = tables /\ segment' = segment /\ progress' = progress
      /\ xmc_id' = xmc_id /\ xmc_indices' = xmc_indices
      /\ slice_ticks_left' = slice_ticks_left
  BY DEF pcbVars
<1>4. rdy.grp \in SUBSET Bits
  BY DEF IsBitmap, Bitmaps
<1>5. new \in Globals
  BY <1>1, <1>2, <1>4, GlobalsOnType DEF Globals
<1>6. /\ new.OSRunning /\ new.OSPrioCur = h
  BY DEF GlobalsOn
<1>7. \A q \in Parts : Active(q)' = Active(q)
  BY <1>3 DEF Active
<1>8. \A q \in Parts \ {p} : Active(q) => TargetCore[q] # c
  BY <1>1 DEF Active
<1>9. globals'[c] = new /\ \A d \in Cores \ {c} : globals'[d] = globals[d]
  BY <1>2 DEF IInv, TypeOK
<1>10. GlobalsOf(p)' = new /\ \A q \in Parts \ {p} : GlobalsOf(q)' = GlobalsOf(q)
  BY <1>1, <1>2, <1>7, <1>8, <1>9, ConstantTypes DEF GlobalsOf
<1> HIDE DEF h, new
<1>11. TypeOK'
  <2>1. [tcb |-> <<p, h>>, pc |-> progress[p][h]] \in Contexts
    BY <1>1, <1>2 DEF Contexts, IInv, TypeOK
  <2>2. task_context_saved' \in [Cores -> Contexts] /\ globals' \in [Cores -> Globals]
    BY <1>2, <1>5, <2>1 DEF IInv, TypeOK
  <2>3. partition_context' \in [Parts -> PartContexts]
    BY <1>2
  <2> QED
    BY <1>3, <2>2, <2>3 DEF IInv, TypeOK, PartContexts
<1>12. BootInv' /\ SlotInv'
  BY <1>3 DEF IInv, BootInv, SlotInv, Added
<1>13. KernelInv'
  <2>1. ASSUME NEW q \in Parts \ {p}, Added(q)
        PROVE  KernelInOrder(q)'
    BY <1>2, <1>10, <2>1, KernelUntouched DEF IInv, KernelInv
  <2>2. ASSUME NEW q \in Parts, q = p
        PROVE  KernelInOrder(q)'
    <3>1. /\ GlobalsOf(q)' = GlobalsOn(q, Highest(rdy), g.OSTime, rdy.grp)
          /\ partition_context'[q].OSRdyTbl = rdy.tbl
          /\ Members(rdy) = {t \in TaskPrios : partition_context'[q].OSTCBDly[t] = 0}
      BY <1>2, <1>10, <2>2 DEF h, new
    <3> QED
      BY <3>1, KernelSettled
  <2> QED
    BY <1>3, <2>1, <2>2 DEF KernelInv, Added
<1>14. DelayInv'
  BY <1>1, <1>2, <1>3 DEF IInv, DelayInv, Added
<1>15. CoreInv'
  <2>1. ASSUME NEW d \in Cores \ {c}
        PROVE  /\ globals'[d] = globals[d] /\ task_context_saved'[d] = task_context_saved[d]
    BY <1>2, <1>9 DEF IInv, TypeOK
  <2>2. /\ globals'[c].OSRunning /\ globals'[c].OSPrioCur = h
        /\ task_context_saved'[c] = [tcb |-> <<p, h>>, pc |-> progress[p][h]]
    BY <1>2, <1>6, <1>9 DEF IInv, TypeOK
  <2>3. partition_current[c] \in Parts /\ segment[c] = p
    BY <1>1 DEF IInv, CoreInv
  <2> QED
    BY <1>1, <1>3, <2>1, <2>2, <2>3 DEF IInv, CoreInv, Running
<1>16. FrameInv'
  <2> SUFFICES ASSUME NEW q \in Parts, NEW t \in TaskPrios, ~InCPU(q, t)'
               PROVE  partition_context'[q].frame[t] =
                        [tcb |-> <<q, t>>, pc |-> progress[q][t]]
    BY <1>3 DEF FrameInv
  <2>1. CASE q # p
    <3>1. ~InCPU(q, t)
      BY <1>7, <1>8, <1>9, <2>1, ConstantTypes DEF InCPU
    <3> QED
      BY <1>2, <2>1, <3>1 DEF IInv, FrameInv
  <2>2. CASE q = p
    <3>1. t # h
      BY <1>1, <1>6, <1>7, <1>9, <2>2 DEF InCPU
    <3>2. CASE t = g.OSPrioCur
      BY <1>2, <2>2, <3>1, <3>2, CurrentOf DEF IInv, CoreInv
    <3>3. CASE t # g.OSPrioCur
      <4>1. ~InCPU(p, t)
        BY <1>1, <3>3 DEF InCPU
      <4> QED
        BY <1>2, <2>2, <3>3, <4>1 DEF IInv, FrameInv
    <3> QED
      BY <3>2, <3>3
  <2> QED
    BY <2>1, <2>2
<1> QED
  BY <1>11, <1>12, <1>13, <1>14, <1>15, <1>16 DEF IInv


-----------------------------------------------------------------------------
(* Every step keeps the invariant *)

\* The ready list a kernel service finds.
LEMMA ReadyListOf ==
  ASSUME IInv, NEW c \in Cores, Running(c)
  PROVE  LET rdy == RdyOf(globals[c], tables[c])
         IN  IsBitmap(rdy) /\ Members(rdy) = NotDelayed(tables[c])
BY CurrentOf DEF IInv, KernelInv, KernelInOrder, GlobalsOf

LEMMA OSTimeDlyKeepsIInv ==
  ASSUME IInv, NEW c \in Cores, NEW ticks \in 1..MaxDly, OSTimeDly(c, ticks)
  PROVE  IInv'
<1> DEFINE p == partition_current[c]
           old == globals[c].OSPrioCur
           before == RdyOf(globals[c], p)
           rdy == Remove(before, old)
           dly == [partition_context[p].OSTCBDly EXCEPT ![old] = ticks]
<1>1. Running(c)
  BY DEF OSTimeDly, Running
<1>2. /\ p \in Parts /\ tables[c] = p /\ old \in TaskPrios
      /\ globals[c] \in Globals /\ globals[c].OSRunning /\ globals[c].OSTCBCur[2] = old
  BY <1>1, CurrentOf
<1>3. old # Idle
  <2>1. task_context_saved[c].tcb = <<p, old>>
    <3>1. task_context_saved[c] = [tcb |-> <<p, old>>, pc |-> progress[p][old]]
      BY <1>1 DEF IInv, CoreInv
    <3> QED
      BY <3>1
  <2>2. task_context_saved[c].tcb[2] # Idle
    BY DEF OSTimeDly
  <2> QED
    BY <2>1, <2>2
<1>4. IsBitmap(before) /\ Members(before) = NotDelayed(p)
  BY <1>1, <1>2, ReadyListOf
<1> HIDE DEF before
<1>5. IsBitmap(rdy) /\ Members(rdy) = NotDelayed(p) \ {old}
  BY <1>2, <1>4, ConstantTypes, RemoveIsDeletion
<1>6. partition_context[p].OSTCBDly \in [TaskPrios -> 0..MaxDly]
  BY <1>2, PartTypes DEF IInv
<1>7. dly \in [TaskPrios -> 0..MaxDly]
  <2>1. ticks \in 0..MaxDly
    BY ConstantTypes
  <2> HIDE DEF old
  <2> QED
    BY <1>6, <2>1
<1>8. dly[Idle] = 0
  BY <1>2, <1>3, <1>6, ConstantTypes DEF IInv, DelayInv
<1>9. Members(rdy) = {t \in TaskPrios : dly[t] = 0}
  BY <1>2, <1>5, <1>6 DEF NotDelayed
<1>10. Reschedule(c, globals[c], rdy, dly)
  BY <1>2 DEF OSTimeDly, before
<1>11. /\ UNCHANGED <<pcbVars, slice_ticks_left, stage, partition_current, tables,
                      segment, progress>>
       /\ phase' \in 0..Ratio /\ irq' \in [Timers -> BOOLEAN]
       /\ ifr' \in [Cores -> SUBSET Timers]
  BY DEF OSTimeDly, timerVars, IInv, TypeOK
<1> HIDE DEF rdy, dly
<1> QED
  BY <1>1, <1>2, <1>5, <1>7, <1>8, <1>9, <1>10, <1>11, RescheduleKeepsIInv

LEMMA OSTaskTimerISRKeepsIInv ==
  ASSUME IInv, NEW c \in Cores, OSTaskTimerISR(c)
  PROVE  IInv'
<1> DEFINE p == partition_current[c]
           g == [globals[c] EXCEPT !.OSTime = (@ + 1) % TimeMod]
           before == RdyOf(g, p)
           was == partition_context[p].OSTCBDly
           expiring == {t \in TaskPrios \ {Idle} : was[t] # 0 /\ Ticked(was[t]) = 0}
           rdy == AddAll(before, expiring)
           dly == [t \in TaskPrios |-> IF t # Idle THEN Ticked(was[t]) ELSE was[t]]
<1>1. Running(c)
  BY DEF OSTaskTimerISR, Running
<1>2. /\ p \in Parts /\ tables[c] = p /\ globals[c] \in Globals /\ globals[c].OSRunning
  BY <1>1, CurrentOf
<1>3. /\ g \in Globals /\ g.OSRunning /\ g.OSRdyGrp = globals[c].OSRdyGrp
      /\ g.OSTCBCur = globals[c].OSTCBCur /\ g.OSPrioCur = globals[c].OSPrioCur
  <2>1. globals[c].OSTime + 1 \in Nat
    BY <1>2 DEF Globals
  <2>2. (globals[c].OSTime + 1) % TimeMod \in 0..(TimeMod - 1)
    BY <2>1, ConstantTypes
  <2> QED
    BY <1>2, <2>2 DEF Globals
<1> HIDE DEF g
<1>4. IsBitmap(before) /\ Members(before) = NotDelayed(p)
  BY <1>1, <1>2, <1>3, ReadyListOf DEF RdyOf
<1>5. was \in [TaskPrios -> 0..MaxDly] /\ was[Idle] = 0
  BY <1>2, PartTypes DEF IInv, DelayInv
<1> HIDE DEF before, was
<1>6. IsBitmap(rdy) /\ Members(rdy) = NotDelayed(p) \cup expiring
  <2>1. expiring \in SUBSET Prios64
    BY ConstantTypes
  <2> QED
    BY <1>4, <2>1, AddAllIsUnion
<1>7. dly \in [TaskPrios -> 0..MaxDly] /\ dly[Idle] = 0
  BY <1>5, ConstantTypes DEF Ticked
<1>8. Members(rdy) = {t \in TaskPrios : dly[t] = 0}
  BY <1>5, <1>6 DEF NotDelayed, was, Ticked
<1>9. Reschedule(c, g, rdy, dly)
  BY <1>2 DEF OSTaskTimerISR, before, was, g
<1>10. UNCHANGED <<pcbVars, slice_ticks_left, stage, partition_current, tables,
                   segment, progress, phase>>
  BY DEF OSTaskTimerISR
<1>11. /\ phase' \in 0..Ratio /\ irq' \in [Timers -> BOOLEAN]
       /\ ifr' \in [Cores -> SUBSET Timers]
  BY <1>10 DEF OSTaskTimerISR, IInv, TypeOK
<1> HIDE DEF rdy, dly
<1> QED
  BY <1>1, <1>3, <1>6, <1>7, <1>8, <1>9, <1>10, <1>11, RescheduleKeepsIInv

\* A step that touches nothing but slices and timers.
LEMMA TimerStepKeepsIInv ==
  ASSUME IInv, slice_ticks_left' \in [Parts -> Nat],
         phase' \in 0..Ratio, irq' \in [Timers -> BOOLEAN], ifr' \in [Cores -> SUBSET Timers],
         UNCHANGED <<pcbVars, coreVars, partition_context, stage, progress>>
  PROVE  IInv'
<1>1. /\ part_num' = part_num /\ xmc_id' = xmc_id /\ xmc_indices' = xmc_indices
      /\ partition_current' = partition_current /\ globals' = globals
      /\ tables' = tables /\ task_context_saved' = task_context_saved
      /\ segment' = segment /\ partition_context' = partition_context
      /\ stage' = stage /\ progress' = progress
  BY DEF pcbVars, coreVars
<1>2. TypeOK'
  BY <1>1 DEF IInv, TypeOK
<1>3. BootInv' /\ SlotInv' /\ DelayInv' /\ CoreInv' /\ FrameInv'
  BY <1>1 DEF IInv, BootInv, SlotInv, DelayInv, CoreInv, FrameInv, Running, Added,
              InCPU, Active
<1>4. KernelInv'
  BY <1>1 DEF IInv, KernelInv, KernelInOrder, Added, GlobalsOf, Active, RdyOf, Settled,
              NotDelayed
<1> QED
  BY <1>2, <1>3, <1>4 DEF IInv

LEMMA OverflowKeepsIInv ==
  ASSUME IInv, NEW tm \in Timers, Overflow(tm)
  PROVE  IInv'
<1>1. UNCHANGED <<pcbVars, coreVars, partition_context, stage, progress, slice_ticks_left>>
  BY DEF Overflow
<1>2. phase' \in 0..Ratio
  <2>1. phase \in 0..Ratio /\ Ratio \in Nat
    BY ConstantTypes DEF IInv, TypeOK
  <2>2. (phase < Ratio /\ phase' = phase + 1) \/ phase' = 0
    BY DEF Overflow
  <2> QED
    BY <2>1, <2>2
<1>3. irq' \in [Timers -> BOOLEAN] /\ ifr' \in [Cores -> SUBSET Timers]
  BY DEF Overflow, IInv, TypeOK
<1> QED
  BY <1>1, <1>2, <1>3, TimerStepKeepsIInv DEF IInv, TypeOK

\* The tick of a slice that is not over, or that the same partition has again.
LEMMA SliceTickKeepsIInv ==
  ASSUME IInv, NEW c \in Cores, KeepSlice(c) \/ RefillSlice(c)
  PROVE  IInv'
<1>1. UNCHANGED <<pcbVars, coreVars, partition_context, stage, progress, phase>>
  BY DEF KeepSlice, RefillSlice, PartitionTick
<1>2. irq' \in [Timers -> BOOLEAN] /\ ifr' \in [Cores -> SUBSET Timers]
  <2>1. PartitionTick(c)
    BY DEF KeepSlice, RefillSlice
  <2> QED
    BY <2>1 DEF PartitionTick, IInv, TypeOK
<1>3. slice_ticks_left' \in [Parts -> Nat]
  <2>1. partition_current[c] \in Parts /\ slice_ticks_left \in [Parts -> Nat]
    BY CurrentOf DEF KeepSlice, RefillSlice, PartitionTick, Running, IInv, TypeOK
  <2>2. SliceTicks[partition_current[c]] - 1 \in Nat
    BY <2>1, ConstantTypes
  <2> QED
    BY <2>1, <2>2 DEF KeepSlice, RefillSlice, SliceIsOver, FullSlice
<1> QED
  BY <1>1, <1>2, <1>3, TimerStepKeepsIInv DEF IInv, TypeOK


LEMMA TaskStepKeepsIInv ==
  ASSUME IInv, NEW c \in Cores, TaskStep(c)
  PROVE  IInv'
<1> DEFINE p == partition_current[c]
           old == globals[c].OSPrioCur
           pc == (task_context_saved[c].pc + 1) % PcMod
<1>1. Running(c)
  BY DEF TaskStep, Running
<1>2. /\ p \in Parts /\ TargetCore[p] = c /\ Active(p) /\ old \in TaskPrios
  BY <1>1, CurrentOf
<1>3. task_context_saved[c] = [tcb |-> <<p, old>>, pc |-> progress[p][old]]
  BY <1>1 DEF IInv, CoreInv
<1>4. /\ progress \in [Parts -> [TaskPrios -> 0..(PcMod - 1)]]
      /\ task_context_saved \in [Cores -> Contexts]
  BY DEF IInv, TypeOK
<1>5. pc \in 0..(PcMod - 1)
  <2>1. task_context_saved[c].pc + 1 \in Nat
    BY <1>2, <1>4 DEF Contexts
  <2> QED
    BY <2>1, ConstantTypes
<1>6. /\ UNCHANGED <<pcbVars, timerVars, slice_ticks_left, partition_context, stage,
                     partition_current, globals, tables, segment>>
      /\ task_context_saved' = [task_context_saved EXCEPT ![c].pc = pc]
      /\ progress' = [progress EXCEPT ![p][old] = pc]
  <2>1. task_context_saved[c].tcb = <<p, old>>
    BY <1>3
  <2> QED
    BY <2>1 DEF TaskStep
<1>7. /\ part_num' = part_num /\ xmc_id' = xmc_id /\ xmc_indices' = xmc_indices
      /\ partition_current' = partition_current /\ globals' = globals
      /\ tables' = tables /\ segment' = segment /\ partition_context' = partition_context
      /\ stage' = stage /\ slice_ticks_left' = slice_ticks_left
      /\ phase' = phase /\ irq' = irq /\ ifr' = ifr
  BY <1>6 DEF pcbVars, timerVars
<1> HIDE DEF pc
<1>8. /\ task_context_saved'[c] = [tcb |-> <<p, old>>, pc |-> pc]
      /\ \A d \in Cores \ {c} : task_context_saved'[d] = task_context_saved[d]
      /\ task_context_saved' \in [Cores -> Contexts]
  <2>1. [tcb |-> <<p, old>>, pc |-> pc] \in Contexts
    BY <1>2, <1>5 DEF Contexts
  <2>2. task_context_saved' =
          [task_context_saved EXCEPT ![c] = [tcb |-> <<p, old>>, pc |-> pc]]
    <3>1. [task_context_saved[c] EXCEPT !.pc = pc] = [tcb |-> <<p, old>>, pc |-> pc]
      BY <1>3
    <3>2. task_context_saved' =
            [task_context_saved EXCEPT ![c] = [task_context_saved[c] EXCEPT !.pc = pc]]
      BY <1>6
    <3> QED
      BY <3>1, <3>2
  <2> QED
    BY <1>4, <2>1, <2>2
<1>9. /\ progress'[p][old] = pc
      /\ \A q \in Parts, t \in TaskPrios : q # p \/ t # old =>
           progress'[q][t] = progress[q][t]
      /\ progress' \in [Parts -> [TaskPrios -> 0..(PcMod - 1)]]
  BY <1>2, <1>4, <1>5, <1>6
<1>10. TypeOK'
  BY <1>7, <1>8, <1>9 DEF IInv, TypeOK
<1>11. BootInv' /\ SlotInv' /\ DelayInv'
  BY <1>7 DEF IInv, BootInv, SlotInv, DelayInv, Added
<1>12. KernelInv'
  BY <1>7 DEF IInv, KernelInv, KernelInOrder, Added, GlobalsOf, Active, RdyOf, Settled,
              NotDelayed
<1>13. CoreInv'
  <2>1. ASSUME NEW d \in Cores \ {c}, Running(d)
        PROVE  /\ partition_current[d] \in Parts \ {p}
               /\ globals[d].OSPrioCur \in TaskPrios
    BY <1>2, <2>1, CurrentOf
  <2> QED
    BY <1>1, <1>2, <1>7, <1>8, <1>9, <2>1 DEF IInv, CoreInv, Running
<1>14. FrameInv'
  <2>1. InCPU(p, old)
    BY <1>2 DEF InCPU
  <2>2. \A q \in Parts, t \in TaskPrios : InCPU(q, t)' = InCPU(q, t)
    BY <1>7 DEF InCPU, Active
  <2> QED
    BY <1>7, <1>9, <2>1, <2>2 DEF IInv, FrameInv
<1> QED
  BY <1>10, <1>11, <1>12, <1>13, <1>14 DEF IInv

\* Until core 0 has added the partitions, no core has one.
LEMMA NoneActive ==
  ASSUME IInv, stage[0] = "main"
  PROVE  /\ \A c \in Cores : ~Running(c) /\ partition_current[c] = NULL
         /\ \A p \in Parts : ~Active(p)
<1>1. ASSUME NEW c \in Cores
      PROVE  ~Running(c) /\ partition_current[c] = NULL
  <2>1. stage[c] # "run"
    BY DEF IInv, BootInv
  <2> QED
    BY <2>1 DEF IInv, CoreInv, Running
<1> QED
  BY <1>1, ConstantTypes DEF Active

LEMMA StartCoresKeepsIInv ==
  ASSUME IInv, StartCores
  PROVE  IInv'
<1>1. /\ part_num' = part_num /\ xmc_id' = xmc_id /\ xmc_indices' = xmc_indices
      /\ partition_current' = partition_current /\ globals' = globals
      /\ tables' = tables /\ task_context_saved' = task_context_saved
      /\ segment' = segment /\ partition_context' = partition_context
      /\ progress' = progress /\ slice_ticks_left' = slice_ticks_left
      /\ phase' = phase /\ irq' = irq /\ ifr' = ifr
  BY DEF StartCores, pcbVars, coreVars, timerVars
<1>2. stage[0] = "main" /\ part_num = NumParts
      /\ stage' = [c \in Cores |-> IF c = 0 THEN "start" ELSE "main"]
  BY DEF StartCores
<1>3. \A c \in Cores : ~Running(c)' /\ partition_current[c] = NULL
  BY <1>2, NoneActive DEF Running
<1>4. TypeOK'
  BY <1>1, <1>2 DEF IInv, TypeOK
<1>5. BootInv'
  BY <1>1, <1>2, ConstantTypes DEF BootInv
<1>6. SlotInv' /\ DelayInv' /\ CoreInv' /\ FrameInv'
  BY <1>1, <1>3 DEF IInv, SlotInv, DelayInv, CoreInv, FrameInv, Running, Added,
              InCPU, Active
<1>7. KernelInv'
  BY <1>1 DEF IInv, KernelInv, KernelInOrder, Added, GlobalsOf, Active, RdyOf, Settled,
              NotDelayed
<1> QED
  BY <1>4, <1>5, <1>6, <1>7 DEF IInv


LEMMA PartitionAddKeepsIInv ==
  ASSUME IInv, PartitionAdd
  PROVE  IInv'
<1> DEFINE n == part_num
           rdy == AddAll(EmptyBitmap, TaskPrios)
           g == [ClearGlobals EXCEPT !.OSRdyGrp = rdy.grp]
<1>1. /\ stage[0] = "main" /\ part_num \in 0..NumParts /\ part_num < NumParts
      /\ part_num' = part_num + 1 /\ NumParts \in Nat /\ part_num \in Nat
  BY ConstantTypes DEF PartitionAdd, IInv, TypeOK
<1>2. n \in 0..(NumSegments - 1) /\ n \in Parts /\ FreeSegment = n
  BY <1>1, FreeSlot DEF IInv
<1>3. /\ slice_ticks_left' = slice_ticks_left /\ stage' = stage
      /\ partition_current' = partition_current /\ tables' = tables
      /\ task_context_saved' = task_context_saved /\ segment' = segment
      /\ progress' = progress /\ phase' = phase /\ irq' = irq /\ ifr' = ifr
  BY DEF PartitionAdd, timerVars
<1>4. /\ partition_context' = [partition_context EXCEPT ![n].globals = g,
                                                        ![n].OSRdyTbl = rdy.tbl]
      /\ globals' = [globals EXCEPT ![0] = g]
      /\ xmc_id' = [xmc_id EXCEPT ![n] = n]
      /\ xmc_indices' = [xmc_indices EXCEPT ![n] = n]
  BY <1>2 DEF PartitionAdd
<1>5. IsBitmap(rdy) /\ Members(rdy) = TaskPrios
  <2>1. TaskPrios \in SUBSET Prios64
    BY ConstantTypes
  <2> QED
    BY <2>1, EmptyIsBitmap, AddAllIsUnion
<1>6. /\ rdy = [grp |-> rdy.grp, tbl |-> rdy.tbl]
      /\ rdy.grp \in SUBSET Bits /\ rdy.tbl \in [Bits -> SUBSET Bits]
  BY <1>5 DEF IsBitmap, Bitmaps
<1> HIDE DEF rdy
<1>7. g \in Globals /\ ~g.OSRunning /\ g.OSRdyGrp = rdy.grp
  <2>1. ClearGlobals.OSRunning = FALSE
    BY DEF ClearGlobals
  <2> QED
    BY <1>6, <2>1, ClearGlobalsType DEF Globals
<1> HIDE DEF g
<1>8. /\ \A c \in Cores : ~Running(c) /\ partition_current[c] = NULL
      /\ \A p \in Parts : ~Active(p) /\ ~Active(p)'
  BY <1>1, <1>3, NoneActive DEF Active
<1>9. partition_context \in [Parts -> PartContexts] /\ globals \in [Cores -> Globals]
  BY DEF IInv, TypeOK, PartContexts
<1>10. /\ partition_context' \in [Parts -> PartContexts]
       /\ \A q \in Parts \ {n} : partition_context'[q] = partition_context[q]
       /\ partition_context'[n].globals = g /\ partition_context'[n].OSRdyTbl = rdy.tbl
       /\ partition_context'[n].OSTCBDly = partition_context[n].OSTCBDly
       /\ partition_context'[n].frame = partition_context[n].frame
  <2> HIDE DEF n
  <2> QED
    BY <1>2, <1>4, <1>6, <1>7, <1>9 DEF PartContexts
<1>11. \A q \in Parts : Added(q)' => Added(q) \/ q = n
  BY <1>1 DEF Added, Parts
<1>12. \A q \in Parts : Added(q) => Added(q)' /\ q # n
  BY <1>1 DEF Added, Parts
<1>13. TypeOK'
  <2>1. /\ part_num' \in 0..NumParts /\ globals' \in [Cores -> Globals]
        /\ xmc_id' \in [Parts -> 0..(NumSegments - 1)]
        /\ xmc_indices' \in [0..(NumSegments - 1) -> Parts \cup {NULL}]
    BY <1>1, <1>2, <1>4, <1>7, <1>9, ConstantTypes DEF IInv, TypeOK
  <2> QED
    BY <1>3, <1>10, <2>1 DEF IInv, TypeOK, PartContexts
<1>14. BootInv'
  BY <1>1, <1>3 DEF IInv, BootInv
<1>15. SlotInv'
  <2>1. ASSUME NEW i \in 0..(NumSegments - 1)
        PROVE  xmc_indices'[i] = IF i < part_num' THEN i ELSE NULL
    <3>1. xmc_indices'[i] = IF i = n THEN n ELSE xmc_indices[i]
      BY <1>4 DEF IInv, TypeOK
    <3>2. xmc_indices[i] = IF i < n THEN i ELSE NULL
      BY DEF IInv, SlotInv
    <3>3. i \in Int /\ n \in Int
      BY <1>1
    <3>4. i < part_num' <=> i < n \/ i = n
      BY <1>1, <3>3
    <3> HIDE DEF n
    <3> QED
      BY <3>1, <3>2, <3>4
  <2>2. ASSUME NEW p \in Parts, Added(p)'
        PROVE  xmc_id'[p] = p
    BY <1>2, <1>4, <1>11, <2>2 DEF IInv, TypeOK, SlotInv
  <2> QED
    BY <2>1, <2>2 DEF SlotInv
<1>16. KernelInv'
  <2>1. ASSUME NEW q \in Parts, Added(q)
        PROVE  KernelInOrder(q)'
    <3>1. partition_context'[q] = partition_context[q]
      BY <1>10, <1>12, <2>1
    <3> QED
      BY <1>8, <2>1, <3>1, KernelUntouched DEF IInv, KernelInv, GlobalsOf
  <2>2. ASSUME NEW q \in Parts, q = n
        PROVE  KernelInOrder(q)'
    <3>1. GlobalsOf(q)' = g
      BY <1>8, <1>10, <2>2 DEF GlobalsOf
    <3>2. RdyOf(GlobalsOf(q), q)' = rdy
      BY <1>6, <1>7, <1>10, <2>2, <3>1 DEF RdyOf
    <3>3. \A t \in TaskPrios : partition_context'[q].OSTCBDly[t] = 0
      <4>1. ~Added(n)
        BY <1>1 DEF Added
      <4> QED
        BY <1>2, <1>10, <2>2, <4>1 DEF IInv, DelayInv
    <3> QED
      BY <1>5, <1>7, <3>1, <3>2, <3>3 DEF KernelInOrder, NotDelayed
  <2> QED
    BY <1>11, <2>1, <2>2 DEF KernelInv
<1>17. DelayInv'
  <2> SUFFICES ASSUME NEW p \in Parts
               PROVE  /\ partition_context'[p].OSTCBDly[Idle] = 0
                      /\ ~Added(p)' =>
                           /\ ~partition_context'[p].globals.OSRunning
                           /\ \A t \in TaskPrios : partition_context'[p].OSTCBDly[t] = 0
    BY DEF DelayInv
  <2>1. partition_context'[p].OSTCBDly = partition_context[p].OSTCBDly
    BY <1>10
  <2>2. ~Added(p)' => ~Added(p) /\ partition_context'[p] = partition_context[p]
    <3>1. p = n => Added(p)'
      BY <1>1 DEF Added
    <3> QED
      BY <1>10, <1>12, <3>1
  <2> QED
    BY <2>1, <2>2 DEF IInv, DelayInv
<1>18. CoreInv'
  BY <1>3, <1>8 DEF CoreInv, Running
<1>19. FrameInv'
  BY <1>3, <1>8, <1>10 DEF IInv, FrameInv, InCPU
<1> QED
  BY <1>13, <1>14, <1>15, <1>16, <1>17, <1>18, <1>19 DEF IInv


\* Core c enters its partition p with the highest of its ready list rdy in the
\* CPU; contexts is partition_context with what the core had before saved.
EntersInOrder(c, p, contexts, rdy, time) ==
  /\ p \in Parts /\ TargetCore[p] = c /\ stage[0] # "main"
  /\ contexts \in [Parts -> PartContexts] /\ time \in 0..(TimeMod - 1)
  /\ IsBitmap(rdy) /\ rdy.tbl = partition_context[p].OSRdyTbl
  /\ Members(rdy) = NotDelayed(p) /\ Highest(rdy) \in TaskPrios
  /\ EnterPartition(c, p, GlobalsOn(p, Highest(rdy), time, rdy.grp), contexts)
  /\ \A q \in Parts : /\ contexts[q].OSRdyTbl = partition_context[q].OSRdyTbl
                      /\ contexts[q].OSTCBDly = partition_context[q].OSTCBDly
  /\ \A q \in Parts \ {p} : TargetCore[q] = c \/ ~Active(q) =>
       contexts[q].globals = GlobalsOf(q)
  /\ \A q \in Parts, t \in TaskPrios : TargetCore[q] = c \/ ~InCPU(q, t) =>
       contexts[q].frame[t] = [tcb |-> <<q, t>>, pc |-> progress[q][t]]
  /\ stage' = [stage EXCEPT ![c] = "run"] /\ UNCHANGED <<pcbVars, progress>>
  /\ phase' \in 0..Ratio /\ irq' \in [Timers -> BOOLEAN] /\ ifr' \in [Cores -> SUBSET Timers]

\* partition_context_load of a partition that is in order, on its own core.
LEMMA EnterKeepsIInv ==
  ASSUME IInv, NEW c \in Cores, NEW STATE p, NEW STATE contexts, NEW STATE rdy,
         NEW STATE time, EntersInOrder(c, p, contexts, rdy, time)
  PROVE  IInv'
<1> USE DEF EntersInOrder
<1> DEFINE h == Highest(rdy)
           new == GlobalsOn(p, h, time, rdy.grp)
<1>1. /\ part_num' = part_num /\ xmc_id' = xmc_id /\ xmc_indices' = xmc_indices
      /\ progress' = progress
  BY DEF pcbVars
<1>2. rdy.grp \in SUBSET Bits /\ new \in Globals
  BY GlobalsOnType DEF IsBitmap, Bitmaps
<1>3. /\ new.OSRunning /\ new.OSPrioCur = h /\ new.OSTCBCur = <<p, h>>
      /\ new.OSTCBCur[1] = p /\ new.OSTCBCur[2] = h
  BY DEF GlobalsOn
<1>4. part_num = NumParts /\ Added(p) /\ p \in 0..(NumSegments - 1) /\ p < part_num
  BY PartitionAssumption DEF IInv, BootInv, Added, Parts
<1>5. contexts[p].frame[h] = [tcb |-> <<p, h>>, pc |-> progress[p][h]]
  OBVIOUS
<1>6. /\ partition_current' = [partition_current EXCEPT ![c] = p]
      /\ slice_ticks_left' = [slice_ticks_left EXCEPT ![p] = FullSlice(p)]
      /\ tables' = [tables EXCEPT ![c] = p]
      /\ globals' = [globals EXCEPT ![c] = new]
      /\ partition_context' = contexts
      /\ task_context_saved' = [task_context_saved EXCEPT ![c] =
           [tcb |-> <<p, h>>, pc |-> progress[p][h]]]
  BY <1>3, <1>5 DEF EnterPartition, LoadTables, LoadGlobals
<1>7. segment' = [segment EXCEPT ![c] = p]
  <2>1. xmc_id[p] = p /\ xmc_indices[p] = p
    BY <1>4 DEF IInv, SlotInv
  <2> QED
    BY <2>1 DEF EnterPartition, ActivateSegment
<1> HIDE DEF new
<1>8. TypeOK'
  <2>1. [tcb |-> <<p, h>>, pc |-> progress[p][h]] \in Contexts
    BY DEF IInv, TypeOK, Contexts
  <2>2. SliceTicks[p] - 1 \in Nat
    BY ConstantTypes
  <2>3. /\ slice_ticks_left' \in [Parts -> Nat]
        /\ partition_current' \in [Cores -> Parts \cup {NULL}]
        /\ tables' \in [Cores -> Parts \cup {NULL}]
        /\ segment' \in [Cores -> Parts \cup {NULL}]
        /\ stage' \in [Cores -> {"reset", "main", "start", "run"}]
    BY <1>6, <1>7, <2>2 DEF IInv, TypeOK, FullSlice
  <2>4. /\ globals' \in [Cores -> Globals]
        /\ task_context_saved' \in [Cores -> Contexts]
    BY <1>2, <1>6, <2>1 DEF IInv, TypeOK
  <2> QED
    BY <1>1, <1>6, <2>3, <2>4 DEF IInv, TypeOK, PartContexts
<1>9. \A d \in Cores : stage'[d] = IF d = c THEN "run" ELSE stage[d]
  BY DEF IInv, TypeOK
<1>10. \A d \in Cores \ {c} :
         /\ partition_current'[d] = partition_current[d] /\ tables'[d] = tables[d]
         /\ globals'[d] = globals[d] /\ segment'[d] = segment[d]
         /\ task_context_saved'[d] = task_context_saved[d]
  BY <1>6, <1>7 DEF IInv, TypeOK
<1>11. /\ partition_current'[c] = p /\ tables'[c] = p /\ segment'[c] = p
       /\ globals'[c] = new
       /\ task_context_saved'[c] = [tcb |-> <<p, h>>, pc |-> progress[p][h]]
  BY <1>6, <1>7 DEF IInv, TypeOK
<1>12. \A q \in Parts : Active(q)' <=> IF TargetCore[q] = c THEN q = p ELSE Active(q)
  BY <1>10, <1>11, ConstantTypes DEF Active
<1>13. BootInv' /\ SlotInv'
  <2>1. stage'[0] \in {"start", "run"}
    BY <1>9, ConstantTypes DEF IInv, BootInv
  <2>2. \A d \in Cores \ {0} : stage'[d] \in {"main", "run"}
    BY <1>9 DEF IInv, BootInv
  <2> QED
    BY <1>1, <1>4, <2>1, <2>2 DEF IInv, BootInv, SlotInv, Added
<1>14. KernelInv'
  <2>1. ASSUME NEW q \in Parts, q # p, Added(q)
        PROVE  KernelInOrder(q)'
    <3>1. GlobalsOf(q)' = GlobalsOf(q)
      BY <1>6, <1>10, <1>12, <2>1, ConstantTypes DEF GlobalsOf
    <3>2. /\ partition_context'[q].OSRdyTbl = partition_context[q].OSRdyTbl
          /\ partition_context'[q].OSTCBDly = partition_context[q].OSTCBDly
      BY <1>6
    <3>3. KernelInOrder(q)
      BY <2>1 DEF IInv, KernelInv
    <3> QED
      BY <3>1, <3>2, <3>3, KernelUntouched
  <2>2. ASSUME NEW q \in Parts, q = p
        PROVE  KernelInOrder(q)'
    <3>1. GlobalsOf(q)' = GlobalsOn(q, h, time, rdy.grp)
      BY <1>11, <1>12, <2>2 DEF GlobalsOf, new
    <3>2. Members(rdy) = {t \in TaskPrios : partition_context'[q].OSTCBDly[t] = 0}
      BY <1>6, <2>2 DEF NotDelayed
    <3>3. partition_context'[q].OSRdyTbl = rdy.tbl
      BY <1>6, <2>2
    <3> QED
      BY <3>1, <3>2, <3>3, KernelSettled
  <2> QED
    BY <1>1, <2>1, <2>2 DEF KernelInv, Added
<1>15. DelayInv'
  <2>1. \A q \in Parts : Added(q) /\ Added(q)'
    BY <1>1, <1>4, PartitionAssumption DEF Added, Parts
  <2> QED
    BY <1>6, <2>1 DEF IInv, DelayInv
<1>16. CoreInv'
  <2>1. ASSUME NEW d \in Cores \ {c}
        PROVE  Running(d)' <=> Running(d)
    BY <1>9 DEF Running
  <2>2. Running(c)'
    BY <1>9 DEF Running
  <2>3. globals'[c].OSPrioCur = h /\ globals'[c].OSRunning
    BY <1>3, <1>11
  <2> QED
    BY <1>1, <1>10, <1>11, <2>1, <2>2, <2>3 DEF IInv, CoreInv
<1>17. FrameInv'
  <2> SUFFICES ASSUME NEW q \in Parts, NEW t \in TaskPrios, ~InCPU(q, t)'
               PROVE  contexts[q].frame[t] = [tcb |-> <<q, t>>, pc |-> progress[q][t]]
    BY <1>1, <1>6 DEF FrameInv
  <2>1. TargetCore[q] # c => ~InCPU(q, t)
    BY <1>10, <1>12, ConstantTypes DEF InCPU
  <2> QED
    BY <2>1
<1> QED
  BY <1>8, <1>13, <1>14, <1>15, <1>16, <1>17 DEF IInv


\* OSStart, and partition_switch's copy of it, choose the highest ready task.
LEMMA FirstRunIs ==
  ASSUME NEW STATE p, p \in Parts, NEW STATE g, g \in Globals,
         Highest(RdyOf(g, p)) \in TaskPrios
  PROVE  FirstRun(p, g) = GlobalsOn(p, Highest(RdyOf(g, p)), g.OSTime, g.OSRdyGrp)
<1> DEFINE h == Highest(RdyOf(g, p))
           w == WithHighest(g, p, RdyOf(g, p))
           m == MadeCurrent(w)
<1>1. h \in Prios64 /\ <<p, h>> \in Parts \X TaskPrios
  BY ConstantTypes
<1>2. RdyOf(g, p).grp = g.OSRdyGrp /\ g.OSRdyGrp \in SUBSET Bits
  BY DEF RdyOf, Globals
<1> HIDE DEF h
<1>3. /\ w \in Globals /\ w.OSTime = g.OSTime /\ w.OSRdyGrp = g.OSRdyGrp
      /\ w.OSPrioHighRdy = h /\ w.OSTCBHighRdy = <<p, h>>
  BY <1>1, <1>2 DEF WithHighest, Globals, h
<1> HIDE DEF w
<1>4. /\ m \in Globals /\ m.OSTime = g.OSTime /\ m.OSRdyGrp = g.OSRdyGrp
      /\ m.OSPrioHighRdy = h /\ m.OSTCBHighRdy = <<p, h>>
      /\ m.OSPrioCur = h /\ m.OSTCBCur = <<p, h>>
  BY <1>1, <1>3 DEF MadeCurrent, Globals
<1> HIDE DEF m
<1>5. FirstRun(p, g) = [m EXCEPT !.OSRunning = TRUE]
  BY DEF FirstRun, m, w
<1> DEFINE r == FirstRun(p, g)
<1>6. /\ r \in Globals /\ r.OSTime = g.OSTime /\ r.OSRdyGrp = g.OSRdyGrp
      /\ r.OSPrioHighRdy = h /\ r.OSTCBHighRdy = <<p, h>>
      /\ r.OSPrioCur = h /\ r.OSTCBCur = <<p, h>> /\ r.OSRunning = TRUE
  BY <1>4, <1>5 DEF Globals
<1> HIDE DEF r
<1>7. r = GlobalsOn(p, h, g.OSTime, g.OSRdyGrp)
  BY <1>6 DEF Globals, GlobalsOn
<1> QED
  BY <1>7 DEF r, h

\* The globals that partition_switch loads for a partition that has run.
LEMMA MadeCurrentIs ==
  ASSUME NEW STATE p, p \in Parts, NEW STATE g, g \in Globals, g.OSRunning,
         Settled(g, p), Highest(RdyOf(g, p)) \in TaskPrios
  PROVE  MadeCurrent(g) = GlobalsOn(p, Highest(RdyOf(g, p)), g.OSTime, g.OSRdyGrp)
<1> DEFINE h == Highest(RdyOf(g, p))
           m == MadeCurrent(g)
<1>1. /\ g.OSPrioCur = h /\ g.OSPrioHighRdy = h
      /\ g.OSTCBCur = <<p, h>> /\ g.OSTCBHighRdy = <<p, h>>
  BY DEF Settled
<1> HIDE DEF h
<1>2. /\ m \in Globals /\ m.OSTime = g.OSTime /\ m.OSRdyGrp = g.OSRdyGrp
      /\ m.OSPrioHighRdy = h /\ m.OSTCBHighRdy = <<p, h>> /\ m.OSRunning = TRUE
      /\ m.OSPrioCur = h /\ m.OSTCBCur = <<p, h>>
  BY <1>1 DEF MadeCurrent, Globals
<1> HIDE DEF m
<1>3. m = GlobalsOn(p, h, g.OSTime, g.OSRdyGrp)
  BY <1>2 DEF Globals, GlobalsOn
<1> QED
  BY <1>3 DEF m, h

\* The ready list of a partition that is in order has a task of it.
LEMMA HighestOf ==
  ASSUME IInv, NEW p \in Parts, Added(p)
  PROVE  LET rdy == RdyOf(GlobalsOf(p), p)
         IN  /\ IsBitmap(rdy) /\ rdy.tbl = partition_context[p].OSRdyTbl
             /\ rdy.grp = GlobalsOf(p).OSRdyGrp
             /\ Members(rdy) = NotDelayed(p)
             /\ Highest(rdy) \in NotDelayed(p) /\ Highest(rdy) \in TaskPrios
             /\ \A t \in NotDelayed(p) : Highest(rdy) <= t
<1> DEFINE rdy == RdyOf(GlobalsOf(p), p)
<1>1. IsBitmap(rdy) /\ Members(rdy) = NotDelayed(p)
  BY DEF IInv, KernelInv, KernelInOrder
<1>2. rdy.tbl = partition_context[p].OSRdyTbl /\ rdy.grp = GlobalsOf(p).OSRdyGrp
  BY DEF RdyOf
<1>3. Idle \in NotDelayed(p)
  BY ConstantTypes DEF IInv, DelayInv, NotDelayed
<1> HIDE DEF rdy
<1>4. Highest(rdy) \in NotDelayed(p) /\ \A t \in NotDelayed(p) : Highest(rdy) <= t
  BY <1>1, <1>3, HighestIsMinimum
<1>5. Highest(rdy) \in TaskPrios
  BY <1>4 DEF NotDelayed
<1> QED
  BY <1>1, <1>2, <1>4, <1>5 DEF rdy

LEMMA PartitionStartKeepsIInv ==
  ASSUME IInv, NEW c \in Cores, PartitionStart(c)
  PROVE  IInv'
<1> DEFINE p == CoreFirstPartition(c)
           g == partition_context[p].globals
           rdy == RdyOf(g, p)
<1>1. ~Running(c) /\ stage[0] # "main"
  BY DEF PartitionStart, Running, IInv, BootInv
<1>2. part_num = NumParts /\ partition_current[c] = NULL
  BY <1>1 DEF IInv, BootInv, CoreInv
<1>3. p \in Parts /\ TargetCore[p] = c
  BY <1>2, SearchIsSuccessor
<1>4. Added(p) /\ g \in Globals /\ GlobalsOf(p) = g
  <2>1. ~Active(p)
    BY <1>2, <1>3, ConstantTypes DEF Active
  <2>2. Added(p)
    BY <1>2, <1>3, PartitionAssumption DEF Added, Parts
  <2>3. g \in Globals
    BY <1>3, PartTypes DEF IInv
  <2> QED
    BY <2>1, <2>2, <2>3 DEF GlobalsOf
<1>5. /\ IsBitmap(rdy) /\ rdy.tbl = partition_context[p].OSRdyTbl
      /\ rdy.grp = g.OSRdyGrp /\ Members(rdy) = NotDelayed(p)
      /\ Highest(rdy) \in TaskPrios
  BY <1>3, <1>4, HighestOf
<1>6. FirstRun(p, g) = GlobalsOn(p, Highest(rdy), g.OSTime, rdy.grp)
  BY <1>3, <1>4, <1>5, FirstRunIs
<1>7. EnterPartition(c, p, GlobalsOn(p, Highest(rdy), g.OSTime, rdy.grp), partition_context)
  BY <1>6 DEF PartitionStart
<1>8. \A q \in Parts \ {p} : TargetCore[q] = c \/ ~Active(q) =>
        partition_context[q].globals = GlobalsOf(q)
  BY <1>2, ConstantTypes DEF GlobalsOf, Active
<1>9. \A q \in Parts, t \in TaskPrios : TargetCore[q] = c \/ ~InCPU(q, t) =>
        partition_context[q].frame[t] = [tcb |-> <<q, t>>, pc |-> progress[q][t]]
  BY <1>2, ConstantTypes DEF InCPU, Active, IInv, FrameInv
<1>10. /\ stage' = [stage EXCEPT ![c] = "run"] /\ UNCHANGED <<pcbVars, progress>>
       /\ phase' \in 0..Ratio /\ irq' \in [Timers -> BOOLEAN]
       /\ ifr' \in [Cores -> SUBSET Timers]
  BY DEF PartitionStart, timerVars, IInv, TypeOK
<1>11. g.OSTime \in 0..(TimeMod - 1) /\ partition_context \in [Parts -> PartContexts]
  BY <1>4 DEF Globals, IInv, TypeOK, PartContexts
<1>12. EntersInOrder(c, p, partition_context, rdy, g.OSTime)
  <2> HIDE DEF p, g, rdy
  <2> QED
    BY <1>1, <1>3, <1>5, <1>7, <1>8, <1>9, <1>10, <1>11 DEF EntersInOrder
<1> QED
  BY <1>12, EnterKeepsIInv


\* partition_context once partition_switch has saved the context of the task,
\* and the globals of the partition, that the interrupt found on the core.
ContextsSaved(c) ==
  [partition_context EXCEPT
     ![globals[c].OSTCBCur[1]].frame[globals[c].OSTCBCur[2]] = task_context_saved[c],
     ![partition_current[c]].globals = globals[c]]

LEMMA SwitchSaves ==
  ASSUME IInv, NEW c \in Cores, Running(c)
  PROVE  LET contexts == ContextsSaved(c) IN
         /\ contexts \in [Parts -> PartContexts]
         /\ \A q \in Parts \ {partition_current[c]} : contexts[q] = partition_context[q]
         /\ contexts[partition_current[c]].globals = globals[c]
         /\ \A q \in Parts : /\ contexts[q].OSRdyTbl = partition_context[q].OSRdyTbl
                             /\ contexts[q].OSTCBDly = partition_context[q].OSTCBDly
         /\ \A q \in Parts, t \in TaskPrios : TargetCore[q] = c \/ ~InCPU(q, t) =>
              contexts[q].frame[t] = [tcb |-> <<q, t>>, pc |-> progress[q][t]]
<1> DEFINE old == partition_current[c]
           cur == globals[c].OSPrioCur
           context == task_context_saved[c]
           contexts == ContextsSaved(c)
<1>1. /\ old \in Parts /\ cur \in TaskPrios /\ globals[c].OSTCBCur = <<old, cur>>
      /\ TargetCore[old] = c /\ Active(old) /\ globals[c] \in Globals
  BY CurrentOf
<1>2. contexts = [partition_context EXCEPT ![old].frame[cur] = context,
                                           ![old].globals = globals[c]]
  BY <1>1 DEF ContextsSaved
<1>3. context \in Contexts /\ partition_context \in [Parts -> PartContexts]
  BY DEF IInv, TypeOK, PartContexts
<1>4. context = [tcb |-> <<old, cur>>, pc |-> progress[old][cur]]
  BY DEF IInv, CoreInv
<1> HIDE DEF context
<1>5. /\ contexts \in [Parts -> PartContexts]
      /\ \A q \in Parts \ {old} : contexts[q] = partition_context[q]
      /\ contexts[old].globals = globals[c]
      /\ contexts[old].OSRdyTbl = partition_context[old].OSRdyTbl
      /\ contexts[old].OSTCBDly = partition_context[old].OSTCBDly
      /\ contexts[old].frame = [partition_context[old].frame EXCEPT ![cur] = context]
  <2> DEFINE mid == [partition_context EXCEPT ![old].frame[cur] = context]
  <2>1. /\ mid \in [Parts -> PartContexts]
        /\ \A q \in Parts \ {old} : mid[q] = partition_context[q]
        /\ mid[old].OSRdyTbl = partition_context[old].OSRdyTbl
        /\ mid[old].OSTCBDly = partition_context[old].OSTCBDly
        /\ mid[old].frame = [partition_context[old].frame EXCEPT ![cur] = context]
    <3> HIDE DEF old, cur
    <3> QED
      BY <1>1, <1>3 DEF PartContexts
  <2>2. contexts = [mid EXCEPT ![old].globals = globals[c]]
    BY <1>2
  <2> HIDE DEF mid, old, cur, contexts
  <2> QED
    BY <1>1, <2>1, <2>2 DEF PartContexts
<1>6. ASSUME NEW q \in Parts, NEW t \in TaskPrios, TargetCore[q] = c \/ ~InCPU(q, t)
      PROVE  contexts[q].frame[t] = [tcb |-> <<q, t>>, pc |-> progress[q][t]]
  <2>1. CASE q = old /\ t = cur
    BY <1>1, <1>3, <1>4, <1>5, <2>1 DEF PartContexts
  <2>2. CASE ~(q = old /\ t = cur)
    <3>1. ~InCPU(q, t)
      BY <1>1, <1>6, <2>2 DEF InCPU, Active
    <3>2. contexts[q].frame[t] = partition_context[q].frame[t]
      BY <1>1, <1>3, <1>5, <2>2 DEF PartContexts
    <3> QED
      BY <3>1, <3>2 DEF IInv, FrameInv
  <2> QED
    BY <2>1, <2>2
<1> QED
  BY <1>5, <1>6

LEMMA SwitchPartitionKeepsIInv ==
  ASSUME IInv, NEW c \in Cores, SwitchPartition(c)
  PROVE  IInv'
<1> DEFINE old == partition_current[c]
           p == CoreNextPartition(c)
           contexts == ContextsSaved(c)
           g == contexts[p].globals
           rdy == RdyOf(g, p)
<1>1. Running(c) /\ p # old
  BY DEF SwitchPartition, PartitionTick, Running
<1>2. /\ old \in Parts /\ TargetCore[old] = c /\ part_num = NumParts /\ stage[0] # "main"
      /\ Active(old)
  BY <1>1, CurrentOf
<1>3. p \in Parts /\ TargetCore[p] = c
  BY <1>2, SearchIsSuccessor
<1>4. EnterPartition(c, p, IF g.OSRunning THEN MadeCurrent(g) ELSE FirstRun(p, g), contexts)
  BY DEF SwitchPartition, ContextsSaved
<1>5. /\ contexts \in [Parts -> PartContexts]
      /\ \A q \in Parts \ {old} : contexts[q] = partition_context[q]
      /\ contexts[old].globals = globals[c]
      /\ \A q \in Parts : /\ contexts[q].OSRdyTbl = partition_context[q].OSRdyTbl
                          /\ contexts[q].OSTCBDly = partition_context[q].OSTCBDly
      /\ \A q \in Parts, t \in TaskPrios : TargetCore[q] = c \/ ~InCPU(q, t) =>
           contexts[q].frame[t] = [tcb |-> <<q, t>>, pc |-> progress[q][t]]
  BY <1>1, SwitchSaves
<1> HIDE DEF contexts
<1>6. Added(p) /\ GlobalsOf(p) = g /\ g \in Globals
  <2>1. ~Active(p)
    BY <1>1, <1>3 DEF Active
  <2>2. Added(p)
    BY <1>2, <1>3, PartitionAssumption DEF Added, Parts
  <2>3. g = partition_context[p].globals
    BY <1>1, <1>3, <1>5
  <2> QED
    BY <1>3, <2>1, <2>2, <2>3, PartTypes DEF IInv, GlobalsOf
<1>7. /\ IsBitmap(rdy) /\ rdy.tbl = partition_context[p].OSRdyTbl
      /\ rdy.grp = g.OSRdyGrp /\ Members(rdy) = NotDelayed(p)
      /\ Highest(rdy) \in TaskPrios
  BY <1>3, <1>6, HighestOf
<1>8. (IF g.OSRunning THEN MadeCurrent(g) ELSE FirstRun(p, g)) =
        GlobalsOn(p, Highest(rdy), g.OSTime, rdy.grp)
  <2>1. CASE g.OSRunning
    <3>1. Settled(g, p)
      BY <1>3, <1>6, <2>1 DEF IInv, KernelInv, KernelInOrder
    <3> QED
      BY <1>3, <1>6, <1>7, <2>1, <3>1, MadeCurrentIs
  <2>2. CASE ~g.OSRunning
    BY <1>3, <1>6, <1>7, <2>2, FirstRunIs
  <2> QED
    BY <2>1, <2>2
<1>9. ASSUME NEW q \in Parts \ {p}, TargetCore[q] = c \/ ~Active(q)
      PROVE  contexts[q].globals = GlobalsOf(q)
  <2>1. CASE q = old
    BY <1>2, <1>5, <2>1 DEF GlobalsOf
  <2>2. CASE q # old
    BY <1>5, <1>9, <2>2 DEF GlobalsOf, Active
  <2> QED
    BY <2>1, <2>2
<1>10. /\ stage' = [stage EXCEPT ![c] = "run"] /\ UNCHANGED <<pcbVars, progress>>
       /\ phase' \in 0..Ratio /\ irq' \in [Timers -> BOOLEAN]
       /\ ifr' \in [Cores -> SUBSET Timers]
  <2>1. PartitionTick(c)
    BY DEF SwitchPartition
  <2> QED
    BY <1>1, <2>1 DEF PartitionTick, Running, IInv, TypeOK
<1>11. g.OSTime \in 0..(TimeMod - 1)
  BY <1>6 DEF Globals
<1>12. EntersInOrder(c, p, contexts, rdy, g.OSTime)
  <2> HIDE DEF p, g, rdy
  <2> QED
    BY <1>2, <1>3, <1>4, <1>5, <1>7, <1>8, <1>9, <1>10, <1>11 DEF EntersInOrder
<1> QED
  BY <1>12, EnterKeepsIInv


LEMMA NextKeepsIInv ==
  ASSUME IInv, [Next]_vars
  PROVE  IInv'
<1>1. CASE Next
  <2>1. CASE PartitionAdd
    BY <2>1, PartitionAddKeepsIInv
  <2>2. CASE StartCores
    BY <2>2, StartCoresKeepsIInv
  <2>3. CASE \E tm \in Timers : Overflow(tm)
    BY <2>3, OverflowKeepsIInv
  <2>4. ASSUME NEW c \in Cores, PartitionStart(c)
        PROVE  IInv'
    BY <2>4, PartitionStartKeepsIInv
  <2>5. ASSUME NEW c \in Cores, TaskStep(c)
        PROVE  IInv'
    BY <2>5, TaskStepKeepsIInv
  <2>6. ASSUME NEW c \in Cores, OSTaskTimerISR(c)
        PROVE  IInv'
    BY <2>6, OSTaskTimerISRKeepsIInv
  <2>7. ASSUME NEW c \in Cores, OSPartitionTimerISR(c)
        PROVE  IInv'
    BY <2>7, SliceTickKeepsIInv, SwitchPartitionKeepsIInv DEF OSPartitionTimerISR
  <2>8. ASSUME NEW c \in Cores, NEW ticks \in 1..MaxDly, OSTimeDly(c, ticks)
        PROVE  IInv'
    BY <2>8, OSTimeDlyKeepsIInv
  <2> QED
    BY <1>1, <2>1, <2>2, <2>3, <2>4, <2>5, <2>6, <2>7, <2>8 DEF Next
<1>2. CASE UNCHANGED vars
  <2>1. slice_ticks_left' = slice_ticks_left /\ phase' = phase /\ irq' = irq /\ ifr' = ifr
    BY <1>2 DEF vars, timerVars
  <2>2. UNCHANGED <<pcbVars, coreVars, partition_context, stage, progress>>
    BY <1>2 DEF vars
  <2> QED
    BY <2>1, <2>2, TimerStepKeepsIInv DEF IInv, TypeOK
<1> QED
  BY <1>1, <1>2

-----------------------------------------------------------------------------
(* The theorems *)

\* Every reachable state satisfies the invariant: what every handler that
\* takes a core, from the boot on, relies on and has to leave behind.
THEOREM PartitionsInOrder == Spec => []IInv
<1>1. Init => IInv
  BY InitEstablishesIInv
<1>2. IInv /\ [Next]_vars => IInv'
  BY NextKeepsIInv
<1> QED
  BY <1>1, <1>2, PTL DEF Spec

\* The variables have their types.
THEOREM PartitionSchedTypes == Spec => []TypeOK
<1>1. IInv => TypeOK
  BY DEF IInv
<1> QED
  BY <1>1, PartitionsInOrder, PTL

\* Spatial partitioning: while a task executes, segment 3 of its core opens
\* the memory of its partition, and the kernel's pointers are in it.
THEOREM MemoryIsSeparated == Spec => []SegmentIsCurrent
<1>1. IInv => SegmentIsCurrent
  <2> SUFFICES ASSUME IInv, NEW c \in Cores, Running(c)
               PROVE  LET p == task_context_saved[c].tcb[1]
                      IN  /\ p = segment[c] /\ p = partition_current[c] /\ p = tables[c]
                          /\ p = globals[c].OSTCBCur[1] /\ p = globals[c].OSTCBHighRdy[1]
                          /\ TargetCore[p] = c
    BY DEF SegmentIsCurrent
  <2>1. task_context_saved[c].tcb = <<partition_current[c], globals[c].OSPrioCur>>
    <3>1. task_context_saved[c] =
            [tcb |-> <<partition_current[c], globals[c].OSPrioCur>>,
             pc |-> progress[partition_current[c]][globals[c].OSPrioCur]]
      BY DEF IInv, CoreInv
    <3> QED
      BY <3>1
  <2>2. segment[c] = partition_current[c]
    BY DEF IInv, CoreInv
  <2> QED
    BY <2>1, <2>2, CurrentOf
<1> QED
  BY <1>1, PartitionsInOrder, PTL

\* partition_switch never panics over a partition left in mid-switch.
THEOREM SwitchInIsSafe == Spec => []SwitchInNeverPanics
<1>1. IInv => SwitchInNeverPanics
  <2> SUFFICES ASSUME IInv, NEW p \in Parts, ~Active(p),
                      partition_context[p].globals.OSRunning
               PROVE  ~CorruptedOSTCBCur(partition_context[p].globals)
    BY DEF SwitchInNeverPanics
  <2>1. Added(p) /\ GlobalsOf(p) = partition_context[p].globals
    BY DEF IInv, DelayInv, GlobalsOf
  <2>2. Settled(partition_context[p].globals, p)
    BY <2>1 DEF IInv, KernelInv, KernelInOrder
  <2> QED
    BY <2>2 DEF Settled, CorruptedOSTCBCur
<1> QED
  BY <1>1, PartitionsInOrder, PTL

\* The copied and the left half of every ready list still fit, over any
\* number of partition switches.
THEOREM ReadyListHalvesFit == Spec => []SplitReadyListExact
<1>1. IInv => SplitReadyListExact
  BY DEF IInv, KernelInv, KernelInOrder, SplitReadyListExact, GlobalsOf, IsBitmap, NotDelayed
<1> QED
  BY <1>1, PartitionsInOrder, PTL

\* The task in the CPU is the highest ready one of its partition.
THEOREM HighestReadyRuns == Spec => []RunsHighestReady
<1>1. IInv => RunsHighestReady
  <2> SUFFICES ASSUME IInv, NEW c \in Cores, Running(c)
               PROVE  globals[c].OSTCBCur =
                        <<partition_current[c], Least(NotDelayed(partition_current[c]))>>
    BY DEF RunsHighestReady, NotDelayed
  <2> DEFINE p == partition_current[c]
             h == globals[c].OSPrioCur
  <2>1. /\ p \in Parts /\ Added(p) /\ GlobalsOf(p) = globals[c]
        /\ globals[c].OSTCBCur = <<p, h>> /\ h = Highest(RdyOf(globals[c], p))
    BY CurrentOf DEF GlobalsOf
  <2>2. h \in NotDelayed(p) /\ \A t \in NotDelayed(p) : h <= t
    BY <2>1, HighestOf
  <2>3. NotDelayed(p) \in SUBSET Prios64
    BY ConstantTypes DEF NotDelayed
  <2> HIDE DEF h
  <2>4. Least(NotDelayed(p)) = h
    BY <2>2, <2>3, LeastIsUnique
  <2> QED
    BY <2>1, <2>4
<1> QED
  BY <1>1, PartitionsInOrder, PTL

\* Every task of every partition is kept exactly where it stopped.
THEOREM ContextsAreKept == Spec => []ContextIntegrity
<1>1. IInv => ContextIntegrity
  <2> SUFFICES ASSUME IInv, NEW p \in Parts, NEW t \in TaskPrios, Added(p)
               PROVE  LET c == TargetCore[p]
                          kept == IF Running(c) /\ globals[c].OSTCBCur = <<p, t>>
                                  THEN task_context_saved[c]
                                  ELSE partition_context[p].frame[t]
                      IN  kept = [tcb |-> <<p, t>>, pc |-> progress[p][t]]
    BY DEF ContextIntegrity
  <2> DEFINE c == TargetCore[p]
  <2>1. c \in Cores
    BY ConstantTypes
  <2>2. CASE Running(c) /\ globals[c].OSTCBCur = <<p, t>>
    <3>1. partition_current[c] = p /\ globals[c].OSPrioCur = t
      BY <2>1, <2>2, CurrentOf
    <3> QED
      BY <2>1, <2>2, <3>1 DEF IInv, CoreInv
  <2>3. CASE ~(Running(c) /\ globals[c].OSTCBCur = <<p, t>>)
    <3>1. ~InCPU(p, t)
      <4>1. ASSUME InCPU(p, t)
            PROVE  FALSE
        <5>1. partition_current[c] = p /\ globals[c].OSPrioCur = t
          BY <4>1 DEF InCPU, Active
        <5>2. Running(c)
          BY <2>1, <5>1, ConstantTypes DEF IInv, CoreInv
        <5> QED
          BY <2>1, <2>3, <5>1, <5>2, CurrentOf
      <4> QED
        BY <4>1
    <3> QED
      BY <2>3, <3>1 DEF IInv, FrameInv
  <2> QED
    BY <2>2, <2>3
<1> QED
  BY <1>1, PartitionsInOrder, PTL


\* One core's acknowledgement of a timer never costs another core a tick.
THEOREM NoTickIsStolen == Spec => []NoTickStolen
<1> DEFINE TimerTypes == irq \in [Timers -> BOOLEAN] /\ ifr \in [Cores -> SUBSET Timers]
<1>1. Init => TimerTypes /\ NoTickStolen
  BY DEF Init, NoTickStolen
<1>2. TimerTypes /\ NoTickStolen /\ [Next]_vars => (TimerTypes /\ NoTickStolen)'
  <2> SUFFICES ASSUME TimerTypes, NoTickStolen, [Next]_vars
               PROVE  TimerTypes' /\ NoTickStolen'
    OBVIOUS
  <2>1. ASSUME NEW tm \in Timers, Overflow(tm)
        PROVE  TimerTypes' /\ NoTickStolen'
    BY <2>1 DEF Overflow, NoTickStolen
  <2>2. ASSUME NEW c \in Cores, OSTaskTimerISR(c)
        PROVE  TimerTypes' /\ NoTickStolen'
    BY <2>2 DEF OSTaskTimerISR, NoTickStolen, Timers
  <2>3. ASSUME NEW c \in Cores, OSPartitionTimerISR(c)
        PROVE  TimerTypes' /\ NoTickStolen'
    <3>1. PartitionTick(c)
      BY <2>3 DEF OSPartitionTimerISR, KeepSlice, RefillSlice, SwitchPartition
    <3> QED
      BY <3>1 DEF PartitionTick, NoTickStolen, Timers
  <2>4. CASE UNCHANGED <<irq, ifr>>
    BY <2>4 DEF NoTickStolen
  <2>5. CASE UNCHANGED vars
    BY <2>4, <2>5 DEF vars, timerVars
  <2>6. CASE Next
    <3>1. ASSUME NEW c \in Cores, NEW ticks \in 1..MaxDly, OSTimeDly(c, ticks)
          PROVE  UNCHANGED <<irq, ifr>>
      BY <3>1 DEF OSTimeDly, timerVars
    <3>2. ASSUME NEW c \in Cores, \/ PartitionAdd \/ StartCores
                                  \/ PartitionStart(c) \/ TaskStep(c)
          PROVE  UNCHANGED <<irq, ifr>>
      BY <3>2 DEF PartitionAdd, StartCores, PartitionStart, TaskStep, timerVars
    <3> QED
      BY <2>1, <2>2, <2>3, <2>4, <2>6, <3>1, <3>2, ConstantTypes DEF Next
  <2> QED
    BY <2>5, <2>6
<1> QED
  BY <1>1, <1>2, PTL DEF Spec

-----------------------------------------------------------------------------
(* Temporal partitioning *)

\* What a reschedule on a core does not write.
LEMMA RescheduleIsLocal ==
  ASSUME IInv, NEW c \in Cores, Running(c), NEW STATE g, NEW STATE rdy, NEW STATE dly,
         g.OSTCBCur = globals[c].OSTCBCur, Reschedule(c, g, rdy, dly),
         NEW q \in Parts, q # partition_current[c]
  PROVE  partition_context'[q] = partition_context[q]
<1> DEFINE p == partition_current[c]
           old == globals[c].OSPrioCur
           kept == [partition_context EXCEPT ![p].OSRdyTbl = rdy.tbl, ![p].OSTCBDly = dly]
<1>1. tables[c] = p /\ g.OSTCBCur = <<p, old>>
  BY CurrentOf
<1>2. \/ partition_context' = kept
      \/ partition_context' = [kept EXCEPT ![p].frame[old] = task_context_saved[c]]
  BY <1>1 DEF Reschedule
<1>3. partition_context \in [Parts -> PartContexts]
  BY DEF IInv, TypeOK, PartContexts
<1> HIDE DEF p, old
<1>4. q # p
  BY DEF p
<1> QED
  BY <1>2, <1>3, <1>4

\* Only the partition that has its core is touched, and no other is written
\* to while core 0 adds partitions.
LEMMA OthersUntouched ==
  ASSUME IInv, [Next]_vars, NEW p \in Parts, Added(p), ~Active(p)
  PROVE  partition_context'[p] = partition_context[p] /\ progress'[p] = progress[p]
<1>1. CASE PartitionAdd
  <2>1. p # part_num /\ progress' = progress
    BY <1>1 DEF Added, Parts, PartitionAdd, IInv, TypeOK
  <2>2. partition_context \in [Parts -> PartContexts]
    BY DEF IInv, TypeOK, PartContexts
  <2> QED
    BY <1>1, <2>1, <2>2 DEF PartitionAdd
<1>2. ASSUME NEW c \in Cores
      PROVE  TaskStep(c) \/ OSTaskTimerISR(c) \/ OSPartitionTimerISR(c) =>
               Running(c) /\ p # partition_current[c] /\ globals[c].OSTCBCur[1] = partition_current[c]
  <2>1. TaskStep(c) \/ OSTaskTimerISR(c) \/ OSPartitionTimerISR(c) => Running(c)
    BY DEF TaskStep, OSTaskTimerISR, OSPartitionTimerISR, KeepSlice, RefillSlice,
           SwitchPartition, PartitionTick, Running
  <2> QED
    BY <2>1, CurrentOf
<1>3. ASSUME NEW c \in Cores, TaskStep(c)
      PROVE  partition_context'[p] = partition_context[p] /\ progress'[p] = progress[p]
  <2>1. task_context_saved[c].tcb[1] # p
    <3>1. task_context_saved[c] =
            [tcb |-> <<partition_current[c], globals[c].OSPrioCur>>,
             pc |-> progress[partition_current[c]][globals[c].OSPrioCur]]
      BY <1>2, <1>3 DEF IInv, CoreInv
    <3> QED
      BY <1>2, <1>3, <3>1
  <2>2. progress \in [Parts -> [TaskPrios -> 0..(PcMod - 1)]]
    BY DEF IInv, TypeOK
  <2> QED
    BY <1>3, <2>1, <2>2 DEF TaskStep
<1>4. ASSUME NEW c \in Cores, OSTaskTimerISR(c)
      PROVE  partition_context'[p] = partition_context[p] /\ progress'[p] = progress[p]
  <2> DEFINE g == [globals[c] EXCEPT !.OSTime = (@ + 1) % TimeMod]
  <2>1. g.OSTCBCur = globals[c].OSTCBCur
    BY <1>2, <1>4, CurrentOf DEF Globals
  <2> HIDE DEF g
  <2>2. progress' = progress
    BY <1>4 DEF OSTaskTimerISR
  <2>3. PICK rdy, dly : Reschedule(c, g, rdy, dly)
    BY <1>4 DEF OSTaskTimerISR, g
  <2> QED
    BY <1>2, <1>4, <2>1, <2>2, <2>3, RescheduleIsLocal
<1>5. ASSUME NEW c \in Cores, NEW ticks \in 1..MaxDly, OSTimeDly(c, ticks)
      PROVE  partition_context'[p] = partition_context[p] /\ progress'[p] = progress[p]
  <2>1. Running(c) /\ progress' = progress
    BY <1>5 DEF OSTimeDly, Running
  <2>2. p # partition_current[c]
    BY <2>1, CurrentOf
  <2>3. PICK rdy, dly : Reschedule(c, globals[c], rdy, dly)
    BY <1>5 DEF OSTimeDly
  <2> QED
    BY <2>1, <2>2, <2>3, RescheduleIsLocal
<1>6. ASSUME NEW c \in Cores, OSPartitionTimerISR(c)
      PROVE  partition_context'[p] = partition_context[p] /\ progress'[p] = progress[p]
  <2>1. progress' = progress
    BY <1>6 DEF OSPartitionTimerISR, KeepSlice, RefillSlice, SwitchPartition, PartitionTick
  <2>2. CASE KeepSlice(c) \/ RefillSlice(c)
    BY <2>1, <2>2 DEF KeepSlice, RefillSlice
  <2>3. CASE SwitchPartition(c)
    <3>1. partition_context' = ContextsSaved(c)
      BY <2>3 DEF SwitchPartition, EnterPartition, ContextsSaved
    <3> QED
      BY <1>2, <1>6, <2>1, <3>1, SwitchSaves
  <2> QED
    BY <1>6, <2>2, <2>3 DEF OSPartitionTimerISR
<1>7. ASSUME NEW c \in Cores, PartitionStart(c)
      PROVE  partition_context'[p] = partition_context[p] /\ progress'[p] = progress[p]
  BY <1>7 DEF PartitionStart, EnterPartition
<1>8. CASE StartCores \/ (\E tm \in Timers : Overflow(tm)) \/ UNCHANGED vars
  BY <1>8 DEF StartCores, Overflow, vars
<1> QED
  BY <1>1, <1>3, <1>4, <1>5, <1>6, <1>7, <1>8 DEF Next

\* What a core does in the slice of one partition changes nothing of any
\* other: not its clock, its delays, its ready list or its tasks.
THEOREM PartitionsAreIsolated == Spec => PartitionsIsolated
<1>1. ASSUME IInv, [Next]_vars
      PROVE  [\A p \in Parts : Added(p) /\ ~Active(p) /\ ~Active(p)' =>
                /\ partition_context'[p] = partition_context[p]
                /\ progress'[p] = progress[p]]_vars
  BY <1>1, OthersUntouched
<1> QED
  BY <1>1, PartitionsInOrder, PTL DEF Spec, PartitionsIsolated


-----------------------------------------------------------------------------
(* The cyclic schedule *)

\* Ticks of the slice of core c that have passed: what Slices!used stands for.
UsedOf(c) ==
  IF partition_current[c] = NULL THEN 0
  ELSE SliceTicks[partition_current[c]] - 1 - slice_ticks_left[partition_current[c]]

LEMMA UsedIs ==
  ASSUME IInv, NEW c \in Cores, Running(c)
  PROVE  LET p == partition_current[c]
         IN  /\ p \in Parts /\ p # NULL /\ SliceTicks[p] \in Nat /\ slice_ticks_left[p] \in Nat
             /\ UsedOf(c) = SliceTicks[p] - 1 - slice_ticks_left[p]
<1>1. partition_current[c] \in Parts
  BY CurrentOf
<1> QED
  BY <1>1, ConstantTypes DEF UsedOf, IInv, TypeOK

\* partition_start begins the schedule of its core.
LEMMA StartBegins ==
  ASSUME IInv, NEW c \in Cores, PartitionStart(c)
  PROVE  /\ partition_current[c] = NULL
         /\ partition_current' =
              [partition_current EXCEPT ![c] = Least(ConfiguredOn(c))]
         /\ \A d \in Cores : UsedOf(d)' = UsedOf(d)
<1> DEFINE p == CoreFirstPartition(c)
<1>1. ~Running(c)
  BY DEF PartitionStart, Running
<1>2. part_num = NumParts /\ partition_current[c] = NULL
  BY <1>1 DEF PartitionStart, IInv, BootInv, CoreInv
<1>3. p = Least(ConfiguredOn(c)) /\ p \in Parts /\ TargetCore[p] = c
  BY <1>2, SearchIsSuccessor
<1>4. /\ partition_current' = [partition_current EXCEPT ![c] = p]
      /\ slice_ticks_left' = [slice_ticks_left EXCEPT ![p] = SliceTicks[p] - 1]
  BY DEF PartitionStart, EnterPartition, FullSlice
<1> HIDE DEF p
<1>5. /\ partition_current \in [Cores -> Parts \cup {NULL}]
      /\ slice_ticks_left \in [Parts -> Nat] /\ SliceTicks[p] \in Nat
  BY <1>3, ConstantTypes DEF IInv, TypeOK
<1>6. ASSUME NEW d \in Cores \ {c}
      PROVE  UsedOf(d)' = UsedOf(d)
  <2>1. partition_current'[d] = partition_current[d]
    BY <1>4, <1>5
  <2>2. partition_current[d] # NULL => partition_current[d] \in Parts \ {p}
    BY <1>3 DEF IInv, CoreInv
  <2>3. partition_current[d] # NULL =>
          slice_ticks_left'[partition_current[d]] = slice_ticks_left[partition_current[d]]
    BY <1>4, <1>5, <2>2
  <2> QED
    BY <2>1, <2>3 DEF UsedOf
<1>7. UsedOf(c)' = UsedOf(c)
  <2>1. partition_current'[c] = p /\ slice_ticks_left'[p] = SliceTicks[p] - 1
    BY <1>3, <1>4, <1>5
  <2>2. p # NULL /\ SliceTicks[p] - 1 - (SliceTicks[p] - 1) = 0
    BY <1>3, <1>5, ConstantTypes
  <2> QED
    BY <1>2, <2>1, <2>2 DEF UsedOf
<1> QED
  BY <1>2, <1>3, <1>4, <1>6, <1>7

\* The partition timer's handler counts a tick of the slice; after the last,
\* the cyclic successor has the core, with none of its ticks used.
LEMMA HandlerTicks ==
  ASSUME IInv, NEW c \in Cores, OSPartitionTimerISR(c)
  PROVE  LET p == partition_current[c]
         IN  /\ p # NULL
             /\ \A d \in Cores \ {c} : UsedOf(d)' = UsedOf(d)
             /\ IF UsedOf(c) + 1 < SliceTicks[p]
                THEN UsedOf(c)' = UsedOf(c) + 1 /\ partition_current' = partition_current
                ELSE /\ UsedOf(c)' = 0
                     /\ partition_current' = [partition_current EXCEPT ![c] = Successor(p)]
<1> DEFINE p == partition_current[c]
           left == slice_ticks_left[p]
           n == Successor(p)
<1>1. Running(c)
  BY DEF OSPartitionTimerISR, KeepSlice, RefillSlice, SwitchPartition, PartitionTick, Running
<1>2. /\ p \in Parts /\ p # NULL /\ SliceTicks[p] \in Nat /\ left \in Nat
      /\ UsedOf(c) = SliceTicks[p] - 1 - left
  BY <1>1, UsedIs
<1>3. TargetCore[p] = c /\ part_num = NumParts
  BY <1>1, CurrentOf
<1>4. CoreNextPartition(c) = n /\ n \in Parts /\ TargetCore[n] = c
  BY <1>2, <1>3, SearchIsSuccessor
<1>5. UsedOf(c) + 1 < SliceTicks[p] <=> ~SliceIsOver(c)
  BY <1>2 DEF SliceIsOver
<1>6. /\ partition_current \in [Cores -> Parts \cup {NULL}]
      /\ slice_ticks_left \in [Parts -> Nat] /\ SliceTicks[n] \in Nat /\ n # NULL
  BY <1>4, ConstantTypes DEF IInv, TypeOK
<1> HIDE DEF n
<1>7. ASSUME NEW d \in Cores \ {c}, partition_current'[d] = partition_current[d],
             \A q \in Parts : TargetCore[q] # c => slice_ticks_left'[q] = slice_ticks_left[q]
      PROVE  UsedOf(d)' = UsedOf(d)
  <2>1. partition_current[d] # NULL =>
          partition_current[d] \in Parts /\ TargetCore[partition_current[d]] # c
    BY DEF IInv, CoreInv
  <2> QED
    BY <1>7, <2>1 DEF UsedOf
<1>8. CASE KeepSlice(c)
  <2>1. /\ partition_current' = partition_current
        /\ slice_ticks_left' = [slice_ticks_left EXCEPT ![p] = @ - 1] /\ ~SliceIsOver(c)
    BY <1>8 DEF KeepSlice, coreVars
  <2>2. slice_ticks_left'[p] = left - 1
    BY <1>2, <1>6, <2>1
  <2>3. UsedOf(c)' = SliceTicks[p] - 1 - (left - 1)
    BY <1>2, <2>1, <2>2 DEF UsedOf
  <2>4. UsedOf(c)' = UsedOf(c) + 1
    BY <1>2, <2>3
  <2>5. \A q \in Parts : TargetCore[q] # c => slice_ticks_left'[q] = slice_ticks_left[q]
    BY <1>3, <1>6, <2>1
  <2> QED
    BY <1>2, <1>5, <1>7, <2>1, <2>4, <2>5
<1>9. CASE RefillSlice(c) \/ SwitchPartition(c)
  <2>1. /\ partition_current' = [partition_current EXCEPT ![c] = n]
        /\ slice_ticks_left' = [slice_ticks_left EXCEPT ![n] = SliceTicks[n] - 1]
        /\ SliceIsOver(c)
    BY <1>4, <1>6, <1>9 DEF RefillSlice, SwitchPartition, EnterPartition, FullSlice, coreVars
  <2>2. partition_current'[c] = n /\ slice_ticks_left'[n] = SliceTicks[n] - 1
    BY <1>4, <1>6, <2>1
  <2>3. UsedOf(c)' = SliceTicks[n] - 1 - (SliceTicks[n] - 1)
    BY <1>6, <2>2 DEF UsedOf
  <2>4. UsedOf(c)' = 0
    BY <1>6, <2>3
  <2>5. \A q \in Parts : TargetCore[q] # c => slice_ticks_left'[q] = slice_ticks_left[q]
    BY <1>4, <1>6, <2>1
  <2>6. \A d \in Cores \ {c} : partition_current'[d] = partition_current[d]
    BY <1>6, <2>1
  <2> QED
    BY <1>2, <1>5, <1>7, <2>1, <2>4, <2>5, <2>6 DEF n
<1> QED
  BY <1>8, <1>9 DEF OSPartitionTimerISR


\* No step but the two above moves the schedule.
LEMMA OthersKeepTheSchedule ==
  ASSUME IInv, [Next]_vars,
         \A c \in Cores : ~PartitionStart(c) /\ ~OSPartitionTimerISR(c)
  PROVE  partition_current' = partition_current /\ slice_ticks_left' = slice_ticks_left
<1>1. CASE PartitionAdd \/ StartCores \/ (\E tm \in Timers : Overflow(tm)) \/ UNCHANGED vars
  BY <1>1 DEF PartitionAdd, StartCores, Overflow, vars, coreVars
<1>2. ASSUME NEW c \in Cores, \/ TaskStep(c) \/ OSTaskTimerISR(c)
                              \/ \E ticks \in 1..MaxDly : OSTimeDly(c, ticks)
      PROVE  partition_current' = partition_current /\ slice_ticks_left' = slice_ticks_left
  BY <1>2 DEF TaskStep, OSTaskTimerISR, OSTimeDly
<1> QED
  BY <1>1, <1>2 DEF Next

\* The partition scheduler, with its boot, its countdowns, its search through
\* pcb_list and everything that runs in between, implements the cyclic
\* schedule of TimeSlices, for every assignment of partitions and slices.
THEOREM SchedulesCyclically == Spec => ImplementsTimeSlices
<1> DEFINE usedMap == [c \in Cores |->
                         IF partition_current[c] = NULL THEN 0
                         ELSE SliceTicks[partition_current[c]] - 1
                                - slice_ticks_left[partition_current[c]]]
<1>1. Init => Slices!SliceInit
  BY DEF Init, Slices!SliceInit
<1>2. ASSUME IInv, [Next]_vars
      PROVE  [Slices!SliceNext]_(Slices!sliceVars)
  <2>1. ASSUME NEW c \in Cores, PartitionStart(c)
        PROVE  Slices!Begin(c)
    <3>1. usedMap' = usedMap
      BY <1>2, <2>1, StartBegins DEF UsedOf
    <3> QED
      BY <1>2, <2>1, <3>1, StartBegins DEF Slices!Begin
  <2>2. ASSUME NEW c \in Cores, OSPartitionTimerISR(c)
        PROVE  Slices!Tick(c)
    <3> DEFINE p == partition_current[c]
    <3>1. p \in Parts /\ p # NULL
      BY <1>2, <2>2, HandlerTicks DEF IInv, TypeOK
    <3>2. [q \in Parts |-> Successor(q)][p] = Successor(p)
      BY <3>1
    <3>3. \A d \in Cores : usedMap[d] = UsedOf(d) /\ usedMap'[d] = UsedOf(d)'
      BY DEF UsedOf
    <3>4. CASE UsedOf(c) + 1 < SliceTicks[p]
      <4>1. partition_current' = partition_current
        BY <1>2, <2>2, <3>4, HandlerTicks
      <4>2. usedMap' = [usedMap EXCEPT ![c] = @ + 1]
        <5>1. \A d \in Cores : usedMap'[d] = IF d = c THEN usedMap[c] + 1 ELSE usedMap[d]
          BY <1>2, <2>2, <3>3, <3>4, HandlerTicks
        <5> QED
          BY <5>1
      <4>3. usedMap[c] + 1 < SliceTicks[p]
        BY <3>3, <3>4
      <4> QED
        BY <3>1, <4>1, <4>2, <4>3 DEF Slices!Tick
    <3>5. CASE ~(UsedOf(c) + 1 < SliceTicks[p])
      <4>1. partition_current' = [partition_current EXCEPT ![c] = Successor(p)]
        BY <1>2, <2>2, <3>5, HandlerTicks
      <4>2. usedMap' = [usedMap EXCEPT ![c] = 0]
        <5>1. \A d \in Cores : usedMap'[d] = IF d = c THEN 0 ELSE usedMap[d]
          BY <1>2, <2>2, <3>3, <3>5, HandlerTicks
        <5> QED
          BY <5>1
      <4>3. ~(usedMap[c] + 1 < SliceTicks[p])
        BY <3>3, <3>5
      <4> QED
        BY <3>1, <3>2, <4>1, <4>2, <4>3 DEF Slices!Tick
    <3> QED
      BY <3>4, <3>5
  <2>3. CASE \A c \in Cores : ~PartitionStart(c) /\ ~OSPartitionTimerISR(c)
    <3>1. partition_current' = partition_current /\ slice_ticks_left' = slice_ticks_left
      BY <1>2, <2>3, OthersKeepTheSchedule
    <3> QED
      BY <3>1 DEF Slices!sliceVars
  <2> QED
    BY <2>1, <2>2, <2>3 DEF Slices!SliceNext
<1> QED
  BY <1>1, <1>2, PartitionsInOrder, PTL DEF Spec, ImplementsTimeSlices, Slices!SliceSpec
=============================================================================
