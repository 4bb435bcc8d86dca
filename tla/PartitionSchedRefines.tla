----------------------- MODULE PartitionSchedRefines -----------------------
(***************************************************************************)
(* The partition scheduler, with its countdown, its search through         *)
(* pcb_list and the interrupts that drive it, implements the cyclic        *)
(* schedule of TimeSlices.                                                 *)
(***************************************************************************)
EXTENDS PartitionSched

\* Of the configuration: the partitions of a core, and the cyclic successor.
ConfiguredOn(c) == {p \in Parts : TargetCore[p] = c}
Successor(p) ==
  LET after == {q \in ConfiguredOn(TargetCore[p]) : q > p}
  IN  IF after # {} THEN Least(after) ELSE Least(ConfiguredOn(TargetCore[p]))

Slices == INSTANCE TimeSlices WITH
  SliceCores <- Cores,
  NoSlot     <- NULL,
  First      <- [c \in Cores |-> Least(ConfiguredOn(c))],
  Succ       <- [p \in Parts |-> Successor(p)],
  Slice      <- SliceTicks,
  slot       <- partition_current,
  used       <- [c \in Cores |->
                   IF partition_current[c] = NULL THEN 0
                   ELSE SliceTicks[partition_current[c]] - 1
                          - slice_ticks_left[partition_current[c]]]

\* No step of a task, a call, a task timer tick or the other core changes who
\* has a core or how much of the slice is left; every partition has exactly
\* slice_ticks ticks of the partition timer, then the next one follows.
ImplementsTimeSlices == Slices!SliceSpec
=============================================================================
