----------------------------- MODULE TimeSlices -----------------------------
(***************************************************************************)
(* What the partition scheduler promises: on each core the partitions have *)
(* the core in a fixed cyclic order, each for exactly its slice of         *)
(* partition timer ticks, whatever their tasks do.                         *)
(***************************************************************************)
EXTENDS Integers

CONSTANTS
  SliceCores, \* the cores
  NoSlot,     \* a core that has not started
  First,      \* the partition each core starts with
  Succ,       \* the partition that follows each on its core
  Slice       \* the length of each partition's slice, in ticks

VARIABLES
  slot,       \* the partition that has each core
  used        \* ticks of its slice that have passed

sliceVars == <<slot, used>>

SliceInit ==
  /\ slot = [c \in SliceCores |-> NoSlot]
  /\ used = [c \in SliceCores |-> 0]

Begin(c) ==
  /\ slot[c] = NoSlot
  /\ slot' = [slot EXCEPT ![c] = First[c]]
  /\ UNCHANGED used

Tick(c) ==
  /\ slot[c] # NoSlot
  /\ IF used[c] + 1 < Slice[slot[c]]
     THEN /\ used' = [used EXCEPT ![c] = @ + 1]
          /\ UNCHANGED slot
     ELSE /\ used' = [used EXCEPT ![c] = 0]
          /\ slot' = [slot EXCEPT ![c] = Succ[slot[c]]]

SliceNext == \E c \in SliceCores : Begin(c) \/ Tick(c)

SliceSpec == SliceInit /\ [][SliceNext]_sliceVars
=============================================================================
