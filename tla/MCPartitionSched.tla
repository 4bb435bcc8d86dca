-------------------------- MODULE MCPartitionSched --------------------------
(* Instances of PartitionSched and of its refinement for TLC. *)
EXTENDS PartitionSchedRefines

\* Three partitions on two cores, of which core 1 has one, so that it refills
\* its slice.
MCTarget3 == [p \in 0..2 |-> IF p = 1 THEN 1 ELSE 0]

\* Slices of different lengths, the least, 1, among them.
MCSliceShort == [p \in 0..2 |-> IF p = 2 THEN 2 ELSE 1]

\* One task and idle.
MCTaskPrios == {9, 63}
=============================================================================
