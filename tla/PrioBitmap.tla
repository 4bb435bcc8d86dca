----------------------------- MODULE PrioBitmap -----------------------------
(***************************************************************************)
(* The two-level priority bitmap of uC/OS-II (OS_LOWEST_PRIO <= 63).       *)
(*                                                                         *)
(* OSRdyGrp/OSRdyTbl (the ready list) and OSEventGrp/OSEventTbl (the wait  *)
(* list of an event) have this one shape: a group byte with one bit per    *)
(* row, and eight row bytes with one bit per priority.  A byte is modelled *)
(* by the set of its bits that are 1, so a bitmap is a record              *)
(*     [grp |-> SUBSET Bits, tbl |-> [Bits -> SUBSET Bits]].               *)
(*                                                                         *)
(* The operators below are what the kernel does with the two; that they    *)
(* implement a set of priorities with a minimum is not assumed: it is      *)
(* proved in PrioBitmapProofs.                                             *)
(***************************************************************************)
EXTENDS Integers

Bits == 0..7
Prios64 == 0..63

Bitmaps == [grp : SUBSET Bits, tbl : [Bits -> SUBSET Bits]]

\* OSTCBY, OSTCBX: the row of a priority and its bit in the row.
PrioY(p) == p \div 8
PrioX(p) == p % 8

\* OS_InitRdyList, OS_EventWaitListInit: no bit set.
EmptyBitmap == [grp |-> {}, tbl |-> [y \in Bits |-> {}]]

\* OSUnMapTbl: the position of the least significant 1 of a byte; the table's
\* first entry makes it 0 for the byte 0.
OSUnMap(byte) == IF byte = {} THEN 0
                 ELSE CHOOSE b \in byte : \A c \in byte : b <= c

\* OSRdyGrp |= bity; OSRdyTbl[y] |= bitx, for every priority of S.
AddAll(m, S) ==
  [grp |-> m.grp \cup {PrioY(p) : p \in S},
   tbl |-> [y \in Bits |-> m.tbl[y] \cup {PrioX(p) : p \in {q \in S : PrioY(q) = y}}]]

Add(m, p) ==
  [grp |-> m.grp \cup {PrioY(p)},
   tbl |-> [m.tbl EXCEPT ![PrioY(p)] = @ \cup {PrioX(p)}]]

\* OSRdyTbl[y] &= ~bitx; if the row is now empty, OSRdyGrp &= ~bity.
Remove(m, p) ==
  LET row == m.tbl[PrioY(p)] \ {PrioX(p)}
  IN  [grp |-> IF row = {} THEN m.grp \ {PrioY(p)} ELSE m.grp,
       tbl |-> [m.tbl EXCEPT ![PrioY(p)] = row]]

\* OS_SchedNew: (y << 3) + OSUnMapTbl[OSRdyTbl[y]], y = OSUnMapTbl[OSRdyGrp].
Highest(m) == LET y == OSUnMap(m.grp) IN 8 * y + OSUnMap(m.tbl[y])

\* The priority's bit is set in its row: what OSTaskChangePrio tests.
Contains(m, p) == PrioX(p) \in m.tbl[PrioY(p)]

-----------------------------------------------------------------------------
(* What a bitmap stands for. *)

Members(m) == {p \in Prios64 : Contains(m, p)}

\* The group byte summarises the rows.
GrpSummarisesTbl(m) == \A y \in Bits : y \in m.grp <=> m.tbl[y] # {}

IsBitmap(m) == m \in Bitmaps /\ GrpSummarisesTbl(m)
=============================================================================
