-------------------------- MODULE KernelArithmetic --------------------------
(***************************************************************************)
(* Two computations of the kernel whose tables and roundings the other     *)
(* modules take for granted: the lookup OSUnMapTbl in OS_SchedNew, and the *)
(* conversion of a time into ticks in OSTimeDlyHMSM, with the timer that   *)
(* then counts those ticks.  A state holds the last computation made; each *)
(* input is a state of its own.                                            *)
(***************************************************************************)
EXTENDS PrioBitmap, Sequences

CONSTANTS
  OS_TICKS_PER_SEC, \* what the kernel is told of the tick
  TimerInterval,    \* what the task timer is loaded with
  Hours, Minutes, Seconds, Millis \* arguments of OSTimeDlyHMSM

INT8U == 0..255
INT16U == 0..65535

\* With OS_ARG_CHK_EN 0 the arguments have the range of their types.
ASSUME ArgumentsAssumption ==
  /\ OS_TICKS_PER_SEC \in 1..1000 /\ TimerInterval \in Nat \ {0}
  /\ Hours \subseteq INT8U /\ Minutes \subseteq INT8U /\ Seconds \subseteq INT8U
  /\ Millis \subseteq INT16U

VARIABLE last \* the computation, its input and its result

\* A row of OSUnMapTbl: the rows differ in their first entry only.
UnMapRow(first) == <<first, 0, 1, 0, 2, 0, 1, 0, 3, 0, 1, 0, 2, 0, 1, 0>>

\* Fault: one wrong entry, for the byte 2^7 + 2^6 + 2^5.
FaultFirsts == <<0, 4, 5, 4, 6, 4, 5, 4, 7, 4, 5, 4, 6, 4, 6, 4>>

\* The first entries of its sixteen rows.
UnMapFirsts == <<0, 4, 5, 4, 6, 4, 5, 4, 7, 4, 5, 4, 6, 4, 5, 4>>

OSUnMapTbl == [byte \in 0..255 |-> UnMapRow(UnMapFirsts[byte \div 16 + 1])[(byte % 16) + 1]]

\* Fault: truncated instead of rounded.
FaultTicksTruncated(h, m, s, ms) ==
  (h * 3600 + m * 60 + s) * OS_TICKS_PER_SEC + (OS_TICKS_PER_SEC * ms) \div 1000

\* The INT32U expression of OSTimeDlyHMSM.  The largest arguments stay below
\* 2^32 / 4 at a thousand ticks per second, so that it does not wrap.
TicksOf(h, m, s, ms) ==
  (h * 3600 + m * 60 + s) * OS_TICKS_PER_SEC
    + (OS_TICKS_PER_SEC * (ms + 500 \div OS_TICKS_PER_SEC)) \div 1000

\* timer_init: the task timer overflows every TimerInterval + 1 cycles of its
\* 20 MHz clock, which is this many ms.
TickMillis == (TimerInterval + 1) \div 20000

Lookup(byte) == last' = [op |-> "OSUnMapTbl", byte |-> byte, result |-> OSUnMapTbl[byte]]

OSTimeDlyHMSM(h, m, s, ms) ==
  last' = [op |-> "OSTimeDlyHMSM", ms |-> (h * 3600 + m * 60 + s) * 1000 + ms,
           result |-> TicksOf(h, m, s, ms)]

Init == last = [op |-> "none"]

Next ==
  \/ \E byte \in 0..255 : Lookup(byte)
  \/ \E h \in Hours, m \in Minutes, s \in Seconds, ms \in Millis : OSTimeDlyHMSM(h, m, s, ms)

Spec == Init /\ [][Next]_last

-----------------------------------------------------------------------------
(* Properties *)

\* The bits of a byte that are 1.
BitsOf(byte) == {b \in Bits : (byte \div 2^b) % 2 = 1}

\* The table is the function that the other modules use in its place: for
\* every byte the position of its least bit, and 0 for the byte 0.
TableFindsLeastBit == last.op = "OSUnMapTbl" => last.result = OSUnMap(BitsOf(last.byte))

\* A delay differs from the time asked for by half a tick at most, also for
\* minutes, seconds and ms beyond 59 and 999: "rounded to the nearest tick".
DelayIsNearestTick ==
  last.op = "OSTimeDlyHMSM" =>
    LET late == last.result * (1000 \div OS_TICKS_PER_SEC) - last.ms
    IN  2 * late \in (0 - 1000 \div OS_TICKS_PER_SEC)..(1000 \div OS_TICKS_PER_SEC)

\* In time: counted by the task timer as timer_init sets it up, the delay is
\* the time asked for but for one tick.
DelayLastsAsAsked ==
  last.op = "OSTimeDlyHMSM" =>
    last.result * TickMillis - last.ms \in (0 - TickMillis)..TickMillis
=============================================================================
