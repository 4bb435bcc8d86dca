------------------------- MODULE MCKernelArithmetic -------------------------
(* The arguments of OSTimeDlyHMSM at and around the bounds of their ranges *)
(* and of a tick of 10 ms.                                                 *)
EXTENDS KernelArithmetic

MCHours == {0, 1, 255}
MCSixtieths == {0, 1, 59, 255}
MCMillis == {0, 1, 4, 5, 6, 9, 10, 14, 15, 994, 995, 999, 1000, 1005, 65535}
=============================================================================
