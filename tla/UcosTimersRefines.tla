-------------------------- MODULE UcosTimersRefines --------------------------
(* The timer wheel implements CountdownTimers. *)
EXTENDS UcosTimers

PlanOf(t) ==
  IF OSTmrTbl[t].state = "UNUSED" THEN NULL
  ELSE [dly |-> OSTmrTbl[t].dly, period |-> OSTmrTbl[t].period, opt |-> OSTmrTbl[t].opt,
        callback |-> OSTmrTbl[t].callback]

Countdown == INSTANCE CountdownTimers WITH
  CTimers <- Timers,
  Nothing <- NULL,
  status <- [t \in Timers |-> OSTmrStateGet(t)],
  plan <- [t \in Timers |-> PlanOf(t)],
  remain <- [t \in Timers |-> OSTmrRemainGet(t)],
  calling <- IF task.at = "callback" THEN task.ptmr ELSE NULL

\* The timers of the wheel count down: whatever the timer task's callbacks and
\* the other tasks start, stop, create and delete, OSTmr_Task expires each
\* running timer in exactly the tick in which OSTmrRemainGet has counted its
\* delay or period down to 0, across the wrap of OSTmrTime, with one call of
\* its callback, and never one that was stopped or deleted before.
ImplementsCountdown == Countdown!CountSpec
=============================================================================
