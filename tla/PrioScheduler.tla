--------------------------- MODULE PrioScheduler ---------------------------
(***************************************************************************)
(* What the kernel of a partition promises its tasks, without ready list,  *)
(* TCB chains, priority table or saved contexts: a set of tasks with       *)
(* distinct priorities, each ready, delayed or suspended, and one CPU that *)
(* is always given to the ready task of the highest priority, except while *)
(* the task that has it holds the scheduler lock.  Each task resumes where *)
(* it stopped.                                                             *)
(***************************************************************************)
EXTENDS Integers

CONSTANTS
  Tasks,        \* the tasks there may be
  NoTask,       \* the CPU before the partition has started
  TaskPrios,    \* the priorities of tasks, 0 the highest
  IdlePrio,     \* the priority of the task that is always ready
  Delays,       \* the delays a task may ask for
  PcMod         \* progress is counted modulo PcMod

VARIABLES
  live,         \* the tasks that exist
  prio,         \* their priorities
  delay,        \* ticks each still waits for
  suspended,    \* the tasks that are suspended
  pc,           \* how far each has run
  running,      \* the task that has the CPU
  locked        \* whether it holds the scheduler lock

svars == <<live, prio, delay, suspended, pc, running, locked>>

Ready == {t \in live : delay[t] = 0 /\ t \notin suspended}
Started == running # NoTask

SchedInit ==
  /\ live = {} /\ suspended = {}
  /\ prio = <<>> /\ delay = <<>> /\ pc = <<>>
  /\ running = NoTask
  /\ locked = FALSE

\* The CPU after a step: it stays with the holder of the lock, or goes to the
\* highest priority that is then ready.
Dispatch ==
  IF locked' THEN running' = running
  ELSE running' \in Ready' /\ \A t \in Ready' : prio'[running'] <= prio'[t]

\* t joins with priority p, ready and at its beginning.
Join(t, p) ==
  /\ t \in Tasks \ live
  /\ \A u \in live : prio[u] # p
  /\ live' = live \cup {t}
  /\ prio' = [u \in live' |-> IF u = t THEN p ELSE prio[u]]
  /\ delay' = [u \in live' |-> IF u = t THEN 0 ELSE delay[u]]
  /\ pc' = [u \in live' |-> IF u = t THEN 0 ELSE pc[u]]
  /\ UNCHANGED <<suspended, locked>>

Configure(t, p) == ~Started /\ Join(t, p) /\ UNCHANGED running

Start ==
  /\ ~Started
  /\ UNCHANGED <<live, prio, delay, suspended, pc, locked>>
  /\ Dispatch

Tick ==
  /\ Started
  /\ delay' = [t \in live |-> IF delay[t] > 0 THEN delay[t] - 1 ELSE 0]
  /\ UNCHANGED <<live, prio, suspended, pc, locked>>
  /\ Dispatch

Work ==
  /\ Started
  /\ pc' = [pc EXCEPT ![running] = (@ + 1) % PcMod]
  /\ UNCHANGED <<live, prio, delay, suspended, running, locked>>

Delay(n) ==
  /\ Started /\ ~locked
  /\ delay' = [delay EXCEPT ![running] = n]
  /\ UNCHANGED <<live, prio, suspended, pc, locked>>
  /\ Dispatch

EndDelay(t) ==
  /\ Started /\ t \in live
  /\ delay' = [delay EXCEPT ![t] = 0]
  /\ UNCHANGED <<live, prio, suspended, pc, locked>>
  /\ Dispatch

Create(t, p) == Started /\ Join(t, p) /\ Dispatch

Delete(t) ==
  /\ Started
  /\ t \in live /\ prio[t] # IdlePrio
  /\ locked => t # running
  /\ live' = live \ {t}
  /\ prio' = [u \in live' |-> prio[u]]
  /\ delay' = [u \in live' |-> delay[u]]
  /\ pc' = [u \in live' |-> pc[u]]
  /\ suspended' = suspended \ {t}
  /\ UNCHANGED locked
  /\ Dispatch

Suspend(t) ==
  /\ Started
  /\ t \in live /\ prio[t] # IdlePrio
  /\ suspended' = suspended \cup {t}
  /\ UNCHANGED <<live, prio, delay, pc, locked>>
  /\ Dispatch

Resume(t) ==
  /\ Started
  /\ suspended' = suspended \ {t}
  /\ UNCHANGED <<live, prio, delay, pc, locked>>
  /\ Dispatch

ChangePrio(t, p) ==
  /\ Started
  /\ t \in live /\ prio[t] # IdlePrio
  /\ \A u \in live : prio[u] # p
  /\ prio' = [prio EXCEPT ![t] = p]
  /\ UNCHANGED <<live, delay, suspended, pc, locked>>
  /\ Dispatch

SetLock(b) ==
  /\ Started
  /\ locked' = b
  /\ UNCHANGED <<live, prio, delay, suspended, pc>>
  /\ Dispatch

SchedNext ==
  \/ Start \/ Tick \/ Work
  \/ \E n \in Delays : Delay(n)
  \/ \E b \in BOOLEAN : SetLock(b)
  \/ \E t \in Tasks : EndDelay(t) \/ Delete(t) \/ Suspend(t) \/ Resume(t)
  \/ \E t \in Tasks, p \in TaskPrios : Configure(t, p) \/ Create(t, p) \/ ChangePrio(t, p)

SchedSpec == SchedInit /\ [][SchedNext]_svars
=============================================================================
