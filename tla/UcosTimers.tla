----------------------------- MODULE UcosTimers -----------------------------
(***************************************************************************)
(* The software timers of uC/OS-II (os_tmr.c): a wheel of doubly linked    *)
(* lists, the timer task that walks one spoke of it per signal, and the    *)
(* services that link and unlink timers between two walks and from the     *)
(* callbacks in the middle of one.                                         *)
(*                                                                         *)
(* A service holds the scheduler lock, and so does the timer task from     *)
(* OSTmrTime++ to the end of the spoke: services run while the task waits  *)
(* or has not yet taken its signal, and in callbacks.  A callback that     *)
(* OSTmrStop runs makes its calls like a task that has just stopped a      *)
(* timer.  OSTmrSignal comes from an ISR at any time.                      *)
(***************************************************************************)
EXTENDS Integers, FiniteSets, Sequences

CONSTANTS
  NumTimers,  \* OS_TMR_CFG_MAX
  WheelSize,  \* OS_TMR_CFG_WHEEL_SIZE
  TimeMod,    \* the INT32U OSTmrTime counts modulo TimeMod
  SignalMax,  \* OSTmrSemSignal holds at most this many signals
  Plans,      \* the arguments of OSTmrCreate: dly, period, opt, callback
  NULL,
  MayCallOnNext  \* whether a callback may call on the timer saved as the next

VARIABLES
  OSTmrTbl,       \* the timers; a pointer is an index, or NULL
  OSTmrWheelTbl,  \* OSTmrFirst and OSTmrEntries of each spoke
  OSTmrFreeList,  \* the first free timer; OSTmrNext leads to the others
  OSTmrUsed,
  OSTmrFree,
  OSTmrTime,
  OSTmrSemSignal, \* the count of the semaphore
  task            \* where OSTmr_Task is, its ptmr and ptmr_next

vars == <<OSTmrTbl, OSTmrWheelTbl, OSTmrFreeList, OSTmrUsed, OSTmrFree, OSTmrTime,
          OSTmrSemSignal, task>>

Timers == 1..NumTimers
TimerPtrs == Timers \cup {NULL}
Spokes == 0..(WheelSize - 1)
Times == 0..(TimeMod - 1)

\* Validated by OSTmrCreate where OS_ARG_CHK_EN is set; a delay that OSTmrTime
\* cannot tell from a shorter one is out of the range of the code's INT32U.
ValidPlan(k) ==
  /\ k.opt = "PERIODIC" => k.period # 0
  /\ k.opt = "ONE_SHOT" => k.dly # 0
  /\ {k.dly, k.period} \subseteq Times
  /\ k.callback \in BOOLEAN

ASSUME TimersAssumption ==
  /\ NumTimers \in Nat \ {0}
  /\ WheelSize \in Nat \ {0}
  /\ TimeMod \in Nat \ {0}
  /\ SignalMax \in Nat
  /\ NULL \notin Timers
  /\ MayCallOnNext \in BOOLEAN
  /\ Plans \subseteq [opt : {"PERIODIC", "ONE_SHOT"}, dly : Times, period : Times,
                       callback : BOOLEAN]
  /\ \A k \in Plans : ValidPlan(k)

OS_TMR ==
  [state : {"UNUSED", "STOPPED", "COMPLETED", "RUNNING"}, opt : {"NONE", "PERIODIC", "ONE_SHOT"},
   dly : Times, period : Times, match : Times, callback : BOOLEAN,
   next : TimerPtrs, prev : TimerPtrs]

OS_TMR_WHEEL == [first : TimerPtrs, entries : 0..NumTimers]

Waiting == [at |-> "wait", ptmr |-> NULL, next |-> NULL]
Signalled == [at |-> "signalled", ptmr |-> NULL, next |-> NULL]

\* OSTmr_Init, and OSTmr_Task in its first OSSemPend.
Init ==
  /\ OSTmrTbl = [t \in Timers |->
       [state |-> "UNUSED", opt |-> "NONE", dly |-> 0, period |-> 0, match |-> 0,
        callback |-> FALSE, next |-> IF t < NumTimers THEN t + 1 ELSE NULL, prev |-> NULL]]
  /\ OSTmrWheelTbl = [i \in Spokes |-> [first |-> NULL, entries |-> 0]]
  /\ OSTmrFreeList = 1
  /\ OSTmrUsed = 0
  /\ OSTmrFree = NumTimers
  /\ OSTmrTime = 0
  /\ OSTmrSemSignal = 0
  /\ task = Waiting

-----------------------------------------------------------------------------
(* The wheel *)

Later(d) == (OSTmrTime + d) % TimeMod

SpokeOf(time) == time % WheelSize

\* tbl with the pointer f of timer p set to q; there is no timer at NULL.
Point(tbl, p, f, q) == IF p = NULL THEN tbl ELSE [tbl EXCEPT ![p][f] = q]

\* Fault: a periodic timer is linked again after its first delay.
FaultMatchTime(tmr, type) ==
  Later(IF tmr.dly = 0 THEN tmr.period ELSE tmr.dly)

\* When a timer that is linked now expires.
MatchTime(tmr, type) ==
  Later(IF type = "PERIODIC" \/ tmr.dly = 0 THEN tmr.period ELSE tmr.dly)

\* A wheel w has the timers tbl and the spokes of the code; a timer is linked
\* before the first of its spoke.
OSTmr_Link(w, t, type) ==
  LET match == MatchTime(w.tbl[t], type)
      i     == SpokeOf(match)
      first == w.spokes[i].first
      tbl   == [w.tbl EXCEPT ![t].state = "RUNNING", ![t].match = match,
                             ![t].next = first, ![t].prev = NULL]
  IN  [tbl    |-> Point(tbl, first, "prev", t),
       spokes |-> [w.spokes EXCEPT ![i] =
                     [first |-> t, entries |-> IF first = NULL THEN 1 ELSE @.entries + 1]]]

\* Fault: the timer behind the one taken out still points back at it.
FaultRelinked(tbl, prev, next) == Point(tbl, prev, "next", next)

\* The neighbours of a timer that is taken out, joined.
Relinked(tbl, prev, next) == Point(Point(tbl, prev, "next", next), next, "prev", prev)

OSTmr_Unlink(w, t) ==
  LET i       == SpokeOf(w.tbl[t].match)
      isFirst == w.spokes[i].first = t
      next    == w.tbl[t].next
      prev    == IF isFirst THEN NULL ELSE w.tbl[t].prev
      tbl     == Relinked(w.tbl, prev, next)
  IN  [tbl    |-> [tbl EXCEPT ![t].state = "STOPPED", ![t].next = NULL, ![t].prev = NULL],
       spokes |-> [w.spokes EXCEPT ![i].first = IF isFirst THEN next ELSE @,
                                   ![i].entries = @ - 1]]

Wheel == [tbl |-> OSTmrTbl, spokes |-> OSTmrWheelTbl]

SetWheel(w) == OSTmrTbl' = w.tbl /\ OSTmrWheelTbl' = w.spokes

-----------------------------------------------------------------------------
(* Services *)

\* A task, while the timer task does not hold the scheduler lock, or a
\* callback calls a service on t.  The callback leaves alone the timer that
\* the walk has saved as the next one.
MayCall(t) ==
  \/ task.at \in {"wait", "signalled"}
  \/ task.at = "callback" /\ (task.next # t \/ MayCallOnNext)

poolVars == <<OSTmrFreeList, OSTmrUsed, OSTmrFree>>
taskVars == <<OSTmrTime, OSTmrSemSignal, task>>

\* Fault: a timer is handed out without being counted.
FaultOSTmr_Alloc(t) ==
  /\ t = OSTmrFreeList
  /\ OSTmrFreeList' = OSTmrTbl[t].next
  /\ OSTmrFree' = OSTmrFree - 1
  /\ UNCHANGED OSTmrUsed

OSTmr_Alloc(t) ==
  /\ t = OSTmrFreeList
  /\ OSTmrFreeList' = OSTmrTbl[t].next
  /\ OSTmrUsed' = OSTmrUsed + 1
  /\ OSTmrFree' = OSTmrFree - 1

\* OSTmrCreate on the timer that OSTmr_Alloc gives.
OSTmrCreate(t, k) ==
  /\ MayCall(t)
  /\ OSTmr_Alloc(t)
  /\ OSTmrTbl' = [OSTmrTbl EXCEPT ![t] =
       [@ EXCEPT !.state = "STOPPED", !.dly = k.dly, !.period = k.period, !.opt = k.opt,
                 !.callback = k.callback, !.next = NULL, !.prev = NULL]]
  /\ UNCHANGED <<OSTmrWheelTbl, taskVars>>

\* A timer back at the head of the free list; its delay stays as it was.
OSTmr_Free(tbl, t) ==
  [tbl EXCEPT ![t] =
     [@ EXCEPT !.state = "UNUSED", !.opt = "NONE", !.period = 0, !.match = 0,
               !.callback = FALSE, !.next = OSTmrFreeList, !.prev = NULL]]

OSTmrDel(t) ==
  LET w == IF OSTmrTbl[t].state = "RUNNING" THEN OSTmr_Unlink(Wheel, t) ELSE Wheel
  IN  /\ MayCall(t)
      /\ OSTmrTbl[t].state # "UNUSED"
      /\ SetWheel([w EXCEPT !.tbl = OSTmr_Free(@, t)])
      /\ OSTmrFreeList' = t
      /\ OSTmrUsed' = OSTmrUsed - 1
      /\ OSTmrFree' = OSTmrFree + 1
      /\ UNCHANGED taskVars

\* A running timer starts anew.
OSTmrStart(t) ==
  LET w == IF OSTmrTbl[t].state = "RUNNING" THEN OSTmr_Unlink(Wheel, t) ELSE Wheel
  IN  /\ MayCall(t)
      /\ OSTmrTbl[t].state # "UNUSED"
      /\ SetWheel(OSTmr_Link(w, t, "DLY"))
      /\ UNCHANGED <<poolVars, taskVars>>

OSTmrStop(t) ==
  /\ MayCall(t)
  /\ OSTmrTbl[t].state = "RUNNING"
  /\ SetWheel(OSTmr_Unlink(Wheel, t))
  /\ UNCHANGED <<poolVars, taskVars>>

OSTmrStateGet(t) == OSTmrTbl[t].state

OSTmrRemainGet(t) ==
  CASE OSTmrTbl[t].state = "RUNNING" -> (OSTmrTbl[t].match - OSTmrTime) % TimeMod
    [] OSTmrTbl[t].state = "STOPPED" ->
         IF OSTmrTbl[t].opt = "PERIODIC" /\ OSTmrTbl[t].dly = 0
         THEN OSTmrTbl[t].period
         ELSE OSTmrTbl[t].dly
    [] OTHER -> 0

-----------------------------------------------------------------------------
(* The timer task *)

\* OSSemPost wakes the task if it waits, counts the signal if it does not,
\* and drops it at the limit.
OSTmrSignal ==
  /\ IF task.at = "wait"
     THEN task' = Signalled /\ UNCHANGED OSTmrSemSignal
     ELSE /\ OSTmrSemSignal < SignalMax
          /\ OSTmrSemSignal' = OSTmrSemSignal + 1
          /\ UNCHANGED task
  /\ UNCHANGED <<OSTmrTbl, OSTmrWheelTbl, poolVars, OSTmrTime>>

\* OSTmr_Task from the return of OSSemPend to the first timer of the spoke.
BeginSpoke ==
  /\ task.at = "signalled"
  /\ OSTmrTime' = Later(1)
  /\ task' = [at |-> "walk", ptmr |-> OSTmrWheelTbl[SpokeOf(Later(1))].first, next |-> NULL]
  /\ UNCHANGED <<OSTmrTbl, OSTmrWheelTbl, poolVars, OSTmrSemSignal>>

\* The loop's body for a timer that does not expire.
SkipTimer ==
  /\ task.at = "walk"
  /\ task.ptmr # NULL
  /\ OSTmrTbl[task.ptmr].match # OSTmrTime
  /\ task' = [task EXCEPT !.ptmr = OSTmrTbl[task.ptmr].next]
  /\ UNCHANGED <<OSTmrTbl, OSTmrWheelTbl, poolVars, OSTmrTime, OSTmrSemSignal>>

\* The wheel once timer t has expired.
Expired(t) ==
  LET w == OSTmr_Unlink(Wheel, t)
  IN  IF OSTmrTbl[t].opt = "PERIODIC"
      THEN OSTmr_Link(w, t, "PERIODIC")
      ELSE [w EXCEPT !.tbl[t].state = "COMPLETED"]

\* The loop's body for a timer that expires, up to its callback.
ExpireTimer ==
  LET t == task.ptmr
  IN  /\ task.at = "walk"
      /\ t # NULL
      /\ OSTmrTbl[t].match = OSTmrTime
      /\ SetWheel(Expired(t))
      /\ task' = IF OSTmrTbl[t].callback
                 THEN [at |-> "callback", ptmr |-> t, next |-> OSTmrTbl[t].next]
                 ELSE [task EXCEPT !.ptmr = OSTmrTbl[t].next]
      /\ UNCHANGED <<poolVars, OSTmrTime, OSTmrSemSignal>>

CallbackReturns ==
  /\ task.at = "callback"
  /\ task' = [at |-> "walk", ptmr |-> task.next, next |-> NULL]
  /\ UNCHANGED <<OSTmrTbl, OSTmrWheelTbl, poolVars, OSTmrTime, OSTmrSemSignal>>

\* The end of the spoke, and the next OSSemPend.
EndSpoke ==
  /\ task.at = "walk"
  /\ task.ptmr = NULL
  /\ IF OSTmrSemSignal > 0
     THEN task' = Signalled /\ OSTmrSemSignal' = OSTmrSemSignal - 1
     ELSE task' = Waiting /\ UNCHANGED OSTmrSemSignal
  /\ UNCHANGED <<OSTmrTbl, OSTmrWheelTbl, poolVars, OSTmrTime>>

OSTmr_Task == BeginSpoke \/ SkipTimer \/ ExpireTimer \/ CallbackReturns \/ EndSpoke

Next ==
  \/ OSTmrSignal
  \/ OSTmr_Task
  \/ \E t \in Timers :
       OSTmrDel(t) \/ OSTmrStart(t) \/ OSTmrStop(t) \/ \E k \in Plans : OSTmrCreate(t, k)

Spec == Init /\ [][Next]_vars

-----------------------------------------------------------------------------
(* Properties *)

\* The timers, spokes and counters keep within the ranges of their types.
TypeOK ==
  /\ OSTmrTbl \in [Timers -> OS_TMR]
  /\ OSTmrWheelTbl \in [Spokes -> OS_TMR_WHEEL]
  /\ OSTmrFreeList \in TimerPtrs
  /\ OSTmrUsed \in 0..NumTimers
  /\ OSTmrFree \in 0..NumTimers
  /\ OSTmrTime \in Times
  /\ OSTmrSemSignal \in 0..SignalMax
  /\ task \in [at : {"wait", "signalled", "walk", "callback"}, ptmr : TimerPtrs,
               next : TimerPtrs]

\* The timers that OSTmrNext leads to from p on.
ListFrom(p) ==
  LET list[n \in 0..NumTimers] ==
        [q \in TimerPtrs |-> IF q = NULL \/ n = 0 THEN <<>>
                             ELSE <<q>> \o list[n - 1][OSTmrTbl[q].next]]
  IN  list[NumTimers][p]

Running(t) == OSTmrTbl[t].state = "RUNNING"

\* list has exactly the members of set, each of them once.
Lists(list, set) ==
  Len(list) = Cardinality(set) /\ {list[k] : k \in DOMAIN list} = set

\* The list of a spoke is its running timers and no other, linked both ways.
SpokeExact(i) ==
  LET list == ListFrom(OSTmrWheelTbl[i].first)
  IN  /\ Lists(list, {t \in Timers : Running(t) /\ SpokeOf(OSTmrTbl[t].match) = i})
      /\ OSTmrWheelTbl[i].entries = Len(list)
      /\ \A k \in DOMAIN list :
           OSTmrTbl[list[k]].prev = IF k = 1 THEN NULL ELSE list[k - 1]

\* Every timer is in one place: a running one in the spoke of its match, a
\* deleted one in the free list, with the entry and pool counts to match, at
\* every point between the steps of a walk and the services its callbacks call.
WheelExact ==
  /\ \A i \in Spokes : SpokeExact(i)
  /\ Lists(ListFrom(OSTmrFreeList), {t \in Timers : OSTmrTbl[t].state = "UNUSED"})
  /\ OSTmrFree = Len(ListFrom(OSTmrFreeList))
  /\ OSTmrUsed = NumTimers - OSTmrFree

\* The timer task lets no timer expire that is not running: one that a callback
\* has stopped is stopped ("If we stopped the timer", os_tmr.c:621).
OnlyRunningExpire == [][ExpireTimer => Running(task.ptmr)]_vars
=============================================================================
