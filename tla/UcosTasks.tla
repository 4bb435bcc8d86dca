------------------------------ MODULE UcosTasks ------------------------------
(***************************************************************************)
(* The tasks of one partition as the event services of uC/OS-II see them:  *)
(* TCBs, ready list, wait lists of the event control blocks, ticks and     *)
(* task services.  UcosEvents, UcosMutex and UcosFlags extend this module. *)
(*                                                                         *)
(* The service sources are written for a context switch that returns: a    *)
(* pend puts the task into a wait list, calls OS_Sched, and when the task  *)
(* runs again examines how the wait ended.  `pc' holds that place: between *)
(* the two halves other tasks, ticks and interrupt handlers run.           *)
(*                                                                         *)
(* The bitmaps OSRdyGrp/OSRdyTbl and OSEventGrp/OSEventTbl are the sets of *)
(* priorities they stand for (PrioBitmapProofs).  The idle task is always  *)
(* ready and calls nothing.  An interrupt handler may call what is allowed *)
(* in one at any moment; its OSIntExit reschedules as OS_Sched does.       *)
(***************************************************************************)
EXTENDS Naturals, Sequences, FiniteSets

CONSTANTS
  Tasks,        \* the application tasks
  IdleTask,
  Prios,        \* the priorities below OS_TASK_IDLE_PRIO in use
  InitPrio,     \* priority of each task at the start
  NewPrios,     \* bound: what OSTaskChangePrio may give
  Events,       \* event control blocks, OSEventTbl of the pool
  Msgs,         \* messages, non-null pointers; a queue also takes the null one
  MaxDly,       \* bound: the longest delay or timeout asked for
  Applications, \* calls and tasks: each behaviour is that of one of them
  Hazards,      \* call sequences that break a property, if a run lets them in
  NULL, OS_TCB_RESERVED

VARIABLES
  calls,         \* the application: never changes
  OSRdy, OSPrioCur, OSTCBCur, OSLockNesting, OSTCBPrioTbl,
  tcb,           \* the fields of each task's TCB
  OSEventTbl,    \* wait list of each event control block
  pc             \* where each task is

taskVars == <<calls, OSRdy, OSPrioCur, OSTCBCur, OSLockNesting, OSTCBPrioTbl,
              tcb, OSEventTbl, pc>>
schedVars == <<OSPrioCur, OSTCBCur>>

OS_TASK_IDLE_PRIO == 63
AllPrios == Prios \cup {OS_TASK_IDLE_PRIO}

ASSUME TasksAssumption ==
  /\ Prios \subseteq 0..62 /\ NewPrios \subseteq Prios
  /\ InitPrio \in [Tasks -> Prios]
  /\ \A s, t \in Tasks : InitPrio[s] = InitPrio[t] => s = t
  /\ IdleTask \notin Tasks /\ NULL \notin Tasks \cup Events \cup {IdleTask}
  /\ OS_TCB_RESERVED \notin Tasks \cup {IdleTask, NULL}
  /\ MaxDly \in Nat
  /\ \A a \in Applications : a.tasks \subseteq Tasks

\* OSTCBStat: OS_STAT_RDY is the empty set.  OS_STAT_PEND_ANY does not have
\* OS_STAT_MULTI in it.
OS_STAT_PEND_ANY == {"SEM", "MBOX", "Q", "MUTEX", "FLAG"}
OS_STAT_RDY == {}
StatBits == OS_STAT_PEND_ANY \cup {"SUSPEND", "MULTI"}

\* OSTCBEventMultiPtr is the set of the events of the array, {} for null.
OS_TCB == [prio : AllPrios, stat : SUBSET StatBits,
           statpend : {"OK", "TO", "ABORT"}, dly : 0..MaxDly,
           eventptr : Events \cup {NULL}, multiptr : SUBSET Events,
           msg : Msgs \cup {NULL}]

\* OS_TCBInit.
NewTCB(p) == [prio |-> p, stat |-> OS_STAT_RDY, statpend |-> "OK", dly |-> 0,
              eventptr |-> NULL, multiptr |-> {}, msg |-> NULL]

\* Where a task is: in its own code, inside a pend on a set of events, back
\* from a call with its result, or deleted.
InTask == [at |-> "task"]
Pending(svc, on) == [at |-> "pend", svc |-> svc, on |-> on]
Returned(err, got) == [at |-> "returned", err |-> err, got |-> got]
Dormant == [at |-> "dormant"]

Exists(t) == pc[t].at # "dormant"

\* The application creates its tasks before OSStart; the others never exist.
TasksInit ==
  \E app \in Applications :
    /\ calls = app.calls
    /\ OSRdy = {InitPrio[t] : t \in app.tasks} \cup {OS_TASK_IDLE_PRIO}
    /\ OSPrioCur = (CHOOSE p \in OSRdy : \A q \in OSRdy : p <= q)
    /\ OSTCBPrioTbl = [p \in AllPrios |->
         IF p = OS_TASK_IDLE_PRIO THEN IdleTask
         ELSE IF \E t \in app.tasks : InitPrio[t] = p
              THEN CHOOSE t \in app.tasks : InitPrio[t] = p ELSE NULL]
    /\ OSTCBCur = OSTCBPrioTbl[OSPrioCur]
    /\ OSLockNesting = 0
    /\ tcb = [t \in Tasks |-> NewTCB(InitPrio[t])]
    /\ OSEventTbl = [e \in Events |-> {}]
    /\ pc = [t \in Tasks |-> IF t \in app.tasks THEN InTask ELSE Dormant]

-----------------------------------------------------------------------------
(* Scheduling, and the kernel's functions on wait lists *)

Highest(prios) == CHOOSE p \in prios : \A q \in prios : p <= q

\* OS_Sched called with OSPrioCur set to prio.
SchedFrom(prio) ==
  IF OSLockNesting' = 0 /\ Highest(OSRdy') # prio
  THEN OSPrioCur' = Highest(OSRdy') /\ OSTCBCur' = OSTCBPrioTbl'[OSPrioCur']
  ELSE OSPrioCur' = prio /\ UNCHANGED OSTCBCur

\* OS_Sched, and OSIntExit at the end of an interrupt handler.
OS_Sched == SchedFrom(OSPrioCur)

\* The running task makes a call of the application.
TaskCall(name) ==
  /\ name \in calls
  /\ OSTCBCur \in Tasks
  /\ pc[OSTCBCur] = InTask

\* A task or an interrupt handler makes it.
AnyCall(name) == name \in calls

Cur == tcb[OSTCBCur]

\* The TCB of a task that starts to wait, with the status bits `bits'.
WaitingTCB(c, bits, timeout) ==
  [c EXCEPT !.stat = @ \cup bits, !.statpend = "OK", !.dly = timeout]

\* Priority p is put into the wait lists of the events `on'.
EnterWaitLists(tbl, on, p) ==
  [e \in Events |-> IF e \in on THEN tbl[e] \cup {p} ELSE tbl[e]]

\* OS_EventTaskWait, with the statements before it.
OS_EventTaskWait(svc, bit, e, timeout) ==
  /\ tcb' = [tcb EXCEPT ![OSTCBCur] =
       [WaitingTCB(@, {bit}, timeout) EXCEPT !.eventptr = e]]
  /\ OSEventTbl' = EnterWaitLists(OSEventTbl, {e}, Cur.prio)
  /\ OSRdy' = OSRdy \ {Cur.prio}
  /\ pc' = [pc EXCEPT ![OSTCBCur] = Pending(svc, {e})]

\* OS_EventTaskWaitMulti, with the statements before it.
OS_EventTaskWaitMulti(svc, bits, on, timeout) ==
  /\ tcb' = [tcb EXCEPT ![OSTCBCur] =
       [WaitingTCB(@, bits, timeout) EXCEPT !.eventptr = NULL, !.multiptr = on]]
  /\ OSEventTbl' = EnterWaitLists(OSEventTbl, on, Cur.prio)
  /\ OSRdy' = OSRdy \ {Cur.prio}
  /\ pc' = [pc EXCEPT ![OSTCBCur] = Pending(svc, on)]

\* The task OS_EventTaskRdy finds for a priority of the wait list.
HighestWaiter(e) == OSTCBPrioTbl[Highest(OSEventTbl[e])]
Waiters(e) == {OSTCBPrioTbl[p] : p \in OSEventTbl[e]}

\* Tasks W, all of them waiters of e, with their answer in their TCBs.
AnsweredTCBs(tcbs, W, e, msg, bit, pend) ==
  [t \in Tasks |-> IF t \in W
     THEN [tcbs[t] EXCEPT !.dly = 0, !.msg = msg, !.stat = @ \ {bit}, !.statpend = pend,
                          !.eventptr = IF tcbs[t].multiptr = {} THEN @ ELSE e]
     ELSE tcbs[t]]

\* The priorities of those of W that are not suspended.
Readied(W) == {tcb[t].prio : t \in {u \in W : "SUSPEND" \notin tcb[u].stat}}

WaitListsWithout(W, e) ==
  [f \in Events |-> OSEventTbl[f] \
     {tcb[t].prio : t \in {u \in W : f = e \/ f \in tcb[u].multiptr}}]

\* OS_EventTaskRdy for each task of W.
OS_EventTaskRdy(W, e, msg, bit, pend) ==
  /\ tcb' = AnsweredTCBs(tcb, W, e, msg, bit, pend)
  /\ OSRdy' = OSRdy \cup Readied(W)
  /\ OSEventTbl' = WaitListsWithout(W, e)

-----------------------------------------------------------------------------
(* Ticks and task services *)

\* How a tick, or OSTimeDlyResume, ends a delay or a pend with a timeout.
EndOfWait(c) ==
  [c EXCEPT !.stat = @ \ OS_STAT_PEND_ANY,
            !.statpend = IF c.stat \cap OS_STAT_PEND_ANY # {} THEN "TO" ELSE "OK"]

OSTimeTick ==
  LET expired == {t \in Tasks : Exists(t) /\ tcb[t].dly = 1}
  IN  /\ tcb' = [t \in Tasks |->
           IF ~Exists(t) \/ tcb[t].dly = 0 THEN tcb[t]
           ELSE LET c == [tcb[t] EXCEPT !.dly = @ - 1]
                IN  IF t \in expired THEN EndOfWait(c) ELSE c]
      /\ OSRdy' = OSRdy \cup
           {tcb[t].prio : t \in {u \in expired : "SUSPEND" \notin tcb[u].stat}}
      /\ UNCHANGED <<calls, OSLockNesting, OSTCBPrioTbl, OSEventTbl, pc>>
      /\ OS_Sched

\* The task goes on after a call: its result is history now.
TaskStep ==
  /\ OSTCBCur \in Tasks
  /\ pc[OSTCBCur].at = "returned"
  /\ pc' = [pc EXCEPT ![OSTCBCur] = InTask]
  /\ UNCHANGED <<calls, OSRdy, OSPrioCur, OSTCBCur, OSLockNesting, OSTCBPrioTbl,
                 tcb, OSEventTbl>>

OSTimeDly(ticks) ==
  /\ TaskCall("OSTimeDly")
  /\ OSLockNesting = 0
  /\ OSRdy' = OSRdy \ {Cur.prio}
  /\ tcb' = [tcb EXCEPT ![OSTCBCur].dly = ticks]
  /\ UNCHANGED <<calls, OSLockNesting, OSTCBPrioTbl, OSEventTbl, pc>>
  /\ OS_Sched

OSTimeDlyResume(p) ==
  LET t == OSTCBPrioTbl[p]
  IN  /\ TaskCall("OSTimeDlyResume")
      /\ t \in Tasks
      /\ tcb[t].dly # 0
      /\ tcb' = [tcb EXCEPT ![t] = EndOfWait([tcb[t] EXCEPT !.dly = 0])]
      /\ UNCHANGED <<calls, OSLockNesting, OSTCBPrioTbl, OSEventTbl, pc>>
      /\ IF "SUSPEND" \notin tcb[t].stat
         THEN OSRdy' = OSRdy \cup {tcb[t].prio} /\ OS_Sched
         ELSE UNCHANGED <<OSRdy, schedVars>>

\* Inside an OSEventPendMulti, until it returns.
InPendMulti(t) == tcb[t].multiptr # {}

\* A task suspends itself by its priority of the moment.  One that owns a mutex
\* is in OSTCBPrioTbl under two priorities while it is raised.
OSTaskSuspend(p) ==
  LET t == OSTCBPrioTbl[p]
  IN  /\ TaskCall("OSTaskSuspend")
      /\ t \in Tasks
      /\ InPendMulti(t) => "SuspendMulti" \in Hazards
      /\ pc[t].at = "pend" /\ pc[t].svc = "OSMutexPend" => "SuspendMutexPend" \in Hazards
      /\ t = OSTCBCur /\ p # Cur.prio => "SuspendRaisedSelf" \in Hazards
      /\ t = OSTCBCur /\ OSLockNesting # 0 => "SuspendLockedSelf" \in Hazards
      /\ OSRdy' = OSRdy \ {tcb[t].prio}
      /\ tcb' = [tcb EXCEPT ![t].stat = @ \cup {"SUSPEND"}]
      /\ UNCHANGED <<calls, OSLockNesting, OSTCBPrioTbl, OSEventTbl, pc>>
      /\ IF p = Cur.prio THEN OS_Sched ELSE UNCHANGED schedVars

OSTaskResume(p) ==
  LET t == OSTCBPrioTbl[p]
      stat == tcb[t].stat \ {"SUSPEND"}
  IN  /\ TaskCall("OSTaskSuspend")
      /\ t \in Tasks
      /\ "SUSPEND" \in tcb[t].stat
      /\ tcb' = [tcb EXCEPT ![t].stat = stat]
      /\ UNCHANGED <<calls, OSLockNesting, OSTCBPrioTbl, OSEventTbl, pc>>
      /\ IF stat = OS_STAT_RDY /\ tcb[t].dly = 0
         THEN OSRdy' = OSRdy \cup {tcb[t].prio} /\ OS_Sched
         ELSE UNCHANGED <<OSRdy, schedVars>>

\* The events in whose wait lists OSTaskChangePrio and OSTaskDel look.
EventsOf(t) == tcb[t].multiptr \cup ({tcb[t].eventptr} \ {NULL})

\* A task inside a pend whose TCB says that nothing has answered it: it waits
\* or it has timed out and not run since.
Unanswered(t) ==
  /\ pc[t].at = "pend"
  /\ \/ tcb[t].statpend = "TO"
     \/ InPendMulti(t) /\ tcb[t].eventptr = NULL
     \/ ~InPendMulti(t) /\ tcb[t].stat \cap OS_STAT_PEND_ANY # {}

\* Its wait is over but OSTCBEventPtr is still set, until it runs again.
Answered(t) == pc[t].at = "pend" /\ ~Unanswered(t) /\ EventsOf(t) # {}

\* OSTaskChangePrio: out of the wait lists at the old priority and, whether
\* it was in them or not, in at the new one.
MoveInWaitLists(t, q) ==
  OSEventTbl' = [e \in Events |-> IF e \in EventsOf(t)
    THEN (OSEventTbl[e] \ {tcb[t].prio}) \cup {q} ELSE OSEventTbl[e]]

OSTaskChangePrio(p, q) ==
  LET t == OSTCBPrioTbl[p]
  IN  /\ TaskCall("OSTaskChangePrio")
      /\ t \in Tasks
      /\ OSTCBPrioTbl[q] = NULL
      /\ t = OSTCBCur => OSLockNesting = 0
      /\ Answered(t) => "ChangePrioAnswered" \in Hazards
      /\ OSTCBPrioTbl' = [OSTCBPrioTbl EXCEPT ![p] = NULL, ![q] = t]
      /\ OSRdy' = IF p \in OSRdy THEN (OSRdy \ {p}) \cup {q} ELSE OSRdy
      /\ MoveInWaitLists(t, q)
      /\ tcb' = [tcb EXCEPT ![t].prio = q]
      /\ UNCHANGED <<calls, OSLockNesting, pc>>
      /\ OS_Sched

\* The window in it, with the scheduler locked, lets interrupts in as the
\* states before and after it do.  The TCB goes to the free
\* list: what it keeps is never read.
OSTaskDel(p) ==
  LET t == OSTCBPrioTbl[p]
  IN  /\ TaskCall("OSTaskDel")
      /\ t \in Tasks
      /\ t = OSTCBCur => OSLockNesting = 0
      /\ OSRdy' = OSRdy \ {tcb[t].prio}
      /\ OSEventTbl' = [e \in Events |-> IF e \in EventsOf(t)
           THEN OSEventTbl[e] \ {tcb[t].prio} ELSE OSEventTbl[e]]
      /\ tcb' = [tcb EXCEPT ![t] = NewTCB(InitPrio[t])]
      /\ OSTCBPrioTbl' = [OSTCBPrioTbl EXCEPT ![p] = NULL]
      /\ pc' = [pc EXCEPT ![t] = Dormant]
      /\ UNCHANGED <<calls, OSLockNesting>>
      /\ OS_Sched

\* Bound: a task is created again at the priority it had first, and only by
\* an application that deletes tasks.
OSTaskCreate(t) ==
  LET p == InitPrio[t]
  IN  /\ TaskCall("OSTaskDel")
      /\ ~Exists(t)
      /\ OSTCBPrioTbl[p] = NULL
      /\ OSTCBPrioTbl' = [OSTCBPrioTbl EXCEPT ![p] = t]
      /\ tcb' = [tcb EXCEPT ![t] = NewTCB(p)]
      /\ OSRdy' = OSRdy \cup {p}
      /\ pc' = [pc EXCEPT ![t] = InTask]
      /\ UNCHANGED <<calls, OSLockNesting, OSEventTbl>>
      /\ OS_Sched

\* The lock is taken once: deeper nesting is UcosKernel's.
OSSchedLock ==
  /\ TaskCall("OSSchedLock")
  /\ OSLockNesting = 0
  /\ OSLockNesting' = 1
  /\ UNCHANGED <<calls, OSRdy, OSPrioCur, OSTCBCur, OSTCBPrioTbl, tcb, OSEventTbl, pc>>

OSSchedUnlock ==
  /\ TaskCall("OSSchedLock")
  /\ OSLockNesting = 1
  /\ OSLockNesting' = 0
  /\ UNCHANGED <<calls, OSRdy, OSTCBPrioTbl, tcb, OSEventTbl, pc>>
  /\ OS_Sched

\* OSTaskDel and OSTaskCreate are not here: services have a part in them.
TasksNext ==
  \/ OSTimeTick
  \/ TaskStep
  \/ \E ticks \in 1..MaxDly : OSTimeDly(ticks)
  \/ \E p \in Prios : OSTimeDlyResume(p) \/ OSTaskSuspend(p) \/ OSTaskResume(p)
  \/ \E p \in Prios, q \in NewPrios : OSTaskChangePrio(p, q)
  \/ OSSchedLock \/ OSSchedUnlock

-----------------------------------------------------------------------------
(* Properties *)

TasksTypeOK ==
  /\ calls \in {app.calls : app \in Applications}
  /\ OSRdy \subseteq AllPrios
  /\ OSPrioCur \in AllPrios
  /\ OSTCBCur \in Tasks \cup {IdleTask}
  /\ OSLockNesting \in {0, 1}
  /\ OSTCBPrioTbl \in [AllPrios -> Tasks \cup {IdleTask, NULL, OS_TCB_RESERVED}]
  /\ tcb \in [Tasks -> OS_TCB]
  /\ OSEventTbl \in [Events -> SUBSET AllPrios]
  /\ \A t \in Tasks : pc[t].at \in {"task", "pend", "returned", "dormant"}

\* The wait lists hold exactly the tasks that wait: a priority is in the list
\* of an event if and only if the task of that priority is inside a pend on
\* it that no post, abort or deletion has answered.  A pend that timed out
\* counts until the task has run again and taken itself out.
WaitListExact ==
  \A e \in Events, p \in AllPrios :
    p \in OSEventTbl[e] <=>
      \E t \in Tasks : Unanswered(t) /\ e \in pc[t].on /\ tcb[t].prio = p

\* A task that exists, is not suspended, and whose delay or pend is over.
Runnable(t) ==
  /\ Exists(t)
  /\ "SUSPEND" \notin tcb[t].stat
  /\ IF pc[t].at = "pend" THEN ~Unanswered(t) \/ tcb[t].statpend = "TO"
                           ELSE tcb[t].dly = 0

\* No wakeup is lost and none invented: over any sequence of posts, aborts,
\* deletions, timeouts, suspensions and priority changes, the ready list has
\* exactly the priorities of the tasks that may run.
ReadyListExact ==
  \A p \in Prios : p \in OSRdy <=> \E t \in Tasks : Runnable(t) /\ tcb[t].prio = p

\* OSPrioCur is the priority of the current task, raised, lowered or given a
\* new one, and that task may run.  OS_Sched and the pends go by it: with
\* another value a pend takes the task out of the ready list and goes on.
CurrentTaskReady ==
  /\ OSPrioCur = IF OSTCBCur = IdleTask THEN OS_TASK_IDLE_PRIO ELSE Cur.prio
  /\ OSPrioCur \in OSRdy
=============================================================================
