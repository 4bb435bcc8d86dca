------------------------- MODULE UcosServicesRefines -------------------------
(* Semaphores, mailboxes, queues and mutexes implement EventService. *)
EXTENDS UcosServices

\* A task waits for the events in whose lists it is: a timeout takes effect
\* only when the task has run again, and a post in between still reaches it.
WaitsFor(t) ==
  IF pc[t].at = "pend" THEN {e \in pc[t].on : tcb[t].prio \in OSEventTbl[e]} ELSE {}

\* The answer of a task is in its TCB from the post on and with the task from
\* the return of the pend on.
ResultOf(t) ==
  IF pc[t].at = "returned" THEN [err |-> pc[t].err, got |-> pc[t].got]
  ELSE IF pc[t].at = "pend" /\ pc[t].svc # "OSFlagPend" /\ WaitsFor(t) = {}
  THEN [err |-> IF tcb[t].statpend = "OK" THEN "NONE" ELSE tcb[t].statpend,
        got |-> {<<tcb[t].eventptr, tcb[t].msg>>}]
  ELSE [err |-> "none", got |-> {}]

StockOf(e) ==
  CASE ecb[e].type = "SEM"  -> [i \in 1..ecb[e].cnt |-> NULL]
    [] ecb[e].type = "MBOX" -> IF ecb[e].ptr = NULL THEN <<>> ELSE <<ecb[e].ptr>>
    [] ecb[e].type = "Q"    ->
         [i \in 1..QueueOf(e).entries |-> QueueOf(e).slots[(QueueOf(e).out + i - 1) % QSize]]
    [] ecb[e].type = "MUTEX" -> IF Owner(e) = NULL THEN <<NULL>> ELSE <<>>
    [] OTHER -> <<>>

\* The priority of a task, its own one if it is raised.
OwnPrio(t) ==
  IF \E e \in Events : IsMutex(e) /\ Owner(e) = t /\ Raised(e)
  THEN OwnerPrio(CHOOSE e \in Events : IsMutex(e) /\ Owner(e) = t /\ Raised(e))
  ELSE tcb[t].prio

KindsNow == [e \in Events |-> ecb[e].type]
StocksNow == [e \in Events |-> StockOf(e)]
WaitsNow == [t \in Tasks |-> WaitsFor(t)]
ResultsNow == [t \in Tasks |-> ResultOf(t)]

\* One more than in the code, where 0 is a priority.
PriosNow == [t \in Tasks |-> IF Exists(t) THEN OwnPrio(t) + 1 ELSE 0]

Abstract == INSTANCE EventService WITH
  kind <- KindsNow,
  stock <- StocksNow,
  waits <- WaitsNow,
  result <- ResultsNow,
  prio <- PriosNow

\* The service sources implement EventService: no message is lost, doubled,
\* reordered or given to a task of lower priority while a higher one waits,
\* no task waits for an event that has something in stock, and the pend
\* returns exactly the answer the task was given, once, however ticks,
\* timeouts, interrupts and other tasks fall between the two halves of the
\* pend: what was posted to it or, after a deletion, OS_ERR_NONE and no
\* message, which on a semaphore or mutex is what a post gives as well.  That
\* a task can tell the two apart is not stated, for the code does not do it.
ImplementsEventService == Abstract!Spec
=============================================================================
