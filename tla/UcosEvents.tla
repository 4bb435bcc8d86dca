----------------------------- MODULE UcosEvents -----------------------------
(***************************************************************************)
(* Semaphores, mailboxes, message queues and OSEventPendMulti of uC/OS-II. *)
(* os_cfg.h compiles these services out of the present configuration; the  *)
(* module models their sources as they stand in the repository, with       *)
(* OS_ARG_CHK_EN 0 and OS_EVENT_MULTI_EN 1 as os_cfg.h has them.           *)
(*                                                                         *)
(* A call on an object of another type, a pend with the scheduler locked   *)
(* and the other refused calls change nothing: they are not steps.         *)
(***************************************************************************)
EXTENDS UcosTasks

CONSTANTS
  SemMax,        \* the greatest semaphore count, 65535 in the code
  QSize,         \* entries of the storage given to OSQCreate
  MaxQs,         \* OS_MAX_QS
  SwitchReturns  \* TRUE: OS_Sched returns to the pend that called it

VARIABLES
  ecb,              \* OSEventType, OSEventCnt and OSEventPtr of each event
  OSEventFreeList,
  OSQTbl,           \* the queue control blocks
  OSQFreeList

eventVars == <<ecb, OSEventFreeList, OSQTbl, OSQFreeList>>

\* OSEventCnt is an INT16U.
MaxCnt == 65535

ASSUME EventsAssumption ==
  /\ SemMax \in 1..MaxCnt /\ QSize \in Nat \ {0} /\ MaxQs \in Nat
  /\ SwitchReturns \in BOOLEAN
  /\ IsFiniteSet(Events) /\ NULL \notin Msgs

Queues == 1..MaxQs
UnusedECB == [type |-> "UNUSED", cnt |-> 0, ptr |-> NULL]
\* OSEventPtr: a message, a queue control block or the owner of a mutex.
OS_EVENT == [type : {"UNUSED", "SEM", "MBOX", "Q", "MUTEX"}, cnt : 0..MaxCnt,
             ptr : Msgs \cup Queues \cup Tasks \cup {NULL}]

\* The storage from OSQStart to OSQEnd and the offsets of OSQIn and OSQOut.
OS_Q == [slots : [0..(QSize - 1) -> Msgs \cup {NULL}], in : 0..(QSize - 1),
         out : 0..(QSize - 1), entries : 0..QSize]
EmptyQ == [slots |-> [i \in 0..(QSize - 1) |-> NULL], in |-> 0, out |-> 0, entries |-> 0]

\* OS_InitEventList and OS_QInit.
EventsInit ==
  /\ ecb = [e \in Events |-> UnusedECB]
  /\ OSEventFreeList = CHOOSE s \in [1..Cardinality(Events) -> Events] :
                         \A e \in Events : \E i \in DOMAIN s : s[i] = e
  /\ OSQTbl = [q \in Queues |-> EmptyQ]
  /\ OSQFreeList = [q \in Queues |-> q]

-----------------------------------------------------------------------------
(* What is stored in an event, and taking it out *)

QueueOf(e) == OSQTbl[ecb[e].ptr]

Available(e) ==
  CASE ecb[e].type = "SEM"  -> ecb[e].cnt > 0
    [] ecb[e].type = "MBOX" -> ecb[e].ptr # NULL
    [] ecb[e].type = "Q"    -> QueueOf(e).entries > 0

\* The message a taker gets; a semaphore has none.
FirstMessage(e) ==
  CASE ecb[e].type = "SEM"  -> NULL
    [] ecb[e].type = "MBOX" -> ecb[e].ptr
    [] ecb[e].type = "Q"    -> QueueOf(e).slots[QueueOf(e).out]

\* Fault: OSQIn and OSQOut run on to OSQEnd.
FaultNextSlot(i) == i + 1

\* OSQIn and OSQOut wrap at OSQEnd.
NextSlot(i) == IF i + 1 = QSize THEN 0 ELSE i + 1

\* Fault: OSQPostFront wraps to the last slot but one.
FaultPrevSlot(i) == IF i = 0 THEN QSize - 1 ELSE i

\* OSQOut wraps at OSQStart before it is decremented.
PrevSlot(i) == IF i = 0 THEN QSize - 1 ELSE i - 1

\* One item leaves each event of S.
Take(S) ==
  /\ ecb' = [e \in Events |->
       IF e \notin S THEN ecb[e]
       ELSE IF ecb[e].type = "SEM" THEN [ecb[e] EXCEPT !.cnt = @ - 1]
       ELSE IF ecb[e].type = "MBOX" THEN [ecb[e] EXCEPT !.ptr = NULL] ELSE ecb[e]]
  /\ OSQTbl' = [q \in Queues |->
       IF \E e \in S : ecb[e].type = "Q" /\ ecb[e].ptr = q
       THEN [OSQTbl[q] EXCEPT !.out = NextSlot(@), !.entries = @ - 1] ELSE OSQTbl[q]]
  /\ UNCHANGED <<OSEventFreeList, OSQFreeList>>

\* The running task gets what it asked for, from the events of S.
TakeNow(S) ==
  /\ Take(S)
  /\ pc' = [pc EXCEPT ![OSTCBCur] = Returned("NONE", {<<e, FirstMessage(e)>> : e \in S})]
  /\ UNCHANGED <<calls, OSRdy, OSPrioCur, OSTCBCur, OSLockNesting, OSTCBPrioTbl,
                 tcb, OSEventTbl>>

\* Readying tasks W waiting for e, as the last thing before OS_Sched.
ReadyWaiters(W, e, msg, pend) ==
  /\ OS_EventTaskRdy(W, e, msg, ecb[e].type, pend)
  /\ UNCHANGED <<calls, OSLockNesting, OSTCBPrioTbl, pc>>

-----------------------------------------------------------------------------
(* Creating and deleting events *)

\* The next event control block, for an object of this kind.
CreateEvent(type, cnt, ptr) ==
  /\ OSEventFreeList # <<>>
  /\ OSEventFreeList' = Tail(OSEventFreeList)
  /\ ecb' = [ecb EXCEPT ![Head(OSEventFreeList)] = [type |-> type, cnt |-> cnt, ptr |-> ptr]]
  /\ OSEventTbl' = [OSEventTbl EXCEPT ![Head(OSEventFreeList)] = {}]
  /\ UNCHANGED <<calls, OSRdy, OSPrioCur, OSTCBCur, OSLockNesting, OSTCBPrioTbl, tcb, pc>>

OSSemCreate(cnt) ==
  /\ TaskCall("OSSem")
  /\ CreateEvent("SEM", cnt, NULL)
  /\ UNCHANGED <<OSQTbl, OSQFreeList>>

OSMboxCreate(msg) ==
  /\ TaskCall("OSMbox")
  /\ CreateEvent("MBOX", 0, msg)
  /\ UNCHANGED <<OSQTbl, OSQFreeList>>

\* Without a free queue control block the event control block is given back.
\* What the storage held before is not looked at: it starts out empty here.
OSQCreate ==
  /\ TaskCall("OSQ")
  /\ OSQFreeList # <<>>
  /\ CreateEvent("Q", 0, Head(OSQFreeList))
  /\ OSQFreeList' = Tail(OSQFreeList)
  /\ OSQTbl' = [OSQTbl EXCEPT ![Head(OSQFreeList)] = EmptyQ]

\* OSSemDel, OSMboxDel and OSQDel.  With OS_DEL_NO_PEND a waiting task makes
\* the call fail; with OS_DEL_ALWAYS all are readied, as if it were posted.
DeleteEvent(e, always) ==
  /\ always \/ OSEventTbl[e] = {}
  /\ (\E t \in Tasks : e \in tcb[t].multiptr) => "DeleteMulti" \in Hazards
  /\ ReadyWaiters(Waiters(e), e, NULL, "OK")
  /\ ecb' = [ecb EXCEPT ![e] = UnusedECB]
  /\ OSEventFreeList' = <<e>> \o OSEventFreeList
  /\ IF OSEventTbl[e] # {} THEN OS_Sched ELSE UNCHANGED schedVars

OSSemDel(e, always) ==
  /\ TaskCall("OSSem") /\ ecb[e].type = "SEM"
  /\ DeleteEvent(e, always)
  /\ UNCHANGED <<OSQTbl, OSQFreeList>>

OSMboxDel(e, always) ==
  /\ TaskCall("OSMbox") /\ ecb[e].type = "MBOX"
  /\ DeleteEvent(e, always)
  /\ UNCHANGED <<OSQTbl, OSQFreeList>>

\* Fault: the queue control block is not given back.
FaultOSQDel(e, always) ==
  /\ TaskCall("OSQ") /\ ecb[e].type = "Q"
  /\ DeleteEvent(e, always)
  /\ UNCHANGED <<OSQTbl, OSQFreeList>>

OSQDel(e, always) ==
  /\ TaskCall("OSQ") /\ ecb[e].type = "Q"
  /\ DeleteEvent(e, always)
  /\ OSQFreeList' = <<ecb[e].ptr>> \o OSQFreeList
  /\ UNCHANGED OSQTbl

-----------------------------------------------------------------------------
(* Pending *)

CanPend(name, e, type) == TaskCall(name) /\ OSLockNesting = 0 /\ ecb[e].type = type

\* Take what is there, or wait with a timeout; 0 waits for ever.
PendOn(svc, e, timeout) ==
  \/ Available(e) /\ TakeNow({e})
  \/ /\ ~Available(e)
     /\ OS_EventTaskWait(svc, ecb[e].type, e, timeout)
     /\ UNCHANGED <<calls, OSLockNesting, OSTCBPrioTbl, eventVars>>
     /\ OS_Sched

OSSemPend(e, timeout) == CanPend("OSSem", e, "SEM") /\ PendOn("OSSemPend", e, timeout)

OSMboxPend(e, timeout) == CanPend("OSMbox", e, "MBOX") /\ PendOn("OSMboxPend", e, timeout)

OSQPend(e, timeout) == CanPend("OSQ", e, "Q") /\ PendOn("OSQPend", e, timeout)

\* Take an item from every event of S that has one, or wait for all of S.
OSEventPendMulti(S, timeout) ==
  LET ready == {e \in S : Available(e)}
  IN  /\ TaskCall("OSEventPendMulti") /\ OSLockNesting = 0
      /\ \A e \in S : ecb[e].type \in {"SEM", "MBOX", "Q"}
      /\ \/ ready # {} /\ TakeNow(ready)
         \/ /\ ready = {}
            /\ OS_EventTaskWaitMulti("OSEventPendMulti",
                                     {ecb[e].type : e \in S} \cup {"MULTI"}, S, timeout)
            /\ UNCHANGED <<calls, OSLockNesting, OSTCBPrioTbl, eventVars>>
            /\ OS_Sched

\* A task gets the first item of e.  An interrupt handler, which may accept
\* too, takes it away.
Accept(name, e, type) ==
  /\ ecb[e].type = type /\ Available(e)
  /\ \/ TaskCall(name) /\ TakeNow({e})
     \/ AnyCall(name) /\ Take({e}) /\ UNCHANGED taskVars

OSSemAccept(e) == Accept("OSSem", e, "SEM")

OSMboxAccept(e) == Accept("OSMbox", e, "MBOX")

OSQAccept(e) == Accept("OSQ", e, "Q")

\* The task leaves the pend, with its TCB as the pend clears it.
LeavePend(err, got) ==
  /\ tcb' = [tcb EXCEPT ![OSTCBCur] =
       [@ EXCEPT !.stat = OS_STAT_RDY, !.statpend = "OK", !.eventptr = NULL,
                 !.multiptr = {}, !.msg = NULL]]
  /\ pc' = [pc EXCEPT ![OSTCBCur] = Returned(err, got)]

\* OS_EventTaskRemove or OS_EventTaskRemoveMulti.
Withdraw(S) ==
  OSEventTbl' = [e \in Events |-> IF e \in S THEN OSEventTbl[e] \ {Cur.prio}
                                             ELSE OSEventTbl[e]]

\* What an answered pend returns: OSTCBMsg, null for a semaphore and an abort.
Answer(e) == {<<e, Cur.msg>>}

\* Fault: a pend that timed out leaves the task in the wait list.
FaultTimeoutKeepsEntry == UNCHANGED OSEventTbl /\ LeavePend("TO", {})

PendTimedOut == Withdraw(pc[OSTCBCur].on) /\ LeavePend("TO", {})

\* The second half of OSSemPend, OSMboxPend, OSQPend and OSMutexPend.
PendTail ==
  \/ Cur.statpend = "OK" /\ LeavePend("NONE", Answer(Cur.eventptr)) /\ UNCHANGED OSEventTbl
  \/ Cur.statpend = "ABORT" /\ LeavePend("ABORT", Answer(Cur.eventptr)) /\ UNCHANGED OSEventTbl
  \/ Cur.statpend = "TO" /\ PendTimedOut

\* The second half of OSEventPendMulti.  A task that runs without an event
\* in its TCB has timed out.  When the event that was posted has been deleted
\* meanwhile, the call returns without clearing the TCB.
PendMultiTail ==
  IF Cur.statpend = "TO" \/ Cur.eventptr = NULL THEN PendTimedOut
  ELSE /\ UNCHANGED OSEventTbl
       /\ \/ Cur.statpend = "ABORT" /\ LeavePend("ABORT", Answer(Cur.eventptr))
          \/ /\ Cur.statpend = "OK" /\ ecb[Cur.eventptr].type # "UNUSED"
             /\ LeavePend("NONE", Answer(Cur.eventptr))
          \/ /\ Cur.statpend = "OK" /\ ecb[Cur.eventptr].type = "UNUSED"
             /\ pc' = [pc EXCEPT ![OSTCBCur] = Returned("EVENT_TYPE", {<<Cur.eventptr, NULL>>})]
             /\ UNCHANGED tcb

\* A task that runs again inside a pend.  OSCtxSw and IntRestore of this port
\* return to the task and not to OS_Sched, so that the second half is left
\* out: SwitchReturns FALSE.
PendReturns ==
  /\ OSTCBCur \in Tasks
  /\ pc[OSTCBCur].at = "pend" /\ pc[OSTCBCur].svc # "OSFlagPend"
  /\ IF ~SwitchReturns
     THEN /\ pc' = [pc EXCEPT ![OSTCBCur] = Returned("NONE", {})]
          /\ UNCHANGED <<tcb, OSEventTbl>>
     ELSE IF pc[OSTCBCur].svc = "OSEventPendMulti" THEN PendMultiTail ELSE PendTail
  /\ UNCHANGED <<calls, OSRdy, OSPrioCur, OSTCBCur, OSLockNesting, OSTCBPrioTbl, eventVars>>

-----------------------------------------------------------------------------
(* Posting *)

\* To the highest priority waiting or, with OS_POST_OPT_BROADCAST, to all.
\* With OS_POST_OPT_NO_SCHED a task does not call OS_Sched.
PostToWaiters(e, msg, all, sched) ==
  /\ OSEventTbl[e] # {}
  /\ ReadyWaiters(IF all THEN Waiters(e) ELSE {HighestWaiter(e)}, e, msg, "OK")
  /\ UNCHANGED eventVars
  /\ IF sched THEN OS_Sched ELSE UNCHANGED schedVars

OSSemPost(e) ==
  /\ AnyCall("OSSem") /\ ecb[e].type = "SEM"
  /\ \/ PostToWaiters(e, NULL, FALSE, TRUE)
     \/ /\ OSEventTbl[e] = {} /\ ecb[e].cnt < SemMax
        /\ ecb' = [ecb EXCEPT ![e].cnt = @ + 1]
        /\ UNCHANGED <<taskVars, OSEventFreeList, OSQTbl, OSQFreeList>>

\* OSSemSet leaves the count of a semaphore tasks wait for alone.
OSSemSet(e, cnt) ==
  /\ AnyCall("OSSem") /\ ecb[e].type = "SEM"
  /\ ecb[e].cnt > 0 \/ OSEventTbl[e] = {}
  /\ ecb' = [ecb EXCEPT ![e].cnt = cnt]
  /\ UNCHANGED <<taskVars, OSEventFreeList, OSQTbl, OSQFreeList>>

\* OSMboxPost is OSMboxPostOpt without an option.  A full mailbox refuses.
OSMboxPostOpt(e, msg, all, sched) ==
  /\ AnyCall("OSMbox") /\ ecb[e].type = "MBOX"
  /\ sched \/ TaskCall("OSMbox")
  /\ \/ PostToWaiters(e, msg, all, sched)
     \/ /\ OSEventTbl[e] = {} /\ ecb[e].ptr = NULL
        /\ ecb' = [ecb EXCEPT ![e].ptr = msg]
        /\ UNCHANGED <<taskVars, OSEventFreeList, OSQTbl, OSQFreeList>>

OSMboxPost(e, msg) == OSMboxPostOpt(e, msg, FALSE, TRUE)

\* A message goes in at OSQIn or, to the front, before OSQOut.
Enqueue(q, msg, front) ==
  IF front
  THEN [q EXCEPT !.out = PrevSlot(@), !.slots[PrevSlot(q.out)] = msg, !.entries = @ + 1]
  ELSE [q EXCEPT !.in = NextSlot(@), !.slots[q.in] = msg, !.entries = @ + 1]

\* A full queue refuses.
OSQPostOpt(e, msg, front, all, sched) ==
  /\ AnyCall("OSQ") /\ ecb[e].type = "Q"
  /\ sched \/ TaskCall("OSQ")
  /\ \/ PostToWaiters(e, msg, all, sched)
     \/ /\ OSEventTbl[e] = {} /\ QueueOf(e).entries < QSize
        /\ OSQTbl' = [OSQTbl EXCEPT ![ecb[e].ptr] = Enqueue(@, msg, front)]
        /\ UNCHANGED <<taskVars, ecb, OSEventFreeList, OSQFreeList>>

OSQPost(e, msg) == OSQPostOpt(e, msg, FALSE, FALSE, TRUE)

OSQPostFront(e, msg) == OSQPostOpt(e, msg, TRUE, FALSE, TRUE)

OSQFlush(e) ==
  /\ AnyCall("OSQ") /\ ecb[e].type = "Q"
  /\ OSQTbl' = [OSQTbl EXCEPT ![ecb[e].ptr] = [@ EXCEPT !.in = 0, !.out = 0, !.entries = 0]]
  /\ UNCHANGED <<taskVars, ecb, OSEventFreeList, OSQFreeList>>

\* OSSemPendAbort, OSMboxPendAbort and OSQPendAbort.
AbortWaiters(e, all) ==
  /\ OSEventTbl[e] # {}
  /\ ReadyWaiters(IF all THEN Waiters(e) ELSE {HighestWaiter(e)}, e, NULL, "ABORT")
  /\ UNCHANGED eventVars
  /\ OS_Sched

OSSemPendAbort(e, all) ==
  AnyCall("OSSem") /\ ecb[e].type = "SEM" /\ AbortWaiters(e, all)

OSMboxPendAbort(e, all) ==
  AnyCall("OSMbox") /\ ecb[e].type = "MBOX" /\ AbortWaiters(e, all)

OSQPendAbort(e, all) ==
  AnyCall("OSQ") /\ ecb[e].type = "Q" /\ AbortWaiters(e, all)

-----------------------------------------------------------------------------
SemCall(e) ==
  \/ \E timeout \in 0..MaxDly : OSSemPend(e, timeout)
  \/ OSSemAccept(e) \/ OSSemPost(e)
  \/ \E cnt \in 0..SemMax : OSSemSet(e, cnt)
  \/ \E all \in BOOLEAN : OSSemPendAbort(e, all) \/ OSSemDel(e, all)

MboxCall(e) ==
  \/ \E timeout \in 0..MaxDly : OSMboxPend(e, timeout)
  \/ OSMboxAccept(e)
  \/ \E msg \in Msgs : OSMboxPost(e, msg)
  \/ \E msg \in Msgs, all, sched \in BOOLEAN : OSMboxPostOpt(e, msg, all, sched)
  \/ \E all \in BOOLEAN : OSMboxPendAbort(e, all) \/ OSMboxDel(e, all)

QCall(e) ==
  \/ \E timeout \in 0..MaxDly : OSQPend(e, timeout)
  \/ OSQAccept(e) \/ OSQFlush(e)
  \/ \E msg \in Msgs \cup {NULL} : OSQPost(e, msg) \/ OSQPostFront(e, msg)
  \/ \E msg \in Msgs \cup {NULL}, front, all, sched \in BOOLEAN : OSQPostOpt(e, msg, front, all, sched)
  \/ \E all \in BOOLEAN : OSQPendAbort(e, all) \/ OSQDel(e, all)

\* PendReturns is not here: mutexes have a part in it.
EventsNext ==
  \/ \E cnt \in 0..SemMax : OSSemCreate(cnt)
  \/ \E msg \in Msgs \cup {NULL} : OSMboxCreate(msg)
  \/ OSQCreate
  \/ \E e \in Events : SemCall(e) \/ MboxCall(e) \/ QCall(e)
  \/ \E S \in (SUBSET Events) \ {{}}, timeout \in 0..MaxDly : OSEventPendMulti(S, timeout)

-----------------------------------------------------------------------------
(* Properties *)

EventsTypeOK ==
  /\ ecb \in [Events -> OS_EVENT]
  /\ \A i \in DOMAIN OSEventFreeList : OSEventFreeList[i] \in Events
  /\ OSQTbl \in [Queues -> OS_Q]
  /\ \A i \in DOMAIN OSQFreeList : OSQFreeList[i] \in Queues

\* No event control block and no queue control block is lost or is in use
\* twice, whatever is created, deleted, or refused half way.
PoolsConserved ==
  /\ \A e \in Events : ecb[e].type = "UNUSED" <=> \E i \in DOMAIN OSEventFreeList : OSEventFreeList[i] = e
  /\ Len(OSEventFreeList) = Cardinality({e \in Events : ecb[e].type = "UNUSED"})
  /\ \A q \in Queues : (\E i \in DOMAIN OSQFreeList : OSQFreeList[i] = q)
                         <=> ~ \E e \in Events : ecb[e].type = "Q" /\ ecb[e].ptr = q
=============================================================================
