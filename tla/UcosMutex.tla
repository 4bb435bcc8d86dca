------------------------------ MODULE UcosMutex ------------------------------
(***************************************************************************)
(* The mutexes of uC/OS-II (os_mutex.c): mutual exclusion with a priority  *)
(* ceiling.  The owner is raised to the priority ceiling priority (PCP) of *)
(* the mutex when a task of higher priority has to wait for it, and falls  *)
(* back to its own when it posts.                                          *)
(*                                                                         *)
(* The notes of OSMutexPend and OSMutexDel bind the tasks: an owner pends  *)
(* on nothing else, nobody changes its priority, and one that is raised is *)
(* ready when somebody deletes the mutex.  PCPs are above all tasks.       *)
(***************************************************************************)
EXTENDS UcosEvents

CONSTANTS
  PCPs    \* ceilings asked for, OS_PRIO_MUTEX_CEIL_DIS among them

VARIABLES
  holds   \* history: the mutexes each task got and has not given back

ASSUME MutexAssumption ==
  /\ PCPs \subseteq Prios \cup {255}
  /\ \A p \in PCPs \ {255} :
       (\A q \in NewPrios : p < q) /\ (\A t \in Tasks : p < InitPrio[t])

OS_PRIO_MUTEX_CEIL_DIS == 255
OS_MUTEX_AVAILABLE == 255

\* OSEventCnt of a mutex: the PCP, and the priority of the owner.
MutexCnt(pcp, prio) == pcp * 256 + prio
PCP(e) == ecb[e].cnt \div 256
OwnerPrio(e) == ecb[e].cnt % 256

IsMutex(e) == ecb[e].type = "MUTEX"
Owner(e) == ecb[e].ptr
HasCeiling(e) == PCP(e) # OS_PRIO_MUTEX_CEIL_DIS
Raised(e) == HasCeiling(e) /\ Owner(e) \in Tasks /\ tcb[Owner(e)].prio = PCP(e)
OwnsMutex(t) == \E e \in Events : IsMutex(e) /\ Owner(e) = t

MutexInit == holds = [t \in Tasks |-> {}]

-----------------------------------------------------------------------------
\* Mutex e becomes that of task t, at the priority it has.
GiveMutex(e, t) ==
  ecb' = [ecb EXCEPT ![e].cnt = MutexCnt(PCP(e), tcb[t].prio), ![e].ptr = t]

\* OSTCBPrioTbl with the PCP of e reserved, or free.
WithPCP(e, value) ==
  IF HasCeiling(e) THEN [OSTCBPrioTbl EXCEPT ![PCP(e)] = value] ELSE OSTCBPrioTbl

\* A task is still inside OSMutexPend on this free event control block: a
\* deletion or a post has answered it, and it has not run since.
PendsOnDeleted(e) ==
  \E t \in Tasks : pc[t].at = "pend" /\ pc[t].svc = "OSMutexPend" /\ e \in pc[t].on

OSMutexCreate(pcp) ==
  /\ TaskCall("OSMutex")
  /\ pcp # OS_PRIO_MUTEX_CEIL_DIS => OSTCBPrioTbl[pcp] = NULL
  /\ OSEventFreeList # <<>>
  /\ PendsOnDeleted(Head(OSEventFreeList)) => "RecreateMutex" \in Hazards
  /\ ecb' = [ecb EXCEPT ![Head(OSEventFreeList)] =
       [type |-> "MUTEX", cnt |-> MutexCnt(pcp, OS_MUTEX_AVAILABLE), ptr |-> NULL]]
  /\ OSEventFreeList' = Tail(OSEventFreeList)
  /\ OSEventTbl' = [OSEventTbl EXCEPT ![Head(OSEventFreeList)] = {}]
  /\ OSTCBPrioTbl' = IF pcp = OS_PRIO_MUTEX_CEIL_DIS THEN OSTCBPrioTbl
                     ELSE [OSTCBPrioTbl EXCEPT ![pcp] = OS_TCB_RESERVED]
  /\ UNCHANGED <<calls, OSRdy, OSPrioCur, OSTCBCur, OSLockNesting, tcb, pc,
                 OSQTbl, OSQFreeList, holds>>

\* Where OSMutexPend and OSMutexAccept find the mutex available.
TakeMutex(e) ==
  /\ OwnerPrio(e) = OS_MUTEX_AVAILABLE
  /\ GiveMutex(e, OSTCBCur)
  /\ holds' = [holds EXCEPT ![OSTCBCur] = @ \cup {e}]
  /\ pc' = [pc EXCEPT ![OSTCBCur] = Returned("NONE", {<<e, NULL>>})]
  /\ UNCHANGED <<calls, OSRdy, OSPrioCur, OSTCBCur, OSLockNesting, OSTCBPrioTbl,
                 tcb, OSEventTbl, OSEventFreeList, OSQTbl, OSQFreeList>>

\* Mutexes are not nested: the priority saved for the second would be the
\* PCP of the first.
OSMutexAccept(e) ==
  /\ TaskCall("OSMutex") /\ IsMutex(e)
  /\ holds[OSTCBCur] = {}
  /\ TakeMutex(e)

\* Fault: the owner is raised for tasks of lower priority.
FaultMustPromote(e) ==
  HasCeiling(e) /\ tcb[Owner(e)].prio > PCP(e) /\ OwnerPrio(e) < Cur.prio

\* The owner has to be raised for the running task, which waits for it.
MustPromote(e) ==
  HasCeiling(e) /\ tcb[Owner(e)].prio > PCP(e) /\ OwnerPrio(e) > Cur.prio

\* The ready list and the wait lists with the owner at the PCP: an owner that
\* is not ready is moved in the wait list OSTCBEventPtr tells.
PromotedRdy(e) ==
  LET p == tcb[Owner(e)].prio
  IN  IF MustPromote(e) /\ p \in OSRdy THEN (OSRdy \ {p}) \cup {PCP(e)} ELSE OSRdy
PromotedTbl(e) ==
  LET o == tcb[Owner(e)]
  IN  IF MustPromote(e) /\ o.prio \notin OSRdy /\ o.eventptr # NULL
      THEN [OSEventTbl EXCEPT ![o.eventptr] = (@ \ {o.prio}) \cup {PCP(e)}]
      ELSE OSEventTbl

OSMutexPend(e, timeout) ==
  /\ TaskCall("OSMutex") /\ IsMutex(e)
  /\ OSLockNesting = 0
  /\ holds[OSTCBCur] = {}
  /\ \/ TakeMutex(e)
     \/ /\ OwnerPrio(e) # OS_MUTEX_AVAILABLE
        /\ tcb' = [t \in Tasks |->
             IF t = OSTCBCur THEN [WaitingTCB(tcb[t], {"MUTEX"}, timeout) EXCEPT !.eventptr = e]
             ELSE IF t = Owner(e) /\ MustPromote(e) THEN [tcb[t] EXCEPT !.prio = PCP(e)]
             ELSE tcb[t]]
        /\ OSTCBPrioTbl' = IF MustPromote(e) THEN WithPCP(e, Owner(e)) ELSE OSTCBPrioTbl
        /\ OSEventTbl' = EnterWaitLists(PromotedTbl(e), {e}, Cur.prio)
        /\ OSRdy' = PromotedRdy(e) \ {Cur.prio}
        /\ pc' = [pc EXCEPT ![OSTCBCur] = Pending("OSMutexPend", {e})]
        /\ UNCHANGED <<calls, OSLockNesting, eventVars, holds>>
        /\ OS_Sched

\* The pend returned with the mutex, or without: see PendReturns.  Where a
\* deletion answered it, it returns "NONE" as well, but of a control block
\* that is no mutex by now there is nothing to hold.
MutexPendReturns ==
  /\ PendReturns
  /\ holds' = IF pc[OSTCBCur].svc = "OSMutexPend" /\ pc'[OSTCBCur].err = "NONE"
              THEN [holds EXCEPT ![OSTCBCur] = @ \cup {e \in pc[OSTCBCur].on : IsMutex(e)}]
              ELSE holds

-----------------------------------------------------------------------------
\* Fault: the owner keeps the PCP in its TCB.
FaultLoweredTCBs(e) == tcb

\* OSMutex_RdyAtPrio, if the owner of e was raised: it is ready at its own
\* priority, and OSPrioCur is that as if the owner were the current task.
LoweredTCBs(e) ==
  IF Raised(e) THEN [tcb EXCEPT ![Owner(e)].prio = OwnerPrio(e)] ELSE tcb

\* Fault: it stays in the ready list at the PCP.
FaultLoweredRdy(e) == IF Raised(e) THEN OSRdy \cup {OwnerPrio(e)} ELSE OSRdy

LoweredRdy(e) == IF Raised(e) THEN (OSRdy \ {PCP(e)}) \cup {OwnerPrio(e)} ELSE OSRdy

\* Fault: OSPrioCur keeps the PCP.
FaultLoweredPrioCur(e) == OSPrioCur

LoweredPrioCur(e) == IF Raised(e) THEN OwnerPrio(e) ELSE OSPrioCur

\* The owner falls back, the tasks of W are readied, and there is a context
\* switch only if there are any.
LowerAndReady(e, W) ==
  /\ tcb' = AnsweredTCBs(LoweredTCBs(e), W, e, NULL, "MUTEX", "OK")
  /\ OSRdy' = LoweredRdy(e) \cup Readied(W)
  /\ OSEventTbl' = WaitListsWithout(W, e)
  /\ UNCHANGED <<calls, OSLockNesting, pc>>
  /\ IF W # {} THEN SchedFrom(LoweredPrioCur(e))
               ELSE OSPrioCur' = LoweredPrioCur(e) /\ UNCHANGED OSTCBCur

\* Fault: the waiter is readied and the mutex keeps naming its old owner.
FaultHandOver(e, w) == UNCHANGED ecb

\* The waiter w becomes the owner, at the priority it has.
HandOver(e, w) == GiveMutex(e, w)

OSMutexPost(e) ==
  /\ TaskCall("OSMutex") /\ IsMutex(e)
  /\ Owner(e) = OSTCBCur
  /\ OSTCBPrioTbl' = WithPCP(e, OS_TCB_RESERVED)
  /\ holds' = [holds EXCEPT ![OSTCBCur] = @ \ {e}]
  /\ UNCHANGED <<OSEventFreeList, OSQTbl, OSQFreeList>>
  /\ \/ /\ OSEventTbl[e] # {}
        /\ HandOver(e, HighestWaiter(e))
        /\ LowerAndReady(e, {HighestWaiter(e)})
     \/ /\ OSEventTbl[e] = {}
        /\ ecb' = [ecb EXCEPT ![e].cnt = MutexCnt(PCP(e), OS_MUTEX_AVAILABLE), ![e].ptr = NULL]
        /\ LowerAndReady(e, {})

\* Note 4 assumes a ready owner for OS_DEL_ALWAYS.  OS_DEL_NO_PEND frees the
\* PCP and does not look at the owner.
OSMutexDel(e, always) ==
  /\ TaskCall("OSMutex") /\ IsMutex(e)
  /\ OSTCBPrioTbl' = WithPCP(e, NULL)
  /\ ecb' = [ecb EXCEPT ![e] = UnusedECB]
  /\ OSEventFreeList' = <<e>> \o OSEventFreeList
  /\ holds' = [t \in Tasks |-> holds[t] \ {e}]
  /\ UNCHANGED <<OSQTbl, OSQFreeList>>
  /\ \/ /\ always
        /\ Raised(e) => PCP(e) \in OSRdy
        /\ Raised(e) /\ Owner(e) # OSTCBCur => "DeleteOwned" \in Hazards
        /\ LowerAndReady(e, Waiters(e))
     \/ /\ ~always /\ OSEventTbl[e] = {}
        /\ Raised(e) => "DeleteRaised" \in Hazards
        /\ UNCHANGED <<calls, OSRdy, OSPrioCur, OSTCBCur, OSLockNesting, tcb, OSEventTbl, pc>>

MutexNext ==
  \/ \E pcp \in PCPs : OSMutexCreate(pcp)
  \/ \E e \in Events :
       \/ OSMutexAccept(e) \/ OSMutexPost(e)
       \/ \E timeout \in 0..MaxDly : OSMutexPend(e, timeout)
       \/ \E always \in BOOLEAN : OSMutexDel(e, always)

-----------------------------------------------------------------------------
(* Properties *)

\* A task inside OSMutexPend that a post has given the mutex and that has not
\* run since.
Granted(t, e) ==
  /\ pc[t].at = "pend" /\ pc[t].svc = "OSMutexPend" /\ e \in pc[t].on
  /\ ~Unanswered(t)

\* At most one task believes that it has a mutex, by what its calls returned
\* or are about to return, and it is the one the mutex names: posts, timeouts
\* and deletions in any order never give it to two or to nobody, unless a mutex
\* is created where one was deleted before the tasks of the old one have run
\* (RecreateMutex of Hazards).
MutualExclusion ==
  \A e \in Events : IsMutex(e) =>
    /\ {t \in Tasks : e \in holds[t] \/ Granted(t, e)} = {Owner(e)} \ {NULL}
    /\ Owner(e) = NULL <=> OwnerPrio(e) = OS_MUTEX_AVAILABLE

\* By what the calls returned alone: no mutex is owned by two tasks.  That is
\* what "your task owns the mutex" says of OS_ERR_NONE in the notes of
\* OSMutexPend.
OneOwner ==
  \A s, t \in Tasks : holds[s] \cap holds[t] # {} => s = t

\* While a task waits for a mutex with a ceiling, the owner runs at a higher
\* priority than it: no task in between delays the owner.
NoPriorityInversion ==
  \A e \in Events : IsMutex(e) /\ HasCeiling(e) =>
    \A t \in Waiters(e) : tcb[Owner(e)].prio < tcb[t].prio

\* OSTCBPrioTbl gives every task under its priority and a raised owner under
\* its own one too, so that it gets that back; a PCP is reserved while its
\* mutex exists and nobody is raised to it.
PriorityTableExact ==
  \A p \in Prios :
    /\ \A t \in Tasks :
         OSTCBPrioTbl[p] = t <=>
           /\ Exists(t)
           /\ \/ tcb[t].prio = p
              \/ \E e \in Events : IsMutex(e) /\ Owner(e) = t /\ Raised(e) /\ OwnerPrio(e) = p
    /\ OSTCBPrioTbl[p] = OS_TCB_RESERVED <=>
         \E e \in Events : IsMutex(e) /\ PCP(e) = p /\ ~Raised(e)
=============================================================================
