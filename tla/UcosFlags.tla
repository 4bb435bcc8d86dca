------------------------------ MODULE UcosFlags ------------------------------
(***************************************************************************)
(* The event flags of uC/OS-II (os_flag.c).  A task waits for all or any   *)
(* of some bits of a group to be set or to be clear.  A post answers every *)
(* task whose condition it fulfils; a task that consumes the flags it got  *)
(* flips them only when it runs again, in the second half of OSFlagPend.   *)
(***************************************************************************)
EXTENDS UcosTasks

CONSTANTS
  FlagGrps,  \* the pool, OSFlagTbl of the code
  Flags      \* the bits of a group that are in use

VARIABLES
  OSFlagTbl,       \* OSFlagType, OSFlagFlags and OSFlagWaitList of each group
  OSFlagFreeList,
  node             \* what an OSFlagPend under way keeps on the task's stack

flagVars == <<OSFlagTbl, OSFlagFreeList, node>>

ASSUME FlagsAssumption == IsFiniteSet(FlagGrps) /\ NULL \notin FlagGrps

\* OSFlagFlags is the set of the bits that are set; OSFlagWaitList holds the
\* tasks of the linked nodes: their order makes no difference, since a post
\* changes the flags before it goes through them.
OS_FLAG_GRP == [type : {"UNUSED", "FLAG"}, flags : SUBSET Flags, waitlist : SUBSET Tasks]
UnusedGrp == [type |-> "UNUSED", flags |-> {}, waitlist |-> {}]

\* The wait types OS_FLAG_WAIT_{SET,CLR}_{ALL,ANY}, and OS_FLAG_CONSUME.
WaitTypes == {"SET", "CLR"} \X {"ALL", "ANY"}

\* The node, the consume of the call and the flags the task was readied with.
\* These are in OSTCBFlagsRdy; after the pend only OSFlagPendGetFlagsRdy would
\* read them.
OS_FLAG_NODE == [grp : FlagGrps, flags : SUBSET Flags, type : WaitTypes,
                 consume : BOOLEAN, rdy : SUBSET Flags]

\* OS_FlagInit.
FlagsInit ==
  /\ OSFlagTbl = [g \in FlagGrps |-> UnusedGrp]
  /\ OSFlagFreeList = CHOOSE s \in [1..Cardinality(FlagGrps) -> FlagGrps] :
                        \A g \in FlagGrps : \E i \in DOMAIN s : s[i] = g
  /\ node = [t \in Tasks |-> NULL]

-----------------------------------------------------------------------------
\* flags_rdy: those of the wanted flags that are as they are waited for.
FlagsRdy(cur, wanted, type) == IF type[1] = "SET" THEN cur \cap wanted ELSE wanted \ cur

Satisfied(cur, wanted, type) ==
  IF type[2] = "ALL" THEN FlagsRdy(cur, wanted, type) = wanted
                     ELSE FlagsRdy(cur, wanted, type) # {}

\* The flags after a task has consumed rdy.
Consumed(cur, rdy, type) == IF type[1] = "SET" THEN cur \ rdy ELSE cur \cup rdy

\* The wait types an application uses.
Uses(type, consume) ==
  /\ type[1] = "SET" => "OS_FLAG_WAIT_SET" \in calls
  /\ type[1] = "CLR" => "OS_FLAG_WAIT_CLR" \in calls
  /\ consume => "OS_FLAG_CONSUME" \in calls

IsGroup(g) == OSFlagTbl[g].type = "FLAG"

OSFlagCreate(flags) ==
  /\ TaskCall("OSFlag")
  /\ OSFlagFreeList # <<>>
  /\ OSFlagFreeList' = Tail(OSFlagFreeList)
  /\ OSFlagTbl' = [OSFlagTbl EXCEPT ![Head(OSFlagFreeList)] =
                     [type |-> "FLAG", flags |-> flags, waitlist |-> {}]]
  /\ UNCHANGED <<taskVars, node>>

\* The flags are there: OSFlagPend and OSFlagAccept return them.
TakeFlags(g, wanted, type, consume) ==
  LET cur == OSFlagTbl[g].flags
      rdy == FlagsRdy(cur, wanted, type)
  IN  /\ Satisfied(cur, wanted, type)
      /\ OSFlagTbl' = IF consume
           THEN [OSFlagTbl EXCEPT ![g].flags = Consumed(cur, rdy, type)] ELSE OSFlagTbl
      /\ UNCHANGED <<taskVars, OSFlagFreeList, node>>

OSFlagAccept(g, wanted, type, consume) ==
  /\ AnyCall("OSFlag") /\ IsGroup(g)
  /\ Uses(type, consume)
  /\ TakeFlags(g, wanted, type, consume)

\* OS_FlagBlock.
OS_FlagBlock(g, wanted, type, consume, timeout) ==
  /\ tcb' = [tcb EXCEPT ![OSTCBCur] = WaitingTCB(@, {"FLAG"}, timeout)]
  /\ node' = [node EXCEPT ![OSTCBCur] =
                [grp |-> g, flags |-> wanted, type |-> type,
                 consume |-> consume, rdy |-> {}]]
  /\ OSFlagTbl' = [OSFlagTbl EXCEPT ![g].waitlist = @ \cup {OSTCBCur}]
  /\ OSRdy' = OSRdy \ {Cur.prio}
  /\ pc' = [pc EXCEPT ![OSTCBCur] = Pending("OSFlagPend", {})]

OSFlagPend(g, wanted, type, consume, timeout) ==
  /\ TaskCall("OSFlag") /\ IsGroup(g)
  /\ OSLockNesting = 0
  /\ Uses(type, consume)
  /\ \/ TakeFlags(g, wanted, type, consume)
     \/ /\ ~Satisfied(OSFlagTbl[g].flags, wanted, type)
        /\ OS_FlagBlock(g, wanted, type, consume, timeout)
        /\ UNCHANGED <<calls, OSLockNesting, OSTCBPrioTbl, OSEventTbl, OSFlagFreeList>>
        /\ OS_Sched

\* OS_FlagUnlink of the node of task t, if it is linked.
OS_FlagUnlink(t) ==
  OSFlagTbl' = [g \in FlagGrps |-> [OSFlagTbl[g] EXCEPT !.waitlist = @ \ {t}]]

\* Fault: a pend that timed out leaves its node in the list of the group.
FaultFlagPendTimedOut ==
  /\ Cur.statpend # "OK"
  /\ tcb' = [tcb EXCEPT ![OSTCBCur].stat = OS_STAT_RDY, ![OSTCBCur].statpend = "OK"]
  /\ UNCHANGED OSFlagTbl

FlagPendTimedOut ==
  /\ Cur.statpend # "OK"
  /\ tcb' = [tcb EXCEPT ![OSTCBCur].stat = OS_STAT_RDY, ![OSTCBCur].statpend = "OK"]
  /\ OS_FlagUnlink(OSTCBCur)

\* A post or a deletion answered.  The group is not looked at again: flags
\* are consumed whatever it has become.
FlagPendAnswered ==
  LET n == node[OSTCBCur]
  IN  /\ Cur.statpend = "OK"
      /\ OSFlagTbl' = IF n.consume
           THEN [OSFlagTbl EXCEPT ![n.grp].flags = Consumed(@, n.rdy, n.type)]
           ELSE OSFlagTbl
      /\ UNCHANGED tcb

\* The second half of OSFlagPend.
FlagPendReturns ==
  /\ OSTCBCur \in Tasks
  /\ pc[OSTCBCur].at = "pend" /\ pc[OSTCBCur].svc = "OSFlagPend"
  /\ FlagPendTimedOut \/ FlagPendAnswered
  /\ pc' = [pc EXCEPT ![OSTCBCur] = InTask]
  /\ node' = [node EXCEPT ![OSTCBCur] = NULL]
  /\ UNCHANGED <<calls, OSRdy, OSPrioCur, OSTCBCur, OSLockNesting, OSTCBPrioTbl,
                 OSEventTbl, OSFlagFreeList>>

-----------------------------------------------------------------------------
\* OS_FlagTaskRdy for each task of W, with the flags rdy[t] it gets.
OS_FlagTaskRdy(W, rdy) ==
  /\ tcb' = [t \in Tasks |-> IF t \in W
       THEN [tcb[t] EXCEPT !.dly = 0, !.stat = @ \ {"FLAG"}, !.statpend = "OK"] ELSE tcb[t]]
  /\ node' = [t \in Tasks |-> IF t \in W THEN [node[t] EXCEPT !.rdy = rdy[t]] ELSE node[t]]
  /\ OSRdy' = OSRdy \cup {tcb'[t].prio : t \in {u \in W : tcb'[u].stat = OS_STAT_RDY}}
  /\ UNCHANGED <<calls, OSLockNesting, OSTCBPrioTbl, OSEventTbl, pc>>

\* Fault: a post does not go on after the first waiting task it answered.
FaultAnsweredBy(g, flags) ==
  LET all == {t \in OSFlagTbl[g].waitlist : Satisfied(flags, node[t].flags, node[t].type)}
  IN  IF all = {} THEN {} ELSE {CHOOSE t \in all : TRUE}

\* The waiting tasks whose condition the flags fulfil.
AnsweredBy(g, flags) ==
  {t \in OSFlagTbl[g].waitlist : Satisfied(flags, node[t].flags, node[t].type)}

\* OS_Sched is called if a task became ready; it does nothing otherwise.
OSFlagPost(g, bits, set) ==
  LET flags == IF set THEN OSFlagTbl[g].flags \cup bits ELSE OSFlagTbl[g].flags \ bits
      W == AnsweredBy(g, flags)
  IN  /\ AnyCall("OSFlag") /\ IsGroup(g)
      /\ OSFlagTbl' = [OSFlagTbl EXCEPT ![g].flags = flags, ![g].waitlist = @ \ W]
      /\ OS_FlagTaskRdy(W, [t \in W |-> FlagsRdy(flags, node[t].flags, node[t].type)])
      /\ UNCHANGED OSFlagFreeList
      /\ IF \E t \in W : tcb'[t].stat = OS_STAT_RDY THEN OS_Sched ELSE UNCHANGED schedVars

OSFlagDel(g, always) ==
  LET W == OSFlagTbl[g].waitlist
  IN  /\ TaskCall("OSFlag") /\ IsGroup(g)
      /\ always \/ W = {}
      /\ OSFlagTbl' = [OSFlagTbl EXCEPT ![g] = UnusedGrp]
      /\ OSFlagFreeList' = <<g>> \o OSFlagFreeList
      /\ OS_FlagTaskRdy(W, [t \in W |-> {}])
      /\ IF W # {} THEN OS_Sched ELSE UNCHANGED schedVars

FlagsNext ==
  \/ \E flags \in SUBSET Flags : OSFlagCreate(flags)
  \/ \E g \in FlagGrps, type \in WaitTypes, wanted \in (SUBSET Flags) \ {{}}, consume \in BOOLEAN :
       \/ OSFlagAccept(g, wanted, type, consume)
       \/ \E timeout \in 0..MaxDly : OSFlagPend(g, wanted, type, consume, timeout)
  \/ FlagPendReturns
  \/ \E g \in FlagGrps, bits \in (SUBSET Flags) \ {{}}, set \in BOOLEAN : OSFlagPost(g, bits, set)
  \/ \E g \in FlagGrps, always \in BOOLEAN : OSFlagDel(g, always)

-----------------------------------------------------------------------------
(* Properties *)

FlagsTypeOK ==
  /\ OSFlagTbl \in [FlagGrps -> OS_FLAG_GRP]
  /\ \A i \in DOMAIN OSFlagFreeList : OSFlagFreeList[i] \in FlagGrps
  /\ \A t \in Tasks : node[t] = NULL \/ node[t] \in OS_FLAG_NODE

\* A node is linked in its group exactly as long as its task is inside the
\* pend and unanswered, so that no post goes through the stack frame of a
\* pend that has returned; a group in the free list has none.
FlagNodesExact ==
  \A g \in FlagGrps, t \in Tasks :
    t \in OSFlagTbl[g].waitlist <=>
      /\ pc[t].at = "pend" /\ pc[t].svc = "OSFlagPend" /\ Unanswered(t)
      /\ node[t].grp = g /\ IsGroup(g)

\* No task waits for flags that are as it wants them.
NoSatisfiedWaiter ==
  \A g \in FlagGrps : \A t \in OSFlagTbl[g].waitlist :
    ~Satisfied(OSFlagTbl[g].flags, node[t].flags, node[t].type)
=============================================================================
