---------------------------- MODULE UcosServices ----------------------------
(***************************************************************************)
(* The tasks of a partition with all the event services of uC/OS-II:       *)
(* semaphores, mailboxes and queues (UcosEvents), mutexes (UcosMutex),     *)
(* event flags (UcosFlags) and memory partitions (UcosMem) on the tasks    *)
(* and ticks of UcosTasks.                                                 *)
(***************************************************************************)
EXTENDS UcosMutex, UcosFlags, UcosMem

vars == <<taskVars, eventVars, holds, flagVars, memVars>>

Init == TasksInit /\ EventsInit /\ MutexInit /\ FlagsInit /\ MemInit

\* A task that owns a mutex is not deleted: nothing would give it back.
DeleteTask(p) ==
  /\ OSTaskDel(p)
  /\ ~OwnsMutex(OSTCBPrioTbl[p])
  /\ OS_FlagUnlink(OSTCBPrioTbl[p])
  /\ node' = [node EXCEPT ![OSTCBPrioTbl[p]] = NULL]
  /\ UNCHANGED <<eventVars, holds, OSFlagFreeList, memVars>>

CreateTask(t) ==
  /\ OSTaskCreate(t)
  /\ UNCHANGED <<eventVars, holds, flagVars, memVars>>

\* Notes 1 and 2 of OSMutexPend: a task that owns a mutex pends on nothing
\* else, and nobody changes its priority.
NotesKept ==
  \A t \in Tasks : OwnsMutex(t) =>
    /\ tcb'[t].prio = tcb[t].prio
    /\ pc'[t].at = "pend" => pc[t].at = "pend"

Next ==
  \/ TasksNext /\ NotesKept /\ UNCHANGED <<eventVars, holds, flagVars, memVars>>
  \/ EventsNext /\ NotesKept /\ UNCHANGED <<holds, flagVars, memVars>>
  \/ MutexPendReturns /\ UNCHANGED <<flagVars, memVars>>
  \/ MutexNext /\ UNCHANGED <<flagVars, memVars>>
  \/ FlagsNext /\ NotesKept /\ UNCHANGED <<eventVars, holds, memVars>>
  \/ MemNext /\ UNCHANGED <<eventVars, holds, flagVars>>
  \/ \E p \in Prios : DeleteTask(p)
  \/ \E t \in Tasks : CreateTask(t)

Spec == Init /\ [][Next]_vars

TypeOK ==
  TasksTypeOK /\ EventsTypeOK /\ FlagsTypeOK /\ MemTypeOK /\ holds \in [Tasks -> SUBSET Events]
=============================================================================
