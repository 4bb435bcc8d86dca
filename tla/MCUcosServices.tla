--------------------------- MODULE MCUcosServices ---------------------------
(* Instances of UcosServices and of its refinement for TLC. *)
EXTENDS UcosServicesRefines

CONSTANTS A, B, C

\* C has the highest priority of the three and A comes before B.
MCTasks == {A, B, C}
MCInitPrio == [t \in MCTasks |-> CASE t = A -> 2 [] t = B -> 3 [] t = C -> 1]

\* Priority 0 is for a priority ceiling; 1 is free where C does not exist.
MCPrios == 0..3
MCNewPrios == 1..3
MCPCPs == {0, 255}

App(tasks, names) == [tasks |-> tasks, calls |-> names]

\* The calls of the applications: each object with the services that bear
\* on it, and several objects at once with OSEventPendMulti.
MCApplications ==
  { App({A, B}, {"OSSem", "OSTaskChangePrio"}),
    App({A, B}, {"OSSem", "OSTaskSuspend", "OSTimeDly"}),
    App({A, B}, {"OSSem", "OSTaskDel"}),
    App({A, B}, {"OSSem", "OSSchedLock", "OSTimeDlyResume"}),
    App({A, B}, {"OSMbox", "OSTaskSuspend"}),
    App({A, B}, {"OSQ"}),
    App({A, B}, {"OSEventPendMulti", "OSSem", "OSMbox"}),
    App({A, B, C}, {"OSMutex", "OSTimeDly"}),
    App({A, B}, {"OSMutex", "OSTaskDel"}),
    App({A, B, C}, {"OSMutex", "OSTaskSuspend"}),
    App({A, B}, {"OSFlag", "OS_FLAG_WAIT_SET", "OS_FLAG_CONSUME"}),
    App({A, B}, {"OSFlag", "OS_FLAG_WAIT_CLR", "OS_FLAG_CONSUME", "OSTaskSuspend"}),
    App({A, B}, {"OSFlag", "OS_FLAG_WAIT_SET", "OS_FLAG_WAIT_CLR"}),
    App({A, B}, {"OSFlag", "OS_FLAG_WAIT_SET", "OSTaskDel"}),
    App({A}, {"OSMem"}) }

\* A task whose pend a post has answered gets a new priority.
MCChangePrioApp == {App({A, B}, {"OSSem", "OSTaskChangePrio"})}

\* The mutex of a raised owner is deleted by another task, under the lock.
MCDeleteOwnedApp == {App({A, B, C}, {"OSMutex", "OSTimeDly", "OSSchedLock"})}

\* A mutex is deleted while a task waits for it, and created again.
MCRecreateApp == {App({A, B}, {"OSMutex", "OSTimeDly"})}
=============================================================================
