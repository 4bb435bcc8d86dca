-------------------------- MODULE UcosStoresProofs -------------------------
(***************************************************************************)
(* What semaphores, mailboxes, queues and mutexes of UcosServices hold,    *)
(* for any values of the constants: each event control block has what its  *)
(* type says and each queue a ring buffer whose offsets and count agree.   *)
(* From it, the types of all variables, that no task waits for event flags *)
(* that are as it wants them, and that the owner of a mutex is above all   *)
(* tasks that wait for it.                                                 *)
(***************************************************************************)
EXTENDS UcosServicesProofs

-----------------------------------------------------------------------------
(* Event control blocks by their types *)

ECB(type, cnts, ptrs) == [type : {type}, cnt : cnts, ptr : ptrs]

FreeECBs == ECB("UNUSED", {0}, {NULL})
SemECBs == ECB("SEM", 0..SemMax, {NULL})
MboxECBs == ECB("MBOX", {0}, Msgs \cup {NULL})
QECBs == ECB("Q", {0}, Queues)
MutexECBs == ECB("MUTEX", 0..MaxCnt, Tasks \cup {NULL})

ECBs == FreeECBs \cup SemECBs \cup MboxECBs \cup QECBs \cup MutexECBs

LEMMA EcbFields ==
  ASSUME NEW m \in ECBs
  PROVE  /\ DOMAIN m = {"type", "cnt", "ptr"}
         /\ m.type \in {"UNUSED", "SEM", "MBOX", "Q", "MUTEX"}
         /\ m.type = "UNUSED" => m = UnusedECB
         /\ m.type = "SEM" => m \in SemECBs
         /\ m.type = "MBOX" => m \in MboxECBs
         /\ m.type = "Q" => m \in QECBs
         /\ m.type = "MUTEX" => m \in MutexECBs
BY DEF ECBs, FreeECBs, SemECBs, MboxECBs, QECBs, MutexECBs, ECB, UnusedECB

LEMMA EcbTyped ==
  ASSUME NEW m \in ECBs
  PROVE  m \in OS_EVENT
<1>1. 0..SemMax \subseteq 0..MaxCnt /\ 0 \in 0..MaxCnt
  <2>1. MaxCnt \in Nat
    BY DEF MaxCnt
  <2> QED
    BY <2>1, EventsAssumption
<1>2. CASE m \in FreeECBs
  BY <1>1, <1>2 DEF FreeECBs, ECB, OS_EVENT
<1>3. CASE m \in SemECBs
  BY <1>1, <1>3 DEF SemECBs, ECB, OS_EVENT
<1>4. CASE m \in MboxECBs
  BY <1>1, <1>4 DEF MboxECBs, ECB, OS_EVENT
<1>5. CASE m \in QECBs
  BY <1>1, <1>5 DEF QECBs, ECB, OS_EVENT
<1>6. CASE m \in MutexECBs
  BY <1>6 DEF MutexECBs, ECB, OS_EVENT
<1> QED
  BY <1>2, <1>3, <1>4, <1>5, <1>6 DEF ECBs

-----------------------------------------------------------------------------
(* The ring buffer of a queue *)

\* A slot of the ring, counted from another one.
Wrapped(x) == IF x < QSize THEN x ELSE x - QSize

RingOK(q) == q.in = Wrapped(q.out + q.entries)

Rings == {q \in OS_Q : RingOK(q)}

LEMMA RingFields ==
  ASSUME NEW q \in Rings
  PROVE  /\ QSize \in Nat /\ QSize # 0 /\ RingOK(q)
         /\ q.in \in 0..(QSize - 1) /\ q.out \in 0..(QSize - 1) /\ q.entries \in 0..QSize
         /\ q.slots \in [0..(QSize - 1) -> Msgs \cup {NULL}]
         /\ q = [slots |-> q.slots, in |-> q.in, out |-> q.out, entries |-> q.entries]
BY EventsAssumption DEF Rings, OS_Q

\* A queue is a ring if its parts are.
LEMMA IsRing ==
  ASSUME NEW slots \in [0..(QSize - 1) -> Msgs \cup {NULL}], NEW in \in 0..(QSize - 1),
         NEW out \in 0..(QSize - 1), NEW entries \in 0..QSize, in = Wrapped(out + entries)
  PROVE  [slots |-> slots, in |-> in, out |-> out, entries |-> entries] \in Rings
BY DEF Rings, OS_Q, RingOK

LEMMA EmptyRing ==
  ASSUME NEW slots \in [0..(QSize - 1) -> Msgs \cup {NULL}]
  PROVE  [slots |-> slots, in |-> 0, out |-> 0, entries |-> 0] \in Rings
<1>1. 0 \in 0..(QSize - 1) /\ 0 \in 0..QSize /\ 0 = Wrapped(0 + 0)
  BY EventsAssumption DEF Wrapped
<1> QED
  BY <1>1, IsRing

\* The first message leaves the ring, one enters it at either end, and all do.
LEMMA RingTaken ==
  ASSUME NEW q \in Rings, q.entries > 0
  PROVE  /\ [q EXCEPT !.out = NextSlot(@), !.entries = @ - 1] \in Rings
         /\ [q EXCEPT !.out = NextSlot(@), !.entries = @ - 1] =
              [slots |-> q.slots, in |-> q.in, out |-> NextSlot(q.out), entries |-> q.entries - 1]
<1>1. /\ QSize \in Nat /\ QSize # 0 /\ q.in = Wrapped(q.out + q.entries)
      /\ q.in \in 0..(QSize - 1) /\ q.out \in 0..(QSize - 1) /\ q.entries \in 0..QSize
      /\ q.slots \in [0..(QSize - 1) -> Msgs \cup {NULL}]
  BY RingFields DEF RingOK
<1>2. /\ NextSlot(q.out) \in 0..(QSize - 1) /\ q.entries - 1 \in 0..QSize
      /\ q.in = Wrapped(NextSlot(q.out) + (q.entries - 1))
  BY <1>1 DEF NextSlot, Wrapped
<1>3. [q EXCEPT !.out = NextSlot(@), !.entries = @ - 1] =
        [slots |-> q.slots, in |-> q.in, out |-> NextSlot(q.out), entries |-> q.entries - 1]
  <2> DEFINE r == [q EXCEPT !.out = NextSlot(@)]
  <2>1. /\ r = [slots |-> q.slots, in |-> q.in, out |-> NextSlot(q.out), entries |-> q.entries]
        /\ [q EXCEPT !.out = NextSlot(@), !.entries = @ - 1] = [r EXCEPT !.entries = @ - 1]
    BY RingFields
  <2> HIDE DEF r
  <2> QED
    BY <2>1
<1>4. [slots |-> q.slots, in |-> q.in, out |-> NextSlot(q.out), entries |-> q.entries - 1] \in Rings
  BY <1>1, <1>2, IsRing
<1> QED
  BY <1>3, <1>4

Slots(q, i, msg) == [q.slots EXCEPT ![i] = msg]

LEMMA RingPosted ==
  ASSUME NEW q \in Rings, q.entries < QSize, NEW msg \in Msgs \cup {NULL}, NEW front \in BOOLEAN
  PROVE  /\ Enqueue(q, msg, front) \in Rings
         /\ Enqueue(q, msg, front) =
              IF front
              THEN [slots |-> Slots(q, PrevSlot(q.out), msg), in |-> q.in,
                    out |-> PrevSlot(q.out), entries |-> q.entries + 1]
              ELSE [slots |-> Slots(q, q.in, msg), in |-> NextSlot(q.in),
                    out |-> q.out, entries |-> q.entries + 1]
<1>1. /\ QSize \in Nat /\ QSize # 0 /\ q.in = Wrapped(q.out + q.entries)
      /\ q.in \in 0..(QSize - 1) /\ q.out \in 0..(QSize - 1) /\ q.entries \in 0..QSize
      /\ q.slots \in [0..(QSize - 1) -> Msgs \cup {NULL}]
      /\ q = [slots |-> q.slots, in |-> q.in, out |-> q.out, entries |-> q.entries]
  BY RingFields DEF RingOK
<1>2. \A i \in 0..(QSize - 1) : Slots(q, i, msg) \in [0..(QSize - 1) -> Msgs \cup {NULL}]
  BY <1>1 DEF Slots
<1>3. CASE front
  <2>1. /\ PrevSlot(q.out) \in 0..(QSize - 1) /\ q.entries + 1 \in 0..QSize
        /\ q.in = Wrapped(PrevSlot(q.out) + (q.entries + 1))
    BY <1>1 DEF PrevSlot, Wrapped
  <2>2. Enqueue(q, msg, front) =
          [slots |-> Slots(q, PrevSlot(q.out), msg), in |-> q.in,
           out |-> PrevSlot(q.out), entries |-> q.entries + 1]
    BY <1>1, <1>3 DEF Enqueue, Slots
  <2>3. Slots(q, PrevSlot(q.out), msg) \in [0..(QSize - 1) -> Msgs \cup {NULL}]
    BY <1>2, <2>1
  <2>4. [slots |-> Slots(q, PrevSlot(q.out), msg), in |-> q.in,
         out |-> PrevSlot(q.out), entries |-> q.entries + 1] \in Rings
    BY <1>1, <2>1, <2>3, IsRing
  <2> QED
    BY <1>3, <2>2, <2>4
<1>4. CASE ~front
  <2>1. /\ NextSlot(q.in) \in 0..(QSize - 1) /\ q.entries + 1 \in 0..QSize
        /\ NextSlot(q.in) = Wrapped(q.out + (q.entries + 1))
    BY <1>1 DEF NextSlot, Wrapped
  <2>2. Enqueue(q, msg, front) =
          [slots |-> Slots(q, q.in, msg), in |-> NextSlot(q.in),
           out |-> q.out, entries |-> q.entries + 1]
    BY <1>1, <1>4 DEF Enqueue, Slots
  <2> QED
    BY <1>1, <1>2, <1>4, <2>1, <2>2, IsRing
<1> QED
  BY <1>3, <1>4

LEMMA RingFlushed ==
  ASSUME NEW q \in Rings
  PROVE  /\ [q EXCEPT !.in = 0, !.out = 0, !.entries = 0] \in Rings
         /\ [q EXCEPT !.in = 0, !.out = 0, !.entries = 0] =
              [slots |-> q.slots, in |-> 0, out |-> 0, entries |-> 0]
<1>1. q.slots \in [0..(QSize - 1) -> Msgs \cup {NULL}]
  BY RingFields
<1>2. [q EXCEPT !.in = 0, !.out = 0, !.entries = 0] =
        [slots |-> q.slots, in |-> 0, out |-> 0, entries |-> 0]
  <2> DEFINE r1 == [q EXCEPT !.in = 0]
             r2 == [r1 EXCEPT !.out = 0]
             r3 == [r2 EXCEPT !.entries = 0]
  <2>1. [q EXCEPT !.in = 0, !.out = 0, !.entries = 0] = r3
    OBVIOUS
  <2>2. r1 = [slots |-> q.slots, in |-> 0, out |-> q.out, entries |-> q.entries]
    BY RingFields
  <2> HIDE DEF r1
  <2>3. r2 = [slots |-> q.slots, in |-> 0, out |-> 0, entries |-> q.entries]
    BY <2>2
  <2> HIDE DEF r2
  <2>4. r3 = [slots |-> q.slots, in |-> 0, out |-> 0, entries |-> 0]
    BY <2>3
  <2> HIDE DEF r3
  <2> QED
    BY <2>1, <2>4
<1> QED
  BY <1>1, <1>2, EmptyRing

-----------------------------------------------------------------------------
(* What is in the event control blocks and in the queues *)

StoresInv ==
  /\ calls \in {app.calls : app \in Applications}
  /\ ecb \in [Events -> ECBs]
  /\ OSQTbl \in [Queues -> Rings]

LEMMA EmptyQIsRing == EmptyQ \in Rings
<1> DEFINE none == [i \in 0..(QSize - 1) |-> NULL]
<1>1. /\ none \in [0..(QSize - 1) -> Msgs \cup {NULL}]
      /\ EmptyQ = [slots |-> none, in |-> 0, out |-> 0, entries |-> 0]
  BY DEF EmptyQ
<1> HIDE DEF none
<1> QED
  BY <1>1, EmptyRing

LEMMA StoresInitial ==
  ASSUME Init
  PROVE  StoresInv
<1>1. EventsInit /\ TasksInit
  BY DEF Init
<1>2. calls \in {app.calls : app \in Applications}
  BY <1>1 DEF TasksInit
<1>3. UnusedECB \in ECBs
  BY DEF UnusedECB, ECBs, FreeECBs, ECB
<1>4. EmptyQ \in Rings
  BY EmptyQIsRing
<1> QED
  BY <1>1, <1>2, <1>3, <1>4 DEF StoresInv, EventsInit

LEMMA OneEcb ==
  ASSUME StoresInv, NEW e \in Events, NEW m \in ECBs,
         calls' = calls, ecb' = [ecb EXCEPT ![e] = m], OSQTbl' = OSQTbl
  PROVE  StoresInv'
BY DEF StoresInv

LEMMA OneRing ==
  ASSUME StoresInv, NEW q \in Queues, NEW r \in Rings,
         calls' = calls, ecb' = ecb, OSQTbl' = [OSQTbl EXCEPT ![q] = r]
  PROVE  StoresInv'
BY DEF StoresInv

LEMMA SameStores ==
  ASSUME StoresInv, calls' = calls, ecb' = ecb, OSQTbl' = OSQTbl
  PROVE  StoresInv'
BY DEF StoresInv

LEMMA QueueRing ==
  ASSUME StoresInv, NEW e \in Events, ecb[e].type = "Q"
  PROVE  ecb[e].ptr \in Queues /\ QueueOf(e) \in Rings /\ QueueOf(e) = OSQTbl[ecb[e].ptr]
<1>1. ecb[e] \in ECBs
  BY DEF StoresInv
<1>2. ecb[e] \in QECBs
  BY <1>1, EcbFields
<1>3. ecb[e].ptr \in Queues
  BY <1>2 DEF QECBs, ECB
<1> QED
  BY <1>3 DEF QueueOf, StoresInv

LEMMA TakeStores ==
  ASSUME StoresInv, calls' = calls, NEW S \in SUBSET Events,
         \A e \in S : ecb[e].type \in PostTypes /\ Available(e), Take(S)
  PROVE  StoresInv'
<1>1. ASSUME NEW e \in Events
      PROVE  ecb'[e] \in ECBs
  <2>1. ecb[e] \in ECBs
    BY DEF StoresInv
  <2>2. ecb'[e] = IF e \notin S THEN ecb[e]
                  ELSE IF ecb[e].type = "SEM" THEN [ecb[e] EXCEPT !.cnt = @ - 1]
                  ELSE IF ecb[e].type = "MBOX" THEN [ecb[e] EXCEPT !.ptr = NULL] ELSE ecb[e]
    BY Zenon DEF Take
  <2>3. CASE e \in S /\ ecb[e].type = "SEM"
    <3>1. ecb[e] \in SemECBs /\ ecb[e].cnt > 0
      BY <2>1, <2>3, EcbFields DEF Available
    <3>2. ecb[e].cnt - 1 \in 0..SemMax
      BY <3>1, EventsAssumption DEF SemECBs, ECB
    <3>3. [ecb[e] EXCEPT !.cnt = @ - 1] \in SemECBs
      BY <3>1, <3>2 DEF SemECBs, ECB
    <3> QED
      BY <2>2, <2>3, <3>3 DEF ECBs
  <2>4. CASE e \in S /\ ecb[e].type = "MBOX"
    <3>1. ecb[e] \in MboxECBs
      BY <2>1, <2>4, EcbFields
    <3>2. [ecb[e] EXCEPT !.ptr = NULL] \in MboxECBs
      BY <3>1 DEF MboxECBs, ECB
    <3> QED
      BY <2>2, <2>4, <3>2 DEF ECBs
  <2> QED
    BY <2>1, <2>2, <2>3, <2>4
<1>2. ASSUME NEW q \in Queues
      PROVE  OSQTbl'[q] \in Rings
  <2>1. OSQTbl[q] \in Rings
    BY DEF StoresInv
  <2>2. OSQTbl'[q] = IF \E e \in S : ecb[e].type = "Q" /\ ecb[e].ptr = q
                     THEN [OSQTbl[q] EXCEPT !.out = NextSlot(@), !.entries = @ - 1] ELSE OSQTbl[q]
    BY Zenon DEF Take
  <2>3. ASSUME NEW e \in S, ecb[e].type = "Q", ecb[e].ptr = q
        PROVE  OSQTbl[q].entries > 0
    BY <2>3 DEF Available, QueueOf
  <2> QED
    BY <2>1, <2>2, <2>3, RingTaken
<1>3. DOMAIN ecb' = Events /\ DOMAIN OSQTbl' = Queues
  BY Zenon DEF Take
<1>4. ecb' = [e \in Events |-> ecb'[e]] /\ OSQTbl' = [q \in Queues |-> OSQTbl'[q]]
  BY Zenon DEF Take
<1> QED
  BY <1>1, <1>2, <1>4 DEF StoresInv

-----------------------------------------------------------------------------
(* Each service *)

LEMMA CreateEventStores ==
  ASSUME StoresInv, PoolsInv, NEW type, NEW cnt, NEW ptr, CreateEvent(type, cnt, ptr),
         [type |-> type, cnt |-> cnt, ptr |-> ptr] \in ECBs, OSQTbl' \in [Queues -> Rings]
  PROVE  StoresInv'
<1> DEFINE e == Head(OSEventFreeList)
           m == [type |-> type, cnt |-> cnt, ptr |-> ptr]
<1>1. e \in Events /\ ecb' = [ecb EXCEPT ![e] = m] /\ calls' = calls
  BY NextEvent DEF CreateEvent
<1> HIDE DEF e
<1> QED
  BY <1>1 DEF StoresInv

LEMMA DeleteEventStores ==
  ASSUME StoresInv, NEW e \in Events, NEW always, DeleteEvent(e, always), OSQTbl' = OSQTbl
  PROVE  StoresInv'
<1>1. calls' = calls /\ ecb' = [ecb EXCEPT ![e] = UnusedECB]
  BY DEF DeleteEvent, ReadyWaiters
<1>2. UnusedECB \in ECBs
  BY DEF UnusedECB, ECBs, FreeECBs, ECB
<1> QED
  BY <1>1, <1>2, OneEcb

LEMMA TakeNowStores ==
  ASSUME StoresInv, NEW S \in SUBSET Events,
         \A e \in S : ecb[e].type \in PostTypes /\ Available(e), TakeNow(S)
  PROVE  StoresInv'
BY TakeStores DEF TakeNow

LEMMA AcceptStores ==
  ASSUME StoresInv, NEW name, NEW e \in Events, NEW type \in PostTypes, Accept(name, e, type)
  PROVE  StoresInv'
<1>1. ecb[e].type \in PostTypes /\ Available(e) /\ Take({e}) /\ calls' = calls
  BY DEF Accept, TakeNow, taskVars
<1> QED
  BY <1>1, TakeStores

LEMMA PendOnStores ==
  ASSUME StoresInv, NEW e \in Events, ecb[e].type \in PostTypes, NEW svc, NEW timeout,
         PendOn(svc, e, timeout)
  PROVE  StoresInv'
<1>1. CASE Available(e) /\ TakeNow({e})
  BY <1>1, TakeNowStores
<1>2. CASE ~(Available(e) /\ TakeNow({e}))
  BY <1>2, SameStores DEF PendOn, eventVars
<1> QED
  BY <1>1, <1>2

LEMMA PostStores ==
  ASSUME StoresInv, NEW e, NEW msg, NEW all, NEW sched, PostToWaiters(e, msg, all, sched)
  PROVE  StoresInv'
BY SameStores DEF PostToWaiters, ReadyWaiters, eventVars

LEMMA AbortStores ==
  ASSUME StoresInv, NEW e, NEW all, AbortWaiters(e, all)
  PROVE  StoresInv'
BY SameStores DEF AbortWaiters, ReadyWaiters, eventVars

LEMMA SemStores ==
  ASSUME StoresInv, NEW e \in Events, SemCall(e)
  PROVE  StoresInv'
<1>1. ASSUME NEW timeout \in 0..MaxDly, OSSemPend(e, timeout)
      PROVE  StoresInv'
  BY <1>1, PendOnStores DEF OSSemPend, CanPend, PostTypes
<1>2. CASE OSSemAccept(e)
  BY <1>2, AcceptStores DEF OSSemAccept, PostTypes
<1>3. ASSUME ecb[e].type = "SEM", NEW n \in 0..SemMax, ecb' = [ecb EXCEPT ![e].cnt = n],
             calls' = calls, OSQTbl' = OSQTbl
      PROVE  StoresInv'
  <2>1. ecb[e] \in ECBs
    BY DEF StoresInv
  <2>2. ecb[e] \in SemECBs
    BY <1>3, <2>1, EcbFields
  <2>3. [ecb[e] EXCEPT !.cnt = n] \in SemECBs
    BY <2>2 DEF SemECBs, ECB
  <2>4. ecb' = [ecb EXCEPT ![e] = [ecb[e] EXCEPT !.cnt = n]]
    BY <1>3
  <2> QED
    BY <1>3, <2>3, <2>4, OneEcb DEF ECBs
<1>4. CASE OSSemPost(e)
  <2>1. CASE PostToWaiters(e, NULL, FALSE, TRUE)
    BY <2>1, PostStores
  <2>2. CASE /\ OSEventTbl[e] = {} /\ ecb[e].cnt < SemMax
             /\ ecb' = [ecb EXCEPT ![e].cnt = @ + 1]
             /\ UNCHANGED <<taskVars, OSEventFreeList, OSQTbl, OSQFreeList>>
    <3> DEFINE n == ecb[e].cnt + 1
    <3>1. ecb[e].type = "SEM" /\ ecb[e] \in ECBs
      BY <1>4 DEF OSSemPost, StoresInv
    <3>2. ecb[e].cnt \in 0..SemMax
      BY <3>1, EcbFields DEF SemECBs, ECB
    <3>3. n \in 0..SemMax
      BY <2>2, <3>2, EventsAssumption
    <3>4. ecb' = [ecb EXCEPT ![e].cnt = n]
      BY <2>2
    <3> HIDE DEF n
    <3> QED
      BY <1>3, <2>2, <3>1, <3>3, <3>4 DEF taskVars
  <2> QED
    BY <1>4, <2>1, <2>2 DEF OSSemPost
<1>5. ASSUME NEW cnt \in 0..SemMax, OSSemSet(e, cnt)
      PROVE  StoresInv'
  BY <1>3, <1>5 DEF OSSemSet, taskVars
<1>6. ASSUME NEW all \in BOOLEAN, OSSemPendAbort(e, all)
      PROVE  StoresInv'
  BY <1>6, AbortStores DEF OSSemPendAbort
<1>7. ASSUME NEW all \in BOOLEAN, OSSemDel(e, all)
      PROVE  StoresInv'
  BY <1>7, DeleteEventStores DEF OSSemDel
<1> QED
  BY <1>1, <1>2, <1>4, <1>5, <1>6, <1>7 DEF SemCall

LEMMA MboxPostStores ==
  ASSUME StoresInv, NEW e \in Events, NEW msg \in Msgs, NEW all, NEW sched,
         OSMboxPostOpt(e, msg, all, sched)
  PROVE  StoresInv'
<1>1. CASE PostToWaiters(e, msg, all, sched)
  BY <1>1, PostStores
<1>2. CASE ~PostToWaiters(e, msg, all, sched)
  <2>1. /\ ecb[e].type = "MBOX" /\ ecb' = [ecb EXCEPT ![e].ptr = msg]
        /\ calls' = calls /\ OSQTbl' = OSQTbl
    BY <1>2 DEF OSMboxPostOpt, taskVars
  <2>2. ecb[e] \in ECBs
    BY DEF StoresInv
  <2>3. ecb[e] \in MboxECBs
    BY <2>1, <2>2, EcbFields
  <2>4. [ecb[e] EXCEPT !.ptr = msg] \in MboxECBs
    BY <2>3 DEF MboxECBs, ECB
  <2>5. ecb' = [ecb EXCEPT ![e] = [ecb[e] EXCEPT !.ptr = msg]]
    BY <2>1
  <2> QED
    BY <2>1, <2>4, <2>5, OneEcb DEF ECBs
<1> QED
  BY <1>1, <1>2

LEMMA MboxStores ==
  ASSUME StoresInv, NEW e \in Events, MboxCall(e)
  PROVE  StoresInv'
<1>1. ASSUME NEW timeout \in 0..MaxDly, OSMboxPend(e, timeout)
      PROVE  StoresInv'
  BY <1>1, PendOnStores DEF OSMboxPend, CanPend, PostTypes
<1>2. CASE OSMboxAccept(e)
  BY <1>2, AcceptStores DEF OSMboxAccept, PostTypes
<1>3. ASSUME NEW msg \in Msgs, OSMboxPost(e, msg)
      PROVE  StoresInv'
  BY <1>3, MboxPostStores DEF OSMboxPost
<1>4. ASSUME NEW msg \in Msgs, NEW all \in BOOLEAN, NEW sched \in BOOLEAN,
             OSMboxPostOpt(e, msg, all, sched)
      PROVE  StoresInv'
  BY <1>4, MboxPostStores
<1>5. ASSUME NEW all \in BOOLEAN, OSMboxPendAbort(e, all)
      PROVE  StoresInv'
  BY <1>5, AbortStores DEF OSMboxPendAbort
<1>6. ASSUME NEW all \in BOOLEAN, OSMboxDel(e, all)
      PROVE  StoresInv'
  BY <1>6, DeleteEventStores DEF OSMboxDel
<1> QED
  BY <1>1, <1>2, <1>3, <1>4, <1>5, <1>6 DEF MboxCall

LEMMA QPostStores ==
  ASSUME StoresInv, NEW e \in Events, NEW msg \in Msgs \cup {NULL}, NEW front \in BOOLEAN, NEW all,
         NEW sched,
         OSQPostOpt(e, msg, front, all, sched)
  PROVE  StoresInv'
<1>1. CASE PostToWaiters(e, msg, all, sched)
  BY <1>1, PostStores
<1>2. CASE ~PostToWaiters(e, msg, all, sched)
  <2>1. /\ ecb[e].type = "Q" /\ QueueOf(e).entries < QSize
        /\ OSQTbl' = [OSQTbl EXCEPT ![ecb[e].ptr] = Enqueue(@, msg, front)]
        /\ calls' = calls /\ ecb' = ecb
    BY <1>2 DEF OSQPostOpt, taskVars
  <2>2. ecb[e].ptr \in Queues /\ QueueOf(e) \in Rings /\ QueueOf(e) = OSQTbl[ecb[e].ptr]
    BY <2>1, QueueRing
  <2>3. Enqueue(QueueOf(e), msg, front) \in Rings
    BY <2>1, <2>2, RingPosted
  <2>4. OSQTbl' = [OSQTbl EXCEPT ![ecb[e].ptr] = Enqueue(QueueOf(e), msg, front)]
    BY <2>1, <2>2
  <2> QED
    BY <2>1, <2>2, <2>3, <2>4, OneRing
<1> QED
  BY <1>1, <1>2

LEMMA QStores ==
  ASSUME StoresInv, NEW e \in Events, QCall(e)
  PROVE  StoresInv'
<1>1. ASSUME NEW timeout \in 0..MaxDly, OSQPend(e, timeout)
      PROVE  StoresInv'
  BY <1>1, PendOnStores DEF OSQPend, CanPend, PostTypes
<1>2. CASE OSQAccept(e)
  BY <1>2, AcceptStores DEF OSQAccept, PostTypes
<1>3. CASE OSQFlush(e)
  <2> DEFINE r == [QueueOf(e) EXCEPT !.in = 0, !.out = 0, !.entries = 0]
  <2>1. /\ ecb[e].type = "Q" /\ calls' = calls /\ ecb' = ecb
        /\ OSQTbl' = [OSQTbl EXCEPT ![ecb[e].ptr] = [@ EXCEPT !.in = 0, !.out = 0, !.entries = 0]]
    BY <1>3 DEF OSQFlush, taskVars
  <2>2. ecb[e].ptr \in Queues /\ QueueOf(e) \in Rings /\ QueueOf(e) = OSQTbl[ecb[e].ptr]
    BY <2>1, QueueRing
  <2>3. r \in Rings
    BY <2>2, RingFlushed
  <2>4. OSQTbl' = [OSQTbl EXCEPT ![ecb[e].ptr] = r]
    BY <2>1, <2>2
  <2> HIDE DEF r
  <2> QED
    BY <2>1, <2>2, <2>3, <2>4, OneRing
<1>4. ASSUME NEW msg \in Msgs \cup {NULL}, OSQPost(e, msg) \/ OSQPostFront(e, msg)
      PROVE  StoresInv'
  BY <1>4, QPostStores DEF OSQPost, OSQPostFront
<1>5. ASSUME NEW msg \in Msgs \cup {NULL}, NEW front \in BOOLEAN, NEW all \in BOOLEAN,
             NEW sched \in BOOLEAN,
             OSQPostOpt(e, msg, front, all, sched)
      PROVE  StoresInv'
  BY <1>5, QPostStores
<1>6. ASSUME NEW all \in BOOLEAN, OSQPendAbort(e, all)
      PROVE  StoresInv'
  BY <1>6, AbortStores DEF OSQPendAbort
<1>7. ASSUME NEW all \in BOOLEAN, OSQDel(e, all)
      PROVE  StoresInv'
  BY <1>7, DeleteEventStores DEF OSQDel
<1> QED
  BY <1>1, <1>2, <1>3, <1>4, <1>5, <1>6, <1>7 DEF QCall

LEMMA EventsStores ==
  ASSUME StoresInv, PoolsInv, EventsNext
  PROVE  StoresInv'
<1>1. ASSUME NEW cnt \in 0..SemMax, OSSemCreate(cnt)
      PROVE  StoresInv'
  <2>1. [type |-> "SEM", cnt |-> cnt, ptr |-> NULL] \in ECBs
    BY DEF ECBs, SemECBs, ECB
  <2> QED
    BY <1>1, <2>1, CreateEventStores DEF OSSemCreate, StoresInv
<1>2. ASSUME NEW msg \in Msgs \cup {NULL}, OSMboxCreate(msg)
      PROVE  StoresInv'
  <2>1. [type |-> "MBOX", cnt |-> 0, ptr |-> msg] \in ECBs
    BY DEF ECBs, MboxECBs, ECB
  <2> QED
    BY <1>2, <2>1, CreateEventStores DEF OSMboxCreate, StoresInv
<1>3. CASE OSQCreate
  <2> DEFINE q == Head(OSQFreeList)
  <2>1. q \in Queues
    BY <1>3, TailLists DEF OSQCreate, PoolsInv
  <2>2. OSQTbl' = [OSQTbl EXCEPT ![q] = EmptyQ] /\ CreateEvent("Q", 0, q)
    BY <1>3 DEF OSQCreate
  <2> HIDE DEF q
  <2>3. [type |-> "Q", cnt |-> 0, ptr |-> q] \in ECBs
    BY <2>1 DEF ECBs, QECBs, ECB
  <2>4. OSQTbl' \in [Queues -> Rings]
    BY <2>1, <2>2, EmptyQIsRing DEF StoresInv
  <2> QED
    BY <2>2, <2>3, <2>4, CreateEventStores
<1>4. ASSUME NEW e \in Events, SemCall(e) \/ MboxCall(e) \/ QCall(e)
      PROVE  StoresInv'
  BY <1>4, SemStores, MboxStores, QStores
<1>5. ASSUME NEW S \in (SUBSET Events) \ {{}}, NEW timeout \in 0..MaxDly, OSEventPendMulti(S, timeout)
      PROVE  StoresInv'
  <2> DEFINE ready == {e \in S : Available(e)}
  <2>1. ready \in SUBSET Events /\ \A e \in ready : ecb[e].type \in PostTypes /\ Available(e)
    BY <1>5 DEF OSEventPendMulti, PostTypes
  <2>2. TakeNow(ready) \/ (calls' = calls /\ UNCHANGED eventVars)
    BY <1>5 DEF OSEventPendMulti
  <2> HIDE DEF ready
  <2>3. CASE TakeNow(ready)
    BY <2>1, <2>3, TakeNowStores
  <2> QED
    BY <2>2, <2>3, SameStores DEF eventVars
<1> QED
  BY <1>1, <1>2, <1>3, <1>4, <1>5 DEF EventsNext

\* A mutex with a ceiling and the priority of an owner, or of none.
LEMMA MutexStores ==
  ASSUME StoresInv, NEW e \in Events, NEW c \in 0..255, NEW p \in 0..255, NEW t \in Tasks \cup {NULL},
         calls' = calls, OSQTbl' = OSQTbl, MutexSet(e, c, p, t, ecb, ecb')
  PROVE  StoresInv'
<1> DEFINE n == MutexCnt(c, p)
<1>1. n \in 0..MaxCnt
  BY CntParts, Zenon
<1>2. \/ ecb' = [ecb EXCEPT ![e] = [type |-> "MUTEX", cnt |-> n, ptr |-> t]]
      \/ ecb' = [ecb EXCEPT ![e].cnt = n, ![e].ptr = t] /\ ecb[e].type = "MUTEX"
  BY DEF MutexSet
<1> HIDE DEF n
<1>3. DOMAIN ecb = Events /\ ecb[e] \in ECBs
  BY DEF StoresInv
<1> DEFINE m == [type |-> "MUTEX", cnt |-> n, ptr |-> t]
<1>4. m \in ECBs
  BY <1>1 DEF ECBs, MutexECBs, ECB
<1>5. CASE ecb' = [ecb EXCEPT ![e].cnt = n, ![e].ptr = t] /\ ecb[e].type = "MUTEX"
  <2>1. ecb[e] \in MutexECBs
    BY <1>3, <1>5, EcbFields
  <2> DEFINE m1 == [ecb[e] EXCEPT !.cnt = n]
             m2 == [m1 EXCEPT !.ptr = t]
  <2>2. ecb' = [ecb EXCEPT ![e] = m2]
    BY <1>3, <1>5
  <2>3. m1 = [type |-> "MUTEX", cnt |-> n, ptr |-> ecb[e].ptr]
    BY <2>1 DEF MutexECBs, ECB
  <2> HIDE DEF m1
  <2>4. m2 = m
    BY <2>3
  <2> QED
    BY <1>4, <2>2, <2>4, OneEcb
<1> QED
  BY <1>2, <1>4, <1>5, OneEcb

\* What KernelInv says of a mutex and of the tasks that get it.
LEMMA MutexParts ==
  ASSUME KernelInv, NEW e \in Events, IsMutex(e)
  PROVE  /\ ecb[e].type = "MUTEX" /\ PCP(e) \in 0..255
         /\ \A t \in LiveSet(pc) : tcb[t].prio \in 0..255 /\ t \in Tasks
<1>1. e \in Mutexes(ecb) /\ PCP(e) = Ceil(ecb[e]) /\ ecb[e].type = "MUTEX"
  BY OwnersAre DEF IsMutex
<1>2. Ceil(ecb[e]) \in PCPs
  BY <1>1 DEF KernelInv, OwnersOK
<1>3. PCP(e) \in 0..255
  BY <1>1, <1>2, CeilIsPrio
<1>4. Prios \subseteq 0..255
  BY TasksAssumption
<1> QED
  BY <1>1, <1>3, <1>4 DEF KernelInv, Data, LiveSet

LEMMA TakeMutexStores ==
  ASSUME KernelInv, StoresInv, NEW e \in Events, IsMutex(e), TaskCall("OSMutex"), TakeMutex(e)
  PROVE  StoresInv'
<1>1. OSTCBCur \in LiveSet(pc) /\ OSTCBCur \in Tasks
  BY CurrentRuns DEF TaskCall
<1>2. /\ calls' = calls /\ OSQTbl' = OSQTbl
      /\ ecb' = [ecb EXCEPT ![e].cnt = MutexCnt(PCP(e), tcb[OSTCBCur].prio), ![e].ptr = OSTCBCur]
  BY DEF TakeMutex, GiveMutex
<1>3. /\ PCP(e) \in 0..255 /\ tcb[OSTCBCur].prio \in 0..255 /\ ecb[e].type = "MUTEX"
  BY <1>1, MutexParts
<1>4. MutexSet(e, PCP(e), tcb[OSTCBCur].prio, OSTCBCur, ecb, ecb')
  BY <1>2, <1>3 DEF MutexSet
<1> QED
  BY <1>1, <1>2, <1>3, <1>4, MutexStores, Zenon

LEMMA MutexNextStores ==
  ASSUME KernelInv, PoolsInv, StoresInv, MutexNext
  PROVE  StoresInv'
<1>1. ASSUME NEW pcp \in PCPs, OSMutexCreate(pcp)
      PROVE  StoresInv'
  <2> DEFINE e == Head(OSEventFreeList)
  <2>1. e \in Events
    BY <1>1, NextEvent DEF OSMutexCreate
  <2>2. /\ ecb' = [ecb EXCEPT ![e] = [type |-> "MUTEX", cnt |-> MutexCnt(pcp, 255), ptr |-> NULL]]
        /\ calls' = calls /\ OSQTbl' = OSQTbl
    BY <1>1 DEF OSMutexCreate, OS_MUTEX_AVAILABLE
  <2> HIDE DEF e
  <2>3. MutexSet(e, pcp, 255, NULL, ecb, ecb')
    BY <2>2 DEF MutexSet
  <2>4. pcp \in 0..255 /\ 255 \in 0..255
    BY CeilIsPrio
  <2> QED
    BY <2>1, <2>2, <2>3, <2>4, MutexStores, Zenon
<1>2. ASSUME NEW e \in Events, OSMutexAccept(e)
      PROVE  StoresInv'
  BY <1>2, TakeMutexStores DEF OSMutexAccept
<1>3. ASSUME NEW e \in Events, OSMutexPost(e)
      PROVE  StoresInv'
  <2>1. IsMutex(e) /\ calls' = calls /\ OSQTbl' = OSQTbl
    BY <1>3 DEF OSMutexPost, LowerAndReady
  <2>2. PCP(e) \in 0..255 /\ ecb[e].type = "MUTEX" /\ 255 \in 0..255
    BY <2>1, MutexParts
  <2>3. CASE OSEventTbl[e] # {} /\ HandOver(e, HighestWaiter(e))
    <3> DEFINE w == HighestWaiter(e)
    <3>1. w \in WaitSet(tcb, pc, e)
      BY <2>3, WaitersOf
    <3>2. ecb' = [ecb EXCEPT ![e].cnt = MutexCnt(PCP(e), tcb[w].prio), ![e].ptr = w]
      BY <2>3 DEF HandOver, GiveMutex
    <3> HIDE DEF w
    <3>3. w \in LiveSet(pc)
      BY <3>1, SetsAreLive
    <3>4. w \in Tasks /\ tcb[w].prio \in 0..255
      BY <2>1, <3>3, MutexParts
    <3>5. MutexSet(e, PCP(e), tcb[w].prio, w, ecb, ecb')
      BY <2>2, <3>2 DEF MutexSet
    <3> QED
      BY <2>1, <2>2, <3>4, <3>5, MutexStores, Zenon
  <2>4. CASE ecb' = [ecb EXCEPT ![e].cnt = MutexCnt(PCP(e), OS_MUTEX_AVAILABLE), ![e].ptr = NULL]
    <3>1. MutexSet(e, PCP(e), 255, NULL, ecb, ecb')
      BY <2>2, <2>4 DEF MutexSet, OS_MUTEX_AVAILABLE
    <3> QED
      BY <2>1, <2>2, <3>1, MutexStores, Zenon
  <2> QED
    BY <1>3, <2>3, <2>4 DEF OSMutexPost
<1>4. ASSUME NEW e \in Events, NEW timeout \in 0..MaxDly, OSMutexPend(e, timeout)
      PROVE  StoresInv'
  <2>1. CASE TakeMutex(e)
    BY <1>4, <2>1, TakeMutexStores DEF OSMutexPend
  <2>2. CASE calls' = calls /\ UNCHANGED eventVars
    BY <2>2, SameStores DEF eventVars
  <2> QED
    BY <1>4, <2>1, <2>2 DEF OSMutexPend
<1>5. ASSUME NEW e \in Events, NEW always \in BOOLEAN, OSMutexDel(e, always)
      PROVE  StoresInv'
  <2>1. calls' = calls /\ OSQTbl' = OSQTbl /\ ecb' = [ecb EXCEPT ![e] = UnusedECB]
    BY <1>5 DEF OSMutexDel, LowerAndReady
  <2>2. UnusedECB \in ECBs
    BY DEF UnusedECB, ECBs, FreeECBs, ECB
  <2> QED
    BY <2>1, <2>2, OneEcb
<1> QED
  BY <1>1, <1>2, <1>3, <1>4, <1>5 DEF MutexNext

LEMMA FlagsKeep ==
  ASSUME FlagsNext
  PROVE  calls' = calls /\ OSEventTbl' = OSEventTbl
<1>1. ASSUME NEW flags, OSFlagCreate(flags)
      PROVE  calls' = calls /\ OSEventTbl' = OSEventTbl
  BY <1>1 DEF OSFlagCreate, taskVars
<1>2. ASSUME NEW g, NEW type, NEW wanted, NEW consume, OSFlagAccept(g, wanted, type, consume)
      PROVE  calls' = calls /\ OSEventTbl' = OSEventTbl
  BY <1>2 DEF OSFlagAccept, TakeFlags, taskVars
<1>3. ASSUME NEW g, NEW type, NEW wanted, NEW consume, NEW timeout,
             OSFlagPend(g, wanted, type, consume, timeout)
      PROVE  calls' = calls /\ OSEventTbl' = OSEventTbl
  BY <1>3 DEF OSFlagPend, TakeFlags, taskVars
<1>4. CASE FlagPendReturns
  BY <1>4 DEF FlagPendReturns
<1>5. ASSUME NEW g, NEW bits, NEW set, OSFlagPost(g, bits, set)
      PROVE  calls' = calls /\ OSEventTbl' = OSEventTbl
  BY <1>5, Zenon DEF OSFlagPost, OS_FlagTaskRdy, taskVars
<1>6. ASSUME NEW g, NEW always, OSFlagDel(g, always)
      PROVE  calls' = calls /\ OSEventTbl' = OSEventTbl
  BY <1>6, Zenon DEF OSFlagDel, OS_FlagTaskRdy, taskVars
<1> QED
  BY <1>1, <1>2, <1>3, <1>4, <1>5, <1>6 DEF FlagsNext

LEMMA StoresStep ==
  ASSUME KernelInv, PoolsInv, StoresInv, [Next]_vars
  PROVE  StoresInv'
<1>1. CASE TasksNext /\ UNCHANGED eventVars
  <2>1. CASE OSTimeTick \/ TaskStep \/ OSSchedLock \/ OSSchedUnlock
    BY <1>1, <2>1, SameStores DEF OSTimeTick, TaskStep, OSSchedLock, OSSchedUnlock, eventVars
  <2>2. ASSUME NEW ticks, OSTimeDly(ticks)
        PROVE  StoresInv'
    BY <1>1, <2>2, SameStores DEF OSTimeDly, eventVars
  <2>3. ASSUME NEW p, OSTimeDlyResume(p) \/ OSTaskSuspend(p) \/ OSTaskResume(p)
        PROVE  StoresInv'
    BY <1>1, <2>3, SameStores DEF OSTimeDlyResume, OSTaskSuspend, OSTaskResume, eventVars
  <2>4. ASSUME NEW p, NEW q, OSTaskChangePrio(p, q)
        PROVE  StoresInv'
    BY <1>1, <2>4, SameStores DEF OSTaskChangePrio, eventVars
  <2> QED
    BY <1>1, <2>1, <2>2, <2>3, <2>4 DEF TasksNext
<1>2. CASE EventsNext
  BY <1>2, EventsStores
<1>3. CASE MutexPendReturns
  BY <1>3, SameStores DEF MutexPendReturns, PendReturns, eventVars
<1>4. CASE MutexNext
  BY <1>4, MutexNextStores
<1>5. CASE FlagsNext /\ UNCHANGED eventVars
  BY <1>5, FlagsKeep, SameStores DEF eventVars
<1>6. CASE MemNext /\ UNCHANGED eventVars
  <2>1. calls' = calls
    BY <1>6 DEF MemNext, OSMemCreate, OSMemGet, OSMemPut, taskVars
  <2> QED
    BY <1>6, <2>1, SameStores DEF eventVars
<1>7. CASE \E p \in Prios : DeleteTask(p)
  BY <1>7, SameStores DEF DeleteTask, OSTaskDel, eventVars
<1>8. CASE \E t \in Tasks : CreateTask(t)
  BY <1>8, SameStores DEF CreateTask, OSTaskCreate, eventVars
<1>9. CASE UNCHANGED vars
  BY <1>9, SameStores DEF vars, taskVars, eventVars
<1> QED
  BY <1>1, <1>2, <1>3, <1>4, <1>5, <1>6, <1>7, <1>8, <1>9 DEF Next

-----------------------------------------------------------------------------
(* The wait lists of all events, and of nothing else *)

ListsInv == OSEventTbl = [e \in Events |-> OSEventTbl[e]]

LEMMA ListsSet ==
  ASSUME NEW F, OSEventTbl' = F, F = [e \in Events |-> F[e]]
  PROVE  ListsInv'
BY DEF ListsInv

LEMMA ListsKept ==
  ASSUME ListsInv, OSEventTbl' = OSEventTbl
  PROVE  ListsInv'
BY DEF ListsInv

LEMMA ListsCleared ==
  ASSUME ListsInv, NEW x, OSEventTbl' = [OSEventTbl EXCEPT ![x] = {}]
  PROVE  ListsInv'
BY DEF ListsInv

LEMMA ListsWithout ==
  ASSUME NEW W, NEW e, OSEventTbl' = WaitListsWithout(W, e)
  PROVE  ListsInv'
BY DEF ListsInv, WaitListsWithout

LEMMA ListsEntered ==
  ASSUME NEW tbl, NEW on, NEW p, OSEventTbl' = EnterWaitLists(tbl, on, p)
  PROVE  ListsInv'
BY DEF ListsInv, EnterWaitLists

LEMMA TasksLists ==
  ASSUME ListsInv, TasksNext
  PROVE  ListsInv' /\ calls' = calls
<1>1. CASE OSTimeTick \/ TaskStep \/ OSSchedLock \/ OSSchedUnlock
  BY <1>1, ListsKept DEF OSTimeTick, TaskStep, OSSchedLock, OSSchedUnlock
<1>2. ASSUME NEW ticks, OSTimeDly(ticks)
      PROVE  ListsInv' /\ calls' = calls
  BY <1>2, ListsKept DEF OSTimeDly
<1>3. ASSUME NEW p, OSTimeDlyResume(p) \/ OSTaskSuspend(p) \/ OSTaskResume(p)
      PROVE  ListsInv' /\ calls' = calls
  BY <1>3, ListsKept DEF OSTimeDlyResume, OSTaskSuspend, OSTaskResume
<1>4. ASSUME NEW p, NEW q, OSTaskChangePrio(p, q)
      PROVE  ListsInv' /\ calls' = calls
  BY <1>4 DEF OSTaskChangePrio, MoveInWaitLists, ListsInv
<1> QED
  BY <1>1, <1>2, <1>3, <1>4 DEF TasksNext

LEMMA PendOnLists ==
  ASSUME ListsInv, NEW svc, NEW e, NEW timeout, PendOn(svc, e, timeout)
  PROVE  ListsInv' /\ calls' = calls
BY ListsKept, ListsEntered DEF PendOn, TakeNow, OS_EventTaskWait

LEMMA PostLists ==
  ASSUME NEW e, NEW msg, NEW all, NEW sched, PostToWaiters(e, msg, all, sched)
  PROVE  ListsInv' /\ calls' = calls
<1>1. \E W : ReadyWaiters(W, e, msg, "OK")
  BY DEF PostToWaiters
<1> QED
  BY <1>1, ListsWithout DEF ReadyWaiters, OS_EventTaskRdy

LEMMA AbortLists ==
  ASSUME NEW e, NEW all, AbortWaiters(e, all)
  PROVE  ListsInv' /\ calls' = calls
<1>1. \E W : ReadyWaiters(W, e, NULL, "ABORT")
  BY DEF AbortWaiters
<1> QED
  BY <1>1, ListsWithout DEF ReadyWaiters, OS_EventTaskRdy

LEMMA DeleteLists ==
  ASSUME NEW e, NEW always, DeleteEvent(e, always)
  PROVE  ListsInv' /\ calls' = calls
BY ListsWithout DEF DeleteEvent, ReadyWaiters, OS_EventTaskRdy

LEMMA CallLists ==
  ASSUME ListsInv, NEW e \in Events, SemCall(e) \/ MboxCall(e) \/ QCall(e)
  PROVE  ListsInv' /\ calls' = calls
<1>1. ASSUME NEW timeout, OSSemPend(e, timeout) \/ OSMboxPend(e, timeout) \/ OSQPend(e, timeout)
      PROVE  ListsInv' /\ calls' = calls
  BY <1>1, PendOnLists DEF OSSemPend, OSMboxPend, OSQPend
<1>2. CASE OSSemAccept(e) \/ OSMboxAccept(e) \/ OSQAccept(e)
  BY <1>2, ListsKept DEF OSSemAccept, OSMboxAccept, OSQAccept, Accept, TakeNow, taskVars
<1>3. CASE OSSemPost(e)
  BY <1>3, PostLists, ListsKept DEF OSSemPost, taskVars
<1>4. ASSUME NEW cnt, OSSemSet(e, cnt)
      PROVE  ListsInv' /\ calls' = calls
  BY <1>4, ListsKept DEF OSSemSet, taskVars
<1>5. ASSUME NEW msg, NEW all, NEW sched, OSMboxPostOpt(e, msg, all, sched)
      PROVE  ListsInv' /\ calls' = calls
  BY <1>5, PostLists, ListsKept DEF OSMboxPostOpt, taskVars
<1>6. ASSUME NEW msg, NEW front, NEW all, NEW sched, OSQPostOpt(e, msg, front, all, sched)
      PROVE  ListsInv' /\ calls' = calls
  BY <1>6, PostLists, ListsKept DEF OSQPostOpt, taskVars
<1>7. CASE OSQFlush(e)
  BY <1>7, ListsKept DEF OSQFlush, taskVars
<1>8. ASSUME NEW all, OSSemPendAbort(e, all) \/ OSMboxPendAbort(e, all) \/ OSQPendAbort(e, all)
      PROVE  ListsInv' /\ calls' = calls
  BY <1>8, AbortLists DEF OSSemPendAbort, OSMboxPendAbort, OSQPendAbort
<1>9. ASSUME NEW all, OSSemDel(e, all) \/ OSMboxDel(e, all) \/ OSQDel(e, all)
      PROVE  ListsInv' /\ calls' = calls
  BY <1>9, DeleteLists DEF OSSemDel, OSMboxDel, OSQDel
<1>10. CASE SemCall(e)
  BY <1>1, <1>2, <1>3, <1>4, <1>8, <1>9, <1>10 DEF SemCall
<1>11. CASE MboxCall(e)
  BY <1>1, <1>2, <1>5, <1>8, <1>9, <1>11 DEF MboxCall, OSMboxPost
<1>12. CASE QCall(e)
  BY <1>1, <1>2, <1>6, <1>7, <1>8, <1>9, <1>12 DEF QCall, OSQPost, OSQPostFront
<1> QED
  BY <1>10, <1>11, <1>12

LEMMA EventsLists ==
  ASSUME ListsInv, EventsNext
  PROVE  ListsInv' /\ calls' = calls
<1>1. ASSUME NEW type, NEW cnt, NEW ptr, CreateEvent(type, cnt, ptr)
      PROVE  ListsInv' /\ calls' = calls
  BY <1>1, ListsCleared DEF CreateEvent
<1>2. ASSUME NEW S, NEW timeout, OSEventPendMulti(S, timeout)
      PROVE  ListsInv' /\ calls' = calls
  BY <1>2, ListsKept, ListsEntered DEF OSEventPendMulti, TakeNow, OS_EventTaskWaitMulti
<1> QED
  BY <1>1, <1>2, CallLists DEF EventsNext, OSSemCreate, OSMboxCreate, OSQCreate

LEMMA MutexLists ==
  ASSUME ListsInv, MutexNext
  PROVE  ListsInv' /\ calls' = calls
<1>1. ASSUME NEW pcp, OSMutexCreate(pcp)
      PROVE  ListsInv' /\ calls' = calls
  BY <1>1, ListsCleared DEF OSMutexCreate
<1>2. ASSUME NEW e, OSMutexAccept(e)
      PROVE  ListsInv' /\ calls' = calls
  BY <1>2, ListsKept DEF OSMutexAccept, TakeMutex
<1>3. ASSUME NEW e, NEW W, LowerAndReady(e, W)
      PROVE  ListsInv' /\ calls' = calls
  BY <1>3, ListsWithout DEF LowerAndReady
<1>4. ASSUME NEW e, OSMutexPost(e)
      PROVE  ListsInv' /\ calls' = calls
  BY <1>3, <1>4 DEF OSMutexPost
<1>5. ASSUME NEW e, NEW timeout, OSMutexPend(e, timeout)
      PROVE  ListsInv' /\ calls' = calls
  BY <1>5, ListsKept, ListsEntered DEF OSMutexPend, TakeMutex
<1>6. ASSUME NEW e, NEW always, OSMutexDel(e, always)
      PROVE  ListsInv' /\ calls' = calls
  BY <1>3, <1>6, ListsKept DEF OSMutexDel
<1> QED
  BY <1>1, <1>2, <1>4, <1>5, <1>6 DEF MutexNext

LEMMA ListsStep ==
  ASSUME ListsInv, [Next]_vars
  PROVE  ListsInv' /\ calls' = calls
<1>1. CASE TasksNext \/ EventsNext \/ MutexNext
  BY <1>1, TasksLists, EventsLists, MutexLists
<1>2. CASE MutexPendReturns
  <2>1. PendReturns
    BY <1>2 DEF MutexPendReturns
  <2>2. OSEventTbl' = OSEventTbl \/ \E S : Withdraw(S)
    BY <2>1 DEF PendReturns, PendMultiTail, PendTail, PendTimedOut
  <2>3. ASSUME NEW S, Withdraw(S)
        PROVE  ListsInv'
    BY <2>3 DEF Withdraw, ListsInv
  <2>4. calls' = calls
    BY <2>1 DEF PendReturns
  <2> QED
    BY <2>2, <2>3, <2>4, ListsKept
<1>3. CASE FlagsNext
  BY <1>3, FlagsKeep, ListsKept
<1>4. CASE MemNext
  BY <1>4, ListsKept DEF MemNext, OSMemCreate, OSMemGet, OSMemPut, taskVars
<1>5. ASSUME NEW p, DeleteTask(p)
      PROVE  ListsInv' /\ calls' = calls
  BY <1>5 DEF DeleteTask, OSTaskDel, ListsInv
<1>6. ASSUME NEW t, CreateTask(t)
      PROVE  ListsInv' /\ calls' = calls
  BY <1>6, ListsKept DEF CreateTask, OSTaskCreate
<1>7. CASE UNCHANGED vars
  BY <1>7, ListsKept DEF vars, taskVars
<1> QED
  BY <1>1, <1>2, <1>3, <1>4, <1>5, <1>6, <1>7 DEF Next

-----------------------------------------------------------------------------
LEMMA TypesFollow ==
  ASSUME KernelInv, PoolsInv, StoresInv, ListsInv, NodesInv, MemInv
  PROVE  TypeOK
<1>1. /\ Data(OSRdy, OSEventTbl, tcb, pc, ecb) /\ TableOK(OSTCBPrioTbl, tcb, pc, ecb)
      /\ HoldsOK(tcb, pc, ecb, holds) /\ OSLockNesting \in {0, 1}
      /\ OSPrioCur \in OSRdy /\ HasPrio(OSTCBCur, OSPrioCur, tcb, pc)
  BY DEF KernelInv
<1>2. \A S \in SUBSET LiveSet(pc) : PriosOf(tcb, S) \subseteq AllPrios
  BY <1>1, Constants DEF Data, PriosOf
<1>3. TasksTypeOK
  <2>1. OSRdy \subseteq AllPrios
    BY <1>1, <1>2, SetsAreLive, Constants DEF Data
  <2>2. OSEventTbl \in [Events -> SUBSET AllPrios]
    <3>1. \A e \in Events : OSEventTbl[e] \in SUBSET AllPrios
      BY <1>1, <1>2, SetsAreLive DEF Data
    <3> QED
      BY <3>1 DEF ListsInv
  <2>3. OSTCBCur \in Tasks \cup {IdleTask}
    BY <1>1 DEF HasPrio, LiveSet
  <2>4. \A t \in Tasks : pc[t].at \in {"task", "pend", "returned", "dormant"}
    BY <1>1 DEF Data, Shape
  <2> QED
    BY <1>1, <2>1, <2>2, <2>3, <2>4 DEF TasksTypeOK, StoresInv, Data, TableOK
<1>4. EventsTypeOK
  <2>1. ecb \in [Events -> OS_EVENT]
    BY EcbTyped DEF StoresInv
  <2>2. OSQTbl \in [Queues -> OS_Q]
    BY DEF StoresInv, Rings
  <2> QED
    BY <2>1, <2>2 DEF EventsTypeOK, PoolsInv
<1>5. FlagsTypeOK
  BY DEF FlagsTypeOK, NodesInv, NodesOK
<1>6. MemTypeOK
  BY DEF MemTypeOK, MemInv, MemTyped
<1> QED
  BY <1>1, <1>3, <1>4, <1>5, <1>6 DEF TypeOK, HoldsOK

\* Every variable of the services stays in its range: no semaphore goes below 0
\* or over its greatest count, no queue over its storage, no ring index out of
\* it, and OSEventCnt of a mutex keeps two priorities in 16 bits.
THEOREM ServicesTypes ==
  ASSUME SwitchReturns = TRUE, Hazards = {}
  PROVE  Spec => []TypeOK
<1>1. Init => StoresInv /\ ListsInv /\ PoolsInv /\ MemInv
  <2>1. Init => ListsInv
    BY DEF Init, TasksInit, ListsInv
  <2> QED
    BY <2>1, StoresInitial, PoolsInitial, MemInitial
<1>2. KernelInv /\ PoolsInv /\ StoresInv /\ [Next]_vars => PoolsInv' /\ StoresInv'
  BY PoolsStep, StoresStep
<1>3. MemInv /\ ListsInv /\ [Next]_vars => MemInv' /\ ListsInv'
  BY MemStep, ListsStep
<1>4. KernelInv /\ NodesInv /\ PoolsInv /\ StoresInv /\ ListsInv /\ MemInv => TypeOK
  BY TypesFollow
<1>5. Spec => [](KernelInv /\ NodesInv)
  BY ServicesInvariant
<1> QED
  BY <1>1, <1>2, <1>3, <1>4, <1>5, PTL DEF Spec

-----------------------------------------------------------------------------
(* The flags a task waits for *)

\* Consuming looks for no waiting task.  It can answer none as long as all
\* tasks of an application wait for flags to be set, or all for them to be
\* clear, or none consumes.
Unmixed(names) == ~({"OS_FLAG_WAIT_SET", "OS_FLAG_WAIT_CLR", "OS_FLAG_CONSUME"} \subseteq names)

FlagsUnmixed == \A app \in Applications : Unmixed(app.calls)

\* Nobody waits for flags that are as it wants them.
Unmet(grps, nodes) ==
  \A g \in FlagGrps : \A t \in grps[g].waitlist :
    ~Satisfied(grps[g].flags, nodes[t].flags, nodes[t].type)

\* The pends under way are of the wait types the application uses.
UnmetInv ==
  /\ Unmet(OSFlagTbl, node)
  /\ \A t \in Tasks : InFlagPend(pc[t]) => Uses(node[t].type, node[t].consume)

LEMMA UnmetStays ==
  ASSUME NEW grps, NEW nodes, NEW grps2, NEW nodes2, Unmet(grps, nodes),
         \A g \in FlagGrps : \A t \in grps2[g].waitlist :
           /\ t \in grps[g].waitlist
           /\ nodes2[t].flags = nodes[t].flags /\ nodes2[t].type = nodes[t].type
           /\ Satisfied(grps2[g].flags, nodes[t].flags, nodes[t].type)
                => Satisfied(grps[g].flags, nodes[t].flags, nodes[t].type)
  PROVE  Unmet(grps2, nodes2)
BY DEF Unmet

\* What a task consumes brings no task that waits for the same value closer
\* to its condition.
LEMMA ConsumingAnswersNobody ==
  ASSUME NEW cur \in SUBSET Flags, NEW rdy \in SUBSET Flags, NEW wanted \in SUBSET Flags,
         NEW type \in WaitTypes, NEW type2 \in WaitTypes, type2[1] = type[1],
         Satisfied(Consumed(cur, rdy, type), wanted, type2)
  PROVE  Satisfied(cur, wanted, type2)
<1>1. type[1] \in {"SET", "CLR"}
  BY DEF WaitTypes
<1>2. CASE type[1] = "SET"
  <2>1. FlagsRdy(Consumed(cur, rdy, type), wanted, type2) = (cur \ rdy) \cap wanted
    BY <1>2 DEF FlagsRdy, Consumed
  <2>2. FlagsRdy(cur, wanted, type2) = cur \cap wanted
    BY <1>2 DEF FlagsRdy
  <2> QED
    BY <2>1, <2>2 DEF Satisfied
<1>3. CASE type[1] = "CLR"
  <2>1. FlagsRdy(Consumed(cur, rdy, type), wanted, type2) = wanted \ (cur \cup rdy)
    BY <1>3 DEF FlagsRdy, Consumed
  <2>2. FlagsRdy(cur, wanted, type2) = wanted \ cur
    BY <1>3 DEF FlagsRdy
  <2> QED
    BY <2>1, <2>2 DEF Satisfied
<1> QED
  BY <1>1, <1>2, <1>3

LEMMA SameWaitType ==
  ASSUME Unmixed(calls), NEW type \in WaitTypes, NEW type2 \in WaitTypes, NEW consume2,
         Uses(type, TRUE), Uses(type2, consume2)
  PROVE  type2[1] = type[1]
<1>1. type[1] \in {"SET", "CLR"} /\ type2[1] \in {"SET", "CLR"}
  BY DEF WaitTypes
<1> QED
  BY <1>1 DEF Uses, Unmixed

\* Group g has its flags consumed by a task with that wait type.
LEMMA ConsumingKeepsUnmet ==
  ASSUME NodesInv, UnmetInv, Unmixed(calls), NEW g \in FlagGrps, NEW rdy \in SUBSET Flags,
         NEW type \in WaitTypes, Uses(type, TRUE)
  PROVE  Unmet(WithFlags(OSFlagTbl, g, Consumed(OSFlagTbl[g].flags, rdy, type)), node)
<1> DEFINE cur == OSFlagTbl[g].flags
           f == Consumed(cur, rdy, type)
           grps2 == WithFlags(OSFlagTbl, g, f)
<1>1. NodesOK(OSFlagTbl, node, tcb, pc) /\ OSFlagTbl \in [FlagGrps -> OS_FLAG_GRP]
  BY DEF NodesInv, NodesOK
<1>2. cur \in SUBSET Flags
  BY <1>1 DEF OS_FLAG_GRP
<1>3. /\ \A h \in FlagGrps : grps2[h].waitlist = OSFlagTbl[h].waitlist
      /\ \A h \in FlagGrps \ {g} : grps2[h].flags = OSFlagTbl[h].flags
      /\ grps2[g].flags = f
  BY <1>1 DEF WithFlags, OS_FLAG_GRP
<1>4. ASSUME NEW t \in OSFlagTbl[g].waitlist, Satisfied(f, node[t].flags, node[t].type)
      PROVE  Satisfied(cur, node[t].flags, node[t].type)
  <2>1. t \in Tasks
    BY <1>1 DEF OS_FLAG_GRP
  <2>2. FlagWaits(tcb[t], pc[t])
    BY <1>1, <2>1 DEF NodesOK
  <2>3. node[t] \in OS_FLAG_NODE /\ InFlagPend(pc[t])
    BY <1>1, <2>1, <2>2 DEF NodesOK, FlagWaits
  <2>4. node[t].flags \in SUBSET Flags /\ node[t].type \in WaitTypes
    BY <2>3 DEF OS_FLAG_NODE
  <2>5. Uses(node[t].type, node[t].consume)
    BY <2>1, <2>3 DEF UnmetInv
  <2>6. node[t].type[1] = type[1]
    BY <2>4, <2>5, SameWaitType
  <2> HIDE DEF cur
  <2> QED
    BY <1>2, <1>4, <2>4, <2>6, ConsumingAnswersNobody
<1>5. Unmet(OSFlagTbl, node)
  BY DEF UnmetInv
<1> HIDE DEF grps2, f
<1>6. \A h \in FlagGrps : \A t \in grps2[h].waitlist :
        /\ t \in OSFlagTbl[h].waitlist
        /\ node[t].flags = node[t].flags /\ node[t].type = node[t].type
        /\ Satisfied(grps2[h].flags, node[t].flags, node[t].type)
             => Satisfied(OSFlagTbl[h].flags, node[t].flags, node[t].type)
  BY <1>3, <1>4
<1>7. Unmet(grps2, node)
  BY <1>5, <1>6, UnmetStays
<1> QED
  BY <1>7 DEF grps2, f


\* What stays as long as nobody enters OSFlagPend.
LEMMA UnmetNext ==
  ASSUME UnmetInv, calls' = calls, Unmet(OSFlagTbl', node'),
         \A t \in Tasks : InFlagPend(pc'[t]) =>
           /\ InFlagPend(pc[t])
           /\ node'[t].type = node[t].type /\ node'[t].consume = node[t].consume
  PROVE  UnmetInv'
BY DEF UnmetInv, Uses

LEMMA UnmetQuiet ==
  ASSUME UnmetInv, calls' = calls, FlagPendsStay, UNCHANGED flagVars
  PROVE  UnmetInv'
<1>1. OSFlagTbl' = OSFlagTbl /\ node' = node
  BY DEF flagVars
<1>2. Unmet(OSFlagTbl', node')
  BY <1>1 DEF UnmetInv
<1> QED
  BY <1>1, <1>2, UnmetNext DEF FlagPendsStay

LEMMA TakeFlagsUnmet ==
  ASSUME NodesInv, UnmetInv, Unmixed(calls), NEW g \in FlagGrps, NEW wanted \in SUBSET Flags,
         NEW type \in WaitTypes, NEW consume \in BOOLEAN, Uses(type, consume),
         TakeFlags(g, wanted, type, consume)
  PROVE  UnmetInv'
<1> DEFINE cur == OSFlagTbl[g].flags
           rdy == FlagsRdy(cur, wanted, type)
<1>1. OSFlagTbl \in [FlagGrps -> OS_FLAG_GRP]
  BY DEF NodesInv, NodesOK
<1>2. cur \in SUBSET Flags
  BY <1>1 DEF OS_FLAG_GRP
<1>3. rdy \in SUBSET Flags
  <2> HIDE DEF cur
  <2> QED
    BY <1>2, ConsumedFlags
<1>4. /\ calls' = calls /\ pc' = pc /\ node' = node
      /\ OSFlagTbl' = IF consume THEN WithFlags(OSFlagTbl, g, Consumed(cur, rdy, type)) ELSE OSFlagTbl
  BY DEF TakeFlags, taskVars, WithFlags
<1>5. CASE consume
  <2>1. Uses(type, TRUE)
    BY <1>5 DEF Uses
  <2> HIDE DEF rdy
  <2>2. Unmet(WithFlags(OSFlagTbl, g, Consumed(OSFlagTbl[g].flags, rdy, type)), node)
    BY <1>3, <2>1, ConsumingKeepsUnmet
  <2>3. Unmet(OSFlagTbl', node')
    BY <1>4, <1>5, <2>2
  <2> QED
    BY <1>4, <2>3, UnmetNext
<1>6. CASE ~consume
  <2>1. Unmet(OSFlagTbl', node')
    BY <1>4, <1>6 DEF UnmetInv
  <2> QED
    BY <1>4, <2>1, UnmetNext
<1> QED
  BY <1>5, <1>6

LEMMA FlagBlockUnmet ==
  ASSUME KernelInv, NodesInv, UnmetInv, TaskCall("OSFlag"),
         NEW g \in FlagGrps, NEW wanted \in SUBSET Flags, NEW type \in WaitTypes,
         NEW consume \in BOOLEAN, NEW timeout, Uses(type, consume), calls' = calls,
         ~Satisfied(OSFlagTbl[g].flags, wanted, type),
         OS_FlagBlock(g, wanted, type, consume, timeout)
  PROVE  UnmetInv'
<1> DEFINE x == OSTCBCur
           n == [grp |-> g, flags |-> wanted, type |-> type, consume |-> consume, rdy |-> {}]
           k == Pending("OSFlagPend", {})
<1>1. x \in Tasks /\ ~InFlagPend(pc[x])
  BY CallerPlace
<1>2. /\ pc' = [pc EXCEPT ![x] = k] /\ node' = [node EXCEPT ![x] = n]
      /\ OSFlagTbl' = [OSFlagTbl EXCEPT ![g].waitlist = @ \cup {x}]
  BY DEF OS_FlagBlock
<1>3. /\ NodesOK(OSFlagTbl, node, tcb, pc) /\ OSFlagTbl \in [FlagGrps -> OS_FLAG_GRP]
      /\ DOMAIN node = Tasks /\ DOMAIN pc = Tasks
  BY DEF NodesInv, NodesOK, KernelInv, Data
<1>4. n.flags = wanted /\ n.type = type /\ n.consume = consume
  OBVIOUS
<1> HIDE DEF n, k
<1>5. node'[x] = n /\ \A t \in Tasks \ {x} : node'[t] = node[t] /\ pc'[t] = pc[t]
  BY <1>1, <1>2, <1>3
<1> HIDE DEF x
<1>6. /\ OSFlagTbl'[g].flags = OSFlagTbl[g].flags
      /\ OSFlagTbl'[g].waitlist = OSFlagTbl[g].waitlist \cup {x}
      /\ \A h \in FlagGrps \ {g} : OSFlagTbl'[h] = OSFlagTbl[h]
  BY <1>2, <1>3 DEF OS_FLAG_GRP
<1>7. \A h \in FlagGrps : x \notin OSFlagTbl[h].waitlist /\ OSFlagTbl[h].waitlist \subseteq Tasks
  BY <1>1, <1>3 DEF NodesOK, FlagWaits, OS_FLAG_GRP
<1>8. Unmet(OSFlagTbl', node')
  <2> SUFFICES ASSUME NEW h \in FlagGrps, NEW t \in OSFlagTbl'[h].waitlist
               PROVE  ~Satisfied(OSFlagTbl'[h].flags, node'[t].flags, node'[t].type)
    BY DEF Unmet
  <2>1. OSFlagTbl'[h].flags = OSFlagTbl[h].flags
    BY <1>6
  <2>2. CASE t = x
    <3>1. h = g
      BY <1>6, <1>7, <2>2
    <3> QED
      BY <1>4, <1>5, <2>1, <2>2, <3>1
  <2>3. CASE t # x
    <3>1. t \in OSFlagTbl[h].waitlist /\ node'[t] = node[t]
      BY <1>5, <1>6, <1>7, <2>3
    <3>2. ~Satisfied(OSFlagTbl[h].flags, node[t].flags, node[t].type)
      BY <3>1 DEF UnmetInv, Unmet
    <3> QED
      BY <2>1, <3>1, <3>2
  <2> QED
    BY <2>2, <2>3
<1>9. ASSUME NEW t \in Tasks, InFlagPend(pc'[t])
      PROVE  Uses(node'[t].type, node'[t].consume)
  <2>1. CASE t = x
    BY <1>4, <1>5, <2>1
  <2>2. CASE t # x
    BY <1>5, <1>9, <2>2 DEF UnmetInv
  <2> QED
    BY <2>1, <2>2
<1> QED
  BY <1>8, <1>9 DEF UnmetInv, Uses

\* The flags are consumed when the task that got them runs again.
LEMMA FlagReturnsUnmet ==
  ASSUME KernelInv, NodesInv, UnmetInv, Unmixed(calls), NodesInv', FlagPendReturns
  PROVE  UnmetInv'
<1> DEFINE x == OSTCBCur
           n == node[x]
<1>1. /\ x \in Tasks /\ InFlagPend(pc[x]) /\ calls' = calls
      /\ FlagPendTimedOut \/ FlagPendAnswered
      /\ pc' = [pc EXCEPT ![x] = InTask] /\ node' = [node EXCEPT ![x] = NULL]
  BY DEF FlagPendReturns, InFlagPend
<1>2. /\ NodesOK(OSFlagTbl, node, tcb, pc) /\ OSFlagTbl \in [FlagGrps -> OS_FLAG_GRP]
      /\ DOMAIN node = Tasks /\ DOMAIN pc = Tasks /\ n \in OS_FLAG_NODE
  BY <1>1 DEF NodesInv, NodesOK, KernelInv, Data
<1>3. Uses(n.type, n.consume) /\ n.type \in WaitTypes /\ n.grp \in FlagGrps /\ n.rdy \in SUBSET Flags
  BY <1>1, <1>2 DEF UnmetInv, OS_FLAG_NODE
<1>4. NodesOK(OSFlagTbl', node', tcb', pc')
  BY DEF NodesInv
<1> HIDE DEF n
<1>5. \E grps2 : /\ Unmet(grps2, node)
                 /\ \A h \in FlagGrps : OSFlagTbl'[h].flags = grps2[h].flags
                 /\ \A h \in FlagGrps : OSFlagTbl'[h].waitlist \subseteq grps2[h].waitlist
  <2>1. CASE FlagPendTimedOut
    <3>1. \A h \in FlagGrps : OSFlagTbl'[h] = [OSFlagTbl[h] EXCEPT !.waitlist = @ \ {x}]
      BY <2>1 DEF FlagPendTimedOut, OS_FlagUnlink
    <3>2. \A h \in FlagGrps : /\ OSFlagTbl'[h].flags = OSFlagTbl[h].flags
                              /\ OSFlagTbl'[h].waitlist \subseteq OSFlagTbl[h].waitlist
      <4> TAKE h \in FlagGrps
      <4>1. OSFlagTbl[h] \in OS_FLAG_GRP /\ OSFlagTbl'[h] = [OSFlagTbl[h] EXCEPT !.waitlist = @ \ {x}]
        BY <1>2, <3>1
      <4> HIDE DEF x
      <4> QED
        BY <4>1 DEF OS_FLAG_GRP
    <3> QED
      BY <3>2 DEF UnmetInv
  <2>2. CASE FlagPendAnswered /\ n.consume
    <3>1. OSFlagTbl' = WithFlags(OSFlagTbl, n.grp, Consumed(OSFlagTbl[n.grp].flags, n.rdy, n.type))
      BY <1>2, <1>3, <2>2 DEF FlagPendAnswered, WithFlags, n
    <3>2. Uses(n.type, TRUE)
      BY <1>3, <2>2 DEF Uses
    <3>3. Unmet(OSFlagTbl', node)
      BY <1>3, <3>1, <3>2, ConsumingKeepsUnmet
    <3> QED
      BY <3>3
  <2>3. CASE FlagPendAnswered /\ ~n.consume
    <3>1. OSFlagTbl' = OSFlagTbl
      BY <2>3 DEF FlagPendAnswered, n
    <3> QED
      BY <3>1 DEF UnmetInv
  <2> QED
    BY <1>1, <2>1, <2>2, <2>3
<1> HIDE DEF x
<1>6. \A t \in Tasks \ {x} : node'[t] = node[t] /\ pc'[t] = pc[t]
  BY <1>1, <1>2
<1>7. ~InFlagPend(pc'[x])
  BY <1>1, <1>2 DEF InFlagPend, InTask
<1>8. \A h \in FlagGrps : \A t \in OSFlagTbl'[h].waitlist : t \in Tasks \ {x}
  BY <1>4, <1>7 DEF NodesOK, OS_FLAG_GRP, FlagWaits
<1>9. Unmet(OSFlagTbl', node')
  <2>1. PICK grps2 : /\ Unmet(grps2, node)
                     /\ \A h \in FlagGrps : OSFlagTbl'[h].flags = grps2[h].flags
                     /\ \A h \in FlagGrps : OSFlagTbl'[h].waitlist \subseteq grps2[h].waitlist
    BY <1>5
  <2> QED
    BY <1>6, <1>8, <2>1 DEF Unmet
<1> QED
  BY <1>1, <1>6, <1>7, <1>9, UnmetNext

\* A post or a deletion answers the tasks W and leaves what the others wait
\* for alone.
LEMMA AnsweredUnmet ==
  ASSUME NodesInv, UnmetInv, NEW g \in FlagGrps, NEW W \in SUBSET OSFlagTbl[g].waitlist, NEW rdy,
         OS_FlagTaskRdy(W, rdy),
         \A h \in FlagGrps \ {g} : OSFlagTbl'[h] = OSFlagTbl[h],
         \A t \in OSFlagTbl'[g].waitlist :
           ~Satisfied(OSFlagTbl'[g].flags, node[t].flags, node[t].type),
         OSFlagTbl'[g].waitlist \subseteq OSFlagTbl[g].waitlist
  PROVE  UnmetInv'
<1>1. /\ calls' = calls /\ pc' = pc
      /\ node' = [t \in Tasks |-> IF t \in W THEN [node[t] EXCEPT !.rdy = rdy[t]] ELSE node[t]]
  BY Zenon DEF OS_FlagTaskRdy
<1>2. NodesOK(OSFlagTbl, node, tcb, pc) /\ OSFlagTbl \in [FlagGrps -> OS_FLAG_GRP]
  BY DEF NodesInv, NodesOK
<1>3. ASSUME NEW t \in Tasks
      PROVE  /\ node'[t].flags = node[t].flags /\ node'[t].type = node[t].type
             /\ node'[t].consume = node[t].consume
  <2>1. CASE t \in W
    <3>1. node[t] \in OS_FLAG_NODE
      BY <1>2, <2>1 DEF NodesOK, FlagWaits
    <3>2. node'[t] = [node[t] EXCEPT !.rdy = rdy[t]]
      BY <1>1, <2>1
    <3> QED
      BY <3>1, <3>2 DEF OS_FLAG_NODE
  <2>2. CASE t \notin W
    BY <1>1, <2>2
  <2> QED
    BY <2>1, <2>2
<1>4. \A h \in FlagGrps : OSFlagTbl'[h].waitlist \subseteq Tasks
  BY <1>2 DEF OS_FLAG_GRP
<1>5. Unmet(OSFlagTbl', node')
  <2> SUFFICES ASSUME NEW h \in FlagGrps, NEW t \in OSFlagTbl'[h].waitlist
               PROVE  ~Satisfied(OSFlagTbl'[h].flags, node'[t].flags, node'[t].type)
    BY DEF Unmet
  <2>1. node'[t].flags = node[t].flags /\ node'[t].type = node[t].type
    BY <1>3, <1>4
  <2>2. CASE h = g
    BY <2>1, <2>2
  <2>3. CASE h # g
    BY <2>1, <2>3 DEF UnmetInv, Unmet
  <2> QED
    BY <2>2, <2>3
<1> QED
  BY <1>1, <1>3, <1>5, UnmetNext

LEMMA OSFlagPostUnmet ==
  ASSUME NodesInv, UnmetInv, NEW g \in FlagGrps, NEW bits, NEW set, OSFlagPost(g, bits, set)
  PROVE  UnmetInv'
<1> DEFINE flags == IF set THEN OSFlagTbl[g].flags \cup bits ELSE OSFlagTbl[g].flags \ bits
           W == AnsweredBy(g, flags)
           rdy == [t \in W |-> FlagsRdy(flags, node[t].flags, node[t].type)]
<1>1. /\ OSFlagTbl' = [OSFlagTbl EXCEPT ![g].flags = flags, ![g].waitlist = @ \ W]
      /\ OS_FlagTaskRdy(W, rdy)
  BY DEF OSFlagPost
<1>2. OSFlagTbl \in [FlagGrps -> OS_FLAG_GRP]
  BY DEF NodesInv, NodesOK
<1> HIDE DEF flags, rdy
<1>3. W \in SUBSET OSFlagTbl[g].waitlist
  BY DEF AnsweredBy
<1>4. \A t \in OSFlagTbl[g].waitlist \ W : ~Satisfied(flags, node[t].flags, node[t].type)
  BY DEF AnsweredBy
<1> HIDE DEF W
<1>5. /\ OSFlagTbl'[g].flags = flags /\ OSFlagTbl'[g].waitlist = OSFlagTbl[g].waitlist \ W
      /\ \A h \in FlagGrps \ {g} : OSFlagTbl'[h] = OSFlagTbl[h]
  BY <1>1, <1>2 DEF OS_FLAG_GRP
<1> QED
  BY <1>1, <1>3, <1>4, <1>5, AnsweredUnmet

LEMMA OSFlagDelUnmet ==
  ASSUME NodesInv, UnmetInv, NEW g \in FlagGrps, NEW always, OSFlagDel(g, always)
  PROVE  UnmetInv'
<1> DEFINE W == OSFlagTbl[g].waitlist
           rdy == [t \in W |-> {}]
<1>1. OSFlagTbl' = [OSFlagTbl EXCEPT ![g] = UnusedGrp] /\ OS_FlagTaskRdy(W, rdy)
  BY DEF OSFlagDel
<1>2. OSFlagTbl \in [FlagGrps -> OS_FLAG_GRP] /\ UnusedGrp.waitlist = {}
  BY DEF NodesInv, NodesOK, UnusedGrp
<1> HIDE DEF rdy
<1>3. OSFlagTbl'[g].waitlist = {} /\ \A h \in FlagGrps \ {g} : OSFlagTbl'[h] = OSFlagTbl[h]
  BY <1>1, <1>2
<1> QED
  BY <1>1, <1>3, AnsweredUnmet

LEMMA OSFlagCreateUnmet ==
  ASSUME NodesInv, UnmetInv, NEW flags, OSFlagCreate(flags)
  PROVE  UnmetInv'
<1>1. /\ calls' = calls /\ pc' = pc /\ node' = node
      /\ OSFlagTbl' = [OSFlagTbl EXCEPT ![Head(OSFlagFreeList)] =
                         [type |-> "FLAG", flags |-> flags, waitlist |-> {}]]
  BY DEF OSFlagCreate, taskVars
<1>2. Unmet(OSFlagTbl', node')
  BY <1>1 DEF UnmetInv, Unmet, NodesInv, NodesOK
<1> QED
  BY <1>1, <1>2, UnmetNext

LEMMA FlagsUnmet ==
  ASSUME KernelInv, NodesInv, UnmetInv, Unmixed(calls), NodesInv', FlagsNext
  PROVE  UnmetInv'
<1>1. ASSUME NEW g \in FlagGrps, NEW type \in WaitTypes, NEW wanted \in SUBSET Flags,
             NEW consume \in BOOLEAN, OSFlagAccept(g, wanted, type, consume)
      PROVE  UnmetInv'
  BY <1>1, TakeFlagsUnmet DEF OSFlagAccept
<1>2. ASSUME NEW g \in FlagGrps, NEW type \in WaitTypes, NEW wanted \in SUBSET Flags,
             NEW consume \in BOOLEAN, NEW timeout, OSFlagPend(g, wanted, type, consume, timeout)
      PROVE  UnmetInv'
  BY <1>2, TakeFlagsUnmet, FlagBlockUnmet DEF OSFlagPend
<1>3. CASE \E g \in FlagGrps, type \in WaitTypes, wanted \in (SUBSET Flags) \ {{}}, consume \in BOOLEAN :
             \/ OSFlagAccept(g, wanted, type, consume)
             \/ \E timeout \in 0..MaxDly : OSFlagPend(g, wanted, type, consume, timeout)
  BY <1>1, <1>2, <1>3
<1>4. CASE \E flags \in SUBSET Flags : OSFlagCreate(flags)
  BY <1>4, OSFlagCreateUnmet
<1>5. CASE \E g \in FlagGrps, bits \in (SUBSET Flags) \ {{}}, set \in BOOLEAN : OSFlagPost(g, bits, set)
  BY <1>5, OSFlagPostUnmet
<1>6. CASE \E g \in FlagGrps, always \in BOOLEAN : OSFlagDel(g, always)
  BY <1>6, OSFlagDelUnmet
<1> QED
  BY <1>3, <1>4, <1>5, <1>6, FlagReturnsUnmet DEF FlagsNext

LEMMA DeleteTaskUnmet ==
  ASSUME KernelInv, NodesInv, UnmetInv, NEW p, DeleteTask(p)
  PROVE  UnmetInv'
<1> DEFINE x == OSTCBPrioTbl[p]
<1>1. /\ calls' = calls /\ pc' = [pc EXCEPT ![x] = Dormant]
      /\ OSFlagTbl' = [g \in FlagGrps |-> [OSFlagTbl[g] EXCEPT !.waitlist = @ \ {x}]]
      /\ node' = [node EXCEPT ![x] = NULL] /\ x \in Tasks
  BY DEF DeleteTask, OSTaskDel, OS_FlagUnlink
<1>2. /\ NodesOK(OSFlagTbl, node, tcb, pc) /\ OSFlagTbl \in [FlagGrps -> OS_FLAG_GRP]
      /\ DOMAIN node = Tasks /\ DOMAIN pc = Tasks
  BY DEF NodesInv, NodesOK, KernelInv, Data
<1> HIDE DEF x
<1>3. /\ pc'[x] = Dormant
      /\ \A t \in Tasks \ {x} : node'[t] = node[t] /\ pc'[t] = pc[t]
  BY <1>1, <1>2
<1>4. ~InFlagPend(pc'[x])
  BY <1>3 DEF InFlagPend, Dormant
<1>5. ASSUME NEW h \in FlagGrps
      PROVE  /\ OSFlagTbl'[h].flags = OSFlagTbl[h].flags
             /\ OSFlagTbl'[h].waitlist = OSFlagTbl[h].waitlist \ {x}
             /\ OSFlagTbl[h].waitlist \subseteq Tasks
  <2>1. OSFlagTbl[h] \in OS_FLAG_GRP /\ OSFlagTbl'[h] = [OSFlagTbl[h] EXCEPT !.waitlist = @ \ {x}]
    BY <1>1, <1>2
  <2> QED
    BY <2>1 DEF OS_FLAG_GRP
<1>6. Unmet(OSFlagTbl', node')
  <2> SUFFICES ASSUME NEW h \in FlagGrps, NEW t \in OSFlagTbl'[h].waitlist
               PROVE  ~Satisfied(OSFlagTbl'[h].flags, node'[t].flags, node'[t].type)
    BY DEF Unmet
  <2>1. t \in OSFlagTbl[h].waitlist /\ node'[t] = node[t] /\ OSFlagTbl'[h].flags = OSFlagTbl[h].flags
    BY <1>3, <1>5
  <2> QED
    BY <2>1 DEF UnmetInv, Unmet
<1> QED
  BY <1>1, <1>3, <1>4, <1>6, UnmetNext

LEMMA UnmetStep ==
  ASSUME Hazards = {}, KernelInv, NodesInv, NodesInv', UnmetInv, Unmixed(calls),
         calls' = calls, [Next]_vars
  PROVE  UnmetInv'
<1>1. CASE TasksNext /\ NotesKept /\ UNCHANGED <<eventVars, holds, flagVars, memVars>>
  <2>1. ecb' = ecb /\ holds' = holds /\ UNCHANGED flagVars
    BY <1>1 DEF eventVars
  <2> QED
    BY <1>1, <2>1, TasksFlags, UnmetQuiet
<1>2. CASE EventsNext /\ UNCHANGED flagVars
  BY <1>2, EventsFlags, UnmetQuiet
<1>3. CASE MutexPendReturns /\ UNCHANGED flagVars
  <2>1. PendReturns
    BY <1>3 DEF MutexPendReturns
  <2> QED
    BY <1>3, <2>1, PendReturnsFlags, UnmetQuiet
<1>4. CASE MutexNext /\ UNCHANGED flagVars
  BY <1>4, MutexFlags, UnmetQuiet
<1>5. CASE FlagsNext
  BY <1>5, FlagsUnmet
<1>6. CASE MemNext /\ UNCHANGED flagVars
  <2>1. UNCHANGED taskVars
    BY <1>6 DEF MemNext, OSMemCreate, OSMemGet, OSMemPut
  <2>2. FlagPendsStay
    BY <2>1, SameFlagPends DEF taskVars
  <2> QED
    BY <1>6, <2>2, UnmetQuiet
<1>7. CASE \E p \in Prios : DeleteTask(p)
  BY <1>7, DeleteTaskUnmet
<1>8. ASSUME NEW x \in Tasks, CreateTask(x)
      PROVE  UnmetInv'
  <2> DEFINE c == NewTCB(InitPrio[x])
  <2>1. /\ ~Exists(x) /\ tcb' = [tcb EXCEPT ![x] = c] /\ pc' = [pc EXCEPT ![x] = InTask]
        /\ UNCHANGED flagVars
    BY <1>8 DEF CreateTask, OSTaskCreate
  <2>2. ~InFlagPend(pc[x]) /\ ~InFlagPend(InTask)
    BY <2>1 DEF InFlagPend, InTask, Exists
  <2>3. FlagPendsStay
    BY <2>1, <2>2, FlagPendsOfOne
  <2> QED
    BY <2>1, <2>3, UnmetQuiet
<1>9. CASE UNCHANGED vars
  <2>1. UNCHANGED taskVars /\ UNCHANGED flagVars
    BY <1>9 DEF vars
  <2>2. FlagPendsStay
    BY <2>1, SameFlagPends DEF taskVars
  <2> QED
    BY <2>1, <2>2, UnmetQuiet
<1> QED
  BY <1>1, <1>2, <1>3, <1>4, <1>5, <1>6, <1>7, <1>8, <1>9 DEF Next

\* No task stays in the list of a group whose flags are as it wants them: each
\* post answers all it fulfils, a pend that finds its flags does not wait, and
\* what a task consumes when it runs again answers nobody, as long as no
\* application waits for set and for clear flags and consumes some.
THEOREM NoFlagIsMissed ==
  ASSUME SwitchReturns = TRUE, Hazards = {}, FlagsUnmixed
  PROVE  Spec => []NoSatisfiedWaiter
<1>1. Init => UnmetInv /\ StoresInv /\ ListsInv /\ PoolsInv
  <2>1. Init => ListsInv
    BY DEF Init, TasksInit, ListsInv
  <2>2. Init => UnmetInv
    <3> SUFFICES ASSUME Init PROVE UnmetInv
      OBVIOUS
    <3>1. \A t \in Tasks : ~InFlagPend(pc[t])
      BY DEF Init, TasksInit, InFlagPend, InTask, Dormant
    <3>2. Unmet(OSFlagTbl, node)
      BY DEF Init, FlagsInit, Unmet, UnusedGrp
    <3> QED
      BY <3>1, <3>2 DEF UnmetInv
  <2> QED
    BY <2>1, <2>2, StoresInitial, PoolsInitial
<1>2. KernelInv /\ PoolsInv /\ StoresInv /\ [Next]_vars => PoolsInv' /\ StoresInv'
  BY PoolsStep, StoresStep
<1>3. ListsInv /\ [Next]_vars => ListsInv' /\ calls' = calls
  BY ListsStep
<1>4. StoresInv => Unmixed(calls)
  BY DEF StoresInv, FlagsUnmixed
<1>5. /\ KernelInv /\ NodesInv /\ NodesInv' /\ UnmetInv /\ StoresInv /\ ListsInv /\ [Next]_vars
      => UnmetInv'
  BY <1>3, <1>4, UnmetStep
<1>6. UnmetInv => NoSatisfiedWaiter
  BY DEF UnmetInv, Unmet, NoSatisfiedWaiter
<1>7. Spec => [](KernelInv /\ NodesInv)
  BY ServicesInvariant
<1> QED
  BY <1>1, <1>2, <1>3, <1>5, <1>6, <1>7, PTL DEF Spec

-----------------------------------------------------------------------------
(* Owners of mutexes above the tasks that wait *)

\* OSTaskChangePrio looks at no mutex: it may raise a task that waits over the
\* owner.
FixedPrios(names) == ~({"OSMutex", "OSTaskChangePrio"} \subseteq names)

PriosFixed == \A app \in Applications : FixedPrios(app.calls)

\* Every task is at the priority it was created with, or it owns a mutex and
\* is at the ceiling of that; the mutex has saved the first of the two.
BasePrios(tcbs, ecbs) ==
  /\ \A t \in Tasks : \/ tcbs[t].prio = InitPrio[t]
                      \/ \E e \in Mutexes(ecbs) : ecbs[e].ptr = t /\ RaisedIn(ecbs[e], tcbs)
  /\ \A e \in Mutexes(ecbs) : ecbs[e].ptr \in Tasks => Saved(ecbs[e]) = InitPrio[ecbs[e].ptr]

\* The owner of a mutex with a ceiling is above all that wait for it.
OwnersAbove(tcbs, pcs, ecbs) ==
  \A e \in Mutexes(ecbs) : Ceil(ecbs[e]) # 255 =>
    \A t \in WaitSet(tcbs, pcs, e) : tcbs[ecbs[e].ptr].prio < tcbs[t].prio

CeilInv ==
  IF "OSMutex" \in calls
  THEN BasePrios(tcb, ecb) /\ OwnersAbove(tcb, pc, ecb)
  ELSE Mutexes(ecb) = {}

InMutexPend(k) == k.at = "pend" /\ k.svc = "OSMutexPend"

MutexesStay == \A e \in Events : ecb[e].type = "MUTEX" \/ ecb'[e].type = "MUTEX" => ecb'[e] = ecb[e]

\* No task gets another priority, and none begins to wait for a mutex.
PriosStay ==
  \A t \in Tasks :
    /\ tcb'[t].prio = tcb[t].prio
    /\ InMutexPend(pc'[t]) /\ Unans(tcb'[t], pc'[t]) => pc'[t] = pc[t] /\ Unans(tcb[t], pc[t])

LEMMA MutexPrios ==
  ASSUME MutexesStay, PriosStay, Data(OSRdy', OSEventTbl', tcb', pc', ecb'),
         BasePrios(tcb, ecb), OwnersAbove(tcb, pc, ecb), OwnersOK(tcb, pc, ecb)
  PROVE  BasePrios(tcb', ecb') /\ OwnersAbove(tcb', pc', ecb')
<1>1. Mutexes(ecb') = Mutexes(ecb) /\ \A e \in Mutexes(ecb) : ecb'[e] = ecb[e]
  BY DEF MutexesStay, Mutexes
<1>2. \A t \in Tasks : tcb'[t].prio = tcb[t].prio
  BY DEF PriosStay
<1>3. \A e \in Mutexes(ecb) : RaisedIn(ecb'[e], tcb') <=> RaisedIn(ecb[e], tcb)
  BY <1>1, <1>2 DEF RaisedIn
<1>4. BasePrios(tcb', ecb')
  BY <1>1, <1>2, <1>3 DEF BasePrios
<1>5. \A t \in Tasks : Shape(tcb'[t], pc'[t], ecb')
  BY DEF Data
<1>6. ASSUME NEW e \in Mutexes(ecb'), Ceil(ecb'[e]) # 255, NEW t \in WaitSet(tcb', pc', e)
      PROVE  tcb'[ecb'[e].ptr].prio < tcb'[t].prio
  <2>1. t \in Tasks /\ pc'[t].at = "pend" /\ pc'[t].svc = "OSMutexPend" /\ e \in pc'[t].on
        /\ Unans(tcb'[t], pc'[t])
    BY <1>5, <1>6, MutexWaiter DEF WaitSet
  <2>2. t \in WaitSet(tcb, pc, e)
    BY <2>1 DEF PriosStay, InMutexPend, WaitSet
  <2>3. e \in Mutexes(ecb) /\ ecb'[e] = ecb[e]
    BY <1>1, <1>6
  <2>4. ecb[e].ptr \in Tasks
    BY <2>2, <2>3 DEF OwnersOK, OwnedMutex, LiveSet
  <2> QED
    BY <1>2, <1>6, <2>1, <2>2, <2>3, <2>4 DEF OwnersAbove
<1> QED
  BY <1>4, <1>6 DEF OwnersAbove

\* A step of another service, or of a task.
LEMMA CeilQuiet ==
  ASSUME KernelInv, KernelInv', CeilInv, calls' = calls, MutexesStay,
         "OSMutex" \in calls => PriosStay
  PROVE  CeilInv'
<1>1. CASE "OSMutex" \in calls
  <2>1. BasePrios(tcb', ecb') /\ OwnersAbove(tcb', pc', ecb')
    BY <1>1, MutexPrios DEF KernelInv, CeilInv
  <2> QED
    BY <1>1, <2>1 DEF CeilInv
<1>2. CASE "OSMutex" \notin calls
  <2>1. Mutexes(ecb') = {}
    BY <1>2 DEF CeilInv, MutexesStay, Mutexes
  <2> QED
    BY <1>2, <2>1 DEF CeilInv
<1> QED
  BY <1>1, <1>2

LEMMA SameEcb ==
  ASSUME ecb' = ecb
  PROVE  MutexesStay
BY DEF MutexesStay

-----------------------------------------------------------------------------
(* The steps that have nothing to do with mutexes *)

\* Task x changes; it is not inside OSMutexPend afterwards.
LEMMA PriosOfOneTask ==
  ASSUME KernelInv, NEW x, NEW c, NEW k, c.prio = tcb[x].prio, ~InMutexPend(k),
         tcb' = tcb \/ tcb' = [tcb EXCEPT ![x] = c],
         pc' = [pc EXCEPT ![x] = k]
  PROVE  PriosStay
<1>1. DOMAIN tcb = Tasks /\ DOMAIN pc = Tasks
  BY DEF KernelInv, Data
<1>2. \A t \in Tasks \ {x} : tcb'[t] = tcb[t] /\ pc'[t] = pc[t]
  BY <1>1
<1>3. x \in Tasks => pc'[x] = k /\ tcb'[x].prio = tcb[x].prio
  BY <1>1
<1> QED
  BY <1>2, <1>3 DEF PriosStay

\* No task moves.
LEMMA PriosOfMany ==
  ASSUME pc' = pc,
         \A t \in Tasks : /\ tcb'[t].prio = tcb[t].prio
                          /\ InMutexPend(pc[t]) /\ Unans(tcb'[t], pc[t]) => Unans(tcb[t], pc[t])
  PROVE  PriosStay
BY DEF PriosStay

LEMMA SamePriosStay ==
  ASSUME tcb' = tcb, pc' = pc
  PROVE  PriosStay
BY DEF PriosStay

LEMMA TakeNowPrios ==
  ASSUME KernelInv, NEW S, TakeNow(S)
  PROVE  PriosStay
<1> DEFINE k == Returned("NONE", {<<e, FirstMessage(e)>> : e \in S})
<1>1. tcb' = tcb /\ pc' = [pc EXCEPT ![OSTCBCur] = k]
  BY DEF TakeNow
<1>2. ~InMutexPend(k)
  BY DEF Returned, InMutexPend
<1> HIDE DEF k
<1> QED
  BY <1>1, <1>2, PriosOfOneTask

\* What WaitingTCB keeps.
LEMMA WaitingPrio ==
  ASSUME NEW c \in OS_TCB, NEW bits, NEW timeout, NEW e, NEW S
  PROVE  /\ WaitingTCB(c, bits, timeout).prio = c.prio
         /\ [WaitingTCB(c, bits, timeout) EXCEPT !.eventptr = e].prio = c.prio
         /\ [WaitingTCB(c, bits, timeout) EXCEPT !.eventptr = e, !.multiptr = S].prio = c.prio
<1> DEFINE d == WaitingTCB(c, bits, timeout)
<1>1. DOMAIN d = DOMAIN c /\ d.prio = c.prio /\ "prio" \in DOMAIN c
  BY DEF WaitingTCB, OS_TCB
<1> HIDE DEF d
<1>2. [d EXCEPT !.eventptr = e].prio = d.prio
  BY <1>1
<1>3. [d EXCEPT !.eventptr = e, !.multiptr = S].prio = d.prio
  BY <1>1
<1> QED
  BY <1>1, <1>2, <1>3 DEF d

LEMMA PendOnPrios ==
  ASSUME KernelInv, OSTCBCur \in Tasks, NEW svc, svc # "OSMutexPend", NEW e, NEW timeout,
         PendOn(svc, e, timeout)
  PROVE  PriosStay
<1>1. CASE TakeNow({e})
  BY <1>1, TakeNowPrios
<1>2. CASE OS_EventTaskWait(svc, ecb[e].type, e, timeout)
  <2> DEFINE c == [WaitingTCB(tcb[OSTCBCur], {ecb[e].type}, timeout) EXCEPT !.eventptr = e]
             k == Pending(svc, {e})
  <2>1. tcb' = [tcb EXCEPT ![OSTCBCur] = c] /\ pc' = [pc EXCEPT ![OSTCBCur] = k]
    BY <1>2 DEF OS_EventTaskWait
  <2>2. ~InMutexPend(k)
    BY DEF Pending, InMutexPend
  <2>3. tcb[OSTCBCur] \in OS_TCB
    BY DEF KernelInv, Data
  <2>4. c.prio = tcb[OSTCBCur].prio
    BY <2>3, WaitingPrio
  <2> HIDE DEF c, k
  <2> QED
    BY <2>1, <2>2, <2>4, PriosOfOneTask
<1> QED
  BY <1>1, <1>2 DEF PendOn

LEMMA PendMultiPrios ==
  ASSUME KernelInv, OSTCBCur \in Tasks, NEW S, NEW timeout, OSEventPendMulti(S, timeout)
  PROVE  PriosStay
<1> DEFINE bits == {ecb[e].type : e \in S} \cup {"MULTI"}
<1>1. CASE TakeNow({e \in S : Available(e)})
  BY <1>1, TakeNowPrios
<1>2. CASE OS_EventTaskWaitMulti("OSEventPendMulti", bits, S, timeout)
  <2> HIDE DEF bits
  <2> DEFINE c == [WaitingTCB(tcb[OSTCBCur], bits, timeout) EXCEPT !.eventptr = NULL, !.multiptr = S]
             k == Pending("OSEventPendMulti", S)
  <2>1. tcb' = [tcb EXCEPT ![OSTCBCur] = c] /\ pc' = [pc EXCEPT ![OSTCBCur] = k]
    BY <1>2 DEF OS_EventTaskWaitMulti
  <2>2. ~InMutexPend(k)
    BY DEF Pending, InMutexPend
  <2>3. tcb[OSTCBCur] \in OS_TCB
    BY DEF KernelInv, Data
  <2>4. c.prio = tcb[OSTCBCur].prio
    BY <2>3, WaitingPrio
  <2> HIDE DEF c, k
  <2> QED
    BY <2>1, <2>2, <2>4, PriosOfOneTask
<1> QED
  BY <1>1, <1>2 DEF OSEventPendMulti

LEMMA AnsweredPrios ==
  ASSUME KernelInv, NEW e \in Events, ecb[e].type # "MUTEX", NEW W \in SUBSET WaitSet(tcb, pc, e),
         NEW msg, NEW pend, ReadyWaiters(W, e, msg, pend)
  PROVE  PriosStay
<1>1. pc' = pc /\ tcb' = AnsweredTCBs(tcb, W, e, msg, ecb[e].type, pend)
  BY DEF ReadyWaiters, OS_EventTaskRdy
<1>2. \A t \in Tasks \ W : tcb'[t] = tcb[t]
  BY <1>1, Zenon DEF AnsweredTCBs
<1>3. \A t \in Tasks : tcb[t] \in OS_TCB /\ Shape(tcb[t], pc[t], ecb)
  BY DEF KernelInv, Data
<1>4. ASSUME NEW t \in W
      PROVE  t \in Tasks /\ tcb'[t].prio = tcb[t].prio /\ ~InMutexPend(pc[t])
  <2>1. t \in Tasks /\ Unans(tcb[t], pc[t]) /\ e \in pc[t].on
    BY DEF WaitSet
  <2>2. ~InMutexPend(pc[t])
    BY <1>3, <2>1 DEF Shape, SingleShape, InMutexPend
  <2>3. tcb'[t].prio = tcb[t].prio
    <3>1. tcb[t] \in OS_TCB
      BY <1>3, <2>1
    <3> QED
      BY <1>1, <2>1, <3>1, Zenon DEF AnsweredTCBs, OS_TCB
  <2> QED
    BY <2>1, <2>2, <2>3
<1> QED
  BY <1>1, <1>2, <1>4, PriosOfMany

LEMMA PostPrios ==
  ASSUME KernelInv, NEW e \in Events, ecb[e].type # "MUTEX",
         \/ \E msg, all, sched : PostToWaiters(e, msg, all, sched)
         \/ \E all : AbortWaiters(e, all)
         \/ \E always : DeleteEvent(e, always)
  PROVE  PriosStay
<1>1. /\ Waiters(e) \in SUBSET WaitSet(tcb, pc, e)
      /\ OSEventTbl[e] # {} => {HighestWaiter(e)} \in SUBSET WaitSet(tcb, pc, e)
  BY WaitersOf
<1>2. \E W \in SUBSET WaitSet(tcb, pc, e) : \E msg, pend : ReadyWaiters(W, e, msg, pend)
  <2>1. ASSUME NEW msg, NEW all, NEW sched, PostToWaiters(e, msg, all, sched)
        PROVE  \E W \in SUBSET WaitSet(tcb, pc, e) : ReadyWaiters(W, e, msg, "OK")
    BY <1>1, <2>1 DEF PostToWaiters
  <2>2. ASSUME NEW all, AbortWaiters(e, all)
        PROVE  \E W \in SUBSET WaitSet(tcb, pc, e) : ReadyWaiters(W, e, NULL, "ABORT")
    BY <1>1, <2>2 DEF AbortWaiters
  <2>3. ASSUME NEW always, DeleteEvent(e, always)
        PROVE  ReadyWaiters(Waiters(e), e, NULL, "OK")
    BY <2>3 DEF DeleteEvent
  <2> QED
    BY <1>1, <2>1, <2>2, <2>3
<1> QED
  BY <1>2, AnsweredPrios

\* The blocks a call on event e leaves alone.
LEMMA MutexesStayBut ==
  ASSUME PoolsInv, NEW e, NEW m, e \in Events => ecb[e].type # "MUTEX" /\ m.type # "MUTEX",
         ecb' = ecb \/ ecb' = [ecb EXCEPT ![e] = m]
  PROVE  MutexesStay
<1>1. DOMAIN ecb = Events
  BY DEF PoolsInv, EcbShape
<1>2. \A f \in Events \ {e} : ecb'[f] = ecb[f]
  BY <1>1
<1>3. e \in Events /\ ecb' # ecb => ecb'[e] = m
  BY <1>1
<1> QED
  BY <1>2, <1>3 DEF MutexesStay

LEMMA TakeMutexes ==
  ASSUME PoolsInv, NEW S, Take(S)
  PROVE  MutexesStay
BY TakeKeepsKinds DEF MutexesStay, SameKinds

LEMMA AcceptPrios ==
  ASSUME KernelInv, PoolsInv, NEW name, NEW e, NEW type, Accept(name, e, type)
  PROVE  PriosStay /\ MutexesStay
<1>1. Take({e}) /\ (TakeNow({e}) \/ UNCHANGED taskVars)
  BY DEF Accept, TakeNow
<1> QED
  BY <1>1, TakeMutexes, TakeNowPrios, SamePriosStay DEF taskVars

LEMMA PendOnMutexes ==
  ASSUME PoolsInv, NEW svc, NEW e, NEW timeout, PendOn(svc, e, timeout)
  PROVE  MutexesStay
BY TakeMutexes, SameEcb DEF PendOn, TakeNow, eventVars

LEMMA PostMutexes ==
  ASSUME PoolsInv, NEW e \in Events, ecb[e].type # "MUTEX",
         \/ \E msg, all, sched : PostToWaiters(e, msg, all, sched)
         \/ \E all : AbortWaiters(e, all)
         \/ \E always : DeleteEvent(e, always)
  PROVE  MutexesStay
<1>1. ecb' = ecb \/ ecb' = [ecb EXCEPT ![e] = UnusedECB]
  BY DEF PostToWaiters, AbortWaiters, DeleteEvent, eventVars
<1>2. UnusedECB.type # "MUTEX"
  BY DEF UnusedECB
<1> QED
  BY <1>1, <1>2, MutexesStayBut

LEMMA SemPrios ==
  ASSUME KernelInv, PoolsInv, NEW e \in Events, SemCall(e)
  PROVE  PriosStay /\ MutexesStay
<1>1. ASSUME NEW timeout, OSSemPend(e, timeout)
      PROVE  PriosStay /\ MutexesStay
  BY <1>1, CallerPlace, PendOnPrios, PendOnMutexes DEF OSSemPend, CanPend
<1>2. CASE OSSemAccept(e)
  BY <1>2, AcceptPrios DEF OSSemAccept
<1>3. ASSUME ecb[e].type = "SEM", NEW cnt, ecb' = [ecb EXCEPT ![e].cnt = cnt], UNCHANGED taskVars
      PROVE  PriosStay /\ MutexesStay
  <2>1. DOMAIN ecb = Events /\ DOMAIN ecb[e] = {"type", "cnt", "ptr"}
    BY DEF PoolsInv, EcbShape
  <2> DEFINE m == [ecb[e] EXCEPT !.cnt = cnt]
  <2>2. m.type = "SEM"
    BY <1>3, <2>1
  <2>3. ecb' = [ecb EXCEPT ![e] = m]
    BY <1>3
  <2> HIDE DEF m
  <2> QED
    BY <1>3, <2>2, <2>3, MutexesStayBut, SamePriosStay DEF taskVars
<1>4. CASE OSSemPost(e)
  BY <1>3, <1>4, PostPrios, PostMutexes DEF OSSemPost
<1>5. ASSUME NEW cnt, OSSemSet(e, cnt)
      PROVE  PriosStay /\ MutexesStay
  BY <1>3, <1>5 DEF OSSemSet
<1>6. ASSUME NEW all, OSSemPendAbort(e, all) \/ OSSemDel(e, all)
      PROVE  PriosStay /\ MutexesStay
  BY <1>6, PostPrios, PostMutexes DEF OSSemPendAbort, OSSemDel
<1> QED
  BY <1>1, <1>2, <1>4, <1>5, <1>6 DEF SemCall

LEMMA MboxPrios ==
  ASSUME KernelInv, PoolsInv, NEW e \in Events, MboxCall(e)
  PROVE  PriosStay /\ MutexesStay
<1>1. ASSUME NEW timeout, OSMboxPend(e, timeout)
      PROVE  PriosStay /\ MutexesStay
  BY <1>1, CallerPlace, PendOnPrios, PendOnMutexes DEF OSMboxPend, CanPend
<1>2. CASE OSMboxAccept(e)
  BY <1>2, AcceptPrios DEF OSMboxAccept
<1>3. ASSUME ecb[e].type = "MBOX", NEW msg, ecb' = [ecb EXCEPT ![e].ptr = msg], UNCHANGED taskVars
      PROVE  PriosStay /\ MutexesStay
  <2>1. DOMAIN ecb = Events /\ DOMAIN ecb[e] = {"type", "cnt", "ptr"}
    BY DEF PoolsInv, EcbShape
  <2> DEFINE m == [ecb[e] EXCEPT !.ptr = msg]
  <2>2. m.type = "MBOX"
    BY <1>3, <2>1
  <2>3. ecb' = [ecb EXCEPT ![e] = m]
    BY <1>3
  <2> HIDE DEF m
  <2> QED
    BY <1>3, <2>2, <2>3, MutexesStayBut, SamePriosStay DEF taskVars
<1>4. ASSUME NEW msg, NEW all, NEW sched, OSMboxPostOpt(e, msg, all, sched)
      PROVE  PriosStay /\ MutexesStay
  BY <1>3, <1>4, PostPrios, PostMutexes DEF OSMboxPostOpt
<1>5. ASSUME NEW all, OSMboxPendAbort(e, all) \/ OSMboxDel(e, all)
      PROVE  PriosStay /\ MutexesStay
  BY <1>5, PostPrios, PostMutexes DEF OSMboxPendAbort, OSMboxDel
<1> QED
  BY <1>1, <1>2, <1>4, <1>5 DEF MboxCall, OSMboxPost

LEMMA QPrios ==
  ASSUME KernelInv, PoolsInv, NEW e \in Events, QCall(e)
  PROVE  PriosStay /\ MutexesStay
<1>1. ASSUME NEW timeout, OSQPend(e, timeout)
      PROVE  PriosStay /\ MutexesStay
  BY <1>1, CallerPlace, PendOnPrios, PendOnMutexes DEF OSQPend, CanPend
<1>2. CASE OSQAccept(e)
  BY <1>2, AcceptPrios DEF OSQAccept
<1>3. CASE OSQFlush(e)
  BY <1>3, SamePriosStay, SameEcb DEF OSQFlush, taskVars
<1>4. ASSUME NEW msg, NEW front, NEW all, NEW sched, OSQPostOpt(e, msg, front, all, sched)
      PROVE  PriosStay /\ MutexesStay
  <2>1. CASE UNCHANGED taskVars /\ ecb' = ecb
    BY <2>1, SamePriosStay, SameEcb DEF taskVars
  <2>2. CASE PostToWaiters(e, msg, all, sched)
    BY <1>4, <2>2, PostPrios, PostMutexes DEF OSQPostOpt
  <2> QED
    BY <1>4, <2>1, <2>2 DEF OSQPostOpt
<1>5. ASSUME NEW all, OSQPendAbort(e, all) \/ OSQDel(e, all)
      PROVE  PriosStay /\ MutexesStay
  BY <1>5, PostPrios, PostMutexes DEF OSQPendAbort, OSQDel
<1> QED
  BY <1>1, <1>2, <1>3, <1>4, <1>5 DEF QCall, OSQPost, OSQPostFront

LEMMA EventsPrios ==
  ASSUME KernelInv, PoolsInv, EventsNext
  PROVE  PriosStay /\ MutexesStay
<1>1. ASSUME NEW type, NEW cnt, NEW ptr, type # "MUTEX", CreateEvent(type, cnt, ptr)
      PROVE  PriosStay /\ MutexesStay
  <2> DEFINE m == [type |-> type, cnt |-> cnt, ptr |-> ptr]
             e == Head(OSEventFreeList)
  <2>1. e \in Events /\ ecb[e].type = "UNUSED"
    BY <1>1, NextEvent DEF CreateEvent
  <2>2. ecb' = [ecb EXCEPT ![e] = m] /\ tcb' = tcb /\ pc' = pc
    BY <1>1 DEF CreateEvent
  <2>3. m.type # "MUTEX"
    BY <1>1
  <2> HIDE DEF m, e
  <2> QED
    BY <2>1, <2>2, <2>3, MutexesStayBut, SamePriosStay
<1>2. CASE \/ \E cnt \in 0..SemMax : OSSemCreate(cnt)
           \/ \E msg \in Msgs \cup {NULL} : OSMboxCreate(msg)
           \/ OSQCreate
  BY <1>1, <1>2 DEF OSSemCreate, OSMboxCreate, OSQCreate
<1>3. CASE \E e \in Events : SemCall(e) \/ MboxCall(e) \/ QCall(e)
  BY <1>3, SemPrios, MboxPrios, QPrios
<1>4. ASSUME NEW S, NEW timeout, OSEventPendMulti(S, timeout)
      PROVE  PriosStay /\ MutexesStay
  <2>1. PriosStay
    BY <1>4, CallerPlace, PendMultiPrios DEF OSEventPendMulti
  <2>2. MutexesStay
    BY <1>4, TakeMutexes, SameEcb DEF OSEventPendMulti, TakeNow, eventVars
  <2> QED
    BY <2>1, <2>2
<1> QED
  BY <1>2, <1>3, <1>4 DEF EventsNext

LEMMA EndOfWaitPrio ==
  ASSUME NEW c \in OS_TCB, NEW n
  PROVE  /\ [c EXCEPT !.dly = n].prio = c.prio
         /\ EndOfWait([c EXCEPT !.dly = n]).prio = c.prio
<1> DEFINE d == [c EXCEPT !.dly = n]
<1>1. d.prio = c.prio /\ "prio" \in DOMAIN d
  BY DEF OS_TCB
<1> HIDE DEF d
<1>2. EndOfWait(d).prio = d.prio
  BY <1>1 DEF EndOfWait
<1> QED
  BY <1>1, <1>2 DEF d

LEMMA TasksPrios ==
  ASSUME KernelInv, Hazards = {}, TasksNext, NotesKept, ecb' = ecb, holds' = holds,
         "OSTaskChangePrio" \notin calls
  PROVE  PriosStay
<1>1. tcb \in [Tasks -> OS_TCB] /\ DOMAIN tcb = Tasks
  BY DEF KernelInv, Data
<1>2. WaitsStay /\ (\A t \in Tasks : tcb'[t].prio = tcb[t].prio) => PriosStay
  BY PriosOfMany DEF WaitsStay
<1>3. ASSUME NEW x \in Tasks, NEW c, c.prio = tcb[x].prio, tcb' = [tcb EXCEPT ![x] = c]
      PROVE  \A t \in Tasks : tcb'[t].prio = tcb[t].prio
  BY <1>1, <1>3
<1>4. CASE OSTimeTick
  <2>1. WaitsStay
    BY <1>4, OSTimeTickKernel
  <2>2. ASSUME NEW t \in Tasks
        PROVE  tcb'[t].prio = tcb[t].prio
    <3> DEFINE c == [tcb[t] EXCEPT !.dly = tcb[t].dly - 1]
    <3>1. tcb'[t] = tcb[t] \/ tcb'[t] = c \/ tcb'[t] = EndOfWait(c)
      BY <1>4 DEF OSTimeTick
    <3>2. c.prio = tcb[t].prio /\ EndOfWait(c).prio = tcb[t].prio
      BY <1>1, EndOfWaitPrio
    <3> HIDE DEF c
    <3> QED
      BY <3>1, <3>2
  <2> QED
    BY <1>2, <2>1, <2>2
<1>5. CASE TaskStep
  <2>1. pc' = [pc EXCEPT ![OSTCBCur] = InTask] /\ tcb' = tcb
    BY <1>5 DEF TaskStep
  <2>2. ~InMutexPend(InTask)
    BY DEF InMutexPend, InTask
  <2> DEFINE c == tcb[OSTCBCur]
  <2>3. c.prio = tcb[OSTCBCur].prio
    OBVIOUS
  <2> HIDE DEF c
  <2> QED
    BY <2>1, <2>2, <2>3, PriosOfOneTask
<1>6. ASSUME NEW ticks \in 1..MaxDly, OSTimeDly(ticks)
      PROVE  PriosStay
  <2> DEFINE c == [tcb[OSTCBCur] EXCEPT !.dly = ticks]
  <2>1. OSTCBCur \in Tasks /\ tcb' = [tcb EXCEPT ![OSTCBCur] = c]
    BY <1>6 DEF OSTimeDly, TaskCall
  <2>2. c.prio = tcb[OSTCBCur].prio
    BY <1>1, <2>1, EndOfWaitPrio
  <2> HIDE DEF c
  <2>3. \A t \in Tasks : tcb'[t].prio = tcb[t].prio
    BY <1>3, <2>1, <2>2
  <2> QED
    BY <1>2, <1>6, <2>3, OSTimeDlyKernel
<1>7. ASSUME NEW p \in Prios, OSTimeDlyResume(p)
      PROVE  PriosStay
  <2> DEFINE x == OSTCBPrioTbl[p]
             c == EndOfWait([tcb[x] EXCEPT !.dly = 0])
  <2>1. x \in Tasks /\ tcb' = [tcb EXCEPT ![x] = c]
    BY <1>7 DEF OSTimeDlyResume
  <2>2. c.prio = tcb[x].prio
    BY <1>1, <2>1, EndOfWaitPrio
  <2> HIDE DEF c, x
  <2>3. \A t \in Tasks : tcb'[t].prio = tcb[t].prio
    BY <1>3, <2>1, <2>2
  <2> QED
    BY <1>2, <1>7, <2>3, OSTimeDlyResumeKernel
<1>8. ASSUME NEW p \in Prios, OSTaskSuspend(p) \/ OSTaskResume(p)
      PROVE  PriosStay
  <2> DEFINE x == OSTCBPrioTbl[p]
  <2>1. PICK s : x \in Tasks /\ tcb' = [tcb EXCEPT ![x].stat = s]
    BY <1>8 DEF OSTaskSuspend, OSTaskResume
  <2> DEFINE c == [tcb[x] EXCEPT !.stat = s]
  <2>2. c.prio = tcb[x].prio
    BY <1>1, <2>1 DEF OS_TCB
  <2>3. tcb' = [tcb EXCEPT ![x] = c]
    BY <2>1
  <2> HIDE DEF c, x
  <2>4. \A t \in Tasks : tcb'[t].prio = tcb[t].prio
    BY <1>3, <2>1, <2>2, <2>3
  <2>5. CASE OSTaskSuspend(p)
    BY <1>2, <2>4, <2>5, OSTaskSuspendKernel
  <2>6. CASE OSTaskResume(p)
    BY <1>2, <2>4, <2>6, OSTaskResumeKernel
  <2> QED
    BY <1>8, <2>5, <2>6
<1>9. CASE OSSchedLock \/ OSSchedUnlock
  BY <1>9, SamePriosStay DEF OSSchedLock, OSSchedUnlock
<1>10. ASSUME NEW p, NEW q, OSTaskChangePrio(p, q)
       PROVE  FALSE
  BY <1>10 DEF OSTaskChangePrio, TaskCall
<1> QED
  BY <1>4, <1>5, <1>6, <1>7, <1>8, <1>9, <1>10 DEF TasksNext

\* The tasks that a flag group answers are inside OSFlagPend.
LEMMA ReadyFlagsPrios ==
  ASSUME KernelInv, NodesInv, NEW W, NEW rdy, OS_FlagTaskRdy(W, rdy),
         NEW g \in FlagGrps, W \subseteq OSFlagTbl[g].waitlist
  PROVE  PriosStay
<1>1. tcb \in [Tasks -> OS_TCB]
  BY DEF KernelInv, Data
<1>2. /\ tcb' = [t \in Tasks |-> IF t \in W
           THEN [tcb[t] EXCEPT !.dly = 0, !.stat = @ \ {"FLAG"}, !.statpend = "OK"] ELSE tcb[t]]
      /\ pc' = pc
  BY Zenon DEF OS_FlagTaskRdy
<1>3. ASSUME NEW t \in Tasks
      PROVE  tcb'[t].prio = tcb[t].prio
  <2>1. tcb[t] \in OS_TCB
    BY <1>1
  <2> QED
    BY <1>2, <2>1, Zenon DEF OS_TCB
<1>4. ASSUME NEW t \in Tasks, t \in W
      PROVE  ~InMutexPend(pc[t])
  <2>1. FlagWaits(tcb[t], pc[t])
    BY <1>4 DEF NodesInv, NodesOK
  <2> QED
    BY <2>1 DEF FlagWaits, InFlagPend, InMutexPend
<1>5. \A t \in Tasks : t \notin W => tcb'[t] = tcb[t]
  BY <1>2, Zenon
<1> QED
  BY <1>2, <1>3, <1>4, <1>5, PriosOfMany, Zenon

LEMMA FlagsPrios ==
  ASSUME KernelInv, NodesInv, FlagsNext
  PROVE  PriosStay
<1>1. tcb \in [Tasks -> OS_TCB]
  BY DEF KernelInv, Data
<1>2. ASSUME UNCHANGED taskVars
      PROVE  PriosStay
  BY <1>2, SamePriosStay DEF taskVars
<1>3. ASSUME NEW g, NEW wanted, NEW type, NEW consume, NEW timeout, TaskCall("OSFlag"),
             OS_FlagBlock(g, wanted, type, consume, timeout)
      PROVE  PriosStay
  <2> DEFINE x == OSTCBCur
             c == WaitingTCB(tcb[x], {"FLAG"}, timeout)
             k == Pending("OSFlagPend", {})
  <2>1. x \in Tasks /\ tcb' = [tcb EXCEPT ![x] = c] /\ pc' = [pc EXCEPT ![x] = k]
    BY <1>3 DEF OS_FlagBlock, TaskCall
  <2>2. c.prio = tcb[x].prio
    BY <1>1, <2>1, WaitingPrio
  <2>3. ~InMutexPend(k)
    BY DEF Pending, InMutexPend
  <2> HIDE DEF c, k
  <2> QED
    BY <2>1, <2>2, <2>3, PriosOfOneTask
<1>4. CASE FlagPendReturns
  <2> DEFINE x == OSTCBCur
             c == [tcb[x] EXCEPT !.stat = OS_STAT_RDY, !.statpend = "OK"]
  <2>1. x \in Tasks /\ pc' = [pc EXCEPT ![x] = InTask]
    BY <1>4 DEF FlagPendReturns
  <2>2. tcb' = tcb \/ tcb' = [tcb EXCEPT ![x] = c]
    BY <1>1, <1>4, <2>1 DEF FlagPendReturns, FlagPendTimedOut, FlagPendAnswered
  <2>3. c.prio = tcb[x].prio
    <3>1. tcb[x] \in OS_TCB
      BY <1>1, <2>1
    <3> QED
      BY <3>1 DEF OS_TCB
  <2>4. ~InMutexPend(InTask)
    BY DEF InMutexPend, InTask
  <2> HIDE DEF c
  <2> QED
    BY <2>1, <2>2, <2>3, <2>4, PriosOfOneTask
<1>5. ASSUME NEW flags, OSFlagCreate(flags)
      PROVE  PriosStay
  BY <1>2, <1>5 DEF OSFlagCreate
<1>6. ASSUME NEW g, NEW wanted, NEW type, NEW consume,
             \/ OSFlagAccept(g, wanted, type, consume)
             \/ \E timeout : OSFlagPend(g, wanted, type, consume, timeout)
      PROVE  PriosStay
  <2>1. CASE TakeFlags(g, wanted, type, consume)
    BY <1>2, <2>1 DEF TakeFlags
  <2> QED
    BY <1>3, <1>6, <2>1 DEF OSFlagAccept, OSFlagPend
<1>7. ASSUME NEW g \in FlagGrps, NEW bits, NEW set, OSFlagPost(g, bits, set)
      PROVE  PriosStay
  <2> DEFINE flags == IF set THEN OSFlagTbl[g].flags \cup bits ELSE OSFlagTbl[g].flags \ bits
             W == AnsweredBy(g, flags)
             rdy == [t \in W |-> FlagsRdy(flags, node[t].flags, node[t].type)]
  <2>1. OS_FlagTaskRdy(W, rdy)
    BY <1>7 DEF OSFlagPost
  <2>2. W \subseteq OSFlagTbl[g].waitlist
    BY DEF AnsweredBy
  <2> HIDE DEF W, rdy
  <2> QED
    BY <2>1, <2>2, ReadyFlagsPrios
<1>8. ASSUME NEW g \in FlagGrps, NEW always, OSFlagDel(g, always)
      PROVE  PriosStay
  <2> DEFINE W == OSFlagTbl[g].waitlist
             rdy == [t \in W |-> {}]
  <2>1. OS_FlagTaskRdy(W, rdy)
    BY <1>8 DEF OSFlagDel
  <2> HIDE DEF rdy
  <2> QED
    BY <2>1, ReadyFlagsPrios
<1> QED
  BY <1>4, <1>5, <1>6, <1>7, <1>8 DEF FlagsNext

LEMMA ReturnsPrios ==
  ASSUME KernelInv, PendReturns
  PROVE  PriosStay /\ MutexesStay
<1>1. ecb' = ecb /\ OSTCBCur \in Tasks
  BY DEF PendReturns, eventVars
<1> SUFFICES PriosStay
  BY <1>1, SameEcb
<1>2. ASSUME NEW err, NEW got, pc' = [pc EXCEPT ![OSTCBCur] = Returned(err, got)],
             tcb' = tcb \/ LeavePend(err, got)
      PROVE  PriosStay
  <2> DEFINE k == Returned(err, got)
             c == [tcb[OSTCBCur] EXCEPT !.stat = OS_STAT_RDY, !.statpend = "OK",
                     !.eventptr = NULL, !.multiptr = {}, !.msg = NULL]
  <2>1. tcb' = tcb \/ tcb' = [tcb EXCEPT ![OSTCBCur] = c]
    BY <1>2 DEF LeavePend
  <2>2. ~InMutexPend(k)
    BY DEF InMutexPend, Returned
  <2>3. c.prio = tcb[OSTCBCur].prio
    <3>1. tcb[OSTCBCur] \in OS_TCB
      BY <1>1 DEF KernelInv, Data
    <3> QED
      BY <3>1 DEF OS_TCB
  <2>4. pc' = [pc EXCEPT ![OSTCBCur] = k]
    BY <1>2
  <2> HIDE DEF c, k
  <2> QED
    BY <2>1, <2>2, <2>3, <2>4, PriosOfOneTask
<1>3. ASSUME NEW err, NEW got, LeavePend(err, got)
      PROVE  PriosStay
  BY <1>2, <1>3 DEF LeavePend
<1>4. CASE PendTimedOut
  BY <1>3, <1>4 DEF PendTimedOut
<1>5. CASE PendTail
  BY <1>3, <1>4, <1>5 DEF PendTail
<1>6. CASE PendMultiTail
  BY <1>2, <1>3, <1>4, <1>6 DEF PendMultiTail
<1>7. CASE ~SwitchReturns
  BY <1>2, <1>7 DEF PendReturns
<1> QED
  BY <1>5, <1>6, <1>7 DEF PendReturns

\* A task that is deleted owns no mutex: it has the priority it starts with
\* the next time.
LEMMA DeletedPrios ==
  ASSUME KernelInv, BasePrios(tcb, ecb), NEW x \in Tasks,
         ~OwnsMutex(x), NEW k, ~InMutexPend(k),
         tcb' = [tcb EXCEPT ![x] = NewTCB(InitPrio[x])], pc' = [pc EXCEPT ![x] = k]
  PROVE  PriosStay
<1>1. NewTCB(InitPrio[x]).prio = InitPrio[x]
  BY DEF NewTCB
<1>2. \A e \in Mutexes(ecb) : ecb[e].ptr # x
  BY DEF OwnsMutex, IsMutex, Owner, Mutexes
<1>3. tcb[x].prio = InitPrio[x]
  BY <1>2 DEF BasePrios
<1> DEFINE c == NewTCB(InitPrio[x])
<1>4. c.prio = tcb[x].prio /\ tcb' = [tcb EXCEPT ![x] = c]
  BY <1>1, <1>3
<1> HIDE DEF c
<1> QED
  BY <1>4, PriosOfOneTask

LEMMA DeleteTaskPrios ==
  ASSUME KernelInv, BasePrios(tcb, ecb), NEW p, DeleteTask(p)
  PROVE  PriosStay
<1> DEFINE x == OSTCBPrioTbl[p]
<1>1. /\ x \in Tasks /\ ~OwnsMutex(x) /\ tcb' = [tcb EXCEPT ![x] = NewTCB(InitPrio[x])]
      /\ pc' = [pc EXCEPT ![x] = Dormant]
  BY DEF DeleteTask, OSTaskDel
<1>2. ~InMutexPend(Dormant)
  BY DEF InMutexPend, Dormant
<1> HIDE DEF x
<1> QED
  BY <1>1, <1>2, DeletedPrios

LEMMA CreateTaskPrios ==
  ASSUME KernelInv, BasePrios(tcb, ecb), NEW x \in Tasks, CreateTask(x)
  PROVE  PriosStay
<1>1. /\ ~Exists(x) /\ tcb' = [tcb EXCEPT ![x] = NewTCB(InitPrio[x])]
      /\ pc' = [pc EXCEPT ![x] = InTask]
  BY DEF CreateTask, OSTaskCreate
<1>2. ~InMutexPend(InTask)
  BY DEF InMutexPend, InTask
<1>3. x \notin LiveSet(pc)
  BY <1>1 DEF Exists, LiveSet, Live
<1>4. ~OwnsMutex(x)
  BY <1>3, Constants DEF KernelInv, OwnersOK, FreeMutex, OwnedMutex, OwnsMutex, IsMutex, Owner, Mutexes
<1> QED
  BY <1>1, <1>2, <1>4, DeletedPrios
-----------------------------------------------------------------------------
(* The steps of the mutexes *)

\* A task that waits owns nothing.
LEMMA WaiterOwnsNone ==
  ASSUME KernelInv, NEW t \in Tasks, Unans(tcb[t], pc[t])
  PROVE  \A f \in Mutexes(ecb) : ecb[f].ptr # t
<1>1. pc[t].at = "pend" /\ HoldsOK(tcb, pc, ecb, holds)
  BY DEF Unans, KernelInv
<1>2. holds[t] = {} /\ \A f : ~Got(tcb[t], pc[t], f)
  BY <1>1 DEF HoldsOK, Got
<1> QED
  BY <1>1, <1>2 DEF HoldsOK

\* Nor does one that runs and holds nothing.
LEMMA CallerOwnsNone ==
  ASSUME KernelInv, TaskCall("OSMutex"), holds[OSTCBCur] = {}
  PROVE  \A f \in Mutexes(ecb) : ecb[f].ptr # OSTCBCur
<1>1. pc[OSTCBCur] = InTask /\ OSTCBCur \in Tasks /\ HoldsOK(tcb, pc, ecb, holds)
  BY DEF TaskCall, KernelInv
<1>2. \A f : ~Got(tcb[OSTCBCur], pc[OSTCBCur], f)
  BY <1>1 DEF Got, InTask
<1> QED
  BY <1>1, <1>2 DEF HoldsOK

LEMMA CreateMutexCeil ==
  ASSUME KernelInv, PoolsInv, BasePrios(tcb, ecb), OwnersAbove(tcb, pc, ecb),
         NEW pcp \in PCPs, OSMutexCreate(pcp)
  PROVE  BasePrios(tcb', ecb') /\ OwnersAbove(tcb', pc', ecb')
<1> DEFINE e == Head(OSEventFreeList)
<1>1. e \in Events /\ ecb[e].type = "UNUSED"
  BY NextEvent DEF OSMutexCreate
<1>2. /\ ecb' = [ecb EXCEPT ![e] = [type |-> "MUTEX", cnt |-> MutexCnt(pcp, 255), ptr |-> NULL]]
      /\ tcb' = tcb /\ pc' = pc
  BY DEF OSMutexCreate, OS_MUTEX_AVAILABLE
<1> HIDE DEF e
<1>3. pcp \in 0..255 /\ 255 \in 0..255
  BY CeilIsPrio
<1>4. MutexIs(ecb'[e], pcp, 255, NULL) /\ OthersKept(e, ecb, ecb')
  <2>1. MutexSet(e, pcp, 255, NULL, ecb, ecb')
    BY <1>2 DEF MutexSet
  <2> QED
    BY <1>1, <1>3, <2>1, SetMutex, Zenon
<1>5. WaitSet(tcb, pc, e) = {}
  BY <1>1, UnusedEvent DEF KernelInv
<1>6. /\ e \notin Mutexes(ecb) /\ ecb'[e].ptr \notin Tasks
      /\ Mutexes(ecb') = Mutexes(ecb) \cup {e} /\ \A f \in Mutexes(ecb) : ecb'[f] = ecb[f]
  BY <1>1, <1>4, Constants DEF Mutexes, MutexIs, OthersKept
<1>7. BasePrios(tcb, ecb')
  BY <1>6 DEF BasePrios
<1>8. OwnersAbove(tcb, pc, ecb')
  BY <1>5, <1>6 DEF OwnersAbove
<1> QED
  BY <1>2, <1>7, <1>8

LEMMA TakeMutexCeil ==
  ASSUME KernelInv, PoolsInv, BasePrios(tcb, ecb), OwnersAbove(tcb, pc, ecb), NEW e \in Events,
         TaskCall("OSMutex"), IsMutex(e), holds[OSTCBCur] = {}, TakeMutex(e)
  PROVE  BasePrios(tcb', ecb') /\ OwnersAbove(tcb', pc', ecb')
<1> DEFINE x == OSTCBCur
           k == Returned("NONE", {<<e, NULL>>})
<1>1. x \in Tasks /\ tcb[x].prio \in Prios /\ DOMAIN pc = Tasks
  BY CurrentRuns DEF Cur, TaskCall, KernelInv, Data
<1>2. e \in Mutexes(ecb) /\ Saved(ecb[e]) = 255
  BY OwnersAre DEF TakeMutex, OS_MUTEX_AVAILABLE
<1>3. ecb[e].ptr \notin Tasks /\ WaitSet(tcb, pc, e) = {} /\ Ceil(ecb[e]) \in PCPs
  <2>1. OwnersOK(tcb, pc, ecb)
    BY DEF KernelInv
  <2>2. 255 \notin Prios
    BY TasksAssumption
  <2> QED
    BY <1>2, <2>1, <2>2, Constants DEF OwnersOK, FreeMutex, OwnedMutex
<1>4. /\ ecb' = [ecb EXCEPT ![e].cnt = MutexCnt(Ceil(ecb[e]), tcb[x].prio), ![e].ptr = x]
      /\ pc' = [pc EXCEPT ![x] = k] /\ tcb' = tcb
  BY OwnersAre DEF TakeMutex, GiveMutex
<1>5. ~Unans(tcb[x], k)
  BY DEF Unans, Returned
<1>6. tcb[x].prio = InitPrio[x]
  BY <1>1, CallerOwnsNone DEF BasePrios
<1> HIDE DEF x, k
<1>7. MutexIs(ecb'[e], Ceil(ecb[e]), tcb[x].prio, x) /\ OthersKept(e, ecb, ecb')
  <2>1. Ceil(ecb[e]) \in 0..255
    BY <1>3, CeilIsPrio
  <2>2. Prios \subseteq 0..255
    BY TasksAssumption
  <2>3. tcb[x].prio \in 0..255 /\ ecb[e].type = "MUTEX"
    BY <1>1, <2>2 DEF IsMutex
  <2>4. MutexSet(e, Ceil(ecb[e]), tcb[x].prio, x, ecb, ecb')
    BY <1>4, <2>3 DEF MutexSet
  <2> QED
    BY <2>1, <2>3, <2>4, SetMutex, Zenon
<1>8. /\ Mutexes(ecb') = Mutexes(ecb) /\ \A f \in Mutexes(ecb) \ {e} : ecb'[f] = ecb[f]
      /\ ecb'[e].ptr = x /\ Saved(ecb'[e]) = InitPrio[x]
  BY <1>2, <1>6, <1>7 DEF Mutexes, MutexIs, OthersKept
<1>9. \A f : WaitSet(tcb, pc', f) \subseteq WaitSet(tcb, pc, f)
  BY <1>1, <1>4, <1>5 DEF WaitSet
<1>10. BasePrios(tcb, ecb')
  BY <1>3, <1>8 DEF BasePrios
<1>11. OwnersAbove(tcb, pc', ecb')
  BY <1>3, <1>8, <1>9 DEF OwnersAbove
<1> QED
  BY <1>4, <1>10, <1>11

\* The owner of e, raised for the running task, is above all that waited
\* already: the ceiling is above what it had.
LEMMA PromotedCeil ==
  ASSUME KernelInv, BasePrios(tcb, ecb), OwnersAbove(tcb, pc, ecb), NEW e \in Events,
         IsMutex(e), OwnerPrio(e) # 255
  PROVE  BasePrios(PromotedTCBs(e), ecb) /\ OwnersAbove(PromotedTCBs(e), pc, ecb)
<1> DEFINE o == ecb[e].ptr
           c == Ceil(ecb[e])
           T == PromotedTCBs(e)
<1>1. /\ Data(OSRdy, OSEventTbl, tcb, pc, ecb) /\ OwnersOK(tcb, pc, ecb)
      /\ HoldsOK(tcb, pc, ecb, holds)
  BY DEF KernelInv
<1>2. e \in Mutexes(ecb) /\ Owner(e) = o /\ PCP(e) = c /\ Saved(ecb[e]) # 255
      /\ (HasCeiling(e) <=> c # 255)
  BY OwnersAre
<1>3. OwnedMutex(ecb[e], tcb, pc)
  BY <1>1, <1>2 DEF OwnersOK, FreeMutex
<1>4. o \in LiveSet(pc) /\ o \in Tasks
  BY <1>3 DEF OwnedMutex, LiveSet
<1>5. ~Unans(tcb[o], pc[o])
  BY <1>1, <1>2, <1>4, OwnerAwake
<1>6. tcb \in [Tasks -> OS_TCB] /\ \A t \in Tasks : Shape(tcb[t], pc[t], ecb)
  BY <1>1 DEF Data
<1>7. CASE ~MustPromote(e)
  <2>1. T = tcb
    BY <1>6, <1>7 DEF PromotedTCBs
  <2> QED
    BY <2>1
<1>8. CASE MustPromote(e)
  <2>1. c # 255 /\ c < tcb[o].prio
    <3>1. c \in Nat
      <4>1. c \in PCPs
        BY <1>1, <1>2 DEF OwnersOK
      <4> QED
        BY <4>1, CeilIsPrio
    <3>2. tcb[o].prio \in Nat
      BY <1>4, <1>6, IdleIsApart DEF OS_TCB
    <3>3. c # 255 /\ tcb[o].prio > c
      BY <1>2, <1>8 DEF MustPromote
    <3> HIDE DEF c
    <3> QED
      BY <3>1, <3>2, <3>3
  <2>2. T = [t \in Tasks |-> IF t = o THEN [tcb[t] EXCEPT !.prio = c] ELSE tcb[t]]
    BY <1>2, <1>8 DEF PromotedTCBs
  <2>3. \A f \in Mutexes(ecb) : ecb[f].ptr = o => f = e
    BY <1>1, <1>2, <1>4, <1>6, OwnsOne DEF o
  <2>4. ecb[e].ptr = o /\ Ceil(ecb[e]) = c
    BY DEF o, c
  <2> HIDE DEF T, o, c
  <2>5. T[o].prio = c /\ PendBits(T[o]) = PendBits(tcb[o]) /\ T[o].statpend = tcb[o].statpend
        /\ T[o].multiptr = tcb[o].multiptr /\ T[o].eventptr = tcb[o].eventptr
    BY <1>4, <1>6, <2>2 DEF OS_TCB, PendBits
  <2>6. \A t \in Tasks \ {o} : T[t] = tcb[t]
    BY <2>2
  <2>7. ~Unans(T[o], pc[o])
    BY <1>5, <2>5 DEF Unans
  <2>8. RaisedIn(ecb[e], T)
    BY <1>4, <2>1, <2>4, <2>5 DEF RaisedIn
  <2>9. BasePrios(T, ecb)
    <3>1. ASSUME NEW t \in Tasks, T[t].prio # InitPrio[t]
          PROVE  \E f \in Mutexes(ecb) : ecb[f].ptr = t /\ RaisedIn(ecb[f], T)
      <4>1. CASE t = o
        BY <1>2, <2>4, <2>8, <4>1
      <4>2. CASE t # o
        <5>1. T[t] = tcb[t]
          BY <2>6, <4>2
        <5>2. PICK f \in Mutexes(ecb) : ecb[f].ptr = t /\ RaisedIn(ecb[f], tcb)
          BY <3>1, <5>1 DEF BasePrios
        <5>3. RaisedIn(ecb[f], T)
          BY <5>1, <5>2 DEF RaisedIn
        <5> QED
          BY <5>2, <5>3
      <4> QED
        BY <4>1, <4>2
    <3> QED
      BY <3>1 DEF BasePrios
  <2>10. ASSUME NEW f \in Mutexes(ecb), Ceil(ecb[f]) # 255, NEW t \in WaitSet(T, pc, f)
         PROVE  T[ecb[f].ptr].prio < T[t].prio
    <3>1. t \in Tasks \ {o} /\ T[t] = tcb[t] /\ t \in WaitSet(tcb, pc, f)
      BY <2>6, <2>7, <2>10 DEF WaitSet
    <3>2. tcb[ecb[f].ptr].prio < tcb[t].prio
      BY <2>10, <3>1 DEF OwnersAbove
    <3>3. CASE f = e
      <4>1. tcb[o].prio < tcb[t].prio
        BY <2>4, <3>2, <3>3
      <4>2. tcb[o].prio \in Nat /\ tcb[t].prio \in Nat /\ c \in Nat
        <5>1. tcb[o].prio \in Nat /\ tcb[t].prio \in Nat
          BY <1>4, <1>6, <3>1, IdleIsApart DEF OS_TCB
        <5>2. c \in PCPs
          BY <1>1, <1>2, <2>4 DEF OwnersOK
        <5>3. c \in Nat
          BY <5>2, CeilIsPrio
        <5> QED
          BY <5>1, <5>3
      <4>3. c < tcb[t].prio
        BY <2>1, <4>1, <4>2
      <4> QED
        BY <2>4, <2>5, <3>1, <3>3, <4>3
    <3>4. CASE f # e
      <4>1. ecb[f].ptr \in Tasks
        BY <1>1, <3>1 DEF OwnersOK, OwnedMutex, LiveSet
      <4>2. T[ecb[f].ptr] = tcb[ecb[f].ptr]
        BY <2>3, <2>6, <3>4, <4>1
      <4> QED
        BY <3>1, <3>2, <4>2
    <3> QED
      BY <3>3, <3>4
  <2> QED
    BY <2>9, <2>10 DEF OwnersAbove, T
<1> QED
  BY <1>7, <1>8

\* The owner of e is above the running task, raised or not: the priority that
\* the mutex has saved is the owner's own.
LEMMA PromotedAboveCaller ==
  ASSUME KernelInv, BasePrios(tcb, ecb), NEW e \in Events, IsMutex(e), OwnerPrio(e) # 255,
         HasCeiling(e), NEW x \in Tasks, x = OSTCBCur, Owner(e) # x, tcb[x].prio = InitPrio[x]
  PROVE  PromotedTCBs(e)[Owner(e)].prio < tcb[x].prio
<1> DEFINE o == ecb[e].ptr
           c == Ceil(ecb[e])
           s == Saved(ecb[e])
<1>1. /\ Data(OSRdy, OSEventTbl, tcb, pc, ecb) /\ OwnersOK(tcb, pc, ecb)
  BY DEF KernelInv
<1>2. e \in Mutexes(ecb) /\ Owner(e) = o /\ PCP(e) = c /\ s # 255 /\ OwnerPrio(e) = s /\ c # 255
  BY OwnersAre
<1>3. OwnedMutex(ecb[e], tcb, pc) /\ c \in PCPs
  BY <1>1, <1>2 DEF OwnersOK, FreeMutex
<1>4. o \in Tasks /\ (tcb[o].prio = c \/ tcb[o].prio = s)
  BY <1>3 DEF OwnedMutex, LiveSet, RaisedIn
<1>5. s = InitPrio[o]
  BY <1>2, <1>4 DEF BasePrios
<1>6. tcb \in [Tasks -> OS_TCB] /\ Cur = tcb[x]
  BY <1>1 DEF Data, Cur
<1>7. PromotedTCBs(e)[o].prio = IF MustPromote(e) THEN c ELSE tcb[o].prio
  <2>1. PromotedTCBs(e)[o] = IF MustPromote(e) THEN [tcb[o] EXCEPT !.prio = c] ELSE tcb[o]
    BY <1>2, <1>4 DEF PromotedTCBs
  <2> HIDE DEF o, c
  <2> QED
    BY <1>4, <1>6, <2>1 DEF OS_TCB
<1>8. MustPromote(e) <=> tcb[o].prio > c /\ s > tcb[x].prio
  BY <1>2, <1>6 DEF MustPromote
<1> HIDE DEF o, c, s
<1>9. c < InitPrio[o] /\ c < InitPrio[x]
  BY <1>2, <1>3, <1>4, MutexAssumption
<1>10. InitPrio[o] # InitPrio[x] /\ InitPrio[o] \in Nat /\ InitPrio[x] \in Nat /\ c \in Nat
  <2>1. InitPrio[o] # InitPrio[x]
    BY <1>2, <1>4, TasksAssumption
  <2>2. InitPrio[o] \in Prios /\ InitPrio[x] \in Prios
    BY <1>4, TasksAssumption
  <2>3. c \in 0..255
    BY <1>3, CeilIsPrio
  <2>4. Prios \subseteq 0..62
    BY TasksAssumption
  <2>5. Prios \subseteq Nat
    BY <2>4
  <2> QED
    BY <2>1, <2>2, <2>3, <2>5
<1>11. CASE MustPromote(e)
  BY <1>2, <1>7, <1>9, <1>11
<1>12. CASE ~MustPromote(e) /\ tcb[o].prio = c
  BY <1>2, <1>7, <1>9, <1>12
<1>13. CASE ~MustPromote(e) /\ tcb[o].prio = s
  <2>1. tcb[o].prio > c
    BY <1>5, <1>9, <1>10, <1>13
  <2>2. ~(s > tcb[x].prio)
    BY <1>8, <1>13, <2>1
  <2>3. s < tcb[x].prio
    BY <1>5, <1>10, <2>2
  <2> QED
    BY <1>2, <1>7, <1>13, <2>3
<1> QED
  BY <1>4, <1>11, <1>12, <1>13

LEMMA MutexWaitCeil ==
  ASSUME KernelInv, BasePrios(tcb, ecb), OwnersAbove(tcb, pc, ecb), NEW e \in Events,
         NEW timeout \in 0..MaxDly, OSMutexPend(e, timeout), ~TakeMutex(e)
  PROVE  BasePrios(tcb', ecb') /\ OwnersAbove(tcb', pc', ecb')
<1> DEFINE x == OSTCBCur
           T == PromotedTCBs(e)
           d == WaitingTCB(tcb[x], {"MUTEX"}, timeout)
           c == [d EXCEPT !.eventptr = e]
           k == Pending("OSMutexPend", {e})
<1>1. /\ TaskCall("OSMutex") /\ IsMutex(e) /\ holds[x] = {} /\ OwnerPrio(e) # 255
      /\ tcb' = [t \in Tasks |-> IF t = x THEN [WaitingTCB(tcb[t], {"MUTEX"}, timeout) EXCEPT !.eventptr = e]
                                 ELSE IF t = Owner(e) /\ MustPromote(e)
                                      THEN [tcb[t] EXCEPT !.prio = PCP(e)] ELSE tcb[t]]
      /\ pc' = [pc EXCEPT ![x] = k] /\ ecb' = ecb
  BY DEF OSMutexPend, OS_MUTEX_AVAILABLE, eventVars
<1>2. x \in Tasks /\ tcb[x] \in OS_TCB /\ DOMAIN pc = Tasks
  BY <1>1, CurrentRuns DEF TaskCall, KernelInv, Data
<1>3. e \in Mutexes(ecb) /\ Owner(e) = ecb[e].ptr /\ (HasCeiling(e) <=> Ceil(ecb[e]) # 255)
  BY <1>1, OwnersAre
<1>4. \A f \in Mutexes(ecb) : ecb[f].ptr # x
  BY <1>1, CallerOwnsNone
<1>5. tcb[x].prio = InitPrio[x] /\ Owner(e) # x
  BY <1>2, <1>3, <1>4 DEF BasePrios
<1>6. BasePrios(T, ecb) /\ OwnersAbove(T, pc, ecb)
  BY <1>1, PromotedCeil
<1>7. HasCeiling(e) => T[Owner(e)].prio < tcb[x].prio
  BY <1>1, <1>2, <1>5, PromotedAboveCaller
<1>8. tcb'[x] = c /\ T[x] = tcb[x] /\ \A t \in Tasks \ {x} : tcb'[t] = T[t]
  BY <1>1, <1>2, <1>5 DEF PromotedTCBs
<1>9. c.prio = tcb[x].prio
  BY <1>2, WaitingPrio
<1>10. k.on = {e}
  BY DEF Pending
<1> HIDE DEF T, d, c, k, x
<1>11. pc'[x] = k /\ \A t \in Tasks \ {x} : pc'[t] = pc[t]
  BY <1>1, <1>2
<1>12. \A t \in Tasks : tcb'[t].prio = T[t].prio
  BY <1>8, <1>9
<1>13. BasePrios(tcb', ecb)
  <2>1. \A f \in Mutexes(ecb) : RaisedIn(ecb[f], tcb') <=> RaisedIn(ecb[f], T)
    BY <1>12 DEF RaisedIn
  <2> QED
    BY <1>6, <1>12, <2>1 DEF BasePrios
<1>14. ASSUME NEW f \in Mutexes(ecb), Ceil(ecb[f]) # 255, NEW t \in WaitSet(tcb', pc', f)
       PROVE  tcb'[ecb[f].ptr].prio < tcb'[t].prio
  <2>1. CASE t = x
    <3>1. f = e
      BY <1>10, <1>11, <1>14, <2>1 DEF WaitSet
    <3>2. Owner(e) \in Tasks
      <4>1. OwnersOK(tcb, pc, ecb)
        BY DEF KernelInv
      <4>2. Saved(ecb[e]) # 255
        BY <1>1, OwnersAre
      <4> QED
        BY <1>3, <4>1, <4>2 DEF OwnersOK, FreeMutex, OwnedMutex, LiveSet
    <3> QED
      BY <1>3, <1>7, <1>8, <1>9, <1>12, <1>14, <2>1, <3>1, <3>2
  <2>2. CASE t # x
    <3>1. t \in Tasks /\ t \in WaitSet(T, pc, f)
      BY <1>8, <1>11, <1>14, <2>2 DEF WaitSet
    <3>2. T[ecb[f].ptr].prio < T[t].prio
      BY <1>6, <1>14, <3>1 DEF OwnersAbove
    <3>3. ecb[f].ptr \in Tasks
      <4>1. OwnersOK(T, pc, ecb)
        BY <1>1, Promotion DEF T
      <4> QED
        BY <3>1, <4>1 DEF OwnersOK, OwnedMutex, LiveSet
    <3> QED
      BY <1>12, <3>1, <3>2, <3>3
  <2> QED
    BY <2>1, <2>2
<1> QED
  BY <1>1, <1>13, <1>14 DEF OwnersAbove

\* After the owner of e has fallen back, all owners but of e are as before.
LEMMA LoweredCeil ==
  ASSUME KernelInv, BasePrios(tcb, ecb), NEW e \in Events, IsMutex(e), OSTCBCur \in Tasks,
         Raised(e) => Owner(e) = OSTCBCur
  PROVE  /\ \A t \in Tasks : ecb[e].ptr # t => LoweredTCBs(e)[t] = tcb[t]
         /\ ecb[e].ptr \in Tasks => LoweredTCBs(e)[ecb[e].ptr].prio = InitPrio[ecb[e].ptr]
         /\ \A f \in Mutexes(ecb) \ {e} : ecb[f].ptr \in Tasks => ecb[f].ptr # ecb[e].ptr
         /\ \A f : WaitSet(LoweredTCBs(e), pc, f) = WaitSet(tcb, pc, f)
<1> DEFINE o == ecb[e].ptr
           s == Saved(ecb[e])
           T == LoweredTCBs(e)
<1>1. /\ Data(OSRdy, OSEventTbl, tcb, pc, ecb) /\ OwnersOK(tcb, pc, ecb)
      /\ HoldsOK(tcb, pc, ecb, holds)
  BY DEF KernelInv
<1>2. /\ e \in Mutexes(ecb) /\ Owner(e) = o /\ OwnerPrio(e) = s
      /\ Raised(e) <=> RaisedIn(ecb[e], tcb)
  BY OwnersAre
<1>3. tcb \in [Tasks -> OS_TCB] /\ \A t \in Tasks : Shape(tcb[t], pc[t], ecb)
  BY <1>1 DEF Data
<1>4. \A f \in Mutexes(ecb) \ {e} : ecb[f].ptr \in Tasks => ecb[f].ptr # ecb[e].ptr
  BY <1>1, <1>2, <1>3, OwnsOne
<1>5. o \in Tasks => s = InitPrio[o]
  BY <1>2 DEF BasePrios
<1>6. CASE ~Raised(e)
  <2>1. T = tcb
    BY <1>6 DEF LoweredTCBs
  <2>2. o \in Tasks => tcb[o].prio = s
    BY <1>1, <1>2, <1>6, Constants DEF OwnersOK, FreeMutex, OwnedMutex
  <2> QED
    BY <1>4, <1>5, <2>1, <2>2
<1>7. CASE Raised(e)
  <2>1. o \in Tasks /\ T = [tcb EXCEPT ![o].prio = s]
    BY <1>2, <1>7 DEF LoweredTCBs, RaisedIn
  <2> HIDE DEF T, o, s
  <2>2. /\ T[o].prio = s /\ PendBits(T[o]) = PendBits(tcb[o]) /\ T[o].statpend = tcb[o].statpend
        /\ T[o].multiptr = tcb[o].multiptr /\ T[o].eventptr = tcb[o].eventptr
    <3>1. tcb[o] \in OS_TCB /\ T[o] = [tcb[o] EXCEPT !.prio = s]
      BY <1>3, <2>1
    <3> QED
      BY <3>1 DEF OS_TCB, PendBits
  <2>3. \A t \in Tasks : t # o => T[t] = tcb[t]
    BY <1>3, <2>1
  <2>4. \A t \in Tasks : Unans(T[t], pc[t]) <=> Unans(tcb[t], pc[t])
    BY <2>2, <2>3 DEF Unans
  <2>5. \A f : WaitSet(T, pc, f) = WaitSet(tcb, pc, f)
    BY <2>4 DEF WaitSet
  <2> QED
    BY <1>4, <1>5, <2>1, <2>2, <2>3, <2>5 DEF o, T
<1> QED
  BY <1>6, <1>7

\* What a post or a deletion leaves of the mutex: nothing, or an owner with
\* its own priority above those that still wait.
LeftInOrder(e) ==
  ecb'[e].type = "MUTEX" =>
    /\ ecb'[e].ptr \in Tasks => Saved(ecb'[e]) = InitPrio[ecb'[e].ptr]
    /\ \A t \in WaitSet(tcb', pc', e) : tcb'[ecb'[e].ptr].prio < tcb'[t].prio

LEMMA GivenBackCeil ==
  ASSUME KernelInv, BasePrios(tcb, ecb), OwnersAbove(tcb, pc, ecb), NEW e \in Events, IsMutex(e),
         OSTCBCur \in Tasks, Raised(e) => Owner(e) = OSTCBCur,
         NEW W, Answers(W, LoweredTCBs(e), pc, tcb'), pc' = pc,
         OthersKept(e, ecb, ecb'), LeftInOrder(e)
  PROVE  BasePrios(tcb', ecb') /\ OwnersAbove(tcb', pc', ecb')
<1> DEFINE o == ecb[e].ptr
           T == LoweredTCBs(e)
<1>1. /\ \A t \in Tasks : o # t => T[t] = tcb[t]
      /\ o \in Tasks => T[o].prio = InitPrio[o]
      /\ \A f \in Mutexes(ecb) \ {e} : ecb[f].ptr \in Tasks => ecb[f].ptr # o
      /\ \A f : WaitSet(T, pc, f) = WaitSet(tcb, pc, f)
  BY LoweredCeil
<1>2. Answers(W, T, pc, tcb')
  OBVIOUS
<1>3. e \in Mutexes(ecb) /\ OwnersOK(tcb, pc, ecb)
  BY OwnersAre DEF KernelInv
<1>4. \A f \in Events \ {e} : (f \in Mutexes(ecb') <=> f \in Mutexes(ecb)) /\ ecb'[f] = ecb[f]
  BY DEF OthersKept, Mutexes
<1>5. o = ecb[e].ptr
  OBVIOUS
<1> HIDE DEF o, T
<1>6. /\ \A t \in Tasks : tcb'[t].prio = T[t].prio
      /\ \A f : WaitSet(tcb', pc', f) \subseteq WaitSet(tcb, pc, f)
  <2>1. \A f : WaitSet(tcb', pc, f) = WaitSet(T, pc, f) \ W
    BY <1>2, AnsweredSets
  <2> QED
    BY <1>1, <1>2, <2>1 DEF Answers
<1>7. ASSUME NEW t \in Tasks, tcb'[t].prio # InitPrio[t]
      PROVE  \E f \in Mutexes(ecb') : ecb'[f].ptr = t /\ RaisedIn(ecb'[f], tcb')
  <2>1. t # o
    BY <1>1, <1>6, <1>7
  <2>2. tcb'[t].prio = tcb[t].prio
    BY <1>1, <1>6, <2>1
  <2>3. PICK f \in Mutexes(ecb) : ecb[f].ptr = t /\ RaisedIn(ecb[f], tcb)
    BY <1>7, <2>2 DEF BasePrios
  <2>4. f \in Events \ {e}
    BY <1>5, <2>1, <2>3 DEF Mutexes
  <2>5. f \in Mutexes(ecb') /\ ecb'[f] = ecb[f]
    BY <1>4, <2>3, <2>4
  <2>6. RaisedIn(ecb'[f], tcb')
    BY <2>2, <2>3, <2>5 DEF RaisedIn
  <2> QED
    BY <2>3, <2>5, <2>6
<1>8. ASSUME NEW f \in Mutexes(ecb'), ecb'[f].ptr \in Tasks
      PROVE  Saved(ecb'[f]) = InitPrio[ecb'[f].ptr]
  <2>1. CASE f = e
    BY <1>8, <2>1 DEF LeftInOrder, Mutexes
  <2>2. CASE f # e
    <3>1. f \in Mutexes(ecb) /\ ecb'[f] = ecb[f]
      BY <1>4, <2>2 DEF Mutexes
    <3> QED
      BY <1>8, <3>1 DEF BasePrios
  <2> QED
    BY <2>1, <2>2
<1>9. ASSUME NEW f \in Mutexes(ecb'), Ceil(ecb'[f]) # 255, NEW t \in WaitSet(tcb', pc', f)
      PROVE  tcb'[ecb'[f].ptr].prio < tcb'[t].prio
  <2>1. CASE f = e
    BY <1>9, <2>1 DEF LeftInOrder, Mutexes
  <2>2. CASE f # e
    <3>1. f \in Mutexes(ecb) \ {e} /\ ecb'[f] = ecb[f]
      BY <1>4, <2>2 DEF Mutexes
    <3>2. t \in WaitSet(tcb, pc, f) /\ t \in Tasks
      BY <1>6, <1>9 DEF WaitSet
    <3>3. tcb[ecb[f].ptr].prio < tcb[t].prio
      BY <1>9, <3>1, <3>2 DEF OwnersAbove
    <3>4. ecb[f].ptr \in Tasks
      BY <1>3, <3>1, <3>2 DEF OwnersOK, OwnedMutex, LiveSet
    <3>5. tcb'[ecb[f].ptr].prio = tcb[ecb[f].ptr].prio
      BY <1>1, <1>6, <3>1, <3>4
    <3>6. t # o
      <4>1. Unans(tcb[t], pc[t])
        BY <3>2 DEF WaitSet
      <4> QED
        BY <1>3, <1>5, <3>2, <4>1, WaiterOwnsNone
    <3>7. tcb'[t].prio = tcb[t].prio
      BY <1>1, <1>6, <3>2, <3>6
    <3> QED
      BY <3>1, <3>3, <3>5, <3>7
  <2> QED
    BY <2>1, <2>2
<1> QED
  BY <1>7, <1>8, <1>9 DEF BasePrios, OwnersAbove

\* A post gives the mutex to the waiter of highest priority.
LEMMA HighestIsAbove ==
  ASSUME KernelInv, NEW e \in Events, OSEventTbl[e] # {}
  PROVE  \A t \in WaitSet(tcb, pc, e) \ {HighestWaiter(e)} :
           tcb[HighestWaiter(e)].prio < tcb[t].prio
<1> DEFINE q == Highest(OSEventTbl[e])
<1>1. /\ OSEventTbl[e] = {tcb[t].prio : t \in WaitSet(tcb, pc, e)}
      /\ Uniq(tcb, pc) /\ \A t \in LiveSet(pc) : tcb[t].prio \in Prios
  BY DEF KernelInv, Data, PriosOf
<1>2. \A t \in WaitSet(tcb, pc, e) : t \in LiveSet(pc) /\ tcb[t].prio \in Prios
  BY <1>1, SetsAreLive
<1>3. \A t \in WaitSet(tcb, pc, e) : OSTCBPrioTbl[tcb[t].prio] = t
  <2>1. TableOK(OSTCBPrioTbl, tcb, pc, ecb)
    BY DEF KernelInv
  <2> QED
    BY <1>2, <2>1, TableGives
<1>4. OSEventTbl[e] \in SUBSET Nat
  BY <1>1, <1>2, IdleIsApart, Constants
<1>5. q \in OSEventTbl[e] /\ \A p \in OSEventTbl[e] : q <= p
  BY <1>4, HighestIsMember
<1>6. PICK w \in WaitSet(tcb, pc, e) : q = tcb[w].prio
  BY <1>1, <1>5
<1>7. HighestWaiter(e) = w
  BY <1>3, <1>6 DEF HighestWaiter
<1> HIDE DEF q
<1>8. ASSUME NEW t \in WaitSet(tcb, pc, e), t # w
      PROVE  tcb[w].prio < tcb[t].prio
  <2>1. tcb[t].prio \in OSEventTbl[e] /\ tcb[w].prio # tcb[t].prio
    BY <1>1, <1>2, <1>8 DEF Uniq
  <2>2. q \in Nat /\ tcb[t].prio \in Nat /\ q <= tcb[t].prio
    BY <1>4, <1>5, <2>1
  <2> QED
    BY <1>6, <2>1, <2>2
<1> QED
  BY <1>7, <1>8

LEMMA MutexPostCeil ==
  ASSUME KernelInv, PoolsInv, BasePrios(tcb, ecb), OwnersAbove(tcb, pc, ecb), NEW e \in Events,
         OSMutexPost(e)
  PROVE  BasePrios(tcb', ecb') /\ OwnersAbove(tcb', pc', ecb')
<1> DEFINE x == OSTCBCur
           c == Ceil(ecb[e])
           w == HighestWaiter(e)
           T == LoweredTCBs(e)
<1>1. /\ IsMutex(e) /\ x \in Tasks /\ Owner(e) = x
  BY DEF OSMutexPost, TaskCall
<1>2. /\ e \in Mutexes(ecb) /\ Owner(e) = ecb[e].ptr /\ PCP(e) = c /\ ecb[e].type = "MUTEX"
      /\ OwnersOK(tcb, pc, ecb)
  BY <1>1, OwnersAre DEF Mutexes, KernelInv
<1>3. c \in 0..255 /\ 255 \in 0..255
  <2>1. c \in PCPs
    BY <1>2 DEF OwnersOK
  <2> QED
    BY <2>1, CeilIsPrio
<1>4. /\ OSEventTbl[e] = {} <=> WaitSet(tcb, pc, e) = {}
      /\ OSEventTbl[e] # {} => w \in WaitSet(tcb, pc, e)
  BY WaitersOf
<1>5. /\ \A t \in WaitSet(tcb, pc, e) : T[t] = tcb[t]
      /\ WaitSet(T, pc, e) = WaitSet(tcb, pc, e)
  BY <1>1, Lowering
<1>6. ASSUME OSEventTbl[e] # {}, HandOver(e, w), LowerAndReady(e, {w})
      PROVE  BasePrios(tcb', ecb') /\ OwnersAbove(tcb', pc', ecb')
  <2>1. w \in WaitSet(tcb, pc, e) /\ w \in Tasks /\ Unans(tcb[w], pc[w])
    BY <1>4, <1>6 DEF WaitSet
  <2>2. tcb[w].prio \in Prios
    <3>1. w \in LiveSet(pc)
      BY <2>1, SetsAreLive
    <3> QED
      BY <3>1 DEF KernelInv, Data
  <2>3. ecb' = [ecb EXCEPT ![e].cnt = MutexCnt(c, tcb[w].prio), ![e].ptr = w]
    BY <1>2, <1>6 DEF HandOver, GiveMutex
  <2>4. tcb[w].prio = InitPrio[w]
    BY <2>1, WaiterOwnsNone DEF BasePrios
  <2>5. \A t \in WaitSet(tcb, pc, e) \ {w} : tcb[w].prio < tcb[t].prio
    BY <1>6, HighestIsAbove
  <2> HIDE DEF w, c, T, x
  <2>6. MutexIs(ecb'[e], c, tcb[w].prio, w) /\ OthersKept(e, ecb, ecb')
    <3>1. MutexSet(e, c, tcb[w].prio, w, ecb, ecb')
      BY <1>2, <2>3 DEF MutexSet
    <3>2. Prios \subseteq 0..255
      BY TasksAssumption
    <3>3. tcb[w].prio \in 0..255
      BY <2>2, <3>2
    <3> QED
      BY <1>3, <3>1, <3>3, SetMutex, Zenon
  <2>7. Answers({w}, T, pc, tcb') /\ pc' = pc
    <3>1. {w} \in SUBSET WaitSet(tcb, pc, e) /\ ecb'[e].type = "MUTEX"
      BY <2>1, <2>6 DEF MutexIs
    <3> QED
      BY <1>1, <1>6, <2>6, <3>1, LoweredAnswers DEF T, x
  <2>8. WaitSet(tcb', pc', e) = WaitSet(tcb, pc, e) \ {w}
    BY <1>5, <2>7, AnsweredSets
  <2>9. \A t \in WaitSet(tcb, pc, e) : t \in Tasks /\ tcb'[t].prio = tcb[t].prio
    BY <1>5, <2>7 DEF Answers, WaitSet
  <2>10. LeftInOrder(e)
    BY <2>1, <2>4, <2>5, <2>6, <2>8, <2>9 DEF LeftInOrder, MutexIs
  <2> QED
    BY <1>1, <2>6, <2>7, <2>10, GivenBackCeil DEF T, x
<1>7. ASSUME OSEventTbl[e] = {}, LowerAndReady(e, {}),
             ecb' = [ecb EXCEPT ![e].cnt = MutexCnt(PCP(e), OS_MUTEX_AVAILABLE), ![e].ptr = NULL]
      PROVE  BasePrios(tcb', ecb') /\ OwnersAbove(tcb', pc', ecb')
  <2>1. WaitSet(T, pc, e) = {}
    BY <1>4, <1>5, <1>7
  <2>2. ecb' = [ecb EXCEPT ![e].cnt = MutexCnt(c, 255), ![e].ptr = NULL]
    BY <1>2, <1>7 DEF OS_MUTEX_AVAILABLE
  <2> HIDE DEF w, c, T, x
  <2>3. MutexIs(ecb'[e], c, 255, NULL) /\ OthersKept(e, ecb, ecb')
    <3>1. MutexSet(e, c, 255, NULL, ecb, ecb')
      BY <1>2, <2>2 DEF MutexSet
    <3> QED
      BY <1>3, <3>1, SetMutex, Zenon
  <2>4. Answers({}, T, pc, tcb') /\ pc' = pc
    <3>1. {} \in SUBSET WaitSet(tcb, pc, e) /\ ecb'[e].type = "MUTEX"
      BY <2>3 DEF MutexIs
    <3> QED
      BY <1>1, <1>7, <2>3, <3>1, LoweredAnswers DEF T, x
  <2>5. WaitSet(tcb', pc', e) = {}
    BY <2>1, <2>4, AnsweredSets
  <2>6. LeftInOrder(e)
    BY <2>3, <2>5, Constants DEF LeftInOrder, MutexIs
  <2> QED
    BY <1>1, <2>3, <2>4, <2>6, GivenBackCeil DEF T, x
<1> QED
  BY <1>6, <1>7 DEF OSMutexPost

LEMMA MutexDelCeil ==
  ASSUME KernelInv, PoolsInv, Hazards = {}, BasePrios(tcb, ecb), OwnersAbove(tcb, pc, ecb),
         NEW e \in Events, NEW always \in BOOLEAN, OSMutexDel(e, always)
  PROVE  BasePrios(tcb', ecb') /\ OwnersAbove(tcb', pc', ecb')
<1>1. IsMutex(e) /\ OSTCBCur \in Tasks /\ ecb' = [ecb EXCEPT ![e] = UnusedECB]
  BY DEF OSMutexDel, TaskCall
<1>2. OthersKept(e, ecb, ecb') /\ ecb'[e].type # "MUTEX"
  <2>1. DOMAIN ecb = Events
    BY DEF PoolsInv, EcbShape
  <2> QED
    BY <1>1, <2>1 DEF OthersKept, UnusedECB
<1>3. LeftInOrder(e)
  BY <1>2 DEF LeftInOrder
<1>4. ASSUME Raised(e) /\ Owner(e) # OSTCBCur => "DeleteOwned" \in Hazards,
             LowerAndReady(e, Waiters(e))
      PROVE  BasePrios(tcb', ecb') /\ OwnersAbove(tcb', pc', ecb')
  <2>1. (Raised(e) => Owner(e) = OSTCBCur) /\ LowerAndReady(e, WaitSet(tcb, pc, e))
    BY <1>4, WaitersOf
  <2>2. Answers(WaitSet(tcb, pc, e), LoweredTCBs(e), pc, tcb') /\ pc' = pc
    BY <1>1, <1>2, <2>1, LoweredAnswers
  <2> QED
    BY <1>1, <1>2, <1>3, <2>1, <2>2, GivenBackCeil
<1>5. ASSUME Raised(e) => "DeleteRaised" \in Hazards, tcb' = tcb, pc' = pc
      PROVE  BasePrios(tcb', ecb') /\ OwnersAbove(tcb', pc', ecb')
  <2>1. ~Raised(e)
    BY <1>5
  <2>2. LoweredTCBs(e) = tcb
    BY <2>1 DEF LoweredTCBs
  <2>3. Answers({}, LoweredTCBs(e), pc, tcb')
    BY <1>5, <2>2 DEF Answers
  <2> QED
    BY <1>1, <1>2, <1>3, <1>5, <2>1, <2>3, GivenBackCeil
<1> QED
  BY <1>4, <1>5 DEF OSMutexDel

LEMMA MutexCeil ==
  ASSUME KernelInv, PoolsInv, Hazards = {}, CeilInv, MutexNext
  PROVE  CeilInv'
<1>1. ASSUME NEW e \in Events, NEW timeout \in 0..MaxDly, OSMutexPend(e, timeout),
             BasePrios(tcb, ecb), OwnersAbove(tcb, pc, ecb)
      PROVE  BasePrios(tcb', ecb') /\ OwnersAbove(tcb', pc', ecb')
  <2>1. TaskCall("OSMutex") /\ IsMutex(e) /\ holds[OSTCBCur] = {}
    BY <1>1 DEF OSMutexPend
  <2>2. CASE TakeMutex(e)
    BY <1>1, <2>1, <2>2, TakeMutexCeil
  <2>3. CASE ~TakeMutex(e)
    BY <1>1, <2>3, MutexWaitCeil
  <2> QED
    BY <2>2, <2>3
<1>2. ASSUME NEW e \in Events, OSMutexAccept(e), BasePrios(tcb, ecb), OwnersAbove(tcb, pc, ecb)
      PROVE  BasePrios(tcb', ecb') /\ OwnersAbove(tcb', pc', ecb')
  <2>1. TaskCall("OSMutex") /\ IsMutex(e) /\ holds[OSTCBCur] = {} /\ TakeMutex(e)
    BY <1>2 DEF OSMutexAccept
  <2> QED
    BY <1>2, <2>1, TakeMutexCeil
<1>3. "OSMutex" \in calls /\ calls' = calls
  <2>1. \A e : TakeMutex(e) => calls' = calls
    BY DEF TakeMutex
  <2>2. \A e, W : LowerAndReady(e, W) => calls' = calls
    BY DEF LowerAndReady
  <2>3. \A e, timeout : OSMutexPend(e, timeout) => TaskCall("OSMutex") /\ calls' = calls
    BY <2>1 DEF OSMutexPend
  <2>4. \A e : OSMutexAccept(e) => TaskCall("OSMutex") /\ calls' = calls
    BY <2>1 DEF OSMutexAccept
  <2>5. \A e : OSMutexPost(e) => TaskCall("OSMutex") /\ calls' = calls
    BY <2>2 DEF OSMutexPost
  <2>6. \A e, always : OSMutexDel(e, always) => TaskCall("OSMutex") /\ calls' = calls
    BY <2>2 DEF OSMutexDel
  <2>7. \A pcp : OSMutexCreate(pcp) => TaskCall("OSMutex") /\ calls' = calls
    BY DEF OSMutexCreate
  <2> QED
    BY <2>3, <2>4, <2>5, <2>6, <2>7 DEF MutexNext, TaskCall
<1>4. BasePrios(tcb, ecb) /\ OwnersAbove(tcb, pc, ecb)
  BY <1>3 DEF CeilInv
<1>5. BasePrios(tcb', ecb') /\ OwnersAbove(tcb', pc', ecb')
  BY <1>1, <1>2, <1>4, CreateMutexCeil, MutexPostCeil, MutexDelCeil DEF MutexNext
<1> QED
  BY <1>3, <1>5 DEF CeilInv

-----------------------------------------------------------------------------
(* The invariant *)

LEMMA CeilStep ==
  ASSUME Hazards = {}, KernelInv, KernelInv', NodesInv, PoolsInv, CeilInv, FixedPrios(calls),
         calls' = calls, [Next]_vars
  PROVE  CeilInv'
<1>1. CASE TasksNext /\ NotesKept /\ UNCHANGED <<eventVars, holds, flagVars, memVars>>
  <2>1. ecb' = ecb /\ holds' = holds
    BY <1>1 DEF eventVars
  <2>2. "OSMutex" \in calls => "OSTaskChangePrio" \notin calls
    BY DEF FixedPrios
  <2> QED
    BY <1>1, <2>1, <2>2, TasksPrios, SameEcb, CeilQuiet
<1>2. CASE EventsNext
  BY <1>2, EventsPrios, CeilQuiet
<1>3. CASE MutexPendReturns
  <2>1. PendReturns
    BY <1>3 DEF MutexPendReturns
  <2> QED
    BY <2>1, ReturnsPrios, CeilQuiet
<1>4. CASE MutexNext
  BY <1>4, MutexCeil
<1>5. CASE FlagsNext /\ UNCHANGED eventVars
  <2>1. ecb' = ecb
    BY <1>5 DEF eventVars
  <2> QED
    BY <1>5, <2>1, FlagsPrios, SameEcb, CeilQuiet
<1>6. CASE UNCHANGED taskVars /\ UNCHANGED eventVars
  <2>1. tcb' = tcb /\ pc' = pc /\ ecb' = ecb
    BY <1>6 DEF taskVars, eventVars
  <2> QED
    BY <2>1, SamePriosStay, SameEcb, CeilQuiet
<1>7. CASE MemNext /\ UNCHANGED eventVars
  <2>1. UNCHANGED taskVars
    BY <1>7 DEF MemNext, OSMemCreate, OSMemGet, OSMemPut
  <2> QED
    BY <1>6, <1>7, <2>1
<1>8. ASSUME NEW p \in Prios, DeleteTask(p)
      PROVE  CeilInv'
  <2>1. ecb' = ecb
    BY <1>8 DEF DeleteTask, eventVars
  <2>2. "OSMutex" \in calls => PriosStay
    BY <1>8, DeleteTaskPrios DEF CeilInv
  <2> QED
    BY <2>1, <2>2, SameEcb, CeilQuiet
<1>9. ASSUME NEW x \in Tasks, CreateTask(x)
      PROVE  CeilInv'
  <2>1. ecb' = ecb
    BY <1>9 DEF CreateTask, eventVars
  <2>2. "OSMutex" \in calls => PriosStay
    BY <1>9, CreateTaskPrios DEF CeilInv
  <2> QED
    BY <2>1, <2>2, SameEcb, CeilQuiet
<1>10. CASE UNCHANGED vars
  BY <1>6, <1>10 DEF vars
<1> QED
  BY <1>1, <1>2, <1>3, <1>4, <1>5, <1>7, <1>8, <1>9, <1>10 DEF Next

LEMMA CeilSafe ==
  ASSUME KernelInv, CeilInv
  PROVE  NoPriorityInversion
<1> SUFFICES ASSUME NEW e \in Events, IsMutex(e), HasCeiling(e), NEW t \in Waiters(e)
             PROVE  tcb[Owner(e)].prio < tcb[t].prio
  BY DEF NoPriorityInversion
<1>1. e \in Mutexes(ecb) /\ Ceil(ecb[e]) # 255 /\ Owner(e) = ecb[e].ptr
  BY OwnersAre
<1>2. t \in WaitSet(tcb, pc, e)
  BY WaitersOf
<1>3. OwnersAbove(tcb, pc, ecb)
  BY <1>1 DEF CeilInv
<1> QED
  BY <1>1, <1>2, <1>3 DEF OwnersAbove

\* The owner of a mutex with a ceiling is above every task that waits for it,
\* after any sequence of pends, posts, timeouts and deletions: OSMutexPend
\* raises it when it has to and OSMutexPost picks the highest waiter, as long
\* as no application that uses mutexes also calls OSTaskChangePrio, which
\* looks at none.
THEOREM OwnersOutrankWaiters ==
  ASSUME SwitchReturns = TRUE, Hazards = {}, PriosFixed
  PROVE  Spec => []NoPriorityInversion
<1>1. Init => CeilInv /\ StoresInv /\ ListsInv /\ PoolsInv
  <2>1. Init => ListsInv
    BY DEF Init, TasksInit, ListsInv
  <2>2. Init => CeilInv
    <3> SUFFICES ASSUME Init PROVE CeilInv
      OBVIOUS
    <3>1. Mutexes(ecb) = {}
      BY DEF Init, EventsInit, Mutexes, UnusedECB
    <3>2. \A t \in Tasks : tcb[t].prio = InitPrio[t]
      BY DEF Init, TasksInit, NewTCB
    <3> QED
      BY <3>1, <3>2 DEF CeilInv, BasePrios, OwnersAbove
  <2> QED
    BY <2>1, <2>2, StoresInitial, PoolsInitial
<1>2. KernelInv /\ PoolsInv /\ StoresInv /\ [Next]_vars => PoolsInv' /\ StoresInv'
  BY PoolsStep, StoresStep
<1>3. ListsInv /\ [Next]_vars => ListsInv' /\ calls' = calls
  BY ListsStep
<1>4. StoresInv => FixedPrios(calls)
  BY DEF StoresInv, PriosFixed
<1>5. /\ KernelInv /\ KernelInv' /\ NodesInv /\ PoolsInv /\ CeilInv /\ StoresInv /\ ListsInv
      /\ [Next]_vars
      => CeilInv'
  BY <1>3, <1>4, CeilStep
<1>6. KernelInv /\ CeilInv => NoPriorityInversion
  BY CeilSafe
<1>7. Spec => [](KernelInv /\ NodesInv)
  BY ServicesInvariant
<1> QED
  BY <1>1, <1>2, <1>3, <1>5, <1>6, <1>7, PTL DEF Spec
=============================================================================
