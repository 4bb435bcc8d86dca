-------------------------- MODULE UcosKernelProofs --------------------------
(***************************************************************************)
(* Invariants of UcosKernel, proved for any number of TCBs, any priorities *)
(* and any bounds.  The inductive invariant IInv has a part about the data *)
(* of the kernel (lists, tables, ready list), which every service keeps    *)
(* by what it does before it reschedules, and a part about the task that   *)
(* runs, which OS_Sched reestablishes from the data alone.                 *)
(***************************************************************************)
EXTENDS UcosKernelRefines, PrioBitmapProofs, SequenceTheorems

\* The two TCB chains have each TCB once at most between them.
ListInv ==
  /\ OSTaskCtr = Len(OSTCBList)
  /\ \A i, j \in 1..Len(OSTCBList) : OSTCBList[i] = OSTCBList[j] => i = j
  /\ \A i, j \in 1..Len(OSTCBFreeList) : OSTCBFreeList[i] = OSTCBFreeList[j] => i = j
  /\ \A i \in 1..Len(OSTCBList), j \in 1..Len(OSTCBFreeList) :
       OSTCBList[i] # OSTCBFreeList[j]

\* Between them they have all, and the idle task is the last that exists.
ChainInv ==
  /\ Len(OSTCBList) + Len(OSTCBFreeList) = NumTCBs
  /\ \A i \in 1..Len(OSTCBList) :
       OSTCBPrio[OSTCBList[i]] = OS_TASK_IDLE_PRIO <=> i = Len(OSTCBList)

LivePrios == \A t \in TCBs : InList(t) => OSTCBPrio[t] \in AllPrios

\* The idle task never waits.
IdleInv ==
  LET idle == OSTCBPrioTbl[OS_TASK_IDLE_PRIO]
  IN  idle # NULL => OSTCBStat[idle] = OS_STAT_RDY /\ OSTCBDly[idle] = 0

\* It is the first task that exists.
BootInv == ~OSRunning /\ OSTaskCtr > 0 => OSTCBPrioTbl[OS_TASK_IDLE_PRIO] # NULL

\* The task that runs exists and is what the kernel's globals say.
RunInv ==
  OSRunning =>
    /\ OSTCBPrioTbl[OS_TASK_IDLE_PRIO] # NULL
    /\ OSTCBCur \in TCBs /\ InList(OSTCBCur)
    /\ OSPrioCur = OSTCBPrio[OSTCBCur]
    /\ OSTCBHighRdy = OSTCBCur /\ OSPrioHighRdy = OSPrioCur
    /\ OSLockNesting = 0 => OSPrioCur = Highest(OSRdy)

\* TypeOK without and with what OS_Sched changes.
DataTypes ==
  /\ OSTime \in 0..(TimeMod - 1)
  /\ OSRunning \in BOOLEAN
  /\ OSIntNesting \in 0..NestMax
  /\ OSLockNesting \in 0..NestMax
  /\ OSTaskCtr \in Nat
  /\ OSRdy \in Bitmaps
  /\ OSTCBPrioTbl \in [AllPrios -> TCBs \cup {NULL}]
  /\ OSTCBList \in Seq(TCBs)
  /\ OSTCBFreeList \in Seq(TCBs)
  /\ OSTCBPrio \in [TCBs -> Prios64]
  /\ OSTCBStat \in [TCBs -> SUBSET StatBits]
  /\ OSTCBDly \in [TCBs -> Nat]
  /\ OSTCBDelReq \in [TCBs -> BOOLEAN]
  /\ progress \in [TCBs -> 0..(PcMod - 1)]

CPUTypes ==
  /\ OSPrioCur \in Prios64
  /\ OSPrioHighRdy \in Prios64
  /\ OSTCBCur \in TCBs \cup {NULL}
  /\ OSTCBHighRdy \in TCBs \cup {NULL}
  /\ context_frame \in [TCBs -> Contexts]
  /\ task_context_saved \in Contexts

DataInv ==
  /\ DataTypes /\ ListInv /\ ChainInv /\ LivePrios /\ PrioTblExact
  /\ ReadyListExact /\ IdleInv /\ OSIntNesting = 0

IInv == DataInv /\ CPUTypes /\ BootInv /\ RunInv

-----------------------------------------------------------------------------
(* TCB chains *)

InChain(t, chain) == \E i \in 1..Len(chain) : chain[i] = t

\* Linking at the head shifts the chain by one.
LEMMA LinkShifts ==
  ASSUME NEW S, NEW L \in Seq(S), NEW t \in S
  PROVE  /\ <<t>> \o L \in Seq(S)
         /\ Len(<<t>> \o L) = Len(L) + 1
         /\ \A i \in 1..(Len(L) + 1) : (<<t>> \o L)[i] = IF i = 1 THEN t ELSE L[i - 1]
<1>1. <<t>> \in Seq(S) /\ Len(<<t>>) = 1 /\ <<t>>[1] = t
  OBVIOUS
<1>2. Len(L) \in Nat
  BY LenProperties
<1> QED
  BY <1>1, <1>2, ConcatProperties

\* Linking a TCB that is not in a chain keeps the chain free of repetitions.
LEMMA LinkKeepsDistinct ==
  ASSUME NEW S, NEW L \in Seq(S), NEW t \in S,
         \A i, j \in 1..Len(L) : L[i] = L[j] => i = j,
         \A i \in 1..Len(L) : L[i] # t
  PROVE  /\ \A i, j \in 1..Len(<<t>> \o L) : (<<t>> \o L)[i] = (<<t>> \o L)[j] => i = j
         /\ \A i \in 1..Len(<<t>> \o L) :
              (<<t>> \o L)[i] = t \/ \E m \in 1..Len(L) : (<<t>> \o L)[i] = L[m]
<1> DEFINE M == <<t>> \o L
<1>1. /\ Len(M) = Len(L) + 1 /\ Len(L) \in Nat
      /\ \A i \in 1..(Len(L) + 1) : M[i] = IF i = 1 THEN t ELSE L[i - 1]
  BY LinkShifts, LenProperties
<1> HIDE DEF M
<1>2. ASSUME NEW i \in 1..Len(M)
      PROVE  /\ i = 1 => M[i] = t
             /\ i # 1 => i - 1 \in 1..Len(L) /\ M[i] = L[i - 1]
  BY <1>1
<1>3. ASSUME NEW i \in 1..Len(M), NEW j \in 1..Len(M), M[i] = M[j]
      PROVE  i = j
  <2>1. CASE i = 1 \/ j = 1
    BY <1>2, <1>3, <2>1
  <2>2. CASE i # 1 /\ j # 1
    <3>1. i - 1 = j - 1
      BY <1>2, <1>3, <2>2
    <3> QED
      BY <3>1, <1>1
  <2> QED
    BY <2>1, <2>2
<1>4. ASSUME NEW i \in 1..Len(M)
      PROVE  M[i] = t \/ \E m \in 1..Len(L) : M[i] = L[m]
  BY <1>2
<1> QED
  BY <1>3, <1>4 DEF M

\* Unlinking a TCB that is in the chain closes the gap.
LEMMA UnlinkCloses ==
  ASSUME NEW S, NEW L \in Seq(S), NEW t, \E i \in 1..Len(L) : L[i] = t
  PROVE  \E k \in 1..Len(L) :
           /\ L[k] = t
           /\ Unlink(t, L) \in Seq(S)
           /\ Len(Unlink(t, L)) = Len(L) - 1
           /\ \A i \in 1..(Len(L) - 1) :
                Unlink(t, L)[i] = IF i < k THEN L[i] ELSE L[i + 1]
<1> DEFINE k == PositionOf(t, L)
           A == SubSeq(L, 1, k - 1)
           B == SubSeq(L, k + 1, Len(L))
<1>1. k \in 1..Len(L) /\ L[k] = t
  BY DEF PositionOf
<1>2. Len(L) \in Nat
  BY LenProperties
<1>3. A \in Seq(S) /\ Len(A) = k - 1 /\ \A i \in 1..(k - 1) : A[i] = L[i]
  BY <1>1, <1>2, SubSeqProperties
<1>4. B \in Seq(S) /\ Len(B) = Len(L) - k /\ \A i \in 1..(Len(L) - k) : B[i] = L[k + i]
  BY <1>1, <1>2, SubSeqProperties
<1>5. Unlink(t, L) = A \o B
  BY DEF Unlink
<1> HIDE DEF k, A, B
<1>6. /\ A \o B \in Seq(S)
      /\ Len(A \o B) = Len(L) - 1
      /\ \A i \in 1..(Len(L) - 1) : (A \o B)[i] = IF i <= k - 1 THEN A[i] ELSE B[i - (k - 1)]
  <2>1. /\ A \o B \in Seq(S)
        /\ Len(A \o B) = Len(A) + Len(B)
        /\ \A i \in 1..(Len(A) + Len(B)) :
             (A \o B)[i] = IF i <= Len(A) THEN A[i] ELSE B[i - Len(A)]
    BY <1>3, <1>4, ConcatProperties
  <2>2. Len(A) + Len(B) = Len(L) - 1
    BY <1>1, <1>2, <1>3, <1>4
  <2> QED
    BY <2>1, <2>2, <1>3
<1>7. \A i \in 1..(Len(L) - 1) : (A \o B)[i] = IF i < k THEN L[i] ELSE L[i + 1]
  <2> SUFFICES ASSUME NEW i \in 1..(Len(L) - 1)
               PROVE  (A \o B)[i] = IF i < k THEN L[i] ELSE L[i + 1]
    OBVIOUS
  <2>1. CASE i < k
    BY <2>1, <1>1, <1>2, <1>3, <1>6
  <2>2. CASE ~(i < k)
    <3>1. i - (k - 1) \in 1..(Len(L) - k) /\ k + (i - (k - 1)) = i + 1 /\ ~(i <= k - 1)
      BY <2>2, <1>1, <1>2
    <3>2. (A \o B)[i] = B[i - (k - 1)]
      BY <3>1, <1>6
    <3>3. B[i - (k - 1)] = L[k + (i - (k - 1))]
      BY <3>1, <1>4
    <3> QED
      BY <3>1, <3>2, <3>3, <2>2
  <2> QED
    BY <2>1, <2>2
<1> QED
  BY <1>1, <1>5, <1>6, <1>7

-----------------------------------------------------------------------------
(* Scheduling *)

LEMMA TypesSplit == TypeOK <=> DataTypes /\ CPUTypes
BY DEF TypeOK, DataTypes, CPUTypes

IdleExists == OSTCBPrioTbl[OS_TASK_IDLE_PRIO] # NULL

\* Each bit of the ready list leads through OSTCBPrioTbl to a task.
BitsLeadToTasks ==
  /\ IsBitmap(OSRdy)
  /\ Members(OSRdy) \subseteq AllPrios
  /\ \A p \in Members(OSRdy) : /\ OSTCBPrioTbl[p] \in TCBs
                               /\ IsReady(OSTCBPrioTbl[p])
                               /\ OSTCBPrio[OSTCBPrioTbl[p]] = p

HighestIsReady ==
  /\ Highest(OSRdy) \in Members(OSRdy)
  /\ \A p \in Members(OSRdy) : Highest(OSRdy) <= p

LEMMA AllPriosAreBytes == AllPrios \subseteq Prios64
BY ConstantsAssumption DEF AllPrios, Prios64, OS_TASK_IDLE_PRIO

LEMMA ReadyBits == DataInv => BitsLeadToTasks
<1> SUFFICES ASSUME DataInv
             PROVE  BitsLeadToTasks
  OBVIOUS
<1>1. IsBitmap(OSRdy)
  BY DEF DataInv, DataTypes, ReadyListExact, IsBitmap
<1>2. ASSUME NEW p \in Members(OSRdy)
      PROVE  /\ p \in AllPrios /\ OSTCBPrioTbl[p] \in TCBs
             /\ IsReady(OSTCBPrioTbl[p]) /\ OSTCBPrio[OSTCBPrioTbl[p]] = p
  <2>1. PICK t \in TCBs : IsReady(t) /\ OSTCBPrio[t] = p
    BY DEF DataInv, ReadyListExact, Members
  <2>2. p \in AllPrios
    BY <2>1 DEF DataInv, LivePrios, IsReady
  <2>3. OSTCBPrioTbl[p] = t
    BY <2>1, <2>2 DEF DataInv, PrioTblExact, IsReady
  <2> QED
    BY <2>1, <2>2, <2>3
<1> QED
  BY <1>1, <1>2 DEF BitsLeadToTasks

\* While the idle task exists OS_SchedNew finds a ready task.
LEMMA HighestReady == DataInv /\ IdleExists => HighestIsReady
<1> SUFFICES ASSUME DataInv, IdleExists
             PROVE  HighestIsReady
  OBVIOUS
<1> DEFINE idle == OSTCBPrioTbl[OS_TASK_IDLE_PRIO]
<1>1. OS_TASK_IDLE_PRIO \in AllPrios /\ OS_TASK_IDLE_PRIO \in Prios64
  BY DEF AllPrios, OS_TASK_IDLE_PRIO, Prios64
<1>2. idle \in TCBs
  BY <1>1 DEF DataInv, DataTypes, IdleExists
<1>3. InList(idle) /\ OSTCBPrio[idle] = OS_TASK_IDLE_PRIO
  BY <1>1, <1>2 DEF DataInv, PrioTblExact
<1>4. IsReady(idle)
  BY <1>3 DEF DataInv, IdleInv, IsReady, IdleExists
<1>5. OS_TASK_IDLE_PRIO \in Members(OSRdy)
  BY <1>1, <1>2, <1>3, <1>4 DEF DataInv, ReadyListExact, Members
<1> QED
  BY <1>5, ReadyBits, HighestIsMinimum DEF HighestIsReady, BitsLeadToTasks

\* OS_Sched gives the CPU to the right task, from data that are in order.
\* Unless it is going to switch, OSPrioCur must still lead to OSTCBCur.
LEMMA OSSchedIsRight ==
  ASSUME NEW STATE frames, frames \in [TCBs -> Contexts],
         CPUTypes, OSTCBCur \in TCBs,
         DataInv', IdleExists', OS_Sched(frames),
         OSTCBHighRdy = OSTCBCur /\ OSPrioHighRdy = OSPrioCur,
         (OSPrioCur \in Members(OSRdy') \/ OSLockNesting' # 0)
            => OSPrioCur \in AllPrios /\ OSTCBPrioTbl'[OSPrioCur] = OSTCBCur
  PROVE  CPUTypes' /\ RunInv'
<1>1. BitsLeadToTasks'
  BY ReadyBits, PTL
<1>2. HighestIsReady'
  BY HighestReady, PTL
<1>3. OSIntNesting' = 0
  BY DEF DataInv
<1> DEFINE p == Highest(OSRdy')
<1>4. /\ p \in Members(OSRdy') /\ p \in AllPrios /\ p \in Prios64
      /\ OSTCBPrioTbl'[p] \in TCBs
      /\ InChain(OSTCBPrioTbl'[p], OSTCBList') /\ OSTCBPrio'[OSTCBPrioTbl'[p]] = p
  BY <1>1, <1>2, AllPriosAreBytes DEF BitsLeadToTasks, HighestIsReady, IsReady, InList, InChain
<1>5. OSTCBPrioTbl'[OS_TASK_IDLE_PRIO] # NULL
  BY DEF IdleExists
<1>6. ASSUME OSPrioCur \in AllPrios, OSTCBPrioTbl'[OSPrioCur] = OSTCBCur
      PROVE  InChain(OSTCBCur, OSTCBList') /\ OSTCBPrio'[OSTCBCur] = OSPrioCur
  BY <1>6 DEF DataInv, PrioTblExact, InList, InChain
<1>7. CASE OSLockNesting' # 0
  <2>1. NoSwitch(frames)
    BY <1>7 DEF OS_Sched
  <2> QED
    BY <2>1, <1>5, <1>6, <1>7 DEF NoSwitch, CPUTypes, RunInv, InList, InChain
<1>8. CASE OSLockNesting' = 0 /\ p # OSPrioCur
  <2>1. /\ OSPrioHighRdy' = p /\ OSPrioCur' = p
        /\ OSTCBHighRdy' = OSTCBPrioTbl'[p] /\ OSTCBCur' = OSTCBPrioTbl'[p]
        /\ context_frame' = [frames EXCEPT ![OSTCBCur] = task_context_saved]
        /\ task_context_saved' = context_frame'[OSTCBHighRdy']
    BY <1>3, <1>8 DEF OS_Sched, SwitchToHighRdy
  <2>2. context_frame' \in [TCBs -> Contexts]
    BY <2>1 DEF CPUTypes
  <2>3. task_context_saved' \in Contexts
    BY <2>1, <2>2, <1>4
  <2>4. CPUTypes'
    BY <2>1, <2>2, <2>3, <1>4 DEF CPUTypes
  <2>5. RunInv'
    BY <2>1, <1>4, <1>5 DEF RunInv, InList, InChain
  <2> QED
    BY <2>4, <2>5
<1>9. CASE OSLockNesting' = 0 /\ p = OSPrioCur
  <2>1. /\ OSPrioHighRdy' = p /\ OSPrioCur' = p
        /\ OSTCBHighRdy' = OSTCBPrioTbl'[p] /\ OSTCBCur' = OSTCBCur
        /\ context_frame' = frames /\ task_context_saved' = task_context_saved
    BY <1>3, <1>9 DEF OS_Sched, SwitchToHighRdy
  <2>2. OSTCBPrioTbl'[p] = OSTCBCur
    BY <1>4, <1>9
  <2>3. CPUTypes'
    BY <2>1, <2>2, <1>4 DEF CPUTypes
  <2>4. RunInv'
    BY <2>1, <2>2, <1>4, <1>5 DEF RunInv, InList, InChain
  <2> QED
    BY <2>3, <2>4
<1> QED
  BY <1>7, <1>8, <1>9

-----------------------------------------------------------------------------
(* Finding tasks *)

\* What OSTCBPrioTbl holds for a priority is the task of that priority.
LEMMA TaskOfPrio ==
  ASSUME DataInv, NEW p \in AllPrios, OSTCBPrioTbl[p] # NULL
  PROVE  /\ OSTCBPrioTbl[p] \in TCBs
         /\ InList(OSTCBPrioTbl[p]) /\ OSTCBPrio[OSTCBPrioTbl[p]] = p
<1>1. OSTCBPrioTbl[p] \in TCBs
  BY DEF DataInv, DataTypes
<1> QED
  BY <1>1 DEF DataInv, PrioTblExact

\* No two tasks that exist share a priority, and OSTCBPrioTbl finds each.
LEMMA PrioOfTask ==
  ASSUME DataInv, NEW t \in TCBs, InList(t)
  PROVE  /\ OSTCBPrio[t] \in AllPrios /\ OSTCBPrio[t] \in Prios64
         /\ OSTCBPrioTbl[OSTCBPrio[t]] = t
         /\ \A u \in TCBs : InList(u) /\ OSTCBPrio[u] = OSTCBPrio[t] => u = t
<1>1. OSTCBPrio[t] \in AllPrios
  BY DEF DataInv, LivePrios
<1>2. OSTCBPrioTbl[OSTCBPrio[t]] = t
  BY <1>1 DEF DataInv, PrioTblExact
<1>3. ASSUME NEW u \in TCBs, InList(u), OSTCBPrio[u] = OSTCBPrio[t]
      PROVE  u = t
  BY <1>1, <1>2, <1>3 DEF DataInv, PrioTblExact
<1> QED
  BY <1>1, <1>2, <1>3, AllPriosAreBytes

\* The bit of a task's priority tells whether the task is ready.
LEMMA BitOfTask ==
  ASSUME DataInv, NEW t \in TCBs, InList(t)
  PROVE  OSTCBPrio[t] \in Members(OSRdy) <=> IsReady(t)
<1>1. OSTCBPrio[t] \in Prios64
  BY PrioOfTask
<1>2. OSTCBPrio[t] \in Members(OSRdy) <=>
        \E u \in TCBs : IsReady(u) /\ OSTCBPrio[u] = OSTCBPrio[t]
  BY <1>1 DEF DataInv, ReadyListExact, Members
<1>3. ASSUME NEW u \in TCBs, IsReady(u), OSTCBPrio[u] = OSTCBPrio[t]
      PROVE  u = t
  BY <1>3, PrioOfTask DEF IsReady
<1> QED
  BY <1>2, <1>3

\* The task that runs, as OSTCBPrioTbl and the ready list see it.
LEMMA CurrentTask ==
  ASSUME IInv, OSRunning
  PROVE  /\ IdleExists
         /\ OSTCBCur \in TCBs /\ InList(OSTCBCur)
         /\ OSPrioCur = OSTCBPrio[OSTCBCur] /\ OSPrioCur \in AllPrios
         /\ OSTCBPrioTbl[OSPrioCur] = OSTCBCur
         /\ OSTCBHighRdy = OSTCBCur /\ OSPrioHighRdy = OSPrioCur
         /\ OSLockNesting = 0 => /\ OSPrioCur \in Members(OSRdy)
                                 /\ \A p \in Members(OSRdy) : OSPrioCur <= p
<1>1. DataInv /\ RunInv
  BY DEF IInv
<1>2. /\ IdleExists /\ OSTCBCur \in TCBs /\ InList(OSTCBCur)
      /\ OSPrioCur = OSTCBPrio[OSTCBCur]
      /\ OSTCBHighRdy = OSTCBCur /\ OSPrioHighRdy = OSPrioCur
      /\ OSLockNesting = 0 => OSPrioCur = Highest(OSRdy)
  BY <1>1 DEF RunInv, IdleExists
<1>3. OSPrioCur \in AllPrios /\ OSTCBPrioTbl[OSPrioCur] = OSTCBCur
  BY <1>1, <1>2, PrioOfTask
<1>4. HighestIsReady
  BY <1>1, <1>2, HighestReady
<1> QED
  BY <1>2, <1>3, <1>4 DEF HighestIsReady

-----------------------------------------------------------------------------
(* What the services do to the data *)

\* A step that changes what one task waits for, and the task's bit with it.
LEMMA WaitChanges ==
  ASSUME DataInv, NEW t \in TCBs, InList(t), OSTCBPrio[t] # OS_TASK_IDLE_PRIO,
         UNCHANGED <<listVars, OSTCBPrio, OSIntNesting>>,
         DataTypes', IsBitmap(OSRdy'),
         \A u \in TCBs \ {t} : OSTCBStat'[u] = OSTCBStat[u] /\ OSTCBDly'[u] = OSTCBDly[u],
         \A p \in Prios64 \ {OSTCBPrio[t]} : p \in Members(OSRdy') <=> p \in Members(OSRdy),
         OSTCBPrio[t] \in Members(OSRdy') <=> OSTCBStat'[t] = OS_STAT_RDY /\ OSTCBDly'[t] = 0
  PROVE  DataInv'
<1> USE DEF listVars
<1>1. ListInv' /\ ChainInv' /\ LivePrios' /\ PrioTblExact' /\ OSIntNesting' = 0
  BY DEF DataInv, ListInv, ChainInv, LivePrios, PrioTblExact, InList
<1>2. IdleInv'
  <2> SUFFICES ASSUME OSTCBPrioTbl[OS_TASK_IDLE_PRIO] # NULL
               PROVE  /\ OSTCBStat'[OSTCBPrioTbl[OS_TASK_IDLE_PRIO]] = OS_STAT_RDY
                      /\ OSTCBDly'[OSTCBPrioTbl[OS_TASK_IDLE_PRIO]] = 0
    BY DEF IdleInv
  <2>1. OS_TASK_IDLE_PRIO \in AllPrios
    BY DEF AllPrios
  <2>2. OSTCBPrioTbl[OS_TASK_IDLE_PRIO] \in TCBs \ {t}
    BY <2>1, TaskOfPrio
  <2> QED
    BY <2>2 DEF DataInv, IdleInv
<1>3. ReadyListExact'
  <2>1. GrpSummarisesTbl(OSRdy')
    BY DEF IsBitmap
  <2>2. ASSUME NEW p \in Prios64
        PROVE  Contains(OSRdy', p) <=>
                 \E u \in TCBs : /\ InList(u) /\ OSTCBPrio[u] = p
                                 /\ OSTCBStat'[u] = OS_STAT_RDY /\ OSTCBDly'[u] = 0
    <3>1. CASE p = OSTCBPrio[t]
      <4>1. \A u \in TCBs : InList(u) /\ OSTCBPrio[u] = p => u = t
        BY <3>1, PrioOfTask
      <4> QED
        BY <3>1, <4>1 DEF Members
    <3>2. CASE p # OSTCBPrio[t]
      <4>1. Contains(OSRdy', p) <=> Contains(OSRdy, p)
        BY <3>2 DEF Members
      <4>2. Contains(OSRdy, p) <=> \E u \in TCBs : IsReady(u) /\ OSTCBPrio[u] = p
        BY DEF DataInv, ReadyListExact
      <4> QED
        BY <3>2, <4>1, <4>2 DEF IsReady
    <3> QED
      BY <3>1, <3>2
  <2> QED
    BY <2>1, <2>2 DEF ReadyListExact, IsReady, InList
<1> QED
  BY <1>1, <1>2, <1>3 DEF DataInv

-----------------------------------------------------------------------------
(* The end of a service *)

\* It reschedules.
LEMMA Reschedules ==
  ASSUME NEW STATE frames, frames \in [TCBs -> Contexts], OS_Sched(frames),
         IInv, OSRunning, OSRunning' = OSRunning, DataInv',
         OSTCBPrioTbl'[OS_TASK_IDLE_PRIO] # NULL,
         (OSPrioCur \in Members(OSRdy') \/ OSLockNesting' # 0)
            => OSTCBPrioTbl'[OSPrioCur] = OSTCBCur
  PROVE  IInv'
<1>1. /\ OSTCBCur \in TCBs /\ OSPrioCur \in AllPrios
      /\ OSTCBHighRdy = OSTCBCur /\ OSPrioHighRdy = OSPrioCur
  BY CurrentTask
<1>2. IdleExists' /\ CPUTypes
  BY DEF IdleExists, IInv
<1>3. CPUTypes' /\ RunInv'
  BY <1>1, <1>2, OSSchedIsRight
<1>4. BootInv'
  BY DEF BootInv
<1> QED
  BY <1>3, <1>4 DEF IInv

\* It returns to its caller, because nothing more urgent is ready.
LEMMA ReturnsToCaller ==
  ASSUME IInv, OSRunning, OSRunning' = OSRunning, DataInv',
         UNCHANGED <<OSPrioCur, OSPrioHighRdy, OSTCBCur, OSTCBHighRdy, OSTCBPrioTbl>>,
         context_frame' \in [TCBs -> Contexts], task_context_saved' \in Contexts,
         OSLockNesting' = 0 => /\ OSPrioCur \in Members(OSRdy')
                               /\ \A p \in Members(OSRdy') : OSPrioCur <= p
  PROVE  IInv'
<1>1. /\ IdleExists /\ OSTCBCur \in TCBs /\ OSPrioCur \in AllPrios
      /\ OSTCBPrioTbl[OSPrioCur] = OSTCBCur
      /\ OSTCBHighRdy = OSTCBCur /\ OSPrioHighRdy = OSPrioCur
  BY CurrentTask
<1>2. IdleExists'
  BY <1>1 DEF IdleExists
<1>3. HighestIsReady'
  BY <1>2, HighestReady, PTL
<1>4. Members(OSRdy') \subseteq AllPrios /\ OSPrioCur \in Prios64
  <2>1. BitsLeadToTasks'
    BY ReadyBits, PTL
  <2> QED
    BY <1>1, <2>1, AllPriosAreBytes DEF BitsLeadToTasks
<1>5. OSLockNesting' = 0 => OSPrioCur = Highest(OSRdy')
  <2> SUFFICES ASSUME OSLockNesting' = 0 PROVE OSPrioCur = Highest(OSRdy')
    OBVIOUS
  <2>1. /\ Highest(OSRdy') \in Members(OSRdy')
        /\ Highest(OSRdy') <= OSPrioCur /\ OSPrioCur <= Highest(OSRdy')
    BY <1>3 DEF HighestIsReady
  <2>2. Highest(OSRdy') \in Int /\ OSPrioCur \in Int
    <3>1. Prios64 \subseteq Int
      BY DEF Prios64
    <3> QED
      BY <1>4, <2>1, <3>1, AllPriosAreBytes
  <2> QED
    BY <2>1, <2>2
<1>6. InChain(OSTCBCur, OSTCBList') /\ OSTCBPrio'[OSTCBCur] = OSPrioCur
  BY <1>1 DEF DataInv, PrioTblExact, InList, InChain
<1>7. RunInv'
  BY <1>1, <1>2, <1>5, <1>6 DEF RunInv, IdleExists, InList, InChain
<1>8. CPUTypes' /\ BootInv'
  BY DEF CPUTypes, BootInv, IInv
<1> QED
  BY <1>7, <1>8 DEF IInv

-----------------------------------------------------------------------------
(* The services *)

\* DataTypes with what the wait-changing services leave alone.
LEMMA WaitTypes ==
  ASSUME DataInv, IsBitmap(OSRdy'),
         UNCHANGED <<OSTime, nestVars, listVars, OSTCBPrio, OSTCBDelReq, progress>>,
         OSTCBStat' \in [TCBs -> SUBSET StatBits], OSTCBDly' \in [TCBs -> Nat]
  PROVE  DataTypes'
BY DEF DataInv, DataTypes, IsBitmap, nestVars, listVars

LEMMA RdyIsBitmap == DataInv => IsBitmap(OSRdy)
BY DEF DataInv, DataTypes, ReadyListExact, IsBitmap

LEMMA TimeDlyKeepsIInv ==
  ASSUME IInv, NEW ticks \in 1..MaxDly, OSTimeDly(ticks)
  PROVE  IInv'
<1>1. OSRunning /\ DataInv /\ CPUTypes /\ OSTCBPrio[OSTCBCur] # OS_TASK_IDLE_PRIO
  BY DEF OSTimeDly, CanCall, IInv
<1>2. PICK t \in TCBs : t = OSTCBCur
  BY <1>1, CurrentTask
<1>3. /\ InList(t) /\ OSPrioCur = OSTCBPrio[t]
      /\ OSTCBPrioTbl[OSPrioCur] = t /\ IdleExists
  BY <1>1, <1>2, CurrentTask
<1>4. OSTCBPrio[t] \in Prios64
  BY <1>1, <1>3, PrioOfTask
<1>5. IsBitmap(OSRdy') /\ Members(OSRdy') = Members(OSRdy) \ {OSTCBPrio[t]}
  BY <1>1, <1>2, <1>4, RdyIsBitmap, RemoveIsDeletion DEF OSTimeDly
<1>6. /\ OSTCBDly' = [OSTCBDly EXCEPT ![t] = ticks] /\ ticks # 0
      /\ UNCHANGED <<OSTime, nestVars, listVars, OSTCBPrio, OSTCBStat, OSTCBDelReq, progress>>
  BY <1>2 DEF OSTimeDly
<1>7. /\ OSTCBDly' \in [TCBs -> Nat] /\ OSTCBStat' \in [TCBs -> SUBSET StatBits]
      /\ OSTCBDly'[t] # 0
      /\ \A u \in TCBs \ {t} : OSTCBStat'[u] = OSTCBStat[u] /\ OSTCBDly'[u] = OSTCBDly[u]
  BY <1>1, <1>6, ConstantsAssumption DEF DataInv, DataTypes
<1>8. DataTypes'
  BY <1>1, <1>5, <1>6, <1>7, WaitTypes
<1>9. DataInv'
  <2>1. UNCHANGED <<listVars, OSTCBPrio, OSIntNesting>>
    BY <1>6 DEF nestVars
  <2> QED
    BY <1>1, <1>2, <1>3, <1>5, <1>7, <1>8, <2>1, WaitChanges
<1>10. UNCHANGED <<OSRunning, OSLockNesting, OSTCBPrioTbl>> /\ OSLockNesting = 0
  BY <1>6 DEF nestVars, listVars, OSTimeDly
<1>11. OS_Sched(context_frame) /\ context_frame \in [TCBs -> Contexts]
  BY <1>1 DEF OSTimeDly, CPUTypes
<1> QED
  BY <1>1, <1>2, <1>3, <1>5, <1>9, <1>10, <1>11, Reschedules DEF IdleExists

LEMMA TimeDlyResumeKeepsIInv ==
  ASSUME IInv, NEW p \in AllPrios, OSTimeDlyResume(p)
  PROVE  IInv'
<1>1. /\ OSRunning /\ DataInv /\ CPUTypes
      /\ p # OS_TASK_IDLE_PRIO /\ OSTCBPrioTbl[p] # NULL
  BY DEF OSTimeDlyResume, CanCall, IInv
<1>2. PICK t \in TCBs : t = OSTCBPrioTbl[p]
  BY <1>1, TaskOfPrio
<1>3. InList(t) /\ OSTCBPrio[t] = p /\ p \in Prios64
  BY <1>1, <1>2, TaskOfPrio, AllPriosAreBytes
<1> DEFINE stat == OSTCBStat[t] \ OS_STAT_PEND_ANY
<1>4. /\ OSTCBDly[t] # 0
      /\ OSTCBDly' = [OSTCBDly EXCEPT ![t] = 0]
      /\ OSTCBStat' = [OSTCBStat EXCEPT ![t] = stat]
      /\ UNCHANGED <<OSTime, nestVars, listVars, OSTCBPrio, OSTCBDelReq, progress>>
      /\ IF "SUSPEND" \notin stat
         THEN OSRdy' = Add(OSRdy, p) /\ OS_Sched(context_frame)
         ELSE UNCHANGED <<OSRdy, dispatchVars>>
  BY <1>2, <1>3 DEF OSTimeDlyResume
<1>5. OSTCBStat \in [TCBs -> SUBSET StatBits] /\ OSTCBDly \in [TCBs -> Nat]
  BY <1>1 DEF DataInv, DataTypes
<1>6. /\ OSTCBDly' \in [TCBs -> Nat] /\ OSTCBStat' \in [TCBs -> SUBSET StatBits]
      /\ OSTCBDly'[t] = 0 /\ OSTCBStat'[t] = stat
      /\ \A u \in TCBs \ {t} : OSTCBStat'[u] = OSTCBStat[u] /\ OSTCBDly'[u] = OSTCBDly[u]
  BY <1>4, <1>5
<1>7. stat = OS_STAT_RDY <=> "SUSPEND" \notin stat
  BY <1>5 DEF StatBits, OS_STAT_RDY
<1>8. UNCHANGED <<OSRunning, OSLockNesting, OSTCBPrioTbl, listVars, OSTCBPrio, OSIntNesting>>
  BY <1>4 DEF nestVars, listVars
<1>9. /\ IdleExists /\ OSTCBPrioTbl[OSPrioCur] = OSTCBCur
      /\ OSLockNesting = 0 => /\ OSPrioCur \in Members(OSRdy)
                              /\ \A q \in Members(OSRdy) : OSPrioCur <= q
  BY <1>1, CurrentTask
<1>10. context_frame \in [TCBs -> Contexts] /\ task_context_saved \in Contexts
  BY <1>1 DEF CPUTypes
<1> HIDE DEF stat
<1>11. CASE "SUSPEND" \notin stat
  <2>1. IsBitmap(OSRdy') /\ Members(OSRdy') = Members(OSRdy) \cup {p}
    BY <1>1, <1>3, <1>4, <1>11, RdyIsBitmap, AddIsInsertion
  <2>2. DataTypes'
    BY <1>1, <1>4, <1>6, <2>1, WaitTypes
  <2>3. DataInv'
    BY <1>1, <1>3, <1>6, <1>7, <1>8, <1>11, <2>1, <2>2, WaitChanges
  <2> QED
    BY <1>1, <1>4, <1>8, <1>9, <1>10, <1>11, <2>3, Reschedules DEF IdleExists
<1>12. CASE "SUSPEND" \in stat
  <2>1. UNCHANGED <<OSRdy, dispatchVars>> /\ IsBitmap(OSRdy)
    BY <1>1, <1>4, <1>12, RdyIsBitmap
  <2>2. DataTypes'
    BY <1>1, <1>4, <1>6, <2>1, WaitTypes
  <2>3. p \notin Members(OSRdy)
    BY <1>1, <1>3, <1>4, BitOfTask DEF IsReady
  <2>4. DataInv'
    BY <1>1, <1>3, <1>6, <1>7, <1>8, <1>12, <2>1, <2>2, <2>3, WaitChanges
  <2> QED
    BY <1>1, <1>8, <1>9, <1>10, <2>1, <2>4, ReturnsToCaller DEF dispatchVars
<1> QED
  BY <1>11, <1>12

LEMMA TaskSuspendKeepsIInv ==
  ASSUME IInv, NEW p \in AllPrios, OSTaskSuspend(p)
  PROVE  IInv'
<1>1. /\ OSRunning /\ DataInv /\ CPUTypes
      /\ p # OS_TASK_IDLE_PRIO /\ OSTCBPrioTbl[p] # NULL
  BY DEF OSTaskSuspend, CanCall, IInv
<1>2. PICK t \in TCBs : t = OSTCBPrioTbl[p]
  BY <1>1, TaskOfPrio
<1>3. InList(t) /\ OSTCBPrio[t] = p /\ p \in Prios64
  BY <1>1, <1>2, TaskOfPrio, AllPriosAreBytes
<1>4. /\ OSRdy' = Remove(OSRdy, p)
      /\ OSTCBStat' = [OSTCBStat EXCEPT ![t] = @ \cup {"SUSPEND"}]
      /\ UNCHANGED <<OSTime, nestVars, listVars, OSTCBPrio, OSTCBDly, OSTCBDelReq, progress>>
      /\ IF p = OSTCBPrio[OSTCBCur] THEN OS_Sched(context_frame)
                                    ELSE UNCHANGED dispatchVars
  BY <1>2, <1>3 DEF OSTaskSuspend
<1>5. OSTCBStat \in [TCBs -> SUBSET StatBits] /\ OSTCBDly \in [TCBs -> Nat]
  BY <1>1 DEF DataInv, DataTypes
<1>6. /\ OSTCBDly' \in [TCBs -> Nat] /\ OSTCBStat' \in [TCBs -> SUBSET StatBits]
      /\ OSTCBStat'[t] # OS_STAT_RDY
      /\ \A u \in TCBs \ {t} : OSTCBStat'[u] = OSTCBStat[u] /\ OSTCBDly'[u] = OSTCBDly[u]
  BY <1>4, <1>5 DEF StatBits, OS_STAT_RDY
<1>7. IsBitmap(OSRdy') /\ Members(OSRdy') = Members(OSRdy) \ {p}
  BY <1>1, <1>3, <1>4, RdyIsBitmap, RemoveIsDeletion
<1>8. UNCHANGED <<OSRunning, OSLockNesting, OSTCBPrioTbl, listVars, OSTCBPrio, OSIntNesting>>
  BY <1>4 DEF nestVars, listVars
<1>9. DataInv'
  <2>1. DataTypes'
    BY <1>1, <1>4, <1>6, <1>7, WaitTypes
  <2> QED
    BY <1>1, <1>3, <1>6, <1>7, <1>8, <2>1, WaitChanges
<1>10. /\ IdleExists /\ OSTCBPrioTbl[OSPrioCur] = OSTCBCur
       /\ OSPrioCur = OSTCBPrio[OSTCBCur]
       /\ OSLockNesting = 0 => /\ OSPrioCur \in Members(OSRdy)
                               /\ \A q \in Members(OSRdy) : OSPrioCur <= q
  BY <1>1, CurrentTask
<1>11. context_frame \in [TCBs -> Contexts] /\ task_context_saved \in Contexts
  BY <1>1 DEF CPUTypes
<1>12. CASE p = OSTCBPrio[OSTCBCur]
  BY <1>1, <1>4, <1>8, <1>9, <1>10, <1>11, <1>12, Reschedules DEF IdleExists
<1>13. CASE p # OSTCBPrio[OSTCBCur]
  BY <1>1, <1>4, <1>7, <1>8, <1>9, <1>10, <1>11, <1>13, ReturnsToCaller DEF dispatchVars
<1> QED
  BY <1>12, <1>13

LEMMA TaskResumeKeepsIInv ==
  ASSUME IInv, NEW p \in AllPrios, OSTaskResume(p)
  PROVE  IInv'
<1>1. OSRunning /\ DataInv /\ CPUTypes /\ OSTCBPrioTbl[p] # NULL
  BY DEF OSTaskResume, CanCall, IInv
<1>2. PICK t \in TCBs : t = OSTCBPrioTbl[p]
  BY <1>1, TaskOfPrio
<1>3. InList(t) /\ OSTCBPrio[t] = p /\ p \in Prios64
  BY <1>1, <1>2, TaskOfPrio, AllPriosAreBytes
<1> DEFINE stat == OSTCBStat[t] \ {"SUSPEND"}
<1>4. /\ "SUSPEND" \in OSTCBStat[t]
      /\ OSTCBStat' = [OSTCBStat EXCEPT ![t] = stat]
      /\ UNCHANGED <<OSTime, nestVars, listVars, OSTCBPrio, OSTCBDly, OSTCBDelReq, progress>>
      /\ IF stat = OS_STAT_RDY /\ OSTCBDly[t] = 0
         THEN OSRdy' = Add(OSRdy, p) /\ OS_Sched(context_frame)
         ELSE UNCHANGED <<OSRdy, dispatchVars>>
  BY <1>2, <1>3 DEF OSTaskResume, WaitsForNothing
<1>5. OSTCBStat \in [TCBs -> SUBSET StatBits] /\ OSTCBDly \in [TCBs -> Nat]
  BY <1>1 DEF DataInv, DataTypes
<1>6. /\ OSTCBDly' \in [TCBs -> Nat] /\ OSTCBStat' \in [TCBs -> SUBSET StatBits]
      /\ OSTCBStat'[t] = stat /\ OSTCBDly'[t] = OSTCBDly[t]
      /\ \A u \in TCBs \ {t} : OSTCBStat'[u] = OSTCBStat[u] /\ OSTCBDly'[u] = OSTCBDly[u]
  BY <1>4, <1>5
<1>7. ~IsReady(t)
  BY <1>4 DEF IsReady, OS_STAT_RDY
<1>8. UNCHANGED <<OSRunning, OSLockNesting, OSTCBPrioTbl, listVars, OSTCBPrio, OSIntNesting>>
  BY <1>4 DEF nestVars, listVars
<1>9. /\ IdleExists /\ OSTCBPrioTbl[OSPrioCur] = OSTCBCur
      /\ OSLockNesting = 0 => /\ OSPrioCur \in Members(OSRdy)
                              /\ \A q \in Members(OSRdy) : OSPrioCur <= q
  BY <1>1, CurrentTask
<1>10. context_frame \in [TCBs -> Contexts] /\ task_context_saved \in Contexts
  BY <1>1 DEF CPUTypes
<1>11. p # OS_TASK_IDLE_PRIO
  BY <1>1, <1>2, <1>4 DEF DataInv, IdleInv, OS_STAT_RDY
<1> HIDE DEF stat
<1>12. CASE stat = OS_STAT_RDY /\ OSTCBDly[t] = 0
  <2>1. IsBitmap(OSRdy') /\ Members(OSRdy') = Members(OSRdy) \cup {p}
    BY <1>1, <1>3, <1>4, <1>12, RdyIsBitmap, AddIsInsertion
  <2>2. DataTypes'
    BY <1>1, <1>4, <1>6, <2>1, WaitTypes
  <2>3. DataInv'
    BY <1>1, <1>3, <1>6, <1>8, <1>11, <1>12, <2>1, <2>2, WaitChanges
  <2> QED
    BY <1>1, <1>4, <1>8, <1>9, <1>10, <1>12, <2>3, Reschedules DEF IdleExists
<1>13. CASE ~(stat = OS_STAT_RDY /\ OSTCBDly[t] = 0)
  <2>1. UNCHANGED <<OSRdy, dispatchVars>> /\ IsBitmap(OSRdy)
    BY <1>1, <1>4, <1>13, RdyIsBitmap
  <2>2. DataTypes'
    BY <1>1, <1>4, <1>6, <2>1, WaitTypes
  <2>3. p \notin Members(OSRdy)
    BY <1>1, <1>3, <1>7, BitOfTask
  <2>4. DataInv'
    BY <1>1, <1>3, <1>6, <1>8, <1>11, <1>13, <2>1, <2>2, <2>3, WaitChanges
  <2> QED
    BY <1>1, <1>8, <1>9, <1>10, <2>1, <2>4, ReturnsToCaller DEF dispatchVars
<1> QED
  BY <1>12, <1>13

\* Steps that leave all the data that DataInv relates alone.
LEMMA DataStays ==
  ASSUME DataInv, DataTypes',
         UNCHANGED <<OSIntNesting, listVars, OSRdy, OSTCBPrio, OSTCBStat, OSTCBDly>>
  PROVE  DataInv'
<1>1. /\ ListInv' /\ ChainInv' /\ LivePrios' /\ PrioTblExact'
      /\ IdleInv' /\ OSIntNesting' = 0
  BY DEF DataInv, ListInv, ChainInv, LivePrios, PrioTblExact, IdleInv, InList, listVars
<1>2. ReadyListExact'
  BY DEF DataInv, ReadyListExact, IsReady, InList, listVars
<1> QED
  BY <1>1, <1>2 DEF DataInv

LEMMA TimeSetKeepsIInv ==
  ASSUME IInv, NEW ticks \in 0..(TimeMod - 1), OSTimeSet(ticks)
  PROVE  IInv'
<1>1. DataInv /\ OSRunning /\ CPUTypes
  BY DEF OSTimeSet, CanCall, IInv
<1>2. DataTypes'
  BY <1>1 DEF DataInv, DataTypes, OSTimeSet, nestVars, listVars
<1>3. DataInv'
  BY <1>1, <1>2, DataStays DEF OSTimeSet, nestVars
<1> QED
  BY <1>1, <1>3, CurrentTask, ReturnsToCaller
     DEF OSTimeSet, nestVars, listVars, dispatchVars, CPUTypes

LEMMA TaskDelReqKeepsIInv ==
  ASSUME IInv, NEW p \in AllPrios, OSTaskDelReq(p)
  PROVE  IInv'
<1>1. DataInv /\ OSRunning /\ CPUTypes
  BY DEF OSTaskDelReq, CanCall, IInv
<1>2. DataTypes'
  BY <1>1 DEF DataInv, DataTypes, OSTaskDelReq, nestVars, listVars
<1>3. DataInv'
  BY <1>1, <1>2, DataStays DEF OSTaskDelReq, nestVars
<1> QED
  BY <1>1, <1>3, CurrentTask, ReturnsToCaller
     DEF OSTaskDelReq, nestVars, listVars, dispatchVars, CPUTypes

LEMMA SchedLockKeepsIInv ==
  ASSUME IInv, OSSchedLock
  PROVE  IInv'
<1>1. DataInv /\ OSRunning /\ CPUTypes
  BY DEF OSSchedLock, CanCall, IInv
<1>2. OSLockNesting' \in 1..NestMax
  BY <1>1, ConstantsAssumption DEF OSSchedLock, DataInv, DataTypes
<1>3. DataTypes'
  BY <1>1, <1>2, ConstantsAssumption DEF DataInv, DataTypes, OSSchedLock, listVars
<1>4. DataInv'
  BY <1>1, <1>3, DataStays DEF OSSchedLock
<1> QED
  BY <1>1, <1>2, <1>4, ReturnsToCaller
     DEF OSSchedLock, listVars, dispatchVars, CPUTypes

LEMMA SchedUnlockKeepsIInv ==
  ASSUME IInv, OSSchedUnlock
  PROVE  IInv'
<1>1. DataInv /\ OSRunning /\ CPUTypes
  BY DEF OSSchedUnlock, CanCall, IInv
<1>2. OSLockNesting' \in 0..NestMax
  BY <1>1, ConstantsAssumption DEF OSSchedUnlock, DataInv, DataTypes
<1>3. DataTypes'
  BY <1>1, <1>2 DEF DataInv, DataTypes, OSSchedUnlock, listVars
<1>4. DataInv'
  BY <1>1, <1>3, DataStays DEF OSSchedUnlock
<1>5. /\ OS_Sched(context_frame) /\ context_frame \in [TCBs -> Contexts]
      /\ UNCHANGED <<OSRunning, OSTCBPrioTbl>>
  BY <1>1 DEF OSSchedUnlock, CPUTypes, listVars
<1> QED
  BY <1>1, <1>4, <1>5, CurrentTask, Reschedules DEF IdleExists

LEMMA TaskStepKeepsIInv ==
  ASSUME IInv, TaskStep
  PROVE  IInv'
<1>1. DataInv /\ OSRunning /\ CPUTypes
  BY DEF TaskStep, IInv
<1> DEFINE pc == (task_context_saved.pc + 1) % PcMod
<1>2. pc \in 0..(PcMod - 1)
  <2>1. task_context_saved.pc \in Int
    BY <1>1 DEF CPUTypes, Contexts
  <2> QED
    BY <2>1, ConstantsAssumption
<1>3. task_context_saved' \in Contexts
  BY <1>1, <1>2 DEF TaskStep, CPUTypes, Contexts
<1>4. progress' \in [TCBs -> 0..(PcMod - 1)]
  BY <1>1, <1>2 DEF TaskStep, DataInv, DataTypes
<1>5. DataTypes'
  BY <1>1, <1>4 DEF DataInv, DataTypes, TaskStep, nestVars, listVars
<1>6. DataInv'
  BY <1>1, <1>5, DataStays DEF TaskStep, nestVars
<1> QED
  BY <1>1, <1>3, <1>6, CurrentTask, ReturnsToCaller
     DEF TaskStep, nestVars, listVars, CPUTypes

-----------------------------------------------------------------------------
(* Starting the partition *)

LEMMA InitEstablishesIInv == Init => IInv
<1> SUFFICES ASSUME Init
             PROVE  IInv
  OBVIOUS
<1>1. OSTCBFreeList \in Seq(TCBs) /\ Len(OSTCBFreeList) = NumTCBs
  BY ConstantsAssumption DEF Init, TCBs
<1>2. OSTCBList = <<>> /\ OSTCBList \in Seq(TCBs) /\ Len(OSTCBList) = 0
  BY EmptySeq DEF Init
<1>11. ChainInv
  BY <1>1, <1>2, ConstantsAssumption DEF ChainInv
<1>10. ListInv
  <2>1. \A i, j \in 1..Len(OSTCBFreeList) : OSTCBFreeList[i] = OSTCBFreeList[j] => i = j
    BY <1>1 DEF Init, TCBs
  <2>2. OSTaskCtr = Len(OSTCBList) /\ \A i \in 1..Len(OSTCBList) : FALSE
    BY <1>2 DEF Init
  <2> QED
    BY <2>1, <2>2 DEF ListInv
<1>3. IsBitmap(OSRdy) /\ Members(OSRdy) = {}
  BY EmptyIsBitmap DEF Init
<1>4. DataTypes
  <2>1. /\ OSTime \in 0..(TimeMod - 1)
        /\ OSIntNesting \in 0..NestMax
        /\ OSLockNesting \in 0..NestMax
        /\ OSTaskCtr \in Nat
    BY ConstantsAssumption DEF Init
  <2>4. OSRunning \in BOOLEAN
    BY DEF Init
  <2>2. /\ OSTCBPrioTbl \in [AllPrios -> TCBs \cup {NULL}]
        /\ OSTCBPrio \in [TCBs -> Prios64]
        /\ OSTCBStat \in [TCBs -> SUBSET StatBits]
        /\ OSTCBDly \in [TCBs -> Nat]
        /\ OSTCBDelReq \in [TCBs -> BOOLEAN]
    BY DEF Init, Prios64, OS_STAT_RDY
  <2>3. progress \in [TCBs -> 0..(PcMod - 1)]
    BY ConstantsAssumption DEF Init
  <2> QED
    BY <1>1, <1>2, <1>3, <2>1, <2>2, <2>3, <2>4 DEF DataTypes, IsBitmap
<1>5. \A t \in TCBs : ~InList(t)
  BY <1>2 DEF InList
<1>6. LivePrios /\ PrioTblExact
  BY <1>5 DEF LivePrios, PrioTblExact, Init, NULL, TCBs
<1>7. ReadyListExact
  BY <1>3, <1>5 DEF ReadyListExact, IsReady, IsBitmap, Members
<1>8. IdleInv /\ BootInv /\ RunInv
  BY DEF Init, IdleInv, BootInv, RunInv, AllPrios
<1>9. CPUTypes
  BY ConstantsAssumption
     DEF Init, CPUTypes, Prios64, NULL, Contexts, NoContext
<1> QED
  BY <1>4, <1>6, <1>7, <1>8, <1>9, <1>10, <1>11 DEF IInv, DataInv, Init

LEMMA StartEstablishesRunInv ==
  ASSUME IInv, OSStart
  PROVE  IInv'
<1>1. /\ DataInv /\ CPUTypes /\ IdleExists
  BY BootAssumption DEF OSStart, IInv, BootInv, IdleExists
<1>2. DataTypes'
  BY <1>1 DEF DataInv, DataTypes, OSStart, listVars
<1>3. DataInv'
  BY <1>1, <1>2, DataStays DEF OSStart
<1> DEFINE p == Highest(OSRdy)
<1>4. /\ p \in AllPrios /\ p \in Prios64
      /\ OSTCBPrioTbl[p] \in TCBs
      /\ InList(OSTCBPrioTbl[p]) /\ OSTCBPrio[OSTCBPrioTbl[p]] = p
  BY <1>1, ReadyBits, HighestReady, AllPriosAreBytes
     DEF BitsLeadToTasks, HighestIsReady, IsReady
<1>5. /\ OSPrioHighRdy' = p /\ OSPrioCur' = p
      /\ OSTCBHighRdy' = OSTCBPrioTbl[p] /\ OSTCBCur' = OSTCBPrioTbl[p]
      /\ task_context_saved' = context_frame[OSTCBPrioTbl[p]]
      /\ OSRunning'
      /\ UNCHANGED <<OSRdy, OSTCBPrio, OSTCBPrioTbl, OSTCBList, context_frame>>
  BY DEF OSStart, listVars
<1>6. CPUTypes'
  BY <1>1, <1>4, <1>5 DEF CPUTypes
<1>7. RunInv' /\ BootInv'
  BY <1>1, <1>4, <1>5 DEF RunInv, BootInv, InList, IdleExists
<1> QED
  BY <1>3, <1>6, <1>7 DEF IInv

-----------------------------------------------------------------------------
(* Creating tasks *)

\* OS_TCBInit, for a priority that is free, adds one ready task.
LEMMA TCBInitKeepsDataInv ==
  ASSUME DataInv, NEW p \in AllPrios, OSTCBPrioTbl[p] = NULL,
         OS_TCBInit(p), UNCHANGED <<OSTime, nestVars>>,
         p = OS_TASK_IDLE_PRIO <=> OSTaskCtr = 0
  PROVE  /\ DataInv'
         /\ \A q \in AllPrios \ {p} : OSTCBPrioTbl'[q] = OSTCBPrioTbl[q]
         /\ OSTCBPrioTbl'[p] # NULL
         /\ Head(OSTCBFreeList) \in TCBs /\ ~InList(Head(OSTCBFreeList))
         /\ \A u \in TCBs : InChain(u, OSTCBList') <=> InList(u) \/ u = Head(OSTCBFreeList)
<1>1. /\ OSTCBFreeList \in Seq(TCBs) /\ OSTCBFreeList # <<>>
      /\ OSTCBList \in Seq(TCBs)
  BY DEF DataInv, DataTypes, OS_TCBInit
<1>2. PICK t \in TCBs : t = Head(OSTCBFreeList)
  BY <1>1, HeadTailProperties
<1>3. /\ t = OSTCBFreeList[1] /\ Len(OSTCBFreeList) \in Nat \ {0}
      /\ Tail(OSTCBFreeList) \in Seq(TCBs)
      /\ Len(Tail(OSTCBFreeList)) = Len(OSTCBFreeList) - 1
      /\ \A i \in 1..(Len(OSTCBFreeList) - 1) : Tail(OSTCBFreeList)[i] = OSTCBFreeList[i + 1]
  <2>1. Len(OSTCBFreeList) \in Nat \ {0}
    BY <1>1, EmptySeq
  <2>2. /\ Tail(OSTCBFreeList) \in Seq(TCBs)
        /\ Len(Tail(OSTCBFreeList)) = Len(OSTCBFreeList) - 1
        /\ \A i \in 1..Len(Tail(OSTCBFreeList)) : Tail(OSTCBFreeList)[i] = OSTCBFreeList[i + 1]
    BY <1>1, HeadTailProperties
  <2>3. Head(OSTCBFreeList) = OSTCBFreeList[1]
    BY <1>1
  <2> QED
    BY <1>2, <2>1, <2>2, <2>3
<1>4. /\ OSTCBFreeList' = Tail(OSTCBFreeList)
      /\ OSTCBPrio' = [OSTCBPrio EXCEPT ![t] = p]
      /\ OSTCBStat' = [OSTCBStat EXCEPT ![t] = OS_STAT_RDY]
      /\ OSTCBDly' = [OSTCBDly EXCEPT ![t] = 0]
      /\ OSTCBDelReq' = [OSTCBDelReq EXCEPT ![t] = FALSE]
      /\ OSTCBPrioTbl' = [OSTCBPrioTbl EXCEPT ![p] = t]
      /\ OSTCBList' = <<t>> \o OSTCBList
      /\ OSRdy' = Add(OSRdy, p)
      /\ OSTaskCtr' = OSTaskCtr + 1
      /\ progress' = [progress EXCEPT ![t] = 0]
  BY <1>2 DEF OS_TCBInit, ClearDelReq, LinkTCB
<1>5. IsBitmap(OSRdy') /\ Members(OSRdy') = Members(OSRdy) \cup {p} /\ p \in Prios64
  BY <1>4, RdyIsBitmap, AddIsInsertion, AllPriosAreBytes
<1>6. /\ OSTCBList' \in Seq(TCBs) /\ Len(OSTCBList') = Len(OSTCBList) + 1
      /\ \A i \in 1..(Len(OSTCBList) + 1) :
           OSTCBList'[i] = IF i = 1 THEN t ELSE OSTCBList[i - 1]
      /\ Len(OSTCBList) \in Nat
  BY <1>1, <1>4, LinkShifts, LenProperties
<1>7. /\ OSTaskCtr = Len(OSTCBList)
      /\ \A i, j \in 1..Len(OSTCBList) : OSTCBList[i] = OSTCBList[j] => i = j
      /\ \A i, j \in 1..Len(OSTCBFreeList) : OSTCBFreeList[i] = OSTCBFreeList[j] => i = j
      /\ \A i \in 1..Len(OSTCBList), j \in 1..Len(OSTCBFreeList) :
           OSTCBList[i] # OSTCBFreeList[j]
  BY DEF DataInv, ListInv
<1>8. ListInv'
  <2>0. \A i \in 1..Len(OSTCBList) : OSTCBList[i] # t
    BY <1>3, <1>7
  <2>1. /\ \A i, j \in 1..Len(OSTCBList') : OSTCBList'[i] = OSTCBList'[j] => i = j
        /\ \A i \in 1..Len(OSTCBList') :
             OSTCBList'[i] = t \/ \E m \in 1..Len(OSTCBList) : OSTCBList'[i] = OSTCBList[m]
    <3>1. /\ \A i, j \in 1..Len(<<t>> \o OSTCBList) :
               (<<t>> \o OSTCBList)[i] = (<<t>> \o OSTCBList)[j] => i = j
          /\ \A i \in 1..Len(<<t>> \o OSTCBList) :
               \/ (<<t>> \o OSTCBList)[i] = t
               \/ \E m \in 1..Len(OSTCBList) : (<<t>> \o OSTCBList)[i] = OSTCBList[m]
      <4>1. \A i, j \in 1..Len(OSTCBList) : OSTCBList[i] = OSTCBList[j] => i = j
        BY <1>7
      <4>2. OSTCBList \in Seq(TCBs)
        BY <1>1
      <4> QED
        BY <4>1, <4>2, <2>0, LinkKeepsDistinct
    <3> QED
      BY <3>1, <1>4
  <2>2. \A i, j \in 1..Len(OSTCBFreeList') : OSTCBFreeList'[i] = OSTCBFreeList'[j] => i = j
    BY <1>3, <1>4, <1>7
  <2>3. \A i \in 1..Len(OSTCBList'), j \in 1..Len(OSTCBFreeList') :
          OSTCBList'[i] # OSTCBFreeList'[j]
    BY <1>3, <1>4, <1>6, <1>7
  <2> QED
    BY <1>4, <1>6, <1>7, <2>1, <2>2, <2>3 DEF ListInv
<1>9. DataTypes'
  <2>1. DataTypes
    BY DEF DataInv
  <2>2. /\ OSTime' \in 0..(TimeMod - 1) /\ OSRunning' \in BOOLEAN
        /\ OSIntNesting' \in 0..NestMax /\ OSLockNesting' \in 0..NestMax
    BY <2>1 DEF DataTypes, nestVars
  <2>3. /\ OSTaskCtr' \in Nat /\ OSRdy' \in Bitmaps
        /\ OSTCBFreeList' \in Seq(TCBs) /\ OSTCBList' \in Seq(TCBs)
    BY <1>3, <1>4, <1>5, <1>6, <2>1 DEF DataTypes, IsBitmap
  <2>4. /\ OSTCBPrioTbl' \in [AllPrios -> TCBs \cup {NULL}]
        /\ OSTCBPrio' \in [TCBs -> Prios64]
        /\ OSTCBStat' \in [TCBs -> SUBSET StatBits]
        /\ OSTCBDly' \in [TCBs -> Nat]
        /\ OSTCBDelReq' \in [TCBs -> BOOLEAN]
    BY <1>4, <1>5, <2>1 DEF DataTypes, OS_STAT_RDY
  <2>5. progress' \in [TCBs -> 0..(PcMod - 1)]
    BY <1>4, <2>1, ConstantsAssumption DEF DataTypes
  <2> QED
    BY <2>2, <2>3, <2>4, <2>5 DEF DataTypes
<1>10. ~InList(t) /\ \A u \in TCBs : InList(u) => OSTCBPrio[u] # p
  <2>1. ~InList(t)
    BY <1>3, <1>7 DEF InList
  <2>2. \A u \in TCBs : OSTCBPrioTbl[p] # u
    BY DEF TCBs, NULL
  <2> QED
    BY <2>1, <2>2 DEF DataInv, PrioTblExact
<1>11. \A u \in TCBs : InChain(u, OSTCBList') <=> InList(u) \/ u = t
  <2> SUFFICES ASSUME NEW u \in TCBs
               PROVE  InChain(u, OSTCBList') <=> InList(u) \/ u = t
    OBVIOUS
  <2>1. OSTCBList'[1] = t /\ 1 \in 1..Len(OSTCBList')
    BY <1>6
  <2>2. ASSUME NEW i \in 1..Len(OSTCBList), OSTCBList[i] = u
        PROVE  OSTCBList'[i + 1] = u /\ i + 1 \in 1..Len(OSTCBList')
    BY <1>6, <2>2
  <2>3. ASSUME NEW i \in 1..Len(OSTCBList'), OSTCBList'[i] = u, u # t
        PROVE  i - 1 \in 1..Len(OSTCBList) /\ OSTCBList[i - 1] = u
    BY <1>6, <2>3
  <2> QED
    BY <2>1, <2>2, <2>3 DEF InChain, InList
<1>12. /\ OSTCBPrio'[t] = p /\ OSTCBPrioTbl'[p] = t
       /\ OSTCBStat'[t] = OS_STAT_RDY /\ OSTCBDly'[t] = 0
       /\ \A u \in TCBs \ {t} : /\ OSTCBPrio'[u] = OSTCBPrio[u]
                                /\ OSTCBStat'[u] = OSTCBStat[u]
                                /\ OSTCBDly'[u] = OSTCBDly[u]
       /\ \A q \in AllPrios \ {p} : OSTCBPrioTbl'[q] = OSTCBPrioTbl[q]
  BY <1>4 DEF DataInv, DataTypes
<1>13. LivePrios'
  BY <1>11, <1>12 DEF DataInv, LivePrios, InList, InChain
<1>14. PrioTblExact'
  <2> SUFFICES ASSUME NEW q \in AllPrios, NEW u \in TCBs
               PROVE  OSTCBPrioTbl'[q] = u <=> InChain(u, OSTCBList') /\ OSTCBPrio'[u] = q
    BY DEF PrioTblExact, InList, InChain
  <2>1. OSTCBPrioTbl[q] = u <=> InList(u) /\ OSTCBPrio[u] = q
    BY DEF DataInv, PrioTblExact
  <2> QED
    BY <1>10, <1>11, <1>12, <2>1
<1>15. ReadyListExact'
  <2>1. ASSUME NEW q \in Prios64
        PROVE  Contains(OSRdy', q) <=>
                 \E u \in TCBs : /\ InChain(u, OSTCBList') /\ OSTCBPrio'[u] = q
                                 /\ OSTCBStat'[u] = OS_STAT_RDY /\ OSTCBDly'[u] = 0
    <3>1. Contains(OSRdy', q) <=> Contains(OSRdy, q) \/ q = p
      BY <1>5 DEF Members
    <3>2. Contains(OSRdy, q) <=> \E u \in TCBs : IsReady(u) /\ OSTCBPrio[u] = q
      BY DEF DataInv, ReadyListExact
    <3>3. CASE q = p
      BY <3>1, <3>3, <1>11, <1>12
    <3>4. CASE q # p
      BY <3>1, <3>2, <3>4, <1>10, <1>11, <1>12 DEF IsReady
    <3> QED
      BY <3>3, <3>4
  <2> QED
    BY <1>5, <2>1 DEF ReadyListExact, IsReady, InList, InChain, IsBitmap
<1>16. IdleInv'
  <2>1. OS_TASK_IDLE_PRIO \in AllPrios
    BY DEF AllPrios
  <2>2. CASE p = OS_TASK_IDLE_PRIO
    BY <2>2, <1>12 DEF IdleInv
  <2>3. CASE p # OS_TASK_IDLE_PRIO
    <3>1. OSTCBPrioTbl'[OS_TASK_IDLE_PRIO] = OSTCBPrioTbl[OS_TASK_IDLE_PRIO]
      BY <2>1, <2>3, <1>12
    <3>2. OSTCBPrioTbl[OS_TASK_IDLE_PRIO] # NULL =>
            OSTCBPrioTbl[OS_TASK_IDLE_PRIO] \in TCBs \ {t}
      BY <2>1, <1>10, TaskOfPrio
    <3> QED
      BY <3>1, <3>2, <1>12 DEF DataInv, IdleInv
  <2> QED
    BY <2>2, <2>3
<1>17. OSIntNesting' = 0
  BY DEF DataInv, nestVars
<1>18. OSTCBPrioTbl'[p] # NULL
  BY <1>12 DEF TCBs, NULL
<1>19. ChainInv'
  <2>1. Len(OSTCBList') + Len(OSTCBFreeList') = NumTCBs
    BY <1>3, <1>4, <1>6 DEF DataInv, ChainInv
  <2>2. ASSUME NEW i \in 1..Len(OSTCBList')
        PROVE  OSTCBPrio'[OSTCBList'[i]] = OS_TASK_IDLE_PRIO <=> i = Len(OSTCBList')
    <3>1. CASE i = 1
      BY <3>1, <1>6, <1>7, <1>12
    <3>2. CASE i # 1
      <4>1. i - 1 \in 1..Len(OSTCBList) /\ OSTCBList'[i] = OSTCBList[i - 1]
        BY <3>2, <1>6
      <4>2. OSTCBList[i - 1] \in TCBs /\ InList(OSTCBList[i - 1])
        BY <4>1, <1>1, ElementOfSeq DEF InList
      <4>3. OSTCBPrio'[OSTCBList'[i]] = OSTCBPrio[OSTCBList[i - 1]]
        BY <4>1, <4>2, <1>10, <1>12
      <4>4. OSTCBPrio[OSTCBList[i - 1]] = OS_TASK_IDLE_PRIO <=> i - 1 = Len(OSTCBList)
        BY <4>1 DEF DataInv, ChainInv
      <4> QED
        BY <4>3, <4>4, <1>6
    <3> QED
      BY <3>1, <3>2
  <2> QED
    BY <2>1, <2>2 DEF ChainInv
<1> QED
  BY <1>2, <1>10, <1>11, <1>19, <1>8, <1>9, <1>12, <1>13, <1>14, <1>15, <1>16, <1>17, <1>18 DEF DataInv

\* The contexts of the TCBs with the new task's among them.
LEMMA FramesAreContexts ==
  ASSUME CPUTypes, DataInv, OSTCBFreeList # <<>>
  PROVE  FramesWithNewTask \in [TCBs -> Contexts]
<1>1. Head(OSTCBFreeList) \in TCBs
  BY HeadTailProperties DEF DataInv, DataTypes
<1>2. EntryContext(Head(OSTCBFreeList)) \in Contexts
  BY <1>1, ConstantsAssumption DEF EntryContext, Contexts
<1> QED
  BY <1>2 DEF FramesWithNewTask, CPUTypes

\* While the partition runs the idle task is among those that exist.
LEMMA RunningKeepsIdle ==
  ASSUME IInv, OSRunning, NEW p \in AllPrios, OSTCBPrioTbl[p] = NULL
  PROVE  p # OS_TASK_IDLE_PRIO /\ OSTaskCtr # 0
<1>1. IdleExists /\ InList(OSTCBCur)
  BY CurrentTask
<1>2. Len(OSTCBList) \in Nat /\ OSTaskCtr = Len(OSTCBList)
  BY LenProperties DEF IInv, DataInv, DataTypes, ListInv
<1> QED
  BY <1>1, <1>2 DEF InList, IdleExists

\* The first task partition_add creates is the idle task.
LEMMA BootTaskIsNext ==
  ASSUME IInv, PartitionAdd
  PROVE  /\ BootPrios[OSTaskCtr + 1] \in AllPrios
         /\ BootPrios[OSTaskCtr + 1] = OS_TASK_IDLE_PRIO <=> OSTaskCtr = 0
<1>1. /\ ~OSRunning /\ OSTaskCtr \in Nat /\ OSTaskCtr < Len(BootPrios)
      /\ OSTCBPrioTbl[BootPrios[OSTaskCtr + 1]] = NULL
  BY DEF PartitionAdd, IInv, DataInv, DataTypes
<1>2. BootPrios[OSTaskCtr + 1] \in AllPrios
  BY <1>1, BootAssumption, ElementOfSeq DEF AllPrios
<1>3. OSTaskCtr = 0 => BootPrios[OSTaskCtr + 1] = OS_TASK_IDLE_PRIO
  BY BootAssumption
<1>4. OSTaskCtr # 0 => BootPrios[OSTaskCtr + 1] # OS_TASK_IDLE_PRIO
  BY <1>1 DEF IInv, BootInv
<1> QED
  BY <1>2, <1>3, <1>4

LEMMA CreateTaskKeepsIInv ==
  ASSUME IInv, OSRunning, NEW p \in AllPrios, CreateTask(p)
  PROVE  IInv'
<1>1. DataInv /\ CPUTypes /\ IdleExists /\ OSTCBPrioTbl[OSPrioCur] = OSTCBCur
      /\ OSPrioCur \in AllPrios /\ OSTCBCur \in TCBs
  BY CurrentTask DEF IInv
<1>2. /\ OSTCBPrioTbl[p] = NULL /\ OS_TCBInit(p) /\ OSTCBFreeList # <<>>
      /\ UNCHANGED <<OSTime, nestVars>> /\ OSRunning' = OSRunning
      /\ OS_Sched(FramesWithNewTask)
  BY DEF CreateTask, OS_TCBInit, nestVars
<1>3. /\ DataInv'
      /\ \A q \in AllPrios \ {p} : OSTCBPrioTbl'[q] = OSTCBPrioTbl[q]
  <2>1. p # OS_TASK_IDLE_PRIO /\ OSTaskCtr # 0
    BY <1>2, RunningKeepsIdle
  <2> QED
    BY <1>1, <1>2, <2>1, TCBInitKeepsDataInv
<1>4. FramesWithNewTask \in [TCBs -> Contexts]
  BY <1>1, <1>2, FramesAreContexts
<1>5. OSPrioCur # p /\ OS_TASK_IDLE_PRIO \in AllPrios \ {p}
  BY <1>1, <1>2 DEF IdleExists, TCBs, NULL, AllPrios
<1> QED
  BY <1>1, <1>2, <1>3, <1>4, <1>5, Reschedules DEF IdleExists

LEMMA PartitionAddKeepsIInv ==
  ASSUME IInv, PartitionAdd
  PROVE  IInv'
<1> DEFINE p == BootPrios[OSTaskCtr + 1]
<1>1. /\ DataInv /\ CPUTypes /\ BootInv /\ ~OSRunning
      /\ OSTaskCtr \in Nat /\ OSTaskCtr < Len(BootPrios)
      /\ OSTCBPrioTbl[p] = NULL /\ OS_TCBInit(p) /\ OSTCBFreeList # <<>>
      /\ NoSwitch(FramesWithNewTask)
      /\ UNCHANGED <<OSTime, nestVars>>
  BY DEF PartitionAdd, OS_TCBInit, IInv, DataInv, DataTypes
<1>2. p \in AllPrios /\ (p = OS_TASK_IDLE_PRIO <=> OSTaskCtr = 0)
  BY BootTaskIsNext
<1>3. /\ DataInv'
      /\ \A q \in AllPrios \ {p} : OSTCBPrioTbl'[q] = OSTCBPrioTbl[q]
      /\ OSTCBPrioTbl'[p] # NULL
  BY <1>1, <1>2, TCBInitKeepsDataInv
<1>4. CPUTypes'
  BY <1>1, FramesAreContexts DEF CPUTypes, NoSwitch
<1>5. OSTCBPrioTbl'[OS_TASK_IDLE_PRIO] # NULL
  <2>1. CASE OSTaskCtr = 0
    BY <2>1, <1>3, BootAssumption
  <2>2. CASE OSTaskCtr # 0
    <3>1. OSTCBPrioTbl[OS_TASK_IDLE_PRIO] # NULL
      BY <2>2, <1>1 DEF BootInv
    <3> QED
      BY <3>1, <1>3 DEF AllPrios
  <2> QED
    BY <2>1, <2>2
<1>6. BootInv' /\ RunInv'
  BY <1>1, <1>5 DEF BootInv, RunInv, nestVars
<1> QED
  BY <1>3, <1>4, <1>6 DEF IInv

-----------------------------------------------------------------------------
(* The tick *)

\* Every delayed task but the idle task comes nearer to its end; those whose
\* delay ends become ready unless they are suspended.
LEMMA TickKeepsDataInv ==
  ASSUME DataInv, OSTimeTick, UNCHANGED <<OSRunning, OSLockNesting>>, OSIntNesting' = 0
  PROVE  DataInv'
<1>1. /\ OSTCBDly' = [t \in TCBs |-> IF t \in TickWalk /\ OSTCBDly[t] # 0
                                     THEN OSTCBDly[t] - 1 ELSE OSTCBDly[t]]
      /\ OSTCBStat' = [t \in TCBs |-> IF t \in Expiring
                                      THEN OSTCBStat[t] \ OS_STAT_PEND_ANY
                                      ELSE OSTCBStat[t]]
      /\ OSRdy' = AddAll(OSRdy, {OSTCBPrio[t] : t \in ReadyByTick})
      /\ UNCHANGED <<listVars, OSTCBPrio, OSTCBDelReq, progress>>
      /\ OSTime' = (OSTime + 1) % TimeMod
  BY DEF OSTimeTick
<1>2. DataTypes
  BY DEF DataInv
<1>3. \A t \in TickWalk : t \in TCBs /\ InList(t) /\ OSTCBPrio[t] # OS_TASK_IDLE_PRIO
  <2> SUFFICES ASSUME NEW t \in TickWalk
               PROVE  t \in TCBs /\ InList(t) /\ OSTCBPrio[t] # OS_TASK_IDLE_PRIO
    OBVIOUS
  <2>1. PICK j \in 1..Len(OSTCBList) :
          t = OSTCBList[j] /\ \A k \in 1..j : OSTCBPrio[OSTCBList[k]] # OS_TASK_IDLE_PRIO
    BY DEF TickWalk
  <2>2. OSTCBList[j] \in TCBs
    BY <1>2, ElementOfSeq DEF DataTypes
  <2> QED
    BY <2>1, <2>2 DEF InList
<1>4. /\ \A t \in ReadyByTick : t \in Expiring /\ "SUSPEND" \notin OSTCBStat[t]
      /\ \A t \in Expiring : t \in TickWalk /\ OSTCBDly[t] = 1
      /\ \A t \in TickWalk : OSTCBDly[t] = 1 => t \in Expiring
      /\ \A t \in Expiring : "SUSPEND" \notin OSTCBStat[t] => t \in ReadyByTick
  BY DEF ReadyByTick, Expiring
<1> DEFINE S == {OSTCBPrio[t] : t \in ReadyByTick}
<1>5. IsBitmap(OSRdy') /\ Members(OSRdy') = Members(OSRdy) \cup S
  <2>1. S \in SUBSET Prios64
    BY <1>2, <1>3, <1>4 DEF DataTypes
  <2> QED
    BY <1>1, <2>1, RdyIsBitmap, AddAllIsUnion
<1>6. DataTypes'
  <2>1. OSTime' \in 0..(TimeMod - 1)
    BY <1>1, <1>2, ConstantsAssumption DEF DataTypes
  <2>2. /\ OSTCBStat' \in [TCBs -> SUBSET StatBits]
        /\ OSTCBDly' \in [TCBs -> Nat]
    BY <1>1, <1>2 DEF DataTypes
  <2>3. OSIntNesting' \in 0..NestMax
    BY ConstantsAssumption
  <2> QED
    BY <1>1, <1>2, <1>5, <2>1, <2>2, <2>3 DEF DataTypes, listVars, IsBitmap
<1>7. ListInv' /\ ChainInv' /\ LivePrios' /\ PrioTblExact'
  BY <1>1 DEF DataInv, ListInv, ChainInv, LivePrios, PrioTblExact, InList, listVars
<1>8. IdleInv'
  <2> SUFFICES ASSUME OSTCBPrioTbl[OS_TASK_IDLE_PRIO] # NULL
               PROVE  /\ OSTCBStat'[OSTCBPrioTbl[OS_TASK_IDLE_PRIO]] = OS_STAT_RDY
                      /\ OSTCBDly'[OSTCBPrioTbl[OS_TASK_IDLE_PRIO]] = 0
    BY <1>1 DEF IdleInv, listVars
  <2>1. OSTCBPrioTbl[OS_TASK_IDLE_PRIO] \in TCBs /\ OS_TASK_IDLE_PRIO \in AllPrios
    BY TaskOfPrio DEF AllPrios
  <2>2. OSTCBPrioTbl[OS_TASK_IDLE_PRIO] \notin TickWalk
    BY <1>3, <2>1, TaskOfPrio
  <2> QED
    BY <1>1, <1>4, <2>1, <2>2 DEF DataInv, IdleInv
<1>9. \A t \in TCBs : InList(t) =>
        ((OSTCBStat'[t] = OS_STAT_RDY /\ OSTCBDly'[t] = 0)
           <=> IsReady(t) \/ t \in ReadyByTick)
  <2> SUFFICES ASSUME NEW t \in TCBs, InList(t)
               PROVE  (OSTCBStat'[t] = OS_STAT_RDY /\ OSTCBDly'[t] = 0)
                        <=> IsReady(t) \/ t \in ReadyByTick
    OBVIOUS
  <2>1. OSTCBStat[t] \in SUBSET StatBits /\ OSTCBDly[t] \in Nat
    BY <1>2 DEF DataTypes
  <2>2. CASE t \in Expiring
    <3>1. OSTCBDly'[t] = 0 /\ OSTCBStat'[t] = OSTCBStat[t] \ OS_STAT_PEND_ANY
      BY <1>1, <1>4, <2>2
    <3>2. OSTCBStat[t] \ OS_STAT_PEND_ANY = OS_STAT_RDY <=> "SUSPEND" \notin OSTCBStat[t]
      BY <2>1 DEF StatBits, OS_STAT_RDY, OS_STAT_PEND_ANY
    <3>3. ~IsReady(t)
      BY <1>4, <2>2 DEF IsReady
    <3> QED
      BY <1>4, <2>2, <3>1, <3>2, <3>3
  <2>3. CASE t \notin Expiring
    <3>1. OSTCBStat'[t] = OSTCBStat[t] /\ (OSTCBDly'[t] = 0 <=> OSTCBDly[t] = 0)
      BY <1>1, <1>4, <2>1, <2>3
    <3> QED
      BY <1>4, <2>3, <3>1 DEF IsReady
  <2> QED
    BY <2>2, <2>3
<1>10. ReadyListExact'
  <2>1. ASSUME NEW p \in Prios64
        PROVE  Contains(OSRdy', p) <=>
                 \E t \in TCBs : /\ InList(t) /\ OSTCBPrio[t] = p
                                 /\ OSTCBStat'[t] = OS_STAT_RDY /\ OSTCBDly'[t] = 0
    <3>1. Contains(OSRdy', p) <=> Contains(OSRdy, p) \/ p \in S
      BY <1>5 DEF Members
    <3>2. Contains(OSRdy, p) <=> \E t \in TCBs : IsReady(t) /\ OSTCBPrio[t] = p
      BY DEF DataInv, ReadyListExact
    <3>3. p \in S <=> \E t \in TCBs : InList(t) /\ t \in ReadyByTick /\ OSTCBPrio[t] = p
      BY <1>3, <1>4
    <3> QED
      BY <1>9, <3>1, <3>2, <3>3 DEF IsReady
  <2> QED
    BY <1>1, <1>5, <2>1 DEF ReadyListExact, IsReady, InList, IsBitmap, listVars
<1> QED
  BY <1>5, <1>6, <1>7, <1>8, <1>10 DEF DataInv

LEMMA TaskTimerISRKeepsIInv ==
  ASSUME IInv, OSTaskTimerISR
  PROVE  IInv'
<1>1. DataInv /\ CPUTypes /\ OSRunning /\ OSTimeTick /\ OS_Sched(context_frame)
      /\ UNCHANGED <<OSRunning, OSLockNesting>>
  BY DEF OSTaskTimerISR, IInv
<1>2. OSIntNesting' = 0
  <2>1. OSIntNesting = 0
    BY <1>1 DEF DataInv
  <2> QED
    BY <2>1, ConstantsAssumption DEF OSTaskTimerISR, AfterIntEnter, AfterIntExit
<1>3. DataInv'
  BY <1>1, <1>2, TickKeepsDataInv
<1>4. context_frame \in [TCBs -> Contexts] /\ OSTCBPrioTbl' = OSTCBPrioTbl
  BY <1>1 DEF CPUTypes, OSTimeTick, listVars
<1> QED
  BY <1>1, <1>3, <1>4, CurrentTask, Reschedules DEF IdleExists

-----------------------------------------------------------------------------
(* Deleting a task and changing a priority *)

LEMMA TaskDelKeepsIInv ==
  ASSUME LockedSelfCalls = {}, IInv, NEW p \in AllPrios, OSTaskDel(p)
  PROVE  IInv'
<1>1. /\ OSRunning /\ DataInv /\ DataTypes /\ CPUTypes
      /\ p # OS_TASK_IDLE_PRIO /\ OSTCBPrioTbl[p] # NULL
  BY DEF OSTaskDel, CanCall, IInv, DataInv
<1>2. PICK t \in TCBs : t = OSTCBPrioTbl[p]
  BY <1>1, TaskOfPrio
<1>3. InList(t) /\ OSTCBPrio[t] = p /\ p \in Prios64
  BY <1>1, <1>2, TaskOfPrio, AllPriosAreBytes
<1>4. /\ OSRdy' = Remove(OSRdy, p)
      /\ OSTCBDly' = [OSTCBDly EXCEPT ![t] = 0]
      /\ OSTCBStat' = [OSTCBStat EXCEPT ![t] = OS_STAT_RDY]
      /\ OSLockNesting' = AfterDelLock(OSLockNesting)
      /\ OSTaskCtr' = OSTaskCtr - 1
      /\ OSTCBPrioTbl' = [OSTCBPrioTbl EXCEPT ![p] = NULL]
      /\ OSTCBList' = Unlink(t, OSTCBList)
      /\ OSTCBFreeList' = <<t>> \o OSTCBFreeList
      /\ UNCHANGED <<OSTime, OSRunning, OSIntNesting, OSTCBPrio, OSTCBDelReq, progress>>
      /\ OS_Sched(context_frame)
  BY <1>2, <1>3 DEF OSTaskDel
<1>5. IsBitmap(OSRdy') /\ Members(OSRdy') = Members(OSRdy) \ {p}
  BY <1>1, <1>3, <1>4, RdyIsBitmap, RemoveIsDeletion
<1>6. /\ Len(OSTCBFreeList) \in Nat /\ Len(OSTCBList) \in Nat
      /\ OSTCBFreeList' \in Seq(TCBs) /\ Len(OSTCBFreeList') = Len(OSTCBFreeList) + 1
      /\ \A i \in 1..(Len(OSTCBFreeList) + 1) :
           OSTCBFreeList'[i] = IF i = 1 THEN t ELSE OSTCBFreeList[i - 1]
  BY <1>1, <1>4, LinkShifts, LenProperties DEF DataTypes
<1>7. PICK k \in 1..Len(OSTCBList) :
        /\ OSTCBList[k] = t
        /\ OSTCBList' \in Seq(TCBs) /\ Len(OSTCBList') = Len(OSTCBList) - 1
        /\ \A i \in 1..(Len(OSTCBList) - 1) :
             OSTCBList'[i] = IF i < k THEN OSTCBList[i] ELSE OSTCBList[i + 1]
  <2>1. OSTCBList \in Seq(TCBs) /\ \E i \in 1..Len(OSTCBList) : OSTCBList[i] = t
    BY <1>1, <1>3 DEF DataTypes, InList
  <2>2. \E k \in 1..Len(OSTCBList) :
          /\ OSTCBList[k] = t
          /\ Unlink(t, OSTCBList) \in Seq(TCBs)
          /\ Len(Unlink(t, OSTCBList)) = Len(OSTCBList) - 1
          /\ \A i \in 1..(Len(OSTCBList) - 1) :
               Unlink(t, OSTCBList)[i] = IF i < k THEN OSTCBList[i] ELSE OSTCBList[i + 1]
    BY <2>1, UnlinkCloses
  <2>3. OSTCBList' = Unlink(t, OSTCBList)
    BY <1>4
  <2> QED
    BY <2>2, <2>3
<1>8. /\ OSTaskCtr = Len(OSTCBList)
      /\ \A i, j \in 1..Len(OSTCBList) : OSTCBList[i] = OSTCBList[j] => i = j
      /\ \A i, j \in 1..Len(OSTCBFreeList) : OSTCBFreeList[i] = OSTCBFreeList[j] => i = j
      /\ \A i \in 1..Len(OSTCBList), j \in 1..Len(OSTCBFreeList) :
           OSTCBList[i] # OSTCBFreeList[j]
  BY <1>1 DEF DataInv, ListInv
<1>23. ASSUME NEW i \in 1..Len(OSTCBList')
       PROVE  /\ i < k => /\ i \in 1..Len(OSTCBList) /\ i # k
                          /\ OSTCBList'[i] = OSTCBList[i]
              /\ ~(i < k) => /\ i + 1 \in 1..Len(OSTCBList) /\ i + 1 # k
                             /\ OSTCBList'[i] = OSTCBList[i + 1]
  <2>1. i \in 1..(Len(OSTCBList) - 1)
    BY <1>7
  <2>2. OSTCBList'[i] = IF i < k THEN OSTCBList[i] ELSE OSTCBList[i + 1]
    BY <2>1, <1>7
  <2>3. Len(OSTCBList) \in Nat /\ k \in 1..Len(OSTCBList)
    BY <1>6
  <2>4. i \in 1..Len(OSTCBList) /\ i + 1 \in 1..Len(OSTCBList)
    BY <2>1, <2>3
  <2>5. (i < k => i # k) /\ (~(i < k) => i + 1 # k)
    BY <2>1, <2>3
  <2> QED
    BY <2>2, <2>4, <2>5
<1>9. \A u \in TCBs : InChain(u, OSTCBList') <=> InList(u) /\ u # t
  <2>1. ASSUME NEW u \in TCBs, NEW i \in 1..Len(OSTCBList), OSTCBList[i] = u, u # t
        PROVE  InChain(u, OSTCBList')
    <3>1. CASE i < k
      BY <3>1, <2>1, <1>6, <1>7 DEF InChain
    <3>2. CASE ~(i < k)
      <4>1. i # k
        BY <2>1, <1>7
      <4>2. i - 1 \in 1..(Len(OSTCBList) - 1) /\ ~(i - 1 < k) /\ (i - 1) + 1 = i
        BY <3>2, <4>1, <2>1, <1>6, <1>7
      <4>3. OSTCBList'[i - 1] = u
        BY <4>2, <2>1, <1>7
      <4> QED
        BY <4>2, <4>3, <1>7 DEF InChain
    <3> QED
      BY <3>1, <3>2
  <2>2. ASSUME NEW u \in TCBs, NEW i \in 1..Len(OSTCBList'), OSTCBList'[i] = u
        PROVE  InList(u) /\ u # t
    <3>1. CASE i < k
      <4>1. i \in 1..Len(OSTCBList) /\ OSTCBList[i] = u /\ i # k
        BY <3>1, <2>2, <1>23
      <4> QED
        BY <4>1, <1>7, <1>8 DEF InList
    <3>2. CASE ~(i < k)
      <4>1. i + 1 \in 1..Len(OSTCBList) /\ OSTCBList[i + 1] = u /\ i + 1 # k
        BY <3>2, <2>2, <1>23
      <4> QED
        BY <4>1, <1>7, <1>8 DEF InList
    <3> QED
      BY <3>1, <3>2
  <2> QED
    BY <2>1, <2>2 DEF InChain, InList
<1>10. ListInv'
  <2>1. \A i, j \in 1..Len(OSTCBList') : OSTCBList'[i] = OSTCBList'[j] => i = j
    <3> SUFFICES ASSUME NEW i \in 1..Len(OSTCBList'), NEW j \in 1..Len(OSTCBList'),
                        OSTCBList'[i] = OSTCBList'[j]
                 PROVE  i = j
      OBVIOUS
    <3> DEFINE Old(n) == IF n < k THEN n ELSE n + 1
    <3>1. /\ Old(i) \in 1..Len(OSTCBList) /\ OSTCBList[Old(i)] = OSTCBList'[i]
          /\ Old(j) \in 1..Len(OSTCBList) /\ OSTCBList[Old(j)] = OSTCBList'[j]
      BY <1>23
    <3>2. Old(i) = Old(j)
      BY <3>1, <1>8
    <3>3. i \in Nat /\ j \in Nat /\ k \in Nat
      BY <1>6, <1>7
    <3> QED
      BY <3>2, <3>3
  <2>2. \A i \in 1..Len(OSTCBFreeList) : OSTCBFreeList[i] # t
    BY <1>7, <1>8
  <2>3. /\ \A i, j \in 1..Len(OSTCBFreeList') : OSTCBFreeList'[i] = OSTCBFreeList'[j] => i = j
        /\ \A i \in 1..Len(OSTCBFreeList') :
             \/ OSTCBFreeList'[i] = t
             \/ \E m \in 1..Len(OSTCBFreeList) : OSTCBFreeList'[i] = OSTCBFreeList[m]
    <3>1. /\ \A i, j \in 1..Len(<<t>> \o OSTCBFreeList) :
               (<<t>> \o OSTCBFreeList)[i] = (<<t>> \o OSTCBFreeList)[j] => i = j
          /\ \A i \in 1..Len(<<t>> \o OSTCBFreeList) :
               \/ (<<t>> \o OSTCBFreeList)[i] = t
               \/ \E m \in 1..Len(OSTCBFreeList) :
                    (<<t>> \o OSTCBFreeList)[i] = OSTCBFreeList[m]
      <4>1. \A i, j \in 1..Len(OSTCBFreeList) : OSTCBFreeList[i] = OSTCBFreeList[j] => i = j
        BY <1>8
      <4>2. OSTCBFreeList \in Seq(TCBs)
        BY <1>1 DEF DataTypes
      <4> QED
        BY <4>1, <4>2, <2>2, LinkKeepsDistinct
    <3> QED
      BY <3>1, <1>4
  <2>4. ASSUME NEW i \in 1..Len(OSTCBList'), NEW j \in 1..Len(OSTCBFreeList')
        PROVE  OSTCBList'[i] # OSTCBFreeList'[j]
    <3>1. PICK m \in 1..Len(OSTCBList) : OSTCBList[m] = OSTCBList'[i] /\ m # k
      BY <1>23
    <3>2. OSTCBList[m] # t
      BY <3>1, <1>7, <1>8
    <3>3. OSTCBFreeList'[j] = t \/ \E n \in 1..Len(OSTCBFreeList) : OSTCBFreeList'[j] = OSTCBFreeList[n]
      BY <2>3
    <3>4. \A n \in 1..Len(OSTCBFreeList) : OSTCBList[m] # OSTCBFreeList[n]
      BY <1>8
    <3> QED
      BY <3>1, <3>2, <3>3, <3>4
  <2> QED
    BY <1>4, <1>6, <1>7, <1>8, <2>1, <2>3, <2>4 DEF ListInv
<1>11. /\ OSTCBStat' \in [TCBs -> SUBSET StatBits] /\ OSTCBDly' \in [TCBs -> Nat]
       /\ OSTCBPrioTbl' \in [AllPrios -> TCBs \cup {NULL}]
       /\ \A u \in TCBs \ {t} : OSTCBStat'[u] = OSTCBStat[u] /\ OSTCBDly'[u] = OSTCBDly[u]
       /\ \A q \in AllPrios \ {p} : OSTCBPrioTbl'[q] = OSTCBPrioTbl[q]
       /\ OSTCBPrioTbl'[p] = NULL
  BY <1>1, <1>4 DEF DataTypes, OS_STAT_RDY
<1>12. OSLockNesting' \in 0..NestMax /\ (OSLockNesting = 0 => OSLockNesting' = 0)
  BY <1>1, <1>4, ConstantsAssumption DEF DataTypes, AfterDelLock
<1>13. DataTypes'
  <2>1. OSTaskCtr' \in Nat
    BY <1>4, <1>6, <1>7, <1>8
  <2> QED
    BY <1>1, <1>4, <1>5, <1>6, <1>7, <1>11, <1>12, <2>1 DEF DataTypes, IsBitmap
<1>14. LivePrios' /\ PrioTblExact'
  <2>1. LivePrios'
    BY <1>1, <1>4, <1>9 DEF DataInv, LivePrios, InList, InChain
  <2> SUFFICES ASSUME NEW q \in AllPrios, NEW u \in TCBs
               PROVE  OSTCBPrioTbl'[q] = u <=> InChain(u, OSTCBList') /\ OSTCBPrio[u] = q
    BY <1>4, <2>1 DEF PrioTblExact, InList, InChain
  <2>2. OSTCBPrioTbl[q] = u <=> InList(u) /\ OSTCBPrio[u] = q
    BY <1>1 DEF DataInv, PrioTblExact
  <2>3. NULL # u
    BY DEF TCBs, NULL
  <2> QED
    BY <1>2, <1>3, <1>9, <1>11, <2>2, <2>3
<1>15. ReadyListExact'
  <2>1. ASSUME NEW q \in Prios64
        PROVE  Contains(OSRdy', q) <=>
                 \E u \in TCBs : /\ InChain(u, OSTCBList') /\ OSTCBPrio[u] = q
                                 /\ OSTCBStat'[u] = OS_STAT_RDY /\ OSTCBDly'[u] = 0
    <3>1. Contains(OSRdy', q) <=> Contains(OSRdy, q) /\ q # p
      BY <1>5 DEF Members
    <3>2. Contains(OSRdy, q) <=> \E u \in TCBs : IsReady(u) /\ OSTCBPrio[u] = q
      BY <1>1 DEF DataInv, ReadyListExact
    <3>3. CASE q = p
      <4>1. \A u \in TCBs : InList(u) /\ OSTCBPrio[u] = p => u = t
        BY <1>1, <1>3, PrioOfTask
      <4> QED
        BY <3>1, <3>3, <4>1, <1>9
    <3>4. CASE q # p
      BY <3>1, <3>2, <3>4, <1>3, <1>9, <1>11 DEF IsReady
    <3> QED
      BY <3>3, <3>4
  <2> QED
    BY <1>4, <1>5, <2>1 DEF ReadyListExact, IsReady, InList, InChain, IsBitmap
<1>16. OS_TASK_IDLE_PRIO \in AllPrios \ {p}
  BY <1>1 DEF AllPrios
<1>17. IdleInv'
  <2>1. OSTCBPrioTbl'[OS_TASK_IDLE_PRIO] = OSTCBPrioTbl[OS_TASK_IDLE_PRIO]
    BY <1>11, <1>16
  <2>2. OSTCBPrioTbl[OS_TASK_IDLE_PRIO] # NULL =>
          OSTCBPrioTbl[OS_TASK_IDLE_PRIO] \in TCBs \ {t}
    BY <1>1, <1>3, <1>16, TaskOfPrio
  <2> QED
    BY <1>1, <1>11, <2>1, <2>2 DEF DataInv, IdleInv
<1>22. ChainInv'
  <2>1. Len(OSTCBList') + Len(OSTCBFreeList') = NumTCBs
    BY <1>1, <1>6, <1>7 DEF DataInv, ChainInv
  <2>2. \A i \in 1..Len(OSTCBList) :
          OSTCBPrio[OSTCBList[i]] = OS_TASK_IDLE_PRIO <=> i = Len(OSTCBList)
    BY <1>1 DEF DataInv, ChainInv
  <2>3. k # Len(OSTCBList)
    BY <1>1, <1>3, <1>7, <2>2
  <2>4. ASSUME NEW i \in 1..Len(OSTCBList')
        PROVE  OSTCBPrio[OSTCBList'[i]] = OS_TASK_IDLE_PRIO <=> i = Len(OSTCBList')
    <3>1. CASE i < k
      <4>1. i \in 1..Len(OSTCBList) /\ OSTCBList'[i] = OSTCBList[i]
        BY <3>1, <1>23
      <4>2. i # Len(OSTCBList) /\ i # Len(OSTCBList')
        <5>1. Len(OSTCBList) \in Nat /\ Len(OSTCBList') = Len(OSTCBList) - 1
          BY <1>6, <1>7
        <5> QED
          BY <3>1, <2>3, <5>1
      <4> QED
        BY <4>1, <4>2, <2>2
    <3>2. CASE ~(i < k)
      <4>1. i + 1 \in 1..Len(OSTCBList) /\ OSTCBList'[i] = OSTCBList[i + 1]
        BY <3>2, <1>23
      <4>2. OSTCBPrio[OSTCBList[i + 1]] = OS_TASK_IDLE_PRIO <=> i + 1 = Len(OSTCBList)
        BY <2>2, <4>1
      <4> QED
        BY <4>1, <4>2, <1>6, <1>7
    <3> QED
      BY <3>1, <3>2
  <2> QED
    BY <1>4, <2>1, <2>4 DEF ChainInv
<1>18. DataInv'
  BY <1>22, <1>1, <1>4, <1>10, <1>13, <1>14, <1>15, <1>17 DEF DataInv
<1>19. /\ IdleExists /\ OSPrioCur \in AllPrios /\ OSPrioCur = OSTCBPrio[OSTCBCur]
       /\ OSTCBPrioTbl[OSPrioCur] = OSTCBCur
  BY <1>1, CurrentTask
<1>20. OSPrioCur \in Members(OSRdy') \/ OSLockNesting' # 0
         => OSTCBPrioTbl'[OSPrioCur] = OSTCBCur
  <2>1. CASE OSPrioCur = p
    <3>1. ~(OSLockNesting > 0)
      BY <2>1, <1>19 DEF OSTaskDel, OnSelfLocked
    <3>2. OSLockNesting' = 0
      BY <3>1, <1>1, <1>12 DEF DataTypes
    <3> QED
      BY <2>1, <3>2, <1>5
  <2>2. CASE OSPrioCur # p
    BY <2>2, <1>11, <1>19
  <2> QED
    BY <2>1, <2>2
<1>21. OSTCBPrioTbl'[OS_TASK_IDLE_PRIO] # NULL
  BY <1>11, <1>16, <1>19 DEF IdleExists
<1> QED
  BY <1>1, <1>4, <1>18, <1>20, <1>21, Reschedules DEF CPUTypes

LEMMA TaskChangePrioKeepsIInv ==
  ASSUME LockedSelfCalls = {}, IInv,
         NEW oldprio \in AllPrios, NEW newprio \in AllPrios,
         OSTaskChangePrio(oldprio, newprio)
  PROVE  IInv'
<1>1. /\ OSRunning /\ DataInv /\ DataTypes /\ CPUTypes
      /\ oldprio # OS_TASK_IDLE_PRIO /\ OSTCBPrioTbl[newprio] = NULL
      /\ OSTCBPrioTbl[oldprio] # NULL
  BY DEF OSTaskChangePrio, CanCall, IInv, DataInv
<1>2. PICK t \in TCBs : t = OSTCBPrioTbl[oldprio]
  BY <1>1, TaskOfPrio
<1>3. /\ InList(t) /\ OSTCBPrio[t] = oldprio /\ newprio # oldprio
      /\ oldprio \in Prios64 /\ newprio \in Prios64
  BY <1>1, <1>2, TaskOfPrio, AllPriosAreBytes
<1>4. /\ OSTCBPrioTbl' = [OSTCBPrioTbl EXCEPT ![oldprio] = NULL, ![newprio] = t]
      /\ OSRdy' = IF Contains(OSRdy, oldprio)
                  THEN Add(Remove(OSRdy, oldprio), newprio) ELSE OSRdy
      /\ OSTCBPrio' = [OSTCBPrio EXCEPT ![t] = newprio]
      /\ UNCHANGED <<OSTime, nestVars, OSTCBList, OSTCBFreeList, OSTaskCtr,
                     OSTCBStat, OSTCBDly, OSTCBDelReq, progress>>
      /\ OS_Sched(context_frame)
  BY <1>2, <1>3 DEF OSTaskChangePrio, MoveEntry
<1>5. /\ IsBitmap(OSRdy')
      /\ \A q \in Prios64 : q \in Members(OSRdy') <=>
           \/ q \in Members(OSRdy) /\ q # oldprio
           \/ q = newprio /\ oldprio \in Members(OSRdy)
  <2>1. IsBitmap(OSRdy)
    BY <1>1, RdyIsBitmap
  <2>2. CASE Contains(OSRdy, oldprio)
    <3>1. /\ IsBitmap(Remove(OSRdy, oldprio))
          /\ Members(Remove(OSRdy, oldprio)) = Members(OSRdy) \ {oldprio}
      BY <2>1, <1>3, RemoveIsDeletion
    <3>2. /\ IsBitmap(OSRdy')
          /\ Members(OSRdy') = (Members(OSRdy) \ {oldprio}) \cup {newprio}
      BY <2>2, <3>1, <1>3, <1>4, AddIsInsertion
    <3>3. oldprio \in Members(OSRdy)
      BY <2>2, <1>3 DEF Members
    <3> QED
      BY <3>2, <3>3
  <2>3. CASE ~Contains(OSRdy, oldprio)
    <3>1. oldprio \notin Members(OSRdy) /\ OSRdy' = OSRdy
      BY <2>3, <1>4 DEF Members
    <3> QED
      BY <2>1, <3>1
  <2> QED
    BY <2>2, <2>3
<1>6. /\ OSTCBPrio' \in [TCBs -> Prios64]
      /\ OSTCBPrioTbl' \in [AllPrios -> TCBs \cup {NULL}]
      /\ OSTCBPrio'[t] = newprio
      /\ \A u \in TCBs \ {t} : OSTCBPrio'[u] = OSTCBPrio[u]
      /\ OSTCBPrioTbl'[oldprio] = NULL /\ OSTCBPrioTbl'[newprio] = t
      /\ \A q \in AllPrios \ {oldprio, newprio} : OSTCBPrioTbl'[q] = OSTCBPrioTbl[q]
  BY <1>1, <1>3, <1>4 DEF DataTypes
<1>7. DataTypes'
  BY <1>1, <1>4, <1>5, <1>6 DEF DataTypes, IsBitmap, nestVars
<1>8. ListInv'
  BY <1>1, <1>4 DEF DataInv, ListInv
<1>9. LivePrios'
  BY <1>1, <1>4, <1>6 DEF DataInv, LivePrios, InList
<1>10. \A u \in TCBs : InList(u) => OSTCBPrio[u] # newprio
  <2>1. \A u \in TCBs : OSTCBPrioTbl[newprio] # u
    BY <1>1 DEF TCBs, NULL
  <2> QED
    BY <1>1, <2>1 DEF DataInv, PrioTblExact
<1>11. \A u \in TCBs : InList(u) /\ OSTCBPrio[u] = oldprio => u = t
  BY <1>1, <1>3, PrioOfTask
<1>12. PrioTblExact'
  <2> SUFFICES ASSUME NEW q \in AllPrios, NEW u \in TCBs
               PROVE  OSTCBPrioTbl'[q] = u <=> InChain(u, OSTCBList') /\ OSTCBPrio'[u] = q
    BY DEF PrioTblExact, InList, InChain
  <2>1. OSTCBPrioTbl[q] = u <=> InList(u) /\ OSTCBPrio[u] = q
    BY <1>1 DEF DataInv, PrioTblExact
  <2>2. NULL # u /\ (InChain(u, OSTCBList') <=> InList(u))
    BY <1>4 DEF TCBs, NULL, InChain, InList
  <2>3. CASE u = t
    BY <1>2, <1>3, <1>6, <2>1, <2>2, <2>3
  <2>4. CASE u # t
    BY <1>6, <1>10, <1>11, <2>1, <2>2, <2>4
  <2> QED
    BY <2>3, <2>4
<1>13. oldprio \in Members(OSRdy) <=> IsReady(t)
  BY <1>1, <1>3, BitOfTask
<1>14. ReadyListExact'
  <2>1. ASSUME NEW q \in Prios64
        PROVE  Contains(OSRdy', q) <=>
                 \E u \in TCBs : IsReady(u) /\ OSTCBPrio'[u] = q
    <3>1. Contains(OSRdy', q) <=>
            \/ Contains(OSRdy, q) /\ q # oldprio
            \/ q = newprio /\ IsReady(t)
      BY <1>5, <1>13 DEF Members
    <3>2. Contains(OSRdy, q) <=> \E u \in TCBs : IsReady(u) /\ OSTCBPrio[u] = q
      BY <1>1 DEF DataInv, ReadyListExact
    <3>3. \A u \in TCBs : IsReady(u) => InList(u)
      BY DEF IsReady
    <3>4. CASE q = newprio
      <4>1. ~Contains(OSRdy, q)
        BY <3>2, <3>3, <3>4, <1>10
      <4>2. \A u \in TCBs : IsReady(u) /\ OSTCBPrio'[u] = q => u = t
        BY <3>3, <3>4, <1>6, <1>10
      <4> QED
        BY <3>1, <3>4, <4>1, <4>2, <1>6
    <3>5. CASE q = oldprio
      <4>1. \A u \in TCBs : IsReady(u) => OSTCBPrio'[u] # q
        BY <3>3, <3>5, <1>3, <1>6, <1>11
      <4> QED
        BY <3>1, <3>5, <4>1, <1>3
    <3>6. CASE q # newprio /\ q # oldprio
      BY <3>1, <3>2, <3>6, <1>3, <1>6
    <3> QED
      BY <3>4, <3>5, <3>6
  <2> QED
    BY <1>4, <1>5, <2>1 DEF ReadyListExact, IsReady, InList, IsBitmap
<1>15. IdleExists /\ OS_TASK_IDLE_PRIO \in AllPrios \ {oldprio, newprio}
  BY <1>1, CurrentTask DEF IdleExists, AllPrios
<1>16. IdleInv'
  BY <1>1, <1>4, <1>6, <1>15 DEF DataInv, IdleInv
<1>21. ChainInv'
  <2>1. ASSUME NEW i \in 1..Len(OSTCBList)
        PROVE  OSTCBPrio'[OSTCBList[i]] = OS_TASK_IDLE_PRIO
                 <=> OSTCBPrio[OSTCBList[i]] = OS_TASK_IDLE_PRIO
    <3>1. OSTCBList[i] \in TCBs
      BY <1>1, ElementOfSeq DEF DataTypes
    <3> QED
      BY <3>1, <1>3, <1>6, <1>15
  <2> QED
    BY <1>1, <1>4, <2>1 DEF DataInv, ChainInv
<1>17. DataInv'
  BY <1>21, <1>1, <1>4, <1>7, <1>8, <1>9, <1>12, <1>14, <1>16 DEF DataInv, nestVars
<1>18. /\ OSPrioCur \in AllPrios /\ OSPrioCur = OSTCBPrio[OSTCBCur]
       /\ OSTCBPrioTbl[OSPrioCur] = OSTCBCur /\ OSTCBCur \in TCBs
  BY <1>1, CurrentTask
<1>19. OSPrioCur \in Members(OSRdy') \/ OSLockNesting' # 0
         => OSTCBPrioTbl'[OSPrioCur] = OSTCBCur
  <2>1. CASE OSPrioCur = oldprio
    <3>1. ~(OSLockNesting > 0)
      BY <2>1, <1>18 DEF OSTaskChangePrio, OnSelfLocked
    <3>2. OSLockNesting' = 0
      BY <3>1, <1>1, <1>4 DEF DataTypes, nestVars
    <3> QED
      BY <2>1, <3>2, <1>3, <1>5
  <2>2. CASE OSPrioCur # oldprio
    <3>1. OSPrioCur # newprio
      BY <1>1, <1>18 DEF TCBs, NULL
    <3> QED
      BY <2>2, <3>1, <1>6, <1>18
  <2> QED
    BY <2>1, <2>2
<1>20. OSTCBPrioTbl'[OS_TASK_IDLE_PRIO] # NULL /\ OSRunning' = OSRunning
  BY <1>4, <1>6, <1>15 DEF IdleExists, nestVars
<1> QED
  BY <1>1, <1>4, <1>17, <1>19, <1>20, Reschedules DEF CPUTypes

-----------------------------------------------------------------------------
(* The theorems *)

LEMMA NextKeepsIInv ==
  ASSUME LockedSelfCalls = {}, IInv, [Next]_vars
  PROVE  IInv'
<1>1. CASE PartitionAdd
  BY <1>1, PartitionAddKeepsIInv
<1>2. CASE OSStart
  BY <1>2, StartEstablishesRunInv
<1>3. CASE OSTaskTimerISR
  BY <1>3, TaskTimerISRKeepsIInv
<1>4. CASE TaskStep
  BY <1>4, TaskStepKeepsIInv
<1>5. CASE SystemCall
  <2>1. ASSUME NEW ticks \in 1..MaxDly, OSTimeDly(ticks) PROVE IInv'
    BY <2>1, TimeDlyKeepsIInv
  <2>2. ASSUME NEW ticks \in 0..(TimeMod - 1), OSTimeSet(ticks) PROVE IInv'
    BY <2>2, TimeSetKeepsIInv
  <2>3. ASSUME NEW p \in AllPrios, OSTimeDlyResume(p) PROVE IInv'
    BY <2>3, TimeDlyResumeKeepsIInv
  <2>4. ASSUME NEW p \in AllPrios, OSTaskCreate(p) \/ OSTaskCreateExt(p) PROVE IInv'
    BY <2>4, CreateTaskKeepsIInv DEF OSTaskCreate, OSTaskCreateExt, CanCall
  <2>5. ASSUME NEW p \in AllPrios, OSTaskDel(p) PROVE IInv'
    BY <2>5, TaskDelKeepsIInv
  <2>6. ASSUME NEW p \in AllPrios, OSTaskDelReq(p) PROVE IInv'
    BY <2>6, TaskDelReqKeepsIInv
  <2>7. ASSUME NEW p \in AllPrios, OSTaskSuspend(p) PROVE IInv'
    BY <2>7, TaskSuspendKeepsIInv
  <2>8. ASSUME NEW p \in AllPrios, OSTaskResume(p) PROVE IInv'
    BY <2>8, TaskResumeKeepsIInv
  <2>9. ASSUME NEW p \in AllPrios, NEW q \in AllPrios, OSTaskChangePrio(p, q) PROVE IInv'
    BY <2>9, TaskChangePrioKeepsIInv
  <2>10. ASSUME OSSchedLock \/ OSSchedUnlock PROVE IInv'
    BY <2>10, SchedLockKeepsIInv, SchedUnlockKeepsIInv
  <2> QED
    BY <1>5, <2>1, <2>2, <2>3, <2>4, <2>5, <2>6, <2>7, <2>8, <2>9, <2>10 DEF SystemCall
<1>6. CASE UNCHANGED vars
  <2>1. DataInv'
    <3>1. DataInv /\ DataTypes
      BY DEF IInv, DataInv
    <3>2. DataTypes'
      BY <1>6, <3>1 DEF DataTypes, vars, nestVars, listVars
    <3> QED
      BY <1>6, <3>1, <3>2, DataStays DEF vars, nestVars
  <2>2. CPUTypes'
    BY <1>6 DEF IInv, CPUTypes, vars, dispatchVars
  <2>3. BootInv' /\ RunInv'
    BY <1>6 DEF IInv, BootInv, RunInv, InList, vars, nestVars, listVars, dispatchVars
  <2> QED
    BY <2>1, <2>2, <2>3 DEF IInv
<1> QED
  BY <1>1, <1>2, <1>3, <1>4, <1>5, <1>6 DEF Next

\* IInv is an invariant of the kernel, provided that no task deletes itself or
\* changes its own priority while it holds the scheduler lock: the two calls
\* after which the current task would not be what OSTCBCur says.
THEOREM KernelInvariant ==
  ASSUME LockedSelfCalls = {}
  PROVE  Spec => []IInv
<1>1. Init => IInv
  BY InitEstablishesIInv
<1>2. IInv /\ [Next]_vars => IInv'
  BY NextKeepsIInv
<1> QED
  BY <1>1, <1>2, PTL DEF Spec

\* Every variable keeps its type; a switch never goes to the null TCB.
THEOREM TypeCorrect ==
  ASSUME LockedSelfCalls = {}
  PROVE  Spec => []TypeOK
<1>1. IInv => TypeOK
  BY TypesSplit DEF IInv, DataInv
<1> QED
  BY <1>1, KernelInvariant, PTL

\* OSRdyGrp and OSRdyTbl have exactly the bits of the tasks that exist and
\* wait for nothing, after every service and every tick.
THEOREM ReadyListCorrect ==
  ASSUME LockedSelfCalls = {}
  PROVE  Spec => []ReadyListExact
<1>1. IInv => ReadyListExact
  BY DEF IInv, DataInv
<1> QED
  BY <1>1, KernelInvariant, PTL

\* OSTCBPrioTbl holds exactly the tasks that exist, at their priorities.
THEOREM PrioTblCorrect ==
  ASSUME LockedSelfCalls = {}
  PROVE  Spec => []PrioTblExact
<1>1. IInv => PrioTblExact
  BY DEF IInv, DataInv
<1> QED
  BY <1>1, KernelInvariant, PTL

\* With the scheduler unlocked the task that runs is the ready task of the
\* highest priority: OS_Sched is called wherever it has to be.
THEOREM HighestPriorityRuns ==
  ASSUME LockedSelfCalls = {}
  PROVE  Spec => []RunsHighestReady
<1>1. IInv => RunsHighestReady
  <2> SUFFICES ASSUME IInv, OSRunning, OSLockNesting = 0
               PROVE  /\ OSTCBCur \in TCBs /\ IsReady(OSTCBCur)
                      /\ \A t \in TCBs : IsReady(t) => OSTCBPrio[OSTCBCur] <= OSTCBPrio[t]
    BY DEF RunsHighestReady
  <2>1. DataInv
    BY DEF IInv
  <2>2. /\ OSTCBCur \in TCBs /\ InList(OSTCBCur) /\ OSPrioCur = OSTCBPrio[OSTCBCur]
        /\ OSPrioCur \in Members(OSRdy)
        /\ \A p \in Members(OSRdy) : OSPrioCur <= p
    BY CurrentTask
  <2>3. IsReady(OSTCBCur)
    BY <2>1, <2>2, BitOfTask
  <2>4. ASSUME NEW t \in TCBs, IsReady(t)
        PROVE  OSTCBPrio[t] \in Members(OSRdy)
    BY <2>1, <2>4, BitOfTask DEF IsReady
  <2> QED
    BY <2>2, <2>3, <2>4
<1> QED
  BY <1>1, KernelInvariant, PTL

\* partition_switch's assertion about the partition it switches to holds
\* after every call and every tick.
THEOREM SwitchInAssertionHolds ==
  ASSUME LockedSelfCalls = {}
  PROVE  Spec => []SwitchInAssertion
<1>1. IInv => SwitchInAssertion
  BY DEF IInv, RunInv, SwitchInAssertion
<1> QED
  BY <1>1, KernelInvariant, PTL

\* OSTCBList and OSTCBFreeList have each TCB exactly once between them,
\* OSTaskCtr counts the first, and its last TCB is the idle task's.
THEOREM TCBsAreConserved ==
  ASSUME LockedSelfCalls = {}
  PROVE  Spec => []TCBsConserved
<1>1. IInv => TCBsConserved
  <2> SUFFICES ASSUME IInv
               PROVE  TCBsConserved
    OBVIOUS
  <2> DEFINE chain == OSTCBList \o OSTCBFreeList
             n == Len(OSTCBList)
  <2>1. DataTypes /\ ListInv /\ ChainInv
    BY DEF IInv, DataInv
  <2>2. n \in Nat /\ Len(OSTCBFreeList) \in Nat
    BY <2>1, LenProperties DEF DataTypes
  <2>3. /\ Len(chain) = n + Len(OSTCBFreeList)
        /\ \A i \in 1..(n + Len(OSTCBFreeList)) :
             chain[i] = IF i <= n THEN OSTCBList[i] ELSE OSTCBFreeList[i - n]
    BY <2>1, ConcatProperties DEF DataTypes
  <2> HIDE DEF chain
  <2>4. ASSUME NEW i \in 1..Len(chain), NEW j \in 1..Len(chain), chain[i] = chain[j]
        PROVE  i = j
    <3>1. CASE i <= n /\ j <= n
      BY <2>1, <2>2, <2>3, <2>4, <3>1 DEF ListInv
    <3>2. CASE i <= n /\ ~(j <= n)
      <4>1. i \in 1..n /\ j - n \in 1..Len(OSTCBFreeList)
        BY <2>2, <2>3, <3>2
      <4> QED
        BY <2>1, <2>3, <2>4, <3>2, <4>1 DEF ListInv
    <3>3. CASE ~(i <= n) /\ j <= n
      <4>1. j \in 1..n /\ i - n \in 1..Len(OSTCBFreeList)
        BY <2>2, <2>3, <3>3
      <4> QED
        BY <2>1, <2>3, <2>4, <3>3, <4>1 DEF ListInv
    <3>4. CASE ~(i <= n) /\ ~(j <= n)
      <4>1. i - n \in 1..Len(OSTCBFreeList) /\ j - n \in 1..Len(OSTCBFreeList)
        BY <2>2, <2>3, <3>4
      <4>2. OSTCBFreeList[i - n] = OSTCBFreeList[j - n]
        BY <2>3, <2>4, <3>4
      <4>3. i - n = j - n
        BY <2>1, <4>1, <4>2 DEF ListInv
      <4> QED
        BY <2>2, <4>3
    <3> QED
      BY <3>1, <3>2, <3>3, <3>4
  <2>5. Len(chain) = NumTCBs
    BY <2>1, <2>3 DEF ChainInv
  <2> QED
    BY <2>1, <2>4, <2>5 DEF TCBsConserved, ListInv, ChainInv, chain
<1> QED
  BY <1>1, KernelInvariant, PTL

-----------------------------------------------------------------------------
(* Register contexts, and the scheduler lock *)

\* The context of a task, as of its last step.
ContextAt(t, steps) == [owner |-> t, pc |-> steps[t]]

\* The CPU has the context of the current task; each other task that exists
\* has its own in its TCB, and before OSStart all have.
CtxInv ==
  /\ OSRunning => task_context_saved = ContextAt(OSTCBCur, progress)
  /\ \A t \in TCBs : InList(t) /\ ~(OSRunning /\ t = OSTCBCur) =>
       context_frame[t] = ContextAt(t, progress)

LEMMA UnlinkKeepsOthers ==
  ASSUME NEW S, NEW L \in Seq(S), NEW t, \E i \in 1..Len(L) : L[i] = t,
         NEW u, InChain(u, Unlink(t, L))
  PROVE  InChain(u, L)
<1>1. PICK k \in 1..Len(L) :
        /\ Len(Unlink(t, L)) = Len(L) - 1
        /\ \A i \in 1..(Len(L) - 1) :
             Unlink(t, L)[i] = IF i < k THEN L[i] ELSE L[i + 1]
  BY UnlinkCloses
<1>2. PICK i \in 1..(Len(L) - 1) : Unlink(t, L)[i] = u
  BY <1>1 DEF InChain
<1>3. Len(L) \in Nat
  BY LenProperties
<1>4. i \in 1..Len(L) /\ i + 1 \in 1..Len(L)
  BY <1>3
<1>5. L[i] = u \/ L[i + 1] = u
  BY <1>1, <1>2
<1> QED
  BY <1>4, <1>5 DEF InChain

-----------------------------------------------------------------------------
(* A switch *)

\* OS_Sched puts the context of the current task where it belongs and takes
\* that of the next one, if the frames of the others are in order.
LEMMA SchedKeepsContexts ==
  ASSUME NEW STATE frames, frames \in [TCBs -> Contexts], OS_Sched(frames),
         IInv, IInv', OSRunning, OSRunning', CtxInv,
         progress'[OSTCBCur] = progress[OSTCBCur],
         \A t \in TCBs : InChain(t, OSTCBList') /\ t # OSTCBCur =>
           frames[t] = ContextAt(t, progress')
  PROVE  CtxInv'
<1>1. OSTCBCur \in TCBs /\ task_context_saved = ContextAt(OSTCBCur, progress')
  BY CurrentTask DEF CtxInv, ContextAt
<1>2. OSTCBCur' \in TCBs /\ InChain(OSTCBCur', OSTCBList')
  BY DEF IInv, RunInv, InList, InChain
<1>3. CASE context_frame' = frames /\ UNCHANGED <<task_context_saved, OSTCBCur>>
  BY <1>1, <1>3 DEF CtxInv, InList, InChain
<1>4. CASE /\ context_frame' = [frames EXCEPT ![OSTCBCur] = task_context_saved]
           /\ task_context_saved' = context_frame'[OSTCBCur']
  <2>1. \A t \in TCBs : InChain(t, OSTCBList') => context_frame'[t] = ContextAt(t, progress')
    BY <1>1, <1>4
  <2> QED
    BY <1>2, <1>4, <2>1 DEF CtxInv, InList, InChain
<1> QED
  BY <1>3, <1>4 DEF OS_Sched, SwitchToHighRdy, NoSwitch

\* Every service that creates no task and runs none.
LEMMA ServiceKeepsContexts ==
  ASSUME IInv, IInv', OSRunning, OSRunning', CtxInv, progress' = progress,
         \A t \in TCBs : InChain(t, OSTCBList') => InList(t),
         OS_Sched(context_frame) \/ UNCHANGED dispatchVars
  PROVE  CtxInv'
<1>1. CASE OS_Sched(context_frame)
  BY <1>1, SchedKeepsContexts DEF CtxInv, IInv, CPUTypes
<1>2. CASE UNCHANGED dispatchVars
  BY <1>2 DEF CtxInv, dispatchVars, InList, InChain
<1> QED
  BY <1>1, <1>2

-----------------------------------------------------------------------------
(* The actions *)

LEMMA CallKeepsContexts ==
  ASSUME IInv, IInv', CtxInv, OSRunning, OSRunning' = OSRunning,
         UNCHANGED <<OSTCBList, progress>>,
         OS_Sched(context_frame) \/ UNCHANGED dispatchVars
  PROVE  CtxInv'
<1>1. \A t \in TCBs : InChain(t, OSTCBList') => InList(t)
  BY DEF InChain, InList
<1> QED
  BY <1>1, ServiceKeepsContexts

LEMMA DelKeepsContexts ==
  ASSUME IInv, IInv', CtxInv, NEW p \in AllPrios, OSTaskDel(p)
  PROVE  CtxInv'
<1>1. /\ OSRunning /\ OSRunning' = OSRunning /\ OSTCBPrioTbl[p] # NULL
      /\ OSTCBList' = Unlink(OSTCBPrioTbl[p], OSTCBList)
      /\ progress' = progress /\ OS_Sched(context_frame)
  BY DEF OSTaskDel, CanCall
<1>2. PICK t \in TCBs : t = OSTCBPrioTbl[p] /\ InList(t)
  BY <1>1, TaskOfPrio DEF IInv
<1>3. OSTCBList \in Seq(TCBs) /\ \E i \in 1..Len(OSTCBList) : OSTCBList[i] = t
  BY <1>2 DEF IInv, DataInv, DataTypes, InList
<1>4. ASSUME NEW u \in TCBs, InChain(u, OSTCBList')
      PROVE  InList(u)
  <2>1. InChain(u, Unlink(t, OSTCBList))
    BY <1>1, <1>2, <1>4
  <2>2. InChain(u, OSTCBList)
    BY <1>3, <2>1, UnlinkKeepsOthers
  <2> QED
    BY <2>2 DEF InChain, InList
<1> QED
  BY <1>1, <1>4, ServiceKeepsContexts

\* A new task starts with the context OSTaskStkInit has made for it, and the
\* contexts of the others stay.
LEMMA NewTaskHasItsContext ==
  ASSUME IInv, CtxInv, NEW p \in AllPrios, OSTCBPrioTbl[p] = NULL,
         OS_TCBInit(p), UNCHANGED <<OSTime, nestVars>>,
         p = OS_TASK_IDLE_PRIO <=> OSTaskCtr = 0
  PROVE  /\ FramesWithNewTask \in [TCBs -> Contexts]
         /\ OSRunning => progress'[OSTCBCur] = progress[OSTCBCur]
         /\ \A t \in TCBs : InChain(t, OSTCBList') /\ ~(OSRunning /\ t = OSTCBCur) =>
              FramesWithNewTask[t] = ContextAt(t, progress')
<1>1. DataInv /\ CPUTypes /\ OSTCBFreeList # <<>>
  BY DEF IInv, OS_TCBInit
<1>2. PICK n \in TCBs : n = Head(OSTCBFreeList) /\ ~InList(n)
  BY <1>1, TCBInitKeepsDataInv
<1>3. \A t \in TCBs : InChain(t, OSTCBList') <=> InList(t) \/ t = n
  BY <1>1, <1>2, TCBInitKeepsDataInv
<1>4. FramesWithNewTask \in [TCBs -> Contexts]
  BY <1>1, FramesAreContexts
<1>5. /\ FramesWithNewTask = [context_frame EXCEPT ![n] = [owner |-> n, pc |-> 0]]
      /\ progress' = [progress EXCEPT ![n] = 0]
  BY <1>2 DEF FramesWithNewTask, EntryContext, OS_TCBInit
<1>6. context_frame \in [TCBs -> Contexts] /\ progress \in [TCBs -> 0..(PcMod - 1)]
  BY <1>1 DEF CPUTypes, DataInv, DataTypes
<1>7. ASSUME NEW t \in TCBs, InList(t), ~(OSRunning /\ t = OSTCBCur)
      PROVE  FramesWithNewTask[t] = ContextAt(t, progress')
  <2>1. t # n
    BY <1>2, <1>7
  <2>2. context_frame[t] = ContextAt(t, progress)
    BY <1>7 DEF CtxInv
  <2> QED
    BY <1>5, <1>6, <2>1, <2>2 DEF ContextAt
<1>8. FramesWithNewTask[n] = ContextAt(n, progress')
  BY <1>5, <1>6 DEF ContextAt
<1>9. OSRunning => progress'[OSTCBCur] = progress[OSTCBCur]
  <2>1. OSRunning => OSTCBCur \in TCBs /\ OSTCBCur # n
    BY <1>2, CurrentTask
  <2> QED
    BY <1>5, <1>6, <2>1
<1> QED
  BY <1>3, <1>4, <1>7, <1>8, <1>9

LEMMA CreateKeepsContexts ==
  ASSUME IInv, IInv', CtxInv, OSRunning, NEW p \in AllPrios, CreateTask(p)
  PROVE  CtxInv'
<1>1. /\ OSTCBPrioTbl[p] = NULL /\ OS_TCBInit(p)
      /\ UNCHANGED <<OSTime, nestVars>> /\ OSRunning'
      /\ OS_Sched(FramesWithNewTask)
  BY DEF CreateTask, nestVars
<1>2. p = OS_TASK_IDLE_PRIO <=> OSTaskCtr = 0
  BY <1>1, RunningKeepsIdle
<1>3. /\ FramesWithNewTask \in [TCBs -> Contexts]
      /\ progress'[OSTCBCur] = progress[OSTCBCur]
      /\ \A t \in TCBs : InChain(t, OSTCBList') /\ t # OSTCBCur =>
           FramesWithNewTask[t] = ContextAt(t, progress')
  BY <1>1, <1>2, NewTaskHasItsContext
<1> QED
  BY <1>1, <1>3, SchedKeepsContexts

LEMMA AddKeepsContexts ==
  ASSUME IInv, CtxInv, PartitionAdd
  PROVE  CtxInv'
<1> DEFINE p == BootPrios[OSTaskCtr + 1]
<1>1. /\ ~OSRunning /\ ~OSRunning' /\ OSTCBPrioTbl[p] = NULL /\ OS_TCBInit(p)
      /\ context_frame' = FramesWithNewTask
      /\ UNCHANGED <<OSTime, nestVars>>
  BY DEF PartitionAdd, NoSwitch, nestVars
<1>2. p \in AllPrios /\ (p = OS_TASK_IDLE_PRIO <=> OSTaskCtr = 0)
  BY BootTaskIsNext
<1> HIDE DEF p
<1>3. \A t \in TCBs : InChain(t, OSTCBList') => FramesWithNewTask[t] = ContextAt(t, progress')
  BY <1>1, <1>2, NewTaskHasItsContext
<1> QED
  BY <1>1, <1>3 DEF CtxInv, InList, InChain

LEMMA StartLoadsContext ==
  ASSUME IInv, IInv', CtxInv, OSStart
  PROVE  CtxInv'
<1>1. OSTCBCur' \in TCBs /\ InChain(OSTCBCur', OSTCBList')
  BY DEF IInv, RunInv, InList, InChain, OSStart
<1>2. /\ ~OSRunning /\ task_context_saved' = context_frame[OSTCBCur']
      /\ UNCHANGED <<context_frame, progress, OSTCBList>>
  BY DEF OSStart, listVars
<1>3. \A t \in TCBs : InChain(t, OSTCBList') => context_frame[t] = ContextAt(t, progress)
  BY <1>2 DEF CtxInv, InList, InChain
<1> QED
  BY <1>1, <1>2, <1>3 DEF CtxInv, InList, InChain

LEMMA StepMovesItsContext ==
  ASSUME IInv, CtxInv, TaskStep
  PROVE  CtxInv'
<1>1. OSRunning /\ OSTCBCur \in TCBs /\ progress \in [TCBs -> 0..(PcMod - 1)]
  BY CurrentTask DEF TaskStep, IInv, DataInv, DataTypes
<1>2. task_context_saved.owner = OSTCBCur
  BY <1>1 DEF CtxInv, ContextAt
<1> DEFINE pc == (task_context_saved.pc + 1) % PcMod
<1>3. /\ task_context_saved' = [owner |-> OSTCBCur, pc |-> pc]
      /\ progress' = [progress EXCEPT ![OSTCBCur] = pc]
      /\ UNCHANGED <<OSRunning, OSTCBCur, OSTCBList, context_frame>>
  BY <1>2 DEF TaskStep, nestVars, listVars
<1> HIDE DEF pc
<1>4. task_context_saved' = ContextAt(OSTCBCur', progress')
  BY <1>1, <1>3 DEF ContextAt
<1>5. ASSUME NEW t \in TCBs, InList(t), t # OSTCBCur
      PROVE  context_frame'[t] = ContextAt(t, progress')
  BY <1>1, <1>3, <1>5 DEF CtxInv, ContextAt
<1> QED
  BY <1>1, <1>3, <1>4, <1>5 DEF CtxInv, InList

LEMMA NextKeepsContexts ==
  ASSUME LockedSelfCalls = {}, IInv, CtxInv, [Next]_vars
  PROVE  CtxInv'
<1>1. IInv'
  BY NextKeepsIInv
<1>2. CASE PartitionAdd
  BY <1>2, AddKeepsContexts
<1>3. CASE OSStart
  BY <1>1, <1>3, StartLoadsContext
<1>4. CASE OSTaskTimerISR
  BY <1>1, <1>4, CallKeepsContexts DEF OSTaskTimerISR, OSTimeTick, listVars
<1>5. CASE TaskStep
  BY <1>5, StepMovesItsContext
<1>6. CASE SystemCall
  <2>1. CASE \E p \in AllPrios : OSTaskCreate(p) \/ OSTaskCreateExt(p)
    BY <1>1, <2>1, CreateKeepsContexts DEF OSTaskCreate, OSTaskCreateExt, CanCall
  <2>2. CASE \E p \in AllPrios : OSTaskDel(p)
    BY <1>1, <2>2, DelKeepsContexts
  <2>3. ASSUME NEW ticks, OSTimeDly(ticks) \/ OSTimeSet(ticks)
        PROVE  CtxInv'
    BY <1>1, <2>3, CallKeepsContexts
       DEF OSTimeDly, OSTimeSet, CanCall, nestVars, listVars
  <2>4. ASSUME NEW p \in AllPrios,
               OSTimeDlyResume(p) \/ OSTaskDelReq(p) \/ OSTaskSuspend(p) \/ OSTaskResume(p)
        PROVE  CtxInv'
    <3>1. /\ OSRunning /\ OSRunning' = OSRunning
          /\ UNCHANGED <<OSTCBList, progress>>
          /\ OS_Sched(context_frame) \/ UNCHANGED dispatchVars
      BY <2>4 DEF OSTimeDlyResume, OSTaskDelReq, OSTaskSuspend, OSTaskResume,
                  CanCall, nestVars, listVars
    <3> QED
      BY <1>1, <3>1, CallKeepsContexts
  <2>5. ASSUME NEW p \in AllPrios, NEW q \in AllPrios, OSTaskChangePrio(p, q)
        PROVE  CtxInv'
    BY <1>1, <2>5, CallKeepsContexts DEF OSTaskChangePrio, CanCall, nestVars
  <2>6. CASE OSSchedLock \/ OSSchedUnlock
    BY <1>1, <2>6, CallKeepsContexts DEF OSSchedLock, OSSchedUnlock, CanCall, listVars
  <2> QED
    BY <1>6, <2>1, <2>2, <2>3, <2>4, <2>5, <2>6 DEF SystemCall
<1>7. CASE UNCHANGED vars
  BY <1>7 DEF CtxInv, vars, nestVars, listVars, dispatchVars, InList
<1> QED
  BY <1>2, <1>3, <1>4, <1>5, <1>6, <1>7 DEF Next

-----------------------------------------------------------------------------
(* The theorems *)

\* The CPU returns to the current task exactly where it left it, and the TCB
\* of every other task that exists holds that task's own context.
THEOREM ContextsKept ==
  ASSUME LockedSelfCalls = {}
  PROVE  Spec => []ContextIntegrity
<1>1. Init => IInv /\ CtxInv
  <2>1. Init => CtxInv
    BY DEF Init, CtxInv, InList
  <2> QED
    BY <2>1, InitEstablishesIInv
<1>2. IInv /\ CtxInv /\ [Next]_vars => IInv' /\ CtxInv'
  BY NextKeepsIInv, NextKeepsContexts
<1>3. IInv /\ CtxInv => ContextIntegrity
  BY CurrentTask DEF CtxInv, ContextIntegrity, ContextAt
<1> QED
  BY <1>1, <1>2, <1>3, PTL DEF Spec

\* While the scheduler is locked no tick and no call moves the CPU to another
\* task.
THEOREM LockKeepsCPU == Spec => LockedTaskKeepsCPU
<1> DEFINE Kept == /\ task_context_saved'.owner = task_context_saved.owner
                   /\ OSTCBCur' = OSTCBCur
<1>1. ASSUME [Next]_vars
      PROVE  [OSRunning /\ OSLockNesting > 0 /\ OSLockNesting' > 0 => Kept]_vars
  <2> SUFFICES ASSUME Next, OSRunning, OSLockNesting' > 0
               PROVE  Kept
    BY <1>1
  <2>1. ASSUME NEW STATE frames, OS_Sched(frames)
        PROVE  Kept
    BY <2>1 DEF OS_Sched, NoSwitch
  <2>2. ASSUME UNCHANGED dispatchVars
        PROVE  Kept
    BY <2>2 DEF dispatchVars
  <2>3. CASE PartitionAdd \/ OSStart
    BY <2>3 DEF PartitionAdd, OSStart
  <2>4. CASE OSTaskTimerISR
    BY <2>1, <2>4 DEF OSTaskTimerISR
  <2>5. CASE TaskStep
    BY <2>5 DEF TaskStep
  <2>6. CASE SystemCall
    <3>1. \/ OS_Sched(context_frame) \/ OS_Sched(FramesWithNewTask)
          \/ UNCHANGED dispatchVars
      BY <2>6 DEF SystemCall, OSTimeDly, OSTimeSet, OSTimeDlyResume, OSTaskCreate,
                  OSTaskCreateExt, CreateTask, OSTaskDel, OSTaskDelReq,
                  OSTaskSuspend, OSTaskResume, OSTaskChangePrio, OSSchedLock,
                  OSSchedUnlock
    <3> QED
      BY <2>1, <2>2, <3>1
  <2> QED
    BY <2>3, <2>4, <2>5, <2>6 DEF Next
<1> QED
  BY <1>1, PTL DEF Spec, LockedTaskKeepsCPU

-----------------------------------------------------------------------------
(* Ticks *)

\* A delayed task stands before the idle task, which is never delayed and
\* ends the chain: OSTimeTick's walk reaches it.
LEMMA WalkReachesDelayed ==
  ASSUME DataInv, NEW t \in TCBs, InList(t), OSTCBDly[t] > 0
  PROVE  t \in TickWalk
<1>1. PICK i \in 1..Len(OSTCBList) : OSTCBList[i] = t
  BY DEF InList
<1>2. Len(OSTCBList) \in Nat
  BY LenProperties DEF DataInv, DataTypes
<1>3. OSTCBPrio[t] # OS_TASK_IDLE_PRIO
  <2> SUFFICES ASSUME OSTCBPrio[t] = OS_TASK_IDLE_PRIO
               PROVE  FALSE
    OBVIOUS
  <2>1. OSTCBPrioTbl[OS_TASK_IDLE_PRIO] = t
    BY PrioOfTask
  <2> QED
    BY <2>1 DEF DataInv, IdleInv, TCBs, NULL
<1>4. i # Len(OSTCBList)
  BY <1>1, <1>3 DEF DataInv, ChainInv
<1>5. \A k \in 1..i : OSTCBPrio[OSTCBList[k]] # OS_TASK_IDLE_PRIO
  <2> TAKE k \in 1..i
  <2>1. k \in 1..Len(OSTCBList) /\ k # Len(OSTCBList)
    BY <1>2, <1>4
  <2> QED
    BY <2>1 DEF DataInv, ChainInv
<1> QED
  BY <1>1, <1>5 DEF TickWalk

\* A running delay is the business of the tick alone: OSTimeDly is called by
\* a task that has none, and every other service leaves it or ends it.
LEMMA ServicesOnlyEndDelays ==
  ASSUME IInv, Next, NEW t \in TCBs, InList(t), OSTCBDly[t] > 0
  PROVE  OSTaskTimerISR \/ OSTCBDly'[t] \in {0, OSTCBDly[t]}
<1>1. DataInv /\ OSTCBDly \in [TCBs -> Nat]
  BY DEF IInv, DataInv, DataTypes
<1>2. ASSUME NEW u, OSTCBDly' = [OSTCBDly EXCEPT ![u] = 0]
      PROVE  OSTCBDly'[t] \in {0, OSTCBDly[t]}
  BY <1>1, <1>2
<1>3. CASE PartitionAdd
  BY <1>2, <1>3 DEF PartitionAdd, OS_TCBInit
<1>4. CASE OSStart \/ TaskStep
  BY <1>4 DEF OSStart, TaskStep
<1>5. CASE SystemCall
  <2>1. ASSUME NEW ticks, OSTimeDly(ticks)
        PROVE  OSTCBDly'[t] \in {0, OSTCBDly[t]}
    <3>1. OSRunning /\ OSLockNesting = 0 /\ OSTCBDly' = [OSTCBDly EXCEPT ![OSTCBCur] = ticks]
      BY <2>1 DEF OSTimeDly, CanCall
    <3>2. OSTCBCur \in TCBs /\ InList(OSTCBCur) /\ OSTCBPrio[OSTCBCur] \in Members(OSRdy)
      BY <3>1, CurrentTask
    <3>3. OSTCBDly[OSTCBCur] = 0
      BY <1>1, <3>2, BitOfTask DEF IsReady
    <3>4. t # OSTCBCur
      BY <3>3
    <3> QED
      BY <1>1, <3>1, <3>4
  <2>2. CASE \E p \in AllPrios : OSTimeDlyResume(p) \/ OSTaskDel(p)
    BY <1>2, <2>2 DEF OSTimeDlyResume, OSTaskDel
  <2>3. CASE \E p \in AllPrios : OSTaskCreate(p) \/ OSTaskCreateExt(p)
    BY <1>2, <2>3 DEF OSTaskCreate, OSTaskCreateExt, CreateTask, OS_TCBInit
  <2>4. ASSUME UNCHANGED OSTCBDly
        PROVE  OSTCBDly'[t] \in {0, OSTCBDly[t]}
    BY <2>4
  <2>5. CASE \E ticks \in 0..(TimeMod - 1) : OSTimeSet(ticks)
    BY <2>4, <2>5 DEF OSTimeSet
  <2>6. CASE \E p \in AllPrios : OSTaskDelReq(p) \/ OSTaskSuspend(p) \/ OSTaskResume(p)
    BY <2>4, <2>6 DEF OSTaskDelReq, OSTaskSuspend, OSTaskResume
  <2>7. CASE \E p, q \in AllPrios : OSTaskChangePrio(p, q)
    BY <2>4, <2>7 DEF OSTaskChangePrio
  <2>8. CASE OSSchedLock \/ OSSchedUnlock
    BY <2>4, <2>8 DEF OSSchedLock, OSSchedUnlock
  <2> QED
    BY <1>5, <2>1, <2>2, <2>3, <2>5, <2>6, <2>7, <2>8 DEF SystemCall
<1> QED
  BY <1>3, <1>4, <1>5 DEF Next

-----------------------------------------------------------------------------
(* Deletion requests *)

\* How a step other than a creation changes the tasks and their requests.
RequestsStay ==
  /\ \A t \in TCBs : InChain(t, OSTCBList') => InList(t)
  /\ \A t \in TCBs : OSTCBDelReq[t] => OSTCBDelReq'[t]

\* A new task has a TCB no task had, and no request in it.
LEMMA NewTaskHasNoRequest ==
  ASSUME IInv, NEW p \in AllPrios, OSTCBPrioTbl[p] = NULL,
         OS_TCBInit(p), UNCHANGED <<OSTime, nestVars>>,
         p = OS_TASK_IDLE_PRIO <=> OSTaskCtr = 0,
         NEW t \in TCBs
  PROVE  /\ InList(t) /\ OSTCBDelReq[t] => OSTCBDelReq'[t]
         /\ ~InList(t) /\ InChain(t, OSTCBList') => ~OSTCBDelReq'[t]
<1>1. DataInv /\ OSTCBDelReq \in [TCBs -> BOOLEAN]
  BY DEF IInv, DataInv, DataTypes
<1>2. PICK n \in TCBs : n = Head(OSTCBFreeList) /\ ~InList(n)
  BY <1>1, TCBInitKeepsDataInv
<1>3. InChain(t, OSTCBList') <=> InList(t) \/ t = n
  BY <1>1, <1>2, TCBInitKeepsDataInv
<1>4. OSTCBDelReq' = [OSTCBDelReq EXCEPT ![n] = FALSE]
  BY <1>2 DEF OS_TCBInit, ClearDelReq
<1>5. CASE t = n
  BY <1>1, <1>2, <1>4, <1>5
<1>6. CASE t # n
  BY <1>1, <1>3, <1>4, <1>6
<1> QED
  BY <1>5, <1>6

\* OSTaskDel only takes a task away.
LEMMA DelTakesTaskAway ==
  ASSUME IInv, NEW p \in AllPrios, OSTaskDel(p)
  PROVE  RequestsStay
<1>1. /\ OSTCBPrioTbl[p] # NULL /\ OSTCBDelReq' = OSTCBDelReq
      /\ OSTCBList' = Unlink(OSTCBPrioTbl[p], OSTCBList)
  BY DEF OSTaskDel
<1>2. PICK d \in TCBs : d = OSTCBPrioTbl[p] /\ InList(d)
  BY <1>1, TaskOfPrio DEF IInv
<1>3. OSTCBList \in Seq(TCBs) /\ \E i \in 1..Len(OSTCBList) : OSTCBList[i] = d
  BY <1>2 DEF IInv, DataInv, DataTypes, InList
<1>4. ASSUME NEW u \in TCBs, InChain(u, OSTCBList')
      PROVE  InList(u)
  <2>1. InChain(u, Unlink(d, OSTCBList))
    BY <1>1, <1>2, <1>4
  <2>2. InChain(u, OSTCBList)
    BY <1>3, <2>1, UnlinkKeepsOthers
  <2> QED
    BY <2>2 DEF InChain, InList
<1> QED
  BY <1>1, <1>4 DEF RequestsStay

LEMMA RequestsFollow ==
  ASSUME IInv, Next, NEW t \in TCBs
  PROVE  /\ InList(t) /\ InChain(t, OSTCBList') /\ OSTCBDelReq[t] => OSTCBDelReq'[t]
         /\ ~InList(t) /\ InChain(t, OSTCBList') => ~OSTCBDelReq'[t]
<1> DEFINE Goal ==
      /\ InList(t) /\ InChain(t, OSTCBList') /\ OSTCBDelReq[t] => OSTCBDelReq'[t]
      /\ ~InList(t) /\ InChain(t, OSTCBList') => ~OSTCBDelReq'[t]
<1>1. ASSUME RequestsStay
      PROVE  Goal
  BY <1>1 DEF RequestsStay
<1>2. ASSUME UNCHANGED OSTCBList, \A u \in TCBs : OSTCBDelReq[u] => OSTCBDelReq'[u]
      PROVE  Goal
  <2>1. \A u \in TCBs : InChain(u, OSTCBList') => InList(u)
    BY <1>2 DEF InChain, InList
  <2> QED
    BY <1>1, <1>2, <2>1 DEF RequestsStay
<1>3. CASE PartitionAdd
  <2> DEFINE p == BootPrios[OSTaskCtr + 1]
  <2>1. p \in AllPrios /\ (p = OS_TASK_IDLE_PRIO <=> OSTaskCtr = 0)
    BY <1>3, BootTaskIsNext
  <2>2. OSTCBPrioTbl[p] = NULL /\ OS_TCBInit(p) /\ UNCHANGED <<OSTime, nestVars>>
    BY <1>3 DEF PartitionAdd
  <2> HIDE DEF p
  <2> QED
    BY <2>1, <2>2, NewTaskHasNoRequest
<1>4. CASE OSStart \/ TaskStep \/ OSTaskTimerISR
  BY <1>2, <1>4 DEF OSStart, TaskStep, OSTaskTimerISR, OSTimeTick, listVars
<1>5. CASE SystemCall
  <2>1. ASSUME NEW p \in AllPrios, OSTaskCreate(p) \/ OSTaskCreateExt(p)
        PROVE  Goal
    <3>1. OSRunning /\ OSTCBPrioTbl[p] = NULL /\ OS_TCBInit(p) /\ UNCHANGED <<OSTime, nestVars>>
      BY <2>1 DEF OSTaskCreate, OSTaskCreateExt, CreateTask, CanCall
    <3>2. p = OS_TASK_IDLE_PRIO <=> OSTaskCtr = 0
      BY <3>1, RunningKeepsIdle
    <3> QED
      BY <3>1, <3>2, NewTaskHasNoRequest
  <2>2. CASE \E p \in AllPrios : OSTaskDel(p)
    BY <1>1, <2>2, DelTakesTaskAway
  <2>3. ASSUME NEW p \in AllPrios, OSTaskDelReq(p)
        PROVE  Goal
    <3>1. OSTCBDelReq \in [TCBs -> BOOLEAN]
      BY DEF IInv, DataInv, DataTypes
    <3>2. /\ OSTCBDelReq' = [OSTCBDelReq EXCEPT ![OSTCBPrioTbl[p]] = TRUE]
          /\ UNCHANGED OSTCBList
      BY <2>3 DEF OSTaskDelReq, listVars
    <3>3. \A u \in TCBs : OSTCBDelReq[u] => OSTCBDelReq'[u]
      BY <3>1, <3>2
    <3> QED
      BY <1>2, <3>2, <3>3
  <2>4. ASSUME NEW ticks, OSTimeDly(ticks) \/ OSTimeSet(ticks)
        PROVE  Goal
    BY <1>2, <2>4 DEF OSTimeDly, OSTimeSet, listVars
  <2>5. ASSUME NEW p \in AllPrios, OSTimeDlyResume(p) \/ OSTaskSuspend(p) \/ OSTaskResume(p)
        PROVE  Goal
    <3>1. UNCHANGED <<OSTCBList, OSTCBDelReq>>
      BY <2>5 DEF OSTimeDlyResume, OSTaskSuspend, OSTaskResume, listVars
    <3> QED
      BY <1>2, <3>1
  <2>6. ASSUME NEW p \in AllPrios, NEW q \in AllPrios, OSTaskChangePrio(p, q)
        PROVE  Goal
    BY <1>2, <2>6 DEF OSTaskChangePrio
  <2>7. CASE OSSchedLock \/ OSSchedUnlock
    BY <1>2, <2>7 DEF OSSchedLock, OSSchedUnlock, listVars
  <2> QED
    BY <1>5, <2>1, <2>2, <2>3, <2>4, <2>5, <2>6, <2>7 DEF SystemCall
<1> QED
  BY <1>3, <1>4, <1>5 DEF Next

-----------------------------------------------------------------------------
(* The theorems *)

\* Every tick brings every delayed task one tick nearer to its end, whatever
\* its place in the TCB chain, and no service shortens a delay it does not end.
THEOREM TicksReachEveryDelay ==
  ASSUME LockedSelfCalls = {}
  PROVE  Spec => EveryTickCounts
<1> DEFINE Counts == \A t \in TCBs : InList(t) /\ OSTCBDly[t] > 0 =>
             IF OSTaskTimerISR THEN OSTCBDly'[t] = OSTCBDly[t] - 1
                               ELSE OSTCBDly'[t] \in {0, OSTCBDly[t]}
<1>1. IInv /\ [Next]_vars => [Counts]_vars
  <2> SUFFICES ASSUME IInv, Next, NEW t \in TCBs, InList(t), OSTCBDly[t] > 0
               PROVE  IF OSTaskTimerISR THEN OSTCBDly'[t] = OSTCBDly[t] - 1
                                        ELSE OSTCBDly'[t] \in {0, OSTCBDly[t]}
    OBVIOUS
  <2>1. t \in TickWalk
    BY WalkReachesDelayed DEF IInv
  <2>2. CASE OSTaskTimerISR
    <3>1. OSTCBDly'[t] = OSTCBDly[t] - 1
      BY <2>1, <2>2 DEF OSTaskTimerISR, OSTimeTick
    <3> QED
      BY <2>2, <3>1
  <2>3. CASE ~OSTaskTimerISR
    BY <2>3, ServicesOnlyEndDelays
  <2> QED
    BY <2>2, <2>3
<1>2. IInv /\ [Next]_vars => IInv'
  BY NextKeepsIInv
<1> QED
  BY <1>1, <1>2, InitEstablishesIInv, PTL DEF Spec, EveryTickCounts

\* A deletion request stays with the task it was made for until that task is
\* deleted, and no task that is created in the same TCB finds it there.
THEOREM RequestsFollowTasks ==
  ASSUME LockedSelfCalls = {}
  PROVE  Spec => DeleteRequestFollowsTask
<1> DEFINE Follows == \A t \in TCBs :
             /\ InList(t) /\ InList(t)' /\ OSTCBDelReq[t] => OSTCBDelReq'[t]
             /\ ~InList(t) /\ InList(t)' => ~OSTCBDelReq'[t]
<1>1. IInv /\ [Next]_vars => [Follows]_vars
  <2>1. ASSUME NEW t \in TCBs
        PROVE  InList(t)' <=> InChain(t, OSTCBList')
    BY DEF InList, InChain
  <2>2. IInv /\ Next => Follows
    BY <2>1, RequestsFollow
  <2> QED
    BY <2>2
<1>2. IInv /\ [Next]_vars => IInv'
  BY NextKeepsIInv
<1> QED
  BY <1>1, <1>2, InitEstablishesIInv, PTL DEF Spec, DeleteRequestFollowsTask

-----------------------------------------------------------------------------
(* That UcosKernel implements PrioScheduler: each action is one step of    *)
(* the priority scheduler, or one that changes nothing a task can see.     *)
(* The dispatch at the end of a step is the same for all actions, and is   *)
(* shown once.                                                             *)

\* Nothing runs and nothing is locked before OSStart.
IdleCPU == ~OSRunning => OSTCBCur = NULL /\ OSLockNesting = 0

\* No service of this configuration sets a pend bit.
NoPends == \A t \in TCBs : OSTCBStat[t] \subseteq {"SUSPEND"}

RefInv == IInv /\ CtxInv /\ IdleCPU /\ NoPends

-----------------------------------------------------------------------------
(* The invariant *)

LEMMA NextKeepsNoPends ==
  ASSUME IInv, NoPends, [Next]_vars
  PROVE  NoPends'
<1>1. OSTCBStat \in [TCBs -> SUBSET StatBits]
  BY DEF IInv, DataInv, DataTypes
<1>2. ASSUME NEW u, NEW stat \in SUBSET {"SUSPEND"}, OSTCBStat' = [OSTCBStat EXCEPT ![u] = stat]
      PROVE  NoPends'
  BY <1>1, <1>2 DEF NoPends
<1>3. ASSUME OSTCBStat' = OSTCBStat
      PROVE  NoPends'
  BY <1>3 DEF NoPends
<1>4. ASSUME NEW p \in AllPrios, OS_TCBInit(p)
      PROVE  NoPends'
  BY <1>2, <1>4 DEF OS_TCBInit, OS_STAT_RDY
<1>5. CASE PartitionAdd
  BY <1>4, <1>5, BootTaskIsNext DEF PartitionAdd
<1>6. CASE OSStart \/ TaskStep
  BY <1>3, <1>6 DEF OSStart, TaskStep
<1>7. CASE OSTaskTimerISR
  BY <1>1, <1>7 DEF OSTaskTimerISR, OSTimeTick, NoPends
<1>8. CASE SystemCall
  <2>1. CASE \E p \in AllPrios : OSTaskCreate(p) \/ OSTaskCreateExt(p)
    BY <1>4, <2>1 DEF OSTaskCreate, OSTaskCreateExt, CreateTask
  <2>2. ASSUME NEW p \in AllPrios, OSTaskDel(p)
        PROVE  NoPends'
    BY <1>2, <2>2 DEF OSTaskDel, OS_STAT_RDY
  <2>3. ASSUME NEW p \in AllPrios,
               OSTimeDlyResume(p) \/ OSTaskSuspend(p) \/ OSTaskResume(p)
        PROVE  NoPends'
    <3>1. IInv /\ OSTCBPrioTbl[p] # NULL
      BY <2>3 DEF OSTimeDlyResume, OSTaskSuspend, OSTaskResume
    <3>2. PICK t \in TCBs : t = OSTCBPrioTbl[p]
      BY <3>1, TaskOfPrio DEF IInv
    <3>3. \/ OSTCBStat' = [OSTCBStat EXCEPT ![t] = OSTCBStat[t] \ OS_STAT_PEND_ANY]
          \/ OSTCBStat' = [OSTCBStat EXCEPT ![t] = OSTCBStat[t] \cup {"SUSPEND"}]
          \/ OSTCBStat' = [OSTCBStat EXCEPT ![t] = OSTCBStat[t] \ {"SUSPEND"}]
      BY <2>3, <3>2 DEF OSTimeDlyResume, OSTaskSuspend, OSTaskResume
    <3>4. /\ OSTCBStat[t] \ OS_STAT_PEND_ANY \in SUBSET {"SUSPEND"}
          /\ OSTCBStat[t] \cup {"SUSPEND"} \in SUBSET {"SUSPEND"}
          /\ OSTCBStat[t] \ {"SUSPEND"} \in SUBSET {"SUSPEND"}
      BY <3>2 DEF NoPends
    <3> QED
      BY <1>2, <3>3, <3>4
  <2>4. ASSUME NEW p, NEW q,
               \/ OSTimeDly(p) \/ OSTimeSet(p) \/ OSTaskDelReq(p)
               \/ OSTaskChangePrio(p, q) \/ OSSchedLock \/ OSSchedUnlock
        PROVE  NoPends'
    <3>1. OSTCBStat' = OSTCBStat
      BY <2>4 DEF OSTimeDly, OSTimeSet, OSTaskDelReq, OSTaskChangePrio, OSSchedLock,
                  OSSchedUnlock
    <3> QED
      BY <1>3, <3>1
  <2> QED
    BY <1>8, <2>1, <2>2, <2>3, <2>4 DEF SystemCall
<1>9. CASE UNCHANGED vars
  BY <1>3, <1>9 DEF vars
<1> QED
  BY <1>5, <1>6, <1>7, <1>8, <1>9 DEF Next

\* Calls are made by a partition that runs, and it goes on running.
LEMMA CallsRun == SystemCall => OSRunning /\ OSRunning' = OSRunning
<1>1. ASSUME NEW p, NEW q,
             \/ OSTimeDly(p) \/ OSTimeSet(p) \/ OSTimeDlyResume(p)
             \/ OSTaskCreate(p) \/ OSTaskCreateExt(p)
      PROVE  OSRunning /\ OSRunning' = OSRunning
  BY <1>1 DEF OSTimeDly, OSTimeSet, OSTimeDlyResume, OSTaskCreate, OSTaskCreateExt,
              CreateTask, CanCall, nestVars
<1>2. ASSUME NEW p, NEW q,
             \/ OSTaskDel(p) \/ OSTaskDelReq(p) \/ OSTaskSuspend(p) \/ OSTaskResume(p)
             \/ OSTaskChangePrio(p, q) \/ OSSchedLock \/ OSSchedUnlock
      PROVE  OSRunning /\ OSRunning' = OSRunning
  <2>1. OSRunning
    BY <1>2 DEF OSTaskDel, OSTaskDelReq, OSTaskSuspend, OSTaskResume, OSTaskChangePrio,
                OSSchedLock, OSSchedUnlock, CanCall
  <2>2. OSRunning' = OSRunning
    BY <1>2 DEF OSTaskDel, OSTaskDelReq, OSTaskSuspend, OSTaskResume, OSTaskChangePrio,
                OSSchedLock, OSSchedUnlock, nestVars
  <2> QED
    BY <2>1, <2>2
<1> QED
  BY <1>1, <1>2 DEF SystemCall

LEMMA NextKeepsIdleCPU ==
  ASSUME IdleCPU, [Next]_vars
  PROVE  IdleCPU'
<1>1. CASE OSRunning'
  BY <1>1 DEF IdleCPU
<1>2. CASE ~OSRunning'
  <2>1. CASE PartitionAdd
    BY <2>1 DEF PartitionAdd, NoSwitch, nestVars, IdleCPU
  <2>2. CASE OSStart
    BY <1>2, <2>2 DEF OSStart
  <2>3. CASE OSTaskTimerISR \/ TaskStep
    BY <1>2, <2>3 DEF OSTaskTimerISR, TaskStep, nestVars
  <2>4. CASE SystemCall
    BY <1>2, <2>4, CallsRun
  <2>5. CASE UNCHANGED vars
    BY <2>5 DEF IdleCPU, vars, nestVars, dispatchVars
  <2> QED
    BY <2>1, <2>2, <2>3, <2>4, <2>5 DEF Next
<1> QED
  BY <1>1, <1>2

LEMMA RefinementInvariant ==
  ASSUME LockedSelfCalls = {}
  PROVE  /\ Init => RefInv
         /\ RefInv /\ [Next]_vars => RefInv'
<1>1. Init => CtxInv /\ IdleCPU /\ NoPends
  BY DEF Init, CtxInv, InList, IdleCPU, NoPends, OS_STAT_RDY
<1>2. RefInv /\ [Next]_vars => RefInv'
  BY NextKeepsIInv, NextKeepsContexts, NextKeepsNoPends, NextKeepsIdleCPU DEF RefInv
<1> QED
  BY <1>1, <1>2, InitEstablishesIInv DEF RefInv


-----------------------------------------------------------------------------
(* The mapping *)

\* Ready in the sense of PrioScheduler is ready in the sense of the kernel.
LEMMA ReadyIsReady ==
  ASSUME RefInv, NEW t
  PROVE  t \in Sched!Ready <=> t \in TCBs /\ IsReady(t)
<1>1. t \in TCBs => OSTCBStat[t] \subseteq {"SUSPEND"}
  BY DEF RefInv, NoPends
<1> QED
  BY <1>1 DEF Sched!Ready, LiveTasks, DelayOf, SuspendedTasks, IsReady, OS_STAT_RDY

CPUHasHighest ==
  /\ OSTCBCur \in Sched!Ready
  /\ \A t \in Sched!Ready : PrioOf[OSTCBCur] <= PrioOf[t]

LEMMA UnlockedCPU == RefInv /\ OSRunning /\ ~IsLocked => CPUHasHighest
<1> SUFFICES ASSUME RefInv, OSRunning, ~IsLocked
             PROVE  CPUHasHighest
  OBVIOUS
<1>0. OSLockNesting = 0
  BY DEF IsLocked, RefInv, IInv, DataInv, DataTypes
<1>1. /\ OSTCBCur \in TCBs /\ InList(OSTCBCur) /\ OSPrioCur = OSTCBPrio[OSTCBCur]
      /\ OSPrioCur \in Members(OSRdy)
      /\ \A p \in Members(OSRdy) : OSPrioCur <= p
  BY <1>0, CurrentTask DEF RefInv
<1>2. \A t \in TCBs : IsReady(t) => InList(t) /\ OSTCBPrio[t] \in Members(OSRdy)
  BY BitOfTask DEF RefInv, IInv, IsReady
<1>3. IsReady(OSTCBCur)
  BY <1>1, BitOfTask DEF RefInv, IInv
<1> QED
  BY <1>1, <1>2, <1>3, ReadyIsReady DEF CPUHasHighest, PrioOf, LiveTasks

\* However a step ends, the CPU is where PrioScheduler wants it.
LEMMA Dispatches ==
  ASSUME RefInv, RefInv', OSRunning',
         OSTCBCur' = OSTCBCur \/ \E frames : OS_Sched(frames)
  PROVE  Sched!Dispatch
<1>1. CASE IsLocked'
  <2>1. OSTCBCur' = OSTCBCur
    BY <1>1 DEF IsLocked, OS_Sched, NoSwitch
  <2> QED
    BY <1>1, <2>1 DEF Sched!Dispatch
<1>2. CASE ~IsLocked'
  <2>1. CPUHasHighest'
    BY <1>2, UnlockedCPU, PTL
  <2> QED
    BY <1>2, <2>1 DEF Sched!Dispatch, CPUHasHighest
<1> QED
  BY <1>1, <1>2

\* Wherever the contexts are, they are as far as the tasks have run.
PcExact == PcOf = [t \in LiveTasks |-> progress[t]]

LEMMA PcIsProgress == RefInv => PcExact
<1> SUFFICES ASSUME RefInv, NEW t \in LiveTasks
             PROVE  ContextOf(t).pc = progress[t]
  BY DEF PcOf, PcExact
<1>1. t \in TCBs /\ InList(t)
  BY DEF LiveTasks
<1>2. ContextOf(t) = ContextAt(t, progress)
  <2>1. CASE OSRunning /\ t = OSTCBCur
    BY <2>1 DEF RefInv, CtxInv, ContextOf
  <2>2. CASE ~OSRunning
    BY <1>1, <2>2 DEF RefInv, IdleCPU, CtxInv, ContextOf, TCBs, NULL
  <2>3. CASE OSRunning /\ t # OSTCBCur
    BY <1>1, <2>3 DEF RefInv, CtxInv, ContextOf
  <2> QED
    BY <2>1, <2>2, <2>3
<1> QED
  BY <1>2 DEF ContextAt

LEMMA StartedIsRunning == RefInv => (Sched!Started <=> OSRunning)
BY CurrentTask DEF RefInv, IdleCPU, Sched!Started, TCBs, NULL

\* While the chain of tasks stays, a variable of PrioScheduler changes only
\* with the variable of the kernel that it is mapped to.
LEMMA MappedTogether ==
  ASSUME RefInv, RefInv', OSTCBList' = OSTCBList
  PROVE  /\ LiveTasks' = LiveTasks
         /\ OSTCBPrio' = OSTCBPrio => PrioOf' = PrioOf
         /\ OSTCBDly' = OSTCBDly => DelayOf' = DelayOf
         /\ OSTCBStat' = OSTCBStat => SuspendedTasks' = SuspendedTasks
         /\ progress' = progress => PcOf' = PcOf
         /\ OSLockNesting' = OSLockNesting => IsLocked' = IsLocked
<1>1. LiveTasks' = LiveTasks
  BY DEF LiveTasks, InList
<1>2. PcExact /\ PcExact'
  BY PcIsProgress, PTL
<1> QED
  BY <1>1, <1>2 DEF PcExact, PrioOf, DelayOf, SuspendedTasks, IsLocked

\* A priority without an entry in OSTCBPrioTbl belongs to no task.
LEMMA PrioIsFree ==
  ASSUME RefInv, NEW p \in AllPrios, OSTCBPrioTbl[p] = NULL
  PROVE  \A u \in LiveTasks : PrioOf[u] # p
<1>1. \A u \in TCBs : OSTCBPrioTbl[p] # u
  BY DEF TCBs, NULL
<1> QED
  BY <1>1 DEF RefInv, IInv, DataInv, PrioTblExact, PrioOf, LiveTasks

\* Unlinking takes one TCB out of a chain and leaves the others in it.
LEMMA UnlinkTakesOne ==
  ASSUME NEW S, NEW L \in Seq(S), NEW t, \E i \in 1..Len(L) : L[i] = t,
         \A i, j \in 1..Len(L) : L[i] = L[j] => i = j,
         NEW u
  PROVE  InChain(u, Unlink(t, L)) <=> InChain(u, L) /\ u # t
<1>1. PICK k \in 1..Len(L) :
        /\ L[k] = t /\ Len(Unlink(t, L)) = Len(L) - 1
        /\ \A i \in 1..(Len(L) - 1) :
             Unlink(t, L)[i] = IF i < k THEN L[i] ELSE L[i + 1]
  BY UnlinkCloses
<1>2. Len(L) \in Nat
  BY LenProperties
<1> DEFINE M == Unlink(t, L)
<1> HIDE DEF M
<1>3. ASSUME NEW i \in 1..Len(M), M[i] = u
      PROVE  InChain(u, L) /\ u # t
  <2>1. i \in 1..(Len(L) - 1) /\ M[i] = IF i < k THEN L[i] ELSE L[i + 1]
    BY <1>1 DEF M
  <2>2. i \in 1..Len(L) /\ i + 1 \in 1..Len(L)
    BY <1>2, <2>1
  <2>3. CASE i < k
    BY <1>1, <1>3, <2>1, <2>2, <2>3 DEF InChain
  <2>4. CASE ~(i < k)
    <3>1. u = L[i + 1] /\ i + 1 # k
      BY <1>1, <1>2, <1>3, <2>1, <2>4
    <3> QED
      BY <1>1, <2>2, <3>1 DEF InChain
  <2> QED
    BY <2>3, <2>4
<1>4. ASSUME NEW i \in 1..Len(L), L[i] = u, u # t
      PROVE  InChain(u, M)
  <2>1. i # k
    BY <1>1, <1>4
  <2>2. CASE i < k
    <3>1. i \in 1..(Len(L) - 1) /\ M[i] = L[i] /\ Len(M) = Len(L) - 1
      BY <1>1, <1>2, <2>2 DEF M
    <3> QED
      BY <1>4, <3>1 DEF InChain
  <2>3. CASE i > k
    <3>1. i - 1 \in 1..(Len(L) - 1) /\ ~(i - 1 < k) /\ (i - 1) + 1 = i
      BY <1>1, <1>2, <2>3
    <3>2. M[i - 1] = L[(i - 1) + 1] /\ Len(M) = Len(L) - 1
      BY <1>1, <3>1 DEF M
    <3> QED
      BY <1>4, <3>1, <3>2 DEF InChain
  <2> QED
    BY <1>2, <2>1, <2>2, <2>3
<1> QED
  BY <1>3, <1>4 DEF InChain, M

-----------------------------------------------------------------------------
(* Ticks, delays, and the running task *)

\* A tick brings every delayed task nearer to its end: the walk reaches it.
LEMMA TickMaps ==
  ASSUME RefInv, RefInv', OSTaskTimerISR
  PROVE  Sched!Tick
<1>1. /\ OSRunning /\ OSRunning' /\ OS_Sched(context_frame)
      /\ UNCHANGED <<OSTCBList, OSTCBPrio, OSLockNesting, progress>>
  BY DEF OSTaskTimerISR, OSTimeTick, listVars
<1>2. OSTCBDly \in [TCBs -> Nat] /\ OSTCBStat \in [TCBs -> SUBSET StatBits] /\ DataInv
  BY DEF RefInv, IInv, DataInv, DataTypes
<1>3. LiveTasks' = LiveTasks
  BY <1>1, MappedTogether
<1>4. DelayOf' = [t \in LiveTasks |-> IF DelayOf[t] > 0 THEN DelayOf[t] - 1 ELSE 0]
  <2>1. ASSUME NEW t \in LiveTasks
        PROVE  OSTCBDly'[t] = IF OSTCBDly[t] > 0 THEN OSTCBDly[t] - 1 ELSE 0
    <3>1. t \in TCBs /\ InList(t)
      BY DEF LiveTasks
    <3>2. OSTCBDly'[t] = IF t \in TickWalk /\ OSTCBDly[t] # 0 THEN OSTCBDly[t] - 1
                                                              ELSE OSTCBDly[t]
      BY <3>1 DEF OSTaskTimerISR, OSTimeTick
    <3>3. OSTCBDly[t] > 0 => t \in TickWalk
      BY <1>2, <3>1, WalkReachesDelayed
    <3>4. OSTCBDly[t] \in Nat
      BY <1>2, <3>1
    <3> QED
      BY <3>2, <3>3, <3>4
  <2> QED
    BY <1>3, <2>1 DEF DelayOf
<1>5. SuspendedTasks' = SuspendedTasks
  <2>1. ASSUME NEW t \in LiveTasks
        PROVE  "SUSPEND" \in OSTCBStat'[t] <=> "SUSPEND" \in OSTCBStat[t]
    <3>1. t \in TCBs
      BY DEF LiveTasks
    <3>2. OSTCBStat'[t] \in {OSTCBStat[t], OSTCBStat[t] \ OS_STAT_PEND_ANY}
      BY <3>1 DEF OSTaskTimerISR, OSTimeTick
    <3> QED
      BY <3>2 DEF OS_STAT_PEND_ANY
  <2> QED
    BY <1>3, <2>1 DEF SuspendedTasks
<1>6. UNCHANGED <<PrioOf, PcOf, IsLocked>>
  BY <1>1, MappedTogether
<1>7. Sched!Started /\ Sched!Dispatch
  BY <1>1, StartedIsRunning, Dispatches
<1> QED
  BY <1>3, <1>4, <1>5, <1>6, <1>7 DEF Sched!Tick

LEMMA WorkMaps ==
  ASSUME RefInv, RefInv', TaskStep
  PROVE  Sched!Work
<1>1. /\ OSRunning
      /\ UNCHANGED <<OSTCBList, OSTCBPrio, OSTCBDly, OSTCBStat, OSLockNesting, OSTCBCur>>
  BY DEF TaskStep, nestVars, listVars
<1>2. OSTCBCur \in LiveTasks /\ task_context_saved = ContextAt(OSTCBCur, progress)
  BY <1>1, CurrentTask DEF RefInv, CtxInv, LiveTasks
<1>3. progress' = [progress EXCEPT ![OSTCBCur] = (progress[OSTCBCur] + 1) % PcMod]
  BY <1>2 DEF TaskStep, ContextAt
<1>4. progress \in [TCBs -> 0..(PcMod - 1)]
  BY DEF RefInv, IInv, DataInv, DataTypes
<1>5. LiveTasks' = LiveTasks /\ UNCHANGED <<PrioOf, DelayOf, SuspendedTasks, IsLocked>>
  BY <1>1, MappedTogether
<1>6. PcExact /\ PcExact'
  BY PcIsProgress, PTL
<1>7. PcOf' = [PcOf EXCEPT ![OSTCBCur] = (@ + 1) % PcMod]
  BY <1>2, <1>3, <1>4, <1>5, <1>6 DEF PcExact, LiveTasks
<1> QED
  BY <1>1, <1>5, <1>7, StartedIsRunning DEF Sched!Work

LEMMA StartMaps ==
  ASSUME RefInv, RefInv', OSStart
  PROVE  Sched!Start
<1>1. /\ ~OSRunning /\ OSRunning'
      /\ UNCHANGED <<OSTCBList, OSTCBPrio, OSTCBDly, OSTCBStat, OSLockNesting, progress>>
  BY DEF OSStart, listVars
<1>2. /\ LiveTasks' = LiveTasks
      /\ UNCHANGED <<PrioOf, DelayOf, SuspendedTasks, PcOf, IsLocked>>
  BY <1>1, MappedTogether
<1>3. ~IsLocked'
  BY <1>1 DEF RefInv, IdleCPU, IsLocked
<1>4. CPUHasHighest'
  BY <1>1, <1>3, UnlockedCPU, PTL
<1>5. Sched!Dispatch
  BY <1>3, <1>4 DEF Sched!Dispatch, CPUHasHighest
<1> QED
  BY <1>1, <1>2, <1>5, StartedIsRunning DEF Sched!Start

LEMMA DelayMaps ==
  ASSUME RefInv, RefInv', NEW ticks \in 1..MaxDly, OSTimeDly(ticks)
  PROVE  Sched!Delay(ticks)
<1>1. /\ OSRunning /\ OSRunning' /\ OS_Sched(context_frame) /\ OSLockNesting = 0
      /\ UNCHANGED <<OSTCBList, OSTCBPrio, OSTCBStat, OSLockNesting, progress>>
      /\ OSTCBDly' = [OSTCBDly EXCEPT ![OSTCBCur] = ticks]
  BY DEF OSTimeDly, CanCall, nestVars, listVars
<1>2. LiveTasks' = LiveTasks /\ UNCHANGED <<PrioOf, SuspendedTasks, PcOf, IsLocked>>
  BY <1>1, MappedTogether
<1>3. OSTCBCur \in LiveTasks /\ OSTCBDly \in [TCBs -> Nat]
  BY <1>1, CurrentTask DEF RefInv, LiveTasks, IInv, DataInv, DataTypes
<1>4. DelayOf' = [DelayOf EXCEPT ![OSTCBCur] = ticks]
  BY <1>1, <1>2, <1>3 DEF DelayOf, LiveTasks
<1>5. Sched!Started /\ Sched!Dispatch /\ ~IsLocked
  BY <1>1, StartedIsRunning, Dispatches DEF IsLocked
<1> QED
  BY <1>2, <1>4, <1>5 DEF Sched!Delay

\* A delay ended early: suspended or not, the task waits for no time any more.
LEMMA DlyResumeMaps ==
  ASSUME RefInv, RefInv', NEW p \in AllPrios, OSTimeDlyResume(p)
  PROVE  \E t \in TCBs : Sched!EndDelay(t)
<1>1. OSTCBPrioTbl[p] # NULL
  BY DEF OSTimeDlyResume
<1>2. PICK t \in TCBs : t = OSTCBPrioTbl[p] /\ InList(t)
  BY <1>1, TaskOfPrio DEF RefInv, IInv
<1>3. /\ OSRunning /\ OSRunning'
      /\ UNCHANGED <<OSTCBList, OSTCBPrio, OSLockNesting, progress>>
      /\ OSTCBDly' = [OSTCBDly EXCEPT ![t] = 0]
      /\ OSTCBStat' = [OSTCBStat EXCEPT ![t] = OSTCBStat[t] \ OS_STAT_PEND_ANY]
  BY <1>2 DEF OSTimeDlyResume, CanCall, nestVars, listVars
<1>4. OSTCBCur' = OSTCBCur \/ OS_Sched(context_frame)
  BY DEF OSTimeDlyResume, dispatchVars
<1>5. LiveTasks' = LiveTasks /\ UNCHANGED <<PrioOf, PcOf, IsLocked>>
  BY <1>3, MappedTogether
<1>6. OSTCBDly \in [TCBs -> Nat] /\ OSTCBStat \in [TCBs -> SUBSET StatBits]
  BY DEF RefInv, IInv, DataInv, DataTypes
<1>7. t \in LiveTasks /\ DelayOf' = [DelayOf EXCEPT ![t] = 0]
  BY <1>2, <1>3, <1>5, <1>6 DEF DelayOf, LiveTasks
<1>8. SuspendedTasks' = SuspendedTasks
  BY <1>3, <1>5, <1>6 DEF SuspendedTasks, LiveTasks, OS_STAT_PEND_ANY
<1>9. Sched!Started /\ Sched!Dispatch
  BY <1>3, <1>4, StartedIsRunning, Dispatches
<1> QED
  BY <1>5, <1>7, <1>8, <1>9 DEF Sched!EndDelay

-----------------------------------------------------------------------------
(* Suspension, priorities, the lock *)

LEMMA SuspendMaps ==
  ASSUME RefInv, RefInv', NEW p \in AllPrios, OSTaskSuspend(p)
  PROVE  \E t \in TCBs : Sched!Suspend(t)
<1>1. OSTCBPrioTbl[p] # NULL /\ p # OS_TASK_IDLE_PRIO
  BY DEF OSTaskSuspend
<1>2. PICK t \in TCBs : t = OSTCBPrioTbl[p] /\ InList(t) /\ OSTCBPrio[t] = p
  BY <1>1, TaskOfPrio DEF RefInv, IInv
<1>3. /\ OSRunning /\ OSRunning'
      /\ UNCHANGED <<OSTCBList, OSTCBPrio, OSTCBDly, OSLockNesting, progress>>
      /\ OSTCBStat' = [OSTCBStat EXCEPT ![t] = OSTCBStat[t] \cup {"SUSPEND"}]
  BY <1>2 DEF OSTaskSuspend, CanCall, nestVars, listVars
<1>4. OSTCBCur' = OSTCBCur \/ OS_Sched(context_frame)
  BY DEF OSTaskSuspend, dispatchVars
<1>5. LiveTasks' = LiveTasks /\ UNCHANGED <<PrioOf, DelayOf, PcOf, IsLocked>>
  BY <1>3, MappedTogether
<1>6. OSTCBStat \in [TCBs -> SUBSET StatBits]
  BY DEF RefInv, IInv, DataInv, DataTypes
<1>7. t \in LiveTasks /\ PrioOf[t] # OS_TASK_IDLE_PRIO
  BY <1>1, <1>2 DEF PrioOf, LiveTasks
<1>8. SuspendedTasks' = SuspendedTasks \cup {t}
  BY <1>3, <1>5, <1>6, <1>7 DEF SuspendedTasks, LiveTasks
<1>9. Sched!Started /\ Sched!Dispatch
  BY <1>3, <1>4, StartedIsRunning, Dispatches
<1> QED
  BY <1>5, <1>7, <1>8, <1>9 DEF Sched!Suspend

LEMMA ResumeMaps ==
  ASSUME RefInv, RefInv', NEW p \in AllPrios, OSTaskResume(p)
  PROVE  \E t \in TCBs : Sched!Resume(t)
<1>1. OSTCBPrioTbl[p] # NULL
  BY DEF OSTaskResume
<1>2. PICK t \in TCBs : t = OSTCBPrioTbl[p]
  BY <1>1, TaskOfPrio DEF RefInv, IInv
<1>3. /\ OSRunning /\ OSRunning'
      /\ UNCHANGED <<OSTCBList, OSTCBPrio, OSTCBDly, OSLockNesting, progress>>
      /\ OSTCBStat' = [OSTCBStat EXCEPT ![t] = OSTCBStat[t] \ {"SUSPEND"}]
  BY <1>2 DEF OSTaskResume, CanCall, nestVars, listVars
<1>4. OSTCBCur' = OSTCBCur \/ OS_Sched(context_frame)
  BY DEF OSTaskResume, dispatchVars
<1>5. LiveTasks' = LiveTasks /\ UNCHANGED <<PrioOf, DelayOf, PcOf, IsLocked>>
  BY <1>3, MappedTogether
<1>6. OSTCBStat \in [TCBs -> SUBSET StatBits]
  BY DEF RefInv, IInv, DataInv, DataTypes
<1>7. SuspendedTasks' = SuspendedTasks \ {t}
  BY <1>3, <1>5, <1>6 DEF SuspendedTasks, LiveTasks
<1>8. Sched!Started /\ Sched!Dispatch
  BY <1>3, <1>4, StartedIsRunning, Dispatches
<1> QED
  BY <1>5, <1>7, <1>8 DEF Sched!Resume

LEMMA ChangePrioMaps ==
  ASSUME RefInv, RefInv', NEW oldprio \in AllPrios, NEW newprio \in AllPrios,
         OSTaskChangePrio(oldprio, newprio)
  PROVE  \E t \in TCBs : Sched!ChangePrio(t, newprio)
<1>1. /\ OSTCBPrioTbl[oldprio] # NULL /\ oldprio # OS_TASK_IDLE_PRIO
      /\ OSTCBPrioTbl[newprio] = NULL
  BY DEF OSTaskChangePrio
<1>2. PICK t \in TCBs : t = OSTCBPrioTbl[oldprio] /\ InList(t) /\ OSTCBPrio[t] = oldprio
  BY <1>1, TaskOfPrio DEF RefInv, IInv
<1>3. /\ OSRunning /\ OSRunning' /\ OS_Sched(context_frame)
      /\ UNCHANGED <<OSTCBList, OSTCBStat, OSTCBDly, OSLockNesting, progress>>
      /\ OSTCBPrio' = [OSTCBPrio EXCEPT ![t] = newprio]
  BY <1>2 DEF OSTaskChangePrio, CanCall, nestVars
<1>4. LiveTasks' = LiveTasks /\ UNCHANGED <<SuspendedTasks, DelayOf, PcOf, IsLocked>>
  BY <1>3, MappedTogether
<1>5. OSTCBPrio \in [TCBs -> Prios64]
  BY DEF RefInv, IInv, DataInv, DataTypes
<1>6. t \in LiveTasks /\ PrioOf[t] # OS_TASK_IDLE_PRIO
  BY <1>1, <1>2 DEF PrioOf, LiveTasks
<1>7. PrioOf' = [PrioOf EXCEPT ![t] = newprio]
  BY <1>3, <1>4, <1>5, <1>6 DEF PrioOf, LiveTasks
<1>8. \A u \in LiveTasks : PrioOf[u] # newprio
  BY <1>1, PrioIsFree
<1>9. Sched!Started /\ Sched!Dispatch
  BY <1>3, StartedIsRunning, Dispatches
<1> QED
  BY <1>4, <1>6, <1>7, <1>8, <1>9 DEF Sched!ChangePrio

LEMMA LockMaps ==
  ASSUME RefInv, RefInv', OSSchedLock \/ OSSchedUnlock
  PROVE  \E b \in BOOLEAN : Sched!SetLock(b)
<1>1. /\ OSRunning /\ OSRunning'
      /\ UNCHANGED <<OSTCBList, OSTCBPrio, OSTCBStat, OSTCBDly, progress>>
  BY DEF OSSchedLock, OSSchedUnlock, CanCall, listVars
<1>2. OSTCBCur' = OSTCBCur \/ OS_Sched(context_frame)
  BY DEF OSSchedLock, OSSchedUnlock, dispatchVars
<1>3. LiveTasks' = LiveTasks /\ UNCHANGED <<PrioOf, DelayOf, SuspendedTasks, PcOf>>
  BY <1>1, MappedTogether
<1>4. Sched!Started /\ Sched!Dispatch
  BY <1>1, <1>2, StartedIsRunning, Dispatches
<1>5. IsLocked' \in BOOLEAN
  BY DEF IsLocked
<1> QED
  BY <1>3, <1>4, <1>5 DEF Sched!SetLock

-----------------------------------------------------------------------------
(* Creation and deletion *)

\* A new task takes a TCB that had none, and changes nothing of the others.
LEMMA TCBInitMaps ==
  ASSUME RefInv, RefInv', NEW p \in AllPrios, OSTCBPrioTbl[p] = NULL,
         OS_TCBInit(p), UNCHANGED <<OSTime, nestVars>>,
         p = OS_TASK_IDLE_PRIO <=> OSTaskCtr = 0
  PROVE  \E t \in TCBs : Sched!Join(t, p)
<1>1. DataInv /\ DataTypes
  BY DEF RefInv, IInv, DataInv
<1>2. PICK n \in TCBs : n = Head(OSTCBFreeList) /\ ~InList(n)
  BY <1>1, TCBInitKeepsDataInv
<1>3. \A u \in TCBs : InChain(u, OSTCBList') <=> InList(u) \/ u = n
  BY <1>1, <1>2, TCBInitKeepsDataInv
<1>4. LiveTasks' = LiveTasks \cup {n} /\ n \notin LiveTasks
  BY <1>2, <1>3 DEF LiveTasks, InList, InChain
<1>5. /\ OSTCBPrio' = [OSTCBPrio EXCEPT ![n] = p]
      /\ OSTCBStat' = [OSTCBStat EXCEPT ![n] = OS_STAT_RDY]
      /\ OSTCBDly' = [OSTCBDly EXCEPT ![n] = 0]
      /\ progress' = [progress EXCEPT ![n] = 0]
  BY <1>2 DEF OS_TCBInit
<1>6. PrioOf' = [u \in LiveTasks' |-> IF u = n THEN p ELSE PrioOf[u]]
  <2>1. OSTCBPrio \in [TCBs -> Prios64]
    BY <1>1 DEF DataTypes
  <2> QED
    BY <1>4, <1>5, <2>1 DEF PrioOf, LiveTasks
<1>7. DelayOf' = [u \in LiveTasks' |-> IF u = n THEN 0 ELSE DelayOf[u]]
  <2>1. OSTCBDly \in [TCBs -> Nat]
    BY <1>1 DEF DataTypes
  <2> QED
    BY <1>4, <1>5, <2>1 DEF DelayOf, LiveTasks
<1>8. PcOf' = [u \in LiveTasks' |-> IF u = n THEN 0 ELSE PcOf[u]]
  <2>1. progress \in [TCBs -> 0..(PcMod - 1)]
    BY <1>1 DEF DataTypes
  <2>2. PcExact /\ PcExact'
    BY PcIsProgress, PTL
  <2> QED
    BY <1>4, <1>5, <2>1, <2>2 DEF PcExact, LiveTasks
<1>9. SuspendedTasks' = SuspendedTasks
  <2>1. OSTCBStat \in [TCBs -> SUBSET StatBits]
    BY <1>1 DEF DataTypes
  <2> QED
    BY <1>4, <1>5, <2>1 DEF SuspendedTasks, LiveTasks, OS_STAT_RDY
<1>10. \A u \in LiveTasks : PrioOf[u] # p
  BY PrioIsFree
<1>11. IsLocked' = IsLocked
  BY DEF IsLocked, nestVars
<1> QED
  BY <1>4, <1>6, <1>7, <1>8, <1>9, <1>10, <1>11 DEF Sched!Join

LEMMA ConfigureMaps ==
  ASSUME RefInv, RefInv', PartitionAdd
  PROVE  \E t \in TCBs, p \in AllPrios : Sched!Configure(t, p)
<1> DEFINE p == BootPrios[OSTaskCtr + 1]
<1>1. /\ ~OSRunning /\ OSTCBPrioTbl[p] = NULL /\ OS_TCBInit(p)
      /\ UNCHANGED <<OSTime, nestVars>> /\ OSTCBCur' = OSTCBCur
  BY DEF PartitionAdd, NoSwitch
<1>2. p \in AllPrios /\ (p = OS_TASK_IDLE_PRIO <=> OSTaskCtr = 0)
  BY BootTaskIsNext DEF RefInv
<1> HIDE DEF p
<1>3. \E t \in TCBs : Sched!Join(t, p)
  BY <1>1, <1>2, TCBInitMaps
<1> QED
  BY <1>1, <1>2, <1>3, StartedIsRunning DEF Sched!Configure

LEMMA CreateMaps ==
  ASSUME RefInv, RefInv', NEW p \in AllPrios, OSTaskCreate(p) \/ OSTaskCreateExt(p)
  PROVE  \E t \in TCBs : Sched!Create(t, p)
<1>1. /\ OSRunning /\ OSTCBPrioTbl[p] = NULL /\ OS_TCBInit(p)
      /\ UNCHANGED <<OSTime, nestVars>> /\ OS_Sched(FramesWithNewTask)
  BY DEF OSTaskCreate, OSTaskCreateExt, CreateTask, CanCall
<1>2. p = OS_TASK_IDLE_PRIO <=> OSTaskCtr = 0
  BY <1>1, RunningKeepsIdle DEF RefInv
<1>3. \E t \in TCBs : Sched!Join(t, p)
  BY <1>1, <1>2, TCBInitMaps
<1>4. Sched!Started /\ Sched!Dispatch
  <2>1. OSRunning'
    BY <1>1 DEF nestVars
  <2> QED
    BY <1>1, <2>1, StartedIsRunning, Dispatches
<1> QED
  BY <1>3, <1>4 DEF Sched!Create

\* OSTaskDel takes away one task, and with NestMax above 1 its own use of the
\* scheduler lock leaves the caller's as it was.
LEMMA DeleteMaps ==
  ASSUME LockedSelfCalls = {}, NestMax > 1,
         RefInv, RefInv', NEW p \in AllPrios, OSTaskDel(p)
  PROVE  \E t \in TCBs : Sched!Delete(t)
<1>1. OSTCBPrioTbl[p] # NULL /\ p # OS_TASK_IDLE_PRIO /\ DataInv /\ DataTypes
  BY DEF OSTaskDel, RefInv, IInv, DataInv
<1>2. PICK t \in TCBs : t = OSTCBPrioTbl[p] /\ InList(t) /\ OSTCBPrio[t] = p
  BY <1>1, TaskOfPrio DEF RefInv, IInv
<1>3. /\ OSRunning /\ OSRunning' /\ OS_Sched(context_frame)
      /\ UNCHANGED <<OSTCBPrio, progress>>
      /\ OSTCBDly' = [OSTCBDly EXCEPT ![t] = 0]
      /\ OSTCBStat' = [OSTCBStat EXCEPT ![t] = OS_STAT_RDY]
      /\ OSTCBList' = Unlink(t, OSTCBList)
      /\ OSLockNesting' = AfterDelLock(OSLockNesting)
  BY <1>2 DEF OSTaskDel, CanCall, nestVars
<1>4. LiveTasks' = LiveTasks \ {t} /\ t \in LiveTasks
  <2>1. /\ OSTCBList \in Seq(TCBs) /\ \E i \in 1..Len(OSTCBList) : OSTCBList[i] = t
        /\ \A i, j \in 1..Len(OSTCBList) : OSTCBList[i] = OSTCBList[j] => i = j
    BY <1>1, <1>2 DEF DataInv, DataTypes, ListInv, InList
  <2>2. ASSUME NEW u
        PROVE  InChain(u, OSTCBList') <=> InList(u) /\ u # t
    <3>1. InChain(u, Unlink(t, OSTCBList)) <=> InChain(u, OSTCBList) /\ u # t
      BY <2>1, UnlinkTakesOne
    <3> QED
      BY <1>3, <3>1 DEF InList, InChain
  <2> QED
    BY <1>2, <2>2 DEF LiveTasks, InList, InChain
<1>5. IsLocked' = IsLocked
  <2>1. OSLockNesting \in 0..NestMax /\ NestMax \in Nat
    BY <1>1, ConstantsAssumption DEF DataTypes
  <2> QED
    BY <1>3, <2>1 DEF IsLocked, AfterDelLock
<1>6. IsLocked => t # OSTCBCur
  BY <1>2 DEF OSTaskDel, OnSelfLocked, IsLocked
<1>7. PrioOf' = [u \in LiveTasks' |-> PrioOf[u]] /\ PrioOf[t] # OS_TASK_IDLE_PRIO
  BY <1>1, <1>2, <1>3, <1>4 DEF PrioOf
<1>8. DelayOf' = [u \in LiveTasks' |-> DelayOf[u]]
  <2>1. OSTCBDly \in [TCBs -> Nat]
    BY <1>1 DEF DataTypes
  <2> QED
    BY <1>3, <1>4, <2>1 DEF DelayOf, LiveTasks
<1>9. SuspendedTasks' = SuspendedTasks \ {t}
  <2>1. OSTCBStat \in [TCBs -> SUBSET StatBits]
    BY <1>1 DEF DataTypes
  <2> QED
    BY <1>3, <1>4, <2>1 DEF SuspendedTasks, LiveTasks
<1>10. PcOf' = [u \in LiveTasks' |-> PcOf[u]]
  <2>1. PcExact /\ PcExact'
    BY PcIsProgress, PTL
  <2> QED
    BY <1>3, <1>4, <2>1 DEF PcExact
<1>11. Sched!Started /\ Sched!Dispatch
  BY <1>3, StartedIsRunning, Dispatches
<1> QED
  BY <1>4, <1>5, <1>6, <1>7, <1>8, <1>9, <1>10, <1>11 DEF Sched!Delete

-----------------------------------------------------------------------------
(* The theorem *)

\* Calls that change nothing a task can see.
LEMMA UnseenCalls ==
  ASSUME RefInv, RefInv',
         \/ UNCHANGED vars
         \/ \E ticks \in 0..(TimeMod - 1) : OSTimeSet(ticks)
         \/ \E p \in AllPrios : OSTaskDelReq(p)
  PROVE  UNCHANGED Sched!svars
<1>1. UNCHANGED <<OSTCBList, OSTCBPrio, OSTCBDly, OSTCBStat, OSLockNesting, progress, OSTCBCur>>
  BY DEF OSTimeSet, OSTaskDelReq, vars, nestVars, listVars, dispatchVars
<1> QED
  BY <1>1, MappedTogether DEF Sched!svars

LEMMA NextMaps ==
  ASSUME LockedSelfCalls = {}, NestMax > 1, RefInv, RefInv', [Next]_vars
  PROVE  [Sched!SchedNext]_(Sched!svars)
<1>1. CASE PartitionAdd
  BY <1>1, ConfigureMaps DEF Sched!SchedNext
<1>2. CASE OSStart
  BY <1>2, StartMaps DEF Sched!SchedNext
<1>3. CASE OSTaskTimerISR
  BY <1>3, TickMaps DEF Sched!SchedNext
<1>4. CASE TaskStep
  BY <1>4, WorkMaps DEF Sched!SchedNext
<1>5. CASE SystemCall
  <2>1. CASE \E ticks \in 1..MaxDly : OSTimeDly(ticks)
    BY <2>1, DelayMaps DEF Sched!SchedNext
  <2>2. CASE \E p \in AllPrios : OSTimeDlyResume(p)
    BY <2>2, DlyResumeMaps DEF Sched!SchedNext
  <2>3. CASE \E p \in AllPrios : OSTaskCreate(p) \/ OSTaskCreateExt(p)
    BY <2>3, CreateMaps DEF Sched!SchedNext
  <2>4. CASE \E p \in AllPrios : OSTaskDel(p)
    BY <2>4, DeleteMaps DEF Sched!SchedNext
  <2>5. CASE \E p \in AllPrios : OSTaskSuspend(p)
    BY <2>5, SuspendMaps DEF Sched!SchedNext
  <2>6. CASE \E p \in AllPrios : OSTaskResume(p)
    BY <2>6, ResumeMaps DEF Sched!SchedNext
  <2>7. CASE \E p, q \in AllPrios : OSTaskChangePrio(p, q)
    BY <2>7, ChangePrioMaps DEF Sched!SchedNext
  <2>8. CASE OSSchedLock \/ OSSchedUnlock
    BY <2>8, LockMaps DEF Sched!SchedNext
  <2>9. CASE \/ \E ticks \in 0..(TimeMod - 1) : OSTimeSet(ticks)
             \/ \E p \in AllPrios : OSTaskDelReq(p)
    BY <2>9, UnseenCalls
  <2> QED
    BY <1>5, <2>1, <2>2, <2>3, <2>4, <2>5, <2>6, <2>7, <2>8, <2>9 DEF SystemCall
<1>6. CASE UNCHANGED vars
  BY <1>6, UnseenCalls
<1> QED
  BY <1>1, <1>2, <1>3, <1>4, <1>5, <1>6 DEF Next

\* The kernel, with its bitmap, chains, tables and contexts, keeps the promise
\* of PrioScheduler, provided that no task deletes itself or moves its own
\* priority under the lock and the lock counts beyond 1.
THEOREM KernelImplementsScheduler ==
  ASSUME LockedSelfCalls = {}, NestMax > 1
  PROVE  Spec => ImplementsPrioScheduler
<1>1. Init => Sched!SchedInit
  <2> SUFFICES ASSUME Init
               PROVE  Sched!SchedInit
    OBVIOUS
  <2>1. LiveTasks = {}
    BY DEF Init, LiveTasks, InList
  <2> QED
    BY <2>1 DEF Init, Sched!SchedInit, PrioOf, DelayOf, SuspendedTasks, PcOf, IsLocked
<1>2. RefInv /\ RefInv' /\ [Next]_vars => [Sched!SchedNext]_(Sched!svars)
  BY NextMaps
<1> QED
  BY <1>1, <1>2, RefinementInvariant, PTL DEF Spec, ImplementsPrioScheduler, Sched!SchedSpec
=============================================================================
